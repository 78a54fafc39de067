-------------------------- MODULE RndSessionProofs --------------------------
(***************************************************************************)
(* The safety of a cycle's driver and budget, for any number of phases, runs, *)
(* proxy threads, events and tokens.  The first half is about the ledger, and  *)
(* the second about the driver and the pipes; it takes from the first that the *)
(* director calls between two phases only.                                    *)
(***************************************************************************)
EXTENDS RndSession, SequenceTheorems, TLAPS

-----------------------------------------------------------------------------
(* The budget. *)

Granting  == Slots \cup {Director}
InFlight(s) == IF call[s].at = "sent" THEN call[s].tokens ELSE 0
Tolerated == Budget + excess + (IF raced THEN MaxSingle ELSE 0)

\* What is used and what may still be used by calls that were granted: one of the
\* proxy's threads, which the lock keeps apart, and one of the director.
GrantsFit ==
    /\ used \in Nat /\ excess \in Nat /\ raced \in BOOLEAN
    /\ call \in [Granting -> Calls]
    /\ \A s \in Granting : InFlight(s) <= MaxSingle
    /\ used + InFlight(Director) <= Tolerated
    /\ \A s \in Slots : used + InFlight(s) + InFlight(Director) <= Tolerated

CallsApart ==
    /\ \A s \in Slots : call[s].at = "sent" => reqlock = s
    /\ ~raced => \A s \in Slots : ~(call[s].at = "sent" /\ call[Director].at = "sent")

\* The director calls between two phases.
ReviewHeld == call[Director].at = "sent" => task = "between"

BudgetInv == GrantsFit /\ CallsApart /\ ReviewHeld

\* The guard grants no more than is left, nor more than one request may take.
LEMMA LimitFits ==
    ASSUME NEW u \in Nat, NEW p, NEW prompt \in Prompts, NEW desired \in Nat
    PROVE  /\ Limit(u, p, prompt, desired) \in Nat
           /\ Limit(u, p, prompt, desired) <= MaxSingle
           /\ Limit(u, p, prompt, desired) # 0 => u + Limit(u, p, prompt, desired) <= Budget
  <1>0. Budget \in Nat /\ MaxSingle \in Nat /\ prompt \in Nat
    BY BudgetAssumption
  <1>1. Reserve \in Nat
    BY <1>0 DEF Reserve
  <1>2. /\ Allowed(u, p) \in Nat /\ Allowed(u, p) <= MaxSingle
        /\ Allowed(u, p) # 0 => u + Allowed(u, p) <= Budget
    BY <1>0, <1>1 DEF Allowed, Least, Minus
  <1> DEFINE cap == Least(desired, Minus(Allowed(u, p), prompt))
  <1>3. cap \in Nat /\ (cap >= 1 => prompt + cap <= Allowed(u, p))
    BY <1>0, <1>2 DEF Least, Minus
  <1>4. Limit(u, p, prompt, desired) \in {0, prompt + cap}
        /\ (Limit(u, p, prompt, desired) # 0 => cap >= 1)
    BY <1>0, <1>3 DEF Limit
  <1> HIDE DEF cap
  <1> QED
    BY <1>0, <1>2, <1>3, <1>4

LEMMA Thread ==
    ASSUME NEW s \in Slots
    PROVE  s \in Granting /\ Director \in Granting /\ s # Director /\ s # Free
  BY BudgetAssumption DEF Granting

LEMMA BudgetStarts == BudgetInit => BudgetInv
  <1> SUFFICES ASSUME BudgetInit PROVE BudgetInv
    OBVIOUS
  <1>1. call \in [Granting -> Calls] /\ \A s \in Granting : call[s] = NoCall
    BY DEF BudgetInit, NoCall, Calls, Granting
  <1>2. \A s \in Granting : InFlight(s) = 0
    BY <1>1 DEF InFlight, NoCall
  <1>3. Tolerated = Budget
    BY BudgetAssumption DEF BudgetInit, Tolerated
  <1>4. Budget \in Nat /\ MaxSingle \in Nat /\ used = 0 /\ excess = 0 /\ raced = FALSE
    BY BudgetAssumption DEF BudgetInit
  <1>5. \A s \in Slots : used + InFlight(s) + InFlight(Director) <= Tolerated
    BY <1>2, <1>3, <1>4, Thread
  <1>6. GrantsFit
    <2>1. \A s \in Granting : InFlight(s) <= MaxSingle
      BY <1>2, <1>4
    <2>2. used + InFlight(Director) <= Tolerated
      BY <1>2, <1>3, <1>4 DEF Granting
    <2> QED
      BY <1>1, <1>4, <1>5, <2>1, <2>2 DEF GrantsFit
  <1> QED
    BY <1>1, <1>6 DEF BudgetInit, BudgetInv, CallsApart, ReviewHeld, NoCall, Granting

\* A thread asks.
LEMMA RequestKept ==
    ASSUME NEW s \in Slots, BudgetInv, Request(s)
    PROVE  BudgetInv'
  <1>1. /\ UNCHANGED <<used, reqlock, excess, raced, task>> /\ call[s].at = "none"
        /\ call' = [call EXCEPT ![s].at = "asked"]
    BY DEF Request, Post, sessionVars, taskVars
  <1>2. /\ call' \in [Granting -> Calls] /\ call'[s].at = "asked"
        /\ \A r \in Granting \ {s} : call'[r] = call[r]
    BY <1>1, Thread DEF BudgetInv, GrantsFit, Calls
  <1>3. InFlight(s)' = 0 /\ InFlight(s) = 0
    BY <1>1, <1>2 DEF InFlight
  <1>4. \A r \in Granting \ {s} : InFlight(r)' = InFlight(r)
    BY <1>2 DEF InFlight
  <1>5. GrantsFit'
    BY <1>1, <1>2, <1>3, <1>4, Thread DEF BudgetInv, GrantsFit, Tolerated
  <1>6. CallsApart' /\ ReviewHeld'
    BY <1>1, <1>2, Thread DEF BudgetInv, CallsApart, ReviewHeld
  <1> QED
    BY <1>5, <1>6 DEF BudgetInv

\* A thread is granted its call, or refused; no other thread has one.
LEMMA GrantKept ==
    ASSUME NEW s \in Slots, BudgetInv, Granted(s)
    PROVE  BudgetInv'
  <1>0. PICK p \in {purpose, "rnd_research"} : Grant(s, p)
    BY DEF Granted
  <1>1. /\ reqlock = Free /\ call[s].at = "asked" /\ UNCHANGED <<used, excess, task>>
    BY <1>0 DEF Grant, Granted, sessionVars, taskVars
  <1>2. PICK prompt \in Prompts :
          \/ /\ call' = [call EXCEPT ![s] = NoCall]
             /\ UNCHANGED <<reqlock, raced>>
          \/ /\ Limit(used, p, prompt, MaxSingle) # 0
             /\ call' = [call EXCEPT ![s] = Sent(Limit(used, p, prompt, MaxSingle))]
             /\ reqlock' = s /\ raced' = (raced \/ call[Director].at = "sent")
    BY <1>0 DEF Grant, Decide
  <1> DEFINE tokens == Limit(used, p, prompt, MaxSingle)
  <1>3. /\ tokens \in Nat /\ tokens <= MaxSingle
        /\ tokens # 0 => used + tokens <= Budget
    BY LimitFits, BudgetAssumption DEF BudgetInv, GrantsFit
  <1>4. \A r \in Slots : call[r].at # "sent"
    BY <1>1, Thread DEF BudgetInv, CallsApart
  <1>5. \A r \in Granting \ {s} : call'[r] = call[r]
    BY <1>2 DEF BudgetInv, GrantsFit
  <1>6. \A r \in Granting \ {s} : InFlight(r)' = InFlight(r)
    BY <1>5 DEF InFlight
  <1> HIDE DEF tokens
  <1>a. CASE call' = [call EXCEPT ![s] = NoCall] /\ UNCHANGED <<reqlock, raced>>
    <2>1. call' \in [Granting -> Calls] /\ call'[s] = NoCall
      BY <1>a, Thread DEF BudgetInv, GrantsFit, NoCall, Calls
    <2>2. InFlight(s)' = 0 /\ InFlight(s) = 0
      BY <1>1, <2>1 DEF InFlight, NoCall
    <2>3. GrantsFit'
      BY <1>1, <1>6, <1>a, <2>1, <2>2, Thread DEF BudgetInv, GrantsFit, Tolerated
    <2>4. CallsApart' /\ ReviewHeld'
      BY <1>1, <1>5, <1>a, <2>1, Thread DEF BudgetInv, CallsApart, ReviewHeld, NoCall
    <2> QED
      BY <2>3, <2>4 DEF BudgetInv
  <1>b. CASE /\ tokens # 0 /\ call' = [call EXCEPT ![s] = Sent(tokens)]
             /\ reqlock' = s /\ raced' = (raced \/ call[Director].at = "sent")
    <2>1. call' \in [Granting -> Calls] /\ call'[s] = Sent(tokens)
      BY <1>3, <1>b, Thread DEF BudgetInv, GrantsFit, Sent, Calls
    <2>2. InFlight(s)' = tokens
      BY <2>1 DEF InFlight, Sent
    <2>3. \A r \in Slots \ {s} : InFlight(r)' = 0
      BY <1>4, <1>6, Thread DEF InFlight
    <2>4. InFlight(Director)' = InFlight(Director) /\ InFlight(Director) \in Nat
          /\ (InFlight(Director) = 0 \/ raced')
      BY <1>6, <1>b, Thread DEF InFlight, BudgetInv, GrantsFit, Calls
    <2>5. Tolerated' \in Nat /\ Tolerated' >= Tolerated
          /\ (raced' => Tolerated' = Budget + excess + MaxSingle)
      BY <1>1, <1>b, BudgetAssumption DEF Tolerated, BudgetInv, GrantsFit
    <2>6. used + tokens + InFlight(Director) <= Tolerated'
      BY <1>1, <1>3, <1>b, <2>4, <2>5, BudgetAssumption, Thread DEF BudgetInv, GrantsFit, Tolerated
    <2>7. GrantsFit'
      BY <1>1, <1>3, <1>6, <1>b, <2>1, <2>2, <2>3, <2>4, <2>5, <2>6, BudgetAssumption, Thread
         DEF BudgetInv, GrantsFit
    <2>8. CallsApart' /\ ReviewHeld'
      BY <1>1, <1>4, <1>5, <1>b, <2>1, Thread DEF BudgetInv, CallsApart, ReviewHeld
    <2> QED
      BY <2>7, <2>8 DEF BudgetInv
  <1> QED
    BY <1>2, <1>a, <1>b DEF tokens

\* The director is granted its call, perhaps beside one of a thread.
LEMMA ReviewKept ==
    ASSUME BudgetInv, Review
    PROVE  BudgetInv'
  <1>1. /\ task = "between" /\ call[Director].at = "none"
        /\ UNCHANGED <<used, reqlock, excess, task>>
        /\ raced' = (raced \/ \E s \in Slots : call[s].at = "sent")
    BY DEF Review, DirectorAsks, sessionVars, taskVars
  <1>2. PICK prompt \in Prompts :
          /\ Limit(used, "rnd_design", prompt, MaxReview) # 0
          /\ call' = [call EXCEPT ![Director] = Sent(Limit(used, "rnd_design", prompt, MaxReview))]
    BY DEF Review, DirectorAsks
  <1> DEFINE tokens == Limit(used, "rnd_design", prompt, MaxReview)
  <1>3. tokens \in Nat /\ tokens <= MaxSingle /\ used + tokens <= Budget
    BY <1>2, LimitFits, BudgetAssumption DEF BudgetInv, GrantsFit
  <1> HIDE DEF tokens
  <1>4. /\ call' \in [Granting -> Calls] /\ call'[Director] = Sent(tokens)
        /\ \A r \in Slots : call'[r] = call[r]
    BY <1>2, <1>3, Thread DEF BudgetInv, GrantsFit, Sent, Calls, Granting, tokens
  <1>5. InFlight(Director)' = tokens /\ \A r \in Slots : InFlight(r)' = InFlight(r)
    BY <1>4 DEF InFlight, Sent
  <1>6. \A r \in Slots : InFlight(r) \in Nat /\ InFlight(r) <= MaxSingle /\ (InFlight(r) = 0 \/ raced')
    BY <1>1, Thread DEF InFlight, BudgetInv, GrantsFit, Calls
  <1>7. /\ Tolerated' \in Nat /\ Tolerated' >= Budget
        /\ raced' => Tolerated' = Budget + excess + MaxSingle
    BY <1>1, BudgetAssumption DEF Tolerated, BudgetInv, GrantsFit
  <1>8. \A r \in Slots : used + InFlight(r) + tokens <= Tolerated'
    BY <1>1, <1>3, <1>6, <1>7, BudgetAssumption DEF BudgetInv, GrantsFit
  <1>9. GrantsFit'
    BY <1>1, <1>3, <1>4, <1>5, <1>6, <1>7, <1>8, BudgetAssumption DEF BudgetInv, GrantsFit, Granting
  <1>10. CallsApart' /\ ReviewHeld'
    BY <1>1, <1>4 DEF BudgetInv, CallsApart, ReviewHeld, Sent
  <1> QED
    BY <1>9, <1>10 DEF BudgetInv

\* A call ends: what it took beyond its grant is excess.
LEMMA CallEnds ==
    ASSUME NEW s \in Granting, BudgetInv, Answered(s) \/ Broken(s),
           UNCHANGED task \/ call'[Director].at = "none"
    PROVE  BudgetInv'
  <1>1. /\ call' = [call EXCEPT ![s] = NoCall] /\ reqlock' = (IF reqlock = s THEN Free ELSE reqlock)
        /\ UNCHANGED raced
    BY DEF Answered, Broken, HangUp
  <1>2. /\ call' \in [Granting -> Calls] /\ call'[s] = NoCall
        /\ \A r \in Granting \ {s} : call'[r] = call[r]
    BY <1>1 DEF BudgetInv, GrantsFit, NoCall, Calls
  <1>3. InFlight(s)' = 0 /\ \A r \in Granting \ {s} : InFlight(r)' = InFlight(r)
    BY <1>2 DEF InFlight, NoCall
  <1>4. \A r \in Granting : InFlight(r) \in Nat
    BY DEF InFlight, BudgetInv, GrantsFit, Calls
  <1>5. /\ used' \in Nat /\ excess' \in Nat
        /\ excess' >= excess
        /\ used' + excess <= used + InFlight(s) + excess'
    <2>1. CASE UNCHANGED <<used, excess>>
      BY <1>4, <2>1 DEF BudgetInv, GrantsFit
    <2>2. CASE \E t \in Usages : /\ used' = used + t /\ excess' = excess + Minus(t, call[s].tokens)
                                /\ call[s].at = "sent"
      <3>1. PICK t \in Usages : /\ used' = used + t /\ excess' = excess + Minus(t, call[s].tokens)
                                /\ call[s].at = "sent"
        BY <2>2
      <3>2. t \in Nat /\ call[s].tokens \in Nat /\ InFlight(s) = call[s].tokens
        BY <3>1, BudgetAssumption DEF BudgetInv, GrantsFit, Calls, InFlight
      <3> QED
        BY <3>1, <3>2 DEF BudgetInv, GrantsFit, Minus
    <2> QED
      BY <2>1, <2>2 DEF Answered, Broken
  <1>6. Tolerated \in Nat /\ Tolerated' = Tolerated + (excess' - excess)
    BY <1>1, <1>5, BudgetAssumption DEF Tolerated, BudgetInv, GrantsFit
  <1>7. GrantsFit'
    <2>1. \A r \in Granting : InFlight(r)' <= MaxSingle
      BY <1>3, BudgetAssumption DEF BudgetInv, GrantsFit
    <2>2. used' + InFlight(Director)' <= Tolerated'
      BY <1>3, <1>4, <1>5, <1>6, Thread DEF BudgetInv, GrantsFit, Granting
    <2>3. \A r \in Slots : used' + InFlight(r)' + InFlight(Director)' <= Tolerated'
      <3>1. CASE s = Director
        BY <1>3, <1>4, <1>5, <1>6, <3>1, Thread DEF BudgetInv, GrantsFit
      <3>2. CASE s \in Slots /\ call[s].at = "sent"
        <4>1. \A r \in Slots \ {s} : InFlight(r) = 0
          BY <3>2 DEF BudgetInv, CallsApart, InFlight
        <4> QED
          BY <1>3, <1>4, <1>5, <1>6, <3>2, <4>1, Thread DEF BudgetInv, GrantsFit
      <3>3. CASE s \in Slots /\ call[s].at # "sent"
        <4>1. InFlight(s) = 0
          BY <3>3 DEF InFlight
        <4>2. \A r \in Slots : InFlight(r)' = InFlight(r)
          BY <1>3, <4>1, Thread
        <4>3. InFlight(Director)' = InFlight(Director) /\ InFlight(Director) \in Nat
          BY <1>3, <1>4, <3>3, Thread
        <4>4. used \in Nat /\ excess \in Nat
          BY DEF BudgetInv, GrantsFit
        <4>6. used' + excess <= used + excess'
          <5> DEFINE n == InFlight(s)
          <5>1. used' \in Nat /\ excess' \in Nat /\ n = 0 /\ used' + excess <= used + n + excess'
            BY <1>5, <4>1
          <5> HIDE DEF n
          <5> QED
            BY <4>4, <5>1
        <4>5. \A r \in Slots : used + InFlight(r) + InFlight(Director) <= Tolerated /\ InFlight(r) \in Nat
          BY <1>4, Thread DEF BudgetInv, GrantsFit
        <4> TAKE r \in Slots
        <4>7. used + InFlight(r) + InFlight(Director) <= Tolerated /\ InFlight(r) \in Nat
          BY <4>5
        <4>8. used' \in Nat /\ excess' \in Nat
          BY <1>5
        <4>9. used' + InFlight(r) + InFlight(Director) <= Tolerated'
          <5> DEFINE i == InFlight(r)
                     d == InFlight(Director)
                     t == Tolerated
                     u == Tolerated'
          <5>1. i \in Nat /\ d \in Nat /\ t \in Nat /\ u = t + (excess' - excess) /\ used + i + d <= t
            BY <1>6, <4>3, <4>7
          <5> HIDE DEF i, d, t, u
          <5>2. used' + i + d <= u
            BY <4>4, <4>6, <4>8, <5>1
          <5> QED
            BY <5>2 DEF i, d, u
        <4>10. InFlight(r)' = InFlight(r)
          BY <4>2
        <4> QED
          BY <4>3, <4>9, <4>10
      <3> QED
        BY <3>1, <3>2, <3>3 DEF Granting
    <2> QED
      BY <1>1, <1>2, <1>5, <2>1, <2>2, <2>3 DEF BudgetInv, GrantsFit
  <1>8. CallsApart'
    BY <1>1, <1>2, Thread DEF BudgetInv, CallsApart, NoCall, Granting
  <1>9. ReviewHeld'
    BY <1>2, Thread DEF BudgetInv, ReviewHeld, NoCall, Granting
  <1> QED
    BY <1>7, <1>8, <1>9 DEF BudgetInv

\* The calls are as they were, and the director's call holds the task.
LEMMA CallsKept ==
    ASSUME BudgetInv, UNCHANGED <<used, call, reqlock, excess, raced>>,
           call[Director].at = "sent" => UNCHANGED task
    PROVE  BudgetInv'
  BY DEF BudgetInv, GrantsFit, CallsApart, ReviewHeld, InFlight, Tolerated

\* A new process has no calls.
LEMMA ResumeClears ==
    ASSUME BudgetInv, Resume
    PROVE  BudgetInv'
  <1>1. \A s \in Granting : call'[s] = NoCall
    BY DEF Resume, Granting
  <1>2. call' \in [Granting -> Calls]
    BY DEF Resume, Granting, NoCall, Calls
  <1>3. \A s \in Granting : InFlight(s)' = 0
    BY <1>1 DEF InFlight, NoCall
  <1>4. \A s \in Granting : InFlight(s) \in Nat
    BY DEF InFlight, BudgetInv, GrantsFit, Calls
  <1>5. used <= Tolerated /\ UNCHANGED <<used, excess, raced>> /\ Tolerated' = Tolerated
    BY <1>4, Thread, BudgetAssumption DEF BudgetInv, GrantsFit, Granting, Resume, Tolerated
  <1> QED
    BY <1>1, <1>2, <1>3, <1>5, Thread, BudgetAssumption
       DEF BudgetInv, GrantsFit, CallsApart, ReviewHeld, NoCall, Granting

LEMMA BudgetStep ==
    ASSUME BudgetInv, [Next]_vars
    PROVE  BudgetInv'
  <1> DEFINE calls == <<used, call, reqlock, excess, raced>>
  <1>1. CASE SessionStep
    <2>1. UNCHANGED calls
      BY <1>1 DEF SessionStep, budgetVars
    <2>2. call[Director].at = "sent" => UNCHANGED task
      BY <1>1 DEF SessionStep, BudgetInv, ReviewHeld, Reviewing, Launched, LaunchFails, ReadOther,
          PhaseEnds, SuspendSends, SuspendAnswered, SuspendCloses, SuspendOver, Finally, Terminated,
          TerminateCloses
    <2> QED
      BY <2>1, <2>2, CallsKept
  <1>2. CASE DriverStep \/ (StopSaves /\ UNCHANGED <<budgetVars, runs>>)
    <2>1. UNCHANGED <<calls, task>>
      BY <1>2 DEF DriverStep, DriverStarts, DriverTakes, DriverEvent, DriverEnds, DriverDies,
          StopSaves, budgetVars, taskVars
    <2> QED
      BY <2>1, CallsKept
  <1>3. CASE Serve \/ BeginStep \/ CancelAgain \/ CloseBegins \/ CloseEnds \/ CancelClose \/ ReviewRefused
    <2>1. UNCHANGED calls
      BY <1>3 DEF Serve, ProxyStart, BeginStep, SetPhase, CancelAgain, CloseBegins, ProxyStops,
          CloseEnds, ProxyClosed, CancelClose, ReviewRefused, DirectorRefused, budgetVars
    <2>2. call[Director].at = "sent" => UNCHANGED task
      BY <1>3 DEF Serve, BeginStep, Reviewing, CancelAgain, CancelSuspending, CancelFinally,
          CloseBegins, CloseEnds, CancelClose, ReviewRefused, DirectorRefused, BudgetInv, ReviewHeld,
          sessionVars, taskVars
    <2> QED
      BY <2>1, <2>2, CallsKept
  <1>4. CASE CancelStep
    <2>1. CASE call[Director].at = "sent"
      <3>1. Broken(Director)
        BY <1>4, <2>1 DEF CancelStep, Reviewing
      <3>2. call'[Director].at = "none"
        BY <3>1 DEF Broken, HangUp, NoCall, BudgetInv, GrantsFit, Granting
      <3> QED
        BY <3>1, <3>2, CallEnds DEF Granting
    <2>2. CASE call[Director].at # "sent"
      BY <1>4, <2>2, CallsKept DEF CancelStep, Reviewing, budgetVars
    <2> QED
      BY <2>1, <2>2
  <1>5. CASE Review \/ Resume
    BY <1>5, ReviewKept, ResumeClears
  <1>6. CASE ReviewEnds
    <2>1. Answered(Director) \/ Broken(Director)
      BY <1>6 DEF ReviewEnds
    <2>2. call'[Director].at = "none"
      BY <2>1 DEF Answered, Broken, HangUp, NoCall, BudgetInv, GrantsFit, Granting
    <2> QED
      BY <2>1, <2>2, CallEnds DEF Granting
  <1>7. CASE \E s \in Slots : Request(s) \/ Granted(s) \/ Ends(s)
    BY <1>7, RequestKept, GrantKept, CallEnds DEF Ends, sessionVars, taskVars, Granting
  <1>8. CASE UNCHANGED vars
    BY <1>8, CallsKept DEF vars, sessionVars, taskVars, budgetVars
  <1> QED
    BY <1>1, <1>2, <1>3, <1>4, <1>5, <1>6, <1>7, <1>8 DEF Next

THEOREM BudgetInvariant == Spec => []BudgetInv
  <1>1. Init => BudgetInv
    BY BudgetStarts DEF Init
  <1>2. BudgetInv /\ [Next]_vars => BudgetInv'
    BY BudgetStep
  <1> QED
    BY <1>1, <1>2, PTL DEF Spec

(* What the ledger of a cycle exceeds its budget by is what answers took beyond their *)
(* grants, and one request more at most if the director and a thread called the       *)
(* provider side by side, over any number of runs, threads and reviews.               *)
THEOREM BudgetHolds == Spec => []BudgetKept
  <1>1. BudgetInv => BudgetKept
    <2>1. ASSUME BudgetInv PROVE InFlight(Director) \in Nat
      BY <2>1 DEF InFlight, BudgetInv, GrantsFit, Calls, Granting
    <2> QED
      BY <2>1, BudgetAssumption DEF BudgetInv, GrantsFit, Tolerated, BudgetKept
  <1> QED
    BY <1>1, BudgetInvariant, PTL

-----------------------------------------------------------------------------
(* The driver: what its pipes may hold. *)

Types      == {"event", "completed", "failed", "error", "closed"}
Live       == {"begin", "between", "launch", "wait"}
Unfinished == Live \cup {"suspending"}

\* What may be behind a suspension that is marked as done.
Stated == ailing \/ \E c \in finished : c.type = "suspend"

\* What may lie in the pipes.  An answer names a command that was sent, and a
\* completion one that is completed; neither a phase that was given up nor one
\* that failed answers the suspend() that is waited for.
Sound ==
    {m \in [id : Nat, type : Types] :
        /\ m.id < next
        /\ m.type = "completed" => [id |-> m.id, type |-> "work"] \in finished
        /\ m.type \in {"completed", "failed"} => m.id # 0 /\ (sus = "wait" => m.id # want)
        /\ m.type = "error" => ailing
        /\ m.type = "closed" => \E c \in finished : c.type # "work"}

Pending ==
    {c \in [id : Nat, type : {"work", "suspend", "terminate", "eof"}] :
        /\ c.id < next
        /\ c.type = "work" => c.id # 0 /\ (sus = "wait" => c.id # want)
        /\ task \in Unfinished => c.type \in {"work", "suspend"}}

PipesSound ==
    /\ next \in Nat \ {0} /\ want \in Nat /\ busy \in Nat
    /\ want < next /\ busy < next
    /\ sus = "wait" => busy = 0 \/ busy # want
    /\ outbox \in Seq(Sound)
    /\ inbox \in Seq(Pending)

\* Until the finally nobody terminates the driver, so that it ends because it was
\* told to suspend or because it died; a suspension rests on one of the two.
Meant ==
    /\ task \in Unfinished => \A c \in finished : c.type \in {"work", "suspend"}
    /\ task \in Unfinished /\ (proc = "exited" \/ sus \in {"close", "answered"}) => Stated
    /\ marked => Stated /\ sus = "answered"

\* Who suspends or terminates has the lock, and nobody suspends a task that runs.
LockKept ==
    /\ lock \in {"free", "run", "suspend", "end"}
    /\ task \in Live => sus = "none"
    /\ lock = "run" => task \in {"launch", "wait"}
    /\ lock = "suspend" <=> sus \in {"wait", "close"}
    /\ lock = "end" <=> task \in {"terminating", "closing"}

\* Where pipes were closed there is no driver, and where one was told to end it has
\* not forgotten it.
ToldToEnd == \E i \in 1..Len(inbox) : inbox[i].type # "work"

Leaving ==
    /\ sus = "answered" \/ task = "unserve" \/ (task = "over" /\ ~cut) => proc = "none" /\ busy = 0
    /\ sus \in {"wait", "close"} \/ task \in {"terminating", "closing"} \/ (task = "over" /\ cut) =>
          (proc \in {"starting", "up"} => ToldToEnd)

SessionInv == PipesSound /\ Meant /\ LockKept /\ Leaving /\ OwnAnswers

-----------------------------------------------------------------------------
(* The pipes. *)

\* A longer life of the session leaves what lies in the pipes sound.
LEMMA PipesKept ==
    ASSUME PipesSound, Sound \subseteq Sound', Pending \subseteq Pending'
    PROVE  outbox \in Seq(Sound') /\ inbox \in Seq(Pending')
  <1>1. \A q \in Seq(Sound) : q \in Seq(Sound')
    BY SeqMonotonic
  <1>2. \A q \in Seq(Pending) : q \in Seq(Pending')
    BY SeqMonotonic
  <1> QED
    BY <1>1, <1>2 DEF PipesSound

LEMMA SessionStarts == SessionInit => SessionInv
  BY EmptySeq DEF SessionInit, SessionInv, PipesSound, Meant, LockKept, Leaving, OwnAnswers, Unfinished, Live

\* The first message of a pipe is sound, and so is the rest.
LEMMA Heads ==
    ASSUME PipesSound
    PROVE  /\ outbox # <<>> => Head(outbox) \in Sound /\ Tail(outbox) \in Seq(Sound)
           /\ inbox # <<>> => Head(inbox) \in Pending /\ Tail(inbox) \in Seq(Pending)
  BY HeadTailProperties DEF PipesSound

\* A command to end is one of those in the pipe, and stays until it is taken.
LEMMA EndSent ==
    ASSUME PipesSound, NEW c, c.type # "work"
    PROVE  \E i \in 1..Len(Append(inbox, c)) : Append(inbox, c)[i].type # "work"
  BY AppendProperties DEF PipesSound

LEMMA EndStays ==
    ASSUME PipesSound, ToldToEnd, inbox # <<>>, Head(inbox).type = "work"
    PROVE  \E i \in 1..Len(Tail(inbox)) : Tail(inbox)[i].type # "work"
  <1>1. PICK i \in 1..Len(inbox) : inbox[i].type # "work"
    BY DEF ToldToEnd
  <1>2. i # 1 /\ Len(inbox) \in Nat
    BY <1>1, LenProperties DEF PipesSound
  <1>3. i - 1 \in 1..Len(Tail(inbox)) /\ Tail(inbox)[i - 1] = inbox[i]
    BY <1>2, HeadTailProperties DEF PipesSound
  <1> QED
    BY <1>1, <1>3

LEMMA EndKeptBeside ==
    ASSUME PipesSound, ToldToEnd, NEW c
    PROVE  \E i \in 1..Len(Append(inbox, c)) : Append(inbox, c)[i].type # "work"
  <1>1. PICK i \in 1..Len(inbox) : inbox[i].type # "work"
    BY DEF ToldToEnd
  <1>2. i \in 1..Len(Append(inbox, c)) /\ Append(inbox, c)[i] = inbox[i]
    BY AppendProperties DEF PipesSound
  <1> QED
    BY <1>1, <1>2

LEMMA SessionStutters ==
    ASSUME SessionInv, UNCHANGED sessionVars
    PROVE  SessionInv'
  <1>1. UNCHANGED <<inbox, busy, outbox, chat, finished, ailing, proc, lock, want, next,
                    task, sus, handler, row, marked, told, cut>>
    BY DEF sessionVars, driverVars, adapterVars, taskVars
  <1>2. Sound' = Sound /\ Pending' = Pending
    BY <1>1 DEF Sound, Pending
  <1>3. PipesSound' = PipesSound
    BY <1>1, <1>2 DEF PipesSound
  <1>4. Meant' = Meant /\ OwnAnswers' = OwnAnswers
    BY <1>1 DEF Meant, Stated, OwnAnswers
  <1>5. LockKept' = LockKept /\ Leaving' = Leaving
    BY <1>1 DEF LockKept, Leaving, ToldToEnd
  <1> QED
    BY <1>3, <1>4, <1>5 DEF SessionInv

\* The driver says that it is there.
LEMMA StartKept ==
    ASSUME SessionInv, DriverStarts
    PROVE  SessionInv'
  <1> USE DEF DriverStarts, Emit, taskVars
  <1>1. Sound \subseteq Sound'
    BY DEF Sound
  <1>2. Pending \subseteq Pending'
    BY DEF Pending, Unfinished, Live
  <1>3. outbox \in Seq(Sound') /\ inbox \in Seq(Pending')
    BY <1>1, <1>2, PipesKept DEF SessionInv
  <1>4. outbox' \in Seq(Sound')
    <2>1. [id |-> 0, type |-> "event"] \in Sound'
      BY DEF SessionInv, PipesSound, Sound, Types
    <2> QED
      BY <1>3, <2>1, AppendProperties
  <1>5. inbox' \in Seq(Pending')
    BY <1>3
  <1>6. PipesSound'
    BY <1>4, <1>5 DEF SessionInv, PipesSound
  <1>7. Meant'
    BY DEF SessionInv, Meant, Stated, Unfinished, Live
  <1>8. LockKept'
    BY DEF SessionInv, LockKept, Live
  <1>9. Leaving'
    BY DEF SessionInv, Leaving, ToldToEnd
  <1>10. OwnAnswers'
    BY DEF SessionInv, OwnAnswers
  <1> QED
    BY <1>6, <1>7, <1>8, <1>9, <1>10 DEF SessionInv

\* It reports on its work.
LEMMA EventKept ==
    ASSUME SessionInv, DriverEvent
    PROVE  SessionInv'
  <1> USE DEF DriverEvent, Emit, adapterVars, taskVars
  <1>1. Sound \subseteq Sound'
    BY DEF Sound
  <1>2. Pending \subseteq Pending'
    BY DEF Pending, Unfinished, Live
  <1>3. outbox \in Seq(Sound') /\ inbox \in Seq(Pending')
    BY <1>1, <1>2, PipesKept DEF SessionInv
  <1>4. outbox' \in Seq(Sound')
    <2>1. [id |-> busy, type |-> "event"] \in Sound'
      BY DEF SessionInv, PipesSound, Sound, Types
    <2> QED
      BY <1>3, <2>1, AppendProperties
  <1>5. inbox' \in Seq(Pending')
    BY <1>3
  <1>6. PipesSound'
    BY <1>4, <1>5 DEF SessionInv, PipesSound
  <1>7. Meant'
    BY DEF SessionInv, Meant, Stated, Unfinished, Live
  <1>8. LockKept'
    BY DEF SessionInv, LockKept, Live
  <1>9. Leaving'
    BY DEF SessionInv, Leaving, ToldToEnd
  <1>10. OwnAnswers'
    BY DEF SessionInv, OwnAnswers
  <1> QED
    BY <1>6, <1>7, <1>8, <1>9, <1>10 DEF SessionInv

\* It dies.
LEMMA DeathKept ==
    ASSUME SessionInv, DriverDies
    PROVE  SessionInv'
  <1> USE DEF DriverDies, Alive, taskVars
  <1>1. Sound \subseteq Sound'
    BY DEF Sound
  <1>2. Pending \subseteq Pending'
    BY DEF Pending, Unfinished, Live
  <1>3. outbox \in Seq(Sound') /\ inbox \in Seq(Pending')
    BY <1>1, <1>2, PipesKept DEF SessionInv
  <1>4. outbox' \in Seq(Sound')
    BY <1>3
  <1>5. inbox' \in Seq(Pending')
    BY <1>3, EmptySeq
  <1>6. PipesSound'
    BY <1>4, <1>5 DEF SessionInv, PipesSound
  <1>7. Meant'
    BY DEF SessionInv, Meant, Stated, Unfinished, Live
  <1>8. LockKept'
    BY DEF SessionInv, LockKept, Live
  <1>9. Leaving'
    BY DEF SessionInv, Leaving, ToldToEnd
  <1>10. OwnAnswers'
    BY DEF SessionInv, OwnAnswers
  <1> QED
    BY <1>6, <1>7, <1>8, <1>9, <1>10 DEF SessionInv

\* It takes a command: a task is begun; to suspend or to terminate is to exit, or
\* to get stuck.
LEMMA TakeKept ==
    ASSUME SessionInv, DriverTakes
    PROVE  SessionInv'
  <1> DEFINE c == Head(inbox)
  <1>0. /\ c \in Pending /\ Tail(inbox) \in Seq(Pending) /\ outbox \in Seq(Sound)
        /\ proc = "up" /\ busy = 0 /\ inbox # <<>> /\ PipesSound
        /\ UNCHANGED <<chat, lock, want, next, taskVars>>
    BY Heads DEF SessionInv, PipesSound, DriverTakes
  <1> HIDE DEF c
  <1>1. Sound \subseteq Sound'
    BY <1>0 DEF Sound, taskVars, DriverTakes
  <1>2. Pending' = Pending
    BY <1>0 DEF Pending, taskVars
  <1>3. OwnAnswers' /\ LockKept'
    BY <1>0 DEF SessionInv, OwnAnswers, LockKept, taskVars, DriverTakes
  <1>a. CASE c.type = "work"
    <2>0. busy' = c.id /\ inbox' = Tail(inbox) /\ UNCHANGED <<proc, outbox, finished, ailing>>
      BY <1>a DEF DriverTakes, c
    <2>1. PipesSound'
      BY <1>0, <1>a, <1>1, <1>2, <2>0, SeqMonotonic DEF PipesSound, Pending, taskVars
    <2>2. Meant'
      BY <1>0, <2>0 DEF SessionInv, Meant, Stated, taskVars
    <2>3. ToldToEnd => ToldToEnd'
      BY <1>0, <1>a, <2>0, EndStays DEF ToldToEnd, c
    <2>4. Leaving'
      BY <1>0, <2>0, <2>3 DEF SessionInv, Leaving, taskVars
    <2> QED
      BY <1>3, <2>1, <2>2, <2>4 DEF SessionInv
  <1>b. CASE c.type # "work" /\ proc' = "exited"
    <2>0. /\ outbox' = Append(outbox, [id |-> c.id, type |-> "closed"])
          /\ finished' = finished \cup {c} /\ inbox' = <<>> /\ UNCHANGED <<busy, ailing>>
      BY <1>b DEF DriverTakes, c, Emit
    <2>1. [id |-> c.id, type |-> "closed"] \in Sound'
      BY <1>0, <1>b, <2>0 DEF Sound, Pending, Types, taskVars
    <2>2. outbox' \in Seq(Sound')
      BY <1>0, <1>1, <2>0, <2>1, SeqMonotonic, AppendProperties
    <2>3. PipesSound'
      BY <1>0, <2>0, <2>2, EmptySeq DEF PipesSound, taskVars
    <2>4. Meant'
      BY <1>0, <1>b, <2>0 DEF SessionInv, Meant, Stated, Pending, taskVars
    <2>5. Leaving'
      BY <1>0, <1>b, <2>0 DEF SessionInv, Leaving, taskVars
    <2> QED
      BY <1>3, <2>3, <2>4, <2>5 DEF SessionInv
  <1>d. CASE c.type # "work" /\ proc' = "stuck"
    <2>0. /\ outbox' = Append(outbox, [id |-> 0, type |-> "error"])
          /\ inbox' = Tail(inbox) /\ ailing' = TRUE /\ UNCHANGED <<busy, finished>>
      BY <1>d DEF DriverTakes, c, Emit
    <2>1. [id |-> 0, type |-> "error"] \in Sound'
      BY <1>0, <2>0 DEF Sound, PipesSound, Types, taskVars
    <2>2. outbox' \in Seq(Sound')
      BY <1>0, <1>1, <2>0, <2>1, SeqMonotonic, AppendProperties
    <2>3. PipesSound'
      BY <1>0, <1>2, <2>0, <2>2 DEF PipesSound, taskVars
    <2>4. Meant'
      BY <1>0, <2>0 DEF SessionInv, Meant, Stated, taskVars
    <2>5. Leaving'
      BY <1>0, <1>d, <2>0 DEF SessionInv, Leaving, taskVars
    <2> QED
      BY <1>3, <2>3, <2>4, <2>5 DEF SessionInv
  <1> QED
    BY <1>a, <1>b, <1>d DEF DriverTakes, c

\* Its turn ends.
LEMMA EndKept ==
    ASSUME SessionInv, DriverEnds
    PROVE  SessionInv'
  <1> USE DEF adapterVars, taskVars
  <1>0. PICK t \in {"completed", "failed", "error"} :
          /\ outbox' = Append(outbox, [id |-> IF t = "error" THEN 0 ELSE busy, type |-> t])
          /\ finished' = (IF t = "completed" THEN finished \cup {[id |-> busy, type |-> "work"]} ELSE finished)
          /\ ailing => ailing'
          /\ t = "error" => ailing'
    BY DEF DriverEnds, Emit
  <1>a. proc = "up" /\ busy # 0 /\ busy' = 0 /\ UNCHANGED <<inbox, adapterVars, taskVars>>
    BY DEF DriverEnds
  <1>1. Sound \subseteq Sound'
    BY <1>0, <1>a DEF Sound
  <1>2. Pending \subseteq Pending'
    BY <1>a DEF Pending
  <1>3. outbox \in Seq(Sound') /\ inbox \in Seq(Pending')
    BY <1>1, <1>2, PipesKept DEF SessionInv
  <1>4. outbox' \in Seq(Sound')
    <2>1. [id |-> IF t = "error" THEN 0 ELSE busy, type |-> t] \in Sound'
      BY <1>0, <1>a DEF Sound, Types, SessionInv, PipesSound
    <2> QED
      BY <1>0, <1>3, <2>1, AppendProperties
  <1>5. inbox' \in Seq(Pending')
    BY <1>a, <1>3
  <1>6. PipesSound'
    BY <1>4, <1>5, <1>a DEF SessionInv, PipesSound
  <1>7. Meant'
    BY <1>0, <1>a DEF SessionInv, Meant, Stated, Unfinished, Live
  <1>8. LockKept'
    BY <1>a DEF SessionInv, LockKept, Live
  <1>9. Leaving'
    BY <1>a DEF SessionInv, Leaving, ToldToEnd
  <1>10. OwnAnswers'
    BY <1>0, <1>a DEF SessionInv, OwnAnswers
  <1> QED
    BY <1>6, <1>7, <1>8, <1>9, <1>10 DEF SessionInv

-----------------------------------------------------------------------------
(* The adapter. *)

\* A phase begins: with a new driver, or with a command for the old one.
LEMMA BeginKept ==
    ASSUME SessionInv, Begin
    PROVE  SessionInv'
  <1> USE DEF Begin, Take, Send
  <1>1. Sound \subseteq Sound'
    BY DEF SessionInv, PipesSound, LockKept, Live, Sound
  <1>2. Pending \subseteq Pending'
    BY DEF SessionInv, PipesSound, LockKept, Live, Unfinished, Pending
  <1>3. outbox \in Seq(Sound') /\ inbox \in Seq(Pending')
    BY <1>1, <1>2, PipesKept DEF SessionInv
  <1>4. outbox' \in Seq(Sound')
    BY <1>3, EmptySeq
  <1>5. inbox' \in Seq(Pending')
    <2>1. next' = next + 1 => [id |-> next, type |-> "work"] \in Pending'
      BY DEF SessionInv, PipesSound, LockKept, Pending, Live, Unfinished
    <2>2. inbox' = <<>> \/ (next' = next + 1 /\ inbox' = Append(inbox, [id |-> next, type |-> "work"]))
      OBVIOUS
    <2>3. CASE inbox' = <<>>
      BY <2>3, EmptySeq
    <2>4. CASE next' = next + 1 /\ inbox' = Append(inbox, [id |-> next, type |-> "work"])
      BY <1>3, <2>1, <2>4, AppendProperties
    <2> QED
      BY <2>2, <2>3, <2>4
  <1>6. PipesSound'
    BY <1>4, <1>5 DEF SessionInv, PipesSound, LockKept, Live
  <1>7. Meant'
    BY DEF SessionInv, Meant, Stated, Unfinished, Live
  <1>8. LockKept'
    BY DEF SessionInv, LockKept, Live
  <1>9. Leaving'
    BY DEF SessionInv, Leaving, ToldToEnd, LockKept, Live
  <1>10. OwnAnswers'
    BY DEF SessionInv, OwnAnswers
  <1> QED
    BY <1>6, <1>7, <1>8, <1>9, <1>10 DEF SessionInv

\* The driver is ready and gets its command.
LEMMA LaunchKept ==
    ASSUME SessionInv, Launched
    PROVE  SessionInv'
  <1> USE DEF Launched, Send
  <1>1. Sound \subseteq Sound'
    BY DEF SessionInv, PipesSound, LockKept, Live, Sound
  <1>2. Pending \subseteq Pending'
    BY DEF SessionInv, PipesSound, LockKept, Live, Unfinished, Pending
  <1>3. outbox \in Seq(Sound') /\ inbox \in Seq(Pending')
    BY <1>1, <1>2, PipesKept DEF SessionInv
  <1>4. outbox' \in Seq(Sound')
    <2>1. outbox # <<>> => Tail(outbox) \in Seq(Sound')
      BY <1>1, Heads, SeqMonotonic DEF SessionInv
    <2> QED
      BY <1>3, <2>1
  <1>5. inbox' \in Seq(Pending')
    <2>1. next' = next + 1 => [id |-> next, type |-> "work"] \in Pending'
      BY DEF SessionInv, PipesSound, LockKept, Pending, Live, Unfinished
    <2> QED
      BY <1>3, <2>1, EmptySeq, AppendProperties
  <1>6. PipesSound'
    BY <1>4, <1>5 DEF SessionInv, PipesSound, LockKept, Live
  <1>7. Meant'
    BY DEF SessionInv, Meant, Stated, Unfinished, Live
  <1>8. LockKept'
    BY DEF SessionInv, LockKept, Live
  <1>9. Leaving'
    BY DEF SessionInv, Leaving, ToldToEnd, LockKept, Live
  <1>10. OwnAnswers'
    BY DEF SessionInv, OwnAnswers
  <1> QED
    BY <1>6, <1>7, <1>8, <1>9, <1>10 DEF SessionInv

\* It is not.
LEMMA LaunchFailKept ==
    ASSUME SessionInv, LaunchFails
    PROVE  SessionInv'
  <1> USE DEF LaunchFails, Leave, Release, CloseStreams
  <1>1. Sound \subseteq Sound'
    BY DEF Sound
  <1>2. Pending \subseteq Pending'
    BY DEF Pending, Unfinished, Live
  <1>3. outbox \in Seq(Sound') /\ inbox \in Seq(Pending')
    BY <1>1, <1>2, PipesKept DEF SessionInv
  <1>4. outbox' \in Seq(Sound')
    BY <1>3, EmptySeq
  <1>5. inbox' \in Seq(Pending')
    BY <1>3, EmptySeq
  <1>6. PipesSound'
    BY <1>4, <1>5 DEF SessionInv, PipesSound
  <1>7. Meant'
    BY DEF SessionInv, Meant, Stated, Unfinished, Live
  <1>8. LockKept'
    BY DEF SessionInv, LockKept, Live
  <1>9. Leaving'
    BY DEF SessionInv, Leaving, ToldToEnd, LockKept, Live
  <1>10. OwnAnswers'
    BY DEF SessionInv, OwnAnswers
  <1> QED
    BY <1>6, <1>7, <1>8, <1>9, <1>10 DEF SessionInv

\* A phase ends: completed only by the completion of its own command.
LEMMA PhaseKept ==
    ASSUME SessionInv, PhaseEnds
    PROVE  SessionInv'
  <1> USE DEF PhaseEnds, Leave, Release, Waited, Answers
  <1>0. outbox # <<>> => Head(outbox) \in Sound
    BY Heads DEF SessionInv
  <1>1. Sound \subseteq Sound'
    BY DEF Sound
  <1>2. Pending \subseteq Pending'
    BY DEF Pending, Unfinished, Live
  <1>3. outbox \in Seq(Sound') /\ inbox \in Seq(Pending')
    BY <1>1, <1>2, PipesKept DEF SessionInv
  <1>4. outbox' \in Seq(Sound')
    <2>1. outbox # <<>> => Tail(outbox) \in Seq(Sound')
      BY <1>1, Heads, SeqMonotonic DEF SessionInv
    <2> QED
      BY <1>3, <2>1
  <1>5. inbox' \in Seq(Pending')
    BY <1>3
  <1>6. PipesSound'
    BY <1>4, <1>5 DEF SessionInv, PipesSound
  <1>7. Meant'
    BY DEF SessionInv, Meant, Stated, Unfinished, Live
  <1>8. LockKept'
    BY DEF SessionInv, LockKept, Live
  <1>9. Leaving'
    BY DEF SessionInv, Leaving, ToldToEnd, LockKept, Live
  <1>10. OwnAnswers'
    BY <1>0 DEF SessionInv, OwnAnswers, Sound
  <1> QED
    BY <1>6, <1>7, <1>8, <1>9, <1>10 DEF SessionInv

\* A message that nobody waits for is dropped.
LEMMA OtherKept ==
    ASSUME SessionInv, ReadOther
    PROVE  SessionInv'
  <1> USE DEF ReadOther, adapterVars
  <1>1. Sound \subseteq Sound'
    BY DEF Sound
  <1>2. Pending \subseteq Pending'
    BY DEF Pending, Unfinished, Live
  <1>3. outbox \in Seq(Sound') /\ inbox \in Seq(Pending')
    BY <1>1, <1>2, PipesKept DEF SessionInv
  <1>4. outbox' \in Seq(Sound')
    <2>1. outbox # <<>> => Tail(outbox) \in Seq(Sound')
      BY <1>1, Heads, SeqMonotonic DEF SessionInv
    <2> QED
      BY <1>3, <2>1
  <1>5. inbox' \in Seq(Pending')
    BY <1>3
  <1>6. PipesSound'
    BY <1>4, <1>5 DEF SessionInv, PipesSound
  <1>7. Meant'
    BY DEF SessionInv, Meant, Stated, Unfinished, Live
  <1>8. LockKept'
    BY DEF SessionInv, LockKept, Live
  <1>9. Leaving'
    BY DEF SessionInv, Leaving, ToldToEnd
  <1>10. OwnAnswers'
    BY DEF SessionInv, OwnAnswers
  <1> QED
    BY <1>6, <1>7, <1>8, <1>9, <1>10 DEF SessionInv

\* There is no next phase.
LEMMA ConcludeKept ==
    ASSUME SessionInv, Conclude
    PROVE  SessionInv'
  <1> USE DEF Conclude, Leave, driverVars, adapterVars
  <1>1. Sound \subseteq Sound'
    BY DEF Sound
  <1>2. Pending \subseteq Pending'
    BY DEF Pending, Unfinished, Live
  <1>3. outbox \in Seq(Sound') /\ inbox \in Seq(Pending')
    BY <1>1, <1>2, PipesKept DEF SessionInv
  <1>4. outbox' \in Seq(Sound')
    BY <1>3
  <1>5. inbox' \in Seq(Pending')
    BY <1>3
  <1>6. PipesSound'
    BY <1>4, <1>5 DEF SessionInv, PipesSound
  <1>7. Meant'
    BY DEF SessionInv, Meant, Stated, Unfinished, Live
  <1>8. LockKept'
    BY DEF SessionInv, LockKept, Live
  <1>9. Leaving'
    BY DEF SessionInv, Leaving, ToldToEnd
  <1>10. OwnAnswers'
    BY DEF SessionInv, OwnAnswers
  <1> QED
    BY <1>6, <1>7, <1>8, <1>9, <1>10 DEF SessionInv

\* The task is cancelled.
LEMMA CancelKept ==
    ASSUME SessionInv, Cancel
    PROVE  SessionInv'
  <1> USE DEF Cancel, Alive, driverVars
  <1>1. Sound \subseteq Sound'
    BY DEF Sound
  <1>2. Pending \subseteq Pending'
    BY DEF Pending, Unfinished, Live
  <1>3. outbox \in Seq(Sound') /\ inbox \in Seq(Pending')
    BY <1>1, <1>2, PipesKept DEF SessionInv
  <1>4. outbox' \in Seq(Sound')
    BY <1>3
  <1>5. inbox' \in Seq(Pending')
    BY <1>3
  <1>6. PipesSound'
    BY <1>4, <1>5 DEF SessionInv, PipesSound
  <1>7. Meant'
    BY DEF SessionInv, Meant, Stated, Unfinished, Live, LockKept
  <1>8. LockKept'
    BY DEF SessionInv, LockKept, Live
  <1>9. Leaving'
    BY DEF SessionInv, Leaving, ToldToEnd, LockKept, Live
  <1>10. OwnAnswers'
    BY DEF SessionInv, OwnAnswers
  <1> QED
    BY <1>6, <1>7, <1>8, <1>9, <1>10 DEF SessionInv

\* suspend() sends its command, or finds no driver.
LEMMA SendKept ==
    ASSUME SessionInv, SuspendSends
    PROVE  SessionInv'
  <1> USE DEF SuspendSends, Take, Send, Alive
  <1>1. Sound \subseteq Sound'
    BY DEF SessionInv, PipesSound, Sound
  <1>2. Pending \subseteq Pending'
    BY DEF SessionInv, PipesSound, Pending
  <1>3. outbox \in Seq(Sound') /\ inbox \in Seq(Pending')
    BY <1>1, <1>2, PipesKept DEF SessionInv
  <1>4. outbox' \in Seq(Sound')
    BY <1>3
  <1>5. inbox' \in Seq(Pending')
    <2>1. next' = next + 1 => [id |-> next, type |-> "suspend"] \in Pending'
      BY DEF SessionInv, PipesSound, Pending
    <2> QED
      BY <1>3, <2>1, AppendProperties
  <1>6. PipesSound'
    BY <1>4, <1>5 DEF SessionInv, PipesSound
  <1>7. Meant'
    BY DEF SessionInv, Meant, Stated, Unfinished, Live
  <1>8. LockKept'
    BY DEF SessionInv, LockKept, Live
  <1>9. Leaving'
    BY EndSent DEF SessionInv, Leaving, ToldToEnd
  <1>10. OwnAnswers'
    BY DEF SessionInv, OwnAnswers
  <1> QED
    BY <1>6, <1>7, <1>8, <1>9, <1>10 DEF SessionInv

\* It has its answer: no phase has given it.
LEMMA SuspendAnswerKept ==
    ASSUME SessionInv, SuspendAnswered
    PROVE  SessionInv'
  <1> USE DEF SuspendAnswered, Waited, Answers, Release
  <1>0. outbox # <<>> => Head(outbox) \in Sound
    BY Heads DEF SessionInv
  <1>1. Sound \subseteq Sound'
    BY DEF Sound
  <1>2. Pending \subseteq Pending'
    BY DEF Pending, Unfinished, Live
  <1>3. outbox \in Seq(Sound') /\ inbox \in Seq(Pending')
    BY <1>1, <1>2, PipesKept DEF SessionInv
  <1>4. outbox' \in Seq(Sound')
    <2>1. outbox # <<>> => Tail(outbox) \in Seq(Sound')
      BY <1>1, Heads, SeqMonotonic DEF SessionInv
    <2> QED
      BY <1>3, <2>1
  <1>5. inbox' \in Seq(Pending')
    BY <1>3
  <1>6. PipesSound'
    BY <1>4, <1>5 DEF SessionInv, PipesSound
  <1>7. Meant'
    BY <1>0 DEF SessionInv, Meant, Stated, Unfinished, Live, Sound, Types
  <1>8. LockKept'
    BY DEF SessionInv, LockKept, Live
  <1>9. Leaving'
    BY DEF SessionInv, Leaving, ToldToEnd
  <1>10. OwnAnswers'
    BY DEF SessionInv, OwnAnswers
  <1> QED
    BY <1>6, <1>7, <1>8, <1>9, <1>10 DEF SessionInv

\* It closes the pipes.
LEMMA SuspendCloseKept ==
    ASSUME SessionInv, SuspendCloses
    PROVE  SessionInv'
  <1> USE DEF SuspendCloses, CloseStreams, Release
  <1>1. Sound \subseteq Sound'
    BY DEF Sound
  <1>2. Pending \subseteq Pending'
    BY DEF Pending, Unfinished, Live
  <1>3. outbox \in Seq(Sound') /\ inbox \in Seq(Pending')
    BY <1>1, <1>2, PipesKept DEF SessionInv
  <1>4. outbox' \in Seq(Sound')
    BY <1>3, EmptySeq
  <1>5. inbox' \in Seq(Pending')
    BY <1>3, EmptySeq
  <1>6. PipesSound'
    BY <1>4, <1>5 DEF SessionInv, PipesSound
  <1>7. Meant'
    BY DEF SessionInv, Meant, Stated, Unfinished, Live
  <1>8. LockKept'
    BY DEF SessionInv, LockKept, Live
  <1>9. Leaving'
    BY DEF SessionInv, Leaving, ToldToEnd, LockKept, Live
  <1>10. OwnAnswers'
    BY DEF SessionInv, OwnAnswers
  <1> QED
    BY <1>6, <1>7, <1>8, <1>9, <1>10 DEF SessionInv

\* The task goes on to its finally.
LEMMA SuspendOverKept ==
    ASSUME SessionInv, SuspendOver
    PROVE  SessionInv'
  <1> USE DEF SuspendOver, Leave, driverVars, adapterVars
  <1>1. Sound \subseteq Sound'
    BY DEF Sound
  <1>2. Pending \subseteq Pending'
    BY DEF Pending, Unfinished, Live
  <1>3. outbox \in Seq(Sound') /\ inbox \in Seq(Pending')
    BY <1>1, <1>2, PipesKept DEF SessionInv
  <1>4. outbox' \in Seq(Sound')
    BY <1>3
  <1>5. inbox' \in Seq(Pending')
    BY <1>3
  <1>6. PipesSound'
    BY <1>4, <1>5 DEF SessionInv, PipesSound
  <1>7. Meant'
    BY DEF SessionInv, Meant, Stated, Unfinished, Live
  <1>8. LockKept'
    BY DEF SessionInv, LockKept, Live
  <1>9. Leaving'
    BY DEF SessionInv, Leaving, ToldToEnd
  <1>10. OwnAnswers'
    BY DEF SessionInv, OwnAnswers, Meant, Stated, Unfinished
  <1> QED
    BY <1>6, <1>7, <1>8, <1>9, <1>10 DEF SessionInv

\* It is cancelled while it waits for suspend().
LEMMA CancelAgainKept ==
    ASSUME SessionInv, CancelSuspending
    PROVE  SessionInv'
  <1> USE DEF CancelSuspending, Leave, driverVars, adapterVars
  <1>1. Sound \subseteq Sound'
    BY DEF Sound
  <1>2. Pending \subseteq Pending'
    BY DEF Pending, Unfinished, Live
  <1>3. outbox \in Seq(Sound') /\ inbox \in Seq(Pending')
    BY <1>1, <1>2, PipesKept DEF SessionInv
  <1>4. outbox' \in Seq(Sound')
    BY <1>3
  <1>5. inbox' \in Seq(Pending')
    BY <1>3
  <1>6. PipesSound'
    BY <1>4, <1>5 DEF SessionInv, PipesSound
  <1>7. Meant'
    BY DEF SessionInv, Meant, Stated, Unfinished, Live
  <1>8. LockKept'
    BY DEF SessionInv, LockKept, Live
  <1>9. Leaving'
    BY DEF SessionInv, Leaving, ToldToEnd
  <1>10. OwnAnswers'
    BY DEF SessionInv, OwnAnswers
  <1> QED
    BY <1>6, <1>7, <1>8, <1>9, <1>10 DEF SessionInv

\* The finally terminates what is left of the driver.
LEMMA FinallyKept ==
    ASSUME SessionInv, Finally
    PROVE  SessionInv'
  <1> USE DEF Finally, Take, Send, Alive, CloseStreams
  <1>1. Sound \subseteq Sound'
    BY DEF SessionInv, PipesSound, LockKept, Sound
  <1>2. Pending \subseteq Pending'
    BY DEF SessionInv, PipesSound, LockKept, Pending, Unfinished, Live
  <1>3. outbox \in Seq(Sound') /\ inbox \in Seq(Pending')
    BY <1>1, <1>2, PipesKept DEF SessionInv
  <1>4. outbox' \in Seq(Sound')
    BY <1>3, EmptySeq
  <1>5. inbox' \in Seq(Pending')
    <2>1. next' = next + 1 => [id |-> next, type |-> "terminate"] \in Pending'
      BY DEF SessionInv, PipesSound, LockKept, Pending, Unfinished, Live
    <2>2. inbox' = <<>> \/ (next' = next + 1 /\ inbox' = Append(inbox, [id |-> next, type |-> "terminate"]))
      OBVIOUS
    <2>3. CASE inbox' = <<>>
      BY <2>3, EmptySeq
    <2>4. CASE next' = next + 1 /\ inbox' = Append(inbox, [id |-> next, type |-> "terminate"])
      BY <1>3, <2>1, <2>4, AppendProperties
    <2> QED
      BY <2>2, <2>3, <2>4
  <1>6. PipesSound'
    BY <1>4, <1>5 DEF SessionInv, PipesSound, LockKept
  <1>7. Meant'
    BY DEF SessionInv, Meant, Stated, Unfinished, Live
  <1>8. LockKept'
    BY DEF SessionInv, LockKept, Live
  <1>9. Leaving'
    BY EndSent DEF SessionInv, Leaving, ToldToEnd, LockKept
  <1>10. OwnAnswers'
    BY DEF SessionInv, OwnAnswers
  <1> QED
    BY <1>6, <1>7, <1>8, <1>9, <1>10 DEF SessionInv

\* terminate() has its answer.
LEMMA TerminatedKept ==
    ASSUME SessionInv, Terminated
    PROVE  SessionInv'
  <1> USE DEF Terminated, Waited, adapterVars
  <1>1. Sound \subseteq Sound'
    BY DEF Sound
  <1>2. Pending \subseteq Pending'
    BY DEF Pending, Unfinished, Live
  <1>3. outbox \in Seq(Sound') /\ inbox \in Seq(Pending')
    BY <1>1, <1>2, PipesKept DEF SessionInv
  <1>4. outbox' \in Seq(Sound')
    <2>1. outbox # <<>> => Tail(outbox) \in Seq(Sound')
      BY <1>1, Heads, SeqMonotonic DEF SessionInv
    <2> QED
      BY <1>3, <2>1
  <1>5. inbox' \in Seq(Pending')
    BY <1>3
  <1>6. PipesSound'
    BY <1>4, <1>5 DEF SessionInv, PipesSound
  <1>7. Meant'
    BY DEF SessionInv, Meant, Stated, Unfinished, Live
  <1>8. LockKept'
    BY DEF SessionInv, LockKept, Live
  <1>9. Leaving'
    BY DEF SessionInv, Leaving, ToldToEnd
  <1>10. OwnAnswers'
    BY DEF SessionInv, OwnAnswers
  <1> QED
    BY <1>6, <1>7, <1>8, <1>9, <1>10 DEF SessionInv

\* It closes the pipes.
LEMMA TerminateCloseKept ==
    ASSUME SessionInv, TerminateCloses
    PROVE  SessionInv'
  <1> USE DEF TerminateCloses, CloseStreams, Release
  <1>1. Sound \subseteq Sound'
    BY DEF Sound
  <1>2. Pending \subseteq Pending'
    BY DEF Pending, Unfinished, Live
  <1>3. outbox \in Seq(Sound') /\ inbox \in Seq(Pending')
    BY <1>1, <1>2, PipesKept DEF SessionInv
  <1>4. outbox' \in Seq(Sound')
    BY <1>3, EmptySeq
  <1>5. inbox' \in Seq(Pending')
    BY <1>3, EmptySeq
  <1>6. PipesSound'
    BY <1>4, <1>5 DEF SessionInv, PipesSound
  <1>7. Meant'
    BY DEF SessionInv, Meant, Stated, Unfinished, Live
  <1>8. LockKept'
    BY DEF SessionInv, LockKept, Live
  <1>9. Leaving'
    BY DEF SessionInv, Leaving, ToldToEnd, LockKept
  <1>10. OwnAnswers'
    BY DEF SessionInv, OwnAnswers
  <1> QED
    BY <1>6, <1>7, <1>8, <1>9, <1>10 DEF SessionInv

\* The finally is cancelled: the driver has been told to end, or is told by the end
\* of its stdin.
LEMMA CancelFinallyKept ==
    ASSUME SessionInv, CancelFinally
    PROVE  SessionInv'
  <1> USE DEF CancelFinally, Alive
  <1>1. Sound \subseteq Sound'
    BY DEF Sound
  <1>2. Pending \subseteq Pending'
    BY DEF Pending, Unfinished, Live
  <1>3. outbox \in Seq(Sound') /\ inbox \in Seq(Pending')
    BY <1>1, <1>2, PipesKept DEF SessionInv
  <1>4. outbox' \in Seq(Sound')
    BY <1>3
  <1>5. inbox' \in Seq(Pending')
    <2>1. [id |-> 0, type |-> "eof"] \in Pending'
      BY DEF SessionInv, PipesSound, Pending, Unfinished, Live
    <2> QED
      BY <1>3, <2>1, AppendProperties
  <1>6. PipesSound'
    BY <1>4, <1>5 DEF SessionInv, PipesSound
  <1>7. Meant'
    BY DEF SessionInv, Meant, Stated, Unfinished, Live
  <1>8. LockKept'
    BY DEF SessionInv, LockKept, Live
  <1>9. Leaving'
    <2>1. proc \in {"starting", "up"} => ToldToEnd
      BY DEF SessionInv, Leaving, LockKept
    <2>2. ToldToEnd => ToldToEnd'
      BY EndKeptBeside DEF SessionInv, ToldToEnd
    <2>3. sus = "answered" => proc = "none" /\ busy = 0
      BY DEF SessionInv, Leaving
    <2> QED
      BY <2>1, <2>2, <2>3 DEF Leaving
  <1>10. OwnAnswers'
    BY DEF SessionInv, OwnAnswers
  <1> QED
    BY <1>6, <1>7, <1>8, <1>9, <1>10 DEF SessionInv

\* The row of a task that was cancelled twice is closed.
LEMMA StopSavesKept ==
    ASSUME SessionInv, StopSaves
    PROVE  SessionInv'
  <1> USE DEF StopSaves, driverVars, adapterVars
  <1>1. Sound \subseteq Sound'
    BY DEF Sound
  <1>2. Pending \subseteq Pending'
    BY DEF Pending, Unfinished, Live
  <1>3. outbox \in Seq(Sound') /\ inbox \in Seq(Pending')
    BY <1>1, <1>2, PipesKept DEF SessionInv
  <1>4. outbox' \in Seq(Sound')
    BY <1>3
  <1>5. inbox' \in Seq(Pending')
    BY <1>3
  <1>6. PipesSound'
    BY <1>4, <1>5 DEF SessionInv, PipesSound
  <1>7. Meant'
    BY DEF SessionInv, Meant, Stated, Unfinished, Live
  <1>8. LockKept'
    BY DEF SessionInv, LockKept, Live
  <1>9. Leaving'
    BY DEF SessionInv, Leaving, ToldToEnd
  <1>10. OwnAnswers'
    BY DEF SessionInv, OwnAnswers
  <1> QED
    BY <1>6, <1>7, <1>8, <1>9, <1>10 DEF SessionInv

\* The task enters and leaves what the proxy is open for.
LEMMA ServeKept ==
    ASSUME SessionInv, Serve
    PROVE  SessionInv'
  <1> USE DEF Serve, driverVars, adapterVars
  <1>1. Sound \subseteq Sound' /\ Pending \subseteq Pending'
    BY DEF Sound, Pending, Unfinished, Live
  <1>2. PipesSound'
    BY <1>1, PipesKept DEF SessionInv, PipesSound
  <1> QED
    BY <1>2 DEF SessionInv, Meant, Stated, Unfinished, Live, LockKept, Leaving, ToldToEnd, OwnAnswers

LEMMA CloseKept ==
    ASSUME SessionInv, CloseEnds \/ CancelClose
    PROVE  SessionInv'
  <1> USE DEF CloseEnds, CancelClose, driverVars, adapterVars
  <1>1. Sound \subseteq Sound' /\ Pending \subseteq Pending'
    BY DEF Sound, Pending, Unfinished, Live
  <1>2. PipesSound'
    BY <1>1, PipesKept DEF SessionInv, PipesSound
  <1>3. Leaving'
    BY DEF SessionInv, Leaving, ToldToEnd
  <1> QED
    BY <1>2, <1>3 DEF SessionInv, Meant, Stated, Unfinished, Live, LockKept, OwnAnswers

\* A review ends, or is refused, between two phases.
LEMMA ReviewEndKept ==
    ASSUME SessionInv, BudgetInv, ReviewEnds \/ ReviewRefused
    PROVE  SessionInv'
  <1>0. /\ UNCHANGED <<driverVars, adapterVars, sus, marked, told, cut>>
        /\ task = "between"
        /\ UNCHANGED task \/ task' = "finally"
    BY DEF ReviewEnds, ReviewRefused, Reviewing, Leave, BudgetInv, ReviewHeld
  <1> USE DEF driverVars, adapterVars
  <1>1. Sound \subseteq Sound' /\ Pending \subseteq Pending'
    BY <1>0 DEF Sound, Pending, Unfinished, Live
  <1>2. PipesSound'
    BY <1>0, <1>1, PipesKept DEF SessionInv, PipesSound
  <1> QED
    BY <1>0, <1>2 DEF SessionInv, Meant, Stated, Unfinished, Live, LockKept, Leaving, ToldToEnd, OwnAnswers

\* Another run of the cycle starts with nothing in the pipes.
LEMMA ResumeKept ==
    ASSUME SessionInv, Resume
    PROVE  SessionInv'
  <1> USE DEF Resume
  <1>1. PipesSound'
    BY EmptySeq DEF PipesSound
  <1> QED
    BY <1>1 DEF SessionInv, Meant, Unfinished, Live, LockKept, Leaving, OwnAnswers

\* Nothing else is done to the pipes.
LEMMA SessionKept ==
    ASSUME SessionInv, BudgetInv, [Next]_vars
    PROVE  SessionInv'
  <1>1. CASE SessionStep
    BY <1>1, LaunchKept, LaunchFailKept, OtherKept, PhaseKept, SendKept, SuspendAnswerKept,
       SuspendCloseKept, SuspendOverKept, FinallyKept, TerminatedKept, TerminateCloseKept, ConcludeKept
       DEF SessionStep
  <1>2. CASE DriverStep
    BY <1>2, StartKept, TakeKept, EventKept, EndKept, DeathKept DEF DriverStep
  <1>3. CASE Serve \/ BeginStep
    BY <1>3, ServeKept, BeginKept DEF BeginStep
  <1>4. CASE CancelStep \/ CancelAgain
    BY <1>4, CancelKept, CancelAgainKept, CancelFinallyKept DEF CancelStep, CancelAgain
  <1>5. CASE StopSaves \/ CloseEnds \/ CancelClose
    BY <1>5, StopSavesKept, CloseKept
  <1>6. CASE ReviewEnds \/ ReviewRefused \/ Resume
    BY <1>6, ReviewEndKept, ResumeKept
  <1>7. CASE CloseBegins \/ Review \/ \E s \in Slots : Request(s) \/ Granted(s) \/ Ends(s)
    BY <1>7, SessionStutters DEF CloseBegins, Review, Ends, Request, Granted
  <1>8. CASE UNCHANGED vars
    BY <1>8, SessionStutters DEF vars
  <1> QED
    BY <1>1, <1>2, <1>3, <1>4, <1>5, <1>6, <1>7, <1>8 DEF Next

\* What lies in the pipes is sound, and a driver that was told to end is not told
\* anything else, through every cancellation, failure and death of the driver.
THEOREM SessionInvariant == Spec => []SessionInv
  <1>1. Init => SessionInv
    BY SessionStarts DEF Init
  <1>2. SessionInv /\ BudgetInv /\ [Next]_vars => SessionInv'
    BY SessionKept
  <1> QED
    BY <1>1, <1>2, BudgetInvariant, PTL DEF Spec

(* However answers of commands that were given up lie in the pipe, a phase counts as *)
(* completed only if the driver has completed that command, and a suspension as done *)
(* only if the driver has done one, has reported an error or has died.               *)
THEOREM AnswersOwn == Spec => []OwnAnswers
  <1>1. SessionInv => OwnAnswers
    BY DEF SessionInv
  <1> QED
    BY <1>1, SessionInvariant, PTL

(* A suspension marked as done, and a task whose finally was not cancelled, leave no  *)
(* driver; a task that ended otherwise leaves at most one that was told to end.       *)
THEOREM DriversLeave == Spec => []NoDriverLeft
  <1>1. SessionInv => NoDriverLeft
    BY DEF SessionInv, Meant, Leaving, ToldToEnd, NoDriverLeft
  <1> QED
    BY <1>1, SessionInvariant, PTL

=============================================================================
