------------------------- MODULE MaidControllerProofs -------------------------
(***************************************************************************)
(* Safety of MaidController for every value of its constants: any number of *)
(* requests and maids, any cache size, any environment.  First what the     *)
(* operators of MaidBody preserve, then the controller around them.         *)
(***************************************************************************)
EXTENDS MaidController, TLAPS, FiniteSetTheorems

\* The checkpoint is that of the running action, or empty.
CheckpointOK(b) == b.pending \in {NoAction, b.active}

\* A cache holds one result per request.
Distinct(q) == \A i, j \in DOMAIN q : q[i].req = q[j].req => i = j

\* The running request has no cached result yet, and no request has two.
MemoryOK(b) ==
    /\ b.active # NoAction => b.active.req \notin Keys(b.replay)
    /\ Distinct(b.replay)

\* A request the engine has not forgotten has never run, or ran once and is
\* still the active one or in the cache.
RunsOK(b) ==
    \A r \in Requests \ b.forgotten :
        \/ b.runs[r] = 0
        \/ /\ b.runs[r] = 1
           /\ r \in Keys(b.replay) \/ (b.active # NoAction /\ b.active.req = r)

\* What was sent about an action that ran, but for the notices of a restart.
Verdicts(b) == {x \in b.sent : x.run > 0 /\ x.status # "INTERRUPTED"}

\* Two verdicts on one action agree, none is about an action that is still to
\* be created, and the running action is the last of its request, with no
\* verdict yet.
VerdictsOK(b) ==
    /\ \A x, y \in Verdicts(b) : x.req = y.req /\ x.run = y.run => x.status = y.status
    /\ \A x \in Verdicts(b) : x.run <= b.runs[x.req]
    /\ b.active # NoAction =>
           /\ b.active.run = b.runs[b.active.req] /\ b.active.run > 0
           /\ \A x \in Verdicts(b) : x.req = b.active.req => x.run # b.active.run

\* Nothing outranks the reflex engine: what the priority of an emergency holds
\* is its own lease.
Disciplined(lease) == lease.prio = 100 => lease.owner = ReflexId

Sound(b) ==
    /\ b \in Bodies
    /\ CheckpointOK(b)
    /\ MemoryOK(b)
    /\ RunsOK(b)
    /\ VerdictsOK(b)
    /\ Disciplined(b.lease)

------------------------------------------------------------------------------
(* The replay cache                                                         *)

\* Membership in a cache, by position.
LEMMA KeysByPosition ==
    ASSUME NEW q \in Seq(Results)
    PROVE  \A r : r \in Keys(q) <=> \E i \in 1 .. Len(q) : q[i].req = r
<1>1. DOMAIN q = 1 .. Len(q)
  OBVIOUS
<1> QED BY <1>1 DEF Keys

\* The requests of a cache are requests.
LEMMA KeysType ==
    ASSUME NEW q \in Seq(Results)
    PROVE  Keys(q) \subseteq Requests
<1>1. \A i \in 1 .. Len(q) : q[i] \in Results
  OBVIOUS
<1>2. \A x \in Results : x.req \in Requests
  BY DEF Results
<1> QED BY <1>1, <1>2, KeysByPosition

\* Appending a result adds its request.
LEMMA KeysAppend ==
    ASSUME NEW q \in Seq(Results), NEW res \in Results
    PROVE  /\ Append(q, res) \in Seq(Results)
           /\ Len(Append(q, res)) = Len(q) + 1
           /\ Keys(Append(q, res)) = Keys(q) \cup {res.req}
           /\ Distinct(q) /\ res.req \notin Keys(q) => Distinct(Append(q, res))
<1> DEFINE p == Append(q, res)
<1>1. p \in Seq(Results)
  OBVIOUS
<1>2. /\ Len(p) = Len(q) + 1 /\ Len(q) \in Nat
      /\ \A i \in 1 .. Len(q) : p[i] = q[i]
      /\ p[Len(q) + 1] = res
  OBVIOUS
<1> HIDE DEF p
<1>3. \A i : i \in 1 .. Len(p) <=> i \in 1 .. Len(q) \/ i = Len(q) + 1
  BY <1>2
<1>4. \A r : r \in Keys(p) <=> r \in Keys(q) \/ r = res.req
  <2>1. ASSUME NEW r, r \in Keys(p) PROVE r \in Keys(q) \/ r = res.req
    <3>1. PICK i \in 1 .. Len(p) : p[i].req = r
      BY <1>1, <2>1, KeysByPosition
    <3> QED BY <1>2, <1>3, <3>1, KeysByPosition
  <2>2. ASSUME NEW r, r \in Keys(q) PROVE r \in Keys(p)
    <3>1. PICK i \in 1 .. Len(q) : q[i].req = r
      BY <2>2, KeysByPosition
    <3> QED BY <1>1, <1>2, <1>3, <3>1, KeysByPosition
  <2>3. res.req \in Keys(p)
    BY <1>1, <1>2, <1>3, KeysByPosition
  <2> QED BY <2>1, <2>2, <2>3
<1>5. ASSUME Distinct(q), res.req \notin Keys(q) PROVE Distinct(p)
  <2> SUFFICES ASSUME NEW i \in 1 .. Len(p), NEW j \in 1 .. Len(p), p[i].req = p[j].req
               PROVE  i = j
    BY <1>1 DEF Distinct
  <2>1. \A k \in 1 .. Len(q) : q[k].req # res.req
    BY <1>5, KeysByPosition
  <2>2. CASE i \in 1 .. Len(q) /\ j \in 1 .. Len(q)
    BY <1>2, <1>5, <2>2 DEF Distinct
  <2>3. CASE i = Len(q) + 1 \/ j = Len(q) + 1
    BY <1>2, <1>3, <2>1, <2>3
  <2> QED BY <1>3, <2>2, <2>3
<1> QED BY <1>1, <1>2, <1>4, <1>5 DEF p

\* Dropping the eldest result drops its request at most.
LEMMA KeysTail ==
    ASSUME NEW q \in Seq(Results), q # << >>
    PROVE  /\ Tail(q) \in Seq(Results) /\ Head(q) \in Results
           /\ Len(Tail(q)) = Len(q) - 1
           /\ Keys(q) = Keys(Tail(q)) \cup {Head(q).req}
           /\ Distinct(q) => Distinct(Tail(q))
<1> DEFINE t == Tail(q)
<1>1. t \in Seq(Results) /\ Head(q) \in Results
  OBVIOUS
<1>2. /\ Len(q) \in Nat \ {0} /\ Len(t) = Len(q) - 1
      /\ \A i \in 1 .. Len(t) : t[i] = q[i + 1]
      /\ Head(q) = q[1]
  OBVIOUS
<1> HIDE DEF t
<1>3. ASSUME NEW r, r \in Keys(q) PROVE r \in Keys(t) \/ r = Head(q).req
  <2>1. PICK i \in 1 .. Len(q) : q[i].req = r
    BY <1>3, KeysByPosition
  <2>2. CASE i = 1
    BY <1>2, <2>1, <2>2
  <2>3. CASE i # 1
    <3>1. i - 1 \in 1 .. Len(t) /\ t[i - 1] = q[(i - 1) + 1] /\ (i - 1) + 1 = i
      BY <1>2, <2>3
    <3> QED BY <1>1, <2>1, <3>1, KeysByPosition
  <2> QED BY <2>2, <2>3
<1>4. ASSUME NEW r, r \in Keys(t) PROVE r \in Keys(q)
  <2>1. PICK i \in 1 .. Len(t) : t[i].req = r
    BY <1>1, <1>4, KeysByPosition
  <2>2. i + 1 \in 1 .. Len(q) /\ q[i + 1].req = r
    BY <1>2, <2>1
  <2> QED BY <2>2, KeysByPosition
<1>5. Head(q).req \in Keys(q)
  <2>1. 1 \in 1 .. Len(q)
    BY <1>2
  <2> QED BY <1>2, <2>1, KeysByPosition
<1>6. ASSUME Distinct(q) PROVE Distinct(t)
  <2> SUFFICES ASSUME NEW i \in 1 .. Len(t), NEW j \in 1 .. Len(t), t[i].req = t[j].req
               PROVE  i = j
    BY <1>1 DEF Distinct
  <2>1. i + 1 \in 1 .. Len(q) /\ j + 1 \in 1 .. Len(q) /\ q[i + 1].req = q[j + 1].req
    BY <1>2
  <2>2. i + 1 = j + 1
    BY <1>6, <2>1 DEF Distinct
  <2> QED BY <2>2
<1> QED BY <1>1, <1>2, <1>3, <1>4, <1>5, <1>6 DEF t

\* sendResult stores its result, keeps the cache well formed, and drops at most
\* the request it reports as evicted.
LEMMA PutFacts ==
    ASSUME NEW q \in Caches, NEW res \in Results
    PROVE  /\ Put(q, res) \in Caches
           /\ res.req \in Keys(Put(q, res))
           /\ Keys(Put(q, res)) \subseteq Keys(q) \cup {res.req}
           /\ Keys(q) \subseteq Keys(Put(q, res)) \cup Evicted(q, res)
           /\ Evicted(q, res) \subseteq Requests
           /\ Distinct(q) => Distinct(Put(q, res))
<1>0. q \in Seq(Results) /\ Len(q) \in Nat /\ Len(q) <= ReplayCap
  BY DEF Caches
<1>1. CASE res.req \in Keys(q)
  <2> DEFINE p == [i \in 1 .. Len(q) |-> IF q[i].req = res.req THEN res ELSE q[i]]
  <2>1. Put(q, res) = p /\ Evicted(q, res) = {}
    BY <1>1 DEF Put, Evicted, PutIn, DroppedBy, Replaced
  <2>2. p \in Seq(Results)
    BY <1>0
  <2>3. Len(p) = Len(q) /\ \A i \in 1 .. Len(q) : p[i].req = q[i].req
    BY <1>0
  <2> HIDE DEF p
  <2>4. Keys(p) = Keys(q)
    BY <1>0, <2>2, <2>3, KeysByPosition
  <2>5. Distinct(q) => Distinct(p)
    BY <1>0, <2>2, <2>3 DEF Distinct
  <2>6. p \in Caches
    BY <1>0, <2>2, <2>3 DEF Caches
  <2> QED BY <1>1, <2>1, <2>4, <2>5, <2>6
<1>2. CASE res.req \notin Keys(q) /\ Len(q) < ReplayCap
  <2>1. Put(q, res) = Append(q, res) /\ Evicted(q, res) = {}
    BY <1>2 DEF Put, Evicted, PutIn, DroppedBy, Replaced
  <2>2. Append(q, res) \in Caches
    BY <1>0, <1>2, KeysAppend, BodyAssumption DEF Caches
  <2> QED BY <1>0, <1>2, <2>1, <2>2, KeysAppend
<1>3. CASE res.req \notin Keys(q) /\ ~(Len(q) < ReplayCap)
  <2>1. q # << >>
    BY <1>0, <1>3, BodyAssumption
  <2>2. Put(q, res) = Append(Tail(q), res) /\ Evicted(q, res) = {Head(q).req}
    BY <1>3 DEF Put, Evicted, PutIn, DroppedBy, Replaced
  <2>3. Tail(q) \in Seq(Results) /\ Keys(q) = Keys(Tail(q)) \cup {Head(q).req}
        /\ Len(Tail(q)) = Len(q) - 1 /\ (Distinct(q) => Distinct(Tail(q)))
    BY <1>0, <2>1, KeysTail
  <2>7. res.req \notin Keys(Tail(q)) /\ Len(Tail(q)) + 1 = Len(q)
    BY <1>0, <1>3, <2>3
  <2>4. Append(Tail(q), res) \in Seq(Results)
        /\ Keys(Append(Tail(q), res)) = Keys(Tail(q)) \cup {res.req}
        /\ Len(Append(Tail(q), res)) = Len(q)
        /\ (Distinct(q) => Distinct(Append(Tail(q), res)))
    BY <2>3, <2>7, KeysAppend
  <2>5. Head(q).req \in Requests
    BY <1>0, <2>3, KeysType
  <2>6. Append(Tail(q), res) \in Caches
    BY <1>0, <2>4 DEF Caches
  <2> QED BY <2>2, <2>3, <2>4, <2>5, <2>6
<1> QED BY <1>1, <1>2, <1>3
------------------------------------------------------------------------------
(* Results and leases                                                       *)

\* Results are well typed and carry the request they answer.
LEMMA ResultType ==
    ASSUME NEW status \in Statuses
    PROVE  /\ \A id \in ActionIds : Result(id, status) \in Results /\ Result(id, status).req = id.req
           /\ \A r \in Requests : /\ Unrun(r, status) \in Results
                                /\ Unrun(r, status).req = r /\ Unrun(r, status).run = 0
BY DEF Result, Unrun, Results, ActionIds

\* The arbiter hands out well-formed leases.
LEMMA LeaseType ==
    ASSUME NEW lease \in Leases, Disciplined(lease),
           NEW id \in ActionIds \cup {ReflexId}, NEW prio \in {50, 80, 100},
           prio = 100 => id = ReflexId
    PROVE  /\ NoLease \in Leases /\ Disciplined(NoLease)
           /\ Acquired(lease, id, prio) \in Leases /\ Disciplined(Acquired(lease, id, prio))
           /\ Released(lease, id) \in Leases /\ Disciplined(Released(lease, id))
BY DEF Leases, NoLease, Acquired, Released, Disciplined

------------------------------------------------------------------------------
(* The engine                                                               *)

\* The lease, the reflex fields and the age carry none of the engine's memory.
LEMMA SoundFrame ==
    ASSUME NEW b, Sound(b), NEW c \in Bodies,
           c.active = b.active, c.pending = b.pending, c.replay = b.replay,
           c.runs = b.runs, c.forgotten = b.forgotten, c.sent = b.sent,
           Disciplined(c.lease)
    PROVE  Sound(c)
BY DEF Sound, CheckpointOK, MemoryOK, RunsOK, VerdictsOK, Verdicts

\* Giving the lease a new value keeps a body sound.
LEMMA SoundLease ==
    ASSUME NEW b, Sound(b), NEW lease \in Leases, Disciplined(lease)
    PROVE  Sound([b EXCEPT !.lease = lease])
<1> DEFINE c == [b EXCEPT !.lease = lease]
<1>1. c \in Bodies
  BY DEF Sound, Bodies
<1>2. /\ c.active = b.active /\ c.pending = b.pending /\ c.replay = b.replay
      /\ c.runs = b.runs /\ c.forgotten = b.forgotten /\ c.sent = b.sent /\ c.lease = lease
  BY DEF Sound, Bodies
<1> HIDE DEF c
<1>3. Sound(c)
  BY <1>1, <1>2, SoundFrame
<1> QED BY <1>3 DEF c

\* Caching an answer no action stands behind keeps a body sound, unless its
\* request is the running one.
LEMMA SendCachedSound ==
    ASSUME NEW b, Sound(b), NEW res \in Results, res.run = 0,
           b.active # NoAction => b.active.req # res.req
    PROVE  /\ Sound(SendCached(b, res))
           /\ SendCached(b, res).active = b.active
           /\ SendCached(b, res).lease = b.lease
<1> DEFINE c == SendCached(b, res)
<1>1. /\ b \in Bodies /\ b.replay \in Caches
      /\ b.forgotten \subseteq Requests /\ b.sent \subseteq Results
  BY DEF Sound, Bodies
<1>2. /\ c.active = b.active /\ c.pending = b.pending /\ c.runs = b.runs /\ c.lease = b.lease
      /\ c.replay = Put(b.replay, res)
      /\ c.forgotten = b.forgotten \cup Evicted(b.replay, res)
      /\ c.sent = b.sent \cup {res}
  BY <1>1 DEF SendCached, Bodies
<1>3. c \in Bodies
  BY <1>1, PutFacts DEF SendCached, Bodies
<1> HIDE DEF c
<1>4. CheckpointOK(c)
  BY <1>2 DEF Sound, CheckpointOK
<1>5. MemoryOK(c)
  BY <1>1, <1>2, PutFacts DEF Sound, MemoryOK
<1>6. RunsOK(c)
  BY <1>1, <1>2, PutFacts DEF Sound, RunsOK
<1>8. Verdicts(c) = Verdicts(b)
  BY <1>2 DEF Verdicts
<1>9. VerdictsOK(c)
  BY <1>2, <1>8 DEF Sound, VerdictsOK
<1>7. Sound(c)
  BY <1>2, <1>3, <1>4, <1>5, <1>6, <1>9 DEF Sound
<1> QED BY <1>2, <1>7 DEF c

\* Finishing the running action leaves a sound body without one: its result
\* takes its place in the engine's memory.
LEMMA FinishActiveSound ==
    ASSUME NEW b, Sound(b), b.active # NoAction, NEW status \in Statuses
    PROVE  /\ Sound(FinishActive(b, status))
           /\ FinishActive(b, status).active = NoAction
           /\ FinishActive(b, status).pending = NoAction
           /\ FinishActive(b, status).lease = b.lease
<1> DEFINE c == [b EXCEPT !.active = NoAction, !.pending = NoAction, !.age = 0]
<1> DEFINE res == Result(b.active, status)
<1> DEFINE d == SendCached(c, res)
<1>1. /\ b \in Bodies /\ b.active \in ActionIds /\ b.replay \in Caches
      /\ b.forgotten \subseteq Requests /\ b.sent \subseteq Results
  BY DEF Sound, Bodies
<1>2. res \in Results /\ res.req = b.active.req /\ res.run = b.active.run
  BY <1>1, ResultType DEF Result
<1>3. c \in Bodies
  <2>1. 0 \in 0 .. Timeout + 1
    BY BodyAssumption
  <2> QED BY <1>1, <2>1 DEF Bodies
<1>4. /\ c.active = NoAction /\ c.pending = NoAction /\ c.runs = b.runs
      /\ c.lease = b.lease /\ c.replay = b.replay /\ c.forgotten = b.forgotten
      /\ c.sent = b.sent
  BY <1>1 DEF Bodies
<1> HIDE DEF c, res
<1>5. /\ d.active = NoAction /\ d.pending = NoAction /\ d.runs = b.runs /\ d.lease = b.lease
      /\ d.replay = Put(b.replay, res)
      /\ d.forgotten = b.forgotten \cup Evicted(b.replay, res)
      /\ d.sent = b.sent \cup {res}
  BY <1>3, <1>4 DEF SendCached, Bodies
<1>6. d \in Bodies
  BY <1>1, <1>2, <1>3, <1>4, PutFacts DEF SendCached, Bodies
<1>7. FinishActive(b, status) = d
  BY DEF FinishActive, c, res
<1> HIDE DEF d
<1>8. CheckpointOK(d) /\ MemoryOK(d)
  BY <1>1, <1>2, <1>5, PutFacts DEF Sound, CheckpointOK, MemoryOK
<1>9. RunsOK(d)
  BY <1>1, <1>2, <1>5, PutFacts DEF Sound, RunsOK
<1>10. VerdictsOK(d)
  <2>1. \A x \in Verdicts(d) : x \in Verdicts(b) \/ x = res
    BY <1>5 DEF Verdicts
  <2>2. /\ b.active.run = b.runs[b.active.req]
        /\ \A x \in Verdicts(b) : x.req = b.active.req => x.run # b.active.run
        /\ \A x \in Verdicts(b) : x.run <= b.runs[x.req]
        /\ \A x, y \in Verdicts(b) : x.req = y.req /\ x.run = y.run => x.status = y.status
    BY <1>1 DEF Sound, VerdictsOK
  <2>3. \A x, y \in Verdicts(d) : x.req = y.req /\ x.run = y.run => x.status = y.status
    BY <1>2, <2>1, <2>2
  <2>5. b.runs[b.active.req] \in Nat
    BY <1>1 DEF Bodies, ActionIds
  <2>4. \A x \in Verdicts(d) : x.run <= d.runs[x.req]
    BY <1>2, <1>5, <2>1, <2>2, <2>5
  <2> QED BY <1>5, <2>3, <2>4 DEF VerdictsOK
<1>11. Disciplined(d.lease)
  BY <1>5 DEF Sound
<1> QED BY <1>5, <1>6, <1>7, <1>8, <1>9, <1>10, <1>11 DEF Sound

\* Cancelling leaves a sound body without a running action.
LEMMA CancelActiveSound ==
    ASSUME NEW b, Sound(b), NEW status \in Statuses
    PROVE  Sound(CancelActive(b, status)) /\ CancelActive(b, status).active = NoAction
<1>1. CASE b.active = NoAction
  BY <1>1 DEF CancelActive
<1>2. CASE b.active # NoAction
  <2> DEFINE c == [b EXCEPT !.lease = Released(b.lease, b.active)]
  <2>1. b \in Bodies /\ b.active \in ActionIds /\ b.lease \in Leases
    BY <1>2 DEF Sound, Bodies
  <2>2. Released(b.lease, b.active) \in Leases /\ Disciplined(Released(b.lease, b.active))
    BY <2>1, LeaseType DEF Sound
  <2>3. Sound(c)
    BY <2>2, SoundLease
  <2>4. c.active # NoAction
    BY <1>2, <2>1 DEF Bodies
  <2>5. CancelActive(b, status) = FinishActive(c, status)
    BY <1>2 DEF CancelActive
  <2> HIDE DEF c
  <2> QED BY <2>3, <2>4, <2>5, FinishActiveSound
<1> QED BY <1>1, <1>2

\* So does the engine's cancel, which also empties the lease.
LEMMA CancelAndStopSound ==
    ASSUME NEW b, Sound(b)
    PROVE  /\ Sound(CancelAndStop(b)) /\ CancelAndStop(b).active = NoAction
           /\ CancelAndStop(b).lease = NoLease
<1> DEFINE c == CancelActive(b, "CANCELLED")
<1>1. Sound(c) /\ c.active = NoAction
  BY CancelActiveSound DEF Statuses
<1>2. CancelAndStop(b) = [c EXCEPT !.lease = NoLease]
  BY DEF CancelAndStop
<1> HIDE DEF c
<1>3. c \in Bodies
  BY <1>1 DEF Sound
<1>4. NoLease \in Leases /\ Disciplined(NoLease)
  BY DEF NoLease, Leases, Disciplined
<1> QED BY <1>1, <1>2, <1>3, <1>4, SoundLease DEF Bodies

\* Acquiring the navigation may preempt the running action, which is then
\* finished, unless it acquires for itself.
LEMMA AcquireMotionSound ==
    ASSUME NEW b, Sound(b), NEW id \in ActionIds \cup {ReflexId}, NEW prio \in {50, 80, 100},
           prio = 100 => id = ReflexId
    PROVE  /\ Sound(AcquireMotion(b, id, prio))
           /\ AcquireMotion(b, id, prio).active \in {NoAction, b.active}
           /\ id = b.active => AcquireMotion(b, id, prio) = [b EXCEPT !.lease = Acquired(b.lease, id, prio)]
<1> DEFINE c == [b EXCEPT !.lease = Acquired(b.lease, id, prio)]
<1>1. b \in Bodies /\ b.lease \in Leases /\ Disciplined(b.lease)
  BY DEF Sound, Bodies
<1>2. Sound(c)
  BY <1>1, LeaseType, SoundLease
<1>3. c.active = b.active
  BY <1>1 DEF Bodies
<1>4. AcquireMotion(b, id, prio) \in {c, CancelActive(c, "PREEMPTED")}
  BY DEF AcquireMotion
<1>5. id = b.active => AcquireMotion(b, id, prio) = c
  BY DEF AcquireMotion, Preempts
<1>6. Sound(CancelActive(c, "PREEMPTED")) /\ CancelActive(c, "PREEMPTED").active = NoAction
  BY <1>2, CancelActiveSound DEF Statuses
<1> QED BY <1>2, <1>3, <1>4, <1>5, <1>6

------------------------------------------------------------------------------
(* submit()                                                                 *)

\* Creating an action for a request that is neither cached nor running, on an
\* idle body, is its first run unless the engine has forgotten the request.
LEMMA CreateSound ==
    ASSUME NEW b, Sound(b), NEW r \in Requests, b.active = NoAction, ~Cached(b, r)
    PROVE  LET id  == NewId(b, r)
               new == [b EXCEPT !.active = id, !.age = 0, !.runs[r] = @ + 1]
           IN  Sound(new) /\ id \in ActionIds /\ new.active = id /\ new.lease = b.lease
                 /\ id.req = r
<1> DEFINE id == NewId(b, r)
<1> DEFINE new == [b EXCEPT !.active = id, !.age = 0, !.runs[r] = @ + 1]
<1>1. b \in Bodies /\ b.runs \in [Requests -> Nat] /\ b.pending = NoAction
  BY DEF Sound, Bodies, CheckpointOK
<1>2. id \in ActionIds /\ id.req = r /\ id.run = b.runs[r] + 1
  BY <1>1 DEF NewId, ActionIds
<1> HIDE DEF id
<1>3. 0 \in 0 .. Timeout + 1
  BY BodyAssumption
<1>4. [b.runs EXCEPT ![r] = @ + 1] \in [Requests -> Nat]
  BY <1>1
<1>5. /\ new.active = id /\ new.pending = b.pending /\ new.replay = b.replay
      /\ new.lease = b.lease /\ new.forgotten = b.forgotten
      /\ new.runs = [b.runs EXCEPT ![r] = @ + 1] /\ new.sent = b.sent
  BY <1>1 DEF Bodies
<1>6. new \in Bodies
  BY <1>1, <1>2, <1>3, <1>4 DEF Bodies
<1> HIDE DEF new
<1>7. CheckpointOK(new)
  BY <1>1, <1>5 DEF CheckpointOK
<1>8. MemoryOK(new)
  BY <1>2, <1>5 DEF Sound, MemoryOK, Cached
<1>9. id # NoAction
  BY <1>2, BodyAssumption
<1>10. RunsOK(new)
  <2> SUFFICES ASSUME NEW x \in Requests \ new.forgotten
               PROVE  \/ new.runs[x] = 0
                      \/ /\ new.runs[x] = 1
                         /\ x \in Keys(new.replay) \/ (new.active # NoAction /\ new.active.req = x)
    BY DEF RunsOK
  <2>1. \/ b.runs[x] = 0
        \/ b.runs[x] = 1 /\ x \in Keys(b.replay)
    BY <1>5 DEF Sound, RunsOK
  <2>2. CASE x = r
    BY <1>1, <1>2, <1>5, <1>9, <2>1, <2>2 DEF Cached
  <2>3. CASE x # r
    BY <1>1, <1>5, <2>1, <2>3
  <2> QED BY <2>2, <2>3
<1>12. VerdictsOK(new)
  <2>1. Verdicts(new) = Verdicts(b)
    BY <1>5 DEF Verdicts
  <2>2. \A x \in Verdicts(b) : x.req \in Requests /\ x.run \in Nat /\ x.run <= b.runs[x.req]
    BY <1>1 DEF Verdicts, Sound, VerdictsOK, Bodies, Results
  <2>3. \A x \in Verdicts(b) : x.run <= new.runs[x.req]
    BY <1>1, <1>5, <2>2
  <2>4. \A x \in Verdicts(b) : x.req = r => x.run # id.run
    BY <1>1, <1>2, <2>2
  <2>5. id.run = new.runs[id.req] /\ id.run > 0
    BY <1>1, <1>2, <1>5
  <2> QED BY <1>2, <1>5, <2>1, <2>3, <2>4, <2>5 DEF Sound, VerdictsOK
<1>11. Sound(new)
  BY <1>5, <1>6, <1>7, <1>8, <1>10, <1>12 DEF Sound
<1> QED BY <1>2, <1>5, <1>11 DEF id, new

\* Writing the checkpoint of the running action keeps a body sound.
LEMMA CheckpointSound ==
    ASSUME NEW b, Sound(b)
    PROVE  Sound([b EXCEPT !.pending = b.active])
<1> DEFINE c == [b EXCEPT !.pending = b.active]
<1>1. b \in Bodies
  BY DEF Sound
<1>2. /\ c \in Bodies /\ c.active = b.active /\ c.pending = b.active
      /\ c.replay = b.replay /\ c.runs = b.runs /\ c.forgotten = b.forgotten
      /\ c.sent = b.sent /\ c.lease = b.lease
  BY <1>1 DEF Bodies
<1> HIDE DEF c
<1>3. Sound(c)
  BY <1>2 DEF Sound, CheckpointOK, MemoryOK, RunsOK, VerdictsOK, Verdicts
<1> QED BY <1>3 DEF c

\* However onStart leaves the new action, the body is sound.
LEMMA StartStillSound ==
    ASSUME NEW b, Sound(b), b.active # NoAction, NEW outcome
    PROVE  Sound(StartStill(b, b.active, outcome))
<1>1. CASE outcome = "RUNNING"
  <2>1. StartStill(b, b.active, outcome) = [b EXCEPT !.pending = b.active]
    BY <1>1 DEF StartStill
  <2> QED BY <2>1, CheckpointSound
<1>2. CASE outcome # "RUNNING"
  <2>1. StartStill(b, b.active, outcome) \in {FinishActive(b, "SUCCESS"), FinishActive(b, "FAILED")}
    BY <1>2 DEF StartStill
  <2>2. "SUCCESS" \in Statuses /\ "FAILED" \in Statuses
    BY DEF Statuses
  <2> QED BY <2>1, <2>2, FinishActiveSound
<1> QED BY <1>1, <1>2

LEMMA StartMovingSound ==
    ASSUME NEW b, Sound(b), b.active # NoAction, NEW outcome
    PROVE  Sound(StartMoving(b, b.active, outcome))
<1> DEFINE prio == PriorityOf(b.active.req)
<1> DEFINE held == AcquireMotion(b, b.active, prio)
<1>1. b \in Bodies /\ b.active \in ActionIds /\ b.lease \in Leases
  BY DEF Sound, Bodies
<1>2. prio \in {50, 80, 100} /\ prio # 100
  BY DEF PriorityOf, Priority
<1>3. "FAILED" \in Statuses
  BY DEF Statuses
<1>4. Sound(held) /\ held.active = b.active /\ held.lease \in Leases
  <2>1. held = [b EXCEPT !.lease = Acquired(b.lease, b.active, prio)]
    BY DEF AcquireMotion, Preempts
  <2> HIDE DEF prio
  <2>3. Sound(held)
    BY <1>1, <1>2, AcquireMotionSound
  <2>2. held.active = b.active
    BY <1>1, <2>1 DEF Bodies
  <2> QED BY <2>3, <2>2 DEF Sound, Bodies
<1>5. CASE outcome \in {"REFUSED", "SATISFIED"}
  <2>1. StartMoving(b, b.active, outcome) = StartStill(b, b.active, outcome)
    BY <1>5 DEF StartMoving
  <2> QED BY <2>1, StartStillSound
<1>6. CASE outcome \notin {"REFUSED", "SATISFIED"} /\ ~Grants(b.lease, b.active, prio)
  <2>1. StartMoving(b, b.active, outcome) = FinishActive(b, "FAILED")
    BY <1>6 DEF StartMoving
  <2> QED BY <1>3, <2>1, FinishActiveSound
<1>7. CASE outcome \notin {"REFUSED", "SATISFIED"} /\ Grants(b.lease, b.active, prio) /\ outcome = "RUNNING"
  <2>1. StartMoving(b, b.active, outcome) = [held EXCEPT !.pending = held.active]
    BY <1>4, <1>7 DEF StartMoving
  <2> HIDE DEF held
  <2> QED BY <1>4, <2>1, CheckpointSound
<1>8. CASE outcome \notin {"REFUSED", "SATISFIED"} /\ Grants(b.lease, b.active, prio) /\ outcome # "RUNNING"
  <2> DEFINE freed == [held EXCEPT !.lease = Released(held.lease, b.active)]
  <2>1. StartMoving(b, b.active, outcome) = FinishActive(freed, "FAILED")
    BY <1>8 DEF StartMoving
  <2> HIDE DEF held
  <2>2. Sound(freed)
    BY <1>1, <1>2, <1>4, LeaseType, SoundLease DEF Sound
  <2>3. freed.active # NoAction
    BY <1>4 DEF Sound, Bodies
  <2> HIDE DEF freed
  <2> QED BY <1>3, <2>1, <2>2, <2>3, FinishActiveSound
<1> QED BY <1>5, <1>6, <1>7, <1>8

LEMMA StartActionSound ==
    ASSUME NEW b, Sound(b), NEW r \in Requests, b.active = NoAction, ~Cached(b, r), NEW outcome
    PROVE  Sound(StartAction(b, r, outcome))
<1> DEFINE id  == NewId(b, r)
<1> DEFINE new == [b EXCEPT !.active = id, !.age = 0, !.runs[r] = @ + 1]
<1>1. Sound(new) /\ new.active = id /\ id # NoAction
  BY CreateSound, BodyAssumption
<1>2. StartAction(b, r, outcome) \in {StartStill(new, id, outcome), StartMoving(new, id, outcome)}
  BY DEF StartAction
<1> HIDE DEF id, new
<1> QED BY <1>1, <1>2, StartStillSound, StartMovingSound

\* Every branch of submit keeps the body sound.
LEMMA SubmitSound ==
    ASSUME NEW b, Sound(b), NEW r \in Requests, NEW outcome
    PROVE  Sound(Submit(b, r, outcome))
<1>1. {"SUCCESS", "FAILED"} \subseteq Statuses
  BY DEF Statuses
<1>2. CASE IsDuplicate(b, r)
  BY <1>2 DEF Submit
<1>3. CASE ~IsDuplicate(b, r)
  <2>1. ~Cached(b, r) /\ (b.active # NoAction => b.active.req # r)
    BY <1>3 DEF IsDuplicate
  <2>2. \A status \in {"SUCCESS", "FAILED"} : Sound(SendCached(b, Unrun(r, status)))
    BY <1>1, <2>1, ResultType, SendCachedSound
  <2>3. CASE Kind[r] = "observe"
    <3>1. Submit(b, r, outcome) \in
              {SendCached(b, Unrun(r, "SUCCESS")), SendCached(b, Unrun(r, "FAILED"))}
      BY <1>3, <2>3 DEF Submit, Observe
    <3> QED BY <2>2, <3>1
  <2>4. CASE Kind[r] = "stop"
    <3> DEFINE c == CancelAndStop(b)
    <3>1. Submit(b, r, outcome) = SendCached(c, Unrun(r, "SUCCESS"))
      BY <1>3, <2>4 DEF Submit, StopRequest
    <3>2. Sound(c) /\ c.active = NoAction
      BY CancelAndStopSound
    <3> HIDE DEF c
    <3> QED BY <1>1, <3>1, <3>2, ResultType, SendCachedSound
  <2>5. CASE Kind[r] \notin {"observe", "stop"} /\ (b.active # NoAction \/ Kind[r] = "malformed")
    <3>1. Submit(b, r, outcome) = SendCached(b, Unrun(r, "FAILED"))
      BY <1>3, <2>5 DEF Submit
    <3> QED BY <2>2, <3>1
  <2>6. CASE Kind[r] \notin {"observe", "stop"} /\ ~(b.active # NoAction \/ Kind[r] = "malformed")
    <3>1. Submit(b, r, outcome) = StartAction(b, r, outcome)
      BY <1>3, <2>6 DEF Submit
    <3> QED BY <2>1, <2>6, <3>1, StartActionSound
  <2> QED BY <2>3, <2>4, <2>5, <2>6
<1> QED BY <1>2, <1>3

------------------------------------------------------------------------------
(* One tick, the reflexes, and a new engine                                 *)

\* A tick of the running action keeps the body sound.
LEMMA TickActionSound ==
    ASSUME NEW b, Sound(b), NEW outcome \in TickOutcomes
    PROVE  Sound(TickAction(b, outcome))
<1> DEFINE freed  == [b EXCEPT !.lease = Released(@, b.active)]
<1> DEFINE ticked == IF Yields(outcome) THEN freed ELSE b
<1>1. CASE b.active = NoAction
  BY <1>1 DEF TickAction
<1>2. CASE b.active # NoAction /\ b.age > Timeout
  <2>1. TickAction(b, outcome) = CancelActive(b, "TIMEOUT")
    BY <1>2 DEF TickAction
  <2> QED BY <2>1, CancelActiveSound DEF Statuses
<1>3. CASE b.active # NoAction /\ ~(b.age > Timeout)
  <2>1. b \in Bodies /\ b.active \in ActionIds /\ b.lease \in Leases
    BY <1>3 DEF Sound, Bodies
  <2>2. Sound(freed)
    BY <2>1, LeaseType, SoundLease DEF Sound
  <2>3. freed.active = b.active
    BY <2>1 DEF Bodies
  <2>4. Sound(ticked) /\ ticked.active # NoAction
    BY <1>3, <2>2, <2>3
  <2>5. TickAction(b, outcome) \in {FinishActive(ticked, EndStatus(outcome)), ticked}
    BY <1>3 DEF TickAction
  <2>6. EndStatus(outcome) \in Statuses
    BY DEF EndStatus, Statuses
  <2> HIDE DEF ticked
  <2> QED BY <2>4, <2>5, <2>6, FinishActiveSound
<1> QED BY <1>1, <1>2, <1>3

\* The game tick that passes keeps the body sound.
LEMMA AgedSound ==
    ASSUME NEW b, Sound(b)
    PROVE  Sound(Aged(b))
<1>1. CASE b.active = NoAction \/ b.age > Timeout
  BY <1>1 DEF Aged
<1>2. CASE ~(b.active = NoAction \/ b.age > Timeout)
  <2> DEFINE c == [b EXCEPT !.age = @ + 1]
  <2>1. b \in Bodies /\ b.age + 1 \in 0 .. Timeout + 1
    BY <1>2, BodyAssumption DEF Sound, Bodies
  <2>2. c \in Bodies
    BY <2>1 DEF Bodies
  <2>3. /\ c.active = b.active /\ c.pending = b.pending /\ c.replay = b.replay
        /\ c.runs = b.runs /\ c.forgotten = b.forgotten /\ c.sent = b.sent /\ c.lease = b.lease
    BY <2>1 DEF Bodies
  <2>4. Aged(b) = c
    BY <1>2 DEF Aged
  <2> HIDE DEF c
  <2> QED BY <2>2, <2>3, <2>4, SoundFrame DEF Sound
<1> QED BY <1>1, <1>2

\* Changing what is only read by the reflex layer keeps the body sound.
LEMMA ReflexFieldsSound ==
    ASSUME NEW b, Sound(b), NEW x \in ReflexStates
    PROVE  /\ Sound([b EXCEPT !.reflex = x]) /\ Sound([b EXCEPT !.reported = x])
           /\ [b EXCEPT !.reported = x].active = b.active
<1> DEFINE c == [b EXCEPT !.reflex = x]
<1> DEFINE d == [b EXCEPT !.reported = x]
<1>1. b \in Bodies
  BY DEF Sound
<1>2. /\ c \in Bodies /\ c.active = b.active /\ c.pending = b.pending
      /\ c.replay = b.replay /\ c.runs = b.runs /\ c.forgotten = b.forgotten
      /\ c.sent = b.sent /\ c.lease = b.lease
  BY <1>1 DEF Bodies
<1>3. /\ d \in Bodies /\ d.active = b.active /\ d.pending = b.pending
      /\ d.replay = b.replay /\ d.runs = b.runs /\ d.forgotten = b.forgotten
      /\ d.sent = b.sent /\ d.lease = b.lease
  BY <1>1 DEF Bodies
<1> HIDE DEF c, d
<1>4. Sound(c) /\ Sound(d)
  BY <1>2, <1>3, SoundFrame DEF Sound
<1> QED BY <1>3, <1>4 DEF c, d

\* Stopping the reflex engine keeps the body sound, and its action.
LEMMA ReflexStopSound ==
    ASSUME NEW b, Sound(b)
    PROVE  Sound(ReflexStop(b)) /\ ReflexStop(b).active = b.active
<1> DEFINE c == ReflexStop(b)
<1>1. /\ b \in Bodies /\ b.lease \in Leases /\ Released(b.lease, ReflexId) \in Leases
      /\ Disciplined(Released(b.lease, ReflexId))
  BY LeaseType DEF Sound, Bodies
<1>2. "NONE" \in ReflexStates
  BY DEF ReflexStates
<1>3. c \in Bodies
  BY <1>1, <1>2 DEF ReflexStop, Bodies
<1>4. /\ c.active = b.active /\ c.pending = b.pending /\ c.replay = b.replay
      /\ c.runs = b.runs /\ c.forgotten = b.forgotten /\ c.sent = b.sent
      /\ c.lease = Released(b.lease, ReflexId)
  BY <1>1 DEF ReflexStop, Bodies
<1> HIDE DEF c
<1>5. Sound(c)
  BY <1>1, <1>3, <1>4, SoundFrame
<1> QED BY <1>4, <1>5 DEF c

\* Preempting ends the running action; the reflex is what snapshots report.
LEMMA PreemptSound ==
    ASSUME NEW b, Sound(b), NEW next \in ReflexStates
    PROVE  Sound(Preempt(b, next)) /\ Preempt(b, next).active = NoAction
<1> DEFINE c == [b EXCEPT !.reported = next]
<1>1. Sound(c)
  BY ReflexFieldsSound
<1>2. Preempt(b, next) = CancelActive(c, "PREEMPTED")
  BY DEF Preempt
<1> HIDE DEF c
<1> QED BY <1>1, <1>2, CancelActiveSound DEF Statuses

\* An escape keeps the body sound.
LEMMA TakeOverSound ==
    ASSUME NEW b, Sound(b), NEW next \in Escapes
    PROVE  Sound(TakeOver(b, next))
<1> DEFINE warned == IF b.reflex = next THEN b ELSE [Preempt(b, next) EXCEPT !.reflex = next]
<1>1. next \in ReflexStates
  BY DEF ReflexStates
<1>2. Sound(warned)
  BY <1>1, PreemptSound, ReflexFieldsSound
<1>3. TakeOver(b, next) = AcquireMotion(warned, ReflexId, 100)
  BY DEF TakeOver, Priority
<1> HIDE DEF warned
<1> QED BY <1>2, <1>3, AcquireMotionSound

\* So does any tick of the reflex engine.
LEMMA ReflexTickSound ==
    ASSUME NEW b, Sound(b), NEW danger \in ReflexStates
    PROVE  Sound(ReflexTick(b, danger))
<1>1. CASE danger \in Escapes
  <2>1. ReflexTick(b, danger) = TakeOver(b, danger)
    BY <1>1, BodyAssumption DEF ReflexTick
  <2> QED BY <1>1, <2>1, TakeOverSound
<1>2. CASE danger \notin Escapes /\ danger = "IMMEDIATE_MELEE_DEFENSE"
  <2>1. ReflexTick(b, danger) = [b EXCEPT !.reflex = danger]
    BY <1>2 DEF ReflexTick
  <2> QED BY <2>1, ReflexFieldsSound
<1>3. CASE danger \notin Escapes /\ danger # "IMMEDIATE_MELEE_DEFENSE"
  <2>1. ReflexTick(b, danger) \in {b, ReflexStop(b)}
    BY <1>3 DEF ReflexTick
  <2> QED BY <2>1, ReflexStopSound
<1> QED BY <1>1, <1>2, <1>3

------------------------------------------------------------------------------
(* The reflexes                                                             *)

\* Cancelling an action leaves the reflex and its lease alone.
LEMMA CancelKeepsReflex ==
    ASSUME NEW b \in Bodies, NEW status
    PROVE  /\ CancelActive(b, status).reflex = b.reflex
           /\ b.lease.owner = ReflexId => CancelActive(b, status).lease = b.lease
<1>1. CASE b.active = NoAction
  BY <1>1 DEF CancelActive
<1>2. CASE b.active # NoAction
  <2>1. b.active # ReflexId
    BY BodyAssumption DEF Bodies
  <2> QED BY <1>2, <2>1 DEF CancelActive, FinishActive, SendCached, Released, Bodies
<1> QED BY <1>1, <1>2

\* So does a tick of the action.
LEMMA TickKeepsReflex ==
    ASSUME NEW b, Sound(b), NEW outcome \in TickOutcomes
    PROVE  /\ Aged(TickAction(b, outcome)).reflex = b.reflex
           /\ b.lease.owner = ReflexId => Aged(TickAction(b, outcome)).lease = b.lease
           /\ b.active = NoAction => Aged(TickAction(b, outcome)).active = NoAction
<1> DEFINE c == TickAction(b, outcome)
<1>6. b \in Bodies /\ c \in Bodies
  BY TickActionSound DEF Sound
<1>1. c.reflex = b.reflex /\ (b.lease.owner = ReflexId => c.lease = b.lease)
  <2>1. CASE b.active = NoAction \/ b.age > Timeout
    BY <1>6, <2>1, CancelKeepsReflex DEF TickAction
  <2>2. CASE b.active # NoAction /\ ~(b.age > Timeout)
    <3>1. b.active # ReflexId
      BY <1>6, <2>2, BodyAssumption DEF Bodies
    <3> QED BY <1>6, <2>2, <3>1 DEF TickAction, FinishActive, SendCached, Released, Bodies
  <2> QED BY <2>1, <2>2
<1>2. b.active = NoAction => c = b
  BY DEF TickAction
<1> HIDE DEF c
<1>3. Aged(c) \in {c, [c EXCEPT !.age = @ + 1]}
  BY DEF Aged
<1>4. /\ [c EXCEPT !.age = @ + 1].reflex = c.reflex
      /\ [c EXCEPT !.age = @ + 1].lease = c.lease
  BY <1>6 DEF Bodies
<1>5. c.active = NoAction => Aged(c) = c
  BY DEF Aged
<1> QED BY <1>1, <1>2, <1>3, <1>4, <1>5 DEF c

\* An escape leaves the navigation to the reflex engine; one that begins ends
\* the running action.
LEMMA TakeOverOwns ==
    ASSUME NEW b, Sound(b), NEW next \in Escapes
    PROVE  /\ TakeOver(b, next).reflex = next
           /\ TakeOver(b, next).lease.owner = ReflexId
           /\ b.reflex # next => TakeOver(b, next).active = NoAction
<1> DEFINE told   == Preempt(b, next)
<1> DEFINE warned == IF b.reflex = next THEN b ELSE [told EXCEPT !.reflex = next]
<1> DEFINE held   == [warned EXCEPT !.lease = Acquired(warned.lease, ReflexId, 100)]
<1>1. next \in ReflexStates
  BY DEF ReflexStates
<1>2. Sound(told) /\ told.active = NoAction
  BY <1>1, PreemptSound
<1>3. TakeOver(b, next) = AcquireMotion(warned, ReflexId, 100)
  BY DEF TakeOver, Priority
<1>4. TakeOver(b, next) \in {held, CancelActive(held, "PREEMPTED")}
  BY <1>3 DEF AcquireMotion
<1> HIDE DEF told
<1>5. Sound(warned) /\ warned.reflex = next /\ (b.reflex # next => warned.active = NoAction)
  <2>1. [told EXCEPT !.reflex = next].reflex = next /\ [told EXCEPT !.reflex = next].active = told.active
    BY <1>2 DEF Sound, Bodies
  <2> QED BY <1>1, <1>2, <2>1, ReflexFieldsSound
<1> HIDE DEF warned
<1>6. warned \in Bodies /\ warned.lease \in Leases /\ Disciplined(warned.lease)
  BY <1>5 DEF Sound, Bodies
<1>7. Acquired(warned.lease, ReflexId, 100) \in Leases /\ Acquired(warned.lease, ReflexId, 100).owner = ReflexId
  BY <1>6 DEF Leases, Disciplined, Acquired, Grants
<1>8. /\ held \in Bodies /\ held.reflex = next /\ held.lease.owner = ReflexId
      /\ held.active = warned.active
  BY <1>5, <1>6, <1>7 DEF Bodies
<1> HIDE DEF held
<1>9. /\ CancelActive(held, "PREEMPTED").reflex = next
      /\ CancelActive(held, "PREEMPTED").lease.owner = ReflexId
      /\ held.active = NoAction => CancelActive(held, "PREEMPTED").active = NoAction
  <2>1. held.active = NoAction => CancelActive(held, "PREEMPTED") = held
    BY DEF CancelActive
  <2> QED BY <1>8, <2>1, CancelKeepsReflex
<1> QED BY <1>4, <1>5, <1>8, <1>9

------------------------------------------------------------------------------
(* What the engine remembers across a call                                  *)

\* The cached result of a request is the one stored for it.
LEMMA LookupAt ==
    ASSUME NEW q \in Seq(Results), Distinct(q), NEW i \in 1 .. Len(q)
    PROVE  Lookup(q, q[i].req) = q[i]
<1>1. DOMAIN q = 1 .. Len(q)
  OBVIOUS
<1>2. \A j \in DOMAIN q : q[j].req = q[i].req => j = i
  BY <1>1 DEF Distinct
<1> QED BY <1>1, <1>2 DEF Lookup

\* Storing the result of a new request changes no other result, drops nothing
\* unless the cache is then full, and never shortens it.
LEMMA PutKeeps ==
    ASSUME NEW q \in Caches, Distinct(q), NEW res \in Results, res.req \notin Keys(q)
    PROVE  /\ \A r \in Keys(q) : r \in Keys(Put(q, res)) => Lookup(Put(q, res), r) = Lookup(q, r)
           /\ Keys(q) \subseteq Keys(Put(q, res)) \/ Len(Put(q, res)) = ReplayCap
           /\ Len(q) <= Len(Put(q, res))
<1> DEFINE p == Put(q, res)
<1>0. q \in Seq(Results) /\ Len(q) \in Nat /\ Len(q) <= ReplayCap /\ ReplayCap \in Nat \ {0}
  BY BodyAssumption DEF Caches
<1>1. p \in Seq(Results) /\ Distinct(p) /\ Len(p) <= ReplayCap
  BY PutFacts DEF Caches
<1>2. /\ Len(p) = Len(q) + 1 \/ (Len(p) = Len(q) /\ Len(q) = ReplayCap)
      /\ \A i \in 1 .. Len(q) :
             q[i].req \in Keys(p) => \E j \in 1 .. Len(p) : p[j] = q[i]
      /\ Len(q) < ReplayCap => Keys(q) \subseteq Keys(p)
  <2>1. CASE Len(q) < ReplayCap
    <3>1. p = Append(q, res)
      BY <2>1 DEF Put, PutIn
    <3>2. /\ Len(p) = Len(q) + 1 /\ Keys(q) \subseteq Keys(p)
          /\ \A i \in 1 .. Len(q) : p[i] = q[i] /\ i \in 1 .. Len(p)
      BY <1>0, <3>1, KeysAppend
    <3> QED BY <3>2
  <2>2. CASE ~(Len(q) < ReplayCap)
    <3> DEFINE t == Tail(q)
    <3>1. p = Append(t, res) /\ Len(q) = ReplayCap /\ q # << >>
      BY <1>0, <2>2 DEF Put, PutIn
    <3>2. /\ t \in Seq(Results) /\ Len(t) = Len(q) - 1 /\ Keys(q) = Keys(t) \cup {Head(q).req}
          /\ Head(q) = q[1] /\ Distinct(t)
          /\ \A i \in 1 .. Len(t) : t[i] = q[i + 1]
      BY <1>0, <3>1, KeysTail
    <3> HIDE DEF t
    <3>3. /\ Len(p) = Len(q) /\ Keys(p) = Keys(t) \cup {res.req}
          /\ \A i \in 1 .. Len(t) : p[i] = t[i] /\ i \in 1 .. Len(p)
      BY <1>0, <3>1, <3>2, KeysAppend
    <3>4. ASSUME NEW i \in 1 .. Len(q), q[i].req \in Keys(p)
          PROVE  \E j \in 1 .. Len(p) : p[j] = q[i]
      <4>1. CASE i = 1
        <5>1. q[1].req \in Keys(t)
          BY <1>0, <3>3, <3>4, <4>1, KeysByPosition
        <5>2. PICK k \in 1 .. Len(t) : t[k].req = q[1].req
          BY <3>2, <5>1, KeysByPosition
        <5>3. k + 1 \in 1 .. Len(q) /\ q[k + 1].req = q[1].req /\ 1 \in 1 .. Len(q) /\ k + 1 # 1
          BY <1>0, <3>2, <5>2
        <5> QED BY <1>0, <5>3 DEF Distinct
      <4>2. CASE i # 1
        <5>1. i - 1 \in 1 .. Len(t) /\ (i - 1) + 1 = i
          BY <1>0, <3>2, <4>2
        <5> QED BY <3>2, <3>3, <5>1
      <4> QED BY <4>1, <4>2
    <3> QED BY <2>2, <3>1, <3>3, <3>4
  <2> QED BY <2>1, <2>2
<1> HIDE DEF p
<1>3. ASSUME NEW r \in Keys(q), r \in Keys(p)
      PROVE  Lookup(p, r) = Lookup(q, r)
  <2>1. PICK i \in 1 .. Len(q) : q[i].req = r
    BY <1>0, KeysByPosition
  <2>2. PICK j \in 1 .. Len(p) : p[j] = q[i]
    BY <1>2, <1>3, <2>1
  <2> QED BY <1>0, <1>1, <2>1, <2>2, LookupAt
<1>4. Keys(q) \subseteq Keys(p) \/ Len(p) = ReplayCap
  BY <1>0, <1>1, <1>2
<1>5. Len(q) <= Len(p)
  BY <1>0, <1>2
<1> QED BY <1>3, <1>4, <1>5 DEF p

\* A cache remembers as many requests as it has results.
LEMMA KeysCount ==
    ASSUME NEW q \in Seq(Results), Distinct(q)
    PROVE  Cardinality(Keys(q)) = Len(q)
<1> DEFINE f == [i \in 1 .. Len(q) |-> q[i].req]
<1>1. Len(q) \in Nat /\ DOMAIN q = 1 .. Len(q)
  OBVIOUS
<1>2. f \in [1 .. Len(q) -> Keys(q)]
  BY <1>1 DEF Keys
<1>3. \A i, j \in 1 .. Len(q) : f[i] = f[j] => i = j
  BY <1>1 DEF Distinct
<1>4. \A r \in Keys(q) : \E i \in 1 .. Len(q) : f[i] = r
  BY <1>1 DEF Keys
<1> HIDE DEF f
<1>5. f \in Bijection(1 .. Len(q), Keys(q))
  BY <1>2, <1>3, <1>4 DEF Bijection, Injection, IsInjective, Surjection
<1>6. ExistsBijection(1 .. Len(q), Keys(q))
  BY <1>5 DEF ExistsBijection
<1> QED BY <1>1, <1>6, FS_CountingElements

\* A call that accepts no request leaves the running action and the memory
\* alone, or ends that action and stores its one result.
Ending(b, c) ==
    \/ c.active = b.active /\ c.replay = b.replay
    \/ /\ b.active # NoAction /\ c.active = NoAction
       /\ \E status \in Statuses : c.replay = Put(b.replay, Result(b.active, status))

LEMMA EndingTwice ==
    ASSUME NEW b, NEW c, NEW d, Ending(b, c), Ending(c, d)
    PROVE  Ending(b, d)
BY DEF Ending

LEMMA FinishEnds ==
    ASSUME NEW b \in Bodies, b.active # NoAction, NEW status \in Statuses
    PROVE  Ending(b, FinishActive(b, status))
<1>1. FinishActive(b, status).active = NoAction
  BY DEF FinishActive, SendCached, Bodies
<1>2. FinishActive(b, status).replay = Put(b.replay, Result(b.active, status))
  BY DEF FinishActive, SendCached, Bodies
<1> QED BY <1>1, <1>2 DEF Ending

LEMMA CancelEnds ==
    ASSUME NEW b \in Bodies, NEW status \in Statuses
    PROVE  Ending(b, CancelActive(b, status))
<1>1. CASE b.active = NoAction
  BY <1>1 DEF CancelActive, Ending
<1>2. CASE b.active # NoAction
  <2>1. CancelActive(b, status).active = NoAction
    BY <1>2 DEF CancelActive, FinishActive, SendCached, Bodies
  <2>2. CancelActive(b, status).replay = Put(b.replay, Result(b.active, status))
    BY <1>2 DEF CancelActive, FinishActive, SendCached, Bodies
  <2> QED BY <1>2, <2>1, <2>2 DEF Ending
<1> QED BY <1>1, <1>2

LEMMA CancelAndStopEnds ==
    ASSUME NEW b, Sound(b)
    PROVE  Ending(b, CancelAndStop(b))
<1> DEFINE c == CancelActive(b, "CANCELLED")
<1>1. "CANCELLED" \in Statuses
  BY DEF Statuses
<1>2. Ending(b, c) /\ c \in Bodies
  BY <1>1, CancelEnds, CancelActiveSound DEF Sound
<1>3. CancelAndStop(b) = [c EXCEPT !.lease = NoLease]
  BY DEF CancelAndStop
<1> HIDE DEF c
<1>4. CancelAndStop(b).active = c.active /\ CancelAndStop(b).replay = c.replay
  BY <1>2, <1>3 DEF Bodies
<1> QED BY <1>2, <1>4 DEF Ending

LEMMA AcquireEnds ==
    ASSUME NEW b, Sound(b), NEW id \in ActionIds \cup {ReflexId}, NEW prio \in {50, 80, 100},
           prio = 100 => id = ReflexId
    PROVE  Ending(b, AcquireMotion(b, id, prio))
<1> DEFINE c == [b EXCEPT !.lease = Acquired(b.lease, id, prio)]
<1>0. b.lease \in Leases /\ Disciplined(b.lease)
  BY DEF Sound, Bodies
<1>1. Sound(c)
  BY <1>0, LeaseType, SoundLease
<1>2. c.active = b.active /\ c.replay = b.replay
  BY DEF Sound, Bodies
<1>3. AcquireMotion(b, id, prio) \in {c, CancelActive(c, "PREEMPTED")}
  BY DEF AcquireMotion
<1> HIDE DEF c
<1>4. Ending(b, c) /\ Ending(c, CancelActive(c, "PREEMPTED"))
  BY <1>1, <1>2, CancelEnds DEF Ending, Sound, Statuses
<1> QED BY <1>3, <1>4, EndingTwice

LEMMA StartStillEnds ==
    ASSUME NEW b \in Bodies, b.active # NoAction, NEW outcome
    PROVE  Ending(b, StartStill(b, b.active, outcome))
<1>1. CASE outcome = "RUNNING"
  <2>1. StartStill(b, b.active, outcome) = [b EXCEPT !.pending = b.active]
    BY <1>1 DEF StartStill
  <2> QED BY <2>1 DEF Bodies, Ending
<1>2. CASE outcome # "RUNNING"
  <2>1. StartStill(b, b.active, outcome) \in {FinishActive(b, "SUCCESS"), FinishActive(b, "FAILED")}
    BY <1>2 DEF StartStill
  <2>2. "SUCCESS" \in Statuses /\ "FAILED" \in Statuses
    BY DEF Statuses
  <2> QED BY <2>1, <2>2, FinishEnds
<1> QED BY <1>1, <1>2

LEMMA StartMovingEnds ==
    ASSUME NEW b \in Bodies, b.active # NoAction, NEW outcome
    PROVE  Ending(b, StartMoving(b, b.active, outcome))
<1> DEFINE prio  == PriorityOf(b.active.req)
<1> DEFINE held  == [b EXCEPT !.lease = Acquired(b.lease, b.active, prio)]
<1> DEFINE freed == [held EXCEPT !.lease = Released(held.lease, b.active)]
<1>1. AcquireMotion(b, b.active, prio) = held
  BY DEF AcquireMotion, Preempts
<1>2. StartMoving(b, b.active, outcome) \in
          {StartStill(b, b.active, outcome), FinishActive(b, "FAILED"),
           [held EXCEPT !.pending = b.active], FinishActive(freed, "FAILED")}
  BY <1>1 DEF StartMoving
<1>3. [held EXCEPT !.pending = b.active].active = b.active
      /\ [held EXCEPT !.pending = b.active].replay = b.replay
  BY DEF Bodies
<1>4. FinishActive(freed, "FAILED").active = NoAction
      /\ FinishActive(freed, "FAILED").replay = Put(b.replay, Result(b.active, "FAILED"))
  BY DEF FinishActive, SendCached, Bodies
<1> HIDE DEF held, freed
<1>5. "FAILED" \in Statuses
  BY DEF Statuses
<1>6. Ending(b, [held EXCEPT !.pending = b.active]) /\ Ending(b, FinishActive(freed, "FAILED"))
  BY <1>3, <1>4, <1>5 DEF Ending
<1> QED BY <1>2, <1>5, <1>6, StartStillEnds, FinishEnds

LEMMA TickEnds ==
    ASSUME NEW b, Sound(b), NEW outcome \in TickOutcomes
    PROVE  Ending(b, TickAction(b, outcome))
<1> DEFINE freed  == [b EXCEPT !.lease = Released(@, b.active)]
<1> DEFINE ticked == IF Yields(outcome) THEN freed ELSE b
<1>1. CASE b.active = NoAction
  BY <1>1 DEF TickAction, Ending
<1>2. CASE b.active # NoAction /\ b.age > Timeout
  BY <1>2, CancelEnds DEF TickAction, Sound, Statuses
<1>3. CASE b.active # NoAction /\ ~(b.age > Timeout)
  <2>1. b \in Bodies /\ b.lease \in Leases /\ Released(b.lease, b.active) \in Leases
    BY <1>3, LeaseType DEF Sound, Bodies
  <2>2. freed \in Bodies /\ freed.active = b.active /\ freed.replay = b.replay
    BY <2>1 DEF Bodies
  <2>3. TickAction(b, outcome) \in {FinishActive(ticked, EndStatus(outcome)), ticked}
    BY <1>3 DEF TickAction
  <2>4. ticked \in Bodies /\ Ending(b, ticked) /\ ticked.active = b.active
    BY <2>1, <2>2 DEF Ending
  <2>5. EndStatus(outcome) \in Statuses
    BY DEF EndStatus, Statuses
  <2> HIDE DEF ticked
  <2> QED BY <1>3, <2>3, <2>4, <2>5, FinishEnds, EndingTwice
<1> QED BY <1>1, <1>2, <1>3

LEMMA AgedEnds ==
    ASSUME NEW b \in Bodies
    PROVE  Ending(b, Aged(b))
BY DEF Aged, Ending, Bodies

LEMMA ReflexStopEnds ==
    ASSUME NEW b \in Bodies
    PROVE  Ending(b, ReflexStop(b))
BY DEF ReflexStop, Ending, Bodies

LEMMA TakeOverEnds ==
    ASSUME NEW b, Sound(b), NEW next \in Escapes
    PROVE  Ending(b, TakeOver(b, next))
<1> DEFINE noted  == [b EXCEPT !.reported = next]
<1> DEFINE told   == CancelActive(noted, "PREEMPTED")
<1> DEFINE warned == IF b.reflex = next THEN b ELSE [told EXCEPT !.reflex = next]
<1>1. next \in ReflexStates
  BY DEF ReflexStates
<1>2. Sound(noted) /\ noted.active = b.active /\ noted.replay = b.replay
  BY <1>1, ReflexFieldsSound DEF Sound, Bodies
<1>3. TakeOver(b, next) = AcquireMotion(warned, ReflexId, 100)
  BY DEF TakeOver, Preempt, Priority
<1> HIDE DEF noted
<1>4. Sound(told) /\ Ending(noted, told) /\ Ending(b, noted)
  BY <1>2, CancelActiveSound, CancelEnds DEF Statuses, Sound, Ending
<1> HIDE DEF told
<1>5. Ending(told, [told EXCEPT !.reflex = next]) /\ Sound([told EXCEPT !.reflex = next])
  BY <1>1, <1>4, ReflexFieldsSound DEF Ending, Sound, Bodies
<1>6. Ending(b, b)
  BY DEF Ending
<1>7. Ending(b, [told EXCEPT !.reflex = next])
  BY <1>4, <1>5, EndingTwice
<1>8. Sound(warned) /\ Ending(b, warned)
  BY <1>5, <1>6, <1>7
<1> HIDE DEF warned
<1>9. Ending(warned, AcquireMotion(warned, ReflexId, 100))
  BY <1>8, AcquireEnds
<1> QED BY <1>3, <1>8, <1>9, EndingTwice

LEMMA ReflexTickEnds ==
    ASSUME NEW b, Sound(b), NEW danger \in ReflexStates
    PROVE  Ending(b, ReflexTick(b, danger))
<1>1. CASE danger \in Escapes
  <2>1. ReflexTick(b, danger) = TakeOver(b, danger)
    BY <1>1, BodyAssumption DEF ReflexTick
  <2> QED BY <1>1, <2>1, TakeOverEnds
<1>2. CASE danger \notin Escapes
  <2>1. ReflexTick(b, danger) \in {[b EXCEPT !.reflex = danger], b, ReflexStop(b)}
    BY <1>2 DEF ReflexTick
  <2>2. Ending(b, [b EXCEPT !.reflex = danger]) /\ Ending(b, b)
    BY DEF Sound, Bodies, Ending
  <2> QED BY <2>1, <2>2, ReflexStopEnds DEF Sound
<1> QED BY <1>1, <1>2

------------------------------------------------------------------------------
(* What a call may change of what the engine knows                          *)

\* A result the engine remembers before and after a call is the same one; it
\* drops something only for a full memory; an action that runs is none it
\* remembers a result of; and the action that ran still runs, or has a result.
Serving(b, c) ==
    /\ \A r \in Keys(b.replay) : r \in Keys(c.replay) => Lookup(c.replay, r) = Lookup(b.replay, r)
    /\ Keys(b.replay) \subseteq Keys(c.replay) \/ Len(c.replay) = ReplayCap
    /\ c.active # NoAction => c.active.req \notin Keys(b.replay)
    /\ b.active # NoAction =>
           \/ c.active = b.active
           \/ b.active.req \in Keys(c.replay)
           \/ Len(c.replay) = ReplayCap

LEMMA EndingServes ==
    ASSUME NEW b, Sound(b), NEW c, Ending(b, c)
    PROVE  Serving(b, c)
<1>1. b \in Bodies /\ b.replay \in Caches /\ Distinct(b.replay)
      /\ (b.active # NoAction => b.active \in ActionIds /\ b.active.req \notin Keys(b.replay))
  BY DEF Sound, Bodies, MemoryOK
<1>2. CASE c.active = b.active /\ c.replay = b.replay
  BY <1>1, <1>2 DEF Serving
<1>3. CASE b.active # NoAction /\ c.active = NoAction
           /\ \E status \in Statuses : c.replay = Put(b.replay, Result(b.active, status))
  <2>1. PICK status \in Statuses : c.replay = Put(b.replay, Result(b.active, status))
    BY <1>3
  <2> DEFINE res == Result(b.active, status)
  <2>2. res \in Results /\ res.req = b.active.req
    BY <1>1, <1>3, ResultType
  <2>3. c.replay = Put(b.replay, res)
    BY <2>1
  <2> HIDE DEF res
  <2> QED BY <1>1, <1>3, <2>2, <2>3, PutFacts, PutKeeps DEF Serving
<1> QED BY <1>2, <1>3 DEF Ending

\* An answer to a request the engine does not know.
LEMMA AnswerServes ==
    ASSUME NEW b, Sound(b), NEW res \in Results, ~IsDuplicate(b, res.req)
    PROVE  Serving(b, SendCached(b, res))
<1>1. b \in Bodies /\ b.replay \in Caches /\ Distinct(b.replay)
      /\ (b.active # NoAction => b.active.req \notin Keys(b.replay))
  BY DEF Sound, Bodies, MemoryOK
<1>2. SendCached(b, res).active = b.active /\ SendCached(b, res).replay = Put(b.replay, res)
  BY <1>1 DEF SendCached, Bodies
<1>3. res.req \notin Keys(b.replay)
  BY DEF IsDuplicate, Cached
<1> QED BY <1>1, <1>2, <1>3, PutKeeps DEF Serving

\* The same after the running action was cancelled.
LEMMA StopServes ==
    ASSUME NEW b, Sound(b), NEW d, Sound(d), Ending(b, d), d.active = NoAction,
           NEW res \in Results, ~IsDuplicate(b, res.req)
    PROVE  Serving(b, SendCached(d, res))
<1> DEFINE c == SendCached(d, res)
<1>1. /\ b.replay \in Caches /\ Distinct(b.replay)
      /\ b.active # NoAction => b.active \in ActionIds
      /\ d \in Bodies /\ d.replay \in Caches /\ Distinct(d.replay)
  BY DEF Sound, Bodies, MemoryOK
<1>2. c.active = NoAction /\ c.replay = Put(d.replay, res)
  BY <1>1 DEF SendCached, Bodies
<1> HIDE DEF c
<1>3. Serving(b, d)
  BY EndingServes
<1>4. res.req \notin Keys(b.replay) /\ (b.active # NoAction => b.active.req # res.req)
  BY DEF IsDuplicate, Cached
<1>5. Keys(d.replay) \subseteq Keys(b.replay) \cup {r \in Requests : b.active # NoAction /\ r = b.active.req}
  <2>1. CASE d.replay = b.replay
    BY <2>1
  <2>2. ASSUME b.active # NoAction, NEW status \in Statuses, d.replay = Put(b.replay, Result(b.active, status))
        PROVE  Keys(d.replay) \subseteq Keys(b.replay) \cup {r \in Requests : r = b.active.req}
    <3>1. Result(b.active, status) \in Results /\ Result(b.active, status).req = b.active.req
          /\ b.active.req \in Requests
      BY <1>1, <2>2, ResultType DEF ActionIds
    <3>2. Keys(d.replay) \subseteq Keys(b.replay) \cup {b.active.req}
      BY <1>1, <2>2, <3>1, PutFacts
    <3> QED BY <3>1, <3>2
  <2> QED BY <2>1, <2>2 DEF Ending
<1>6. res.req \notin Keys(d.replay)
  BY <1>4, <1>5
<1>7. /\ \A r \in Keys(d.replay) : r \in Keys(c.replay) => Lookup(c.replay, r) = Lookup(d.replay, r)
      /\ Keys(d.replay) \subseteq Keys(c.replay) \/ Len(c.replay) = ReplayCap
      /\ Len(d.replay) <= Len(c.replay)
      /\ Keys(c.replay) \subseteq Keys(d.replay) \cup {res.req}
      /\ c.replay \in Caches
  BY <1>1, <1>2, <1>6, PutFacts, PutKeeps
<1>8. Len(d.replay) = ReplayCap => Len(c.replay) = ReplayCap
  BY <1>1, <1>7, BodyAssumption DEF Caches
<1>9. \A r \in Keys(b.replay) : r \in Keys(c.replay) => Lookup(c.replay, r) = Lookup(b.replay, r)
  BY <1>3, <1>4, <1>7 DEF Serving
<1>10. Keys(b.replay) \subseteq Keys(c.replay) \/ Len(c.replay) = ReplayCap
  BY <1>3, <1>7, <1>8 DEF Serving
<1>11. b.active # NoAction => b.active.req \in Keys(c.replay) \/ Len(c.replay) = ReplayCap
  <2>1. b.active # NoAction => b.active.req \in Keys(d.replay) \/ Len(d.replay) = ReplayCap
    BY <1>1, <1>3, BodyAssumption DEF Serving
  <2> QED BY <1>7, <1>8, <2>1
<1> QED BY <1>2, <1>9, <1>10, <1>11 DEF Serving, c

\* A request that starts runs, or ends at once with its first result.
LEMMA StartServes ==
    ASSUME NEW b, Sound(b), NEW r \in Requests, b.active = NoAction, ~Cached(b, r), NEW outcome
    PROVE  Serving(b, StartAction(b, r, outcome))
<1> DEFINE id  == NewId(b, r)
<1> DEFINE new == [b EXCEPT !.active = id, !.age = 0, !.runs[r] = @ + 1]
<1> DEFINE c == StartAction(b, r, outcome)
<1>1. Sound(new) /\ new.active = id /\ id # NoAction /\ id.req = r
  BY CreateSound, BodyAssumption
<1>2. c \in {StartStill(new, id, outcome), StartMoving(new, id, outcome)}
  BY DEF StartAction
<1>3. new.replay = b.replay
  BY DEF Sound, Bodies
<1> HIDE DEF id, new, c
<1>4. Ending(new, c)
  BY <1>1, <1>2, StartStillEnds, StartMovingEnds DEF Sound
<1>5. Serving(new, c)
  BY <1>1, <1>4, EndingServes
<1>6. c.active = NoAction \/ c.active = id
  BY <1>1, <1>4 DEF Ending
<1>7. Serving(b, c)
  BY <1>1, <1>3, <1>5, <1>6 DEF Serving, Cached
<1> QED BY <1>7 DEF c

\* Every branch of submit keeps what the engine knows.
LEMMA SubmitServes ==
    ASSUME NEW b, Sound(b), NEW r \in Requests, NEW outcome
    PROVE  Serving(b, Submit(b, r, outcome))
<1>1. {"SUCCESS", "FAILED"} \subseteq Statuses
  BY DEF Statuses
<1>2. CASE IsDuplicate(b, r)
  <2>1. Submit(b, r, outcome) = b
    BY <1>2 DEF Submit
  <2> QED BY <2>1, EndingServes DEF Ending
<1>3. CASE ~IsDuplicate(b, r)
  <2>1. \A status \in {"SUCCESS", "FAILED"} : Serving(b, SendCached(b, Unrun(r, status)))
    BY <1>1, <1>3, ResultType, AnswerServes
  <2>2. CASE Kind[r] = "observe"
    <3>1. Submit(b, r, outcome) \in
              {SendCached(b, Unrun(r, "SUCCESS")), SendCached(b, Unrun(r, "FAILED"))}
      BY <1>3, <2>2 DEF Submit, Observe
    <3> QED BY <2>1, <3>1
  <2>3. CASE Kind[r] = "stop"
    <3> DEFINE d == CancelAndStop(b)
    <3>1. Submit(b, r, outcome) = SendCached(d, Unrun(r, "SUCCESS"))
      BY <1>3, <2>3 DEF Submit, StopRequest
    <3>2. Sound(d) /\ d.active = NoAction /\ Ending(b, d)
      BY CancelAndStopSound, CancelAndStopEnds
    <3> HIDE DEF d
    <3>3. Unrun(r, "SUCCESS") \in Results /\ Unrun(r, "SUCCESS").req = r
      BY <1>1, ResultType
    <3> QED BY <1>3, <3>1, <3>2, <3>3, StopServes
  <2>4. CASE Kind[r] \notin {"observe", "stop"} /\ (b.active # NoAction \/ Kind[r] = "malformed")
    <3>1. Submit(b, r, outcome) = SendCached(b, Unrun(r, "FAILED"))
      BY <1>3, <2>4 DEF Submit
    <3> QED BY <2>1, <3>1
  <2>5. CASE Kind[r] \notin {"observe", "stop"} /\ ~(b.active # NoAction \/ Kind[r] = "malformed")
    <3>1. Submit(b, r, outcome) = StartAction(b, r, outcome)
      BY <1>3, <2>5 DEF Submit
    <3> QED BY <1>3, <2>5, <3>1, StartServes DEF IsDuplicate
  <2> QED BY <2>2, <2>3, <2>4, <2>5
<1> QED BY <1>2, <1>3

------------------------------------------------------------------------------
(* The controller.                                                        *)

\* What the controller adds to the body is well typed.
ControllerTypes ==
    /\ bound \in Maids \cup {NoMaid}
    /\ autonomy \in BOOLEAN
    /\ maid \in [Maids -> {"loaded", "unloaded", "dead"}]
    /\ phase \in Phases
    /\ link \in {"down", "connecting", "up"}
    /\ justConnected \in BOOLEAN /\ mail \in BOOLEAN
    /\ connected \in BOOLEAN /\ prevConnected \in BOOLEAN
    /\ disk \in Disks
    /\ interrupted \in ActionIds \cup {NoAction}
    /\ orphan \in {"no", "lost", "stale"}
    /\ host \in Maids \cup {NoMaid}

\* The inductive invariant.
IInv == ControllerTypes /\ Sound(body)

------------------------------------------------------------------------------
(* The body operators of the controller                                     *)

\* Becoming a sound body keeps the invariant's part about the body.
LEMMA BecomeSound ==
    ASSUME NEW b, Sound(b), IInv, Become(b)
    PROVE  Sound(body') /\ body' = b /\ orphan' \in {"no", "lost", "stale"} /\ host' \in Maids \cup {NoMaid}
<1>1. body' = b
  BY DEF Become
<1>2. orphan' \in {"no", "lost", "stale"}
  BY DEF Become, IInv, ControllerTypes
<1>3. host' \in Maids \cup {NoMaid}
  BY DEF Become, IInv, ControllerTypes
<1> QED BY <1>1, <1>2, <1>3

\* Answers outside the cache keep the body sound: they are about no action, or
\* about one a restart interrupted.
LEMMA SentSound ==
    ASSUME NEW b, Sound(b), NEW res \in Results, res.run = 0 \/ res.status = "INTERRUPTED"
    PROVE  Sound([b EXCEPT !.sent = @ \cup {res}])
<1> DEFINE c == [b EXCEPT !.sent = @ \cup {res}]
<1>1. b \in Bodies /\ b.sent \cup {res} \subseteq Results
  BY DEF Sound, Bodies
<1>2. /\ c \in Bodies /\ c.active = b.active /\ c.pending = b.pending
      /\ c.replay = b.replay /\ c.runs = b.runs /\ c.forgotten = b.forgotten
      /\ c.sent = b.sent \cup {res} /\ c.lease = b.lease
  BY <1>1 DEF Bodies
<1> HIDE DEF c
<1>3. Verdicts(c) = Verdicts(b)
  BY <1>2 DEF Verdicts
<1>4. VerdictsOK(c)
  BY <1>2, <1>3 DEF Sound, VerdictsOK
<1>5. Sound(c)
  BY <1>2, <1>4 DEF Sound, CheckpointOK, MemoryOK, RunsOK
<1> QED BY <1>5 DEF c

LEMMA RefusedSound ==
    ASSUME NEW b, Sound(b), NEW r \in Requests
    PROVE  Sound(Refused(b, r))
<1>1. Unrun(r, "FAILED") \in Results /\ Unrun(r, "FAILED").run = 0
  BY ResultType DEF Statuses
<1> QED BY <1>1, SentSound DEF Refused

LEMMA AnnouncedSound ==
    ASSUME IInv
    PROVE  Sound(Announced(body))
<1>1. CASE justConnected /\ interrupted # NoAction
  <2>1. Result(interrupted, "INTERRUPTED") \in Results
        /\ Result(interrupted, "INTERRUPTED").status = "INTERRUPTED"
    BY <1>1, ResultType DEF IInv, ControllerTypes, Statuses, Result
  <2>2. Announced(body) = [body EXCEPT !.sent = @ \cup {Result(interrupted, "INTERRUPTED")}]
    BY <1>1 DEF Announced
  <2> QED BY <2>1, <2>2, SentSound DEF IInv
<1>2. CASE ~(justConnected /\ interrupted # NoAction)
  BY <1>2 DEF Announced, IInv
<1> QED BY <1>1, <1>2

LEMMA SafeIdleSound ==
    ASSUME NEW b, Sound(b)
    PROVE  Sound(SafeIdle(b))
<1>1. Sound(CancelAndStop(b))
  BY CancelAndStopSound
<1> QED BY <1>1, ReflexStopSound DEF SafeIdle

\* An empty checkpoint suits every body.
LEMMA UnboundSound ==
    ASSUME NEW b, Sound(b)
    PROVE  Sound(Unbound(b))
<1> DEFINE i == SafeIdle(b)
<1> DEFINE c == [i EXCEPT !.pending = NoAction]
<1>1. Sound(i)
  BY SafeIdleSound
<1> HIDE DEF i
<1>2. i \in Bodies
  BY <1>1 DEF Sound
<1>3. /\ c \in Bodies /\ c.active = i.active /\ c.pending = NoAction
      /\ c.replay = i.replay /\ c.runs = i.runs /\ c.forgotten = i.forgotten
      /\ c.sent = i.sent /\ c.lease = i.lease
  BY <1>2 DEF Bodies
<1> HIDE DEF c
<1>4. Sound(c)
  BY <1>1, <1>3 DEF Sound, CheckpointOK, MemoryOK, RunsOK, VerdictsOK, Verdicts
<1> QED BY <1>4 DEF Unbound, c, i

LEMMA TickedSound ==
    ASSUME NEW b, Sound(b), NEW danger \in ReflexStates, NEW outcome \in TickOutcomes
    PROVE  Sound(Ticked(b, danger, outcome))
<1>1. Sound(ReflexTick(b, danger))
  BY ReflexTickSound
<1> QED BY <1>1, TickActionSound DEF Ticked

\* A new engine forgets everything its predecessor knew, and says so.
LEMMA NewEngineSound ==
    ASSUME NEW b, Sound(b)
    PROVE  Sound(NewEngine(b)) /\ Sound(NewProcess(b))
<1> DEFINE lost == Keys(b.replay) \cup {r \in Requests : b.active # NoAction /\ b.active.req = r}
<1> DEFINE c == NewEngine(b)
<1> DEFINE d == NewProcess(b)
<1>1. b \in Bodies /\ b.replay \in Seq(Results) /\ b.forgotten \subseteq Requests
  BY DEF Sound, Bodies, Caches
<1>2. lost \subseteq Requests
  BY <1>1, KeysType
<1>3. << >> \in Caches /\ "NONE" \in ReflexStates /\ 0 \in 0 .. Timeout + 1
  BY BodyAssumption DEF ReflexStates, Caches
<1>4. c = [b EXCEPT !.active = NoAction, !.age = 0, !.replay = << >>, !.reported = "NONE",
                    !.pending = NoAction, !.forgotten = @ \cup lost]
  BY DEF NewEngine
<1> HIDE DEF c
<1>5. /\ c \in Bodies /\ c.active = NoAction /\ c.pending = NoAction /\ c.replay = << >>
      /\ c.runs = b.runs /\ c.forgotten = b.forgotten \cup lost
      /\ c.sent = b.sent /\ c.lease = b.lease
  <2> HIDE DEF lost
  <2> QED BY <1>1, <1>2, <1>3, <1>4 DEF Bodies
<1>6. Sound(c)
  <2>1. RunsOK(c)
    BY <1>5 DEF Sound, RunsOK
  <2>2. Verdicts(c) = Verdicts(b)
    BY <1>5 DEF Verdicts
  <2>3. VerdictsOK(c)
    BY <1>5, <2>2 DEF Sound, VerdictsOK
  <2> QED BY <1>5, <2>1, <2>3 DEF Sound, CheckpointOK, MemoryOK, Distinct
<1>7. NoLease \in Leases /\ Disciplined(NoLease)
  BY DEF NoLease, Leases, Disciplined
<1>8. d = [c EXCEPT !.lease = NoLease, !.reflex = "NONE"]
  BY DEF NewProcess, c
<1> HIDE DEF d, lost
<1>9. /\ d \in Bodies /\ d.active = c.active /\ d.pending = c.pending /\ d.replay = c.replay
      /\ d.runs = c.runs /\ d.forgotten = c.forgotten /\ d.sent = c.sent /\ d.lease = NoLease
  BY <1>3, <1>5, <1>7, <1>8 DEF Bodies
<1>10. Sound(d)
  BY <1>6, <1>7, <1>9, SoundFrame
<1> QED BY <1>6, <1>10 DEF c, d
------------------------------------------------------------------------------
(* The invariant is inductive                                               *)

LEMMA InitIInv == Init => IInv
<1> SUFFICES ASSUME Init PROVE IInv
  OBVIOUS
<1>1. << >> \in Caches /\ "NONE" \in ReflexStates /\ 0 \in 0 .. Timeout + 1 /\ NoLease \in Leases
  BY BodyAssumption DEF ReflexStates, NoLease, Leases, Caches
<1>2. body \in Bodies
  BY <1>1 DEF Init, FreshBody, Bodies
<1>6. VerdictsOK(body) /\ Disciplined(body.lease)
  BY DEF Init, FreshBody, VerdictsOK, Verdicts, Disciplined, NoLease
<1>3. /\ body.active = NoAction /\ body.pending = NoAction
      /\ \A r \in Requests : body.runs[r] = 0
  BY DEF Init, FreshBody
<1>4. Sound(body)
  BY <1>2, <1>3, <1>6 DEF Init, FreshBody, Sound, CheckpointOK, MemoryOK, RunsOK, Distinct
<1>5. ControllerTypes
  BY DEF Init, ControllerTypes, Phases, Disks
<1> QED BY <1>4, <1>5 DEF IInv

\* The messages of the Agent.
LEMMA HandlersIInv == ASSUME IInv, Handlers PROVE IInv'
<1> USE DEF IInv
<1>1. ASSUME NEW r \in Requests, NEW outcome \in StartOutcomes, HandleActionRequest(r, outcome)
      PROVE  IInv'
  <2> DEFINE b == IF Resolvable /\ autonomy THEN Submit(body, r, outcome) ELSE Refused(body, r)
  <2>1. Sound(b)
    BY SubmitSound, RefusedSound
  <2>2. Become(b)
    BY <1>1 DEF HandleActionRequest
  <2> HIDE DEF b
  <2>3. Sound(body') /\ orphan' \in {"no", "lost", "stale"} /\ host' \in Maids \cup {NoMaid}
    BY <2>1, <2>2, BecomeSound
  <2> QED BY <1>1, <2>3 DEF HandleActionRequest, Quiet, linkVars, ownerVars, ControllerTypes
<1>2. CASE HandleSafeIdle
  <2>1. Sound(SafeIdle(body)) /\ Become(SafeIdle(body))
    BY <1>2, SafeIdleSound DEF HandleSafeIdle
  <2>2. Sound(body') /\ orphan' \in {"no", "lost", "stale"} /\ host' \in Maids \cup {NoMaid}
    BY <2>1, BecomeSound
  <2> QED BY <1>2, <2>2 DEF HandleSafeIdle, Quiet, linkVars, ownerVars, ControllerTypes
<1>3. CASE HandleUnbind
  <2>1. Sound(Unbound(body)) /\ Become(Unbound(body))
    BY <1>3, UnboundSound DEF HandleUnbind, Unbind
  <2>2. Sound(body') /\ orphan' \in {"no", "lost", "stale"} /\ host' \in Maids \cup {NoMaid}
    BY <2>1, BecomeSound
  <2> QED BY <1>3, <2>2 DEF HandleUnbind, Unbind, Quiet, linkVars, ControllerTypes
<1>4. ASSUME NEW m \in Maids, HandleBind(m)
      PROVE  IInv'
  <2> DEFINE b == IF bound \in {NoMaid, m} THEN body ELSE Unbound(body)
  <2>1. Sound(b)
    BY UnboundSound
  <2>2. Become(b)
    BY <1>4 DEF HandleBind, Bind
  <2> HIDE DEF b
  <2>3. Sound(body') /\ orphan' \in {"no", "lost", "stale"} /\ host' \in Maids \cup {NoMaid}
    BY <2>1, <2>2, BecomeSound
  <2> QED BY <1>4, <2>3 DEF HandleBind, Bind, Quiet, linkVars, ControllerTypes
<1> QED BY <1>1, <1>2, <1>3, <1>4 DEF Handlers

\* The steps of a server tick.
LEMMA TickIInv == ASSUME IInv, Tick PROVE IInv'
<1> USE DEF IInv
<1>1. CASE BeginTick
  BY <1>1 DEF BeginTick, ownerVars, ControllerTypes, Phases
<1>2. CASE DrainDone
  BY <1>2 DEF DrainDone, ownerVars, ControllerTypes, Phases
<1>3. CASE ReadLink
  BY <1>3 DEF ReadLink, ownerVars, ControllerTypes, Phases
<1>4. CASE SettleLink
  <2> DEFINE b == IF prevConnected /\ ~connected THEN SafeIdle(Announced(body)) ELSE Announced(body)
  <2>1. Sound(b)
    BY AnnouncedSound, SafeIdleSound
  <2>2. Become(b)
    BY <1>4 DEF SettleLink
  <2> HIDE DEF b
  <2>3. Sound(body') /\ orphan' \in {"no", "lost", "stale"} /\ host' \in Maids \cup {NoMaid}
    BY <2>1, <2>2, BecomeSound
  <2> QED BY <1>4, <2>3 DEF SettleLink, ControllerTypes, Phases
<1>5. ASSUME NEW danger \in ReflexStates, NEW outcome \in TickOutcomes, ServeMaid(danger, outcome)
      PROVE  IInv'
  <2> DEFINE b == CASE Served                -> Ticked(body, danger, outcome)
                    [] Resolvable /\ ~Served -> [body EXCEPT !.lease = NoLease]
                    [] OTHER                 -> body
  <2>1. NoLease \in Leases /\ Disciplined(NoLease)
    BY DEF NoLease, Leases, Disciplined
  <2>2. Sound(Ticked(body, danger, outcome)) /\ Sound([body EXCEPT !.lease = NoLease])
    BY <2>1, TickedSound, SoundLease
  <2>3. b \in {Ticked(body, danger, outcome), [body EXCEPT !.lease = NoLease], body}
    BY DEF Served
  <2>4. Become(Aged(b))
    BY <1>5 DEF ServeMaid
  <2> HIDE DEF b
  <2>5. Sound(Aged(b))
    BY <2>2, <2>3, AgedSound
  <2>6. Sound(body') /\ orphan' \in {"no", "lost", "stale"} /\ host' \in Maids \cup {NoMaid}
    BY <2>4, <2>5, BecomeSound
  <2> QED BY <1>5, <2>6 DEF ServeMaid, linkVars, ownerVars, ControllerTypes, Phases
<1>6. CASE DieServing
  <2> DEFINE b == CancelActive(ReflexTick(body, "IMMEDIATE_MELEE_DEFENSE"), "CANCELLED")
  <2>1. Sound(b)
    BY ReflexTickSound, CancelActiveSound DEF ReflexStates, Statuses
  <2>2. Become(b)
    BY <1>6 DEF DieServing
  <2> HIDE DEF b
  <2>3. Sound(body') /\ orphan' \in {"no", "lost", "stale"} /\ host' \in Maids \cup {NoMaid}
    BY <2>1, <2>2, BecomeSound
  <2>4. maid' \in [Maids -> {"loaded", "unloaded", "dead"}]
    BY <1>6 DEF DieServing, ControllerTypes
  <2> QED BY <1>6, <2>3, <2>4 DEF DieServing, linkVars, ownerVars, ControllerTypes, Phases
<1> QED BY <1>1, <1>2, <1>3, <1>4, <1>5, <1>6 DEF Tick

\* The threads of the HTTP client.
LEMMA SocketIInv == ASSUME IInv, Socket PROVE IInv'
<1> USE DEF IInv
<1>1. CASE SocketOpens
  BY <1>1 DEF SocketOpens, ownerVars, ControllerTypes
<1>2. CASE ConnectFails
  BY <1>2 DEF ConnectFails, ownerVars, ControllerTypes
<1>3. CASE SocketCloses
  BY <1>3 DEF SocketCloses, Orphaned, ownerVars, ControllerTypes
<1> QED BY <1>1, <1>2, <1>3 DEF Socket

\* The world and the operator between two ticks.
LEMMA WorldIInv == ASSUME IInv, World PROVE IInv'
<1> USE DEF IInv
<1>1. ASSUME NEW m \in Maids, NEW from, NEW to \in {"loaded", "unloaded", "dead"},
             MaidMoves(m, from, to)
      PROVE  IInv'
  BY <1>1 DEF MaidMoves, linkVars, ownerVars, ControllerTypes
<1>2. ASSUME NEW m \in Maids, Unload(m) \/ Load(m) \/ Die(m)
      PROVE  IInv'
  BY <1>1, <1>2 DEF Unload, Load, Die
<1>3. ASSUME NEW m \in Maids, CommandBind(m)
      PROVE  IInv'
  <2> DEFINE b == IF bound \in {NoMaid, m} THEN body ELSE Unbound(body)
  <2>1. Sound(b)
    BY UnboundSound
  <2>2. Become(b)
    BY <1>3 DEF CommandBind, Bind
  <2> HIDE DEF b
  <2>3. Sound(body') /\ orphan' \in {"no", "lost", "stale"} /\ host' \in Maids \cup {NoMaid}
    BY <2>1, <2>2, BecomeSound
  <2> QED BY <1>3, <2>3 DEF CommandBind, Bind, Quiet, linkVars, ControllerTypes
<1>4. CASE CommandUnbind
  <2>1. Sound(Unbound(body)) /\ Become(Unbound(body))
    BY <1>4, UnboundSound DEF CommandUnbind, Unbind
  <2>2. Sound(body') /\ orphan' \in {"no", "lost", "stale"} /\ host' \in Maids \cup {NoMaid}
    BY <2>1, BecomeSound
  <2> QED BY <1>4, <2>2 DEF CommandUnbind, Unbind, Quiet, linkVars, ControllerTypes
<1>5. CASE CommandStop
  <2>1. Sound(SafeIdle(body)) /\ Become(SafeIdle(body))
    BY <1>5, SafeIdleSound DEF CommandStop
  <2>2. Sound(body') /\ orphan' \in {"no", "lost", "stale"} /\ host' \in Maids \cup {NoMaid}
    BY <2>1, BecomeSound
  <2> QED BY <1>5, <2>2 DEF CommandStop, Quiet, linkVars, ownerVars, ControllerTypes
<1>6. CASE CommandReconnect
  BY <1>6 DEF CommandReconnect, Orphaned, ownerVars, ControllerTypes
<1>7. CASE WorldSave
  <2>1. Saved(body) \in Disks
    BY DEF Saved, Disks, ControllerTypes, Sound, Bodies
  <2> QED BY <1>7, <2>1 DEF WorldSave, Quiet, linkVars, ControllerTypes
<1> QED BY <1>2, <1>3, <1>4, <1>5, <1>6, <1>7 DEF World

\* Stopping, crashing and starting.
LEMMA LifecycleIInv == ASSUME IInv, Lifecycle PROVE IInv'
<1> USE DEF IInv
<1>1. CASE Stop
  <2>1. Sound(SafeIdle(body)) /\ Become(SafeIdle(body))
    BY <1>1, SafeIdleSound DEF Stop
  <2>2. Sound(body') /\ orphan' \in {"no", "lost", "stale"} /\ host' \in Maids \cup {NoMaid}
    BY <2>1, BecomeSound
  <2>3. Saved(SafeIdle(body)) \in Disks
    BY <2>1 DEF Saved, Disks, ControllerTypes, Sound, Bodies
  <2> QED BY <1>1, <2>2, <2>3 DEF Stop, ControllerTypes, Phases
<1>2. CASE LoseProcess
  <2>1. Sound(NewProcess(body)) /\ Become(NewProcess(body))
    BY <1>2, NewEngineSound DEF LoseProcess
  <2>2. Sound(body') /\ orphan' \in {"no", "lost", "stale"} /\ host' \in Maids \cup {NoMaid}
    BY <2>1, BecomeSound
  <2> QED BY <1>2, <2>2 DEF LoseProcess, ControllerTypes, Phases
<1>3. CASE Start
  <2>1. Sound(NewEngine(body)) /\ Become(NewEngine(body))
    BY <1>3, NewEngineSound DEF Start
  <2>2. Sound(body') /\ orphan' \in {"no", "lost", "stale"} /\ host' \in Maids \cup {NoMaid}
    BY <2>1, BecomeSound
  <2>3. disk.bound \in Maids \cup {NoMaid} /\ disk.autonomy \in BOOLEAN
        /\ disk.pending \in ActionIds \cup {NoAction}
    BY DEF ControllerTypes, Disks
  <2> QED BY <1>3, <2>2, <2>3 DEF Start, linkVars, ControllerTypes, Phases
<1> QED BY <1>1, <1>2, <1>3 DEF Lifecycle, Exit, Crash

LEMMA StepIInv == IInv /\ [Next]_vars => IInv'
<1> SUFFICES ASSUME IInv, [Next]_vars PROVE IInv'
  OBVIOUS
<1>1. CASE Next
  BY <1>1, HandlersIInv, TickIInv, SocketIInv, WorldIInv, LifecycleIInv DEF Next
<1>2. CASE UNCHANGED vars
  BY <1>2 DEF vars, linkVars, ownerVars, IInv, ControllerTypes
<1> QED BY <1>1, <1>2

\* What the controller and its executor keep through every message, tick, command,
\* stop and crash, in every environment.
THEOREM Invariant == Spec => []IInv
<1> QED BY InitIInv, StepIInv, PTL DEF Spec

------------------------------------------------------------------------------
(* What follows from it                                                     *)

\* Two results for one action agree, whatever cancelled, preempted, timed out or
\* ended it, but for the notice that a restart interrupted it.
THEOREM VerdictsAgree == Spec => []OneVerdict
<1>1. IInv => OneVerdict
  <2> SUFFICES ASSUME IInv, NEW x \in body.sent, NEW y \in body.sent,
                      x.req = y.req, x.run = y.run, x.run > 0,
                      x.status # "INTERRUPTED", y.status # "INTERRUPTED"
               PROVE  x.status = y.status
    BY DEF OneVerdict
  <2>1. x \in Verdicts(body) /\ y \in Verdicts(body)
    BY DEF Verdicts
  <2> QED BY <2>1 DEF IInv, Sound, VerdictsOK
<1> QED BY <1>1, Invariant, PTL

\* Every variable keeps its type, through every message, tick, reflex, command,
\* crash and restart.
THEOREM TypeCorrect == Spec => []TypeOK
<1> DEFINE Typed == missed \subseteq Overlooked
<1>1. IInv /\ Typed => TypeOK
  BY DEF IInv, ControllerTypes, Sound, TypeOK
<1>2. Init => Typed
  BY DEF Init
<1>3. Typed /\ [Next]_vars => Typed'
  <2> SUFFICES ASSUME Typed, [Next]_vars PROVE Typed'
    OBVIOUS
  <2>1. ASSUME NEW what, what \subseteq Overlooked, Overlook(what) PROVE Typed'
    BY <2>1 DEF Overlook, Overlooked
  <2>2. CASE UNCHANGED missed
    BY <2>2
  <2>3. CASE SocketOpens \/ SocketCloses \/ CommandReconnect
    BY <2>3 DEF SocketOpens, SocketCloses, CommandReconnect, Overlooked
  <2>4. CASE Next
    <3>1. CASE Handlers
      <4>1. CASE \E r \in Requests, outcome \in StartOutcomes : HandleActionRequest(r, outcome)
        BY <2>1, <4>1 DEF HandleActionRequest
      <4>2. CASE HandleSafeIdle \/ HandleUnbind
        BY <2>1, <4>2 DEF HandleSafeIdle, HandleUnbind, Unbind, Overlooked
      <4>3. CASE \E m \in Maids : HandleBind(m)
        BY <2>1, <4>3 DEF HandleBind, Bind, Overlooked
      <4> QED BY <3>1, <4>1, <4>2, <4>3 DEF Handlers
    <3>2. CASE Tick
      <4>1. CASE BeginTick \/ DrainDone \/ ReadLink
        BY <2>2, <4>1 DEF BeginTick, DrainDone, ReadLink
      <4>2. CASE SettleLink
        BY <2>1, <4>2 DEF SettleLink, Overlooked
      <4>3. CASE \/ \E danger \in ReflexStates, outcome \in TickOutcomes : ServeMaid(danger, outcome)
                 \/ DieServing
        BY <2>1, <4>3 DEF ServeMaid, DieServing
      <4> QED BY <3>2, <4>1, <4>2, <4>3 DEF Tick
    <3>3. CASE Socket
      BY <2>2, <2>3, <3>3 DEF Socket, ConnectFails
    <3>4. CASE World
      <4>1. CASE \E m \in Maids : Unload(m) \/ Load(m) \/ Die(m)
        BY <2>2, <4>1 DEF Unload, Load, Die, MaidMoves
      <4>2. CASE \E m \in Maids : CommandBind(m)
        BY <2>1, <4>2 DEF CommandBind, Bind, Overlooked
      <4>3. CASE CommandUnbind \/ CommandStop
        BY <2>1, <4>3 DEF CommandUnbind, Unbind, CommandStop, Overlooked
      <4>4. CASE WorldSave
        BY <2>2, <4>4 DEF WorldSave
      <4> QED BY <2>3, <3>4, <4>1, <4>2, <4>3, <4>4 DEF World
    <3>5. CASE Lifecycle
      BY <2>1, <3>5 DEF Lifecycle, Stop, Exit, Crash, LoseProcess, Start
    <3> QED BY <2>4, <3>1, <3>2, <3>3, <3>4, <3>5 DEF Next
  <2> QED BY <2>2, <2>4 DEF vars
<1> QED BY <1>1, <1>2, <1>3, Invariant, PTL DEF Spec

\* The checkpoint in the world data is never that of an action that is over.
THEOREM CheckpointNamesActive == Spec => []PendingIsActive
<1>1. IInv => PendingIsActive
  BY DEF IInv, Sound, CheckpointOK, PendingIsActive
<1> QED BY <1>1, Invariant, PTL

\* The engine knows a request by its running action or by one cached result.
THEOREM OneMemoryPerRequest == Spec => []OneMemory
<1>1. IInv => OneMemory
  BY DEF IInv, Sound, MemoryOK, Distinct, Cached, OneMemory
<1> QED BY <1>1, Invariant, PTL

\* A duplicate request is executed again only after the engine forgot it.
THEOREM IdempotentUntilForgotten == Spec => []ExecutedOnce
<1>1. IInv => ExecutedOnce
  <2> SUFFICES ASSUME IInv, NEW r \in Requests, body.runs[r] > 1 PROVE r \in body.forgotten
    BY DEF ExecutedOnce
  <2>1. body.runs[r] # 0 /\ body.runs[r] # 1
    OBVIOUS
  <2> QED BY <2>1 DEF IInv, Sound, RunsOK
<1> QED BY <1>1, Invariant, PTL

\* When a tick ends in an escape, the reflex engine owns the navigation, and an
\* escape that began in it has ended the maid's action.
THEOREM EscapesPrevail == Spec => EscapeTakesBody
<1> DEFINE Prevails ==
        (phase = "serve" /\ phase' = "world" /\ Served /\ body'.reflex \in Escapes) =>
            /\ body'.lease.owner = ReflexId
            /\ body'.reflex # body.reflex => body'.active = NoAction
<1>1. ASSUME IInv, [Next]_vars PROVE Prevails
  <2> SUFFICES ASSUME phase = "serve", phase' = "world", Served, body'.reflex \in Escapes
               PROVE  /\ body'.lease.owner = ReflexId
                      /\ body'.reflex # body.reflex => body'.active = NoAction
    OBVIOUS
  <2>1. Sound(body) /\ "NONE" \notin Escapes /\ "IMMEDIATE_MELEE_DEFENSE" \notin Escapes
    BY <1>1, BodyAssumption DEF IInv
  <2>2. ASSUME NEW danger \in ReflexStates, NEW outcome \in TickOutcomes, ServeMaid(danger, outcome)
        PROVE  /\ body'.lease.owner = ReflexId
               /\ body'.reflex # body.reflex => body'.active = NoAction
    <3> DEFINE b == ReflexTick(body, danger)
    <3>1. body' = Aged(TickAction(b, outcome))
      BY <2>2 DEF ServeMaid, Become, Ticked
    <3>2. Sound(b)
      BY <2>1, ReflexTickSound
    <3> HIDE DEF b
    <3>3. /\ body'.reflex = b.reflex
          /\ b.lease.owner = ReflexId => body'.lease.owner = ReflexId
          /\ b.active = NoAction => body'.active = NoAction
      BY <3>1, <3>2, TickKeepsReflex
    <3>4. CASE danger \in Escapes
      <4>1. b = TakeOver(body, danger)
        BY <2>1, <3>4 DEF ReflexTick, b
      <4> QED BY <2>1, <3>3, <3>4, <4>1, TakeOverOwns
    <3>5. CASE danger \notin Escapes
      <4>1. b.reflex \notin Escapes
        BY <2>1, <3>5 DEF ReflexTick, ReflexStop, Sound, Bodies, b
      <4> QED BY <3>3, <4>1
    <3> QED BY <3>4, <3>5
  <2>3. CASE DieServing
    <3> DEFINE b == ReflexTick(body, "IMMEDIATE_MELEE_DEFENSE")
    <3>1. body' = CancelActive(b, "CANCELLED")
      BY <2>3 DEF DieServing, Become
    <3>2. b.reflex = "IMMEDIATE_MELEE_DEFENSE"
      BY <2>1 DEF ReflexTick, Sound, Bodies
    <3>3. b \in Bodies
      BY <2>1, ReflexTickSound DEF Sound, ReflexStates
    <3> HIDE DEF b
    <3> QED BY <2>1, <3>1, <3>2, <3>3, CancelKeepsReflex
  <2>4. \/ DieServing
        \/ \E danger \in ReflexStates, outcome \in TickOutcomes : ServeMaid(danger, outcome)
    BY <1>1 DEF Next, vars, linkVars, Handlers, Tick, Socket, World, Lifecycle, Handling, Quiet,
       HandleActionRequest, HandleSafeIdle, HandleUnbind, HandleBind, BeginTick, DrainDone,
       ReadLink, SettleLink, SocketOpens, ConnectFails, SocketCloses, Unload, Load, Die, MaidMoves,
       CommandBind, CommandUnbind, CommandStop, CommandReconnect, WorldSave, Stop, Exit, Crash,
       LoseProcess, Start
  <2> QED BY <2>2, <2>3, <2>4
<1>2. IInv /\ [Next]_vars => Prevails
  BY <1>1
<1> QED BY <1>2, Invariant, PTL DEF Spec, EscapeTakesBody

------------------------------------------------------------------------------
(* The contract of a request id                                             *)

\* Known, of any body.
KnownOf(b) == [r \in Requests |->
    IF b.active # NoAction /\ b.active.req = r THEN "running"
    ELSE IF Cached(b, r)
         THEN Lookup(b.replay, r).status
         ELSE "fresh"]

\* What a sound body knows: the request that runs, the results in its cache,
\* and nothing else.
LEMMA KnownFacts ==
    ASSUME NEW b, Sound(b)
    PROVE  /\ \A r \in Keys(b.replay) : r \in Requests /\ Lookup(b.replay, r) \in Results
           /\ \A r \in Requests : KnownOf(b)[r] = "running" <=> b.active # NoAction /\ b.active.req = r
           /\ \A r \in Requests : KnownOf(b)[r] \in Statuses <=> r \in Keys(b.replay)
           /\ \A r \in Keys(b.replay) : KnownOf(b)[r] = Lookup(b.replay, r).status
           /\ KnownOf(b) \in [Requests -> {"fresh", "running"} \cup Statuses]
<1>1. b.replay \in Seq(Results) /\ Distinct(b.replay)
  BY DEF Sound, Bodies, Caches, MemoryOK
<1>2. ASSUME NEW r \in Keys(b.replay)
      PROVE  r \in Requests /\ Lookup(b.replay, r) \in Results
  <2>1. PICK i \in 1 .. Len(b.replay) : b.replay[i].req = r
    BY <1>1, KeysByPosition
  <2>2. Lookup(b.replay, r) = b.replay[i] /\ b.replay[i] \in Results
    BY <1>1, <2>1, LookupAt
  <2> QED BY <1>1, <2>2, KeysType
<1>3. \A x \in Results : x.status \in Statuses
  BY DEF Results
<1>4. b.active # NoAction => b.active.req \notin Keys(b.replay)
  BY DEF Sound, MemoryOK
<1>5. "running" \notin Statuses /\ "fresh" \notin Statuses
  BY DEF Statuses
<1>6. \A r \in Requests :
          KnownOf(b)[r] = IF b.active # NoAction /\ b.active.req = r THEN "running"
                          ELSE IF r \in Keys(b.replay) THEN Lookup(b.replay, r).status ELSE "fresh"
  BY DEF KnownOf, Cached
<1>7. DOMAIN KnownOf(b) = Requests /\ KnownOf(b) = [r \in Requests |-> KnownOf(b)[r]]
  BY DEF KnownOf
<1>8. \A r \in Requests : KnownOf(b)[r] \in {"fresh", "running"} \cup Statuses
  BY <1>2, <1>3, <1>6
<1>9. KnownOf(b) \in [Requests -> {"fresh", "running"} \cup Statuses]
  BY <1>7, <1>8
<1> QED BY <1>2, <1>3, <1>4, <1>5, <1>6, <1>9

\* A call that serves is a step of the contract on what the engine knows.
LEMMA ServingIsServe ==
    ASSUME NEW b, Sound(b), NEW c, Sound(c), Serving(b, c)
    PROVE  /\ KnownOf(c) \in [Requests -> {"fresh", "running"} \cup Statuses]
           /\ Cardinality({r \in Requests : KnownOf(c)[r] = "running"}) <= 1
           /\ \A r \in {x \in Requests : KnownOf(b)[x] \in Statuses} :
                  KnownOf(c)[r] \in {KnownOf(b)[r], "fresh"}
           /\ (\E r \in Requests : KnownOf(b)[r] # "fresh" /\ KnownOf(c)[r] = "fresh") =>
                  Cardinality({r \in Requests : KnownOf(c)[r] \in Statuses}) = ReplayCap
<1> DEFINE k == KnownOf(b)
<1> DEFINE l == KnownOf(c)
<1>1. /\ \A r \in Keys(c.replay) : r \in Requests
      /\ \A r \in Requests : l[r] = "running" <=> c.active # NoAction /\ c.active.req = r
      /\ \A r \in Requests : l[r] \in Statuses <=> r \in Keys(c.replay)
      /\ \A r \in Keys(c.replay) : l[r] = Lookup(c.replay, r).status
      /\ l \in [Requests -> {"fresh", "running"} \cup Statuses]
  BY KnownFacts
<1>2. /\ \A r \in Requests : k[r] = "running" <=> b.active # NoAction /\ b.active.req = r
      /\ \A r \in Requests : k[r] \in Statuses <=> r \in Keys(b.replay)
      /\ \A r \in Keys(b.replay) : k[r] = Lookup(b.replay, r).status
      /\ k \in [Requests -> {"fresh", "running"} \cup Statuses]
  BY KnownFacts
<1> HIDE DEF k, l
<1>3. "running" \notin Statuses /\ "fresh" \notin Statuses
  BY DEF Statuses
<1>4. Cardinality({r \in Requests : l[r] = "running"}) <= 1
  <2>1. CASE c.active = NoAction
    <3>1. {r \in Requests : l[r] = "running"} = {}
      BY <1>1, <2>1
    <3> QED BY <3>1, FS_EmptySet
  <2>2. CASE c.active # NoAction
    <3>1. c.active.req \in Requests
      BY <2>2 DEF Sound, Bodies, ActionIds
    <3>2. {r \in Requests : l[r] = "running"} = {c.active.req}
      BY <1>1, <2>2, <3>1
    <3>3. Cardinality({c.active.req}) = 1
      BY FS_Singleton
    <3> QED BY <3>2, <3>3
  <2> QED BY <2>1, <2>2
<1>5. ASSUME NEW r \in Requests, k[r] \in Statuses
      PROVE  l[r] \in {k[r], "fresh"}
  <2>1. r \in Keys(b.replay)
    BY <1>2, <1>5
  <2>2. l[r] # "running"
    BY <1>1, <2>1 DEF Serving
  <2>3. l[r] = "fresh" \/ l[r] \in Statuses
    BY <1>1, <2>2
  <2>4. l[r] \in Statuses => l[r] = k[r]
    BY <1>1, <1>2, <2>1 DEF Serving
  <2> QED BY <2>3, <2>4
<1>6. ASSUME NEW r \in Requests, k[r] # "fresh", l[r] = "fresh"
      PROVE  Cardinality({x \in Requests : l[x] \in Statuses}) = ReplayCap
  <2>1. r \notin Keys(c.replay) /\ ~(c.active # NoAction /\ c.active.req = r)
    BY <1>1, <1>3, <1>6
  <2>2. r \in Keys(b.replay) \/ (b.active # NoAction /\ b.active.req = r)
    BY <1>2, <1>6
  <2>3. Len(c.replay) = ReplayCap
    BY <2>1, <2>2 DEF Serving
  <2>4. {x \in Requests : l[x] \in Statuses} = Keys(c.replay)
    BY <1>1
  <2>5. c.replay \in Seq(Results) /\ Distinct(c.replay)
    BY DEF Sound, Bodies, Caches, MemoryOK
  <2> QED BY <2>3, <2>4, <2>5, KeysCount
<1> QED BY <1>1, <1>4, <1>5, <1>6 DEF k, l

\* Both modules count alike.
LEMMA SameCount == \A S : Contract!Cardinality(S) = Cardinality(S)
BY DEF Contract!Cardinality, Cardinality, Contract!IsFiniteSet, IsFiniteSet

LEMMA KnownOfBody == Known = KnownOf(body) /\ Known' = KnownOf(body')
BY DEF Known, KnownOf, Cached

\* A serving call of a running server is a step of the contract.
LEMMA ServeStep ==
    ASSUME Sound(body), Sound(body'), Serving(body, body'), phase # "off"
    PROVE  Contract!Serve
<1>1. (phase # "off")' \in BOOLEAN
  OBVIOUS
<1> QED BY <1>1, ServingIsServe, SameCount, KnownOfBody
        DEF Contract!Serve, Contract!Running, Contract!Remembered

\* A new engine is a restart of the contract.
LEMMA RestartStep ==
    ASSUME body'.active = NoAction, body'.replay = << >>, phase = "off" \/ phase' = "off"
    PROVE  Contract!Restart
<1>1. Keys(body'.replay) = {}
  BY DEF Keys
<1>2. Known' = [r \in Requests |-> "fresh"]
  BY <1>1, KnownOfBody DEF KnownOf, Cached
<1>3. (phase # "off")' \in BOOLEAN
  OBVIOUS
<1> QED BY <1>2, <1>3 DEF Contract!Restart

LEMMA SafeIdleEnds ==
    ASSUME NEW b, Sound(b)
    PROVE  Ending(b, SafeIdle(b))
<1> DEFINE c == CancelAndStop(b)
<1>1. Sound(c) /\ Ending(b, c) /\ Ending(b, b)
  BY CancelAndStopSound, CancelAndStopEnds DEF Ending
<1>2. SafeIdle(b) \in {ReflexStop(c), b}
  BY DEF SafeIdle
<1> HIDE DEF c
<1> QED BY <1>1, <1>2, ReflexStopEnds, EndingTwice DEF Sound

LEMMA UnboundEnds ==
    ASSUME NEW b, Sound(b)
    PROVE  Ending(b, Unbound(b))
<1> DEFINE i == SafeIdle(b)
<1>1. Sound(i) /\ Ending(b, i)
  BY SafeIdleSound, SafeIdleEnds
<1>2. Unbound(b) = [i EXCEPT !.pending = NoAction]
  BY DEF Unbound
<1> HIDE DEF i
<1>3. Ending(i, Unbound(b))
  BY <1>1, <1>2 DEF Ending, Sound, Bodies
<1> QED BY <1>1, <1>3, EndingTwice

\* Answers outside the cache change nothing the engine knows.
LEMMA SentEnds ==
    ASSUME NEW b \in Bodies, NEW r
    PROVE  Ending(b, Refused(b, r)) /\ Ending(b, [b EXCEPT !.sent = @ \cup {r}])
BY DEF Refused, Ending, Bodies

LEMMA AnnouncedEnds ==
    ASSUME IInv
    PROVE  Ending(body, Announced(body))
BY DEF Announced, Ending, IInv, Sound, Bodies

\* The calls that accept no request: they end the running action, or leave it
\* and what the engine remembers alone.
EndingCall ==
    \/ HandleSafeIdle \/ CommandStop \/ Stop
    \/ HandleUnbind \/ CommandUnbind
    \/ \E m \in Maids : HandleBind(m) \/ CommandBind(m)
    \/ SettleLink
    \/ \E danger \in ReflexStates, outcome \in TickOutcomes : ServeMaid(danger, outcome)
    \/ DieServing

LEMMA EndingCalls ==
    ASSUME IInv, EndingCall
    PROVE  Ending(body, body') /\ Become(body') /\ phase # "off"
<1> USE DEF IInv
<1>1. CASE HandleSafeIdle \/ CommandStop \/ Stop
  <2>1. body' = SafeIdle(body) /\ phase # "off" /\ Become(SafeIdle(body))
    BY <1>1 DEF HandleSafeIdle, CommandStop, Stop, Handling, Become
  <2> QED BY <2>1, SafeIdleEnds
<1>2. CASE HandleUnbind \/ CommandUnbind
  <2>1. body' = Unbound(body) /\ phase # "off" /\ Become(Unbound(body))
    BY <1>2 DEF HandleUnbind, CommandUnbind, Unbind, Handling, Become
  <2> QED BY <2>1, UnboundEnds
<1>3. ASSUME NEW m \in Maids, HandleBind(m) \/ CommandBind(m)
      PROVE  Ending(body, body') /\ Become(body') /\ phase # "off"
  <2>1. body' \in {body, Unbound(body)} /\ phase # "off" /\ Become(body')
    BY <1>3 DEF HandleBind, CommandBind, Bind, Handling, Become
  <2>2. Ending(body, body)
    BY DEF Ending
  <2> QED BY <2>1, <2>2, UnboundEnds
<1>4. CASE SettleLink
  <2> DEFINE a == Announced(body)
  <2>1. body' \in {SafeIdle(a), a} /\ phase # "off" /\ Become(body')
    BY <1>4 DEF SettleLink, Become
  <2>2. Sound(a) /\ Ending(body, a)
    BY AnnouncedSound, AnnouncedEnds
  <2> HIDE DEF a
  <2>3. Ending(body, body')
    BY <2>1, <2>2, SafeIdleEnds, EndingTwice
  <2> QED BY <2>1, <2>3
<1>5. ASSUME NEW danger \in ReflexStates, NEW outcome \in TickOutcomes, ServeMaid(danger, outcome)
      PROVE  Ending(body, body') /\ Become(body') /\ phase # "off"
  <2> DEFINE reacted == ReflexTick(body, danger)
  <2> DEFINE b == CASE Served                -> TickAction(reacted, outcome)
                    [] Resolvable /\ ~Served -> [body EXCEPT !.lease = NoLease]
                    [] OTHER                 -> body
  <2>1. body' = Aged(b) /\ phase # "off" /\ Become(body')
    BY <1>5 DEF ServeMaid, Become, Ticked
  <2>2. NoLease \in Leases /\ Disciplined(NoLease)
    BY DEF NoLease, Leases, Disciplined
  <2>3. Sound(reacted) /\ Ending(body, reacted)
    BY ReflexTickSound, ReflexTickEnds
  <2>4. b \in {TickAction(reacted, outcome), [body EXCEPT !.lease = NoLease], body}
    BY DEF Served
  <2>5. Ending(body, [body EXCEPT !.lease = NoLease]) /\ Ending(body, body)
    BY DEF Ending, Sound, Bodies
  <2> HIDE DEF reacted, b
  <2>6. Sound(TickAction(reacted, outcome)) /\ Ending(body, TickAction(reacted, outcome))
    BY <2>3, TickActionSound, TickEnds, EndingTwice
  <2>7. Sound(b) /\ Ending(body, b)
    BY <2>2, <2>4, <2>5, <2>6, SoundLease
  <2>8. Ending(body, body')
    BY <2>1, <2>7, AgedEnds, EndingTwice DEF Sound
  <2> QED BY <2>1, <2>8
<1>6. CASE DieServing
  <2> DEFINE b == ReflexTick(body, "IMMEDIATE_MELEE_DEFENSE")
  <2>1. body' = CancelActive(b, "CANCELLED") /\ phase # "off" /\ Become(body')
    BY <1>6 DEF DieServing, Become
  <2>2. Sound(b) /\ Ending(body, b) /\ "CANCELLED" \in Statuses
    BY ReflexTickSound, ReflexTickEnds DEF ReflexStates, Statuses
  <2> HIDE DEF b
  <2>3. Ending(body, body')
    BY <2>1, <2>2, CancelEnds, EndingTwice DEF Sound
  <2> QED BY <2>1, <2>3
<1> QED BY <1>1, <1>2, <1>3, <1>4, <1>5, <1>6 DEF EndingCall

\* A new engine runs nothing and remembers nothing.
LEMMA NewEngineCalls ==
    ASSUME IInv, Exit \/ Crash \/ Start
    PROVE  /\ body'.active = NoAction /\ body'.replay = << >> /\ Become(body')
           /\ phase = "off" \/ phase' = "off"
<1>1. body' \in {NewEngine(body), NewProcess(body)} /\ (phase = "off" \/ phase' = "off") /\ Become(body')
  BY DEF Exit, Crash, LoseProcess, Start, Become
<1>2. /\ NewEngine(body).active = NoAction /\ NewEngine(body).replay = << >>
      /\ NewProcess(body).active = NoAction /\ NewProcess(body).replay = << >>
  BY DEF NewProcess, NewEngine, IInv, Sound, Bodies
<1> QED BY <1>1, <1>2

\* The steps that call nothing of the engine.
OtherStep ==
    \/ BeginTick \/ DrainDone \/ ReadLink
    \/ Socket
    \/ \E m \in Maids : Unload(m) \/ Load(m) \/ Die(m)
    \/ CommandReconnect \/ WorldSave

LEMMA StepKinds ==
    ASSUME Next
    PROVE  \/ \E r \in Requests, outcome \in StartOutcomes : HandleActionRequest(r, outcome)
           \/ EndingCall
           \/ Exit \/ Crash \/ Start
           \/ OtherStep
BY DEF Next, Handlers, Tick, World, Lifecycle, EndingCall, OtherStep

\* Every step of the controller is a call the engine serves, a new engine, or
\* leaves what the engine knows and whether the server runs alone.
LEMMA ContractStep ==
    ASSUME IInv, [Next]_vars
    PROVE  [Contract!Next]_<<Known, phase # "off">>
<1>1. Sound(body) /\ Sound(body')
  BY StepIInv DEF IInv
<1>2. ASSUME UNCHANGED body, (phase # "off") = (phase' # "off")
      PROVE  UNCHANGED <<Known, phase # "off">>
  <2>1. Known' = Known
    BY <1>2, KnownOfBody
  <2> QED BY <1>2, <2>1
<1>3. ASSUME NEW r \in Requests, NEW outcome \in StartOutcomes, HandleActionRequest(r, outcome)
      PROVE  Contract!Next
  <2>1. body' \in {Submit(body, r, outcome), Refused(body, r)} /\ phase # "off"
    BY <1>3 DEF HandleActionRequest, Handling, Become
  <2>2. Serving(body, Submit(body, r, outcome)) /\ Serving(body, Refused(body, r))
    BY <1>1, SubmitServes, SentEnds, EndingServes DEF Sound
  <2> QED BY <1>1, <2>1, <2>2, ServeStep DEF Contract!Next
<1>4. CASE EndingCall
  BY <1>1, <1>4, EndingCalls, EndingServes, ServeStep DEF Contract!Next
<1>5. CASE Exit \/ Crash \/ Start
  BY <1>5, NewEngineCalls, RestartStep DEF Contract!Next
<1>6. CASE OtherStep
  <2>1. CASE BeginTick \/ DrainDone \/ ReadLink \/ CommandReconnect \/ WorldSave
    BY <1>2, <2>1 DEF BeginTick, DrainDone, ReadLink, CommandReconnect, WorldSave, Quiet
  <2>2. CASE Socket
    BY <1>2, <2>2 DEF Socket, SocketOpens, ConnectFails, SocketCloses
  <2>3. ASSUME NEW m \in Maids, Unload(m) \/ Load(m) \/ Die(m)
        PROVE  UNCHANGED <<Known, phase # "off">>
    BY <1>2, <2>3 DEF Unload, Load, Die, MaidMoves
  <2> QED BY <1>6, <2>1, <2>2, <2>3 DEF OtherStep
<1>7. CASE UNCHANGED vars
  BY <1>2, <1>7 DEF vars
<1> QED BY <1>3, <1>4, <1>5, <1>6, <1>7, StepKinds

\* The executor implements ActionContract in every environment: one request at
\* a time, a remembered result never changes nor runs again, and nothing is
\* forgotten but to a full cache or a restart.
THEOREM ContractKept == Spec => KeepsContract
<1>1. Init => Contract!Init
  <2> SUFFICES ASSUME Init PROVE Contract!Init
    OBVIOUS
  <2>1. body.active = NoAction /\ body.replay = << >> /\ phase = "world"
    BY DEF Init, FreshBody
  <2>2. Keys(body.replay) = {}
    BY <2>1 DEF Keys
  <2>3. Known = [r \in Requests |-> "fresh"]
    BY <2>1, <2>2 DEF Known, Cached
  <2> QED BY <2>1, <2>3 DEF Contract!Init
<1>2. IInv /\ [Next]_vars => [Contract!Next]_<<Known, phase # "off">>
  BY ContractStep
<1> QED BY <1>1, <1>2, Invariant, PTL DEF Spec, KeepsContract, Contract!Spec

------------------------------------------------------------------------------
(* Actions that outlive their maid or their connection                      *)

\* What a call that accepts no request does to the history of the action
LEMMA EndingHistory ==
    ASSUME IInv, EndingCall, body'.active # NoAction
    PROVE  /\ body'.active = body.active /\ orphan' = orphan /\ host' = host
           /\ missed \subseteq missed'
<1>1. Ending(body, body') /\ Become(body')
  BY EndingCalls
<1>2. body'.active = body.active
  BY <1>1 DEF Ending
<1>3. PICK what : Overlook(what)
  BY DEF EndingCall, HandleSafeIdle, CommandStop, HandleUnbind, CommandUnbind, Unbind, HandleBind,
     CommandBind, Bind, Stop, SettleLink, ServeMaid, DieServing
<1> QED BY <1>1, <1>2, <1>3 DEF Become, Overlook

LEMMA SafeIdleStops ==
    ASSUME NEW b, Sound(b), Resolvable \/ b.active = NoAction
    PROVE  SafeIdle(b).active = NoAction /\ Unbound(b).active = NoAction
<1> DEFINE c == CancelAndStop(b)
<1>1. Sound(c) /\ c.active = NoAction
  BY CancelAndStopSound
<1>2. SafeIdle(b) \in {ReflexStop(c), b} /\ (Resolvable => SafeIdle(b) = ReflexStop(c))
  BY DEF SafeIdle
<1> HIDE DEF c
<1>3. SafeIdle(b).active = NoAction
  BY <1>1, <1>2, ReflexStopSound
<1>4. Sound(SafeIdle(b))
  BY SafeIdleSound
<1> QED BY <1>3, <1>4 DEF Unbound, Sound, Bodies

\* The running action is that of the bound maid, unless the binding moved when
\* she could not be found.
HostOK == body.active # NoAction /\ "binding" \notin missed => host = bound /\ bound \in Maids

\* Nothing else takes an action from its maid: not a binding, a restart or a crash.
LEMMA HostKept ==
    ASSUME IInv, HostOK, [Next]_vars
    PROVE  HostOK'
<1>1. SUFFICES ASSUME body'.active # NoAction, "binding" \notin missed'
               PROVE  host' = bound' /\ bound' \in Maids
  BY DEF HostOK
<1>2. Sound(body) /\ (Resolvable => bound \in Maids)
  BY DEF IInv, Resolvable, Found
<1>3. ASSUME NEW r \in Requests, NEW outcome \in StartOutcomes, HandleActionRequest(r, outcome)
      PROVE  host' = bound' /\ bound' \in Maids
  <2>1. /\ bound' = bound /\ Become(body') /\ Overlook({})
        /\ ~Resolvable => body' = Refused(body, r)
    BY <1>3 DEF HandleActionRequest, ownerVars, Become
  <2>2. Refused(body, r).active = body.active
    BY <1>2 DEF Refused, Sound, Bodies
  <2>3. CASE body'.active = body.active
    BY <1>1, <2>1, <2>3 DEF Become, Overlook, HostOK
  <2>4. CASE body'.active # body.active
    BY <1>1, <1>2, <2>1, <2>2, <2>4 DEF Become
  <2> QED BY <2>3, <2>4
<1>4. CASE EndingCall
  <2>1. body.active # NoAction /\ body'.active = body.active /\ "binding" \notin missed
    BY <1>1, <1>4, EndingHistory
  <2>2. host' = host /\ host = bound /\ bound \in Maids
    BY <1>1, <1>4, <2>1, EndingHistory DEF HostOK
  <2>3. Resolvable => Unbound(body).active = NoAction
    BY <1>2, SafeIdleStops
  <2>4. ~Unbind
    <3> SUFFICES ASSUME Unbind PROVE FALSE
      OBVIOUS
    <3>1. body' = Unbound(body) /\ Overlook({x \in {"binding"} : ~Resolvable})
      BY DEF Unbind, Become
    <3>2. ~Resolvable
      BY <1>1, <2>3, <3>1
    <3> QED BY <1>1, <2>1, <3>1, <3>2 DEF Overlook
  <2>5. ASSUME NEW m \in Maids, Bind(m) PROVE bound' = bound
    <3> SUFFICES ASSUME bound # m PROVE FALSE
      BY <2>5 DEF Bind
    <3>1. bound \notin {NoMaid, m}
      BY <2>2, ControllerAssumption
    <3>2. body' = Unbound(body) /\ Overlook({x \in {"binding"} : bound \notin {NoMaid, m} /\ ~Resolvable})
      BY <2>5, <3>1 DEF Bind, Become
    <3>3. ~Resolvable
      BY <1>1, <2>3, <3>2
    <3> QED BY <1>1, <2>1, <3>1, <3>2, <3>3 DEF Overlook
  <2>6. bound' = bound
    BY <1>4, <2>4, <2>5 DEF EndingCall, HandleSafeIdle, CommandStop, Stop, SettleLink, ServeMaid,
       DieServing, HandleUnbind, CommandUnbind, HandleBind, CommandBind, ownerVars
  <2> QED BY <2>2, <2>6
<1>5. CASE Exit \/ Crash \/ Start
  BY <1>1, <1>5, NewEngineCalls
<1>6. CASE OtherStep \/ UNCHANGED vars
  <2>1. body' = body /\ host' = host /\ bound' = bound /\ missed \subseteq missed'
    BY <1>6 DEF OtherStep, vars, BeginTick, DrainDone, ReadLink, Socket, SocketOpens, ConnectFails,
       SocketCloses, Unload, Load, Die, MaidMoves, CommandReconnect, WorldSave, Quiet, ownerVars
  <2> QED BY <1>1, <2>1 DEF HostOK
<1> QED BY <1>3, <1>4, <1>5, <1>6, StepKinds

\* Whatever unloads, dies, restarts or is bound, an action runs on the maid it was
\* started for, unless the binding moved when she could not be found.
THEOREM ActionsStay == Spec => []ActionStaysWithMaid
<1>1. Init => HostOK
  BY DEF Init, FreshBody, HostOK
<1>2. IInv /\ HostOK /\ [Next]_vars => HostOK'
  BY HostKept
<1>3. HostOK => ActionStaysWithMaid
  BY DEF HostOK, ActionStaysWithMaid
<1> QED BY <1>1, <1>2, <1>3, Invariant, PTL DEF Spec

Unread == {"maid", "connection", "handshake", "reconnect"}

\* A lost link of the running action is still to be read as lost: it is not up
\* again, and it was up when the controller last read it.  Once it is read, the
\* same tick stops the action.
OrphanOK ==
    body.active # NoAction /\ phase # "off" /\ missed \cap Unread = {} =>
        /\ orphan = "lost" => /\ link # "up" /\ LastRead
                              /\ phase \in {"world", "settle", "serve"} => link = "down"
        /\ orphan = "stale" => phase = "settle" /\ prevConnected /\ ~connected

\* Every step keeps it, or the controller misses the loss in one of four ways.
LEMMA OrphanKept ==
    ASSUME IInv, OrphanOK, [Next]_vars
    PROVE  OrphanOK'
<1>1. /\ phase \in Phases /\ link \in {"down", "connecting", "up"}
      /\ connected \in BOOLEAN /\ prevConnected \in BOOLEAN
      /\ orphan \in {"no", "lost", "stale"}
  BY DEF IInv, ControllerTypes
<1>2. Sound(body)
  BY DEF IInv
<1>3. SUFFICES ASSUME body'.active # NoAction, phase' # "off", missed' \cap Unread = {}
               PROVE  OrphanOK'
  BY DEF OrphanOK
<1> USE DEF LastRead
<1>4. ASSUME NEW r \in Requests, NEW outcome \in StartOutcomes, HandleActionRequest(r, outcome)
      PROVE  OrphanOK'
  <2>1. /\ phase = "drain" /\ Become(body') /\ Overlook({})
        /\ UNCHANGED <<phase, link, connected, prevConnected>>
    BY <1>4 DEF HandleActionRequest, Handling, Quiet, linkVars, Become
  <2>2. CASE body'.active = body.active
    BY <1>3, <2>1, <2>2 DEF Become, Overlook, OrphanOK
  <2>3. CASE body'.active # body.active
    <3>1. orphan' = (IF link = "up" THEN "no" ELSE "lost")
      BY <1>3, <2>1, <2>3 DEF Become
    <3>2. link # "up" => prevConnected
      BY <1>3, <2>1, <2>3 DEF Overlook, Unread
    <3> QED BY <2>1, <3>1, <3>2 DEF OrphanOK
  <2> QED BY <2>2, <2>3
<1>5. CASE EndingCall
  <2>1. /\ body.active # NoAction /\ body'.active = body.active /\ orphan' = orphan
        /\ missed \cap Unread = {}
    BY <1>3, <1>5, EndingHistory
  <2>2. CASE HandleSafeIdle \/ CommandStop \/ HandleUnbind \/ CommandUnbind
             \/ (\E m \in Maids : HandleBind(m) \/ CommandBind(m))
    <3>1. UNCHANGED <<phase, link, connected, prevConnected>>
      BY <2>2 DEF HandleSafeIdle, CommandStop, HandleUnbind, CommandUnbind, HandleBind, CommandBind,
         Handling, Quiet, linkVars
    <3> QED BY <1>3, <2>1, <3>1 DEF OrphanOK
  <2>3. CASE Stop
    BY <1>3, <2>3 DEF Stop
  <2>4. CASE SettleLink
    <3>1. ~(prevConnected /\ ~connected)
      <4> SUFFICES ASSUME prevConnected /\ ~connected PROVE FALSE
        OBVIOUS
      <4>1. body' = SafeIdle(Announced(body)) /\ Overlook({x \in {"maid"} : ~Resolvable})
        BY <2>4 DEF SettleLink, Become
      <4>2. Resolvable
        BY <1>3, <2>1, <4>1 DEF Overlook, Unread
      <4>3. Sound(Announced(body))
        BY AnnouncedSound
      <4> QED BY <1>3, <4>1, <4>2, <4>3, SafeIdleStops
    <3>2. /\ phase = "settle" /\ phase' = "serve" /\ prevConnected' = connected
          /\ UNCHANGED <<link, connected>>
      BY <2>4 DEF SettleLink
    <3> QED BY <1>3, <2>1, <3>1, <3>2 DEF OrphanOK
  <2>5. CASE \/ \E danger \in ReflexStates, outcome \in TickOutcomes : ServeMaid(danger, outcome)
             \/ DieServing
    <3>1. /\ phase = "serve" /\ phase' = "world"
          /\ UNCHANGED <<link, connected, prevConnected>>
      BY <2>5 DEF ServeMaid, DieServing, linkVars
    <3> QED BY <2>1, <3>1 DEF OrphanOK
  <2> QED BY <1>5, <2>2, <2>3, <2>4, <2>5 DEF EndingCall
<1>6. CASE Exit \/ Crash \/ Start
  BY <1>3, <1>6, NewEngineCalls
<1>7. CASE OtherStep
  <2>1. body' = body /\ missed \subseteq missed' /\ (phase # "off" \/ phase' = "off")
    BY <1>7 DEF OtherStep, BeginTick, DrainDone, ReadLink, Socket, SocketOpens, ConnectFails,
       SocketCloses, Unload, Load, Die, MaidMoves, CommandReconnect, WorldSave, Quiet
  <2>2. OrphanOK /\ body.active # NoAction /\ phase # "off" /\ missed \cap Unread = {}
    BY <1>3, <2>1
  <2> USE DEF OrphanOK
  <2>3. CASE BeginTick
    BY <2>2, <2>3 DEF BeginTick
  <2>4. CASE DrainDone
    BY <2>2, <2>4 DEF DrainDone
  <2>5. CASE ReadLink
    BY <1>1, <2>2, <2>5 DEF ReadLink
  <2>6. CASE SocketOpens
    <3>1. orphan # "lost"
      BY <1>3, <2>6 DEF SocketOpens, Unread
    <3> QED BY <2>2, <2>6, <3>1 DEF SocketOpens
  <2>7. CASE ConnectFails
    BY <2>2, <2>7 DEF ConnectFails
  <2>8. CASE SocketCloses
    <3>1. LastRead
      BY <1>3, <2>2, <2>8 DEF SocketCloses, Unread
    <3> QED BY <2>2, <2>8, <3>1 DEF SocketCloses, Orphaned
  <2>9. ~CommandReconnect
    BY <1>3, <2>2 DEF CommandReconnect, Unread
  <2>10. CASE WorldSave \/ \E m \in Maids : Unload(m) \/ Load(m) \/ Die(m)
    BY <2>2, <2>10 DEF WorldSave, Unload, Load, Die, MaidMoves, Quiet, linkVars
  <2> QED BY <1>7, <2>3, <2>4, <2>5, <2>6, <2>7, <2>8, <2>9, <2>10 DEF OtherStep, Socket
<1>8. CASE UNCHANGED vars
  BY <1>8 DEF vars, linkVars, OrphanOK
<1> QED BY <1>4, <1>5, <1>6, <1>7, <1>8, StepKinds

\* In every environment: an action runs on under a later connection than the one
\* it was requested over only if the maid could not be found when the loss was
\* read, or the controller never read that loss.
THEOREM NoActionOrphaned == Spec => []NoOrphanRuns
<1>1. Init => OrphanOK
  BY DEF Init, FreshBody, OrphanOK
<1>2. IInv /\ OrphanOK /\ [Next]_vars => OrphanOK'
  BY OrphanKept
<1>3. OrphanOK => NoOrphanRuns
  BY DEF OrphanOK, NoOrphanRuns, Unread
<1> QED BY <1>1, <1>2, <1>3, Invariant, PTL DEF Spec
==============================================================================
