------------------------------ MODULE RndBudget ------------------------------
(***************************************************************************)
(* The token budget of a research cycle: what tokens/budget_guard.py grants a  *)
(* request, the loopback proxy that every model call of the driver goes       *)
(* through (rnd/api_budget_proxy.py) with its threads and their one lock, the *)
(* provider that the director's own calls use (llm/openai_compatible.py), and *)
(* the ledger they both write.  A grant is read from the ledger before the    *)
(* call, and the usage is written to it after: what the provider reports, or  *)
(* an estimate, and neither is held to the grant.                            *)
(***************************************************************************)
EXTENDS Naturals, FiniteSets

CONSTANTS Budget,     \* token_budget of the cycle
          MaxSingle,  \* max_single_request of the settings
          MaxReview,  \* the answer that the director asks for, 4096
          Slots,      \* handler threads of the proxy
          Prompts,    \* estimates of a prompt
          Usages      \* bound of the model: what a call is recorded with

Director  == "director"
Free      == "free"

ASSUME BudgetAssumption ==
    /\ Budget \in Nat \ {0} /\ MaxSingle \in Nat \ {0} /\ MaxReview \in Nat \ {0}
    /\ Prompts \subseteq Nat \ {0} /\ Usages \subseteq Nat
    /\ Director \notin Slots /\ Free \notin Slots

VARIABLES used,    \* what the ledger says the cycle has used
          call,    \* the request each thread serves, and what it was granted
          reqlock, \* _request_lock: the thread that may call the provider
          server,  \* the proxy: off, on, or closing (no token, the cycle's id still)
          purpose, \* PHASE_PURPOSES of its phase
          excess,  \* history: what calls were recorded with beyond their grants
          raced    \* history: a grant was given while another call was under way

budgetVars == <<used, call, reqlock, server, purpose, excess, raced>>

Early     == {"rnd_direction", "rnd_research", "rnd_design"}
Finishing == {"rnd_build", "rnd_finalize", "rnd_repair"}
Purposes  == Early \cup Finishing \cup {"rnd_development", "rnd_proposal"}
NoCall    == [at |-> "none", tokens |-> 0]
Calls     == [at : {"none", "asked", "sent"}, tokens : Nat]

BudgetTypeOK ==
    /\ used \in Nat /\ excess \in Nat /\ raced \in BOOLEAN
    /\ call \in [Slots \cup {Director} -> Calls]
    /\ reqlock \in Slots \cup {Free}
    /\ server \in {"off", "on", "closing"}
    /\ purpose \in Purposes

BudgetInit ==
    /\ used = 0 /\ reqlock = Free /\ server = "off" /\ purpose = "rnd_development"
    /\ call = [s \in Slots \cup {Director} |-> NoCall]
    /\ excess = 0 /\ raced = FALSE

-----------------------------------------------------------------------------
(* The guard. *)

Least(a, b)    == IF a <= b THEN a ELSE b
Minus(a, b)    == IF a >= b THEN a - b ELSE 0
FinishOnly(u)  == 20 * u >= 17 * Budget
ForceClose(u)  == 20 * u >= 19 * Budget

\* 15 per cent are kept for building, fixing and finishing; of more than a hundred
\* million tokens no more than of that.
Reserve ==
    IF Budget >= 100000000 THEN 15000000
    ELSE IF (Budget * 15) \div 100 >= 1 THEN (Budget * 15) \div 100 ELSE 1

Allowed(u, p) ==
    LET total == Least(Minus(Budget, u), MaxSingle)
    IN  IF p \in Early THEN Least(total, Minus(Budget, Reserve + u)) ELSE total

Blocked(u, p) ==
    \/ FinishOnly(u) /\ p \in Early \cup {"rnd_proposal"}
    \/ ForceClose(u) /\ p \notin Finishing

\* limit_rnd_request, and check_rnd which it ends with: the most that prompt and
\* answer may take together, or 0 if the request is refused.
Limit(u, p, prompt, desired) ==
    LET cap == Least(desired, Minus(Allowed(u, p), prompt))
    IN  IF Blocked(u, p) \/ cap < 1 THEN 0 ELSE prompt + cap

Sent(tokens) == [at |-> "sent", tokens |-> tokens]

-----------------------------------------------------------------------------
(* The proxy: do_POST in a thread of its own, one at the provider at a time. *)

ProxyStart ==
    /\ server' = "on"
    /\ UNCHANGED <<used, call, reqlock, purpose, excess, raced>>

SetPhase(p) ==
    /\ purpose' = p
    /\ UNCHANGED <<used, call, reqlock, server, excess, raced>>

\* A request with the token of this run; the token is not looked at again.
Post(s) ==
    /\ server = "on" /\ call[s].at = "none"
    /\ call' = [call EXCEPT ![s].at = "asked"]
    /\ UNCHANGED <<used, reqlock, server, purpose, excess, raced>>

\* A request is refused, or goes to the provider with its answer capped.
Decide(s, p) ==
    \E prompt \in Prompts :
      LET tokens == Limit(used, p, prompt, MaxSingle)
      IN  \/ /\ tokens = 0
             /\ call' = [call EXCEPT ![s] = NoCall]
             /\ UNCHANGED <<reqlock, raced>>
          \/ /\ tokens # 0
             /\ call' = [call EXCEPT ![s] = Sent(tokens)]
             /\ reqlock' = s
             /\ raced' = (raced \/ call[Director].at = "sent")

\* Mutant: the threads are not kept apart.
GrantUnlocked(s, p) ==
    /\ call[s].at = "asked" /\ server # "off"
    /\ Decide(s, p)
    /\ UNCHANGED <<used, server, purpose, excess>>

\* _proxy_chat and _proxy_search up to the call: the purpose is that of the phase
\* at this moment, or of the search.
Grant(s, p) ==
    /\ reqlock = Free /\ call[s].at = "asked" /\ server # "off"
    /\ Decide(s, p)
    /\ UNCHANGED <<used, server, purpose, excess>>

HangUp(s) ==
    /\ call' = [call EXCEPT ![s] = NoCall]
    /\ reqlock' = IF reqlock = s THEN Free ELSE reqlock

\* The last chunk is passed on, and then the usage is recorded: what the provider
\* reports, nothing included, or an estimate from the bytes of the stream.  A
\* proxy that was closed meanwhile records it for no cycle.
Answered(s) ==
    /\ call[s].at = "sent"
    /\ \E t \in Usages :
         IF s \in Slots /\ server = "off"
         THEN UNCHANGED <<used, excess>>
         ELSE used' = used + t /\ excess' = excess + Minus(t, call[s].tokens)
    /\ HangUp(s)
    /\ UNCHANGED <<server, purpose, raced>>

\* The call fails, upstream or at the driver, before or after it is granted, or
\* a closed proxy knows no cycle: what was used by then is recorded nowhere.
Broken(s) ==
    /\ call[s].at # "none"
    /\ HangUp(s)
    /\ UNCHANGED <<used, server, purpose, excess, raced>>

\* close(): the token goes first; the threads are daemons that nobody joins.
ProxyStops ==
    /\ server = "on" /\ server' = "closing"
    /\ UNCHANGED <<used, call, reqlock, purpose, excess, raced>>

ProxyClosed ==
    /\ server # "on" /\ server' = "off"
    /\ UNCHANGED <<used, call, reqlock, purpose, excess, raced>>

-----------------------------------------------------------------------------
(* OpenAICompatibleProvider.complete, called by the director. *)

DirectorAsks(p) ==
    /\ call[Director].at = "none"
    /\ \E prompt \in Prompts :
         LET tokens == Limit(used, p, prompt, MaxReview)
         IN  tokens # 0 /\ call' = [call EXCEPT ![Director] = Sent(tokens)]
    /\ raced' = (raced \/ \E s \in Slots : call[s].at = "sent")
    /\ UNCHANGED <<used, reqlock, server, purpose, excess>>

DirectorRefused(p) ==
    /\ call[Director].at = "none"
    /\ \E prompt \in Prompts : Limit(used, p, prompt, MaxReview) = 0
    /\ UNCHANGED budgetVars

\* RND_PROVIDER_OVERRAN_CAP
Overrun == used > Budget

-----------------------------------------------------------------------------
\* The ledger of a cycle exceeds its budget by what answers took beyond what they
\* were granted, and by no more than one request if the director was granted a
\* review while a thread still had a call under way, or the other way round.
BudgetKept == used <= Budget + excess + (IF raced THEN MaxSingle ELSE 0)

=============================================================================
