----------------------------- MODULE AgentGateway -----------------------------
(***************************************************************************)
(* The Agent's end of the link: transport/ws_server.py (BridgeGateway) as    *)
(* actions/client.py and the runtime use it.  All of it runs in one asyncio  *)
(* loop, so what lies between two awaits is one step; the steps of the        *)
(* callers of request_action interleave with each other and with the handler  *)
(* of the one connection.  The Bridge at the other end may send anything the  *)
(* protocol allows, and the connection may end at any moment.                 *)
(*                                                                          *)
(* A call is one invocation of request_action.  It owns a future of its own, *)
(* or joins the future another call has registered for the same request.     *)
(***************************************************************************)
EXTENDS BoundedCache, FiniteSets

CONSTANTS Calls,        \* invocations of request_action
          NoCall,       \* no future is registered
          Requests,     \* request ids
          Verdicts,     \* final statuses of an ACTION_RESULT
          CacheCap,     \* bound of _action_cache
          Sessions,     \* session ids of Bridge processes
          NoSession,    \* no HELLO on this connection yet
          Maids,        \* maids a Bridge may report
          NoMaid,       \* bound_maid_uuid is None
          MayCancel     \* whether pausing may cancel a caller in mid-call

ASSUME GatewayAssumption ==
    /\ NoCall \notin Calls
    /\ NoSession \notin Sessions
    /\ NoMaid \notin Maids
    /\ CacheCap \in Nat \ {0}
    /\ MayCancel \in BOOLEAN
    /\ Verdicts \cap {"none", "pending", "failed"} = {}
    /\ Verdicts \cap {"disconnected", "timeout", "cancelled"} = {}

VARIABLES pc,         \* what each call does
          req,        \* the request of each call
          on,         \* the call whose future each call awaits
          fut,        \* the future each call created
          out,        \* how each call ended
          waiters,    \* _result_waiters
          cache,      \* _action_cache
          open,       \* _ws is not None
          hello,      \* the session of the last HELLO of the connection
          greeted,    \* history: the HELLOs this connection has seen, its own
                      \*   and late ones the Bridge had queued for an earlier one
          snap,       \* latest_snapshot, with the history whether it was taken
                      \*   over an earlier connection
          afterHello, \* _snapshot_version > _hello_snapshot_version
          snapFrom,   \* _last_snapshot_session_id, _last_snapshot_maid_uuid
          bound       \* bound_maid_uuid

callVars  == <<pc, req, on, fut, out>>
helloVars == <<hello, greeted>>
stateVars == <<snap, afterHello, snapFrom>>
vars == <<callVars, waiters, cache, open, helloVars, stateVars, bound>>

Errors  == {"disconnected", "timeout", "cancelled"}
Results == [req : Requests, status : Verdicts]
Futures == {"none", "pending", "failed"} \cup Verdicts

NoSnapshot == [maid |-> NoMaid, old |-> FALSE, known |-> FALSE]
Nowhere    == [session |-> NoSession, maid |-> NoMaid]

TypeOK ==
    /\ pc \in [Calls -> {"idle", "sending", "broken", "waiting", "joined", "done"}]
    /\ req \in [Calls -> Requests]
    /\ on \in [Calls -> Calls]
    /\ fut \in [Calls -> Futures]
    /\ out \in [Calls -> {"none"} \cup Verdicts \cup Errors]
    /\ waiters \in [Requests -> Calls \cup {NoCall}]
    /\ cache \in Seq(Results) /\ Len(cache) <= CacheCap
    /\ open \in BOOLEAN
    /\ hello \in Sessions \cup {NoSession} /\ greeted \subseteq {"own", "late"}
    /\ snap \in [maid : Maids \cup {NoMaid}, old : BOOLEAN, known : BOOLEAN]
    /\ afterHello \in BOOLEAN
    /\ snapFrom \in [session : Sessions \cup {NoSession}, maid : Maids \cup {NoMaid}]
    /\ bound \in Maids \cup {NoMaid}

Init ==
    /\ pc = [c \in Calls |-> "idle"]
    /\ req \in [Calls -> Requests]
    /\ on = [c \in Calls |-> c]
    /\ fut = [c \in Calls |-> "none"]
    /\ out = [c \in Calls |-> "none"]
    /\ waiters = [r \in Requests |-> NoCall]
    /\ cache = << >>
    /\ open = FALSE /\ hello = NoSession /\ greeted = {}
    /\ snap = NoSnapshot /\ afterHello = FALSE /\ snapFrom = Nowhere
    /\ bound = NoMaid

Active(c) == pc[c] \in {"sending", "broken", "waiting", "joined"}

\* request_action awaits this future with a timeout, or without one when joined.
Awaited(c) == fut[on[c]]

------------------------------------------------------------------------------
(* request_action                                                           *)

End(c, how) == pc' = [pc EXCEPT ![c] = "done"] /\ out' = [out EXCEPT ![c] = how]

\* The runtime runs one plan at a time and awaits a cancelled one, so a request
\* id has one caller at a time.
Free(r) == \A d \in Calls : Active(d) => req[d] # r

CallCached(c) ==
    /\ pc[c] = "idle" /\ Free(req[c])
    /\ req[c] \in Keys(cache)
    /\ End(c, Lookup(cache, req[c]).status)
    /\ UNCHANGED <<req, on, fut, waiters, cache, open, helloVars, stateVars, bound>>

\* A future of this id is still registered: wait for it, with no timeout.
CallJoins(c) ==
    /\ pc[c] = "idle" /\ Free(req[c])
    /\ req[c] \notin Keys(cache) /\ waiters[req[c]] # NoCall
    /\ pc' = [pc EXCEPT ![c] = "joined"]
    /\ on' = [on EXCEPT ![c] = waiters[req[c]]]
    /\ UNCHANGED <<req, fut, out, waiters, cache, open, helloVars, stateVars, bound>>

\* send() raises at once when there is no connection.
CallSends(c) ==
    /\ pc[c] = "idle" /\ Free(req[c])
    /\ req[c] \notin Keys(cache) /\ waiters[req[c]] = NoCall
    /\ fut' = [fut EXCEPT ![c] = "pending"]
    /\ IF open
       THEN /\ pc' = [pc EXCEPT ![c] = "sending"]
            /\ waiters' = [waiters EXCEPT ![req[c]] = c]
            /\ UNCHANGED out
       ELSE End(c, "disconnected") /\ UNCHANGED waiters
    /\ UNCHANGED <<req, on, cache, open, helloVars, stateVars, bound>>

Sent(c) ==
    /\ pc[c] = "sending"
    /\ pc' = [pc EXCEPT ![c] = "waiting"]
    /\ UNCHANGED <<req, on, fut, out, waiters, cache, open, helloVars, stateVars, bound>>

\* except Exception: whatever is registered for the id is dropped.
Raise(c, why) ==
    /\ End(c, why)
    /\ waiters' = [waiters EXCEPT ![req[c]] = NoCall]
    /\ UNCHANGED <<req, on, fut, cache, open, helloVars, stateVars, bound>>

\* ws.send on a connection that ended while this call waited for the lock
SendFails(c) == pc[c] = "broken" /\ Raise(c, "disconnected")

\* Mutant: the timeout covers sending and not the wait for the result.
TimeOutSending(c) == pc[c] = "sending" /\ Raise(c, "timeout")

\* The deadline may fire in the loop iteration in which the future is done
\* (asyncio.wait_for since Python 3.12).
TimeOut(c) == pc[c] = "waiting" /\ Raise(c, "timeout")

Wake(c) ==
    /\ pc[c] = "waiting"
    /\ \/ fut[c] = "failed" /\ Raise(c, "disconnected")
       \/ /\ fut[c] \in Verdicts
          /\ End(c, fut[c])
          /\ UNCHANGED <<req, on, fut, waiters, cache, open, helloVars, stateVars, bound>>

WakeJoined(c) ==
    /\ pc[c] = "joined" /\ Awaited(c) # "pending"
    /\ End(c, IF Awaited(c) = "failed" THEN "disconnected" ELSE Awaited(c))
    /\ UNCHANGED <<req, on, fut, waiters, cache, open, helloVars, stateVars, bound>>

\* RuntimeController.pause and stop cancel the plan task.  CancelledError is no
\* Exception: the shielded future stays registered.
Cancel(c) ==
    /\ MayCancel /\ Active(c)
    /\ End(c, "cancelled")
    /\ UNCHANGED <<req, on, fut, waiters, cache, open, helloVars, stateVars, bound>>

------------------------------------------------------------------------------
(* The connection: _handler                                                 *)

Connect ==
    /\ ~open
    /\ open' = TRUE /\ hello' = NoSession /\ greeted' = {}
    /\ snap' = NoSnapshot /\ snapFrom' = Nowhere
    /\ UNCHANGED <<callVars, waiters, cache, afterHello, bound>>

Registered == {waiters[r] : r \in Requests} \ {NoCall}

\* Mutant: the waiters are dropped without an exception.
ForgetWaiters ==
    /\ waiters' = [r \in Requests |-> NoCall]
    /\ UNCHANGED fut

\* _fail_waiters
FailWaiters ==
    /\ fut' = [c \in Calls |-> IF c \in Registered /\ fut[c] = "pending" THEN "failed" ELSE fut[c]]
    /\ waiters' = [r \in Requests |-> NoCall]

\* The finally of _handler; a call that is still sending will see its send fail.
Disconnect ==
    /\ open
    /\ open' = FALSE /\ hello' = NoSession /\ greeted' = {}
    /\ snap' = NoSnapshot /\ snapFrom' = Nowhere
    /\ FailWaiters
    /\ pc' = [c \in Calls |-> IF pc[c] = "sending" THEN "broken" ELSE pc[c]]
    /\ UNCHANGED <<req, on, out, cache, afterHello, bound>>

------------------------------------------------------------------------------
(* _on_message                                                              *)

\* What the Bridge queued for an earlier connection is sent first, before the
\* HELLO of this one.
Sendable(old) == open /\ (old => "own" \notin greeted)

Greeted(old) == greeted \cup {IF old THEN "late" ELSE "own"}

\* Mutant: a HELLO does not ask for a snapshot of its own.
OnHelloUnversioned(s, old) ==
    /\ Sendable(old)
    /\ hello' = s /\ greeted' = Greeted(old)
    /\ UNCHANGED <<callVars, waiters, cache, open, stateVars, bound>>

OnHello(s, old) ==
    /\ Sendable(old)
    /\ hello' = s /\ greeted' = Greeted(old)
    /\ afterHello' = FALSE
    /\ UNCHANGED <<callVars, waiters, cache, open, snap, snapFrom, bound>>

Accepted(s, m, old) ==
    /\ snap' = [maid |-> m, old |-> old, known |-> TRUE]
    /\ snapFrom' = [session |-> s, maid |-> m]
    /\ afterHello' = TRUE
    /\ bound' = (IF bound = NoMaid THEN m ELSE bound)

Unaccepted == UNCHANGED <<stateVars, bound>>

ForeignMaid(m) == bound # NoMaid /\ m # NoMaid /\ m # bound

OnSnapshot(s, m, old) ==
    /\ Sendable(old)
    /\ IF hello = NoSession \/ s # hello \/ ForeignMaid(m)
       THEN Unaccepted ELSE Accepted(s, m, old)
    /\ UNCHANGED <<callVars, waiters, cache, open, helloVars>>

\* Mutant: the future is resolved by its own caller, if it is still there.
OnResultRegistered(res) ==
    /\ open
    /\ cache' = PutIn(cache, res, CacheCap)
    /\ waiters' = [waiters EXCEPT ![res.req] = NoCall]
    /\ fut' = [c \in Calls |->
                  IF c = waiters[res.req] /\ Active(c) /\ fut[c] = "pending"
                  THEN res.status ELSE fut[c]]
    /\ UNCHANGED <<pc, req, on, out, open, helloVars, stateVars, bound>>

OnResult(res) ==
    /\ open
    /\ cache' = PutIn(cache, res, CacheCap)
    /\ waiters' = [waiters EXCEPT ![res.req] = NoCall]
    /\ fut' = [c \in Calls |->
                  IF c = waiters[res.req] /\ fut[c] = "pending" THEN res.status ELSE fut[c]]
    /\ UNCHANGED <<pc, req, on, out, open, helloVars, stateVars, bound>>

\* BIND_MAID and UNBIND_MAID of control/api.py, once the Bridge has answered
SetBound(m) ==
    /\ bound' = m
    /\ UNCHANGED <<callVars, waiters, cache, open, helloVars, stateVars>>

------------------------------------------------------------------------------
Caller(c) ==
    \/ CallCached(c) \/ CallJoins(c) \/ CallSends(c)
    \/ Sent(c) \/ SendFails(c) \/ TimeOut(c) \/ Wake(c) \/ WakeJoined(c)
    \/ Cancel(c)

Handler ==
    \/ Connect
    \/ Disconnect
    \/ \E s \in Sessions, old \in BOOLEAN : OnHello(s, old)
    \/ \E s \in Sessions, m \in Maids \cup {NoMaid}, old \in BOOLEAN : OnSnapshot(s, m, old)
    \/ \E res \in Results : OnResult(res)
    \/ \E m \in Maids \cup {NoMaid} : SetBound(m)

Next == (\E c \in Calls : Caller(c)) \/ Handler

Spec == Init /\ [][Next]_vars

\* The event loop runs every ready callback and fires every deadline.
EventLoop ==
    \A c \in Calls :
        /\ WF_vars(Sent(c)) /\ WF_vars(SendFails(c)) /\ WF_vars(TimeOut(c))
        /\ WF_vars(Wake(c)) /\ WF_vars(WakeJoined(c))

FairSpec == Spec /\ EventLoop
------------------------------------------------------------------------------
(* Properties                                                               *)

\* resync_ready: the runtime may revalidate what it restored.
ResyncReady ==
    /\ hello # NoSession /\ snap.known /\ afterHello
    /\ snapFrom.session = hello
    /\ bound = NoMaid \/ snapFrom.maid = bound

\* Whoever waits for a future that is still pending waits for the one that a
\* result or the end of the connection will resolve: no timeout, cancelled
\* caller or reconnection leaves a caller on a future nobody can reach.
WaitersAwake ==
    \A c \in Calls :
        pc[c] \in {"sending", "waiting", "joined"} /\ Awaited(c) = "pending" =>
            open /\ waiters[req[c]] = on[c]

\* What the Bridge still had queued from an earlier connection becomes the state
\* the runtime sees only behind a HELLO queued with it, and it never passes for
\* the state to resume from once the connection has had its own HELLO.
NoStaleState ==
    snap.old => "late" \in greeted /\ ("own" \in greeted => ~ResyncReady)

\* A call that asked the Bridge itself always ends, whatever the link does.
OwnersEnd == \A c \in Calls : (pc[c] \in {"sending", "broken", "waiting"}) ~> ~Active(c)

\* A call that joined an abandoned future has no timeout of its own, but a link
\* that fails, or a late result that is remembered, releases it.
JoinersEnd ==
    \A c \in Calls :
        []<>(~open \/ req[c] \in Keys(cache)) => (pc[c] = "joined" ~> pc[c] = "done")

\* Every call of an action ends.
CallsEnd == \A c \in Calls : Active(c) ~> ~Active(c)
==============================================================================
