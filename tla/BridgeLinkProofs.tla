--------------------------- MODULE BridgeLinkProofs ---------------------------
(***************************************************************************)
(* Safety of the link between the game and the Agent.  First the gateway      *)
(* (AgentGateway), for every number of calls, requests, sessions and maids    *)
(* and every cache size; then the sockets beneath it (BridgeSockets), for any *)
(* number of clients and connections.  Each keeps its own variables.          *)
(***************************************************************************)
EXTENDS AgentGateway, BridgeSockets, TLAPS

------------------------------------------------------------------------------
(* The gateway.                                                             *)

\* A registered future is pending, belongs to a call of that request that has
\* begun, and the connection is open.
Registration ==
    \A r \in Requests : waiters[r] # NoCall =>
        /\ open
        /\ req[waiters[r]] = r
        /\ fut[waiters[r]] = "pending"
        /\ pc[waiters[r]] # "idle"

\* Only a call that joined awaits the future of another, which has begun.
OwnFuture ==
    \A c \in Calls :
        /\ on[c] # c => pc[c] \in {"joined", "done"}
        /\ on[c] # c => pc[on[c]] # "idle" /\ fut[on[c]] # "none"
        /\ pc[c] = "joined" => on[c] # c

\* A request has one caller at a time.
OneCaller == \A c, d \in Calls : Active(c) /\ Active(d) /\ req[c] = req[d] => c = d

\* No snapshot is accepted before a HELLO; one queued for an earlier connection
\* comes before this one's HELLO, which discards it.
Greeting ==
    /\ greeted = {} => hello = NoSession
    /\ snap.old => "late" \in greeted
    /\ snap.old /\ "own" \in greeted => ~afterHello

Waits(c) == pc[c] \in {"sending", "waiting", "joined"} /\ Awaited(c) = "pending"

Linked == Registration /\ OwnFuture /\ OneCaller /\ WaitersAwake

GatewayInv == TypeOK /\ Linked /\ Greeting

------------------------------------------------------------------------------
(* The result cache                                                         *)

\* Remembering a result keeps the cache within its bound.
LEMMA PutInType ==
    ASSUME NEW q \in Seq(Results), Len(q) <= CacheCap, NEW res \in Results
    PROVE  PutIn(q, res, CacheCap) \in Seq(Results) /\ Len(PutIn(q, res, CacheCap)) <= CacheCap
<1>1. CASE res.req \in Keys(q)
  <2>1. Replaced(q, res) \in Seq(Results) /\ Len(Replaced(q, res)) = Len(q)
    BY DEF Replaced
  <2> QED BY <1>1, <2>1 DEF PutIn
<1>2. CASE res.req \notin Keys(q) /\ Len(q) < CacheCap
  <2>1. PutIn(q, res, CacheCap) = Append(q, res)
    BY <1>2 DEF PutIn
  <2> QED BY <1>2, <2>1, GatewayAssumption
<1>3. CASE res.req \notin Keys(q) /\ ~(Len(q) < CacheCap)
  <2>1. PutIn(q, res, CacheCap) = Append(Tail(q), res)
    BY <1>3 DEF PutIn
  <2>2. q # << >> /\ Len(q) = CacheCap
    BY <1>3, GatewayAssumption
  <2>3. Tail(q) \in Seq(Results) /\ Len(Tail(q)) = CacheCap - 1
    BY <2>2
  <2> QED BY <2>1, <2>3, GatewayAssumption
<1> QED BY <1>1, <1>2, <1>3

\* A remembered result has a verdict.
LEMMA LookupType ==
    ASSUME NEW q \in Seq(Results), NEW r \in Keys(q)
    PROVE  Lookup(q, r).status \in Verdicts
<1>1. \E i \in DOMAIN q : q[i].req = r
  BY DEF Keys
<1>2. \A i \in DOMAIN q : q[i] \in Results
  OBVIOUS
<1>3. Lookup(q, r) \in Results
  BY <1>1, <1>2 DEF Lookup
<1> QED BY <1>3 DEF Results

------------------------------------------------------------------------------
(* The invariant is inductive                                               *)

LEMMA GatewayInit == Init => GatewayInv
<1> SUFFICES ASSUME Init PROVE GatewayInv
  OBVIOUS
<1>1. TypeOK
  <2>1. cache \in Seq(Results) /\ Len(cache) <= CacheCap
    BY GatewayAssumption DEF Init
  <2> QED BY <2>1 DEF Init, TypeOK, Futures, NoSnapshot, Nowhere
<1>2. Linked
  BY DEF Init, Linked, Registration, OwnFuture, OneCaller, Active, WaitersAwake, Awaited
<1>3. Greeting
  BY DEF Init, Greeting, NoSnapshot
<1> QED BY <1>1, <1>2, <1>3 DEF GatewayInv

\* A step of a caller: types, then the links between callers and futures.
LEMMA CallerType == ASSUME GatewayInv, NEW c \in Calls, Caller(c) PROVE TypeOK'
<1> USE DEF GatewayInv, TypeOK, callVars, stateVars, helloVars, End, Errors, Futures
<1>1. CASE CallCached(c)
  <2>1. Lookup(cache, req[c]).status \in Verdicts
    BY <1>1, LookupType DEF CallCached
  <2> QED BY <1>1, <2>1 DEF CallCached
<1>2. CASE CallJoins(c)
  BY <1>2 DEF CallJoins
<1>3. CASE CallSends(c)
  BY <1>3 DEF CallSends
<1>4. CASE Sent(c)
  BY <1>4 DEF Sent
<1>5. CASE SendFails(c)
  BY <1>5 DEF SendFails, Raise
<1>6. CASE TimeOut(c)
  BY <1>6 DEF TimeOut, Raise
<1>7. CASE Wake(c)
  BY <1>7 DEF Wake, Raise
<1>8. CASE WakeJoined(c)
  <2>1. pc[c] = "joined" /\ Awaited(c) # "pending"
    BY <1>8 DEF WakeJoined
  <2>2. Awaited(c) \in Futures
    BY DEF Awaited
  <2>3. Awaited(c) # "none"
    BY <2>1 DEF Linked, OwnFuture, Awaited
  <2> QED BY <1>8, <2>2, <2>3 DEF WakeJoined
<1>9. CASE Cancel(c)
  BY <1>9 DEF Cancel
<1> QED BY <1>1, <1>2, <1>3, <1>4, <1>5, <1>6, <1>7, <1>8, <1>9 DEF Caller

\* A caller's step keeps futures reachable: it registers its own, leaves its
\* own, or touches nothing another caller waits for.
LEMMA CallerLinked == ASSUME GatewayInv, NEW c \in Calls, Caller(c) PROVE Linked'
<1> USE DEF GatewayInv, TypeOK, callVars, stateVars, helloVars, End, Linked, Registration, OwnFuture,
            OneCaller, Active, WaitersAwake, Awaited
<1>1. CASE CallCached(c)
  BY <1>1 DEF CallCached
<1>2. CASE CallJoins(c)
  <2>1. /\ waiters[req[c]] \in Calls /\ waiters[req[c]] # c
        /\ open /\ fut[waiters[req[c]]] = "pending" /\ pc[waiters[req[c]]] # "idle"
    BY <1>2, GatewayAssumption DEF CallJoins
  <2>2. Registration' /\ WaitersAwake'
    BY <1>2, <2>1 DEF CallJoins
  <2>3. OwnFuture'
    BY <1>2, <2>1 DEF CallJoins
  <2>4. OneCaller'
    BY <1>2 DEF CallJoins, Free
  <2> QED BY <2>2, <2>3, <2>4
<1>3. CASE CallSends(c)
  <2>1. on[c] = c /\ \A d \in Calls : on[d] = c => d = c
    BY <1>3 DEF CallSends
  <2>2. \A r \in Requests : waiters[r] # c
    BY <1>3, GatewayAssumption DEF CallSends
  <2>3. Registration'
    BY <1>3, <2>2, GatewayAssumption DEF CallSends
  <2>4. OwnFuture'
    BY <1>3 DEF CallSends
  <2>5. OneCaller'
    BY <1>3 DEF CallSends, Free
  <2>6. WaitersAwake'
    BY <1>3, <2>1 DEF CallSends, Free
  <2> QED BY <2>3, <2>4, <2>5, <2>6
<1>4. CASE Sent(c)
  BY <1>4 DEF Sent
<1>5. ASSUME NEW why, Raise(c, why), pc[c] \in {"broken", "waiting"} PROVE Linked'
  <2>1. Registration'
    BY <1>5 DEF Raise
  <2>2. OwnFuture'
    BY <1>5 DEF Raise
  <2>3. OneCaller'
    BY <1>5 DEF Raise
  <2>4. WaitersAwake'
    BY <1>5 DEF Raise
  <2> QED BY <2>1, <2>2, <2>3, <2>4
<1>6. CASE SendFails(c)
  BY <1>5, <1>6 DEF SendFails
<1>7. CASE TimeOut(c)
  BY <1>5, <1>7 DEF TimeOut
<1>8. CASE Wake(c)
  <2>1. CASE Raise(c, "disconnected")
    BY <1>5, <1>8, <2>1 DEF Wake
  <2>2. CASE End(c, fut[c]) /\ UNCHANGED <<req, on, fut, waiters, cache, open, helloVars, stateVars, bound>>
    BY <1>8, <2>2 DEF Wake
  <2> QED BY <1>8, <2>1, <2>2 DEF Wake
<1>9. CASE WakeJoined(c)
  BY <1>9 DEF WakeJoined
<1>10. CASE Cancel(c)
  BY <1>10 DEF Cancel
<1> QED BY <1>1, <1>2, <1>3, <1>4, <1>6, <1>7, <1>8, <1>9, <1>10 DEF Caller

\* Callers do not touch what the connection said.
LEMMA CallerGreeting == ASSUME GatewayInv, NEW c \in Calls, Caller(c) PROVE Greeting'
<1>1. UNCHANGED <<helloVars, stateVars>>
  BY DEF Caller, CallCached, CallJoins, CallSends, Sent, SendFails, TimeOut, Wake, WakeJoined,
         Cancel, Raise
<1> QED BY <1>1 DEF GatewayInv, Greeting, helloVars, stateVars

------------------------------------------------------------------------------
LEMMA HandlerType == ASSUME GatewayInv, Handler PROVE TypeOK'
<1> USE DEF GatewayInv, TypeOK, callVars, stateVars, helloVars
<1>1. CASE Connect
  BY <1>1 DEF Connect, NoSnapshot, Nowhere
<1>2. CASE Disconnect
  <2>1. fut' \in [Calls -> Futures] /\ waiters' \in [Requests -> Calls \cup {NoCall}]
    BY <1>2 DEF Disconnect, FailWaiters, Futures
  <2> QED BY <1>2, <2>1 DEF Disconnect, NoSnapshot, Nowhere
<1>3. ASSUME NEW s \in Sessions, NEW old \in BOOLEAN, OnHello(s, old) PROVE TypeOK'
  BY <1>3 DEF OnHello, Greeted
<1>4. ASSUME NEW s \in Sessions, NEW m \in Maids \cup {NoMaid}, NEW old \in BOOLEAN,
             OnSnapshot(s, m, old)
      PROVE  TypeOK'
  <2>1. CASE Accepted(s, m, old)
    BY <1>4, <2>1 DEF OnSnapshot, Accepted
  <2>2. CASE Unaccepted
    BY <1>4, <2>2 DEF OnSnapshot, Unaccepted
  <2>3. Accepted(s, m, old) \/ Unaccepted
    BY <1>4 DEF OnSnapshot
  <2> QED BY <2>1, <2>2, <2>3
<1>5. ASSUME NEW res \in Results, OnResult(res) PROVE TypeOK'
  <2>1. cache' \in Seq(Results) /\ Len(cache') <= CacheCap
    BY <1>5, PutInType DEF OnResult
  <2>2. res.req \in Requests /\ res.status \in Verdicts
    BY DEF Results
  <2>3. fut' \in [Calls -> Futures] /\ waiters' \in [Requests -> Calls \cup {NoCall}]
    BY <1>5, <2>2 DEF OnResult, Futures
  <2> QED BY <1>5, <2>1, <2>3 DEF OnResult
<1>6. ASSUME NEW m \in Maids \cup {NoMaid}, SetBound(m) PROVE TypeOK'
  BY <1>6 DEF SetBound
<1> HIDE DEF GatewayInv, TypeOK, callVars, stateVars, helloVars
<1> QED BY <1>1, <1>2, <1>3, <1>4, <1>5, <1>6 DEF Handler

\* The end of the connection fails every registered future, a result resolves
\* the one of its request, and nothing else touches futures.
LEMMA HandlerLinked == ASSUME GatewayInv, Handler PROVE Linked'
<1> USE DEF GatewayInv, TypeOK, callVars, Linked, Registration, OwnFuture, OneCaller, Active,
            WaitersAwake, Awaited
<1>1. CASE Connect
  BY <1>1 DEF Connect
<1>2. CASE Disconnect
  <2>1. \A c \in Calls : fut'[c] # "pending" \/ c \notin Registered
    BY <1>2 DEF Disconnect, FailWaiters
  <2>2. \A c \in Calls : /\ fut'[c] = "pending" => fut[c] = "pending"
                         /\ fut[c] # "none" => fut'[c] # "none"
    BY <1>2 DEF Disconnect, FailWaiters
  <2>3. \A c \in Calls : /\ pc'[c] = "idle" <=> pc[c] = "idle"
                         /\ pc'[c] = "joined" <=> pc[c] = "joined"
                         /\ pc'[c] = "done" <=> pc[c] = "done"
                         /\ Active(c)' <=> Active(c)
                         /\ pc'[c] \in {"sending", "waiting", "joined"} =>
                              pc[c] \in {"sending", "waiting", "joined"}
    BY <1>2 DEF Disconnect
  <2>4. UNCHANGED <<req, on>> /\ \A r \in Requests : waiters'[r] = NoCall
    BY <1>2 DEF Disconnect, FailWaiters
  <2>5. Registration'
    BY <2>4
  <2>6. OwnFuture'
    BY <2>2, <2>3, <2>4
  <2>7. OneCaller'
    BY <2>3, <2>4
  <2>8. WaitersAwake'
    <3> SUFFICES ASSUME NEW c \in Calls, pc'[c] \in {"sending", "waiting", "joined"},
                        fut'[on[c]] = "pending"
                 PROVE  FALSE
      BY <2>4
    <3>1. on[c] \in Calls /\ waiters[req[c]] = on[c]
      BY <2>2, <2>3
    <3>2. on[c] \in Registered
      BY <3>1, GatewayAssumption DEF Registered
    <3> QED BY <2>1, <3>1, <3>2
  <2> QED BY <2>5, <2>6, <2>7, <2>8
<1>3. ASSUME NEW s \in Sessions, NEW old \in BOOLEAN, OnHello(s, old) PROVE Linked'
  BY <1>3 DEF OnHello
<1>4. ASSUME NEW s \in Sessions, NEW m \in Maids \cup {NoMaid}, NEW old \in BOOLEAN,
             OnSnapshot(s, m, old)
      PROVE  Linked'
  BY <1>4 DEF OnSnapshot
<1>5. ASSUME NEW res \in Results, OnResult(res) PROVE Linked'
  <2>1. res.req \in Requests /\ res.status \notin {"none", "pending"}
    BY GatewayAssumption DEF Results
  <2>2. /\ UNCHANGED <<pc, req, on, open>>
        /\ \A r \in Requests : waiters'[r] = IF r = res.req THEN NoCall ELSE waiters[r]
        /\ \A d \in Calls : fut'[d] = IF d = waiters[res.req] /\ fut[d] = "pending"
                                      THEN res.status ELSE fut[d]
    BY <1>5 DEF OnResult
  <2>3. Registration'
    BY <2>1, <2>2
  <2>4. OwnFuture'
    BY <2>1, <2>2
  <2>5. OneCaller'
    BY <2>2
  <2>6. WaitersAwake'
    BY <2>1, <2>2
  <2> QED BY <2>3, <2>4, <2>5, <2>6
<1>6. ASSUME NEW m \in Maids \cup {NoMaid}, SetBound(m) PROVE Linked'
  BY <1>6 DEF SetBound
<1> HIDE DEF GatewayInv, TypeOK, callVars, Linked, Registration, OwnFuture, OneCaller, Active,
             WaitersAwake, Awaited
<1> QED BY <1>1, <1>2, <1>3, <1>4, <1>5, <1>6 DEF Handler

\* Only a message the Bridge queued earlier may be stale, none comes once the
\* connection has a HELLO of its own, and that HELLO discards what came before.
LEMMA HandlerGreeting == ASSUME GatewayInv, Handler PROVE Greeting'
<1> USE DEF GatewayInv, TypeOK, callVars, stateVars, helloVars, Greeting
<1>1. CASE Connect
  BY <1>1 DEF Connect, NoSnapshot
<1>2. CASE Disconnect
  BY <1>2 DEF Disconnect, NoSnapshot
<1>3. ASSUME NEW s \in Sessions, NEW old \in BOOLEAN, OnHello(s, old) PROVE Greeting'
  BY <1>3 DEF OnHello, Greeted
<1>4. ASSUME NEW s \in Sessions, NEW m \in Maids \cup {NoMaid}, NEW old \in BOOLEAN,
             OnSnapshot(s, m, old)
      PROVE  Greeting'
  <2>1. CASE hello = NoSession \/ s # hello \/ ForeignMaid(m)
    BY <1>4, <2>1 DEF OnSnapshot, Unaccepted
  <2>2. CASE ~(hello = NoSession \/ s # hello \/ ForeignMaid(m))
    <3>1. snap' = [maid |-> m, old |-> old, known |-> TRUE] /\ UNCHANGED helloVars
      BY <1>4, <2>2 DEF OnSnapshot, Accepted
    <3>2. greeted # {} /\ (old => "own" \notin greeted)
      BY <1>4, <2>2 DEF OnSnapshot, Sendable
    <3>3. old => "late" \in greeted
      BY <3>2
    <3> QED BY <3>1, <3>2, <3>3
  <2> QED BY <2>1, <2>2
<1>5. ASSUME NEW res \in Results, OnResult(res) PROVE Greeting'
  BY <1>5 DEF OnResult
<1>6. ASSUME NEW m \in Maids \cup {NoMaid}, SetBound(m) PROVE Greeting'
  BY <1>6 DEF SetBound
<1> HIDE DEF GatewayInv, TypeOK, callVars, stateVars, helloVars, Greeting
<1> QED BY <1>1, <1>2, <1>3, <1>4, <1>5, <1>6 DEF Handler

LEMMA GatewayStep == GatewayInv /\ [Next]_vars => GatewayInv'
<1> SUFFICES ASSUME GatewayInv, [Next]_vars PROVE GatewayInv'
  OBVIOUS
<1>1. ASSUME NEW c \in Calls, Caller(c) PROVE GatewayInv'
  BY <1>1, CallerType, CallerLinked, CallerGreeting DEF GatewayInv
<1>2. CASE Handler
  BY <1>2, HandlerType, HandlerLinked, HandlerGreeting DEF GatewayInv
<1>3. CASE UNCHANGED vars
  BY <1>3 DEF vars, callVars, stateVars, helloVars, GatewayInv, TypeOK, Linked, Registration, OwnFuture,
              OneCaller, Active, WaitersAwake, Awaited, Greeting
<1> QED BY <1>1, <1>2, <1>3 DEF Next

------------------------------------------------------------------------------
(* The theorems                                                             *)

\* Every reachable state satisfies the inductive invariant.
THEOREM GatewayInvariant == Spec => []GatewayInv
<1> QED BY GatewayInit, GatewayStep, PTL DEF Spec

\* Every variable keeps its type, and _action_cache its bound.
THEOREM GatewayTypes == Spec => []TypeOK
<1>1. GatewayInv => TypeOK
  BY DEF GatewayInv
<1> QED BY <1>1, GatewayInvariant, PTL

\* Whatever times out, is cancelled or disconnects, whoever awaits a pending
\* future awaits the one that is registered for its request (ws_server.py 119-155).
THEOREM NobodyForgotten == Spec => []WaitersAwake
<1>1. GatewayInv => WaitersAwake
  BY DEF GatewayInv, Linked
<1> QED BY <1>1, GatewayInvariant, PTL

\* Wherever a link ends, what was queued for an earlier connection becomes
\* latest_snapshot only behind its own HELLO, and resync_ready never answers for
\* it once this connection's HELLO has come (ws_server.py 36-42, 76-88).
THEOREM StateIsFresh == Spec => []NoStaleState
<1>1. GatewayInv => NoStaleState
  BY DEF GatewayInv, Greeting, NoStaleState, ResyncReady
<1> QED BY <1>1, GatewayInvariant, PTL

------------------------------------------------------------------------------
(* The sockets.                                                             *)

\* A client dials one connection at a time, and none that a field still holds.
OneDial ==
    /\ \A c \in Conns : near[c] = "dialing" => connecting[owner[c]] /\ c \notin landing
    /\ \A c, d \in Conns :
          near[c] = "dialing" /\ near[d] = "dialing" /\ owner[c] = owner[d] => c = d
    /\ \A c \in Conns, k \in Clients : near[c] = "dialing" \/ c \in landing => socket[k] # c

\* An attempt that no other one raced is the current client's, its only one, and
\* the client is not connected meanwhile; a client connected by such an attempt
\* has no other.
OneAttempt ==
    /\ \A k \in Clients : \A c \in Attempts(k) \ raced :
          k = client /\ Attempts(k) = {c} /\ ~Connected(client)
    /\ Connected(client) /\ socket[client] \notin raced => Attempts(client) = {}

SocketsInv == SocketsTypeOK /\ OneDial /\ OneAttempt /\ NoZombie

------------------------------------------------------------------------------
LEMMA SocketsStart ==
    ASSUME SocketsInit
    PROVE  SocketsInv
<1>1. SocketsTypeOK
  BY SocketsAssumption DEF SocketsInit, SocketsTypeOK
<1>2. \A k \in Clients : Attempts(k) = {}
  BY DEF SocketsInit, Attempts
<1>3. OneDial /\ NoZombie
  BY SocketsAssumption DEF SocketsInit, OneDial, NoZombie
<1>4. OneAttempt
  BY <1>1, <1>2 DEF SocketsTypeOK, OneAttempt
<1> QED BY <1>1, <1>3, <1>4 DEF SocketsInv

\* Types, and the agreement of a connection's far end with _ws
LEMMA SocketsTyped ==
    ASSUME SocketsTypeOK, SocketsNext
    PROVE  SocketsTypeOK'
<1> USE SocketsAssumption DEF SocketsTypeOK
<1>1. ASSUME NEW c \in Conns, Quiet(c) PROVE SocketsTypeOK'
  <2>1. CASE Dial(c)
    BY <2>1 DEF Dial, Unused, Attempts
  <2>2. CASE DialSucceeds(c)
    BY <2>2 DEF DialSucceeds
  <2>3. CASE Land(c)
    BY <2>3 DEF Land
  <2>4. CASE NearCloses(c)
    BY <2>4 DEF NearCloses, Forget
  <2>5. CASE Handshake(c)
    BY <2>5 DEF Handshake
  <2>6. CASE FarCloses(c)
    BY <2>6 DEF FarCloses, HandlerEnds
  <2> QED BY <1>1, <2>1, <2>2, <2>3, <2>4, <2>5, <2>6 DEF Quiet
<1>2. ASSUME NEW c \in Conns, DialFails(c) PROVE SocketsTypeOK'
  BY <1>2 DEF DialFails
<1>3. ASSUME NEW c \in Conns, LinkLost(c) PROVE SocketsTypeOK'
  BY <1>3 DEF LinkLost, HandlerEnds
<1>4. CASE HeartbeatTimeout
  BY <1>4 DEF HeartbeatTimeout, Forget
<1>5. ASSUME NEW k \in Clients, Replace(k) PROVE SocketsTypeOK'
  BY <1>5 DEF Replace, Renewed, Attempts
<1> HIDE DEF SocketsTypeOK
<1> QED BY <1>1, <1>2, <1>3, <1>4, <1>5 DEF SocketsNext, Undisturbed, Disturbance

\* What a client that is not dialling and not landing has under way: nothing
LEMMA NothingUnderWay ==
    ASSUME OneDial, NEW k \in Clients, ~connecting[k], ~Landing(k)
    PROVE  Attempts(k) = {}
BY DEF OneDial, Landing, Attempts

LEMMA DialKeeps ==
    ASSUME SocketsInv, NEW c \in Conns, Dial(c)
    PROVE  OneDial' /\ OneAttempt' /\ NoZombie'
<1> USE SocketsAssumption DEF SocketsInv, SocketsTypeOK
<1>1. /\ client' = client /\ socket' = socket /\ landing' = landing
      /\ \A d \in Conns : near'[d] = IF d = c THEN "dialing" ELSE near[d]
      /\ \A d \in Conns : owner'[d] = IF d = c THEN client ELSE owner[d]
      /\ connecting' = [connecting EXCEPT ![client] = TRUE]
      /\ ~connecting[client] /\ ~Connected(client)
  BY DEF Dial
<1>2. near[c] = "closed" /\ c \notin landing /\ \A k \in Clients : socket[k] # c
  BY DEF Dial, Unused
<1>3. OneDial'
  BY <1>1, <1>2 DEF OneDial
<1>4. ~Connected(client)'
  BY <1>1, <1>2 DEF Connected
<1>5. Attempts(client)' = Attempts(client) \cup {c}
  BY <1>1, <1>2 DEF Attempts
<1>6. \A k \in Clients : k # client => Attempts(k)' = Attempts(k)
  BY <1>1, <1>2 DEF Attempts
<1>7. \A d \in Conns : d # c /\ d \in raced => d \in raced'
  BY DEF Dial
<1>8. \A k \in Clients : k # client => Attempts(k) \subseteq raced'
  <2>1. \A k \in Clients : k # client => Attempts(k) \subseteq raced
    BY DEF OneAttempt
  <2>2. \A k \in Clients : c \notin Attempts(k)
    BY <1>2 DEF Attempts
  <2>3. \A k \in Clients : Attempts(k) \subseteq Conns
    BY DEF Attempts
  <2> QED BY <1>7, <2>1, <2>2, <2>3
<1>9. CASE Landing(client)
  <2>1. Attempts(client)' \subseteq raced'
    BY <1>5, <1>9 DEF Dial
  <2> QED BY <1>1, <1>2, <1>3, <1>4, <1>6, <1>7, <1>8, <2>1 DEF OneAttempt, NoZombie
<1>10. CASE ~Landing(client)
  <2>1. Attempts(client)' = {c}
    BY <1>1, <1>5, <1>10, NothingUnderWay
  <2>2. OneAttempt'
    BY <1>1, <1>4, <1>6, <1>8, <2>1 DEF OneAttempt
  <2>3. NoZombie'
    BY <1>1, <1>7 DEF NoZombie
  <2> QED BY <1>3, <2>2, <2>3
<1> QED BY <1>9, <1>10

LEMMA DialEndsKeeps ==
    ASSUME SocketsInv, NEW c \in Conns, DialSucceeds(c) \/ DialFails(c)
    PROVE  OneDial' /\ OneAttempt' /\ NoZombie'
<1> USE SocketsAssumption DEF SocketsInv, SocketsTypeOK
<1>1. near[c] = "dialing" /\ UNCHANGED <<client, socket, owner, raced>>
  BY DEF DialSucceeds, DialFails
<1>2. /\ \A d \in Conns : d # c => near'[d] = near[d]
      /\ near'[c] # "dialing"
      /\ landing \subseteq landing' /\ landing' \subseteq landing \cup {c}
      /\ near'[c] = "open" => c \in landing'
      /\ connecting' = [connecting EXCEPT ![owner[c]] = FALSE]
  BY DEF DialSucceeds, DialFails
<1>3. OneDial'
  BY <1>1, <1>2 DEF OneDial
<1>4. \A k \in Clients : Connected(k)' = Connected(k)
  BY <1>1, <1>2 DEF OneDial, Connected
<1>5. \A k \in Clients : Attempts(k)' \subseteq Attempts(k)
  BY <1>1, <1>2 DEF Attempts
<1>6. OneAttempt'
  BY <1>1, <1>4, <1>5 DEF OneAttempt
<1>7. NoZombie'
  BY <1>1, <1>2 DEF NoZombie
<1> QED BY <1>3, <1>6, <1>7

LEMMA LandKeeps ==
    ASSUME SocketsInv, NEW c \in Conns, Land(c)
    PROVE  OneDial' /\ OneAttempt' /\ NoZombie'
<1> USE SocketsAssumption DEF SocketsInv, SocketsTypeOK
<1>1. /\ c \in landing /\ landing' = landing \ {c}
      /\ socket' = [socket EXCEPT ![owner[c]] = c]
      /\ UNCHANGED <<client, connecting, owner, near, raced>>
  BY DEF Land
<1>2. OneDial'
  BY <1>1 DEF OneDial
<1>3. c \in Attempts(owner[c]) /\ \A k \in Clients : Attempts(k)' = Attempts(k) \ {c}
  BY <1>1 DEF Attempts, OneDial
<1>4. CASE owner[c] # client
  <2>1. socket'[client] = socket[client] /\ c \in raced
    BY <1>1, <1>3, <1>4 DEF OneAttempt
  <2>2. Connected(client)' = Connected(client)
    BY <1>1, <2>1 DEF Connected
  <2> QED BY <1>1, <1>2, <1>3, <2>1, <2>2 DEF OneAttempt, NoZombie
<1>5. CASE owner[c] = client /\ c \in raced
  <2>1. socket'[client] = c
    BY <1>1, <1>5
  <2>2. ~(Connected(client) /\ socket[client] \notin raced)
    BY <1>3, <1>5 DEF OneAttempt
  <2>3. \A k \in Clients : Attempts(k) \subseteq raced
    BY <1>3, <1>5 DEF OneAttempt
  <2>4. OneAttempt'
    BY <1>1, <1>3, <1>5, <2>1, <2>3 DEF OneAttempt
  <2>5. NoZombie'
    BY <1>1, <1>5, <2>1, <2>2 DEF NoZombie, Connected
  <2> QED BY <1>2, <2>4, <2>5
<1>6. CASE owner[c] = client /\ c \notin raced
  <2>1. Attempts(client) = {c} /\ ~Connected(client)
    BY <1>3, <1>6 DEF OneAttempt
  <2>2. socket'[client] = c /\ Attempts(client)' = {}
    BY <1>1, <1>3, <1>6, <2>1
  <2>3. OneAttempt'
    BY <1>1, <1>3, <2>2 DEF OneAttempt
  <2>4. NoZombie'
    BY <1>1, <2>1, <2>2 DEF NoZombie, Connected
  <2> QED BY <1>2, <2>3, <2>4
<1> QED BY <1>4, <1>5, <1>6

LEMMA CloseKeeps ==
    ASSUME SocketsInv, HeartbeatTimeout \/ \E c \in Conns : NearCloses(c)
    PROVE  OneDial' /\ OneAttempt' /\ NoZombie'
<1> USE SocketsAssumption DEF SocketsInv, SocketsTypeOK
<1>1. PICK c \in Conns : /\ near[c] # "dialing"
                        /\ near' = [near EXCEPT ![c] = "closed"]
                        /\ socket' = Forget(c)
                        /\ UNCHANGED <<client, connecting, landing, owner, raced>>
  <2>1. CASE HeartbeatTimeout
    BY <2>1 DEF HeartbeatTimeout, OneDial
  <2>2. CASE \E c \in Conns : NearCloses(c)
    BY <2>2 DEF NearCloses
  <2> QED BY <2>1, <2>2
<1>2. \A k \in Clients : socket'[k] = IF socket[k] = c THEN NoConn ELSE socket[k]
  BY <1>1 DEF Forget
<1>3. OneDial'
  BY <1>1, <1>2 DEF OneDial
<1>4. \A k \in Clients : Attempts(k)' = Attempts(k)
  BY <1>1 DEF Attempts
<1>5. Connected(client)' => Connected(client) /\ socket'[client] = socket[client]
  BY <1>1, <1>2 DEF Connected
<1>6. OneAttempt'
  BY <1>1, <1>4, <1>5 DEF OneAttempt
<1>7. NoZombie'
  BY <1>1, <1>2 DEF NoZombie
<1> QED BY <1>3, <1>6, <1>7

LEMMA ReplaceKeeps ==
    ASSUME SocketsInv, NEW k \in Clients, Replace(k)
    PROVE  OneDial' /\ OneAttempt' /\ NoZombie'
<1> USE SocketsAssumption DEF SocketsInv, SocketsTypeOK
<1>1. /\ client' = k /\ k # client
      /\ \A j \in Clients : socket'[j] = IF j \in {k, client} THEN NoConn ELSE socket[j]
      /\ \A c \in Conns : near'[c] = IF c = socket[client] THEN "closed" ELSE near[c]
      /\ raced' = raced \cup Attempts(client)
      /\ UNCHANGED <<connecting, landing, owner>>
  BY DEF Replace, Renewed, Unreferenced
<1>2. near[socket[client]] # "dialing" \/ socket[client] = NoConn
  BY DEF OneDial
<1>3. OneDial'
  BY <1>1, <1>2 DEF OneDial
<1>4. \A j \in Clients : Attempts(j)' = Attempts(j)
  BY <1>1, <1>2 DEF Attempts
<1>5. Attempts(k) = {}
  BY NothingUnderWay DEF Replace, Unreferenced
<1>6. \A j \in Clients : Attempts(j) \subseteq raced'
  BY <1>1, <1>5 DEF OneAttempt
<1>7. OneAttempt'
  BY <1>1, <1>4, <1>5, <1>6 DEF OneAttempt
<1>8. NoZombie'
  BY <1>1 DEF NoZombie
<1> QED BY <1>3, <1>7, <1>8

LEMMA SocketsStep ==
    ASSUME SocketsInv, [SocketsNext]_socketsVars
    PROVE  SocketsInv'
<1>1. CASE SocketsNext
  <2>1. SocketsTypeOK'
    BY <1>1, SocketsTyped DEF SocketsInv
  <2>2. ASSUME NEW c \in Conns, Handshake(c) \/ FarCloses(c) \/ LinkLost(c)
        PROVE  OneDial' /\ OneAttempt' /\ NoZombie'
    <3>1. UNCHANGED <<client, connecting, socket, landing, owner, near, raced>>
      BY <2>2 DEF Handshake, FarCloses, LinkLost, HandlerEnds
    <3> QED BY <3>1 DEF SocketsInv, OneDial, OneAttempt, NoZombie, Attempts, Connected
  <2> QED BY <1>1, <2>1, <2>2, DialKeeps, DialEndsKeeps, LandKeeps, CloseKeeps, ReplaceKeeps
          DEF SocketsInv, SocketsNext, Undisturbed, Quiet, Disturbance
<1>2. CASE UNCHANGED socketsVars
  BY <1>2 DEF socketsVars, SocketsInv, SocketsTypeOK, OneDial, OneAttempt, Attempts,
      NoZombie, Connected
<1> QED BY <1>1, <1>2

------------------------------------------------------------------------------
\* Every reachable state satisfies the inductive invariant.
THEOREM SocketsInvariant == SocketsSpec => []SocketsInv
<1> QED BY SocketsStart, SocketsStep, PTL DEF SocketsSpec

\* The gateway serves the connection _ws and no other one, and types are kept
\* (ws_server.py 55-68, MaidWsClient 18-30).
THEOREM OneServed == SocketsSpec => []SocketsTypeOK
<1>1. SocketsInv => SocketsTypeOK
  BY DEF SocketsInv
<1> QED BY <1>1, SocketsInvariant, PTL

\* Wherever clients are replaced and however long a dial lasts, an open connection
\* is the current client's, but what a replacement in mid-dial or a second dial
\* left behind (MaidWsClient 46, 72-87, 111-115; MaidAiController 289-290).
THEOREM NothingLeftOpen == SocketsSpec => []NoZombie
<1>1. SocketsInv => NoZombie
  BY DEF SocketsInv
<1> QED BY <1>1, SocketsInvariant, PTL
=============================================================================
