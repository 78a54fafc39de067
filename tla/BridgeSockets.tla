---------------------------- MODULE BridgeSockets ----------------------------
(***************************************************************************)
(* Who holds the link: the MaidWsClient objects of one game process, the     *)
(* WebSocket connections they dial, and the gateway of the Agent, which      *)
(* serves one connection and refuses every other.  `/maidai reconnect` and   *)
(* the next world in the same JVM replace the client object; callbacks of    *)
(* the HTTP client run on threads of their own, so a client that was closed  *)
(* may still learn that its dial succeeded.                                  *)
(*                                                                          *)
(* A connection has a near end in the client and a far end in the gateway.   *)
(* Client objects and connections are taken from a pool and used again once   *)
(* nothing refers to them.                                                   *)
(***************************************************************************)
CONSTANTS Clients, Conns, NoConn

ASSUME SocketsAssumption == NoConn \notin Conns

VARIABLES client,      \* MaidAiController.ws
          closing,     \* closing, of each client
          connecting,  \* connecting
          socket,      \* socket
          landing,     \* connections whose whenComplete has cleared `connecting`
                       \*   and not yet assigned `socket`
          owner,       \* the client that dialled a connection
          near,        \* the client's end of a connection
          far,         \* the gateway's end: handler not started, serving, over
          gateway,     \* BridgeGateway._ws
          raced        \* history: connections whose client was replaced before it
                       \*   held them, or dialled a second one beside them

socketsVars == <<client, closing, connecting, socket, landing, owner, near, far, gateway, raced>>

\* The gateway serves one connection, and the fields keep their types.
SocketsTypeOK ==
    /\ client \in Clients
    /\ closing \in [Clients -> BOOLEAN]
    /\ connecting \in [Clients -> BOOLEAN]
    /\ socket \in [Clients -> Conns \cup {NoConn}]
    /\ landing \subseteq Conns
    /\ owner \in [Conns -> Clients]
    /\ near \in [Conns -> {"closed", "dialing", "open"}]
    /\ far \in [Conns -> {"none", "serving", "over"}]
    /\ gateway \in Conns \cup {NoConn}
    /\ raced \subseteq Conns
    /\ \A c \in Conns : far[c] = "serving" <=> gateway = c

SocketsInit ==
    /\ client \in Clients
    /\ closing = [k \in Clients |-> FALSE]
    /\ connecting = [k \in Clients |-> FALSE]
    /\ socket = [k \in Clients |-> NoConn]
    /\ landing = {}
    /\ owner \in [Conns -> Clients]
    /\ near = [c \in Conns |-> "closed"]
    /\ far = [c \in Conns |-> "over"]
    /\ gateway = NoConn
    /\ raced = {}

\* isConnected
Connected(k) == socket[k] # NoConn /\ near[socket[k]] = "open"

Landing(k) == \E c \in landing : owner[c] = k

Unused(c) ==
    /\ near[c] = "closed" /\ far[c] # "serving" /\ c \notin landing
    /\ \A k \in Clients : socket[k] # c

------------------------------------------------------------------------------
(* MaidWsClient                                                             *)

\* Attempts of a client that have not reached `socket`
Attempts(k) == {c \in Conns : owner[c] = k /\ (near[c] = "dialing" \/ c \in landing)}

\* tick and connect.  A dial that has just succeeded leaves a gap in which the
\* client is neither connecting nor connected: if it has lasted 3 s, the redial
\* interval, the gap lets a second dial through.
Dial(c) ==
    /\ ~closing[client] /\ ~Connected(client) /\ ~connecting[client]
    /\ Unused(c)
    /\ raced' = (raced \ {c}) \cup Attempts(client)
                 \cup {d \in {c} : Landing(client)}
    /\ connecting' = [connecting EXCEPT ![client] = TRUE]
    /\ owner' = [owner EXCEPT ![c] = client]
    /\ near' = [near EXCEPT ![c] = "dialing"]
    /\ far' = [far EXCEPT ![c] = "none"]
    /\ UNCHANGED <<client, closing, socket, landing, gateway>>

DialSucceeds(c) ==
    /\ near[c] = "dialing" /\ far[c] # "none"
    /\ near' = [near EXCEPT ![c] = "open"]
    /\ connecting' = [connecting EXCEPT ![owner[c]] = FALSE]
    /\ landing' = landing \cup {c}
    /\ UNCHANGED <<client, closing, socket, owner, far, gateway, raced>>

\* Refused or timed out; the gateway may have accepted it all the same.
DialFails(c) ==
    /\ near[c] = "dialing"
    /\ near' = [near EXCEPT ![c] = "closed"]
    /\ connecting' = [connecting EXCEPT ![owner[c]] = FALSE]
    /\ UNCHANGED <<client, closing, socket, landing, owner, far, gateway, raced>>

\* The rest of whenComplete, which does not look at `closing`
Land(c) ==
    /\ c \in landing
    /\ landing' = landing \ {c}
    /\ socket' = [socket EXCEPT ![owner[c]] = c]
    /\ UNCHANGED <<client, closing, connecting, owner, near, far, gateway, raced>>

Forget(c) == [k \in Clients |-> IF socket[k] = c THEN NoConn ELSE socket[k]]

\* onClose, onError
NearCloses(c) ==
    /\ near[c] = "open" /\ far[c] = "over"
    /\ near' = [near EXCEPT ![c] = "closed"]
    /\ socket' = Forget(c)
    /\ UNCHANGED <<client, closing, connecting, landing, owner, far, gateway, raced>>

\* Only the current client is ticked, so only it notices a silent Agent.
HeartbeatTimeout ==
    /\ socket[client] # NoConn
    /\ near' = [near EXCEPT ![socket[client]] = "closed"]
    /\ socket' = Forget(socket[client])
    /\ UNCHANGED <<client, closing, connecting, landing, owner, far, gateway, raced>>

------------------------------------------------------------------------------
(* MaidAiController                                                         *)

Unreferenced(k) ==
    /\ k # client /\ ~connecting[k] /\ ~Landing(k) /\ ~Connected(k)
    /\ \A c \in Conns : owner[c] = k => Unused(c) \/ socket[k] = c

Renewed(k, f, old, new) == [f EXCEPT ![client] = old, ![k] = new]

\* Mutant: the old client is dropped without being closed.
ReplaceUnclosed(k) ==
    /\ Unreferenced(k)
    /\ Connected(client)
    /\ client' = k
    /\ closing' = Renewed(k, closing, TRUE, FALSE)
    /\ socket' = Renewed(k, socket, socket[client], NoConn)
    /\ raced' = raced \cup Attempts(client)
    /\ UNCHANGED <<connecting, landing, owner, near, far, gateway>>

\* reconnect; also stop, close and the start of the next world
Replace(k) ==
    /\ Unreferenced(k)
    /\ client' = k
    /\ raced' = raced \cup Attempts(client)
    /\ closing' = Renewed(k, closing, TRUE, FALSE)
    /\ socket' = Renewed(k, socket, NoConn, NoConn)
    /\ near' = [c \in Conns |-> IF c = socket[client] THEN "closed" ELSE near[c]]
    /\ UNCHANGED <<connecting, landing, owner, far, gateway>>

------------------------------------------------------------------------------
(* BridgeGateway                                                            *)

\* The first lines of _handler: the one connection, or a close with code 1013
Handshake(c) ==
    /\ far[c] = "none"
    /\ \/ gateway = NoConn /\ gateway' = c /\ far' = [far EXCEPT ![c] = "serving"]
       \/ gateway # NoConn /\ far' = [far EXCEPT ![c] = "over"] /\ UNCHANGED gateway
    /\ UNCHANGED <<client, closing, connecting, socket, landing, owner, near, raced>>

\* Mutant: the handler leaves _ws behind.
HandlerStays(c) ==
    /\ gateway = c /\ far[c] = "serving"
    /\ far' = [far EXCEPT ![c] = "over"]
    /\ UNCHANGED <<client, closing, connecting, socket, landing, owner, near, gateway, raced>>

\* The loop of _handler ends: the client closed, or the connection was lost.
HandlerEnds(c) ==
    /\ gateway = c
    /\ gateway' = NoConn
    /\ far' = [far EXCEPT ![c] = "over"]
    /\ UNCHANGED <<client, closing, connecting, socket, landing, owner, near, raced>>

FarCloses(c) == near[c] = "closed" /\ HandlerEnds(c)
LinkLost(c)  == near[c] = "open" /\ HandlerEnds(c)
------------------------------------------------------------------------------
Quiet(c) ==
    \/ Dial(c) \/ DialSucceeds(c) \/ Land(c) \/ NearCloses(c)
    \/ Handshake(c) \/ FarCloses(c)

\* Everything that happens while Agent and operator leave the link alone
Undisturbed == \E c \in Conns : Quiet(c)

Disturbance ==
    \/ \E c \in Conns : DialFails(c) \/ LinkLost(c)
    \/ HeartbeatTimeout
    \/ \E k \in Clients : Replace(k)

SocketsNext == Undisturbed \/ Disturbance

SocketsSpec == SocketsInit /\ [][SocketsNext]_socketsVars

\* The game ticks, callbacks run, an attempt ends within 5 s, and the Agent's
\* loop starts and ends its handlers.
Fairness ==
    /\ WF_socketsVars(\E c \in Conns : Dial(c))
    /\ \A c \in Conns :
        /\ WF_socketsVars(DialSucceeds(c) \/ DialFails(c))
        /\ WF_socketsVars(Land(c)) /\ WF_socketsVars(NearCloses(c))
        /\ WF_socketsVars(Handshake(c)) /\ WF_socketsVars(FarCloses(c))

SocketsFairSpec == SocketsSpec /\ Fairness
------------------------------------------------------------------------------
(* Properties                                                               *)

Served == gateway # NoConn /\ socket[client] = gateway /\ near[gateway] = "open"

\* A connection that is open belongs to the client that is ticked: no other one
\* is left that nobody reads, pings or closes, but what a replacement in
\* mid-dial or a second dial beside a slow one left behind.
NoZombie ==
    \A c \in Conns \ raced : near[c] = "open" => c \in landing \/ socket[client] = c

\* Once nothing disturbs the link any more the game is connected for good, unless
\* such a leftover holds the one place at the gateway.
Reconnects == <>[][Undisturbed]_socketsVars => <>[](Served \/ gateway \in raced)
==============================================================================
