------------------------ MODULE ServerNetworkManager ------------------------
(* The network side of the server: the non-blocking listener, the vector     *)
(* clients_ of accepted sockets, and the connections as the server's kernel  *)
(* sees them.  The module holds the state, what a socket call returns in it, *)
(* and the steps of the clients' side of the connections; the polling loop   *)
(* calls back into the server, so its steps are in GameServer.               *)
EXTENDS Types, Naturals, Sequences

CONSTANTS PortOf,         \* the remote port of each connection
          Null,           \* a slot of clients_ whose socket was reset
          Dead,           \* a slot whose socket never got a connection
          ClientPackets,  \* the types of packet the clients send
          UpCap,          \* bound: packets of a client waiting in the kernel
          Fragments,      \* TRUE: a packet may arrive in pieces
          Resets,         \* TRUE: a connection may end with an RST
          KeepsPeerName   \* TRUE: getpeername answers after an RST (Winsock),
                          \* FALSE: it fails, and the port reads 0 (Linux)

PacketTypes == {"joinLobby", "newTurn", "cueBallVelocity",
                "clientIdentification", "endGame"}

ASSUME PortAssumption ==
  /\ PortOf \in [Conn -> Port]
  /\ Null \notin Conn /\ Dead \notin Conn /\ Null # Dead
ASSUME TrafficAssumption ==
  /\ ClientPackets \subseteq PacketTypes
  /\ UpCap \in Nat \ {0}
  /\ Fragments \in BOOLEAN /\ Resets \in BOOLEAN /\ KeepsPeerName \in BOOLEAN

VARIABLES peer,      \* the remote end: "none", "up", "fin" (closed) or "reset"
          up,        \* per connection, what the kernel holds for the server
          backlog,   \* the connections the listener has not accepted yet
          clients    \* clients_: the accepted sockets, one slot each

netVars == <<peer, up, backlog, clients>>

PeerState == {"none", "up", "fin", "reset"}
Inbound == ClientPackets \cup {"fragment"}
Slots == DOMAIN clients

NetTypeOK ==
  /\ peer \in [Conn -> PeerState]
  /\ up \in [Conn -> Seq(Inbound)]
  /\ backlog \subseteq Conn
  /\ clients \in Seq(Conn \cup {Null, Dead})

NetInit ==
  /\ peer = [c \in Conn |-> "none"]
  /\ up = [c \in Conn |-> <<>>]
  /\ backlog = {}
  /\ clients = <<>>

Accepted == {c \in Conn : \E i \in Slots : clients[i] = c}
Left == {c \in Conn : peer[c] \in {"fin", "reset"}}

-----------------------------------------------------------------------------
(* What the sockets answer.                                                  *)

(* getRemotePort: 0 for a socket without a connection.                       *)
RemotePort(socket) ==
  IF socket = Dead \/ (peer[socket] = "reset" /\ ~KeepsPeerName)
  THEN NoPort ELSE PortOf[socket]

Answers(i, port) == clients[i] # Null /\ RemotePort(clients[i]) = port

(* find_if over clients_: the first slot whose socket has that remote port.  *)
IsSlotOf(i, port) ==
  Answers(i, port) /\ \A j \in Slots : j < i => ~Answers(j, port)

(* SocketSelector::isReady: there are bytes, or the end of the stream.       *)
IsReady(socket) ==
  socket \in Conn /\ (up[socket] # <<>> \/ peer[socket] \in {"fin", "reset"})

-----------------------------------------------------------------------------
(* The clients' side.  What a client sends and when is left open here.       *)

Connect(c) ==
  /\ peer[c] = "none"
  /\ peer' = [peer EXCEPT ![c] = "up"]
  /\ backlog' = backlog \cup {c}
  /\ UNCHANGED <<up, clients>>

LastIsFragment(queue) == queue # <<>> /\ queue[Len(queue)] = "fragment"

(* A whole packet is there; it absorbs the piece of it that came before.     *)
Arrive(c, type) ==
  /\ peer[c] = "up"
  /\ \/ /\ LastIsFragment(up[c])
        /\ up' = [up EXCEPT ![c] = [@ EXCEPT ![Len(@)] = type]]
     \/ /\ ~LastIsFragment(up[c])
        /\ Len(up[c]) < UpCap
        /\ up' = [up EXCEPT ![c] = Append(@, type)]
  /\ UNCHANGED <<peer, backlog, clients>>

(* Some bytes of the next packet are there, the rest is still on its way.    *)
ArrivePiece(c) ==
  /\ Fragments
  /\ peer[c] = "up"
  /\ ~LastIsFragment(up[c])
  /\ Len(up[c]) < UpCap
  /\ up' = [up EXCEPT ![c] = Append(@, "fragment")]
  /\ UNCHANGED <<peer, backlog, clients>>

(* The client closes its socket: the server reads what is queued, then the   *)
(* end of the stream; what the server sends is still taken by its kernel.    *)
Close(c) ==
  /\ peer[c] = "up"
  /\ peer' = [peer EXCEPT ![c] = "fin"]
  /\ UNCHANGED <<up, backlog, clients>>

(* An RST: the client was closed with unread data, or died, or the server    *)
(* wrote to a socket the client had closed.  Winsock drops what is queued,   *)
(* Linux lets it be read.                                                    *)
Reset(c) ==
  /\ Resets
  /\ peer[c] \in {"up", "fin"}
  /\ c \in backlog \cup Accepted
  /\ peer' = [peer EXCEPT ![c] = "reset"]
  /\ \/ KeepsPeerName /\ up' = [up EXCEPT ![c] = <<>>]
     \/ ~KeepsPeerName /\ up' = up
  /\ UNCHANGED <<backlog, clients>>

(* PollClientsConnections: accept gives the new slot its connection, or      *)
(* fails because the peer reset the connection first; the slot stays, with a *)
(* socket that has no connection and is never ready.                         *)
Accept(c) ==
  /\ c \in backlog
  /\ backlog' = backlog \ {c}
  /\ \/ clients' = Append(clients, c)
     \/ peer[c] = "reset" /\ clients' = Append(clients, Dead)
  /\ UNCHANGED <<peer, up>>
=============================================================================
