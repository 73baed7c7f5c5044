----------------------------- MODULE GameServer -----------------------------
(* The server process: ServerNetworkManager::PollEvents in an endless loop,  *)
(* calling back into Server, which calls ServerNetworkManager::SendPacket,   *)
(* which may call back into Server again.  One thread runs all of it; what   *)
(* it has still to do is the variable stack, the call to make next first.    *)
(* Between two calls the clients and the network go on.                      *)
EXTENDS Server, ServerNetworkManager, FiniteSets

CONSTANTS Databases,    \* the values is_database_connected_ starts with
          DepthLimit    \* bound: RemoveClient calls nested in one another

ASSUME GameServerAssumption ==
  Databases \subseteq BOOLEAN /\ Databases # {} /\ DepthLimit \in Nat

VARIABLES stack,    \* the calls the thread has still to make
          fault,    \* what ended the process, or "none"
          told      \* history: who was sent which verdict by the handler that
                    \* is closing the lobby

vars == <<peer, up, backlog, clients, lobbies, is_database_connected,
          stack, fault, told>>
serverVars == <<lobbies, is_database_connected>>

Faults == {"none", "unknownPort", "lobbyOverflow", "stackOverflow", "badReply"}

(* The calls of the network manager: look at a slot of clients_, and empty   *)
(* one, which is all RemoveClient has left to do after its callback.         *)
ReceiveFrom(i) == [op |-> "receive", slot |-> i, ready |-> IsReady(clients[i])]
ResetSlot(i) == [op |-> "resetSlot", slot |-> i]

Calls == ServerCalls \cup [op : {"receive"}, slot : Nat, ready : BOOLEAN]
                     \cup [op : {"resetSlot"}, slot : Nat]

TypeOK ==
  /\ NetTypeOK
  /\ ServerTypeOK
  /\ stack \in Seq(Calls)
  /\ fault \in Faults
  /\ told \in [LobbyIds -> SUBSET (Verdicts \X (Port \cup {NoPort}))]

Init ==
  /\ NetInit
  /\ lobbies = [k \in LobbyIds |-> EmptyLobby]
  /\ is_database_connected \in Databases
  /\ stack = <<>>
  /\ fault = "none"
  /\ told = [k \in LobbyIds |-> {}]

-----------------------------------------------------------------------------
(* The thread makes the next call, which is replaced by the calls it makes.  *)

Next1(op) == fault = "none" /\ stack # <<>> /\ Head(stack).op = op
Call == Head(stack)

Run(calls) == stack' = calls \o Tail(stack) /\ fault' = fault
Halt(why) == stack' = <<>> /\ fault' = why

(* RemoveClient: the callback runs before the slot is emptied.  A slot whose *)
(* callback is still running can be removed again.                           *)
PendingRemovals == {n \in DOMAIN stack : stack[n].op = "resetSlot"}

(* Wrong on purpose: the slot keeps its socket.                              *)
NotifyRemoval(i) ==
  IF Cardinality(PendingRemovals) < DepthLimit
  THEN Run(OnClientDisconnection(RemotePort(clients[i])))
  ELSE Halt("stackOverflow")

RemoveClient(i) ==
  IF Cardinality(PendingRemovals) < DepthLimit
  THEN Run(OnClientDisconnection(RemotePort(clients[i])) \o <<ResetSlot(i)>>)
  ELSE Halt("stackOverflow")

-----------------------------------------------------------------------------
(* PollEvents: a pending connection goes before every packet.  When nothing  *)
(* happens wait returns after 5 seconds and nothing changes.                 *)

PollClientsConnections ==
  /\ fault = "none" /\ stack = <<>>
  /\ \E c \in Conn : Accept(c)
  /\ UNCHANGED <<serverVars, stack, fault, told>>

PollClientsPackets ==
  /\ fault = "none" /\ stack = <<>>
  /\ backlog = {}
  /\ \E i \in Slots : IsReady(clients[i])
  /\ stack' = [i \in Slots |-> ReceiveFrom(i)]
  /\ UNCHANGED <<netVars, serverVars, fault, told>>

(* The next slot is empty, perhaps since a moment ago, or has nothing.       *)
SkipSlot ==
  /\ Next1("receive")
  /\ Call.ready => clients[Call.slot] = Null
  /\ Run(<<>>)
  /\ UNCHANGED <<netVars, serverVars, told>>

Receiving(c) ==
  /\ Next1("receive") /\ Call.ready
  /\ clients[Call.slot] = c

AddClientToLobby(data) ==
  \/ \E k \in LobbyIds :
       /\ IsFirstOpen(k)
       /\ lobbies' = [lobbies EXCEPT ![k] = AddClient(@, data)]
       /\ Run(<<Send("joinLobby", data.port), StartIfComplete(k)>>)
       /\ UNCHANGED <<is_database_connected, told>>
  \/ /\ \A k \in LobbyIds : IsComplete(lobbies[k])
     /\ Halt("lobbyOverflow")
     /\ UNCHANGED <<serverVars, told>>

(* OnPacketReceived; a packet of any other type is ignored.                  *)
OnPacketReceived(type, port, username) ==
  \/ /\ type = "joinLobby"
     /\ AddClientToLobby([username |-> username, port |-> port])
  \/ /\ \/ type = "newTurn" /\ Run(OnNewTurn(port))
        \/ type = "cueBallVelocity" /\ Run(OnCueBallVelocity(port))
        \/ type = "clientIdentification" /\ Run(<<IdentifyClient(port)>>)
        \/ type = "endGame" /\ Run(OnEndGame(port))
        \/ type = "other" /\ Run(<<>>)
     /\ UNCHANGED <<serverVars, told>>

ReceivePacket(c) ==
  /\ Receiving(c)
  /\ up[c] # <<>> /\ Head(up[c]) # "fragment"
  /\ up' = [up EXCEPT ![c] = Tail(@)]
  /\ OnPacketReceived(Head(up[c]), RemotePort(c), c)
  /\ UNCHANGED <<peer, backlog, clients>>

(* receive took a piece of a packet and says NotReady; the callback runs all *)
(* the same, on an empty packet, and reads its type from an uninitialized    *)
(* variable.                                                                 *)
ReceiveFragment(c) ==
  /\ Receiving(c)
  /\ up[c] # <<>> /\ Head(up[c]) = "fragment" /\ peer[c] = "up"
  /\ up' = [up EXCEPT ![c] = Tail(@)]
  /\ \E type \in PacketTypes \cup {"other"} : OnPacketReceived(type, RemotePort(c), NoName)
  /\ UNCHANGED <<peer, backlog, clients>>

(* The end of the stream, perhaps in the middle of a packet.                 *)
ReceiveEnd(c) ==
  /\ Receiving(c)
  /\ peer[c] \in {"fin", "reset"}
  /\ up[c] # <<>> => Head(up[c]) = "fragment"
  /\ up' = [up EXCEPT ![c] = <<>>]
  /\ RemoveClient(Call.slot)
  /\ UNCHANGED <<peer, backlog, clients, serverVars, told>>

-----------------------------------------------------------------------------
(* SendPacket.                                                               *)

Sending == Next1("send") \/ Next1("sendToSeat")

Target == IF Call.op = "send" THEN Call.port
                              ELSE lobbies[Call.lobby][Call.seat].port

(* A verdict is sent by the handler that clears the lobby, with no other     *)
(* ClearLobby in between.                                                    *)
IsClosing(k) ==
  \E n \in DOMAIN stack :
    /\ stack[n] = ClearLobby(k)
    /\ \A m \in 1..(n - 1) : stack[m].op # "clearLobby"

(* The kernel takes the packet, or its buffer is full and the packet is      *)
(* dropped: either way the caller goes on.  A closed peer still takes it.    *)
SendDone(i) ==
  /\ Sending /\ IsSlotOf(i, Target)
  /\ clients[i] \in Conn /\ peer[clients[i]] \in {"up", "fin"}
  /\ told' = [k \in LobbyIds |->
                IF Call.type \in Verdicts /\ IsClosing(k)
                THEN told[k] \cup {<<Call.type, Target>>} ELSE told[k]]
  /\ Run(<<>>)
  /\ UNCHANGED <<netVars, serverVars>>

(* The first socket without a connection takes every packet for port 0.      *)
SendError(i) ==
  /\ Sending /\ IsSlotOf(i, Target)
  /\ clients[i] = Dead
  /\ Run(<<>>)
  /\ UNCHANGED <<netVars, serverVars, told>>

SendDisconnected(i) ==
  /\ Sending /\ IsSlotOf(i, Target)
  /\ clients[i] \in Conn /\ peer[clients[i]] = "reset"
  /\ RemoveClient(i)
  /\ UNCHANGED <<netVars, serverVars, told>>

(* No socket has the port: SendPacket says so and dereferences end().        *)
SendUnknown ==
  /\ Sending /\ \A i \in Slots : ~Answers(i, Target)
  /\ Halt("unknownPort")
  /\ UNCHANGED <<netVars, serverVars, told>>

(* RemoveClient returns from its callback.                                   *)
FinishRemoval ==
  /\ Next1("resetSlot")
  /\ clients' = [clients EXCEPT ![Call.slot] = Null]
  /\ Run(<<>>)
  /\ UNCHANGED <<peer, up, backlog, serverVars, told>>

-----------------------------------------------------------------------------
(* The calls inside Server.                                                  *)

StartGameIfComplete ==
  /\ Next1("startIfComplete")
  /\ Run(StartGame(Call.lobby))
  /\ UNCHANGED <<netVars, serverVars, told>>

Clear ==
  /\ Next1("clearLobby")
  /\ lobbies' = [lobbies EXCEPT ![Call.lobby] = EmptyLobby]
  /\ told' = [told EXCEPT ![Call.lobby] = {}]
  /\ Run(<<>>)
  /\ UNCHANGED <<netVars, is_database_connected>>

(* UpdatePlayerElo: offline the rating sent is 0.  Online it is the one in   *)
(* the database's reply; without the field nothing is sent, and a field      *)
(* without a number makes stoi throw under noexcept callers.                 *)
AskElo ==
  /\ Next1("updatePlayerElo")
  /\ \/ Run(<<Send("eloUpdated", Call.port)>>)
     \/ is_database_connected /\ Run(<<>>)
     \/ is_database_connected /\ Halt("badReply")
  /\ UNCHANGED <<netVars, serverVars, told>>

(* IdentifyClient: a missing field is only logged, then stoi throws.         *)
AskIdentity ==
  /\ Next1("identifyClient")
  /\ \/ Run(<<Send("clientIdentification", Call.port)>>)
     \/ is_database_connected /\ Halt("badReply")
  /\ UNCHANGED <<netVars, serverVars, told>>

-----------------------------------------------------------------------------

ServerStep ==
  \/ PollClientsConnections \/ PollClientsPackets \/ SkipSlot
  \/ \E c \in Conn : ReceivePacket(c) \/ ReceiveFragment(c) \/ ReceiveEnd(c)
  \/ \E i \in Slots : SendDone(i) \/ SendError(i) \/ SendDisconnected(i)
  \/ SendUnknown \/ FinishRemoval
  \/ StartGameIfComplete \/ Clear \/ AskElo \/ AskIdentity

(* Nothing the clients do is observed once the process has ended.            *)
ClientStep ==
  /\ fault = "none"
  /\ \E c \in Conn :
       \/ Connect(c) \/ ArrivePiece(c) \/ Close(c) \/ Reset(c)
       \/ \E type \in ClientPackets : Arrive(c, type)
  /\ UNCHANGED <<serverVars, stack, fault, told>>

Next == ServerStep \/ ClientStep

(* The thread never stops; the clients owe nothing.                          *)
Fairness == WF_vars(ServerStep)

Spec == Init /\ [][Next]_vars
FairSpec == Spec /\ Fairness
-----------------------------------------------------------------------------
(* Safety.                                                                   *)

(* A player never sits alone in seat 2: nobody is matched across an empty    *)
(* first seat, because AddClient fills seat 1 first and only whole lobbies   *)
(* are cleared, also when a removal runs inside another handler.             *)
SeatOrder ==
  \A k \in LobbyIds : lobbies[k][2].port # NoPort => lobbies[k][1].port # NoPort

(* SendPacket finds no socket for a port, and the recursion of RemoveClient  *)
(* and OnClientDisconnection sets in, only after some client has left: with  *)
(* every client connected no handler addresses a port it does not know.      *)
NobodyLeft == \A c \in Conn : peer[c] \in {"none", "up"}
FaultNeedsDeparture ==
  NobodyLeft => fault \notin {"unknownPort", "stackOverflow"}

(* Why: while nobody leaves, every seat and every call holds a port that a   *)
(* socket answers to, the calls of a handler all come before the slots still *)
(* to be read, and no lobby is cleared between a join and its start packets. *)
KnownPorts == {PortOf[c] : c \in Accepted}
TakenSeats == {ks \in LobbyIds \X Seats : lobbies[ks[1]][ks[2]].port # NoPort}

IsSafe(call, known, taken, slots) ==
  /\ call.op # "resetSlot"
  /\ call.op \in {"send", "updatePlayerElo", "identifyClient"} => call.port \in known
  /\ call.op = "sendToSeat" => <<call.lobby, call.seat>> \in taken
  /\ call.op = "receive" => call.slot \in slots

IsOfStart(call) == call.op \in {"startIfComplete", "sendToSeat"}

IsSafeStack(calls, known, taken, slots) ==
  /\ \A n \in DOMAIN calls : IsSafe(calls[n], known, taken, slots)
  /\ \A m, n \in DOMAIN calls :
       /\ m < n /\ calls[m].op = "receive" => calls[n].op = "receive"
       /\ calls[m].op = "clearLobby" => ~IsOfStart(calls[n])

Order ==
  /\ \A i \in Slots : clients[i] \in Conn /\ peer[clients[i]] = "up"
  /\ \A c \in backlog : peer[c] = "up"
  /\ \A k \in LobbyIds, s \in Seats : lobbies[k][s].port \in KnownPorts \cup {NoPort}
  /\ IsSafeStack(stack, KnownPorts, TakenSeats, Slots)
  /\ fault \notin {"unknownPort", "stackOverflow"}

Orderly == NobodyLeft => Order

(* Whoever closes the lobby, no matter how many handlers are nested in it,   *)
(* every player in it was sent a verdict, unless that player has left.  One  *)
(* who sits in two lobbies may be removed for the other one while this one   *)
(* is being closed, and no longer be there when it is cleared.               *)
HasLeft(port) == \E c \in Left : PortOf[c] = port
VerdictBeforeClear ==
  [][\A k \in LobbyIds : \A s \in Seats :
       LET port == lobbies[k][s].port IN
       port # NoPort /\ lobbies'[k] = EmptyLobby
         => (\E v \in Verdicts : <<v, port>> \in told[k]) \/ HasLeft(port)]_vars

(* Two players claim the same game, or a removal is nested in the handler of *)
(* a claim: still they are not both told that they won, unless one of them   *)
(* has left.                                                                 *)
OneWinner ==
  \A k \in LobbyIds : \A p, q \in Port :
    <<"endGameWon", p>> \in told[k] /\ <<"endGameWon", q>> \in told[k]
      => p = q \/ HasLeft(p) \/ HasLeft(q)

(* What AtomicServer sees of this server: the lobbies with those cleared     *)
(* that a pending call will clear, and the packets the pending calls will    *)
(* send, of which no handler makes more than five; nothing once a connection *)
(* is reset or the process has ended.                                        *)
IsWhole == fault = "none" /\ \A c \in Conn : peer[c] # "reset"
IsToClear(k) == \E n \in DOMAIN stack : stack[n] = ClearLobby(k)
SettledLobbies ==
  [k \in LobbyIds |-> IF IsWhole /\ ~IsToClear(k) THEN lobbies[k] ELSE EmptyLobby]

Packet(type, port) == [type |-> type, port |-> port]
PacketsOf(call, tables) ==
  CASE call.op = "send" -> <<Packet(call.type, call.port)>>
    [] call.op = "sendToSeat" -> <<Packet(call.type, tables[call.lobby][call.seat].port)>>
    [] call.op = "updatePlayerElo" -> <<Packet("eloUpdated", call.port)>>
    [] call.op = "identifyClient" -> <<Packet("clientIdentification", call.port)>>
    [] call.op = "startIfComplete" /\ IsComplete(tables[call.lobby]) ->
         <<Packet("startGame0", tables[call.lobby][1].port),
           Packet("startGame1", tables[call.lobby][2].port),
           Packet("newTurn", tables[call.lobby][1].port)>>
    [] OTHER -> <<>>
PacketsOfNth(calls, n, tables) ==
  IF n \in DOMAIN calls THEN PacketsOf(calls[n], tables) ELSE <<>>
PacketsOfCalls(calls, tables) ==
  LET Nth(n) == PacketsOfNth(calls, n, tables)
  IN Nth(1) \o (Nth(2) \o (Nth(3) \o (Nth(4) \o Nth(5))))
DuePackets == IF IsWhole THEN PacketsOfCalls(stack, lobbies) ELSE <<>>

Atomic == INSTANCE AtomicServer
  WITH lobbies <- SettledLobbies, due <- DuePackets, whole <- IsWhole

(* As long as no connection is reset, a handler is as good as one step,      *)
(* although clients come, go and send between its calls, the start packets   *)
(* look the seats up when their turn comes, and a lobby is cleared last.     *)
HandlersAreAtomic == Atomic!Spec

(* The socket of a client that left is found and dropped, however busy the   *)
(* others keep the loop, unless the process has ended.                       *)
DepartedIsDropped ==
  \A c \in Conn : peer[c] \in {"fin", "reset"}
                    ~> (c \notin backlog /\ c \notin Accepted) \/ fault # "none"
=============================================================================
