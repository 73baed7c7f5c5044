-------------------------- MODULE GameServerProofs --------------------------
(* Theorems about GameServer, for any number of clients and lobbies, any     *)
(* assignment of ports, and every behaviour of the clients and the network.  *)
EXTENDS GameServer, SequenceTheorems, TLAPS

AnyPort == Port \cup {NoPort}

(* The functions handlers are made of stay within their types.               *)
LEMMA OppositeType ==
  ASSUME NEW lobby \in Lobby, NEW port
  PROVE  Opposite(lobby, port) \in ClientData
BY DEF Opposite, Lobby, Seats, NoClient, ClientData

LEMMA AddClientType ==
  ASSUME NEW lobby \in Lobby, NEW data \in ClientData
  PROVE  AddClient(lobby, data) \in Lobby
BY DEF AddClient, Lobby, Seats

LEMMA RemotePortType ==
  ASSUME NEW c \in Conn \cup {Dead}
  PROVE  RemotePort(c) \in AnyPort
BY PortAssumption DEF RemotePort, AnyPort

LEMMA CallTypes ==
  /\ \A type \in ServerPackets, port \in AnyPort : Send(type, port) \in Calls
  /\ \A type \in ServerPackets, k \in LobbyIds, s \in Seats :
       SendToSeat(type, k, s) \in Calls
  /\ \A port \in AnyPort : /\ UpdatePlayerElo(port) \in Calls
                           /\ IdentifyClient(port) \in Calls
  /\ \A k \in LobbyIds : StartIfComplete(k) \in Calls /\ ClearLobby(k) \in Calls
  /\ \A i \in Nat : ResetSlot(i) \in Calls /\ ReceiveFrom(i) \in Calls
BY DEF Send, SendToSeat, UpdatePlayerElo, IdentifyClient, StartIfComplete,
       ClearLobby, ResetSlot, ReceiveFrom, IsReady, Calls, ServerCalls, AnyPort

LEMMA HandlerTypes ==
  ASSUME ServerTypeOK, NEW port \in AnyPort
  PROVE  /\ OnNewTurn(port) \in Seq(Calls)
         /\ OnCueBallVelocity(port) \in Seq(Calls)
         /\ OnEndGame(port) \in Seq(Calls)
         /\ OnClientDisconnection(port) \in Seq(Calls)
<1>0. \A k \in LobbyIds : Opposite(lobbies[k], port).port \in AnyPort
  BY OppositeType DEF ServerTypeOK, ClientData, AnyPort
<1>1. FindClientOpponentInLobbies(port) \in AnyPort
  BY <1>0 DEF FindClientOpponentInLobbies, AnyPort
<1>2. OnNewTurn(port) \in Seq(Calls)
  BY <1>1, CallTypes DEF OnNewTurn, ServerPackets
<1>3. OnCueBallVelocity(port) \in Seq(Calls)
  BY <1>1, CallTypes DEF OnCueBallVelocity, ServerPackets
<1>4. OnEndGame(port) \in Seq(Calls)
  BY <1>0, CallTypes DEF OnEndGame, ServerPackets, Verdicts
<1>5. OnClientDisconnection(port) \in Seq(Calls)
  BY <1>0, CallTypes DEF OnClientDisconnection, ServerPackets, Verdicts
<1>. QED
  BY <1>2, <1>3, <1>4, <1>5

LEMMA StartGameType ==
  ASSUME NEW k \in LobbyIds
  PROVE  StartGame(k) \in Seq(Calls)
BY CallTypes DEF StartGame, ServerPackets, Seats

(* What the thread does to its stack.                                        *)
LEMMA RunType ==
  ASSUME TypeOK, stack # <<>>, NEW calls \in Seq(Calls), Run(calls)
  PROVE  stack' \in Seq(Calls) /\ fault' \in Faults
<1>1. Tail(stack) \in Seq(Calls)
  BY HeadTailProperties DEF TypeOK
<1>. QED
  BY <1>1, ConcatProperties DEF Run, TypeOK

LEMMA HaltType ==
  ASSUME NEW why \in Faults, Halt(why)
  PROVE  stack' \in Seq(Calls) /\ fault' \in Faults
BY DEF Halt

LEMMA CallType ==
  ASSUME TypeOK, stack # <<>>
  PROVE  Call \in Calls
BY HeadTailProperties DEF TypeOK, Call

LEMMA RemoveClientType ==
  ASSUME TypeOK, stack # <<>>, NEW i \in Nat, clients[i] \in Conn, RemoveClient(i)
  PROVE  stack' \in Seq(Calls) /\ fault' \in Faults
<1>1. OnClientDisconnection(RemotePort(clients[i])) \in Seq(Calls)
  BY HandlerTypes, RemotePortType DEF TypeOK
<1>2. <<ResetSlot(i)>> \in Seq(Calls)
  BY CallTypes
<1>3. OnClientDisconnection(RemotePort(clients[i])) \o <<ResetSlot(i)>> \in Seq(Calls)
  BY <1>1, <1>2, ConcatProperties
<1>. QED
  BY <1>3, RunType, HaltType DEF RemoveClient, Faults

-----------------------------------------------------------------------------
(* Type correctness.                                                         *)

LEMMA ReceiveSlotType ==
  ASSUME TypeOK, Next1("receive")
  PROVE  Call.slot \in Nat
BY CallType DEF Next1, Call, Calls, ServerCalls

LEMMA TargetType ==
  ASSUME TypeOK, Sending
  PROVE  Target \in AnyPort /\ Call.type \in ServerPackets
<1>1. Call \in Calls /\ Call.op \in {"send", "sendToSeat"}
  BY CallType DEF Sending, Next1, Call
<1>2. CASE Call.op = "send"
  BY <1>1, <1>2 DEF Calls, ServerCalls, Target, AnyPort
<1>3. CASE Call.op = "sendToSeat"
  BY <1>1, <1>3 DEF Calls, ServerCalls, Target, AnyPort, TypeOK, ServerTypeOK, Lobby, ClientData
<1>. QED
  BY <1>1, <1>2, <1>3

LEMMA PollConnectionsType ==
  ASSUME TypeOK, PollClientsConnections
  PROVE  TypeOK'
<1>1. PICK c \in Conn : Accept(c)
  BY DEF PollClientsConnections
<1>2. clients' \in Seq(Conn \cup {Null, Dead})
  <2>1. clients \in Seq(Conn \cup {Null, Dead}) /\ c \in Conn \cup {Null, Dead}
        /\ Dead \in Conn \cup {Null, Dead}
    BY DEF TypeOK, NetTypeOK
  <2>2. clients' = Append(clients, c) \/ clients' = Append(clients, Dead)
    BY <1>1 DEF Accept
  <2>. QED
    BY <2>1, <2>2, AppendProperties
<1>. QED
  BY <1>1, <1>2 DEF Accept, PollClientsConnections, TypeOK, NetTypeOK, ServerTypeOK, serverVars, Inbound

LEMMA PollPacketsType ==
  ASSUME TypeOK, PollClientsPackets
  PROVE  TypeOK'
<1>1. Slots = 1..Len(clients) /\ Len(clients) \in Nat
  BY LenProperties DEF TypeOK, NetTypeOK, Slots
<1>2. stack' = [i \in 1..Len(clients) |-> ReceiveFrom(i)]
  BY <1>1 DEF PollClientsPackets
<1>3. stack' \in Seq(Calls)
  BY <1>1, <1>2, CallTypes, IsASeq
<1>. QED
  BY <1>3 DEF PollClientsPackets, TypeOK, NetTypeOK, ServerTypeOK, netVars, serverVars, Inbound

LEMMA AddClientToLobbyType ==
  ASSUME TypeOK, stack # <<>>, NEW data \in ClientData, AddClientToLobby(data)
  PROVE  ServerTypeOK' /\ stack' \in Seq(Calls) /\ fault' \in Faults /\ told' = told
<1>1. CASE \E k \in LobbyIds :
             /\ IsFirstOpen(k)
             /\ lobbies' = [lobbies EXCEPT ![k] = AddClient(@, data)]
             /\ Run(<<Send("joinLobby", data.port), StartIfComplete(k)>>)
             /\ UNCHANGED <<is_database_connected, told>>
  <2>1. PICK k \in LobbyIds :
             /\ lobbies' = [lobbies EXCEPT ![k] = AddClient(@, data)]
             /\ Run(<<Send("joinLobby", data.port), StartIfComplete(k)>>)
             /\ UNCHANGED <<is_database_connected, told>>
    BY <1>1
  <2>2. data.port \in AnyPort /\ "joinLobby" \in ServerPackets
    BY DEF ClientData, AnyPort, ServerPackets
  <2>3. <<Send("joinLobby", data.port), StartIfComplete(k)>> \in Seq(Calls)
    BY <2>2, CallTypes
  <2>4. stack' \in Seq(Calls) /\ fault' \in Faults
    BY <2>1, <2>3, RunType
  <2>5. lobbies' \in [LobbyIds -> Lobby]
    BY <2>1, AddClientType DEF TypeOK, ServerTypeOK
  <2>. QED
    BY <2>1, <2>4, <2>5 DEF TypeOK, ServerTypeOK
<1>2. CASE Halt("lobbyOverflow") /\ UNCHANGED <<serverVars, told>>
  BY <1>2, HaltType DEF TypeOK, ServerTypeOK, serverVars, Faults
<1>. QED
  BY <1>1, <1>2 DEF AddClientToLobby

LEMMA OnPacketReceivedType ==
  ASSUME TypeOK, stack # <<>>, NEW type, NEW port \in AnyPort,
         NEW username \in Conn \cup {NoName}, OnPacketReceived(type, port, username)
  PROVE  ServerTypeOK' /\ stack' \in Seq(Calls) /\ fault' \in Faults /\ told' = told
<1>1. [username |-> username, port |-> port] \in ClientData
  BY DEF ClientData, AnyPort
<1>2. CASE AddClientToLobby([username |-> username, port |-> port])
  BY <1>1, <1>2, AddClientToLobbyType
<1>3. ASSUME NEW calls \in Seq(Calls), Run(calls), UNCHANGED <<serverVars, told>>
      PROVE  ServerTypeOK' /\ stack' \in Seq(Calls) /\ fault' \in Faults /\ told' = told
  BY <1>3, RunType DEF TypeOK, ServerTypeOK, serverVars
<1>4. <<>> \in Seq(Calls) /\ <<IdentifyClient(port)>> \in Seq(Calls)
  BY CallTypes
<1>5. ServerTypeOK
  BY DEF TypeOK
<1>. QED
  BY <1>2, <1>3, <1>4, <1>5, HandlerTypes DEF OnPacketReceived

LEMMA ReceiveType ==
  ASSUME TypeOK, NEW c \in Conn,
         ReceivePacket(c) \/ ReceiveFragment(c) \/ ReceiveEnd(c)
  PROVE  TypeOK'
<1>1. stack # <<>> /\ Call.slot \in Nat /\ clients[Call.slot] = c
  BY ReceiveSlotType DEF ReceivePacket, ReceiveFragment, ReceiveEnd, Receiving, Next1
<1>2. up[c] \in Seq(Inbound)
  BY DEF TypeOK, NetTypeOK
<1>3. up' \in [Conn -> Seq(Inbound)]
  <2>1. CASE up[c] # <<>> /\ up' = [up EXCEPT ![c] = Tail(@)]
    BY <1>2, <2>1, HeadTailProperties DEF TypeOK, NetTypeOK
  <2>2. CASE up' = [up EXCEPT ![c] = <<>>]
    BY <2>2 DEF TypeOK, NetTypeOK
  <2>. QED
    BY <2>1, <2>2 DEF ReceivePacket, ReceiveFragment, ReceiveEnd
<1>4. ServerTypeOK' /\ stack' \in Seq(Calls) /\ fault' \in Faults /\ told' = told
  <2>1. CASE ReceivePacket(c)
    BY <1>1, <2>1, RemotePortType, OnPacketReceivedType DEF ReceivePacket
  <2>2. CASE ReceiveFragment(c)
    BY <1>1, <2>2, RemotePortType, OnPacketReceivedType DEF ReceiveFragment
  <2>3. CASE ReceiveEnd(c)
    BY <1>1, <2>3, RemoveClientType DEF ReceiveEnd, TypeOK, ServerTypeOK, serverVars
  <2>. QED
    BY <2>1, <2>2, <2>3
<1>. QED
  BY <1>3, <1>4 DEF TypeOK, NetTypeOK, Inbound, ReceivePacket, ReceiveFragment, ReceiveEnd

LEMMA SendType ==
  ASSUME TypeOK, NEW i \in Slots,
         SendDone(i) \/ SendError(i) \/ SendDisconnected(i)
  PROVE  TypeOK'
<1>1. stack # <<>> /\ Target \in AnyPort /\ i \in Nat
  BY TargetType, LenProperties DEF SendDone, SendError, SendDisconnected,
     Sending, Next1, Slots, TypeOK, NetTypeOK
<1>2. <<>> \in Seq(Calls)
  OBVIOUS
<1>3. stack' \in Seq(Calls) /\ fault' \in Faults
  <2>1. CASE SendDone(i) \/ SendError(i)
    BY <1>1, <1>2, <2>1, RunType DEF SendDone, SendError
  <2>2. CASE SendDisconnected(i)
    BY <1>1, <2>2, RemoveClientType DEF SendDisconnected
  <2>. QED
    BY <2>1, <2>2
<1>4. told' \in [LobbyIds -> SUBSET (Verdicts \X (Port \cup {NoPort}))]
  BY <1>1 DEF SendDone, SendError, SendDisconnected, TypeOK, AnyPort
<1>. QED
  BY <1>3, <1>4 DEF TypeOK, NetTypeOK, ServerTypeOK, netVars, serverVars, Inbound,
     SendDone, SendError, SendDisconnected

LEMMA SendUnknownType ==
  ASSUME TypeOK, SendUnknown
  PROVE  TypeOK'
<1>1. stack' \in Seq(Calls) /\ fault' \in Faults
  BY HaltType DEF SendUnknown, Faults
<1>. QED
  BY <1>1 DEF SendUnknown, TypeOK, NetTypeOK, ServerTypeOK, netVars, serverVars, Inbound

LEMMA InnerCallType ==
  ASSUME TypeOK, FinishRemoval \/ StartGameIfComplete \/ Clear \/ AskElo \/ AskIdentity \/ SkipSlot
  PROVE  TypeOK'
<1>1. stack # <<>> /\ Call \in Calls
  BY CallType DEF FinishRemoval, StartGameIfComplete, Clear, AskElo, AskIdentity, SkipSlot, Next1
<1>2. <<>> \in Seq(Calls)
  OBVIOUS
<1>3. CASE FinishRemoval
  <2>1. clients' \in Seq(Conn \cup {Null, Dead})
    <3>1. clients \in [1..Len(clients) -> Conn \cup {Null, Dead}] /\ Len(clients) \in Nat
      BY LenProperties DEF TypeOK, NetTypeOK
    <3>2. clients' \in [1..Len(clients) -> Conn \cup {Null, Dead}]
      BY <1>3, <3>1 DEF FinishRemoval
    <3>3. /\ clients' = [i \in 1..Len(clients) |-> clients'[i]]
          /\ \A i \in 1..Len(clients) : clients'[i] \in Conn \cup {Null, Dead}
      BY <3>2
    <3>4. [i \in 1..Len(clients) |-> clients'[i]] \in Seq(Conn \cup {Null, Dead})
      BY <3>1, <3>3, IsASeq
    <3>. QED
      BY <3>3, <3>4
  <2>. QED
    BY <1>1, <1>2, <1>3, <2>1, RunType DEF FinishRemoval, TypeOK, NetTypeOK, ServerTypeOK, serverVars, Inbound
<1>4. CASE StartGameIfComplete
  <2>1. Call.lobby \in LobbyIds
    BY <1>1, <1>4 DEF StartGameIfComplete, Next1, Call, Calls, ServerCalls
  <2>2. stack' \in Seq(Calls) /\ fault' \in Faults
    BY <1>1, <1>4, <2>1, StartGameType, RunType DEF StartGameIfComplete
  <2>. QED
    BY <1>4, <2>2 DEF StartGameIfComplete, TypeOK, NetTypeOK, ServerTypeOK, netVars, serverVars, Inbound
<1>5. CASE Clear
  <2>1. Call.lobby \in LobbyIds
    BY <1>1, <1>5 DEF Clear, Next1, Call, Calls, ServerCalls
  <2>2. EmptyLobby \in Lobby
    BY DEF EmptyLobby, Lobby, NoClient, ClientData
  <2>3. stack' \in Seq(Calls) /\ fault' \in Faults
    BY <1>1, <1>2, <1>5, RunType DEF Clear
  <2>. QED
    BY <1>5, <2>1, <2>2, <2>3 DEF Clear, TypeOK, NetTypeOK, ServerTypeOK, netVars, Inbound
<1>6. CASE AskElo \/ AskIdentity
  <2>1. Call.port \in AnyPort
    BY <1>1, <1>6 DEF AskElo, AskIdentity, Next1, Call, Calls, ServerCalls, AnyPort
  <2>2. <<Send("eloUpdated", Call.port)>> \in Seq(Calls)
        /\ <<Send("clientIdentification", Call.port)>> \in Seq(Calls)
    BY <2>1, CallTypes DEF ServerPackets
  <2>3. "badReply" \in Faults
    BY DEF Faults
  <2>4. stack' \in Seq(Calls) /\ fault' \in Faults
    BY <1>1, <1>2, <1>6, <2>2, <2>3, RunType, HaltType DEF AskElo, AskIdentity
  <2>. QED
    BY <1>6, <2>4 DEF AskElo, AskIdentity, TypeOK, NetTypeOK, ServerTypeOK, netVars, serverVars, Inbound
<1>7. CASE SkipSlot
  BY <1>1, <1>2, <1>7, RunType DEF SkipSlot, TypeOK, NetTypeOK, ServerTypeOK, netVars, serverVars, Inbound
<1>. QED
  BY <1>3, <1>4, <1>5, <1>6, <1>7

LEMMA ClientStepType ==
  ASSUME TypeOK, ClientStep
  PROVE  TypeOK'
<1>1. PICK c \in Conn :
         \/ Connect(c) \/ ArrivePiece(c) \/ Close(c) \/ Reset(c)
         \/ \E type \in ClientPackets : Arrive(c, type)
  BY DEF ClientStep
<1>2. up[c] \in Seq(Inbound) /\ <<>> \in Seq(Inbound) /\ "fragment" \in Inbound
  BY DEF TypeOK, NetTypeOK, Inbound
<1>3. ASSUME NEW type \in Inbound
      PROVE  /\ Append(up[c], type) \in Seq(Inbound)
             /\ up[c] # <<>> => [up[c] EXCEPT ![Len(up[c])] = type] \in Seq(Inbound)
  BY <1>2, <1>3, AppendProperties, ExceptSeq, EmptySeq
<1>4. up' \in [Conn -> Seq(Inbound)]
  <2>1. ASSUME NEW type \in ClientPackets, Arrive(c, type)
        PROVE  up' \in [Conn -> Seq(Inbound)]
    <3>1. type \in Inbound
      BY DEF Inbound
    <3>. QED
      BY <1>3, <2>1, <3>1 DEF Arrive, LastIsFragment, TypeOK, NetTypeOK
  <2>2. CASE ArrivePiece(c)
    BY <1>2, <1>3, <2>2 DEF ArrivePiece, TypeOK, NetTypeOK
  <2>3. CASE Connect(c) \/ Close(c) \/ Reset(c)
    BY <1>2, <2>3 DEF Connect, Close, Reset, TypeOK, NetTypeOK
  <2>. QED
    BY <1>1, <2>1, <2>2, <2>3
<1>. QED
  BY <1>1, <1>4 DEF ClientStep, Connect, ArrivePiece, Close, Reset, Arrive, TypeOK, NetTypeOK,
     ServerTypeOK, serverVars, PeerState, Inbound

(* Every variable of the server, its sockets and its pending calls keeps its *)
(* type, whatever the clients and the network do.                            *)
THEOREM TypeCorrect == Spec => []TypeOK
<1>1. Init => TypeOK
  BY GameServerAssumption DEF Init, NetInit, TypeOK, NetTypeOK, ServerTypeOK, PeerState, Faults,
     EmptyLobby, Lobby, NoClient, ClientData
<1>2. TypeOK /\ [Next]_vars => TypeOK'
  <2>. SUFFICES ASSUME TypeOK, [Next]_vars PROVE TypeOK'
    OBVIOUS
  <2>1. CASE ServerStep
    <3>1. ASSUME NEW c \in Conn, ReceivePacket(c) \/ ReceiveFragment(c) \/ ReceiveEnd(c)
          PROVE  TypeOK'
      BY <3>1, ReceiveType
    <3>2. ASSUME NEW i \in Slots, SendDone(i) \/ SendError(i) \/ SendDisconnected(i)
          PROVE  TypeOK'
      BY <3>2, SendType
    <3>. QED
      BY <2>1, <3>1, <3>2, PollConnectionsType, PollPacketsType, SendUnknownType,
         InnerCallType DEF ServerStep
  <2>2. CASE ClientStep
    BY <2>2, ClientStepType
  <2>3. CASE UNCHANGED vars
    BY <2>3 DEF vars, TypeOK, NetTypeOK, ServerTypeOK, Inbound
  <2>. QED
    BY <2>1, <2>2, <2>3 DEF Next
<1>. QED
  BY <1>1, <1>2, PTL DEF Spec

-----------------------------------------------------------------------------
(* Seats are filled in order.                                                *)

LEMMA AddClientOrder ==
  ASSUME TypeOK, SeatOrder, NEW data \in ClientData, AddClientToLobby(data)
  PROVE  SeatOrder'
<1>1. CASE \E k \in LobbyIds :
             lobbies' = [lobbies EXCEPT ![k] = AddClient(@, data)]
  BY <1>1 DEF AddClient, SeatOrder, TypeOK, ServerTypeOK, Lobby, Seats
<1>2. CASE lobbies' = lobbies
  BY <1>2 DEF SeatOrder
<1>. QED
  BY <1>1, <1>2 DEF AddClientToLobby, serverVars

LEMMA ReceiveOrder ==
  ASSUME TypeOK, SeatOrder, NEW c \in Conn,
         ReceivePacket(c) \/ ReceiveFragment(c) \/ ReceiveEnd(c)
  PROVE  SeatOrder'
<1>1. ASSUME NEW type, NEW name \in Conn \cup {NoName}, OnPacketReceived(type, RemotePort(c), name)
      PROVE  SeatOrder'
  <2>1. [username |-> name, port |-> RemotePort(c)] \in ClientData
    BY RemotePortType DEF ClientData, AnyPort
  <2>. QED
    BY <1>1, <2>1, AddClientOrder DEF OnPacketReceived, serverVars, SeatOrder
<1>2. CASE ReceiveEnd(c)
  BY <1>2 DEF ReceiveEnd, serverVars, SeatOrder
<1>. QED
  BY <1>1, <1>2 DEF ReceivePacket, ReceiveFragment

(* Nobody ever sits in seat 2 of a lobby whose seat 1 is free, so a joiner   *)
(* who fills seat 1 never completes a lobby it was not first in.             *)
THEOREM SeatsInOrder == Spec => []SeatOrder
<1>1. Init => SeatOrder
  BY DEF Init, SeatOrder, EmptyLobby, NoClient, Seats
<1>2. TypeOK /\ SeatOrder /\ [Next]_vars => SeatOrder'
  <2>. SUFFICES ASSUME TypeOK, SeatOrder, [Next]_vars PROVE SeatOrder'
    OBVIOUS
  <2>1. CASE Clear
    BY <2>1 DEF Clear, SeatOrder, EmptyLobby, NoClient, Seats, TypeOK, ServerTypeOK
  <2>2. ASSUME NEW c \in Conn, ReceivePacket(c) \/ ReceiveFragment(c) \/ ReceiveEnd(c)
        PROVE  SeatOrder'
    BY <2>2, ReceiveOrder
  <2>3. CASE UNCHANGED lobbies
    BY <2>3 DEF SeatOrder
  <2>4. \A i \in Slots : SendDone(i) \/ SendError(i) \/ SendDisconnected(i) => UNCHANGED lobbies
    BY DEF SendDone, SendError, SendDisconnected, serverVars
  <2>. QED
    BY <2>1, <2>2, <2>3, <2>4 DEF Next, ServerStep, ClientStep, PollClientsConnections,
       PollClientsPackets, SkipSlot, SendUnknown, FinishRemoval, StartGameIfComplete,
       AskElo, AskIdentity, serverVars, vars
<1>. QED
  BY <1>1, <1>2, TypeCorrect, PTL DEF Spec

(*---------------------------------------------------------------------------*)
(* What clients that leave do to the server.  First, it is not brought down  *)
(* by clients that stay: the proof that Orderly is inductive, and with it    *)
(* that a send to an unknown port, or the endless removal of a client, needs *)
(* a client that has left.  Then, the verdicts of a game, which come through *)
(* however deep the removals are nested.                                     *)
(*---------------------------------------------------------------------------*)


(* A call stays safe when more ports answer and more seats are taken.        *)
LEMMA Widening ==
  ASSUME NEW calls, NEW known1, NEW taken1, NEW slots1,
         NEW known2, NEW taken2, NEW slots2,
         IsSafeStack(calls, known1, taken1, slots1),
         known1 \subseteq known2, taken1 \subseteq taken2, slots1 \subseteq slots2
  PROVE  IsSafeStack(calls, known2, taken2, slots2)
BY DEF IsSafeStack, IsSafe

(* The handler h runs in place of the first call of st.                      *)
LEMMA Pushed ==
  ASSUME NEW st \in Seq(Calls), st # <<>>, NEW h \in Seq(Calls)
  PROVE  LET new == h \o Tail(st) IN
         /\ DOMAIN new = 1..Len(new) /\ DOMAIN h = 1..Len(h) /\ DOMAIN st = 1..Len(st)
         /\ Len(h) \in Nat /\ Len(st) \in Nat /\ Len(new) \in Nat
         /\ Len(new) = Len(h) + Len(st) - 1
         /\ \A i \in 1..Len(h) : i \in DOMAIN new /\ new[i] = h[i]
         /\ \A i \in DOMAIN new : i > Len(h) => /\ i - Len(h) + 1 \in DOMAIN st
                                               /\ i - Len(h) + 1 # 1
                                               /\ new[i] = st[i - Len(h) + 1]
<1> DEFINE t == Tail(st)
           new == h \o t
<1>1. /\ t \in Seq(Calls) /\ Len(t) = Len(st) - 1
      /\ \A i \in 1..Len(t) : t[i] = st[i + 1]
  BY HeadTailProperties
<1>2. /\ new \in Seq(Calls) /\ Len(new) = Len(h) + Len(t)
      /\ \A i \in 1..(Len(h) + Len(t)) : new[i] = IF i <= Len(h) THEN h[i] ELSE t[i - Len(h)]
  BY <1>1, ConcatProperties
<1>3. /\ DOMAIN new = 1..Len(new) /\ DOMAIN h = 1..Len(h) /\ DOMAIN st = 1..Len(st)
      /\ Len(h) \in Nat /\ Len(t) \in Nat /\ Len(st) \in Nat /\ Len(new) \in Nat
  BY <1>1, <1>2, LenProperties
<1>4. \A i \in 1..Len(h) : i \in DOMAIN new /\ new[i] = h[i]
  BY <1>2, <1>3
<1>5. ASSUME NEW i \in DOMAIN new, i > Len(h)
      PROVE  i - Len(h) + 1 \in DOMAIN st /\ i - Len(h) + 1 # 1 /\ new[i] = st[i - Len(h) + 1]
  <2>1. i - Len(h) \in 1..Len(t) /\ new[i] = t[i - Len(h)]
    BY <1>2, <1>3, <1>5
  <2>. QED
    BY <1>1, <1>3, <2>1
<1>. QED
  BY <1>1, <1>2, <1>3, <1>4, <1>5

LEMMA Pushing ==
  ASSUME NEW st \in Seq(Calls), st # <<>>, NEW h \in Seq(Calls), NEW known, NEW taken, NEW slots,
         IsSafeStack(st, known, taken, slots),
         \A n \in DOMAIN h : IsSafe(h[n], known, taken, slots) /\ h[n].op # "receive",
         \A m, n \in DOMAIN h : h[m].op = "clearLobby" => ~IsOfStart(h[n]),
         \A m \in DOMAIN h, n \in DOMAIN st :
           /\ h[m].op = "clearLobby" => n = 1 \/ ~IsOfStart(st[n])
           /\ IsOfStart(h[m]) => n = 1 \/ st[n].op # "clearLobby"
  PROVE  IsSafeStack(h \o Tail(st), known, taken, slots)
<1> DEFINE new == h \o Tail(st)
<1>3. DOMAIN new = 1..Len(new) /\ DOMAIN h = 1..Len(h) /\ Len(h) \in Nat /\ Len(new) \in Nat
  BY Pushed
<1>4. ASSUME NEW n \in DOMAIN new
      PROVE  \/ n \in DOMAIN h /\ new[n] = h[n]
             \/ /\ n > Len(h) /\ n - Len(h) + 1 \in DOMAIN st
                /\ n - Len(h) + 1 # 1 /\ new[n] = st[n - Len(h) + 1]
  BY <1>3, Pushed
<1>5. \A n \in DOMAIN new : IsSafe(new[n], known, taken, slots)
  BY <1>4 DEF IsSafeStack
<1>6. ASSUME NEW m \in DOMAIN new, NEW n \in DOMAIN new,
             m < n, new[m].op = "receive"
      PROVE  new[n].op = "receive"
  <2>1. /\ m > Len(h) /\ m - Len(h) + 1 \in DOMAIN st /\ new[m] = st[m - Len(h) + 1]
    BY <1>4, <1>6
  <2>2. n > Len(h)
    BY <1>3, <1>6, <2>1
  <2>3. n - Len(h) + 1 \in DOMAIN st /\ new[n] = st[n - Len(h) + 1]
    BY <1>3, <1>4, <2>2
  <2>. QED
    BY <1>3, <1>6, <2>1, <2>3 DEF IsSafeStack
<1>7. ASSUME NEW m \in DOMAIN new, NEW n \in DOMAIN new, new[m].op = "clearLobby"
      PROVE  ~IsOfStart(new[n])
  BY <1>4, <1>7 DEF IsSafeStack, IsOfStart
<1>. QED
  BY <1>5, <1>6, <1>7 DEF IsSafeStack

(* The same, when the stack and the sets are those of the server.            *)
LEMMA RunIsSafe ==
  ASSUME TypeOK, stack # <<>>, IsSafeStack(stack, KnownPorts, TakenSeats, Slots),
         NEW h \in Seq(Calls), Run(h),
         KnownPorts \subseteq KnownPorts', TakenSeats \subseteq TakenSeats', Slots \subseteq Slots',
         \A n \in DOMAIN h : IsSafe(h[n], KnownPorts', TakenSeats', Slots') /\ h[n].op # "receive",
         \A m, n \in DOMAIN h : h[m].op = "clearLobby" => ~IsOfStart(h[n]),
         \A m \in DOMAIN h, n \in DOMAIN stack :
           /\ h[m].op = "clearLobby" => n = 1 \/ ~IsOfStart(stack[n])
           /\ IsOfStart(h[m]) => n = 1 \/ stack[n].op # "clearLobby"
  PROVE  IsSafeStack(stack, KnownPorts, TakenSeats, Slots)'
<1>1. IsSafeStack(stack, KnownPorts', TakenSeats', Slots')
  BY Widening
<1>2. IsSafeStack(h \o Tail(stack), KnownPorts', TakenSeats', Slots')
  BY <1>1, Pushing DEF TypeOK
<1>. QED
  BY <1>2 DEF Run

LEMMA PopIsSafe ==
  ASSUME TypeOK, stack # <<>>, IsSafeStack(stack, KnownPorts, TakenSeats, Slots), Run(<<>>),
         KnownPorts \subseteq KnownPorts', TakenSeats \subseteq TakenSeats', Slots \subseteq Slots'
  PROVE  IsSafeStack(stack, KnownPorts, TakenSeats, Slots)'
<1>1. <<>> \in Seq(Calls) /\ DOMAIN <<>> = {}
  BY EmptySeq
<1>. QED
  BY <1>1, RunIsSafe

LEMMA HeadInDomain ==
  ASSUME TypeOK, stack # <<>>
  PROVE  1 \in DOMAIN stack /\ stack[1] = Call
BY EmptySeq, LenProperties DEF TypeOK, Call

-----------------------------------------------------------------------------
(* One lemma per kind of step, while nobody has left.                        *)

LEMMA AnswersFact ==
  ASSUME TypeOK, Order
  PROVE  /\ \A i \in Slots : RemotePort(clients[i]) = PortOf[clients[i]]
         /\ \A i \in Slots : RemotePort(clients[i]) \in KnownPorts
         /\ NoPort \notin KnownPorts
BY PortAssumption, NoPortAssumption DEF Order, RemotePort, KnownPorts, Accepted

LEMMA PollConnectionsOrder ==
  ASSUME TypeOK, Order, PollClientsConnections
  PROVE  Order'
<1>1. PICK c \in Conn : Accept(c)
  BY DEF PollClientsConnections
<1>2. peer[c] = "up" /\ clients' = Append(clients, c)
  BY <1>1 DEF Accept, Order
<1>3. /\ Slots = 1..Len(clients) /\ Slots' = 1..(Len(clients) + 1) /\ Len(clients) \in Nat
      /\ clients'[Len(clients) + 1] = c /\ \A i \in Slots : clients'[i] = clients[i]
  <2>1. clients \in Seq(Conn \cup {Null, Dead}) /\ c \in Conn \cup {Null, Dead}
    BY DEF TypeOK, NetTypeOK
  <2>. QED
    BY <1>2, <2>1, AppendProperties, LenProperties DEF Slots
<1>4. KnownPorts \subseteq KnownPorts'
  BY <1>3 DEF KnownPorts, Accepted
<1>5. \A i \in Slots' : clients'[i] \in Conn /\ peer'[clients'[i]] = "up"
  BY <1>1, <1>2, <1>3 DEF Order, Accept
<1>6. IsSafeStack(stack, KnownPorts, TakenSeats, Slots)'
  BY <1>3, <1>4, Widening DEF Order, PollClientsConnections, serverVars, TakenSeats
<1>. QED
  BY <1>1, <1>4, <1>5, <1>6 DEF Order, Accept, PollClientsConnections, serverVars

LEMMA PollPacketsOrder ==
  ASSUME TypeOK, Order, PollClientsPackets
  PROVE  Order'
<1>1. IsSafeStack(stack, KnownPorts, TakenSeats, Slots)'
  BY DEF PollClientsPackets, IsSafeStack, IsSafe, IsOfStart, ReceiveFrom, netVars, Slots
<1>. QED
  BY <1>1 DEF Order, PollClientsPackets, netVars, serverVars, KnownPorts, Accepted, Slots

LEMMA PopOrder ==
  ASSUME TypeOK, Order, SkipSlot \/ \E i \in Slots : SendDone(i)
  PROVE  Order'
<1>1. stack # <<>> /\ Run(<<>>) /\ UNCHANGED <<netVars, serverVars>>
  BY DEF SkipSlot, SendDone, Next1, Sending
<1>2. IsSafeStack(stack, KnownPorts, TakenSeats, Slots)'
  BY <1>1, PopIsSafe DEF Order, netVars, serverVars, KnownPorts, Accepted, Slots, TakenSeats
<1>. QED
  BY <1>1, <1>2 DEF Order, Run, netVars, serverVars, KnownPorts, Accepted, Slots

(* Every send finds its socket, and none of them is gone.                    *)
LEMMA NoFailedSend ==
  ASSUME TypeOK, Order, NobodyLeft
  PROVE  /\ \A i \in Slots : ~SendError(i) /\ ~SendDisconnected(i)
         /\ ~SendUnknown /\ ~FinishRemoval
         /\ \A c \in Conn : ~ReceiveEnd(c)
<1>1. \A i \in Slots : ~SendError(i) /\ ~SendDisconnected(i)
  BY PortAssumption DEF Order, SendError, SendDisconnected
<1>2. ~SendUnknown
  <2> SUFFICES ASSUME Sending, \A i \in Slots : ~Answers(i, Target) PROVE FALSE
    BY DEF SendUnknown
  <2>1. stack # <<>> /\ Call \in Calls /\ Call.op \in {"send", "sendToSeat"}
    BY CallType DEF Sending, Next1, Call
  <2>2. IsSafe(Call, KnownPorts, TakenSeats, Slots)
    BY <2>1, HeadInDomain DEF Order, IsSafeStack
  <2>3. Target \in KnownPorts
    <3>1. CASE Call.op = "send"
      BY <2>2, <3>1 DEF IsSafe, Target
    <3>2. CASE Call.op = "sendToSeat"
      BY <2>1, <2>2, <3>2 DEF IsSafe, Target, Order, TakenSeats, Calls, ServerCalls
    <3>. QED
      BY <2>1, <3>1, <3>2
  <2>4. PICK i \in Slots : clients[i] \in Conn /\ PortOf[clients[i]] = Target
    BY <2>3 DEF KnownPorts, Accepted
  <2>. QED
    BY <2>4, AnswersFact, PortAssumption DEF Answers
<1>3. ~FinishRemoval
  BY HeadInDomain DEF FinishRemoval, Next1, Call, Order, IsSafeStack, IsSafe
<1>4. \A c \in Conn : ~ReceiveEnd(c)
  BY DEF ReceiveEnd, NobodyLeft
<1>. QED
  BY <1>1, <1>2, <1>3, <1>4

(* A slot is read only when every call left is to read another one.          *)
LEMMA ReadingLast ==
  ASSUME TypeOK, Order, Next1("receive")
  PROVE  \A n \in DOMAIN stack : stack[n].op = "receive"
<1>1. 1 \in DOMAIN stack /\ stack[1].op = "receive" /\ DOMAIN stack = 1..Len(stack)
      /\ Len(stack) \in Nat
  BY HeadInDomain, LenProperties DEF Next1, Call, TypeOK
<1>. QED
  BY <1>1 DEF Order, IsSafeStack

LEMMA HandlersAreSafe ==
  ASSUME TypeOK, Order, NEW port \in KnownPorts, NEW h \in Seq(Calls),
         \/ h = <<>> \/ h = OnNewTurn(port) \/ h = OnCueBallVelocity(port)
         \/ h = OnEndGame(port) \/ h = <<IdentifyClient(port)>>
  PROVE  /\ \A n \in DOMAIN h : IsSafe(h[n], KnownPorts, TakenSeats, Slots) /\ h[n].op # "receive"
         /\ \A n \in DOMAIN h : ~IsOfStart(h[n])
<1>1. \A k \in LobbyIds : Opposite(lobbies[k], port).port \in KnownPorts \cup {NoPort}
  BY DEF Order, Opposite, NoClient, Seats
<1>2. FindClientOpponentInLobbies(port) \in KnownPorts \cup {NoPort}
  BY <1>1 DEF FindClientOpponentInLobbies
<1>3. CASE h = <<>>
  BY <1>3
<1>4. CASE h = OnNewTurn(port)
  BY <1>2, <1>4 DEF OnNewTurn, Send, IsSafe, IsOfStart
<1>5. CASE h = OnCueBallVelocity(port)
  BY <1>2, <1>5 DEF OnCueBallVelocity, Send, IsSafe, IsOfStart
<1>6. CASE h = <<IdentifyClient(port)>>
  BY <1>6 DEF IdentifyClient, IsSafe, IsOfStart
<1>7. CASE h = OnEndGame(port)
  <2>1. CASE \E k \in LobbyIds : IsFirstGameOf(k, port)
    <3>1. PICK k \in LobbyIds : /\ IsFirstGameOf(k, port)
                                /\ k = CHOOSE j \in LobbyIds : IsFirstGameOf(j, port)
      BY <2>1
    <3> DEFINE other == Opposite(lobbies[k], port).port
    <3>2. other \in KnownPorts
      BY <1>1, <3>1 DEF IsFirstGameOf, HasOpponent
    <3>3. h = <<UpdatePlayerElo(port), UpdatePlayerElo(other),
                Send("endGameWon", port), Send("endGameLost", other), ClearLobby(k)>>
      BY <1>7, <2>1, <3>1 DEF OnEndGame
    <3>. QED
      BY <3>2, <3>3 DEF UpdatePlayerElo, Send, ClearLobby, IsSafe, IsOfStart
  <2>2. CASE ~\E k \in LobbyIds : IsFirstGameOf(k, port)
    BY <1>7, <2>2 DEF OnEndGame
  <2>. QED
    BY <2>1, <2>2
<1>. QED
  BY <1>3, <1>4, <1>5, <1>6, <1>7

LEMMA JoinOrder ==
  ASSUME TypeOK, Order, Next1("receive"), NEW data \in ClientData, data.port \in KnownPorts,
         AddClientToLobby(data), UNCHANGED <<peer, backlog, clients>>
  PROVE  Order'
<1>0. UNCHANGED KnownPorts /\ UNCHANGED Slots
  BY DEF KnownPorts, Accepted, Slots
<1>1. CASE \E k \in LobbyIds :
             /\ IsFirstOpen(k)
             /\ lobbies' = [lobbies EXCEPT ![k] = AddClient(@, data)]
             /\ Run(<<Send("joinLobby", data.port), StartIfComplete(k)>>)
             /\ UNCHANGED <<is_database_connected, told>>
  <2>1. PICK k \in LobbyIds :
             /\ lobbies' = [lobbies EXCEPT ![k] = AddClient(@, data)]
             /\ Run(<<Send("joinLobby", data.port), StartIfComplete(k)>>)
    BY <1>1
  <2> DEFINE h == <<Send("joinLobby", data.port), StartIfComplete(k)>>
  <2>2. h \in Seq(Calls)
    BY CallTypes DEF AnyPort, ClientData, ServerPackets
  <2>3. \A j \in LobbyIds, s \in Seats :
          lobbies'[j][s].port = lobbies[j][s].port \/ lobbies'[j][s].port = data.port
    BY <2>1 DEF AddClient, TypeOK, ServerTypeOK, Lobby, Seats
  <2>4. TakenSeats \subseteq TakenSeats'
    BY <2>3, AnswersFact DEF TakenSeats
  <2>5. \A n \in DOMAIN h : IsSafe(h[n], KnownPorts', TakenSeats', Slots') /\ h[n].op # "receive"
    BY <1>0 DEF Send, StartIfComplete, IsSafe
  <2>6. \A n \in DOMAIN h : h[n].op # "clearLobby"
    BY DEF Send, StartIfComplete
  <2>7. stack # <<>> /\ \A n \in DOMAIN stack : stack[n].op = "receive"
    BY ReadingLast DEF Next1
  <2>8. IsSafeStack(stack, KnownPorts, TakenSeats, Slots)'
    <3> HIDE DEF h
    <3>. QED
      BY <1>0, <2>1, <2>2, <2>4, <2>5, <2>6, <2>7, RunIsSafe DEF h, Order
  <2>. QED
    BY <1>0, <2>1, <2>3, <2>8 DEF Order, Run
<1>2. CASE Halt("lobbyOverflow") /\ UNCHANGED <<serverVars, told>>
  BY <1>0, <1>2 DEF Halt, Order, serverVars, IsSafeStack
<1>. QED
  BY <1>1, <1>2 DEF AddClientToLobby

LEMMA ReceiveOrderly ==
  ASSUME TypeOK, Order, NEW c \in Conn, ReceivePacket(c) \/ ReceiveFragment(c)
  PROVE  Order'
<1>0. /\ UNCHANGED <<peer, backlog, clients>> /\ UNCHANGED KnownPorts /\ UNCHANGED Slots
      /\ stack # <<>> /\ Next1("receive") /\ clients[Call.slot] = c
  BY DEF ReceivePacket, ReceiveFragment, Receiving, Next1, KnownPorts, Accepted, Slots
<1>1. Call.slot \in Slots
  <2>1. Call \in Calls /\ Call.op = "receive"
    BY <1>0, CallType DEF Next1, Call
  <2>. QED
    BY <1>0, <2>1, HeadInDomain DEF Order, IsSafeStack, IsSafe
<1>2. RemotePort(c) \in KnownPorts
  BY <1>0, <1>1, AnswersFact
<1>3. ASSUME NEW type, NEW name \in Conn \cup {NoName}, OnPacketReceived(type, RemotePort(c), name)
      PROVE  Order'
  <2> DEFINE port == RemotePort(c)
  <2>1. port \in AnyPort
    BY RemotePortType
  <2>2. CASE AddClientToLobby([username |-> name, port |-> port])
    <3>1. [username |-> name, port |-> port] \in ClientData
      BY <2>1 DEF ClientData, AnyPort
    <3>. QED
      BY <1>0, <1>2, <2>2, <3>1, JoinOrder
  <2>3. ASSUME NEW h \in Seq(Calls), Run(h), UNCHANGED <<serverVars, told>>,
               \/ h = <<>> \/ h = OnNewTurn(port) \/ h = OnCueBallVelocity(port)
               \/ h = OnEndGame(port) \/ h = <<IdentifyClient(port)>>
        PROVE  Order'
    <3>1. /\ \A n \in DOMAIN h : /\ IsSafe(h[n], KnownPorts, TakenSeats, Slots)
                                 /\ h[n].op # "receive" /\ ~IsOfStart(h[n])
      BY <1>2, <2>3, HandlersAreSafe
    <3>2. \A n \in DOMAIN stack : stack[n].op = "receive"
      BY <1>0, ReadingLast
    <3>3. UNCHANGED TakenSeats
      BY <2>3 DEF serverVars, TakenSeats
    <3>4. IsSafeStack(stack, KnownPorts, TakenSeats, Slots)'
      BY <1>0, <2>3, <3>1, <3>2, <3>3, RunIsSafe DEF Order, IsOfStart
    <3>. QED
      BY <1>0, <2>3, <3>4 DEF Order, Run, serverVars
  <2>4. ServerTypeOK /\ <<>> \in Seq(Calls) /\ <<IdentifyClient(port)>> \in Seq(Calls)
    BY <2>1, CallTypes DEF TypeOK
  <2>. QED
    BY <1>3, <2>1, <2>2, <2>3, <2>4, HandlerTypes DEF OnPacketReceived
<1>. QED
  BY <1>3 DEF ReceivePacket, ReceiveFragment

LEMMA StartOrder ==
  ASSUME TypeOK, Order, StartGameIfComplete
  PROVE  Order'
<1>1. /\ stack # <<>> /\ Call \in Calls /\ Call.op = "startIfComplete"
      /\ Run(StartGame(Call.lobby)) /\ UNCHANGED <<netVars, serverVars>>
  BY CallType DEF StartGameIfComplete, Next1, Call
<1>2. Call.lobby \in LobbyIds
  BY <1>1 DEF Calls, ServerCalls
<1> DEFINE h == StartGame(Call.lobby)
<1>3. h \in Seq(Calls)
  BY <1>2, StartGameType
<1>4. UNCHANGED KnownPorts /\ UNCHANGED TakenSeats /\ UNCHANGED Slots
  BY <1>1 DEF netVars, serverVars, KnownPorts, Accepted, Slots, TakenSeats
<1>5. \A n \in DOMAIN h : /\ IsSafe(h[n], KnownPorts, TakenSeats, Slots)
                          /\ h[n].op \notin {"receive", "clearLobby"}
  <2>1. CASE IsComplete(lobbies[Call.lobby])
    <3>1. h = <<SendToSeat("startGame0", Call.lobby, 1), SendToSeat("startGame1", Call.lobby, 2),
                SendToSeat("newTurn", Call.lobby, 1)>>
      BY <2>1 DEF StartGame
    <3>2. <<Call.lobby, 1>> \in TakenSeats /\ <<Call.lobby, 2>> \in TakenSeats
      BY <1>2, <2>1 DEF IsComplete, TakenSeats, Seats
    <3>. QED
      BY <3>1, <3>2 DEF SendToSeat, IsSafe
  <2>2. CASE ~IsComplete(lobbies[Call.lobby])
    BY <2>2 DEF StartGame
  <2>. QED
    BY <2>1, <2>2
<1>6. \A n \in DOMAIN stack : stack[n].op # "clearLobby"
  BY <1>1, HeadInDomain DEF Order, IsSafeStack, IsOfStart
<1>7. IsSafeStack(stack, KnownPorts, TakenSeats, Slots)'
  <2> HIDE DEF h
  <2>. QED
    BY <1>1, <1>3, <1>4, <1>5, <1>6, RunIsSafe DEF h, Order
<1>. QED
  BY <1>1, <1>4, <1>7 DEF Order, Run, netVars, serverVars

LEMMA ClearOrder ==
  ASSUME TypeOK, Order, Clear
  PROVE  Order'
<1>1. /\ stack # <<>> /\ Call \in Calls /\ Call.op = "clearLobby"
      /\ Run(<<>>) /\ lobbies' = [lobbies EXCEPT ![Call.lobby] = EmptyLobby]
      /\ UNCHANGED netVars
  BY CallType DEF Clear, Next1, Call
<1>2. UNCHANGED KnownPorts /\ UNCHANGED Slots
  BY <1>1 DEF netVars, KnownPorts, Accepted, Slots
<1>3. \A n \in DOMAIN stack : ~IsOfStart(stack[n])
  BY <1>1, HeadInDomain DEF Order, IsSafeStack
<1>4. IsSafeStack(stack, KnownPorts, TakenSeats', Slots)
  BY <1>3 DEF Order, IsSafeStack, IsSafe, IsOfStart
<1>5. <<>> \in Seq(Calls) /\ DOMAIN <<>> = {}
  BY EmptySeq
<1>6. IsSafeStack(<<>> \o Tail(stack), KnownPorts, TakenSeats', Slots)
  BY <1>1, <1>4, <1>5, Pushing DEF TypeOK
<1>7. IsSafeStack(stack, KnownPorts, TakenSeats, Slots)'
  BY <1>1, <1>2, <1>6 DEF Run
<1>8. \A k \in LobbyIds, s \in Seats :
        lobbies'[k][s].port = lobbies[k][s].port \/ lobbies'[k][s].port = NoPort
  BY <1>1 DEF EmptyLobby, NoClient, TypeOK, ServerTypeOK
<1>. QED
  BY <1>1, <1>2, <1>7, <1>8 DEF Order, Run, netVars

LEMMA AskOrder ==
  ASSUME TypeOK, Order, AskElo \/ AskIdentity
  PROVE  Order'
<1>1. /\ stack # <<>> /\ Call \in Calls /\ Call.op \in {"updatePlayerElo", "identifyClient"}
      /\ UNCHANGED <<netVars, serverVars>>
      /\ \/ Run(<<Send("eloUpdated", Call.port)>>)
         \/ Run(<<Send("clientIdentification", Call.port)>>)
         \/ Run(<<>>) \/ Halt("badReply")
  BY CallType DEF AskElo, AskIdentity, Next1, Call
<1>2. Call.port \in KnownPorts /\ Call.port \in AnyPort
  <2>1. IsSafe(Call, KnownPorts, TakenSeats, Slots)
    BY <1>1, HeadInDomain DEF Order, IsSafeStack
  <2>. QED
    BY <1>1, <2>1 DEF IsSafe, Calls, ServerCalls, AnyPort
<1>3. UNCHANGED KnownPorts /\ UNCHANGED TakenSeats /\ UNCHANGED Slots
  BY <1>1 DEF netVars, serverVars, KnownPorts, Accepted, Slots, TakenSeats
<1>4. ASSUME NEW type \in ServerPackets, Run(<<Send(type, Call.port)>>)
      PROVE  IsSafeStack(stack, KnownPorts, TakenSeats, Slots)' /\ fault' = fault
  <2> DEFINE h == <<Send(type, Call.port)>>
  <2>1. h \in Seq(Calls)
    BY <1>2, CallTypes
  <2>2. \A n \in DOMAIN h : /\ IsSafe(h[n], KnownPorts, TakenSeats, Slots)
                            /\ h[n].op \notin {"receive", "clearLobby"} /\ ~IsOfStart(h[n])
    BY <1>2 DEF Send, IsSafe, IsOfStart
  <2> HIDE DEF h
  <2>. QED
    BY <1>1, <1>3, <1>4, <2>1, <2>2, RunIsSafe DEF h, Order, Run
<1>5. CASE Run(<<>>)
  BY <1>1, <1>3, <1>5, PopIsSafe DEF Order, Run, netVars, serverVars
<1>6. CASE Halt("badReply")
  BY <1>1, <1>3, <1>6 DEF Halt, Order, IsSafeStack, netVars, serverVars
<1>7. "eloUpdated" \in ServerPackets /\ "clientIdentification" \in ServerPackets
  BY DEF ServerPackets
<1>. QED
  BY <1>1, <1>3, <1>4, <1>5, <1>6, <1>7 DEF Order, netVars, serverVars

LEMMA ClientStepOrder ==
  ASSUME TypeOK, Orderly, ClientStep, NobodyLeft'
  PROVE  NobodyLeft /\ Order'
<1>1. PICK c \in Conn :
         \/ Connect(c) \/ ArrivePiece(c) \/ Close(c) \/ Reset(c)
         \/ \E type \in ClientPackets : Arrive(c, type)
  BY DEF ClientStep
<1>2. UNCHANGED <<lobbies, stack, fault, clients>>
  BY <1>1 DEF ClientStep, serverVars, Connect, ArrivePiece, Close, Reset, Arrive
<1>3. /\ peer' = peer \/ (peer[c] = "none" /\ peer' = [peer EXCEPT ![c] = "up"])
      /\ backlog' = backlog \/ (backlog' = backlog \cup {c} /\ peer'[c] = "up")
  BY <1>1 DEF Connect, ArrivePiece, Close, Reset, Arrive, NobodyLeft, TypeOK, NetTypeOK
<1>4. NobodyLeft
  BY <1>3 DEF NobodyLeft, TypeOK, NetTypeOK
<1>5. Order
  BY <1>4 DEF Orderly
<1>6. UNCHANGED KnownPorts /\ UNCHANGED TakenSeats /\ UNCHANGED Slots
  BY <1>2 DEF KnownPorts, Accepted, Slots, TakenSeats
<1>7. IsSafeStack(stack, KnownPorts, TakenSeats, Slots)'
  BY <1>2, <1>5, <1>6 DEF Order
<1>. QED
  BY <1>2, <1>3, <1>4, <1>5, <1>6, <1>7 DEF Order, TypeOK, NetTypeOK

(* With every client still connected, each seat and each pending call of the *)
(* server holds a port one of its sockets answers to.                        *)
THEOREM OrderKept == Spec => []Orderly
<1>1. Init => Orderly
  BY EmptySeq DEF Init, NetInit, Orderly, Order, IsSafeStack, Slots, KnownPorts, TakenSeats,
     EmptyLobby, NoClient, Seats
<1>2. TypeOK /\ Orderly /\ [Next]_vars => Orderly'
  <2>. SUFFICES ASSUME TypeOK, Orderly, [Next]_vars, NobodyLeft' PROVE Order'
    BY DEF Orderly
  <2>1. CASE ClientStep
    BY <2>1, ClientStepOrder
  <2>2. CASE UNCHANGED vars
    BY <2>2 DEF vars, NobodyLeft, Orderly, Order, IsSafeStack, IsSafe, Slots, KnownPorts,
       Accepted, TakenSeats
  <2>3. CASE ServerStep
    <3>1. UNCHANGED peer
      BY <2>3 DEF ServerStep, PollClientsConnections, Accept, PollClientsPackets, SkipSlot,
         ReceivePacket, ReceiveFragment, ReceiveEnd, SendDone, SendError, SendDisconnected,
         SendUnknown, FinishRemoval, StartGameIfComplete, Clear, AskElo, AskIdentity, netVars
    <3>2. NobodyLeft /\ Order
      BY <3>1 DEF NobodyLeft, Orderly
    <3>3. ASSUME NEW c \in Conn, ReceivePacket(c) \/ ReceiveFragment(c) \/ ReceiveEnd(c)
          PROVE  Order'
      BY <3>2, <3>3, ReceiveOrderly, NoFailedSend
    <3>4. ASSUME NEW i \in Slots, SendDone(i) \/ SendError(i) \/ SendDisconnected(i)
          PROVE  Order'
      BY <3>2, <3>4, PopOrder, NoFailedSend
    <3>. QED
      BY <2>3, <3>2, <3>3, <3>4, PollConnectionsOrder, PollPacketsOrder, PopOrder, NoFailedSend,
         StartOrder, ClearOrder, AskOrder DEF ServerStep
  <2>. QED
    BY <2>1, <2>2, <2>3 DEF Next
<1>. QED
  BY <1>1, <1>2, TypeCorrect, PTL DEF Spec

(* The process does not send to a port it does not know, nor remove a client *)
(* without end, before the first client has left.                            *)
THEOREM FaultsNeedDepartures == Spec => []FaultNeedsDeparture
<1>1. Orderly => FaultNeedsDeparture
  BY DEF Orderly, Order, FaultNeedsDeparture
<1>. QED
  BY <1>1, OrderKept, PTL
-----------------------------------------------------------------------------
(* The verdicts of a game.  What a handler still owes is on the stack: the   *)
(* verdicts it has not sent yet, and behind them its ClearLobby, with no     *)
(* other ClearLobby in between.                                              *)

NoClear(calls, m, n) == \A j \in m..(n - 1) : calls[j].op # "clearLobby"
IsVerdict(call, port) == \E v \in Verdicts : call = Send(v, port)

(* Before the call n is made, the port will be sent a verdict.               *)
Due(calls, n, port) ==
  \E m \in 1..(n - 1) : IsVerdict(calls[m], port) /\ NoClear(calls, m, n)

(* Before the lobby is cleared, the port will be told that it won.           *)
WillWin(calls, k, port) ==
  \E n \in DOMAIN calls :
    /\ calls[n] = ClearLobby(k)
    /\ \E m \in 1..(n - 1) : calls[m] = Send("endGameWon", port) /\ NoClear(calls, m, n)

Wins(calls, said, k, port) == <<"endGameWon", port>> \in said[k] \/ WillWin(calls, k, port)

Gone == {port \in Port : HasLeft(port)}

WinnersAgree(calls, said, gone) ==
  \A k \in LobbyIds : \A p, q \in Port :
    Wins(calls, said, k, p) /\ Wins(calls, said, k, q) => p = q \/ p \in gone \/ q \in gone

(* What holds between two calls of the thread: slots are read when no        *)
(* handler is left, a lobby's verdicts are remembered while somebody is      *)
(* about to clear it, everybody in that lobby has been told, will be told or *)
(* has left, and its winner sits in it as long as it has not been cleared.   *)
Settled(calls, tables, said, gone) ==
  /\ \A m, n \in DOMAIN calls : m < n /\ calls[m].op = "receive" => calls[n].op = "receive"
  /\ \A n \in DOMAIN calls : calls[n].op = "sendToSeat" => calls[n].type \notin Verdicts
  /\ \A k \in LobbyIds : said[k] # {} => \E n \in DOMAIN calls : calls[n] = ClearLobby(k)
  /\ \A k \in LobbyIds, n \in DOMAIN calls, s \in Seats :
       calls[n] = ClearLobby(k) /\ tables[k][s].port # NoPort =>
         \/ \E v \in Verdicts : <<v, tables[k][s].port>> \in said[k]
         \/ tables[k][s].port \in gone
         \/ Due(calls, n, tables[k][s].port)
  /\ \A k \in LobbyIds, p \in Port :
       Wins(calls, said, k, p) => IsSeated(tables[k], p) \/ tables[k] = EmptyLobby
  /\ WinnersAgree(calls, said, gone)

VerdictsInOrder ==
  /\ fault = "none" => Settled(stack, lobbies, told, Gone)
  /\ OneWinner

LEMMA PushedWins ==
  ASSUME NEW st \in Seq(Calls), st # <<>>, NEW h \in Seq(Calls), NEW k, NEW port,
         \A m \in DOMAIN h : h[m] = Send("endGameWon", port) =>
           \E j \in DOMAIN h : m < j /\ h[j].op = "clearLobby",
         WillWin(h \o Tail(st), k, port)
  PROVE  WillWin(h, k, port) \/ WillWin(st, k, port)
<1> DEFINE new == h \o Tail(st)
<1>0. PICK n \in DOMAIN new :
        /\ new[n] = ClearLobby(k)
        /\ \E m \in 1..(n - 1) : new[m] = Send("endGameWon", port) /\ NoClear(new, m, n)
  BY DEF WillWin
<1>1. PICK m \in 1..(n - 1) :
        /\ new[n] = ClearLobby(k) /\ new[m] = Send("endGameWon", port) /\ NoClear(new, m, n)
  BY <1>0
<1>2. /\ DOMAIN new = 1..Len(new) /\ DOMAIN h = 1..Len(h) /\ DOMAIN st = 1..Len(st)
      /\ Len(h) \in Nat /\ Len(st) \in Nat /\ Len(new) \in Nat
      /\ \A i \in 1..Len(h) : i \in DOMAIN new /\ new[i] = h[i]
      /\ \A i \in DOMAIN new : i > Len(h) => i - Len(h) + 1 \in DOMAIN st /\ i - Len(h) + 1 # 1
                                            /\ new[i] = st[i - Len(h) + 1]
  BY Pushed
<1> HIDE DEF new
<1>3. m \in DOMAIN new /\ m < n /\ m \in Nat /\ n \in Nat
  BY <1>1, <1>2
<1>4. CASE m <= Len(h)
  <2>1. PICK j \in DOMAIN h : m < j /\ h[j].op = "clearLobby"
    BY <1>1, <1>2, <1>3, <1>4
  <2>2. n <= Len(h)
    <3>1. j \in Nat /\ j <= Len(h) /\ new[j].op = "clearLobby"
      BY <1>2, <2>1
    <3>. QED
      BY <1>1, <1>2, <1>3, <2>1, <3>1 DEF NoClear
  <2>3. NoClear(h, m, n)
    BY <1>1, <1>2, <1>3, <2>2 DEF NoClear
  <2>. QED
    BY <1>1, <1>2, <1>3, <1>4, <2>2, <2>3 DEF WillWin
<1>5. CASE m > Len(h)
  <2> DEFINE i == m - Len(h) + 1
             j == n - Len(h) + 1
  <2>1. i \in DOMAIN st /\ j \in DOMAIN st /\ i \in 1..(j - 1) /\ st[i] = new[m] /\ st[j] = new[n]
    BY <1>1, <1>2, <1>3, <1>5
  <2>2. NoClear(st, i, j)
    <3> SUFFICES ASSUME NEW x \in i..(j - 1) PROVE st[x].op # "clearLobby"
      BY DEF NoClear
    <3>1. x + Len(h) - 1 \in m..(n - 1) /\ x + Len(h) - 1 \in DOMAIN new /\ x + Len(h) - 1 > Len(h)
      BY <1>1, <1>2, <1>3, <1>5
    <3>2. (x + Len(h) - 1) - Len(h) + 1 = x
      BY <1>2
    <3>3. new[x + Len(h) - 1] = st[x]
      BY <1>2, <3>1, <3>2
    <3>. QED
      BY <1>1, <3>1, <3>3 DEF NoClear
  <2>. QED
    BY <1>1, <2>1, <2>2 DEF WillWin
<1>. QED
  BY <1>2, <1>3, <1>4, <1>5
(* What was due before the call n still is, unless it was due in the first   *)
(* call, which the handler h replaces.                                       *)
LEMMA PushedDue ==
  ASSUME NEW st \in Seq(Calls), st # <<>>, NEW h \in Seq(Calls), NEW port,
         NEW n \in DOMAIN st, n # 1, Due(st, n, port)
  PROVE  \/ Due(h \o Tail(st), n - 1 + Len(h), port)
         \/ IsVerdict(st[1], port) /\ NoClear(st, 1, n)
<1> DEFINE new == h \o Tail(st)
<1>1. PICK m \in 1..(n - 1) : IsVerdict(st[m], port) /\ NoClear(st, m, n)
  BY DEF Due
<1>2. /\ DOMAIN new = 1..Len(new) /\ DOMAIN st = 1..Len(st)
      /\ Len(h) \in Nat /\ Len(st) \in Nat /\ Len(new) \in Nat
      /\ Len(new) = Len(h) + Len(st) - 1
      /\ \A i \in DOMAIN new : i > Len(h) => new[i] = st[i - Len(h) + 1]
  BY Pushed
<1> HIDE DEF new
<1>3. n \in Nat /\ m \in Nat /\ m < n /\ n <= Len(st)
  BY <1>2
<1>4. CASE m = 1
  BY <1>1, <1>4
<1>5. CASE m # 1
  <2>1. ASSUME NEW x \in m..n
        PROVE  x - 1 + Len(h) \in DOMAIN new /\ new[x - 1 + Len(h)] = st[x]
    <3>1. x - 1 + Len(h) \in DOMAIN new /\ x - 1 + Len(h) > Len(h)
      BY <1>2, <1>3, <1>5
    <3>2. (x - 1 + Len(h)) - Len(h) + 1 = x
      BY <1>2
    <3>. QED
      BY <1>2, <3>1, <3>2
  <2>2. NoClear(new, m - 1 + Len(h), n - 1 + Len(h))
    <3> SUFFICES ASSUME NEW y \in (m - 1 + Len(h))..(n - 1 + Len(h) - 1) PROVE new[y].op # "clearLobby"
      BY DEF NoClear
    <3>1. y - Len(h) + 1 \in m..(n - 1) /\ (y - Len(h) + 1) - 1 + Len(h) = y
      BY <1>2, <1>3
    <3>2. new[y] = st[y - Len(h) + 1]
      BY <1>3, <2>1, <3>1
    <3>. QED
      BY <1>1, <3>1, <3>2 DEF NoClear
  <2>3. m - 1 + Len(h) \in 1..(n - 1 + Len(h) - 1) /\ IsVerdict(new[m - 1 + Len(h)], port)
    BY <1>1, <1>2, <1>3, <1>5, <2>1
  <2>4. Due(new, n - 1 + Len(h), port)
    BY <2>2, <2>3 DEF Due
  <2>. QED
    BY <2>4 DEF new
<1>. QED
  BY <1>4, <1>5

LEMMA OwnDue ==
  ASSUME NEW st \in Seq(Calls), st # <<>>, NEW h \in Seq(Calls), NEW port,
         NEW n \in DOMAIN h, Due(h, n, port)
  PROVE  Due(h \o Tail(st), n, port)
<1> DEFINE new == h \o Tail(st)
<1>1. PICK m \in 1..(n - 1) : IsVerdict(h[m], port) /\ NoClear(h, m, n)
  BY DEF Due
<1>2. /\ DOMAIN h = 1..Len(h) /\ Len(h) \in Nat
      /\ \A i \in 1..Len(h) : new[i] = h[i]
  BY Pushed
<1> HIDE DEF new
<1>3. NoClear(new, m, n) /\ IsVerdict(new[m], port)
  BY <1>1, <1>2 DEF NoClear
<1>. QED
  BY <1>3 DEF Due, new

(* The handler h may run in place of the first call: it clears no lobby      *)
(* before its players have been told, and names no second winner.            *)
IsFair(h, st, tables, said, gone) ==
  /\ \A n \in DOMAIN h : /\ h[n].op # "receive"
                         /\ h[n].op = "sendToSeat" => h[n].type \notin Verdicts
  /\ \A k \in LobbyIds, n \in DOMAIN h, s \in Seats :
       h[n] = ClearLobby(k) /\ tables[k][s].port # NoPort =>
         tables[k][s].port \in gone \/ Due(h, n, tables[k][s].port)
  /\ \A m \in DOMAIN h, p \in Port :
       h[m] = Send("endGameWon", p) => \E j \in DOMAIN h : m < j /\ h[j].op = "clearLobby"
  /\ \A k \in LobbyIds, p \in Port : WillWin(h, k, p) => IsSeated(tables[k], p)
  /\ \A k \in LobbyIds : \A p, q \in Port :
       WillWin(h, k, p) /\ (WillWin(h, k, q) \/ Wins(st, said, k, q))
         => p = q \/ p \in gone \/ q \in gone

(* The first call is done: what it had to say has been said, or its receiver *)
(* has left.                                                                 *)
IsSaid(st, said, said2, gone) ==
  /\ \A k \in LobbyIds : said[k] \subseteq said2[k]
  /\ \A k \in LobbyIds, port \in Port, n \in DOMAIN st :
       st[n] = ClearLobby(k) /\ NoClear(st, 1, n) /\ IsVerdict(st[1], port) =>
         port \in gone \/ \E v \in Verdicts : <<v, port>> \in said2[k]
  /\ \A k \in LobbyIds : \A x \in said2[k] :
       \/ x \in said[k]
       \/ \E n \in DOMAIN st : /\ st[n] = ClearLobby(k) /\ NoClear(st, 1, n)
                               /\ st[1] = Send(x[1], x[2])

LEMMA RunSettles ==
  ASSUME NEW st \in Seq(Calls), st # <<>>, NEW h \in Seq(Calls),
         NEW tables \in [LobbyIds -> Lobby], NEW said, NEW said2, NEW gone,
         Settled(st, tables, said, gone), st[1].op # "clearLobby",
         IsFair(h, st, tables, said, gone), IsSaid(st, said, said2, gone)
  PROVE  Settled(h \o Tail(st), tables, said2, gone)
<1> DEFINE new == h \o Tail(st)
<1>1. /\ DOMAIN new = 1..Len(new) /\ DOMAIN h = 1..Len(h) /\ DOMAIN st = 1..Len(st)
      /\ Len(h) \in Nat /\ Len(st) \in Nat /\ Len(new) \in Nat
      /\ Len(new) = Len(h) + Len(st) - 1
      /\ \A i \in 1..Len(h) : i \in DOMAIN new /\ new[i] = h[i]
      /\ \A i \in DOMAIN new : i > Len(h) => i - Len(h) + 1 \in DOMAIN st /\ i - Len(h) + 1 # 1
                                            /\ new[i] = st[i - Len(h) + 1]
  BY Pushed
<1>2. \A p \in Port, k \in LobbyIds : WillWin(new, k, p) => WillWin(h, k, p) \/ WillWin(st, k, p)
  BY PushedWins DEF IsFair
<1>3. \A port : \A n \in DOMAIN st : n # 1 /\ Due(st, n, port) =>
        Due(new, n - 1 + Len(h), port) \/ (IsVerdict(st[1], port) /\ NoClear(st, 1, n))
  BY PushedDue
<1>4. \A port : \A n \in DOMAIN h : Due(h, n, port) => Due(new, n, port)
  BY OwnDue
<1> HIDE DEF new
<1>5. ASSUME NEW n \in DOMAIN new
      PROVE  \/ n \in DOMAIN h /\ new[n] = h[n]
             \/ \E i \in DOMAIN st : i # 1 /\ n = i - 1 + Len(h) /\ new[n] = st[i]
  <2>1. CASE n <= Len(h)
    BY <1>1, <2>1
  <2>2. CASE n > Len(h)
    <3>1. (n - Len(h) + 1) - 1 + Len(h) = n
      BY <1>1
    <3>. QED
      BY <1>1, <2>2, <3>1
  <2>. QED
    BY <1>1, <2>1, <2>2
<1>6. ASSUME NEW i \in DOMAIN st, i # 1
      PROVE  i - 1 + Len(h) \in DOMAIN new /\ new[i - 1 + Len(h)] = st[i]
  <2>1. i - 1 + Len(h) \in DOMAIN new /\ i - 1 + Len(h) > Len(h)
    BY <1>1, <1>6
  <2>2. (i - 1 + Len(h)) - Len(h) + 1 = i
    BY <1>1
  <2>. QED
    BY <1>1, <2>1, <2>2
<1>7. 1 \in DOMAIN st /\ st[1] # ClearLobby(CHOOSE k \in LobbyIds : TRUE)
      /\ \A k \in LobbyIds : st[1] # ClearLobby(k)
  BY <1>1, EmptySeq DEF ClearLobby
<1>8. ASSUME NEW m \in DOMAIN new, NEW n \in DOMAIN new, m < n, new[m].op = "receive"
      PROVE  new[n].op = "receive"
  <2>1. PICK i \in DOMAIN st : i # 1 /\ m = i - 1 + Len(h) /\ new[m] = st[i]
    BY <1>5, <1>8 DEF IsFair
  <2>2. PICK j \in DOMAIN st : j # 1 /\ n = j - 1 + Len(h) /\ new[n] = st[j]
    BY <1>1, <1>5, <1>8, <2>1
  <2>. QED
    BY <1>1, <1>8, <2>1, <2>2 DEF Settled
<1>9. \A n \in DOMAIN new : new[n].op = "sendToSeat" => new[n].type \notin Verdicts
  BY <1>5 DEF IsFair, Settled
<1>10. ASSUME NEW k \in LobbyIds, said2[k] # {}
       PROVE  \E n \in DOMAIN new : new[n] = ClearLobby(k)
  <2>1. \E n \in DOMAIN st : st[n] = ClearLobby(k)
    BY <1>10 DEF IsSaid, Settled
  <2>. QED
    BY <1>6, <1>7, <2>1
<1>11. ASSUME NEW k \in LobbyIds, NEW n \in DOMAIN new, NEW s \in Seats,
              new[n] = ClearLobby(k), tables[k][s].port # NoPort
       PROVE  \/ \E v \in Verdicts : <<v, tables[k][s].port>> \in said2[k]
              \/ tables[k][s].port \in gone
              \/ Due(new, n, tables[k][s].port)
  <2> DEFINE port == tables[k][s].port
  <2>0. port \in Port
    BY <1>11 DEF Lobby, ClientData
  <2>1. CASE n \in DOMAIN h /\ new[n] = h[n]
    BY <1>4, <1>11, <2>1 DEF IsFair
  <2>2. ASSUME NEW i \in DOMAIN st, i # 1, n = i - 1 + Len(h), new[n] = st[i]
        PROVE  \/ \E v \in Verdicts : <<v, port>> \in said2[k]
               \/ port \in gone
               \/ Due(new, n, port)
    <3>1. \/ \E v \in Verdicts : <<v, port>> \in said[k]
          \/ port \in gone
          \/ Due(st, i, port)
      BY <1>11, <2>2 DEF Settled
    <3>2. CASE Due(st, i, port)
      <4>0. Due(new, i - 1 + Len(h), port) \/ (IsVerdict(st[1], port) /\ NoClear(st, 1, i))
        BY <1>3, <2>2, <3>2
      <4>1. Due(new, n, port) \/ (IsVerdict(st[1], port) /\ NoClear(st, 1, i))
        BY <2>2, <4>0
      <4>. QED
        BY <1>11, <2>0, <2>2, <4>1 DEF IsSaid
    <3>. QED
      BY <3>1, <3>2 DEF IsSaid
  <2>3. CASE \E i \in DOMAIN st : i # 1 /\ n = i - 1 + Len(h) /\ new[n] = st[i]
    <3>1. PICK i \in DOMAIN st : i # 1 /\ n = i - 1 + Len(h) /\ new[n] = st[i]
      BY <2>3
    <3>. QED
      BY <2>2, <3>1
  <2>. QED
    BY <1>5, <2>1, <2>3
<1>12. ASSUME NEW k \in LobbyIds, NEW p \in Port, Wins(new, said2, k, p)
       PROVE  Wins(st, said, k, p) \/ WillWin(h, k, p)
  <2>1. CASE WillWin(new, k, p)
    BY <1>2, <2>1 DEF Wins
  <2>2. CASE <<"endGameWon", p>> \in said[k]
    BY <2>2 DEF Wins
  <2>3. ASSUME NEW n \in DOMAIN st, st[n] = ClearLobby(k), NoClear(st, 1, n),
               st[1] = Send("endGameWon", p)
        PROVE  WillWin(st, k, p)
    <3>1. n # 1
      BY <1>7, <2>3
    <3>2. 1 \in 1..(n - 1)
      BY <1>1, <3>1
    <3>. QED
      BY <2>3, <3>2 DEF WillWin
  <2>4. CASE <<"endGameWon", p>> \in said2[k]
    <3>1. \/ <<"endGameWon", p>> \in said[k]
          \/ \E n \in DOMAIN st : /\ st[n] = ClearLobby(k) /\ NoClear(st, 1, n)
                                  /\ st[1] = Send("endGameWon", p)
      BY <2>4 DEF IsSaid
    <3>. QED
      BY <2>2, <2>3, <3>1 DEF Wins
  <2>. QED
    BY <1>12, <2>1, <2>4 DEF Wins
<1>13. ASSUME NEW k \in LobbyIds, NEW p \in Port, Wins(new, said2, k, p)
       PROVE  IsSeated(tables[k], p) \/ tables[k] = EmptyLobby
  BY <1>12, <1>13 DEF IsFair, Settled
<1>14. ASSUME NEW k \in LobbyIds, NEW p \in Port, NEW q \in Port,
              Wins(new, said2, k, p), Wins(new, said2, k, q)
       PROVE  p = q \/ p \in gone \/ q \in gone
  <2>1. Wins(st, said, k, p) \/ WillWin(h, k, p)
    BY <1>12, <1>14
  <2>2. Wins(st, said, k, q) \/ WillWin(h, k, q)
    BY <1>12, <1>14
  <2>3. CASE Wins(st, said, k, p) /\ Wins(st, said, k, q)
    BY <2>3 DEF Settled, WinnersAgree
  <2>. QED
    BY <2>1, <2>2, <2>3 DEF IsFair
<1>. QED
  BY <1>8, <1>9, <1>10, <1>11, <1>13, <1>14 DEF Settled, WinnersAgree, new
-----------------------------------------------------------------------------
(* The handlers.                                                             *)

IsQuiet(call) ==
  /\ call.op \notin {"receive", "clearLobby"}
  /\ call.op \in {"send", "sendToSeat"} => call.type \notin Verdicts

LEMMA QuietIsFair ==
  ASSUME NEW h \in Seq(Calls), \A n \in DOMAIN h : IsQuiet(h[n]),
         NEW st, NEW tables, NEW said, NEW gone
  PROVE  IsFair(h, st, tables, said, gone)
<1>1. \A n \in DOMAIN h : /\ h[n].op # "receive" /\ h[n].op # "clearLobby"
                          /\ h[n].op = "sendToSeat" => h[n].type \notin Verdicts
  BY DEF IsQuiet
<1>2. \A n \in DOMAIN h, k \in LobbyIds : h[n] # ClearLobby(k)
  BY <1>1 DEF ClearLobby
<1>3. \A m \in DOMAIN h, p \in Port : h[m] # Send("endGameWon", p)
  BY DEF IsQuiet, Send, Verdicts
<1>4. \A k \in LobbyIds, p \in Port : ~WillWin(h, k, p)
  BY <1>2 DEF WillWin
<1>. QED
  BY <1>1, <1>2, <1>3, <1>4 DEF IsFair

(* Both seats of a lobby, as the handlers see it.                            *)
LEMMA SeatsOfGame ==
  ASSUME NEW lobby \in Lobby, NEW port, Opposite(lobby, port).port # NoPort
  PROVE  /\ \A s \in Seats : lobby[s].port \in {port, Opposite(lobby, port).port}
         /\ IsSeated(lobby, port) /\ IsSeated(lobby, Opposite(lobby, port).port)
         /\ lobby # EmptyLobby
<1>1. lobby[1].port = port \/ lobby[2].port = port
  BY DEF Opposite, NoClient
<1>2. \A s \in Seats : s = 1 \/ s = 2
  BY DEF Seats
<1>3. lobby[1].port \in {port, Opposite(lobby, port).port} /\ lobby[2].port \in {port, Opposite(lobby, port).port}
  BY <1>1 DEF Opposite
<1>4. IsSeated(lobby, port) /\ IsSeated(lobby, Opposite(lobby, port).port)
  BY <1>1 DEF Opposite, IsSeated, Seats
<1>5. lobby # EmptyLobby
  BY <1>1 DEF Opposite, EmptyLobby, NoClient, Seats
<1>. QED
  BY <1>2, <1>3, <1>4, <1>5

(* A claim is handled when the stack has no other handler on it, and tells   *)
(* both players.                                                             *)
LEMMA ClaimIsFair ==
  ASSUME NEW st \in Seq(Calls), NEW said, NEW gone, NEW port \in AnyPort, ServerTypeOK,
         \A n \in DOMAIN st : st[n].op = "receive",
         Settled(st, lobbies, said, gone)
  PROVE  IsFair(OnEndGame(port), st, lobbies, said, gone)
<1>1. CASE ~\E k \in LobbyIds : IsFirstGameOf(k, port)
  <2>1. OnEndGame(port) = <<>> /\ <<>> \in Seq(Calls) /\ DOMAIN <<>> = {}
    BY <1>1, EmptySeq DEF OnEndGame
  <2>. QED
    BY <2>1, QuietIsFair
<1>2. CASE \E k \in LobbyIds : IsFirstGameOf(k, port)
  <2>1. PICK k \in LobbyIds : /\ IsFirstGameOf(k, port)
                              /\ k = CHOOSE j \in LobbyIds : IsFirstGameOf(j, port)
    BY <1>2
  <2> DEFINE other == Opposite(lobbies[k], port).port
             h == <<UpdatePlayerElo(port), UpdatePlayerElo(other),
                    Send("endGameWon", port), Send("endGameLost", other), ClearLobby(k)>>
  <2>2. OnEndGame(port) = h
    BY <1>2, <2>1 DEF OnEndGame
  <2>3. lobbies[k] \in Lobby /\ other # NoPort
    BY <2>1 DEF ServerTypeOK, IsFirstGameOf, HasOpponent
  <2>4. /\ \A s \in Seats : lobbies[k][s].port \in {port, other}
        /\ IsSeated(lobbies[k], port)
    BY <2>3, SeatsOfGame
  <2> HIDE DEF other
  <2>5. /\ DOMAIN h = 1..5
        /\ h[1] = UpdatePlayerElo(port) /\ h[2] = UpdatePlayerElo(other)
        /\ h[3] = Send("endGameWon", port) /\ h[4] = Send("endGameLost", other)
        /\ h[5] = ClearLobby(k)
    OBVIOUS
  <2> HIDE DEF h
  <2>6. /\ \A n \in DOMAIN h : h[n].op \in {"updatePlayerElo", "send", "clearLobby"}
        /\ \A n \in 1..4 : h[n].op # "clearLobby"
        /\ \A p : \A n \in DOMAIN h : h[n] = Send("endGameWon", p) => n = 3 /\ p = port
        /\ \A j : \A n \in DOMAIN h : h[n] = ClearLobby(j) => n = 5 /\ j = k
    BY <2>5 DEF UpdatePlayerElo, Send, ClearLobby
  <2>7. Due(h, 5, port) /\ Due(h, 5, other)
    BY <2>5, <2>6 DEF Due, IsVerdict, NoClear, Verdicts
  <2>8. \A j \in LobbyIds, p \in Port : WillWin(h, j, p) => j = k /\ p = port
    BY <2>5, <2>6 DEF WillWin
  <2>9. ASSUME NEW j \in LobbyIds, NEW p \in Port
        PROVE  ~Wins(st, said, j, p)
    <3>1. \A n \in DOMAIN st : st[n] # ClearLobby(j)
      BY DEF ClearLobby
    <3>2. said[j] = {}
      BY <3>1 DEF Settled
    <3>. QED
      BY <3>1, <3>2 DEF Wins, WillWin
  <2>10. \A j \in LobbyIds, n \in DOMAIN h, s \in Seats :
           h[n] = ClearLobby(j) => Due(h, n, lobbies[j][s].port)
    BY <2>4, <2>6, <2>7
  <2>11. \A m \in DOMAIN h, p \in Port :
           h[m] = Send("endGameWon", p) => \E j \in DOMAIN h : m < j /\ h[j].op = "clearLobby"
    <3>1. 5 \in DOMAIN h /\ h[5].op = "clearLobby" /\ 3 < 5
      BY <2>5 DEF ClearLobby
    <3>. QED
      BY <2>6, <3>1
  <2>12. \A n \in DOMAIN h : /\ h[n].op # "receive"
                             /\ h[n].op = "sendToSeat" => h[n].type \notin Verdicts
    BY <2>6
  <2>13. IsFair(h, st, lobbies, said, gone)
    BY <2>4, <2>8, <2>9, <2>10, <2>11, <2>12 DEF IsFair
  <2>. QED
    BY <2>2, <2>13
<1>. QED
  BY <1>1, <1>2

LEMMA FiveCalls ==
  ASSUME NEW a, NEW b, NEW c, NEW d, NEW e
  PROVE  <<a, b, c, d>> \o <<e>> = <<a, b, c, d, e>>
<1> DEFINE S == {a, b, c, d, e}
           left == <<a, b, c, d>>
           all == <<a, b, c, d, e>>
<1>1. left \in Seq(S) /\ <<e>> \in Seq(S) /\ all \in Seq(S) /\ Len(left) = 4 /\ Len(<<e>>) = 1
  OBVIOUS
<1>2. /\ left \o <<e>> \in Seq(S) /\ Len(left \o <<e>>) = 5
      /\ \A n \in 1..5 : (left \o <<e>>)[n] = IF n <= 4 THEN left[n] ELSE <<e>>[n - 4]
  BY <1>1, ConcatProperties
<1>3. \A n \in 1..5 : (left \o <<e>>)[n] = all[n]
  BY <1>2
<1>. QED
  BY <1>1, <1>2, <1>3, SeqEqual

(* The removal of a client who has left tells the other player, whoever was  *)
(* told before.                                                              *)
LEMMA RemovalIsFair ==
  ASSUME NEW st \in Seq(Calls), NEW said, NEW gone, NEW port \in AnyPort, NEW i \in Nat,
         ServerTypeOK, port = NoPort \/ port \in gone,
         Settled(st, lobbies, said, gone)
  PROVE  IsFair(OnClientDisconnection(port) \o <<ResetSlot(i)>>, st, lobbies, said, gone)
<1>1. CASE ~\E k \in LobbyIds : IsFirstGameOf(k, port)
  <2>1. OnClientDisconnection(port) \o <<ResetSlot(i)>> = <<ResetSlot(i)>>
    BY <1>1 DEF OnClientDisconnection
  <2>2. <<ResetSlot(i)>> \in Seq(Calls) /\ \A n \in DOMAIN <<ResetSlot(i)>> : IsQuiet(<<ResetSlot(i)>>[n])
    BY CallTypes DEF IsQuiet, ResetSlot
  <2>. QED
    BY <2>1, <2>2, QuietIsFair
<1>2. CASE \E k \in LobbyIds : IsFirstGameOf(k, port)
  <2>1. PICK k \in LobbyIds : /\ IsFirstGameOf(k, port)
                              /\ k = CHOOSE j \in LobbyIds : IsFirstGameOf(j, port)
    BY <1>2
  <2> DEFINE winner == Opposite(lobbies[k], port).port
             h == <<Send("endGameWon", winner), UpdatePlayerElo(port),
                    UpdatePlayerElo(winner), ClearLobby(k), ResetSlot(i)>>
  <2>2. OnClientDisconnection(port) \o <<ResetSlot(i)>> = h
    <3>1. OnClientDisconnection(port) = <<Send("endGameWon", winner), UpdatePlayerElo(port),
                                          UpdatePlayerElo(winner), ClearLobby(k)>>
      BY <1>2, <2>1 DEF OnClientDisconnection
    <3>. QED
      BY <3>1, FiveCalls
  <2>3. lobbies[k] \in Lobby /\ winner # NoPort
    BY <2>1 DEF ServerTypeOK, IsFirstGameOf, HasOpponent
  <2>4. /\ \A s \in Seats : lobbies[k][s].port \in {port, winner}
        /\ IsSeated(lobbies[k], winner) /\ lobbies[k] # EmptyLobby
    BY <2>3, SeatsOfGame
  <2> HIDE DEF winner
  <2>5. /\ DOMAIN h = 1..5
        /\ h[1] = Send("endGameWon", winner) /\ h[2] = UpdatePlayerElo(port)
        /\ h[3] = UpdatePlayerElo(winner) /\ h[4] = ClearLobby(k) /\ h[5] = ResetSlot(i)
    OBVIOUS
  <2> HIDE DEF h
  <2>6. /\ \A n \in DOMAIN h : h[n].op \in {"updatePlayerElo", "send", "clearLobby", "resetSlot"}
        /\ \A n \in 1..3 : h[n].op # "clearLobby"
        /\ h[4].op = "clearLobby"
        /\ \A p : \A n \in DOMAIN h : h[n] = Send("endGameWon", p) => n = 1 /\ p = winner
        /\ \A j : \A n \in DOMAIN h : h[n] = ClearLobby(j) => n = 4 /\ j = k
    BY <2>5 DEF UpdatePlayerElo, Send, ClearLobby, ResetSlot
  <2>7. Due(h, 4, winner)
    BY <2>5, <2>6 DEF Due, IsVerdict, NoClear, Verdicts
  <2>8. \A j \in LobbyIds, p \in Port : WillWin(h, j, p) => j = k /\ p = winner
    BY <2>5, <2>6 DEF WillWin
  <2>9. \A q \in Port : Wins(st, said, k, q) => q = winner \/ q \in gone
    <3> SUFFICES ASSUME NEW q \in Port, Wins(st, said, k, q) PROVE q = winner \/ q \in gone
      OBVIOUS
    <3>1. IsSeated(lobbies[k], q)
      BY <2>4 DEF Settled
    <3>. QED
      BY <2>4, <3>1, NoPortAssumption DEF IsSeated
  <2>10. IsFair(h, st, lobbies, said, gone)
    BY <2>4, <2>5, <2>6, <2>7, <2>8, <2>9 DEF IsFair
  <2>. QED
    BY <2>2, <2>10
<1>. QED
  BY <1>1, <1>2

LEMMA NothingToSay ==
  ASSUME NEW st, NEW said, NEW gone, \A port \in Port : IsVerdict(st[1], port) => port \in gone
  PROVE  IsSaid(st, said, said, gone)
BY DEF IsSaid
-----------------------------------------------------------------------------
(* One lemma per kind of step.                                               *)

LEMMA RunKeepsVerdicts ==
  ASSUME TypeOK, VerdictsInOrder, stack # <<>>, fault = "none", NEW h \in Seq(Calls), Run(h),
         Call.op # "clearLobby", UNCHANGED <<peer, lobbies>>,
         IsFair(h, stack, lobbies, told, Gone), IsSaid(stack, told, told', Gone)
  PROVE  VerdictsInOrder'
<1>1. Settled(h \o Tail(stack), lobbies, told', Gone)
  BY HeadInDomain, RunSettles DEF VerdictsInOrder, TypeOK, ServerTypeOK
<1>2. Gone' = Gone /\ stack' = h \o Tail(stack) /\ lobbies' = lobbies
  BY DEF Gone, HasLeft, Left, Run
<1>3. Settled(stack', lobbies', told', Gone')
  BY <1>1, <1>2
<1>4. OneWinner'
  BY <1>3 DEF Settled, WinnersAgree, Wins, OneWinner, Gone
<1>. QED
  BY <1>3, <1>4 DEF VerdictsInOrder

LEMMA HaltKeepsVerdicts ==
  ASSUME VerdictsInOrder, NEW why \in Faults \ {"none"}, Halt(why), UNCHANGED <<peer, told>>
  PROVE  VerdictsInOrder'
BY DEF Halt, VerdictsInOrder, OneWinner, HasLeft, Left

LEMMA NotAVerdict ==
  ASSUME TypeOK, stack # <<>>, IsQuiet(Call) \/ Call.op = "receive"
  PROVE  IsSaid(stack, told, told, Gone)
<1>1. stack[1] = Call
  BY HeadInDomain
<1>2. \A port \in Port : ~IsVerdict(stack[1], port)
  BY <1>1 DEF IsVerdict, Send, IsQuiet
<1>. QED
  BY <1>2, NothingToSay

(* A call that makes no calls but quiet ones.                                *)
LEMMA QuietStep ==
  ASSUME TypeOK, VerdictsInOrder, stack # <<>>, fault = "none",
         NEW h \in Seq(Calls), \A n \in DOMAIN h : IsQuiet(h[n]), Run(h),
         UNCHANGED <<peer, lobbies, told>>, IsQuiet(Call) \/ Call.op = "receive"
  PROVE  VerdictsInOrder'
<1>1. IsFair(h, stack, lobbies, told, Gone)
  BY QuietIsFair
<1>2. IsSaid(stack, told, told', Gone)
  BY NotAVerdict
<1>3. Call.op # "clearLobby"
  BY DEF IsQuiet
<1>. QED
  BY <1>1, <1>2, <1>3, RunKeepsVerdicts

LEMMA NoCallsAreQuiet ==
  <<>> \in Seq(Calls) /\ \A n \in DOMAIN <<>> : IsQuiet(<<>>[n])
BY EmptySeq

LEMMA InnerStepVerdicts ==
  ASSUME TypeOK, VerdictsInOrder,
         SkipSlot \/ FinishRemoval \/ StartGameIfComplete \/ AskElo \/ AskIdentity
  PROVE  VerdictsInOrder'
<1>1. /\ stack # <<>> /\ fault = "none" /\ UNCHANGED <<peer, lobbies, told>> /\ Call \in Calls
      /\ Call.op \in {"receive", "resetSlot", "startIfComplete", "updatePlayerElo", "identifyClient"}
  BY CallType DEF SkipSlot, FinishRemoval, StartGameIfComplete, AskElo, AskIdentity, Next1, Call,
     netVars, serverVars
<1>2. IsQuiet(Call) \/ Call.op = "receive"
  BY <1>1 DEF IsQuiet
<1>3. CASE Run(<<>>)
  BY <1>1, <1>2, <1>3, NoCallsAreQuiet, QuietStep
<1>4. CASE StartGameIfComplete
  <2>1. Call.lobby \in LobbyIds /\ Run(StartGame(Call.lobby))
    BY <1>1, <1>4 DEF StartGameIfComplete, Next1, Call, Calls, ServerCalls
  <2>2. \A n \in DOMAIN StartGame(Call.lobby) : IsQuiet(StartGame(Call.lobby)[n])
    BY DEF StartGame, SendToSeat, IsQuiet, Verdicts
  <2>. QED
    BY <1>1, <1>2, <2>1, <2>2, StartGameType, QuietStep
<1>5. ASSUME NEW type \in {"eloUpdated", "clientIdentification"}, Run(<<Send(type, Call.port)>>),
             AskElo \/ AskIdentity
      PROVE  VerdictsInOrder'
  <2>1. Call.port \in AnyPort
    BY <1>1, <1>5 DEF AskElo, AskIdentity, Next1, Call, Calls, ServerCalls, AnyPort
  <2>2. <<Send(type, Call.port)>> \in Seq(Calls)
    BY <2>1, CallTypes DEF ServerPackets
  <2>3. \A n \in DOMAIN <<Send(type, Call.port)>> : IsQuiet(<<Send(type, Call.port)>>[n])
    BY DEF IsQuiet, Send, Verdicts
  <2>. QED
    BY <1>1, <1>2, <1>5, <2>2, <2>3, QuietStep
<1>6. CASE Halt("badReply")
  BY <1>1, <1>6, HaltKeepsVerdicts DEF Faults
<1>. QED
  BY <1>3, <1>4, <1>5, <1>6 DEF SkipSlot, FinishRemoval, AskElo, AskIdentity

(* Of the handlers only the claim of a victory says a verdict.               *)
LEMMA ForwardsAreQuiet ==
  ASSUME NEW port, NEW h,
         h = <<>> \/ h = OnNewTurn(port) \/ h = OnCueBallVelocity(port) \/ h = <<IdentifyClient(port)>>
  PROVE  \A n \in DOMAIN h : IsQuiet(h[n])
BY DEF OnNewTurn, OnCueBallVelocity, IdentifyClient, Send, IsQuiet, Verdicts

(* While slots are read nothing is about to be cleared.                      *)
LEMMA ReadingVerdicts ==
  ASSUME TypeOK, VerdictsInOrder, Next1("receive")
  PROVE  /\ \A n \in DOMAIN stack : stack[n].op = "receive"
         /\ Settled(stack, lobbies, told, Gone) /\ \A k \in LobbyIds : told[k] = {}
<1>1. Settled(stack, lobbies, told, Gone) /\ stack # <<>> /\ Call.op = "receive"
  BY DEF VerdictsInOrder, Next1, Call
<1>2. 1 \in DOMAIN stack /\ stack[1].op = "receive" /\ DOMAIN stack = 1..Len(stack)
      /\ Len(stack) \in Nat
  BY <1>1, HeadInDomain, LenProperties DEF TypeOK
<1>3. \A n \in DOMAIN stack : stack[n].op = "receive"
  BY <1>1, <1>2 DEF Settled
<1>4. \A k \in LobbyIds : told[k] = {}
  BY <1>1, <1>3 DEF Settled, ClearLobby
<1>. QED
  BY <1>1, <1>3, <1>4

LEMMA QuietSettled ==
  ASSUME NEW calls, NEW tables, NEW said, NEW gone,
         \A m, n \in DOMAIN calls : m < n /\ calls[m].op = "receive" => calls[n].op = "receive",
         \A n \in DOMAIN calls : IsQuiet(calls[n]) \/ calls[n].op = "receive",
         \A k \in LobbyIds : said[k] = {}
  PROVE  Settled(calls, tables, said, gone)
<1>1. \A n \in DOMAIN calls, k \in LobbyIds : calls[n] # ClearLobby(k)
  BY DEF IsQuiet, ClearLobby
<1>2. \A k \in LobbyIds, p \in Port : ~Wins(calls, said, k, p)
  BY <1>1 DEF Wins, WillWin
<1>3. \A n \in DOMAIN calls : calls[n].op = "sendToSeat" => calls[n].type \notin Verdicts
  BY DEF IsQuiet
<1>. QED
  BY <1>1, <1>2, <1>3 DEF Settled, WinnersAgree

LEMMA JoinVerdicts ==
  ASSUME TypeOK, VerdictsInOrder, Next1("receive"), NEW data \in ClientData,
         AddClientToLobby(data), UNCHANGED peer
  PROVE  VerdictsInOrder'
<1>0. stack # <<>> /\ fault = "none"
  BY DEF Next1
<1>1. CASE \E k \in LobbyIds :
             /\ IsFirstOpen(k)
             /\ lobbies' = [lobbies EXCEPT ![k] = AddClient(@, data)]
             /\ Run(<<Send("joinLobby", data.port), StartIfComplete(k)>>)
             /\ UNCHANGED <<is_database_connected, told>>
  <2>1. PICK k \in LobbyIds :
          Run(<<Send("joinLobby", data.port), StartIfComplete(k)>>) /\ UNCHANGED told
    BY <1>1
  <2> DEFINE h == <<Send("joinLobby", data.port), StartIfComplete(k)>>
             new == h \o Tail(stack)
  <2>2. h \in Seq(Calls)
    BY CallTypes DEF AnyPort, ClientData, ServerPackets
  <2>3. \A n \in DOMAIN h : IsQuiet(h[n])
    BY DEF Send, StartIfComplete, IsQuiet, Verdicts
  <2>4. new = stack'
    BY <2>1 DEF Run
  <2> HIDE DEF h
  <2>5. /\ DOMAIN new = 1..Len(new) /\ DOMAIN h = 1..Len(h) /\ Len(h) \in Nat /\ Len(new) \in Nat
        /\ \A i \in 1..Len(h) : new[i] = h[i]
        /\ \A i \in DOMAIN new : i > Len(h) => i - Len(h) + 1 \in DOMAIN stack
                                              /\ new[i] = stack[i - Len(h) + 1]
    BY <1>0, <2>2, Pushed DEF TypeOK
  <2> HIDE DEF new
  <2>6. \A n \in DOMAIN new : IF n <= Len(h) THEN IsQuiet(new[n]) ELSE new[n].op = "receive"
    BY <2>3, <2>5, ReadingVerdicts
  <2>7. \A m, n \in DOMAIN new : m < n /\ new[m].op = "receive" => new[n].op = "receive"
    BY <2>5, <2>6 DEF IsQuiet
  <2>8. \A k1 \in LobbyIds : told'[k1] = {}
    BY <2>1, ReadingVerdicts
  <2>9. Settled(new, lobbies', told', Gone')
    BY <2>6, <2>7, <2>8, QuietSettled
  <2>10. OneWinner'
    BY <2>8 DEF OneWinner
  <2>. QED
    BY <2>4, <2>9, <2>10 DEF VerdictsInOrder
<1>2. CASE Halt("lobbyOverflow") /\ UNCHANGED <<serverVars, told>>
  BY <1>2, HaltKeepsVerdicts DEF Faults
<1>. QED
  BY <1>1, <1>2 DEF AddClientToLobby

LEMMA ReceiveVerdicts ==
  ASSUME TypeOK, VerdictsInOrder, NEW c \in Conn, ReceivePacket(c) \/ ReceiveFragment(c)
  PROVE  VerdictsInOrder'
<1>0. UNCHANGED peer /\ stack # <<>> /\ fault = "none" /\ Next1("receive") /\ Call.op = "receive"
  BY DEF ReceivePacket, ReceiveFragment, Receiving, Next1, Call
<1>1. ASSUME NEW type, NEW name \in Conn \cup {NoName}, OnPacketReceived(type, RemotePort(c), name)
      PROVE  VerdictsInOrder'
  <2> DEFINE port == RemotePort(c)
  <2>1. port \in AnyPort /\ ServerTypeOK
    BY RemotePortType DEF TypeOK
  <2>2. CASE AddClientToLobby([username |-> name, port |-> port])
    <3>1. [username |-> name, port |-> port] \in ClientData
      BY <2>1 DEF ClientData, AnyPort
    <3>. QED
      BY <1>0, <2>2, <3>1, JoinVerdicts
  <2>3. ASSUME NEW h \in Seq(Calls), Run(h), UNCHANGED <<serverVars, told>>,
               \/ h = <<>> \/ h = OnNewTurn(port) \/ h = OnCueBallVelocity(port)
               \/ h = <<IdentifyClient(port)>>
        PROVE  VerdictsInOrder'
    BY <1>0, <2>3, ForwardsAreQuiet, QuietStep DEF serverVars
  <2>4. CASE Run(OnEndGame(port)) /\ UNCHANGED <<serverVars, told>>
    <3>1. IsFair(OnEndGame(port), stack, lobbies, told, Gone)
      BY <1>0, <2>1, ReadingVerdicts, ClaimIsFair DEF TypeOK
    <3>2. IsSaid(stack, told, told', Gone)
      BY <1>0, <2>4, NotAVerdict
    <3>. QED
      BY <1>0, <2>1, <2>4, <3>1, <3>2, HandlerTypes, RunKeepsVerdicts DEF serverVars
  <2>5. <<>> \in Seq(Calls) /\ <<IdentifyClient(port)>> \in Seq(Calls)
    BY <2>1, CallTypes
  <2>. QED
    BY <1>1, <2>1, <2>2, <2>3, <2>4, <2>5, HandlerTypes DEF OnPacketReceived
<1>. QED
  BY <1>1 DEF ReceivePacket, ReceiveFragment
(* A client is removed after it left; what it was due need not be said.      *)
LEMMA RemovalVerdicts ==
  ASSUME TypeOK, VerdictsInOrder, stack # <<>>, fault = "none", NEW i \in Nat,
         clients[i] \in Left, RemoveClient(i), UNCHANGED <<peer, lobbies, told>>,
         Call.op # "clearLobby", IsSaid(stack, told, told, Gone)
  PROVE  VerdictsInOrder'
<1> DEFINE port == RemotePort(clients[i])
<1>1. clients[i] \in Conn
  BY DEF Left
<1>2. port \in AnyPort /\ ServerTypeOK
  BY <1>1, RemotePortType DEF TypeOK
<1>3. port = NoPort \/ port \in Gone
  BY <1>1, PortAssumption DEF RemotePort, Gone, HasLeft
<1> HIDE DEF port
<1>4. CASE Run(OnClientDisconnection(port) \o <<ResetSlot(i)>>)
  <2>1. OnClientDisconnection(port) \o <<ResetSlot(i)>> \in Seq(Calls)
    <3>1. <<ResetSlot(i)>> \in Seq(Calls)
      BY CallTypes
    <3>. QED
      BY <1>2, <3>1, HandlerTypes, ConcatProperties
  <2>2. IsFair(OnClientDisconnection(port) \o <<ResetSlot(i)>>, stack, lobbies, told, Gone)
    BY <1>2, <1>3, RemovalIsFair DEF TypeOK, VerdictsInOrder
  <2>. QED
    BY <1>4, <2>1, <2>2, RunKeepsVerdicts
<1>5. CASE Halt("stackOverflow")
  BY <1>5, HaltKeepsVerdicts DEF Faults
<1>. QED
  BY <1>4, <1>5 DEF RemoveClient, port

LEMMA ReceiveEndVerdicts ==
  ASSUME TypeOK, VerdictsInOrder, NEW c \in Conn, ReceiveEnd(c)
  PROVE  VerdictsInOrder'
<1>1. /\ UNCHANGED <<peer, lobbies, told>> /\ stack # <<>> /\ fault = "none" /\ Next1("receive")
      /\ Call.op = "receive" /\ clients[Call.slot] \in Left /\ RemoveClient(Call.slot)
  BY DEF ReceiveEnd, Receiving, Next1, Call, serverVars, Left
<1>2. Call.slot \in Nat
  BY <1>1, ReceiveSlotType
<1>3. IsSaid(stack, told, told, Gone)
  BY <1>1, NotAVerdict
<1>. QED
  BY <1>1, <1>2, <1>3, RemovalVerdicts

LEMMA SendingFacts ==
  ASSUME TypeOK, VerdictsInOrder, Sending
  PROVE  /\ stack # <<>> /\ fault = "none" /\ Call.op # "clearLobby" /\ stack[1] = Call
         /\ \A port : \A v \in Verdicts : Call = Send(v, port) => Call.type = v /\ Target = port
         /\ Call.type \in Verdicts => Call = Send(Call.type, Target)
<1>1. stack # <<>> /\ fault = "none" /\ Call \in Calls /\ Call.op \in {"send", "sendToSeat"}
      /\ stack[1] = Call /\ 1 \in DOMAIN stack
  BY CallType, HeadInDomain DEF Sending, Next1, Call
<1>2. \A port : \A v \in Verdicts : Call = Send(v, port) => Call.type = v /\ Target = port
  BY DEF Send, Target
<1>3. ASSUME Call.type \in Verdicts
      PROVE  Call = Send(Call.type, Target)
  <2>1. Call.op = "send"
    BY <1>1, <1>3 DEF VerdictsInOrder, Settled
  <2>. QED
    BY <1>1, <2>1 DEF Calls, ServerCalls, Send, Target
<1>. QED
  BY <1>1, <1>2, <1>3

LEMMA SendDoneVerdicts ==
  ASSUME TypeOK, VerdictsInOrder, NEW i \in Slots, SendDone(i)
  PROVE  VerdictsInOrder'
<1>1. /\ Sending /\ Run(<<>>) /\ UNCHANGED <<peer, lobbies>>
      /\ \A k \in LobbyIds : told'[k] = IF Call.type \in Verdicts /\ IsClosing(k)
                                        THEN told[k] \cup {<<Call.type, Target>>} ELSE told[k]
  BY DEF SendDone, netVars, serverVars
<1>2. \A k \in LobbyIds : IsClosing(k) <=>
        \E n \in DOMAIN stack : stack[n] = ClearLobby(k) /\ NoClear(stack, 1, n)
  BY DEF IsClosing, NoClear
<1>3. IsSaid(stack, told, told', Gone)
  <2>1. ASSUME NEW k \in LobbyIds, NEW port \in Port, NEW n \in DOMAIN stack,
               stack[n] = ClearLobby(k), NoClear(stack, 1, n), IsVerdict(stack[1], port)
        PROVE  \E v \in Verdicts : <<v, port>> \in told'[k]
    <3>1. PICK v \in Verdicts : Call = Send(v, port)
      BY <1>1, <2>1, SendingFacts DEF IsVerdict
    <3>2. Call.type = v /\ Target = port
      BY <1>1, <3>1, SendingFacts
    <3>. QED
      BY <1>1, <1>2, <2>1, <3>2
  <2>2. ASSUME NEW k \in LobbyIds, NEW x \in told'[k], x \notin told[k]
        PROVE  \E n \in DOMAIN stack : /\ stack[n] = ClearLobby(k) /\ NoClear(stack, 1, n)
                                       /\ stack[1] = Send(x[1], x[2])
    <3>1. Call.type \in Verdicts /\ IsClosing(k) /\ x = <<Call.type, Target>>
      BY <1>1, <2>2
    <3>2. stack[1] = Send(x[1], x[2])
      BY <1>1, <3>1, SendingFacts
    <3>. QED
      BY <1>2, <3>1, <3>2
  <2>3. \A k \in LobbyIds : told[k] \subseteq told'[k]
    BY <1>1
  <2>. QED
    BY <2>1, <2>2, <2>3 DEF IsSaid
<1>4. IsFair(<<>>, stack, lobbies, told, Gone)
  BY NoCallsAreQuiet, QuietIsFair
<1>. QED
  BY <1>1, <1>3, <1>4, SendingFacts, NoCallsAreQuiet, RunKeepsVerdicts

(* The port 0, which the first dead socket has, is nobody's.                 *)
LEMMA SendErrorVerdicts ==
  ASSUME TypeOK, VerdictsInOrder, NEW i \in Slots, SendError(i)
  PROVE  VerdictsInOrder'
<1>1. Sending /\ Run(<<>>) /\ UNCHANGED <<peer, lobbies, told>> /\ Target = NoPort
  BY DEF SendError, netVars, serverVars, IsSlotOf, Answers, RemotePort
<1>2. \A port \in Port : ~IsVerdict(stack[1], port)
  BY <1>1, SendingFacts, NoPortAssumption DEF IsVerdict
<1>3. IsSaid(stack, told, told', Gone)
  BY <1>1, <1>2, NothingToSay
<1>4. IsFair(<<>>, stack, lobbies, told, Gone)
  BY NoCallsAreQuiet, QuietIsFair
<1>. QED
  BY <1>1, <1>3, <1>4, SendingFacts, NoCallsAreQuiet, RunKeepsVerdicts

LEMMA SendDisconnectedVerdicts ==
  ASSUME TypeOK, VerdictsInOrder, NEW i \in Slots, SendDisconnected(i)
  PROVE  VerdictsInOrder'
<1>1. /\ Sending /\ RemoveClient(i) /\ UNCHANGED <<peer, lobbies, told>>
      /\ clients[i] \in Left /\ RemotePort(clients[i]) = Target
  BY DEF SendDisconnected, netVars, serverVars, IsSlotOf, Answers, Left
<1>2. \A port \in Port : IsVerdict(stack[1], port) => port \in Gone
  <2> SUFFICES ASSUME NEW port \in Port, IsVerdict(stack[1], port) PROVE port \in Gone
    OBVIOUS
  <2>1. Target = port
    BY <1>1, SendingFacts DEF IsVerdict
  <2>. QED
    BY <1>1, <2>1, NoPortAssumption DEF RemotePort, Gone, HasLeft
<1>3. IsSaid(stack, told, told, Gone)
  BY <1>2, NothingToSay
<1>4. i \in Nat
  BY LenProperties DEF Slots, TypeOK, NetTypeOK
<1>. QED
  BY <1>1, <1>3, <1>4, SendingFacts, RemovalVerdicts

LEMMA PollVerdicts ==
  ASSUME TypeOK, VerdictsInOrder, PollClientsPackets
  PROVE  VerdictsInOrder'
<1>1. /\ fault = "none" /\ stack = <<>> /\ UNCHANGED <<peer, lobbies, told>>
      /\ stack' = [i \in Slots |-> ReceiveFrom(i)]
  BY DEF PollClientsPackets, netVars, serverVars
<1>2. \A n \in DOMAIN stack' : stack'[n].op = "receive"
  BY <1>1 DEF ReceiveFrom
<1>3. \A k \in LobbyIds : told'[k] = {}
  BY <1>1 DEF VerdictsInOrder, Settled
<1>4. Settled(stack', lobbies', told', Gone')
  BY <1>2, <1>3, QuietSettled
<1>. QED
  BY <1>3, <1>4 DEF VerdictsInOrder, OneWinner
LEMMA ClearVerdicts ==
  ASSUME TypeOK, VerdictsInOrder, Clear
  PROVE  VerdictsInOrder'
<1> DEFINE k == Call.lobby
<1>1. /\ stack # <<>> /\ Run(<<>>) /\ UNCHANGED peer /\ Call \in Calls /\ Call.op = "clearLobby"
      /\ lobbies' = [lobbies EXCEPT ![k] = EmptyLobby] /\ told' = [told EXCEPT ![k] = {}]
      /\ Settled(stack, lobbies, told, Gone) /\ stack[1] = Call
  BY CallType, HeadInDomain DEF Clear, Next1, Call, netVars, VerdictsInOrder
<1>2. k \in LobbyIds /\ Call = ClearLobby(k)
  BY <1>1 DEF Calls, ServerCalls, ClearLobby
<1> HIDE DEF k
<1> DEFINE new == <<>> \o Tail(stack)
<1>3. /\ DOMAIN new = 1..Len(new) /\ DOMAIN stack = 1..Len(stack)
      /\ Len(stack) \in Nat /\ Len(new) \in Nat /\ Len(new) = Len(stack) - 1
      /\ \A i \in DOMAIN new : i + 1 \in DOMAIN stack /\ new[i] = stack[i + 1]
  <2>1. <<>> \in Seq(Calls) /\ Len(<<>>) = 0
    BY EmptySeq
  <2>2. /\ DOMAIN new = 1..Len(new) /\ DOMAIN stack = 1..Len(stack)
        /\ Len(stack) \in Nat /\ Len(new) \in Nat /\ Len(new) = Len(<<>>) + Len(stack) - 1
        /\ \A i \in DOMAIN new : i > Len(<<>>) => i - Len(<<>>) + 1 \in DOMAIN stack
                                              /\ new[i] = stack[i - Len(<<>>) + 1]
    BY <1>1, <2>1, Pushed DEF TypeOK
  <2>3. \A i \in DOMAIN new : i > Len(<<>>) /\ i - Len(<<>>) + 1 = i + 1
    BY <2>1, <2>2
  <2>. QED
    BY <2>1, <2>2, <2>3
<1>4. \A j, p : WillWin(new, j, p) => WillWin(stack, j, p)
  <2> SUFFICES ASSUME NEW j, NEW p, WillWin(new, j, p) PROVE WillWin(stack, j, p)
    OBVIOUS
  <2>1. <<>> \in Seq(Calls) /\ DOMAIN <<>> = {}
    BY EmptySeq
  <2>2. ~WillWin(<<>>, j, p)
    BY <2>1 DEF WillWin
  <2>. QED
    BY <1>1, <2>1, <2>2, PushedWins DEF TypeOK
<1>5. \A port : \A n \in DOMAIN stack : n # 1 /\ Due(stack, n, port) => Due(new, n - 1, port)
  <2> SUFFICES ASSUME NEW n \in DOMAIN stack, NEW port, n # 1, Due(stack, n, port)
               PROVE  Due(new, n - 1, port)
    OBVIOUS
  <2>1. <<>> \in Seq(Calls) /\ Len(<<>>) = 0
    BY EmptySeq
  <2>2. ~IsVerdict(stack[1], port)
    BY <1>1 DEF IsVerdict, Send
  <2>3. Due(new, n - 1 + Len(<<>>), port)
    BY <1>1, <2>1, <2>2, PushedDue DEF TypeOK
  <2>4. n - 1 + Len(<<>>) = n - 1
    BY <1>3, <2>1
  <2>. QED
    BY <2>3, <2>4
<1>6. stack' = new /\ Gone' = Gone
  BY <1>1 DEF Run, Gone, HasLeft, Left
<1> HIDE DEF new
<1>7. \A j \in LobbyIds : /\ told'[j] = IF j = k THEN {} ELSE told[j]
                          /\ lobbies'[j] = IF j = k THEN EmptyLobby ELSE lobbies[j]
  BY <1>1, <1>2 DEF TypeOK, ServerTypeOK
<1>8. \A m, n \in DOMAIN new : m < n /\ new[m].op = "receive" => new[n].op = "receive"
  BY <1>1, <1>3 DEF Settled
<1>9. \A n \in DOMAIN new : new[n].op = "sendToSeat" => new[n].type \notin Verdicts
  BY <1>1, <1>3 DEF Settled
<1>10. ASSUME NEW j \in LobbyIds, told'[j] # {}
       PROVE  \E n \in DOMAIN new : new[n] = ClearLobby(j)
  <2>1. j # k /\ told[j] # {}
    BY <1>7, <1>10
  <2>2. PICK n \in DOMAIN stack : stack[n] = ClearLobby(j)
    BY <1>1, <2>1 DEF Settled
  <2>3. n # 1
    BY <1>1, <1>2, <2>1, <2>2 DEF ClearLobby
  <2>4. n - 1 \in DOMAIN new /\ (n - 1) + 1 = n
    BY <1>3, <2>3
  <2>. QED
    BY <1>3, <2>2, <2>4
<1>11. ASSUME NEW j \in LobbyIds, NEW n \in DOMAIN new, NEW s \in Seats,
              new[n] = ClearLobby(j), lobbies'[j][s].port # NoPort
       PROVE  \/ \E v \in Verdicts : <<v, lobbies'[j][s].port>> \in told'[j]
              \/ lobbies'[j][s].port \in Gone
              \/ Due(new, n, lobbies'[j][s].port)
  <2>1. j # k
    BY <1>7, <1>11 DEF EmptyLobby, NoClient
  <2>2. lobbies'[j] = lobbies[j] /\ told'[j] = told[j]
    BY <1>7, <2>1
  <2>3. n + 1 \in DOMAIN stack /\ stack[n + 1] = ClearLobby(j) /\ n + 1 # 1 /\ (n + 1) - 1 = n
    BY <1>3, <1>11
  <2>4. \/ \E v \in Verdicts : <<v, lobbies[j][s].port>> \in told[j]
        \/ lobbies[j][s].port \in Gone
        \/ Due(stack, n + 1, lobbies[j][s].port)
    BY <1>1, <1>11, <2>2, <2>3 DEF Settled
  <2>5. Due(stack, n + 1, lobbies[j][s].port) => Due(new, (n + 1) - 1, lobbies[j][s].port)
    BY <1>5, <2>3
  <2>. QED
    BY <2>2, <2>3, <2>4, <2>5
<1>12. \A j \in LobbyIds, p \in Port : Wins(new, told', j, p) => Wins(stack, told, j, p)
  BY <1>4, <1>7 DEF Wins
<1>13. \A j \in LobbyIds, p \in Port :
         Wins(new, told', j, p) => IsSeated(lobbies'[j], p) \/ lobbies'[j] = EmptyLobby
  BY <1>1, <1>7, <1>12 DEF Settled
<1>14. WinnersAgree(new, told', Gone)
  BY <1>1, <1>12 DEF Settled, WinnersAgree
<1>15. Settled(new, lobbies', told', Gone)
  BY <1>8, <1>9, <1>10, <1>11, <1>13, <1>14 DEF Settled
<1>16. OneWinner'
  BY <1>6, <1>14 DEF OneWinner, WinnersAgree, Wins, Gone
<1>. QED
  BY <1>6, <1>15, <1>16 DEF VerdictsInOrder

LEMMA SettledWidens ==
  ASSUME NEW calls, NEW tables, NEW said, NEW gone1, NEW gone2, gone1 \subseteq gone2,
         Settled(calls, tables, said, gone1)
  PROVE  Settled(calls, tables, said, gone2)
<1>1. WinnersAgree(calls, said, gone2)
  BY DEF Settled, WinnersAgree
<1>. QED
  BY <1>1 DEF Settled

(* Who has left does not come back.                                          *)
LEMMA ClientStepVerdicts ==
  ASSUME TypeOK, VerdictsInOrder, ClientStep
  PROVE  VerdictsInOrder'
<1>1. PICK c \in Conn :
         \/ Connect(c) \/ ArrivePiece(c) \/ Close(c) \/ Reset(c)
         \/ \E type \in ClientPackets : Arrive(c, type)
  BY DEF ClientStep
<1>2. UNCHANGED <<lobbies, stack, fault, told>>
  BY DEF ClientStep, serverVars
<1>3. Left \subseteq Left'
  BY <1>1 DEF Left, Connect, ArrivePiece, Close, Reset, Arrive, TypeOK, NetTypeOK
<1>4. \A port : HasLeft(port) => HasLeft(port)'
  BY <1>3 DEF HasLeft
<1>5. Gone \subseteq Gone'
  BY <1>4 DEF Gone
<1>6. fault' = "none" => Settled(stack, lobbies, told, Gone)'
  BY <1>2, <1>5, SettledWidens DEF VerdictsInOrder
<1>7. OneWinner'
  BY <1>2, <1>4 DEF VerdictsInOrder, OneWinner
<1>. QED
  BY <1>6, <1>7 DEF VerdictsInOrder

LEMMA VerdictsKept ==
  TypeOK /\ VerdictsInOrder /\ [Next]_vars => VerdictsInOrder'
<1>. SUFFICES ASSUME TypeOK, VerdictsInOrder, [Next]_vars PROVE VerdictsInOrder'
  OBVIOUS
<1>1. ASSUME NEW c \in Conn, ReceivePacket(c) \/ ReceiveFragment(c) \/ ReceiveEnd(c)
      PROVE  VerdictsInOrder'
  BY <1>1, ReceiveVerdicts, ReceiveEndVerdicts
<1>2. ASSUME NEW i \in Slots, SendDone(i) \/ SendError(i) \/ SendDisconnected(i)
      PROVE  VerdictsInOrder'
  BY <1>2, SendDoneVerdicts, SendErrorVerdicts, SendDisconnectedVerdicts
<1>3. CASE SendUnknown
  BY <1>3, HaltKeepsVerdicts DEF SendUnknown, netVars, Faults
<1>4. CASE PollClientsConnections \/ UNCHANGED vars
  <2>1. UNCHANGED <<peer, lobbies, stack, fault, told>>
    BY <1>4 DEF PollClientsConnections, Accept, serverVars, vars
  <2>2. UNCHANGED Gone
    BY <2>1 DEF Gone, HasLeft, Left
  <2>3. OneWinner'
    BY <2>1 DEF VerdictsInOrder, OneWinner, HasLeft, Left
  <2>. QED
    BY <2>1, <2>2, <2>3 DEF VerdictsInOrder
<1>5. CASE ClientStep
  BY <1>5, ClientStepVerdicts
<1>. QED
  BY <1>1, <1>2, <1>3, <1>4, <1>5, PollVerdicts, InnerStepVerdicts, ClearVerdicts DEF Next, ServerStep

LEMMA VerdictsAlways == Spec => []VerdictsInOrder
<1>1. Init => VerdictsInOrder
  <2>. SUFFICES ASSUME Init PROVE VerdictsInOrder
    OBVIOUS
  <2>1. stack = <<>> /\ \A k \in LobbyIds : told[k] = {}
    BY DEF Init
  <2>2. \A n \in DOMAIN stack : FALSE
    BY <2>1, EmptySeq
  <2>3. Settled(stack, lobbies, told, Gone)
    BY <2>1, <2>2, QuietSettled
  <2>. QED
    BY <2>1, <2>3 DEF VerdictsInOrder, OneWinner
<1>. QED
  BY <1>1, VerdictsKept, TypeCorrect, PTL DEF Spec

(* Nobody is told to have won a game whose other player was told so too and  *)
(* is still there, no matter how many handlers are nested in one another.    *)
THEOREM OneWinnerPerGame == Spec => []OneWinner
<1>1. VerdictsInOrder => OneWinner
  BY DEF VerdictsInOrder
<1>. QED
  BY <1>1, VerdictsAlways, PTL

(* A step that empties a lobby is ClearLobby: no join leaves it empty.       *)
LEMMA OnlyClearEmpties ==
  ASSUME TypeOK, SeatOrder, [Next]_vars, NEW k \in LobbyIds, NEW s \in Seats,
         lobbies[k][s].port # NoPort, lobbies'[k] = EmptyLobby
  PROVE  Clear
<1>1. lobbies' # lobbies
  BY DEF EmptyLobby, NoClient
<1>2. ASSUME NEW data \in ClientData, AddClientToLobby(data)
      PROVE  FALSE
  <2>1. PICK j \in LobbyIds : lobbies' = [lobbies EXCEPT ![j] = AddClient(@, data)]
    BY <1>1, <1>2 DEF AddClientToLobby, serverVars
  <2>2. lobbies[k][1].port # NoPort
    BY DEF SeatOrder, Seats
  <2>3. lobbies'[k][1].port # NoPort
    BY <2>1, <2>2 DEF AddClient, TypeOK, ServerTypeOK, Lobby, Seats
  <2>. QED
    BY <2>3 DEF EmptyLobby, NoClient, Seats
<1>3. ASSUME NEW type, NEW c \in Conn, NEW name \in Conn \cup {NoName},
             OnPacketReceived(type, RemotePort(c), name)
      PROVE  FALSE
  <2>1. [username |-> name, port |-> RemotePort(c)] \in ClientData
    BY RemotePortType DEF ClientData, AnyPort
  <2>. QED
    BY <1>1, <1>2, <1>3, <2>1 DEF OnPacketReceived, serverVars
<1>4. \A c \in Conn : ~ReceivePacket(c) /\ ~ReceiveFragment(c)
  BY <1>3 DEF ReceivePacket, ReceiveFragment
<1>5. \A c \in Conn : ~ReceiveEnd(c)
  BY <1>1 DEF ReceiveEnd, serverVars
<1>6. \A i \in Slots : ~SendDone(i) /\ ~SendError(i) /\ ~SendDisconnected(i)
  BY <1>1 DEF SendDone, SendError, SendDisconnected, serverVars
<1>. QED
  BY <1>1, <1>4, <1>5, <1>6 DEF Next, ServerStep, ClientStep, PollClientsConnections,
     PollClientsPackets, SkipSlot, SendUnknown, FinishRemoval, StartGameIfComplete,
     AskElo, AskIdentity, serverVars, vars

LEMMA ClearedAfterVerdict ==
  ASSUME TypeOK, SeatOrder, VerdictsInOrder, [Next]_vars, NEW k \in LobbyIds, NEW s \in Seats,
         lobbies[k][s].port # NoPort, lobbies'[k] = EmptyLobby
  PROVE  (\E v \in Verdicts : <<v, lobbies[k][s].port>> \in told[k]) \/ HasLeft(lobbies[k][s].port)
<1>1. Clear
  BY OnlyClearEmpties
<1>2. /\ stack # <<>> /\ Call \in Calls /\ Call.op = "clearLobby" /\ 1 \in DOMAIN stack
      /\ lobbies' = [lobbies EXCEPT ![Call.lobby] = EmptyLobby]
      /\ Settled(stack, lobbies, told, Gone) /\ stack[1] = Call
  BY <1>1, CallType, HeadInDomain DEF Clear, Next1, Call, VerdictsInOrder
<1>3. Call.lobby \in LobbyIds /\ Call = ClearLobby(Call.lobby)
  BY <1>2 DEF Calls, ServerCalls, ClearLobby
<1>4. k = Call.lobby
  BY <1>2, <1>3 DEF EmptyLobby, NoClient, TypeOK, ServerTypeOK
<1>5. ~Due(stack, 1, lobbies[k][s].port)
  BY DEF Due
<1>6. \/ \E v \in Verdicts : <<v, lobbies[k][s].port>> \in told[k]
      \/ lobbies[k][s].port \in Gone
  BY <1>2, <1>3, <1>4, <1>5 DEF Settled
<1>. QED
  BY <1>6 DEF Gone

(* Every player of a lobby that is cleared was sent a verdict or has left.   *)
THEOREM VerdictsComeFirst == Spec => VerdictBeforeClear
<1> DEFINE Told == \A k \in LobbyIds : \A s \in Seats :
       LET port == lobbies[k][s].port IN
       port # NoPort /\ lobbies'[k] = EmptyLobby
         => (\E v \in Verdicts : <<v, port>> \in told[k]) \/ HasLeft(port)
<1>1. TypeOK /\ SeatOrder /\ VerdictsInOrder /\ [Next]_vars => [Told]_vars
  BY ClearedAfterVerdict
<1>. QED
  BY <1>1, TypeCorrect, SeatsInOrder, VerdictsAlways, PTL DEF Spec, VerdictBeforeClear

-----------------------------------------------------------------------------
(* A handler is as good as one step, as long as no connection is reset.      *)

AnyPacket == [type : ServerPackets, port : AnyPort]
Silent == {"receive", "resetSlot", "clearLobby"}

(* What PacketsOf gives for each kind of call.                               *)
LEMMA PacketsOfKind ==
  ASSUME NEW call, NEW tables
  PROVE  /\ call.op = "send" => PacketsOf(call, tables) = <<Packet(call.type, call.port)>>
         /\ call.op = "sendToSeat" =>
              PacketsOf(call, tables) = <<Packet(call.type, tables[call.lobby][call.seat].port)>>
         /\ call.op = "updatePlayerElo" =>
              PacketsOf(call, tables) = <<Packet("eloUpdated", call.port)>>
         /\ call.op = "identifyClient" =>
              PacketsOf(call, tables) = <<Packet("clientIdentification", call.port)>>
         /\ call.op = "startIfComplete" /\ IsComplete(tables[call.lobby]) =>
              PacketsOf(call, tables) = <<Packet("startGame0", tables[call.lobby][1].port),
                                          Packet("startGame1", tables[call.lobby][2].port),
                                          Packet("newTurn", tables[call.lobby][1].port)>>
         /\ call.op = "startIfComplete" /\ ~IsComplete(tables[call.lobby]) =>
              PacketsOf(call, tables) = <<>>
         /\ call.op \in Silent => PacketsOf(call, tables) = <<>>
<1>1. call.op = "send" => PacketsOf(call, tables) = <<Packet(call.type, call.port)>>
  BY Zenon DEF PacketsOf
<1>2. call.op = "sendToSeat" =>
        PacketsOf(call, tables) = <<Packet(call.type, tables[call.lobby][call.seat].port)>>
  BY Zenon DEF PacketsOf
<1>3. call.op = "updatePlayerElo" =>
        PacketsOf(call, tables) = <<Packet("eloUpdated", call.port)>>
  BY Zenon DEF PacketsOf
<1>4. call.op = "identifyClient" =>
        PacketsOf(call, tables) = <<Packet("clientIdentification", call.port)>>
  BY Zenon DEF PacketsOf
<1>5. call.op = "startIfComplete" /\ IsComplete(tables[call.lobby]) =>
        PacketsOf(call, tables) = <<Packet("startGame0", tables[call.lobby][1].port),
                                    Packet("startGame1", tables[call.lobby][2].port),
                                    Packet("newTurn", tables[call.lobby][1].port)>>
  BY Zenon DEF PacketsOf
<1>6. call.op = "startIfComplete" /\ ~IsComplete(tables[call.lobby]) =>
        PacketsOf(call, tables) = <<>>
  BY Zenon DEF PacketsOf
<1>7. call.op \in Silent => PacketsOf(call, tables) = <<>>
  BY Zenon DEF PacketsOf, Silent
<1>. QED
  BY <1>1, <1>2, <1>3, <1>4, <1>5, <1>6, <1>7

LEMMA PacketsType ==
  ASSUME NEW call \in Calls, NEW tables \in [LobbyIds -> Lobby]
  PROVE  PacketsOf(call, tables) \in Seq(AnyPacket)
<1>1. <<>> \in Seq(AnyPacket)
  BY EmptySeq
<1>0. /\ \A p \in AnyPacket : <<p>> \in Seq(AnyPacket)
      /\ \A p, q, r \in AnyPacket : <<p, q, r>> \in Seq(AnyPacket)
  OBVIOUS
<1>2. \A k \in LobbyIds, s \in Seats : tables[k][s].port \in AnyPort
  BY DEF Lobby, ClientData, AnyPort
<1>3. CASE call.op = "send"
  <2>1. Packet(call.type, call.port) \in AnyPacket
    BY <1>3 DEF Calls, ServerCalls, Packet, AnyPacket, AnyPort
  <2>. QED
    BY <1>0, <1>3, <2>1, PacketsOfKind
<1>4. CASE call.op = "sendToSeat"
  <2>1. Packet(call.type, tables[call.lobby][call.seat].port) \in AnyPacket
    BY <1>2, <1>4 DEF Calls, ServerCalls, Packet, AnyPacket
  <2>. QED
    BY <1>0, <1>4, <2>1, PacketsOfKind
<1>5. CASE call.op \in {"updatePlayerElo", "identifyClient"}
  <2>1. /\ Packet("eloUpdated", call.port) \in AnyPacket
        /\ Packet("clientIdentification", call.port) \in AnyPacket
    BY <1>5 DEF Calls, ServerCalls, Packet, AnyPacket, AnyPort, ServerPackets
  <2>. QED
    BY <1>0, <1>5, <2>1, PacketsOfKind
<1>6. CASE call.op = "startIfComplete"
  <2>1. call.lobby \in LobbyIds
    BY <1>6 DEF Calls, ServerCalls
  <2>2. /\ Packet("startGame0", tables[call.lobby][1].port) \in AnyPacket
        /\ Packet("startGame1", tables[call.lobby][2].port) \in AnyPacket
        /\ Packet("newTurn", tables[call.lobby][1].port) \in AnyPacket
    BY <1>2, <2>1 DEF Packet, AnyPacket, ServerPackets, Seats
  <2>. QED
    BY <1>0, <1>1, <1>6, <2>2, PacketsOfKind
<1>7. CASE call.op \in Silent
  BY <1>1, <1>7, PacketsOfKind
<1>. QED
  BY <1>3, <1>4, <1>5, <1>6, <1>7 DEF Calls, ServerCalls, Silent

(* Only the calls of a start look at the lobbies.                            *)
LEMMA PacketsStay ==
  ASSUME NEW call \in Calls, NEW tables, NEW tables2, tables2 = tables \/ ~IsOfStart(call)
  PROVE  PacketsOf(call, tables2) = PacketsOf(call, tables)
<1>1. CASE tables2 = tables
  BY <1>1
<1>2. CASE ~IsOfStart(call)
  <2>1. call.op \in {"send", "updatePlayerElo", "identifyClient"} \cup Silent
    BY <1>2 DEF IsOfStart, Calls, ServerCalls, Silent
  <2>. QED
    BY <2>1, PacketsOfKind
<1>. QED
  BY <1>1, <1>2

LEMMA NthType ==
  ASSUME NEW st \in Seq(Calls), NEW n, NEW tables \in [LobbyIds -> Lobby]
  PROVE  PacketsOfNth(st, n, tables) \in Seq(AnyPacket)
<1>1. CASE n \in DOMAIN st
  <2>1. st[n] \in Calls
    BY <1>1, LenProperties, ElementOfSeq
  <2>. QED
    BY <1>1, <2>1, PacketsType DEF PacketsOfNth
<1>2. CASE n \notin DOMAIN st
  BY <1>2, EmptySeq DEF PacketsOfNth
<1>. QED
  BY <1>1, <1>2

LEMMA PacketsOfCallsType ==
  ASSUME NEW st \in Seq(Calls), NEW tables \in [LobbyIds -> Lobby]
  PROVE  PacketsOfCalls(st, tables) \in Seq(AnyPacket)
<1>. DEFINE Nth(n) == PacketsOfNth(st, n, tables)
<1>1. Nth(1) \in Seq(AnyPacket) /\ Nth(2) \in Seq(AnyPacket) /\ Nth(3) \in Seq(AnyPacket)
      /\ Nth(4) \in Seq(AnyPacket) /\ Nth(5) \in Seq(AnyPacket)
  BY NthType
<1>. HIDE DEF Nth
<1>2. Nth(1) \o (Nth(2) \o (Nth(3) \o (Nth(4) \o Nth(5)))) \in Seq(AnyPacket)
  BY <1>1, ConcatProperties
<1>. QED
  BY <1>2 DEF PacketsOfCalls, Nth

-----------------------------------------------------------------------------
(* The stack: slots to be read come last, a start is the last call before    *)
(* them, and nothing is cleared while a start is due.                        *)
FlatCalls(st) ==
  /\ \A n \in DOMAIN st : n > 5 => st[n].op = "receive"
  /\ \A m, n \in DOMAIN st :
       m < n /\ st[m].op \in {"receive", "startIfComplete"} => st[n].op = "receive"
  /\ \A m, n \in DOMAIN st : st[m].op = "clearLobby" => ~IsOfStart(st[n])
FlatInv == IsWhole => FlatCalls(stack)

(* The calls of a handler.                                                   *)
FlatHandler(h) ==
  /\ h \in Seq(Calls) /\ Len(h) <= 5
  /\ \A n \in DOMAIN h : h[n].op # "receive"
  /\ \A m, n \in DOMAIN h : m < n => h[m].op # "startIfComplete"
  /\ \A m, n \in DOMAIN h : h[m].op = "clearLobby" => ~IsOfStart(h[n])

LastOne(st) == \A n \in DOMAIN st : n # 1 => st[n].op = "receive"

(* A handler in place of the only call left.                                 *)
LEMMA FlatPush ==
  ASSUME NEW st \in Seq(Calls), st # <<>>, LastOne(st), NEW h, FlatHandler(h)
  PROVE  FlatCalls(h \o Tail(st))
<1>. DEFINE new == h \o Tail(st)
<1>1. h \in Seq(Calls)
  BY DEF FlatHandler
<1>2. /\ DOMAIN new = 1..Len(new) /\ DOMAIN h = 1..Len(h) /\ Len(h) \in Nat /\ Len(new) \in Nat
      /\ \A i \in 1..Len(h) : i \in DOMAIN new /\ new[i] = h[i]
      /\ \A i \in DOMAIN new : i > Len(h) => new[i].op = "receive"
  BY <1>1, Pushed DEF LastOne
<1>. HIDE DEF new
<1>3. \A n \in DOMAIN new : n > 5 => new[n].op = "receive"
  BY <1>2 DEF FlatHandler
<1>4. \A m, n \in DOMAIN new :
        m < n /\ new[m].op \in {"receive", "startIfComplete"} => new[n].op = "receive"
  <2>. SUFFICES ASSUME NEW m \in DOMAIN new, NEW n \in DOMAIN new, m < n, n <= Len(h),
                       new[m].op \in {"receive", "startIfComplete"}
                PROVE  FALSE
    BY <1>2
  <2>1. m \in DOMAIN h /\ n \in DOMAIN h /\ new[m] = h[m]
    BY <1>2
  <2>. QED
    BY <2>1 DEF FlatHandler
<1>5. \A m, n \in DOMAIN new : new[m].op = "clearLobby" => ~IsOfStart(new[n])
  <2>. SUFFICES ASSUME NEW m \in DOMAIN new, NEW n \in DOMAIN new, new[m].op = "clearLobby",
                       IsOfStart(new[n])
                PROVE  FALSE
    OBVIOUS
  <2>1. m \in DOMAIN h /\ n \in DOMAIN h /\ new[m] = h[m] /\ new[n] = h[n]
    BY <1>2 DEF IsOfStart
  <2>. QED
    BY <2>1 DEF FlatHandler
<1>. QED
  BY <1>3, <1>4, <1>5 DEF FlatCalls, new

(* The first call is done, or makes a send.                                  *)
LEMMA FlatPop ==
  ASSUME NEW st \in Seq(Calls), st # <<>>, FlatCalls(st)
  PROVE  FlatCalls(<<>> \o Tail(st))
<1>. DEFINE h == <<>>
            new == h \o Tail(st)
<1>1. h \in Seq(Calls) /\ Len(h) = 0
  BY EmptySeq
<1>2. /\ DOMAIN new = 1..Len(new) /\ DOMAIN st = 1..Len(st) /\ Len(st) \in Nat /\ Len(new) \in Nat
      /\ \A i \in DOMAIN new : i + 1 \in DOMAIN st /\ new[i] = st[i + 1]
  <2>1. \A i \in 1..Len(new) : (i > 0 /\ i - 0 + 1 = i + 1)
    OBVIOUS
  <2>. HIDE DEF h
  <2>2. Len(new) \in Nat
    BY <1>1, Pushed
  <2>. QED
    BY <1>1, <2>1, <2>2, Pushed
<1>. HIDE DEF new
<1>. QED
  BY <1>2 DEF FlatCalls, new

LEMMA FlatReplace ==
  ASSUME NEW st \in Seq(Calls), st # <<>>, FlatCalls(st), NEW c \in Calls, c.op = "send"
  PROVE  FlatCalls(<<c>> \o Tail(st))
<1>. DEFINE h == <<c>>
            new == h \o Tail(st)
<1>1. h \in Seq(Calls) /\ Len(h) = 1 /\ h[1] = c
  OBVIOUS
<1>. HIDE DEF h
<1>2. /\ DOMAIN new = 1..Len(new) /\ DOMAIN st = 1..Len(st) /\ Len(st) \in Nat /\ Len(new) \in Nat
      /\ \A i \in DOMAIN new : i # 1 => i \in DOMAIN st /\ new[i] = st[i]
      /\ 1 \in DOMAIN new /\ new[1] = c
  <2>1. Len(new) \in Nat /\ DOMAIN new = 1..Len(new)
    BY <1>1, Pushed
  <2>2. \A i \in DOMAIN new : i # 1 => i > Len(h) /\ i - Len(h) + 1 = i
    BY <1>1, <2>1
  <2>3. DOMAIN st = 1..Len(st) /\ Len(st) \in Nat /\ 1 \in 1..Len(h)
    BY <1>1, LenProperties
  <2>4. \A i \in 1..Len(h) : i \in DOMAIN new /\ new[i] = h[i]
    BY <1>1, Pushed
  <2>5. \A i \in DOMAIN new : i > Len(h) => /\ i - Len(h) + 1 \in DOMAIN st
                                          /\ new[i] = st[i - Len(h) + 1]
    BY <1>1, Pushed
  <2>. HIDE DEF new
  <2>. QED
    BY <1>1, <2>1, <2>2, <2>3, <2>4, <2>5
<1>. HIDE DEF new
<1>3. ~IsOfStart(c) /\ c.op \notin {"receive", "startIfComplete", "clearLobby"}
  BY DEF IsOfStart
<1>4. \A n \in DOMAIN new : n > 5 => new[n].op = "receive"
  BY <1>2 DEF FlatCalls
<1>5. \A m, n \in DOMAIN new :
        m < n /\ new[m].op \in {"receive", "startIfComplete"} => new[n].op = "receive"
  BY <1>2, <1>3 DEF FlatCalls
<1>6. \A m, n \in DOMAIN new : new[m].op = "clearLobby" => ~IsOfStart(new[n])
  BY <1>2, <1>3 DEF FlatCalls
<1>7. FlatCalls(new)
  BY <1>4, <1>5, <1>6 DEF FlatCalls
<1>. QED
  BY <1>7 DEF new, h

-----------------------------------------------------------------------------
(* The packets due.                                                          *)

LEMMA NothingBefore ==
  ASSUME NEW S, NEW s \in Seq(S)
  PROVE  <<>> \o s = s /\ s \o <<>> = s
BY ConcatEmptySeq

LEMMA SamePackets ==
  ASSUME NEW a, NEW b, NEW tables,
         \A n : PacketsOfNth(a, n, tables) = PacketsOfNth(b, n, tables)
  PROVE  PacketsOfCalls(a, tables) = PacketsOfCalls(b, tables)
<1>1. /\ PacketsOfNth(a, 1, tables) = PacketsOfNth(b, 1, tables)
      /\ PacketsOfNth(a, 2, tables) = PacketsOfNth(b, 2, tables)
      /\ PacketsOfNth(a, 3, tables) = PacketsOfNth(b, 3, tables)
      /\ PacketsOfNth(a, 4, tables) = PacketsOfNth(b, 4, tables)
      /\ PacketsOfNth(a, 5, tables) = PacketsOfNth(b, 5, tables)
  OBVIOUS
<1>. QED
  BY <1>1, Zenon DEF PacketsOfCalls

LEMMA SilentRest ==
  ASSUME NEW st, NEW n, NEW tables, n \in DOMAIN st => st[n].op = "receive"
  PROVE  PacketsOfNth(st, n, tables) = <<>>
BY PacketsOfKind DEF PacketsOfNth, Silent

(* The packets of the first call come first.                                 *)
LEMMA DuePop ==
  ASSUME NEW st \in Seq(Calls), st # <<>>, FlatCalls(st),
         NEW tables \in [LobbyIds -> Lobby], NEW tables2 \in [LobbyIds -> Lobby],
         tables2 = tables \/ \A n \in DOMAIN st : ~IsOfStart(st[n])
  PROVE  PacketsOfCalls(st, tables)
           = PacketsOf(st[1], tables) \o PacketsOfCalls(<<>> \o Tail(st), tables2)
<1>. DEFINE h == <<>>
            new == h \o Tail(st)
            Nth(n) == PacketsOfNth(st, n, tables)
            Nth2(n) == PacketsOfNth(new, n, tables2)
<1>1. h \in Seq(Calls) /\ Len(h) = 0
  BY EmptySeq
<1>2. new \in Seq(Calls)
  BY <1>1, HeadTailProperties, ConcatProperties
<1>. HIDE DEF h
<1>3. DOMAIN new = 1..Len(new) /\ DOMAIN st = 1..Len(st) /\ Len(st) \in Nat /\ Len(new) \in Nat
  BY <1>1, <1>2, LenProperties
<1>4. Len(new) = Len(st) - 1
  BY <1>1, <1>3, Pushed
<1>5. \A i \in DOMAIN new : i > Len(h) => new[i] = st[i - Len(h) + 1]
  BY <1>1, Pushed
<1>. HIDE DEF new
<1>6. \A i \in DOMAIN new : new[i] = st[i + 1]
  <2>1. \A i \in DOMAIN new : i > Len(h) /\ i - Len(h) + 1 = i + 1
    BY <1>1, <1>3
  <2>. QED
    BY <1>5, <2>1
<1>7. \A n \in DOMAIN st : st[n] \in Calls /\ PacketsOf(st[n], tables2) = PacketsOf(st[n], tables)
  BY PacketsStay, ElementOfSeq, <1>3
<1>8. \A n \in Nat : Nth2(n) = IF n >= 1 THEN Nth(n + 1) ELSE <<>>
  BY <1>3, <1>4, <1>6, <1>7 DEF PacketsOfNth
<1>9. Nth2(1) = Nth(2) /\ Nth2(2) = Nth(3) /\ Nth2(3) = Nth(4) /\ Nth2(4) = Nth(5) /\ Nth2(5) = Nth(6)
  BY <1>8
<1>10. Nth(6) = <<>>
  BY SilentRest DEF FlatCalls
<1>11. Nth(1) = PacketsOf(st[1], tables)
  BY <1>3, EmptySeq DEF PacketsOfNth
<1>12. Nth(5) \o <<>> = Nth(5)
  BY NthType, NothingBefore
<1>13. /\ PacketsOfCalls(st, tables) = Nth(1) \o (Nth(2) \o (Nth(3) \o (Nth(4) \o Nth(5))))
       /\ PacketsOfCalls(new, tables2) = Nth2(1) \o (Nth2(2) \o (Nth2(3) \o (Nth2(4) \o Nth2(5))))
  BY DEF PacketsOfCalls
<1>. HIDE DEF Nth, Nth2
<1>. QED
  BY <1>9, <1>10, <1>11, <1>12, <1>13 DEF new, h

(* A call that is replaced by the send it makes.                             *)
LEMMA DueReplace ==
  ASSUME NEW st \in Seq(Calls), st # <<>>, NEW c \in Calls, NEW tables,
         PacketsOf(c, tables) = PacketsOf(st[1], tables)
  PROVE  PacketsOfCalls(<<c>> \o Tail(st), tables) = PacketsOfCalls(st, tables)
<1>. DEFINE h == <<c>>
            new == h \o Tail(st)
<1>1. h \in Seq(Calls) /\ Len(h) = 1 /\ h[1] = c
  OBVIOUS
<1>. HIDE DEF h
<1>2. /\ DOMAIN new = 1..Len(new) /\ DOMAIN st = 1..Len(st) /\ Len(st) \in Nat
      /\ Len(new) = Len(h) + Len(st) - 1
  BY <1>1, Pushed
<1>3. \A i \in 1..Len(h) : i \in DOMAIN new /\ new[i] = h[i]
  BY <1>1, Pushed
<1>4. \A i \in DOMAIN new : i > Len(h) => new[i] = st[i - Len(h) + 1]
  BY <1>1, Pushed
<1>. HIDE DEF new
<1>5. DOMAIN new = DOMAIN st
  BY <1>1, <1>2
<1>6. \A i \in DOMAIN new : i # 1 => new[i] = st[i]
  <2>1. \A i \in DOMAIN new : i # 1 => i > Len(h) /\ i - Len(h) + 1 = i
    BY <1>1, <1>2
  <2>. QED
    BY <1>4, <2>1
<1>7. new[1] = c
  BY <1>1, <1>3
<1>8. \A n : PacketsOfNth(new, n, tables) = PacketsOfNth(st, n, tables)
  BY <1>5, <1>6, <1>7 DEF PacketsOfNth
<1>9. PacketsOfCalls(new, tables) = PacketsOfCalls(st, tables)
  BY <1>8, SamePackets
<1>. QED
  BY <1>9 DEF new, h

(* Only slots to be read are left.                                           *)
LEMMA DueReading ==
  ASSUME NEW st, NEW tables, \A n \in DOMAIN st : st[n].op = "receive"
  PROVE  PacketsOfCalls(st, tables) = <<>>
<1>1. \A n : PacketsOfNth(st, n, tables) = <<>>
  BY SilentRest
<1>2. <<>> \o <<>> = <<>>
  BY NothingBefore, EmptySeq
<1>. QED
  BY <1>1, <1>2 DEF PacketsOfCalls

(* A handler in place of the only call left.                                 *)
LEMMA DuePush ==
  ASSUME NEW st \in Seq(Calls), st # <<>>, LastOne(st), NEW h \in Seq(Calls), NEW tables
  PROVE  PacketsOfCalls(h \o Tail(st), tables) = PacketsOfCalls(h, tables)
<1>. DEFINE new == h \o Tail(st)
<1>1. /\ DOMAIN new = 1..Len(new) /\ DOMAIN h = 1..Len(h) /\ Len(h) \in Nat /\ Len(new) \in Nat
      /\ \A i \in 1..Len(h) : i \in DOMAIN new /\ new[i] = h[i]
      /\ \A i \in DOMAIN new : i > Len(h) => new[i].op = "receive"
  BY Pushed DEF LastOne
<1>. HIDE DEF new
<1>2. ASSUME NEW n PROVE PacketsOfNth(new, n, tables) = PacketsOfNth(h, n, tables)
  <2>1. CASE n \in DOMAIN h
    BY <1>1, <2>1 DEF PacketsOfNth
  <2>2. CASE n \notin DOMAIN h
    <3>1. n \in DOMAIN new => new[n].op = "receive"
      BY <1>1, <2>2
    <3>2. PacketsOfNth(new, n, tables) = <<>>
      BY <3>1, SilentRest
    <3>. QED
      BY <2>2, <3>2 DEF PacketsOfNth
  <2>. QED
    BY <2>1, <2>2
<1>3. PacketsOfCalls(new, tables) = PacketsOfCalls(h, tables)
  BY <1>2, SamePackets
<1>. QED
  BY <1>3 DEF new

(* The packets of each handler.                                              *)
LEMMA FiveDue ==
  ASSUME NEW h, NEW tables
  PROVE  LET P(n) == PacketsOf(h[n], tables) IN
         /\ h = <<>> => PacketsOfCalls(h, tables) = <<>>
         /\ DOMAIN h = 1..1 => PacketsOfCalls(h, tables) = P(1) \o (<<>> \o (<<>> \o (<<>> \o <<>>)))
         /\ DOMAIN h = 1..2 => PacketsOfCalls(h, tables) = P(1) \o (P(2) \o (<<>> \o (<<>> \o <<>>)))
         /\ DOMAIN h = 1..3 => PacketsOfCalls(h, tables) = P(1) \o (P(2) \o (P(3) \o (<<>> \o <<>>)))
         /\ DOMAIN h = 1..5 => PacketsOfCalls(h, tables) = P(1) \o (P(2) \o (P(3) \o (P(4) \o P(5))))
<1>. DEFINE P(n) == PacketsOf(h[n], tables)
<1>1. \A n : PacketsOfNth(h, n, tables) = IF n \in DOMAIN h THEN P(n) ELSE <<>>
  BY DEF PacketsOfNth
<1>2. h = <<>> => PacketsOfCalls(h, tables) = <<>>
  BY EmptySeq, DueReading
<1>. HIDE DEF P
<1>3. DOMAIN h = 1..1 => PacketsOfCalls(h, tables) = P(1) \o (<<>> \o (<<>> \o (<<>> \o <<>>)))
  <2>1. DOMAIN h = 1..1 =>
        /\ PacketsOfNth(h, 1, tables) = P(1) /\ PacketsOfNth(h, 2, tables) = <<>>
        /\ PacketsOfNth(h, 3, tables) = <<>> /\ PacketsOfNth(h, 4, tables) = <<>>
        /\ PacketsOfNth(h, 5, tables) = <<>>
    BY <1>1
  <2>. QED
    BY <2>1, Zenon DEF PacketsOfCalls
<1>4. DOMAIN h = 1..2 => PacketsOfCalls(h, tables) = P(1) \o (P(2) \o (<<>> \o (<<>> \o <<>>)))
  <2>1. DOMAIN h = 1..2 =>
        /\ PacketsOfNth(h, 1, tables) = P(1) /\ PacketsOfNth(h, 2, tables) = P(2)
        /\ PacketsOfNth(h, 3, tables) = <<>> /\ PacketsOfNth(h, 4, tables) = <<>>
        /\ PacketsOfNth(h, 5, tables) = <<>>
    BY <1>1
  <2>. QED
    BY <2>1, Zenon DEF PacketsOfCalls
<1>5. DOMAIN h = 1..3 => PacketsOfCalls(h, tables) = P(1) \o (P(2) \o (P(3) \o (<<>> \o <<>>)))
  <2>1. DOMAIN h = 1..3 =>
        /\ PacketsOfNth(h, 1, tables) = P(1) /\ PacketsOfNth(h, 2, tables) = P(2)
        /\ PacketsOfNth(h, 3, tables) = P(3) /\ PacketsOfNth(h, 4, tables) = <<>>
        /\ PacketsOfNth(h, 5, tables) = <<>>
    BY <1>1
  <2>. QED
    BY <2>1, Zenon DEF PacketsOfCalls
<1>6. DOMAIN h = 1..5 => PacketsOfCalls(h, tables) = P(1) \o (P(2) \o (P(3) \o (P(4) \o P(5))))
  <2>1. DOMAIN h = 1..5 =>
        /\ PacketsOfNth(h, 1, tables) = P(1) /\ PacketsOfNth(h, 2, tables) = P(2)
        /\ PacketsOfNth(h, 3, tables) = P(3) /\ PacketsOfNth(h, 4, tables) = P(4)
        /\ PacketsOfNth(h, 5, tables) = P(5)
    BY <1>1
  <2>. QED
    BY <2>1, Zenon DEF PacketsOfCalls
<1>. QED
  BY <1>2, <1>3, <1>4, <1>5, <1>6 DEF P

(* A sequence of one in front of another.                                    *)
LEMMA InFront ==
  ASSUME NEW S, NEW h \in Seq(S), NEW s \in Seq(S), NEW t \in Seq(S),
         Len(h) = 1, Len(t) = Len(s) + 1, t[1] = h[1], \A i \in 1..Len(s) : t[i + 1] = s[i]
  PROVE  h \o s = t
<1>3. /\ h \o s \in Seq(S)
      /\ Len(h \o s) = Len(h) + Len(s)
      /\ \A i \in 1..(Len(h) + Len(s)) : (h \o s)[i] = IF i <= Len(h) THEN h[i] ELSE s[i - Len(h)]
  BY ConcatProperties
<1>4. Len(s) \in Nat
  BY LenProperties
<1>5. \A i \in 1..Len(h \o s) : (h \o s)[i] = t[i]
  <2>. TAKE i \in 1..Len(h \o s)
  <2>1. CASE i = 1
    BY <1>3, <1>4, <2>1
  <2>2. CASE i # 1
    <3>1. i - 1 \in 1..Len(s) /\ (i - 1) + 1 = i /\ i \in 1..(Len(h) + Len(s)) /\ ~(i <= Len(h))
          /\ i - Len(h) = i - 1
      BY <1>3, <1>4, <2>2
    <3>2. (h \o s)[i] = s[i - 1]
      BY <1>3, <3>1
    <3>3. t[(i - 1) + 1] = s[i - 1]
      BY <3>1
    <3>. QED
      BY <3>1, <3>2, <3>3
  <2>. QED
    BY <2>1, <2>2
<1>. QED
  BY <1>3, <1>4, <1>5, SeqEqual

(* The packets of a handler, four sends of which some are left out.          *)
LEMMA Joined ==
  /\ \A a : <<a>> \o (<<>> \o (<<>> \o (<<>> \o <<>>))) = <<a>>
  /\ \A a, b : <<a>> \o (<<b>> \o (<<>> \o (<<>> \o <<>>))) = <<a, b>>
  /\ \A a, b, c : /\ <<a>> \o (<<b>> \o (<<c>> \o (<<>> \o <<>>))) = <<a, b, c>>
                  /\ <<a, b, c>> \o (<<>> \o (<<>> \o <<>>)) = <<a, b, c>>
  /\ \A a, b, c, d : <<a>> \o (<<b>> \o (<<c>> \o (<<d>> \o <<>>))) = <<a, b, c, d>>
  /\ <<>> \o (<<>> \o (<<>> \o <<>>)) = <<>>
<1>1. \A S : \A s \in Seq(S) : s \o <<>> = s /\ <<>> \o s = s
  BY NothingBefore
<1>2. <<>> \o <<>> = <<>>
  BY <1>1, EmptySeq
<1>3. \A a : <<a>> \o <<>> = <<a>>
  <2>. TAKE a
  <2>1. <<a>> \in Seq({a})
    OBVIOUS
  <2>. QED
    BY <1>1, <2>1
<1>4. \A a, b : <<a>> \o <<b>> = <<a, b>>
  <2>. TAKE a, b
  <2>. DEFINE h == <<a>>
              s == <<b>>
              t == <<a, b>>
  <2>0. h \in Seq({a, b}) /\ Len(h) = 1 /\ h[1] = a
    OBVIOUS
  <2>1. s \in Seq({a, b}) /\ Len(s) = 1 /\ s[1] = b
    OBVIOUS
  <2>2. t \in Seq({a, b}) /\ Len(t) = 2 /\ t[1] = a /\ t[2] = b
    OBVIOUS
  <2>. HIDE DEF h, s, t
  <2>3. \A i \in 1..Len(s) : t[i + 1] = s[i]
    BY <2>1, <2>2
  <2>4. Len(t) = Len(s) + 1
    BY <2>1, <2>2
  <2>5. h \o s = t
    BY <2>0, <2>1, <2>2, <2>3, <2>4, InFront
  <2>. QED
    BY <2>5 DEF h, s, t
<1>5. \A a, b, c : <<a>> \o <<b, c>> = <<a, b, c>>
  <2>. TAKE a, b, c
  <2>. DEFINE h == <<a>>
              s == <<b, c>>
              t == <<a, b, c>>
  <2>0. h \in Seq({a, b, c}) /\ Len(h) = 1 /\ h[1] = a
    OBVIOUS
  <2>1. s \in Seq({a, b, c}) /\ Len(s) = 2 /\ s[1] = b /\ s[2] = c
    OBVIOUS
  <2>2. t \in Seq({a, b, c}) /\ Len(t) = 3 /\ t[1] = a /\ t[2] = b /\ t[3] = c
    OBVIOUS
  <2>. HIDE DEF h, s, t
  <2>3. \A i \in 1..Len(s) : t[i + 1] = s[i]
    BY <2>1, <2>2
  <2>4. Len(t) = Len(s) + 1
    BY <2>1, <2>2
  <2>5. h \o s = t
    BY <2>0, <2>1, <2>2, <2>3, <2>4, InFront
  <2>. QED
    BY <2>5 DEF h, s, t
<1>6. \A a, b, c, d : <<a>> \o <<b, c, d>> = <<a, b, c, d>>
  <2>. TAKE a, b, c, d
  <2>. DEFINE h == <<a>>
              All == {a, b, c, d}
              s == <<b, c, d>>
              t == <<a, b, c, d>>
  <2>0. h \in Seq(All) /\ Len(h) = 1 /\ h[1] = a
    OBVIOUS
  <2>1. s \in Seq(All) /\ Len(s) = 3 /\ s[1] = b /\ s[2] = c /\ s[3] = d
    OBVIOUS
  <2>2. t \in Seq(All) /\ Len(t) = 4 /\ t[1] = a /\ t[2] = b /\ t[3] = c /\ t[4] = d
    OBVIOUS
  <2>. HIDE DEF h, s, t, All
  <2>3. \A i \in 1..Len(s) : t[i + 1] = s[i]
    BY <2>1, <2>2
  <2>4. Len(t) = Len(s) + 1
    BY <2>1, <2>2
  <2>6. h \in Seq(All) /\ s \in Seq(All) /\ t \in Seq(All) /\ Len(h) = 1 /\ t[1] = h[1]
    BY <2>0, <2>1, <2>2
  <2>5. h \o s = t
    BY <2>6, <2>3, <2>4, InFront
  <2>. QED
    BY <2>5 DEF h, s, t
<1>7. \A a, b, c : <<a, b, c>> \o <<>> = <<a, b, c>>
  <2>. TAKE a, b, c
  <2>1. <<a, b, c>> \in Seq({a, b, c})
    OBVIOUS
  <2>. QED
    BY <1>1, <2>1
<1>8. \A a, b : <<a>> \o (<<b>> \o <<>>) = <<a, b>>
  BY <1>3, <1>4
<1>9. \A a, b, c : <<a>> \o (<<b>> \o (<<c>> \o <<>>)) = <<a, b, c>>
  BY <1>5, <1>8
<1>10. \A a, b, c, d : <<a>> \o (<<b>> \o (<<c>> \o (<<d>> \o <<>>))) = <<a, b, c, d>>
  <2>. TAKE a, b, c, d
  <2>1. <<b>> \o (<<c>> \o (<<d>> \o <<>>)) = <<b, c, d>>
    BY <1>9
  <2>2. <<a>> \o <<b, c, d>> = <<a, b, c, d>>
    BY <1>6
  <2>. QED
    BY <2>1, <2>2
<1>. QED
  BY <1>2, <1>3, <1>7, <1>8, <1>9, <1>10

LEMMA DueForward ==
  ASSUME NEW tables, NEW p, NEW q
  PROVE  /\ PacketsOfCalls(<<Send("newTurn", q)>>, tables) = <<Packet("newTurn", q)>>
         /\ PacketsOfCalls(<<Send("cueBallVelocity", q), Send("cueBallVelocity", p)>>, tables)
              = <<Packet("cueBallVelocity", q), Packet("cueBallVelocity", p)>>
         /\ PacketsOfCalls(<<IdentifyClient(p)>>, tables) = <<Packet("clientIdentification", p)>>
         /\ PacketsOfCalls(<<>>, tables) = <<>>
<1>1. \A type, r : PacketsOf(Send(type, r), tables) = <<Packet(type, r)>>
  BY PacketsOfKind DEF Send
<1>2. \A r : PacketsOf(IdentifyClient(r), tables) = <<Packet("clientIdentification", r)>>
  BY PacketsOfKind DEF IdentifyClient
<1>3. PacketsOfCalls(<<Send("newTurn", q)>>, tables) = <<Packet("newTurn", q)>>
  <2>. DEFINE h == <<Send("newTurn", q)>>
  <2>1. DOMAIN h = 1..1 /\ h[1] = Send("newTurn", q)
    OBVIOUS
  <2>. HIDE DEF h
  <2>2. PacketsOfCalls(h, tables) = <<Packet("newTurn", q)>> \o (<<>> \o (<<>> \o (<<>> \o <<>>)))
    BY <1>1, <2>1, FiveDue
  <2>. QED
    BY <2>2, Joined, Zenon DEF h
<1>4. PacketsOfCalls(<<Send("cueBallVelocity", q), Send("cueBallVelocity", p)>>, tables)
        = <<Packet("cueBallVelocity", q), Packet("cueBallVelocity", p)>>
  <2>. DEFINE h == <<Send("cueBallVelocity", q), Send("cueBallVelocity", p)>>
  <2>1. DOMAIN h = 1..2 /\ h[1] = Send("cueBallVelocity", q) /\ h[2] = Send("cueBallVelocity", p)
    OBVIOUS
  <2>. HIDE DEF h
  <2>2. PacketsOfCalls(h, tables) = <<Packet("cueBallVelocity", q)>> \o
          (<<Packet("cueBallVelocity", p)>> \o (<<>> \o (<<>> \o <<>>)))
    BY <1>1, <2>1, FiveDue
  <2>. QED
    BY <2>2, Joined, Zenon DEF h
<1>5. PacketsOfCalls(<<IdentifyClient(p)>>, tables) = <<Packet("clientIdentification", p)>>
  <2>. DEFINE h == <<IdentifyClient(p)>>
  <2>1. DOMAIN h = 1..1 /\ h[1] = IdentifyClient(p)
    OBVIOUS
  <2>. HIDE DEF h
  <2>2. PacketsOfCalls(h, tables)
          = <<Packet("clientIdentification", p)>> \o (<<>> \o (<<>> \o (<<>> \o <<>>)))
    BY <1>2, <2>1, FiveDue
  <2>. QED
    BY <2>2, Joined, Zenon DEF h
<1>. QED
  BY <1>3, <1>4, <1>5, FiveDue

(* The three sends of a start, and the call that makes them.                 *)
LEMMA DueStart ==
  ASSUME NEW k, NEW tables, IsComplete(tables[k])
  PROVE  LET start == <<Packet("startGame0", tables[k][1].port),
                        Packet("startGame1", tables[k][2].port),
                        Packet("newTurn", tables[k][1].port)>>
         IN /\ PacketsOf(StartIfComplete(k), tables) = start
            /\ PacketsOfCalls(<<SendToSeat("startGame0", k, 1), SendToSeat("startGame1", k, 2),
                                SendToSeat("newTurn", k, 1)>>, tables) = start
<1>. DEFINE h == <<SendToSeat("startGame0", k, 1), SendToSeat("startGame1", k, 2),
                   SendToSeat("newTurn", k, 1)>>
<1>1. \A type, s : PacketsOf(SendToSeat(type, k, s), tables) = <<Packet(type, tables[k][s].port)>>
  BY PacketsOfKind DEF SendToSeat
<1>2. DOMAIN h = 1..3 /\ h[1] = SendToSeat("startGame0", k, 1)
      /\ h[2] = SendToSeat("startGame1", k, 2) /\ h[3] = SendToSeat("newTurn", k, 1)
  OBVIOUS
<1>. HIDE DEF h
<1>3. PacketsOfCalls(h, tables) = <<Packet("startGame0", tables[k][1].port)>> \o
         (<<Packet("startGame1", tables[k][2].port)>> \o
            (<<Packet("newTurn", tables[k][1].port)>> \o (<<>> \o <<>>)))
  BY <1>1, <1>2, FiveDue
<1>4. PacketsOfCalls(h, tables) = <<Packet("startGame0", tables[k][1].port),
         Packet("startGame1", tables[k][2].port), Packet("newTurn", tables[k][1].port)>>
  BY <1>3, Joined, Zenon
<1>. QED
  BY <1>4, PacketsOfKind DEF h, StartIfComplete

LEMMA DueJoin ==
  ASSUME NEW k, NEW tables, NEW p
  PROVE  PacketsOfCalls(<<Send("joinLobby", p), StartIfComplete(k)>>, tables)
           = <<Packet("joinLobby", p)>> \o
               (IF IsComplete(tables[k])
                THEN <<Packet("startGame0", tables[k][1].port),
                       Packet("startGame1", tables[k][2].port),
                       Packet("newTurn", tables[k][1].port)>>
                ELSE <<>>)
<1>. DEFINE h == <<Send("joinLobby", p), StartIfComplete(k)>>
            start == PacketsOf(StartIfComplete(k), tables)
<1>1. DOMAIN h = 1..2 /\ h[1] = Send("joinLobby", p) /\ h[2] = StartIfComplete(k)
  OBVIOUS
<1>2. PacketsOf(Send("joinLobby", p), tables) = <<Packet("joinLobby", p)>>
  BY PacketsOfKind DEF Send
<1>. HIDE DEF h
<1>3. PacketsOfCalls(h, tables) = <<Packet("joinLobby", p)>> \o (start \o (<<>> \o (<<>> \o <<>>)))
  BY <1>1, <1>2, FiveDue
<1>4. IsComplete(tables[k]) => start = <<Packet("startGame0", tables[k][1].port),
                       Packet("startGame1", tables[k][2].port),
                       Packet("newTurn", tables[k][1].port)>>
  BY DueStart
<1>5. ~IsComplete(tables[k]) => start = <<>>
  BY PacketsOfKind DEF StartIfComplete
<1>. HIDE DEF start
<1>6. start \o (<<>> \o (<<>> \o <<>>)) = start
  BY <1>4, <1>5, Joined
<1>. QED
  BY <1>3, <1>4, <1>5, <1>6 DEF h

LEMMA DueEnd ==
  ASSUME NEW k, NEW tables, NEW p, NEW q
  PROVE  PacketsOfCalls(<<UpdatePlayerElo(p), UpdatePlayerElo(q), Send("endGameWon", p),
                          Send("endGameLost", q), ClearLobby(k)>>, tables)
           = <<Packet("eloUpdated", p), Packet("eloUpdated", q),
               Packet("endGameWon", p), Packet("endGameLost", q)>>
<1>1. \A type, r : PacketsOf(Send(type, r), tables) = <<Packet(type, r)>>
  BY PacketsOfKind DEF Send
<1>2. \A r : PacketsOf(UpdatePlayerElo(r), tables) = <<Packet("eloUpdated", r)>>
  BY PacketsOfKind DEF UpdatePlayerElo
<1>3. PacketsOf(ClearLobby(k), tables) = <<>>
  BY PacketsOfKind DEF ClearLobby, Silent
<1>4. PacketsOfCalls(<<UpdatePlayerElo(p), UpdatePlayerElo(q), Send("endGameWon", p),
                       Send("endGameLost", q), ClearLobby(k)>>, tables)
        = <<Packet("eloUpdated", p), Packet("eloUpdated", q),
            Packet("endGameWon", p), Packet("endGameLost", q)>>
  <2>. DEFINE h == <<UpdatePlayerElo(p), UpdatePlayerElo(q), Send("endGameWon", p),
                     Send("endGameLost", q), ClearLobby(k)>>
  <2>1. DOMAIN h = 1..5 /\ h[1] = UpdatePlayerElo(p) /\ h[2] = UpdatePlayerElo(q)
        /\ h[3] = Send("endGameWon", p) /\ h[4] = Send("endGameLost", q) /\ h[5] = ClearLobby(k)
    OBVIOUS
  <2>. HIDE DEF h
  <2>3. /\ PacketsOf(h[1], tables) = <<Packet("eloUpdated", p)>>
        /\ PacketsOf(h[2], tables) = <<Packet("eloUpdated", q)>>
        /\ PacketsOf(h[3], tables) = <<Packet("endGameWon", p)>>
        /\ PacketsOf(h[4], tables) = <<Packet("endGameLost", q)>>
        /\ PacketsOf(h[5], tables) = <<>>
    BY <1>1, <1>2, <1>3, <2>1
  <2>2. PacketsOfCalls(h, tables) = <<Packet("eloUpdated", p)>> \o (<<Packet("eloUpdated", q)>> \o
          (<<Packet("endGameWon", p)>> \o (<<Packet("endGameLost", q)>> \o <<>>)))
    BY <2>1, <2>3, FiveDue
  <2>4. \A a, b, c, d : <<a>> \o (<<b>> \o (<<c>> \o (<<d>> \o <<>>))) = <<a, b, c, d>>
    BY Joined
  <2>5. <<Packet("eloUpdated", p)>> \o (<<Packet("eloUpdated", q)>> \o
          (<<Packet("endGameWon", p)>> \o (<<Packet("endGameLost", q)>> \o <<>>)))
          = <<Packet("eloUpdated", p), Packet("eloUpdated", q),
              Packet("endGameWon", p), Packet("endGameLost", q)>>
    BY <2>4
  <2>6. PacketsOfCalls(h, tables) = <<Packet("eloUpdated", p), Packet("eloUpdated", q),
              Packet("endGameWon", p), Packet("endGameLost", q)>>
    BY <2>2, <2>5
  <2>. QED
    BY <2>6 DEF h
<1>. QED
  BY <1>4

LEMMA DueRemoval ==
  ASSUME NEW k, NEW tables, NEW p, NEW q, NEW i
  PROVE  PacketsOfCalls(<<Send("endGameWon", q), UpdatePlayerElo(p), UpdatePlayerElo(q),
                          ClearLobby(k), ResetSlot(i)>>, tables)
           = <<Packet("endGameWon", q), Packet("eloUpdated", p), Packet("eloUpdated", q)>>
<1>1. \A type, r : PacketsOf(Send(type, r), tables) = <<Packet(type, r)>>
  BY PacketsOfKind DEF Send
<1>2. \A r : PacketsOf(UpdatePlayerElo(r), tables) = <<Packet("eloUpdated", r)>>
  BY PacketsOfKind DEF UpdatePlayerElo
<1>3. PacketsOf(ClearLobby(k), tables) = <<>> /\ PacketsOf(ResetSlot(i), tables) = <<>>
  BY PacketsOfKind DEF ClearLobby, ResetSlot, Silent
<1>4. PacketsOfCalls(<<Send("endGameWon", q), UpdatePlayerElo(p), UpdatePlayerElo(q),
                       ClearLobby(k), ResetSlot(i)>>, tables)
        = <<Packet("endGameWon", q), Packet("eloUpdated", p), Packet("eloUpdated", q)>>
  <2>. DEFINE h == <<Send("endGameWon", q), UpdatePlayerElo(p), UpdatePlayerElo(q),
                     ClearLobby(k), ResetSlot(i)>>
  <2>1. DOMAIN h = 1..5 /\ h[1] = Send("endGameWon", q) /\ h[2] = UpdatePlayerElo(p)
        /\ h[3] = UpdatePlayerElo(q) /\ h[4] = ClearLobby(k) /\ h[5] = ResetSlot(i)
    OBVIOUS
  <2>. HIDE DEF h
  <2>2. PacketsOfCalls(h, tables) = <<Packet("endGameWon", q)>> \o (<<Packet("eloUpdated", p)>> \o
          (<<Packet("eloUpdated", q)>> \o (<<>> \o <<>>)))
    BY <1>1, <1>2, <1>3, <2>1, FiveDue
  <2>. QED
    BY <2>2, Joined, Zenon DEF h
<1>. QED
  BY <1>4

-----------------------------------------------------------------------------
(* The calls of each handler are flat.                                       *)

LEMMA OneCall ==
  ASSUME NEW c \in Calls, c.op \in {"send", "identifyClient", "resetSlot"}
  PROVE  FlatHandler(<<c>>)
<1>. DEFINE h == <<c>>
<1>1. h \in Seq(Calls) /\ Len(h) = 1 /\ DOMAIN h = 1..1 /\ h[1] = c
  OBVIOUS
<1>. HIDE DEF h
<1>2. FlatHandler(h)
  BY <1>1 DEF FlatHandler, IsOfStart
<1>. QED
  BY <1>2 DEF h

LEMMA TwoSends ==
  ASSUME NEW c \in Calls, NEW d \in Calls, c.op = "send", d.op = "send"
  PROVE  FlatHandler(<<c, d>>)
<1>. DEFINE h == <<c, d>>
<1>1. h \in Seq(Calls) /\ Len(h) = 2 /\ DOMAIN h = 1..2 /\ h[1] = c /\ h[2] = d
  OBVIOUS
<1>. HIDE DEF h
<1>2. FlatHandler(h)
  BY <1>1 DEF FlatHandler, IsOfStart
<1>. QED
  BY <1>2 DEF h

LEMMA NoCall == FlatHandler(<<>>)
<1>1. <<>> \in Seq(Calls) /\ Len(<<>>) = 0 /\ DOMAIN <<>> = {}
  BY EmptySeq
<1>. QED
  BY <1>1 DEF FlatHandler

LEMMA FiveFlat ==
  ASSUME NEW a \in Calls, NEW b \in Calls, NEW c \in Calls, NEW d \in Calls, NEW e \in Calls,
         \A x \in {a, b, c, d, e} : x.op \in {"send", "updatePlayerElo", "clearLobby", "resetSlot"}
  PROVE  FlatHandler(<<a, b, c, d, e>>)
<1>. DEFINE h == <<a, b, c, d, e>>
<1>1. h \in Seq(Calls) /\ Len(h) = 5 /\ DOMAIN h = 1..5
      /\ h[1] = a /\ h[2] = b /\ h[3] = c /\ h[4] = d /\ h[5] = e
  OBVIOUS
<1>. HIDE DEF h
<1>2. \A n \in DOMAIN h : h[n].op \in {"send", "updatePlayerElo", "clearLobby", "resetSlot"}
  BY <1>1
<1>3. FlatHandler(h)
  BY <1>1, <1>2 DEF FlatHandler, IsOfStart
<1>. QED
  BY <1>3 DEF h

LEMMA StartFlat ==
  ASSUME NEW k \in LobbyIds
  PROVE  FlatHandler(StartGame(k))
         /\ \A p \in AnyPort : FlatHandler(<<Send("joinLobby", p), StartIfComplete(k)>>)
<1>. DEFINE h == <<SendToSeat("startGame0", k, 1), SendToSeat("startGame1", k, 2),
                   SendToSeat("newTurn", k, 1)>>
<1>1. SendToSeat("startGame0", k, 1) \in Calls /\ SendToSeat("startGame1", k, 2) \in Calls
      /\ SendToSeat("newTurn", k, 1) \in Calls
  BY CallTypes DEF ServerPackets, Seats
<1>2. h \in Seq(Calls) /\ Len(h) = 3 /\ DOMAIN h = 1..3
      /\ h[1].op = "sendToSeat" /\ h[2].op = "sendToSeat" /\ h[3].op = "sendToSeat"
  BY <1>1 DEF SendToSeat
<1>. HIDE DEF h
<1>3. FlatHandler(h)
  BY <1>2 DEF FlatHandler
<1>4. StartGame(k) \in {h, <<>>}
  BY DEF StartGame, h
<1>5. ASSUME NEW p \in AnyPort PROVE FlatHandler(<<Send("joinLobby", p), StartIfComplete(k)>>)
  <2>. DEFINE g == <<Send("joinLobby", p), StartIfComplete(k)>>
  <2>1. Send("joinLobby", p) \in Calls /\ StartIfComplete(k) \in Calls
    BY CallTypes DEF ServerPackets
  <2>2. g \in Seq(Calls) /\ Len(g) = 2 /\ DOMAIN g = 1..2
        /\ g[1].op = "send" /\ g[2].op = "startIfComplete"
    BY <2>1 DEF Send, StartIfComplete
  <2>. HIDE DEF g
  <2>3. FlatHandler(g)
    BY <2>2 DEF FlatHandler
  <2>. QED
    BY <2>3 DEF g
<1>. QED
  BY <1>3, <1>4, <1>5, NoCall

-----------------------------------------------------------------------------
(* What a step does to the abstract state.                                   *)

AtomicVars == <<SettledLobbies, DuePackets, IsWhole>>

LEMMA ReadingIsIdle ==
  ASSUME TypeOK, FlatInv, IsWhole, Next1("receive")
  PROVE  LastOne(stack) /\ SettledLobbies = lobbies /\ DuePackets = <<>> /\ stack # <<>>
<1>1. 1 \in DOMAIN stack /\ stack[1].op = "receive" /\ DOMAIN stack = 1..Len(stack)
      /\ Len(stack) \in Nat /\ stack # <<>>
  BY HeadInDomain, LenProperties DEF Next1, Call, TypeOK
<1>2. \A n \in DOMAIN stack : stack[n].op = "receive"
  BY <1>1 DEF FlatInv, FlatCalls
<1>3. DuePackets = <<>>
  BY <1>2, DueReading DEF DuePackets
<1>4. \A k \in LobbyIds : ~IsToClear(k)
  BY <1>2 DEF IsToClear, ClearLobby
<1>. QED
  BY <1>1, <1>2, <1>3, <1>4 DEF LastOne, SettledLobbies, TypeOK, ServerTypeOK

ToClear(h, k) == \E n \in DOMAIN h : h[n] = ClearLobby(k)

(* A handler runs in place of the only call left.                            *)
LEMMA RunHandler ==
  ASSUME TypeOK, IsWhole, stack # <<>>, LastOne(stack), NEW h, FlatHandler(h), Run(h),
         peer' = peer
  PROVE  /\ IsWhole' /\ FlatInv'
         /\ DuePackets' = PacketsOfCalls(h, lobbies')
         /\ SettledLobbies' = [k \in LobbyIds |-> IF ToClear(h, k) THEN EmptyLobby ELSE lobbies'[k]]
<1>1. IsWhole'
  BY DEF IsWhole, Run
<1>2. h \in Seq(Calls) /\ stack \in Seq(Calls)
  BY DEF FlatHandler, TypeOK
<1>3. stack' = h \o Tail(stack)
  BY DEF Run
<1>4. FlatInv'
  BY <1>2, <1>3, FlatPush DEF FlatInv
<1>5. DuePackets' = PacketsOfCalls(h, lobbies')
  <2>1. PacketsOfCalls(h \o Tail(stack), lobbies') = PacketsOfCalls(h, lobbies')
    BY <1>2, DuePush
  <2>. QED
    BY <1>1, <1>3, <2>1 DEF DuePackets
<1>6. ASSUME NEW k \in LobbyIds PROVE IsToClear(k)' <=> ToClear(h, k)
  <2>1. /\ DOMAIN stack' = 1..Len(stack') /\ DOMAIN h = 1..Len(h) /\ Len(h) \in Nat
        /\ Len(stack') \in Nat
        /\ \A i \in 1..Len(h) : i \in DOMAIN stack' /\ stack'[i] = h[i]
        /\ \A i \in DOMAIN stack' : i > Len(h) => stack'[i].op = "receive"
    <3>. DEFINE new == h \o Tail(stack)
    <3>1. /\ DOMAIN new = 1..Len(new) /\ DOMAIN h = 1..Len(h) /\ Len(h) \in Nat
          /\ Len(new) \in Nat
          /\ \A i \in 1..Len(h) : i \in DOMAIN new /\ new[i] = h[i]
          /\ \A i \in DOMAIN new : i > Len(h) => new[i].op = "receive"
      BY <1>2, Pushed DEF LastOne
    <3>. QED
      BY <1>3, <3>1
  <2>2. ClearLobby(k).op # "receive"
    BY DEF ClearLobby
  <2>. QED
    BY <2>1, <2>2 DEF IsToClear, ToClear
<1>7. SettledLobbies' = [k \in LobbyIds |-> IF ToClear(h, k) THEN EmptyLobby ELSE lobbies'[k]]
  BY <1>1, <1>6 DEF SettledLobbies
<1>. QED
  BY <1>1, <1>4, <1>5, <1>7

LEMMA PopCall ==
  ASSUME TypeOK, FlatInv, IsWhole, stack # <<>>, Run(<<>>), peer' = peer,
         \/ lobbies' = lobbies /\ \A k \in LobbyIds : Call # ClearLobby(k)
         \/ Clear
  PROVE  /\ IsWhole' /\ FlatInv' /\ SettledLobbies' = SettledLobbies
         /\ DuePackets = PacketsOf(Call, lobbies) \o DuePackets' /\ DuePackets' \in Seq(AnyPacket)
<1>1. IsWhole'
  BY DEF IsWhole, Run
<1>2. stack \in Seq(Calls) /\ lobbies \in [LobbyIds -> Lobby] /\ FlatCalls(stack)
      /\ 1 \in DOMAIN stack /\ stack[1] = Call
  BY HeadInDomain DEF TypeOK, ServerTypeOK, FlatInv
<1>3. lobbies' \in [LobbyIds -> Lobby] /\ stack' \in Seq(Calls)
  <2>1. lobbies' \in [LobbyIds -> Lobby]
    BY <1>2, InnerCallType DEF TypeOK, ServerTypeOK
  <2>. QED
    BY <2>1, RunType, EmptySeq
<1>4. stack' = <<>> \o Tail(stack)
  BY DEF Run
<1>5. FlatInv'
  <2>1. FlatCalls(<<>> \o Tail(stack))
    BY <1>2, FlatPop
  <2>. QED
    BY <1>4, <2>1 DEF FlatInv
<1>6. \A k \in LobbyIds : Call # ClearLobby(k) => (IsToClear(k)' <=> IsToClear(k))
  <2>1. /\ DOMAIN stack' = 1..Len(stack') /\ DOMAIN stack = 1..Len(stack)
        /\ Len(stack') \in Nat /\ Len(stack) \in Nat /\ Len(stack') = Len(stack) - 1
        /\ \A i \in DOMAIN stack' : stack'[i] = stack[i + 1]
    <3>. DEFINE h == <<>>
                new == h \o Tail(stack)
    <3>1. h \in Seq(Calls) /\ Len(h) = 0
      BY EmptySeq
    <3>. HIDE DEF h
    <3>2. DOMAIN new = 1..Len(new) /\ Len(new) \in Nat /\ Len(new) = Len(h) + Len(stack) - 1
          /\ DOMAIN stack = 1..Len(stack) /\ Len(stack) \in Nat
      BY <1>2, <3>1, Pushed
    <3>3. \A i \in DOMAIN new : i > Len(h) => new[i] = stack[i - Len(h) + 1]
      BY <1>2, <3>1, Pushed
    <3>. HIDE DEF new
    <3>4. \A i \in DOMAIN new : i > Len(h) /\ i - Len(h) + 1 = i + 1
      BY <3>1, <3>2
    <3>5. Len(new) = Len(stack) - 1
      BY <3>1, <3>2
    <3>6. stack' = new
      BY <1>4 DEF new, h
    <3>. QED
      BY <3>2, <3>3, <3>4, <3>5, <3>6
  <2>2. ASSUME NEW k \in LobbyIds, Call # ClearLobby(k), IsToClear(k) PROVE IsToClear(k)'
    <3>1. PICK n \in DOMAIN stack : stack[n] = ClearLobby(k)
      BY <2>2 DEF IsToClear
    <3>2. n # 1
      BY <1>2, <2>2, <3>1
    <3>3. n - 1 \in DOMAIN stack' /\ (n - 1) + 1 = n
      BY <2>1, <3>2
    <3>. QED
      BY <2>1, <3>1, <3>3 DEF IsToClear
  <2>3. ASSUME NEW k \in LobbyIds, IsToClear(k)' PROVE IsToClear(k)
    <3>1. PICK n \in DOMAIN stack' : stack'[n] = ClearLobby(k)
      BY <2>3 DEF IsToClear
    <3>2. n + 1 \in DOMAIN stack
      BY <2>1
    <3>. QED
      BY <2>1, <3>1, <3>2 DEF IsToClear
  <2>. QED
    BY <2>2, <2>3
<1>7. SettledLobbies' = SettledLobbies
  <2>1. CASE lobbies' = lobbies /\ \A k \in LobbyIds : Call # ClearLobby(k)
    BY <1>1, <1>6, <2>1 DEF SettledLobbies
  <2>2. CASE Clear
    <3>1. Call.op = "clearLobby" /\ Call \in Calls
      BY <2>2, CallType DEF Clear, Next1, Call
    <3>2. Call.lobby \in LobbyIds /\ Call = ClearLobby(Call.lobby)
      BY <3>1 DEF Calls, ServerCalls, ClearLobby
    <3>3. \A k \in LobbyIds : k # Call.lobby => Call # ClearLobby(k) /\ lobbies'[k] = lobbies[k]
      BY <1>2, <2>2 DEF Clear, ClearLobby
    <3>4. lobbies'[Call.lobby] = EmptyLobby /\ IsToClear(Call.lobby)
      BY <1>2, <2>2, <3>2 DEF Clear, IsToClear
    <3>5. \A k \in LobbyIds : SettledLobbies'[k] = SettledLobbies[k]
      <4>. TAKE k \in LobbyIds
      <4>1. CASE k = Call.lobby
        BY <3>4, <4>1 DEF SettledLobbies
      <4>2. CASE k # Call.lobby
        BY <1>1, <1>6, <3>3, <4>2 DEF SettledLobbies
      <4>. QED
        BY <4>1, <4>2
    <3>. QED
      BY <3>5 DEF SettledLobbies
  <2>. QED
    BY <2>1, <2>2
<1>8. lobbies' = lobbies \/ \A n \in DOMAIN stack : ~IsOfStart(stack[n])
  <2>1. CASE Clear
    <3>1. stack[1].op = "clearLobby"
      BY <1>2, <2>1 DEF Clear, Next1, Call
    <3>. QED
      BY <1>2, <3>1 DEF FlatCalls
  <2>. QED
    BY <2>1
<1>9. DuePackets = PacketsOf(Call, lobbies) \o DuePackets'
  <2>1. PacketsOfCalls(stack, lobbies)
          = PacketsOf(stack[1], lobbies) \o PacketsOfCalls(<<>> \o Tail(stack), lobbies')
    BY <1>2, <1>3, <1>8, DuePop
  <2>. QED
    BY <1>1, <1>2, <1>4, <2>1 DEF DuePackets
<1>10. DuePackets' \in Seq(AnyPacket)
  <2>1. PacketsOfCalls(stack', lobbies') \in Seq(AnyPacket)
    BY <1>3, PacketsOfCallsType
  <2>. QED
    BY <1>1, <2>1 DEF DuePackets
<1>. QED
  BY <1>1, <1>5, <1>7, <1>9, <1>10

(* A call that is replaced by the send it makes.                             *)
LEMMA ReplaceCall ==
  ASSUME TypeOK, FlatInv, IsWhole, stack # <<>>, NEW c \in Calls, c.op = "send", Run(<<c>>),
         PacketsOf(c, lobbies) = PacketsOf(Call, lobbies), Call.op # "clearLobby",
         peer' = peer, lobbies' = lobbies
  PROVE  FlatInv' /\ UNCHANGED AtomicVars
<1>1. IsWhole'
  BY DEF IsWhole, Run
<1>2. stack \in Seq(Calls) /\ FlatCalls(stack) /\ 1 \in DOMAIN stack /\ stack[1] = Call
  BY HeadInDomain DEF TypeOK, FlatInv
<1>3. stack' = <<c>> \o Tail(stack)
  BY DEF Run
<1>4. FlatInv'
  <2>1. FlatCalls(<<c>> \o Tail(stack))
    BY <1>2, FlatReplace
  <2>. QED
    BY <1>3, <2>1 DEF FlatInv
<1>5. DuePackets' = DuePackets
  <2>1. PacketsOfCalls(<<c>> \o Tail(stack), lobbies) = PacketsOfCalls(stack, lobbies)
    BY <1>2, DueReplace
  <2>. QED
    BY <1>1, <1>3, <2>1 DEF DuePackets
<1>6. /\ DOMAIN stack' = DOMAIN stack /\ 1 \in DOMAIN stack
      /\ \A i \in DOMAIN stack' : i # 1 => stack'[i] = stack[i]
      /\ stack'[1] = c
  <2>. DEFINE h == <<c>>
              new == h \o Tail(stack)
  <2>1. h \in Seq(Calls) /\ Len(h) = 1 /\ h[1] = c
    OBVIOUS
  <2>. HIDE DEF h
  <2>2. DOMAIN new = 1..Len(new) /\ DOMAIN stack = 1..Len(stack) /\ Len(stack) \in Nat
        /\ Len(new) = Len(h) + Len(stack) - 1
    BY <1>2, <2>1, Pushed
  <2>3. \A i \in 1..Len(h) : i \in DOMAIN new /\ new[i] = h[i]
    BY <1>2, <2>1, Pushed
  <2>4. \A i \in DOMAIN new : i > Len(h) => new[i] = stack[i - Len(h) + 1]
    BY <1>2, <2>1, Pushed
  <2>. HIDE DEF new
  <2>5. \A i \in DOMAIN new : i # 1 => i > Len(h) /\ i - Len(h) + 1 = i
    BY <2>1, <2>2
  <2>6. stack' = new
    BY <1>3 DEF new, h
  <2>. QED
    BY <1>2, <2>1, <2>2, <2>3, <2>4, <2>5, <2>6
<1>7. \A k \in LobbyIds : IsToClear(k)' <=> IsToClear(k)
  <2>1. \A k \in LobbyIds : c # ClearLobby(k) /\ stack[1] # ClearLobby(k)
    BY <1>2 DEF ClearLobby
  <2>. QED
    BY <1>6, <2>1 DEF IsToClear
<1>8. SettledLobbies' = SettledLobbies
  BY <1>1, <1>7 DEF SettledLobbies
<1>. QED
  BY <1>1, <1>4, <1>5, <1>8 DEF AtomicVars

-----------------------------------------------------------------------------
(* One lemma per kind of step.                                               *)

Refines == FlatInv' /\ [Atomic!Next]_(Atomic!vars)

LEMMA Stutters ==
  ASSUME FlatInv', UNCHANGED AtomicVars
  PROVE  Refines
BY DEF Refines, AtomicVars, Atomic!vars

LEMMA Breaks ==
  ASSUME IsWhole, ~IsWhole'
  PROVE  Refines
<1>1. SettledLobbies' = Atomic!NoGames /\ DuePackets' = <<>>
  BY DEF SettledLobbies, DuePackets, Atomic!NoGames, Atomic!LobbyIds, LobbyIds,
     Atomic!EmptyLobby, EmptyLobby, Atomic!NoClient, NoClient, Atomic!Seats, Seats
<1>2. IsWhole = TRUE /\ IsWhole' = FALSE
  BY DEF IsWhole
<1>3. Atomic!Break
  BY <1>1, <1>2 DEF Atomic!Break
<1>. QED
  BY <1>3 DEF Refines, FlatInv, Atomic!Next

LEMMA StaysBroken ==
  ASSUME TypeOK, ~IsWhole, [Next]_vars
  PROVE  Refines
<1>1. ~IsWhole'
  <2>1. CASE fault # "none"
    <3>1. UNCHANGED vars
      BY <2>1 DEF Next, ServerStep, ClientStep, PollClientsConnections, PollClientsPackets,
         SkipSlot, ReceivePacket, ReceiveFragment, ReceiveEnd, Receiving, SendDone, SendError,
         SendDisconnected, SendUnknown, Sending, FinishRemoval, StartGameIfComplete, Clear,
         AskElo, AskIdentity, Next1
    <3>. QED
      BY <2>1, <3>1 DEF vars, IsWhole
  <2>2. ASSUME NEW c \in Conn, peer[c] = "reset" PROVE peer'[c] = "reset"
    <3>1. CASE UNCHANGED peer
      BY <2>2, <3>1
    <3>2. CASE ClientStep
      BY <2>2, <3>2 DEF ClientStep, Connect, ArrivePiece, Close, Reset, Arrive, TypeOK, NetTypeOK
    <3>3. CASE ServerStep
      <4>1. UNCHANGED peer
        BY <3>3 DEF ServerStep, PollClientsConnections, Accept, PollClientsPackets, SkipSlot,
           ReceivePacket, ReceiveFragment, ReceiveEnd, SendDone, SendError, SendDisconnected,
           SendUnknown, FinishRemoval, StartGameIfComplete, Clear, AskElo, AskIdentity, netVars
      <4>. QED
        BY <3>1, <4>1
    <3>. QED
      BY <3>1, <3>2, <3>3 DEF Next, vars
  <2>. QED
    BY <2>1, <2>2 DEF IsWhole
<1>2. UNCHANGED AtomicVars
  <2>1. IsWhole = FALSE /\ IsWhole' = FALSE
    BY <1>1 DEF IsWhole
  <2>. QED
    BY <2>1 DEF AtomicVars, SettledLobbies, DuePackets
<1>. QED
  BY <1>1, <1>2, Stutters DEF FlatInv

LEMMA PortType ==
  ASSUME IsWhole, NEW c \in Conn
  PROVE  RemotePort(c) \in Port /\ RemotePort(c) # NoPort
BY PortAssumption, NoPortAssumption DEF IsWhole, RemotePort

LEMMA IsNow ==
  ASSUME TypeOK, FlatInv, IsWhole, Next1("receive"), NEW h, FlatHandler(h), Run(h), peer' = peer
  PROVE  /\ FlatInv'
         /\ \A packets, table :
              /\ packets = PacketsOfCalls(h, lobbies')
              /\ table = [k \in LobbyIds |-> IF ToClear(h, k) THEN EmptyLobby ELSE lobbies'[k]]
              => Atomic!Handle(packets, table)
<1>1. LastOne(stack) /\ SettledLobbies = lobbies /\ DuePackets = <<>> /\ stack # <<>>
  BY ReadingIsIdle
<1>2. /\ IsWhole' /\ FlatInv'
      /\ DuePackets' = PacketsOfCalls(h, lobbies')
      /\ SettledLobbies' = [k \in LobbyIds |-> IF ToClear(h, k) THEN EmptyLobby ELSE lobbies'[k]]
  BY <1>1, RunHandler
<1>3. IsWhole' = IsWhole
  BY <1>2 DEF IsWhole
<1>. QED
  BY <1>1, <1>2, <1>3 DEF Atomic!Handle

LEMMA NothingCleared ==
  ASSUME TypeOK, FlatInv, IsWhole, Next1("receive"), NEW h, FlatHandler(h), Run(h), peer' = peer,
         lobbies' = lobbies, \A n \in DOMAIN h : h[n].op # "clearLobby"
  PROVE  FlatInv' /\ Atomic!Handle(PacketsOfCalls(h, lobbies), SettledLobbies)
<1>1. \A k : ~ToClear(h, k)
  BY DEF ToClear, ClearLobby
<1>2. lobbies = [k \in LobbyIds |-> IF ToClear(h, k) THEN EmptyLobby ELSE lobbies'[k]]
  BY <1>1 DEF TypeOK, ServerTypeOK
<1>3. SettledLobbies = lobbies
  BY ReadingIsIdle
<1>. QED
  BY <1>2, <1>3, IsNow

LEMMA HandlesNothing ==
  ASSUME FlatInv', Atomic!Handle(<<>>, SettledLobbies)
  PROVE  Refines
BY Stutters DEF Atomic!Handle, AtomicVars

LEMMA SameTables ==
  ASSUME SettledLobbies = lobbies, NEW port
  PROVE  \A k \in LobbyIds :
           /\ Atomic!OpponentIn(k, port) = Opposite(lobbies[k], port).port
           /\ Atomic!IsTableOf(k, port) <=> IsFirstWith(k, port)
           /\ Atomic!IsGameOf(k, port) <=> IsFirstGameOf(k, port)
           /\ Atomic!IsNext(k) <=> IsFirstOpen(k)
<1>1. Atomic!LobbyIds = LobbyIds /\ Atomic!Seats = Seats
  BY DEF Atomic!LobbyIds, LobbyIds, Atomic!Seats, Seats
<1>2. \A lobby : Atomic!Opposite(lobby, port) = Opposite(lobby, port)
  BY DEF Atomic!Opposite, Opposite, Atomic!NoClient, NoClient
<1>3. \A lobby : /\ Atomic!IsSeated(lobby, port) <=> IsSeated(lobby, port)
                 /\ Atomic!IsComplete(lobby) <=> IsComplete(lobby)
  BY <1>1 DEF Atomic!IsSeated, IsSeated, Atomic!IsComplete, IsComplete
<1>4. \A k : Atomic!OpponentIn(k, port) = Opposite(lobbies[k], port).port
  BY <1>2 DEF Atomic!OpponentIn
<1>5. \A k \in LobbyIds : Atomic!IsTableOf(k, port) <=> IsFirstWith(k, port)
  BY <1>1, <1>3 DEF Atomic!IsTableOf, IsFirstWith
<1>6. \A k \in LobbyIds : Atomic!IsGameOf(k, port) <=> IsFirstGameOf(k, port)
  BY <1>1, <1>4 DEF Atomic!IsGameOf, IsFirstGameOf, HasOpponent
<1>7. \A k \in LobbyIds : Atomic!IsNext(k) <=> IsFirstOpen(k)
  BY <1>1, <1>3 DEF Atomic!IsNext, IsFirstOpen
<1>. QED
  BY <1>4, <1>5, <1>6, <1>7

LEMMA Moves ==
  ASSUME TypeOK, FlatInv, IsWhole, Next1("receive"), NEW port \in Port,
         Run(OnNewTurn(port)) \/ Run(OnCueBallVelocity(port)), peer' = peer, lobbies' = lobbies
  PROVE  Refines
<1>. DEFINE other == FindClientOpponentInLobbies(port)
            one == <<Send("newTurn", other)>>
            two == <<Send("cueBallVelocity", other), Send("cueBallVelocity", port)>>
<1>1. SettledLobbies = lobbies
  BY ReadingIsIdle
<1>2. CASE other = NoPort
  <2>1. Run(<<>>)
    BY <1>2 DEF OnNewTurn, OnCueBallVelocity
  <2>2. DOMAIN <<>> = {}
    OBVIOUS
  <2>3. FlatInv' /\ Atomic!Handle(PacketsOfCalls(<<>>, lobbies), SettledLobbies)
    BY <2>1, <2>2, NoCall, NothingCleared
  <2>4. PacketsOfCalls(<<>>, lobbies) = <<>>
    BY DueForward
  <2>. QED
    BY <2>3, <2>4, HandlesNothing
<1>3. CASE other # NoPort
  <2>1. PICK k \in LobbyIds : IsFirstWith(k, port) /\ other = Opposite(lobbies[k], port).port
    BY <1>3 DEF FindClientOpponentInLobbies
  <2>2. Atomic!IsTableOf(k, port) /\ Atomic!OpponentIn(k, port) = other
    BY <1>1, <2>1, SameTables
  <2>3. k \in Atomic!LobbyIds
    BY DEF Atomic!LobbyIds, LobbyIds
  <2>4. Atomic!Packet("newTurn", other) = Packet("newTurn", other)
        /\ \A p : Atomic!Packet("cueBallVelocity", p) = Packet("cueBallVelocity", p)
    BY DEF Atomic!Packet, Packet
  <2>5. other \in AnyPort /\ port \in AnyPort
    BY <2>1, OppositeType DEF TypeOK, ServerTypeOK, ClientData, AnyPort
  <2>6. /\ Send("newTurn", other) \in Calls
        /\ Send("cueBallVelocity", other) \in Calls /\ Send("cueBallVelocity", port) \in Calls
        /\ \A type, p : Send(type, p).op = "send"
    BY <2>5, CallTypes DEF ServerPackets, Send
  <2>7. CASE Run(OnNewTurn(port))
    <3>1. Run(one)
      BY <1>3, <2>7 DEF OnNewTurn
    <3>2. FlatHandler(one)
      BY <2>6, OneCall
    <3>3. \A n \in DOMAIN one : one[n].op # "clearLobby"
      BY <2>6
    <3>. HIDE DEF other, one, two
    <3>4. FlatInv' /\ Atomic!Handle(PacketsOfCalls(one, lobbies), SettledLobbies)
      BY <3>1, <3>2, <3>3, NothingCleared
    <3>5. PacketsOfCalls(one, lobbies) = <<Packet("newTurn", other)>>
      BY DueForward DEF one
    <3>6. Atomic!Handle(<<Atomic!Packet("newTurn", other)>>, SettledLobbies)
      BY <2>4, <3>4, <3>5
    <3>7. Atomic!Move(port)
      BY <1>3, <2>2, <2>3, <3>6 DEF Atomic!Move
    <3>. QED
      BY <3>4, <3>7 DEF Refines, Atomic!Next
  <2>8. CASE Run(OnCueBallVelocity(port))
    <3>1. Run(two)
      BY <1>3, <2>8 DEF OnCueBallVelocity
    <3>2. FlatHandler(two)
      BY <2>6, TwoSends
    <3>3. \A n \in DOMAIN two : two[n].op # "clearLobby"
      BY <2>6
    <3>. HIDE DEF other, one, two
    <3>4. FlatInv' /\ Atomic!Handle(PacketsOfCalls(two, lobbies), SettledLobbies)
      BY <3>1, <3>2, <3>3, NothingCleared
    <3>5. PacketsOfCalls(two, lobbies)
            = <<Packet("cueBallVelocity", other), Packet("cueBallVelocity", port)>>
      BY DueForward DEF two
    <3>6. Atomic!Handle(<<Atomic!Packet("cueBallVelocity", other),
                          Atomic!Packet("cueBallVelocity", port)>>, SettledLobbies)
      BY <2>4, <3>4, <3>5
    <3>7. Atomic!Move(port)
      BY <1>3, <2>2, <2>3, <3>6 DEF Atomic!Move
    <3>. QED
      BY <3>4, <3>7 DEF Refines, Atomic!Next
  <2>. QED
    BY <2>7, <2>8
<1>. QED
  BY <1>2, <1>3

LEMMA Identifies ==
  ASSUME TypeOK, FlatInv, IsWhole, Next1("receive"), NEW port \in Port,
         Run(<<IdentifyClient(port)>>), peer' = peer, lobbies' = lobbies
  PROVE  Refines
<1>. DEFINE h == <<IdentifyClient(port)>>
<1>1. IdentifyClient(port) \in Calls /\ IdentifyClient(port).op = "identifyClient"
  BY CallTypes DEF AnyPort, IdentifyClient
<1>2. FlatHandler(h) /\ Run(h) /\ \A n \in DOMAIN h : h[n].op # "clearLobby"
  BY <1>1, OneCall
<1>. HIDE DEF h
<1>3. FlatInv' /\ Atomic!Handle(PacketsOfCalls(h, lobbies), SettledLobbies)
  BY <1>2, NothingCleared
<1>4. PacketsOfCalls(h, lobbies) = <<Packet("clientIdentification", port)>>
  BY DueForward DEF h
<1>5. Atomic!Packet("clientIdentification", port) = Packet("clientIdentification", port)
  BY DEF Atomic!Packet, Packet
<1>6. Atomic!Identify(port)
  BY <1>3, <1>4, <1>5 DEF Atomic!Identify
<1>. QED
  BY <1>3, <1>6 DEF Refines, Atomic!Next

LEMMA Ignores ==
  ASSUME TypeOK, FlatInv, IsWhole, Next1("receive"), Run(<<>>), peer' = peer, lobbies' = lobbies
  PROVE  Refines
<1>1. DOMAIN <<>> = {}
  OBVIOUS
<1>2. FlatInv' /\ Atomic!Handle(PacketsOfCalls(<<>>, lobbies), SettledLobbies)
  BY <1>1, NoCall, NothingCleared
<1>3. PacketsOfCalls(<<>>, lobbies) = <<>>
  BY DueForward
<1>. QED
  BY <1>2, <1>3, HandlesNothing

LEMMA OneCleared ==
  ASSUME TypeOK, FlatInv, IsWhole, Next1("receive"), NEW h, FlatHandler(h), Run(h), peer' = peer,
         lobbies' = lobbies, NEW k \in LobbyIds,
         \A j \in LobbyIds : ToClear(h, j) <=> j = k
  PROVE  /\ FlatInv'
         /\ Atomic!Handle(PacketsOfCalls(h, lobbies),
                          [SettledLobbies EXCEPT ![k] = Atomic!EmptyLobby])
<1>1. SettledLobbies = lobbies /\ lobbies \in [LobbyIds -> Lobby]
  BY ReadingIsIdle DEF TypeOK, ServerTypeOK
<1>2. Atomic!EmptyLobby = EmptyLobby
  BY DEF Atomic!EmptyLobby, EmptyLobby, Atomic!NoClient, NoClient, Atomic!Seats, Seats
<1>3. [lobbies EXCEPT ![k] = EmptyLobby]
        = [j \in LobbyIds |-> IF ToClear(h, j) THEN EmptyLobby ELSE lobbies'[j]]
  BY <1>1
<1>. QED
  BY <1>1, <1>2, <1>3, IsNow

LEMMA EndsGame ==
  ASSUME TypeOK, FlatInv, IsWhole, Next1("receive"), NEW port \in Port, NEW i \in Nat,
         Run(OnEndGame(port)) \/ Run(OnClientDisconnection(port) \o <<ResetSlot(i)>>),
         peer' = peer, lobbies' = lobbies
  PROVE  Refines
<1>1. SettledLobbies = lobbies
  BY ReadingIsIdle
<1>2. ResetSlot(i) \in Calls /\ ResetSlot(i).op = "resetSlot"
  BY CallTypes DEF ResetSlot
<1>3. CASE ~\E k \in LobbyIds : IsFirstGameOf(k, port)
  <2>1. CASE Run(OnEndGame(port))
    <3>1. Run(<<>>)
      BY <1>3, <2>1 DEF OnEndGame
    <3>. QED
      BY <3>1, Ignores
  <2>2. CASE Run(OnClientDisconnection(port) \o <<ResetSlot(i)>>)
    <3>. DEFINE h == <<ResetSlot(i)>>
    <3>1. OnClientDisconnection(port) = <<>>
      BY <1>3 DEF OnClientDisconnection
    <3>2. <<>> \o h = h
      BY <1>2, NothingBefore
    <3>3. FlatHandler(h) /\ \A n \in DOMAIN h : h[n].op # "clearLobby"
      BY <1>2, OneCall
    <3>4. PacketsOfCalls(h, lobbies) = <<>>
      <4>1. DOMAIN h = 1..1 /\ h[1] = ResetSlot(i)
        OBVIOUS
      <4>. HIDE DEF h
      <4>2. PacketsOf(h[1], lobbies) = <<>>
        BY <1>2, <4>1, PacketsOfKind DEF Silent
      <4>3. PacketsOfCalls(h, lobbies) = <<>> \o (<<>> \o (<<>> \o (<<>> \o <<>>)))
        BY <4>1, <4>2, FiveDue
      <4>. QED
        BY <4>3, NothingBefore, EmptySeq
    <3>. HIDE DEF h
    <3>5. Run(h)
      BY <2>2, <3>1, <3>2 DEF h
    <3>6. FlatInv' /\ Atomic!Handle(PacketsOfCalls(h, lobbies), SettledLobbies)
      BY <3>3, <3>5, NothingCleared
    <3>. QED
      BY <3>4, <3>6, HandlesNothing
  <2>. QED
    BY <2>1, <2>2
<1>4. CASE \E k \in LobbyIds : IsFirstGameOf(k, port)
  <2>1. PICK k \in LobbyIds : /\ IsFirstGameOf(k, port)
                              /\ k = CHOOSE j \in LobbyIds : IsFirstGameOf(j, port)
    BY <1>4
  <2>. DEFINE other == Opposite(lobbies[k], port).port
              claim == <<UpdatePlayerElo(port), UpdatePlayerElo(other),
                         Send("endGameWon", port), Send("endGameLost", other), ClearLobby(k)>>
              left == <<Send("endGameWon", other), UpdatePlayerElo(port), UpdatePlayerElo(other),
                        ClearLobby(k), ResetSlot(i)>>
              table == [SettledLobbies EXCEPT ![k] = Atomic!EmptyLobby]
  <2>2. Atomic!IsGameOf(k, port) /\ Atomic!OpponentIn(k, port) = other /\ k \in Atomic!LobbyIds
    BY <1>1, <2>1, SameTables DEF Atomic!LobbyIds, LobbyIds
  <2>3. other \in AnyPort /\ port \in AnyPort
    BY OppositeType DEF TypeOK, ServerTypeOK, ClientData, AnyPort
  <2>. HIDE DEF other, table
  <2>4. /\ UpdatePlayerElo(port) \in Calls /\ UpdatePlayerElo(other) \in Calls
        /\ Send("endGameWon", port) \in Calls /\ Send("endGameWon", other) \in Calls
        /\ Send("endGameLost", other) \in Calls /\ ClearLobby(k) \in Calls
    BY <2>3, CallTypes DEF ServerPackets, Verdicts
  <2>5. /\ UpdatePlayerElo(port).op = "updatePlayerElo"
        /\ UpdatePlayerElo(other).op = "updatePlayerElo"
        /\ Send("endGameWon", port).op = "send" /\ Send("endGameWon", other).op = "send"
        /\ Send("endGameLost", other).op = "send" /\ ClearLobby(k).op = "clearLobby"
        /\ \A j : ClearLobby(j).op = "clearLobby" /\ (ClearLobby(j) = ClearLobby(k) <=> j = k)
    BY DEF UpdatePlayerElo, Send, ClearLobby
  <2>6. \A type, p : Atomic!Packet(type, p) = Packet(type, p)
    BY DEF Atomic!Packet, Packet
  <2>7. CASE Run(OnEndGame(port))
    <3>1. Run(claim)
      BY <1>4, <2>1, <2>7 DEF OnEndGame, other
    <3>2. FlatHandler(claim)
      BY <2>4, <2>5, FiveFlat
    <3>3. \A j \in LobbyIds : ToClear(claim, j) <=> j = k
      <4>1. /\ DOMAIN claim = 1..5 /\ claim[1] = UpdatePlayerElo(port)
            /\ claim[2] = UpdatePlayerElo(other) /\ claim[3] = Send("endGameWon", port)
            /\ claim[4] = Send("endGameLost", other) /\ claim[5] = ClearLobby(k)
        OBVIOUS
      <4>. HIDE DEF claim
      <4>. QED
        BY <2>5, <4>1 DEF ToClear
    <3>. HIDE DEF claim
    <3>4. FlatInv' /\ Atomic!Handle(PacketsOfCalls(claim, lobbies), table)
      BY <3>1, <3>2, <3>3, OneCleared DEF table
    <3>5. PacketsOfCalls(claim, lobbies)
            = <<Packet("eloUpdated", port), Packet("eloUpdated", other),
                Packet("endGameWon", port), Packet("endGameLost", other)>>
      BY DueEnd DEF claim
    <3>6. Atomic!Handle(<<Atomic!Packet("eloUpdated", port), Atomic!Packet("eloUpdated", other),
                          Atomic!Packet("endGameWon", port), Atomic!Packet("endGameLost", other)>>,
                        table)
      BY <2>6, <3>4, <3>5
    <3>7. Atomic!EndGame(port)
      BY <2>2, <3>6 DEF Atomic!EndGame, table
    <3>. QED
      BY <3>4, <3>7 DEF Refines, Atomic!Next
  <2>8. CASE Run(OnClientDisconnection(port) \o <<ResetSlot(i)>>)
    <3>0. OnClientDisconnection(port) = <<Send("endGameWon", other), UpdatePlayerElo(port),
                                          UpdatePlayerElo(other), ClearLobby(k)>>
      BY <1>4, <2>1 DEF OnClientDisconnection, other
    <3>1. Run(left)
      BY <2>8, <3>0, FiveCalls
    <3>2. FlatHandler(left)
      BY <1>2, <2>4, <2>5, FiveFlat
    <3>3. \A j \in LobbyIds : ToClear(left, j) <=> j = k
      <4>1. /\ DOMAIN left = 1..5 /\ left[1] = Send("endGameWon", other)
            /\ left[2] = UpdatePlayerElo(port) /\ left[3] = UpdatePlayerElo(other)
            /\ left[4] = ClearLobby(k) /\ left[5] = ResetSlot(i)
        OBVIOUS
      <4>. HIDE DEF left
      <4>. QED
        BY <1>2, <2>5, <4>1 DEF ToClear
    <3>. HIDE DEF left
    <3>4. FlatInv' /\ Atomic!Handle(PacketsOfCalls(left, lobbies), table)
      BY <3>1, <3>2, <3>3, OneCleared DEF table
    <3>5. PacketsOfCalls(left, lobbies)
            = <<Packet("endGameWon", other), Packet("eloUpdated", port),
                Packet("eloUpdated", other)>>
      BY DueRemoval DEF left
    <3>6. Atomic!Handle(<<Atomic!Packet("endGameWon", other), Atomic!Packet("eloUpdated", port),
                          Atomic!Packet("eloUpdated", other)>>, table)
      BY <2>6, <3>4, <3>5
    <3>7. Atomic!EndGame(port)
      BY <2>2, <3>6 DEF Atomic!EndGame, table
    <3>. QED
      BY <3>4, <3>7 DEF Refines, Atomic!Next
  <2>. QED
    BY <2>7, <2>8
<1>. QED
  BY <1>3, <1>4

LEMMA Joins ==
  ASSUME TypeOK, FlatInv, IsWhole, Next1("receive"), NEW port \in Port,
         NEW name \in Conn \cup {NoName},
         AddClientToLobby([username |-> name, port |-> port]), peer' = peer
  PROVE  Refines
<1>. DEFINE data == [username |-> name, port |-> port]
<1>1. SettledLobbies = lobbies /\ lobbies \in [LobbyIds -> Lobby]
  BY ReadingIsIdle DEF TypeOK, ServerTypeOK
<1>2. CASE Halt("lobbyOverflow")
  <2>1. ~IsWhole'
    BY <1>2 DEF Halt, IsWhole
  <2>. QED
    BY <2>1, Breaks
<1>3. ASSUME NEW k \in LobbyIds, IsFirstOpen(k),
             lobbies' = [lobbies EXCEPT ![k] = AddClient(@, data)],
             Run(<<Send("joinLobby", data.port), StartIfComplete(k)>>)
      PROVE  Refines
  <2>. DEFINE h == <<Send("joinLobby", port), StartIfComplete(k)>>
              lobby == AddClient(lobbies[k], data)
              start == IF IsComplete(lobby) THEN Atomic!StartOf(lobby) ELSE <<>>
              packets == <<Atomic!Packet("joinLobby", port)>> \o start
  <2>1. FlatHandler(h)
    BY StartFlat DEF AnyPort
  <2>2. \A j \in LobbyIds : ~ToClear(h, j)
    <3>1. DOMAIN h = 1..2 /\ h[1].op # "clearLobby" /\ h[2].op # "clearLobby"
      BY DEF Send, StartIfComplete
    <3>. HIDE DEF h
    <3>. QED
      BY <3>1 DEF ToClear, ClearLobby
  <2>3. Run(h)
    BY <1>3
  <2>4. PacketsOfCalls(h, lobbies') = packets
    <3>1. lobbies'[k] = lobby
      BY <1>1, <1>3
    <3>2. \A type, p : Atomic!Packet(type, p) = Packet(type, p)
      BY DEF Atomic!Packet, Packet
    <3>3. Atomic!StartOf(lobby) = <<Packet("startGame0", lobby[1].port),
                       Packet("startGame1", lobby[2].port), Packet("newTurn", lobby[1].port)>>
      BY <3>2 DEF Atomic!StartOf
    <3>. HIDE DEF lobby
    <3>4. PacketsOfCalls(h, lobbies') = <<Packet("joinLobby", port)>> \o
               (IF IsComplete(lobbies'[k])
                THEN <<Packet("startGame0", lobbies'[k][1].port),
                       Packet("startGame1", lobbies'[k][2].port),
                       Packet("newTurn", lobbies'[k][1].port)>>
                ELSE <<>>)
      BY DueJoin
    <3>. HIDE DEF h
    <3>. QED
      BY <3>1, <3>2, <3>3, <3>4
  <2>5. lobbies' = [j \in LobbyIds |-> IF ToClear(h, j) THEN EmptyLobby ELSE lobbies'[j]]
    BY <1>1, <1>3, <2>2
  <2>. HIDE DEF h, packets
  <2>6. FlatInv' /\ Atomic!Handle(packets, lobbies')
    BY <2>1, <2>3, <2>4, <2>5, IsNow
  <2>7. /\ k \in Atomic!LobbyIds /\ Atomic!IsNext(k)
        /\ Atomic!AddClient(SettledLobbies[k], data) = lobby
        /\ Atomic!IsComplete(lobby) = IsComplete(lobby)
    BY <1>1, <1>3, SameTables DEF Atomic!LobbyIds, LobbyIds, Atomic!AddClient, AddClient,
       Atomic!IsComplete, IsComplete, Atomic!Seats, Seats
  <2>8. lobbies' = [SettledLobbies EXCEPT ![k] = lobby]
    BY <1>1, <1>3
  <2>. HIDE DEF lobby
  <2>9. data.port = port
    OBVIOUS
  <2>. HIDE DEF data
  <2>10. Atomic!Join(data)
    BY <2>6, <2>7, <2>8, <2>9 DEF Atomic!Join, packets
  <2>. QED
    BY <2>6, <2>10 DEF Refines, Atomic!Next, data
<1>. QED
  BY <1>2, <1>3 DEF AddClientToLobby

LEMMA PollRefines ==
  ASSUME TypeOK, FlatInv, IsWhole, PollClientsConnections \/ PollClientsPackets
  PROVE  Refines
<1>0. IsWhole' /\ IsWhole' = IsWhole /\ lobbies' = lobbies /\ stack = <<>>
  BY DEF PollClientsConnections, PollClientsPackets, Accept, IsWhole, serverVars, netVars
<1>1. CASE PollClientsConnections
  <2>1. stack' = stack
    BY <1>1 DEF PollClientsConnections
  <2>2. UNCHANGED AtomicVars
    BY <1>0, <2>1 DEF AtomicVars, SettledLobbies, IsToClear, DuePackets
  <2>3. FlatInv'
    BY <1>0, <2>1 DEF FlatInv
  <2>. QED
    BY <2>2, <2>3, Stutters
<1>2. CASE PollClientsPackets
  <2>1. DOMAIN stack = {}
    BY <1>0
  <2>2. /\ DOMAIN stack' = 1..Len(clients) /\ Len(clients) \in Nat
        /\ \A n \in DOMAIN stack' : stack'[n].op = "receive"
    BY <1>2, LenProperties DEF PollClientsPackets, ReceiveFrom, Slots, TypeOK, NetTypeOK
  <2>3. DuePackets = <<>> /\ DuePackets' = <<>>
    <3>1. PacketsOfCalls(stack, lobbies) = <<>> /\ PacketsOfCalls(stack', lobbies') = <<>>
      BY <2>1, <2>2, DueReading
    <3>. QED
      BY <1>0, <3>1 DEF DuePackets
  <2>4. \A k \in LobbyIds : ~IsToClear(k) /\ ~IsToClear(k)'
    BY <2>1, <2>2 DEF IsToClear, ClearLobby
  <2>5. SettledLobbies' = SettledLobbies
    BY <1>0, <2>4 DEF SettledLobbies
  <2>6. FlatInv'
    BY <2>2 DEF FlatInv, FlatCalls, IsOfStart
  <2>. QED
    BY <1>0, <2>3, <2>5, <2>6, Stutters DEF AtomicVars
<1>. QED
  BY <1>1, <1>2

LEMMA ClientsRefine ==
  ASSUME TypeOK, FlatInv, IsWhole, ClientStep
  PROVE  Refines
<1>1. CASE ~IsWhole'
  BY <1>1, Breaks
<1>2. CASE IsWhole'
  <2>1. lobbies' = lobbies /\ stack' = stack /\ IsWhole' = IsWhole
    BY <1>2 DEF ClientStep, serverVars, IsWhole
  <2>2. UNCHANGED AtomicVars
    BY <2>1 DEF AtomicVars, SettledLobbies, IsToClear, DuePackets
  <2>3. FlatInv'
    BY <1>2, <2>1 DEF FlatInv
  <2>. QED
    BY <2>2, <2>3, Stutters
<1>. QED
  BY <1>1, <1>2

LEMMA NothingIsDue ==
  ASSUME NEW s \in Seq(AnyPacket)
  PROVE  <<>> \o s = s
BY NothingBefore

(* A call that is gone without a packet.                                     *)
LEMMA SilentCall ==
  ASSUME TypeOK, FlatInv, IsWhole, stack # <<>>, Run(<<>>), peer' = peer,
         \/ lobbies' = lobbies /\ Call.op \in {"receive", "resetSlot"}
         \/ Clear
  PROVE  Refines
<1>1. \A k \in LobbyIds : Call.op \in {"receive", "resetSlot"} => Call # ClearLobby(k)
  BY DEF ClearLobby
<1>2. /\ IsWhole' /\ FlatInv' /\ SettledLobbies' = SettledLobbies
      /\ DuePackets = PacketsOf(Call, lobbies) \o DuePackets' /\ DuePackets' \in Seq(AnyPacket)
  BY <1>1, PopCall
<1>3. Call.op \in Silent
  BY DEF Clear, Next1, Call, Silent
<1>4. PacketsOf(Call, lobbies) = <<>>
  BY <1>3, PacketsOfKind
<1>5. DuePackets' = DuePackets
  BY <1>2, <1>4, NothingIsDue
<1>6. IsWhole' = IsWhole
  BY <1>2 DEF IsWhole
<1>. QED
  BY <1>2, <1>5, <1>6, Stutters DEF AtomicVars

(* A call that is gone with its packet.                                      *)
LEMMA SentCall ==
  ASSUME TypeOK, FlatInv, IsWhole, stack # <<>>, Run(<<>>), peer' = peer, lobbies' = lobbies,
         Call.op \in {"send", "sendToSeat", "updatePlayerElo"}
  PROVE  Refines
<1>1. \A k \in LobbyIds : Call # ClearLobby(k)
  BY DEF ClearLobby
<1>2. /\ IsWhole' /\ FlatInv' /\ SettledLobbies' = SettledLobbies
      /\ DuePackets = PacketsOf(Call, lobbies) \o DuePackets' /\ DuePackets' \in Seq(AnyPacket)
  BY <1>1, PopCall
<1>3. PICK p : PacketsOf(Call, lobbies) = <<p>>
  BY PacketsOfKind
<1>4. ASSUME NEW s \in Seq(AnyPacket) PROVE <<p>> \o s # <<>> /\ Tail(<<p>> \o s) = s
  <2>. DEFINE S == AnyPacket \cup {p}
              h == <<p>>
              all == h \o s
  <2>1. h \in Seq(S) /\ s \in Seq(S) /\ Len(h) = 1
    OBVIOUS
  <2>. HIDE DEF h, S
  <2>2. /\ all \in Seq(S) /\ Len(all) = 1 + Len(s) /\ Len(s) \in Nat
        /\ \A i \in 1..(Len(h) + Len(s)) : all[i] = IF i <= Len(h) THEN h[i] ELSE s[i - Len(h)]
    BY <2>1, ConcatProperties, LenProperties
  <2>. HIDE DEF all
  <2>3. all # <<>>
    BY <2>2, EmptySeq
  <2>4. /\ Tail(all) \in Seq(S) /\ Len(Tail(all)) = Len(all) - 1
        /\ \A i \in 1..Len(Tail(all)) : Tail(all)[i] = all[i + 1]
    BY <2>2, <2>3, HeadTailProperties
  <2>5. Len(Tail(all)) = Len(s)
    BY <2>2, <2>4
  <2>6. \A i \in 1..Len(s) : Tail(all)[i] = s[i]
    <3>. TAKE i \in 1..Len(s)
    <3>1. i + 1 \in 1..(Len(h) + Len(s)) /\ ~(i + 1 <= Len(h)) /\ (i + 1) - Len(h) = i
      BY <2>1, <2>2
    <3>. QED
      BY <2>2, <2>4, <2>5, <3>1
  <2>7. Tail(all) = s
    BY <2>1, <2>4, <2>5, <2>6, SeqEqual
  <2>. QED
    BY <2>3, <2>7 DEF all, h
<1>5. DuePackets # <<>> /\ DuePackets' = Tail(DuePackets)
  BY <1>2, <1>3, <1>4
<1>6. IsWhole' = IsWhole
  BY <1>2 DEF IsWhole
<1>7. Atomic!SendNext
  BY <1>2, <1>5, <1>6 DEF Atomic!SendNext
<1>. QED
  BY <1>2, <1>7 DEF Refines, Atomic!Next

LEMMA ReceiveRefines ==
  ASSUME TypeOK, FlatInv, IsWhole, NEW c \in Conn,
         ReceivePacket(c) \/ ReceiveFragment(c) \/ ReceiveEnd(c)
  PROVE  Refines
<1>1. Next1("receive") /\ peer' = peer /\ clients[Call.slot] = c /\ Call.slot \in Nat
  BY ReceiveSlotType DEF ReceivePacket, ReceiveFragment, ReceiveEnd, Receiving
<1>2. RemotePort(c) \in Port
  BY PortType
<1>3. ASSUME NEW type, NEW name \in Conn \cup {NoName}, OnPacketReceived(type, RemotePort(c), name)
      PROVE  Refines
  <2>. DEFINE port == RemotePort(c)
  <2>1. CASE AddClientToLobby([username |-> name, port |-> port])
    BY <1>1, <1>2, <2>1, Joins
  <2>2. CASE UNCHANGED serverVars /\ (Run(OnNewTurn(port)) \/ Run(OnCueBallVelocity(port)))
    BY <1>1, <1>2, <2>2, Moves DEF serverVars
  <2>3. CASE UNCHANGED serverVars /\ Run(<<IdentifyClient(port)>>)
    BY <1>1, <1>2, <2>3, Identifies DEF serverVars
  <2>4. CASE UNCHANGED serverVars /\ Run(OnEndGame(port))
    BY <1>1, <1>2, <2>4, EndsGame DEF serverVars
  <2>5. CASE UNCHANGED serverVars /\ Run(<<>>)
    BY <1>1, <2>5, Ignores DEF serverVars
  <2>. QED
    BY <1>3, <2>1, <2>2, <2>3, <2>4, <2>5 DEF OnPacketReceived
<1>4. CASE ReceivePacket(c)
  BY <1>3, <1>4 DEF ReceivePacket
<1>5. CASE ReceiveFragment(c)
  BY <1>3, <1>5 DEF ReceiveFragment
<1>6. CASE ReceiveEnd(c)
  <2>1. lobbies' = lobbies /\ RemoveClient(Call.slot)
    BY <1>6 DEF ReceiveEnd, serverVars
  <2>2. CASE Run(OnClientDisconnection(RemotePort(c)) \o <<ResetSlot(Call.slot)>>)
    BY <1>1, <1>2, <2>1, <2>2, EndsGame
  <2>3. CASE Halt("stackOverflow")
    <3>1. ~IsWhole'
      BY <2>3 DEF Halt, IsWhole
    <3>. QED
      BY <3>1, Breaks
  <2>. QED
    BY <1>1, <2>1, <2>2, <2>3 DEF RemoveClient
<1>. QED
  BY <1>4, <1>5, <1>6

LEMMA SendRefines ==
  ASSUME TypeOK, FlatInv, IsWhole, NEW i \in Slots,
         SendDone(i) \/ SendError(i) \/ SendDisconnected(i)
  PROVE  Refines
<1>1. ~SendDisconnected(i)
  BY DEF SendDisconnected, IsWhole
<1>2. Run(<<>>) /\ peer' = peer /\ lobbies' = lobbies /\ Sending
  BY <1>1 DEF SendDone, SendError, netVars, serverVars
<1>3. stack # <<>> /\ Call.op \in {"send", "sendToSeat"}
  BY <1>2 DEF Sending, Next1, Call
<1>. QED
  BY <1>2, <1>3, SentCall

LEMMA HaltRefines ==
  ASSUME IsWhole, NEW why, why # "none", Halt(why)
  PROVE  Refines
BY Breaks DEF Halt, IsWhole

LEMMA StartRefines ==
  ASSUME TypeOK, FlatInv, IsWhole, StartGameIfComplete
  PROVE  Refines
<1>. DEFINE K == Call.lobby
            h == StartGame(K)
<1>1. Call \in Calls /\ Call.op = "startIfComplete" /\ stack # <<>> /\ Run(h)
      /\ peer' = peer /\ lobbies' = lobbies
  BY CallType DEF StartGameIfComplete, Next1, Call, netVars, serverVars
<1>2. K \in LobbyIds /\ Call = StartIfComplete(K)
  BY <1>1 DEF Calls, ServerCalls, StartIfComplete
<1>3. stack \in Seq(Calls) /\ FlatCalls(stack) /\ 1 \in DOMAIN stack /\ stack[1] = Call
      /\ DOMAIN stack = 1..Len(stack) /\ Len(stack) \in Nat /\ lobbies \in [LobbyIds -> Lobby]
  BY HeadInDomain, LenProperties, <1>1 DEF TypeOK, FlatInv, ServerTypeOK
<1>4. LastOne(stack)
  BY <1>1, <1>3 DEF LastOne, FlatCalls
<1>5. FlatHandler(h)
  BY <1>2, StartFlat
<1>. HIDE DEF h, K
<1>6. /\ IsWhole' /\ FlatInv'
      /\ DuePackets' = PacketsOfCalls(h, lobbies')
      /\ SettledLobbies' = [k \in LobbyIds |-> IF ToClear(h, k) THEN EmptyLobby ELSE lobbies'[k]]
  BY <1>1, <1>4, <1>5, RunHandler
<1>7. DuePackets = PacketsOf(Call, lobbies)
  <2>1. PacketsOfCalls(stack, lobbies)
          = PacketsOf(stack[1], lobbies) \o PacketsOfCalls(<<>> \o Tail(stack), lobbies)
    BY <1>1, <1>3, DuePop
  <2>2. PacketsOfCalls(<<>> \o Tail(stack), lobbies) = PacketsOfCalls(<<>>, lobbies)
    BY <1>1, <1>3, <1>4, EmptySeq, DuePush
  <2>3. PacketsOfCalls(<<>>, lobbies) = <<>>
    BY DueForward
  <2>4. PacketsOf(Call, lobbies) \in Seq(AnyPacket)
    BY <1>1, <1>3, PacketsType
  <2>5. PacketsOf(Call, lobbies) \o <<>> = PacketsOf(Call, lobbies)
    BY <2>4, NothingBefore
  <2>. QED
    BY <1>3, <2>1, <2>2, <2>3, <2>5 DEF DuePackets
<1>8. PacketsOfCalls(h, lobbies) = PacketsOf(Call, lobbies)
  <2>1. CASE IsComplete(lobbies[K])
    BY <1>2, <2>1, DueStart DEF h, StartGame
  <2>2. CASE ~IsComplete(lobbies[K])
    <3>1. h = <<>>
      BY <2>2 DEF h, StartGame
    <3>2. PacketsOf(Call, lobbies) = <<>>
      BY <1>2, <2>2, PacketsOfKind DEF StartIfComplete
    <3>. QED
      BY <3>1, <3>2, DueForward
  <2>. QED
    BY <2>1, <2>2
<1>9. \A k \in LobbyIds : ~ToClear(h, k) /\ ~IsToClear(k)
  <2>1. \A k \in LobbyIds : ~IsToClear(k)
    BY <1>1, <1>3, <1>4 DEF IsToClear, LastOne, ClearLobby
  <2>2. \A k \in LobbyIds : ~ToClear(h, k)
    <3>1. \A n \in DOMAIN h : h[n].op = "sendToSeat"
      BY DEF h, StartGame, SendToSeat
    <3>. QED
      BY <3>1 DEF ToClear, ClearLobby
  <2>. QED
    BY <2>1, <2>2
<1>10. SettledLobbies' = SettledLobbies
  BY <1>1, <1>6, <1>9 DEF SettledLobbies
<1>11. IsWhole' = IsWhole
  BY <1>6 DEF IsWhole
<1>. QED
  BY <1>1, <1>6, <1>7, <1>8, <1>10, <1>11, Stutters DEF AtomicVars

LEMMA AskRefines ==
  ASSUME TypeOK, FlatInv, IsWhole, AskElo \/ AskIdentity
  PROVE  Refines
<1>1. stack # <<>> /\ Call \in Calls /\ peer' = peer /\ lobbies' = lobbies
  BY CallType DEF AskElo, AskIdentity, Next1, netVars, serverVars
<1>2. CASE Halt("badReply")
  BY <1>2, HaltRefines
<1>3. CASE AskElo /\ Run(<<>>)
  <2>1. Call.op = "updatePlayerElo"
    BY <1>3 DEF AskElo, Next1, Call
  <2>. QED
    BY <1>1, <1>3, <2>1, SentCall
<1>4. CASE AskElo /\ Run(<<Send("eloUpdated", Call.port)>>)
  <2>1. Call.op = "updatePlayerElo"
    BY <1>4 DEF AskElo, Next1, Call
  <2>2. Call.port \in AnyPort
    BY <1>1, <2>1 DEF Calls, ServerCalls, AnyPort
  <2>. DEFINE c == Send("eloUpdated", Call.port)
  <2>3. c \in Calls /\ c.op = "send" /\ c.type = "eloUpdated" /\ c.port = Call.port
    BY <2>2, CallTypes DEF Send, ServerPackets
  <2>4. PacketsOf(c, lobbies) = PacketsOf(Call, lobbies)
    BY <2>1, <2>3, PacketsOfKind
  <2>. HIDE DEF c
  <2>5. FlatInv' /\ UNCHANGED AtomicVars
    BY <1>1, <1>4, <2>1, <2>3, <2>4, ReplaceCall DEF c
  <2>. QED
    BY <2>5, Stutters
<1>5. CASE AskIdentity /\ Run(<<Send("clientIdentification", Call.port)>>)
  <2>1. Call.op = "identifyClient"
    BY <1>5 DEF AskIdentity, Next1, Call
  <2>2. Call.port \in AnyPort
    BY <1>1, <2>1 DEF Calls, ServerCalls, AnyPort
  <2>. DEFINE c == Send("clientIdentification", Call.port)
  <2>3. c \in Calls /\ c.op = "send" /\ c.type = "clientIdentification" /\ c.port = Call.port
    BY <2>2, CallTypes DEF Send, ServerPackets
  <2>4. PacketsOf(c, lobbies) = PacketsOf(Call, lobbies)
    BY <2>1, <2>3, PacketsOfKind
  <2>. HIDE DEF c
  <2>5. FlatInv' /\ UNCHANGED AtomicVars
    BY <1>1, <1>5, <2>1, <2>3, <2>4, ReplaceCall DEF c
  <2>. QED
    BY <2>5, Stutters
<1>. QED
  BY <1>2, <1>3, <1>4, <1>5 DEF AskElo, AskIdentity

LEMMA EveryStepRefines ==
  ASSUME TypeOK, FlatInv, [Next]_vars
  PROVE  Refines
<1>1. CASE ~IsWhole
  BY <1>1, StaysBroken
<1>2. CASE IsWhole
  <2>1. CASE PollClientsConnections \/ PollClientsPackets
    BY <1>2, <2>1, PollRefines
  <2>2. CASE SkipSlot
    <3>1. stack # <<>> /\ Call.op = "receive" /\ Run(<<>>) /\ peer' = peer /\ lobbies' = lobbies
      BY <2>2 DEF SkipSlot, Next1, Call, netVars, serverVars
    <3>. QED
      BY <1>2, <3>1, SilentCall
  <2>3. ASSUME NEW c \in Conn, ReceivePacket(c) \/ ReceiveFragment(c) \/ ReceiveEnd(c)
        PROVE  Refines
    BY <1>2, <2>3, ReceiveRefines
  <2>4. ASSUME NEW i \in Slots, SendDone(i) \/ SendError(i) \/ SendDisconnected(i)
        PROVE  Refines
    BY <1>2, <2>4, SendRefines
  <2>5. CASE SendUnknown
    BY <1>2, <2>5, HaltRefines DEF SendUnknown
  <2>6. CASE FinishRemoval
    <3>1. stack # <<>> /\ Call.op = "resetSlot" /\ Run(<<>>) /\ peer' = peer /\ lobbies' = lobbies
      BY <2>6 DEF FinishRemoval, Next1, Call, serverVars
    <3>. QED
      BY <1>2, <3>1, SilentCall
  <2>7. CASE StartGameIfComplete
    BY <1>2, <2>7, StartRefines
  <2>8. CASE Clear
    <3>1. stack # <<>> /\ Run(<<>>) /\ peer' = peer
      BY <2>8 DEF Clear, Next1, netVars
    <3>. QED
      BY <1>2, <2>8, <3>1, SilentCall
  <2>9. CASE AskElo \/ AskIdentity
    BY <1>2, <2>9, AskRefines
  <2>10. CASE ClientStep
    BY <1>2, <2>10, ClientsRefine
  <2>11. CASE UNCHANGED vars
    <3>1. stack' = stack /\ lobbies' = lobbies /\ peer' = peer /\ fault' = fault
      BY <2>11 DEF vars
    <3>2. UNCHANGED AtomicVars /\ FlatInv'
      BY <3>1 DEF AtomicVars, SettledLobbies, IsToClear, DuePackets, IsWhole, FlatInv
    <3>. QED
      BY <3>2, Stutters
  <2>. QED
    BY <2>1, <2>2, <2>3, <2>4, <2>5, <2>6, <2>7, <2>8, <2>9, <2>10, <2>11 DEF Next, ServerStep
<1>. QED
  BY <1>1, <1>2

LEMMA AtomicStart ==
  ASSUME Init
  PROVE  FlatInv /\ Atomic!Init
<1>1. DOMAIN stack = {} /\ IsWhole = TRUE /\ lobbies = [k \in LobbyIds |-> EmptyLobby]
  BY DEF Init, NetInit, IsWhole
<1>2. FlatInv
  BY <1>1 DEF FlatInv, FlatCalls
<1>3. DuePackets = <<>>
  BY <1>1, DueReading DEF DuePackets
<1>4. SettledLobbies = Atomic!NoGames
  BY <1>1 DEF SettledLobbies, IsToClear, Atomic!NoGames, Atomic!LobbyIds, LobbyIds,
     Atomic!EmptyLobby, EmptyLobby, Atomic!NoClient, NoClient, Atomic!Seats, Seats
<1>. QED
  BY <1>1, <1>2, <1>3, <1>4 DEF Atomic!Init

(* Until a connection is reset or the process ends, every handler of the     *)
(* server is as good as one step: its changes of the lobbies take effect and *)
(* its packets are settled when it begins, however the clients, the sockets  *)
(* and the later calls of the handler interleave.                            *)
THEOREM HandlersTakeEffectAtOnce == Spec => HandlersAreAtomic
<1>1. Init => FlatInv /\ Atomic!Init
  BY AtomicStart
<1>2. TypeOK /\ FlatInv /\ [Next]_vars => FlatInv' /\ [Atomic!Next]_(Atomic!vars)
  BY EveryStepRefines DEF Refines
<1>. QED
  BY <1>1, <1>2, TypeCorrect, PTL DEF Spec, HandlersAreAtomic, Atomic!Spec
=============================================================================
