---------------------------- MODULE AtomicServer ----------------------------
(* What the handlers of Server promise as long as no connection is reset:    *)
(* each takes effect at once, as if it were one step.  The lobbies are as it *)
(* leaves them, and all the packets it sends are settled, when it begins;    *)
(* after that they only go out, in order, and nothing is read until the last *)
(* one has gone.  Match and PoolSystem are built on this; GameServer, which  *)
(* makes the calls of a handler one by one, implements it.                   *)
EXTENDS Lobby, Sequences

CONSTANTS LobbyCount

VARIABLES lobbies,
          due,        \* the packets to be sent, first to last
          whole       \* no connection was reset and the process runs

vars == <<lobbies, due, whole>>

LobbyIds == 1..LobbyCount
NoGames == [k \in LobbyIds |-> EmptyLobby]
Packet(type, port) == [type |-> type, port |-> port]

Init == lobbies = NoGames /\ due = <<>> /\ whole = TRUE

(* A handler that sends packets and leaves the lobbies as in table.          *)
Handle(packets, table) ==
  /\ whole /\ due = <<>>
  /\ due' = packets
  /\ lobbies' = table
  /\ UNCHANGED whole

(* The lobby a player joins, and the one a player is looked up in: for moves *)
(* the first with the player in it, for the end of a game the first in which *)
(* somebody sits opposite.                                                   *)
IsNext(k) ==
  ~IsComplete(lobbies[k]) /\ \A j \in LobbyIds : j < k => IsComplete(lobbies[j])
IsTableOf(k, port) ==
  IsSeated(lobbies[k], port) /\ \A j \in LobbyIds : j < k => ~IsSeated(lobbies[j], port)
OpponentIn(k, port) == Opposite(lobbies[k], port).port
IsGameOf(k, port) ==
  OpponentIn(k, port) # NoPort /\ \A j \in LobbyIds : j < k => OpponentIn(j, port) = NoPort

StartOf(lobby) ==
  <<Packet("startGame0", lobby[1].port), Packet("startGame1", lobby[2].port),
    Packet("newTurn", lobby[1].port)>>

Join(data) ==
  \E k \in LobbyIds :
    LET lobby == AddClient(lobbies[k], data) IN
    /\ IsNext(k)
    /\ Handle(<<Packet("joinLobby", data.port)>> \o
                (IF IsComplete(lobby) THEN StartOf(lobby) ELSE <<>>),
              [lobbies EXCEPT ![k] = lobby])

(* A move reaches the opponent, a shot also the player who made it.          *)
Move(port) ==
  \E k \in LobbyIds :
    LET other == OpponentIn(k, port) IN
    /\ IsTableOf(k, port) /\ other # NoPort
    /\ \/ Handle(<<Packet("newTurn", other)>>, lobbies)
       \/ Handle(<<Packet("cueBallVelocity", other), Packet("cueBallVelocity", port)>>, lobbies)

Identify(port) == Handle(<<Packet("clientIdentification", port)>>, lobbies)

(* A game ends because a player claims it or leaves it.                      *)
EndGame(port) ==
  \E k \in LobbyIds :
    LET other == OpponentIn(k, port) IN
    /\ IsGameOf(k, port)
    /\ \/ Handle(<<Packet("eloUpdated", port), Packet("eloUpdated", other),
                   Packet("endGameWon", port), Packet("endGameLost", other)>>,
                 [lobbies EXCEPT ![k] = EmptyLobby])
       \/ Handle(<<Packet("endGameWon", other), Packet("eloUpdated", port),
                   Packet("eloUpdated", other)>>,
                 [lobbies EXCEPT ![k] = EmptyLobby])

(* The next packet is sent, or it is a rating the database has not got.      *)
SendNext ==
  /\ due # <<>>
  /\ due' = Tail(due)
  /\ UNCHANGED <<lobbies, whole>>

(* A connection is reset, or the process ends: nothing is promised from here.*)
Break ==
  /\ whole /\ whole' = FALSE
  /\ lobbies' = NoGames /\ due' = <<>>

Next ==
  \/ \E port \in Port :
       \/ \E name \in Conn \cup {NoName} : Join([username |-> name, port |-> port])
       \/ Move(port) \/ Identify(port) \/ EndGame(port)
  \/ SendNext \/ Break

Spec == Init /\ [][Next]_vars
=============================================================================
