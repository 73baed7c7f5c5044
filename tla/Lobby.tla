------------------------------- MODULE Lobby -------------------------------
(* A lobby of the server: two seats, each holding the user name and the      *)
(* remote port of a client.  A seat is free when its port is 0 (NoPort).     *)
(*                                                                           *)
(* The user name a client entered is told apart only by whose it is, so the  *)
(* connection stands for it; NoName is the empty string, the name of a       *)
(* default-constructed ClientData.                                           *)
EXTENDS Types, Naturals

CONSTANTS NoName     \* the empty user name

ASSUME NoNameAssumption == NoName \notin Conn

Seats == 1..2

ClientData == [username : Conn \cup {NoName}, port : Port \cup {NoPort}]

(* Wrong on purpose (a check must notice it): the port has no initializer.   *)
UninitializedClient == [username |-> NoName, port |-> NoName]

NoClient == [username |-> NoName, port |-> NoPort]

Lobby == [Seats -> ClientData]

EmptyLobby == [s \in Seats |-> NoClient]

IsComplete(lobby) == \A s \in Seats : lobby[s].port # NoPort

(* Wrong on purpose: the seats are filled from the second one.               *)
AddClientFromSecond(lobby, data) ==
  [lobby EXCEPT ![IF lobby[2].port = NoPort THEN 2 ELSE 1] = data]

(* The second seat is overwritten when the first one is taken: AddClient     *)
(* trusts its caller to have found a lobby that is not complete.             *)
AddClient(lobby, data) ==
  [lobby EXCEPT ![IF lobby[1].port = NoPort THEN 1 ELSE 2] = data]

(* Wrong on purpose: whoever is not in seat 1 is in seat 2.                  *)
OppositeUnchecked(lobby, port) ==
  IF lobby[1].port = port THEN lobby[2] ELSE lobby[1]

(* How the server compares a port with a lobby: seat 1 first, then seat 2;   *)
(* a port that is in neither has nobody opposite.                            *)
Opposite(lobby, port) ==
  IF lobby[1].port = port THEN lobby[2]
  ELSE IF lobby[2].port = port THEN lobby[1] ELSE NoClient

IsSeated(lobby, port) == \E s \in Seats : lobby[s].port = port
=============================================================================
