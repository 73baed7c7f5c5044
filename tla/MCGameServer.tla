---------------------------- MODULE MCGameServer ----------------------------
(* Small instances of GameServer for TLC.  Where every connection has a port *)
(* of its own, the connection itself is its port.                            *)
EXTENDS GameServer, TLC

MCPortOf == [c \in Conn |-> c]

(* Clients that start one server behave alike, so they may be renamed.       *)
Symmetry == Permutations(Conn)

-----------------------------------------------------------------------------
(* What comments and docs of the repository say of the server, each refuted  *)
(* by one run.                                                               *)

(* lobby.h: a lobby differentiates between the different clients connected   *)
(* to the server.  Between two polls a seat belongs to a connected client:   *)
(* the one in it has not been dropped from clients_.                         *)
LobbyMembersConnected ==
  stack = <<>> /\ fault = "none" =>
    \A k \in LobbyIds, s \in Seats : \A c \in Conn :
      lobbies[k][s].username = c => c \in Accepted

(* main_page.md: the second callback occurs when a client disconnects from   *)
(* the server.  It does not run again for a client while it runs for it.     *)
OneDisconnection ==
  \A m, n \in PendingRemovals : stack[m].slot = stack[n].slot => m = n
=============================================================================
