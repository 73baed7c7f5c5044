------------------------------- MODULE Types -------------------------------
(* What the modules of the server share: the connections clients make, each  *)
(* by one run of the client program, and the ports (types.h) that are all    *)
(* the server tells them apart by.                                           *)

CONSTANTS Conn,      \* the client connections
          Port,      \* the remote ports of the connections
          NoPort     \* port 0

ASSUME NoPortAssumption == NoPort \notin Port
=============================================================================
