---------------------------- MODULE MCNetpoller ----------------------------
(***************************************************************************)
(* An instance of Netpoller: a reader of a pipe, with a timeout, and of a  *)
(* socket; another routine that connects, writes or reads on that socket,  *)
(* each of its calls going on differently after the wait.  Both numbers    *)
(* may be opened again.                                                    *)
(***************************************************************************)
EXTENDS Netpoller

MCRoutines == {"reader", "writer"}
MCFds == {"x", "y"}

MCReused == MCFds
MCWays(fd) == IF fd = "x" THEN {"read"} ELSE Directions

MCMaxCalls(r) == IF r = "reader" THEN 2 ELSE 1

MCCalls(r) ==
  IF r = "reader" THEN {Timed(Reading("x")), Reading("y")}
  ELSE {Connecting("y"), Timed(Selected(Writing("y"))), Reading("y")}
=============================================================================
