-------------------------------- MODULE MCFaulty -------------------------------
(***************************************************************************)
(* FaultyServer on small sets of clients.                                  *)
(***************************************************************************)
EXTENDS FaultyServer

\* How many lines each client types.
OneEach == [c \in Clients |-> 1]
===============================================================================
