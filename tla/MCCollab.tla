------------------------------- MODULE MCCollab -------------------------------
(***************************************************************************)
(* CollabServer on small sets of clients.  The configurations name the     *)
(* clients and give the bounds.                                            *)
(***************************************************************************)
EXTENDS CollabServer

\* How many lines each client types.
OneEach == [c \in Clients |-> 1]
TwoPerWriter == [c \in Clients |-> IF c \in Writers THEN 2 ELSE 1]
TwoByWriters == [c \in Clients |-> IF c \in Writers THEN 2 ELSE 0]
FourEach == [c \in Clients |-> 4]
===============================================================================
