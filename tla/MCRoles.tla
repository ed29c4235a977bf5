-------------------------------- MODULE MCRoles --------------------------------
(***************************************************************************)
(* RoleLookup for two users of config/roles.txt.                           *)
(***************************************************************************)
EXTENDS RoleLookup

TwoUsers == <<"ryan", "daniel">>
Config == <<"ryan", "read", LineFeed, "yao", "read", LineFeed, "daniel", "write">>
===============================================================================
