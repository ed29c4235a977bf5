-------------------------------- MODULE MCCore --------------------------------
(***************************************************************************)
(* ServerCore on short texts.  The command lines are all those with        *)
(* positions up to MaxPosition and a few lengths and contents; a span that *)
(* ends before it starts is refused like an empty one and left out.        *)
(***************************************************************************)
EXTENDS ServerCore

CONSTANTS
    MaxPosition,    \* positions beyond it are not typed (bound)
    Lengths         \* the lengths of deletions

Position == 0 .. MaxPosition
Words == {<<"a">>, <<"a", " ", "b">>}

AllCommands ==
    [name : {"UNKNOWN", "MALFORMED"}]
    \cup [name : {"INSERT"}, pos : Position, content : Words]
    \cup [name : {"DEL"}, pos : Position, len : Lengths]
    \cup [name : {"NEWLINE", "ORDERED_LIST"} \cup DOMAIN Tags, pos : Position]
    \cup [name : {"HEADING"}, level : {0, 1, 4}, pos : Position]
    \cup {command \in [name : DOMAIN Marks, start : Position, end : Position] :
            command.start <= command.end}
===============================================================================
