-------------------------------- MODULE MCTexts --------------------------------
(***************************************************************************)
(* The algorithms on texts, on every text that can be put together from a  *)
(* few pieces.  Texts of four kinds are built: documents with ordered      *)
(* lists, what a user types and a document contains, command lines, and    *)
(* roles files.                                                            *)
(***************************************************************************)
EXTENDS CommandLine, Wire, Roles

CONSTANT MaxPieces    \* how many pieces a text has (bound)

VARIABLES text, kind, pieces

PiecesOf ==
    [list  |-> {<<"1", ".", " ">>, <<"7", ".", " ">>, <<"0", ".">>, <<" ", "a">>, <<LineFeed>>,
                <<LineFeed, "5", ".", " ">>},
     line  |-> {<<"INSERT">>, <<"DEL">>, <<"LINK">>, <<" ">>, <<" ", "1">>, <<"1">>,
                <<" ", "-">>, <<"\t">>},
     typed |-> {<<"a">>, <<"VERSION">>, <<"END">>, <<"DISCONNECT">>, <<LineFeed>>},
     roles |-> {<<"u">>, <<"v">>, <<"write">>, <<"owner">>, <<"#">>, <<LineFeed>>}]

Names == {<<"u">>, <<"u", "u">>, <<"u", "u", "u">>}
Results == {"SUCCESS", "Reject"}
Users == {"u", "v"}

Init == text = <<>> /\ pieces = 0 /\ kind \in DOMAIN PiecesOf

Next ==
    /\ pieces < MaxPieces
    /\ pieces' = pieces + 1
    /\ \E piece \in PiecesOf[kind] : text' = text \o piece
    /\ UNCHANGED kind

Spec == Init /\ [][Next]_<<text, kind, pieces>>

\* renumber_ordered_lists numbers the items of every block 1, 2, ... up to MaxItem
\* and changes nothing else, however digits, dots and line ends fall.
RenumberCorrect == kind = "list" => Renumber(text) = Numbered(text)

\* command_execute reads what the words of a line say, with or without a line feed at its
\* end, however many blanks are between them, and inserts exactly the text after the blank
\* behind the position (command.c:136-138): its own blanks are neither lost nor taken for
\* arguments.
CommandsRead ==
    kind = "line" => \A line \in {text, Append(text, LineFeed)} : Parse(line) = Meaning(line)

\* Whatever is typed, long lines included, the server sees the pieces that the client saw,
\* so both leave with the same DISCONNECT (client.c:266-276, server.c:266-270), as long as
\* the user name fits into its buffer.
TypedLinesAligned ==
    kind = "typed" => \A name \in Names : Len(name) + 1 < NameSize =>
        Understood(Written(name, text))
            = [name |-> name, commands |-> CommandsIn(Pieces(text, LineSize))]

\* Whatever the document and the commands contain, END lines, VERSION lines and lines longer
\* than the buffer included, the client gets the document and payload by payload what was
\* broadcast (client.c:216-231, 279-296).
StreamFramed ==
    kind = "typed" => \A name \in Names, result \in Results :
        LET commands == CommandsIn(Pieces(text, LineSize))
            payloads == [i \in DOMAIN commands |-> PayloadText(name, commands[i], result)]
            document == Document(text)
        IN Received(document.length, document.body \o FlattenSeq(payloads))
             = [text |-> text, shown |-> payloads]

\* auth_lookup_role finds the role that the file lists for a user, whatever comments, blank
\* lines and malformed lines are around it, as long as every line fits into the buffer.
RolesRead ==
    kind = "roles" => \A user \in Users :
        (\A i \in DOMAIN FileLines(text) : Len(FileLines(text)[i]) < AuthLineSize) =>
            LookupRole(text, user) = ListedRole(text, user)
===============================================================================
