---------------------------------- MODULE Wire ---------------------------------
(***************************************************************************)
(* What goes through the FIFOs of one client, as text: the user name and   *)
(* the lines of client.c, the initial document and the payloads of         *)
(* server.c and server_core.c, and how each side takes the other's text    *)
(* apart again.  Texts are sequences of words; a buffer of n bytes holds   *)
(* n - 1 words here.                                                       *)
(***************************************************************************)
EXTENDS Lines

CONSTANTS
    LineSize,    \* command_line, input, output: 512 in the code
    NameSize     \* USERNAME_BUF_SIZE: 128 in the code

ASSUME SizesAssumption == LineSize \in Nat /\ LineSize > 2 /\ NameSize \in Nat /\ NameSize > 1

-------------------------------------------------------------------------------
(* From the client to the server *)

\* DISCONNECT or QUIT: both sides leave their loop when they read this very piece.
IsDisconnect(piece) == piece = <<"DISCONNECT", LineFeed>>

\* The pieces before the first that disconnects.
BeforeDisconnect(pieces) ==
    LET ends == {i \in DOMAIN pieces : IsDisconnect(pieces[i])}
    IN {i \in DOMAIN pieces : \A j \in ends : i < j}

\* The commands a side sees in its pieces.
CommandsIn(pieces) == [i \in BeforeDisconnect(pieces) |-> pieces[i]]

\* What the client writes for what its user types: its name, then every piece it has read
\* up to the one it leaves with.
Written(name, typed) ==
    LET pieces == Pieces(typed, LineSize)
        last == Len(CommandsIn(pieces)) + 1
    IN name \o <<LineFeed>>
       \o FlattenSeq(SubSeq(pieces, 1, IF last > Len(pieces) THEN Len(pieces) ELSE last))

\* Faulty variant: the server reads commands into a longer buffer than the client.
UnderstoodLonger(stream) ==
    LET first == Head(Pieces(stream, NameSize))
        rest == SubSeq(stream, Len(first) + 1, Len(stream))
    IN [name |-> WithoutNewline(first), commands |-> CommandsIn(Pieces(rest, LineSize + 1))]

\* What client_thread_main makes of it: a user name and commands.
Understood(stream) ==
    LET first == Head(Pieces(stream, NameSize))
        rest == SubSeq(stream, Len(first) + 1, Len(stream))
    IN [name |-> WithoutNewline(first), commands |-> CommandsIn(Pieces(rest, LineSize))]

-------------------------------------------------------------------------------
(* From the server to the client *)

\* The payload of a commit: one command, as it was read, with its result.
PayloadText(name, command, result) ==
    <<"VERSION", LineFeed>>
    \o <<"EDIT">> \o name \o WithoutNewline(command) \o <<result, LineFeed>>
    \o <<"END", LineFeed>>

\* send_initial_document: after role and version, the length of the text and the text.
Document(text) == [length |-> Len(text), body |-> text]

\* Faulty variant: a payload ends with a piece that begins with END.
EndsPayloadAnyEnd(piece) == Head(piece) = "END"

\* The piece that ends a payload.
EndsPayload(piece) == piece = <<"END", LineFeed>>

\* One round of the client's loops on a piece from the server: a payload is open from
\* VERSION to END; outside of one, every piece is printed by itself.
ShowStep(state, piece) ==
    CASE state.open /\ EndsPayload(piece) ->
           [shown |-> Append(state.shown, state.payload \o piece), open |-> FALSE, payload |-> <<>>]
      [] state.open /\ ~EndsPayload(piece) -> [state EXCEPT !.payload = @ \o piece]
      [] ~state.open /\ Head(piece) = "VERSION" -> [state EXCEPT !.open = TRUE, !.payload = piece]
      [] OTHER -> [state EXCEPT !.shown = Append(@, piece)]

\* What the client makes of a length and the stream that follows: read_exact takes the
\* document, the loop takes the rest a piece at a time.
Received(length, stream) ==
    LET rest == SubSeq(stream, length + 1, Len(stream))
        end == FoldLeft(ShowStep, [shown |-> <<>>, open |-> FALSE, payload |-> <<>>],
                        Pieces(rest, LineSize))
    IN [text |-> SubSeq(stream, 1, length), shown |-> end.shown]
===============================================================================
