--------------------------------- MODULE Lines ---------------------------------
(***************************************************************************)
(* How fgets cuts a stream of text.  A text is a sequence; what one of its *)
(* members stands for, a character or a word, is for the modules that use  *)
(* this one to say.                                                        *)
(***************************************************************************)
EXTENDS Integers, Sequences, SequencesExt

LineFeed == "\n"

\* What is read goes to the end of the line, or until the buffer is full.
PieceStep(state, item, size) ==
    LET piece == Append(state.piece, item) IN
    IF item = LineFeed \/ Len(piece) = size - 1
      THEN [pieces |-> Append(state.pieces, piece), piece |-> <<>>]
      ELSE [state EXCEPT !.piece = piece]

\* What fgets with a buffer of that size returns until the end of the text, call by call:
\* a line too long for the buffer comes in several pieces, the last line perhaps without
\* a line feed.
Pieces(text, size) ==
    LET end == FoldLeft(LAMBDA state, item : PieceStep(state, item, size),
                        [pieces |-> <<>>, piece |-> <<>>], text)
    IN end.pieces \o (IF end.piece = <<>> THEN <<>> ELSE <<end.piece>>)

\* read_line_strip_newline, strip_newline, copy_without_trailing_newline.
WithoutNewline(piece) ==
    IF piece # <<>> /\ Last(piece) = LineFeed THEN Front(piece) ELSE piece
===============================================================================
