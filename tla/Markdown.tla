------------------------------- MODULE Markdown -------------------------------
(***************************************************************************)
(* The document engine of markdown.c and the dispatch of command.c, as     *)
(* operators that take a document to the document and the result of a     *)
(* call.  A document is its committed text, the operations pending for     *)
(* the next version, and its version.  Positions are offsets between       *)
(* characters, so the text before position p is its first p characters.    *)
(*                                                                         *)
(* Sizes are size_t: sums and differences are taken modulo SizeModulus     *)
(* where the code does not bound them.                                     *)
(***************************************************************************)
EXTENDS OrderedLists

CONSTANT SizeModulus    \* 2^64 in the code

ASSUME SizeAssumption == SizeModulus \in Nat \ {0}

\* markdown_init.
NewDocument == [committed |-> <<>>, ops |-> <<>>, version |-> 0]

InsertOp(pos, data) == [type |-> "insert", pos |-> pos, len |-> 0, data |-> data]
DeleteOp(pos, len) == [type |-> "delete", pos |-> pos, len |-> len, data |-> <<>>]

\* Where the text that operation op deletes ends.
DeleteEnd(op) == (op.pos + op.len) % SizeModulus

\* apply_single_op: positions past the end mean the end.
ApplyOp(text, op) ==
    LET pos == IF op.pos > Len(text) THEN Len(text) ELSE op.pos
        end == (pos + op.len) % SizeModulus
    IN IF op.type = "insert"
         THEN SubSeq(text, 1, pos) \o op.data \o SubSeq(text, pos + 1, Len(text))
         ELSE SubSeq(text, 1, pos)
              \o SubSeq(text, (IF end > Len(text) THEN Len(text) ELSE end) + 1, Len(text))

\* get_working_text: the committed text with the pending operations applied.
Working(doc) == FoldLeft(ApplyOp, doc.committed, doc.ops)

\* What transform_position_after_pending_ops answers for a position inside a deletion.
Deleted == -1

\* Faulty variant: the pending deletions are forgotten.
TransformByInsertsOnly(pos, op) ==
    CASE op.type = "insert" /\ op.pos < pos -> pos + Len(op.data)
      [] OTHER -> pos

\* One round of transform_position_after_pending_ops.
TransformBy(pos, op) ==
    CASE pos = Deleted -> Deleted
      [] pos # Deleted /\ op.type = "insert" ->
           IF op.pos < pos THEN pos + Len(op.data) ELSE pos
      [] pos # Deleted /\ op.type = "delete" ->
           CASE op.pos < pos /\ pos < DeleteEnd(op) -> Deleted
             [] op.pos < pos /\ DeleteEnd(op) <= pos -> (pos - op.len) % SizeModulus
             [] OTHER -> pos

\* Where a position of the committed text is in the working text.
Transform(doc, pos) == FoldLeft(TransformBy, pos, doc.ops)

-------------------------------------------------------------------------------
(* Calls *)

\* What a call returns, with the document it leaves behind.
Return(doc, result) == [doc |-> doc, result |-> result]
Enqueue(doc, op) == Return([doc EXCEPT !.ops = Append(@, op)], "SUCCESS")

\* Go on with the next call only if the last one succeeded.
Then(call, Next(_)) == IF call.result = "SUCCESS" THEN Next(call.doc) ELSE call

\* What most functions check first: the version, then the position.
Check(doc, version, pos) ==
    CASE version # doc.version -> "OUTDATED_VERSION"
      [] version = doc.version /\ pos > Len(Working(doc)) -> "INVALID_POSITION"
      [] OTHER -> "SUCCESS"

Insert(doc, version, pos, content) ==
    Then(Return(doc, Check(doc, version, pos)), LAMBDA d : Enqueue(d, InsertOp(pos, content)))

\* A deletion may reach past the end: it is cut there, unless pos + len wraps around.
Delete(doc, version, pos, len) ==
    LET n == Len(Working(doc)) IN
    Then(Return(doc, Check(doc, version, pos)),
         LAMBDA d : CASE len = 0 -> Return(d, "SUCCESS")
                      [] len # 0 /\ (pos + len) % SizeModulus > n -> Enqueue(d, DeleteOp(pos, n - pos))
                      [] OTHER -> Enqueue(d, DeleteOp(pos, len)))

\* The cursor is right before a space, which a line break there replaces.
BeforeSpace(doc, pos) == pos < Len(Working(doc)) /\ Working(doc)[pos + 1] = " "

\* The first step of NEWLINE and ORDERED_LIST: take that space away.
SplitWord(doc, version, pos) ==
    Then(Return(doc, Check(doc, version, pos)),
         LAMBDA d : IF BeforeSpace(d, pos) THEN Delete(d, version, pos, 1) ELSE Return(d, "SUCCESS"))

Newline(doc, version, pos) ==
    Then(SplitWord(doc, version, pos), LAMBDA d : Insert(d, version, pos, <<LineFeed>>))

\* Faulty variant: it is the committed text that tells whether a line begins here.
BlockByCommitted(doc, version, pos, tag) ==
    Then(Return(doc, Check(doc, version, pos)),
         LAMBDA d : IF 0 < pos /\ pos <= Len(d.committed) /\ d.committed[pos] # LineFeed
                      THEN Then(Insert(d, version, pos, <<LineFeed>>),
                                LAMBDA e : Insert(e, version, pos + 1, tag))
                      ELSE Insert(d, version, pos, tag))

\* A block tag, after ensure_block_prefix_position: on a line of its own making unless
\* the position is the start of a line already.
Block(doc, version, pos, tag) ==
    Then(Return(doc, Check(doc, version, pos)),
         LAMBDA d : IF pos > 0 /\ Working(d)[pos] # LineFeed
                      THEN Then(Insert(d, version, pos, <<LineFeed>>),
                                LAMBDA e : Insert(e, version, pos + 1, tag))
                      ELSE Insert(d, version, pos, tag))

\* Faulty variant: the level is looked at when the line has been broken.
HeadingLevelLast(doc, version, level, pos) ==
    IF level \in 1 .. 3
      THEN Block(doc, version, pos, [i \in 1 .. level + 1 |-> IF i <= level THEN "#" ELSE " "])
      ELSE Return(Newline(doc, version, pos).doc, "INVALID_POSITION")

Heading(doc, version, level, pos) ==
    IF level \in 1 .. 3
      THEN Block(doc, version, pos, [i \in 1 .. level + 1 |-> IF i <= level THEN "#" ELSE " "])
      ELSE Return(doc, "INVALID_POSITION")

OrderedList(doc, version, pos) ==
    Then(SplitWord(doc, version, pos), LAMBDA d : Block(d, version, pos, <<"1", ".", " ">>))

\* Faulty variant: the opening mark is inserted first and moves the end.
SurroundOpeningFirst(doc, version, start, end, opening, closing) ==
    LET from == Transform(doc, start)
        to == Transform(doc, end)
    IN CASE version # doc.version -> Return(doc, "OUTDATED_VERSION")
         [] start >= end \/ end > Len(doc.committed) -> Return(doc, "INVALID_POSITION")
         [] from = Deleted \/ to = Deleted -> Return(doc, "DELETED_POSITION")
         [] OTHER -> Then(Insert(doc, version, from, opening),
                          LAMBDA d : Insert(d, version, to, closing))

\* markdown_bold, _italic, _code and _link: a span of the committed text is moved to
\* where it is in the working text and put between two marks, the closing one first.
Surround(doc, version, start, end, opening, closing) ==
    LET from == Transform(doc, start)
        to == Transform(doc, end)
    IN CASE version # doc.version -> Return(doc, "OUTDATED_VERSION")
         [] version = doc.version /\ (start >= end \/ end > Len(doc.committed)) ->
              Return(doc, "INVALID_POSITION")
         [] version = doc.version /\ start < end /\ end <= Len(doc.committed)
              /\ (from = Deleted \/ to = Deleted) -> Return(doc, "DELETED_POSITION")
         [] OTHER -> Then(Insert(doc, version, to, closing),
                          LAMBDA d : Insert(d, version, from, opening))

\* markdown_increment_version.
IncrementVersion(doc) ==
    [committed |-> Renumber(Working(doc)), ops |-> <<>>, version |-> doc.version + 1]

-------------------------------------------------------------------------------
(* Commands *)

\* The marks of the four commands that surround a span.
Marks ==
    [BOLD   |-> [opening |-> <<"*", "*">>, closing |-> <<"*", "*">>],
     ITALIC |-> [opening |-> <<"*">>,      closing |-> <<"*">>],
     CODE   |-> [opening |-> <<"tick">>,   closing |-> <<"tick">>],
     LINK   |-> [opening |-> <<"[">>,      closing |-> <<"]", "(", "u", ")">>]]

\* The tags of the commands that begin a block.
Tags ==
    [BLOCKQUOTE      |-> <<">", " ">>,
     UNORDERED_LIST  |-> <<"-", " ">>,
     HORIZONTAL_RULE |-> <<"-", "-", "-", LineFeed>>]

\* The commands with arguments of their own.
ExecuteText(doc, version, command) ==
    CASE command.name = "INSERT"  -> Insert(doc, version, command.pos, command.content)
      [] command.name = "DEL"     -> Delete(doc, version, command.pos, command.len)
      [] command.name = "NEWLINE" -> Newline(doc, version, command.pos)
      [] command.name = "HEADING" -> Heading(doc, version, command.level, command.pos)

\* The commands that put marks around a span or a tag before a block.
ExecuteMarkup(doc, version, command) ==
    CASE command.name \in DOMAIN Marks ->
           Surround(doc, version, command.start, command.end,
                    Marks[command.name].opening, Marks[command.name].closing)
      [] command.name \in DOMAIN Tags ->
           Block(doc, version, command.pos, Tags[command.name])
      [] command.name = "ORDERED_LIST" -> OrderedList(doc, version, command.pos)

\* command_execute, for a line that has passed the parser: the role comes before the
\* arguments, a line whose arguments do not parse has the name MALFORMED.
Execute(doc, version, role, command) ==
    CASE command.name = "UNKNOWN" -> Return(doc, "INVALID_COMMAND")
      [] command.name # "UNKNOWN" /\ role # "write" -> Return(doc, "UNAUTHORISED")
      [] role = "write" /\ command.name = "MALFORMED" -> Return(doc, "INVALID_COMMAND")
      [] role = "write" /\ command.name \in {"INSERT", "DEL", "NEWLINE", "HEADING"} ->
           ExecuteText(doc, version, command)
      [] role = "write" /\ command.name \in DOMAIN Marks \cup DOMAIN Tags \cup {"ORDERED_LIST"} ->
           ExecuteMarkup(doc, version, command)
===============================================================================
