---------------------------- MODULE ServerCoreProofs ---------------------------
(***************************************************************************)
(* The version is kept twice, in the core and in the document, and the log *)
(* may outlive a commit: for all commands and all failures of memory, the  *)
(* two versions agree, so that no command is ever outdated, and every      *)
(* command that was logged is announced exactly once and in order.         *)
(* Nothing is needed of the texts for this: an edit enqueues operations,   *)
(* whichever, and leaves the version of the document alone.                *)
(*                                                                         *)
(* The second half is about the texts.  As long as no size wraps around,   *)
(* the pending operations, whatever they are, move every position of the   *)
(* committed text to where its neighbours are; commands therefore put      *)
(* their marks and tags where they belong, and a refused command has left  *)
(* nothing behind, so that whoever repeats the ones that succeeded holds   *)
(* the same text.                                                          *)
(***************************************************************************)
EXTENDS ServerCore, OrderedListsProofs, TLAPS, SequenceTheorems

IsDocument(d) == d = [committed |-> d.committed, ops |-> d.ops, version |-> d.version]

\* The call leaves a document of the same version and returns a result.
Keeps(d, call) ==
    /\ IsDocument(call.doc)
    /\ call.doc.version = d.version
    /\ call.result \in Result \ {"OUTDATED_VERSION"}

-------------------------------------------------------------------------------
(* The editing functions, called with the version of the document *)

LEMMA ReturnKeeps ==
  ASSUME NEW d, IsDocument(d), NEW result \in Result \ {"OUTDATED_VERSION"}
  PROVE  Keeps(d, Return(d, result))
BY DEF Keeps, Return

LEMMA EnqueueKeeps ==
  ASSUME NEW d, IsDocument(d), NEW op
  PROVE  Keeps(d, Enqueue(d, op))
BY DEF Keeps, Enqueue, Return, IsDocument, Result

\* Check does not find the version outdated.
LEMMA CheckCurrent ==
  ASSUME NEW d, NEW pos
  PROVE  Check(d, d.version, pos) \in {"SUCCESS", "INVALID_POSITION"}
BY DEF Check

LEMMA InsertKeeps ==
  ASSUME NEW d, IsDocument(d), NEW pos, NEW content
  PROVE  Keeps(d, Insert(d, d.version, pos, content))
<1> DEFINE first == Return(d, Check(d, d.version, pos))
<1>1. Keeps(d, first)
  BY CheckCurrent, ReturnKeeps DEF Result
<1>2. CASE first.result = "SUCCESS"
  <2>1. Insert(d, d.version, pos, content) = Enqueue(first.doc, InsertOp(pos, content))
    BY <1>2 DEF Insert, Then
  <2>2. first.doc = d
    BY DEF Return
  <2>3. QED
    BY <2>1, <2>2, EnqueueKeeps
<1>3. CASE first.result # "SUCCESS"
  <2>1. Insert(d, d.version, pos, content) = first
    BY <1>3 DEF Insert, Then
  <2>2. QED
    BY <1>1, <2>1
<1>4. QED
  BY <1>2, <1>3

LEMMA DeleteKeeps ==
  ASSUME NEW d, IsDocument(d), NEW pos, NEW len
  PROVE  Keeps(d, Delete(d, d.version, pos, len))
<1> DEFINE first == Return(d, Check(d, d.version, pos))
           n == Len(Working(d))
<1>1. Keeps(d, first) /\ first.doc = d
  BY CheckCurrent, ReturnKeeps DEF Result, Return
<1>2. CASE first.result = "SUCCESS"
  <2>1. Delete(d, d.version, pos, len) =
          CASE len = 0 -> Return(d, "SUCCESS")
            [] len # 0 /\ (pos + len) % SizeModulus > n -> Enqueue(d, DeleteOp(pos, n - pos))
            [] OTHER -> Enqueue(d, DeleteOp(pos, len))
    BY <1>1, <1>2 DEF Delete, Then
  <2>2. \/ Delete(d, d.version, pos, len) = Return(d, "SUCCESS")
        \/ \E op : Delete(d, d.version, pos, len) = Enqueue(d, op)
    BY <2>1
  <2>3. QED
    BY <2>2, EnqueueKeeps, ReturnKeeps DEF Result
<1>3. CASE first.result # "SUCCESS"
  BY <1>1, <1>3 DEF Delete, Then
<1>4. QED
  BY <1>2, <1>3

LEMMA SplitWordKeeps ==
  ASSUME NEW d, IsDocument(d), NEW pos
  PROVE  Keeps(d, SplitWord(d, d.version, pos))
<1> DEFINE first == Return(d, Check(d, d.version, pos))
<1>1. Keeps(d, first) /\ first.doc = d
  BY CheckCurrent, ReturnKeeps DEF Result, Return
<1>2. CASE first.result = "SUCCESS"
  <2>1. SplitWord(d, d.version, pos) = IF BeforeSpace(d, pos) THEN Delete(d, d.version, pos, 1)
                                       ELSE Return(d, "SUCCESS")
    BY <1>1, <1>2 DEF SplitWord, Then
  <2>2. QED
    BY <2>1, DeleteKeeps, ReturnKeeps DEF Result
<1>3. CASE first.result # "SUCCESS"
  BY <1>1, <1>3 DEF SplitWord, Then
<1>4. QED
  BY <1>2, <1>3

\* What is kept by a call and then by another is kept by both.
LEMMA KeepsTwice ==
  ASSUME NEW d, NEW first, NEW second, Keeps(d, first), Keeps(first.doc, second)
  PROVE  Keeps(d, second)
BY DEF Keeps

LEMMA NewlineKeeps ==
  ASSUME NEW d, IsDocument(d), NEW pos
  PROVE  Keeps(d, Newline(d, d.version, pos))
<1> DEFINE first == SplitWord(d, d.version, pos)
<1>1. Keeps(d, first) /\ IsDocument(first.doc) /\ first.doc.version = d.version
  BY SplitWordKeeps DEF Keeps
<1>2. CASE first.result = "SUCCESS"
  <2>1. Newline(d, d.version, pos) = Insert(first.doc, first.doc.version, pos, <<LineFeed>>)
    BY <1>1, <1>2 DEF Newline, Then
  <2>2. QED
    BY <2>1, <1>1, InsertKeeps, KeepsTwice
<1>3. CASE first.result # "SUCCESS"
  BY <1>1, <1>3 DEF Newline, Then
<1>4. QED
  BY <1>2, <1>3

\* Two insertions, the second if the first succeeds: what is behind block tags and marks.
LEMMA TwoInsertsKeep ==
  ASSUME NEW d, IsDocument(d), NEW pos, NEW content, NEW pos2, NEW content2
  PROVE  LET first == Insert(d, d.version, pos, content)
         IN Keeps(d, IF first.result = "SUCCESS"
                       THEN Insert(first.doc, d.version, pos2, content2) ELSE first)
<1> DEFINE first == Insert(d, d.version, pos, content)
<1>1. Keeps(d, first) /\ IsDocument(first.doc) /\ first.doc.version = d.version
  BY InsertKeeps DEF Keeps
<1>2. Keeps(d, Insert(first.doc, d.version, pos2, content2))
  BY <1>1, InsertKeeps, KeepsTwice
<1>3. QED
  BY <1>1, <1>2

LEMMA BlockKeeps ==
  ASSUME NEW d, IsDocument(d), NEW pos, NEW tag
  PROVE  Keeps(d, Block(d, d.version, pos, tag))
<1> DEFINE first == Return(d, Check(d, d.version, pos))
<1>1. Keeps(d, first) /\ first.doc = d
  BY CheckCurrent, ReturnKeeps DEF Result, Return
<1>2. CASE first.result = "SUCCESS"
  <2>1. Block(d, d.version, pos, tag) =
          IF pos > 0 /\ Working(d)[pos] # LineFeed
            THEN Then(Insert(d, d.version, pos, <<LineFeed>>),
                      LAMBDA e : Insert(e, d.version, pos + 1, tag))
            ELSE Insert(d, d.version, pos, tag)
    BY <1>1, <1>2 DEF Block, Then
  <2>2. QED
    BY <2>1, InsertKeeps, TwoInsertsKeep DEF Then
<1>3. CASE first.result # "SUCCESS"
  BY <1>1, <1>3 DEF Block, Then
<1>4. QED
  BY <1>2, <1>3

LEMMA HeadingKeeps ==
  ASSUME NEW d, IsDocument(d), NEW level, NEW pos
  PROVE  Keeps(d, Heading(d, d.version, level, pos))
<1> DEFINE tag == [i \in 1 .. level + 1 |-> IF i <= level THEN "#" ELSE " "]
<1>1. CASE level \in 1 .. 3
  BY <1>1, BlockKeeps DEF Heading
<1>2. CASE level \notin 1 .. 3
  BY <1>2, ReturnKeeps DEF Heading, Result
<1>3. QED
  BY <1>1, <1>2

LEMMA OrderedListKeeps ==
  ASSUME NEW d, IsDocument(d), NEW pos
  PROVE  Keeps(d, OrderedList(d, d.version, pos))
<1> DEFINE first == SplitWord(d, d.version, pos)
<1>1. Keeps(d, first) /\ IsDocument(first.doc) /\ first.doc.version = d.version
  BY SplitWordKeeps DEF Keeps
<1>2. CASE first.result = "SUCCESS"
  <2>1. OrderedList(d, d.version, pos)
          = Block(first.doc, first.doc.version, pos, <<"1", ".", " ">>)
    BY <1>1, <1>2 DEF OrderedList, Then
  <2>2. QED
    BY <2>1, <1>1, BlockKeeps, KeepsTwice
<1>3. CASE first.result # "SUCCESS"
  BY <1>1, <1>3 DEF OrderedList, Then
<1>4. QED
  BY <1>2, <1>3

LEMMA SurroundKeeps ==
  ASSUME NEW d, IsDocument(d), NEW start, NEW end, NEW opening, NEW closing
  PROVE  Keeps(d, Surround(d, d.version, start, end, opening, closing))
<1> DEFINE from == Transform(d, start)
           to == Transform(d, end)
           call == Surround(d, d.version, start, end, opening, closing)
           both == Then(Insert(d, d.version, to, closing),
                        LAMBDA e : Insert(e, d.version, from, opening))
<1>1. \/ call = Return(d, "INVALID_POSITION")
      \/ call = Return(d, "DELETED_POSITION")
      \/ call = both
  BY DEF Surround
<1>2. Keeps(d, both)
  BY TwoInsertsKeep DEF Then
<1>3. Keeps(d, Return(d, "INVALID_POSITION")) /\ Keeps(d, Return(d, "DELETED_POSITION"))
  BY ReturnKeeps DEF Result
<1>4. QED
  BY <1>1, <1>2, <1>3

-------------------------------------------------------------------------------
(* Commands *)

LEMMA ExecuteKeeps ==
  ASSUME NEW d, IsDocument(d), NEW role, NEW command \in Commands
  PROVE  Keeps(d, Execute(d, d.version, role, command))
<1> DEFINE call == Execute(d, d.version, role, command)
           text == {"INSERT", "DEL", "NEWLINE", "HEADING"}
           spans == DOMAIN Marks
           blocks == DOMAIN Tags \cup {"ORDERED_LIST"}
<1>1. /\ spans = {"BOLD", "ITALIC", "CODE", "LINK"}
      /\ DOMAIN Tags = {"BLOCKQUOTE", "UNORDERED_LIST", "HORIZONTAL_RULE"}
  BY DEF Marks, Tags
<1>2. command.name \in {"UNKNOWN", "MALFORMED"} \cup text \cup spans \cup blocks
  BY <1>1, CommandsAssumption DEF Command
<1>3. CASE command.name = "UNKNOWN" \/ role # "write" \/ command.name = "MALFORMED"
  <2>1. call = Return(d, "INVALID_COMMAND") \/ call = Return(d, "UNAUTHORISED")
    BY <1>1, <1>3 DEF Execute
  <2>2. QED
    BY <2>1, ReturnKeeps DEF Result
<1>4. CASE role = "write" /\ command.name \in text
  <2>1. call = ExecuteText(d, d.version, command)
    BY <1>1, <1>4 DEF Execute
  <2>2. CASE command.name = "INSERT"
    BY <2>1, <2>2, InsertKeeps DEF ExecuteText
  <2>3. CASE command.name = "DEL"
    BY <2>1, <2>3, DeleteKeeps DEF ExecuteText
  <2>4. CASE command.name = "NEWLINE"
    BY <2>1, <2>4, NewlineKeeps DEF ExecuteText
  <2>5. CASE command.name = "HEADING"
    BY <2>1, <2>5, HeadingKeeps DEF ExecuteText
  <2>6. QED
    BY <1>4, <2>2, <2>3, <2>4, <2>5
<1>5. CASE role = "write" /\ command.name \in spans \cup blocks
  <2>1. call = ExecuteMarkup(d, d.version, command)
    BY <1>1, <1>5 DEF Execute
  <2>2. CASE command.name \in spans
    BY <1>1, <2>1, <2>2, SurroundKeeps DEF ExecuteMarkup
  <2>3. CASE command.name \in DOMAIN Tags
    BY <1>1, <2>1, <2>3, BlockKeeps DEF ExecuteMarkup
  <2>4. CASE command.name = "ORDERED_LIST"
    BY <1>1, <2>1, <2>4, OrderedListKeeps DEF ExecuteMarkup
  <2>5. QED
    BY <1>5, <2>2, <2>3, <2>4
<1>6. QED
  BY <1>2, <1>3, <1>4, <1>5

\* A call that runs out of memory keeps the document too.
LEMMA OutOfMemoryKeeps ==
  ASSUME IsDocument(doc), NEW done, NEW call \in OutOfMemory(done)
  PROVE  Keeps(doc, call)
<1>1. CASE call = Return(doc, "INVALID_COMMAND")
  BY <1>1 DEF Keeps, Return, Result
<1>2. ASSUME NEW ops, call = Return([doc EXCEPT !.ops = ops], "INVALID_POSITION")
      PROVE  Keeps(doc, call)
  <2>1. IsDocument([doc EXCEPT !.ops = ops]) /\ [doc EXCEPT !.ops = ops].version = doc.version
    BY DEF IsDocument
  <2>2. QED
    BY <1>2, <2>1 DEF Keeps, Return, Result
<1>3. QED
  BY <1>1, <1>2 DEF OutOfMemory

-------------------------------------------------------------------------------
(* The log *)

\* The entries of the log when so many commands have been submitted.
Logs(n) == [id : 1 .. n, command : Commands \cup {[name |-> "REJECTED"]}, result : Result]

LEMMA LogsGrow ==
  ASSUME NEW n \in Nat, NEW log \in Seq(Logs(n))
  PROVE  log \in Seq(Logs(n + 1))
<1>1. Logs(n) \subseteq Logs(n + 1)
  BY DEF Logs
<1>2. QED
  BY <1>1, SeqMonotonic

LEMMA IdsType ==
  ASSUME NEW n \in Nat, NEW log \in Seq(Logs(n))
  PROVE  Ids(log) \in Seq(1 .. n) /\ Len(Ids(log)) = Len(log)
<1>1. /\ Len(log) \in Nat /\ DOMAIN log = 1 .. Len(log)
      /\ \A i \in 1 .. Len(log) : log[i] \in Logs(n)
  BY LenProperties, ElementOfSeq
<1>2. \A i \in 1 .. Len(log) : log[i].id \in 1 .. n
  BY <1>1 DEF Logs
<1>3. Ids(log) = [i \in 1 .. Len(log) |-> log[i].id]
  BY <1>1 DEF Ids
<1>4. QED
  BY <1>1, <1>2, <1>3

LEMMA IdsAppend ==
  ASSUME NEW n \in Nat, NEW log \in Seq(Logs(n)), NEW entry \in Logs(n)
  PROVE  Ids(Append(log, entry)) = Append(Ids(log), entry.id)
<1> DEFINE longer == Append(log, entry)
<1>1. /\ longer \in Seq(Logs(n)) /\ Len(longer) = Len(log) + 1
      /\ Len(log) \in Nat /\ DOMAIN log = 1 .. Len(log) /\ DOMAIN longer = 1 .. Len(log) + 1
      /\ longer[Len(log) + 1] = entry
      /\ \A i \in 1 .. Len(log) : longer[i] = log[i]
  BY LenProperties
<1>2. /\ Ids(log) \in Seq(1 .. n) /\ Len(Ids(log)) = Len(log)
      /\ Ids(longer) \in Seq(1 .. n) /\ Len(Ids(longer)) = Len(log) + 1
  BY <1>1, IdsType
<1>3. entry.id \in 1 .. n
  BY DEF Logs
<1>4. \A i \in 1 .. Len(log) + 1 :
        Ids(longer)[i] = IF i = Len(log) + 1 THEN entry.id ELSE Ids(log)[i]
  BY <1>1 DEF Ids
<1>5. /\ Append(Ids(log), entry.id) \in Seq(1 .. n)
      /\ Len(Append(Ids(log), entry.id)) = Len(log) + 1
      /\ \A i \in 1 .. Len(log) + 1 : Append(Ids(log), entry.id)[i]
            = IF i = Len(log) + 1 THEN entry.id ELSE Ids(log)[i]
  BY <1>1, <1>2, <1>3
<1>6. QED
  BY <1>1, <1>2, <1>4, <1>5, SeqEqual

\* The ids are those of the set, in increasing order.
ExactlyInOrder(told, ids) ==
    /\ \A i, j \in DOMAIN told : i < j => told[i] < told[j]
    /\ {told[i] : i \in DOMAIN told} = ids

LEMMA AnnouncedMeaning ==
  EachAnnouncedOnce <=>
    ExactlyInOrder(announced \o Ids(pending), (1 .. submitted) \ unlogged)
BY DEF EachAnnouncedOnce, ExactlyInOrder

\* A sequence of ids up to n, with the id n + 1 at its end.
LEMMA NextId ==
  ASSUME NEW n \in Nat, NEW told \in Seq(1 .. n), NEW missing \in SUBSET (1 .. n),
         ExactlyInOrder(told, (1 .. n) \ missing)
  PROVE  ExactlyInOrder(Append(told, n + 1), (1 .. n + 1) \ missing)
<1> DEFINE next == Append(told, n + 1)
<1>1. /\ Len(told) \in Nat /\ DOMAIN told = 1 .. Len(told)
      /\ DOMAIN next = 1 .. Len(told) + 1
      /\ next[Len(told) + 1] = n + 1
      /\ \A i \in DOMAIN told : next[i] = told[i] /\ told[i] \in 1 .. n
  OBVIOUS
<1>2. ASSUME NEW i \in DOMAIN next, NEW j \in DOMAIN next, i < j
      PROVE  next[i] < next[j]
  BY <1>1, <1>2 DEF ExactlyInOrder
<1>3. {next[i] : i \in DOMAIN next} = {told[i] : i \in DOMAIN told} \cup {n + 1}
  BY <1>1
<1>4. (1 .. n + 1) \ missing = ((1 .. n) \ missing) \cup {n + 1}
  OBVIOUS
<1>5. QED
  BY <1>2, <1>3, <1>4 DEF ExactlyInOrder

-------------------------------------------------------------------------------
(* The invariant *)

LEMMA InitInv == Init => IndInv
<1>1. SUFFICES ASSUME Init PROVE IndInv
  OBVIOUS
<1>2. TypeOK
  BY <1>1 DEF Init, TypeOK, NewDocument
<1>3. Ids(pending) = <<>> /\ announced \o Ids(pending) = <<>>
  BY <1>1 DEF Init, Ids
<1>4. EachAnnouncedOnce
  BY <1>1, <1>3 DEF Init, EachAnnouncedOnce
<1>5. QED
  BY <1>1, <1>2, <1>4 DEF Init, IndInv, NeverOutdated, NewDocument

\* A command that is logged, with whatever result and whatever it did to the document.
LEMMA LoggedStep ==
  ASSUME IndInv, NEW command \in Commands, NEW result \in Result \ {"OUTDATED_VERSION"},
         IsDocument(doc'), doc'.version = version,
         pending' = Append(pending, Logged(command, result)),
         submitted' = submitted + 1, failures' \in Nat,
         UNCHANGED <<version, unlogged, announced>>
  PROVE  IndInv'
<1> DEFINE entry == Logged(command, result)
           told == announced \o Ids(pending)
<1>1. /\ submitted \in Nat /\ pending \in Seq(Logs(submitted))
      /\ announced \in Seq(1 .. submitted) /\ unlogged \in SUBSET (1 .. submitted)
  BY DEF IndInv, TypeOK, Logs
<1>2. entry \in Logs(submitted + 1) /\ entry.id = submitted + 1 /\ entry.result = result
  BY <1>1 DEF Logged, Logs
<1>3. pending \in Seq(Logs(submitted + 1)) /\ submitted + 1 \in Nat
  BY <1>1, LogsGrow
<1>4. TypeOK'
  <2>1. pending' \in Seq(Logs(submitted'))
    BY <1>2, <1>3
  <2>2. announced' \in Seq(1 .. submitted')
    <3>1. 1 .. submitted \subseteq 1 .. submitted'
      BY <1>1
    <3>2. QED
      BY <1>1, <3>1, SeqMonotonic
  <2>3. QED
    BY <1>1, <2>1, <2>2 DEF TypeOK, IndInv, IsDocument, Logs
<1>5. NeverOutdated'
  <2>1. \A i \in DOMAIN pending' : (i \in DOMAIN pending /\ pending'[i] = pending[i])
                                  \/ pending'[i] = entry
    BY <1>2, <1>3
  <2>2. QED
    BY <1>2, <2>1 DEF NeverOutdated, IndInv
<1>6. EachAnnouncedOnce'
  <2>1. Ids(pending) \in Seq(1 .. submitted)
    BY <1>1, IdsType
  <2>2. told \in Seq(1 .. submitted)
    BY <1>1, <2>1, ConcatProperties
  <2>3. Ids(pending') = Append(Ids(pending), submitted + 1)
    BY <1>2, <1>3, IdsAppend
  <2>4. announced \o Append(Ids(pending), submitted + 1) = Append(told, submitted + 1)
    BY <1>1, <2>1
  <2>5. (announced \o Ids(pending))' = Append(told, submitted + 1)
    BY <2>3, <2>4
  <2>6. ExactlyInOrder(told, (1 .. submitted) \ unlogged)
    BY AnnouncedMeaning DEF IndInv
  <2>7. ExactlyInOrder(Append(told, submitted + 1), (1 .. submitted + 1) \ unlogged)
    BY <1>1, <2>2, <2>6, NextId
  <2>8. ExactlyInOrder((announced \o Ids(pending))', (1 .. submitted') \ unlogged')
    BY <2>5, <2>7
  <2>9. QED
    BY <2>8 DEF EachAnnouncedOnce, ExactlyInOrder
<1>7. QED
  BY <1>4, <1>5, <1>6 DEF IndInv

\* A command that has been executed and finds no memory for its entry.
LEMMA UnloggedStep ==
  ASSUME IndInv, IsDocument(doc'), doc'.version = version,
         submitted' = submitted + 1, unlogged' = unlogged \cup {submitted'}, failures' \in Nat,
         UNCHANGED <<version, pending, announced>>
  PROVE  IndInv'
<1>1. /\ submitted \in Nat /\ pending \in Seq(Logs(submitted))
      /\ announced \in Seq(1 .. submitted) /\ unlogged \in SUBSET (1 .. submitted)
  BY DEF IndInv, TypeOK, Logs
<1>2. pending' \in Seq(Logs(submitted')) /\ submitted' \in Nat
  BY <1>1, LogsGrow
<1>3. announced' \in Seq(1 .. submitted') /\ unlogged' \subseteq 1 .. submitted'
  <2>1. 1 .. submitted \subseteq 1 .. submitted'
    BY <1>1
  <2>2. QED
    BY <1>1, <2>1, SeqMonotonic
<1>4. TypeOK'
  BY <1>2, <1>3 DEF TypeOK, IndInv, IsDocument, Logs
<1>5. (1 .. submitted') \ unlogged' = (1 .. submitted) \ unlogged
  BY <1>1
<1>6. EachAnnouncedOnce'
  <2>1. (announced \o Ids(pending))' = announced \o Ids(pending)
    BY DEF Ids
  <2>2. ExactlyInOrder((announced \o Ids(pending))', (1 .. submitted') \ unlogged')
    BY <1>5, <2>1, AnnouncedMeaning DEF IndInv
  <2>3. QED
    BY <2>2 DEF EachAnnouncedOnce, ExactlyInOrder
<1>7. QED
  BY <1>4, <1>6 DEF IndInv, NeverOutdated

LEMMA SubmitStep ==
  ASSUME IndInv, NEW role \in Role, NEW command \in Commands, Submit(role, command)
  PROVE  IndInv'
<1> DEFINE done == Execute(doc, version, role, command)
<1>1. IsDocument(doc) /\ doc.version = version
  BY DEF IndInv, TypeOK, IsDocument
<1>2. Keeps(doc, done)
  BY <1>1, ExecuteKeeps
<1>3. submitted' = submitted + 1 /\ failures' \in Nat /\ UNCHANGED <<version, announced>>
  BY DEF Submit, Fail, IndInv, TypeOK
<1>4. CASE /\ doc' = done.doc /\ pending' = Append(pending, Logged(command, done.result))
           /\ UNCHANGED unlogged
  BY <1>1, <1>2, <1>3, <1>4, LoggedStep DEF Keeps
<1>5. CASE /\ \E call \in OutOfMemory(done) :
                doc' = call.doc /\ pending' = Append(pending, Logged(command, call.result))
           /\ UNCHANGED unlogged
  <2>1. PICK call \in OutOfMemory(done) :
          doc' = call.doc /\ pending' = Append(pending, Logged(command, call.result))
    BY <1>5
  <2>2. Keeps(doc, call)
    BY <1>1, OutOfMemoryKeeps
  <2>3. QED
    BY <1>1, <1>3, <1>5, <2>1, <2>2, LoggedStep DEF Keeps
<1>6. CASE doc' = done.doc /\ unlogged' = unlogged \cup {submitted'} /\ UNCHANGED pending
  BY <1>1, <1>2, <1>3, <1>6, UnloggedStep DEF Keeps
<1>7. QED
  BY <1>4, <1>5, <1>6 DEF Submit

LEMMA CommitStep ==
  ASSUME IndInv, Commit
  PROVE  IndInv'
<1>1. PICK stuck \in BOOLEAN, unannounced \in BOOLEAN :
        /\ Fail((IF stuck THEN 1 ELSE 0) + (IF unannounced THEN 1 ELSE 0))
        /\ doc' = IF pending = <<>> \/ stuck THEN doc ELSE IncrementVersion(doc)
        /\ version' = IF pending = <<>> THEN version ELSE doc'.version
        /\ IF unannounced THEN KeepLog ELSE Announce([version |-> version', log |-> pending])
        /\ UNCHANGED <<submitted, unlogged>>
  BY DEF Commit
<1>2. /\ submitted \in Nat /\ pending \in Seq(Logs(submitted))
      /\ announced \in Seq(1 .. submitted) /\ version \in Nat /\ failures \in Nat
      /\ IsDocument(doc) /\ doc.version = version
  BY DEF IndInv, TypeOK, Logs, IsDocument
<1>3. IsDocument(doc') /\ doc'.version = version' /\ version' \in Nat
  BY <1>1, <1>2 DEF IncrementVersion, IsDocument
<1>4. failures' \in Nat
  BY <1>1, <1>2 DEF Fail
<1>5. Ids(pending) \in Seq(1 .. submitted)
  BY <1>2, IdsType
<1>6. /\ pending' \in Seq(Logs(submitted)) /\ announced' \in Seq(1 .. submitted)
      /\ announced' \o Ids(pending') = announced \o Ids(pending)
      /\ pending' = pending \/ pending' = <<>>
  <2>1. CASE unannounced
    BY <1>1, <1>2, <2>1 DEF KeepLog
  <2>2. CASE ~unannounced
    <3>1. pending' = <<>> /\ announced' = announced \o Ids(pending)
      BY <1>1, <2>2 DEF Announce
    <3>2. announced' \in Seq(1 .. submitted)
      BY <1>2, <1>5, <3>1, ConcatProperties
    <3>3. Ids(pending') = <<>>
      BY <3>1 DEF Ids
    <3>4. announced' \o Ids(pending') = announced \o Ids(pending)
      BY <3>1, <3>2, <3>3, ConcatEmptySeq
    <3>5. QED
      BY <3>1, <3>2, <3>4
  <2>3. QED
    BY <2>1, <2>2
<1>7. TypeOK'
  BY <1>1, <1>3, <1>4, <1>6 DEF TypeOK, IndInv, IsDocument, Logs
<1>8. EachAnnouncedOnce'
  BY <1>1, <1>6 DEF IndInv, EachAnnouncedOnce
<1>9. NeverOutdated'
  BY <1>6 DEF IndInv, NeverOutdated
<1>10. QED
  BY <1>3, <1>7, <1>8, <1>9 DEF IndInv

LEMMA StepInv == IndInv /\ [Next]_vars => IndInv'
<1>1. SUFFICES ASSUME IndInv, [Next]_vars PROVE IndInv'
  OBVIOUS
<1>2. CASE \E role \in Role, command \in Commands : Submit(role, command)
  BY <1>1, <1>2, SubmitStep
<1>3. CASE Commit
  BY <1>1, <1>3, CommitStep
<1>4. CASE UNCHANGED vars
  <2>1. TypeOK' /\ NeverOutdated' /\ doc'.version = version'
    BY <1>1, <1>4 DEF vars, IndInv, TypeOK, NeverOutdated
  <2>2. (announced \o Ids(pending))' = announced \o Ids(pending)
    BY <1>4 DEF vars, Ids
  <2>3. ExactlyInOrder((announced \o Ids(pending))', ((1 .. submitted) \ unlogged)')
    BY <1>1, <1>4, <2>2, AnnouncedMeaning DEF vars, IndInv
  <2>4. EachAnnouncedOnce'
    BY <2>3 DEF EachAnnouncedOnce, ExactlyInOrder
  <2>5. QED
    BY <2>1, <2>4 DEF IndInv
<1>5. QED
  BY <1>1, <1>2, <1>3, <1>4 DEF Next

\* For all commands, all results of the editing functions and all failures of memory, the
\* inductive invariant of server_core.c holds.
THEOREM InvariantHolds == Spec => []IndInv
BY InitInv, StepInv, PTL DEF Spec

\* No command is rejected as outdated: the version that server_core_submit passes is the one
\* the document has (server_core.c:119-122, 159).
THEOREM NoneOutdated == Spec => []NeverOutdated
<1>1. IndInv => NeverOutdated
  BY DEF IndInv
<1>2. QED
  BY InvariantHolds, <1>1, PTL

\* A command that was logged is announced once and in the order of submission, whichever
\* commits fail (server_core.c:163-168, 187-190).
THEOREM LogAnnounced == Spec => []EachAnnouncedOnce
<1>1. IndInv => EachAnnouncedOnce
  BY DEF IndInv
<1>2. QED
  BY InvariantHolds, <1>1, PTL

-------------------------------------------------------------------------------
(* Texts and operations *)

\* The characters of the texts: those of the contents, the marks, the tags and the digits.
Char == STRING \cup {"*", "tick", "[", "]", "(", "u", ")", ">", " ", "-", "#", ".", LineFeed}
               \cup {Digits[n] : n \in DOMAIN Digits}

\* The operations that an editing function enqueues.
Operation == [type : {"insert"}, pos : Nat, len : {0}, data : Seq(Char)]
             \cup [type : {"delete"}, pos : Nat, len : Nat, data : {<<>>}]

\* The operation stays within a text of n characters, and so does its result.
Fits(op, n) ==
    \/ op.type = "insert" /\ op.pos <= n /\ n + Len(op.data) <= MaxLength
    \/ op.type = "delete" /\ op.pos + op.len <= n

\* No size wraps around: texts are shorter than 2^64 and so are the ends of the deletions.
NoWrap ==
    /\ MaxLength < SizeModulus
    /\ \A command \in Commands : command.name = "DEL" => command.pos + command.len < SizeModulus

LEMMA Small == ASSUME NEW a \in Nat, a < SizeModulus PROVE a % SizeModulus = a
BY SizeAssumption

\* The length of a text after an operation that fits it.
Grown(n, op) == IF op.type = "insert" THEN n + Len(op.data) ELSE n - op.len

\* Two texts one after the other.
IsJoin(next, s, t) ==
    /\ Len(next) = Len(s) + Len(t)
    /\ \A i \in 1 .. Len(s) + Len(t) : next[i] = IF i <= Len(s) THEN s[i] ELSE t[i - Len(s)]

LEMMA Joined ==
  ASSUME NEW X, NEW s \in Seq(X), NEW t \in Seq(X)
  PROVE  s \o t \in Seq(X) /\ IsJoin(s \o t, s, t)
BY ConcatProperties DEF IsJoin

\* The beginning and the end of a text.
LEMMA Parts ==
  ASSUME NEW X, NEW text \in Seq(X), NEW k \in 0 .. Len(text)
  PROVE  /\ SubSeq(text, 1, k) \in Seq(X) /\ Len(SubSeq(text, 1, k)) = k
         /\ \A i \in 1 .. k : SubSeq(text, 1, k)[i] = text[i]
         /\ SubSeq(text, k + 1, Len(text)) \in Seq(X)
         /\ Len(SubSeq(text, k + 1, Len(text))) = Len(text) - k
         /\ \A i \in 1 .. Len(text) - k : SubSeq(text, k + 1, Len(text))[i] = text[i + k]
OBVIOUS

\* What an insertion at position k puts where.
IsInsertion(next, text, k, data) ==
    /\ Len(next) = Len(text) + Len(data)
    /\ \A i \in 1 .. Len(text) + Len(data) :
         next[i] = IF i <= k THEN text[i]
                   ELSE IF i <= k + Len(data) THEN data[i - k] ELSE text[i - Len(data)]

LEMMA InsertedAt ==
  ASSUME NEW X, NEW text \in Seq(X), NEW k \in 0 .. Len(text), NEW data \in Seq(X)
  PROVE  LET next == (SubSeq(text, 1, k) \o data) \o SubSeq(text, k + 1, Len(text))
         IN next \in Seq(X) /\ IsInsertion(next, text, k, data)
<1> DEFINE before == SubSeq(text, 1, k)
           after == SubSeq(text, k + 1, Len(text))
           start == before \o data
           next == start \o after
           n == Len(text)
           l == Len(data)
<1>1. n \in Nat /\ l \in Nat /\ k \in 0 .. n
  OBVIOUS
<1>2. /\ before \in Seq(X) /\ Len(before) = k /\ \A i \in 1 .. k : before[i] = text[i]
      /\ after \in Seq(X) /\ Len(after) = n - k /\ \A i \in 1 .. n - k : after[i] = text[i + k]
  BY Parts
<1> HIDE DEF before, after, n, l
<1>3. start \in Seq(X) /\ IsJoin(start, before, data)
  BY <1>2, Joined
<1>4. /\ Len(start) = k + l
      /\ \A i \in 1 .. k + l : start[i] = IF i <= k THEN before[i] ELSE data[i - k]
  BY <1>2, <1>3 DEF IsJoin, l
<1> HIDE DEF start
<1>5. next \in Seq(X) /\ IsJoin(next, start, after)
  BY <1>2, <1>3, Joined
<1> HIDE DEF next
<1>6. /\ Len(next) = n + l
      /\ \A i \in 1 .. n + l : next[i] = IF i <= k + l THEN start[i] ELSE after[i - (k + l)]
  <2>1. (k + l) + (n - k) = n + l
    BY <1>1
  <2>2. QED
    BY <1>2, <1>4, <1>5, <2>1 DEF IsJoin
<1>7. ASSUME NEW i \in 1 .. n + l
      PROVE  next[i] = IF i <= k THEN text[i] ELSE IF i <= k + l THEN data[i - k] ELSE text[i - l]
  <2>1. CASE i <= k
    BY <1>1, <1>2, <1>4, <1>6, <2>1
  <2>2. CASE k < i /\ i <= k + l
    BY <1>1, <1>4, <1>6, <2>2
  <2>3. CASE k + l < i
    <3>1. i - (k + l) \in 1 .. n - k /\ (i - (k + l)) + k = i - l
      BY <1>1, <2>3
    <3>2. next[i] = after[i - (k + l)]
      BY <1>1, <1>6, <2>3
    <3>3. after[i - (k + l)] = text[i - l]
      BY <1>2, <3>1
    <3>4. ~(i <= k) /\ ~(i <= k + l)
      BY <1>1, <2>3
    <3>5. QED
      BY <3>2, <3>3, <3>4
  <2>4. QED
    BY <1>1, <2>1, <2>2, <2>3
<1>8. IsInsertion(next, text, k, data)
  BY <1>6, <1>7 DEF IsInsertion, n, l
<1>9. QED
  BY <1>5, <1>8 DEF next, start, before, after

LEMMA Inserted ==
  ASSUME NEW X, NEW text \in Seq(X), NEW op, op.type = "insert", op.pos \in 0 .. Len(text),
         op.data \in Seq(X)
  PROVE  ApplyOp(text, op) \in Seq(X) /\ IsInsertion(ApplyOp(text, op), text, op.pos, op.data)
<1>1. Len(text) \in Nat /\ ~(op.pos > Len(text))
  OBVIOUS
<1>2. ApplyOp(text, op)
        = (SubSeq(text, 1, op.pos) \o op.data) \o SubSeq(text, op.pos + 1, Len(text))
  BY <1>1 DEF ApplyOp
<1>3. QED
  BY <1>2, InsertedAt

\* What a deletion leaves, from position k to position m.
IsRemoval(next, text, k, m) ==
    /\ Len(next) = Len(text) - (m - k)
    /\ \A i \in 1 .. Len(text) - (m - k) :
         next[i] = IF i <= k THEN text[i] ELSE text[i + (m - k)]

LEMMA RemovedAt ==
  ASSUME NEW X, NEW text \in Seq(X), NEW m \in 0 .. Len(text), NEW k \in 0 .. m
  PROVE  LET next == SubSeq(text, 1, k) \o SubSeq(text, m + 1, Len(text))
         IN next \in Seq(X) /\ IsRemoval(next, text, k, m)
<1> DEFINE before == SubSeq(text, 1, k)
           after == SubSeq(text, m + 1, Len(text))
           next == before \o after
           n == Len(text)
<1>1. n \in Nat /\ k \in 0 .. n /\ m \in 0 .. n
  OBVIOUS
<1>2. /\ before \in Seq(X) /\ Len(before) = k /\ \A i \in 1 .. k : before[i] = text[i]
      /\ after \in Seq(X) /\ Len(after) = n - m /\ \A i \in 1 .. n - m : after[i] = text[i + m]
  BY <1>1, Parts
<1> HIDE DEF before, after, n
<1>3. next \in Seq(X) /\ IsJoin(next, before, after)
  BY <1>2, Joined
<1> HIDE DEF next
<1>4. /\ Len(next) = n - (m - k)
      /\ \A i \in 1 .. n - (m - k) : next[i] = IF i <= k THEN before[i] ELSE after[i - k]
  <2>1. k + (n - m) = n - (m - k)
    BY <1>1
  <2>2. QED
    BY <1>2, <1>3, <2>1 DEF IsJoin
<1>5. ASSUME NEW i \in 1 .. n - (m - k)
      PROVE  next[i] = IF i <= k THEN text[i] ELSE text[i + (m - k)]
  <2>1. CASE i <= k
    BY <1>1, <1>2, <1>4, <2>1
  <2>2. CASE k < i
    <3>1. i - k \in 1 .. n - m /\ (i - k) + m = i + (m - k)
      BY <1>1, <2>2
    <3>2. QED
      BY <1>1, <1>2, <1>4, <2>2, <3>1
  <2>3. QED
    BY <1>1, <2>1, <2>2
<1>6. IsRemoval(next, text, k, m)
  BY <1>4, <1>5 DEF IsRemoval, n
<1>7. QED
  BY <1>3, <1>6 DEF next, before, after

LEMMA Removed ==
  ASSUME NEW X, NEW text \in Seq(X), Len(text) < SizeModulus, NEW op, op.type = "delete",
         op.pos \in Nat, op.len \in Nat, op.pos + op.len <= Len(text)
  PROVE  /\ ApplyOp(text, op) \in Seq(X)
         /\ IsRemoval(ApplyOp(text, op), text, op.pos, op.pos + op.len)
<1> DEFINE m == op.pos + op.len
<1>1. /\ Len(text) \in Nat /\ m \in 0 .. Len(text) /\ op.pos \in 0 .. m
      /\ ~(op.pos > Len(text)) /\ ~(m > Len(text))
  OBVIOUS
<1>2. m % SizeModulus = m
  <2>1. m \in Nat /\ m < SizeModulus
    BY <1>1, SizeAssumption
  <2> HIDE DEF m
  <2>2. QED
    BY <2>1, Small
<1>3. ApplyOp(text, op) = SubSeq(text, 1, op.pos) \o SubSeq(text, m + 1, Len(text))
  <2>1. (IF op.pos > Len(text) THEN Len(text) ELSE op.pos) = op.pos
    BY <1>1
  <2>2. ((IF op.pos > Len(text) THEN Len(text) ELSE op.pos) + op.len) % SizeModulus = m
    BY <1>2, <2>1
  <2>3. op.type # "insert"
    OBVIOUS
  <2> HIDE DEF m
  <2>4. QED
    BY <1>1, <2>1, <2>2, <2>3, Zenon DEF ApplyOp
<1> HIDE DEF m
<1>4. ApplyOp(text, op) \in Seq(X) /\ IsRemoval(ApplyOp(text, op), text, op.pos, m)
  BY <1>1, <1>3, RemovedAt
<1>5. QED
  BY <1>4 DEF m

\* Both at once.
LEMMA Applied ==
  ASSUME NEW X, NEW text \in Seq(X), Len(text) < SizeModulus, NEW op \in Operation,
         op.data \in Seq(X), Fits(op, Len(text))
  PROVE  ApplyOp(text, op) \in Seq(X) /\ Len(ApplyOp(text, op)) = Grown(Len(text), op)
<1>0. Len(text) \in Nat
  OBVIOUS
<1>1. CASE op.type = "insert"
  <2>1. op.pos \in 0 .. Len(text)
    BY <1>0, <1>1 DEF Fits, Operation
  <2>2. QED
    BY <1>1, <2>1, Inserted DEF Grown, IsInsertion
<1>2. CASE op.type = "delete"
  <2>1. op.pos \in Nat /\ op.len \in Nat /\ op.pos + op.len <= Len(text)
    BY <1>2 DEF Fits, Operation
  <2>2. Len(ApplyOp(text, op)) = Len(text) - ((op.pos + op.len) - op.pos)
        /\ ApplyOp(text, op) \in Seq(X)
    BY <1>2, <2>1, Removed DEF IsRemoval
  <2>3. (op.pos + op.len) - op.pos = op.len
    BY <2>1
  <2>4. QED
    BY <1>2, <2>2, <2>3 DEF Grown
<1>3. QED
  BY <1>1, <1>2 DEF Operation

-------------------------------------------------------------------------------
(* The pending operations, one after the other *)

Text == INSTANCE FoldLaws WITH Op <- ApplyOp
Moving == INSTANCE FoldLaws WITH Op <- TransformBy

LEMMA WorkingFold ==
  ASSUME NEW d
  PROVE  Working(d) = Text!Fold(d.committed, d.ops)
BY DEF Working, Text!Fold, FoldLeft, Text!FoldLeft, MapThenFoldSet, Text!MapThenFoldSet,
       Max, Text!Max

LEMMA TransformFold ==
  ASSUME NEW d, NEW p
  PROVE  Transform(d, p) = Moving!Fold(p, d.ops)
BY DEF Transform, Moving!Fold, FoldLeft, Moving!FoldLeft, MapThenFoldSet, Moving!MapThenFoldSet,
       Max, Moving!Max

LEMMA OriginsFold ==
  ASSUME NEW d
  PROVE  OriginsOf(d) = Text!Fold([i \in DOMAIN d.committed |-> i],
                                  [i \in DOMAIN d.ops |-> Anonymous(d.ops[i])])
BY DEF OriginsOf, Text!Fold, FoldLeft, Text!FoldLeft, MapThenFoldSet, Text!MapThenFoldSet,
       Max, Text!Max

\* Nothing is pending.
LEMMA NothingPending ==
  ASSUME NEW d, d.ops = <<>>
  PROVE  /\ Working(d) = d.committed
         /\ \A p : Transform(d, p) = p
         /\ OriginsOf(d) = [i \in DOMAIN d.committed |-> i]
<1>1. [i \in DOMAIN d.ops |-> Anonymous(d.ops[i])] = <<>>
  OBVIOUS
<1>2. QED
  BY <1>1, WorkingFold, TransformFold, OriginsFold, Text!FoldEmpty, Moving!FoldEmpty

\* One operation more.
LEMMA OneMorePending ==
  ASSUME NEW d, IsDocument(d), d.ops \in Seq(Operation), NEW op \in Operation, NEW e,
         e = [d EXCEPT !.ops = Append(@, op)]
  PROVE  /\ Working(e) = ApplyOp(Working(d), op)
         /\ \A p : Transform(e, p) = TransformBy(Transform(d, p), op)
         /\ OriginsOf(e) = ApplyOp(OriginsOf(d), Anonymous(op))
<1>1. e.committed = d.committed /\ e.ops = Append(d.ops, op)
  BY DEF IsDocument
<1>2. Working(e) = ApplyOp(Working(d), op)
  BY <1>1, WorkingFold, Text!FoldAppend
<1>3. \A p : Transform(e, p) = TransformBy(Transform(d, p), op)
  BY <1>1, TransformFold, Moving!FoldAppend
<1>4. OriginsOf(e) = ApplyOp(OriginsOf(d), Anonymous(op))
  <2> DEFINE X == {Anonymous(o) : o \in Operation}
             s == [i \in DOMAIN d.ops |-> Anonymous(d.ops[i])]
             t == [i \in DOMAIN e.ops |-> Anonymous(e.ops[i])]
  <2>1. s \in Seq(X) /\ Anonymous(op) \in X /\ Len(s) = Len(d.ops)
    OBVIOUS
  <2>2. t = Append(s, Anonymous(op))
    <3>1. DOMAIN t = 1 .. Len(d.ops) + 1 /\ DOMAIN Append(s, Anonymous(op)) = 1 .. Len(d.ops) + 1
      BY <1>1, <2>1
    <3>2. t \in Seq(X) /\ Append(s, Anonymous(op)) \in Seq(X)
      BY <1>1, <2>1
    <3>3. \A i \in 1 .. Len(d.ops) + 1 : t[i] = Append(s, Anonymous(op))[i]
      BY <1>1, <2>1, <3>1
    <3> HIDE DEF s, t, X
    <3>4. QED
      BY <3>1, <3>2, <3>3
  <2> HIDE DEF X
  <2>3. Text!Fold([i \in DOMAIN d.committed |-> i], Append(s, Anonymous(op)))
          = ApplyOp(Text!Fold([i \in DOMAIN d.committed |-> i], s), Anonymous(op))
    BY <2>1, Text!FoldAppend
  <2>4. QED
    BY <1>1, <2>2, <2>3, OriginsFold
<1>5. QED
  BY <1>2, <1>3, <1>4

-------------------------------------------------------------------------------
(* Positions *)

\* An operation of which only the length of the data is known.
LEMMA AnonymousType ==
  ASSUME NEW op \in Operation
  PROVE  /\ Anonymous(op).type = op.type /\ Anonymous(op).pos = op.pos
         /\ Anonymous(op).len = op.len
         /\ Anonymous(op).data \in Seq(Nat) /\ Len(Anonymous(op).data) = Len(op.data)
         /\ \A i \in 1 .. Len(op.data) : Anonymous(op).data[i] = 0
<1>1. /\ Anonymous(op).type = op.type /\ Anonymous(op).pos = op.pos /\ Anonymous(op).len = op.len
      /\ Anonymous(op).data = [i \in DOMAIN op.data |-> 0]
  BY DEF Anonymous, Operation
<1>2. DOMAIN op.data = 1 .. Len(op.data) /\ Len(op.data) \in Nat
  BY DEF Operation
<1>3. QED
  BY <1>1, <1>2

\* A position that divides the characters as p does is moved to one that does, or is deleted.
LEMMA InsertMoves ==
  ASSUME NEW origins \in Seq(Nat), NEW op \in Operation, op.type = "insert",
         op.pos <= Len(origins), NEW p \in Nat, NEW q, Divides(origins, q, p)
  PROVE  /\ ApplyOp(origins, Anonymous(op)) \in Seq(Nat)
         /\ Len(ApplyOp(origins, Anonymous(op))) = Len(origins) + Len(op.data)
         /\ Divides(ApplyOp(origins, Anonymous(op)), TransformBy(q, op), p)
<1> DEFINE next == ApplyOp(origins, Anonymous(op))
           k == op.pos
           l == Len(op.data)
           n == Len(origins)
           r == TransformBy(q, op)
<1>1. /\ n \in Nat /\ k \in 0 .. n /\ l \in Nat /\ q \in 0 .. n
      /\ \A i \in 1 .. n : origins[i] > 0 => (i <= q <=> origins[i] <= p)
  BY DEF Operation, Divides
<1>2. next \in Seq(Nat) /\ IsInsertion(next, origins, k, Anonymous(op).data)
  BY <1>1, Inserted, AnonymousType
<1>3. /\ Len(next) = n + l
      /\ \A i \in 1 .. n + l :
           next[i] = IF i <= k THEN origins[i] ELSE IF i <= k + l THEN 0 ELSE origins[i - l]
  <2>1. /\ Len(Anonymous(op).data) = l
        /\ \A i \in 1 .. n + l : ~(i <= k) /\ i <= k + l => Anonymous(op).data[i - k] = 0
    BY <1>1, AnonymousType
  <2>2. QED
    BY <1>2, <2>1 DEF IsInsertion
<1>4. r = IF k < q THEN q + l ELSE q
  BY <1>1 DEF TransformBy, Deleted
<1> HIDE DEF next, r, n, l, k
<1>5. ASSUME NEW i \in 1 .. n + l, next[i] > 0
      PROVE  i <= r <=> next[i] <= p
  <2>1. CASE i <= k
    <3>1. next[i] = origins[i] /\ i \in 1 .. n
      BY <1>1, <1>3, <2>1
    <3>2. i <= r <=> i <= q
      BY <1>1, <1>4, <2>1
    <3>3. QED
      BY <1>1, <1>5, <3>1, <3>2
  <2>2. CASE k + l < i
    <3>1. next[i] = origins[i - l] /\ i - l \in 1 .. n
      BY <1>1, <1>3, <2>2
    <3>2. i <= r <=> i - l <= q
      BY <1>1, <1>4, <2>2
    <3>3. QED
      BY <1>1, <1>5, <3>1, <3>2
  <2>3. ~(k < i /\ i <= k + l)
    BY <1>1, <1>3, <1>5
  <2>4. QED
    BY <1>1, <2>1, <2>2, <2>3
<1>6. r \in 0 .. n + l
  BY <1>1, <1>4
<1>7. DOMAIN next = 1 .. n + l
  BY <1>2, <1>3
<1>8. Divides(next, r, p)
  BY <1>3, <1>5, <1>6, <1>7 DEF Divides
<1>9. QED
  BY <1>2, <1>3, <1>8 DEF next, r, n, l

LEMMA DeleteMoves ==
  ASSUME NEW origins \in Seq(Nat), Len(origins) < SizeModulus, NEW op \in Operation,
         op.type = "delete", op.pos + op.len <= Len(origins), NEW p \in Nat, NEW q,
         Divides(origins, q, p)
  PROVE  /\ ApplyOp(origins, Anonymous(op)) \in Seq(Nat)
         /\ Len(ApplyOp(origins, Anonymous(op))) = Len(origins) - op.len
         /\ TransformBy(q, op) # Deleted =>
              Divides(ApplyOp(origins, Anonymous(op)), TransformBy(q, op), p)
<1> DEFINE next == ApplyOp(origins, Anonymous(op))
           k == op.pos
           l == op.len
           m == k + l
           n == Len(origins)
           r == TransformBy(q, op)
<1>1. /\ n \in Nat /\ n < SizeModulus /\ k \in Nat /\ l \in Nat /\ k + l <= n /\ q \in 0 .. n
      /\ \A i \in 1 .. n : origins[i] > 0 => (i <= q <=> origins[i] <= p)
  BY DEF Operation, Divides
<1>2. next \in Seq(Nat) /\ IsRemoval(next, origins, k, m)
  BY <1>1, Removed, AnonymousType
<1>3. /\ Len(next) = n - l
      /\ \A i \in 1 .. n - l : next[i] = IF i <= k THEN origins[i] ELSE origins[i + l]
  <2>1. m - k = l
    BY <1>1
  <2> HIDE DEF m, k, l
  <2>2. QED
    BY <1>2, <2>1 DEF IsRemoval
<1>4. r # Deleted => r = (IF k < q THEN q - l ELSE q) /\ (k < q => k + l <= q)
  <2>1. DeleteEnd(op) = k + l
    <3>1. k + l \in Nat /\ k + l < SizeModulus
      BY <1>1, SizeAssumption
    <3>2. QED
      BY <3>1, Small DEF DeleteEnd
  <2>2. k < q /\ k + l <= q => (q - l) % SizeModulus = q - l
    <3>1. ASSUME k < q /\ k + l <= q
          PROVE  (q - l) % SizeModulus = q - l
      <4>1. q - l \in Nat /\ q - l < SizeModulus
        BY <1>1, <3>1, SizeAssumption
      <4> HIDE DEF l
      <4>2. QED
        BY <4>1, Small
    <3>2. QED
      BY <3>1
  <2>3. q # Deleted
    BY <1>1 DEF Deleted
  <2>4. QED
    BY <1>1, <2>1, <2>2, <2>3 DEF TransformBy
<1> HIDE DEF next, r, n, m, l, k
<1>5. ASSUME r # Deleted, NEW i \in 1 .. n - l, next[i] > 0
      PROVE  i <= r <=> next[i] <= p
  <2>1. CASE i <= k
    <3>1. next[i] = origins[i] /\ i \in 1 .. n
      BY <1>1, <1>3, <2>1
    <3>2. i <= r <=> i <= q
      BY <1>1, <1>4, <1>5, <2>1
    <3>3. QED
      BY <1>1, <1>5, <3>1, <3>2
  <2>2. CASE k < i
    <3>1. next[i] = origins[i + l] /\ i + l \in 1 .. n
      BY <1>1, <1>3, <2>2
    <3>2. i <= r <=> i + l <= q
      BY <1>1, <1>4, <1>5, <2>2
    <3>3. QED
      BY <1>1, <1>5, <3>1, <3>2
  <2>3. QED
    BY <1>1, <2>1, <2>2
<1>6. r # Deleted => r \in 0 .. n - l
  BY <1>1, <1>4
<1>7. DOMAIN next = 1 .. n - l
  BY <1>2, <1>3
<1>8. r # Deleted => Divides(next, r, p)
  BY <1>3, <1>5, <1>6, <1>7 DEF Divides
<1>9. QED
  BY <1>2, <1>3, <1>8 DEF next, r, n, l

-------------------------------------------------------------------------------
(* Documents *)

Tracked(d) ==
    \A p \in 0 .. Len(d.committed) :
        Transform(d, p) # Deleted => Divides(OriginsOf(d), Transform(d, p), p)

\* A document as the core keeps it: a text that is short enough, and operations that have
\* moved every position to where it belongs.
Sound(d) ==
    /\ IsDocument(d)
    /\ d.committed \in Seq(Char) /\ d.ops \in Seq(Operation)
    /\ Working(d) \in Seq(Char) /\ Len(Working(d)) <= MaxLength
    /\ OriginsOf(d) \in Seq(Nat) /\ Len(OriginsOf(d)) = Len(Working(d))
    /\ Tracked(d)

\* A new version is sound.
LEMMA CommittedSound ==
  ASSUME NEW text \in Seq(Char), Len(text) <= MaxLength, NEW v
  PROVE  Sound([committed |-> text, ops |-> <<>>, version |-> v])
<1> DEFINE d == [committed |-> text, ops |-> <<>>, version |-> v]
           n == Len(text)
<1>1. d.ops = <<>> /\ d.committed = text /\ IsDocument(d) /\ d.ops \in Seq(Operation)
  BY DEF IsDocument
<1> HIDE DEF d
<1>2. Working(d) = text /\ \A p : Transform(d, p) = p
  BY <1>1, NothingPending
<1>3. OriginsOf(d) = [i \in 1 .. n |-> i] /\ n \in Nat
  BY <1>1, NothingPending
<1>4. OriginsOf(d) \in Seq(Nat) /\ Len(OriginsOf(d)) = n /\ DOMAIN OriginsOf(d) = 1 .. n
      /\ \A i \in 1 .. n : OriginsOf(d)[i] = i
  BY <1>3
<1>5. Tracked(d)
  BY <1>1, <1>2, <1>4 DEF Tracked, Divides
<1>6. Sound(d)
  BY <1>1, <1>2, <1>4, <1>5 DEF Sound
<1>7. QED
  BY <1>6 DEF d

\* The document after one more operation, and what it makes of the text.
With(d, op) == [d EXCEPT !.ops = Append(@, op)]

LEMMA WithFields ==
  ASSUME NEW d, IsDocument(d), NEW op
  PROVE  /\ IsDocument(With(d, op)) /\ With(d, op).committed = d.committed
         /\ With(d, op).version = d.version /\ With(d, op).ops = Append(d.ops, op)
<1> DEFINE ops == Append(d.ops, op)
<1>1. With(d, op) = [d EXCEPT !.ops = ops]
  BY DEF With
<1> HIDE DEF ops
<1>2. With(d, op) = [committed |-> d.committed, ops |-> ops, version |-> d.version]
  BY <1>1 DEF IsDocument
<1>3. QED
  BY <1>2 DEF IsDocument, ops

LEMMA WithSound ==
  ASSUME NoWrap, NEW d, Sound(d), NEW op \in Operation, Fits(op, Len(Working(d)))
  PROVE  Sound(With(d, op))
<1> DEFINE e == With(d, op)
           n == Len(Working(d))
<1>1. n \in Nat /\ n <= MaxLength /\ n < SizeModulus /\ MaxLength \in Nat /\ SizeModulus \in Nat
  BY BoundsAssumption, SizeAssumption DEF Sound, NoWrap
<1>2. /\ e.committed = d.committed /\ e.ops = Append(d.ops, op) /\ IsDocument(e)
      /\ e = [d EXCEPT !.ops = Append(@, op)]
  BY WithFields DEF Sound, With
<1>3. e.ops \in Seq(Operation)
  BY <1>2 DEF Sound
<1> HIDE DEF e
<1>4. /\ Working(e) = ApplyOp(Working(d), op)
      /\ \A p : Transform(e, p) = TransformBy(Transform(d, p), op)
      /\ OriginsOf(e) = ApplyOp(OriginsOf(d), Anonymous(op))
  BY <1>2, OneMorePending DEF Sound
<1>5. op.data \in Seq(Char)
  <2>1. <<>> \in Seq(Char)
    OBVIOUS
  <2>2. op.data \in Seq(Char) \/ op.data = <<>>
    BY DEF Operation
  <2>3. QED
    BY <2>1, <2>2
<1>6. Working(e) \in Seq(Char) /\ Len(Working(e)) = Grown(n, op)
  <2>1. PICK t \in Seq(Char) : t = Working(d)
    BY Zenon DEF Sound
  <2>2. Len(t) < SizeModulus /\ Fits(op, Len(t))
    BY <1>1, <2>1
  <2>3. ApplyOp(t, op) \in Seq(Char) /\ Len(ApplyOp(t, op)) = Grown(Len(t), op)
    BY <1>5, <2>2, Applied
  <2>4. QED
    BY <1>4, <2>1, <2>3, Zenon
<1>7. Grown(n, op) <= MaxLength
  BY <1>1 DEF Fits, Grown, Operation
<1>8. d.committed \in Seq(Char) /\ Len(d.committed) \in Nat
  BY DEF Sound
<1>9. ASSUME NEW p \in 0 .. Len(d.committed), Transform(d, p) # Deleted
      PROVE  Divides(OriginsOf(d), Transform(d, p), p)
  BY <1>9 DEF Sound, Tracked
<1>10. OriginsOf(e) \in Seq(Nat) /\ Len(OriginsOf(e)) = Grown(n, op)
  <2>1. OriginsOf(d) \in Seq(Nat) /\ Len(OriginsOf(d)) = n /\ Divides(OriginsOf(d), 0, 0)
    BY DEF Sound, Divides
  <2>2. CASE op.type = "insert"
    BY <1>1, <1>4, <2>1, <2>2, InsertMoves DEF Fits, Grown
  <2>3. CASE op.type = "delete"
    BY <1>1, <1>4, <2>1, <2>3, DeleteMoves DEF Fits, Grown
  <2>4. QED
    BY <2>2, <2>3 DEF Operation
<1>11. ASSUME NEW p \in 0 .. Len(d.committed), Transform(e, p) # Deleted
       PROVE  Divides(OriginsOf(e), Transform(e, p), p)
  <2> DEFINE q == Transform(d, p)
  <2>1. Transform(e, p) = TransformBy(q, op) /\ p \in Nat
    BY <1>4, <1>8
  <2>2. q # Deleted
    BY <1>11, <2>1 DEF TransformBy
  <2>3. Divides(OriginsOf(d), q, p) /\ OriginsOf(d) \in Seq(Nat) /\ Len(OriginsOf(d)) = n
    BY <1>9, <2>2 DEF Sound
  <2> HIDE DEF q
  <2>4. CASE op.type = "insert"
    BY <1>1, <1>4, <2>1, <2>3, <2>4, InsertMoves DEF Fits
  <2>5. CASE op.type = "delete"
    BY <1>1, <1>4, <1>11, <2>1, <2>3, <2>5, DeleteMoves DEF Fits
  <2>6. QED
    BY <2>4, <2>5 DEF Operation
<1>12. Tracked(e)
  BY <1>2, <1>11 DEF Tracked
<1>13. Sound(e)
  BY <1>2, <1>3, <1>6, <1>7, <1>8, <1>10, <1>12 DEF Sound
<1>14. QED
  BY <1>13 DEF e

\* e is d with operations enqueued one after the other, sound after each of them.
Extends(d, e) ==
    /\ Sound(e) /\ e.committed = d.committed /\ e.version = d.version
    /\ IsDocument(d) /\ Len(d.ops) \in Nat /\ Len(d.ops) <= Len(e.ops)
    /\ \A k \in Len(d.ops) .. Len(e.ops) : Sound([d EXCEPT !.ops = SubSeq(e.ops, 1, k)])

LEMMA ExtendsItself ==
  ASSUME NEW d, Sound(d)
  PROVE  Extends(d, d)
<1>1. IsDocument(d) /\ d.ops \in Seq(Operation) /\ Len(d.ops) \in Nat
  BY DEF Sound
<1>2. SubSeq(d.ops, 1, Len(d.ops)) = d.ops
  BY <1>1
<1>3. [d EXCEPT !.ops = d.ops] = d
  BY <1>1 DEF IsDocument
<1>4. QED
  BY <1>1, <1>2, <1>3 DEF Extends

LEMMA WithExtends ==
  ASSUME NoWrap, NEW d, NEW e, Extends(d, e), NEW op \in Operation, Fits(op, Len(Working(e)))
  PROVE  Extends(d, With(e, op))
<1> DEFINE f == With(e, op)
           n == Len(e.ops)
<1>1. /\ e.ops \in Seq(Operation) /\ n \in Nat /\ IsDocument(e) /\ IsDocument(d)
      /\ Len(d.ops) \in Nat /\ Len(d.ops) <= n /\ e.committed = d.committed
      /\ e.version = d.version
  BY DEF Extends, Sound
<1>2. /\ f.committed = d.committed /\ f.version = d.version /\ f.ops = Append(e.ops, op)
      /\ IsDocument(f)
  BY <1>1, WithFields
<1>3. Sound(f)
  BY WithSound DEF Extends
<1> HIDE DEF f
<1>4. Len(f.ops) = n + 1 /\ SubSeq(f.ops, 1, n + 1) = f.ops
      /\ \A k \in 0 .. n : SubSeq(f.ops, 1, k) = SubSeq(e.ops, 1, k)
  BY <1>1, <1>2
<1>5. [d EXCEPT !.ops = f.ops] = f
  BY <1>1, <1>2 DEF IsDocument
<1>6. ASSUME NEW k \in Len(d.ops) .. n + 1
      PROVE  Sound([d EXCEPT !.ops = SubSeq(f.ops, 1, k)])
  <2>1. CASE k = n + 1
    BY <1>3, <1>4, <1>5, <2>1
  <2>2. CASE k \in Len(d.ops) .. n
    <3>1. SubSeq(f.ops, 1, k) = SubSeq(e.ops, 1, k)
      BY <1>1, <1>4, <2>2
    <3>2. Sound([d EXCEPT !.ops = SubSeq(e.ops, 1, k)])
      BY <2>2 DEF Extends
    <3>3. QED
      BY <3>1, <3>2
  <2>3. QED
    BY <1>1, <2>1, <2>2
<1>7. Extends(d, f)
  BY <1>1, <1>2, <1>3, <1>4, <1>6 DEF Extends
<1>8. QED
  BY <1>7 DEF f

-------------------------------------------------------------------------------
(* The editing functions on a sound document: refused, and nothing has changed, or done *)

\* The call is a success and the document extends d, or it is refused and the document is
\* the one it was given.
Edits(d, call) ==
    IF call.result = "SUCCESS" THEN Len(Working(call.doc)) <= MaxLength => Extends(d, call.doc)
    ELSE call.doc = d

LEMMA InsertCases ==
  ASSUME NEW d, NEW v, v = d.version, NEW pos, NEW content
  PROVE  Insert(d, v, pos, content) = IF pos > Len(Working(d)) THEN Return(d, "INVALID_POSITION")
                                      ELSE Return(With(d, InsertOp(pos, content)), "SUCCESS")
BY DEF Insert, Then, Check, Return, Enqueue, With

\* The length that a deletion is cut to.
CutLength(d, pos, len) ==
    IF (pos + len) % SizeModulus > Len(Working(d)) THEN Len(Working(d)) - pos ELSE len

LEMMA DeleteCases ==
  ASSUME NEW d, NEW pos, NEW len
  PROVE  LET n == Len(Working(d))
             call == Delete(d, d.version, pos, len)
         IN /\ pos > n => call = Return(d, "INVALID_POSITION")
            /\ ~(pos > n) /\ len = 0 => call = Return(d, "SUCCESS")
            /\ ~(pos > n) /\ len # 0 =>
                 call = Return(With(d, DeleteOp(pos, CutLength(d, pos, len))), "SUCCESS")
<1> DEFINE n == Len(Working(d))
           first == Return(d, Check(d, d.version, pos))
<1>1. CASE pos > n
  <2>1. first = Return(d, "INVALID_POSITION") /\ first.result # "SUCCESS"
    BY <1>1 DEF Check, Return
  <2>2. QED
    BY <1>1, <2>1 DEF Delete, Then
<1>2. CASE ~(pos > n)
  <2>1. first.result = "SUCCESS" /\ first.doc = d
    BY <1>2 DEF Check, Return
  <2>2. Delete(d, d.version, pos, len) =
          CASE len = 0 -> Return(d, "SUCCESS")
            [] len # 0 /\ (pos + len) % SizeModulus > n -> Enqueue(d, DeleteOp(pos, n - pos))
            [] OTHER -> Enqueue(d, DeleteOp(pos, len))
    BY <2>1 DEF Delete, Then
  <2>3. QED
    BY <1>2, <2>2 DEF Enqueue, With, CutLength
<1>3. QED
  BY <1>1, <1>2

\* An insertion at a position of the text.
LEMMA InsertGrows ==
  ASSUME NEW d, Sound(d), NEW pos \in 0 .. Len(Working(d)), NEW content \in Seq(Char)
  PROVE  LET next == Working(With(d, InsertOp(pos, content))) IN
         /\ InsertOp(pos, content) \in Operation
         /\ next \in Seq(Char) /\ IsInsertion(next, Working(d), pos, content)
<1> DEFINE op == InsertOp(pos, content)
<1>1. op \in Operation /\ op.type = "insert" /\ op.pos = pos /\ op.data = content
  BY DEF InsertOp, Operation
<1>2. Working(With(d, op)) = ApplyOp(Working(d), op)
  BY <1>1, OneMorePending DEF With, Sound
<1> HIDE DEF op
<1>3. ApplyOp(Working(d), op) \in Seq(Char)
      /\ IsInsertion(ApplyOp(Working(d), op), Working(d), pos, content)
  BY <1>1, Inserted DEF Sound
<1>4. QED
  BY <1>1, <1>2, <1>3 DEF op

LEMMA InsertExtends ==
  ASSUME NoWrap, NEW d, NEW e, Extends(d, e), NEW pos \in 0 .. Len(Working(e)),
         NEW content \in Seq(Char), Len(Working(With(e, InsertOp(pos, content)))) <= MaxLength
  PROVE  Extends(d, With(e, InsertOp(pos, content)))
<1> DEFINE op == InsertOp(pos, content)
           n == Len(Working(e))
<1>1. Sound(e) /\ n \in Nat /\ Len(content) \in Nat
  BY DEF Extends, Sound
<1>2. op \in Operation /\ Len(Working(With(e, op))) = n + Len(content)
  BY <1>1, InsertGrows DEF IsInsertion
<1>3. Fits(op, n)
  BY <1>1, <1>2 DEF Fits, InsertOp
<1>4. QED
  BY <1>2, <1>3, WithExtends

\* Two insertions: the second is done if its position is in the text the first leaves.
LEMMA TwoInserts ==
  ASSUME NoWrap, NEW d, NEW e, Extends(d, e), NEW pos \in 0 .. Len(Working(e)),
         NEW content \in Seq(Char), NEW pos2 \in 0 .. Len(Working(e)) + Len(content),
         NEW content2 \in Seq(Char)
  PROVE  LET f == With(e, InsertOp(pos, content))
             g == With(f, InsertOp(pos2, content2))
         IN /\ f.version = e.version /\ f.ops \in Seq(Operation)
            /\ Insert(f, e.version, pos2, content2) = Return(g, "SUCCESS")
            /\ Len(Working(g)) <= MaxLength =>
                 Extends(d, g) /\ IsInsertion(Working(g), Working(f), pos2, content2)
<1> DEFINE op == InsertOp(pos, content)
           f == With(e, op)
           op2 == InsertOp(pos2, content2)
           g == With(f, op2)
           n == Len(Working(e))
<1>1. /\ Sound(e) /\ IsDocument(e) /\ n \in Nat /\ Len(content) \in Nat /\ Len(content2) \in Nat
      /\ e.ops \in Seq(Operation)
  BY DEF Extends, Sound
<1>2. /\ op \in Operation /\ Working(f) \in Seq(Char) /\ Len(Working(f)) = n + Len(content)
  BY <1>1, InsertGrows DEF IsInsertion
<1>3. f.version = e.version /\ f.ops \in Seq(Operation) /\ IsDocument(f)
  <2>1. f.version = e.version /\ f.ops = Append(e.ops, op) /\ IsDocument(f)
    BY <1>1, WithFields
  <2> HIDE DEF f, op
  <2>2. QED
    BY <1>1, <1>2, <2>1
<1>4. op2 \in Operation /\ op2.type = "insert" /\ op2.pos = pos2 /\ op2.data = content2
  BY <1>1 DEF InsertOp, Operation
<1> HIDE DEF f
<1>5. Insert(f, e.version, pos2, content2) = Return(g, "SUCCESS")
  <2>1. ~(pos2 > Len(Working(f)))
    BY <1>1, <1>2
  <2>2. QED
    BY <1>3, <2>1, InsertCases
<1>6. Len(Working(g)) = n + Len(content) + Len(content2)
  <2>1. Working(g) = ApplyOp(Working(f), op2)
    BY <1>3, <1>4, OneMorePending DEF With
  <2>2. pos2 \in 0 .. Len(Working(f))
    BY <1>1, <1>2
  <2>3. IsInsertion(ApplyOp(Working(f), op2), Working(f), pos2, content2)
    BY <1>2, <1>4, <2>2, Inserted
  <2>4. QED
    BY <1>2, <2>1, <2>3 DEF IsInsertion
<1>7. ASSUME Len(Working(g)) <= MaxLength
      PROVE  Extends(d, g) /\ IsInsertion(Working(g), Working(f), pos2, content2)
  <2>1. Len(Working(f)) <= MaxLength
    BY <1>1, <1>2, <1>6, <1>7, BoundsAssumption
  <2>2. Extends(d, f)
    BY <2>1, InsertExtends DEF f
  <2>3. Sound(f) /\ pos2 \in 0 .. Len(Working(f))
    BY <1>1, <1>2, <2>2 DEF Extends
  <2>4. QED
    BY <1>7, <2>2, <2>3, InsertExtends, InsertGrows
<1>8. QED
  BY <1>3, <1>5, <1>7 DEF f

LEMMA InsertEdits ==
  ASSUME NoWrap, NEW d, Sound(d), NEW pos \in Nat, NEW content \in Seq(Char)
  PROVE  Edits(d, Insert(d, d.version, pos, content))
<1>1. CASE pos > Len(Working(d))
  BY <1>1, InsertCases DEF Edits, Return
<1>2. CASE ~(pos > Len(Working(d)))
  <2>1. pos \in 0 .. Len(Working(d))
    BY <1>2 DEF Sound
  <2>2. Insert(d, d.version, pos, content) = Return(With(d, InsertOp(pos, content)), "SUCCESS")
    BY <1>2, InsertCases
  <2>3. Extends(d, d)
    BY ExtendsItself
  <2>4. QED
    BY <2>1, <2>2, <2>3, InsertExtends DEF Edits, Return
<1>3. QED
  BY <1>1, <1>2

LEMMA DeleteEdits ==
  ASSUME NoWrap, NEW d, Sound(d), NEW pos \in Nat, NEW len \in Nat, pos + len < SizeModulus
  PROVE  Edits(d, Delete(d, d.version, pos, len))
<1> DEFINE n == Len(Working(d))
           call == Delete(d, d.version, pos, len)
<1>1. n \in Nat
  BY DEF Sound
<1>2. CASE pos > n
  <2>1. call = Return(d, "INVALID_POSITION")
    BY <1>2, DeleteCases
  <2> HIDE DEF call
  <2>2. Edits(d, call)
    BY <2>1 DEF Edits, Return
  <2>3. QED
    BY <2>2 DEF call
<1>3. CASE ~(pos > n) /\ len = 0
  <2>1. call = Return(d, "SUCCESS")
    BY <1>3, DeleteCases
  <2> HIDE DEF call
  <2>2. Edits(d, call)
    BY <2>1, ExtendsItself DEF Edits, Return
  <2>3. QED
    BY <2>2 DEF call
<1>4. CASE ~(pos > n) /\ len # 0
  <2> DEFINE cut == CutLength(d, pos, len)
  <2>1. call = Return(With(d, DeleteOp(pos, cut)), "SUCCESS")
    BY <1>4, DeleteCases
  <2>2. (pos + len) % SizeModulus = pos + len
    BY Small
  <2>3. cut \in Nat /\ pos + cut <= n
    BY <1>1, <1>4, <2>2 DEF CutLength
  <2> HIDE DEF call, cut
  <2>4. DeleteOp(pos, cut) \in Operation
    BY <2>3 DEF DeleteOp, Operation
  <2>5. Fits(DeleteOp(pos, cut), n)
    BY <2>3 DEF DeleteOp, Fits
  <2>6. Extends(d, With(d, DeleteOp(pos, cut)))
    BY <2>4, <2>5, ExtendsItself, WithExtends
  <2>7. Edits(d, call)
    BY <2>1, <2>6 DEF Edits, Return
  <2>8. QED
    BY <2>7 DEF call
<1>5. QED
  BY <1>2, <1>3, <1>4

\* What the first step of NEWLINE and ORDERED_LIST leaves: the position is still in the text.
LEMMA SplitWordExtends ==
  ASSUME NoWrap, NEW d, Sound(d), NEW pos \in Nat
  PROVE  LET call == SplitWord(d, d.version, pos) IN
         /\ pos > Len(Working(d)) => call = Return(d, "INVALID_POSITION")
         /\ ~(pos > Len(Working(d))) =>
              call.result = "SUCCESS" /\ Extends(d, call.doc) /\ pos \in 0 .. Len(Working(call.doc))
<1> DEFINE n == Len(Working(d))
           call == SplitWord(d, d.version, pos)
           first == Return(d, Check(d, d.version, pos))
<1>1. n \in Nat /\ n <= MaxLength /\ MaxLength < SizeModulus /\ MaxLength \in Nat
      /\ SizeModulus \in Nat
  BY BoundsAssumption, SizeAssumption DEF Sound, NoWrap
<1>2. CASE pos > n
  <2>1. first = Return(d, "INVALID_POSITION") /\ first.result # "SUCCESS"
    BY <1>2 DEF Check, Return
  <2>2. QED
    BY <1>2, <2>1 DEF SplitWord, Then
<1>3. CASE ~(pos > n)
  <2>1. first.result = "SUCCESS" /\ first.doc = d
    BY <1>3 DEF Check, Return
  <2>2. call = IF BeforeSpace(d, pos) THEN Delete(d, d.version, pos, 1) ELSE Return(d, "SUCCESS")
    BY <2>1 DEF SplitWord, Then
  <2>3. CASE ~BeforeSpace(d, pos)
    <3>1. call = Return(d, "SUCCESS")
      BY <2>2, <2>3
    <3> HIDE DEF call
    <3>2. call.result = "SUCCESS" /\ call.doc = d
      BY <3>1 DEF Return
    <3>3. Extends(d, call.doc) /\ pos \in 0 .. Len(Working(call.doc))
      BY <1>1, <1>3, <3>2, ExtendsItself
    <3>4. QED
      BY <1>3, <3>2, <3>3 DEF call
  <2>4. CASE BeforeSpace(d, pos)
    <3>1. pos < n
      BY <2>4 DEF BeforeSpace
    <3>2. (pos + 1) % SizeModulus = pos + 1
      <4>1. pos + 1 \in Nat /\ pos + 1 < SizeModulus
        BY <1>1, <3>1
      <4>2. QED
        BY <4>1, Small
    <3>3. CutLength(d, pos, 1) = 1
      BY <1>1, <3>1, <3>2 DEF CutLength
    <3> DEFINE op == DeleteOp(pos, 1)
               e == With(d, op)
    <3>4. Delete(d, d.version, pos, 1) = Return(e, "SUCCESS")
      BY <1>3, <3>3, DeleteCases
    <3>5. op \in Operation /\ Fits(op, n) /\ op.data \in Seq(Char)
          /\ op.type = "delete" /\ op.len = 1
      <4>1. <<>> \in Seq(Char)
        OBVIOUS
      <4>2. QED
        BY <1>1, <3>1, <4>1 DEF DeleteOp, Operation, Fits
    <3>6. Extends(d, e)
      BY <3>5, ExtendsItself, WithExtends
    <3>7. Len(Working(e)) = n - 1
      <4>1. Working(e) = ApplyOp(Working(d), op)
        BY <3>5, OneMorePending DEF With, Sound
      <4>2. Grown(n, op) = n - 1
        BY <3>5 DEF Grown
      <4>3. Working(d) \in Seq(Char) /\ n < SizeModulus
        BY <1>1 DEF Sound
      <4> HIDE DEF op
      <4>4. Len(ApplyOp(Working(d), op)) = Grown(n, op)
        BY <3>5, <4>3, Applied
      <4>5. QED
        BY <4>1, <4>2, <4>4
    <3>8. call = Return(e, "SUCCESS")
      BY <2>2, <2>4, <3>4
    <3> HIDE DEF call, e
    <3>9. call.result = "SUCCESS" /\ call.doc = e
      BY <3>8 DEF Return
    <3>10. Extends(d, call.doc) /\ pos \in 0 .. Len(Working(call.doc))
      BY <1>1, <3>1, <3>6, <3>7, <3>9
    <3>11. QED
      BY <1>3, <3>9, <3>10 DEF call
  <2>5. QED
    BY <2>3, <2>4
<1>4. QED
  BY <1>2, <1>3

LEMMA LineFeedText == <<LineFeed>> \in Seq(Char) /\ Len(<<LineFeed>>) = 1
<1>1. LineFeed \in Char
  BY DEF Char
<1>2. QED
  BY <1>1

LEMMA NewlineEdits ==
  ASSUME NoWrap, NEW d, Sound(d), NEW pos \in Nat
  PROVE  Edits(d, Newline(d, d.version, pos))
<1> DEFINE first == SplitWord(d, d.version, pos)
           call == Newline(d, d.version, pos)
<1>1. CASE pos > Len(Working(d))
  <2>1. first = Return(d, "INVALID_POSITION")
    BY <1>1, SplitWordExtends
  <2>2. first.result # "SUCCESS" /\ first.doc = d
    BY <2>1 DEF Return
  <2>3. call = first
    BY <2>2 DEF Newline, Then
  <2> HIDE DEF call, first
  <2>4. Edits(d, call)
    BY <2>2, <2>3 DEF Edits
  <2>5. QED
    BY <2>4 DEF call
<1>2. CASE ~(pos > Len(Working(d)))
  <2> DEFINE e == first.doc
             f == With(e, InsertOp(pos, <<LineFeed>>))
  <2>1. first.result = "SUCCESS" /\ Extends(d, e) /\ pos \in 0 .. Len(Working(e))
    BY <1>2, SplitWordExtends
  <2>2. call = Insert(e, d.version, pos, <<LineFeed>>)
    BY <2>1 DEF Newline, Then
  <2> HIDE DEF first, call
  <2>3. e.version = d.version /\ ~(pos > Len(Working(e)))
    BY <2>1 DEF Extends, Sound
  <2>4. call = Return(f, "SUCCESS")
    BY <2>2, <2>3, InsertCases
  <2>5. Len(Working(f)) <= MaxLength => Extends(d, f)
    BY <2>1, InsertExtends, LineFeedText
  <2>6. Edits(d, call)
    BY <2>4, <2>5 DEF Edits, Return
  <2>7. QED
    BY <2>6 DEF call
<1>3. QED
  BY <1>1, <1>2

\* A tag that could be inserted begins a line.
BeginsLine(d) == LineStart(Working(d), Last(d.ops).pos + 1)

LEMMA BlockExtends ==
  ASSUME NoWrap, NEW d, NEW e, Extends(d, e), NEW pos \in Nat, NEW tag \in Seq(Char)
  PROVE  LET call == Block(e, e.version, pos, tag) IN
         /\ pos > Len(Working(e)) => call = Return(e, "INVALID_POSITION")
         /\ ~(pos > Len(Working(e))) =>
              /\ call.result = "SUCCESS"
              /\ Len(Working(call.doc)) <= MaxLength => Extends(d, call.doc) /\ BeginsLine(call.doc)
<1> DEFINE n == Len(Working(e))
           call == Block(e, e.version, pos, tag)
           first == Return(e, Check(e, e.version, pos))
<1>1. n \in Nat /\ Sound(e) /\ e.ops \in Seq(Operation) /\ IsDocument(e) /\ Len(tag) \in Nat
  BY DEF Extends, Sound
<1>2. CASE pos > n
  <2>1. first = Return(e, "INVALID_POSITION") /\ first.result # "SUCCESS"
    BY <1>2 DEF Check, Return
  <2>2. QED
    BY <1>2, <2>1 DEF Block, Then
<1>3. CASE ~(pos > n)
  <2>1. first.result = "SUCCESS" /\ first.doc = e
    BY <1>3 DEF Check, Return
  <2>2. call = IF pos > 0 /\ Working(e)[pos] # LineFeed
                 THEN Then(Insert(e, e.version, pos, <<LineFeed>>),
                           LAMBDA x : Insert(x, e.version, pos + 1, tag))
                 ELSE Insert(e, e.version, pos, tag)
    BY <2>1 DEF Block, Then
  <2>3. pos \in 0 .. n
    BY <1>1, <1>3
  <2>4. CASE pos > 0 /\ Working(e)[pos] # LineFeed
    <3> DEFINE line == <<LineFeed>>
               f == With(e, InsertOp(pos, line))
               op == InsertOp(pos + 1, tag)
               g == With(f, op)
    <3>1. Insert(e, e.version, pos, <<LineFeed>>) = Return(f, "SUCCESS")
      BY <1>3, InsertCases
    <3>2. call = Insert(f, e.version, pos + 1, tag)
      BY <2>2, <2>4, <3>1 DEF Then, Return
    <3>3. line \in Seq(Char) /\ pos + 1 \in 0 .. n + Len(line)
      BY <1>1, <2>3, LineFeedText
    <3> HIDE DEF line
    <3>4. /\ Insert(f, e.version, pos + 1, tag) = Return(g, "SUCCESS") /\ f.ops \in Seq(Operation)
          /\ Len(Working(g)) <= MaxLength =>
               Extends(d, g) /\ IsInsertion(Working(g), Working(f), pos + 1, tag)
      BY <2>3, <3>3, TwoInserts
    <3>5. IsInsertion(Working(f), Working(e), pos, line)
      BY <1>1, <2>3, <3>3, InsertGrows
    <3>6. g.ops = Append(f.ops, op)
      <4>1. IsDocument(f)
        BY <1>1, WithFields
      <4> HIDE DEF f
      <4>2. QED
        BY <4>1, WithFields
    <3>7. Last(g.ops).pos = pos + 1
      <4>1. op.pos = pos + 1
        BY DEF InsertOp
      <4> HIDE DEF f, op
      <4>2. Last(Append(f.ops, op)) = op
        BY <3>4 DEF Last
      <4> HIDE DEF g
      <4>3. QED
        BY <3>6, <4>1, <4>2
    <3> HIDE DEF call, f, g
    <3>8. call.result = "SUCCESS" /\ call.doc = g
      BY <3>2, <3>4 DEF Return
    <3>9. Working(f)[pos + 1] = LineFeed /\ Len(Working(f)) = n + 1
      <4>1. Len(Working(f)) = n + 1
        BY <3>5, LineFeedText DEF IsInsertion, line
      <4>2. pos + 1 \in 1 .. n + 1 /\ ~(pos + 1 <= pos) /\ pos + 1 <= pos + 1 /\ (pos + 1) - pos = 1
        BY <1>1, <2>3
      <4>3. Working(f)[pos + 1] = <<LineFeed>>[1]
        BY <3>5, <4>2, LineFeedText DEF IsInsertion, line
      <4>4. QED
        BY <4>1, <4>3
    <3>10. ASSUME Len(Working(g)) <= MaxLength
           PROVE  BeginsLine(g)
      <4>1. Working(g)[pos + 1] = Working(f)[pos + 1]
        <5>1. pos + 1 \in 1 .. Len(Working(f)) + Len(tag) /\ pos + 1 <= pos + 1
          BY <1>1, <2>3, <3>9
        <5>2. QED
          BY <3>4, <3>10, <5>1 DEF IsInsertion
      <4>2. (pos + 1) + 1 - 1 = pos + 1
        BY <2>3
      <4>3. QED
        BY <3>7, <3>9, <4>1, <4>2 DEF BeginsLine, LineStart
    <3>11. /\ call.result = "SUCCESS"
           /\ Len(Working(call.doc)) <= MaxLength => Extends(d, call.doc) /\ BeginsLine(call.doc)
      BY <3>4, <3>8, <3>10
    <3>12. QED
      BY <1>3, <3>11 DEF call
  <2>5. CASE ~(pos > 0 /\ Working(e)[pos] # LineFeed)
    <3> DEFINE op == InsertOp(pos, tag)
               f == With(e, op)
    <3>1. call = Return(f, "SUCCESS")
      BY <1>3, <2>2, <2>5, InsertCases
    <3>2. f.ops = Append(e.ops, op)
      BY <1>1, WithFields
    <3>3. Last(f.ops).pos = pos
      <4>1. op.pos = pos
        BY DEF InsertOp
      <4> HIDE DEF op
      <4>2. Last(Append(e.ops, op)) = op
        BY <1>1 DEF Last
      <4> HIDE DEF f
      <4>3. QED
        BY <3>2, <4>1, <4>2
    <3>4. Len(Working(f)) <= MaxLength => Extends(d, f)
      BY <2>3, InsertExtends
    <3>5. IsInsertion(Working(f), Working(e), pos, tag)
      BY <1>1, <2>3, InsertGrows
    <3> HIDE DEF call, f
    <3>6. call.result = "SUCCESS" /\ call.doc = f
      BY <3>1 DEF Return
    <3>7. BeginsLine(f)
      <4>1. CASE pos = 0
        BY <3>3, <4>1 DEF BeginsLine, LineStart
      <4>2. CASE pos > 0
        <5>1. pos \in 1 .. n + Len(tag) /\ pos <= pos
          BY <1>1, <2>3, <4>2
        <5>2. Working(f)[pos] = Working(e)[pos]
          BY <3>5, <5>1 DEF IsInsertion
        <5>3. (pos + 1) - 1 = pos
          BY <2>3
        <5>4. QED
          BY <2>5, <3>3, <4>2, <5>2, <5>3 DEF BeginsLine, LineStart
      <4>3. QED
        BY <2>3, <4>1, <4>2
    <3>8. /\ call.result = "SUCCESS"
          /\ Len(Working(call.doc)) <= MaxLength => Extends(d, call.doc) /\ BeginsLine(call.doc)
      BY <3>4, <3>6, <3>7
    <3>9. QED
      BY <1>3, <3>8 DEF call
  <2>6. QED
    BY <2>4, <2>5
<1>4. QED
  BY <1>2, <1>3

\* A call that puts a tag before a block.
PutsTag(d, call) ==
    /\ Edits(d, call)
    /\ call.result = "SUCCESS" /\ Len(Working(call.doc)) <= MaxLength => BeginsLine(call.doc)

LEMMA BlockEdits ==
  ASSUME NoWrap, NEW d, Sound(d), NEW pos \in Nat, NEW tag \in Seq(Char)
  PROVE  PutsTag(d, Block(d, d.version, pos, tag))
<1> DEFINE call == Block(d, d.version, pos, tag)
<1>1. CASE pos > Len(Working(d))
  <2>1. call = Return(d, "INVALID_POSITION")
    BY <1>1, ExtendsItself, BlockExtends
  <2> HIDE DEF call
  <2>2. PutsTag(d, call)
    BY <2>1 DEF PutsTag, Edits, Return
  <2>3. QED
    BY <2>2 DEF call
<1>2. CASE ~(pos > Len(Working(d)))
  <2>1. /\ call.result = "SUCCESS"
        /\ Len(Working(call.doc)) <= MaxLength => Extends(d, call.doc) /\ BeginsLine(call.doc)
    BY <1>2, ExtendsItself, BlockExtends
  <2> HIDE DEF call
  <2>2. PutsTag(d, call)
    BY <2>1 DEF PutsTag, Edits
  <2>3. QED
    BY <2>2 DEF call
<1>3. QED
  BY <1>1, <1>2

LEMMA ShortTexts ==
  ASSUME NEW X, NEW a \in X, NEW b \in X, NEW c \in X, NEW e \in X
  PROVE  /\ <<a>> \in Seq(X) /\ <<a, b>> \in Seq(X) /\ <<a, b, c>> \in Seq(X)
         /\ <<a, b, c, e>> \in Seq(X)
OBVIOUS

LEMMA HeadingEdits ==
  ASSUME NoWrap, NEW d, Sound(d), NEW level \in Nat, NEW pos \in Nat
  PROVE  PutsTag(d, Heading(d, d.version, level, pos))
<1> DEFINE tag == [i \in 1 .. level + 1 |-> IF i <= level THEN "#" ELSE " "]
           call == Heading(d, d.version, level, pos)
<1>1. CASE level \in 1 .. 3
  <2>1. tag \in Seq(Char)
    <3>1. "#" \in Char /\ " " \in Char
      BY DEF Char
    <3>2. \A i \in 1 .. level + 1 : tag[i] \in Char
      BY <3>1
    <3>3. level + 1 \in Nat /\ tag = [i \in 1 .. level + 1 |-> tag[i]]
      OBVIOUS
    <3> HIDE DEF tag
    <3>4. QED
      BY <3>2, <3>3
  <2>2. call = Block(d, d.version, pos, tag)
    BY <1>1 DEF Heading
  <2> HIDE DEF tag
  <2>3. QED
    BY <2>1, <2>2, BlockEdits
<1>2. CASE level \notin 1 .. 3
  <2>1. call = Return(d, "INVALID_POSITION")
    BY <1>2 DEF Heading
  <2> HIDE DEF call
  <2>2. PutsTag(d, call)
    BY <2>1 DEF PutsTag, Edits, Return
  <2>3. QED
    BY <2>2 DEF call
<1>3. QED
  BY <1>1, <1>2

LEMMA OrderedListEdits ==
  ASSUME NoWrap, NEW d, Sound(d), NEW pos \in Nat
  PROVE  PutsTag(d, OrderedList(d, d.version, pos))
<1> DEFINE first == SplitWord(d, d.version, pos)
           call == OrderedList(d, d.version, pos)
           tag == <<"1", ".", " ">>
<1>0. tag \in Seq(Char)
  <2>1. "." \in Char /\ " " \in Char
    BY DEF Char
  <2>2. Digits[1] = "1" /\ 1 \in DOMAIN Digits
    BY DEF Digits
  <2>3. "1" \in Char
    BY <2>2 DEF Char
  <2>4. QED
    BY <2>1, <2>3, ShortTexts, Zenon
<1> HIDE DEF tag
<1>1. CASE pos > Len(Working(d))
  <2>1. first = Return(d, "INVALID_POSITION")
    BY <1>1, SplitWordExtends
  <2>2. first.result # "SUCCESS" /\ first.doc = d
    BY <2>1 DEF Return
  <2>3. call = first
    BY <2>2 DEF OrderedList, Then
  <2> HIDE DEF call, first
  <2>4. PutsTag(d, call)
    BY <2>2, <2>3 DEF PutsTag, Edits
  <2>5. QED
    BY <2>4 DEF call
<1>2. CASE ~(pos > Len(Working(d)))
  <2> DEFINE e == first.doc
  <2>1. first.result = "SUCCESS" /\ Extends(d, e) /\ pos \in 0 .. Len(Working(e))
    BY <1>2, SplitWordExtends
  <2>2. call = Block(e, d.version, pos, tag)
    BY <2>1 DEF OrderedList, Then, tag
  <2> HIDE DEF first, call
  <2>3. e.version = d.version /\ ~(pos > Len(Working(e)))
    BY <2>1 DEF Extends, Sound
  <2>4. call = Block(e, e.version, pos, tag)
    BY <2>2, <2>3
  <2>5. /\ call.result = "SUCCESS"
        /\ Len(Working(call.doc)) <= MaxLength => Extends(d, call.doc) /\ BeginsLine(call.doc)
    BY <1>0, <2>1, <2>3, <2>4, BlockExtends
  <2>6. PutsTag(d, call)
    BY <2>5 DEF PutsTag, Edits
  <2>7. QED
    BY <2>6 DEF call
<1>3. QED
  BY <1>1, <1>2

\* The two operations that e has more than d are marks around a span.
Encloses(d, e, start, end) ==
    /\ Divides(OriginsOf(d), e.ops[Len(d.ops) + 2].pos, start)
    /\ Divides(OriginsOf(d), e.ops[Len(d.ops) + 1].pos, end)

PutsMarks(d, call, start, end) ==
    /\ Edits(d, call)
    /\ call.result = "SUCCESS" => Encloses(d, call.doc, start, end)

LEMMA SurroundEdits ==
  ASSUME NoWrap, NEW d, Sound(d), NEW start \in Nat, NEW end \in Nat,
         NEW opening \in Seq(Char), NEW closing \in Seq(Char)
  PROVE  PutsMarks(d, Surround(d, d.version, start, end, opening, closing), start, end)
<1> DEFINE from == Transform(d, start)
           to == Transform(d, end)
           n == Len(Working(d))
           call == Surround(d, d.version, start, end, opening, closing)
           wrong == start >= end \/ end > Len(d.committed)
<1>1. n \in Nat /\ d.ops \in Seq(Operation) /\ Len(d.committed) \in Nat /\ IsDocument(d)
      /\ Len(closing) \in Nat
  BY DEF Sound
<1>2. CASE wrong \/ from = Deleted \/ to = Deleted
  <2>1. call = Return(d, "INVALID_POSITION") \/ call = Return(d, "DELETED_POSITION")
    BY <1>1, <1>2 DEF Surround
  <2> HIDE DEF call
  <2>2. PutsMarks(d, call, start, end)
    BY <2>1 DEF PutsMarks, Edits, Return
  <2>3. QED
    BY <2>2 DEF call
<1>3. CASE ~wrong /\ from # Deleted /\ to # Deleted
  <2>1. start \in 0 .. Len(d.committed) /\ end \in 0 .. Len(d.committed)
    BY <1>1, <1>3
  <2>2. Divides(OriginsOf(d), from, start) /\ Divides(OriginsOf(d), to, end)
    BY <1>3, <2>1 DEF Sound, Tracked
  <2>3. from \in 0 .. n /\ to \in 0 .. n
    BY <2>2 DEF Divides, Sound
  <2> DEFINE op == InsertOp(to, closing)
             f == With(d, op)
             op2 == InsertOp(from, opening)
             g == With(f, op2)
  <2>4. call = Then(Insert(d, d.version, to, closing),
                    LAMBDA e : Insert(e, d.version, from, opening))
    BY <1>1, <1>3 DEF Surround
  <2> HIDE DEF from, to, n
  <2>5. Insert(d, d.version, to, closing) = Return(f, "SUCCESS")
    <3>1. ~(to > Len(Working(d)))
      BY <1>1, <2>3 DEF n
    <3>2. QED
      BY <3>1, InsertCases
  <2>6. call = Insert(f, d.version, from, opening)
    BY <2>4, <2>5 DEF Then, Return
  <2>7. /\ Insert(f, d.version, from, opening) = Return(g, "SUCCESS") /\ f.ops \in Seq(Operation)
        /\ Len(Working(g)) <= MaxLength => Extends(d, g)
    <3>1. from \in 0 .. Len(Working(d)) + Len(closing) /\ to \in 0 .. Len(Working(d))
      BY <1>1, <2>3 DEF n
    <3>2. QED
      BY <3>1, ExtendsItself, TwoInserts
  <2>8. g.ops = Append(Append(d.ops, op), op2)
    <3>1. IsDocument(f) /\ f.ops = Append(d.ops, op)
      BY <1>1, WithFields
    <3> HIDE DEF f
    <3>2. QED
      BY <3>1, WithFields
  <2>9. op.pos = to /\ op2.pos = from
    BY DEF InsertOp
  <2> HIDE DEF op, op2
  <2>10. g.ops[Len(d.ops) + 1] = op /\ g.ops[Len(d.ops) + 2] = op2
    <3>1. d.ops \in Seq(Operation \cup {op, op2})
      BY <1>1
    <3> HIDE DEF g
    <3>2. QED
      BY <2>8, <3>1
  <2> HIDE DEF call, f, g
  <2>11. call.result = "SUCCESS" /\ call.doc = g
    BY <2>6, <2>7 DEF Return
  <2>12. Encloses(d, g, start, end)
    BY <2>2, <2>9, <2>10 DEF Encloses
  <2>13. PutsMarks(d, call, start, end)
    BY <2>7, <2>11, <2>12 DEF PutsMarks, Edits
  <2>14. QED
    BY <2>13 DEF call
<1>4. QED
  BY <1>2, <1>3

-------------------------------------------------------------------------------
(* Commands on a sound document *)

Executes(d, command, call) ==
    /\ Edits(d, call)
    /\ call.result = "SUCCESS" /\ Len(Working(call.doc)) <= MaxLength =>
         /\ command.name \in DOMAIN Marks => Encloses(d, call.doc, command.start, command.end)
         /\ command.name \in DOMAIN Tags \cup {"HEADING", "ORDERED_LIST"} => BeginsLine(call.doc)

LEMMA MarkTexts ==
  ASSUME NEW name \in DOMAIN Marks
  PROVE  Marks[name].opening \in Seq(Char) /\ Marks[name].closing \in Seq(Char)
<1>1. /\ "*" \in Char /\ "tick" \in Char /\ "[" \in Char /\ "]" \in Char /\ "(" \in Char
      /\ "u" \in Char /\ ")" \in Char
  BY DEF Char
<1>2. /\ <<"*">> \in Seq(Char) /\ <<"*", "*">> \in Seq(Char) /\ <<"tick">> \in Seq(Char)
      /\ <<"[">> \in Seq(Char) /\ <<"]", "(", "u", ")">> \in Seq(Char)
  BY <1>1, ShortTexts, Zenon
<1>3. /\ Marks["BOLD"].opening = <<"*", "*">> /\ Marks["BOLD"].closing = <<"*", "*">>
      /\ Marks["ITALIC"].opening = <<"*">> /\ Marks["ITALIC"].closing = <<"*">>
      /\ Marks["CODE"].opening = <<"tick">> /\ Marks["CODE"].closing = <<"tick">>
      /\ Marks["LINK"].opening = <<"[">> /\ Marks["LINK"].closing = <<"]", "(", "u", ")">>
  BY DEF Marks
<1>4. name \in {"BOLD", "ITALIC", "CODE", "LINK"}
  BY DEF Marks
<1>5. QED
  BY <1>2, <1>3, <1>4, Zenon

LEMMA TagTexts ==
  ASSUME NEW name \in DOMAIN Tags
  PROVE  Tags[name] \in Seq(Char)
<1>1. ">" \in Char /\ " " \in Char /\ "-" \in Char /\ LineFeed \in Char
  BY DEF Char
<1>2. /\ <<">", " ">> \in Seq(Char) /\ <<"-", " ">> \in Seq(Char)
      /\ <<"-", "-", "-", LineFeed>> \in Seq(Char)
  BY <1>1, ShortTexts, Zenon
<1>3. /\ Tags["BLOCKQUOTE"] = <<">", " ">> /\ Tags["UNORDERED_LIST"] = <<"-", " ">>
      /\ Tags["HORIZONTAL_RULE"] = <<"-", "-", "-", LineFeed>>
  BY DEF Tags
<1>4. name \in {"BLOCKQUOTE", "UNORDERED_LIST", "HORIZONTAL_RULE"}
  BY DEF Tags
<1>5. QED
  BY <1>2, <1>3, <1>4, Zenon

\* The arguments of a command.
LEMMA Arguments ==
  ASSUME NEW command \in Commands
  PROVE  /\ command.name = "INSERT" => command.pos \in Nat /\ command.content \in Seq(Char)
         /\ command.name = "DEL" => command.pos \in Nat /\ command.len \in Nat
         /\ command.name \in {"NEWLINE", "ORDERED_LIST"} \cup DOMAIN Tags => command.pos \in Nat
         /\ command.name = "HEADING" => command.pos \in Nat /\ command.level \in Nat
         /\ command.name \in DOMAIN Marks => command.start \in Nat /\ command.end \in Nat
<1>1. /\ DOMAIN Marks = {"BOLD", "ITALIC", "CODE", "LINK"}
      /\ DOMAIN Tags = {"BLOCKQUOTE", "UNORDERED_LIST", "HORIZONTAL_RULE"}
  BY DEF Marks, Tags
<1>2. command \in Command
  BY CommandsAssumption
<1>3. Seq(STRING) \subseteq Seq(Char)
  <2>1. STRING \subseteq Char
    BY DEF Char
  <2>2. QED
    BY <2>1, SeqMonotonic
<1>4. command.name = "INSERT" => command.pos \in Nat /\ command.content \in Seq(STRING)
  BY <1>1, <1>2 DEF Command
<1>5. command.name = "DEL" => command.pos \in Nat /\ command.len \in Nat
  BY <1>1, <1>2 DEF Command
<1>6. command.name \in {"NEWLINE", "ORDERED_LIST"} \cup DOMAIN Tags => command.pos \in Nat
  BY <1>1, <1>2 DEF Command
<1>7. command.name = "HEADING" => command.pos \in Nat /\ command.level \in Nat
  BY <1>1, <1>2 DEF Command
<1>8. command.name \in DOMAIN Marks => command.start \in Nat /\ command.end \in Nat
  BY <1>1, <1>2 DEF Command
<1>9. QED
  BY <1>3, <1>4, <1>5, <1>6, <1>7, <1>8

LEMMA ExecuteEdits ==
  ASSUME NoWrap, NEW d, Sound(d), NEW role, NEW command \in Commands
  PROVE  Executes(d, command, Execute(d, d.version, role, command))
<1> DEFINE call == Execute(d, d.version, role, command)
           text == {"INSERT", "DEL", "NEWLINE", "HEADING"}
           spans == DOMAIN Marks
           blocks == DOMAIN Tags \cup {"ORDERED_LIST"}
<1>1. /\ spans = {"BOLD", "ITALIC", "CODE", "LINK"}
      /\ DOMAIN Tags = {"BLOCKQUOTE", "UNORDERED_LIST", "HORIZONTAL_RULE"}
  BY DEF Marks, Tags
<1>2. command.name \in {"UNKNOWN", "MALFORMED"} \cup text \cup spans \cup blocks
  BY <1>1, CommandsAssumption DEF Command
<1>3. CASE command.name = "UNKNOWN" \/ role # "write" \/ command.name = "MALFORMED"
  <2>1. call = Return(d, "INVALID_COMMAND") \/ call = Return(d, "UNAUTHORISED")
    BY <1>1, <1>3 DEF Execute
  <2> HIDE DEF call
  <2>2. call.doc = d /\ call.result # "SUCCESS"
    BY <2>1 DEF Return
  <2>3. Executes(d, command, call)
    BY <2>2 DEF Executes, Edits
  <2>4. QED
    BY <2>3 DEF call
<1>4. CASE role = "write" /\ command.name \in text
  <2>1. call = ExecuteText(d, d.version, command)
    BY <1>1, <1>4 DEF Execute
  <2>2. command.name = "INSERT" => Edits(d, call)
    BY <2>1, InsertEdits, Arguments DEF ExecuteText
  <2>3. command.name = "DEL" => Edits(d, call)
    BY <2>1, DeleteEdits, Arguments DEF ExecuteText, NoWrap
  <2>4. command.name = "NEWLINE" => Edits(d, call)
    BY <2>1, NewlineEdits, Arguments DEF ExecuteText
  <2>5. command.name = "HEADING" => PutsTag(d, call)
    BY <2>1, HeadingEdits, Arguments DEF ExecuteText
  <2> HIDE DEF call
  <2>6. Edits(d, call)
    BY <1>4, <2>2, <2>3, <2>4, <2>5 DEF PutsTag
  <2>7. command.name \notin spans /\ (command.name \in blocks \cup {"HEADING"} => PutsTag(d, call))
    BY <1>1, <1>4, <2>5
  <2>8. Executes(d, command, call)
    BY <2>6, <2>7 DEF Executes, PutsTag
  <2>9. QED
    BY <2>8 DEF call
<1>5. CASE role = "write" /\ command.name \in spans \cup blocks
  <2>1. call = ExecuteMarkup(d, d.version, command)
    BY <1>1, <1>5 DEF Execute
  <2>2. ASSUME command.name \in spans
        PROVE  PutsMarks(d, call, command.start, command.end)
    <3>1. call = Surround(d, d.version, command.start, command.end,
                          Marks[command.name].opening, Marks[command.name].closing)
      BY <1>1, <2>1, <2>2 DEF ExecuteMarkup
    <3> HIDE DEF call
    <3>2. QED
      BY <2>2, <3>1, SurroundEdits, Arguments, MarkTexts
  <2>3. ASSUME command.name \in DOMAIN Tags
        PROVE  PutsTag(d, call)
    <3>1. call = Block(d, d.version, command.pos, Tags[command.name])
      BY <1>1, <2>1, <2>3 DEF ExecuteMarkup
    <3> HIDE DEF call
    <3>2. QED
      BY <2>3, <3>1, BlockEdits, Arguments, TagTexts
  <2>4. ASSUME command.name = "ORDERED_LIST"
        PROVE  PutsTag(d, call)
    <3>1. call = OrderedList(d, d.version, command.pos)
      BY <1>1, <2>1, <2>4 DEF ExecuteMarkup
    <3> HIDE DEF call
    <3>2. QED
      BY <2>4, <3>1, OrderedListEdits, Arguments
  <2> HIDE DEF call
  <2>5. Edits(d, call)
    BY <1>5, <2>2, <2>3, <2>4 DEF PutsMarks, PutsTag
  <2>6. command.name # "HEADING" /\ (command.name \in blocks => command.name \notin spans)
    BY <1>1, <1>5
  <2>7. Executes(d, command, call)
    BY <1>5, <2>2, <2>3, <2>4, <2>5, <2>6 DEF Executes, PutsMarks, PutsTag
  <2>8. QED
    BY <2>7 DEF call
<1>6. QED
  BY <1>2, <1>3, <1>4, <1>5

-------------------------------------------------------------------------------
(* Sound documents stay sound *)

\* A committed text is as long as the working text and has characters of the same kind.
LEMMA RenumberType ==
  ASSUME NEW text \in Seq(Char)
  PROVE  Renumber(text) \in Seq(Char) /\ Len(Renumber(text)) = Len(text)
<1>1. Renumber(text) = Numbered(text)
  BY RenumberingCorrect
<1>2. Len(text) \in Nat /\ DOMAIN text = 1 .. Len(text)
  OBVIOUS
<1>3. ASSUME NEW i \in 1 .. Len(text), LineStart(text, i), IsItem(text, i)
      PROVE  Digits[ItemNumber(text, i)] \in Char
  <2>1. i - 1 \in Nat /\ (i - 1) + 1 = i
    OBVIOUS
  <2>2. BlockUpTo(text, i) = BlockUpTo(text, i - 1) \cup {i}
    BY <1>3, <2>1, BlockStep
  <2>3. IsFiniteSet(BlockUpTo(text, i))
    BY BlockStep
  <2>4. Cardinality(BlockUpTo(text, i)) \in Nat /\ Cardinality(BlockUpTo(text, i)) # 0
    BY <2>2, <2>3, FS_CardinalityType, FS_EmptySet
  <2>5. ItemNumber(text, i) \in 1 .. 9
    BY <2>4, MaxItemAssumption DEF ItemNumber
  <2>6. DOMAIN Digits = 1 .. 9
    BY DEF Digits
  <2>7. QED
    BY <2>5, <2>6 DEF Char
<1>4. \A i \in 1 .. Len(text) : Numbered(text)[i] \in Char
  BY <1>2, <1>3 DEF Numbered
<1>5. Numbered(text) = [i \in 1 .. Len(text) |-> Numbered(text)[i]]
  BY <1>2 DEF Numbered
<1>6. QED
  BY <1>1, <1>2, <1>4, <1>5

LEMMA IncrementSound ==
  ASSUME NEW d, Sound(d)
  PROVE  Sound(IncrementVersion(d))
<1>1. Renumber(Working(d)) \in Seq(Char) /\ Len(Renumber(Working(d))) <= MaxLength
  BY RenumberType DEF Sound
<1>2. QED
  BY <1>1, CommittedSound DEF IncrementVersion

\* A call that runs out of memory leaves nothing, or the first operations that it was to
\* enqueue.
LEMMA OutOfMemoryCuts ==
  ASSUME NEW done, Len(doc.ops) \in Nat, Len(done.doc.ops) \in Nat,
         Len(doc.ops) <= Len(done.doc.ops), NEW call \in OutOfMemory(done)
  PROVE  /\ call.result # "SUCCESS"
         /\ \/ call.doc = doc
            \/ \E k \in Len(doc.ops) .. Len(done.doc.ops) :
                 call.doc = [doc EXCEPT !.ops = SubSeq(done.doc.ops, 1, k)]
<1> DEFINE enqueued == Len(done.doc.ops) - Len(doc.ops)
           last == IF enqueued = 0 THEN 0 ELSE enqueued - 1
<1>1. CASE call = Return(doc, "INVALID_COMMAND")
  BY <1>1, Zenon DEF Return
<1>2. ASSUME NEW n \in 0 .. last,
             call = Return([doc EXCEPT !.ops = SubSeq(done.doc.ops, 1, Len(doc.ops) + n)],
                           "INVALID_POSITION")
      PROVE  /\ call.result # "SUCCESS"
             /\ \E k \in Len(doc.ops) .. Len(done.doc.ops) :
                  call.doc = [doc EXCEPT !.ops = SubSeq(done.doc.ops, 1, k)]
  <2>1. ASSUME NEW k \in Nat, NEW l \in Nat, k <= l,
               NEW m \in 0 .. (IF l - k = 0 THEN 0 ELSE (l - k) - 1)
        PROVE  k + m \in k .. l
    BY <2>1
  <2>2. Len(doc.ops) + n \in Len(doc.ops) .. Len(done.doc.ops)
    BY <2>1, Zenon
  <2>3. /\ call.result = "INVALID_POSITION"
        /\ call.doc = [doc EXCEPT !.ops = SubSeq(done.doc.ops, 1, Len(doc.ops) + n)]
    BY <1>2, Zenon DEF Return
  <2>4. QED
    BY <2>2, <2>3
<1>3. \/ call = Return(doc, "INVALID_COMMAND")
      \/ \E n \in 0 .. last :
           call = Return([doc EXCEPT !.ops = SubSeq(done.doc.ops, 1, Len(doc.ops) + n)],
                         "INVALID_POSITION")
  BY Zenon DEF OutOfMemory
<1>4. QED
  BY <1>1, <1>2, <1>3, Zenon

\* What a submission makes of the document.
LEMMA SubmitExtends ==
  ASSUME NoWrap, IndInv, Sound(doc), NEW role \in Role, NEW command \in Commands,
         Submit(role, command)
  PROVE  LET done == Execute(doc, version, role, command) IN
         /\ Executes(doc, command, done) /\ Extends(doc, done.doc)
         /\ Len(Working(done.doc)) <= MaxLength
         /\ \/ doc' = doc
            \/ \E k \in Len(doc.ops) .. Len(done.doc.ops) :
                 doc' = [doc EXCEPT !.ops = SubSeq(done.doc.ops, 1, k)]
<1> DEFINE done == Execute(doc, version, role, command)
<1>1. doc.version = version
  BY DEF IndInv
<1>2. Executes(doc, command, done)
  BY <1>1, ExecuteEdits
<1>3. Len(Working(done.doc)) <= MaxLength
  BY DEF Submit
<1>4. \/ doc' = done.doc
      \/ \E call \in OutOfMemory(done) : doc' = call.doc
  BY DEF Submit
<1> HIDE DEF done
<1>5. Extends(doc, done.doc)
  BY <1>2, <1>3, ExtendsItself DEF Executes, Edits
<1>6. /\ IsDocument(doc) /\ IsDocument(done.doc) /\ done.doc.ops \in Seq(Operation)
      /\ done.doc.committed = doc.committed /\ done.doc.version = doc.version
      /\ Len(doc.ops) \in Nat /\ Len(done.doc.ops) \in Nat /\ Len(doc.ops) <= Len(done.doc.ops)
  BY <1>5 DEF Extends, Sound
<1>7. CASE doc' = done.doc
  <2>1. SubSeq(done.doc.ops, 1, Len(done.doc.ops)) = done.doc.ops
    BY <1>6
  <2>2. done.doc = [doc EXCEPT !.ops = done.doc.ops]
    BY <1>6 DEF IsDocument
  <2>3. /\ Len(done.doc.ops) \in Len(doc.ops) .. Len(done.doc.ops)
        /\ doc' = [doc EXCEPT !.ops = SubSeq(done.doc.ops, 1, Len(done.doc.ops))]
    BY <1>6, <1>7, <2>1, <2>2
  <2>4. \E k \in Len(doc.ops) .. Len(done.doc.ops) :
          doc' = [doc EXCEPT !.ops = SubSeq(done.doc.ops, 1, k)]
    BY <2>3, Zenon
  <2>5. QED
    BY <1>2, <1>3, <1>5, <2>4 DEF done
<1>8. CASE \E call \in OutOfMemory(done) : doc' = call.doc
  <2>1. PICK call \in OutOfMemory(done) : doc' = call.doc
    BY <1>8
  <2>2. \/ call.doc = doc
        \/ \E k \in Len(doc.ops) .. Len(done.doc.ops) :
             call.doc = [doc EXCEPT !.ops = SubSeq(done.doc.ops, 1, k)]
    BY <1>6, <2>1, OutOfMemoryCuts, Zenon
  <2>3. QED
    BY <1>2, <1>3, <1>5, <2>1, <2>2 DEF done
<1>9. QED
  BY <1>4, <1>7, <1>8

\* The inductive invariant behind PositionsTracked.
CoreInv == IndInv /\ Sound(doc)

LEMMA InitCore == Init => CoreInv
<1>1. SUFFICES ASSUME Init PROVE Sound(doc)
  BY InitInv DEF CoreInv
<1>2. doc = [committed |-> <<>>, ops |-> <<>>, version |-> 0]
  BY <1>1 DEF Init, NewDocument
<1>3. <<>> \in Seq(Char) /\ Len(<<>>) <= MaxLength
  BY BoundsAssumption
<1>4. QED
  BY <1>2, <1>3, CommittedSound

LEMMA StepCore ==
  ASSUME NoWrap
  PROVE  CoreInv /\ [Next]_vars => CoreInv'
<1>1. SUFFICES ASSUME CoreInv, [Next]_vars PROVE Sound(doc')
  BY StepInv DEF CoreInv
<1>2. CASE \E role \in Role, command \in Commands : Submit(role, command)
  <2>1. PICK role \in Role, command \in Commands : Submit(role, command)
    BY <1>2
  <2> DEFINE done == Execute(doc, version, role, command)
  <2>2. /\ Extends(doc, done.doc)
        /\ \/ doc' = doc
           \/ \E k \in Len(doc.ops) .. Len(done.doc.ops) :
                doc' = [doc EXCEPT !.ops = SubSeq(done.doc.ops, 1, k)]
    BY <1>1, <2>1, SubmitExtends DEF CoreInv
  <2> HIDE DEF done
  <2>3. QED
    BY <1>1, <2>2 DEF CoreInv, Extends
<1>3. CASE Commit
  <2>1. doc' = doc \/ doc' = IncrementVersion(doc)
    BY <1>3 DEF Commit
  <2>2. QED
    BY <1>1, <2>1, IncrementSound DEF CoreInv
<1>4. CASE UNCHANGED vars
  BY <1>1, <1>4 DEF vars, CoreInv
<1>5. QED
  BY <1>1, <1>2, <1>3, <1>4 DEF Next

\* For all commands and failures of memory, as long as no size wraps around, the document
\* stays sound: every position has been moved to where it belongs (markdown.c:353-405).
THEOREM CoreInvHolds ==
  ASSUME NoWrap
  PROVE  Spec => []CoreInv
BY InitCore, StepCore, PTL DEF Spec

\* Whatever was inserted and deleted, a position of the committed version is moved to where
\* its neighbours are now, or reported deleted (markdown.c, transform_position_after_pending_ops).
THEOREM PositionsAlwaysTracked ==
  ASSUME NoWrap
  PROVE  Spec => []PositionsTracked
<1>1. CoreInv => PositionsTracked
  BY DEF CoreInv, Sound, Tracked, PositionsTracked, Origins
<1>2. QED
  BY <1>1, CoreInvHolds, PTL

\* A successful command that is logged: its entry tells what it is, the document is what the
\* execution made of it.
LEMMA SubmittedEntry ==
  ASSUME NoWrap, CoreInv, [Next]_vars, NEW name, Submits(name), Succeeds
  PROVE  \E role \in Role, command \in Commands :
           LET done == Execute(doc, version, role, command) IN
           /\ command.name = name /\ Last(pending').command = command
           /\ done.result = "SUCCESS" /\ doc' = done.doc
           /\ Executes(doc, command, done) /\ Len(Working(done.doc)) <= MaxLength
<1>1. pending \in Seq(Logs(submitted)) /\ Len(pending) \in Nat
  BY DEF CoreInv, IndInv, TypeOK, Logs
<1>2. Len(pending') = Len(pending) + 1
  BY DEF Submits
<1>3. ~Commit /\ pending' # pending
  <2>1. Commit => pending' = pending \/ pending' = <<>>
    BY DEF Commit, Announce, KeepLog
  <2>2. QED
    BY <1>1, <1>2, <2>1
<1>4. PICK role \in Role, command \in Commands : Submit(role, command)
  BY <1>3 DEF Next, vars
<1> DEFINE done == Execute(doc, version, role, command)
<1>5. /\ Executes(doc, command, done) /\ Len(Working(done.doc)) <= MaxLength
      /\ Extends(doc, done.doc)
  BY <1>4, SubmitExtends DEF CoreInv
<1>6. \/ doc' = done.doc /\ pending' = Append(pending, Logged(command, done.result))
      \/ \E call \in OutOfMemory(done) : pending' = Append(pending, Logged(command, call.result))
  BY <1>3, <1>4 DEF Submit
<1> HIDE DEF done
<1>7. ASSUME NEW result, pending' = Append(pending, Logged(command, result))
      PROVE  result = "SUCCESS" /\ Last(pending').command = command
  <2>1. Last(pending') = Logged(command, result)
    BY <1>1, <1>7 DEF Last
  <2>2. result = "SUCCESS"
    BY <2>1 DEF Succeeds, Logged
  <2>3. QED
    BY <2>1, <2>2 DEF Logged
<1>8. \A call \in OutOfMemory(done) : call.result # "SUCCESS"
  <2>1. Len(doc.ops) \in Nat /\ Len(done.doc.ops) \in Nat /\ Len(doc.ops) <= Len(done.doc.ops)
    BY <1>5 DEF Extends, Sound
  <2>2. QED
    BY <2>1, OutOfMemoryCuts
<1>9. /\ doc' = done.doc /\ done.result = "SUCCESS" /\ Last(pending').command = command
  BY <1>6, <1>7, <1>8
<1>10. command.name = name
  BY <1>9 DEF Submits
<1>11. QED
  BY <1>5, <1>9, <1>10 DEF done

\* BOLD, ITALIC, CODE and LINK put their marks around the span they name, at the positions
\* where it is now (markdown.c, markdown_bold and the functions after it).
THEOREM SpansAlwaysEnclosed ==
  ASSUME NoWrap
  PROVE  Spec => SpansEnclosed
<1> DEFINE Enclosed ==
      \A name \in DOMAIN Marks : Submits(name) /\ Succeeds =>
        LET command == Last(pending').command
            closing == doc'.ops[Len(doc.ops) + 1].pos
            opening == doc'.ops[Len(doc.ops) + 2].pos
        IN Divides(Origins, opening, command.start) /\ Divides(Origins, closing, command.end)
<1>1. CoreInv /\ [Next]_vars => [Enclosed]_vars
  <2>1. SUFFICES ASSUME CoreInv, [Next]_vars, NEW name \in DOMAIN Marks, Submits(name), Succeeds
                 PROVE  LET command == Last(pending').command
                            closing == doc'.ops[Len(doc.ops) + 1].pos
                            opening == doc'.ops[Len(doc.ops) + 2].pos
                        IN /\ Divides(Origins, opening, command.start)
                           /\ Divides(Origins, closing, command.end)
    OBVIOUS
  <2>2. PICK role \in Role, command \in Commands :
          LET done == Execute(doc, version, role, command) IN
          /\ command.name = name /\ Last(pending').command = command
          /\ done.result = "SUCCESS" /\ doc' = done.doc
          /\ Executes(doc, command, done) /\ Len(Working(done.doc)) <= MaxLength
    BY <2>1, SubmittedEntry
  <2>3. Encloses(doc, doc', command.start, command.end)
    BY <2>2 DEF Executes
  <2>4. QED
    BY <2>2, <2>3 DEF Encloses, Origins
<1>2. QED
  BY <1>1, CoreInvHolds, PTL DEF Spec, SpansEnclosed

\* HEADING, BLOCKQUOTE, the lists and HORIZONTAL_RULE put their tag at the start of a line
\* (markdown.c, ensure_block_prefix_position and its callers).
THEOREM BlocksAlwaysStartLines ==
  ASSUME NoWrap
  PROVE  Spec => BlocksStartLines
<1> DEFINE Begun ==
      \A name \in DOMAIN Tags \cup {"HEADING", "ORDERED_LIST"} : Submits(name) /\ Succeeds =>
        LineStart(Working(doc'), Last(doc'.ops).pos + 1)
<1>1. CoreInv /\ [Next]_vars => [Begun]_vars
  <2>1. SUFFICES ASSUME CoreInv, [Next]_vars,
                        NEW name \in DOMAIN Tags \cup {"HEADING", "ORDERED_LIST"},
                        Submits(name), Succeeds
                 PROVE  BeginsLine(doc')
    BY DEF BeginsLine
  <2>2. PICK role \in Role, command \in Commands :
          LET done == Execute(doc, version, role, command) IN
          /\ command.name = name /\ Last(pending').command = command
          /\ done.result = "SUCCESS" /\ doc' = done.doc
          /\ Executes(doc, command, done) /\ Len(Working(done.doc)) <= MaxLength
    BY <2>1, SubmittedEntry
  <2>3. QED
    BY <2>1, <2>2 DEF Executes
<1>2. QED
  BY <1>1, CoreInvHolds, PTL DEF Spec, BlocksStartLines

-------------------------------------------------------------------------------
(* A copy of the document with another version: the commands do to it the same *)

At(d, v) == [d EXCEPT !.version = v]
AtCall(call, v) == Return(At(call.doc, v), call.result)

LEMMA AtFields ==
  ASSUME NEW d, IsDocument(d), NEW v
  PROVE  /\ IsDocument(At(d, v)) /\ At(d, v).committed = d.committed /\ At(d, v).ops = d.ops
         /\ At(d, v).version = v
         /\ Working(At(d, v)) = Working(d) /\ \A p : Transform(At(d, v), p) = Transform(d, p)
<1>1. At(d, v) = [committed |-> d.committed, ops |-> d.ops, version |-> v]
  BY DEF At, IsDocument
<1>2. At(d, v).committed = d.committed /\ At(d, v).ops = d.ops /\ At(d, v).version = v
  BY <1>1
<1>3. QED
  BY <1>1, <1>2 DEF IsDocument, Working, Transform

LEMMA AtWith ==
  ASSUME NEW d, IsDocument(d), NEW v, NEW op
  PROVE  With(At(d, v), op) = At(With(d, op), v)
<1> DEFINE ops == Append(d.ops, op)
<1>1. d = [committed |-> d.committed, ops |-> d.ops, version |-> d.version]
  BY DEF IsDocument
<1>2. At(d, v).ops = d.ops
  BY AtFields
<1>3. With(At(d, v), op) = [At(d, v) EXCEPT !.ops = ops] /\ With(d, op) = [d EXCEPT !.ops = ops]
  BY <1>2 DEF With
<1> HIDE DEF ops
<1>4. QED
  BY <1>1, <1>3 DEF At

LEMMA AtReturn ==
  ASSUME NEW d, NEW v, NEW result
  PROVE  AtCall(Return(d, result), v) = Return(At(d, v), result)
BY DEF AtCall, Return

LEMMA InsertCopied ==
  ASSUME NEW d, IsDocument(d), NEW v, NEW pos, NEW content
  PROVE  Insert(At(d, v), v, pos, content) = AtCall(Insert(d, d.version, pos, content), v)
<1>1. At(d, v).version = v /\ Working(At(d, v)) = Working(d)
  BY AtFields
<1>2. CASE pos > Len(Working(d))
  <2>1. Insert(At(d, v), v, pos, content) = Return(At(d, v), "INVALID_POSITION")
    BY <1>1, <1>2, InsertCases
  <2>2. Insert(d, d.version, pos, content) = Return(d, "INVALID_POSITION")
    BY <1>2, InsertCases
  <2>3. QED
    BY <2>1, <2>2, AtReturn
<1>3. CASE ~(pos > Len(Working(d)))
  <2>1. Insert(At(d, v), v, pos, content)
          = Return(With(At(d, v), InsertOp(pos, content)), "SUCCESS")
    BY <1>1, <1>3, InsertCases
  <2>2. Insert(d, d.version, pos, content) = Return(With(d, InsertOp(pos, content)), "SUCCESS")
    BY <1>3, InsertCases
  <2>3. QED
    BY <2>1, <2>2, AtReturn, AtWith
<1>4. QED
  BY <1>2, <1>3

LEMMA DeleteCopied ==
  ASSUME NEW d, IsDocument(d), NEW v, NEW pos, NEW len
  PROVE  Delete(At(d, v), v, pos, len) = AtCall(Delete(d, d.version, pos, len), v)
<1> DEFINE c == At(d, v)
           copied == Delete(c, c.version, pos, len)
           call == Delete(d, d.version, pos, len)
<1>1. c.version = v /\ Working(c) = Working(d) /\ CutLength(c, pos, len) = CutLength(d, pos, len)
  BY AtFields DEF CutLength
<1>2. CASE pos > Len(Working(d))
  <2>1. copied = Return(c, "INVALID_POSITION")
    <3>1. pos > Len(Working(c))
      BY <1>1, <1>2
    <3> HIDE DEF c
    <3>2. QED
      BY <3>1, DeleteCases
  <2>2. call = Return(d, "INVALID_POSITION")
    BY <1>2, DeleteCases
  <2> HIDE DEF copied, call
  <2>3. copied = AtCall(call, v)
    BY <2>1, <2>2, AtReturn
  <2>4. QED
    BY <1>1, <2>3 DEF copied, call
<1>3. CASE ~(pos > Len(Working(d))) /\ len = 0
  <2>1. copied = Return(c, "SUCCESS")
    <3>1. ~(pos > Len(Working(c)))
      BY <1>1, <1>3
    <3> HIDE DEF c
    <3>2. QED
      BY <1>3, <3>1, DeleteCases
  <2>2. call = Return(d, "SUCCESS")
    BY <1>3, DeleteCases
  <2> HIDE DEF copied, call
  <2>3. copied = AtCall(call, v)
    BY <2>1, <2>2, AtReturn
  <2>4. QED
    BY <1>1, <2>3 DEF copied, call
<1>4. CASE ~(pos > Len(Working(d))) /\ len # 0
  <2> DEFINE op == DeleteOp(pos, CutLength(d, pos, len))
  <2>1. copied = Return(With(c, op), "SUCCESS")
    <3>1. ~(pos > Len(Working(c)))
      BY <1>1, <1>4
    <3>2. copied = Return(With(c, DeleteOp(pos, CutLength(c, pos, len))), "SUCCESS")
      <4> HIDE DEF c
      <4>1. QED
        BY <1>4, <3>1, DeleteCases
    <3>3. QED
      BY <1>1, <3>2
  <2>2. call = Return(With(d, op), "SUCCESS")
    BY <1>4, DeleteCases
  <2> HIDE DEF copied, call, op
  <2>3. copied = AtCall(call, v)
    BY <2>1, <2>2, AtReturn, AtWith
  <2>4. QED
    BY <1>1, <2>3 DEF copied, call
<1>5. QED
  BY <1>2, <1>3, <1>4

\* What most functions begin with.
LEMMA CheckCopied ==
  ASSUME NEW d, IsDocument(d), NEW v, NEW pos
  PROVE  Check(At(d, v), v, pos) = Check(d, d.version, pos)
BY AtFields DEF Check

LEMMA SplitWordCopied ==
  ASSUME NEW d, IsDocument(d), NEW v, NEW pos
  PROVE  SplitWord(At(d, v), v, pos) = AtCall(SplitWord(d, d.version, pos), v)
<1> DEFINE result == Check(d, d.version, pos)
<1>1. Check(At(d, v), v, pos) = result /\ (BeforeSpace(At(d, v), pos) <=> BeforeSpace(d, pos))
  BY CheckCopied, AtFields DEF BeforeSpace
<1> HIDE DEF result
<1>2. CASE result # "SUCCESS"
  <2>1. SplitWord(At(d, v), v, pos) = Return(At(d, v), result)
    BY <1>1, <1>2 DEF SplitWord, Then, Return
  <2>2. SplitWord(d, d.version, pos) = Return(d, result)
    BY <1>2 DEF SplitWord, Then, Return, result
  <2>3. QED
    BY <2>1, <2>2, AtReturn
<1>3. CASE result = "SUCCESS" /\ BeforeSpace(d, pos)
  <2>1. SplitWord(At(d, v), v, pos) = Delete(At(d, v), v, pos, 1)
    BY <1>1, <1>3 DEF SplitWord, Then, Return
  <2>2. SplitWord(d, d.version, pos) = Delete(d, d.version, pos, 1)
    BY <1>3 DEF SplitWord, Then, Return, result
  <2>3. QED
    BY <2>1, <2>2, DeleteCopied
<1>4. CASE result = "SUCCESS" /\ ~BeforeSpace(d, pos)
  <2>1. SplitWord(At(d, v), v, pos) = Return(At(d, v), "SUCCESS")
    BY <1>1, <1>4 DEF SplitWord, Then, Return
  <2>2. SplitWord(d, d.version, pos) = Return(d, "SUCCESS")
    BY <1>4 DEF SplitWord, Then, Return, result
  <2>3. QED
    BY <2>1, <2>2, AtReturn
<1>5. QED
  BY <1>2, <1>3, <1>4

\* An insertion after another call.
ThenInsert(first, v, pos, content) ==
    IF first.result = "SUCCESS" THEN Insert(first.doc, v, pos, content) ELSE first

LEMMA ThenInsertCopied ==
  ASSUME NEW d, NEW first, Keeps(d, first), NEW v, NEW pos, NEW content
  PROVE  ThenInsert(AtCall(first, v), v, pos, content)
           = AtCall(ThenInsert(first, d.version, pos, content), v)
<1>1. /\ AtCall(first, v).result = first.result /\ AtCall(first, v).doc = At(first.doc, v)
      /\ IsDocument(first.doc) /\ first.doc.version = d.version
  BY DEF AtCall, Return, Keeps
<1>2. CASE first.result = "SUCCESS"
  <2>1. Insert(At(first.doc, v), v, pos, content)
          = AtCall(Insert(first.doc, first.doc.version, pos, content), v)
    BY <1>1, InsertCopied
  <2>2. QED
    BY <1>1, <1>2, <2>1 DEF ThenInsert
<1>3. CASE first.result # "SUCCESS"
  BY <1>1, <1>3 DEF ThenInsert
<1>4. QED
  BY <1>2, <1>3

LEMMA NewlineCopied ==
  ASSUME NEW d, IsDocument(d), NEW v, NEW pos
  PROVE  Newline(At(d, v), v, pos) = AtCall(Newline(d, d.version, pos), v)
<1> DEFINE first == SplitWord(d, d.version, pos)
           copied == SplitWord(At(d, v), v, pos)
           content == <<LineFeed>>
<1>1. Keeps(d, first) /\ copied = AtCall(first, v)
  BY SplitWordKeeps, SplitWordCopied
<1>2. /\ Newline(d, d.version, pos) = ThenInsert(first, d.version, pos, content)
      /\ Newline(At(d, v), v, pos) = ThenInsert(copied, v, pos, content)
  BY DEF Newline, Then, ThenInsert
<1> HIDE DEF first, copied, content
<1>3. QED
  BY <1>1, <1>2, ThenInsertCopied

LEMMA BlockCopied ==
  ASSUME NEW d, IsDocument(d), NEW v, NEW pos, NEW tag
  PROVE  Block(At(d, v), v, pos, tag) = AtCall(Block(d, d.version, pos, tag), v)
<1> DEFINE result == Check(d, d.version, pos)
           breaks == pos > 0 /\ Working(d)[pos] # LineFeed
<1>1. /\ Check(At(d, v), v, pos) = result
      /\ breaks <=> pos > 0 /\ Working(At(d, v))[pos] # LineFeed
  BY CheckCopied, AtFields
<1> HIDE DEF result, breaks
<1>2. CASE result # "SUCCESS"
  <2>1. Block(At(d, v), v, pos, tag) = Return(At(d, v), result)
    BY <1>1, <1>2 DEF Block, Then, Return
  <2>2. Block(d, d.version, pos, tag) = Return(d, result)
    BY <1>2 DEF Block, Then, Return, result
  <2>3. QED
    BY <2>1, <2>2, AtReturn
<1>3. CASE result = "SUCCESS" /\ breaks
  <2> DEFINE content == <<LineFeed>>
             first == Insert(d, d.version, pos, content)
             copied == Insert(At(d, v), v, pos, content)
  <2>1. Block(At(d, v), v, pos, tag) = ThenInsert(copied, v, pos + 1, tag)
    BY <1>1, <1>3 DEF Block, Then, Return, ThenInsert
  <2>2. Block(d, d.version, pos, tag) = ThenInsert(first, d.version, pos + 1, tag)
    BY <1>3 DEF Block, Then, Return, ThenInsert, result, breaks
  <2> HIDE DEF content
  <2>3. Keeps(d, first) /\ copied = AtCall(first, v)
    BY InsertKeeps, InsertCopied
  <2> HIDE DEF first, copied
  <2>4. QED
    BY <2>1, <2>2, <2>3, ThenInsertCopied
<1>4. CASE result = "SUCCESS" /\ ~breaks
  <2>1. Block(At(d, v), v, pos, tag) = Insert(At(d, v), v, pos, tag)
    BY <1>1, <1>4 DEF Block, Then, Return
  <2>2. Block(d, d.version, pos, tag) = Insert(d, d.version, pos, tag)
    BY <1>4 DEF Block, Then, Return, result, breaks
  <2>3. QED
    BY <2>1, <2>2, InsertCopied
<1>5. QED
  BY <1>2, <1>3, <1>4

LEMMA HeadingCopied ==
  ASSUME NEW d, IsDocument(d), NEW v, NEW level, NEW pos
  PROVE  Heading(At(d, v), v, level, pos) = AtCall(Heading(d, d.version, level, pos), v)
<1>1. CASE level \in 1 .. 3
  BY <1>1, BlockCopied DEF Heading
<1>2. CASE level \notin 1 .. 3
  BY <1>2, AtReturn DEF Heading
<1>3. QED
  BY <1>1, <1>2

LEMMA OrderedListCopied ==
  ASSUME NEW d, IsDocument(d), NEW v, NEW pos
  PROVE  OrderedList(At(d, v), v, pos) = AtCall(OrderedList(d, d.version, pos), v)
<1> DEFINE first == SplitWord(d, d.version, pos)
           tag == <<"1", ".", " ">>
<1>1. /\ SplitWord(At(d, v), v, pos) = AtCall(first, v)
      /\ IsDocument(first.doc) /\ first.doc.version = d.version
  BY SplitWordCopied, SplitWordKeeps DEF Keeps
<1>2. AtCall(first, v).result = first.result /\ AtCall(first, v).doc = At(first.doc, v)
  BY DEF AtCall, Return
<1>3. CASE first.result = "SUCCESS"
  <2>1. OrderedList(d, d.version, pos)
          = Block(first.doc, first.doc.version, pos, tag)
    BY <1>1, <1>3 DEF OrderedList, Then
  <2> HIDE DEF first
  <2>2. OrderedList(At(d, v), v, pos) = Block(At(first.doc, v), v, pos, tag)
    BY <1>1, <1>2, <1>3 DEF OrderedList, Then
  <2> DEFINE e == first.doc
  <2> HIDE DEF tag, e
  <2>3. Block(At(e, v), v, pos, tag) = AtCall(Block(e, e.version, pos, tag), v)
    BY <1>1, BlockCopied DEF e
  <2>4. QED
    BY <2>1, <2>2, <2>3 DEF e
<1>4. CASE first.result # "SUCCESS"
  <2>1. OrderedList(d, d.version, pos) = first
    BY <1>4 DEF OrderedList, Then
  <2> HIDE DEF first
  <2>2. OrderedList(At(d, v), v, pos) = AtCall(first, v)
    BY <1>1, <1>2, <1>4 DEF OrderedList, Then
  <2>3. QED
    BY <2>1, <2>2
<1>5. QED
  BY <1>3, <1>4

LEMMA SurroundCopied ==
  ASSUME NEW d, IsDocument(d), NEW v, NEW start, NEW end, NEW opening, NEW closing
  PROVE  Surround(At(d, v), v, start, end, opening, closing)
           = AtCall(Surround(d, d.version, start, end, opening, closing), v)
<1> DEFINE from == Transform(d, start)
           to == Transform(d, end)
           first == Insert(d, d.version, to, closing)
           copied == Insert(At(d, v), v, to, closing)
           wrong == start >= end \/ end > Len(d.committed)
           right == start < end /\ end <= Len(d.committed)
           deleted == from = Deleted \/ to = Deleted
           c == At(d, v)
<1>1. /\ c.version = v /\ c.committed = d.committed
      /\ Transform(c, start) = from /\ Transform(c, end) = to
  BY AtFields
<1>2. Keeps(d, first) /\ copied = AtCall(first, v)
  <2> HIDE DEF to
  <2>1. QED
    BY InsertKeeps, InsertCopied
<1>3. ThenInsert(copied, v, from, opening) = AtCall(ThenInsert(first, d.version, from, opening), v)
  <2> HIDE DEF first, from, copied
  <2>1. QED
    BY <1>2, ThenInsertCopied
<1>4. Surround(d, d.version, start, end, opening, closing) =
        CASE wrong -> Return(d, "INVALID_POSITION")
          [] right /\ deleted -> Return(d, "DELETED_POSITION")
          [] OTHER -> ThenInsert(first, d.version, from, opening)
  BY DEF Surround, Then, ThenInsert
<1>5. Surround(c, v, start, end, opening, closing) =
        CASE wrong -> Return(c, "INVALID_POSITION")
          [] right /\ deleted -> Return(c, "DELETED_POSITION")
          [] OTHER -> ThenInsert(copied, v, from, opening)
  <2>1. copied = Insert(c, v, to, closing)
    OBVIOUS
  <2> HIDE DEF c, from, to, copied
  <2>2. QED
    BY <1>1, <2>1 DEF Surround, Then, ThenInsert
<1>6. /\ AtCall(Return(d, "INVALID_POSITION"), v) = Return(c, "INVALID_POSITION")
      /\ AtCall(Return(d, "DELETED_POSITION"), v) = Return(c, "DELETED_POSITION")
  BY AtReturn
<1> HIDE DEF wrong, right, deleted, first, from, to, c, copied
<1>7. Surround(c, v, start, end, opening, closing)
        = AtCall(Surround(d, d.version, start, end, opening, closing), v)
  BY <1>3, <1>4, <1>5, <1>6
<1>8. QED
  BY <1>7 DEF c

\* Whatever the command, it does the same to a copy that counts its versions from elsewhere.
LEMMA ExecuteCopied ==
  ASSUME NEW d, IsDocument(d), NEW v, NEW role, NEW command \in Commands
  PROVE  Execute(At(d, v), v, role, command) = AtCall(Execute(d, d.version, role, command), v)
<1> DEFINE c == At(d, v)
           call == Execute(d, d.version, role, command)
           copied == Execute(c, v, role, command)
           text == {"INSERT", "DEL", "NEWLINE", "HEADING"}
           spans == DOMAIN Marks
           blocks == DOMAIN Tags \cup {"ORDERED_LIST"}
<1>1. /\ spans = {"BOLD", "ITALIC", "CODE", "LINK"}
      /\ DOMAIN Tags = {"BLOCKQUOTE", "UNORDERED_LIST", "HORIZONTAL_RULE"}
  BY DEF Marks, Tags
<1>2. command.name \in {"UNKNOWN", "MALFORMED"} \cup text \cup spans \cup blocks
  BY <1>1, CommandsAssumption DEF Command
<1>3. CASE command.name = "UNKNOWN" \/ role # "write" \/ command.name = "MALFORMED"
  <2>1. \/ call = Return(d, "INVALID_COMMAND") /\ copied = Return(c, "INVALID_COMMAND")
        \/ call = Return(d, "UNAUTHORISED") /\ copied = Return(c, "UNAUTHORISED")
    <3> HIDE DEF c
    <3>1. QED
      BY <1>1, <1>3 DEF Execute
  <2> HIDE DEF call, copied
  <2>2. copied = AtCall(call, v)
    BY <2>1, AtReturn
  <2>3. QED
    BY <2>2 DEF call, copied
<1>4. CASE role = "write" /\ command.name \in text
  <2>1. call = ExecuteText(d, d.version, command) /\ copied = ExecuteText(c, v, command)
    <3> HIDE DEF c
    <3>1. QED
      BY <1>1, <1>4 DEF Execute
  <2> HIDE DEF call, copied
  <2>2. command.name = "INSERT" => copied = AtCall(call, v)
    BY <2>1, InsertCopied DEF ExecuteText
  <2>3. command.name = "DEL" => copied = AtCall(call, v)
    BY <2>1, DeleteCopied DEF ExecuteText
  <2>4. command.name = "NEWLINE" => copied = AtCall(call, v)
    BY <2>1, NewlineCopied DEF ExecuteText
  <2>5. command.name = "HEADING" => copied = AtCall(call, v)
    BY <2>1, HeadingCopied DEF ExecuteText
  <2>6. copied = AtCall(call, v)
    BY <1>4, <2>2, <2>3, <2>4, <2>5
  <2>7. QED
    BY <2>6 DEF call, copied
<1>5. CASE role = "write" /\ command.name \in spans \cup blocks
  <2>1. call = ExecuteMarkup(d, d.version, command) /\ copied = ExecuteMarkup(c, v, command)
    <3> HIDE DEF c
    <3>1. QED
      BY <1>1, <1>5 DEF Execute
  <2> HIDE DEF call, copied
  <2>2. command.name \in spans => copied = AtCall(call, v)
    <3> DEFINE opening == Marks[command.name].opening
               closing == Marks[command.name].closing
    <3>1. ASSUME command.name \in spans
          PROVE  /\ call = Surround(d, d.version, command.start, command.end, opening, closing)
                 /\ copied = Surround(c, v, command.start, command.end, opening, closing)
      BY <1>1, <2>1, <3>1 DEF ExecuteMarkup
    <3> HIDE DEF opening, closing
    <3>2. QED
      BY <3>1, SurroundCopied
  <2>3. command.name \in DOMAIN Tags => copied = AtCall(call, v)
    <3> DEFINE tag == Tags[command.name]
    <3>1. ASSUME command.name \in DOMAIN Tags
          PROVE  /\ call = Block(d, d.version, command.pos, tag)
                 /\ copied = Block(c, v, command.pos, tag)
      BY <1>1, <2>1, <3>1 DEF ExecuteMarkup
    <3> HIDE DEF tag
    <3>2. QED
      BY <3>1, BlockCopied
  <2>4. command.name = "ORDERED_LIST" => copied = AtCall(call, v)
    <3>1. ASSUME command.name = "ORDERED_LIST"
          PROVE  /\ call = OrderedList(d, d.version, command.pos)
                 /\ copied = OrderedList(c, v, command.pos)
      BY <1>1, <2>1, <3>1 DEF ExecuteMarkup
    <3>2. QED
      BY <3>1, OrderedListCopied
  <2>5. copied = AtCall(call, v)
    BY <1>5, <2>2, <2>3, <2>4
  <2>6. QED
    BY <2>5 DEF call, copied
<1>6. QED
  BY <1>2, <1>3, <1>4, <1>5

\* Only a writer's commands succeed.
LEMMA OnlyWritersSucceed ==
  ASSUME NEW d, NEW role, NEW command \in Commands,
         Execute(d, d.version, role, command).result = "SUCCESS"
  PROVE  role = "write"
<1> DEFINE call == Execute(d, d.version, role, command)
<1>1. SUFFICES ASSUME role # "write" PROVE FALSE
  OBVIOUS
<1>2. call = Return(d, "INVALID_COMMAND") \/ call = Return(d, "UNAUTHORISED")
  BY <1>1 DEF Execute
<1> HIDE DEF call
<1>3. call.result # "SUCCESS"
  BY <1>2 DEF Return
<1>4. QED
  BY <1>3 DEF call

-------------------------------------------------------------------------------
(* A client that replays the log *)

Playing == INSTANCE FoldLaws WITH Op <- Play

\* The copy a client has made of a text when it has replayed a log.
Played(text, log) == Playing!Fold([NewDocument EXCEPT !.committed = text], log)

LEMMA ReplayFold ==
  ASSUME NEW text, NEW payload, payload.log # <<>>
  PROVE  Replay(text, payload) = IncrementVersion(Played(text, payload.log)).committed
BY DEF Replay, Played, Playing!Fold, FoldLeft, Playing!FoldLeft, MapThenFoldSet,
       Playing!MapThenFoldSet, Max, Playing!Max

LEMMA NothingPlayed ==
  ASSUME NEW text
  PROVE  Played(text, <<>>) = [NewDocument EXCEPT !.committed = text]
BY Playing!FoldEmpty DEF Played

LEMMA OneMorePlayed ==
  ASSUME NEW X, NEW log \in Seq(X), NEW entry \in X, NEW text
  PROVE  Played(text, Append(log, entry)) = Play(Played(text, log), entry)
BY Playing!FoldAppend DEF Played

\* As long as memory lasts, a client that has replayed the payloads holds the committed
\* text; when it repeats the commands of the log, it holds the working text too.
Followed ==
    failures = 0 =>
      /\ replica = [version |-> version, text |-> doc.committed]
      /\ Played(doc.committed, pending) = At(doc, 0)

LEMMA InitFollowed == Init => Followed
<1>1. SUFFICES ASSUME Init PROVE Followed
  OBVIOUS
<1>2. /\ doc = [committed |-> <<>>, ops |-> <<>>, version |-> 0] /\ version = 0 /\ pending = <<>>
      /\ replica = [version |-> 0, text |-> <<>>]
  BY <1>1 DEF Init, NewDocument
<1>3. Played(doc.committed, pending) = [NewDocument EXCEPT !.committed = doc.committed]
  BY <1>2, NothingPlayed
<1>4. Played(doc.committed, pending) = At(doc, 0)
  BY <1>2, <1>3 DEF At, NewDocument
<1>5. QED
  BY <1>2, <1>4 DEF Followed

LEMMA SubmitFollowed ==
  ASSUME NoWrap, CoreInv, Followed, NEW role \in Role, NEW command \in Commands,
         Submit(role, command)
  PROVE  Followed'
<1> DEFINE done == Execute(doc, version, role, command)
           entry == Logged(command, done.result)
<1>1. SUFFICES ASSUME failures' = 0
               PROVE  /\ replica' = [version |-> version', text |-> doc'.committed]
                      /\ Played(doc'.committed, pending') = At(doc', 0)
  BY DEF Followed
<1>2. /\ failures = 0 /\ doc' = done.doc /\ pending' = Append(pending, entry)
      /\ version' = version /\ replica' = replica
  BY <1>1 DEF Submit, Fail, CoreInv, IndInv, TypeOK
<1>3. /\ IsDocument(doc) /\ doc.version = version /\ submitted \in Nat
      /\ pending \in Seq(Logs(submitted))
  BY DEF CoreInv, IndInv, TypeOK, IsDocument, Logs
<1>4. /\ replica = [version |-> version, text |-> doc.committed]
      /\ Played(doc.committed, pending) = At(doc, 0)
  BY <1>2 DEF Followed
<1>5. /\ Executes(doc, command, done) /\ Extends(doc, done.doc)
  BY SubmitExtends DEF CoreInv
<1>6. Keeps(doc, done)
  BY <1>3, ExecuteKeeps
<1>7. done.doc.committed = doc.committed
  BY <1>5 DEF Extends
<1>8. Played(doc.committed, Append(pending, entry)) = Play(At(doc, 0), entry)
  <2>1. pending \in Seq(Logs(submitted) \cup {entry})
    BY <1>3, SeqMonotonic
  <2> HIDE DEF entry
  <2>2. Played(doc.committed, Append(pending, entry)) = Play(Played(doc.committed, pending), entry)
    BY <2>1, OneMorePlayed
  <2>3. QED
    BY <1>4, <2>2
<1>9. entry.result = done.result /\ (done.result = "SUCCESS" => entry.command = command)
  BY DEF Logged
<1>10. Play(At(doc, 0), entry) = At(done.doc, 0)
  <2>1. CASE done.result = "SUCCESS"
    <3>1. role = "write"
      BY <1>3, <2>1, OnlyWritersSucceed
    <3>2. Execute(At(doc, 0), 0, role, command) = AtCall(done, 0)
      BY <1>3, ExecuteCopied
    <3>3. At(doc, 0).version = 0
      BY <1>3, AtFields
    <3> HIDE DEF done, entry
    <3>4. QED
      BY <1>9, <2>1, <3>1, <3>2, <3>3 DEF Play, AtCall, Return
  <2>2. CASE done.result # "SUCCESS"
    <3>1. done.doc = doc
      BY <1>5, <2>2 DEF Executes, Edits
    <3> HIDE DEF done, entry
    <3>2. QED
      BY <1>9, <2>2, <3>1 DEF Play
  <2>3. QED
    BY <2>1, <2>2
<1> HIDE DEF done, entry
<1>11. QED
  BY <1>2, <1>4, <1>7, <1>8, <1>10

LEMMA CommitFollowed ==
  ASSUME CoreInv, Followed, Commit
  PROVE  Followed'
<1>1. SUFFICES ASSUME failures' = 0
               PROVE  /\ replica' = [version |-> version', text |-> doc'.committed]
                      /\ Played(doc'.committed, pending') = At(doc', 0)
  BY DEF Followed
<1>2. /\ failures = 0
      /\ doc' = IF pending = <<>> THEN doc ELSE IncrementVersion(doc)
      /\ version' = IF pending = <<>> THEN version ELSE doc'.version
      /\ Announce([version |-> version', log |-> pending])
  BY <1>1 DEF Commit, Fail, CoreInv, IndInv, TypeOK
<1>3. /\ IsDocument(doc) /\ doc.version = version
      /\ replica = [version |-> version, text |-> doc.committed]
      /\ Played(doc.committed, pending) = At(doc, 0)
  BY <1>2 DEF Followed, CoreInv, IndInv, TypeOK, IsDocument
<1>4. /\ pending' = <<>>
      /\ replica' = [version |-> version',
                     text |-> Replay(doc.committed, [version |-> version', log |-> pending])]
  BY <1>2, <1>3 DEF Announce
<1>5. CASE pending = <<>>
  BY <1>2, <1>3, <1>4, <1>5 DEF Replay
<1>6. CASE pending # <<>>
  <2>1. /\ doc'.committed = Renumber(Working(doc)) /\ doc'.ops = <<>>
        /\ IsDocument(doc')
    BY <1>2, <1>6 DEF IncrementVersion, IsDocument
  <2>2. Replay(doc.committed, [version |-> version', log |-> pending])
          = IncrementVersion(At(doc, 0)).committed
    BY <1>3, <1>6, ReplayFold
  <2>3. IncrementVersion(At(doc, 0)).committed = Renumber(Working(doc))
    BY <1>3, AtFields DEF IncrementVersion
  <2>4. Played(doc'.committed, <<>>) = [NewDocument EXCEPT !.committed = doc'.committed]
    BY NothingPlayed
  <2>5. At(doc', 0) = [committed |-> doc'.committed, ops |-> <<>>, version |-> 0]
    BY <2>1 DEF At, IsDocument
  <2>6. [NewDocument EXCEPT !.committed = doc'.committed]
          = [committed |-> doc'.committed, ops |-> <<>>, version |-> 0]
    BY DEF NewDocument
  <2>7. QED
    BY <1>4, <2>1, <2>2, <2>3, <2>4, <2>5, <2>6
<1>7. QED
  BY <1>5, <1>6

LEMMA StepFollowed ==
  ASSUME NoWrap
  PROVE  CoreInv /\ Followed /\ [Next]_vars => Followed'
<1>1. SUFFICES ASSUME CoreInv, Followed, [Next]_vars PROVE Followed'
  OBVIOUS
<1>2. CASE \E role \in Role, command \in Commands : Submit(role, command)
  BY <1>1, <1>2, SubmitFollowed
<1>3. CASE Commit
  BY <1>1, <1>3, CommitFollowed
<1>4. CASE UNCHANGED vars
  BY <1>1, <1>4 DEF vars, Followed
<1>5. QED
  BY <1>1, <1>2, <1>3, <1>4 DEF Next

\* The payloads are enough to follow the document (README.md:15): as long as memory lasts,
\* whoever repeats the commands reported as SUCCESS holds the text and the version of the
\* server after every commit.
THEOREM ReplayAlwaysConverges ==
  ASSUME NoWrap
  PROVE  Spec => []ReplayConverges
<1>1. Followed => ReplayConverges
  BY DEF Followed, ReplayConverges
<1>2. QED
  BY <1>1, CoreInvHolds, InitFollowed, StepFollowed, PTL DEF Spec
===============================================================================
