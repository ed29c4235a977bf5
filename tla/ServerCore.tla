------------------------------ MODULE ServerCore ------------------------------
(***************************************************************************)
(* server_core.c on the document engine of markdown.c: commands are        *)
(* executed and logged until a commit turns them into the next version and *)
(* a broadcast payload.  server.c commits after every command;             *)
(* server_demo.c and the tests submit several first.                       *)
(*                                                                         *)
(* A payload is the new version and the log.  replica is a history         *)
(* variable: the version and text of a client that does nothing but replay *)
(* the payloads, the commands reported as SUCCESS, with the same document  *)
(* engine.                                                                 *)
(*                                                                         *)
(* Memory may run out: any allocation of a call may fail.  The calls then  *)
(* return early, wherever they are, and undo nothing.                      *)
(***************************************************************************)
EXTENDS Markdown

CONSTANTS
    Commands,      \* the command lines that may be submitted, parsed
    MaxCommands,   \* how many commands are submitted (bound)
    MaxLength,     \* no command makes the text longer than this (bound)
    MaxFailures    \* how many allocations fail (bound)

VARIABLES
    doc,        \* core->doc
    version,    \* core->current_version
    pending,    \* core->pending_head: the log of the next version
    replica,    \* history variable
    submitted,  \* counts the commands: the id of the last one
    failures,   \* counts the failed allocations, for the bound
    unlogged,   \* history variable: the ids of commands that could not be logged
    announced   \* history variable: the ids in the payloads built so far, in order

ASSUME BoundsAssumption ==
    MaxCommands \in Nat /\ MaxLength \in Nat /\ MaxFailures \in Nat

\* What command.c makes of a line: a name, and the arguments that go with it.
Command ==
    [name : {"UNKNOWN", "MALFORMED"}]
    \cup [name : {"INSERT"}, pos : Nat, content : Seq(STRING)]
    \cup [name : {"DEL"}, pos : Nat, len : Nat]
    \cup [name : {"NEWLINE", "ORDERED_LIST"} \cup DOMAIN Tags, pos : Nat]
    \cup [name : {"HEADING"}, level : Nat, pos : Nat]
    \cup [name : DOMAIN Marks, start : Nat, end : Nat]

ASSUME CommandsAssumption == Commands \subseteq Command

vars == <<doc, version, pending, replica, submitted, failures, unlogged, announced>>

Role == {"read", "write"}
Result == {"SUCCESS", "INVALID_POSITION", "DELETED_POSITION", "OUTDATED_VERSION",
           "UNAUTHORISED", "INVALID_COMMAND"}

Init ==
    /\ doc = NewDocument
    /\ version = 0
    /\ pending = <<>>
    /\ replica = [version |-> 0, text |-> <<>>]
    /\ submitted = 0
    /\ failures = 0
    /\ unlogged = {}
    /\ announced = <<>>

\* append_log_entry.  The command of a rejected entry is only shown, never replayed: the
\* model does not tell these commands apart.
Logged(command, result) ==
    [id |-> submitted + 1,
     command |-> IF result = "SUCCESS" THEN command ELSE [name |-> "REJECTED"],
     result |-> result]

\* What a command leaves behind when an allocation fails: nothing, if it is that of the
\* copy of its line; in the engine the operations it had enqueued by then, and the -1 that
\* the engine returns stands for an invalid position (map_markdown_result).
OutOfMemory(call) ==
    LET enqueued == Len(call.doc.ops) - Len(doc.ops)
        last == IF enqueued = 0 THEN 0 ELSE enqueued - 1
        reached == IF call.result \in {"INVALID_COMMAND", "UNAUTHORISED"} THEN {} ELSE 0 .. last
    IN {Return(doc, "INVALID_COMMAND")}
       \cup {Return([doc EXCEPT !.ops = SubSeq(call.doc.ops, 1, Len(@) + n)], "INVALID_POSITION") :
               n \in reached}

\* n more allocations fail in this step.
Fail(n) == failures + n <= MaxFailures /\ failures' = failures + n

\* server_core_submit: execute the command against the core's version and log it with
\* its result, whatever the result is.  An edit that cannot be logged stays in the document.
Submit(role, command) ==
    /\ submitted < MaxCommands
    /\ submitted' = submitted + 1
    /\ LET done == Execute(doc, version, role, command) IN
         /\ Len(Working(done.doc)) <= MaxLength
         /\ \/ /\ Fail(0)
               /\ doc' = done.doc
               /\ pending' = Append(pending, Logged(command, done.result))
               /\ UNCHANGED unlogged
            \/ /\ Fail(1)
               /\ \E call \in OutOfMemory(done) :
                    doc' = call.doc /\ pending' = Append(pending, Logged(command, call.result))
               /\ UNCHANGED unlogged
            \/ /\ Fail(1)
               /\ doc' = done.doc
               /\ unlogged' = unlogged \cup {submitted'}
               /\ UNCHANGED pending
    /\ UNCHANGED <<version, replica, announced>>

\* A client repeats a command on its copy of the document, if the command has succeeded.
Play(copy, logged) ==
    IF logged.result = "SUCCESS"
      THEN Execute(copy, copy.version, "write", logged.command).doc ELSE copy

\* What it makes of its text when it replays a payload.
Replay(text, payload) ==
    IF payload.log = <<>> THEN text
    ELSE IncrementVersion(
             FoldLeft(Play, [NewDocument EXCEPT !.committed = text], payload.log)).committed

Ids(log) == [i \in DOMAIN log |-> log[i].id]

\* The payload of a commit is built, or there is no memory for it: then the log stays.
Announce(payload) ==
    /\ replica' = [version |-> payload.version, text |-> Replay(replica.text, payload)]
    /\ announced' = announced \o Ids(payload.log)
    /\ pending' = <<>>

\* Faulty variant: the log is freed whether or not the payload could be built.
KeepLogFreed == pending' = <<>> /\ UNCHANGED <<replica, announced>>

KeepLog == UNCHANGED <<pending, replica, announced>>

\* Faulty variant: the core counts the versions on its own.
CommitCountsVersions ==
    \E stuck, unannounced \in BOOLEAN :
        /\ stuck => pending # <<>>
        /\ Fail((IF stuck THEN 1 ELSE 0) + (IF unannounced THEN 1 ELSE 0))
        /\ doc' = IF pending = <<>> \/ stuck THEN doc ELSE IncrementVersion(doc)
        /\ version' = IF pending = <<>> THEN version ELSE version + 1
        /\ IF unannounced THEN KeepLog ELSE Announce([version |-> version', log |-> pending])
        /\ UNCHANGED <<submitted, unlogged>>

\* server_core_commit: the pending edits become the next version and the log a
\* payload; with nothing logged the version stays.  Without the memory for the new text
\* markdown_increment_version returns and says nothing: the edits stay pending and the
\* log is announced all the same.
Commit ==
    \E stuck, unannounced \in BOOLEAN :
        /\ stuck => pending # <<>>
        /\ Fail((IF stuck THEN 1 ELSE 0) + (IF unannounced THEN 1 ELSE 0))
        /\ doc' = IF pending = <<>> \/ stuck THEN doc ELSE IncrementVersion(doc)
        /\ version' = IF pending = <<>> THEN version ELSE doc'.version
        /\ IF unannounced THEN KeepLog ELSE Announce([version |-> version', log |-> pending])
        /\ UNCHANGED <<submitted, unlogged>>

Next == (\E role \in Role, command \in Commands : Submit(role, command)) \/ Commit

Spec == Init /\ [][Next]_vars

-------------------------------------------------------------------------------
(* Properties *)

\* Broadcast payloads are enough to follow the document (README.md:15): as long as memory
\* lasts, the commands reported as SUCCESS, replayed in order, give the text of the version;
\* so a command that was rejected has left nothing behind.
ReplayConverges ==
    failures = 0 => replica = [version |-> version, text |-> doc.committed]

\* The server passes the version it holds to every command, so none is outdated, even
\* after a commit that found no memory for the text or for the payload.
NeverOutdated == \A i \in DOMAIN pending : pending[i].result # "OUTDATED_VERSION"

\* Whichever commits fail, every command that was logged is announced once and in the
\* order of submission, or is still in the log (server_core.c:165-168, 188-191).
EachAnnouncedOnce ==
    LET told == announced \o Ids(pending) IN
    /\ \A i, j \in DOMAIN told : i < j => told[i] < told[j]
    /\ {told[i] : i \in DOMAIN told} = (1 .. submitted) \ unlogged

\* Every variable holds what its C counterpart can hold; a text is any sequence.
TypeOK ==
    /\ doc = [committed |-> doc.committed, ops |-> doc.ops, version |-> doc.version]
    /\ version \in Nat /\ submitted \in Nat /\ failures \in Nat
    /\ pending \in Seq([id : 1 .. submitted,
                        command : Commands \cup {[name |-> "REJECTED"]},
                        result : Result])
    /\ unlogged \subseteq 1 .. submitted
    /\ announced \in Seq(1 .. submitted)

\* The inductive invariant behind NeverOutdated and EachAnnouncedOnce: the version of the
\* core and that of the document are the same (server_core.c:159).
IndInv == TypeOK /\ doc.version = version /\ NeverOutdated /\ EachAnnouncedOnce

\* For each character of the working text, the committed character it is, or 0.
Anonymous(op) == [op EXCEPT !.data = [i \in DOMAIN op.data |-> 0]]
OriginsOf(d) ==
    FoldLeft(ApplyOp, [i \in DOMAIN d.committed |-> i],
             [i \in DOMAIN d.ops |-> Anonymous(d.ops[i])])
Origins == OriginsOf(doc)

\* Position q of the working text divides the committed characters as p does.
Divides(origins, q, p) ==
    /\ q \in 0 .. Len(origins)
    /\ \A i \in DOMAIN origins : origins[i] > 0 => (i <= q <=> origins[i] <= p)

\* transform_position_after_pending_ops: whatever is pending, a position of the
\* committed version is moved to where its neighbours are now, or reported deleted.
PositionsTracked ==
    \A p \in 0 .. Len(doc.committed) :
        Transform(doc, p) # Deleted => Divides(Origins, Transform(doc, p), p)

\* The command a step submits and its result.
Submits(name) == Len(pending') = Len(pending) + 1 /\ Last(pending').command.name = name
Succeeds == Last(pending').result = "SUCCESS"

\* BOLD, ITALIC, CODE and LINK put their marks around the span of the committed version
\* the command names, whatever was inserted or deleted since.
SpansEnclosed == [][
    \A name \in DOMAIN Marks : Submits(name) /\ Succeeds =>
        LET command == Last(pending').command
            closing == doc'.ops[Len(doc.ops) + 1].pos
            opening == doc'.ops[Len(doc.ops) + 2].pos
        IN Divides(Origins, opening, command.start) /\ Divides(Origins, closing, command.end)]_vars

\* HEADING, BLOCKQUOTE, the lists and HORIZONTAL_RULE put their tag at the start of a
\* line of the text they are applied to.
BlocksStartLines == [][
    \A name \in DOMAIN Tags \cup {"HEADING", "ORDERED_LIST"} : Submits(name) /\ Succeeds =>
        LineStart(Working(doc'), Last(doc'.ops).pos + 1)]_vars

\* markdown.c:590-591, "DEL is allowed to flow beyond document end.  It should truncate
\* at the end": a deletion leaves what is before the position and nothing else, or what
\* follows the length it names.
DeletionsTruncate == [][
    Submits("DEL") /\ Succeeds =>
        LET command == Last(pending').command
            rest == SubSeq(Working(doc), command.pos + command.len + 1, Len(Working(doc)))
        IN Working(doc') = SubSeq(Working(doc), 1, command.pos) \o rest]_vars
===============================================================================
