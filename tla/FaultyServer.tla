------------------------------ MODULE FaultyServer -----------------------------
(***************************************************************************)
(* CollabServer when calls of a session thread fail.                       *)
(*                                                                         *)
(* Signals.  The handler of the connect signal is installed without        *)
(* SA_RESTART and no thread blocks the signal (server.c:348-354): any      *)
(* thread may run the handler, and the call it is blocked in then fails    *)
(* with EINTR.  Which client the signal came from is the subject of module *)
(* Handshake; what it does to the session it hits is shown here.  A thread *)
(* blocks in four calls.  pthread_mutex_lock resumes after a handler.      *)
(* fgets of the user name or of a command returns NULL, which the code     *)
(* cannot tell from an end of file.  fflush of a payload into a full FIFO  *)
(* returns EOF and drops the payload; the broadcast ends there, and        *)
(* server.c:278 ignores its result.                                        *)
(*                                                                         *)
(* Memory, and descriptors.  The roles file cannot be opened: the user is  *)
(* refused.  The copy of the document for a new client, or its node of the *)
(* registry, cannot be allocated: the thread unlocks and ends.  Under the  *)
(* mutex, a command may find no memory to be executed, to be logged, to    *)
(* become a version, or to be put into a payload, and the thread goes on.  *)
(* So the log may be kept for the next payload, and the document may hold  *)
(* edits that are not committed, or that no log tells of: then a payload   *)
(* is no longer the one entry of its version, and history is not kept.     *)
(*                                                                         *)
(* The document of a new client is one message, written to an empty FIFO:  *)
(* that its write is cut short (server.c:119 does not look) is left out.   *)
(***************************************************************************)
EXTENDS CollabServer

CONSTANT MaxFaults    \* how many calls fail (bound)

ASSUME FaultsAssumption == MaxFaults \in Nat

VARIABLES
    faults,     \* how many calls have failed
    log,        \* core->pending_head: the edits that are logged and in no payload yet
    pending,    \* the edits that core->doc has taken in and not committed
    owed,       \* history variable: the edits each client is to be told of
    shown,      \* history variable: the edits each client has read
    drifted     \* history variable: the clients that cannot know the text any more

recordVars == <<log, pending, owed, shown, drifted>>
faultVars == <<faults, recordVars>>

Fault == faults < MaxFaults /\ faults' = faults + 1

-------------------------------------------------------------------------------
(* Calls that end a session *)

\* The user name has not come yet: fgets returns NULL and the thread ends.
InterruptUsername(c) ==
    /\ At(c, "auth")
    /\ client[c] = "greeting"
    /\ Fault
    /\ Goto(c, "done")
    /\ UNCHANGED <<serverUp, lock, cmd, registry, coreVars, c2s, s2c, processVars, recordVars>>

\* auth_lookup_role cannot open the roles file: a known user is refused like any other.
LookupFails(c) ==
    /\ At(c, "auth")
    /\ c \in Writers \cup Readers
    /\ Fault
    /\ \/ /\ Send(c, Reject)
          /\ Goto(c, "done")
          /\ UNCHANGED <<serverUp, lock, cmd, registry, coreVars, c2s, processVars>>
       \/ BrokenPipe(c)
    /\ UNCHANGED recordVars

\* server_core_flatten_doc returns NULL: unlock, nothing has been written.
GreetFails(c) ==
    /\ At(c, "greet")
    /\ Fault
    /\ lock' = NoClient
    /\ Goto(c, "done")
    /\ UNCHANGED <<serverUp, cmd, registry, coreVars, c2s, s2c, processVars, recordVars>>

\* client_registry_add finds no memory: unlock, but the document has been written.
RegisterFails(c) ==
    /\ At(c, "register")
    /\ Fault
    /\ lock' = NoClient
    /\ Goto(c, "done")
    /\ UNCHANGED <<serverUp, cmd, registry, coreVars, c2s, s2c, processVars, recordVars>>

\* Faulty variant: the thread ends at once, as it does when the name cannot be read.
InterruptReadDone(c) ==
    /\ At(c, "read")
    /\ c2s[c] = <<>>
    /\ client[c] # "closed"
    /\ Fault
    /\ Goto(c, "done")
    /\ UNCHANGED <<serverUp, lock, cmd, registry, coreVars, c2s, s2c, processVars, recordVars>>

\* No command is there to read: fgets returns NULL and the client is removed.
InterruptRead(c) ==
    /\ At(c, "read")
    /\ c2s[c] = <<>>
    /\ client[c] # "closed"
    /\ Fault
    /\ Goto(c, "leave")
    /\ UNCHANGED <<serverUp, lock, cmd, registry, coreVars, c2s, s2c, processVars, recordVars>>

-------------------------------------------------------------------------------
(* Calls under the mutex that leave the session alone *)

\* Who comes at the cursor of the broadcast or after it.
Ahead(d) == \E i \in DOMAIN registry : i >= cursor /\ registry[i] = d

\* The payload does not fit into the FIFO of the client at the cursor.
BroadcastBlocked(c) ==
    /\ At(c, "broadcast")
    /\ cursor \in DOMAIN registry
    /\ client[registry[cursor]] # "closed"
    /\ Len(s2c[registry[cursor]]) = PipeCap

\* The first edits of a sequence, without the last n.
WithoutLast(edits, n) == SubSeq(edits, 1, Len(edits) - n)

\* fflush fails, and neither that client nor those after it get this payload.
InterruptBroadcast(c) ==
    /\ BroadcastBlocked(c)
    /\ Fault
    /\ lock' = NoClient
    /\ Goto(c, "read")
    /\ owed' = [d \in Clients |-> IF Ahead(d) THEN WithoutLast(owed[d], Len(payload.edits))
                                             ELSE owed[d]]
    /\ drifted' = IF Play(<<>>, payload.edits) = <<>> THEN drifted
                   ELSE drifted \cup {d \in Clients : Ahead(d)}
    /\ UNCHANGED <<serverUp, cmd, registry, coreVars, c2s, s2c, processVars,
                   log, pending, shown>>

\* What may be allocated between lock and unlock: for the execution of the command, its
\* entry of the log, the text of the next version, and the payload.
Allocations == {"command", "entry", "version", "payload"}

\* Faulty variant: a command that is rejected for its position has changed the document.
CompletedWithTraces(c) ==
    {[result |-> result, executed |-> result \in {"SUCCESS", "INVALID_POSITION"}] :
       result \in Outcomes(c, cmd[c])}

\* command_execute: the result, and whether the document has taken something in.  With edits
\* pending a position may be a deleted one: that is INVALID_POSITION here, the other refusal
\* of a writer's position.
Completed(c) ==
    {[result |-> result, executed |-> result = "SUCCESS"] : result \in Outcomes(c, cmd[c])}

\* The same when it runs out of memory: before the line is parsed, or in the engine, whose
\* -1 stands for an invalid position and which may have enqueued a part of its operations.
Abandoned(c) ==
    [result : {"INVALID_COMMAND"}, executed : {FALSE}]
    \cup (IF cmd[c].kind = "edit" /\ c \in Writers
            THEN [result : {"INVALID_POSITION"}, executed : BOOLEAN] ELSE {})

\* Faulty variant: the log is freed whether or not there is a payload.
LogAfterFreed(entries, failed) == <<>>

\* server_core_commit frees the log when its edits are in the payload.
LogAfter(entries, failed) == IF "payload" \in failed THEN entries ELSE <<>>

\* server_core_submit and server_core_commit, any of whose allocations may fail.  An entry
\* that is not logged is forgotten.  With nothing in the log the version stays; it stays as
\* well when there is no memory for its text, but the log is announced all the same.
\* Without a payload the thread unlocks and goes on; the log is kept for the next payload.
SubmitAndCommit(c) ==
    /\ At(c, "commit")
    /\ \E failed \in SUBSET Allocations :
         \E call \in IF "command" \in failed THEN Abandoned(c) ELSE Completed(c) :
           LET entry == [user |-> c, id |-> cmd[c].id, result |-> call.result]
               entries == IF "entry" \in failed THEN log ELSE Append(log, entry)
               taken == IF call.executed THEN Append(pending, entry) ELSE pending
               untold == call.executed /\ {"command", "entry"} \cap failed # {}
               advances == entries # <<>> /\ "version" \notin failed
           IN
           /\ faults + Cardinality(failed) <= MaxFaults
           /\ faults' = faults + Cardinality(failed)
           /\ "version" \in failed => entries # <<>>
           /\ version' = IF advances THEN version + 1 ELSE version
           /\ text' = IF advances THEN text \o taken ELSE text
           /\ pending' = IF advances THEN <<>> ELSE taken
           /\ log' = LogAfter(entries, failed)
           /\ owed' = [d \in Clients |-> IF InRegistry(d) /\ "entry" \notin failed
                                         THEN Append(owed[d], entry) ELSE owed[d]]
           /\ drifted' = IF untold THEN drifted \cup {d \in Clients : InRegistry(d)} ELSE drifted
           /\ IF "payload" \in failed
                THEN /\ lock' = NoClient
                     /\ Goto(c, "read")
                     /\ UNCHANGED <<payload, cursor>>
                ELSE /\ payload' = [kind |-> "payload", version |-> version', edits |-> entries]
                     /\ cursor' = 1
                     /\ Goto(c, "broadcast")
                     /\ UNCHANGED lock
    /\ UNCHANGED <<serverUp, cmd, registry, history, c2s, s2c, processVars, shown>>

-------------------------------------------------------------------------------
(* The steps of CollabServer, with what they leave in the history variables *)

\* send_initial_document.  A client is owed what is in the log, although its document may
\* hold some of it already; unless log and pending edits agree, it cannot know the text.
GreetAndRecord(c) ==
    /\ Greet(c)
    /\ owed' = [owed EXCEPT ![c] = log]
    /\ drifted' = IF Play(text, log) = text \o pending THEN drifted ELSE drifted \cup {c}
    /\ UNCHANGED <<faults, log, pending, shown>>

ReadAndRecord(c) ==
    /\ ReadPayload(c)
    /\ shown' = [shown EXCEPT ![c] = @ \o Head(Incoming(c)).edits]
    /\ UNCHANGED <<faults, log, pending, owed, drifted>>

Session(c) ==
    \/ Authenticate(c) \/ Refuse(c) \/ NoUsername(c) \/ Lock(c) \/ Register(c)
    \/ ReadCommand(c) \/ ReadEof(c) \/ Broadcast(c) \/ EndBroadcast(c) \/ Leave(c)

Proceed(c) ==
    ReadSnapshot(c) \/ ReadReject(c) \/ WriteCommand(c) \/ Hangup(c) \/ Finish(c)

FaultyThread(c) ==
    \/ Session(c) /\ UNCHANGED faultVars
    \/ GreetAndRecord(c)
    \/ SubmitAndCommit(c)

FaultyProcess(c) ==
    \/ Proceed(c) /\ UNCHANGED faultVars
    \/ ReadAndRecord(c)

\* The calls that fail; those of SubmitAndCommit may fail too.
FaultOf(c) ==
    \/ InterruptUsername(c) \/ LookupFails(c) \/ GreetFails(c) \/ RegisterFails(c)
    \/ InterruptRead(c) \/ InterruptBroadcast(c)

FaultyInit ==
    /\ Init
    /\ faults = 0
    /\ log = <<>>
    /\ pending = <<>>
    /\ owed = [c \in Clients |-> <<>>]
    /\ shown = [c \in Clients |-> <<>>]
    /\ drifted = {}

FaultyNext ==
    \E c \in Clients :
        \/ FaultyThread(c) \/ FaultyProcess(c) \/ FaultOf(c)
        \/ User(c) /\ UNCHANGED faultVars

FaultySpec == FaultyInit /\ [][FaultyNext]_<<vars, faultVars>>

\* The threads and processes run as in CollabServer; no fault need happen.
FaultyFairSpec ==
    /\ FaultySpec
    /\ \A c \in Clients :
         /\ WF_<<vars, faultVars>>(FaultyThread(c))
         /\ WF_<<vars, faultVars>>(FaultyProcess(c))

-------------------------------------------------------------------------------
(* Properties *)

\* Every variable holds what its C counterpart can hold, also when calls fail.
FaultyTypeOK ==
    /\ TypeOK
    /\ faults \in 0 .. MaxFaults
    /\ log \in Seq(Entry) /\ pending \in Seq(Entry)
    /\ owed \in [Clients -> Seq(Entry)] /\ shown \in [Clients -> Seq(Entry)]
    /\ drifted \subseteq Clients

\* The edits that some messages bring, in their order.
Bring(edits, message) == IF message.kind = "payload" THEN edits \o message.edits ELSE edits
Edits(messages) == FoldLeft(Bring, <<>>, messages)

\* What a broadcast under way still has to bring to c.
Outstanding(c) == IF Awaiting(c) THEN payload.edits ELSE <<>>

\* What c has still to be told of, in the order in which it will read it.
Due(c) == Edits(Incoming(c)) \o Outstanding(c) \o log

Connected(c) == client[c] \notin {"absent", "closed"}

\* An interrupted broadcast costs a client the edits of its payload and nothing else.  Whatever
\* else is logged while the client is registered, or was in the log when it got its document,
\* has been read, is on its way, is still to be broadcast or is in the log, once and in
\* order: a commit that fails for want of memory costs nobody an edit.
OnlySkippedMissed ==
    \A c \in Clients : Connected(c) =>
        /\ pc[c] \in Registered \cup {"register"} => shown[c] \o Due(c) = owed[c]
        /\ pc[c] = "done" => IsPrefix(shown[c] \o Edits(Incoming(c)), owed[c])

\* The text of the document that a client has or that is on its way to it.
TextHeld(c) == IF client[c] = "greeting" THEN Head(s2c[c]).text ELSE view[c].text

\* What a client has read, and is still to be told, adds up to the text of the server with
\* its pending edits, unless the client was left out of a successful edit, got its document
\* when log and pending edits did not agree, or was there when an edit was lost from the
\* log or done by half: no other failure lets the texts drift apart.
OnlyDriftedDiffer ==
    \A c \in Clients \ drifted :
        Connected(c) /\ pc[c] \in Registered \cup {"register"} =>
            Play(TextHeld(c), Due(c)) = text \o pending

\* A client whose session was ended by a fault does not hang: whatever it was doing, its
\* process comes to the end of its FIFO, or to a FIFO nobody reads, and exits.
DroppedClientsExit == \A c \in Clients : pc[c] = "done" ~> client[c] = "closed"
===============================================================================
