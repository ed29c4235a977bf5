----------------------------- MODULE CollabServer -----------------------------
(***************************************************************************)
(* The server process of server.c together with the client processes of    *)
(* client.c, from the moment a client and its server thread have opened    *)
(* both FIFOs.  One server thread per client (client_thread_main) shares   *)
(* one mutex, one client registry (client_registry.c) and one server core  *)
(* (server_core.c).  The registry is a linked list, newest client first;   *)
(* its order is the order of a broadcast.                                  *)
(*                                                                         *)
(* The text of the document is abstracted to the sequence of the edits     *)
(* that succeeded: a command either changes the text (SUCCESS) or leaves   *)
(* it alone (a Reject result).  What an edit does to the characters is the *)
(* subject of module Markdown.                                             *)
(*                                                                         *)
(* A write to a FIFO that nobody reads raises SIGPIPE, which the server    *)
(* neither handles nor ignores: it ends the process (serverUp).            *)
(*                                                                         *)
(* A client waits in select for its FIFO descriptor but reads through a    *)
(* stdio stream: one read may take several payloads from the FIFO into the *)
(* buffer of the stream (inbuf), where select does not see them.           *)
(***************************************************************************)
EXTENDS Integers, Sequences, FiniteSets, SequencesExt

CONSTANTS
    Clients,      \* client processes, named by their pid
    Writers,      \* clients whose user has role "write" in config/roles.txt
    Readers,      \* clients whose user has role "read"
    Leavers,      \* clients that may type DISCONNECT, reach end of input or be killed
    NoClient,     \* nobody: the mutex is free
    PipeCap,      \* how many messages one FIFO holds (bound)
    MaxCommands   \* how many lines each client types (bound)

ASSUME RolesAssumption ==
    Writers \subseteq Clients /\ Readers \subseteq Clients /\ Writers \cap Readers = {}
ASSUME LeaversAssumption == Leavers \subseteq Clients
ASSUME NoClientAssumption == NoClient \notin Clients
ASSUME BoundsAssumption == PipeCap \in Nat \ {0} /\ MaxCommands \in [Clients -> Nat]

VARIABLES
    serverUp,   \* the server process is alive
    lock,       \* the client whose thread holds the mutex
    pc,         \* where each client's thread is in client_thread_main
    cmd,        \* command_line of each thread
    registry,   \* client_registry: the registered clients, head first
    version,    \* core->current_version
    text,       \* the committed document
    payload,    \* the broadcast payload built by server_core_commit
    cursor,     \* cur of client_registry_broadcast: index into the registry
    c2s,        \* FIFO_C2S_<pid>
    s2c,        \* FIFO_S2C_<pid>
    inbuf,      \* the messages in the stdio buffer of the client's end of s2c
    client,     \* where each client process is in main
    selected,   \* FD_ISSET(s2c_fd): what select said before a line was written
    input,      \* input: the line a client is writing to its FIFO
    typed,      \* how many lines each client has typed
    view,       \* the version and text that what a client has printed adds up to
    history     \* history variable: history[v] is the entry and the text of version v

coreVars == <<version, text, payload, cursor, history>>
threadVars == <<lock, pc, cmd, registry>>
processVars == <<inbuf, client, selected, input, typed, view>>
vars == <<serverUp, threadVars, coreVars, c2s, s2c, processVars>>

-------------------------------------------------------------------------------
(* Data *)

Kind == {"edit", "junk", "disconnect"}
Command == [id : Nat, kind : Kind]

Result == {"SUCCESS", "INVALID_POSITION", "UNAUTHORISED", "INVALID_COMMAND"}
Entry == [user : Clients, id : Nat, result : Result]

Text == Seq(Entry)

Snapshot == [kind : {"snapshot"}, version : Nat, text : Text]
Payload == [kind : {"payload"}, version : Nat, edits : Seq(Entry)]
Reject == [kind |-> "reject"]
NoPayload == [kind |-> "none"]
Message == Snapshot \cup Payload \cup {Reject}

\* What committing a logged entry does to the text: only a SUCCESS changes it.
Apply(txt, entry) == IF entry.result = "SUCCESS" THEN Append(txt, entry) ELSE txt

\* What the edits of a payload do to it, one after the other.
Play(txt, edits) == FoldLeft(Apply, txt, edits)

\* Faulty variant: the version given to the editing functions is an old one.
OutcomesOutdated(c, command) == {"SUCCESS", "OUTDATED_VERSION"}

\* Faulty variant: the role is not looked at.
OutcomesAnyRole(c, command) ==
    IF command.kind = "edit" THEN {"SUCCESS", "INVALID_POSITION"} ELSE {"INVALID_COMMAND"}

\* The results command_execute may return for a line: a line it cannot parse is an
\* INVALID_COMMAND, a write command of a reader is UNAUTHORISED, and whether a
\* writer's position is valid depends on the text.
Outcomes(c, command) ==
    CASE command.kind # "edit" -> {"INVALID_COMMAND"}
      [] command.kind = "edit" /\ c \in Writers -> {"SUCCESS", "INVALID_POSITION"}
      [] OTHER -> {"UNAUTHORISED"}

\* The text of version v, and the payload that takes a client from v - 1 to v.
TextOf(v) == IF v = 0 THEN <<>> ELSE history[v].text
PayloadOf(v) == [kind |-> "payload", version |-> v, edits |-> <<history[v].entry>>]

InRegistry(c) == \E i \in DOMAIN registry : registry[i] = c

-------------------------------------------------------------------------------
(* Writing to the FIFO of a client *)

\* A write blocks while the FIFO is full.
Send(c, message) ==
    /\ client[c] # "closed"
    /\ Len(s2c[c]) < PipeCap
    /\ s2c' = [s2c EXCEPT ![c] = Append(@, message)]

\* Nobody reads the FIFO any more: SIGPIPE ends the server.
BrokenPipe(c) ==
    /\ client[c] = "closed"
    /\ serverUp' = FALSE
    /\ UNCHANGED <<threadVars, coreVars, c2s, s2c, processVars>>

-------------------------------------------------------------------------------
(* The thread of client c *)

At(c, label) == serverUp /\ pc[c] = label
Goto(c, label) == pc' = [pc EXCEPT ![c] = label]

\* The user is in roles.txt: go on to join.  A client that died after writing its
\* name is authenticated like any other.
Authenticate(c) ==
    /\ At(c, "auth")
    /\ c \in Writers \cup Readers
    /\ Goto(c, "join")
    /\ UNCHANGED <<serverUp, lock, cmd, registry, coreVars, c2s, s2c, processVars>>

\* Unknown user: write the rejection, sleep, close both FIFOs and end the thread.
Refuse(c) ==
    /\ At(c, "auth")
    /\ c \notin Writers \cup Readers
    /\ \/ /\ Send(c, Reject)
          /\ Goto(c, "done")
          /\ UNCHANGED <<serverUp, lock, cmd, registry, coreVars, c2s, processVars>>
       \/ BrokenPipe(c)

\* The client was gone before it wrote its name: fgets returns NULL.
NoUsername(c) ==
    /\ At(c, "auth")
    /\ client[c] = "closed"
    /\ Goto(c, "done")
    /\ UNCHANGED <<serverUp, lock, cmd, registry, coreVars, c2s, s2c, processVars>>

\* Faulty variant: the mutex does not exclude.
LockShared(c) ==
    /\ lock' = c
    /\ \/ At(c, "join") /\ Goto(c, "greet")
       \/ At(c, "submit") /\ Goto(c, "commit")
    /\ UNCHANGED <<serverUp, cmd, registry, coreVars, c2s, s2c, processVars>>

\* pthread_mutex_lock before the initial document and before a command.
Lock(c) ==
    /\ lock = NoClient
    /\ lock' = c
    /\ \/ At(c, "join") /\ Goto(c, "greet")
       \/ At(c, "submit") /\ Goto(c, "commit")
    /\ UNCHANGED <<serverUp, cmd, registry, coreVars, c2s, s2c, processVars>>

\* Faulty variant: the mutex is released between the document and the registration.
GreetThenUnlock(c) ==
    /\ At(c, "greet")
    /\ \/ /\ Send(c, [kind |-> "snapshot", version |-> version, text |-> text])
          /\ Goto(c, "register")
          /\ lock' = NoClient
          /\ UNCHANGED <<serverUp, cmd, registry, coreVars, c2s, processVars>>
       \/ BrokenPipe(c)

\* send_initial_document.
Greet(c) ==
    /\ At(c, "greet")
    /\ \/ /\ Send(c, [kind |-> "snapshot", version |-> version, text |-> text])
          /\ Goto(c, "register")
          /\ UNCHANGED <<serverUp, lock, cmd, registry, coreVars, c2s, processVars>>
       \/ BrokenPipe(c)

\* client_registry_add at the head of the list, then unlock.
Register(c) ==
    /\ At(c, "register")
    /\ IF InRegistry(c)
         THEN Goto(c, "done") /\ UNCHANGED registry
         ELSE Goto(c, "read") /\ registry' = <<c>> \o registry
    /\ lock' = NoClient
    /\ UNCHANGED <<serverUp, cmd, coreVars, c2s, s2c, processVars>>

\* Faulty variant: the line is not taken out of the FIFO.
ReadCommandTwice(c) ==
    /\ At(c, "read")
    /\ c2s[c] # <<>>
    /\ cmd' = [cmd EXCEPT ![c] = Head(c2s[c])]
    /\ Goto(c, IF Head(c2s[c]).kind = "disconnect" THEN "leave" ELSE "submit")
    /\ UNCHANGED <<serverUp, lock, registry, coreVars, c2s, s2c, processVars>>

\* Faulty variant: a line that is not a command is dropped without an answer.
ReadCommandOrDrop(c) ==
    /\ At(c, "read")
    /\ c2s[c] # <<>>
    /\ c2s' = [c2s EXCEPT ![c] = Tail(@)]
    /\ cmd' = [cmd EXCEPT ![c] = Head(c2s[c])]
    /\ Goto(c, CASE Head(c2s[c]).kind = "disconnect" -> "leave"
                 [] Head(c2s[c]).kind = "junk" -> "read"
                 [] OTHER -> "submit")
    /\ UNCHANGED <<serverUp, lock, registry, coreVars, s2c, processVars>>

\* fgets returns the next line of the client.
ReadCommand(c) ==
    /\ At(c, "read")
    /\ c2s[c] # <<>>
    /\ c2s' = [c2s EXCEPT ![c] = Tail(@)]
    /\ cmd' = [cmd EXCEPT ![c] = Head(c2s[c])]
    /\ Goto(c, IF Head(c2s[c]).kind = "disconnect" THEN "leave" ELSE "submit")
    /\ UNCHANGED <<serverUp, lock, registry, coreVars, s2c, processVars>>

\* Faulty variant: end of file is taken for a signal and the read is tried again.
ReadEofRetry(c) ==
    /\ At(c, "read")
    /\ c2s[c] = <<>>
    /\ client[c] = "closed"
    /\ UNCHANGED vars

\* fgets returns NULL: the client has closed its end and nothing is left to read.
ReadEof(c) ==
    /\ At(c, "read")
    /\ c2s[c] = <<>>
    /\ client[c] = "closed"
    /\ Goto(c, "leave")
    /\ UNCHANGED <<serverUp, lock, cmd, registry, coreVars, c2s, s2c, processVars>>

\* Faulty variant: the payload is built before the version is incremented.
CommitStaleVersion(c) ==
    /\ At(c, "commit")
    /\ \E result \in Outcomes(c, cmd[c]) :
         LET entry == [user |-> c, id |-> cmd[c].id, result |-> result] IN
         /\ version' = version + 1
         /\ text' = Apply(text, entry)
         /\ history' = Append(history, [entry |-> entry, text |-> text'])
         /\ payload' = [kind |-> "payload", version |-> version, edits |-> <<entry>>]
    /\ cursor' = 1
    /\ Goto(c, "broadcast")
    /\ UNCHANGED <<serverUp, lock, cmd, registry, c2s, s2c, processVars>>

\* server_core_submit executes and logs the command, server_core_commit commits
\* the log (of one entry) as the next version and builds the payload; the
\* broadcast starts at the head of the registry.
Commit(c) ==
    /\ At(c, "commit")
    /\ \E result \in Outcomes(c, cmd[c]) :
         LET entry == [user |-> c, id |-> cmd[c].id, result |-> result] IN
         /\ version' = version + 1
         /\ text' = Apply(text, entry)
         /\ history' = Append(history, [entry |-> entry, text |-> text'])
         /\ payload' = [kind |-> "payload", version |-> version', edits |-> <<entry>>]
    /\ cursor' = 1
    /\ Goto(c, "broadcast")
    /\ UNCHANGED <<serverUp, lock, cmd, registry, c2s, s2c, processVars>>

\* Faulty variant: the author of the command is left out.
BroadcastToOthers(c) ==
    /\ At(c, "broadcast")
    /\ cursor \in DOMAIN registry
    /\ \/ /\ IF registry[cursor] = c THEN UNCHANGED s2c ELSE Send(registry[cursor], payload)
          /\ cursor' = cursor + 1
          /\ UNCHANGED <<serverUp, threadVars, version, text, payload, history,
                         c2s, processVars>>
       \/ BrokenPipe(registry[cursor])

\* One iteration of client_registry_broadcast: fputs and fflush to one client.
Broadcast(c) ==
    /\ At(c, "broadcast")
    /\ cursor \in DOMAIN registry
    /\ \/ /\ Send(registry[cursor], payload)
          /\ cursor' = cursor + 1
          /\ UNCHANGED <<serverUp, threadVars, version, text, payload, history,
                         c2s, processVars>>
       \/ BrokenPipe(registry[cursor])

\* The end of the list: unlock and read the next line.
EndBroadcast(c) ==
    /\ At(c, "broadcast")
    /\ cursor \notin DOMAIN registry
    /\ lock' = NoClient
    /\ Goto(c, "read")
    /\ UNCHANGED <<serverUp, cmd, registry, coreVars, c2s, s2c, processVars>>

\* The list with its i-th node unlinked.
Without(list, i) == SubSeq(list, 1, i - 1) \o SubSeq(list, i + 1, Len(list))

\* client_registry_remove under the mutex: unlink the first node of the client,
\* close its stream; the thread then closes the other FIFO and ends.
Leave(c) ==
    /\ At(c, "leave")
    /\ lock = NoClient
    /\ \E i \in DOMAIN registry :
         /\ registry[i] = c
         /\ \A j \in 1 .. i - 1 : registry[j] # c
         /\ registry' = Without(registry, i)
    /\ Goto(c, "done")
    /\ UNCHANGED <<serverUp, lock, cmd, coreVars, c2s, s2c, processVars>>

Thread(c) ==
    \/ Authenticate(c) \/ Refuse(c) \/ NoUsername(c)
    \/ Lock(c) \/ Greet(c) \/ Register(c)
    \/ ReadCommand(c) \/ ReadEof(c) \/ Commit(c)
    \/ Broadcast(c) \/ EndBroadcast(c) \/ Leave(c)

-------------------------------------------------------------------------------
(* The client process c *)

\* The messages on their way to what the client prints, oldest first.
Incoming(c) == inbuf[c] \o s2c[c]

\* Faulty variant: a thread that ends leaves its streams open.
ServerClosedLate(c) == ~serverUp

\* The thread of c has closed its end of the FIFOs.
ServerClosed(c) == ~serverUp \/ pc[c] = "done"

\* select reports a FIFO with data or without a writer; it knows nothing of inbuf.
Readable(c) == s2c[c] # <<>> \/ ServerClosed(c)

\* One read on an empty stream buffer takes as much of the FIFO as fits: some n of its
\* messages, the first of which the caller consumes.
Refill(c) ==
    \E n \in 1 .. Len(s2c[c]) :
        /\ inbuf' = [inbuf EXCEPT ![c] = SubSeq(s2c[c], 2, n)]
        /\ s2c' = [s2c EXCEPT ![c] = SubSeq(@, n + 1, Len(@))]

\* Both ends are closed by the exit of the process; what it has not read is lost.
Close(c) ==
    /\ client' = [client EXCEPT ![c] = "closed"]
    /\ s2c' = [s2c EXCEPT ![c] = <<>>]
    /\ inbuf' = [inbuf EXCEPT ![c] = <<>>]

\* The connection handshake: both FIFOs are open and the user name is on its way.
Connect(c) ==
    /\ serverUp
    /\ client[c] = "absent"
    /\ client' = [client EXCEPT ![c] = "greeting"]
    /\ Goto(c, "auth")
    /\ UNCHANGED <<serverUp, lock, cmd, registry, coreVars, c2s, s2c,
                   inbuf, selected, input, typed, view>>

\* Role, version, length and text of the initial document: the first message read.
ReadSnapshot(c) ==
    /\ client[c] = "greeting"
    /\ s2c[c] # <<>>
    /\ Head(s2c[c]).kind = "snapshot"
    /\ Refill(c)
    /\ view' = [view EXCEPT ![c] = [version |-> Head(s2c[c]).version,
                                    text |-> Head(s2c[c]).text]]
    /\ client' = [client EXCEPT ![c] = "ready"]
    /\ UNCHANGED <<serverUp, threadVars, coreVars, c2s, selected, input, typed>>

\* "Reject UNAUTHORISED" instead of a role: print it and exit.
ReadReject(c) ==
    /\ client[c] = "greeting"
    /\ s2c[c] # <<>>
    /\ Head(s2c[c]).kind = "reject"
    /\ Close(c)
    /\ UNCHANGED <<serverUp, threadVars, coreVars, c2s, selected, input, typed, view>>

\* select reported the FIFO: read and print one payload, from VERSION to END.  What
\* is in the stream buffer is served first, without a read.
ReadPayload(c) ==
    /\ \/ client[c] = "ready" /\ Readable(c)
       \/ client[c] = "reading"
    /\ Incoming(c) # <<>>
    /\ \/ /\ inbuf[c] # <<>>
          /\ inbuf' = [inbuf EXCEPT ![c] = Tail(@)]
          /\ UNCHANGED s2c
       \/ /\ inbuf[c] = <<>>
          /\ Refill(c)
    /\ LET message == Head(Incoming(c)) IN
         view' = [view EXCEPT ![c] = [version |-> message.version,
                                      text |-> Play(@.text, message.edits)]]
    /\ client' = [client EXCEPT ![c] = "ready"]
    /\ selected' = [selected EXCEPT ![c] = FALSE]
    /\ UNCHANGED <<serverUp, threadVars, coreVars, c2s, input, typed>>

\* Faulty variant: the FIFO is read after every line, whatever select said.
TypeThenRead(c) ==
    /\ client[c] = "ready"
    /\ typed[c] < MaxCommands[c]
    /\ \E kind \in Kind :
         /\ kind = "disconnect" => c \in Leavers
         /\ input' = [input EXCEPT ![c] = [id |-> typed[c] + 1, kind |-> kind]]
    /\ typed' = [typed EXCEPT ![c] = @ + 1]
    /\ selected' = [selected EXCEPT ![c] = TRUE]
    /\ client' = [client EXCEPT ![c] = "writing"]
    /\ UNCHANGED <<serverUp, threadVars, coreVars, c2s, s2c, inbuf, view>>

\* select reports standard input, and perhaps the FIFO too: take a line and start
\* writing it.
TypeCommand(c) ==
    /\ client[c] = "ready"
    /\ typed[c] < MaxCommands[c]
    /\ \E kind \in Kind :
         /\ kind = "disconnect" => c \in Leavers
         /\ input' = [input EXCEPT ![c] = [id |-> typed[c] + 1, kind |-> kind]]
    /\ typed' = [typed EXCEPT ![c] = @ + 1]
    /\ selected' = [selected EXCEPT ![c] = Readable(c)]
    /\ client' = [client EXCEPT ![c] = "writing"]
    /\ UNCHANGED <<serverUp, threadVars, coreVars, c2s, s2c, inbuf, view>>

\* fputs and fflush block while the FIFO is full; a client does not read meanwhile.
\* Then it leaves the loop, reads the FIFO that select had reported, or selects again.
WriteCommand(c) ==
    /\ client[c] = "writing"
    /\ ~ServerClosed(c)
    /\ Len(c2s[c]) < PipeCap
    /\ c2s' = [c2s EXCEPT ![c] = Append(@, input[c])]
    /\ client' = [client EXCEPT ![c] = CASE input[c].kind = "disconnect" -> "leaving"
                                         [] input[c].kind # "disconnect" /\ selected[c] -> "reading"
                                         [] OTHER -> "ready"]
    /\ UNCHANGED <<serverUp, threadVars, coreVars, s2c, inbuf, selected, input, typed, view>>

\* The server, or the thread of c, is gone: end of file when reading, SIGPIPE when writing.
Hangup(c) ==
    /\ ServerClosed(c)
    /\ \/ /\ client[c] \in {"greeting", "ready", "reading"}
          /\ Incoming(c) = <<>>
       \/ client[c] = "writing"
    /\ Close(c)
    /\ UNCHANGED <<serverUp, threadVars, coreVars, c2s, selected, input, typed, view>>

\* After DISCONNECT main closes both FIFOs and returns.
Finish(c) ==
    /\ client[c] = "leaving"
    /\ Close(c)
    /\ UNCHANGED <<serverUp, threadVars, coreVars, c2s, selected, input, typed, view>>

\* End of standard input, an interrupt, or the process is killed.
Quit(c) ==
    /\ c \in Leavers
    /\ client[c] \in {"greeting", "ready", "writing", "reading"}
    /\ Close(c)
    /\ UNCHANGED <<serverUp, threadVars, coreVars, c2s, selected, input, typed, view>>

Process(c) ==
    \/ ReadSnapshot(c) \/ ReadReject(c) \/ ReadPayload(c)
    \/ WriteCommand(c) \/ Hangup(c) \/ Finish(c)

User(c) == Connect(c) \/ TypeCommand(c) \/ Quit(c)

-------------------------------------------------------------------------------
NoCommand == [id |-> 0, kind |-> "junk"]

Init ==
    /\ serverUp = TRUE
    /\ lock = NoClient
    /\ pc = [c \in Clients |-> "none"]
    /\ cmd = [c \in Clients |-> NoCommand]
    /\ registry = <<>>
    /\ version = 0
    /\ text = <<>>
    /\ payload = NoPayload
    /\ cursor = 1
    /\ c2s = [c \in Clients |-> <<>>]
    /\ s2c = [c \in Clients |-> <<>>]
    /\ inbuf = [c \in Clients |-> <<>>]
    /\ client = [c \in Clients |-> "absent"]
    /\ selected = [c \in Clients |-> FALSE]
    /\ input = [c \in Clients |-> NoCommand]
    /\ typed = [c \in Clients |-> 0]
    /\ view = [c \in Clients |-> [version |-> 0, text |-> <<>>]]
    /\ history = <<>>

Next == \E c \in Clients : Thread(c) \/ Process(c) \/ User(c)

Spec == Init /\ [][Next]_vars

\* The scheduler runs every thread and process that can run; nobody makes a user
\* start a client, type or leave.  A blocked pthread_mutex_lock is only promised
\* weak fairness.
Fairness == \A c \in Clients : WF_vars(Thread(c)) /\ WF_vars(Process(c))

FairSpec == Spec /\ Fairness

-------------------------------------------------------------------------------
(* Safety *)

\* The client has its initial document and has not closed its FIFOs.
Open(c) == client[c] \in {"ready", "writing", "reading", "leaving"}

Labels == {"none", "auth", "join", "greet", "register", "read", "submit", "commit",
           "broadcast", "leave", "done"}
States == {"absent", "greeting", "ready", "writing", "reading", "leaving", "closed"}

\* Every variable holds what its C counterpart can hold (server.c, server_core.c,
\* client_registry.c, client.c).
TypeOK ==
    /\ serverUp \in BOOLEAN
    /\ lock \in Clients \cup {NoClient}
    /\ pc \in [Clients -> Labels]
    /\ cmd \in [Clients -> Command]
    /\ registry \in Seq(Clients)
    /\ version \in Nat
    /\ text \in Text
    /\ payload \in Payload \cup {NoPayload}
    /\ cursor \in Nat
    /\ c2s \in [Clients -> Seq(Command)]
    /\ s2c \in [Clients -> Seq(Message)]
    /\ inbuf \in [Clients -> Seq(Message)]
    /\ client \in [Clients -> States]
    /\ selected \in [Clients -> BOOLEAN]
    /\ input \in [Clients -> Command]
    /\ typed \in [Clients -> Nat]
    /\ view \in [Clients -> [version : Nat, text : Text]]
    /\ history \in Seq([entry : Entry, text : Text])

\* The mutex is held exactly by the thread that is between lock and unlock: at most
\* one thread greets, registers, commits or broadcasts.
MutexHeld ==
    \A c \in Clients : lock = c <=> pc[c] \in {"greet", "register", "commit", "broadcast"}

\* The threads that may be served from the registry.
Registered == {"read", "submit", "commit", "broadcast", "leave"}

\* The registry holds each client whose thread is between add and remove, once, and
\* nobody else: no stream that a thread has given up is left for a broadcast.
RegistrySound ==
    /\ \A i, j \in DOMAIN registry : registry[i] = registry[j] => i = j
    /\ \A c \in Clients : InRegistry(c) <=> pc[c] \in Registered

\* Each version is one entry on top of the one before, and core->current_version
\* names the last.
HistorySound ==
    /\ Len(history) = version
    /\ text = TextOf(version)
    /\ \A v \in 1 .. version : history[v].text = Apply(TextOf(v - 1), history[v].entry)
    /\ \A v \in 1 .. version :
         history[v].entry.result = "SUCCESS" => history[v].entry.user \in Writers

\* A broadcast sends the payload of the version just committed.
BroadcastSound ==
    \A c \in Clients : pc[c] = "broadcast" =>
        /\ version > 0
        /\ payload = PayloadOf(version)
        /\ cursor \in 1 .. Len(registry) + 1

\* The messages are the payloads of the versions after v, in order and without a gap.
Payloads(messages, v) ==
    /\ v + Len(messages) <= version
    /\ \A i \in DOMAIN messages : messages[i] = PayloadOf(v + i)

\* What a client without a document finds: nothing yet, a rejection, or a document
\* of some version and the payloads that follow that version.
GreetingStream(c) == client[c] = "greeting" =>
    /\ inbuf[c] = <<>>
    /\ \/ pc[c] \in {"auth", "join", "greet"} /\ s2c[c] = <<>>
       \/ pc[c] = "done" /\ s2c[c] = <<Reject>>
       \/ /\ pc[c] \in Registered \cup {"register"}
          /\ s2c[c] # <<>>
          /\ s2c[c][1].kind = "snapshot"
          /\ s2c[c][1].version \in 0 .. version
          /\ s2c[c][1].text = TextOf(s2c[c][1].version)
          /\ Payloads(Tail(s2c[c]), s2c[c][1].version)

\* What a client with a document holds and finds: the text of the version it is at,
\* and the payloads that follow that version.
OpenStream(c) == Open(c) =>
    /\ pc[c] \in Registered \cup {"register", "done"}
    /\ view[c].version \in 0 .. version
    /\ view[c].text = TextOf(view[c].version)
    /\ Payloads(Incoming(c), view[c].version)

\* Whatever the interleaving of commits, broadcasts, joins and reads, no client is
\* ever shown a text no version had, a version twice, or a version out of order.
StreamSound == \A c \in Clients : GreetingStream(c) /\ OpenStream(c)

\* The last version sent to a client.
LastSent(c) ==
    IF client[c] = "greeting" THEN s2c[c][1].version + Len(s2c[c]) - 1
    ELSE view[c].version + Len(Incoming(c))

\* A broadcast is under way that has not come to c yet.
Awaiting(c) == \E d \in Clients :
    pc[d] = "broadcast" /\ \E i \in DOMAIN registry : i >= cursor /\ registry[i] = c

\* A registered client has been sent everything up to the current version, but for
\* the version a broadcast under way still has to bring it: no update falls between
\* the initial document and the registration, or is lost as the registry changes.
NoUpdateMissed ==
    \A c \in Clients :
        pc[c] \in Registered \cup {"register"} /\ client[c] \notin {"absent", "closed"} =>
            LastSent(c) = IF Awaiting(c) THEN version - 1 ELSE version

\* The phases of a client's process and of its thread fit together, and a client that is
\* not connected yet has sent no command.
ConnectionSound ==
    \A c \in Clients :
        /\ client[c] = "absent" <=> pc[c] = "none"
        /\ client[c] \in {"absent", "closed"} => inbuf[c] = <<>> /\ s2c[c] = <<>>
        /\ client[c] \in {"absent", "greeting"} =>
             c2s[c] = <<>> /\ pc[c] \notin {"submit", "commit", "broadcast", "leave"}

\* The inductive invariant that carries the safety of server.c with its clients: each part
\* is preserved by every action, given the others.
IndInv == TypeOK /\ MutexHeld /\ RegistrySound /\ HistorySound /\ BroadcastSound
          /\ ConnectionSound /\ StreamSound /\ NoUpdateMissed

\* When a client returns to a FIFO that select reported before it wrote a line, the
\* read does not block: it has not been overtaken by anything.
ReadNeverBlocks ==
    \A c \in Clients :
        client[c] = "reading" \/ (client[c] = "writing" /\ selected[c]) => Readable(c)

\* The line a thread has read and not committed, and the line a client is writing.
InHand(c) == IF pc[c] \in {"submit", "commit", "leave"} THEN <<cmd[c]>> ELSE <<>>
Unwritten(c) == IF client[c] = "writing" THEN <<input[c]>> ELSE <<>>

\* What c has typed and the server has not committed, oldest first.
Uncommitted(c) == InHand(c) \o c2s[c] \o Unwritten(c)

\* The versions that c has authored.
Own(c) == {v \in DOMAIN history : history[v].entry.user = c}

\* Of the lines that c has typed the first are committed, and the others, in the order of
\* typing, are not.
InOrder(c) ==
    LET committed == typed[c] - Len(Uncommitted(c)) IN
    /\ committed >= 0
    /\ {history[v].entry.id : v \in Own(c)} = 1 .. committed
    /\ \A v, w \in Own(c) : v < w => history[v].entry.id < history[w].entry.id
    /\ \A i \in DOMAIN Uncommitted(c) : Uncommitted(c)[i].id = committed + i

\* Exactly once and in order: what a connected client has typed is committed, in hand, in
\* its FIFO or being written, in the order of typing, none lost or repeated.
CommandsInOrder ==
    \A c \in Clients : Open(c) /\ pc[c] # "done" => InOrder(c)

\* The abstract document: the replica of an open client is what it has printed.
Offline == [version |-> -1]
Document == INSTANCE SharedDocument
    WITH replica <- [c \in Clients |-> IF Open(c) THEN view[c] ELSE Offline]

\* The server with its clients implements the shared document.
ImplementsDocument == Document!Spec

-------------------------------------------------------------------------------
(* Liveness *)

\* No behaviour commits more versions than its clients can type lines.
MaxVersions == Cardinality(UNION {{c} \X (1 .. MaxCommands[c]) : c \in Clients})

\* README.md:5, "broadcasts committed updates to connected clients": a client that
\* stays is handed every version committed while it is registered.
UpdatesDelivered ==
    \A c \in Clients \ Leavers : \A v \in 1 .. MaxVersions :
        (InRegistry(c) /\ version >= v) ~> (Open(c) /\ LastSent(c) >= v)

\* Every line typed by a client that stays is committed as a version.
CommandsCommitted ==
    \A c \in Clients \ Leavers : \A k \in 1 .. MaxCommands[c] :
        typed[c] = k ~> \E v \in 1 .. version :
            history[v].entry.user = c /\ history[v].entry.id = k

\* README.md:15, "Broadcast payloads for client synchronisation": a client that stays
\* gets to show every version committed while it is registered.
UpdatesDisplayed ==
    \A c \in Clients \ Leavers : \A v \in 1 .. MaxVersions :
        (InRegistry(c) /\ version >= v) ~> view[c].version >= v

\* The thread of a client that is gone ends and takes its stream off the registry.
ClosedClientsRemoved ==
    \A c \in Clients :
        client[c] = "closed" ~> (~serverUp \/ (pc[c] = "done" /\ ~InRegistry(c)))
===============================================================================
