# TLA+ models of the collaboration server

The repository is a Markdown editing server in C: one server process with a thread per client,
client processes that talk to it through a pair of FIFOs each, and a document engine that applies
commands in versions. This directory models the server, the clients, the connection handshake, the
texts they exchange and the document engine in TLA+, checks them with TLC on small instances, and
proves the main invariants with TLAPS for every instance. `src/src/server.c` is written `server.c`
below, and so on.

## Inventory

| Component | State | Operations | Module |
|---|---|---|---|
| Main loop and signal handler (`server.c:38-50, 320-419`) | `connect_received`, `pending_client_pid` | handler, pause loop, `pthread_create` | `Handshake` |
| Server thread (`client_thread_main`, `server.c:129-302`) | its position, `command_line`, the FIFO streams | handshake, authentication, initial document, command loop, removal | `Handshake`, `CollabServer`, `FaultyServer` |
| Mutex | holder | lock, unlock | `CollabServer` |
| Client registry (`client_registry.c`) | linked list of clients, newest first | find, add, remove, broadcast | `CollabServer`, `FaultyServer` |
| Server core (`server_core.c`) | document, `current_version`, log of pending entries | submit, commit, flatten | `CollabServer` (abstract text), `ServerCore` (real text) |
| Document engine (`markdown.c`) | committed text, pending operations, version | twelve editing functions, working text, position transform, renumbering, version increment | `Markdown`, `OrderedLists` |
| Command dispatch (`command.c`) | none | validate, role check, parse, dispatch | `CommandLine` (the line), `Markdown` (`Execute`), `CollabServer` (`Outcomes`) |
| Client process (`client.c`) | stream buffer, select result, line being written | connect, read document, select loop | `Handshake`, `CollabServer`, `Wire` |
| Wire format (`server.c`, `client.c`, `server_core.c`) | none | user name, lines, document, payloads, and taking them apart | `Wire`, `Lines` |
| Roles (`auth.c`, `config/roles.txt`) | `strtok`'s static pointer | lookup | `Roles`, `RoleLookup`; `Writers` and `Readers` in `CollabServer` |
| Demo pair (`server_demo.c`, `client_demo.c`) | one core, one FIFO pair | the core loop without registry and mutex | not modelled |

How they interact: a client signals the server process; the handler leaves its pid for the main
loop, which starts a thread; the thread makes two FIFOs and signals back; both open them. The thread
then looks up the user's role, takes the mutex, writes the initial document, adds the client to the
registry and releases the mutex. For every line it reads it takes the mutex, submits the command,
commits it as a version of its own and writes the payload to the FIFO of every registered client.
The threads share the core and the registry, under the mutex; the handler and the main loop share
two flags, and the role lookups share `strtok`'s pointer, under nothing. Clients share nothing but
what they are sent.

What is hard, and what makes each part correct:

* **Joining** while others commit: the document a client gets and the payloads it gets afterwards
  must fit together (`NoUpdateMissed`, `StreamSound`).
* **Leaving** while others broadcast: a list that changes, a stream that is closed, a FIFO nobody
  reads (`RegistrySound`, `ClosedClientsRemoved`, run `broken_pipe`).
* **Full FIFOs**: a broadcast blocks with the mutex held (run `full`).
* **select and stdio** in the client (`ReadNeverBlocks`, run `display`).
* **Signals**: lost wakeups, overwritten slots, handlers on other threads, and the calls they
  interrupt there (`OneThreadPerSignal`, `OnlySkippedMissed`, `DroppedClientsExit`, run
  `lost_signal`).
* **Failing calls**: error paths that have to undo what was done, a commit that finds no memory
  (`NoFifosLeft`, `EachAnnouncedOnce`, `NeverOutdated`), and what the clients make of the payloads
  after it (`OnlySkippedMissed`, `OnlyDriftedDiffer`).
* **Batches of commands** whose positions refer to different texts, commands made of two
  operations, sizes that wrap around (`PositionsTracked`, `SpansEnclosed`, `BlocksStartLines`,
  `ReplayConverges`, run `delete`).
* **Lines and buffers**: two programs that cut the same stream with buffers of their own, and markers
  that may also be contents (`TypedLinesAligned`, `StreamFramed`, `CommandsRead`).
* **Roles**: a scan that must not take a malformed line for the one it looks for, and that several
  threads do at once (`RolesRead`, run `roles`).

`PROJECT.json` lists every hazard at its line with the properties that cover it.

## Modules

| Module | What it is |
|---|---|
| `SharedDocument` | the abstract specification: one append-only history of versions, clients that move along it one version at a time |
| `CollabServer` | server threads, mutex, registry, core and clients with their FIFOs, from open FIFOs to the end of a session |
| `MCCollab` | how many lines the clients of `CollabServer` type, for TLC |
| `CollabServerProofs` | the inductive invariant of `CollabServer` and its parts; `CollabServer` implements `SharedDocument` |
| `FaultyServer`, `MCFaulty` | `CollabServer` when calls of a session thread fail, by a signal or for want of memory |
| `FaultyServerProofs` | types, mutex and registry of `FaultyServer`, what a client misses there and whose text differs |
| `FoldLaws` | what a fold over a sequence satisfies, for any operator |
| `Handshake` | connect signal, main loop, FIFO creation, opening, and the error paths in between |
| `HandshakeProofs` | one thread per connect signal, FIFOs before the ready signal and gone after the end |
| `OrderedLists` | renumbering of lists, as code and as reference definition |
| `Markdown` | the editing functions and `command_execute` as operators on documents |
| `ServerCore`, `MCCore` | submit and commit over `Markdown`, with failing allocations and a replica that replays the payloads |
| `ServerCoreProofs` | the versions of core and document agree, every logged command is announced once, positions are tracked, replicas converge |
| `CommandLine` | from a line to the command that `Markdown!Execute` takes |
| `Lines`, `Wire` | how `fgets` cuts a stream; what both sides write and how they read it |
| `Roles` | the scan of the roles file, as code and as reference definition |
| `OrderedListsProofs`, `CommandLineProofs` | lists are renumbered, and lines read as commands, as defined, for every text |
| `TextsProofs` | the properties of `MCTexts`: lists, command lines, what is typed, the stream to the client, roles |
| `MCTexts` | texts put together from pieces, for `OrderedLists`, `CommandLine`, `Wire` and `Roles` |
| `RoleLookup`, `MCRoles` | several threads in `auth_lookup_role` |

`CollabServer` EXTENDS nothing of the project and INSTANCEs `SharedDocument`; `FaultyServer` EXTENDS
`CollabServer`; `ServerCore` EXTENDS `Markdown`, which EXTENDS `OrderedLists`. `Handshake` ends where
`CollabServer` begins: its state `serving`/`connected` is `CollabServer`'s action `Connect`.

### CollabServer

`pc[c]` is where the thread of client `c` is:

| `pc` | code | leaves by |
|---|---|---|
| `auth` | `server.c:199-223` | `Authenticate`, `Refuse`, `NoUsername` |
| `join` | `server.c:225` | `Lock` |
| `greet` | `server.c:227-235` | `Greet` |
| `register` | `server.c:237-256` | `Register` |
| `read` | `server.c:264-271` | `ReadCommand`, `ReadEof` |
| `submit` | `server.c:272` | `Lock` |
| `commit` | `server.c:274-275` | `Commit` |
| `broadcast` | `server.c:277-282` | `Broadcast` (once per client), `EndBroadcast` |
| `leave` | `server.c:291-301` | `Leave` |

`Commit` stands for `server_core_submit` and `server_core_commit` together: both run under the
mutex and touch only the core. `Broadcast` is one iteration of the loop of
`client_registry_broadcast`, because each write may block or end the process. `Leave` takes and
releases the mutex in one step, because nothing in between can block.

`client[c]` is where the client process is: `greeting` (`client.c:173-246`), `ready` (in select),
`writing` (`client.c:270-271`), `reading` (back from writing, the FIFO was reported too), `leaving`
(after DISCONNECT or QUIT), `closed`. `s2c` and `c2s` are the FIFOs; `inbuf` is the stream buffer of
the client, filled by `Refill` with any number of whole messages. `selected` is what `FD_ISSET` said before the line
was written.

Abstractions:

* The text is the sequence of the successful edits. That a client can follow the document from the
  payloads is what `ServerCore!ReplayConverges` shows on real texts. A writer's command succeeds
  or has an invalid position, whichever the environment chooses. `DELETED_POSITION` needs
  operations pending from an earlier command, which the server never has while memory lasts;
  `FaultyServer` does not tell the two refusals apart.
* The initial document and a payload are one message each. A FIFO holds `PipeCap` messages, where a
  real one holds bytes; a write that blocks half-way is a write that blocks.
* A line is a command of kind `edit`, `junk` or `disconnect`. That both sides cut what is typed at the
  same places, so that this is a line for both, is `TypedLinesAligned` of run `texts`.
* Every call succeeds; `FaultyServer` adds the failures.

A write to a FIFO without reader is `BrokenPipe`: `serverUp` becomes FALSE and no thread moves any
more. It is a step of the model because `server.c` sets the disposition of one signal only, and that
is not SIGPIPE. The exit of the server closes its ends of all FIFOs; clients then read what is left and leave
(`Hangup`).

### FaultyServer

The calls of a session that may fail, from the user name to its end, and what follows:

| Step | code | what follows |
|---|---|---|
| `InterruptUsername` | `fgets` of the name, EINTR | the thread ends |
| `LookupFails` | `fopen` of the roles file | the user is refused, the thread ends |
| `GreetFails` | `server_core_flatten_doc` returns NULL | unlock, the thread ends |
| `RegisterFails` | `malloc` or `strdup` in `client_registry_add` | unlock, the thread ends; the document was sent |
| `InterruptRead` | `fgets` of a command, EINTR | taken for the end of the client: removal |
| `InterruptBroadcast` | `fflush` into a full FIFO, EINTR | the loop ends, `server.c:278` ignores it |
| `SubmitAndCommit`, `"command"` fails | the copy of the line (`command.c:114`), or an allocation of the engine | the command is rejected; the engine may have enqueued a part of its operations |
| `SubmitAndCommit`, `"entry"` fails | `append_log_entry` | the command is executed, and nobody is told |
| `SubmitAndCommit`, `"version"` fails | `markdown_increment_version` returns | the edits stay pending, the log is announced under the old version |
| `SubmitAndCommit`, `"payload"` fails | `server_core_commit` returns NULL | no broadcast, the log is kept for the next payload |

`SubmitAndCommit` takes the place of `CollabServer!Commit`: any set of its allocations may fail, the
empty one included. A call that is blocked fails with EINTR when the handler of the connect signal
runs on its thread; `pthread_mutex_lock` does not.

Two variables are state of the core that `CollabServer` can do without, since there every command is
committed and announced at once: `log` is `core->pending_head` between two commits, and `pending`
are the edits in the operations of `core->doc` that are not committed. A payload then carries any
number of entries, none to several, and a version number may be announced twice or never; `history`,
which is one entry per version, is not kept. What can be said of the clients is said about edits:

* `owed` is the list of the edits a client is to be told of: what is in the log when it gets its
  document, and every entry logged while it is registered, but not those of a broadcast it was left
  out of. `shown` is what it has read. `OnlySkippedMissed`: what it has read, what is in its FIFO,
  what a broadcast under way still brings it and what is in the log are, in this order, what it is owed.
  So a commit without memory for a version or a payload costs nobody an edit, and an interrupted
  broadcast costs the clients it did not reach its own edits and nothing else.
* `OnlyDriftedDiffer`: the text of a client with all that applied is the text of the server with its
  pending edits. That may fail for a client in `drifted` only: it was left out of a broadcast with a
  successful edit in it; or it was registered when a successful edit was not logged or one was executed
  by half; or it got its document while log and pending edits did not agree. The last happens when
  a version was made and the log kept (the document has the edits, and the log will bring them again) and
  when the log was announced and the version was not made (the document has not got them, and no payload will
  bring them).

`RegistrySound` and `ClosedClientsRemoved` are the same properties as before, now with
threads that end in the middle; `DroppedClientsExit` says that the other side notices.

### Handshake

The main thread executes `server.c:368-404` one access at a time: `Pause`, `Test`, `ReadSlot`,
`ClearReceived`, `ClearSlot`, `Spawn`. The handler is one step on the main thread
(`HandleOnMain`), which does nothing else meanwhile, and two on another thread
(`HandleOnThread`, `ReturnOnThread`), whose assignments interleave with the main loop. POSIX lets
any thread that does not block the signal handle it, and the threads inherit the mask of `main`, which is empty.
The handler is installed without `SA_RESTART`, so the blocking call of a thread that was hit may
fail: its client is dropped. `hit` remembers whom this may have happened to. The queue of signals is in order and loses nothing, as
Linux does with the real-time signals of `server.c:23`; where `server.c:20` takes SIGUSR1 instead,
pending instances merge as well. What is lost in this model is lost by the code. A client that dies before it is waited for may
still be signalled (a zombie), hence the two disjuncts of `SignalReady`.

`RunsOut` adds the failures for want of memory, threads or FIFOs: `Spawn` forgets the client,
`MakeFifos` and `OpenS2C` end the thread, a client that cannot open its FIFOs exits. `Dismiss` is a
session that the server ends. On all of these paths the FIFO pair has to be unlinked
(`NoFifosLeft`).

### Markdown, ServerCore, OrderedLists

A document is a record of the committed text, the pending operations and the version, texts are
sequences of characters. Each editing function is an operator from a document and its arguments to
a document and a result; `Then` is the early return after a failed call. The four span commands are
one operator, `Surround`, with their marks in `Marks`; the block commands are `Block`, with their
tags in `Tags`. `Execute` takes a parsed command: `UNKNOWN` is a line that is not a command at all,
whatever the role, `MALFORMED` a write command whose arguments do not parse. Sizes are modulo
`SizeModulus` where the code adds without a bound. `Renumber` folds the loop of
`renumber_ordered_lists` over what it sees at each index (`Seen`: the character, and whether a line and a
list item begin there) and is compared with `Numbered`, which defines an item's number by its rank in its
block.

`replica` in `ServerCore` is a history variable: the text of a client that replays the commands
reported as SUCCESS on the text of the last version. `unlogged` and `announced` are history
variables too: the commands that could not be logged and those that were in a payload.

Any allocation may fail, `MaxFailures` times. A command that fails in the engine leaves the operations it
had enqueued by then and is logged as `INVALID_POSITION`, since the engine returns -1; one whose line
cannot be copied leaves nothing and is logged as `INVALID_COMMAND` (`OutOfMemory`); one that cannot be
logged is executed all the same; a commit may find no memory for the new text (`stuck`), for the payload (`unannounced`), or for either. The
replica then no longer follows, which `ReplayConverges` exempts; the log and the versions stay sound
(`EachAnnouncedOnce`, `NeverOutdated`).

### CommandLine, Wire, Lines, Roles

These modules are operators only. Texts are sequences of words and single signs, and a buffer of n
bytes takes n - 1 of them: what counts is where a line is cut and what the parts are taken for.

* `CommandLine!Parse` is `command.c` from the check of the raw line, which counts its line feed if it
  has one, to the arguments, with `strtok_r` as `Token` and `strtoul` as `SizeOf`; `Meaning` says the
  same by the positions of the words.
* `Wire!Written` is what a client writes for what its user types, `Understood` what the thread makes
  of it; `Document` and `PayloadText` are what the server writes, `Received` what `read_exact` and the
  display loop of the client make of it. Both use `Lines!Pieces`, which is `fgets`.
* `Roles!LookupRole` is `auth_lookup_role`; `ListedRole` is the first line with the user and one word
  more.

`RoleLookup` runs `auth_lookup_role` in several threads, one call of `fgets` or `strtok` per step, with
the place of `strtok` as the only shared variable.

## Runs

Up to two minutes each with two workers, most of them far less.

| Run | Checks | Shows |
|---|---|---|
| `sessions` | `MutexHeld`, `NoUpdateMissed`, `StreamSound`, `ImplementsDocument` | a writer and a reader who may leave or die at any moment and an unknown user, in every interleaving (2.3 million states) |
| `faulty` | `FaultyTypeOK`, `RegistrySound`, `OnlySkippedMissed`, `OnlyDriftedDiffer`, `ClosedClientsRemoved`, `DroppedClientsExit` | any three of the calls in the table above fail, FIFOs of one message, a reader that may leave (345,000 states) |
| `pipeline` | `IndInv`, `CommandsInOrder`, `ReadNeverBlocks`, `UpdatesDelivered`, `CommandsCommitted` | a writer that types ahead of two readers, FIFOs of two messages that fill up; safety and liveness |
| `core` | `IndInv`, `ReplayConverges`, `NeverOutdated`, `EachAnnouncedOnce`, `PositionsTracked`, `SpansEnclosed`, `BlocksStartLines` | batches of up to three commands of every kind, commits in between, one failing allocation |
| `texts` | `RenumberCorrect`, `CommandsRead`, `TypedLinesAligned`, `StreamFramed`, `RolesRead` | the algorithms on texts against their reference definitions, on all texts of six pieces |
| `handshake` | `IndInv`, `OneThreadPerSignal`, `FifosBeforeReady`, `NoFifosLeft`, `ReadyClientsConnect` | three clients, one of which may be killed at any point; memory, threads and FIFOs may run out |
| `broken_pipe` | `UpdatesDelivered` is violated | SIGPIPE |
| `display` | `UpdatesDisplayed` is violated | select and the stream buffer |
| `full` | `CommandsCommitted` is violated | broadcast and client write wait for each other |
| `delete` | `DeletionsTruncate` is violated | `pos + len` wraps around |
| `lost_signal` | `AskingClientsConnect` is violated | signal before `pause` |
| `roles` | `RoleAsListed` is violated | two lookups and one `strtok` |

### Bounds

* `sessions`: two connected clients contend for the mutex, and join, commit and leave during each
  other's broadcasts; the writer types two lines, so that one may be in the FIFO while the other is
  committed. `PipeCap` is 3: a FIFO may fill up while its reader is away. `pipeline` has three
  registered clients, so that a broadcast has others before and behind the one it blocks on; the
  readers type nothing there.
* `MaxCommands` bounds the lines typed, `PipeCap` the messages in a FIFO: 1 in `faulty`, where a
  broadcast has to block before it can be interrupted, 6 in `display` and 4 in `broken_pipe`, where a
  full FIFO is not the point, 1 in `full`, where it is.
* `MaxFaults` is 3: enough for a client to be left out of two broadcasts and to be dropped afterwards,
  for both threads to fail and one of them twice, or for the version and the payload of one commit to
  fail and something more. Writer and reader type one line each: the second commit announces what the
  first has left in the log.
* `core`: commands at positions 0 to 4 on texts of up to 12 characters, three commands. Two pending
  commands and a third that is transformed over them reach every case of the transform; `MaxItem`
  is 2 so that the cap on list numbers is reached. `MaxFailures` is 1, and the commits after it show
  its consequences. `SizeModulus` is larger than any sum, except in `delete`, where sizes have four
  bits: the length 15 is what `strtoul` makes of `-1`.
* `texts`: `LineSize` is 5, `AuthLineSize` 5, `NameSize` 4 and `CommandSize` 9, where the code has 512,
  512, 128 and 256: with `MaxPieces` 6 a line is cut at least once, and names and commands are as long as
  they may be or too long; every command line is read with and without a line feed. Six pieces
  give two blocks of a list and a block past the cap, digits and
  dots that form an item only across pieces, and two lines of a roles file with a user each.
  `SizeModulus` is 100, so that three digits are too many and a minus sign wraps around.
* `handshake`: three clients are enough for one signal in the slot, one in the queue and one on its
  way, and for a handler on the thread of a client that is being connected.

Deadlock is not checked: a user need not type, and a session may rest for ever. What must happen is
stated as liveness.

### Fairness

`CollabServer!FairSpec` makes every server thread and client process weakly fair: the scheduler runs
what can run. Users (`Connect`, `TypeCommand`, `Quit`) are not fair. The mutex is promised weak
fairness only: `pthread_mutex_lock` guarantees no more, and the properties hold since the clients of a
run type finitely many lines. `pipeline` has FIFOs of two messages and a writer with two lines; that is
below what `full` needs for its deadlock. `FaultyServer!FaultyFairSpec` is the same for the steps that succeed;
no fault has to happen. `Handshake!FairSpec` adds the delivery of signals; an `open` that has
begun is not assumed to fail when its FIFO is unlinked, because it does not.

## Disagreements with the documentation

The six violation runs each show one; `PROJECT.json` quotes the line and names the code.

1. `broken_pipe`: a client that closes its FIFOs before its thread has removed it ends the server
   at the next broadcast.
2. `display`: a client may keep a payload in its stream buffer for ever.
3. `full`: a client that writes faster than it reads stops the server.
4. `delete`: `DEL 2 -1` on `abc` gives `abbc`. The comment at `markdown.c:590` promises truncation.
5. `lost_signal`: a connect signal handled just before `pause` connects nobody.
6. `roles`: `auth.c:73-75` uses `strtok`, and `server.c:210` calls it before the mutex is taken: of two users
   that connect at the same time one may get the role of the other's line, or none.

## Proofs

All theorems hold for every set of clients, every assignment of roles and every bound, under the
assumptions named in the modules: roles are disjoint sets of clients, `NoClient` and `Nobody` are no
clients, the bounds are naturals, a FIFO holds at least one message, and the commands of `ServerCore`
are records of the shapes that `command.c` makes of a line (`CommandsAssumption`). Five theorems of
`ServerCoreProofs` have the hypothesis `NoWrap` besides, see below.

**CollabServer.** `InvariantHolds` proves `Spec => []IndInv`, and from it follow `TypeCorrect`,
`MutualExclusion`, `RegistryCorrect`, `StreamsCorrect` and `NothingMissed`. `StreamSound` and
`NoUpdateMissed` are not inductive by themselves. A `Broadcast` extends the stream of one client by
`payload`; that this is the next version for that client needs `BroadcastSound` (the payload is that
of the current version) and `NoUpdateMissed` (the client has everything before it, as it is still
ahead of the cursor). That in turn needs `MutexHeld` (one broadcast at a time, and no registration
or departure during one) and `RegistrySound` (no client twice in the list). `HistorySound` relates the text to
the versions and `ConnectionSound` the phases of thread and process. The proof has one lemma per
part of the invariant and group of actions, one step per action. The effect of the actions on
`Incoming`, the concatenation of stream buffer and FIFO, is stated once in lemmas
(`SendIncoming` for the server, `ServeIncoming` and `RefillIncoming` for the client).
`ReadsReady` proves `ReadNeverBlocks`: the threads only add to a FIFO that has a reader and a closed end
stays closed (`ThreadKeepsReadable`), and while a client writes it does not read.
`CommandsOrdered` proves `CommandsInOrder`. A line moves along `Uncommitted(c)`, from the process to the
FIFO to the thread, which leaves that sequence as it is (`OrderMove`), or it is typed or committed, at one
end and the other (`OrderCommit`: it gets the next version, which is the last of the client's own). What
others do changes none of this (`OrderUntouched`).

**FaultyServer.** `FaultyInvariantHolds` proves `FaultyIndInv`; `FaultyTypesCorrect`,
`FaultyMutualExclusion` and `FaultyRegistryCorrect` follow, for any number of failed calls. The lemmas
of `CollabServerProofs` about mutex and registry are used again: they ask for no
more of the connections than that an absent client has no thread (`Started`). `StreamSound` no longer
holds, as the streams have gaps. What the types need of it is that a client finds a document or a
rejection first and payloads only after it, and that is `KindsSound`. The calls that fail outside of the
commit need one lemma (`FaultStep`): each moves one thread, frees the mutex if it was held, and neither
enters nor leaves the registered positions (`InterruptRead` goes to `leave`, whose thread is registered until
it has removed itself). For `SubmitAndCommit`, `CommitFacts` states once what a commit does to the
core, whatever fails in it, and `CommitKeeps` and `AccountsCommit` use no more than that.

`OnlySkippedAreMissed` and `OnlyDriftedTextsDiffer` need `AccountsSound` besides (`AccountsRight`). It has
for each client one account: what it has been told (`Told`: read, or in its FIFO) and the rest (`Rest`: the
outstanding broadcast, and the log) are what it is owed, and the rest takes the text that it will
know (`Known`) to the text of the server with its pending edits. A client whose thread is gone has been
told the begin of what it was owed. Each step moves edits between the two parts and changes neither
the whole nor what it amounts to: a message is sent (`AccountsSent`) or read (`AccountsRead`), a
log becomes a payload (`AccountsCommit`), a document takes the place of what came before it
(`AccountsGreet`), an interrupted broadcast takes its edits from what is owed (`AccountsInterrupted`).
That a broadcast with the cursor behind a client has nothing for it any more, and everything for those
ahead, needs the registry without repetitions; that no log becomes a payload while another
payload is outstanding is the mutex. The edits in a stream and the text they make are folds
(`Edits`, `Play`), whose laws on joined sequences (`EditsFirst`, `PlayConcat`) are instances of
`FoldLaws`.

**Refinement.** `ServerImplementsDocument` proves `Spec => ImplementsDocument`. The mapping takes the
replica of a client to what it has printed, as long as it is connected. `Commit` is a commit,
`ReadSnapshot` a join (by `GreetingStream`: the snapshot is some version of the history),
`ReadPayload` an advance (by `OpenStream`), whatever closes the client a parting; every other step
leaves the mapped state alone.

**Handshake.** `HandshakeInvariant` proves `IndInv`; `OneThread`, `FifosFirst` and `FifosRemoved` follow.
`SignalSound` says where the one signal of a client can be: in the queue, in the slot, in the main
loop's variable, or gone. The argument for `OneThreadPerSignal` is that the slot is cleared between
being read and the thread being created, so that it never names a client that has a thread; nothing
is needed of `pause`. `SetupSound` says how far a client's process can be, given where its thread is:
it is signalled when the FIFOs are made, and they exist exactly while the thread is between making
them and its end.

**ServerCore.** `InvariantHolds` of `ServerCoreProofs` proves `IndInv`; `NoneOutdated` and `LogAnnounced`
follow. Whatever an editing function does to the operations, it leaves the version of the document
alone and, called with that version, does not return `OUTDATED_VERSION` (one lemma per function, up to
`ExecuteKeeps`, and `OutOfMemoryKeeps` for a call that fails half-way); a commit takes the core's version
from the document. So the two versions agree and no command is outdated. The ids announced, followed by
those in the log, grow by the next id with every logged command (`NextId`) and stay as they are in every
commit, whether it builds its payload or keeps the log.

The other half is about the texts. `PositionsAlwaysTracked`, `SpansAlwaysEnclosed`,
`BlocksAlwaysStartLines` and `ReplayAlwaysConverges` assume `NoWrap`: texts shorter than 2^64 and no `DEL`
whose `pos + len` reaches 2^64. Without it a deletion leaves more than it was given, as run `delete` shows with a small word size,
and the operations no longer fit their text; the constants of run `core` satisfy it. `CoreInv` (`CoreInvHolds`) says that the pending operations fit the text they are applied
to, that the working text has the length they add up to (`Sound`), and that the transform takes every
committed position to where its character is in the working text, or to where it would be if it is deleted
(`Tracked`, by one case for each kind of operation: `InsertMoves`, `DeleteMoves`). One lemma per editing
function says which operations it adds and that they are valid one after the other (`InsertEdits` to
`SurroundEdits`, put together in `ExecuteEdits`), also when the call fails half-way (`OutOfMemoryCuts`). The
properties of spans and blocks follow from that entry for the last command (`SubmittedEntry`). For the
replica the same functions are followed on two documents at once that differ in nothing but the version
number: a command that succeeds on the server adds the same operations on the
replica, and one that fails adds none (`ExecuteCopied`), so that both have the same working text when the
batch is committed (`Followed`).

**Folds.** The texts and the pending operations are folds over sequences. `FoldLaws` proves, for a fold with
any operator `Op`, that the fold of `Append(s, e)` is `Op` of the fold of `s` and `e`: the library's fold is a
recursive function chosen over the subsets of the domain, which is shown to be unique by a minimal counterexample.
`Op` is a constant of that module, instantiated once per fold. It also proves induction on naturals for a
set of numbers, and on sequences for a set of sequences, as the library states it for an operator.

**Lists.** `RenumberingCorrect` proves that for every text `Renumber` is `Numbered`: after n rounds the output
is that of the definition up to n, and the number that comes next and the block that is open agree with the
rank of the last item (`AgreesStep`). `TextsRenumbered` is the same for the texts of run `texts`.

**Lines.** `Pieces`, which is `fgets`, is a fold as well. `PiecesWellCut` says that the pieces of a text are
the text cut up, each full but perhaps the last (`Full`: a line feed at its end and nowhere else, or as long as
the buffer allows), and `PiecesOfWellCut` that pieces of this form, put together, are cut the same way again.
So what a client has read a piece at a time and written to the FIFO comes out of it in the same pieces, of
which a prefix is the commands (`CommandsOfPrefix`): `TypedLinesSeenAlike`. For `StreamAlwaysFramed`, the
lines of a payload are cut into full pieces (`LinePieces`), of which only the last one is `END` alone: a command
has no line feed inside of it, and its result comes last on its line. The client thus leaves every
payload where the server ended it (`PayloadCut`, `PayloadsShown`). `RolesAlwaysRead` compares
two sizes of the buffer: lines that fit into both are cut alike (`LinesThatFit`); piece by piece `Decide` then answers what
the definition says (`WordAnswers`).

**Command lines.** `ParsingCorrect` proves that for every line `Parse`, which calls `strtok_r` as often as the
command has arguments, is `Meaning`, which is defined by the words of the line and where they begin. What is
left of a line after some calls is what is behind a place in it (`Behind`), and that place is a break: the start of
the line, its end, or a blank. From there the next call returns the first word that begins behind the place and stops at
a break again (`TokenBehind`), or there is no such word and it returns nothing (`NoTokenBehind`). The
rank of a word is the number of words that begin up to it, so the k-th call returns the k-th word
(`TokenReads`, `SplitReads`). The text of `INSERT` is whatever is behind the blank after its position
(`InsertMeans`). `CommandsAlwaysRead` is the same for the lines of run `texts`.

**Only model-checked.** Liveness (`UpdatesDelivered`, `CommandsCommitted`, `ClosedClientsRemoved`,
`DroppedClientsExit`, `ReadyClientsConnect`), which the prover cannot treat under fairness. Every safety
property of a passing run is a theorem. Nothing of the six violation runs is proved: a
counterexample needs no proof.

## Not modelled

* The demo server and client: example programs with one client and one FIFO pair, without registry
  and mutex. What they call of the core is in `ServerCore`.
* The reuse of a pid, with a registry entry that is still there.
* User names longer than 126 characters.
* Standard input that stdio reads ahead when it is not a terminal.
* A write of the initial document that fails half-way: a document is one message.
* Memory below the level of the calls: `client_registry.c:115` closes a stream that its caller closes
  again.
* Formatting, prompts and the printed logs; the shutdown code after the main loop
  (`server.c:406-418`), which is never reached since nothing clears `keep_running`; the update
  interval, which is parsed and never used.

## Plan

Order of the work, most important behaviour first; all but the last are done.

1. `CollabServer` and its invariants; runs `sessions`, `pipeline`.
2. `SharedDocument` and the refinement.
3. `CollabServerProofs`, with the refinement.
4. `OrderedLists`, `Markdown`, `ServerCore`; runs `core`, `texts`.
5. `Handshake` with its error paths, its run and `HandshakeProofs`.
6. `FaultyServer`: interrupted calls and missing memory in a session.
7. `CommandLine`, `Wire`, `Roles`, `RoleLookup`: lines, buffers and roles.
8. `ServerCoreProofs`.
9. `FaultyServerProofs`.
10. `FoldLaws`, `OrderedListsProofs`, and the texts of `ServerCoreProofs`.
11. `OnlySkippedAreMissed`; then failing submits and commits in `FaultyServer`, and
    `OnlyDriftedTextsDiffer`.
12. Proofs about `Lines`, `Wire` and `Roles`.
13. `CommandLineProofs`.
14. Reuse of a pid, with a stale registry entry and the unlinking of somebody else's FIFOs.
