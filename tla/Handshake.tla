------------------------------ MODULE Handshake -------------------------------
(***************************************************************************)
(* How a client reaches its server thread: the connect signal, the handler *)
(* and the main loop of server.c, the thread that makes the FIFO pair and  *)
(* signals back, and the opening of the FIFOs by both sides (client.c).    *)
(* Module CollabServer begins where this one ends.                         *)
(*                                                                         *)
(* A signal sent to a process is handled by any of its threads.  On the    *)
(* main thread the handler is one step to the main loop; on another thread *)
(* its two assignments interleave with it.  The handler is installed       *)
(* without SA_RESTART, so a blocking call of the thread that ran it fails. *)
(*                                                                         *)
(* Memory, threads or FIFOs may run out: the main loop goes on, a thread   *)
(* takes its FIFOs away and ends, a client exits.                          *)
(***************************************************************************)
EXTENDS Integers, Sequences, FiniteSets

CONSTANTS
    Clients,    \* client processes, named by their pid; each connects once
    Leavers,    \* clients that may be killed
    RunsOut,    \* whether memory, threads or FIFOs may run out
    Nobody      \* pending_client_pid is 0

ASSUME LeaversAssumption == Leavers \subseteq Clients
ASSUME RunsOutAssumption == RunsOut \in BOOLEAN
ASSUME NobodyAssumption == Nobody \notin Clients

VARIABLES
    main,       \* where the main thread is in its loop
    received,   \* connect_received
    slot,       \* pending_client_pid
    pid,        \* client_pid of the main loop
    signals,    \* connect signals queued for the server
    handler,    \* for each server thread, the pid its handler has yet to report, or Nobody
    thread,     \* where each client's server thread is
    fifos,      \* the clients whose FIFO pair exists
    client,     \* where each client process is
    ready,      \* the clients whose ready signal is pending
    created,    \* history variable: the threads created for each client
    hit         \* history variable: the clients whose thread was hit by a signal

mainVars == <<main, pid>>
handlerVars == <<received, slot, signals, handler>>
threadVars == <<thread, fifos, hit>>
clientVars == <<client, ready>>
vars == <<mainVars, handlerVars, threadVars, clientVars, created>>

Init ==
    /\ main = "entering"
    /\ received = FALSE
    /\ slot = Nobody
    /\ pid = Nobody
    /\ signals = <<>>
    /\ handler = [c \in Clients |-> Nobody]
    /\ thread = [c \in Clients |-> "none"]
    /\ fifos = {}
    /\ client = [c \in Clients |-> "absent"]
    /\ ready = {}
    /\ created = [c \in Clients |-> 0]
    /\ hit = {}

\* The thread of client c returns and leaves no FIFO behind.
EndThread(c) ==
    /\ thread' = [thread EXCEPT ![c] = "done"]
    /\ fifos' = fifos \ {c}

-------------------------------------------------------------------------------
(* The connect signal *)

\* connect_signal_handler on the main thread: nothing of the main loop happens
\* meanwhile.  If the thread was in pause, pause returns.
HandleOnMain ==
    /\ signals # <<>>
    /\ signals' = Tail(signals)
    /\ slot' = Head(signals)
    /\ received' = TRUE
    /\ main' = IF main = "paused" THEN "woken" ELSE main
    /\ UNCHANGED <<pid, handler, threadVars, clientVars, created>>

\* The handler on the thread of client c, which is alive and not in the handler yet:
\* the first assignment.
HandleOnThread(c) ==
    /\ signals # <<>>
    /\ thread[c] \notin {"none", "done"}
    /\ handler[c] = Nobody
    /\ signals' = Tail(signals)
    /\ slot' = Head(signals)
    /\ handler' = [handler EXCEPT ![c] = Head(signals)]
    /\ UNCHANGED <<mainVars, received, threadVars, clientVars, created>>

\* The second assignment, and the return: a thread that was not blocked goes on, a
\* blocked open fails with EINTR, a blocked fgets returns NULL as at end of file.
ReturnOnThread(c) ==
    /\ handler[c] # Nobody
    /\ handler' = [handler EXCEPT ![c] = Nobody]
    /\ received' = TRUE
    /\ hit' = hit \cup {c}
    /\ \/ UNCHANGED <<thread, fifos>>
       \/ /\ thread[c] \in {"openC2S", "openS2C", "serving"}
          /\ EndThread(c)
    /\ UNCHANGED <<mainVars, slot, signals, clientVars, created>>

-------------------------------------------------------------------------------
(* The main loop *)

\* pause: a signal handled before this step does not end it.
Pause ==
    /\ main = "entering"
    /\ main' = "paused"
    /\ UNCHANGED <<pid, handlerVars, threadVars, clientVars, created>>

Test ==
    /\ main = "woken"
    /\ main' = IF received THEN "read" ELSE "entering"
    /\ UNCHANGED <<pid, handlerVars, threadVars, clientVars, created>>

ReadSlot ==
    /\ main = "read"
    /\ pid' = slot
    /\ main' = "clearReceived"
    /\ UNCHANGED <<handlerVars, threadVars, clientVars, created>>

ClearReceived ==
    /\ main = "clearReceived"
    /\ received' = FALSE
    /\ main' = "clearSlot"
    /\ UNCHANGED <<pid, slot, signals, handler, threadVars, clientVars, created>>

\* Faulty variant: the slot keeps the pid that was served.
ClearNothing ==
    /\ main = "clearSlot"
    /\ main' = "spawn"
    /\ UNCHANGED <<pid, handlerVars, threadVars, clientVars, created>>

ClearSlot ==
    /\ main = "clearSlot"
    /\ slot' = Nobody
    /\ main' = "spawn"
    /\ UNCHANGED <<pid, received, signals, handler, threadVars, clientVars, created>>

\* malloc and pthread_create for the pid that was read, if it is one; when either fails
\* the client is forgotten.
Spawn ==
    /\ main = "spawn"
    /\ \/ (pid = Nobody \/ RunsOut) /\ UNCHANGED <<thread, created>>
       \/ /\ pid # Nobody
          /\ thread' = [thread EXCEPT ![pid] = "makeFifos"]
          /\ created' = [created EXCEPT ![pid] = @ + 1]
    /\ main' = "entering"
    /\ UNCHANGED <<pid, handlerVars, fifos, hit, clientVars>>

Main == Pause \/ Test \/ ReadSlot \/ ClearReceived \/ ClearSlot \/ Spawn

-------------------------------------------------------------------------------
(* The server thread of client c; while its handler runs it makes no step *)

Runs(c, label) == thread[c] = label /\ handler[c] = Nobody

\* Faulty variant: the client is signalled before its FIFOs are there.
SignalBeforeFifos(c) ==
    /\ Runs(c, "makeFifos")
    /\ ready' = IF client[c] = "closed" THEN ready ELSE ready \cup {c}
    /\ thread' = [thread EXCEPT ![c] = "signalReady"]
    /\ UNCHANGED <<mainVars, handlerVars, fifos, hit, client, created>>

\* make_fifo_pair: unlink what an earlier process with this pid left, make both or none.
MakeFifos(c) ==
    /\ Runs(c, "makeFifos")
    /\ \/ /\ fifos' = fifos \cup {c}
          /\ thread' = [thread EXCEPT ![c] = "signalReady"]
       \/ RunsOut /\ EndThread(c)
    /\ UNCHANGED <<mainVars, handlerVars, hit, clientVars, created>>

\* kill(client_pid, CLIENT_READY_SIGNAL): fails for a process that is gone, unless
\* nobody has waited for it yet.
SignalReady(c) ==
    /\ Runs(c, "signalReady")
    /\ \/ /\ thread' = [thread EXCEPT ![c] = "openC2S"]
          /\ ready' = IF client[c] = "closed" THEN ready ELSE ready \cup {c}
          /\ UNCHANGED fifos
       \/ /\ client[c] = "closed"
          /\ EndThread(c)
          /\ UNCHANGED ready
    /\ UNCHANGED <<mainVars, handlerVars, hit, client, created>>

\* Faulty variant: the thread opens the FIFOs in the other order.
OpenC2SLast(c) ==
    /\ Runs(c, "openC2S")
    /\ client[c] = "openS2C"
    /\ thread' = [thread EXCEPT ![c] = "openS2C"]
    /\ client' = [client EXCEPT ![c] = "openC2S"]
    /\ UNCHANGED <<mainVars, handlerVars, fifos, hit, ready, created>>

\* Opening one end of a FIFO waits for the other end to be opened: both sides open
\* FIFO_C2S first, then FIFO_S2C.
OpenC2S(c) ==
    /\ Runs(c, "openC2S")
    /\ client[c] = "openC2S"
    /\ thread' = [thread EXCEPT ![c] = "openS2C"]
    /\ client' = [client EXCEPT ![c] = "openS2C"]
    /\ UNCHANGED <<mainVars, handlerVars, fifos, hit, ready, created>>

\* Faulty variant: without streams the thread closes the descriptors and returns.
OpenS2CLeaving(c) ==
    /\ Runs(c, "openS2C")
    /\ client[c] = "openS2C"
    /\ client' = [client EXCEPT ![c] = "connected"]
    /\ \/ thread' = [thread EXCEPT ![c] = "serving"]
       \/ RunsOut /\ thread' = [thread EXCEPT ![c] = "done"]
    /\ UNCHANGED <<mainVars, handlerVars, fifos, hit, ready, created>>

\* The second open, and fdopen of both descriptors, which may find no memory.
OpenS2C(c) ==
    /\ Runs(c, "openS2C")
    /\ client[c] = "openS2C"
    /\ client' = [client EXCEPT ![c] = "connected"]
    /\ \/ thread' = [thread EXCEPT ![c] = "serving"] /\ UNCHANGED fifos
       \/ RunsOut /\ EndThread(c)
    /\ UNCHANGED <<mainVars, handlerVars, hit, ready, created>>

\* The session: it ends when the client is gone, and the FIFOs are unlinked.
EndSession(c) ==
    /\ Runs(c, "serving")
    /\ client[c] = "closed"
    /\ EndThread(c)
    /\ UNCHANGED <<mainVars, handlerVars, hit, clientVars, created>>

\* The session ends although the client is there: the user is unknown, or memory for its
\* document or its registration is not.
Dismiss(c) ==
    /\ Runs(c, "serving")
    /\ EndThread(c)
    /\ UNCHANGED <<mainVars, handlerVars, hit, clientVars, created>>

Thread(c) ==
    MakeFifos(c) \/ SignalReady(c) \/ OpenC2S(c) \/ OpenS2C(c) \/ EndSession(c)

-------------------------------------------------------------------------------
(* The client process c *)

\* Faulty variant: the client signals twice, in case the first signal is lost.
ConnectTwice(c) ==
    /\ client[c] = "absent"
    /\ client' = [client EXCEPT ![c] = "waiting"]
    /\ signals' = signals \o <<c, c>>
    /\ UNCHANGED <<mainVars, received, slot, handler, threadVars, ready, created>>

\* Block the ready signal, then kill(server_pid, SERVER_CONNECT_SIGNAL).
Connect(c) ==
    /\ client[c] = "absent"
    /\ client' = [client EXCEPT ![c] = "waiting"]
    /\ signals' = Append(signals, c)
    /\ UNCHANGED <<mainVars, received, slot, handler, threadVars, ready, created>>

\* sigwait returns.
Ready(c) ==
    /\ client[c] = "waiting"
    /\ c \in ready
    /\ ready' = ready \ {c}
    /\ client' = [client EXCEPT ![c] = "openC2S"]
    /\ UNCHANGED <<mainVars, handlerVars, threadVars, created>>

\* open fails when the FIFO has been unlinked before the call; a client that was in
\* the call already waits for ever.
OpenFails(c) ==
    /\ client[c] \in {"openC2S", "openS2C"}
    /\ c \notin fifos
    /\ client' = [client EXCEPT ![c] = "closed"]
    /\ UNCHANGED <<mainVars, handlerVars, threadVars, ready, created>>

\* The server thread has closed its ends: the client reads end of file and exits.
EndOfFile(c) ==
    /\ client[c] = "connected"
    /\ thread[c] = "done"
    /\ client' = [client EXCEPT ![c] = "closed"]
    /\ UNCHANGED <<mainVars, handlerVars, threadVars, ready, created>>

\* The client finds no memory for its streams or for the document: it exits.
GiveUp(c) ==
    /\ RunsOut
    /\ client[c] = "connected"
    /\ client' = [client EXCEPT ![c] = "closed"]
    /\ UNCHANGED <<mainVars, handlerVars, threadVars, ready, created>>

\* The process is killed.
Die(c) ==
    /\ c \in Leavers
    /\ client[c] \notin {"absent", "closed"}
    /\ client' = [client EXCEPT ![c] = "closed"]
    /\ ready' = ready \ {c}
    /\ UNCHANGED <<mainVars, handlerVars, threadVars, created>>

Next ==
    \/ Main \/ HandleOnMain
    \/ \E c \in Clients :
         HandleOnThread(c) \/ ReturnOnThread(c) \/ Thread(c) \/ Dismiss(c)
         \/ Connect(c) \/ Ready(c) \/ OpenFails(c) \/ EndOfFile(c) \/ GiveUp(c) \/ Die(c)

Spec == Init /\ [][Next]_vars

\* Threads and processes that can run do, and the kernel delivers signals; nobody makes
\* a user start a client.
Fairness ==
    /\ WF_vars(Main)
    /\ WF_vars(HandleOnMain \/ \E c \in Clients : HandleOnThread(c))
    /\ \A c \in Clients :
         /\ WF_vars(ReturnOnThread(c)) /\ WF_vars(Thread(c))
         /\ WF_vars(Ready(c)) /\ WF_vars(EndOfFile(c))

FairSpec == Spec /\ Fairness

-------------------------------------------------------------------------------
(* Properties *)

\* Every variable has a value its C counterpart can have (server.c:38-40, 368-404).
TypeOK ==
    /\ main \in {"entering", "paused", "woken", "read", "clearReceived", "clearSlot", "spawn"}
    /\ received \in BOOLEAN
    /\ slot \in Clients \cup {Nobody}
    /\ pid \in Clients \cup {Nobody}
    /\ signals \in Seq(Clients)
    /\ handler \in [Clients -> Clients \cup {Nobody}]
    /\ thread \in [Clients -> {"none", "makeFifos", "signalReady", "openC2S", "openS2C",
                               "serving", "done"}]
    /\ fifos \subseteq Clients
    /\ client \in [Clients -> {"absent", "waiting", "openC2S", "openS2C", "connected", "closed"}]
    /\ ready \subseteq Clients
    /\ created \in [Clients -> Nat]
    /\ hit \subseteq Clients

\* However handlers and main loop interleave over the two flags, no client is given two
\* threads: the second would unlink the FIFOs of the first.
OneThreadPerSignal ==
    \A c \in Clients : created[c] <= IF client[c] = "absent" THEN 0 ELSE 1

\* Where the one signal of a client is: in the queue, or in the slot, or read by the main
\* loop, or turned into a thread, or lost.
Queued(c) == \E i \in DOMAIN signals : signals[i] = c

SignalSound ==
    /\ \A i, j \in DOMAIN signals : signals[i] = signals[j] => i = j
    /\ \A c \in Clients :
         /\ client[c] = "absent" => ~Queued(c) /\ slot # c /\ pid # c /\ created[c] = 0
         /\ Queued(c) => slot # c /\ pid # c /\ created[c] = 0
         /\ slot = c => created[c] = 0
         /\ pid = c /\ main \in {"clearReceived", "clearSlot", "spawn"} => created[c] = 0
         /\ pid = c /\ main = "spawn" => slot # c

\* How far the process of a client is, given where its thread is.
SetupSound ==
    \A c \in Clients :
        /\ thread[c] = "none" <=> created[c] = 0
        /\ c \in fifos <=> thread[c] \in {"signalReady", "openC2S", "openS2C", "serving"}
        /\ thread[c] \in {"none", "makeFifos", "signalReady"} =>
             client[c] \in {"absent", "waiting", "closed"} /\ c \notin ready
        /\ c \in ready => client[c] = "waiting"
        /\ c \in ready \/ client[c] \in {"openC2S", "openS2C"} =>
             thread[c] \in {"openC2S", "openS2C"} \/ c \in hit

\* The inductive invariant behind OneThreadPerSignal, FifosBeforeReady and NoFifosLeft.
IndInv == TypeOK /\ SignalSound /\ OneThreadPerSignal /\ SetupSound

\* A client that has been signalled finds its FIFO pair, unless a signal hit the
\* thread that made it.
FifosBeforeReady ==
    \A c \in Clients : client[c] \in {"openC2S", "openS2C"} => c \in fifos \cup hit

\* On whichever of its paths a thread ends, refused, out of memory, hit by a signal or at
\* the end of the session, the FIFO pair it made is gone from the directory.
NoFifosLeft == \A c \in Clients : thread[c] \in {"none", "done"} => c \notin fifos

\* Both sides open the FIFOs in the same order: a client that got its ready signal and
\* is not killed is connected, unless a signal hit its thread.
ReadyClientsConnect ==
    \A c \in Clients \ Leavers : client[c] = "openC2S" ~> (client[c] = "connected" \/ c \in hit)

\* README.md:228-237, starting a client while the server runs prints "Connected as":
\* a client that asks for a connection and is not killed gets one.
AskingClientsConnect ==
    \A c \in Clients \ Leavers : client[c] = "waiting" ~> client[c] = "connected"
===============================================================================
