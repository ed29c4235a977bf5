--------------------------- MODULE HandshakeProofs ----------------------------
(***************************************************************************)
(* One connect signal starts at most one server thread, for any number of  *)
(* clients and however the handler interleaves with the main loop; and the *)
(* FIFO pair of a client is there when it is needed and only then.         *)
(***************************************************************************)
EXTENDS Handshake, TLAPS, SequenceTheorems

\* A queue without its head holds what it held, and each of it once.
LEMMA QueueTail ==
  ASSUME NEW S, NEW q \in Seq(S), q # <<>>,
         \A i, j \in DOMAIN q : q[i] = q[j] => i = j
  PROVE  /\ Tail(q) \in Seq(S) /\ Head(q) \in S
         /\ \E i \in DOMAIN q : q[i] = Head(q)
         /\ \A i, j \in DOMAIN Tail(q) : Tail(q)[i] = Tail(q)[j] => i = j
         /\ \A i \in DOMAIN Tail(q) : Tail(q)[i] # Head(q)
         /\ \A i \in DOMAIN Tail(q) : \E j \in DOMAIN q : q[j] = Tail(q)[i]
<1>1. Len(q) \in Nat \ {0} /\ DOMAIN q = 1 .. Len(q)
  BY EmptySeq, LenProperties
<1>2. Tail(q) \in Seq(S) /\ Len(Tail(q)) = Len(q) - 1 /\ Head(q) = q[1] /\ Head(q) \in S
  BY <1>1, HeadTailProperties
<1>3. DOMAIN Tail(q) = 1 .. Len(q) - 1
  BY <1>2, LenProperties
<1>4. \A i \in DOMAIN Tail(q) : Tail(q)[i] = q[i + 1] /\ i + 1 \in DOMAIN q /\ i + 1 # 1
  BY <1>1, <1>2, <1>3, HeadTailProperties
<1>5. 1 \in DOMAIN q
  BY <1>1
<1>6. \A i, j \in DOMAIN Tail(q) : Tail(q)[i] = Tail(q)[j] => i = j
  <2>1. SUFFICES ASSUME NEW i \in DOMAIN Tail(q), NEW j \in DOMAIN Tail(q),
                        Tail(q)[i] = Tail(q)[j]
                 PROVE  i = j
    OBVIOUS
  <2>2. i + 1 = j + 1
    BY <1>4, <2>1
  <2>3. i \in Int /\ j \in Int
    BY <1>3
  <2>4. QED
    BY <2>2, <2>3
<1>7. \A i \in DOMAIN Tail(q) : Tail(q)[i] # Head(q)
  BY <1>2, <1>4, <1>5
<1>8. QED
  BY <1>2, <1>4, <1>5, <1>6, <1>7

\* A queue with one more element, which it did not hold.
LEMMA QueueAppend ==
  ASSUME NEW S, NEW q \in Seq(S), NEW e \in S,
         \A i, j \in DOMAIN q : q[i] = q[j] => i = j,
         \A i \in DOMAIN q : q[i] # e
  PROVE  /\ Append(q, e) \in Seq(S)
         /\ \A i, j \in DOMAIN Append(q, e) : Append(q, e)[i] = Append(q, e)[j] => i = j
         /\ \A i \in DOMAIN Append(q, e) :
              Append(q, e)[i] = e \/ \E j \in DOMAIN q : q[j] = Append(q, e)[i]
<1>1. Len(q) \in Nat /\ DOMAIN q = 1 .. Len(q)
  BY LenProperties
<1>2. /\ Append(q, e) \in Seq(S) /\ Len(Append(q, e)) = Len(q) + 1
      /\ \A i \in 1 .. Len(q) : Append(q, e)[i] = q[i]
      /\ Append(q, e)[Len(q) + 1] = e
  BY AppendProperties
<1>3. DOMAIN Append(q, e) = 1 .. Len(q) + 1
  BY <1>2, LenProperties
<1>4. QED
  BY <1>1, <1>2, <1>3

LEMMA InitIndInv == Init => IndInv
<1> SUFFICES ASSUME Init PROVE IndInv
  OBVIOUS
<1>1. TypeOK
  <2>1. signals \in Seq(Clients)
    BY EmptySeq DEF Init
  <2>2. /\ main = "entering" /\ received = FALSE /\ slot = Nobody /\ pid = Nobody
        /\ fifos = {} /\ ready = {} /\ hit = {}
    BY DEF Init
  <2>3. /\ handler = [c \in Clients |-> Nobody]
        /\ thread = [c \in Clients |-> "none"] /\ client = [c \in Clients |-> "absent"]
        /\ created = [c \in Clients |-> 0]
    BY DEF Init
  <2>4. created \in [Clients -> Nat]
    BY <2>3
  <2>5. QED
    BY <2>1, <2>2, <2>3, <2>4 DEF TypeOK
<1>2. SignalSound
  BY NobodyAssumption DEF Init, SignalSound, Queued
<1>3. OneThreadPerSignal
  BY DEF Init, OneThreadPerSignal
<1>4. SetupSound
  BY DEF Init, SetupSound
<1>5. QED
  BY <1>1, <1>2, <1>3, <1>4 DEF IndInv

\* Steps of threads and clients that touch none of the places a signal can be in.
LEMMA PlacesKept ==
  ASSUME TypeOK, SignalSound, OneThreadPerSignal, UNCHANGED <<signals, slot, created>>,
         \A c \in Clients : client[c] # "absent" => client'[c] # "absent",
         \/ UNCHANGED <<main, pid>>
         \/ main' \notin {"clearReceived", "clearSlot", "spawn"} /\ UNCHANGED pid
  PROVE  SignalSound' /\ OneThreadPerSignal'
<1>1. \A c \in Clients : Queued(c)' <=> Queued(c)
  BY DEF Queued
<1>2. \A c \in Clients : client'[c] = "absent" => client[c] = "absent"
  OBVIOUS
<1>3. SignalSound'
  <2>1. \A i, j \in DOMAIN signals' : signals'[i] = signals'[j] => i = j
    BY DEF SignalSound
  <2>2. ASSUME NEW c \in Clients
        PROVE  /\ client'[c] = "absent" => ~Queued(c)' /\ slot' # c /\ pid' # c /\ created'[c] = 0
               /\ Queued(c)' => slot' # c /\ pid' # c /\ created'[c] = 0
               /\ slot' = c => created'[c] = 0
               /\ pid' = c /\ main' \in {"clearReceived", "clearSlot", "spawn"} => created'[c] = 0
               /\ pid' = c /\ main' = "spawn" => slot' # c
    BY <1>1, <1>2 DEF SignalSound
  <2>3. QED
    BY <2>1, <2>2 DEF SignalSound
<1>4. OneThreadPerSignal'
  BY <1>2 DEF OneThreadPerSignal, TypeOK
<1>5. QED
  BY <1>3, <1>4

LEMMA TypeStep == ASSUME TypeOK, Next PROVE TypeOK'
<1> USE DEF TypeOK
<1>1. CASE HandleOnMain
  <2>1. Tail(signals) \in Seq(Clients) /\ Head(signals) \in Clients
    BY <1>1, HeadTailProperties DEF HandleOnMain
  <2>2. QED
    BY <1>1, <2>1 DEF HandleOnMain, threadVars, clientVars
<1>2. CASE Main
  <2>1. CASE Pause \/ Test \/ ReadSlot \/ ClearReceived \/ ClearSlot
    BY <2>1 DEF Pause, Test, ReadSlot, ClearReceived, ClearSlot, handlerVars, threadVars,
                clientVars
  <2>2. CASE Spawn
    <3>1. main' = "entering"
          /\ UNCHANGED <<pid, received, slot, signals, handler, fifos, hit, client, ready>>
      BY <2>2 DEF Spawn, handlerVars, clientVars
    <3>2. CASE UNCHANGED <<thread, created>>
      BY <2>2, <3>1, <3>2 DEF Spawn
    <3>3. CASE pid \in Clients /\ ~UNCHANGED <<thread, created>>
      <4>1. /\ thread' = [thread EXCEPT ![pid] = "makeFifos"]
            /\ created' = [created EXCEPT ![pid] = @ + 1]
        BY <2>2, <3>3, NobodyAssumption DEF Spawn
      <4>2. created' \in [Clients -> Nat]
        BY <3>3, <4>1
      <4>3. QED
        BY <3>1, <3>3, <4>1, <4>2
    <3>4. pid # Nobody \/ UNCHANGED <<thread, created>>
      BY <2>2 DEF Spawn
    <3>5. QED
      BY <3>2, <3>3, <3>4
  <2>3. QED
    BY <1>2, <2>1, <2>2 DEF Main
<1>3. ASSUME NEW c \in Clients, HandleOnThread(c)
      PROVE  TypeOK'
  <2>1. Tail(signals) \in Seq(Clients) /\ Head(signals) \in Clients
    BY <1>3, HeadTailProperties DEF HandleOnThread
  <2>2. QED
    BY <1>3, <2>1 DEF HandleOnThread, mainVars, threadVars, clientVars
<1>4. ASSUME NEW c \in Clients, ReturnOnThread(c)
      PROVE  TypeOK'
  BY <1>4 DEF ReturnOnThread, EndThread, mainVars, clientVars
<1>5. ASSUME NEW c \in Clients, Thread(c) \/ Dismiss(c)
      PROVE  TypeOK'
  BY <1>5 DEF Thread, MakeFifos, SignalReady, OpenC2S, OpenS2C, EndSession, Dismiss, EndThread,
              mainVars, handlerVars, clientVars
<1>6. ASSUME NEW c \in Clients, Connect(c)
      PROVE  TypeOK'
  <2>1. Append(signals, c) \in Seq(Clients)
    BY AppendProperties
  <2>2. QED
    BY <1>6, <2>1 DEF Connect, mainVars, threadVars
<1>7. ASSUME NEW c \in Clients, Ready(c) \/ OpenFails(c) \/ EndOfFile(c) \/ GiveUp(c) \/ Die(c)
      PROVE  TypeOK'
  BY <1>7 DEF Ready, OpenFails, EndOfFile, GiveUp,
                Die, mainVars, handlerVars, threadVars
<1>8. QED
  BY <1>1, <1>2, <1>3, <1>4, <1>5, <1>6, <1>7 DEF Next

\* A handler takes the head of the queue to the slot.
LEMMA HandleSound ==
  ASSUME TypeOK, SignalSound, OneThreadPerSignal, signals # <<>>,
         signals' = Tail(signals), slot' = Head(signals),
         main' = main \/ main' = "woken", UNCHANGED <<pid, created, client>>
  PROVE  SignalSound' /\ OneThreadPerSignal'
<1>1. /\ signals \in Seq(Clients)
      /\ \A i, j \in DOMAIN signals : signals[i] = signals[j] => i = j
  BY DEF TypeOK, SignalSound
<1>2. PICK h \in Clients : h = Head(signals)
  BY <1>1, QueueTail
<1>3. Queued(h) /\ ~Queued(h)' /\ \A c \in Clients : Queued(c)' => Queued(c)
  BY <1>1, <1>2, QueueTail DEF Queued
<1>4. \A i, j \in DOMAIN signals' : signals'[i] = signals'[j] => i = j
  BY <1>1, QueueTail
<1>5. created[h] = 0 /\ pid # h /\ client[h] # "absent"
  BY <1>3 DEF SignalSound
<1>6. ASSUME NEW c \in Clients
      PROVE  /\ client'[c] = "absent" => ~Queued(c)' /\ slot' # c /\ pid' # c /\ created'[c] = 0
             /\ Queued(c)' => slot' # c /\ pid' # c /\ created'[c] = 0
             /\ slot' = c => created'[c] = 0
             /\ pid' = c /\ main' \in {"clearReceived", "clearSlot", "spawn"} => created'[c] = 0
             /\ pid' = c /\ main' = "spawn" => slot' # c
  BY <1>2, <1>3, <1>5 DEF SignalSound
<1>7. SignalSound'
  BY <1>4, <1>6 DEF SignalSound
<1>8. QED
  BY <1>7 DEF OneThreadPerSignal

LEMMA StepSound ==
  ASSUME TypeOK, SignalSound, OneThreadPerSignal, Next
  PROVE  SignalSound' /\ OneThreadPerSignal'
<1>1. CASE HandleOnMain
  BY <1>1, HandleSound DEF HandleOnMain, clientVars
<1>2. ASSUME NEW c \in Clients, HandleOnThread(c)
      PROVE  SignalSound' /\ OneThreadPerSignal'
  BY <1>2, HandleSound DEF HandleOnThread, mainVars, clientVars
<1>3. CASE Pause \/ Test
  BY <1>3, PlacesKept DEF Pause, Test, handlerVars, clientVars
<1>4. CASE ReadSlot
  <2>1. \A c \in Clients : Queued(c)' <=> Queued(c)
    BY <1>4 DEF ReadSlot, handlerVars, Queued
  <2>2. SignalSound'
    BY <1>4, <2>1 DEF ReadSlot, SignalSound, handlerVars, clientVars
  <2>3. QED
    BY <1>4, <2>2 DEF ReadSlot, OneThreadPerSignal, clientVars
<1>5. CASE ClearReceived \/ ClearSlot
  <2>1. \A c \in Clients : Queued(c)' <=> Queued(c)
    BY <1>5 DEF ClearReceived, ClearSlot, Queued
  <2>2. SignalSound'
    BY <1>5, <2>1, NobodyAssumption DEF ClearReceived, ClearSlot, SignalSound, clientVars
  <2>3. QED
    BY <1>5, <2>2 DEF ClearReceived, ClearSlot, OneThreadPerSignal, clientVars
<1>6. CASE Spawn
  <2>1. CASE UNCHANGED created
    BY <1>6, <2>1, PlacesKept DEF Spawn, handlerVars, clientVars
  <2>2. CASE ~UNCHANGED created
    <3>1. /\ pid \in Clients /\ main = "spawn" /\ main' = "entering"
          /\ created' = [created EXCEPT ![pid] = @ + 1]
          /\ UNCHANGED <<signals, slot, pid, client>>
      BY <1>6, <2>2 DEF Spawn, TypeOK, handlerVars, clientVars
    <3>2. created[pid] = 0 /\ slot # pid /\ ~Queued(pid) /\ client[pid] # "absent"
      BY <3>1 DEF SignalSound
    <3>3. created'[pid] = 1 /\ \A c \in Clients \ {pid} : created'[c] = created[c]
      BY <3>1, <3>2 DEF TypeOK
    <3>4. \A c \in Clients : Queued(c)' <=> Queued(c)
      BY <3>1 DEF Queued
    <3>5. SignalSound'
      BY <3>1, <3>2, <3>3, <3>4 DEF SignalSound
    <3>6. OneThreadPerSignal'
      BY <3>1, <3>2, <3>3 DEF OneThreadPerSignal
    <3>7. QED
      BY <3>5, <3>6
  <2>3. QED
    BY <2>1, <2>2
<1>7. ASSUME NEW c \in Clients, ReturnOnThread(c) \/ MakeFifos(c) \/ SignalReady(c)
      PROVE  SignalSound' /\ OneThreadPerSignal'
  BY <1>7, PlacesKept
  DEF ReturnOnThread, MakeFifos, SignalReady, mainVars, handlerVars, clientVars
<1>8. ASSUME NEW c \in Clients,
             OpenC2S(c) \/ OpenS2C(c) \/ EndSession(c) \/ Dismiss(c) \/ Ready(c) \/ OpenFails(c)
             \/ EndOfFile(c) \/ GiveUp(c) \/ Die(c)
      PROVE  SignalSound' /\ OneThreadPerSignal'
  <2>1. /\ UNCHANGED <<signals, slot, created, main, pid>>
        /\ client' = client \/ \E state \in {"openC2S", "openS2C", "connected", "closed"} :
                                  client' = [client EXCEPT ![c] = state]
    BY <1>8 DEF OpenC2S, OpenS2C, EndSession, Dismiss, Ready, OpenFails, EndOfFile, GiveUp,
                Die, mainVars, handlerVars, clientVars
  <2>2. \A d \in Clients : client[d] # "absent" => client'[d] # "absent"
    BY <2>1 DEF TypeOK
  <2>3. QED
    BY <2>1, <2>2, PlacesKept
<1>9. ASSUME NEW c \in Clients, Connect(c)
      PROVE  SignalSound' /\ OneThreadPerSignal'
  <2>1. /\ client[c] = "absent" /\ client' = [client EXCEPT ![c] = "waiting"]
        /\ signals' = Append(signals, c)
        /\ UNCHANGED <<slot, main, pid, created>>
    BY <1>9 DEF Connect, mainVars
  <2>2. ~Queued(c) /\ slot # c /\ pid # c /\ created[c] = 0
    BY <2>1 DEF SignalSound
  <2>3. /\ signals \in Seq(Clients)
        /\ \A i, j \in DOMAIN signals : signals[i] = signals[j] => i = j
        /\ \A i \in DOMAIN signals : signals[i] # c
    BY <2>2 DEF TypeOK, SignalSound, Queued
  <2>4. /\ \A i, j \in DOMAIN signals' : signals'[i] = signals'[j] => i = j
        /\ \A d \in Clients : Queued(d)' => d = c \/ Queued(d)
    BY <2>1, <2>3, QueueAppend DEF Queued
  <2>5. client'[c] = "waiting" /\ \A d \in Clients \ {c} : client'[d] = client[d]
    BY <2>1 DEF TypeOK
  <2>6. SignalSound'
    BY <2>1, <2>2, <2>4, <2>5 DEF SignalSound
  <2>7. OneThreadPerSignal'
    BY <2>1, <2>2, <2>5 DEF OneThreadPerSignal
  <2>8. QED
    BY <2>6, <2>7
<1>10. QED
  BY <1>1, <1>2, <1>3, <1>4, <1>5, <1>6, <1>7, <1>8, <1>9 DEF Next, Main, Thread

LEMMA SetupStep ==
  ASSUME TypeOK, SignalSound, OneThreadPerSignal, SetupSound, Next
  PROVE  SetupSound'
<1>1. CASE HandleOnMain \/ Pause \/ Test \/ ReadSlot \/ ClearReceived \/ ClearSlot
  BY <1>1 DEF HandleOnMain, Pause, Test, ReadSlot, ClearReceived, ClearSlot, SetupSound,
              handlerVars, threadVars, clientVars
<1>2. CASE Spawn
  <2>1. CASE UNCHANGED <<thread, created>>
    BY <1>2, <2>1 DEF Spawn, SetupSound, handlerVars, clientVars
  <2>2. CASE ~UNCHANGED <<thread, created>>
    <3>1. /\ pid \in Clients /\ main = "spawn"
          /\ thread' = [thread EXCEPT ![pid] = "makeFifos"]
          /\ created' = [created EXCEPT ![pid] = @ + 1]
          /\ UNCHANGED <<fifos, hit, client, ready>>
      BY <1>2, <2>2 DEF Spawn, TypeOK, clientVars
    <3>2. created[pid] = 0 /\ thread[pid] = "none"
      BY <3>1 DEF SignalSound, SetupSound
    <3>3. /\ created'[pid] = 1 /\ thread'[pid] = "makeFifos"
          /\ \A c \in Clients \ {pid} : created'[c] = created[c] /\ thread'[c] = thread[c]
      BY <3>1, <3>2 DEF TypeOK
    <3>4. QED
      BY <3>1, <3>2, <3>3 DEF SetupSound
  <2>3. QED
    BY <2>1, <2>2
<1>3. ASSUME NEW c \in Clients, HandleOnThread(c)
      PROVE  SetupSound'
  BY <1>3 DEF HandleOnThread, SetupSound, threadVars, clientVars
<1>4. ASSUME NEW c \in Clients, ReturnOnThread(c)
      PROVE  SetupSound'
  BY <1>4 DEF ReturnOnThread, EndThread, SetupSound, TypeOK, clientVars
<1>5. ASSUME NEW c \in Clients, MakeFifos(c) \/ EndSession(c) \/ Dismiss(c)
      PROVE  SetupSound'
  BY <1>5 DEF MakeFifos, EndSession, Dismiss, EndThread, Runs, SetupSound, TypeOK, clientVars
<1>6. ASSUME NEW c \in Clients, SignalReady(c)
      PROVE  SetupSound'
  <2>1. thread[c] = "signalReady" /\ client[c] \in {"waiting", "closed"}
    BY <1>6 DEF SignalReady, Runs, SetupSound, OneThreadPerSignal, TypeOK
  <2>2. /\ created[c] # 0 /\ c \in fifos /\ c \notin ready /\ UNCHANGED <<hit, client, created>>
        /\ \A d \in Clients \ {c} : thread'[d] = thread[d] /\ (d \in fifos' <=> d \in fifos)
                                                         /\ (d \in ready' <=> d \in ready)
    BY <1>6, <2>1 DEF SignalReady, EndThread, SetupSound, TypeOK
  <2>3. CASE thread' = [thread EXCEPT ![c] = "openC2S"] /\ fifos' = fifos
             /\ ready' = IF client[c] = "closed" THEN ready ELSE ready \cup {c}
    <3>1. thread'[c] = "openC2S" /\ (c \in ready' => client[c] = "waiting")
      BY <2>1, <2>2, <2>3 DEF TypeOK
    <3>2. QED
      BY <2>1, <2>2, <2>3, <3>1 DEF SetupSound
  <2>4. CASE client[c] = "closed" /\ EndThread(c) /\ ready' = ready
    <3>1. thread'[c] = "done" /\ c \notin fifos'
      BY <2>4 DEF EndThread, TypeOK
    <3>2. QED
      BY <2>2, <2>4, <3>1 DEF SetupSound
  <2>5. QED
    BY <1>6, <2>3, <2>4 DEF SignalReady
<1>7. ASSUME NEW c \in Clients, OpenC2S(c) \/ OpenS2C(c)
      PROVE  SetupSound'
  BY <1>7 DEF OpenC2S, OpenS2C, EndThread, Runs, SetupSound, TypeOK
<1>8. ASSUME NEW c \in Clients,
             Connect(c) \/ Ready(c) \/ OpenFails(c) \/ EndOfFile(c) \/ GiveUp(c) \/ Die(c)
      PROVE  SetupSound'
  BY <1>8 DEF Connect, Ready, OpenFails, EndOfFile, GiveUp, Die, SetupSound, TypeOK, threadVars
<1>9. QED
  BY <1>1, <1>2, <1>3, <1>4, <1>5, <1>6, <1>7, <1>8 DEF Next, Main, Thread

LEMMA StepIndInv == ASSUME IndInv, [Next]_vars PROVE IndInv'
<1>1. CASE Next
  BY <1>1, TypeStep, StepSound, SetupStep DEF IndInv
<1>2. CASE UNCHANGED vars
  <2>1. UNCHANGED <<main, pid, received, slot, signals, handler, thread, fifos, hit, client,
                    ready, created>>
    BY <1>2 DEF vars, mainVars, handlerVars, threadVars, clientVars
  <2>2. TypeOK'
    BY <2>1 DEF IndInv, TypeOK
  <2>3. SignalSound' /\ OneThreadPerSignal'
    BY <2>1, PlacesKept DEF IndInv
  <2>4. SetupSound'
    BY <2>1 DEF IndInv, SetupSound
  <2>5. QED
    BY <2>2, <2>3, <2>4 DEF IndInv
<1>3. QED
  BY <1>1, <1>2

\* The places of a signal are accounted for in every state of the handshake.
THEOREM HandshakeInvariant == Spec => []IndInv
<1>1. Init => IndInv
  BY InitIndInv
<1>2. IndInv /\ [Next]_vars => IndInv'
  BY StepIndInv
<1>3. QED
  BY <1>1, <1>2, PTL DEF Spec

\* The main loop of server.c never starts a second thread for one connect signal, even
\* when handlers on other threads interleave with its clearing of the two flags.
THEOREM OneThread == Spec => []OneThreadPerSignal
<1>1. IndInv => OneThreadPerSignal
  BY DEF IndInv
<1>2. QED
  BY <1>1, HandshakeInvariant, PTL
\* make_fifo_pair comes before the ready signal, and nothing takes the FIFOs away before
\* the client has opened them: it finds them unless a signal hit its thread.
THEOREM FifosFirst == Spec => []FifosBeforeReady
<1>1. IndInv => FifosBeforeReady
  BY DEF IndInv, SetupSound, FifosBeforeReady
<1>2. QED
  BY <1>1, HandshakeInvariant, PTL

\* Every path on which a server thread ends removes the FIFO pair it made, and no second
\* thread makes it again.
THEOREM FifosRemoved == Spec => []NoFifosLeft
<1>1. IndInv => NoFifosLeft
  BY DEF IndInv, SetupSound, NoFifosLeft
<1>2. QED
  BY <1>1, HandshakeInvariant, PTL
===============================================================================
