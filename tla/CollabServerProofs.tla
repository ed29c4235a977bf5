-------------------------- MODULE CollabServerProofs --------------------------
(***************************************************************************)
(* Theorems about CollabServer, for every set of clients and every bound.  *)
(***************************************************************************)
EXTENDS CollabServer, TLAPS, SequenceTheorems

-------------------------------------------------------------------------------
(* Sequences *)

\* Unlinking a node keeps the others in their order.
LEMMA WithoutProperties ==
  ASSUME NEW S, NEW s \in Seq(S), NEW i \in 1 .. Len(s)
  PROVE  /\ Without(s, i) \in Seq(S)
         /\ Len(Without(s, i)) = Len(s) - 1
         /\ \A j \in 1 .. Len(s) - 1 :
              Without(s, i)[j] = IF j < i THEN s[j] ELSE s[j + 1]
<1> DEFINE a == SubSeq(s, 1, i - 1)
           b == SubSeq(s, i + 1, Len(s))
<1>1. a \in Seq(S) /\ Len(a) = i - 1 /\ \A j \in 1 .. i - 1 : a[j] = s[j]
  BY SubSeqProperties
<1>2. b \in Seq(S) /\ Len(b) = Len(s) - i /\ \A j \in 1 .. Len(s) - i : b[j] = s[i + j]
  BY SubSeqProperties
<1> HIDE DEF a, b
<1>3. /\ a \o b \in Seq(S)
      /\ Len(a \o b) = Len(s) - 1
      /\ \A j \in 1 .. Len(s) - 1 : (a \o b)[j] = IF j <= i - 1 THEN a[j] ELSE b[j - (i - 1)]
  <2>1. a \in Seq(S) /\ b \in Seq(S)
    BY <1>1, <1>2
  <2>2. /\ a \o b \in Seq(S)
        /\ Len(a \o b) = Len(a) + Len(b)
        /\ \A j \in 1 .. Len(a) + Len(b) :
             (a \o b)[j] = IF j <= Len(a) THEN a[j] ELSE b[j - Len(a)]
    BY <2>1, ConcatProperties
  <2>3. Len(a) = i - 1 /\ Len(a) + Len(b) = Len(s) - 1
    BY <1>1, <1>2
  <2>4. QED
    BY <2>2, <2>3
<1>4. ASSUME NEW j \in 1 .. Len(s) - 1
      PROVE  (a \o b)[j] = IF j < i THEN s[j] ELSE s[j + 1]
  <2>1. CASE j < i
    BY <1>1, <1>3, <2>1
  <2>2. CASE ~(j < i)
    <3>1. (a \o b)[j] = b[j - (i - 1)]
      BY <1>3, <2>2
    <3>2. j - (i - 1) \in 1 .. Len(s) - i
      BY <2>2
    <3>3. b[j - (i - 1)] = s[i + (j - (i - 1))]
      BY <1>2, <3>2
    <3>4. i + (j - (i - 1)) = j + 1
      OBVIOUS
    <3>5. QED
      BY <2>2, <3>1, <3>3, <3>4
  <2>3. QED
    BY <2>1, <2>2
<1>5. QED
  BY <1>3, <1>4 DEF Without, a, b

\* Reading from the first of two sequences in a row.
LEMMA TailOfConcat ==
  ASSUME NEW S, NEW s \in Seq(S), NEW t \in Seq(S), s # <<>>
  PROVE  Tail(s) \o t = Tail(s \o t) /\ s \o t # <<>>
<1>1. s \o t \in Seq(S) /\ Len(s \o t) = Len(s) + Len(t)
  BY ConcatProperties
<1>2. Len(s) \in Nat \ {0} /\ Len(t) \in Nat
  BY EmptySeq, LenProperties
<1>3. s \o t # <<>>
  BY <1>1, <1>2
<1>4. Tail(s) \in Seq(S) /\ Len(Tail(s)) = Len(s) - 1
      /\ \A i \in 1 .. Len(s) - 1 : Tail(s)[i] = s[i + 1]
  BY HeadTailProperties
<1>5. Tail(s \o t) \in Seq(S) /\ Len(Tail(s \o t)) = Len(s) + Len(t) - 1
      /\ \A i \in 1 .. Len(s) + Len(t) - 1 : Tail(s \o t)[i] = (s \o t)[i + 1]
  BY <1>1, <1>3, HeadTailProperties
<1>6. Tail(s) \o t \in Seq(S) /\ Len(Tail(s) \o t) = Len(s) + Len(t) - 1
  <2>1. Tail(s) \o t \in Seq(S) /\ Len(Tail(s) \o t) = Len(Tail(s)) + Len(t)
    BY <1>4, ConcatProperties
  <2>2. QED
    BY <1>2, <1>4, <2>1
<1>7. ASSUME NEW i \in 1 .. Len(s) + Len(t) - 1
      PROVE  (Tail(s) \o t)[i] = Tail(s \o t)[i]
  <2>1. (Tail(s) \o t)[i] = IF i <= Len(Tail(s)) THEN Tail(s)[i] ELSE t[i - Len(Tail(s))]
    BY <1>2, <1>4, ConcatProperties
  <2>2. (s \o t)[i + 1] = IF i + 1 <= Len(s) THEN s[i + 1] ELSE t[i + 1 - Len(s)]
    BY <1>2, ConcatProperties
  <2>3. QED
    BY <1>2, <1>4, <1>5, <2>1, <2>2
<1>8. QED
  BY <1>3, <1>5, <1>6, <1>7, SeqEqual

\* What a read takes out of a FIFO and what it leaves there, put together again.
LEMMA RefillSplit ==
  ASSUME NEW S, NEW s \in Seq(S), NEW n \in 1 .. Len(s)
  PROVE  SubSeq(s, 2, n) \o SubSeq(s, n + 1, Len(s)) = Tail(s)
<1>1. Len(s) \in Nat \ {0} /\ s # <<>>
  BY LenProperties, EmptySeq
<1>2. SubSeq(s, 2, n) \o SubSeq(s, n + 1, Len(s)) = SubSeq(s, 2, Len(s))
  <2>1. 2 \in 1 .. Len(s) + 1 /\ n \in 2 - 1 .. Len(s) /\ Len(s) \in n .. Len(s)
    BY <1>1
  <2>2. QED
    BY <2>1, ConcatAdjacentSubSeq
<1>3. QED
  BY <1>1, <1>2, TailIsSubSeq

\* Writing to a sequence does not change what is read first.
LEMMA AppendFirst ==
  ASSUME NEW S, NEW s \in Seq(S), NEW e \in S, s # <<>>
  PROVE  Append(s, e) # <<>> /\ Append(s, e)[1] = s[1]
<1>1. Len(s) \in Nat \ {0}
  BY EmptySeq
<1>2. Append(s, e) # <<>> /\ \A i \in 1 .. Len(s) : Append(s, e)[i] = s[i]
  BY AppendProperties
<1>3. QED
  BY <1>1, <1>2

\* Writing to the second of two sequences in a row.
LEMMA AppendToConcat ==
  ASSUME NEW S, NEW s \in Seq(S), NEW t \in Seq(S), NEW e \in S
  PROVE  s \o Append(t, e) = Append(s \o t, e)
<1>1. Append(t, e) = t \o <<e>>
  BY AppendIsConcat
<1>2. s \o t \in Seq(S) /\ <<e>> \in Seq(S)
  BY ConcatProperties
<1>3. Append(s \o t, e) = (s \o t) \o <<e>>
  BY <1>2, AppendIsConcat
<1>4. QED
  BY <1>1, <1>2, <1>3, ConcatAssociative

-------------------------------------------------------------------------------
(* What a payload does to a text *)

Adding == INSTANCE FoldLaws WITH Op <- Apply

LEMMA PlayFold ==
  ASSUME NEW txt, NEW edits
  PROVE  Play(txt, edits) = Adding!Fold(txt, edits)
BY DEF Play, Adding!Fold, FoldLeft, Adding!FoldLeft, MapThenFoldSet, Adding!MapThenFoldSet,
       Max, Adding!Max

\* The payload of one edit.
LEMMA PlayOne ==
  ASSUME NEW txt, NEW entry
  PROVE  Play(txt, <<entry>>) = Apply(txt, entry)
<1>1. PICK X, none : entry \in X /\ none = <<>> /\ none \in Seq(X)
  <2>1. <<>> \in Seq({entry}) /\ entry \in {entry}
    OBVIOUS
  <2>2. QED
    BY <2>1
<1>2. Append(none, entry) = <<entry>>
  BY <1>1
<1>3. Adding!Fold(txt, Append(none, entry)) = Apply(Adding!Fold(txt, none), entry)
  BY <1>1, Adding!FoldAppend
<1>4. Adding!Fold(txt, none) = txt
  BY <1>1, Adding!FoldEmpty
<1>5. QED
  BY <1>2, <1>3, <1>4, PlayFold

-------------------------------------------------------------------------------
(* Type correctness *)

LEMMA InitTypeOK == Init => TypeOK
  BY DEF Init, TypeOK, Labels, States, NoCommand, Command, Kind, Text, NoPayload, Payload

LEMMA SendType ==
  ASSUME NEW c \in Clients, NEW m \in Message, TypeOK, Send(c, m)
  PROVE  s2c' \in [Clients -> Seq(Message)]
  BY DEF Send, TypeOK

LEMMA RefillType ==
  ASSUME NEW c \in Clients, TypeOK, Refill(c)
  PROVE  /\ inbuf' \in [Clients -> Seq(Message)]
         /\ s2c' \in [Clients -> Seq(Message)]
<1>1. PICK n \in 1 .. Len(s2c[c]) :
        /\ inbuf' = [inbuf EXCEPT ![c] = SubSeq(s2c[c], 2, n)]
        /\ s2c' = [s2c EXCEPT ![c] = SubSeq(@, n + 1, Len(@))]
  BY DEF Refill
<1>2. s2c[c] \in Seq(Message)
  BY DEF TypeOK
<1>3. SubSeq(s2c[c], 2, n) \in Seq(Message)
  BY <1>2
<1>4. SubSeq(s2c[c], n + 1, Len(s2c[c])) \in Seq(Message)
  BY <1>2
<1>5. QED
  BY <1>1, <1>3, <1>4 DEF TypeOK

LEMMA CloseType ==
  ASSUME NEW c \in Clients, TypeOK, Close(c)
  PROVE  /\ client' \in [Clients -> States]
         /\ inbuf' \in [Clients -> Seq(Message)]
         /\ s2c' \in [Clients -> Seq(Message)]
  BY DEF Close, TypeOK, States

LEMMA BrokenPipeType ==
  ASSUME NEW c \in Clients, TypeOK, BrokenPipe(c)
  PROVE  TypeOK'
  BY DEF BrokenPipe, TypeOK, threadVars, coreVars, processVars

\* What is broadcast is a payload.
LEMMA BroadcastPayload ==
  ASSUME NEW c \in Clients, TypeOK, BroadcastSound, pc[c] = "broadcast"
  PROVE  payload \in Payload
<1>1. payload = PayloadOf(version)
  BY DEF BroadcastSound
<1>2. payload # NoPayload
  BY <1>1 DEF PayloadOf, NoPayload
<1>3. QED
  BY <1>2 DEF TypeOK

LEMMA ThreadType ==
  ASSUME NEW c \in Clients, TypeOK, pc[c] = "broadcast" => payload \in Payload, Thread(c)
  PROVE  TypeOK'
<1>1. CASE Authenticate(c)
  BY <1>1 DEF Authenticate, Goto, TypeOK, Labels, coreVars, processVars
<1>2. CASE Refuse(c)
  <2>1. CASE BrokenPipe(c)
    BY <2>1, BrokenPipeType
  <2>2. CASE Send(c, Reject) /\ Goto(c, "done")
             /\ UNCHANGED <<serverUp, lock, cmd, registry, coreVars, c2s, processVars>>
    <3>1. Reject \in Message
      BY DEF Message
    <3>2. s2c' \in [Clients -> Seq(Message)]
      BY <2>2, <3>1, SendType
    <3>3. QED
      BY <2>2, <3>2 DEF Goto, TypeOK, Labels, coreVars, processVars
  <2>3. QED
    BY <1>2, <2>1, <2>2 DEF Refuse
<1>3. CASE NoUsername(c)
  BY <1>3 DEF NoUsername, Goto, TypeOK, Labels, coreVars, processVars
<1>4. CASE Lock(c)
  BY <1>4 DEF Lock, Goto, TypeOK, Labels, coreVars, processVars
<1>5. CASE Greet(c)
  <2>1. CASE BrokenPipe(c)
    BY <2>1, BrokenPipeType
  <2>2. CASE Send(c, [kind |-> "snapshot", version |-> version, text |-> text])
             /\ Goto(c, "register")
             /\ UNCHANGED <<serverUp, lock, cmd, registry, coreVars, c2s, processVars>>
    <3>1. [kind |-> "snapshot", version |-> version, text |-> text] \in Message
      BY DEF Message, Snapshot, TypeOK
    <3>2. s2c' \in [Clients -> Seq(Message)]
      BY <2>2, <3>1, SendType
    <3>3. QED
      BY <2>2, <3>2 DEF Goto, TypeOK, Labels, coreVars, processVars
  <2>3. QED
    BY <1>5, <2>1, <2>2 DEF Greet
<1>6. CASE Register(c)
  <2>1. <<c>> \o registry \in Seq(Clients)
    BY DEF TypeOK
  <2>2. QED
    BY <1>6, <2>1 DEF Register, Goto, TypeOK, Labels, coreVars, processVars
<1>7. CASE ReadCommand(c)
  <2>1. c2s[c] \in Seq(Command) /\ c2s[c] # <<>>
    BY <1>7 DEF ReadCommand, TypeOK
  <2>2. Head(c2s[c]) \in Command /\ Tail(c2s[c]) \in Seq(Command)
    BY <2>1
  <2>3. QED
    BY <1>7, <2>2 DEF ReadCommand, Goto, TypeOK, Labels, coreVars, processVars
<1>8. CASE ReadEof(c)
  BY <1>8 DEF ReadEof, Goto, TypeOK, Labels, coreVars, processVars
<1>9. CASE Commit(c)
  <2>1. PICK result \in Outcomes(c, cmd[c]) :
          LET entry == [user |-> c, id |-> cmd[c].id, result |-> result] IN
          /\ version' = version + 1
          /\ text' = Apply(text, entry)
          /\ history' = Append(history, [entry |-> entry, text |-> text'])
          /\ payload' = [kind |-> "payload", version |-> version', edits |-> <<entry>>]
    BY <1>9 DEF Commit
  <2> DEFINE entry == [user |-> c, id |-> cmd[c].id, result |-> result]
  <2>2. entry \in Entry
    BY <2>1 DEF Outcomes, Result, Entry, TypeOK, Command
  <2>3. text' \in Text /\ version' \in Nat
    BY <2>1, <2>2 DEF Apply, Text, TypeOK
  <2>4. history' \in Seq([entry : Entry, text : Text])
    BY <2>1, <2>2, <2>3 DEF TypeOK
  <2>5. payload' \in Payload
    BY <2>1, <2>2, <2>3 DEF Payload
  <2>6. pc' \in [Clients -> Labels]
    BY <1>9 DEF Commit, Goto, TypeOK, Labels
  <2>7. QED
    BY <1>9, <2>3, <2>4, <2>5, <2>6 DEF Commit, TypeOK, processVars
<1>10. CASE Broadcast(c)
  <2>1. registry[cursor] \in Clients
    BY <1>10 DEF Broadcast, TypeOK
  <2>2. CASE BrokenPipe(registry[cursor])
    BY <2>1, <2>2, BrokenPipeType
  <2>3. CASE Send(registry[cursor], payload) /\ cursor' = cursor + 1
             /\ UNCHANGED <<serverUp, threadVars, version, text, payload, history,
                            c2s, processVars>>
    <3>1. payload \in Message
      BY <1>10 DEF Broadcast, At, Message
    <3>2. s2c' \in [Clients -> Seq(Message)]
      BY <2>1, <2>3, <3>1, SendType
    <3>3. cursor' \in Nat
      BY <2>3 DEF TypeOK
    <3>4. QED
      BY <2>3, <3>2, <3>3 DEF TypeOK, threadVars, processVars
  <2>4. QED
    BY <1>10, <2>2, <2>3 DEF Broadcast
<1>11. CASE EndBroadcast(c)
  BY <1>11 DEF EndBroadcast, Goto, TypeOK, Labels, coreVars, processVars
<1>12. CASE Leave(c)
  <2>1. PICK i \in DOMAIN registry : registry' = Without(registry, i)
    BY <1>12 DEF Leave
  <2>2. registry' \in Seq(Clients)
    <3>1. registry \in Seq(Clients)
      BY DEF TypeOK
    <3>2. i \in 1 .. Len(registry)
      BY <3>1
    <3>3. QED
      BY <2>1, <3>1, <3>2, WithoutProperties
  <2>3. QED
    BY <1>12, <2>2 DEF Leave, Goto, TypeOK, Labels, coreVars, processVars
<1>13. QED
  BY <1>1, <1>2, <1>3, <1>4, <1>5, <1>6, <1>7, <1>8, <1>9, <1>10, <1>11, <1>12 DEF Thread

-------------------------------------------------------------------------------
(* Streams *)

LEMMA IncomingType ==
  ASSUME NEW c \in Clients, TypeOK
  PROVE  /\ inbuf[c] \in Seq(Message) /\ s2c[c] \in Seq(Message)
         /\ Incoming(c) \in Seq(Message)
<1>1. inbuf[c] \in Seq(Message) /\ s2c[c] \in Seq(Message)
  BY DEF TypeOK
<1>2. QED
  BY <1>1, ConcatProperties DEF Incoming

\* A refill moves messages into the buffer, but for the first, which is consumed.
LEMMA RefillIncoming ==
  ASSUME NEW c \in Clients, TypeOK, Refill(c), inbuf[c] = <<>>
  PROVE  /\ Incoming(c) = s2c[c]
         /\ Incoming(c)' = Tail(s2c[c])
         /\ \A d \in Clients \ {c} : Incoming(d)' = Incoming(d)
<1>1. PICK n \in 1 .. Len(s2c[c]) :
        /\ inbuf' = [inbuf EXCEPT ![c] = SubSeq(s2c[c], 2, n)]
        /\ s2c' = [s2c EXCEPT ![c] = SubSeq(s2c[c], n + 1, Len(s2c[c]))]
  BY DEF Refill
<1>2. s2c[c] \in Seq(Message)
  BY DEF TypeOK
<1>3. inbuf'[c] \o s2c'[c] = Tail(s2c[c])
  <2>1. inbuf'[c] = SubSeq(s2c[c], 2, n) /\ s2c'[c] = SubSeq(s2c[c], n + 1, Len(s2c[c]))
    BY <1>1 DEF TypeOK
  <2>2. QED
    BY <1>2, <2>1, RefillSplit
<1>4. \A d \in Clients \ {c} : inbuf'[d] = inbuf[d] /\ s2c'[d] = s2c[d]
  BY <1>1 DEF TypeOK
<1>5. <<>> \o s2c[c] = s2c[c]
  BY <1>2, ConcatEmptySeq
<1>6. QED
  BY <1>3, <1>4, <1>5 DEF Incoming

\* Serving the buffer consumes the first message too.
LEMMA ServeIncoming ==
  ASSUME NEW c \in Clients, TypeOK, inbuf[c] # <<>>,
         inbuf' = [inbuf EXCEPT ![c] = Tail(@)], s2c' = s2c
  PROVE  /\ Incoming(c)' = Tail(Incoming(c))
         /\ Incoming(c) # <<>>
         /\ \A d \in Clients \ {c} : Incoming(d)' = Incoming(d)
<1>1. inbuf[c] \in Seq(Message) /\ s2c[c] \in Seq(Message)
  BY DEF TypeOK
<1>2. inbuf'[c] = Tail(inbuf[c]) /\ s2c'[c] = s2c[c]
  BY DEF TypeOK
<1>3. Tail(inbuf[c]) \o s2c[c] = Tail(inbuf[c] \o s2c[c]) /\ inbuf[c] \o s2c[c] # <<>>
  BY <1>1, TailOfConcat
<1>4. \A d \in Clients \ {c} : inbuf'[d] = inbuf[d] /\ s2c'[d] = s2c[d]
  BY DEF TypeOK
<1>5. QED
  BY <1>2, <1>3, <1>4 DEF Incoming

\* A message sent is the last to be read.
LEMMA SendIncoming ==
  ASSUME NEW c \in Clients, NEW m \in Message, TypeOK, Send(c, m), UNCHANGED inbuf
  PROVE  /\ Incoming(c)' = Append(Incoming(c), m)
         /\ s2c'[c] = Append(s2c[c], m)
         /\ \A d \in Clients \ {c} : Incoming(d)' = Incoming(d) /\ s2c'[d] = s2c[d]
<1>1. inbuf[c] \in Seq(Message) /\ s2c[c] \in Seq(Message)
  BY DEF TypeOK
<1>2. s2c'[c] = Append(s2c[c], m) /\ \A d \in Clients \ {c} : s2c'[d] = s2c[d]
  BY DEF Send, TypeOK
<1>3. inbuf[c] \o Append(s2c[c], m) = Append(inbuf[c] \o s2c[c], m)
  <2>1. \A s, t \in Seq(Message) : s \o Append(t, m) = Append(s \o t, m)
    BY AppendToConcat
  <2>2. QED
    BY <1>1, <2>1
<1>4. QED
  BY <1>2, <1>3 DEF Incoming

\* The payloads that follow v, less the first, are the payloads that follow v + 1.
LEMMA PayloadsTail ==
  ASSUME NEW s \in Seq(Message), NEW v \in Nat, version \in Nat, s # <<>>, Payloads(s, v)
  PROVE  /\ Head(s) = PayloadOf(v + 1)
         /\ v + 1 <= version
         /\ Len(Tail(s)) = Len(s) - 1
         /\ Tail(s) \in Seq(Message)
         /\ Payloads(Tail(s), v + 1)
<1>1. /\ Len(s) \in Nat \ {0}
      /\ Tail(s) \in Seq(Message)
      /\ Len(Tail(s)) = Len(s) - 1
      /\ \A i \in 1 .. Len(Tail(s)) : Tail(s)[i] = s[i + 1]
  BY EmptySeq, HeadTailProperties
<1>2. Head(s) = s[1]
  BY <1>1
<1>3. s[1] = PayloadOf(v + 1)
  BY <1>1 DEF Payloads
<1>4. v + Len(s) <= version
  BY DEF Payloads
<1>5. \A i \in DOMAIN Tail(s) : Tail(s)[i] = PayloadOf((v + 1) + i)
  <2>1. SUFFICES ASSUME NEW i \in 1 .. Len(Tail(s))
                 PROVE  Tail(s)[i] = PayloadOf((v + 1) + i)
    BY <1>1
  <2>2. i + 1 \in DOMAIN s
    BY <1>1
  <2>3. s[i + 1] = PayloadOf(v + (i + 1))
    BY <2>2 DEF Payloads
  <2>4. v + (i + 1) = (v + 1) + i
    BY <1>1
  <2>5. QED
    BY <1>1, <2>3, <2>4
<1>6. QED
  BY <1>1, <1>2, <1>3, <1>4, <1>5 DEF Payloads

\* The payload of the next version may be added at the end.
LEMMA PayloadsAppend ==
  ASSUME NEW s \in Seq(Message), NEW v \in Nat, version \in Nat,
         PayloadOf(version) \in Message,
         Payloads(s, v), v + Len(s) = version - 1
  PROVE  Payloads(Append(s, PayloadOf(version)), v)
<1> DEFINE t == Append(s, PayloadOf(version))
<1>1. /\ Len(s) \in Nat
      /\ t \in Seq(Message)
      /\ Len(t) = Len(s) + 1
      /\ \A i \in 1 .. Len(s) : t[i] = s[i]
      /\ t[Len(s) + 1] = PayloadOf(version)
  BY AppendProperties
<1>2. ASSUME NEW i \in DOMAIN t
      PROVE  t[i] = PayloadOf(v + i)
  <2>1. i \in 1 .. Len(s) + 1
    BY <1>1
  <2>2. CASE i \in 1 .. Len(s)
    BY <1>1, <2>2 DEF Payloads
  <2>3. CASE i = Len(s) + 1
    <3>1. v + i = version
      BY <1>1, <2>3
    <3>2. QED
      BY <1>1, <2>3, <3>1
  <2>4. QED
    BY <1>1, <2>1, <2>2, <2>3
<1> HIDE DEF t
<1>3. v + Len(t) <= version
  BY <1>1
<1>4. Payloads(t, v)
  BY <1>2, <1>3 DEF Payloads
<1>5. QED
  BY <1>4 DEF t

\* An entry of the history is a logged command and the text it resulted in.
LEMMA HistoryEntry ==
  ASSUME TypeOK, HistorySound, NEW v \in 1 .. version
  PROVE  /\ history[v] \in [entry : Entry, text : Text]
         /\ PayloadOf(v) \in Payload
         /\ TextOf(v) = history[v].text
         /\ TextOf(v) = Apply(TextOf(v - 1), history[v].entry)
<1>1. history \in Seq([entry : Entry, text : Text]) /\ Len(history) = version
  BY DEF TypeOK, HistorySound
<1>2. history[v] \in [entry : Entry, text : Text]
  <2>1. v \in 1 .. Len(history)
    BY <1>1
  <2>2. QED
    BY <1>1, <2>1, ElementOfSeq
<1>3. version \in Nat
  BY DEF TypeOK
<1>4. PayloadOf(v) \in Payload
  BY <1>2, <1>3 DEF PayloadOf, Payload
<1>5. TextOf(v) = history[v].text
  BY <1>3 DEF TextOf
<1>6. QED
  BY <1>2, <1>4, <1>5 DEF HistorySound

LEMMA TextOfType ==
  ASSUME TypeOK, HistorySound, NEW v \in 0 .. version
  PROVE  TextOf(v) \in Text
<1>1. CASE v = 0
  BY <1>1 DEF TextOf, Text
<1>2. CASE v # 0
  <2>1. v \in 1 .. version
    BY <1>2 DEF TypeOK
  <2>2. QED
    BY <2>1, HistoryEntry
<1>3. QED
  BY <1>1, <1>2

\* What ReadSnapshot does to the client: it is at the version of the snapshot.
LEMMA ReadSnapshotStep ==
  ASSUME NEW c \in Clients, TypeOK, HistorySound, StreamSound, ReadSnapshot(c)
  PROVE  \E v \in 0 .. version :
           /\ v + Len(s2c[c]) - 1 = LastSent(c)
           /\ pc[c] \in Registered \cup {"register"}
           /\ view' = [view EXCEPT ![c] = [version |-> v, text |-> TextOf(v)]]
           /\ Payloads(Tail(s2c[c]), v)
           /\ inbuf[c] = <<>> /\ s2c[c] # <<>>
           /\ s2c[c] \in Seq(Message)
<1>1. client[c] = "greeting" /\ s2c[c] # <<>> /\ Head(s2c[c]).kind = "snapshot"
  BY DEF ReadSnapshot
<1>2. s2c[c] \in Seq(Message)
  BY DEF TypeOK
<1>3. Head(s2c[c]) = s2c[c][1]
  BY <1>1, <1>2
<1>4. GreetingStream(c)
  BY DEF StreamSound
<1>5. s2c[c] # <<Reject>>
  BY <1>1, <1>3 DEF Reject
<1>6. /\ inbuf[c] = <<>>
      /\ pc[c] \in Registered \cup {"register"}
      /\ s2c[c][1].version \in 0 .. version
      /\ s2c[c][1].text = TextOf(s2c[c][1].version)
      /\ Payloads(Tail(s2c[c]), s2c[c][1].version)
  BY <1>1, <1>4, <1>5 DEF GreetingStream
<1>7. view' = [view EXCEPT ![c] = [version |-> s2c[c][1].version,
                                   text |-> TextOf(s2c[c][1].version)]]
  BY <1>3, <1>6 DEF ReadSnapshot
<1>8. s2c[c][1].version + Len(s2c[c]) - 1 = LastSent(c)
  BY <1>1 DEF LastSent
<1>9. QED
  BY <1>1, <1>2, <1>6, <1>7, <1>8

\* What ReadPayload does to the client: it moves to the next version.
LEMMA ReadPayloadStep ==
  ASSUME NEW c \in Clients, TypeOK, HistorySound, StreamSound, ReadPayload(c)
  PROVE  /\ Open(c)
         /\ view[c].version \in Nat
         /\ view[c].version + 1 \in 1 .. version
         /\ view' = [view EXCEPT ![c] = [version |-> view[c].version + 1,
                                         text |-> TextOf(view[c].version + 1)]]
         /\ Incoming(c) # <<>>
         /\ Incoming(c)' = Tail(Incoming(c))
         /\ Len(Tail(Incoming(c))) = Len(Incoming(c)) - 1
         /\ Payloads(Tail(Incoming(c)), view[c].version + 1)
         /\ \A d \in Clients \ {c} : Incoming(d)' = Incoming(d)
<1> DEFINE v == view[c].version
<1>1. client[c] \in {"ready", "reading"} /\ Incoming(c) # <<>>
  BY DEF ReadPayload
<1>2. Open(c)
  BY <1>1 DEF Open
<1>3. /\ v \in Nat
      /\ version \in Nat
      /\ view[c].text = TextOf(v)
      /\ Payloads(Incoming(c), v)
  BY <1>2 DEF StreamSound, OpenStream, TypeOK
<1>4. Incoming(c) \in Seq(Message)
  BY IncomingType
<1> HIDE DEF v
<1>5. /\ Head(Incoming(c)) = PayloadOf(v + 1)
      /\ v + 1 <= version
      /\ Len(Tail(Incoming(c))) = Len(Incoming(c)) - 1
      /\ Payloads(Tail(Incoming(c)), v + 1)
  BY <1>1, <1>3, <1>4, PayloadsTail
<1>6. v + 1 \in 1 .. version
  BY <1>3, <1>5
<1>7. TextOf(v + 1) = Apply(TextOf(v), history[v + 1].entry)
  <2>1. TextOf(v + 1) = Apply(TextOf((v + 1) - 1), history[v + 1].entry)
    BY <1>6, HistoryEntry
  <2>2. (v + 1) - 1 = v
    BY <1>3
  <2>3. QED
    BY <2>1, <2>2
<1>8. view' = [view EXCEPT ![c] = [version |-> v + 1, text |-> TextOf(v + 1)]]
  <2>1. /\ Head(Incoming(c)).version = v + 1
        /\ Head(Incoming(c)).edits = <<history[v + 1].entry>>
    BY <1>5 DEF PayloadOf
  <2>2. view' = [view EXCEPT ![c] = [version |-> v + 1,
                                     text |-> Apply(view[c].text, history[v + 1].entry)]]
    BY <2>1, PlayOne DEF ReadPayload
  <2>3. QED
    BY <1>3, <1>7, <2>2
<1>9. /\ Incoming(c)' = Tail(Incoming(c))
      /\ \A d \in Clients \ {c} : Incoming(d)' = Incoming(d)
  <2>1. CASE inbuf[c] # <<>>
    BY <2>1, ServeIncoming DEF ReadPayload
  <2>2. CASE inbuf[c] = <<>>
    BY <2>2, RefillIncoming DEF ReadPayload
  <2>3. QED
    BY <2>1, <2>2
<1>10. QED
  BY <1>1, <1>2, <1>3, <1>5, <1>6, <1>8, <1>9 DEF v

\* What a client prints adds up to a version and a text.
LEMMA ViewType ==
  ASSUME NEW c \in Clients, TypeOK, HistorySound, StreamSound, Process(c) \/ User(c)
  PROVE  view' \in [Clients -> [version : Nat, text : Text]]
<1>1. CASE ReadSnapshot(c)
  <2>1. PICK v \in 0 .. version :
          view' = [view EXCEPT ![c] = [version |-> v, text |-> TextOf(v)]]
    BY <1>1, ReadSnapshotStep
  <2>2. version \in Nat
    BY DEF TypeOK
  <2>3. v \in Nat /\ TextOf(v) \in Text
    <3>1. v \in Nat
      BY <2>2
    <3>2. TextOf(v) \in Text
      BY TextOfType
    <3>3. QED
      BY <3>1, <3>2
  <2>4. QED
    BY <2>1, <2>3 DEF TypeOK
<1>2. CASE ReadPayload(c)
  <2>1. /\ view[c].version + 1 \in 1 .. version
        /\ view' = [view EXCEPT ![c] = [version |-> view[c].version + 1,
                                        text |-> TextOf(view[c].version + 1)]]
    BY <1>2, ReadPayloadStep
  <2>2. version \in Nat
    BY DEF TypeOK
  <2>3. view[c].version + 1 \in Nat /\ TextOf(view[c].version + 1) \in Text
    BY <2>1, <2>2, TextOfType
  <2>4. QED
    BY <2>1, <2>3 DEF TypeOK
<1>3. CASE ~(ReadSnapshot(c) \/ ReadPayload(c))
  <2>1. UNCHANGED view
    BY <1>3 DEF Process, User, Connect, ReadReject, TypeCommand, WriteCommand, Hangup, Finish, Quit
  <2>2. QED
    BY <2>1 DEF TypeOK
<1>4. QED
  BY <1>1, <1>2, <1>3

LEMMA ProcessType ==
  ASSUME NEW c \in Clients, TypeOK, Process(c) \/ User(c),
         view' \in [Clients -> [version : Nat, text : Text]]
  PROVE  TypeOK'
<1>1. CASE Connect(c)
  BY <1>1 DEF Connect, Goto, TypeOK, Labels, States, coreVars
<1>2. CASE ReadSnapshot(c)
  <2>1. inbuf' \in [Clients -> Seq(Message)] /\ s2c' \in [Clients -> Seq(Message)]
    BY <1>2, RefillType DEF ReadSnapshot
  <2>2. QED
    BY <1>2, <2>1 DEF ReadSnapshot, TypeOK, States, threadVars, coreVars
<1>3. CASE ReadReject(c)
  BY <1>3, CloseType DEF ReadReject, TypeOK, threadVars, coreVars
<1>4. CASE ReadPayload(c)
  <2>1. inbuf' \in [Clients -> Seq(Message)] /\ s2c' \in [Clients -> Seq(Message)]
    <3>1. CASE inbuf[c] # <<>>
      <4>1. inbuf[c] \in Seq(Message)
        BY DEF TypeOK
      <4>2. Tail(inbuf[c]) \in Seq(Message)
        BY <3>1, <4>1
      <4>3. QED
        BY <1>4, <3>1, <4>2 DEF ReadPayload, TypeOK
    <3>2. CASE inbuf[c] = <<>>
      BY <1>4, <3>2, RefillType DEF ReadPayload
    <3>3. QED
      BY <3>1, <3>2
  <2>2. QED
    BY <1>4, <2>1 DEF ReadPayload, TypeOK, States, threadVars, coreVars
<1>5. CASE TypeCommand(c)
  <2>1. PICK kind \in Kind : input' = [input EXCEPT ![c] = [id |-> typed[c] + 1, kind |-> kind]]
    BY <1>5 DEF TypeCommand
  <2>2. typed[c] + 1 \in Nat
    BY DEF TypeOK
  <2>3. [id |-> typed[c] + 1, kind |-> kind] \in Command
    BY <2>2 DEF Command
  <2>4. input' \in [Clients -> Command] /\ typed' \in [Clients -> Nat]
    BY <1>5, <2>1, <2>2, <2>3 DEF TypeCommand, TypeOK
  <2>5. selected' \in [Clients -> BOOLEAN]
    BY <1>5 DEF TypeCommand, TypeOK, Readable, ServerClosed
  <2>6. QED
    BY <1>5, <2>4, <2>5 DEF TypeCommand, TypeOK, States, threadVars, coreVars
<1>6. CASE WriteCommand(c)
  <2>1. Append(c2s[c], input[c]) \in Seq(Command)
    BY DEF TypeOK
  <2>2. client' \in [Clients -> States]
    BY <1>6 DEF WriteCommand, TypeOK, States
  <2>3. QED
    BY <1>6, <2>1, <2>2 DEF WriteCommand, TypeOK, threadVars, coreVars
<1>7. CASE Hangup(c)
  BY <1>7, CloseType DEF Hangup, TypeOK, threadVars, coreVars
<1>8. CASE Finish(c)
  BY <1>8, CloseType DEF Finish, TypeOK, threadVars, coreVars
<1>9. CASE Quit(c)
  BY <1>9, CloseType DEF Quit, TypeOK, threadVars, coreVars
<1>10. QED
  BY <1>1, <1>2, <1>3, <1>4, <1>5, <1>6, <1>7, <1>8, <1>9 DEF Process, User

-------------------------------------------------------------------------------
(* The mutex, the registry, the history *)

\* A client process changes nothing of the server.
LEMMA ProcessFrame ==
  ASSUME NEW c \in Clients, Process(c) \/ TypeCommand(c) \/ Quit(c)
  PROVE  UNCHANGED <<serverUp, threadVars, coreVars>>
  BY DEF Process, TypeCommand, Quit, ReadSnapshot, ReadReject, ReadPayload, WriteCommand,
         Hangup, Finish

\* A client that has not asked for a connection has no thread.
Started == \A c \in Clients : client[c] = "absent" => pc[c] = "none"

LEMMA MutexStep ==
  ASSUME NEW c \in Clients, TypeOK, MutexHeld, Started,
         Thread(c) \/ Process(c) \/ User(c)
  PROVE  MutexHeld'
<1> USE NoClientAssumption
<1>1. CASE Process(c) \/ TypeCommand(c) \/ Quit(c)
  BY <1>1, ProcessFrame DEF MutexHeld, threadVars
<1>2. CASE Connect(c)
  <2>1. pc[c] = "none"
    BY <1>2 DEF Connect, Started
  <2>2. QED
    BY <1>2, <2>1 DEF Connect, Goto, MutexHeld, TypeOK
<1>3. CASE Authenticate(c)
  BY <1>3 DEF Authenticate, At, Goto, MutexHeld, TypeOK
<1>4. CASE Refuse(c)
  BY <1>4 DEF Refuse, BrokenPipe, At, Goto, MutexHeld, TypeOK, threadVars
<1>5. CASE NoUsername(c)
  BY <1>5 DEF NoUsername, At, Goto, MutexHeld, TypeOK
<1>6. CASE Lock(c)
  BY <1>6 DEF Lock, At, Goto, MutexHeld, TypeOK
<1>7. CASE Greet(c)
  BY <1>7 DEF Greet, BrokenPipe, At, Goto, MutexHeld, TypeOK, threadVars
<1>8. CASE Register(c)
  BY <1>8 DEF Register, At, Goto, MutexHeld, TypeOK
<1>9. CASE ReadCommand(c)
  BY <1>9 DEF ReadCommand, At, Goto, MutexHeld, TypeOK
<1>10. CASE ReadEof(c)
  BY <1>10 DEF ReadEof, At, Goto, MutexHeld, TypeOK
<1>11. CASE Commit(c)
  BY <1>11 DEF Commit, At, Goto, MutexHeld, TypeOK
<1>12. CASE Broadcast(c)
  BY <1>12 DEF Broadcast, BrokenPipe, MutexHeld, threadVars
<1>13. CASE EndBroadcast(c)
  BY <1>13 DEF EndBroadcast, At, Goto, MutexHeld, TypeOK
<1>14. CASE Leave(c)
  BY <1>14 DEF Leave, At, Goto, MutexHeld, TypeOK
<1>15. QED
  BY <1>1, <1>2, <1>3, <1>4, <1>5, <1>6, <1>7, <1>8, <1>9, <1>10, <1>11, <1>12, <1>13,
     <1>14 DEF Thread, User

\* A thread that moves without entering or leaving the registered labels.
LEMMA RegistryKept ==
  ASSUME NEW c \in Clients, NEW label, TypeOK, RegistrySound, UNCHANGED registry,
         pc' = [pc EXCEPT ![c] = label],
         pc[c] \in Registered <=> label \in Registered
  PROVE  RegistrySound'
<1>1. \A d \in Clients : pc'[d] \in Registered <=> pc[d] \in Registered
  BY DEF TypeOK
<1>2. \A d \in Clients : InRegistry(d)' <=> InRegistry(d)
  BY DEF InRegistry
<1>3. QED
  BY <1>1, <1>2 DEF RegistrySound

LEMMA RegistryStep ==
  ASSUME NEW c \in Clients, TypeOK, MutexHeld, RegistrySound, Started,
         Thread(c) \/ Process(c) \/ User(c)
  PROVE  RegistrySound'
<1>1. CASE Process(c) \/ TypeCommand(c) \/ Quit(c)
  BY <1>1, ProcessFrame DEF RegistrySound, InRegistry, threadVars
<1>2. CASE Connect(c)
  <2>1. pc[c] = "none"
    BY <1>2 DEF Connect, Started
  <2>2. QED
    BY <1>2, <2>1, RegistryKept DEF Connect, Goto, Registered, threadVars
<1>3. CASE Authenticate(c)
  BY <1>3, RegistryKept DEF Authenticate, At, Goto, Registered
<1>4. CASE Refuse(c)
  <2>1. CASE BrokenPipe(c)
    BY <2>1 DEF BrokenPipe, RegistrySound, InRegistry, threadVars
  <2>2. CASE Goto(c, "done") /\ UNCHANGED registry
    BY <1>4, <2>2, RegistryKept DEF Refuse, At, Goto, Registered
  <2>3. QED
    BY <1>4, <2>1, <2>2 DEF Refuse
<1>5. CASE NoUsername(c)
  BY <1>5, RegistryKept DEF NoUsername, At, Goto, Registered
<1>6. CASE Lock(c)
  <2>1. CASE At(c, "join") /\ Goto(c, "greet")
    BY <1>6, <2>1, RegistryKept DEF Lock, At, Goto, Registered
  <2>2. CASE At(c, "submit") /\ Goto(c, "commit")
    BY <1>6, <2>2, RegistryKept DEF Lock, At, Goto, Registered
  <2>3. QED
    BY <1>6, <2>1, <2>2 DEF Lock
<1>7. CASE Greet(c)
  <2>1. CASE BrokenPipe(c)
    BY <2>1 DEF BrokenPipe, RegistrySound, InRegistry, threadVars
  <2>2. CASE Goto(c, "register") /\ UNCHANGED registry
    BY <1>7, <2>2, RegistryKept DEF Greet, At, Goto, Registered
  <2>3. QED
    BY <1>7, <2>1, <2>2 DEF Greet
<1>8. CASE Register(c)
  <2>1. pc[c] = "register" /\ ~InRegistry(c)
    BY <1>8 DEF Register, At, RegistrySound, Registered
  <2>2. registry' = <<c>> \o registry /\ pc' = [pc EXCEPT ![c] = "read"]
    BY <1>8, <2>1 DEF Register, Goto
  <2>3. registry \in Seq(Clients) /\ <<c>> \in Seq(Clients)
    BY DEF TypeOK
  <2>4. /\ Len(registry) \in Nat
        /\ DOMAIN registry = 1 .. Len(registry)
        /\ DOMAIN registry' = 1 .. Len(registry) + 1
        /\ registry'[1] = c
        /\ \A i \in 2 .. Len(registry) + 1 : registry'[i] = registry[i - 1]
    BY <2>2, <2>3
  <2>5. ASSUME NEW i \in DOMAIN registry', NEW j \in DOMAIN registry',
               registry'[i] = registry'[j]
        PROVE  i = j
    <3>1. CASE i = 1 \/ j = 1
      BY <2>1, <2>4, <2>5, <3>1 DEF InRegistry
    <3>2. CASE i # 1 /\ j # 1
      <4>1. i - 1 \in DOMAIN registry /\ j - 1 \in DOMAIN registry
        BY <2>4, <3>2
      <4>2. registry[i - 1] = registry[j - 1]
        BY <2>4, <2>5, <3>2
      <4>3. i - 1 = j - 1
        BY <4>1, <4>2 DEF RegistrySound
      <4>4. QED
        BY <2>4, <4>3
    <3>3. QED
      BY <3>1, <3>2
  <2>6. ASSUME NEW d \in Clients
        PROVE  InRegistry(d)' <=> pc'[d] \in Registered
    <3>1. CASE d = c
      <4>1. pc'[c] \in Registered
        BY <2>2 DEF TypeOK, Registered
      <4>2. 1 \in DOMAIN registry' /\ registry'[1] = c
        BY <2>4
      <4>3. QED
        BY <3>1, <4>1, <4>2 DEF InRegistry
    <3>2. CASE d # c
      <4>1. InRegistry(d)' => InRegistry(d)
        <5>1. ASSUME NEW i \in DOMAIN registry', registry'[i] = d
              PROVE  i - 1 \in DOMAIN registry /\ registry[i - 1] = d
          BY <2>4, <3>2, <5>1
        <5>2. QED
          BY <5>1 DEF InRegistry
      <4>2. InRegistry(d) => InRegistry(d)'
        <5>1. ASSUME NEW i \in DOMAIN registry, registry[i] = d
              PROVE  i + 1 \in DOMAIN registry' /\ registry'[i + 1] = d
          BY <2>4, <5>1
        <5>2. QED
          BY <5>1 DEF InRegistry
      <4>3. pc'[d] = pc[d]
        BY <2>2, <3>2 DEF TypeOK
      <4>4. QED
        BY <4>1, <4>2, <4>3 DEF RegistrySound
    <3>3. QED
      BY <3>1, <3>2
  <2>7. QED
    BY <2>5, <2>6 DEF RegistrySound
<1>9. CASE ReadCommand(c)
  BY <1>9, RegistryKept DEF ReadCommand, At, Goto, Registered
<1>10. CASE ReadEof(c)
  BY <1>10, RegistryKept DEF ReadEof, At, Goto, Registered
<1>11. CASE Commit(c)
  BY <1>11, RegistryKept DEF Commit, At, Goto, Registered
<1>12. CASE Broadcast(c)
  BY <1>12 DEF Broadcast, BrokenPipe, RegistrySound, InRegistry, threadVars
<1>13. CASE EndBroadcast(c)
  BY <1>13, RegistryKept DEF EndBroadcast, At, Goto, Registered
<1>14. CASE Leave(c)
  <2>1. PICK k \in DOMAIN registry : registry[k] = c /\ registry' = Without(registry, k)
    BY <1>14 DEF Leave
  <2>2. registry \in Seq(Clients) /\ Len(registry) \in Nat /\ DOMAIN registry = 1 .. Len(registry)
    BY DEF TypeOK
  <2>3. /\ DOMAIN registry' = 1 .. Len(registry) - 1
        /\ \A j \in 1 .. Len(registry) - 1 :
             registry'[j] = IF j < k THEN registry[j] ELSE registry[j + 1]
    <3>1. k \in 1 .. Len(registry)
      BY <2>2
    <3>2. /\ registry' \in Seq(Clients)
          /\ Len(registry') = Len(registry) - 1
          /\ \A j \in 1 .. Len(registry) - 1 :
               registry'[j] = IF j < k THEN registry[j] ELSE registry[j + 1]
      BY <2>1, <2>2, <3>1, WithoutProperties
    <3>3. QED
      BY <3>2
  <2>4. ASSUME NEW i \in DOMAIN registry', NEW j \in DOMAIN registry',
               registry'[i] = registry'[j]
        PROVE  i = j
    <3> DEFINE a == IF i < k THEN i ELSE i + 1
               b == IF j < k THEN j ELSE j + 1
    <3>1. a \in DOMAIN registry /\ b \in DOMAIN registry /\ registry[a] = registry[b]
      BY <2>2, <2>3, <2>4
    <3>2. a = b
      BY <3>1 DEF RegistrySound
    <3>3. QED
      BY <2>2, <2>3, <3>2
  <2>5. ASSUME NEW d \in Clients
        PROVE  InRegistry(d)' <=> InRegistry(d) /\ d # c
    <3>1. ASSUME NEW i \in DOMAIN registry', registry'[i] = d
          PROVE  InRegistry(d) /\ d # c
      <4> DEFINE a == IF i < k THEN i ELSE i + 1
      <4>1. a \in DOMAIN registry /\ registry[a] = d /\ a # k
        BY <2>2, <2>3, <3>1
      <4>2. QED
        BY <2>1, <4>1 DEF RegistrySound, InRegistry
    <3>2. ASSUME NEW i \in DOMAIN registry, registry[i] = d, d # c
          PROVE  InRegistry(d)'
      <4> DEFINE a == IF i < k THEN i ELSE i - 1
      <4>1. i # k
        BY <2>1, <3>2
      <4>2. a \in DOMAIN registry' /\ registry'[a] = d
        BY <2>2, <2>3, <3>2, <4>1
      <4>3. QED
        BY <4>2 DEF InRegistry
    <3>3. QED
      BY <3>1, <3>2 DEF InRegistry
  <2>6. pc' = [pc EXCEPT ![c] = "done"]
    BY <1>14 DEF Leave, Goto
  <2>7. QED
    BY <2>4, <2>5, <2>6 DEF RegistrySound, Registered, TypeOK
<1>15. QED
  BY <1>1, <1>2, <1>3, <1>4, <1>5, <1>6, <1>7, <1>8, <1>9, <1>10, <1>11, <1>12, <1>13,
     <1>14 DEF Thread, User

LEMMA HistoryStep ==
  ASSUME NEW c \in Clients, TypeOK, HistorySound, Thread(c) \/ Process(c) \/ User(c)
  PROVE  HistorySound'
<1>1. CASE UNCHANGED <<version, text, history>>
  BY <1>1 DEF HistorySound, TextOf
<1>2. CASE Commit(c)
  <2>1. PICK result \in Outcomes(c, cmd[c]) :
          /\ version' = version + 1
          /\ text' = Apply(text, [user |-> c, id |-> cmd[c].id, result |-> result])
          /\ history' = Append(history, [entry |-> [user |-> c, id |-> cmd[c].id, result |-> result],
                                         text |-> text'])
    BY <1>2 DEF Commit
  <2> DEFINE entry == [user |-> c, id |-> cmd[c].id, result |-> result]
  <2>2. PICK w \in Nat : w = version
    BY DEF TypeOK
  <2>3. history \in Seq([entry : Entry, text : Text]) /\ Len(history) = w
    BY <2>2 DEF TypeOK, HistorySound
  <2>4. /\ Len(history') = w + 1
        /\ \A v \in 1 .. w : history'[v] = history[v]
        /\ history'[w + 1] = [entry |-> entry, text |-> text']
    BY <2>1, <2>3
  <2>5. \A v \in 0 .. w : TextOf(v)' = TextOf(v)
    BY <2>4 DEF TextOf
  <2>6. TextOf(w + 1)' = text'
    BY <2>4 DEF TextOf
  <2>7. entry.result = "SUCCESS" => entry.user \in Writers
    BY <2>1 DEF Outcomes
  <2>8. text' = Apply(text, entry)
    BY <2>1
  <2> HIDE DEF entry
  <2>9. ASSUME NEW v \in 1 .. w + 1
        PROVE  /\ history'[v].text = Apply(TextOf(v - 1)', history'[v].entry)
               /\ history'[v].entry.result = "SUCCESS" => history'[v].entry.user \in Writers
    <3>1. CASE v \in 1 .. w
      <4>1. TextOf(v - 1)' = TextOf(v - 1)
        BY <2>5, <3>1
      <4>2. QED
        BY <2>2, <2>4, <3>1, <4>1 DEF HistorySound, Apply
    <3>2. CASE v = w + 1
      <4>1. TextOf(v - 1)' = text
        <5>1. v - 1 = w
          BY <3>2
        <5>2. TextOf(w)' = TextOf(w)
          BY <2>5
        <5>3. QED
          BY <2>2, <5>1, <5>2 DEF HistorySound
      <4>2. QED
        BY <2>4, <2>7, <2>8, <3>2, <4>1
    <3>3. QED
      BY <2>9, <3>1, <3>2
  <2>10. version' = w + 1
    BY <2>1, <2>2
  <2>11. text' = TextOf(version)'
    BY <2>4, <2>10 DEF TextOf
  <2>12. QED
    BY <2>4, <2>9, <2>10, <2>11 DEF HistorySound
<1>3. Thread(c) /\ ~Commit(c) => UNCHANGED <<version, text, history>>
  BY DEF Thread, Authenticate, Refuse, NoUsername, Lock, Greet, Register, ReadCommand, ReadEof,
         Broadcast, EndBroadcast, Leave, BrokenPipe, coreVars
<1>4. Process(c) \/ User(c) => UNCHANGED <<version, text, history>>
  BY ProcessFrame DEF User, Connect, coreVars
<1>5. QED
  BY <1>1, <1>2, <1>3, <1>4

\* A version committed is never changed.
LEMMA HistoryKept ==
  ASSUME NEW c \in Clients, TypeOK, HistorySound, Thread(c) \/ Process(c) \/ User(c)
  PROVE  /\ version' \in Nat /\ version <= version'
         /\ \A v \in 0 .. version : TextOf(v)' = TextOf(v)
         /\ \A v \in 1 .. version : PayloadOf(v)' = PayloadOf(v)
<1>0. version \in Nat
  BY DEF TypeOK
<1>1. CASE UNCHANGED <<version, history>>
  BY <1>0, <1>1 DEF TextOf, PayloadOf
<1>2. CASE Commit(c)
  <2>1. version' = version + 1
    BY <1>2 DEF Commit
  <2>2. PICK h : history' = Append(history, h)
    BY <1>2 DEF Commit
  <2>3. \A v \in 1 .. version : history'[v] = history[v]
    BY <1>0, <2>2 DEF TypeOK, HistorySound
  <2>4. QED
    BY <1>0, <2>1, <2>3 DEF TextOf, PayloadOf
<1>3. Thread(c) /\ ~Commit(c) => UNCHANGED <<version, history>>
  BY DEF Thread, Authenticate, Refuse, NoUsername, Lock, Greet, Register, ReadCommand, ReadEof,
         Broadcast, EndBroadcast, Leave, BrokenPipe, coreVars
<1>4. Process(c) \/ User(c) => UNCHANGED <<version, history>>
  BY ProcessFrame DEF User, Connect, coreVars
<1>5. QED
  BY <1>1, <1>2, <1>3, <1>4

\* The payloads sent so far stay those of their versions.
LEMMA PayloadsKept ==
  ASSUME NEW c \in Clients, TypeOK, HistorySound, Thread(c) \/ Process(c) \/ User(c),
         NEW s \in Seq(Message), NEW v \in Nat, Payloads(s, v)
  PROVE  /\ v + Len(s) <= version'
         /\ \A i \in DOMAIN s : s[i] = PayloadOf(v + i)'
<1>1. /\ version' \in Nat /\ version <= version' /\ version \in Nat
      /\ \A w \in 1 .. version : PayloadOf(w)' = PayloadOf(w)
  BY HistoryKept DEF TypeOK
<1>2. Len(s) \in Nat /\ DOMAIN s = 1 .. Len(s) /\ v + Len(s) <= version
  BY DEF Payloads
<1>3. ASSUME NEW i \in DOMAIN s
      PROVE  s[i] = PayloadOf(v + i)'
  <2>1. v + i \in 1 .. version
    BY <1>1, <1>2
  <2>2. s[i] = PayloadOf(v + i)
    BY DEF Payloads
  <2>3. QED
    BY <1>1, <2>1, <2>2
<1>4. QED
  BY <1>1, <1>2, <1>3

LEMMA BroadcastStep ==
  ASSUME NEW c \in Clients, TypeOK, MutexHeld, HistorySound, BroadcastSound,
         Thread(c) \/ Process(c) \/ User(c)
  PROVE  BroadcastSound'
<1>1. ASSUME UNCHANGED <<registry, version, payload, cursor, history>>,
             \A d \in Clients : pc'[d] = "broadcast" => pc[d] = "broadcast"
      PROVE  BroadcastSound'
  BY <1>1 DEF BroadcastSound, PayloadOf
<1>2. ASSUME \A d \in Clients : pc'[d] # "broadcast"
      PROVE  BroadcastSound'
  BY <1>2 DEF BroadcastSound
<1>3. CASE Process(c) \/ TypeCommand(c) \/ Quit(c)
  BY <1>1, <1>3, ProcessFrame DEF threadVars, coreVars
<1>4. CASE Connect(c)
  BY <1>1, <1>4 DEF Connect, Goto, TypeOK, coreVars
<1>5. CASE Authenticate(c)
  BY <1>1, <1>5 DEF Authenticate, Goto, TypeOK, coreVars
<1>6. CASE Refuse(c)
  BY <1>1, <1>6 DEF Refuse, BrokenPipe, Goto, TypeOK, coreVars, threadVars
<1>7. CASE NoUsername(c)
  BY <1>1, <1>7 DEF NoUsername, Goto, TypeOK, coreVars
<1>8. CASE Lock(c)
  BY <1>1, <1>8 DEF Lock, Goto, TypeOK, coreVars
<1>9. CASE Greet(c)
  BY <1>1, <1>9 DEF Greet, BrokenPipe, Goto, TypeOK, coreVars, threadVars
<1>10. CASE Register(c)
  <2>1. \A d \in Clients : pc[d] # "broadcast"
    BY <1>10 DEF Register, At, MutexHeld
  <2>2. \A d \in Clients : pc'[d] # "broadcast"
    BY <1>10, <2>1 DEF Register, Goto, TypeOK
  <2>3. QED
    BY <1>2, <2>2
<1>11. CASE ReadCommand(c)
  BY <1>1, <1>11 DEF ReadCommand, Goto, TypeOK, coreVars
<1>12. CASE ReadEof(c)
  BY <1>1, <1>12 DEF ReadEof, Goto, TypeOK, coreVars
<1>13. CASE Commit(c)
  <2>1. PICK w \in Nat : w = version
    BY DEF TypeOK
  <2>2. \A d \in Clients \ {c} : pc'[d] # "broadcast"
    BY <1>13 DEF Commit, At, Goto, MutexHeld, TypeOK
  <2>3. PICK entry : /\ version' = version + 1
                     /\ history' = Append(history, [entry |-> entry, text |-> text'])
                     /\ payload' = [kind |-> "payload", version |-> version', edits |-> <<entry>>]
    BY <1>13 DEF Commit
  <2>4. history'[w + 1] = [entry |-> entry, text |-> text']
    BY <2>1, <2>3 DEF HistorySound, TypeOK
  <2>5. version' = w + 1 /\ payload' = [kind |-> "payload", version |-> w + 1, edits |-> <<entry>>]
    BY <2>1, <2>3
  <2>6. payload' = PayloadOf(version)'
    BY <2>4, <2>5 DEF PayloadOf
  <2>7. cursor' \in 1 .. Len(registry') + 1
    BY <1>13 DEF Commit, TypeOK
  <2>8. QED
    BY <2>1, <2>2, <2>5, <2>6, <2>7 DEF BroadcastSound
<1>14. CASE Broadcast(c)
  <2>1. CASE BrokenPipe(registry[cursor])
    BY <1>1, <2>1 DEF BrokenPipe, threadVars, coreVars
  <2>2. CASE cursor' = cursor + 1
             /\ UNCHANGED <<threadVars, version, payload, history>>
    <3>1. cursor \in Nat /\ cursor \in 1 .. Len(registry)
      BY <1>14 DEF Broadcast, TypeOK
    <3>2. cursor' \in 1 .. Len(registry) + 1
      BY <2>2, <3>1 DEF TypeOK
    <3>3. QED
      BY <2>2, <3>2 DEF BroadcastSound, PayloadOf, threadVars
  <2>3. QED
    BY <1>14, <2>1, <2>2 DEF Broadcast
<1>15. CASE EndBroadcast(c)
  BY <1>1, <1>15 DEF EndBroadcast, Goto, TypeOK, coreVars
<1>16. CASE Leave(c)
  <2>1. \A d \in Clients : pc[d] # "broadcast"
    BY <1>16, NoClientAssumption DEF Leave, MutexHeld
  <2>2. \A d \in Clients : pc'[d] # "broadcast"
    BY <1>16, <2>1 DEF Leave, Goto, TypeOK
  <2>3. QED
    BY <1>2, <2>2
<1>17. QED
  BY <1>3, <1>4, <1>5, <1>6, <1>7, <1>8, <1>9, <1>10, <1>11, <1>12, <1>13, <1>14, <1>15,
     <1>16 DEF Thread, User

LEMMA ConnectionStep ==
  ASSUME NEW c \in Clients, TypeOK, RegistrySound, StreamSound, ConnectionSound,
         BroadcastSound, Thread(c) \/ Process(c) \/ User(c)
  PROVE  ConnectionSound'
<1>1. CASE BrokenPipe(c) \/ \E d \in Clients : BrokenPipe(d)
  BY <1>1 DEF BrokenPipe, ConnectionSound, threadVars, processVars
<1>2. CASE Authenticate(c)
  BY <1>2 DEF Authenticate, At, Goto, ConnectionSound, TypeOK, processVars
<1>3. CASE Refuse(c)
  <2>1. CASE Send(c, Reject) /\ Goto(c, "done") /\ UNCHANGED <<c2s, processVars>>
    BY <1>3, <2>1 DEF Refuse, At, Send, Goto, ConnectionSound, TypeOK, processVars
  <2>2. QED
    BY <1>1, <1>3, <2>1 DEF Refuse
<1>4. CASE NoUsername(c)
  BY <1>4 DEF NoUsername, At, Goto, ConnectionSound, TypeOK, processVars
<1>5. CASE Lock(c)
  BY <1>5 DEF Lock, At, Goto, ConnectionSound, TypeOK, processVars
<1>6. CASE Greet(c)
  <2>1. CASE Send(c, [kind |-> "snapshot", version |-> version, text |-> text])
             /\ Goto(c, "register") /\ UNCHANGED <<c2s, processVars>>
    BY <1>6, <2>1 DEF Greet, At, Send, Goto, ConnectionSound, TypeOK, processVars
  <2>2. QED
    BY <1>1, <1>6, <2>1 DEF Greet
<1>7. CASE Register(c)
  BY <1>7 DEF Register, At, Goto, ConnectionSound, TypeOK, processVars
<1>8. CASE ReadCommand(c)
  BY <1>8 DEF ReadCommand, At, Goto, ConnectionSound, TypeOK, processVars
<1>9. CASE ReadEof(c)
  BY <1>9 DEF ReadEof, At, Goto, ConnectionSound, TypeOK, processVars
<1>10. CASE Commit(c)
  BY <1>10 DEF Commit, At, Goto, ConnectionSound, TypeOK, processVars
<1>11. CASE Broadcast(c)
  <2>1. registry[cursor] \in Clients
    BY <1>11 DEF Broadcast, TypeOK
  <2>2. CASE Send(registry[cursor], payload) /\ UNCHANGED <<threadVars, c2s, processVars>>
    <3>1. InRegistry(registry[cursor])
      BY <1>11 DEF Broadcast, InRegistry
    <3>2. pc[registry[cursor]] # "none"
      BY <2>1, <3>1 DEF RegistrySound, Registered
    <3>3. QED
      BY <2>1, <2>2, <3>2 DEF Send, ConnectionSound, TypeOK, threadVars, processVars
  <2>3. QED
    BY <1>1, <1>11, <2>1, <2>2 DEF Broadcast
<1>12. CASE EndBroadcast(c)
  BY <1>12 DEF EndBroadcast, At, Goto, ConnectionSound, TypeOK, processVars
<1>13. CASE Leave(c)
  BY <1>13 DEF Leave, At, Goto, ConnectionSound, TypeOK, processVars
<1>14. CASE Connect(c)
  BY <1>14 DEF Connect, Goto, ConnectionSound, TypeOK
<1>15. CASE ReadSnapshot(c)
  <2>1. PICK n \in 1 .. Len(s2c[c]) :
          /\ inbuf' = [inbuf EXCEPT ![c] = SubSeq(s2c[c], 2, n)]
          /\ s2c' = [s2c EXCEPT ![c] = SubSeq(s2c[c], n + 1, Len(s2c[c]))]
    BY <1>15 DEF ReadSnapshot, Refill
  <2>2. QED
    BY <1>15, <2>1 DEF ReadSnapshot, ConnectionSound, TypeOK, threadVars
<1>16. CASE ReadReject(c)
  BY <1>16 DEF ReadReject, Close, ConnectionSound, TypeOK, threadVars
<1>17. CASE ReadPayload(c)
  <2>1. client[c] \in {"ready", "reading"} /\ client' = [client EXCEPT ![c] = "ready"]
    BY <1>17 DEF ReadPayload
  <2>2. /\ \A d \in Clients \ {c} : inbuf'[d] = inbuf[d] /\ s2c'[d] = s2c[d]
        /\ UNCHANGED <<pc, c2s>>
    BY <1>17 DEF ReadPayload, Refill, TypeOK, threadVars
  <2>3. QED
    BY <2>1, <2>2 DEF ConnectionSound, TypeOK
<1>18. CASE TypeCommand(c)
  BY <1>18 DEF TypeCommand, ConnectionSound, TypeOK, threadVars
<1>19. CASE WriteCommand(c)
  BY <1>19 DEF WriteCommand, ConnectionSound, TypeOK, threadVars
<1>20. CASE Hangup(c)
  BY <1>20 DEF Hangup, Close, ConnectionSound, TypeOK, threadVars
<1>21. CASE Finish(c)
  BY <1>21 DEF Finish, Close, ConnectionSound, TypeOK, threadVars
<1>22. CASE Quit(c)
  BY <1>22 DEF Quit, Close, ConnectionSound, TypeOK, threadVars
<1>23. QED
  BY <1>2, <1>3, <1>4, <1>5, <1>6, <1>7, <1>8, <1>9, <1>10, <1>11, <1>12, <1>13, <1>14,
     <1>15, <1>16, <1>17, <1>18, <1>19, <1>20, <1>21, <1>22 DEF Thread, Process, User

-------------------------------------------------------------------------------
(* The streams *)

\* A client whose messages and document are left alone, whatever is committed.
LEMMA StreamKept ==
  ASSUME NEW c \in Clients, TypeOK, HistorySound, StreamSound,
         Thread(c) \/ Process(c) \/ User(c),
         NEW d \in Clients,
         inbuf'[d] = inbuf[d], s2c'[d] = s2c[d], view'[d] = view[d],
         client'[d] = client[d] \/ (Open(d) /\ Open(d)'),
         \/ pc'[d] = pc[d]
         \/ pc[d] \in {"auth", "join", "greet"} /\ pc'[d] \in {"auth", "join", "greet"}
         \/ pc[d] \in Registered \cup {"register"} /\ pc'[d] \in Registered \cup {"register"}
         \/ client[d] # "greeting" /\ pc'[d] = "done"
  PROVE  GreetingStream(d)' /\ OpenStream(d)'
<1>1. PICK s \in Seq(Message), in \in Seq(Message), vw \in [version : Nat, text : Text] :
        s = s2c[d] /\ in = Incoming(d) /\ vw = view[d]
  BY IncomingType DEF TypeOK
<1>2. s = s2c'[d] /\ in = Incoming(d)' /\ vw = view'[d]
  BY <1>1 DEF Incoming
<1>3. /\ version \in Nat /\ version' \in Nat /\ version <= version'
      /\ \A v \in 0 .. version : TextOf(v)' = TextOf(v)
  BY HistoryKept DEF TypeOK
<1>4. GreetingStream(d)'
  <2>1. SUFFICES ASSUME client'[d] = "greeting"
                 PROVE  GreetingStream(d)'
    BY DEF GreetingStream
  <2>2. client[d] = "greeting" /\ GreetingStream(d)
    BY <2>1 DEF Open, StreamSound
  <2>3. CASE pc[d] \in {"auth", "join", "greet"} /\ s = <<>>
    BY <1>1, <1>2, <2>2, <2>3 DEF GreetingStream, Registered
  <2>4. CASE pc[d] = "done" /\ s = <<Reject>>
    BY <1>1, <1>2, <2>2, <2>4 DEF GreetingStream, Registered
  <2>5. CASE /\ pc[d] \in Registered \cup {"register"}
             /\ s # <<>>
             /\ s[1].kind = "snapshot"
             /\ s[1].version \in 0 .. version
             /\ s[1].text = TextOf(s[1].version)
             /\ Payloads(Tail(s), s[1].version)
    <3>1. PICK v \in 0 .. version : v = s[1].version
      BY <2>5
    <3>2. v \in Nat /\ v \in 0 .. version'
      BY <1>3
    <3>3. Tail(s) \in Seq(Message)
      BY <2>5
    <3>4. /\ v + Len(Tail(s)) <= version'
          /\ \A i \in DOMAIN Tail(s) : Tail(s)[i] = PayloadOf(v + i)'
      BY <2>5, <3>1, <3>2, <3>3, PayloadsKept
    <3>5. Payloads(Tail(s), v)'
      BY <3>4 DEF Payloads
    <3>6. Payloads(Tail(s2c[d]), s2c[d][1].version)'
      BY <1>2, <3>1, <3>5 DEF Payloads
    <3>7. (s2c[d][1].text = TextOf(s2c[d][1].version))'
      BY <1>2, <1>3, <2>5, <3>1 DEF TextOf
    <3>8. pc'[d] \in Registered \cup {"register"}
      BY <2>2, <2>5 DEF Registered
    <3>9. inbuf'[d] = <<>>
      BY <2>2 DEF GreetingStream
    <3>10. s2c'[d] # <<>> /\ s2c'[d][1].kind = "snapshot" /\ s2c'[d][1].version \in 0 .. version'
      BY <1>2, <2>5, <3>1, <3>2
    <3>11. QED
      BY <3>6, <3>7, <3>8, <3>9, <3>10 DEF GreetingStream
  <2>6. QED
    BY <1>1, <2>2, <2>3, <2>4, <2>5 DEF GreetingStream
<1>5. OpenStream(d)'
  <2>1. SUFFICES ASSUME Open(d)'
                 PROVE  OpenStream(d)'
    BY DEF OpenStream
  <2>2. Open(d) /\ OpenStream(d)
    BY <2>1 DEF Open, StreamSound
  <2>3. /\ vw.version \in 0 .. version
        /\ vw.text = TextOf(vw.version)
        /\ Payloads(in, vw.version)
    BY <1>1, <2>2 DEF OpenStream
  <2>4. /\ vw.version + Len(in) <= version'
        /\ \A i \in DOMAIN in : in[i] = PayloadOf(vw.version + i)'
    BY <2>3, PayloadsKept
  <2>5. Payloads(in, vw.version)'
    BY <2>4 DEF Payloads
  <2>6. Payloads(Incoming(d), view[d].version)'
    BY <1>2, <2>5 DEF Payloads
  <2>7. (view[d].text = TextOf(view[d].version))'
    BY <1>2, <1>3, <2>3 DEF TextOf
  <2>8. view'[d].version \in 0 .. version'
    BY <1>2, <1>3, <2>3
  <2>9. pc'[d] \in Registered \cup {"register", "done"}
    BY <2>2 DEF OpenStream, Registered
  <2>10. QED
    BY <2>6, <2>7, <2>8, <2>9 DEF OpenStream
<1>6. QED
  BY <1>4, <1>5

LEMMA StreamClosed ==
  ASSUME NEW d \in Clients, client'[d] \in {"absent", "closed"}
  PROVE  GreetingStream(d)' /\ OpenStream(d)'
  BY DEF GreetingStream, OpenStream, Open

\* Before it gets its document, a client that a thread serves is waiting for it.
LEMMA BeforeDocument ==
  ASSUME NEW c \in Clients, TypeOK, StreamSound, ConnectionSound,
         pc[c] \in {"auth", "join", "greet"}, client[c] # "closed"
  PROVE  client[c] = "greeting" /\ s2c[c] = <<>> /\ inbuf[c] = <<>>
<1>1. client[c] # "absent"
  BY DEF ConnectionSound
<1>2. ~Open(c)
  BY DEF StreamSound, OpenStream, Registered
<1>3. client[c] = "greeting"
  BY <1>1, <1>2 DEF Open, TypeOK, States
<1>4. QED
  BY <1>3 DEF StreamSound, GreetingStream, Registered

\* The client a broadcast has come to has been sent everything but the new version.
LEMMA BroadcastTarget ==
  ASSUME NEW c \in Clients, TypeOK, RegistrySound, ConnectionSound, NoUpdateMissed,
         At(c, "broadcast"), cursor \in DOMAIN registry,
         client[registry[cursor]] # "closed"
  PROVE  /\ registry[cursor] \in Clients
         /\ pc[registry[cursor]] \in Registered
         /\ client[registry[cursor]] \notin {"absent", "closed"}
         /\ LastSent(registry[cursor]) = version - 1
<1> DEFINE e == registry[cursor]
<1>1. e \in Clients
  BY DEF TypeOK
<1>2. InRegistry(e)
  BY DEF InRegistry
<1> HIDE DEF e
<1>3. pc[e] \in Registered
  BY <1>1, <1>2 DEF RegistrySound
<1>4. client[e] # "absent"
  BY <1>1, <1>3 DEF ConnectionSound, Registered
<1>5. Awaiting(e)
  BY DEF Awaiting, At, TypeOK, e
<1>6. LastSent(e) = version - 1
  BY <1>1, <1>3, <1>4, <1>5 DEF NoUpdateMissed, e
<1>7. QED
  BY <1>1, <1>3, <1>4, <1>6 DEF e

LEMMA StreamBroadcast ==
  ASSUME NEW c \in Clients, TypeOK, HistorySound, RegistrySound, ConnectionSound,
         BroadcastSound, StreamSound, NoUpdateMissed, At(c, "broadcast"),
         cursor \in DOMAIN registry, Send(registry[cursor], payload),
         UNCHANGED <<threadVars, version, history, processVars>>,
         NEW e \in Clients, e = registry[cursor]
  PROVE  GreetingStream(e)' /\ OpenStream(e)'
<1>1. /\ pc[e] \in Registered
      /\ client[e] \notin {"absent", "closed"}
      /\ LastSent(e) = version - 1
  BY BroadcastTarget DEF Send
<1>2. payload = PayloadOf(version) /\ version \in Nat /\ version > 0
  BY DEF At, BroadcastSound, TypeOK
<1>3. PayloadOf(version) \in Message
  BY <1>2, HistoryEntry DEF Message
<1>4. /\ Incoming(e)' = Append(Incoming(e), PayloadOf(version))
      /\ s2c'[e] = Append(s2c[e], PayloadOf(version))
  BY <1>2, <1>3, SendIncoming DEF processVars
<1>5. Incoming(e) \in Seq(Message) /\ s2c[e] \in Seq(Message)
  BY IncomingType
<1>6. GreetingStream(e)'
  <2>1. SUFFICES ASSUME client[e] = "greeting"
                 PROVE  GreetingStream(e)'
    BY DEF GreetingStream, processVars
  <2>2. /\ inbuf[e] = <<>>
        /\ s2c[e] # <<>>
        /\ s2c[e][1].kind = "snapshot"
        /\ s2c[e][1].version \in 0 .. version
        /\ s2c[e][1].text = TextOf(s2c[e][1].version)
        /\ Payloads(Tail(s2c[e]), s2c[e][1].version)
    BY <1>1, <2>1 DEF StreamSound, GreetingStream, Registered
  <2>3. PICK v \in Nat : v = s2c[e][1].version
    BY <1>2, <2>2
  <2>4. Len(s2c[e]) \in Nat /\ Tail(s2c[e]) \in Seq(Message) /\ Len(Tail(s2c[e])) = Len(s2c[e]) - 1
    BY <1>5, <2>2, HeadTailProperties
  <2>5. v + Len(Tail(s2c[e])) = version - 1
    BY <1>1, <2>1, <2>3, <2>4 DEF LastSent
  <2>6. Payloads(Append(Tail(s2c[e]), PayloadOf(version)), v)
    BY <1>2, <1>3, <2>2, <2>3, <2>4, <2>5, PayloadsAppend
  <2>7. Tail(s2c'[e]) = Append(Tail(s2c[e]), PayloadOf(version))
    BY <1>4, <1>5, <2>2, HeadTailAppend
  <2>8. s2c'[e] # <<>> /\ s2c'[e][1] = s2c[e][1]
    BY <1>3, <1>4, <1>5, <2>2, AppendFirst
  <2>9. Payloads(Tail(s2c[e]), s2c[e][1].version)'
    BY <2>3, <2>6, <2>7, <2>8 DEF Payloads, PayloadOf
  <2>10. QED
    BY <1>1, <2>2, <2>8, <2>9 DEF GreetingStream, TextOf, threadVars, processVars
<1>7. OpenStream(e)'
  <2>1. SUFFICES ASSUME Open(e)
                 PROVE  OpenStream(e)'
    BY DEF OpenStream, Open, processVars
  <2>2. /\ pc[e] \in Registered \cup {"register", "done"}
        /\ view[e].version \in 0 .. version
        /\ view[e].text = TextOf(view[e].version)
        /\ Payloads(Incoming(e), view[e].version)
    BY <2>1 DEF StreamSound, OpenStream
  <2>3. view[e].version \in Nat /\ view[e].version + Len(Incoming(e)) = version - 1
    BY <1>1, <2>1 DEF LastSent, Open, TypeOK
  <2>4. Payloads(Append(Incoming(e), PayloadOf(version)), view[e].version)
    BY <1>2, <1>3, <1>5, <2>2, <2>3, PayloadsAppend
  <2>5. Payloads(Incoming(e), view[e].version)'
    BY <1>4, <2>4 DEF Payloads, PayloadOf, processVars
  <2>6. QED
    BY <2>2, <2>5 DEF OpenStream, TextOf, threadVars, processVars
<1>8. QED
  BY <1>6, <1>7

LEMMA StreamStep ==
  ASSUME NEW c \in Clients, TypeOK, MutexHeld, RegistrySound, HistorySound, BroadcastSound,
         ConnectionSound, StreamSound, NoUpdateMissed,
         Thread(c) \/ Process(c) \/ User(c)
  PROVE  StreamSound'
<1> SUFFICES ASSUME NEW d \in Clients
             PROVE  GreetingStream(d)' /\ OpenStream(d)'
  BY DEF StreamSound
<1>1. ASSUME UNCHANGED <<pc, s2c, processVars>>
      PROVE  GreetingStream(d)' /\ OpenStream(d)'
  BY <1>1, StreamKept DEF processVars
\* A thread that moves on without writing to a client.
<1>2. ASSUME NEW label, Goto(c, label), UNCHANGED <<s2c, processVars>>,
             \/ pc[c] \in {"auth", "join", "greet"} /\ label \in {"auth", "join", "greet"}
             \/ pc[c] \in Registered \cup {"register"} /\ label \in Registered \cup {"register"}
             \/ client[c] # "greeting" /\ label = "done"
      PROVE  GreetingStream(d)' /\ OpenStream(d)'
  <2>1. CASE d = c
    <3>1. pc'[c] = label
      BY <1>2 DEF Goto, TypeOK
    <3>2. QED
      BY <1>2, <2>1, <3>1, StreamKept DEF processVars
  <2>2. CASE d # c
    <3>1. pc'[d] = pc[d]
      BY <1>2, <2>2 DEF Goto, TypeOK
    <3>2. QED
      BY <1>2, <3>1, StreamKept DEF processVars
  <2>3. QED
    BY <2>1, <2>2
<1>3. CASE BrokenPipe(c) \/ BrokenPipe(registry[cursor])
  BY <1>1, <1>3 DEF BrokenPipe, threadVars
<1>4. CASE Authenticate(c)
  BY <1>2, <1>4 DEF Authenticate, At
<1>5. CASE Refuse(c)
  <2>1. CASE Send(c, Reject) /\ Goto(c, "done") /\ UNCHANGED processVars
    <3>1. client[c] = "greeting" /\ s2c[c] = <<>> /\ inbuf[c] = <<>>
      BY <1>5, <2>1, BeforeDocument DEF Refuse, At, Send
    <3>2. s2c'[c] = <<Reject>> /\ \A x \in Clients \ {c} : s2c'[x] = s2c[x]
      BY <2>1, <3>1 DEF Send, TypeOK
    <3>3. pc'[c] = "done" /\ \A x \in Clients \ {c} : pc'[x] = pc[x]
      BY <2>1 DEF Goto, TypeOK
    <3>4. GreetingStream(c)' /\ OpenStream(c)'
      BY <2>1, <3>1, <3>2, <3>3 DEF GreetingStream, OpenStream, Open, processVars
    <3>5. d # c => GreetingStream(d)' /\ OpenStream(d)'
      BY <2>1, <3>2, <3>3, StreamKept DEF processVars
    <3>6. QED
      BY <3>4, <3>5
  <2>2. QED
    BY <1>3, <1>5, <2>1 DEF Refuse
<1>6. CASE NoUsername(c)
  BY <1>2, <1>6 DEF NoUsername, At
<1>7. CASE Lock(c)
  BY <1>2, <1>7 DEF Lock, At, Registered
<1>8. CASE Greet(c)
  <2> DEFINE m == [kind |-> "snapshot", version |-> version, text |-> text]
  <2>1. CASE Send(c, m) /\ Goto(c, "register")
             /\ UNCHANGED <<serverUp, lock, cmd, registry, coreVars, c2s, processVars>>
    <3>1. client[c] = "greeting" /\ s2c[c] = <<>> /\ inbuf[c] = <<>>
      BY <1>8, <2>1, BeforeDocument DEF Greet, At, Send
    <3>2. s2c'[c] = <<m>> /\ \A x \in Clients \ {c} : s2c'[x] = s2c[x]
      BY <2>1, <3>1 DEF Send, TypeOK
    <3>3. pc'[c] = "register" /\ \A x \in Clients \ {c} : pc'[x] = pc[x]
      BY <2>1 DEF Goto, TypeOK
    <3>4. s2c'[c][1] = m /\ Tail(s2c'[c]) = <<>> /\ s2c'[c] # <<>>
      BY <3>2
    <3>5. version' = version /\ version \in Nat /\ text = TextOf(version) /\ history' = history
      BY <2>1 DEF HistorySound, TypeOK, coreVars
    <3>6. Payloads(Tail(s2c[c]), s2c[c][1].version)'
      <4>1. s2c'[c][1].version = version /\ Tail(s2c'[c]) = <<>>
        BY <3>4
      <4>2. PICK t \in Seq(Message) : t = <<>>
        BY EmptySeq
      <4>3. Len(t) = 0 /\ \A i \in DOMAIN t : FALSE
        BY <4>2
      <4>4. s2c'[c][1].version + Len(t) <= version'
        BY <3>5, <4>1, <4>3
      <4>5. Tail(s2c'[c]) = t
        BY <4>1, <4>2
      <4>6. QED
        BY <4>3, <4>4, <4>5 DEF Payloads, PayloadOf
    <3>7. GreetingStream(c)'
      BY <2>1, <3>1, <3>3, <3>4, <3>5, <3>6 DEF GreetingStream, TextOf, processVars
    <3>8. OpenStream(c)'
      BY <2>1, <3>1 DEF OpenStream, Open, processVars
    <3>9. d # c => GreetingStream(d)' /\ OpenStream(d)'
      BY <2>1, <3>2, <3>3, StreamKept DEF processVars
    <3>10. QED
      BY <3>7, <3>8, <3>9
  <2>2. QED
    BY <1>3, <1>8, <2>1 DEF Greet
<1>9. CASE Register(c)
  <2>1. pc[c] = "register" /\ ~InRegistry(c)
    BY <1>9 DEF Register, At, RegistrySound, Registered
  <2>2. QED
    BY <1>2, <1>9, <2>1 DEF Register, Registered
<1>10. CASE ReadCommand(c)
  BY <1>2, <1>10 DEF ReadCommand, At, Registered
<1>11. CASE ReadEof(c)
  BY <1>2, <1>11 DEF ReadEof, At, Registered
<1>12. CASE Commit(c)
  BY <1>2, <1>12 DEF Commit, At, Registered
<1>13. CASE Broadcast(c)
  <2>1. CASE Send(registry[cursor], payload)
             /\ UNCHANGED <<threadVars, version, history, processVars>>
    <3>1. CASE d = registry[cursor]
      BY <1>13, <2>1, <3>1, StreamBroadcast DEF Broadcast
    <3>2. CASE d # registry[cursor]
      <4>1. s2c'[d] = s2c[d]
        BY <2>1, <3>2 DEF Send, TypeOK
      <4>2. QED
        BY <2>1, <4>1, StreamKept DEF threadVars, processVars
    <3>3. QED
      BY <3>1, <3>2
  <2>2. QED
    BY <1>3, <1>13, <2>1 DEF Broadcast
<1>14. CASE EndBroadcast(c)
  BY <1>2, <1>14 DEF EndBroadcast, At, Registered
<1>15. CASE Leave(c)
  <2>1. client[c] # "greeting"
    BY <1>15 DEF Leave, At, ConnectionSound
  <2>2. QED
    BY <1>2, <1>15, <2>1 DEF Leave
\* A step of the client process leaves the other clients alone.
<1>16. ASSUME UNCHANGED pc,
              \A x \in Clients \ {c} : /\ inbuf'[x] = inbuf[x] /\ s2c'[x] = s2c[x]
                                       /\ view'[x] = view[x] /\ client'[x] = client[x],
              d # c
       PROVE  GreetingStream(d)' /\ OpenStream(d)'
  BY <1>16, StreamKept
<1>17. ASSUME UNCHANGED <<pc, view>>, Close(c)
       PROVE  GreetingStream(d)' /\ OpenStream(d)'
  <2>1. client'[c] = "closed"
    BY <1>17 DEF Close, TypeOK
  <2>2. \A x \in Clients \ {c} : /\ inbuf'[x] = inbuf[x] /\ s2c'[x] = s2c[x]
                                 /\ client'[x] = client[x]
    BY <1>17 DEF Close, TypeOK
  <2>3. QED
    BY <1>16, <1>17, <2>1, <2>2, StreamClosed
<1>18. CASE Connect(c)
  <2>1. pc[c] = "none" /\ inbuf[c] = <<>> /\ s2c[c] = <<>>
    BY <1>18 DEF Connect, ConnectionSound
  <2>2. pc'[c] = "auth" /\ client'[c] = "greeting"
        /\ \A x \in Clients \ {c} : pc'[x] = pc[x] /\ client'[x] = client[x]
    BY <1>18 DEF Connect, Goto, TypeOK
  <2>3. GreetingStream(c)' /\ OpenStream(c)'
    BY <1>18, <2>1, <2>2 DEF Connect, GreetingStream, OpenStream, Open
  <2>4. d # c => GreetingStream(d)' /\ OpenStream(d)'
    BY <1>18, <2>2, StreamKept DEF Connect
  <2>5. QED
    BY <2>3, <2>4
<1>19. CASE ReadSnapshot(c)
  <2>1. PICK v \in 0 .. version :
          /\ pc[c] \in Registered \cup {"register"}
          /\ view' = [view EXCEPT ![c] = [version |-> v, text |-> TextOf(v)]]
          /\ Payloads(Tail(s2c[c]), v)
          /\ inbuf[c] = <<>>
    BY <1>19, ReadSnapshotStep
  <2>2. UNCHANGED <<pc, version, history>>
    BY <1>19 DEF ReadSnapshot, threadVars, coreVars
  <2>3. /\ Incoming(c)' = Tail(s2c[c])
        /\ client' = [client EXCEPT ![c] = "ready"]
    BY <1>19, <2>1, RefillIncoming DEF ReadSnapshot
  <2>4. view'[c] = [version |-> v, text |-> TextOf(v)] /\ client'[c] = "ready"
    BY <2>1, <2>3 DEF TypeOK
  <2>5. Payloads(Incoming(c), view[c].version)'
    BY <2>1, <2>2, <2>3, <2>4 DEF Payloads, PayloadOf
  <2>6. OpenStream(c)' /\ GreetingStream(c)'
    BY <2>1, <2>2, <2>4, <2>5 DEF OpenStream, GreetingStream, TextOf
  <2>7. \A x \in Clients \ {c} : /\ inbuf'[x] = inbuf[x] /\ s2c'[x] = s2c[x]
                                 /\ view'[x] = view[x] /\ client'[x] = client[x]
    BY <1>19, <2>1, <2>3 DEF ReadSnapshot, Refill, TypeOK
  <2>8. QED
    BY <1>16, <2>2, <2>6, <2>7
<1>20. CASE ReadReject(c)
  BY <1>17, <1>20 DEF ReadReject, threadVars
<1>21. CASE ReadPayload(c)
  <2>1. PICK v \in Nat : v = view[c].version + 1
    BY DEF TypeOK
  <2>2. /\ Open(c)
        /\ v \in 1 .. version
        /\ view' = [view EXCEPT ![c] = [version |-> v, text |-> TextOf(v)]]
        /\ Incoming(c)' = Tail(Incoming(c))
        /\ Payloads(Tail(Incoming(c)), v)
    BY <1>21, <2>1, ReadPayloadStep
  <2>3. UNCHANGED <<pc, version, history>> /\ client' = [client EXCEPT ![c] = "ready"]
    BY <1>21 DEF ReadPayload, threadVars, coreVars
  <2>4. view'[c] = [version |-> v, text |-> TextOf(v)] /\ client'[c] = "ready"
    BY <2>2, <2>3 DEF TypeOK
  <2>5. Payloads(Incoming(c), view[c].version)'
    BY <2>2, <2>3, <2>4 DEF Payloads, PayloadOf
  <2>6. pc[c] \in Registered \cup {"register", "done"}
    BY <2>2 DEF StreamSound, OpenStream
  <2>7. OpenStream(c)' /\ GreetingStream(c)'
    BY <2>1, <2>2, <2>3, <2>4, <2>5, <2>6 DEF OpenStream, GreetingStream, TextOf, TypeOK
  <2>8. \A x \in Clients \ {c} : /\ inbuf'[x] = inbuf[x] /\ s2c'[x] = s2c[x]
                                 /\ view'[x] = view[x] /\ client'[x] = client[x]
    BY <1>21, <2>2, <2>3 DEF ReadPayload, Refill, TypeOK
  <2>9. QED
    BY <1>16, <2>3, <2>7, <2>8
<1>22. CASE TypeCommand(c)
  <2>1. Open(c) /\ Open(c)' /\ UNCHANGED <<pc, s2c, inbuf, view>>
        /\ \A x \in Clients \ {c} : client'[x] = client[x]
    BY <1>22 DEF TypeCommand, Open, TypeOK, threadVars
  <2>2. QED
    BY <2>1, StreamKept
<1>23. CASE WriteCommand(c)
  <2>1. Open(c) /\ Open(c)' /\ UNCHANGED <<pc, s2c, inbuf, view>>
        /\ \A x \in Clients \ {c} : client'[x] = client[x]
    BY <1>23 DEF WriteCommand, Open, TypeOK, threadVars
  <2>2. QED
    BY <2>1, StreamKept
<1>24. CASE Hangup(c) \/ Finish(c) \/ Quit(c)
  BY <1>17, <1>24 DEF Hangup, Finish, Quit, threadVars
<1>25. QED
  BY <1>4, <1>5, <1>6, <1>7, <1>8, <1>9, <1>10, <1>11, <1>12, <1>13, <1>14, <1>15, <1>18,
     <1>19, <1>20, <1>21, <1>22, <1>23, <1>24 DEF Thread, Process, User

-------------------------------------------------------------------------------
(* No update is missed *)

\* LastSent looks at nothing but the messages, the document and whether c has one.
LEMMA LastSentKept ==
  ASSUME NEW d \in Clients, inbuf'[d] = inbuf[d], s2c'[d] = s2c[d], view'[d] = view[d],
         client'[d] = "greeting" <=> client[d] = "greeting"
  PROVE  LastSent(d)' = LastSent(d)
  BY DEF LastSent, Incoming

\* A client that was up to date, and whose share nothing changed, still is.
LEMMA MissedKept ==
  ASSUME NEW d \in Clients, NoUpdateMissed,
         pc'[d] \in Registered \cup {"register"} => pc[d] \in Registered \cup {"register"},
         client'[d] \notin {"absent", "closed"} => client[d] \notin {"absent", "closed"},
         LastSent(d)' = LastSent(d), version' = version,
         Awaiting(d)' <=> Awaiting(d),
         pc'[d] \in Registered \cup {"register"}, client'[d] \notin {"absent", "closed"}
  PROVE  LastSent(d)' = IF Awaiting(d)' THEN version' - 1 ELSE version'
<1>1. LastSent(d) = IF Awaiting(d) THEN version - 1 ELSE version
  BY DEF NoUpdateMissed
<1>2. QED
  BY <1>1

LEMMA MissedStep ==
  ASSUME NEW c \in Clients, TypeOK, MutexHeld, RegistrySound, HistorySound, BroadcastSound,
         ConnectionSound, StreamSound, NoUpdateMissed,
         Thread(c) \/ Process(c) \/ User(c)
  PROVE  NoUpdateMissed'
<1> SUFFICES ASSUME NEW d \in Clients,
                    pc'[d] \in Registered \cup {"register"},
                    client'[d] \notin {"absent", "closed"}
             PROVE  LastSent(d)' = IF Awaiting(d)' THEN version' - 1 ELSE version'
  BY DEF NoUpdateMissed
<1> DEFINE Goal == LastSent(d)' = IF Awaiting(d)' THEN version' - 1 ELSE version'
\* Steps that touch neither a broadcast nor a stream.
<1>1. ASSUME UNCHANGED <<registry, cursor, version>>,
             \A e \in Clients : pc'[e] = "broadcast" <=> pc[e] = "broadcast"
      PROVE  version' = version /\ (Awaiting(d)' <=> Awaiting(d))
  BY <1>1 DEF Awaiting
<1>2. ASSUME UNCHANGED <<registry, cursor, version, s2c, processVars>>,
             \A e \in Clients : pc'[e] = "broadcast" <=> pc[e] = "broadcast",
             pc[d] \in Registered \cup {"register"}
      PROVE  Goal
  <2>1. LastSent(d)' = LastSent(d)
    BY <1>2, LastSentKept DEF processVars
  <2>2. QED
    BY <1>1, <1>2, <2>1, MissedKept DEF processVars
<1>3. CASE BrokenPipe(c) \/ BrokenPipe(registry[cursor])
  BY <1>2, <1>3 DEF BrokenPipe, threadVars, coreVars
<1>4. CASE Authenticate(c)
  BY <1>2, <1>4 DEF Authenticate, At, Goto, TypeOK, Registered, coreVars
<1>5. CASE Refuse(c)
  <2>1. CASE Send(c, Reject) /\ Goto(c, "done")
             /\ UNCHANGED <<registry, coreVars, processVars>>
    <3>1. d # c
      BY <2>1 DEF Goto, TypeOK, Registered
    <3>2. s2c'[d] = s2c[d]
      BY <2>1, <3>1 DEF Send, TypeOK
    <3>3. LastSent(d)' = LastSent(d)
      BY <2>1, <3>2, LastSentKept DEF processVars
    <3>4. pc'[d] = pc[d]
      BY <2>1, <3>1 DEF Goto, TypeOK
    <3>5. version' = version /\ (Awaiting(d)' <=> Awaiting(d))
      BY <1>1, <1>5, <2>1 DEF Refuse, At, Goto, TypeOK, coreVars
    <3>6. QED
      BY <2>1, <3>3, <3>4, <3>5, MissedKept DEF processVars
  <2>2. QED
    BY <1>3, <1>5, <2>1 DEF Refuse
<1>6. CASE NoUsername(c)
  BY <1>2, <1>6 DEF NoUsername, At, Goto, TypeOK, Registered, coreVars
<1>7. CASE Lock(c)
  BY <1>2, <1>7 DEF Lock, At, Goto, TypeOK, Registered, coreVars
<1>8. CASE Greet(c)
  <2> DEFINE m == [kind |-> "snapshot", version |-> version, text |-> text]
  <2>1. CASE Send(c, m) /\ Goto(c, "register")
             /\ UNCHANGED <<serverUp, lock, cmd, registry, coreVars, c2s, processVars>>
    <3>1. \A e \in Clients : pc[e] # "broadcast" /\ pc'[e] # "broadcast"
      BY <1>8, <2>1 DEF Greet, At, Goto, MutexHeld, TypeOK
    <3>2. ~Awaiting(d) /\ ~Awaiting(d)' /\ version' = version /\ version \in Nat
      BY <2>1, <3>1 DEF Awaiting, TypeOK, coreVars
    <3>3. CASE d = c
      <4>1. client[c] = "greeting" /\ s2c[c] = <<>>
        BY <1>8, <2>1, BeforeDocument DEF Greet, At, Send
      <4>2. s2c'[c] = <<m>> /\ client'[c] = "greeting"
        BY <2>1, <4>1 DEF Send, TypeOK, processVars
      <4>3. s2c'[c][1].version = version /\ Len(s2c'[c]) = 1
        BY <4>2
      <4>4. LastSent(c)' = version
        BY <3>2, <4>2, <4>3 DEF LastSent
      <4>5. QED
        BY <3>2, <3>3, <4>4
    <3>4. CASE d # c
      <4>1. s2c'[d] = s2c[d] /\ pc'[d] = pc[d]
        BY <2>1, <3>4 DEF Send, Goto, TypeOK
      <4>2. LastSent(d)' = LastSent(d)
        BY <2>1, <4>1, LastSentKept DEF processVars
      <4>3. QED
        BY <2>1, <3>2, <4>1, <4>2, MissedKept DEF processVars
    <3>5. QED
      BY <3>3, <3>4
  <2>2. QED
    BY <1>3, <1>8, <2>1 DEF Greet
\* Steps of the thread that holds the mutex, or takes it for an instant: nothing is
\* being broadcast.
<1>9. ASSUME UNCHANGED <<version, s2c, processVars>>,
             \A e \in Clients : pc[e] # "broadcast" /\ pc'[e] # "broadcast",
             pc[d] \in Registered \cup {"register"}
      PROVE  Goal
  <2>1. ~Awaiting(d) /\ ~Awaiting(d)'
    BY <1>9 DEF Awaiting
  <2>2. LastSent(d)' = LastSent(d)
    BY <1>9, LastSentKept DEF processVars
  <2>3. QED
    BY <1>9, <2>1, <2>2, MissedKept DEF processVars
<1>10. CASE Register(c)
  <2>1. \A e \in Clients : pc[e] # "broadcast" /\ pc'[e] # "broadcast"
    BY <1>10 DEF Register, At, Goto, MutexHeld, TypeOK
  <2>2. pc[d] \in Registered \cup {"register"}
    BY <1>10 DEF Register, At, Goto, TypeOK, Registered
  <2>3. QED
    BY <1>9, <1>10, <2>1, <2>2 DEF Register, coreVars
<1>11. CASE ReadCommand(c)
  BY <1>2, <1>11 DEF ReadCommand, At, Goto, TypeOK, Registered, coreVars
<1>12. CASE ReadEof(c)
  BY <1>2, <1>12 DEF ReadEof, At, Goto, TypeOK, Registered, coreVars
<1>13. CASE Commit(c)
  <2>1. \A e \in Clients : pc[e] # "broadcast"
    BY <1>13 DEF Commit, At, MutexHeld
  <2>2. pc[d] \in Registered
    <3>1. pc[d] \in Registered \cup {"register"}
      BY <1>13 DEF Commit, At, Goto, TypeOK, Registered
    <3>2. pc[d] # "register"
      BY <1>13 DEF Commit, At, MutexHeld
    <3>3. QED
      BY <3>1, <3>2
  <2>3. LastSent(d)' = LastSent(d) /\ client'[d] = client[d]
    BY <1>13, LastSentKept DEF Commit, processVars
  <2>4. LastSent(d) = version
    <3>1. ~Awaiting(d)
      BY <2>1 DEF Awaiting
    <3>2. QED
      BY <2>2, <2>3, <3>1 DEF NoUpdateMissed
  <2>5. PICK i \in DOMAIN registry : registry[i] = d
    BY <2>2 DEF RegistrySound, InRegistry
  <2>6. Awaiting(d)'
    <3>1. registry' = registry /\ cursor' = 1 /\ pc'[c] = "broadcast"
      BY <1>13 DEF Commit, Goto, TypeOK
    <3>2. i >= 1
      BY DEF TypeOK
    <3>3. QED
      BY <2>5, <3>1, <3>2 DEF Awaiting
  <2>7. version' = version + 1 /\ version \in Nat
    BY <1>13 DEF Commit, TypeOK
  <2>8. QED
    BY <2>3, <2>4, <2>6, <2>7
<1>14. CASE Broadcast(c)
  <2>1. CASE Send(registry[cursor], payload) /\ cursor' = cursor + 1
             /\ UNCHANGED <<threadVars, version, payload, history, processVars>>
    <3>1. PICK e \in Clients : e = registry[cursor]
      BY <1>14 DEF Broadcast, TypeOK
    <3>2. cursor \in Nat /\ cursor \in DOMAIN registry /\ pc[c] = "broadcast"
          /\ \A i \in DOMAIN registry : i \in Nat
      <4>1. registry \in Seq(Clients) /\ cursor \in Nat
        BY DEF TypeOK
      <4>2. DOMAIN registry = 1 .. Len(registry) /\ Len(registry) \in Nat
        BY <4>1, LenProperties
      <4>3. cursor \in DOMAIN registry /\ pc[c] = "broadcast"
        BY <1>14 DEF Broadcast, At
      <4>4. QED
        BY <4>1, <4>2, <4>3
    <3>3. CASE d = e
      <4>1. LastSent(d) = version - 1 /\ client[d] \notin {"absent", "closed"}
        BY <1>14, <2>1, <3>1, <3>3, BroadcastTarget DEF Broadcast, Send
      <4>2. payload \in Message
        <5>1. payload = PayloadOf(version) /\ version \in Nat /\ version > 0
          BY <3>2 DEF BroadcastSound, TypeOK
        <5>2. QED
          BY <5>1, HistoryEntry DEF Message
      <4>3. /\ Incoming(d)' = Append(Incoming(d), payload)
            /\ s2c'[d] = Append(s2c[d], payload)
        BY <2>1, <3>1, <3>3, <4>2, SendIncoming DEF processVars
      <4>4. LastSent(d)' = LastSent(d) + 1
        <5>1. Incoming(d) \in Seq(Message) /\ s2c[d] \in Seq(Message)
          BY IncomingType
        <5>2. /\ Len(s2c'[d]) = Len(s2c[d]) + 1
              /\ Len(Incoming(d)') = Len(Incoming(d)) + 1
          BY <4>2, <4>3, <5>1, AppendProperties
        <5>3. CASE client[d] = "greeting"
          <6>1. s2c[d] # <<>> /\ s2c[d][1].version \in 0 .. version
            <7>1. pc[d] \in Registered
              BY <2>1, <3>3, <1>14, <3>1, BroadcastTarget DEF Broadcast, Send
            <7>2. QED
              BY <5>3, <7>1 DEF StreamSound, GreetingStream, Registered
          <6>2. s2c'[d][1] = s2c[d][1]
            BY <4>2, <4>3, <5>1, <6>1, AppendFirst
          <6>3. s2c[d][1].version \in Int /\ Len(s2c[d]) \in Nat
            BY <5>1, <6>1, LenProperties
          <6>4. LastSent(d)' = s2c'[d][1].version + Len(s2c'[d]) - 1
            BY <2>1, <5>3 DEF LastSent, processVars
          <6>5. LastSent(d) = s2c[d][1].version + Len(s2c[d]) - 1
            BY <5>3 DEF LastSent
          <6>6. QED
            BY <5>2, <6>2, <6>3, <6>4, <6>5
        <5>4. CASE client[d] # "greeting"
          <6>1. view[d].version \in Nat /\ Len(Incoming(d)) \in Nat
            <7>1. view[d].version \in Nat
              BY DEF TypeOK
            <7>2. QED
              BY <5>1, <7>1, LenProperties
          <6>2. LastSent(d)' = view[d].version + Len(Incoming(d)')
            BY <2>1, <5>4 DEF LastSent, processVars
          <6>3. LastSent(d) = view[d].version + Len(Incoming(d))
            BY <5>4 DEF LastSent
          <6>4. QED
            BY <5>2, <6>1, <6>2, <6>3
        <5>5. QED
          BY <5>3, <5>4
      <4>5. ~Awaiting(d)'
        <5>1. ASSUME NEW i \in DOMAIN registry, registry[i] = d
              PROVE  ~(i >= cursor + 1)
          BY <3>1, <3>2, <3>3, <5>1 DEF RegistrySound
        <5>2. QED
          BY <2>1, <5>1 DEF Awaiting, threadVars
      <4>6. version' = version /\ version \in Nat
        BY <2>1 DEF TypeOK
      <4>7. QED
        BY <4>1, <4>4, <4>5, <4>6
    <3>4. CASE d # e
      <4>1. s2c'[d] = s2c[d]
        BY <2>1, <3>1, <3>4 DEF Send, TypeOK
      <4>2. LastSent(d)' = LastSent(d)
        BY <2>1, <4>1, LastSentKept DEF processVars
      <4>3. Awaiting(d)' <=> Awaiting(d)
        <5>1. ASSUME NEW i \in DOMAIN registry, registry[i] = d
              PROVE  i >= cursor + 1 <=> i >= cursor
          BY <3>1, <3>2, <3>4, <5>1
        <5>2. QED
          BY <2>1, <5>1 DEF Awaiting, threadVars
      <4>4. QED
        BY <2>1, <4>2, <4>3, MissedKept DEF threadVars, processVars
    <3>5. QED
      BY <3>3, <3>4
  <2>2. QED
    BY <1>3, <1>14, <2>1 DEF Broadcast
<1>15. CASE EndBroadcast(c)
  <2>1. \A e \in Clients \ {c} : pc[e] # "broadcast"
    BY <1>15 DEF EndBroadcast, At, MutexHeld
  <2>2. \A e \in Clients : pc'[e] # "broadcast"
    BY <1>15, <2>1 DEF EndBroadcast, Goto, TypeOK
  <2>3. \A i \in DOMAIN registry : ~(i >= cursor)
    BY <1>15 DEF EndBroadcast, At, BroadcastSound, TypeOK
  <2>4. ~Awaiting(d) /\ ~Awaiting(d)'
    BY <2>2, <2>3 DEF Awaiting
  <2>5. LastSent(d)' = LastSent(d)
    BY <1>15, LastSentKept DEF EndBroadcast, processVars
  <2>6. pc[d] \in Registered \cup {"register"} /\ client'[d] = client[d] /\ version' = version
    BY <1>15 DEF EndBroadcast, At, Goto, TypeOK, Registered, processVars, coreVars
  <2>7. QED
    BY <2>4, <2>5, <2>6, MissedKept
<1>16. CASE Leave(c)
  <2>1. \A e \in Clients : pc[e] # "broadcast" /\ pc'[e] # "broadcast"
    BY <1>16, NoClientAssumption DEF Leave, Goto, MutexHeld, TypeOK
  <2>2. pc[d] \in Registered \cup {"register"}
    BY <1>16 DEF Leave, At, Goto, TypeOK, Registered
  <2>3. QED
    BY <1>9, <1>16, <2>1, <2>2 DEF Leave, coreVars
\* Steps of a client process.
<1>17. ASSUME UNCHANGED <<threadVars, coreVars>>, LastSent(d)' = LastSent(d),
              client[d] \notin {"absent", "closed"}
       PROVE  Goal
  BY <1>1, <1>17, MissedKept DEF threadVars, coreVars
<1>18. CASE Connect(c)
  <2>1. d # c
    BY <1>18 DEF Connect, Goto, TypeOK, Registered
  <2>2. pc'[d] = pc[d] /\ client'[d] = client[d]
    BY <1>18, <2>1 DEF Connect, Goto, TypeOK
  <2>3. pc[c] = "none"
    BY <1>18 DEF Connect, ConnectionSound
  <2>4. version' = version /\ (Awaiting(d)' <=> Awaiting(d))
    BY <1>1, <1>18, <2>3 DEF Connect, Goto, TypeOK, coreVars
  <2>5. LastSent(d)' = LastSent(d)
    BY <1>18, <2>2, LastSentKept DEF Connect
  <2>6. QED
    BY <2>2, <2>4, <2>5, MissedKept
<1>19. CASE ReadSnapshot(c)
  <2>1. PICK v \in 0 .. version :
          /\ v + Len(s2c[c]) - 1 = LastSent(c)
          /\ view' = [view EXCEPT ![c] = [version |-> v, text |-> TextOf(v)]]
          /\ inbuf[c] = <<>> /\ s2c[c] # <<>> /\ s2c[c] \in Seq(Message)
    BY <1>19, ReadSnapshotStep
  <2>2. /\ Incoming(c)' = Tail(s2c[c])
        /\ client[c] = "greeting"
        /\ client' = [client EXCEPT ![c] = "ready"]
    BY <1>19, <2>1, RefillIncoming DEF ReadSnapshot
  <2>3. CASE d = c
    <3>1. client'[d] = "ready" /\ view'[d].version = v
      BY <2>1, <2>2, <2>3 DEF TypeOK
    <3>2. LastSent(d)' = v + Len(Tail(s2c[c]))
      BY <2>2, <2>3, <3>1 DEF LastSent
    <3>3. Len(Tail(s2c[c])) = Len(s2c[c]) - 1 /\ Len(s2c[c]) \in Nat
      BY <2>1, HeadTailProperties
    <3>4. LastSent(d)' = LastSent(d)
      BY <2>1, <2>3, <3>2, <3>3 DEF TypeOK
    <3>5. QED
      BY <1>17, <1>19, <2>2, <2>3, <3>4 DEF ReadSnapshot
  <2>4. CASE d # c
    <3>1. s2c'[d] = s2c[d] /\ inbuf'[d] = inbuf[d] /\ view'[d] = view[d] /\ client'[d] = client[d]
      BY <1>19, <2>1, <2>2, <2>4 DEF ReadSnapshot, Refill, TypeOK
    <3>2. QED
      BY <1>17, <1>19, <3>1, LastSentKept DEF ReadSnapshot
  <2>5. QED
    BY <2>3, <2>4
<1>20. CASE ReadPayload(c)
  <2>1. PICK v \in Nat : v = view[c].version
    BY DEF TypeOK
  <2>2. /\ Open(c)
        /\ view' = [view EXCEPT ![c] = [version |-> v + 1, text |-> TextOf(v + 1)]]
        /\ Incoming(c)' = Tail(Incoming(c))
        /\ Len(Tail(Incoming(c))) = Len(Incoming(c)) - 1
    BY <1>20, <2>1, ReadPayloadStep
  <2>3. client' = [client EXCEPT ![c] = "ready"]
    BY <1>20 DEF ReadPayload
  <2>4. CASE d = c
    <3>1. client'[d] = "ready" /\ client[d] # "greeting" /\ view'[d].version = v + 1
      BY <2>2, <2>3, <2>4 DEF Open, TypeOK
    <3>2. LastSent(d)' = (v + 1) + Len(Tail(Incoming(c)))
      BY <2>2, <2>4, <3>1 DEF LastSent
    <3>3. LastSent(d) = v + Len(Incoming(c)) /\ Len(Incoming(c)) \in Nat
      <4>1. Len(Incoming(c)) \in Nat
        BY IncomingType, LenProperties
      <4>2. LastSent(d) = v + Len(Incoming(c))
        BY <2>1, <2>4, <3>1 DEF LastSent
      <4>3. QED
        BY <4>1, <4>2
    <3>4. LastSent(d)' = LastSent(d)
      <4>1. PICK n \in Nat : n = Len(Incoming(c))
        BY <3>3
      <4>2. Len(Tail(Incoming(c))) = n - 1
        BY <2>2, <4>1
      <4>3. LastSent(d)' = (v + 1) + (n - 1) /\ LastSent(d) = v + n
        BY <3>2, <3>3, <4>1, <4>2
      <4>4. (v + 1) + (n - 1) = v + n
        OBVIOUS
      <4>5. QED
        BY <4>3, <4>4
    <3>5. QED
      BY <1>17, <1>20, <2>2, <2>4, <3>4 DEF ReadPayload, Open
  <2>5. CASE d # c
    <3>1. s2c'[d] = s2c[d] /\ inbuf'[d] = inbuf[d] /\ view'[d] = view[d] /\ client'[d] = client[d]
      BY <1>20, <2>2, <2>3, <2>5 DEF ReadPayload, Refill, TypeOK
    <3>2. QED
      BY <1>17, <1>20, <3>1, LastSentKept DEF ReadPayload
  <2>6. QED
    BY <2>4, <2>5
<1>21. CASE TypeCommand(c) \/ WriteCommand(c)
  <2>1. /\ UNCHANGED <<threadVars, coreVars, s2c, inbuf, view>>
        /\ client[d] = client'[d] \/ (Open(d) /\ Open(d)')
    BY <1>21 DEF TypeCommand, WriteCommand, Open, TypeOK
  <2>2. LastSent(d)' = LastSent(d)
    BY <2>1, LastSentKept DEF Open
  <2>3. QED
    BY <1>17, <2>1, <2>2 DEF Open
<1>22. CASE ReadReject(c) \/ Hangup(c) \/ Finish(c) \/ Quit(c)
  <2>1. Close(c) /\ UNCHANGED <<threadVars, coreVars, view>>
    BY <1>22 DEF ReadReject, Hangup, Finish, Quit
  <2>2. d # c
    BY <2>1 DEF Close, TypeOK
  <2>3. s2c'[d] = s2c[d] /\ inbuf'[d] = inbuf[d] /\ client'[d] = client[d]
    BY <2>1, <2>2 DEF Close, TypeOK
  <2>4. QED
    BY <1>17, <2>1, <2>3, LastSentKept
<1>23. QED
  BY <1>4, <1>5, <1>6, <1>7, <1>8, <1>10, <1>11, <1>12, <1>13, <1>14, <1>15, <1>16, <1>18,
     <1>19, <1>20, <1>21, <1>22 DEF Thread, Process, User

-------------------------------------------------------------------------------
(* The invariant, and the theorems *)

LEMMA InitIndInv == Init => IndInv
<1> SUFFICES ASSUME Init PROVE IndInv
  OBVIOUS
<1>1. TypeOK
  BY InitTypeOK
<1>2. \A c \in Clients : pc[c] = "none" /\ client[c] = "absent" /\ inbuf[c] = <<>>
                         /\ s2c[c] = <<>> /\ c2s[c] = <<>>
  BY DEF Init
<1>3. MutexHeld
  BY <1>2, NoClientAssumption DEF Init, MutexHeld
<1>4. RegistrySound
  BY <1>2 DEF Init, RegistrySound, InRegistry, Registered
<1>5. HistorySound
  BY DEF Init, HistorySound, TextOf
<1>6. BroadcastSound
  BY <1>2 DEF BroadcastSound
<1>7. ConnectionSound
  BY <1>2 DEF ConnectionSound
<1>8. StreamSound
  BY <1>2 DEF StreamSound, GreetingStream, OpenStream, Open
<1>9. NoUpdateMissed
  BY <1>2 DEF NoUpdateMissed, Registered
<1>10. QED
  BY <1>1, <1>3, <1>4, <1>5, <1>6, <1>7, <1>8, <1>9 DEF IndInv

LEMMA StutterIndInv == ASSUME IndInv, UNCHANGED vars PROVE IndInv'
<1>1. UNCHANGED <<serverUp, lock, pc, cmd, registry, version, text, payload, cursor, c2s,
                  s2c, inbuf, client, selected, input, typed, view, history>>
  BY DEF vars, coreVars, threadVars, processVars
<1>2. TypeOK' /\ MutexHeld' /\ ConnectionSound'
  BY <1>1 DEF IndInv, TypeOK, MutexHeld, ConnectionSound
<1>3. RegistrySound' /\ HistorySound' /\ BroadcastSound'
  BY <1>1 DEF IndInv, RegistrySound, InRegistry, HistorySound, TextOf, BroadcastSound, PayloadOf
<1>4. StreamSound'
  BY <1>1 DEF IndInv, StreamSound, GreetingStream, OpenStream, Open, Incoming, Payloads,
              PayloadOf, TextOf
<1>5. NoUpdateMissed'
  BY <1>1 DEF IndInv, NoUpdateMissed, LastSent, Awaiting, Incoming
<1>6. QED
  BY <1>2, <1>3, <1>4, <1>5 DEF IndInv

LEMMA StepIndInv == ASSUME IndInv, [Next]_vars PROVE IndInv'
<1>1. CASE UNCHANGED vars
  BY <1>1, StutterIndInv
<1>2. ASSUME NEW c \in Clients, Thread(c) \/ Process(c) \/ User(c)
      PROVE  IndInv'
  <2> USE DEF IndInv
  <2>0. Started
    BY DEF Started, ConnectionSound
  <2>1. TypeOK'
    BY <1>2, BroadcastPayload, ThreadType, ViewType, ProcessType
  <2>2. MutexHeld'
    BY <1>2, <2>0, MutexStep
  <2>3. RegistrySound'
    BY <1>2, <2>0, RegistryStep
  <2>4. HistorySound'
    BY <1>2, HistoryStep
  <2>5. BroadcastSound'
    BY <1>2, BroadcastStep
  <2>6. ConnectionSound'
    BY <1>2, ConnectionStep
  <2>7. StreamSound'
    BY <1>2, StreamStep
  <2>8. NoUpdateMissed'
    BY <1>2, MissedStep
  <2>9. QED
    BY <2>1, <2>2, <2>3, <2>4, <2>5, <2>6, <2>7, <2>8
<1>3. QED
  BY <1>1, <1>2 DEF Next

\* The inductive invariant holds in every state the threads of server.c and the client
\* processes of client.c can reach, for any number of clients and any size of FIFO.
THEOREM InvariantHolds == Spec => []IndInv
<1>1. Init => IndInv
  BY InitIndInv
<1>2. IndInv /\ [Next]_vars => IndInv'
  BY StepIndInv
<1>3. QED
  BY <1>1, <1>2, PTL DEF Spec

\* Every variable keeps the values its C counterpart can hold; in particular no
\* broadcast entry carries the OUTDATED_VERSION result the editing functions know.
THEOREM TypeCorrect == Spec => []TypeOK
<1>1. IndInv => TypeOK
  BY DEF IndInv
<1>2. QED
  BY <1>1, InvariantHolds, PTL

\* client_thread_main's mutex: the thread that greets, registers, commits or broadcasts
\* is the one that holds it, so there is never a second.
THEOREM MutualExclusion == Spec => []MutexHeld
<1>1. IndInv => MutexHeld
  BY DEF IndInv
<1>2. QED
  BY <1>1, InvariantHolds, PTL

\* client_registry_add and client_registry_remove: the list holds exactly the clients
\* whose threads are serving them, each once.
THEOREM RegistryCorrect == Spec => []RegistrySound
<1>1. IndInv => RegistrySound
  BY DEF IndInv
<1>2. QED
  BY <1>1, InvariantHolds, PTL

\* From the initial document on, a client is shown the text of one version after the
\* other, without a gap, a repetition or a text that was never committed.
THEOREM StreamsCorrect == Spec => []StreamSound
<1>1. IndInv => StreamSound
  BY DEF IndInv
<1>2. QED
  BY <1>1, InvariantHolds, PTL

\* The initial document and the registration are one step to every commit: a registered
\* client has been sent all versions, but the one a broadcast is still bringing it.
THEOREM NothingMissed == Spec => []NoUpdateMissed
<1>1. IndInv => NoUpdateMissed
  BY DEF IndInv
<1>2. QED
  BY <1>1, InvariantHolds, PTL
-------------------------------------------------------------------------------
(* The read after a select *)

\* What select may report stays there while the threads run: they only add to a FIFO of
\* a client that is open, and a closed end stays closed.
LEMMA ThreadKeepsReadable ==
  ASSUME NEW c \in Clients, TypeOK, Thread(c), NEW d \in Clients
  PROVE  /\ UNCHANGED <<client, selected>>
         /\ s2c[d] # <<>> => s2c'[d] # <<>>
         /\ ServerClosed(d) => ServerClosed(d)'
<1> USE DEF ServerClosed, At, Goto, processVars
<1>1. \A e \in Clients : BrokenPipe(e) =>
        UNCHANGED <<client, selected, s2c>> /\ ~serverUp'
  BY DEF BrokenPipe
<1>2. ASSUME NEW e \in Clients, NEW message, Send(e, message)
      PROVE  s2c[d] # <<>> => s2c'[d] # <<>>
  <2>1. CASE d = e
    <3>1. s2c'[d] = Append(s2c[d], message)
      BY <1>2, <2>1 DEF Send, TypeOK
    <3>2. s2c[d] \in Seq(Message \cup {message})
      <4>1. s2c[d] \in Seq(Message)
        BY DEF TypeOK
      <4>2. QED
        BY <4>1, SeqMonotonic
    <3>3. Append(s2c[d], message) # <<>>
      BY <3>2, AppendProperties
    <3>4. QED
      BY <3>1, <3>3
  <2>2. CASE d # e
    BY <1>2, <2>2 DEF Send, TypeOK
  <2>3. QED
    BY <2>1, <2>2
<1>3. CASE Authenticate(c) \/ NoUsername(c) \/ Lock(c) \/ Register(c)
  BY <1>3 DEF Authenticate, NoUsername, Lock, Register, TypeOK
<1>4. CASE Refuse(c)
  <2>1. CASE BrokenPipe(c)
    BY <1>1, <2>1
  <2>2. CASE Send(c, Reject) /\ Goto(c, "done") /\ UNCHANGED <<serverUp, processVars>>
    <3>1. s2c[d] # <<>> => s2c'[d] # <<>>
      BY <1>2, <2>2
    <3>2. QED
      BY <2>2, <3>1 DEF TypeOK
  <2>3. QED
    BY <1>4, <2>1, <2>2 DEF Refuse
<1>5. CASE Greet(c)
  <2>1. CASE BrokenPipe(c)
    BY <1>1, <2>1
  <2>2. CASE /\ Send(c, [kind |-> "snapshot", version |-> version, text |-> text])
             /\ Goto(c, "register") /\ UNCHANGED <<serverUp, processVars>>
    <3>1. s2c[d] # <<>> => s2c'[d] # <<>>
      BY <1>2, <2>2
    <3>2. pc[c] = "greet"
      BY <1>5 DEF Greet
    <3>3. QED
      BY <2>2, <3>1, <3>2 DEF TypeOK
  <2>3. QED
    BY <1>5, <2>1, <2>2 DEF Greet
<1>6. CASE ReadCommand(c) \/ ReadEof(c) \/ Commit(c) \/ EndBroadcast(c) \/ Leave(c)
  BY <1>6 DEF ReadCommand, ReadEof, Commit, EndBroadcast, Leave, TypeOK
<1>7. CASE Broadcast(c)
  <2>1. registry[cursor] \in Clients
    BY <1>7 DEF Broadcast, TypeOK
  <2>2. CASE BrokenPipe(registry[cursor])
    BY <1>1, <2>1, <2>2
  <2>3. CASE Send(registry[cursor], payload) /\ UNCHANGED <<serverUp, threadVars, processVars>>
    <3>1. s2c[d] # <<>> => s2c'[d] # <<>>
      BY <1>2, <2>1, <2>3
    <3>2. QED
      BY <2>3, <3>1 DEF threadVars
  <2>4. QED
    BY <1>7, <2>2, <2>3 DEF Broadcast
<1>8. QED
  BY <1>3, <1>4, <1>5, <1>6, <1>7 DEF Thread

LEMMA ReadStep ==
  ASSUME TypeOK, ConnectionSound, ReadNeverBlocks, NEW c \in Clients,
         Thread(c) \/ Process(c) \/ User(c)
  PROVE  ReadNeverBlocks'
<1>1. CASE Thread(c)
  BY <1>1, ThreadKeepsReadable DEF ReadNeverBlocks, Readable
<1>2. CASE Connect(c)
  BY <1>2 DEF Connect, Goto, ReadNeverBlocks, Readable, ServerClosed, ConnectionSound, TypeOK
<1>3. ASSUME Process(c) \/ TypeCommand(c) \/ Quit(c)
      PROVE  ReadNeverBlocks'
  <2>1. \A d \in Clients : ServerClosed(d)' <=> ServerClosed(d)
    BY <1>3, ProcessFrame DEF ServerClosed, threadVars
  <2>2. \A d \in Clients \ {c} : /\ client'[d] = client[d] /\ selected'[d] = selected[d]
                                 /\ s2c'[d] = s2c[d]
    BY <1>3 DEF Process, ReadSnapshot, ReadReject, ReadPayload, Refill, Close, TypeCommand,
                WriteCommand, Hangup, Finish, Quit, TypeOK
  <2>3. client'[c] = "reading" \/ (client'[c] = "writing" /\ selected'[c]) => Readable(c)'
    <3>1. CASE TypeCommand(c)
      BY <2>1, <3>1 DEF TypeCommand, Readable, TypeOK
    <3>2. CASE WriteCommand(c)
      <4>1. s2c' = s2c /\ selected' = selected /\ client[c] = "writing"
        BY <3>2 DEF WriteCommand
      <4>2. client'[c] = "reading" => selected[c]
        BY <3>2 DEF WriteCommand, TypeOK
      <4>3. client'[c] # "writing"
        BY <3>2 DEF WriteCommand, TypeOK
      <4>4. QED
        BY <2>1, <4>1, <4>2, <4>3 DEF ReadNeverBlocks, Readable
    <3>3. CASE \/ ReadSnapshot(c) \/ ReadReject(c) \/ ReadPayload(c)
               \/ Hangup(c) \/ Finish(c) \/ Quit(c)
      <4>1. client'[c] \in {"ready", "closed"}
        BY <3>3 DEF ReadSnapshot, ReadReject, ReadPayload, Hangup, Finish, Quit, Close, TypeOK
      <4>2. QED
        BY <4>1
    <3>4. QED
      BY <1>3, <3>1, <3>2, <3>3 DEF Process
  <2>4. QED
    BY <2>1, <2>2, <2>3 DEF ReadNeverBlocks, Readable
<1>4. QED
  BY <1>1, <1>2, <1>3 DEF User

\* client.c's main: a client that returns from fputs to a FIFO that select had reported
\* before never waits there for a payload that somebody else has read.
THEOREM ReadsReady == Spec => []ReadNeverBlocks
<1>1. Init => ReadNeverBlocks
  BY DEF Init, ReadNeverBlocks
<1>2. ASSUME IndInv, ReadNeverBlocks, [Next]_vars
      PROVE  ReadNeverBlocks'
  <2>1. CASE UNCHANGED vars
    BY <1>2, <2>1 DEF vars, threadVars, processVars, ReadNeverBlocks, Readable, ServerClosed
  <2>2. ASSUME NEW c \in Clients, Thread(c) \/ Process(c) \/ User(c)
        PROVE  ReadNeverBlocks'
    BY <1>2, <2>2, ReadStep DEF IndInv
  <2>3. QED
    BY <1>2, <2>1, <2>2 DEF Next
<1>3. QED
  BY <1>1, <1>2, InvariantHolds, PTL DEF Spec

-------------------------------------------------------------------------------
(* The lines of a client, from the keyboard to the log *)

\* A client without the document has typed nothing.
Silent ==
    \A c \in Clients : client[c] \in {"absent", "greeting"} => typed[c] = 0 /\ Own(c) = {}

LEMMA UncommittedType ==
  ASSUME TypeOK, NEW c \in Clients
  PROVE  /\ InHand(c) \in Seq(Command) /\ c2s[c] \in Seq(Command) /\ Unwritten(c) \in Seq(Command)
         /\ Uncommitted(c) \in Seq(Command)
<1>1. InHand(c) \in Seq(Command) /\ c2s[c] \in Seq(Command) /\ Unwritten(c) \in Seq(Command)
  BY DEF InHand, Unwritten, TypeOK
<1>2. InHand(c) \o c2s[c] \in Seq(Command)
  BY <1>1, ConcatProperties
<1>3. QED
  BY <1>1, <1>2, ConcatProperties DEF Uncommitted

\* The order depends on these parts of the state only.
LEMMA OrderKept ==
  ASSUME NEW c \in Clients, InOrder(c), typed'[c] = typed[c], Uncommitted(c)' = Uncommitted(c),
         UNCHANGED history
  PROVE  InOrder(c)'
  BY DEF InOrder, Own

\* No step of one client or of its thread touches the lines of another, and only a commit
\* adds a version, for the client itself.
LEMMA OthersLines ==
  ASSUME TypeOK, NEW c \in Clients, Thread(c) \/ Process(c) \/ User(c), NEW d \in Clients \ {c}
  PROVE  /\ pc'[d] = pc[d] /\ cmd'[d] = cmd[d] /\ c2s'[d] = c2s[d] /\ client'[d] = client[d]
         /\ input'[d] = input[d] /\ typed'[d] = typed[d]
         /\ Uncommitted(d)' = Uncommitted(d)
<1>1. /\ pc'[d] = pc[d] /\ cmd'[d] = cmd[d] /\ c2s'[d] = c2s[d] /\ client'[d] = client[d]
      /\ input'[d] = input[d] /\ typed'[d] = typed[d]
  <2> USE DEF TypeOK, threadVars, processVars, Goto
  <2>1. CASE Thread(c)
    BY <2>1 DEF Thread, Authenticate, Refuse, NoUsername, Lock, Greet, Register, ReadCommand, ReadEof,
                Commit, Broadcast, EndBroadcast, Leave, BrokenPipe
  <2>2. CASE Process(c)
    BY <2>2 DEF Process, ReadSnapshot, ReadReject, ReadPayload, WriteCommand, Hangup, Finish, Close
  <2>3. CASE User(c)
    BY <2>3 DEF User, Connect, TypeCommand, Quit, Close
  <2>4. QED
    BY <2>1, <2>2, <2>3
<1>2. QED
  BY <1>1 DEF Uncommitted, InHand, Unwritten

\* Committing the first uncommitted line of a client puts it behind its committed ones.
LEMMA OrderCommit ==
  ASSUME TypeOK, HistorySound, NEW c \in Clients, Commit(c)
  PROVE  /\ InOrder(c) => InOrder(c)'
         /\ \A d \in Clients \ {c} : Own(d)' = Own(d) /\ (InOrder(d) => InOrder(d)')
<1>1. PICK result : history' = Append(history,
          [entry |-> [user |-> c, id |-> cmd[c].id, result |-> result], text |-> text'])
  BY DEF Commit
<1>2. history \in Seq([entry : Entry, text : Text]) /\ Len(history) = version /\ version \in Nat
  BY DEF TypeOK, HistorySound
<1>3. /\ DOMAIN history = 1 .. version /\ DOMAIN history' = 1 .. version + 1
      /\ \A v \in 1 .. version : history'[v] = history[v]
      /\ history'[version + 1].entry.user = c /\ history'[version + 1].entry.id = cmd[c].id
  BY <1>1, <1>2
<1>4. \A v \in 1 .. version : history[v].entry.id \in Nat
  <2>1. \A v \in 1 .. version : history[v] \in [entry : Entry, text : Text]
    BY <1>2, ElementOfSeq
  <2>2. QED
    BY <2>1 DEF Entry
<1>5. Own(c)' = Own(c) \cup {version + 1} /\ \A d \in Clients \ {c} : Own(d)' = Own(d)
  BY <1>2, <1>3 DEF Own
<1>6. ASSUME NEW d \in Clients \ {c}, InOrder(d)
      PROVE  InOrder(d)'
  <2>1. typed'[d] = typed[d] /\ Uncommitted(d)' = Uncommitted(d)
    BY OthersLines DEF Thread
  <2>2. \A v \in Own(d) : v \in 1 .. version /\ history'[v] = history[v]
    BY <1>3 DEF Own
  <2>3. Own(d)' = Own(d)
    BY <1>5
  <2>4. {history[v].entry.id : v \in Own(d)}' = {history[v].entry.id : v \in Own(d)}
    BY <2>2, <2>3
  <2>5. QED
    BY <1>6, <2>1, <2>2, <2>3, <2>4 DEF InOrder
<1>7. ASSUME InOrder(c)
      PROVE  InOrder(c)'
  <2> DEFINE u == Uncommitted(c)
             n == typed[c] - Len(u)
  <2>1. /\ pc[c] = "commit" /\ pc'[c] = "broadcast" /\ c2s' = c2s /\ typed' = typed
        /\ client' = client /\ input' = input
    BY DEF Commit, At, Goto, TypeOK, processVars
  <2>2. InHand(c) = <<cmd[c]>> /\ InHand(c)' = <<>> /\ Unwritten(c)' = Unwritten(c)
    BY <2>1 DEF InHand, Unwritten
  <2>3. u \in Seq(Command) /\ c2s[c] \in Seq(Command) /\ Unwritten(c) \in Seq(Command)
        /\ cmd[c] \in Command
    BY UncommittedType DEF TypeOK
  <2>4. Uncommitted(c)' = c2s[c] \o Unwritten(c)
    BY <2>1, <2>2, <2>3, ConcatEmptySeq DEF Uncommitted
  <2>5. u = <<cmd[c]>> \o (c2s[c] \o Unwritten(c))
    <3>1. <<cmd[c]>> \in Seq(Command)
      BY <2>3
    <3>2. (<<cmd[c]>> \o c2s[c]) \o Unwritten(c) = <<cmd[c]>> \o (c2s[c] \o Unwritten(c))
      <4>1. \A s, t, w \in Seq(Command) : (s \o t) \o w = s \o (t \o w)
        BY ConcatAssociative
      <4>2. QED
        BY <2>3, <3>1, <4>1
    <3>3. QED
      BY <2>2, <3>2 DEF Uncommitted
  <2>6. c2s[c] \o Unwritten(c) \in Seq(Command)
    BY <2>3, ConcatProperties
  <2>7. /\ Len(u) = Len(Uncommitted(c)') + 1 /\ Len(Uncommitted(c)') \in Nat
        /\ u[1] = cmd[c]
        /\ \A i \in DOMAIN Uncommitted(c)' : i \in Nat /\ i + 1 \in DOMAIN u
                                            /\ Uncommitted(c)'[i] = u[i + 1]
    <3> DEFINE rest == c2s[c] \o Unwritten(c)
               first == <<cmd[c]>>
    <3>1. rest \in Seq(Command) /\ first \in Seq(Command) /\ Len(first) = 1 /\ first[1] = cmd[c]
      BY <2>3, <2>6
    <3>2. rest = Uncommitted(c)' /\ u = first \o rest
      BY <2>4, <2>5
    <3> HIDE DEF rest, first, u
    <3>3. QED
      BY <3>1, <3>2, ConcatProperties
  <2> HIDE DEF u
  <2>8. n \in Nat /\ typed[c] \in Nat /\ Len(u) \in Nat
    BY <1>7, <2>3, LenProperties DEF InOrder, TypeOK, u
  <2>9. typed'[c] - Len(Uncommitted(c)') = n + 1
    <3>1. PICK k \in Nat : k = Len(Uncommitted(c)')
      BY <2>7
    <3>2. Len(u) = k + 1 /\ typed'[c] = typed[c]
      BY <2>1, <2>7, <3>1
    <3>3. QED
      BY <2>8, <3>1, <3>2
  <2>10. /\ {history[v].entry.id : v \in Own(c)} = 1 .. n
         /\ \A v, w \in Own(c) : v < w => history[v].entry.id < history[w].entry.id
         /\ \A i \in DOMAIN u : u[i].id = n + i
    BY <1>7 DEF InOrder, u
  <2>11. cmd[c].id = n + 1
    <3>1. 1 \in DOMAIN u
      BY <2>3, <2>7 DEF u
    <3>2. QED
      BY <2>7, <2>10, <3>1
  <2>12. \A v \in Own(c) : v \in 1 .. version /\ history'[v] = history[v]
                           /\ history[v].entry.id \in 1 .. n
    BY <1>3, <2>10 DEF Own
  <2> HIDE DEF n
  <2>13. {history[v].entry.id : v \in Own(c)}' = 1 .. n + 1
    <3>1. {history'[v].entry.id : v \in Own(c) \cup {version + 1}}
            = {history[v].entry.id : v \in Own(c)} \cup {n + 1}
      BY <1>3, <2>11, <2>12
    <3>2. (1 .. n) \cup {n + 1} = 1 .. n + 1
      BY <2>8
    <3>3. QED
      BY <1>5, <2>10, <3>1, <3>2
  <2>14. \A v, w \in Own(c)' : v < w => history'[v].entry.id < history'[w].entry.id
    <3> SUFFICES ASSUME NEW v \in Own(c) \cup {version + 1}, NEW w \in Own(c) \cup {version + 1}, v < w
                 PROVE  history'[v].entry.id < history'[w].entry.id
      BY <1>5
    <3>1. CASE w = version + 1
      <4>1. v \in Own(c)
        BY <1>2, <3>1
      <4>2. history'[v].entry.id \in 1 .. n
        BY <2>12, <4>1
      <4>3. history'[w].entry.id = n + 1
        BY <1>3, <2>11, <3>1
      <4>4. QED
        BY <2>8, <4>2, <4>3
    <3>2. CASE w # version + 1
      <4>1. w \in Own(c) /\ v \in Own(c)
        BY <1>2, <2>12, <3>2
      <4>2. QED
        BY <2>10, <2>12, <4>1
    <3>3. QED
      BY <3>1, <3>2
  <2>15. \A i \in DOMAIN Uncommitted(c)' : Uncommitted(c)'[i].id = n + 1 + i
    <3> SUFFICES ASSUME NEW i \in DOMAIN Uncommitted(c)'
                 PROVE  Uncommitted(c)'[i].id = n + 1 + i
      OBVIOUS
    <3>1. i \in Nat /\ i + 1 \in DOMAIN u /\ Uncommitted(c)'[i] = u[i + 1]
      BY <2>7
    <3>2. u[i + 1].id = n + (i + 1)
      BY <2>10, <3>1
    <3>3. QED
      BY <2>8, <3>1, <3>2
  <2>16. QED
    BY <2>8, <2>9, <2>13, <2>14, <2>15 DEF InOrder
<1>8. QED
  BY <1>5, <1>6, <1>7

\* A line that is typed, written, read or left behind keeps its place.
LEMMA OrderMove ==
  ASSUME TypeOK, NEW c \in Clients, InOrder(c),
         TypeCommand(c) \/ WriteCommand(c) \/ ReadCommand(c)
  PROVE  InOrder(c)'
<1>0. /\ InHand(c) \in Seq(Command) /\ c2s[c] \in Seq(Command) /\ Unwritten(c) \in Seq(Command)
      /\ Uncommitted(c) \in Seq(Command) /\ input[c] \in Command
  BY UncommittedType DEF TypeOK
<1>1. CASE TypeCommand(c)
  <2>1. PICK kind \in Kind : input' = [input EXCEPT ![c] = [id |-> typed[c] + 1, kind |-> kind]]
    BY <1>1 DEF TypeCommand
  <2> DEFINE line == [id |-> typed[c] + 1, kind |-> kind]
             u == Uncommitted(c)
  <2>2. /\ client[c] = "ready" /\ client'[c] = "writing" /\ input'[c] = line
        /\ typed'[c] = typed[c] + 1 /\ pc' = pc /\ cmd' = cmd /\ c2s' = c2s /\ history' = history
    BY <1>1, <2>1 DEF TypeCommand, TypeOK, threadVars, coreVars
  <2>3. line \in Command /\ line.id = typed[c] + 1
    BY DEF Command, TypeOK
  <2> HIDE DEF line
  <2>4. InHand(c)' = InHand(c) /\ Unwritten(c) = <<>> /\ Unwritten(c)' = <<line>>
    BY <2>2 DEF InHand, Unwritten
  <2>5. Uncommitted(c) = InHand(c) \o c2s[c]
    <3>1. InHand(c) \o c2s[c] \in Seq(Command)
      BY <1>0, ConcatProperties
    <3>2. QED
      BY <2>4, <3>1, ConcatEmptySeq DEF Uncommitted
  <2>6. Uncommitted(c)' = Append(u, line)
    <3>1. Uncommitted(c)' = u \o <<line>>
      BY <2>2, <2>4, <2>5 DEF Uncommitted
    <3>2. QED
      BY <1>0, <2>3, <3>1, AppendIsConcat
  <2> HIDE DEF u
  <2>7. /\ u \in Seq(Command) /\ Len(u) \in Nat /\ Len(Append(u, line)) = Len(u) + 1
        /\ \A i \in 1 .. Len(u) : Append(u, line)[i] = u[i]
        /\ Append(u, line)[Len(u) + 1] = line
        /\ DOMAIN Append(u, line) = 1 .. Len(u) + 1 /\ DOMAIN u = 1 .. Len(u)
    <3>1. u \in Seq(Command)
      BY <1>0 DEF u
    <3>2. QED
      BY <2>3, <3>1, AppendProperties
  <2> DEFINE n == typed[c] - Len(u)
  <2>8. n \in Nat /\ typed[c] \in Nat
    BY <2>7 DEF InOrder, TypeOK, u
  <2>9. typed'[c] - Len(Uncommitted(c)') = n
    BY <2>2, <2>6, <2>7, <2>8
  <2>10. \A i \in DOMAIN u : u[i].id = n + i
    BY DEF InOrder, u
  <2>11. ASSUME NEW i \in 1 .. Len(u) + 1
         PROVE  Append(u, line)[i].id = n + i
    <3>1. CASE i \in 1 .. Len(u)
      BY <2>7, <2>10, <3>1
    <3>2. CASE i = Len(u) + 1
      BY <2>3, <2>7, <2>8, <3>2
    <3>3. QED
      BY <2>7, <3>1, <3>2
  <2>12. Own(c)' = Own(c)
    BY <2>2 DEF Own
  <2>13. /\ {history[v].entry.id : v \in Own(c)} = 1 .. n
         /\ \A v, w \in Own(c) : v < w => history[v].entry.id < history[w].entry.id
    BY DEF InOrder, u
  <2> HIDE DEF n
  <2>14. QED
    BY <2>2, <2>6, <2>7, <2>8, <2>9, <2>11, <2>12, <2>13 DEF InOrder
<1>2. CASE WriteCommand(c)
  <2>1. /\ client[c] = "writing" /\ client'[c] # "writing" /\ c2s'[c] = Append(c2s[c], input[c])
        /\ pc' = pc /\ cmd' = cmd /\ typed' = typed /\ history' = history
    BY <1>2 DEF WriteCommand, TypeOK, threadVars, coreVars
  <2>2. InHand(c)' = InHand(c) /\ Unwritten(c) = <<input[c]>> /\ Unwritten(c)' = <<>>
    BY <2>1 DEF InHand, Unwritten
  <2> DEFINE a == InHand(c)
             b == c2s[c]
             l == input[c]
  <2>3. (a \o Append(b, l)) \o <<>> = (a \o b) \o <<l>>
    <3>1. a \in Seq(Command) /\ b \in Seq(Command) /\ l \in Command
      BY <1>0
    <3> HIDE DEF a, b, l
    <3>2. Append(b, l) \in Seq(Command) /\ Append(b, l) = b \o <<l>> /\ <<l>> \in Seq(Command)
      BY <3>1, AppendIsConcat
    <3>3. a \o Append(b, l) \in Seq(Command)
      BY <3>1, <3>2, ConcatProperties
    <3>4. \A s, t, w \in Seq(Command) : (s \o t) \o w = s \o (t \o w)
      BY ConcatAssociative
    <3>5. QED
      BY <3>1, <3>2, <3>3, <3>4, ConcatEmptySeq
  <2>4. Uncommitted(c)' = Uncommitted(c)
    BY <2>1, <2>2, <2>3 DEF Uncommitted
  <2>5. QED
    BY <2>1, <2>4, OrderKept
<1>3. CASE ReadCommand(c)
  <2>1. /\ pc[c] = "read" /\ pc'[c] \in {"submit", "leave"} /\ c2s[c] # <<>>
        /\ cmd'[c] = Head(c2s[c]) /\ c2s'[c] = Tail(c2s[c])
        /\ client' = client /\ input' = input /\ typed' = typed /\ history' = history
    BY <1>3 DEF ReadCommand, At, Goto, TypeOK, processVars, coreVars
  <2>2. InHand(c) = <<>> /\ InHand(c)' = <<Head(c2s[c])>> /\ Unwritten(c)' = Unwritten(c)
    BY <2>1 DEF InHand, Unwritten
  <2>3. <<Head(c2s[c])>> \o Tail(c2s[c]) = <<>> \o c2s[c]
    BY <1>0, <2>1, ConcatEmptySeq
  <2>4. Uncommitted(c)' = Uncommitted(c)
    BY <2>1, <2>2, <2>3 DEF Uncommitted
  <2>5. QED
    BY <2>1, <2>4, OrderKept
<1>4. QED
  BY <1>1, <1>2, <1>3

\* Every other step leaves the lines of a client that stays connected where they are.
LEMMA OrderUntouched ==
  ASSUME TypeOK, NEW c \in Clients, Open(c), pc[c] # "done",
         \/ Thread(c) /\ ~Commit(c) /\ ~ReadCommand(c)
         \/ ReadPayload(c),
         pc'[c] # "done", Open(c)'
  PROVE  /\ typed'[c] = typed[c] /\ Uncommitted(c)' = Uncommitted(c) /\ history' = history
<1>1. CASE ReadPayload(c)
  <2>1. client[c] # "writing" /\ client'[c] # "writing"
    BY <1>1 DEF ReadPayload, TypeOK
  <2>2. QED
    BY <1>1, <2>1 DEF ReadPayload, Uncommitted, InHand, Unwritten, threadVars, coreVars
<1>2. CASE Thread(c) /\ ~Commit(c) /\ ~ReadCommand(c)
  <2>1. UNCHANGED <<cmd, c2s, history, client, input, typed>>
    BY <1>2 DEF Thread, Authenticate, Refuse, NoUsername, Lock, Greet, Register, ReadEof, Broadcast,
                EndBroadcast, Leave, BrokenPipe, threadVars, coreVars, processVars
  <2>2. ~ReadEof(c) /\ ~Leave(c)
    BY <1>2 DEF ReadEof, Leave, Goto, Open, TypeOK
  <2>3. pc[c] \in {"submit", "commit", "leave"} <=> pc'[c] \in {"submit", "commit", "leave"}
    BY <1>2, <2>2 DEF Thread, Authenticate, Refuse, NoUsername, Lock, Greet, Register, Broadcast,
                EndBroadcast, BrokenPipe, threadVars, At, Goto, TypeOK
  <2>4. QED
    BY <2>1, <2>3 DEF Uncommitted, InHand, Unwritten
<1>3. QED
  BY <1>1, <1>2

\* A client that gets its document has typed nothing yet.
LEMMA OrderStart ==
  ASSUME TypeOK, ConnectionSound, Silent, NEW c \in Clients, ReadSnapshot(c)
  PROVE  InOrder(c)'
<1>1. /\ client[c] = "greeting" /\ client'[c] = "ready" /\ pc' = pc /\ c2s' = c2s
      /\ typed' = typed /\ history' = history
  BY DEF ReadSnapshot, TypeOK, threadVars, coreVars
<1>2. c2s[c] = <<>> /\ pc[c] \notin {"submit", "commit", "leave"} /\ typed[c] = 0 /\ Own(c) = {}
  BY <1>1 DEF ConnectionSound, Silent
<1>3. Uncommitted(c)' = <<>>
  BY <1>1, <1>2 DEF Uncommitted, InHand, Unwritten
<1>4. Own(c)' = {} /\ typed'[c] = 0
  BY <1>1, <1>2 DEF Own
<1>5. QED
  BY <1>3, <1>4 DEF InOrder

LEMMA OrderStep ==
  ASSUME TypeOK, HistorySound, ConnectionSound, Silent, CommandsInOrder, NEW c \in Clients,
         Thread(c) \/ Process(c) \/ User(c)
  PROVE  Silent' /\ CommandsInOrder'
<1>1. ASSUME NEW d \in Clients \ {c}
      PROVE  Own(d)' = Own(d) /\ (InOrder(d) => InOrder(d)')
  <2>1. CASE Commit(c)
    BY <2>1, OrderCommit
  <2>2. CASE ~Commit(c)
    <3>1. history' = history
      BY <2>2, ProcessFrame DEF Thread, User, Connect, Authenticate, Refuse, NoUsername, Lock, Greet,
         Register, ReadCommand, ReadEof, Broadcast, EndBroadcast, Leave, BrokenPipe, coreVars
    <3>2. typed'[d] = typed[d] /\ Uncommitted(d)' = Uncommitted(d)
      BY OthersLines
    <3>3. QED
      BY <3>1, <3>2, OrderKept DEF Own
  <2>3. QED
    BY <2>1, <2>2
<1>2. \A d \in Clients \ {c} : pc'[d] = pc[d] /\ client'[d] = client[d] /\ typed'[d] = typed[d]
  BY OthersLines
<1>3. client'[c] \in {"absent", "greeting"} => typed'[c] = 0 /\ Own(c)' = {}
  <2>1. CASE Thread(c)
    <3>1. client' = client /\ typed' = typed
      BY <2>1 DEF Thread, Authenticate, Refuse, NoUsername, Lock, Greet, Register, ReadCommand, ReadEof,
                  Commit, Broadcast, EndBroadcast, Leave, BrokenPipe, processVars
    <3>2. client[c] \in {"absent", "greeting"} => history' = history
      BY <2>1 DEF Thread, Authenticate, Refuse, NoUsername, Lock, Greet, Register, ReadCommand, ReadEof,
                  Commit, At, Broadcast, EndBroadcast, Leave, BrokenPipe, coreVars, ConnectionSound
    <3>3. QED
      BY <3>1, <3>2 DEF Silent, Own
  <2>2. CASE Process(c) \/ TypeCommand(c) \/ Quit(c)
    <3>1. client'[c] \notin {"absent", "greeting"}
      BY <2>2 DEF Process, ReadSnapshot, ReadReject, ReadPayload, WriteCommand, Hangup, Finish, Quit,
                  TypeCommand, Close, TypeOK
    <3>2. QED
      BY <3>1
  <2>3. CASE Connect(c)
    BY <2>3 DEF Connect, Silent, Own, coreVars
  <2>4. QED
    BY <2>1, <2>2, <2>3 DEF User
<1>4. Open(c)' /\ pc'[c] # "done" => InOrder(c)'
  <2> SUFFICES ASSUME Open(c)', pc'[c] # "done" PROVE InOrder(c)'
    OBVIOUS
  <2>1. CASE ReadSnapshot(c)
    BY <2>1, OrderStart
  <2>2. CASE ~ReadSnapshot(c)
    <3>1. ~Connect(c) /\ ~ReadReject(c) /\ ~Hangup(c) /\ ~Finish(c) /\ ~Quit(c)
      BY DEF Connect, ReadReject, Hangup, Finish, Quit, Close, Open, TypeOK
    <3>2. Open(c)
      BY <2>2, <3>1 DEF Thread, Authenticate, Refuse, NoUsername, Lock, Greet, Register, ReadCommand,
           ReadEof, Commit, Broadcast, EndBroadcast, Leave, BrokenPipe, processVars, Process, User,
           ReadPayload, WriteCommand, TypeCommand, Open
    <3>3. pc[c] # "done"
      BY <3>1 DEF Thread, Authenticate, Refuse, NoUsername, Lock, Greet, Register, ReadCommand, ReadEof,
           Commit, Broadcast, EndBroadcast, Leave, At, Process, User, ReadSnapshot, ReadPayload,
           WriteCommand, TypeCommand, threadVars, BrokenPipe
    <3>4. InOrder(c)
      BY <3>2, <3>3 DEF CommandsInOrder
    <3>5. CASE Commit(c)
      BY <3>4, <3>5, OrderCommit
    <3>6. CASE TypeCommand(c) \/ WriteCommand(c) \/ ReadCommand(c)
      BY <3>4, <3>6, OrderMove
    <3>7. CASE (Thread(c) /\ ~Commit(c) /\ ~ReadCommand(c)) \/ ReadPayload(c)
      BY <3>2, <3>3, <3>4, <3>7, OrderUntouched, OrderKept
    <3>8. QED
      BY <2>2, <3>1, <3>5, <3>6, <3>7 DEF Process, User
  <2>3. QED
    BY <2>1, <2>2
<1>5. Silent'
  <2> SUFFICES ASSUME NEW d \in Clients
               PROVE  (client[d] \in {"absent", "greeting"} => typed[d] = 0 /\ Own(d) = {})'
    BY DEF Silent
  <2>1. CASE d = c
    BY <1>3, <2>1
  <2>2. CASE d # c
    BY <1>1, <1>2, <2>2 DEF Silent
  <2>3. QED
    BY <2>1, <2>2
<1>6. CommandsInOrder'
  <2> SUFFICES ASSUME NEW d \in Clients, Open(d)', pc'[d] # "done"
               PROVE  InOrder(d)'
    BY DEF CommandsInOrder
  <2>1. CASE d = c
    BY <1>4, <2>1
  <2>2. CASE d # c
    BY <1>1, <1>2, <2>2 DEF CommandsInOrder, Open
  <2>3. QED
    BY <2>1, <2>2
<1>7. QED
  BY <1>5, <1>6

\* What a connected client has typed (client.c:265-272) is committed by its thread once
\* each and in the order of typing, or on its way there: FIFOs, mutex and DISCONNECT lose,
\* repeat and overtake nothing.
THEOREM CommandsOrdered == Spec => []CommandsInOrder
<1>1. Init => Silent /\ CommandsInOrder
  BY DEF Init, Silent, CommandsInOrder, Own, Open
<1>2. ASSUME IndInv, Silent, CommandsInOrder, [Next]_vars
      PROVE  Silent' /\ CommandsInOrder'
  <2>1. CASE UNCHANGED vars
    <3>1. UNCHANGED <<pc, cmd, c2s, client, input, typed, history>>
      BY <2>1 DEF vars, threadVars, coreVars, processVars
    <3>2. Silent' /\ \A c \in Clients : Open(c)' = Open(c) /\ Uncommitted(c)' = Uncommitted(c)
      BY <1>2, <3>1 DEF Silent, Own, Open, Uncommitted, InHand, Unwritten
    <3>3. QED
      BY <1>2, <3>1, <3>2, OrderKept DEF CommandsInOrder
  <2>2. ASSUME NEW c \in Clients, Thread(c) \/ Process(c) \/ User(c)
        PROVE  Silent' /\ CommandsInOrder'
    BY <1>2, <2>2, OrderStep DEF IndInv
  <2>3. QED
    BY <1>2, <2>1, <2>2 DEF Next
<1>3. QED
  BY <1>1, <1>2, InvariantHolds, PTL DEF Spec

-------------------------------------------------------------------------------
(* The refinement: every step of a thread, a client process or a user is a  *)
(* commit, a join, an advance or a parting of the abstract document, or      *)
(* leaves it as it is.                                                       *)

\* The replica of client c under the refinement mapping.
Replica(c) == IF Open(c) THEN view[c] ELSE Offline

LEMMA OpenReplica ==
  ASSUME NEW c \in Clients, TypeOK
  PROVE  Replica(c) = Offline <=> ~Open(c)
<1>1. view[c].version \in Nat
  BY DEF TypeOK
<1>2. view[c].version # Offline.version
  BY <1>1 DEF Offline
<1>3. QED
  BY <1>2 DEF Replica

\* A step that leaves the history, what is printed and who is open alone.
LEMMA DocumentKept ==
  ASSUME UNCHANGED history, UNCHANGED view, \A c \in Clients : Open(c)' <=> Open(c)
  PROVE  UNCHANGED Document!vars
<1>1. \A c \in Clients : (IF Open(c) THEN view[c] ELSE Offline)'
                         = IF Open(c) THEN view[c] ELSE Offline
  BY DEF Offline
<1>2. [c \in Clients |-> IF Open(c) THEN view[c] ELSE Offline]'
      = [c \in Clients |-> IF Open(c) THEN view[c] ELSE Offline]
  BY <1>1
<1>3. QED
  BY <1>2 DEF Document!vars

LEMMA InitDocument == Init => Document!Init
<1>1. SUFFICES ASSUME Init PROVE Document!Init
  OBVIOUS
<1>2. \A c \in Clients : ~Open(c)
  BY <1>1 DEF Init, Open
<1>3. [c \in Clients |-> IF Open(c) THEN view[c] ELSE Offline] = [c \in Clients |-> Offline]
  BY <1>2
<1>4. QED
  BY <1>1, <1>3 DEF Init, Document!Init

\* A thread moves the document only when it commits.
LEMMA ThreadDocument ==
  ASSUME NEW c \in Clients, IndInv, Thread(c)
  PROVE  Document!Commit \/ UNCHANGED Document!vars
<1>1. CASE Commit(c)
  <2>1. PICK result \in Outcomes(c, cmd[c]) :
          /\ text' = Apply(text, [user |-> c, id |-> cmd[c].id, result |-> result])
          /\ history' = Append(history, [entry |-> [user |-> c, id |-> cmd[c].id, result |-> result],
                                         text |-> text'])
          /\ UNCHANGED <<view, client>>
    BY <1>1 DEF Commit, processVars
  <2> DEFINE entry == [user |-> c, id |-> cmd[c].id, result |-> result]
             next == [entry |-> entry, text |-> text']
  <2>2. next \in [entry : Entry, text : Text]
    <3>1. TypeOK'
      BY <1>1, BroadcastPayload, ThreadType DEF IndInv, Thread
    <3>2. text' \in Text
      BY <3>1 DEF TypeOK
    <3>3. cmd[c].id \in Nat
      BY DEF IndInv, TypeOK, Command
    <3>4. result \in Result
      BY <2>1 DEF Outcomes, Result
    <3>5. QED
      BY <3>2, <3>3, <3>4 DEF Entry
  <2>3. history \in Seq([entry : Entry, text : Text])
    BY DEF IndInv, TypeOK
  <2>4. /\ Len(history') = Len(history) + 1
        /\ history'[Len(history) + 1] = next
        /\ history' = Append(history, history'[Len(history) + 1])
    BY <2>1, <2>2, <2>3, AppendProperties
  <2>5. text = Document!TextOf(Len(history))
    BY DEF IndInv, HistorySound, TextOf, Document!TextOf
  <2>6. result = "SUCCESS" => c \in Writers
    BY <2>1 DEF Outcomes
  <2>7. Document!Follows(next)
    <3>1. CASE result = "SUCCESS"
      <4>1. text' = Append(text, entry)
        BY <2>1, <3>1 DEF Apply
      <4>2. QED
        BY <2>5, <2>6, <3>1, <4>1 DEF Document!Follows
    <3>2. CASE result # "SUCCESS"
      <4>1. text' = text
        BY <2>1, <3>2 DEF Apply
      <4>2. QED
        BY <2>5, <3>2, <4>1 DEF Document!Follows
    <3>3. QED
      BY <3>1, <3>2
  <2>8. \A d \in Clients : (IF Open(d) THEN view[d] ELSE Offline)'
                           = IF Open(d) THEN view[d] ELSE Offline
    BY <2>1 DEF Open, Offline
  <2>9. [d \in Clients |-> IF Open(d) THEN view[d] ELSE Offline]'
        = [d \in Clients |-> IF Open(d) THEN view[d] ELSE Offline]
    BY <2>8
  <2>10. Document!Commit
    BY <2>4, <2>7, <2>9 DEF Document!Commit
  <2>11. QED
    BY <2>10
<1>2. CASE ~Commit(c)
  <2>1. UNCHANGED <<history, view, client>>
    BY <1>2 DEF Thread, Authenticate, Refuse, NoUsername, Lock, Greet, Register, ReadCommand,
                ReadEof, Broadcast, EndBroadcast, Leave, BrokenPipe, coreVars, processVars
  <2>2. \A d \in Clients : Open(d)' <=> Open(d)
    BY <2>1 DEF Open
  <2>3. QED
    BY <2>1, <2>2, DocumentKept
<1>3. QED
  BY <1>1, <1>2

\* A step that closes the FIFOs of a client takes its replica off line, if it had one.
LEMMA CloseDocument ==
  ASSUME NEW c \in Clients, TypeOK, Close(c), UNCHANGED <<history, view>>
  PROVE  Document!Part(c) \/ UNCHANGED Document!vars
<1>1. ~Open(c)' /\ \A d \in Clients \ {c} : Open(d)' <=> Open(d)
  BY DEF Close, Open, TypeOK
<1>2. CASE ~Open(c)
  BY <1>1, <1>2, DocumentKept
<1>3. CASE Open(c)
  <2>1. \A d \in Clients : Replica(d)' = IF d = c THEN Offline ELSE Replica(d)
    BY <1>1 DEF Replica, Offline
  <2>2. [d \in Clients |-> Replica(d)']
        = [[d \in Clients |-> Replica(d)] EXCEPT ![c] = Offline]
    BY <2>1
  <2>3. Replica(c) # Offline
    BY <1>3, OpenReplica
  <2>4. QED
    BY <2>2, <2>3 DEF Document!Part, Replica, Offline
<1>4. QED
  BY <1>2, <1>3

\* The replica of one client moves to version v.
LEMMA ReplicaMoves ==
  ASSUME NEW c \in Clients, NEW v, TypeOK, UNCHANGED history,
         client' = [client EXCEPT ![c] = "ready"],
         view' = [view EXCEPT ![c] = [version |-> v, text |-> TextOf(v)]]
  PROVE  [d \in Clients |-> Replica(d)']
         = [[d \in Clients |-> Replica(d)] EXCEPT ![c] = Document!At(v)]
<1>1. Open(c)' /\ \A d \in Clients \ {c} : Open(d)' <=> Open(d)
  BY DEF Open, TypeOK
<1>2. view'[c] = Document!At(v) /\ \A d \in Clients \ {c} : view'[d] = view[d]
  BY DEF TypeOK, Document!At, Document!TextOf, TextOf
<1>3. \A d \in Clients : Replica(d)' = IF d = c THEN Document!At(v) ELSE Replica(d)
  BY <1>1, <1>2 DEF Replica, Offline
<1>4. QED
  BY <1>3

\* A client process or a user moves at most the one replica.
LEMMA ProcessDocument ==
  ASSUME NEW c \in Clients, IndInv, Process(c) \/ User(c)
  PROVE  \/ Document!Join(c) \/ Document!Advance(c) \/ Document!Part(c)
         \/ UNCHANGED Document!vars
<1> USE DEF IndInv
<1>1. CASE ReadSnapshot(c)
  <2>1. PICK v \in 0 .. version :
          view' = [view EXCEPT ![c] = [version |-> v, text |-> TextOf(v)]]
    BY <1>1, ReadSnapshotStep
  <2>2. client[c] = "greeting" /\ client' = [client EXCEPT ![c] = "ready"] /\ UNCHANGED history
    BY <1>1 DEF ReadSnapshot, coreVars
  <2>3. [d \in Clients |-> Replica(d)']
        = [[d \in Clients |-> Replica(d)] EXCEPT ![c] = Document!At(v)]
    BY <2>1, <2>2, ReplicaMoves
  <2>4. Replica(c) = Offline
    BY <2>2, OpenReplica DEF Open
  <2>5. v \in 0 .. Len(history)
    BY DEF HistorySound
  <2>6. QED
    BY <2>2, <2>3, <2>4, <2>5 DEF Document!Join, Replica, Offline
<1>2. CASE ReadPayload(c)
  <2>1. PICK v \in Nat : v = view[c].version
    BY DEF TypeOK
  <2>2. /\ Open(c) /\ v + 1 \in 1 .. version
        /\ view' = [view EXCEPT ![c] = [version |-> v + 1, text |-> TextOf(v + 1)]]
    BY <1>2, <2>1, ReadPayloadStep
  <2>3. client' = [client EXCEPT ![c] = "ready"] /\ UNCHANGED history
    BY <1>2 DEF ReadPayload, coreVars
  <2>4. [d \in Clients |-> Replica(d)']
        = [[d \in Clients |-> Replica(d)] EXCEPT ![c] = Document!At(v + 1)]
    BY <2>2, <2>3, ReplicaMoves
  <2>5. Replica(c) # Offline /\ Replica(c).version = v
    BY <2>1, <2>2, OpenReplica DEF Replica
  <2>6. v < Len(history)
    BY <2>2 DEF HistorySound, TypeOK
  <2>7. QED
    BY <2>3, <2>4, <2>5, <2>6 DEF Document!Advance, Replica, Offline
<1>3. CASE ReadReject(c) \/ Hangup(c) \/ Finish(c) \/ Quit(c)
  BY <1>3, CloseDocument DEF ReadReject, Hangup, Finish, Quit, coreVars
<1>4. CASE Connect(c) \/ TypeCommand(c) \/ WriteCommand(c)
  <2>1. UNCHANGED <<history, view>> /\ \A d \in Clients : Open(d)' <=> Open(d)
    BY <1>4 DEF Connect, TypeCommand, WriteCommand, Open, TypeOK, coreVars
  <2>2. QED
    BY <2>1, DocumentKept
<1>5. QED
  BY <1>1, <1>2, <1>3, <1>4 DEF Process, User

LEMMA StepDocument == IndInv /\ [Next]_vars => [Document!Next]_(Document!vars)
<1> SUFFICES ASSUME IndInv, [Next]_vars PROVE [Document!Next]_(Document!vars)
  OBVIOUS
<1>1. CASE UNCHANGED vars
  <2>1. UNCHANGED <<history, view, client>>
    BY <1>1 DEF vars, coreVars, processVars
  <2>2. \A c \in Clients : Open(c)' <=> Open(c)
    BY <2>1 DEF Open
  <2>3. QED
    BY <2>1, <2>2, DocumentKept
<1>2. ASSUME NEW c \in Clients, Thread(c) \/ Process(c) \/ User(c)
      PROVE  [Document!Next]_(Document!vars)
  BY <1>2, ThreadDocument, ProcessDocument DEF Document!Next
<1>3. QED
  BY <1>1, <1>2 DEF Next

\* server.c with its threads, FIFOs and buffers behaves as one append-only document that
\* clients join at a version of and follow version by version.
THEOREM ServerImplementsDocument == Spec => ImplementsDocument
<1>1. Init => Document!Init
  BY InitDocument
<1>2. IndInv /\ [Next]_vars => [Document!Next]_(Document!vars)
  BY StepDocument
<1>3. Spec => Document!Spec
  BY <1>1, <1>2, InvariantHolds, PTL DEF Spec, Document!Spec
<1>4. QED
  BY <1>3 DEF ImplementsDocument
===============================================================================
