-------------------------- MODULE FaultyServerProofs ---------------------------
(***************************************************************************)
(* What is left of the safety of CollabServer when calls of the session    *)
(* threads fail, for every set of clients and any number of failures: the  *)
(* types, the mutex, the registry, the kinds of the messages in a stream   *)
(* (KindsSound), and the account of the edits that a client has read and   *)
(* that are on their way to it, against those it is owed and against the   *)
(* text of the server (AccountsSound).                                     *)
(***************************************************************************)
EXTENDS FaultyServer, CollabServerProofs, FiniteSetTheorems

-------------------------------------------------------------------------------
(* What edits do to a text *)

LEMMA NoElements ==
  \E none : none = <<>> /\ \A X : none \in Seq(X)
<1>1. \A X : <<>> \in Seq(X)
  BY EmptySeq
<1>2. QED
  BY <1>1, Zenon

LEMMA EntriesAssociate ==
  ASSUME NEW first \in Seq(Entry), NEW then \in Seq(Entry), NEW last \in Seq(Entry)
  PROVE  (first \o then) \o last = first \o (then \o last)
BY ConcatAssociative

LEMMA PlayType ==
  ASSUME NEW txt \in Text, NEW edits \in Seq(Entry)
  PROVE  Play(txt, edits) \in Text
<1> DEFINE S == {e \in Seq(Entry) : Adding!Fold(txt, e) \in Text}
<1>1. <<>> \in S
  BY Adding!FoldEmpty
<1>2. ASSUME NEW e \in Seq(Entry), NEW entry \in Entry, e \in S
      PROVE  Append(e, entry) \in S
  <2>1. Adding!Fold(txt, Append(e, entry)) = Apply(Adding!Fold(txt, e), entry)
    BY Adding!FoldAppend
  <2>2. PICK t : t = Adding!Fold(txt, e) /\ t \in Text
    BY <1>2
  <2>3. Apply(t, entry) \in Text
    BY <2>2 DEF Apply, Text
  <2>4. Append(e, entry) \in Seq(Entry)
    OBVIOUS
  <2>5. QED
    BY <2>1, <2>2, <2>3, <2>4
<1> HIDE DEF S
<1>3. edits \in S
  BY <1>1, <1>2, Adding!SequenceInduction
<1>4. QED
  BY <1>3, PlayFold DEF S

LEMMA PlayNothing == ASSUME NEW txt PROVE Play(txt, <<>>) = txt
<1>1. PICK none : none = <<>>
  OBVIOUS
<1>2. Play(txt, none) = Adding!Fold(txt, none)
  BY PlayFold
<1>3. QED
  BY <1>1, <1>2, Adding!FoldEmpty

LEMMA PlayNext ==
  ASSUME NEW txt, NEW edits \in Seq(Entry), NEW entry \in Entry
  PROVE  Play(txt, Append(edits, entry)) = Apply(Play(txt, edits), entry)
<1>1. Adding!Fold(txt, Append(edits, entry)) = Apply(Adding!Fold(txt, edits), entry)
  BY Adding!FoldAppend
<1>2. \A e : Play(txt, e) = Adding!Fold(txt, e)
  BY PlayFold
<1>3. QED
  BY <1>1, <1>2, Zenon

LEMMA PlayConcat ==
  ASSUME NEW txt, NEW edits \in Seq(Entry), NEW more \in Seq(Entry)
  PROVE  Play(txt, edits \o more) = Play(Play(txt, edits), more)
<1>1. Adding!Fold(txt, edits \o more) = Adding!Fold(Adding!Fold(txt, edits), more)
  BY Adding!FoldConcat
<1>2. \A t, e : Play(t, e) = Adding!Fold(t, e)
  BY PlayFold
<1>3. QED
  BY <1>1, <1>2, Zenon

\* Edits that change nothing in the empty text change nothing in any text.
LEMMA PlayRejected ==
  ASSUME NEW txt \in Text, NEW edits \in Seq(Entry), Play(<<>>, edits) = <<>>
  PROVE  Play(txt, edits) = txt
<1> DEFINE S == {e \in Seq(Entry) : Play(txt, e) = txt \o Play(<<>>, e)}
<1>1. PICK none : none = <<>> /\ none \in Text /\ none \in Seq(Entry)
  BY NoElements, Zenon DEF Text
<1>2. <<>> \in S
  <2>1. Play(txt, none) = txt /\ Play(none, none) = none
    BY <1>1, PlayNothing
  <2>2. txt \o none = txt
    BY <1>1, ConcatEmptySeq DEF Text
  <2>3. QED
    BY <1>1, <2>1, <2>2
<1>3. ASSUME NEW e \in Seq(Entry), NEW entry \in Entry, e \in S
      PROVE  Append(e, entry) \in S
  <2>1. PICK t : t = Play(none, e) /\ t \in Seq(Entry)
    BY <1>1, PlayType DEF Text
  <2>2. Play(txt, e) = txt \o t
    BY <1>1, <1>3, <2>1
  <2>3. Play(txt, Append(e, entry)) = Apply(txt \o t, entry)
    BY <2>2, PlayNext
  <2>4. Play(none, Append(e, entry)) = Apply(t, entry)
    BY <2>1, PlayNext
  <2>5. Apply(txt \o t, entry) = txt \o Apply(t, entry)
    <3>1. txt \o Append(t, entry) = Append(txt \o t, entry)
      BY <2>1, AppendToConcat DEF Text
    <3>2. QED
      BY <3>1 DEF Apply
  <2>6. Append(e, entry) \in Seq(Entry)
    OBVIOUS
  <2>7. QED
    BY <1>1, <2>3, <2>4, <2>5, <2>6
<1> HIDE DEF S
<1>4. edits \in S
  BY <1>2, <1>3, Adding!SequenceInduction
<1>5. txt \o none = txt
  BY <1>1, ConcatEmptySeq DEF Text
<1>6. QED
  BY <1>1, <1>4, <1>5 DEF S

-------------------------------------------------------------------------------
(* The edits of messages *)

Bringing == INSTANCE FoldLaws WITH Op <- Bring

LEMMA EditsFold ==
  ASSUME NEW messages
  PROVE  Edits(messages) = Bringing!Fold(<<>>, messages)
BY DEF Edits, Bringing!Fold, FoldLeft, Bringing!FoldLeft, MapThenFoldSet,
       Bringing!MapThenFoldSet, Max, Bringing!Max

LEMMA BringType ==
  ASSUME NEW edits \in Seq(Entry), NEW message \in Message
  PROVE  Bring(edits, message) \in Seq(Entry)
<1>1. CASE message \in Payload
  <2>1. PICK more \in Seq(Entry) : more = message.edits
    BY <1>1 DEF Payload
  <2>2. edits \o more \in Seq(Entry)
    OBVIOUS
  <2>3. QED
    BY <2>1, <2>2 DEF Bring
<1>2. CASE message \in Snapshot \cup {Reject}
  <2>1. message.kind # "payload"
    BY <1>2 DEF Snapshot, Reject
  <2>2. QED
    BY <2>1 DEF Bring
<1>3. QED
  BY <1>1, <1>2 DEF Message

LEMMA EditsNone == Edits(<<>>) = <<>>
<1>1. PICK none : none = <<>>
  OBVIOUS
<1>2. Edits(none) = Bringing!Fold(<<>>, none)
  BY EditsFold
<1>3. QED
  BY <1>1, <1>2, Bringing!FoldEmpty

LEMMA EditsNext ==
  ASSUME NEW messages \in Seq(Message), NEW message \in Message
  PROVE  Edits(Append(messages, message)) = Bring(Edits(messages), message)
<1>1. Bringing!Fold(<<>>, Append(messages, message))
        = Bring(Bringing!Fold(<<>>, messages), message)
  BY Bringing!FoldAppend
<1>2. \A m : Edits(m) = Bringing!Fold(<<>>, m)
  BY EditsFold
<1>3. QED
  BY <1>1, <1>2, Zenon

LEMMA EditsType ==
  ASSUME NEW messages \in Seq(Message)
  PROVE  Edits(messages) \in Seq(Entry)
<1> DEFINE S == {m \in Seq(Message) : Edits(m) \in Seq(Entry)}
<1>1. <<>> \in S
  <2>1. PICK none : none = <<>> /\ none \in Seq(Message) /\ none \in Seq(Entry)
    BY NoElements, Zenon
  <2>2. Edits(none) = none
    BY <2>1, EditsNone
  <2>3. QED
    BY <2>1, <2>2
<1>2. ASSUME NEW m \in Seq(Message), NEW message \in Message, m \in S
      PROVE  Append(m, message) \in S
  <2>1. Bring(Edits(m), message) \in Seq(Entry)
    BY <1>2, BringType
  <2>2. Append(m, message) \in Seq(Message)
    OBVIOUS
  <2>3. QED
    BY <2>1, <2>2, EditsNext
<1> HIDE DEF S
<1>3. messages \in S
  BY <1>1, <1>2, Bringing!SequenceInduction
<1>4. QED
  BY <1>3 DEF S

\* What the first message brings comes first.
LEMMA EditsFirst ==
  ASSUME NEW messages \in Seq(Message), messages # <<>>
  PROVE  Edits(messages) = Bring(<<>>, Head(messages)) \o Edits(Tail(messages))
<1>1. PICK first, rest : /\ first = Head(messages) /\ first \in Message
                        /\ rest = Tail(messages) /\ rest \in Seq(Message)
  <2>1. Head(messages) \in Message /\ Tail(messages) \in Seq(Message)
    OBVIOUS
  <2>2. QED
    BY <2>1, Zenon
<1>2. PICK one : one = <<first>> /\ one \in Seq(Message) /\ messages = one \o rest
  <2>1. messages = <<first>> \o rest /\ <<first>> \in Seq(Message)
    BY <1>1
  <2>2. QED
    BY <2>1, Zenon
<1>3. PICK base : base = Bring(<<>>, first) /\ base \in Seq(Entry)
  <2>1. PICK none : none = <<>> /\ none \in Seq(Entry)
    BY NoElements, Zenon
  <2>2. QED
    BY <1>1, <2>1, BringType
<1>4. Edits(one) = base
  <2>1. PICK none : none = <<>> /\ none \in Seq(Message)
    BY NoElements, Zenon
  <2>2. Append(none, first) = one
    BY <1>2, <2>1
  <2>3. Edits(none) = <<>>
    BY <2>1, EditsNone
  <2>4. QED
    BY <1>1, <1>3, <2>1, <2>2, <2>3, EditsNext
<1> DEFINE S == {r \in Seq(Message) : Edits(one \o r) = base \o Edits(r)}
<1>5. <<>> \in S
  <2>1. PICK none : none = <<>> /\ none \in Seq(Message) /\ none \in Seq(Entry)
    BY NoElements, Zenon
  <2>2. one \o none = one /\ base \o none = base
    BY <1>2, <1>3, <2>1, ConcatEmptySeq
  <2>3. Edits(none) = none
    BY <2>1, EditsNone
  <2>4. QED
    BY <1>4, <2>1, <2>2, <2>3
<1>6. ASSUME NEW r \in Seq(Message), NEW message \in Message, r \in S
      PROVE  Append(r, message) \in S
  <2>1. PICK e : e = Edits(r) /\ e \in Seq(Entry)
    BY EditsType
  <2>2. PICK longer : longer = one \o r /\ longer \in Seq(Message)
    <3>1. one \o r \in Seq(Message)
      BY <1>2
    <3>2. QED
      BY <3>1, Zenon
  <2>3. one \o Append(r, message) = Append(longer, message)
    BY <1>2, <2>2, AppendToConcat
  <2>4. Edits(Append(longer, message)) = Bring(base \o e, message)
    BY <1>6, <2>1, <2>2, EditsNext
  <2>5. Edits(Append(r, message)) = Bring(e, message)
    BY <2>1, EditsNext
  <2>6. Bring(base \o e, message) = base \o Bring(e, message)
    <3>1. CASE message \in Payload
      <4>1. PICK more \in Seq(Entry) : more = message.edits
        BY <3>1 DEF Payload
      <4>2. message.kind = "payload"
        BY <3>1 DEF Payload
      <4>3. (base \o e) \o more = base \o (e \o more)
        BY <1>3, <2>1, ConcatAssociative
      <4>4. QED
        BY <4>1, <4>2, <4>3 DEF Bring
    <3>2. CASE message \in Snapshot \cup {Reject}
      <4>1. message.kind # "payload"
        BY <3>2 DEF Snapshot, Reject
      <4>2. QED
        BY <4>1 DEF Bring
    <3>3. QED
      BY <3>1, <3>2 DEF Message
  <2>7. Append(r, message) \in Seq(Message)
    OBVIOUS
  <2>8. QED
    BY <2>3, <2>4, <2>5, <2>6, <2>7
<1> HIDE DEF S
<1>7. rest \in S
  BY <1>1, <1>5, <1>6, Bringing!SequenceInduction
<1>8. QED
  BY <1>1, <1>2, <1>3, <1>7 DEF S

-------------------------------------------------------------------------------
(* What a client may find in its FIFO and in its buffer *)

Before == {"auth", "join", "greet"}
After == Registered \cup {"register"}

\* First a document or a rejection, and after it payloads only.
KindsOf(c) ==
    /\ client[c] \in {"absent", "closed"} => inbuf[c] = <<>> /\ s2c[c] = <<>>
    /\ pc[c] \in Before => s2c[c] = <<>> /\ client[c] \in {"greeting", "closed"}
    /\ client[c] = "greeting" =>
         /\ inbuf[c] = <<>>
         /\ \A i \in DOMAIN s2c[c] : i > 1 => s2c[c][i] \in Payload
         /\ pc[c] \in After => s2c[c] # <<>> /\ s2c[c][1] \in Snapshot
    /\ Open(c) => \A i \in DOMAIN Incoming(c) : Incoming(c)[i] \in Payload

KindsSound == \A c \in Clients : KindsOf(c)

\* A client and its FIFO are left alone, and its thread comes no nearer to the registry.
LEMMA KindsKept ==
  ASSUME NEW d \in Clients, KindsOf(d),
         client'[d] = client[d], s2c'[d] = s2c[d], inbuf'[d] = inbuf[d],
         pc'[d] \in Before => pc[d] \in Before,
         pc'[d] \in After => pc[d] \in After
  PROVE  KindsOf(d)'
<1>1. Incoming(d)' = Incoming(d) /\ Open(d)' = Open(d)
  BY DEF Incoming, Open
<1>2. QED
  BY <1>1 DEF KindsOf, Before, After

\* The same for all clients, when the thread of c moves.
LEMMA KindsMove ==
  ASSUME NEW c \in Clients, NEW label, TypeOK, KindsSound,
         UNCHANGED <<client, s2c, inbuf>>, pc' = [pc EXCEPT ![c] = label],
         label \in Before => pc[c] \in Before,
         label \in After => pc[c] \in After
  PROVE  KindsSound'
<1>1. ASSUME NEW d \in Clients
      PROVE  KindsOf(d)'
  <2>1. /\ pc'[d] \in Before => pc[d] \in Before
        /\ pc'[d] \in After => pc[d] \in After
    BY DEF TypeOK
  <2>2. QED
    BY <2>1, KindsKept DEF KindsSound
<1>2. QED
  BY <1>1 DEF KindsSound

LEMMA KindsBrokenPipe ==
  ASSUME NEW c \in Clients, KindsSound, BrokenPipe(c)
  PROVE  KindsSound'
<1>1. ASSUME NEW d \in Clients
      PROVE  KindsOf(d)'
  BY KindsKept DEF KindsSound, BrokenPipe, threadVars, processVars
<1>2. QED
  BY <1>1 DEF KindsSound

\* The first message of a client, a document or a rejection.
LEMMA KindsFirst ==
  ASSUME NEW c \in Clients, NEW message \in Message, NEW label, TypeOK, KindsSound,
         Send(c, message), pc[c] \in Before, pc' = [pc EXCEPT ![c] = label],
         label \notin Before, label \in After => message \in Snapshot, UNCHANGED processVars
  PROVE  KindsSound'
<1>1. client[c] = "greeting" /\ s2c[c] = <<>>
  BY DEF KindsSound, KindsOf, Send
<1>2. s2c'[c] = <<message>>
  BY <1>1 DEF Send, TypeOK
<1>3. client'[c] = "greeting" /\ inbuf'[c] = <<>> /\ pc'[c] = label
  BY <1>1 DEF KindsSound, KindsOf, processVars, TypeOK
<1>4. KindsOf(c)'
  <2>1. DOMAIN s2c'[c] = {1} /\ s2c'[c] # <<>> /\ s2c'[c][1] = message
    BY <1>2
  <2>2. ~Open(c)'
    BY <1>3 DEF Open
  <2>3. QED
    BY <1>3, <2>1, <2>2 DEF KindsOf
<1>5. ASSUME NEW d \in Clients \ {c}
      PROVE  KindsOf(d)'
  <2>1. pc'[d] = pc[d] /\ s2c'[d] = s2c[d] /\ client'[d] = client[d] /\ inbuf'[d] = inbuf[d]
    BY DEF Send, TypeOK, processVars
  <2>2. QED
    BY <2>1, KindsKept DEF KindsSound
<1>6. QED
  BY <1>4, <1>5 DEF KindsSound

\* A payload for a client that is in the registry.
LEMMA KindsPayload ==
  ASSUME NEW e \in Clients, NEW message \in Payload, TypeOK, Started, KindsSound,
         Send(e, message), pc[e] \in Registered, UNCHANGED <<pc, processVars>>
  PROVE  KindsSound'
<1>1. message \in Message
  BY DEF Message
<1>2. /\ Incoming(e)' = Append(Incoming(e), message)
      /\ s2c'[e] = Append(s2c[e], message)
      /\ \A d \in Clients \ {e} : s2c'[d] = s2c[d]
  BY <1>1, SendIncoming DEF processVars
<1>3. /\ s2c[e] \in Seq(Message) /\ Incoming(e) \in Seq(Message)
      /\ client[e] \notin {"absent", "closed"}
  BY IncomingType DEF Started, Registered, Send
<1>4. KindsOf(e)
  BY DEF KindsSound
<1>5. KindsOf(e)'
  <2>1. client'[e] = client[e] /\ inbuf'[e] = inbuf[e] /\ pc'[e] = pc[e]
    BY DEF processVars
  <2>2. CASE client[e] = "greeting"
    <3>1. s2c[e] # <<>> /\ inbuf[e] = <<>> /\ s2c[e][1] \in Snapshot
      BY <1>4, <2>2 DEF KindsOf, After
    <3>2. s2c'[e] # <<>> /\ s2c'[e][1] \in Snapshot
      <4>1. Append(s2c[e], message) # <<>> /\ Append(s2c[e], message)[1] = s2c[e][1]
        BY <1>1, <1>3, <3>1, AppendFirst
      <4>2. QED
        BY <1>2, <3>1, <4>1
    <3>3. ASSUME NEW i \in DOMAIN s2c'[e], i > 1
          PROVE  s2c'[e][i] \in Payload
      <4>1. CASE i \in DOMAIN s2c[e]
        BY <1>2, <1>3, <1>4, <2>2, <3>3, <4>1 DEF KindsOf
      <4>2. CASE i = Len(s2c[e]) + 1
        BY <1>2, <1>3, <4>2
      <4>3. QED
        BY <1>2, <1>3, <4>1, <4>2
    <3>4. ~Open(e)' /\ pc'[e] \notin Before
      BY <2>1, <2>2 DEF Open, Before, Registered
    <3>5. QED
      BY <2>1, <2>2, <3>1, <3>2, <3>3, <3>4 DEF KindsOf
  <2>3. CASE client[e] # "greeting"
    <3>1. Open(e)
      BY <1>3, <2>3 DEF Open, TypeOK, States
    <3>2. ASSUME NEW i \in DOMAIN Incoming(e)'
          PROVE  Incoming(e)'[i] \in Payload
      <4>1. CASE i \in DOMAIN Incoming(e)
        BY <1>2, <1>3, <1>4, <3>1, <4>1 DEF KindsOf
      <4>2. CASE i = Len(Incoming(e)) + 1
        BY <1>2, <1>3, <4>2
      <4>3. QED
        BY <1>2, <1>3, <4>1, <4>2
    <3>3. client'[e] \notin {"absent", "closed", "greeting"} /\ pc'[e] \notin Before
      BY <1>3, <2>1, <2>3 DEF Before, Registered
    <3>4. QED
      BY <3>2, <3>3 DEF KindsOf
  <2>4. QED
    BY <2>2, <2>3
<1>6. ASSUME NEW d \in Clients \ {e}
      PROVE  KindsOf(d)'
  BY <1>2, KindsKept DEF KindsSound, processVars
<1>7. QED
  BY <1>5, <1>6 DEF KindsSound

\* The thread of a client keeps the order of what it writes.
LEMMA ThreadKinds ==
  ASSUME NEW c \in Clients, TypeOK, pc[c] = "broadcast" => payload \in Payload,
         RegistrySound, Started, KindsSound, Thread(c)
  PROVE  KindsSound'
<1>1. CASE Authenticate(c)
  BY <1>1, KindsMove DEF Authenticate, At, Goto, Before, After, Registered, processVars
<1>2. CASE Refuse(c)
  <2>1. CASE BrokenPipe(c)
    BY <2>1, KindsBrokenPipe
  <2>2. CASE Send(c, Reject) /\ Goto(c, "done") /\ UNCHANGED processVars
    <3>1. Reject \in Message /\ pc[c] \in Before /\ "done" \notin Before \cup After
      BY <1>2 DEF Message, Refuse, At, Before, After, Registered
    <3>2. QED
      BY <2>2, <3>1, KindsFirst DEF Goto
  <2>3. QED
    BY <1>2, <2>1, <2>2 DEF Refuse
<1>3. CASE NoUsername(c)
  BY <1>3, KindsMove DEF NoUsername, At, Goto, Before, After, Registered, processVars
<1>4. CASE Lock(c)
  <2>1. CASE At(c, "join") /\ Goto(c, "greet")
    BY <1>4, <2>1, KindsMove DEF Lock, At, Goto, Before, After, Registered, processVars
  <2>2. CASE At(c, "submit") /\ Goto(c, "commit")
    BY <1>4, <2>2, KindsMove DEF Lock, At, Goto, Before, After, Registered, processVars
  <2>3. QED
    BY <1>4, <2>1, <2>2 DEF Lock
<1>5. CASE Greet(c)
  <2>1. CASE BrokenPipe(c)
    BY <2>1, KindsBrokenPipe
  <2>2. CASE Send(c, [kind |-> "snapshot", version |-> version, text |-> text])
             /\ Goto(c, "register") /\ UNCHANGED processVars
    <3>1. /\ [kind |-> "snapshot", version |-> version, text |-> text] \in Message
          /\ [kind |-> "snapshot", version |-> version, text |-> text] \in Snapshot
      BY DEF Message, Snapshot, TypeOK
    <3>2. pc[c] \in Before /\ "register" \notin Before
      BY <1>5 DEF Greet, At, Before
    <3>3. QED
      BY <2>2, <3>1, <3>2, KindsFirst DEF Goto
  <2>3. QED
    BY <1>5, <2>1, <2>2 DEF Greet
<1>6. CASE Register(c)
  <2>1. CASE Goto(c, "done")
    BY <1>6, <2>1, KindsMove DEF Register, At, Goto, Before, After, Registered, processVars
  <2>2. CASE Goto(c, "read")
    BY <1>6, <2>2, KindsMove DEF Register, At, Goto, Before, After, Registered, processVars
  <2>3. QED
    BY <1>6, <2>1, <2>2 DEF Register
<1>7. CASE ReadCommand(c)
  <2>1. CASE Goto(c, "leave")
    BY <1>7, <2>1, KindsMove DEF ReadCommand, At, Goto, Before, After, Registered, processVars
  <2>2. CASE Goto(c, "submit")
    BY <1>7, <2>2, KindsMove DEF ReadCommand, At, Goto, Before, After, Registered, processVars
  <2>3. QED
    BY <1>7, <2>1, <2>2 DEF ReadCommand
<1>8. CASE ReadEof(c)
  BY <1>8, KindsMove DEF ReadEof, At, Goto, Before, After, Registered, processVars
<1>9. CASE Commit(c)
  BY <1>9, KindsMove DEF Commit, At, Goto, Before, After, Registered, processVars
<1>10. CASE Broadcast(c)
  <2> DEFINE e == registry[cursor]
  <2>1. cursor \in DOMAIN registry /\ e \in Clients
    BY <1>10 DEF Broadcast, TypeOK
  <2>2. pc[e] \in Registered
    BY <2>1 DEF RegistrySound, InRegistry
  <2>3. payload \in Payload
    BY <1>10 DEF Broadcast, At
  <2> HIDE DEF e
  <2>4. CASE BrokenPipe(e)
    BY <2>1, <2>4, KindsBrokenPipe
  <2>5. CASE Send(e, payload) /\ UNCHANGED <<threadVars, processVars>>
    BY <2>1, <2>2, <2>3, <2>5, KindsPayload DEF threadVars
  <2>6. QED
    BY <1>10, <2>4, <2>5 DEF Broadcast, e
<1>11. CASE EndBroadcast(c)
  BY <1>11, KindsMove DEF EndBroadcast, At, Goto, Before, After, Registered, processVars
<1>12. CASE Leave(c)
  <2>1. pc[c] = "leave" /\ pc' = [pc EXCEPT ![c] = "done"] /\ UNCHANGED <<client, s2c, inbuf>>
    BY <1>12 DEF Leave, At, Goto, processVars
  <2>2. QED
    BY <2>1, KindsMove DEF Before, After, Registered
<1>13. QED
  BY <1>1, <1>2, <1>3, <1>4, <1>5, <1>6, <1>7, <1>8, <1>9, <1>10, <1>11, <1>12 DEF Thread

\* A process that exits leaves nothing behind.
LEMMA KindsClosed ==
  ASSUME NEW c \in Clients, TypeOK, KindsSound, Close(c), UNCHANGED pc
  PROVE  KindsSound'
<1>1. KindsOf(c)'
  BY DEF KindsOf, Close, TypeOK, Open
<1>2. ASSUME NEW d \in Clients \ {c}
      PROVE  KindsOf(d)'
  <2>1. client'[d] = client[d] /\ s2c'[d] = s2c[d] /\ inbuf'[d] = inbuf[d]
    BY DEF Close, TypeOK
  <2>2. QED
    BY <2>1, KindsKept DEF KindsSound
<1>3. QED
  BY <1>1, <1>2 DEF KindsSound

\* A client takes the first message of its stream and goes on with the others.
LEMMA KindsRead ==
  ASSUME NEW c \in Clients, TypeOK, KindsSound, ReadSnapshot(c) \/ ReadPayload(c)
  PROVE  KindsSound'
<1>1. KindsOf(c) /\ UNCHANGED pc /\ client' = [client EXCEPT ![c] = "ready"]
  BY DEF KindsSound, ReadSnapshot, ReadPayload, threadVars
<1>2. /\ s2c[c] \in Seq(Message) /\ Incoming(c) \in Seq(Message)
  BY IncomingType
<1>3. client'[c] = "ready" /\ pc'[c] = pc[c]
  BY <1>1 DEF TypeOK
<1>4. pc[c] \notin Before
  BY <1>1 DEF KindsOf, ReadSnapshot, ReadPayload
<1>5. /\ \A i \in DOMAIN Incoming(c)' : Incoming(c)'[i] \in Payload
      /\ \A d \in Clients \ {c} : inbuf'[d] = inbuf[d] /\ s2c'[d] = s2c[d]
  <2>1. CASE ReadSnapshot(c)
    <3>1. client[c] = "greeting" /\ inbuf[c] = <<>> /\ Refill(c) /\ s2c[c] # <<>>
      BY <1>1, <2>1 DEF ReadSnapshot, KindsOf
    <3>2. Incoming(c)' = Tail(s2c[c])
      BY <3>1, RefillIncoming
    <3>3. \A i \in DOMAIN s2c[c] : i > 1 => s2c[c][i] \in Payload
      BY <1>1, <3>1 DEF KindsOf
    <3>4. \A i \in DOMAIN Tail(s2c[c]) : Tail(s2c[c])[i] \in Payload
      BY <1>2, <3>1, <3>3
    <3>5. QED
      BY <3>1, <3>2, <3>4 DEF Refill, TypeOK
  <2>2. CASE ReadPayload(c)
    <3>1. Open(c) /\ Incoming(c) # <<>>
      BY <2>2 DEF ReadPayload, Open
    <3>2. Incoming(c)' = Tail(Incoming(c))
      <4>1. CASE inbuf[c] # <<>>
        BY <2>2, <4>1, ServeIncoming DEF ReadPayload
      <4>2. CASE inbuf[c] = <<>>
        BY <2>2, <4>2, RefillIncoming DEF ReadPayload
      <4>3. QED
        BY <4>1, <4>2
    <3>3. \A i \in DOMAIN Incoming(c) : Incoming(c)[i] \in Payload
      BY <1>1, <3>1 DEF KindsOf
    <3>4. \A i \in DOMAIN Tail(Incoming(c)) : Tail(Incoming(c))[i] \in Payload
      BY <1>2, <3>1, <3>3
    <3>5. \A d \in Clients \ {c} : inbuf'[d] = inbuf[d] /\ s2c'[d] = s2c[d]
      BY <2>2 DEF ReadPayload, Refill, TypeOK
    <3>6. QED
      BY <3>2, <3>4, <3>5
  <2>3. QED
    BY <2>1, <2>2
<1>6. KindsOf(c)'
  BY <1>3, <1>4, <1>5 DEF KindsOf
<1>7. ASSUME NEW d \in Clients \ {c}
      PROVE  KindsOf(d)'
  <2>1. client'[d] = client[d] /\ pc'[d] = pc[d]
    BY <1>1 DEF TypeOK
  <2>2. QED
    BY <1>5, <2>1, KindsKept DEF KindsSound
<1>8. QED
  BY <1>6, <1>7 DEF KindsSound

LEMMA ProcessKinds ==
  ASSUME NEW c \in Clients, TypeOK, KindsSound, Process(c) \/ User(c)
  PROVE  KindsSound'
<1>1. CASE ReadSnapshot(c) \/ ReadPayload(c)
  BY <1>1, KindsRead
<1>2. CASE ReadReject(c) \/ Hangup(c) \/ Finish(c) \/ Quit(c)
  BY <1>2, KindsClosed DEF ReadReject, Hangup, Finish, Quit, threadVars
<1>3. CASE Connect(c)
  <2>1. ASSUME NEW d \in Clients \ {c}
        PROVE  KindsOf(d)'
    <3>1. client'[d] = client[d] /\ pc'[d] = pc[d]
      BY <1>3 DEF Connect, Goto, TypeOK
    <3>2. QED
      BY <1>3, <3>1, KindsKept DEF KindsSound, Connect
  <2>2. KindsOf(c)'
    <3>1. client'[c] = "greeting" /\ pc'[c] = "auth" /\ s2c'[c] = <<>> /\ inbuf'[c] = <<>>
      BY <1>3 DEF Connect, Goto, TypeOK, KindsSound, KindsOf
    <3>2. QED
      BY <3>1 DEF KindsOf, After, Registered, Open
  <2>3. QED
    BY <2>1, <2>2 DEF KindsSound
<1>4. CASE TypeCommand(c) \/ WriteCommand(c)
  <2>1. /\ UNCHANGED <<pc, s2c, inbuf>>
        /\ \A d \in Clients \ {c} : client'[d] = client[d]
        /\ client[c] \in {"ready", "writing"}
        /\ client'[c] \in {"writing", "leaving", "reading", "ready"}
    BY <1>4 DEF TypeCommand, WriteCommand, threadVars, TypeOK
  <2>2. KindsOf(c)'
    <3>1. KindsOf(c) /\ Incoming(c)' = Incoming(c) /\ Open(c)
      BY <2>1 DEF KindsSound, Incoming, Open
    <3>2. QED
      BY <2>1, <3>1 DEF KindsOf
  <2>3. ASSUME NEW d \in Clients \ {c}
        PROVE  KindsOf(d)'
    BY <2>1, KindsKept DEF KindsSound
  <2>4. QED
    BY <2>2, <2>3 DEF KindsSound
<1>5. QED
  BY <1>1, <1>2, <1>3, <1>4 DEF Process, User

\* What a client prints adds up to a version and a text, whichever it was left out of.
LEMMA FaultyViewType ==
  ASSUME NEW c \in Clients, TypeOK, KindsSound, Process(c) \/ User(c)
  PROVE  view' \in [Clients -> [version : Nat, text : Text]]
<1>1. CASE ReadSnapshot(c)
  <2>1. s2c[c] \in Seq(Message) /\ s2c[c] # <<>> /\ Head(s2c[c]).kind = "snapshot"
    BY <1>1 DEF ReadSnapshot, TypeOK
  <2>2. Head(s2c[c]) \in Message
    BY <2>1
  <2>3. Head(s2c[c]) \in Snapshot
    BY <2>1, <2>2 DEF Message, Payload, Reject
  <2>4. QED
    BY <1>1, <2>3 DEF ReadSnapshot, Snapshot, TypeOK
<1>2. CASE ReadPayload(c)
  <2> DEFINE message == Head(Incoming(c))
  <2>1. Incoming(c) \in Seq(Message) /\ Incoming(c) # <<>> /\ Open(c)
    BY <1>2, IncomingType DEF ReadPayload, Open
  <2>2. message \in Payload
    <3>1. 1 \in DOMAIN Incoming(c) /\ message = Incoming(c)[1]
      BY <2>1
    <3>2. QED
      BY <2>1, <3>1 DEF KindsSound, KindsOf
  <2>3. message.version \in Nat /\ message.edits \in Seq(Entry)
    BY <2>2 DEF Payload
  <2> HIDE DEF message
  <2>4. Play(view[c].text, message.edits) \in Text
    <3>1. PICK txt, edits : /\ txt = view[c].text /\ txt \in Text
                           /\ edits = message.edits /\ edits \in Seq(Entry)
      BY <2>3 DEF TypeOK
    <3>2. Play(txt, edits) \in Text
      BY <3>1, PlayType
    <3>3. QED
      BY <3>1, <3>2
  <2>5. view' = [view EXCEPT ![c] = [version |-> message.version,
                                     text |-> Play(view[c].text, message.edits)]]
    BY <1>2 DEF ReadPayload, message
  <2>6. QED
    BY <2>3, <2>4, <2>5 DEF TypeOK
<1>3. CASE ~(ReadSnapshot(c) \/ ReadPayload(c))
  <2>1. UNCHANGED view
    BY <1>3 DEF Process, User, Connect, ReadReject, TypeCommand, WriteCommand, Hangup, Finish, Quit
  <2>2. QED
    BY <2>1 DEF TypeOK
<1>4. QED
  BY <1>1, <1>2, <1>3

-------------------------------------------------------------------------------
(* The invariant and its steps *)

\* A payload that is being broadcast has taken the log with it.
Broadcasting ==
    \A c \in Clients : pc[c] = "broadcast" =>
        payload \in Payload /\ cursor \in 1 .. Len(registry) + 1 /\ log = <<>>

\* What failed calls leave standing of IndInv, with KindsSound for StreamSound.
FaultyIndInv ==
    /\ FaultyTypeOK /\ MutexHeld /\ RegistrySound
    /\ Started /\ KindsSound /\ Broadcasting

LEMMA StartedStep ==
  ASSUME NEW c \in Clients, TypeOK, Started, Thread(c) \/ Process(c) \/ User(c)
  PROVE  Started'
<1>1. CASE Thread(c)
  <2>1. UNCHANGED client /\ \A d \in Clients \ {c} : pc'[d] = pc[d]
    BY <1>1 DEF Thread, Authenticate, Refuse, NoUsername, Lock, Greet, Register, ReadCommand,
                ReadEof, Commit, Broadcast, EndBroadcast, Leave, BrokenPipe, Goto, processVars,
                threadVars, TypeOK
  <2>2. pc'[c] = pc[c] \/ pc[c] # "none"
    BY <1>1 DEF Thread, Authenticate, Refuse, NoUsername, Lock, Greet, Register, ReadCommand,
                ReadEof, Commit, Broadcast, EndBroadcast, Leave, BrokenPipe, At, threadVars
  <2>3. QED
    BY <2>1, <2>2 DEF Started
<1>2. CASE Connect(c)
  BY <1>2 DEF Connect, Goto, Started, TypeOK
<1>3. CASE Process(c) \/ TypeCommand(c) \/ Quit(c)
  <2>1. UNCHANGED pc
    BY <1>3, ProcessFrame DEF threadVars
  <2>2. \A d \in Clients : client'[d] = "absent" => client[d] = "absent"
    BY <1>3 DEF Process, TypeCommand, Quit, ReadSnapshot, ReadReject, ReadPayload, WriteCommand,
                Hangup, Finish, Close, TypeOK
  <2>3. QED
    BY <2>1, <2>2 DEF Started
<1>4. QED
  BY <1>1, <1>2, <1>3 DEF User

\* A session step leaves a broadcast of another thread alone.
LEMMA BroadcastingStep ==
  ASSUME NEW c \in Clients, TypeOK, MutexHeld, Broadcasting,
         Session(c) \/ Greet(c), UNCHANGED log
  PROVE  Broadcasting'
<1>1. CASE Broadcast(c)
  <2>1. UNCHANGED <<pc, registry, payload>>
    BY <1>1 DEF Broadcast, BrokenPipe, threadVars, coreVars
  <2>2. cursor \in 1 .. Len(registry)
    BY <1>1 DEF Broadcast, TypeOK
  <2>3. cursor' = cursor \/ cursor' = cursor + 1
    BY <1>1 DEF Broadcast, BrokenPipe, coreVars
  <2>4. cursor' \in 1 .. Len(registry) + 1
    <3>1. PICK n \in Nat : n = Len(registry)
      BY DEF TypeOK
    <3>2. QED
      BY <2>2, <2>3, <3>1
  <2>5. QED
    BY <2>1, <2>4 DEF Broadcasting
<1>2. CASE Register(c) \/ Leave(c)
  <2>1. \A d \in Clients : pc[d] # "broadcast"
    BY <1>2, NoClientAssumption DEF Register, Leave, At, MutexHeld
  <2>2. \A d \in Clients : pc'[d] # "broadcast"
    BY <1>2, <2>1 DEF Register, Leave, Goto, TypeOK
  <2>3. QED
    BY <2>2 DEF Broadcasting
<1>3. CASE \/ Authenticate(c) \/ Refuse(c) \/ NoUsername(c) \/ Lock(c)
           \/ ReadCommand(c) \/ ReadEof(c) \/ EndBroadcast(c) \/ Greet(c)
  <2>1. UNCHANGED <<registry, payload, cursor>>
    BY <1>3 DEF Authenticate, Refuse, NoUsername, Lock, ReadCommand, ReadEof, EndBroadcast,
                Greet, BrokenPipe, threadVars, coreVars
  <2>2. \A d \in Clients : pc'[d] = "broadcast" => pc[d] = "broadcast"
    BY <1>3 DEF Authenticate, Refuse, NoUsername, Lock, ReadCommand, ReadEof, EndBroadcast,
                Greet, BrokenPipe, threadVars, Goto, TypeOK
  <2>3. QED
    BY <2>1, <2>2 DEF Broadcasting
<1>4. QED
  BY <1>1, <1>2, <1>3 DEF Session

\* A step of a session thread in which no call fails, but for its commit.
LEMMA SessionStep ==
  ASSUME FaultyIndInv, NEW c \in Clients,
         (Session(c) /\ UNCHANGED faultVars) \/ GreetAndRecord(c)
  PROVE  FaultyIndInv'
<1> USE DEF FaultyIndInv
<1>1. Thread(c) /\ (Session(c) \/ Greet(c)) /\ UNCHANGED <<faults, log, pending, shown>>
  BY DEF Session, GreetAndRecord, Thread, faultVars, recordVars
<1>2. TypeOK
  BY DEF FaultyTypeOK
<1>3. pc[c] = "broadcast" => payload \in Payload
  BY DEF Broadcasting
<1>4. TypeOK'
  BY <1>1, <1>2, <1>3, ThreadType
<1>5. MutexHeld' /\ RegistrySound'
  BY <1>1, <1>2, MutexStep, RegistryStep
<1>6. Started' /\ KindsSound'
  BY <1>1, <1>2, <1>3, StartedStep, ThreadKinds
<1>7. Broadcasting'
  BY <1>1, <1>2, BroadcastingStep
<1>8. owed' \in [Clients -> Seq(Entry)] /\ drifted' \subseteq Clients
  BY DEF FaultyTypeOK, GreetAndRecord, faultVars, recordVars
<1>9. FaultyTypeOK'
  BY <1>1, <1>4, <1>8 DEF FaultyTypeOK
<1>10. QED
  BY <1>5, <1>6, <1>7, <1>9

\* A step of a client or its user.
LEMMA ProcessStep ==
  ASSUME FaultyIndInv, NEW c \in Clients,
         ((Proceed(c) \/ User(c)) /\ UNCHANGED faultVars) \/ ReadAndRecord(c)
  PROVE  FaultyIndInv'
<1> USE DEF FaultyIndInv
<1>1. (Process(c) \/ User(c)) /\ UNCHANGED <<faults, log, pending, owed, drifted>>
  BY DEF Proceed, ReadAndRecord, Process, faultVars, recordVars
<1>2. TypeOK
  BY DEF FaultyTypeOK
<1>3. TypeOK'
  BY <1>1, <1>2, FaultyViewType, ProcessType
<1>4. MutexHeld' /\ RegistrySound'
  BY <1>1, <1>2, MutexStep, RegistryStep
<1>5. Started' /\ KindsSound'
  BY <1>1, <1>2, StartedStep, ProcessKinds
<1>6. Broadcasting'
  <2>1. UNCHANGED <<registry, payload, cursor>> /\ \A d \in Clients \ {c} : pc'[d] = pc[d]
    BY <1>1, <1>2, ProcessFrame DEF User, Connect, Goto, threadVars, coreVars, TypeOK
  <2>2. pc'[c] = pc[c] \/ pc'[c] = "auth"
    BY <1>1, <1>2, ProcessFrame DEF User, Connect, Goto, threadVars, TypeOK
  <2>3. QED
    BY <1>1, <2>1, <2>2 DEF Broadcasting
<1>7. shown' \in [Clients -> Seq(Entry)]
  <2>1. CASE ReadAndRecord(c)
    <3>1. Open(c) /\ Incoming(c) # <<>>
      BY <2>1 DEF ReadAndRecord, ReadPayload, Open
    <3>2. Incoming(c) \in Seq(Message)
      BY <1>2, IncomingType
    <3>3. Head(Incoming(c)) \in Payload
      BY <3>1, <3>2 DEF KindsSound, KindsOf
    <3>4. PICK more \in Seq(Entry) : more = Head(Incoming(c)).edits
      BY <3>3 DEF Payload
    <3>5. shown' = [shown EXCEPT ![c] = @ \o more]
      BY <2>1, <3>4 DEF ReadAndRecord
    <3>6. QED
      BY <3>5 DEF FaultyTypeOK
  <2>2. CASE UNCHANGED faultVars
    BY <2>2 DEF FaultyTypeOK, faultVars, recordVars
  <2>3. QED
    BY <2>1, <2>2
<1>8. FaultyTypeOK'
  BY <1>1, <1>3, <1>7 DEF FaultyTypeOK
<1>9. QED
  BY <1>4, <1>5, <1>6, <1>8

\* What a submission and commit come to, whatever fails in them.  The entry is logged or
\* not; what a client that is told of the log makes of the text is the text of the server,
\* unless the client is among those that drift.
CommitOf(c, entry, entries, logged) ==
    /\ entries = IF logged THEN Append(log, entry) ELSE log
    /\ owed' = [d \in Clients |-> IF InRegistry(d) /\ logged THEN Append(owed[d], entry)
                                                              ELSE owed[d]]
    /\ drifted \subseteq drifted'
    /\ \A d \in Clients : InRegistry(d) /\ d \notin drifted' =>
         text' \o pending' = IF logged THEN Apply(text \o pending, entry) ELSE text \o pending
    /\ \/ /\ pc' = [pc EXCEPT ![c] = "read"]
          /\ lock' = NoClient
          /\ log' = entries
          /\ UNCHANGED <<payload, cursor>>
       \/ /\ pc' = [pc EXCEPT ![c] = "broadcast"]
          /\ UNCHANGED lock
          /\ log' = <<>>
          /\ payload' \in Payload
          /\ payload'.edits = entries
          /\ cursor' = 1

LEMMA CommitFacts ==
  ASSUME NEW c \in Clients, FaultyTypeOK, SubmitAndCommit(c)
  PROVE  /\ version' \in Nat /\ text' \in Text /\ pending' \in Seq(Entry)
         /\ faults' \in 0 .. MaxFaults /\ drifted' \subseteq Clients
         /\ \E entry \in Entry, entries \in Seq(Entry), logged \in BOOLEAN :
              CommitOf(c, entry, entries, logged)
<1>0. PICK failed, call :
        /\ failed \in SUBSET Allocations
        /\ LET entry == [user |-> c, id |-> cmd[c].id, result |-> call.result]
               entries == IF "entry" \in failed THEN log ELSE Append(log, entry)
               taken == IF call.executed THEN Append(pending, entry) ELSE pending
               untold == call.executed /\ {"command", "entry"} \cap failed # {}
               advances == entries # <<>> /\ "version" \notin failed
           IN /\ call \in IF "command" \in failed THEN Abandoned(c) ELSE Completed(c)
              /\ faults + Cardinality(failed) <= MaxFaults
              /\ faults' = faults + Cardinality(failed)
              /\ version' = IF advances THEN version + 1 ELSE version
              /\ text' = IF advances THEN text \o taken ELSE text
              /\ pending' = IF advances THEN <<>> ELSE taken
              /\ log' = LogAfter(entries, failed)
              /\ owed' = [d \in Clients |-> IF InRegistry(d) /\ "entry" \notin failed
                                            THEN Append(owed[d], entry) ELSE owed[d]]
              /\ drifted' = IF untold THEN drifted \cup {d \in Clients : InRegistry(d)} ELSE drifted
              /\ IF "payload" \in failed
                   THEN /\ lock' = NoClient
                        /\ Goto(c, "read")
                        /\ UNCHANGED <<payload, cursor>>
                   ELSE /\ payload' = [kind |-> "payload", version |-> version', edits |-> entries]
                        /\ cursor' = 1
                        /\ Goto(c, "broadcast")
                        /\ UNCHANGED lock
  BY Zenon DEF SubmitAndCommit
<1> DEFINE entry == [user |-> c, id |-> cmd[c].id, result |-> call.result]
           entries == IF "entry" \in failed THEN log ELSE Append(log, entry)
           taken == IF call.executed THEN Append(pending, entry) ELSE pending
           untold == call.executed /\ {"command", "entry"} \cap failed # {}
           advances == entries # <<>> /\ "version" \notin failed
           logged == "entry" \notin failed
<1>1. /\ call \in IF "command" \in failed THEN Abandoned(c) ELSE Completed(c)
      /\ faults + Cardinality(failed) <= MaxFaults
      /\ faults' = faults + Cardinality(failed)
      /\ version' = IF advances THEN version + 1 ELSE version
      /\ text' = IF advances THEN text \o taken ELSE text
      /\ pending' = IF advances THEN <<>> ELSE taken
      /\ log' = LogAfter(entries, failed)
      /\ owed' = [d \in Clients |-> IF InRegistry(d) /\ logged THEN Append(owed[d], entry)
                                                              ELSE owed[d]]
      /\ drifted' = IF untold THEN drifted \cup {d \in Clients : InRegistry(d)} ELSE drifted
      /\ IF "payload" \in failed
           THEN /\ lock' = NoClient
                /\ Goto(c, "read")
                /\ UNCHANGED <<payload, cursor>>
           ELSE /\ payload' = [kind |-> "payload", version |-> version', edits |-> entries]
                /\ cursor' = 1
                /\ Goto(c, "broadcast")
                /\ UNCHANGED lock
  BY <1>0, Zenon
<1>2. /\ call.result \in Result /\ call.executed \in BOOLEAN
      /\ "command" \notin failed => call.executed = (call.result = "SUCCESS")
      /\ "command" \in failed => call.result # "SUCCESS"
  <2>1. CASE "command" \in failed
    BY <1>1, <2>1 DEF Abandoned, Result
  <2>2. CASE "command" \notin failed
    <3>1. PICK result \in Outcomes(c, cmd[c]) :
            call = [result |-> result, executed |-> result = "SUCCESS"]
      BY <1>1, <2>2 DEF Completed
    <3>2. result \in Result
      BY <3>1 DEF Outcomes, Result
    <3>3. QED
      BY <2>2, <3>1, <3>2
  <2>3. QED
    BY <2>1, <2>2
<1>3. entry \in Entry /\ entry.result = call.result
  <2>1. cmd[c].id \in Nat
    BY DEF FaultyTypeOK, TypeOK, Command
  <2>2. QED
    BY <1>2, <2>1 DEF Entry
<1>4. text \in Text /\ pending \in Text /\ log \in Seq(Entry) /\ version \in Nat
  BY DEF FaultyTypeOK, TypeOK, Text
<1> HIDE DEF entry
<1>5. /\ entries \in Seq(Entry)
      /\ entries = IF logged THEN Append(log, entry) ELSE log
  BY <1>3, <1>4
<1>6. /\ taken = IF call.executed THEN Append(pending, entry) ELSE pending
      /\ untold <=> (call.executed /\ {"command", "entry"} \cap failed # {})
      /\ advances \in BOOLEAN /\ logged \in BOOLEAN
  OBVIOUS
<1> HIDE DEF entries, taken, untold, advances
<1>7. /\ text' \in Text /\ pending' \in Text
      /\ text' \o pending' = IF call.executed THEN Append(text \o pending, entry)
                                              ELSE text \o pending
  <2>1. taken \in Text /\ text \o taken \in Text
    BY <1>3, <1>4, <1>6 DEF Text
  <2>2. PICK none : none = <<>> /\ none \in Text
    BY NoElements, Zenon DEF Text
  <2>3. text' \in Text /\ pending' \in Text
    BY <1>1, <1>4, <2>1, <2>2
  <2>4. text' \o pending' = text \o taken
    <3>1. (text \o taken) \o none = text \o taken
      BY <2>1, <2>2, ConcatEmptySeq DEF Text
    <3>2. CASE advances
      BY <1>1, <2>2, <3>1, <3>2
    <3>3. CASE ~advances
      BY <1>1, <3>3
    <3>4. QED
      BY <3>2, <3>3
  <2>5. text \o Append(pending, entry) = Append(text \o pending, entry)
    BY <1>3, <1>4, AppendToConcat DEF Text
  <2>6. QED
    BY <1>6, <2>3, <2>4, <2>5
<1>8. version' \in Nat
  BY <1>1, <1>4
<1>9. faults' \in 0 .. MaxFaults
  <2>1. Cardinality(failed) \in Nat
    <3>1. IsFiniteSet(Allocations)
      <4>1. /\ IsFiniteSet({"command"} \cup {"entry"})
            /\ IsFiniteSet({"version"} \cup {"payload"})
        BY FS_Singleton, FS_Union
      <4>2. IsFiniteSet(({"command"} \cup {"entry"}) \cup ({"version"} \cup {"payload"}))
        BY <4>1, FS_Union
      <4>3. Allocations = ({"command"} \cup {"entry"}) \cup ({"version"} \cup {"payload"})
        BY DEF Allocations
      <4>4. QED
        BY <4>2, <4>3
    <3>2. QED
      BY <1>0, <3>1, FS_Subset, FS_CardinalityType
  <2>2. QED
    BY <1>1, <2>1, FaultsAssumption DEF FaultyTypeOK
<1>10. drifted \subseteq drifted' /\ drifted' \subseteq Clients
  BY <1>1 DEF FaultyTypeOK
<1>11. ASSUME NEW d \in Clients, InRegistry(d), d \notin drifted'
       PROVE  text' \o pending' = IF logged THEN Apply(text \o pending, entry)
                                            ELSE text \o pending
  <2>1. ~untold
    BY <1>1, <1>11
  <2>2. call.executed => "command" \notin failed /\ logged
    BY <1>6, <2>1
  <2>3. logged => (call.executed <=> entry.result = "SUCCESS")
    BY <1>2, <1>3, <2>2
  <2>4. QED
    BY <1>2, <1>7, <2>2, <2>3 DEF Apply
<1>12. \/ /\ pc' = [pc EXCEPT ![c] = "read"]
          /\ lock' = NoClient
          /\ log' = entries
          /\ UNCHANGED <<payload, cursor>>
       \/ /\ pc' = [pc EXCEPT ![c] = "broadcast"]
          /\ UNCHANGED lock
          /\ log' = <<>>
          /\ payload' \in Payload
          /\ payload'.edits = entries
          /\ cursor' = 1
  <2>1. CASE "payload" \in failed
    BY <1>1, <2>1 DEF LogAfter, Goto
  <2>2. CASE "payload" \notin failed
    <3>1. payload' \in Payload /\ payload'.edits = entries
      <4>1. PICK v \in Nat : v = version'
        BY <1>8
      <4>2. payload' = [kind |-> "payload", version |-> v, edits |-> entries]
        BY <1>1, <2>2, <4>1
      <4>3. QED
        BY <1>5, <4>2 DEF Payload
    <3>2. QED
      BY <1>1, <2>2, <3>1 DEF LogAfter, Goto
  <2>3. QED
    BY <2>1, <2>2
<1> HIDE DEF logged
<1>13. CommitOf(c, entry, entries, logged)
  BY <1>1, <1>5, <1>10, <1>11, <1>12 DEF CommitOf
<1>14. QED
  BY <1>3, <1>5, <1>6, <1>7, <1>8, <1>9, <1>10, <1>13 DEF Text

\* A submission and commit, whichever of its allocations fail.
LEMMA CommitKeeps ==
  ASSUME FaultyIndInv, NEW c \in Clients, SubmitAndCommit(c)
  PROVE  FaultyIndInv'
<1> USE DEF FaultyIndInv
<1>1. /\ version' \in Nat /\ text' \in Text /\ pending' \in Seq(Entry)
      /\ faults' \in 0 .. MaxFaults /\ drifted' \subseteq Clients
  BY CommitFacts
<1>2. PICK entry \in Entry, entries \in Seq(Entry), logged \in BOOLEAN :
        CommitOf(c, entry, entries, logged)
  BY CommitFacts
<1>3. /\ At(c, "commit")
      /\ UNCHANGED <<serverUp, cmd, registry, history, c2s, s2c, processVars, shown>>
  BY DEF SubmitAndCommit
<1>4. PICK label \in {"read", "broadcast"} :
        /\ pc' = [pc EXCEPT ![c] = label]
        /\ lock' = IF label = "read" THEN NoClient ELSE lock
  BY <1>2 DEF CommitOf
<1>5. /\ pc[c] = "commit" /\ lock = c /\ pc \in [Clients -> Labels] /\ pc'[c] = label
      /\ \A d \in Clients \ {c} : pc'[d] = pc[d]
  BY <1>3, <1>4 DEF At, MutexHeld, FaultyTypeOK, TypeOK
<1>6. log' \in Seq(Entry) /\ payload' \in Payload \cup {NoPayload} /\ cursor' \in Nat
  <2>1. log \in Seq(Entry) /\ payload \in Payload \cup {NoPayload} /\ cursor \in Nat
    BY DEF FaultyTypeOK, TypeOK
  <2>2. PICK none : none = <<>> /\ none \in Seq(Entry)
    BY NoElements, Zenon
  <2>3. \/ log' = entries /\ payload' = payload /\ cursor' = cursor
        \/ log' = none /\ payload' \in Payload /\ cursor' = 1
    BY <1>2, <2>2 DEF CommitOf
  <2>4. log' \in Seq(Entry) /\ payload' \in Payload \cup {NoPayload}
    BY <2>1, <2>2, <2>3, Zenon
  <2>5. cursor' \in Nat
    BY <2>1, <2>3
  <2>6. QED
    BY <2>4, <2>5
<1>7. owed' \in [Clients -> Seq(Entry)]
  <2>1. owed' = [d \in Clients |-> IF InRegistry(d) /\ logged THEN Append(owed[d], entry)
                                                              ELSE owed[d]]
    BY <1>2 DEF CommitOf
  <2>2. \A d \in Clients : owed[d] \in Seq(Entry) /\ Append(owed[d], entry) \in Seq(Entry)
    BY DEF FaultyTypeOK
  <2>3. QED
    BY <2>1, <2>2
<1>8. FaultyTypeOK'
  <2>1. pc' \in [Clients -> Labels] /\ lock' \in Clients \cup {NoClient}
    BY <1>4, <1>5 DEF Labels
  <2>2. TypeOK'
    BY <1>1, <1>3, <1>6, <2>1 DEF FaultyTypeOK, TypeOK, processVars
  <2>3. QED
    BY <1>1, <1>3, <1>6, <1>7, <2>2 DEF FaultyTypeOK
<1>9. MutexHeld'
  BY <1>4, <1>5, NoClientAssumption DEF MutexHeld
<1>10. RegistrySound'
  BY <1>3, <1>4, <1>5, RegistryKept DEF Registered, FaultyTypeOK
<1>11. Started'
  BY <1>3, <1>5 DEF Started, processVars
<1>12. KindsSound'
  <2>1. TypeOK /\ UNCHANGED <<client, s2c, inbuf>>
    BY <1>3 DEF FaultyTypeOK, processVars
  <2>2. label \notin Before /\ pc[c] \in After
    BY <1>5 DEF Before, After, Registered
  <2>3. QED
    BY <1>4, <2>1, <2>2, KindsMove
<1>13. Broadcasting'
  <2>1. \A d \in Clients \ {c} : pc'[d] # "broadcast"
    BY <1>5, NoClientAssumption DEF MutexHeld
  <2>2. label = "broadcast" => payload' \in Payload /\ cursor' = 1 /\ log' = <<>>
    BY <1>2, <1>5 DEF CommitOf
  <2>3. Len(registry) \in Nat
    BY DEF FaultyTypeOK, TypeOK
  <2>4. QED
    BY <1>3, <1>5, <2>1, <2>2, <2>3 DEF Broadcasting
<1>14. QED
  BY <1>8, <1>9, <1>10, <1>11, <1>12, <1>13

LEMMA WithoutLastType ==
  ASSUME NEW edits \in Seq(Entry), NEW n \in Nat
  PROVE  WithoutLast(edits, n) \in Seq(Entry)
<1>1. PICK m : m = Len(edits) - n /\ m \in Int /\ m <= Len(edits)
  BY LenProperties
<1>2. SubSeq(edits, 1, m) \in Seq(Entry)
  BY <1>1
<1>3. QED
  BY <1>1, <1>2 DEF WithoutLast

LEMMA WithoutTheLast ==
  ASSUME NEW told \in Seq(Entry), NEW edits \in Seq(Entry)
  PROVE  WithoutLast(told \o edits, Len(edits)) = told
<1>1. PICK both : both = told \o edits /\ both \in Seq(Entry) /\ Len(both) = Len(told) + Len(edits)
  <2>1. told \o edits \in Seq(Entry) /\ Len(told \o edits) = Len(told) + Len(edits)
    BY ConcatProperties
  <2>2. QED
    BY <2>1, Zenon
<1>2. PICK n \in Nat : n = Len(told)
  BY LenProperties
<1>3. Len(both) - Len(edits) = n /\ n <= Len(both)
  BY <1>1, <1>2, LenProperties
<1>4. SubSeq(both, 1, n) = told
  <2>1. \A i \in 1 .. n : both[i] = told[i]
    BY <1>1, <1>2, ConcatProperties
  <2>2. SubSeq(both, 1, n) \in Seq(Entry) /\ Len(SubSeq(both, 1, n)) = n
        /\ \A i \in 1 .. n : SubSeq(both, 1, n)[i] = both[i]
    BY <1>1, <1>3
  <2>3. QED
    BY <1>2, <2>1, <2>2, SeqEqual
<1>5. QED
  BY <1>1, <1>3, <1>4, Zenon DEF WithoutLast

\* A failed call moves its thread, and frees the mutex if the thread held it.
LEMMA FaultMoves ==
  ASSUME TypeOK, NEW c \in Clients, FaultOf(c), ~LookupFails(c)
  PROVE  /\ \E label \in {"done", "leave", "read"} :
              /\ pc' = [pc EXCEPT ![c] = label]
              /\ label = "done" => pc[c] \in {"auth", "greet", "register"}
              /\ label # "done" => pc[c] \in {"read", "broadcast"}
              /\ lock' = IF pc[c] \in {"auth", "read"} THEN lock ELSE NoClient
         /\ UNCHANGED <<serverUp, cmd, registry, coreVars, c2s, s2c, processVars>>
<1>1. CASE InterruptUsername(c)
  BY <1>1 DEF InterruptUsername, At, Goto
<1>2. CASE GreetFails(c)
  BY <1>2 DEF GreetFails, At, Goto
<1>3. CASE RegisterFails(c)
  BY <1>3 DEF RegisterFails, At, Goto
<1>4. CASE InterruptRead(c)
  BY <1>4 DEF InterruptRead, At, Goto
<1>5. CASE InterruptBroadcast(c)
  BY <1>5 DEF InterruptBroadcast, BroadcastBlocked, At, Goto
<1>6. QED
  BY <1>1, <1>2, <1>3, <1>4, <1>5 DEF FaultOf

LEMMA FaultStep ==
  ASSUME FaultyIndInv, NEW c \in Clients, FaultOf(c)
  PROVE  FaultyIndInv'
<1> USE DEF FaultyIndInv
<1>1. TypeOK
  BY DEF FaultyTypeOK
<1>2. /\ faults' \in 0 .. MaxFaults /\ log' \in Seq(Entry) /\ pending' \in Seq(Entry)
      /\ shown' \in [Clients -> Seq(Entry)] /\ owed' \in [Clients -> Seq(Entry)]
      /\ drifted' \subseteq Clients /\ UNCHANGED log
  <2>1. faults < MaxFaults /\ faults' = faults + 1 /\ UNCHANGED <<log, pending, shown>>
    BY DEF FaultOf, InterruptUsername, LookupFails, GreetFails, RegisterFails, InterruptRead,
           InterruptBroadcast, Fault, recordVars
  <2>2. faults' \in 0 .. MaxFaults
    BY <2>1, FaultsAssumption DEF FaultyTypeOK
  <2>3. owed' \in [Clients -> Seq(Entry)] /\ drifted' \subseteq Clients
    <3>1. CASE InterruptBroadcast(c)
      <4>1. payload \in Payload
        BY <3>1 DEF InterruptBroadcast, BroadcastBlocked, At, Broadcasting
      <4>2. PICK n \in Nat : n = Len(payload.edits)
        BY <4>1 DEF Payload
      <4>3. \A d \in Clients : WithoutLast(owed[d], n) \in Seq(Entry)
        BY WithoutLastType DEF FaultyTypeOK
      <4>4. owed' = [d \in Clients |-> IF Ahead(d) THEN WithoutLast(owed[d], n) ELSE owed[d]]
        BY <3>1, <4>2 DEF InterruptBroadcast
      <4>5. owed' \in [Clients -> Seq(Entry)]
        BY <4>3, <4>4 DEF FaultyTypeOK
      <4>6. drifted' \subseteq Clients
        BY <3>1 DEF InterruptBroadcast, FaultyTypeOK
      <4>7. QED
        BY <4>5, <4>6
    <3>2. CASE ~InterruptBroadcast(c)
      BY <3>2 DEF FaultOf, InterruptUsername, LookupFails, GreetFails, RegisterFails,
                  InterruptRead, FaultyTypeOK, recordVars
    <3>3. QED
      BY <3>1, <3>2
  <2>4. QED
    BY <2>1, <2>2, <2>3 DEF FaultyTypeOK
<1>3. CASE LookupFails(c)
  <2>1. CASE BrokenPipe(c)
    <3>1. UNCHANGED <<pc, lock, registry, payload, cursor, client>>
      BY <2>1 DEF BrokenPipe, threadVars, coreVars, processVars
    <3>2. TypeOK'
      BY <1>1, <2>1, BrokenPipeType
    <3>3. MutexHeld' /\ RegistrySound' /\ Started' /\ Broadcasting'
      BY <1>2, <3>1 DEF MutexHeld, RegistrySound, InRegistry, Started, Broadcasting
    <3>4. KindsSound'
      BY <2>1, KindsBrokenPipe
    <3>5. QED
      BY <1>2, <3>2, <3>3, <3>4 DEF FaultyTypeOK
  <2>2. CASE /\ Send(c, Reject) /\ Goto(c, "done")
             /\ UNCHANGED <<serverUp, lock, cmd, registry, coreVars, c2s, processVars>>
    <3>1. /\ pc[c] = "auth" /\ pc' = [pc EXCEPT ![c] = "done"]
          /\ UNCHANGED <<lock, registry, payload, cursor, client>>
      BY <1>3, <2>2 DEF LookupFails, At, Goto, coreVars, processVars
    <3>2. TypeOK'
      <4>1. s2c' \in [Clients -> Seq(Message)]
        BY <1>1, <2>2, SendType DEF Message
      <4>2. QED
        BY <1>1, <2>2, <3>1, <4>1 DEF TypeOK, Labels, coreVars, processVars
    <3>3. /\ \A d \in Clients \ {c} : pc'[d] = pc[d]
          /\ pc'[c] = "done"
      BY <1>1, <3>1 DEF TypeOK
    <3>4. MutexHeld' /\ Started' /\ Broadcasting'
      BY <1>2, <3>1, <3>3 DEF MutexHeld, Started, Broadcasting
    <3>5. RegistrySound'
      BY <1>1, <3>1, RegistryKept DEF Registered
    <3>6. KindsSound'
      <4>1. /\ Reject \in Message /\ pc[c] \in Before /\ "done" \notin Before \cup After
            /\ UNCHANGED processVars
        BY <2>2, <3>1 DEF Message, Before, After, Registered
      <4>2. QED
        BY <1>1, <2>2, <3>1, <4>1, KindsFirst
    <3>7. QED
      BY <1>2, <3>2, <3>4, <3>5, <3>6 DEF FaultyTypeOK
  <2>3. QED
    BY <1>3, <2>1, <2>2 DEF LookupFails
<1>4. CASE ~LookupFails(c)
  <2>1. PICK label \in {"done", "leave", "read"} :
          /\ pc' = [pc EXCEPT ![c] = label]
          /\ label = "done" => pc[c] \in {"auth", "greet", "register"}
          /\ label # "done" => pc[c] \in {"read", "broadcast"}
          /\ lock' = IF pc[c] \in {"auth", "read"} THEN lock ELSE NoClient
    BY <1>1, <1>4, FaultMoves
  <2>2. UNCHANGED <<serverUp, cmd, registry, coreVars, c2s, s2c, processVars>>
    BY <1>1, <1>4, FaultMoves
  <2>3. TypeOK'
    BY <1>1, <2>1, <2>2 DEF TypeOK, Labels, coreVars, processVars
  <2>4. MutexHeld'
    BY <1>1, <2>1, NoClientAssumption DEF MutexHeld, TypeOK
  <2>5. RegistrySound'
    BY <1>1, <2>1, <2>2, RegistryKept DEF Registered
  <2>6. Started'
    BY <1>1, <2>1, <2>2 DEF Started, TypeOK, processVars
  <2>7. KindsSound'
    BY <1>1, <2>1, <2>2, KindsMove DEF Before, After, Registered, processVars
  <2>8. Broadcasting'
    <3>1. \A d \in Clients : pc'[d] = "broadcast" => pc[d] = "broadcast"
      BY <1>1, <2>1 DEF TypeOK
    <3>2. QED
      BY <1>2, <2>2, <3>1 DEF Broadcasting, coreVars
  <2>9. QED
    BY <1>2, <2>3, <2>4, <2>5, <2>6, <2>7, <2>8 DEF FaultyTypeOK
<1>5. QED
  BY <1>3, <1>4

LEMMA InitFaultyIndInv == FaultyInit => FaultyIndInv
<1> SUFFICES ASSUME FaultyInit PROVE FaultyIndInv
  OBVIOUS
<1>1. Init /\ IndInv
  BY InitIndInv DEF FaultyInit
<1>2. \A c \in Clients : pc[c] = "none" /\ client[c] = "absent" /\ inbuf[c] = <<>>
                         /\ s2c[c] = <<>>
  BY <1>1 DEF Init
<1>3. Started /\ Broadcasting
  BY <1>2 DEF Started, Broadcasting
<1>4. KindsSound
  BY <1>2 DEF KindsSound, KindsOf, Before, Open
<1>5. FaultyTypeOK
  <2>1. PICK none : none = <<>> /\ none \in Seq(Entry)
    BY NoElements, Zenon
  <2>2. TypeOK /\ 0 \in 0 .. MaxFaults
    BY <1>1, FaultsAssumption DEF IndInv
  <2>3. QED
    BY <2>1, <2>2 DEF FaultyInit, FaultyTypeOK
<1>6. QED
  BY <1>1, <1>3, <1>4, <1>5 DEF FaultyIndInv, IndInv

LEMMA StepFaultyIndInv ==
  ASSUME FaultyIndInv, [FaultyNext]_<<vars, faultVars>>
  PROVE  FaultyIndInv'
<1>1. CASE UNCHANGED <<vars, faultVars>>
  <2>1. UNCHANGED <<serverUp, lock, pc, cmd, registry, version, text, payload, cursor, c2s,
                    s2c, inbuf, client, selected, input, typed, view, history, faults, log,
                    pending, owed, shown, drifted>>
    BY <1>1 DEF vars, coreVars, threadVars, processVars, faultVars, recordVars
  <2>2. FaultyTypeOK' /\ MutexHeld' /\ Started'
    BY <2>1 DEF FaultyIndInv, FaultyTypeOK, TypeOK, MutexHeld, Started
  <2>3. RegistrySound' /\ Broadcasting'
    BY <2>1 DEF FaultyIndInv, RegistrySound, InRegistry, Broadcasting
  <2>4. KindsSound'
    BY <2>1 DEF FaultyIndInv, KindsSound, KindsOf, Open, Incoming
  <2>5. QED
    BY <2>1, <2>2, <2>3, <2>4 DEF FaultyIndInv
<1>2. ASSUME NEW c \in Clients, FaultyThread(c) PROVE FaultyIndInv'
  BY <1>2, SessionStep, CommitKeeps DEF FaultyThread
<1>3. ASSUME NEW c \in Clients, FaultyProcess(c) \/ (User(c) /\ UNCHANGED faultVars)
      PROVE  FaultyIndInv'
  BY <1>3, ProcessStep DEF FaultyProcess
<1>4. ASSUME NEW c \in Clients, FaultOf(c) PROVE FaultyIndInv'
  BY <1>4, FaultStep
<1>5. QED
  BY <1>1, <1>2, <1>3, <1>4 DEF FaultyNext

-------------------------------------------------------------------------------
(* What a client has been told, and what it makes of it *)

\* The edits a client has read or finds in its FIFO, and those it is still to be sent.
Told(c) == shown[c] \o Edits(Incoming(c))
Rest(c) == Outstanding(c) \o log

\* The text it has once it has read everything in its FIFO.
Known(c) == Play(TextHeld(c), Edits(Incoming(c)))

\* A client has been told nothing before it gets its document.  From then on it has been
\* told what it is owed, but for the rest, and the rest takes it to the text of the server.
\* Once its thread is gone some of it stays untold.
AccountOf(c) ==
    /\ client[c] = "absent" \/ pc[c] \in Before => shown[c] = <<>>
    /\ Connected(c) /\ pc[c] \in After =>
         /\ Told(c) \o Rest(c) = owed[c]
         /\ c \notin drifted => Play(Known(c), Rest(c)) = text \o pending
    /\ Connected(c) /\ pc[c] = "done" => \E rest \in Seq(Entry) : Told(c) \o rest = owed[c]

AccountsSound == \A c \in Clients : AccountOf(c)

LEMMA AccountTypes ==
  ASSUME NEW c \in Clients, FaultyIndInv
  PROVE  /\ Incoming(c) \in Seq(Message) /\ Edits(Incoming(c)) \in Seq(Entry)
         /\ shown[c] \in Seq(Entry) /\ owed[c] \in Seq(Entry) /\ log \in Seq(Entry)
         /\ Told(c) \in Seq(Entry) /\ Outstanding(c) \in Seq(Entry) /\ Rest(c) \in Seq(Entry)
         /\ text \o pending \in Text
         /\ Connected(c) /\ pc[c] \in After => TextHeld(c) \in Text /\ Known(c) \in Text
<1> USE DEF FaultyIndInv
<1>1. TypeOK
  BY DEF FaultyTypeOK
<1>2. PICK messages \in Seq(Message) : messages = Incoming(c)
  BY <1>1, IncomingType
<1>3. Edits(messages) \in Seq(Entry)
  BY EditsType
<1>4. shown[c] \in Seq(Entry) /\ owed[c] \in Seq(Entry) /\ log \in Seq(Entry)
  BY DEF FaultyTypeOK
<1>5. Told(c) \in Seq(Entry)
  BY <1>2, <1>3, <1>4, ConcatProperties DEF Told
<1>6. Outstanding(c) \in Seq(Entry)
  <2>1. CASE Awaiting(c)
    <3>1. payload \in Payload
      BY <2>1 DEF Awaiting, Broadcasting
    <3>2. QED
      BY <2>1, <3>1 DEF Outstanding, Payload
  <2>2. CASE ~Awaiting(c)
    <3>1. PICK none : none = <<>> /\ none \in Seq(Entry)
      BY NoElements, Zenon
    <3>2. QED
      BY <2>2, <3>1 DEF Outstanding
  <2>3. QED
    BY <2>1, <2>2
<1>7. Rest(c) \in Seq(Entry)
  BY <1>4, <1>6, ConcatProperties DEF Rest
<1>8. text \o pending \in Text
  BY <1>1, ConcatProperties DEF FaultyTypeOK, TypeOK, Text
<1>9. ASSUME Connected(c), pc[c] \in After
      PROVE  TextHeld(c) \in Text /\ Known(c) \in Text
  <2>1. TextHeld(c) \in Text
    <3>1. CASE client[c] = "greeting"
      <4>1. s2c[c] \in Seq(Message) /\ s2c[c] # <<>> /\ s2c[c][1] \in Snapshot
        BY <1>1, <1>9, <3>1 DEF KindsSound, KindsOf, TypeOK
      <4>2. Head(s2c[c]) \in Snapshot
        BY <4>1
      <4>3. QED
        BY <3>1, <4>2 DEF TextHeld, Snapshot
    <3>2. CASE client[c] # "greeting"
      BY <1>1, <3>2 DEF TextHeld, TypeOK
    <3>3. QED
      BY <3>1, <3>2
  <2>2. PICK txt \in Text, edits \in Seq(Entry) : txt = TextHeld(c) /\ edits = Edits(messages)
    BY <1>3, <2>1
  <2>3. Play(txt, edits) \in Text
    BY PlayType
  <2>4. QED
    BY <1>2, <2>1, <2>2, <2>3 DEF Known
<1>10. QED
  BY <1>2, <1>3, <1>4, <1>5, <1>6, <1>7, <1>8, <1>9

\* Nothing is being broadcast: the rest is in the log.
LEMMA RestQuiet ==
  ASSUME NEW c \in Clients, log \in Seq(Entry), \A e \in Clients : pc[e] # "broadcast"
  PROVE  Rest(c) = log
<1>1. Outstanding(c) = <<>>
  BY DEF Outstanding, Awaiting
<1>2. QED
  BY <1>1, ConcatEmptySeq DEF Rest

\* The broadcast under way, if there is one, has come as far as before.
LEMMA RestKept ==
  ASSUME NEW c \in Clients, UNCHANGED <<registry, cursor, payload, log>>,
         \A e \in Clients : pc'[e] = "broadcast" <=> pc[e] = "broadcast"
  PROVE  Rest(c)' = Rest(c)
<1>1. Awaiting(c)' <=> Awaiting(c)
  BY DEF Awaiting
<1>2. QED
  BY <1>1 DEF Rest, Outstanding

\* A client, its FIFO and what it has shown are left alone.
LEMMA ToldKept ==
  ASSUME NEW c \in Clients, client'[c] = client[c], s2c'[c] = s2c[c], inbuf'[c] = inbuf[c],
         view'[c] = view[c], shown'[c] = shown[c]
  PROVE  Told(c)' = Told(c) /\ Known(c)' = Known(c) /\ (Connected(c)' <=> Connected(c))
<1>1. Incoming(c)' = Incoming(c) /\ TextHeld(c)' = TextHeld(c)
  BY DEF Incoming, TextHeld
<1>2. QED
  BY <1>1 DEF Told, Known, Connected

\* Nothing is read, sent or committed.
LEMMA AccountKept ==
  ASSUME NEW c \in Clients, FaultyIndInv, AccountOf(c), drifted \subseteq drifted',
         client'[c] = "absent" => client[c] = "absent" /\ shown'[c] = shown[c],
         pc'[c] \in Before =>
           (pc[c] \in Before \/ client[c] = "absent") /\ shown'[c] = shown[c],
         Connected(c)' /\ pc'[c] \in After \cup {"done"} =>
           Connected(c) /\ Told(c)' = Told(c) /\ owed'[c] = owed[c],
         Connected(c)' /\ pc'[c] \in After =>
           /\ pc[c] \in After /\ Rest(c)' = Rest(c) /\ Known(c)' = Known(c)
           /\ text' \o pending' = text \o pending,
         pc'[c] = "done" => pc[c] # "none"
  PROVE  AccountOf(c)'
<1>1. ASSUME Connected(c)', pc'[c] = "done"
      PROVE  \E rest \in Seq(Entry) : Told(c)' \o rest = owed'[c]
  <2>1. /\ Connected(c) /\ Told(c)' = Told(c) /\ owed'[c] = owed[c]
        /\ pc[c] \in Before \cup After \cup {"done"}
    BY <1>1 DEF FaultyIndInv, FaultyTypeOK, TypeOK, Labels, Before, After, Registered
  <2>2. CASE pc[c] \in After
    BY <2>1, <2>2, AccountTypes DEF AccountOf
  <2>3. CASE pc[c] \in Before
    <3>1. PICK none : /\ none = <<>> /\ none \in Seq(Entry) /\ none \in Seq(Message)
                      /\ \A s \in Seq(Entry) : none \o s = s
      <4>1. PICK none : none = <<>> /\ none \in Seq(Entry) /\ none \in Seq(Message)
        BY NoElements, Zenon
      <4>2. \A s \in Seq(Entry) : none \o s = s
        BY <4>1, ConcatEmptySeq
      <4>3. QED
        BY <4>1, <4>2
    <3>2. s2c[c] = none /\ inbuf[c] = none /\ shown[c] = none
      BY <2>1, <2>3, <3>1 DEF FaultyIndInv, KindsSound, KindsOf, AccountOf, Connected
    <3>3. none \o none = none
      BY <3>1
    <3>4. Edits(none) = none
      BY <3>1, EditsNone
    <3>5. Told(c) = none
      BY <3>2, <3>3, <3>4 DEF Told, Incoming
    <3>6. owed[c] \in Seq(Entry)
      BY AccountTypes
    <3>7. QED
      BY <2>1, <3>1, <3>5, <3>6
  <2>4. CASE pc[c] = "done"
    BY <2>1, <2>4 DEF AccountOf
  <2>5. QED
    BY <2>1, <2>2, <2>3, <2>4
<1>2. ASSUME Connected(c)', pc'[c] \in After
      PROVE  /\ Told(c)' \o Rest(c)' = owed'[c]
             /\ c \notin drifted' => Play(Known(c)', Rest(c)') = text' \o pending'
  BY <1>2 DEF AccountOf
<1>3. client'[c] = "absent" \/ pc'[c] \in Before => shown'[c] = <<>>
  BY DEF AccountOf
<1>4. QED
  BY <1>1, <1>2, <1>3 DEF AccountOf

\* The thread of c moves and writes nothing.
LEMMA AccountsMove ==
  ASSUME NEW c \in Clients, NEW label \in Labels \ {"none"}, FaultyIndInv, AccountsSound,
         pc' = [pc EXCEPT ![c] = label], pc[c] # "none",
         UNCHANGED <<client, s2c, inbuf, view, shown, owed, text, pending, drifted>>,
         label \in Before => pc[c] \in Before, label \in After => pc[c] \in After,
         \A d \in Clients : Rest(d)' = Rest(d)
  PROVE  AccountsSound'
<1>1. ASSUME NEW d \in Clients
      PROVE  AccountOf(d)'
  <2>1. /\ AccountOf(d) /\ Told(d)' = Told(d) /\ Known(d)' = Known(d)
        /\ Connected(d)' <=> Connected(d)
    BY ToldKept DEF AccountsSound
  <2>2. /\ pc'[d] \in Before => pc[d] \in Before
        /\ pc'[d] \in After => pc[d] \in After
        /\ pc'[d] = "done" => pc[d] # "none"
    BY DEF FaultyIndInv, FaultyTypeOK, TypeOK
  <2>3. QED
    BY <2>1, <2>2, AccountKept
<1>2. QED
  BY <1>1 DEF AccountsSound

\* Nothing happens to a client, or to what it is to be sent.
LEMMA AccountQuiet ==
  ASSUME NEW d \in Clients, FaultyIndInv, AccountsSound,
         client'[d] = client[d], s2c'[d] = s2c[d], inbuf'[d] = inbuf[d], view'[d] = view[d],
         shown'[d] = shown[d], owed'[d] = owed[d], pc'[d] = pc[d], drifted \subseteq drifted',
         text' \o pending' = text \o pending, Rest(d)' = Rest(d)
  PROVE  AccountOf(d)'
<1>1. /\ AccountOf(d) /\ Told(d)' = Told(d) /\ Known(d)' = Known(d)
      /\ Connected(d)' <=> Connected(d)
  BY ToldKept DEF AccountsSound
<1>2. QED
  BY <1>1, AccountKept

LEMMA AccountsStutter ==
  ASSUME FaultyIndInv, AccountsSound,
         UNCHANGED <<pc, registry, cursor, payload, client, s2c, inbuf, view, text>>,
         UNCHANGED <<log, pending, owed, shown, drifted>>
  PROVE  AccountsSound'
<1>1. ASSUME NEW d \in Clients
      PROVE  AccountOf(d)'
  BY AccountQuiet, RestKept
<1>2. QED
  BY <1>1 DEF AccountsSound

-------------------------------------------------------------------------------
(* Steps of the server threads *)

\* A rejection tells a client nothing, and it is the last thing it is sent.
LEMMA AccountsRejected ==
  ASSUME NEW c \in Clients, FaultyIndInv, AccountsSound, pc[c] = "auth", Send(c, Reject),
         pc' = [pc EXCEPT ![c] = "done"],
         UNCHANGED <<registry, coreVars, processVars, recordVars>>
  PROVE  AccountsSound'
<1>1. TypeOK /\ Reject \in Message /\ Incoming(c) \in Seq(Message)
  BY AccountTypes DEF FaultyIndInv, FaultyTypeOK, Message
<1>2. /\ Incoming(c)' = Append(Incoming(c), Reject)
      /\ \A d \in Clients \ {c} : s2c'[d] = s2c[d] /\ pc'[d] = pc[d]
  BY <1>1, SendIncoming DEF processVars, TypeOK
<1>3. \A e \in Clients : pc'[e] = "broadcast" <=> pc[e] = "broadcast"
  BY <1>1 DEF TypeOK
<1>4. \A d \in Clients : Rest(d)' = Rest(d)
  BY <1>3, RestKept DEF coreVars, recordVars
<1>5. AccountOf(c)'
  <2>1. Edits(Append(Incoming(c), Reject)) = Bring(Edits(Incoming(c)), Reject)
    BY <1>1, EditsNext
  <2>2. Bring(Edits(Incoming(c)), Reject) = Edits(Incoming(c))
    BY DEF Bring, Reject
  <2>3. Told(c)' = Told(c)
    BY <1>2, <2>1, <2>2 DEF Told, recordVars
  <2>4. /\ pc'[c] = "done" /\ client'[c] = client[c] /\ AccountOf(c)
        /\ Connected(c)' <=> Connected(c)
    BY <1>1 DEF processVars, TypeOK, AccountsSound, Connected
  <2>5. "done" \notin Before \cup After
    BY DEF Before, After, Registered
  <2>6. QED
    BY <2>3, <2>4, <2>5, AccountKept DEF recordVars
<1>6. ASSUME NEW d \in Clients \ {c}
      PROVE  AccountOf(d)'
  BY <1>2, <1>4, AccountQuiet DEF processVars, recordVars, coreVars
<1>7. QED
  BY <1>5, <1>6 DEF AccountsSound

\* The document is the first thing a client is sent; the log is what it is owed.
LEMMA AccountsGreet ==
  ASSUME NEW c \in Clients, FaultyIndInv, AccountsSound, GreetAndRecord(c)
  PROVE  AccountsSound'
<1> DEFINE document == [kind |-> "snapshot", version |-> version, text |-> text]
<1>1. TypeOK /\ document \in Message /\ pc[c] = "greet" /\ KindsOf(c)
  BY DEF FaultyIndInv, FaultyTypeOK, TypeOK, Message, Snapshot, GreetAndRecord, Greet, At,
         KindsSound
<1>2. \A e \in Clients : pc[e] # "broadcast"
  BY <1>1 DEF FaultyIndInv, MutexHeld
<1>3. /\ owed' = [owed EXCEPT ![c] = log] /\ UNCHANGED <<log, pending, shown>>
      /\ drifted' = IF Play(text, log) = text \o pending THEN drifted ELSE drifted \cup {c}
  BY DEF GreetAndRecord
<1>4. /\ UNCHANGED <<registry, coreVars, processVars>>
      /\ \A d \in Clients \ {c} : s2c'[d] = s2c[d] /\ pc'[d] = pc[d]
      /\ \A e \in Clients : pc'[e] # "broadcast"
  BY <1>1, <1>2 DEF GreetAndRecord, Greet, Send, BrokenPipe, Goto, TypeOK, threadVars
<1>5. \A d \in Clients : Rest(d)' = Rest(d)
  BY <1>2, <1>3, <1>4, RestKept DEF coreVars
<1>6. ASSUME NEW d \in Clients \ {c}
      PROVE  AccountOf(d)'
  <2>1. owed'[d] = owed[d] /\ drifted \subseteq drifted'
    BY <1>3 DEF FaultyIndInv, FaultyTypeOK
  <2>2. QED
    BY <1>3, <1>4, <1>5, <2>1, AccountQuiet DEF processVars, coreVars
<1>7. AccountOf(c)'
  <2>1. CASE BrokenPipe(c)
    <3>1. /\ client'[c] = "closed" /\ pc'[c] = pc[c] /\ client[c] = "closed"
      BY <2>1 DEF BrokenPipe, processVars, threadVars
    <3>2. AccountOf(c) /\ ~Connected(c)'
      BY <3>1 DEF AccountsSound, Connected
    <3>3. QED
      BY <1>3, <3>1, <3>2 DEF AccountOf
  <2>2. CASE Send(c, document) /\ Goto(c, "register")
    <3>1. /\ client[c] = "greeting" /\ s2c[c] = <<>> /\ inbuf[c] = <<>> /\ shown[c] = <<>>
      BY <1>1, <2>2 DEF Send, KindsOf, Before, AccountsSound, AccountOf
    <3>2. PICK none : none = <<>> /\ none \in Seq(Entry) /\ none \in Seq(Message)
      BY NoElements, Zenon
    <3>3. PICK message \in Message : message = document
      BY <1>1
    <3>4. Incoming(c)' = Append(none, message)
      <4>1. Incoming(c)' = Append(Incoming(c), message)
        BY <1>1, <1>4, <2>2, <3>3, SendIncoming DEF processVars
      <4>2. Incoming(c) = none
        <5>1. none \o none = none
          BY <3>2, ConcatEmptySeq
        <5>2. QED
          BY <3>1, <3>2, <5>1 DEF Incoming
      <4>3. QED
        BY <4>1, <4>2
    <3>5. Edits(Append(none, message)) = none
      <4>1. Edits(Append(none, message)) = Bring(Edits(none), message)
        BY <3>2, EditsNext
      <4>2. Edits(none) = none
        BY <3>2, EditsNone
      <4>3. message.kind # "payload"
        BY <3>3
      <4>4. QED
        BY <4>1, <4>2, <4>3 DEF Bring
    <3>6. Told(c)' = none /\ none \o log = log /\ log \in Seq(Entry)
      <4>1. none \o none = none /\ none \o log = log /\ log \in Seq(Entry)
        BY <3>2, ConcatEmptySeq DEF FaultyIndInv, FaultyTypeOK
      <4>2. shown'[c] = none
        BY <1>3, <3>1, <3>2
      <4>3. QED
        BY <3>4, <3>5, <4>1, <4>2 DEF Told
    <3>7. Rest(c)' = log
      BY <1>2, <1>5, <3>6, RestQuiet
    <3>8. owed'[c] = log
      BY <1>3 DEF FaultyIndInv, FaultyTypeOK
    <3>9. Known(c)' = text
      <4>1. TextHeld(c)' = text
        <5>1. client'[c] = "greeting"
          BY <1>4, <3>1 DEF processVars
        <5>2. s2c'[c] = <<document>>
          BY <1>1, <2>2, <3>1 DEF Send, TypeOK
        <5>3. Head(<<document>>).text = text
          OBVIOUS
        <5>4. QED
          BY <5>1, <5>2, <5>3 DEF TextHeld
      <4>2. Play(text, none) = text
        BY <3>2, PlayNothing
      <4>3. QED
        BY <3>4, <3>5, <4>1, <4>2 DEF Known
    <3>10. text' = text /\ pending' = pending /\ pc'[c] = "register" /\ client'[c] = "greeting"
      BY <1>1, <1>3, <1>4, <2>2, <3>1 DEF Goto, TypeOK, coreVars, processVars
    <3>11. c \notin drifted' => Play(text, log) = text \o pending
      BY <1>3
    <3>12. QED
      BY <3>6, <3>7, <3>8, <3>9, <3>10, <3>11 DEF AccountOf, Before, After, Registered
  <2>3. QED
    BY <2>1, <2>2 DEF GreetAndRecord, Greet
<1>8. QED
  BY <1>6, <1>7 DEF AccountsSound

\* An entry of the log is the last thing every registered client is owed, and does to the
\* text they know what it does to the text of the server.
LEMMA AccountsCommit ==
  ASSUME NEW c \in Clients, FaultyIndInv, AccountsSound, SubmitAndCommit(c)
  PROVE  AccountsSound'
<1>1. PICK entry \in Entry, entries \in Seq(Entry), logged \in BOOLEAN :
        CommitOf(c, entry, entries, logged)
  BY CommitFacts DEF FaultyIndInv
<1>2. PICK label \in {"read", "broadcast"} :
        /\ pc' = [pc EXCEPT ![c] = label]
        /\ label = "read" => log' = entries
        /\ label = "broadcast" => log' = <<>> /\ payload'.edits = entries /\ cursor' = 1
  <2>1. CASE pc' = [pc EXCEPT ![c] = "read"] /\ log' = entries
    BY <2>1
  <2>2. CASE /\ pc' = [pc EXCEPT ![c] = "broadcast"]
             /\ log' = <<>> /\ payload'.edits = entries /\ cursor' = 1
    BY <2>2
  <2>3. QED
    BY <1>1, <2>1, <2>2 DEF CommitOf
<1>3. TypeOK /\ pc[c] = "commit" /\ UNCHANGED <<registry, s2c, processVars, shown>>
  BY DEF FaultyIndInv, FaultyTypeOK, SubmitAndCommit, At
<1>4. /\ \A e \in Clients : pc[e] # "broadcast" /\ pc[e] # "register"
      /\ \A d \in Clients : InRegistry(d) <=> pc[d] \in Registered
      /\ \A d \in Clients \ {c} : pc'[d] = pc[d]
      /\ pc'[c] = label
  BY <1>2, <1>3 DEF FaultyIndInv, MutexHeld, RegistrySound, TypeOK
<1>5. /\ log \in Seq(Entry) /\ drifted \subseteq drifted'
      /\ entries = IF logged THEN Append(log, entry) ELSE log
      /\ \A d \in Clients : owed'[d] = IF InRegistry(d) /\ logged THEN Append(owed[d], entry)
                                                                  ELSE owed[d]
  BY <1>1 DEF CommitOf, FaultyIndInv, FaultyTypeOK
<1>6. ASSUME NEW d \in Clients
      PROVE  /\ AccountOf(d) /\ Told(d)' = Told(d) /\ Known(d)' = Known(d)
             /\ Connected(d)' <=> Connected(d)
  BY <1>3, ToldKept DEF processVars, AccountsSound
\* Those that are not registered are not concerned.
<1>7. ASSUME NEW d \in Clients, ~InRegistry(d)
      PROVE  AccountOf(d)'
  <2>1. d # c
    BY <1>3, <1>4, <1>7 DEF Registered
  <2>2. pc'[d] = pc[d] /\ pc[d] \notin After /\ owed'[d] = owed[d]
    BY <1>4, <1>5, <1>7, <2>1 DEF After
  <2>3. QED
    BY <1>3, <1>5, <1>6, <2>2, AccountKept DEF processVars
<1>8. ASSUME NEW d \in Clients, InRegistry(d)
      PROVE  AccountOf(d)'
  <2>1. pc[d] \in After /\ pc'[d] \in After /\ pc'[d] \notin Before /\ pc'[d] # "done"
    BY <1>4, <1>8 DEF After, Before, Registered
  <2>2. Rest(d) = log
    BY <1>4, <1>5, RestQuiet
  <2>3. Rest(d)' = entries
    <3>1. CASE label = "read"
      <4>1. log' = entries
        BY <1>2, <3>1
      <4>2. \A e \in Clients : pc'[e] # "broadcast"
        BY <1>4, <3>1
      <4>3. Outstanding(d)' = <<>>
        BY <4>2 DEF Outstanding, Awaiting
      <4>4. <<>> \o entries = entries
        BY ConcatEmptySeq
      <4>5. QED
        BY <4>1, <4>3, <4>4 DEF Rest
    <3>2. CASE label = "broadcast"
      <4>1. log' = <<>> /\ payload'.edits = entries /\ cursor' = 1
        BY <1>2, <3>2
      <4>2. Awaiting(d)'
        <5>1. PICK i \in DOMAIN registry : registry[i] = d
          BY <1>8 DEF InRegistry
        <5>2. i >= 1
          BY <1>3, <5>1 DEF TypeOK
        <5>3. QED
          BY <1>3, <1>4, <3>2, <4>1, <5>1, <5>2 DEF Awaiting
      <4>3. entries \o <<>> = entries
        BY ConcatEmptySeq
      <4>4. QED
        BY <4>1, <4>2, <4>3 DEF Rest, Outstanding
    <3>3. QED
      BY <3>1, <3>2
  <2>4. ASSUME Connected(d)
        PROVE  /\ Told(d) \o entries = owed'[d]
               /\ d \notin drifted' => Play(Known(d), entries) = text' \o pending'
    <3>1. /\ Told(d) \o log = owed[d]
          /\ d \notin drifted => Play(Known(d), log) = text \o pending
      BY <1>6, <2>1, <2>2, <2>4 DEF AccountOf
    <3>2. Told(d) \in Seq(Entry) /\ Known(d) \in Text
      BY <2>1, <2>4, AccountTypes
    <3>3. Told(d) \o Append(log, entry) = Append(Told(d) \o log, entry)
      <4>1. PICK told \in Seq(Entry) : told = Told(d)
        BY <3>2
      <4>2. told \o Append(log, entry) = Append(told \o log, entry)
        BY <1>5, AppendToConcat
      <4>3. QED
        BY <4>1, <4>2
    <3>4. Play(Known(d), Append(log, entry)) = Apply(Play(Known(d), log), entry)
      BY <1>5, PlayNext
    <3>5. d \notin drifted' =>
            text' \o pending' = IF logged THEN Apply(text \o pending, entry) ELSE text \o pending
      BY <1>1, <1>8 DEF CommitOf
    <3>6. QED
      BY <1>5, <1>8, <3>1, <3>3, <3>4, <3>5
  <2>5. client'[d] = "absent" => shown'[d] = <<>>
    BY <1>3, <1>6 DEF AccountOf, processVars
  <2>6. QED
    BY <1>6, <2>1, <2>3, <2>4, <2>5 DEF AccountOf
<1>9. QED
  BY <1>7, <1>8 DEF AccountsSound

\* The client at the cursor comes off those that await the broadcast, and nobody else.
LEMMA BroadcastReaches ==
  ASSUME NEW c \in Clients, TypeOK, RegistrySound, pc[c] = "broadcast",
         cursor \in DOMAIN registry, NEW e, e = registry[cursor],
         UNCHANGED <<pc, registry>>, cursor' = cursor + 1
  PROVE  /\ e \in Clients /\ pc[e] \in Registered
         /\ Awaiting(e) /\ ~Awaiting(e)'
         /\ \A d \in Clients \ {e} : Awaiting(d)' <=> Awaiting(d)
<1>1. /\ e \in Clients /\ cursor \in Nat
      /\ \A i \in DOMAIN registry : i \in Nat
  <2>1. registry \in Seq(Clients) /\ cursor \in Nat
    BY DEF TypeOK
  <2>2. DOMAIN registry = 1 .. Len(registry) /\ Len(registry) \in Nat
    BY <2>1, LenProperties
  <2>3. QED
    BY <2>1, <2>2, ElementOfSeq
<1>2. pc[e] \in Registered
  BY <1>1 DEF RegistrySound, InRegistry
<1>3. Awaiting(e)
  BY <1>1 DEF Awaiting
<1>4. ~Awaiting(e)'
  <2>1. ASSUME NEW i \in DOMAIN registry, registry[i] = e
        PROVE  ~(i >= cursor + 1)
    BY <1>1, <2>1 DEF RegistrySound
  <2>2. QED
    BY <2>1 DEF Awaiting
<1>5. ASSUME NEW d \in Clients \ {e}
      PROVE  Awaiting(d)' <=> Awaiting(d)
  <2>1. ASSUME NEW i \in DOMAIN registry, registry[i] = d
        PROVE  i >= cursor + 1 <=> i >= cursor
    BY <1>1, <2>1
  <2>2. QED
    BY <2>1 DEF Awaiting
<1>6. QED
  BY <1>1, <1>2, <1>3, <1>4, <1>5

\* What a client is sent it no longer has to be sent.
LEMMA AccountsSent ==
  ASSUME NEW c \in Clients, FaultyIndInv, AccountsSound, pc[c] = "broadcast",
         cursor \in DOMAIN registry, NEW e, e = registry[cursor], Send(e, payload),
         cursor' = cursor + 1, UNCHANGED <<threadVars, text, payload, processVars, recordVars>>
  PROVE  AccountsSound'
<1>1. /\ TypeOK /\ RegistrySound /\ payload \in Payload /\ payload \in Message
      /\ UNCHANGED <<pc, registry, client, inbuf, view, log, pending, owed, shown, drifted>>
  BY DEF FaultyIndInv, FaultyTypeOK, Broadcasting, Message, threadVars, processVars, recordVars
<1>2. /\ e \in Clients /\ pc[e] \in Registered /\ Awaiting(e) /\ ~Awaiting(e)'
      /\ \A d \in Clients \ {e} : Awaiting(d)' <=> Awaiting(d)
  BY <1>1, BroadcastReaches
<1>3. PICK edits \in Seq(Entry) : edits = payload.edits
  BY <1>1 DEF Payload
<1>4. PICK messages \in Seq(Message), had \in Seq(Entry) :
        messages = Incoming(e) /\ had = Edits(messages)
  <2>1. Incoming(e) \in Seq(Message) /\ Edits(Incoming(e)) \in Seq(Entry)
    BY <1>2, AccountTypes
  <2>2. QED
    BY <2>1
<1>5. Incoming(e)' = Append(messages, payload) /\ \A d \in Clients \ {e} : s2c'[d] = s2c[d]
  BY <1>1, <1>2, <1>4, SendIncoming
<1>6. Edits(Incoming(e)') = had \o edits
  <2>1. Edits(Append(messages, payload)) = Bring(had, payload)
    BY <1>1, <1>4, EditsNext
  <2>2. Bring(had, payload) = had \o edits
    BY <1>1, <1>3 DEF Bring, Payload
  <2>3. QED
    BY <1>5, <2>1, <2>2
<1>7. /\ log = <<>> /\ log \in Seq(Entry)
      /\ Rest(e) = edits /\ Rest(e)' = log
  <2>1. log = <<>> /\ log \in Seq(Entry)
    BY DEF FaultyIndInv, FaultyTypeOK, Broadcasting
  <2>2. edits \o log = edits /\ log \o log = log
    BY <2>1, ConcatEmptySeq
  <2>3. Rest(e) = edits \o log
    BY <1>2, <1>3 DEF Rest, Outstanding
  <2>4. Rest(e)' = <<>> \o log
    BY <1>1, <1>2 DEF Rest, Outstanding
  <2>5. QED
    BY <2>1, <2>2, <2>3, <2>4
<1>8. AccountOf(e)'
  <2>1. /\ pc'[e] \in After /\ pc'[e] \notin Before /\ pc'[e] # "done" /\ pc[e] \in After
        /\ Connected(e)' <=> Connected(e)
    BY <1>1, <1>2 DEF After, Before, Registered, Connected
  <2>2. client'[e] = "absent" => shown'[e] = <<>>
    BY <1>1, <1>2 DEF AccountsSound, AccountOf
  <2>3. ASSUME Connected(e)
        PROVE  /\ Told(e)' \o Rest(e)' = owed'[e]
               /\ e \notin drifted' => Play(Known(e)', Rest(e)') = text' \o pending'
    <3>1. /\ Told(e) \o edits = owed[e]
          /\ e \notin drifted => Play(Known(e), edits) = text \o pending
      BY <1>2, <1>7, <2>1, <2>3 DEF AccountsSound, AccountOf
    <3>2. Told(e)' = Told(e) \o edits /\ Told(e) \o edits \in Seq(Entry)
      <4>1. PICK had0 \in Seq(Entry) : had0 = shown[e]
        BY <1>2, AccountTypes
      <4>2. (had0 \o had) \o edits = had0 \o (had \o edits) /\ (had0 \o had) \o edits \in Seq(Entry)
        BY ConcatAssociative, ConcatProperties
      <4>3. Told(e) = had0 \o had /\ Told(e)' = had0 \o (had \o edits)
        BY <1>1, <1>4, <1>6, <4>1 DEF Told
      <4>4. QED
        BY <4>2, <4>3
    <3>3. (Told(e) \o edits) \o log = Told(e) \o edits
      BY <1>7, <3>2, ConcatEmptySeq
    <3>4. TextHeld(e)' = TextHeld(e)
      <4>1. CASE client[e] = "greeting"
        <5>1. s2c[e] \in Seq(Message) /\ s2c[e] # <<>> /\ s2c'[e] = Append(s2c[e], payload)
          BY <1>1, <1>2, <2>1, <4>1 DEF FaultyIndInv, KindsSound, KindsOf, Send, TypeOK
        <5>2. Append(s2c[e], payload)[1] = s2c[e][1] /\ Append(s2c[e], payload) # <<>>
          BY <1>1, <5>1, AppendFirst
        <5>3. Head(s2c'[e]) = Head(s2c[e])
          BY <1>1, <5>1, <5>2
        <5>4. QED
          BY <1>1, <4>1, <5>3 DEF TextHeld
      <4>2. CASE client[e] # "greeting"
        BY <1>1, <4>2 DEF TextHeld
      <4>3. QED
        BY <4>1, <4>2
    <3>5. Known(e)' = Play(Known(e), edits)
      <4>1. Play(TextHeld(e), had \o edits) = Play(Play(TextHeld(e), had), edits)
        BY PlayConcat
      <4>2. QED
        BY <1>4, <1>6, <3>4, <4>1 DEF Known
    <3>6. Play(Play(Known(e), edits), log) = Play(Known(e), edits)
      BY <1>7, PlayNothing
    <3>7. QED
      BY <1>1, <1>7, <3>1, <3>2, <3>3, <3>5, <3>6
  <2>4. QED
    BY <2>1, <2>2, <2>3 DEF AccountOf
<1>9. ASSUME NEW d \in Clients \ {e}
      PROVE  AccountOf(d)'
  <2>1. Rest(d)' = Rest(d)
    BY <1>1, <1>2 DEF Rest, Outstanding
  <2>2. QED
    BY <1>1, <1>5, <2>1, AccountQuiet
<1>10. QED
  BY <1>8, <1>9 DEF AccountsSound

\* What an interrupted broadcast does not bring a client, the client is not owed, and it
\* changes nothing for those that do not drift.
LEMMA AccountsInterrupted ==
  ASSUME NEW c \in Clients, FaultyIndInv, AccountsSound, InterruptBroadcast(c)
  PROVE  AccountsSound'
<1>1. /\ TypeOK /\ pc[c] = "broadcast" /\ pc' = [pc EXCEPT ![c] = "read"]
      /\ UNCHANGED <<registry, text, payload, s2c, client, inbuf, view, log, pending, shown>>
      /\ owed' = [d \in Clients |-> IF Ahead(d) THEN WithoutLast(owed[d], Len(payload.edits))
                                                ELSE owed[d]]
      /\ drifted' = IF Play(<<>>, payload.edits) = <<>> THEN drifted
                    ELSE drifted \cup {d \in Clients : Ahead(d)}
  BY DEF FaultyIndInv, FaultyTypeOK, InterruptBroadcast, BroadcastBlocked, At, Goto, coreVars,
         processVars
<1>2. PICK edits \in Seq(Entry) : edits = payload.edits
  BY <1>1 DEF FaultyIndInv, Broadcasting, Payload
<1>3. \A e \in Clients : pc'[e] # "broadcast"
  BY <1>1 DEF FaultyIndInv, MutexHeld, TypeOK
<1>4. /\ log = <<>> /\ log \in Seq(Entry)
      /\ \A d \in Clients : Rest(d)' = log
  <2>1. log = <<>> /\ log \in Seq(Entry)
    BY <1>1 DEF FaultyIndInv, FaultyTypeOK, Broadcasting
  <2>2. \A d \in Clients : Outstanding(d)' = <<>>
    BY <1>3 DEF Outstanding, Awaiting
  <2>3. <<>> \o log = log
    BY <2>1, ConcatEmptySeq
  <2>4. QED
    BY <1>1, <2>1, <2>2, <2>3 DEF Rest
<1>5. ASSUME NEW d \in Clients
      PROVE  /\ AccountOf(d) /\ Told(d)' = Told(d) /\ Known(d)' = Known(d)
             /\ Connected(d)' <=> Connected(d)
             /\ Awaiting(d) <=> Ahead(d)
             /\ pc'[d] \in Before => pc[d] \in Before
             /\ pc'[d] \in After => pc[d] \in After
             /\ pc'[d] = "done" => pc[d] = "done"
  <2>1. Awaiting(d) <=> Ahead(d)
    BY <1>1 DEF Awaiting, Ahead
  <2>2. /\ pc'[d] \in Before => pc[d] \in Before
        /\ pc'[d] \in After => pc[d] \in After
        /\ pc'[d] = "done" => pc[d] = "done"
    BY <1>1 DEF TypeOK, Before, After, Registered
  <2>3. QED
    BY <1>1, <2>1, <2>2, ToldKept DEF AccountsSound
<1>6. ASSUME NEW d \in Clients, ~Ahead(d)
      PROVE  AccountOf(d)'
  <2>1. owed'[d] = owed[d] /\ drifted \subseteq drifted'
    BY <1>1, <1>6
  <2>2. Rest(d) = log
    <3>1. Outstanding(d) = <<>>
      BY <1>5, <1>6 DEF Outstanding
    <3>2. QED
      BY <1>4, <3>1, ConcatEmptySeq DEF Rest
  <2>3. Rest(d)' = Rest(d)
    BY <1>4, <2>2
  <2>4. QED
    BY <1>1, <1>5, <2>1, <2>3, AccountKept
<1>7. ASSUME NEW d \in Clients, Ahead(d)
      PROVE  AccountOf(d)'
  <2>1. /\ pc[d] \in After /\ pc'[d] \in After /\ pc'[d] \notin Before /\ pc'[d] # "done"
    BY <1>1, <1>7 DEF Ahead, FaultyIndInv, RegistrySound, InRegistry, TypeOK, After, Before,
                      Registered
  <2>2. Rest(d) = edits
    <3>1. Outstanding(d) = edits
      BY <1>2, <1>5, <1>7 DEF Outstanding
    <3>2. edits \o log = edits
      BY <1>4, ConcatEmptySeq
    <3>3. QED
      BY <3>1, <3>2 DEF Rest
  <2>3. ASSUME Connected(d)
        PROVE  /\ Told(d) \o log = owed'[d]
               /\ d \notin drifted' => Play(Known(d), log) = text \o pending
    <3>1. /\ Told(d) \o edits = owed[d]
          /\ d \notin drifted => Play(Known(d), edits) = text \o pending
      BY <1>5, <2>1, <2>2, <2>3 DEF AccountOf
    <3>2. PICK told \in Seq(Entry), known \in Text : told = Told(d) /\ known = Known(d)
      BY <2>1, <2>3, AccountTypes
    <3>3. WithoutLast(told \o edits, Len(edits)) = told
      BY WithoutTheLast
    <3>4. owed'[d] = told
      BY <1>1, <1>2, <1>7, <3>1, <3>2, <3>3
    <3>5. told \o log = told /\ Play(known, log) = known
      BY <1>4, ConcatEmptySeq, PlayNothing
    <3>6. ASSUME d \notin drifted'
          PROVE  known = text \o pending
      <4>1. Play(<<>>, edits) = <<>> /\ d \notin drifted
        BY <1>1, <1>2, <1>7, <3>6
      <4>2. Play(known, edits) = known
        BY <4>1, PlayRejected
      <4>3. QED
        BY <3>1, <3>2, <4>1, <4>2
    <3>7. QED
      BY <3>2, <3>4, <3>5, <3>6
  <2>4. client'[d] = "absent" => shown'[d] = <<>>
    BY <1>1, <1>5 DEF AccountOf
  <2>5. QED
    BY <1>1, <1>4, <1>5, <2>1, <2>3, <2>4 DEF AccountOf
<1>8. QED
  BY <1>6, <1>7 DEF AccountsSound

\* The other calls that fail move their thread and nothing else.
LEMMA FaultAccounts ==
  ASSUME NEW c \in Clients, FaultyIndInv, AccountsSound, FaultOf(c)
  PROVE  AccountsSound'
<1>1. CASE InterruptBroadcast(c)
  BY <1>1, AccountsInterrupted
<1>2. CASE LookupFails(c)
  <2>1. CASE BrokenPipe(c)
    BY <1>2, <2>1, AccountsStutter DEF LookupFails, BrokenPipe, threadVars, coreVars,
       processVars, recordVars
  <2>2. CASE ~BrokenPipe(c)
    BY <1>2, <2>2, AccountsRejected DEF LookupFails, At, Goto
  <2>3. QED
    BY <2>1, <2>2
<1>3. CASE ~InterruptBroadcast(c) /\ ~LookupFails(c)
  <2>1. PICK label \in {"done", "leave"} :
          /\ pc' = [pc EXCEPT ![c] = label]
          /\ label = "leave" => pc[c] = "read"
          /\ pc[c] \in {"auth", "greet", "register", "read"}
    BY <1>3 DEF FaultOf, InterruptUsername, GreetFails, RegisterFails, InterruptRead, At, Goto
  <2>2. UNCHANGED <<registry, coreVars, s2c, processVars, recordVars>>
    BY <1>3 DEF FaultOf, InterruptUsername, GreetFails, RegisterFails, InterruptRead
  <2>3. \A e \in Clients : pc'[e] = "broadcast" <=> pc[e] = "broadcast"
    BY <2>1 DEF FaultyIndInv, FaultyTypeOK, TypeOK
  <2>4. \A d \in Clients : Rest(d)' = Rest(d)
    BY <2>2, <2>3, RestKept DEF coreVars, recordVars
  <2>5. UNCHANGED <<client, s2c, inbuf, view, shown, owed, text, pending, drifted>>
    BY <2>2 DEF coreVars, processVars, recordVars
  <2>6. /\ label \in Labels \ {"none"} /\ pc[c] # "none"
        /\ label \notin Before
        /\ label \in After => pc[c] \in After
    BY <2>1 DEF Before, After, Registered, Labels
  <2>7. QED
    BY <2>1, <2>4, <2>5, <2>6, AccountsMove
<1>4. QED
  BY <1>1, <1>2, <1>3

\* Steps of the server threads in which no call fails.
LEMMA SessionAccounts ==
  ASSUME NEW c \in Clients, FaultyIndInv, AccountsSound, Session(c), UNCHANGED recordVars
  PROVE  AccountsSound'
<1> USE DEF FaultyIndInv
<1>0. TypeOK
  BY DEF FaultyTypeOK
\* Steps that write nothing and are no part of a broadcast.
<1>1. ASSUME NEW label \in Labels, pc' = [pc EXCEPT ![c] = label],
             UNCHANGED <<registry, coreVars, s2c, processVars>>,
             label \notin {"none", "broadcast"}, pc[c] \notin {"none", "broadcast"},
             label \in Before => pc[c] \in Before, label \in After => pc[c] \in After
      PROVE  AccountsSound'
  <2>1. \A e \in Clients : pc'[e] = "broadcast" <=> pc[e] = "broadcast"
    BY <1>0, <1>1 DEF TypeOK
  <2>2. \A d \in Clients : Rest(d)' = Rest(d)
    BY <1>1, <2>1, RestKept DEF coreVars, recordVars
  <2>3. UNCHANGED <<client, s2c, inbuf, view, shown, owed, text, pending, drifted>>
    BY <1>1 DEF coreVars, processVars, recordVars
  <2>4. QED
    BY <1>1, <2>2, <2>3, AccountsMove
\* Steps in which the registry changes: nothing is being broadcast.
<1>2. ASSUME NEW label \in Labels, pc' = [pc EXCEPT ![c] = label],
             UNCHANGED <<coreVars, s2c, processVars>>,
             label \notin {"none", "broadcast"}, label \notin Before, pc[c] # "none",
             label \in After => pc[c] \in After, \A e \in Clients : pc[e] # "broadcast"
      PROVE  AccountsSound'
  <2>1. \A e \in Clients : pc'[e] # "broadcast"
    BY <1>0, <1>2 DEF TypeOK
  <2>2. \A d \in Clients : Rest(d)' = Rest(d)
    BY <1>2, <2>1 DEF Rest, Outstanding, Awaiting, coreVars, recordVars
  <2>3. UNCHANGED <<client, s2c, inbuf, view, shown, owed, text, pending, drifted>>
    BY <1>2 DEF coreVars, processVars, recordVars
  <2>4. QED
    BY <1>2, <2>2, <2>3, AccountsMove
<1>3. CASE Authenticate(c)
  BY <1>1, <1>3 DEF Authenticate, At, Goto, Before, After, Registered, Labels
<1>4. CASE Refuse(c)
  <2>1. CASE BrokenPipe(c)
    BY <2>1, AccountsStutter DEF BrokenPipe, threadVars, coreVars, processVars, recordVars
  <2>2. CASE ~BrokenPipe(c)
    BY <1>4, <2>2, AccountsRejected DEF Refuse, At, Goto
  <2>3. QED
    BY <2>1, <2>2
<1>5. CASE NoUsername(c)
  BY <1>1, <1>5 DEF NoUsername, At, Goto, Before, After, Registered, Labels
<1>6. CASE Lock(c)
  <2>1. CASE At(c, "join") /\ Goto(c, "greet")
    BY <1>1, <1>6, <2>1 DEF Lock, At, Goto, Before, After, Registered, Labels
  <2>2. CASE At(c, "submit") /\ Goto(c, "commit")
    BY <1>1, <1>6, <2>2 DEF Lock, At, Goto, Before, After, Registered, Labels
  <2>3. QED
    BY <1>6, <2>1, <2>2 DEF Lock
<1>7. CASE Register(c)
  <2>1. \A e \in Clients : pc[e] # "broadcast"
    BY <1>7 DEF Register, At, MutexHeld
  <2>2. PICK label \in {"done", "read"} : pc' = [pc EXCEPT ![c] = label]
    BY <1>7 DEF Register, Goto
  <2>3. pc[c] = "register" /\ UNCHANGED <<coreVars, s2c, processVars>>
    BY <1>7 DEF Register, At
  <2>4. QED
    BY <1>2, <2>1, <2>2, <2>3 DEF Before, After, Registered, Labels
<1>8. CASE ReadCommand(c)
  <2>1. PICK label \in {"leave", "submit"} : pc' = [pc EXCEPT ![c] = label]
    BY <1>8 DEF ReadCommand, Goto
  <2>2. pc[c] = "read" /\ UNCHANGED <<registry, coreVars, s2c, processVars>>
    BY <1>8 DEF ReadCommand, At
  <2>3. QED
    BY <1>1, <2>1, <2>2 DEF Before, After, Registered, Labels
<1>9. CASE ReadEof(c)
  BY <1>1, <1>9 DEF ReadEof, At, Goto, Before, After, Registered, Labels
<1>10. CASE Broadcast(c)
  <2>1. cursor \in DOMAIN registry /\ pc[c] = "broadcast"
    BY <1>10 DEF Broadcast, At
  <2>2. CASE BrokenPipe(registry[cursor])
    BY <2>2, AccountsStutter DEF BrokenPipe, threadVars, coreVars, processVars, recordVars
  <2>3. CASE ~BrokenPipe(registry[cursor])
    <3>1. PICK e : e = registry[cursor]
      OBVIOUS
    <3>2. /\ Send(e, payload) /\ cursor' = cursor + 1
          /\ UNCHANGED <<threadVars, text, payload, processVars>>
      BY <1>10, <2>3, <3>1 DEF Broadcast
    <3>3. QED
      BY <2>1, <3>1, <3>2, AccountsSent
  <2>4. QED
    BY <2>2, <2>3
<1>11. CASE EndBroadcast(c)
  <2>1. /\ pc[c] = "broadcast" /\ pc' = [pc EXCEPT ![c] = "read"] /\ cursor \notin DOMAIN registry
        /\ UNCHANGED <<registry, coreVars, s2c, processVars>>
    BY <1>11 DEF EndBroadcast, At, Goto
  <2>2. \A e \in Clients : pc'[e] # "broadcast"
    BY <1>0, <2>1 DEF MutexHeld, TypeOK
  <2>3. \A i \in DOMAIN registry : ~(i >= cursor)
    BY <1>0, <2>1 DEF Broadcasting, TypeOK
  <2>4. \A d \in Clients : Rest(d)' = Rest(d)
    BY <2>1, <2>2, <2>3 DEF Rest, Outstanding, Awaiting, coreVars, recordVars
  <2>5. UNCHANGED <<client, s2c, inbuf, view, shown, owed, text, pending, drifted>>
    BY <2>1 DEF coreVars, processVars, recordVars
  <2>6. QED
    BY <2>1, <2>4, <2>5, AccountsMove DEF Before, After, Registered, Labels
<1>12. CASE Leave(c)
  <2>1. \A e \in Clients : pc[e] # "broadcast"
    BY <1>12, NoClientAssumption DEF Leave, MutexHeld
  <2>2. /\ pc[c] = "leave" /\ pc' = [pc EXCEPT ![c] = "done"]
        /\ UNCHANGED <<coreVars, s2c, processVars>>
    BY <1>12 DEF Leave, At, Goto
  <2>3. QED
    BY <1>2, <2>1, <2>2 DEF Before, After, Registered, Labels
<1>13. QED
  BY <1>3, <1>4, <1>5, <1>6, <1>7, <1>8, <1>9, <1>10, <1>11, <1>12 DEF Session

-------------------------------------------------------------------------------
(* Steps of the clients *)

\* A client reads the first message of its stream: it has been told of no more and no less,
\* and what it will know is the same.
LEMMA AccountsRead ==
  ASSUME NEW c \in Clients, FaultyIndInv, AccountsSound,
         UNCHANGED <<log, pending, owed, drifted>>,
         \/ ReadSnapshot(c) /\ UNCHANGED shown
         \/ ReadPayload(c) /\ shown' = [shown EXCEPT ![c] = @ \o Head(Incoming(c)).edits]
  PROVE  AccountsSound'
<1>1. /\ TypeOK /\ KindsOf(c) /\ AccountOf(c) /\ client' = [client EXCEPT ![c] = "ready"]
      /\ UNCHANGED <<pc, registry, cursor, payload, text>>
  BY DEF FaultyIndInv, FaultyTypeOK, KindsSound, AccountsSound, ReadSnapshot, ReadPayload,
         threadVars, coreVars
<1>2. \A d \in Clients : Rest(d)' = Rest(d)
  BY <1>1, RestKept
<1>3. PICK messages \in Seq(Message) : messages = Incoming(c)
  BY AccountTypes
<1>4. /\ client'[c] = "ready" /\ client[c] # "absent" /\ pc[c] \notin Before
      /\ Connected(c) /\ Connected(c)'
  BY <1>1 DEF KindsOf, ReadSnapshot, ReadPayload, Connected, TypeOK
<1>5. /\ Told(c)' = Told(c) /\ Known(c)' = Known(c)
      /\ \A d \in Clients \ {c} : /\ inbuf'[d] = inbuf[d] /\ s2c'[d] = s2c[d]
                                  /\ view'[d] = view[d] /\ shown'[d] = shown[d]
  <2>1. CASE ReadSnapshot(c) /\ UNCHANGED shown
    <3>1. /\ client[c] = "greeting" /\ inbuf[c] = <<>> /\ Refill(c) /\ s2c[c] # <<>>
          /\ Head(s2c[c]).kind = "snapshot" /\ s2c[c] \in Seq(Message)
          /\ view' = [view EXCEPT ![c] = [version |-> Head(s2c[c]).version,
                                          text |-> Head(s2c[c]).text]]
      BY <1>1, <2>1 DEF ReadSnapshot, KindsOf, TypeOK
    <3>2. messages = s2c[c] /\ Incoming(c)' = Tail(messages)
      BY <1>1, <1>3, <3>1, RefillIncoming
    <3>3. PICK none, edits \in Seq(Entry) :
            none = <<>> /\ none \in Seq(Entry) /\ edits = Edits(Tail(messages))
      <4>1. PICK none : none = <<>> /\ none \in Seq(Entry)
        BY NoElements, Zenon
      <4>2. PICK rest \in Seq(Message) : rest = Tail(messages)
        <5>1. messages # <<>>
          BY <3>1, <3>2
        <5>2. Tail(messages) \in Seq(Message)
          BY <5>1
        <5>3. QED
          BY <5>2, Zenon
      <4>3. Edits(rest) \in Seq(Entry)
        BY EditsType
      <4>4. QED
        BY <4>1, <4>2, <4>3
    <3>4. Edits(messages) = edits
      <4>1. Edits(messages) = Bring(<<>>, Head(messages)) \o Edits(Tail(messages))
        BY <3>1, <3>2, EditsFirst
      <4>2. Bring(<<>>, Head(messages)) = none
        BY <3>1, <3>2, <3>3 DEF Bring
      <4>3. none \o edits = edits
        BY <3>3, ConcatEmptySeq
      <4>4. QED
        BY <3>3, <4>1, <4>2, <4>3
    <3>5. TextHeld(c)' = TextHeld(c)
      <4>1. view'[c].text = Head(s2c[c]).text
        BY <1>1, <3>1 DEF TypeOK
      <4>2. QED
        BY <1>4, <3>1, <4>1 DEF TextHeld
    <3>6. \A d \in Clients \ {c} : inbuf'[d] = inbuf[d] /\ s2c'[d] = s2c[d] /\ view'[d] = view[d]
      BY <1>1, <3>1 DEF Refill, TypeOK
    <3>7. QED
      BY <1>3, <2>1, <3>2, <3>3, <3>4, <3>5, <3>6 DEF Told, Known
  <2>2. CASE ReadPayload(c) /\ shown' = [shown EXCEPT ![c] = @ \o Head(Incoming(c)).edits]
    <3>1. Open(c) /\ messages # <<>>
      BY <1>3, <2>2 DEF ReadPayload, Open
    <3>2. Incoming(c)' = Tail(messages)
      <4>1. CASE inbuf[c] # <<>>
        BY <1>1, <1>3, <2>2, <4>1, ServeIncoming DEF ReadPayload
      <4>2. CASE inbuf[c] = <<>>
        BY <1>1, <1>3, <2>2, <4>2, RefillIncoming DEF ReadPayload
      <4>3. QED
        BY <4>1, <4>2
    <3>3. Head(messages) \in Payload
      BY <1>1, <1>3, <3>1 DEF KindsOf
    <3>4. PICK first, edits, had, txt :
            /\ first \in Seq(Entry) /\ edits \in Seq(Entry) /\ had \in Seq(Entry)
            /\ first = Head(messages).edits /\ edits = Edits(Tail(messages)) /\ had = shown[c]
            /\ txt = view[c].text
      <4>1. PICK rest \in Seq(Message) : rest = Tail(messages)
        <5>1. Tail(messages) \in Seq(Message)
          BY <3>1
        <5>2. QED
          BY <5>1, Zenon
      <4>2. Edits(rest) \in Seq(Entry)
        BY EditsType
      <4>3. Head(messages).edits \in Seq(Entry)
        BY <3>3 DEF Payload
      <4>4. shown[c] \in Seq(Entry)
        BY AccountTypes
      <4>5. QED
        BY <4>1, <4>2, <4>3, <4>4
    <3>5. Edits(messages) = first \o edits
      <4>1. Edits(messages) = Bring(<<>>, Head(messages)) \o Edits(Tail(messages))
        BY <3>1, EditsFirst
      <4>2. Bring(<<>>, Head(messages)) = <<>> \o first
        BY <3>3, <3>4 DEF Bring, Payload
      <4>3. <<>> \o first = first
        BY <3>4, ConcatEmptySeq
      <4>4. QED
        BY <3>4, <4>1, <4>2, <4>3
    <3>6. shown'[c] = had \o first
      BY <1>3, <2>2, <3>4 DEF FaultyIndInv, FaultyTypeOK
    <3>7. Told(c)' = Told(c)
      <4>1. (had \o first) \o edits = had \o (first \o edits)
        <5>1. first \in Seq(Entry) /\ edits \in Seq(Entry) /\ had \in Seq(Entry)
          BY <3>4
        <5>2. QED
          BY <5>1, EntriesAssociate
      <4>2. QED
        BY <1>3, <3>2, <3>4, <3>5, <3>6, <4>1 DEF Told
    <3>8. Known(c)' = Known(c)
      <4>1. client[c] # "greeting"
        BY <3>1 DEF Open
      <4>2. view'[c].text = Play(txt, first)
        <5>1. view' = [view EXCEPT ![c] = [version |-> Head(messages).version,
                                           text |-> Play(@.text, Head(messages).edits)]]
          BY <1>3, <2>2, Zenon DEF ReadPayload
        <5>2. /\ c \in DOMAIN view
              /\ view' = [view EXCEPT ![c] = [version |-> Head(messages).version,
                                              text |-> Play(txt, first)]]
          BY <1>1, <3>4, <5>1 DEF TypeOK
        <5>3. view'[c] = [version |-> Head(messages).version, text |-> Play(txt, first)]
          BY <5>2, Zenon
        <5>4. QED
          BY <5>3
      <4>3. Play(txt, first \o edits) = Play(Play(txt, first), edits)
        BY <3>4, PlayConcat
      <4>4. TextHeld(c) = txt /\ TextHeld(c)' = Play(txt, first)
        BY <1>4, <3>4, <4>1, <4>2 DEF TextHeld
      <4>5. QED
        BY <1>3, <3>2, <3>4, <3>5, <4>3, <4>4 DEF Known
    <3>9. \A d \in Clients \ {c} : inbuf'[d] = inbuf[d] /\ s2c'[d] = s2c[d] /\ view'[d] = view[d]
      BY <1>1, <2>2 DEF ReadPayload, Refill, TypeOK
    <3>10. \A d \in Clients \ {c} : shown'[d] = shown[d]
      BY <2>2 DEF FaultyIndInv, FaultyTypeOK
    <3>11. QED
      BY <3>7, <3>8, <3>9, <3>10
  <2>3. QED
    BY <2>1, <2>2
<1>6. AccountOf(c)'
  <2>1. pc[c] # "none" \/ pc'[c] # "done"
    BY <1>1
  <2>2. QED
    BY <1>1, <1>2, <1>4, <1>5, <2>1, AccountKept
<1>7. ASSUME NEW d \in Clients \ {c}
      PROVE  AccountOf(d)'
  <2>1. client'[d] = client[d] /\ pc'[d] = pc[d] /\ text' \o pending' = text \o pending
    BY <1>1 DEF TypeOK
  <2>2. QED
    BY <1>1, <1>2, <1>5, <2>1, AccountQuiet
<1>8. QED
  BY <1>6, <1>7 DEF AccountsSound

LEMMA ProcessAccounts ==
  ASSUME NEW c \in Clients, FaultyIndInv, AccountsSound,
         ((Proceed(c) \/ User(c)) /\ UNCHANGED faultVars) \/ ReadAndRecord(c)
  PROVE  AccountsSound'
<1> USE DEF FaultyIndInv
<1>0. TypeOK /\ UNCHANGED <<log, pending, owed, drifted>>
  BY DEF FaultyTypeOK, ReadAndRecord, faultVars, recordVars
<1>1. CASE ReadAndRecord(c)
  BY <1>0, <1>1, AccountsRead DEF ReadAndRecord
<1>2. CASE ReadSnapshot(c) /\ UNCHANGED faultVars
  BY <1>0, <1>2, AccountsRead DEF faultVars, recordVars
<1>3. CASE (ReadReject(c) \/ Hangup(c) \/ Finish(c) \/ Quit(c)) /\ UNCHANGED faultVars
  <2>1. Close(c) /\ UNCHANGED <<pc, registry, cursor, payload, text, view, shown>>
    BY <1>3 DEF ReadReject, Hangup, Finish, Quit, threadVars, coreVars, faultVars, recordVars
  <2>2. \A d \in Clients : Rest(d)' = Rest(d)
    BY <1>0, <2>1, RestKept
  <2>3. AccountOf(c)'
    <3>1. client'[c] = "closed" /\ AccountOf(c)
      BY <1>0, <2>1 DEF Close, TypeOK, AccountsSound
    <3>2. ~Connected(c)'
      BY <3>1 DEF Connected
    <3>3. QED
      BY <2>1, <3>1, <3>2 DEF AccountOf
  <2>4. ASSUME NEW d \in Clients \ {c}
        PROVE  AccountOf(d)'
    <3>1. client'[d] = client[d] /\ s2c'[d] = s2c[d] /\ inbuf'[d] = inbuf[d]
      BY <1>0, <2>1 DEF Close, TypeOK
    <3>2. QED
      BY <1>0, <2>1, <2>2, <3>1, AccountQuiet
  <2>5. QED
    BY <2>3, <2>4 DEF AccountsSound
<1>4. CASE Connect(c) /\ UNCHANGED faultVars
  <2>1. /\ pc[c] = "none" /\ client[c] = "absent" /\ pc' = [pc EXCEPT ![c] = "auth"]
        /\ client' = [client EXCEPT ![c] = "greeting"]
        /\ UNCHANGED <<registry, cursor, payload, text, s2c, inbuf, view, shown>>
    BY <1>4 DEF Connect, Goto, Started, coreVars, faultVars, recordVars
  <2>2. \A e \in Clients : pc'[e] = "broadcast" <=> pc[e] = "broadcast"
    BY <1>0, <2>1 DEF TypeOK
  <2>3. \A d \in Clients : Rest(d)' = Rest(d)
    BY <1>0, <2>1, <2>2, RestKept
  <2>4. AccountOf(c)'
    <3>1. client'[c] = "greeting" /\ pc'[c] = "auth" /\ shown[c] = <<>>
      BY <1>0, <2>1 DEF TypeOK, AccountsSound, AccountOf
    <3>2. QED
      BY <2>1, <3>1 DEF AccountOf, After, Registered
  <2>5. ASSUME NEW d \in Clients \ {c}
        PROVE  AccountOf(d)'
    <3>1. client'[d] = client[d] /\ pc'[d] = pc[d]
      BY <1>0, <2>1 DEF TypeOK
    <3>2. QED
      BY <1>0, <2>1, <2>3, <3>1, AccountQuiet
  <2>6. QED
    BY <2>4, <2>5 DEF AccountsSound
<1>5. CASE (TypeCommand(c) \/ WriteCommand(c)) /\ UNCHANGED faultVars
  <2>1. /\ UNCHANGED <<pc, registry, cursor, payload, text, s2c, inbuf, view, shown>>
        /\ \A d \in Clients : client'[d] = client[d] \/ (Open(d) /\ Open(d)')
    BY <1>0, <1>5 DEF TypeCommand, WriteCommand, Open, TypeOK, threadVars, coreVars, faultVars,
                      recordVars
  <2>2. ASSUME NEW d \in Clients
        PROVE  AccountOf(d)'
    <3>1. /\ AccountOf(d) /\ (Connected(d)' <=> Connected(d)) /\ TextHeld(d)' = TextHeld(d)
          /\ client'[d] = "absent" => client[d] = "absent"
      BY <2>1 DEF AccountsSound, Connected, Open, TextHeld
    <3>2. Incoming(d)' = Incoming(d)
      BY <2>1 DEF Incoming
    <3>3. Told(d)' = Told(d) /\ Known(d)' = Known(d)
      BY <2>1, <3>1, <3>2 DEF Told, Known
    <3>4. Rest(d)' = Rest(d)
      BY <1>0, <2>1, RestKept
    <3>5. QED
      BY <1>0, <2>1, <3>1, <3>3, <3>4, AccountKept
  <2>3. QED
    BY <2>2 DEF AccountsSound
<1>6. QED
  BY <1>1, <1>2, <1>3, <1>4, <1>5 DEF Proceed, User

-------------------------------------------------------------------------------
(* The account of every client is right, from the start and after every step *)

LEMMA InitAccounts == FaultyInit => AccountsSound
<1>1. SUFFICES ASSUME FaultyInit, NEW c \in Clients
               PROVE  AccountOf(c)
  BY DEF AccountsSound
<1>2. client[c] = "absent" /\ shown[c] = <<>>
  BY <1>1 DEF FaultyInit, Init
<1>3. QED
  BY <1>2 DEF AccountOf, Connected

LEMMA StepAccounts ==
  ASSUME FaultyIndInv, AccountsSound, [FaultyNext]_<<vars, faultVars>>
  PROVE  AccountsSound'
<1>1. CASE UNCHANGED <<vars, faultVars>>
  BY <1>1, AccountsStutter
     DEF vars, coreVars, threadVars, processVars, faultVars, recordVars
<1>2. ASSUME NEW c \in Clients, FaultyThread(c)
      PROVE  AccountsSound'
  <2>1. CASE Session(c) /\ UNCHANGED faultVars
    BY <2>1, SessionAccounts DEF faultVars
  <2>2. CASE GreetAndRecord(c)
    BY <2>2, AccountsGreet
  <2>3. CASE SubmitAndCommit(c)
    BY <2>3, AccountsCommit
  <2>4. QED
    BY <1>2, <2>1, <2>2, <2>3 DEF FaultyThread
<1>3. ASSUME NEW c \in Clients, FaultyProcess(c) \/ (User(c) /\ UNCHANGED faultVars)
      PROVE  AccountsSound'
  BY <1>3, ProcessAccounts DEF FaultyProcess
<1>4. ASSUME NEW c \in Clients, FaultOf(c)
      PROVE  AccountsSound'
  BY <1>4, FaultAccounts
<1>5. QED
  BY <1>1, <1>2, <1>3, <1>4 DEF FaultyNext

\* What a client has been told and what it has still to be told, put in the order of Due.
LEMMA DueOrder ==
  ASSUME NEW c \in Clients, FaultyIndInv
  PROVE  /\ shown[c] \o Due(c) = Told(c) \o Rest(c)
         /\ Play(TextHeld(c), Due(c)) = Play(Known(c), Rest(c))
<1>1. Due(c) = Edits(Incoming(c)) \o Rest(c)
  <2>1. PICK coming \in Seq(Entry), outstanding \in Seq(Entry), logged \in Seq(Entry) :
          coming = Edits(Incoming(c)) /\ outstanding = Outstanding(c) /\ logged = log
    BY AccountTypes, Zenon
  <2>2. (coming \o outstanding) \o logged = coming \o (outstanding \o logged)
    BY EntriesAssociate, Zenon
  <2>3. QED
    BY <2>1, <2>2, Zenon DEF Due, Rest
<1>2. PICK had \in Seq(Entry), coming \in Seq(Entry), rest \in Seq(Entry) :
        had = shown[c] /\ coming = Edits(Incoming(c)) /\ rest = Rest(c)
  BY AccountTypes, Zenon
<1>3. (had \o coming) \o rest = had \o (coming \o rest)
  BY EntriesAssociate, Zenon
<1>4. PICK txt : txt = TextHeld(c)
  OBVIOUS
<1>5. Play(txt, coming \o rest) = Play(Play(txt, coming), rest)
  BY PlayConcat
<1>6. QED
  BY <1>1, <1>2, <1>3, <1>4, <1>5, Zenon DEF Told, Known

LEMMA AccountsMeanMissed ==
  ASSUME FaultyIndInv, AccountsSound
  PROVE  OnlySkippedMissed /\ OnlyDriftedDiffer
<1>1. \A c \in Clients : pc[c] \in Registered \cup {"register"} <=> pc[c] \in After
  BY DEF After
<1>2. ASSUME NEW c \in Clients, Connected(c), pc[c] \in After
      PROVE  /\ shown[c] \o Due(c) = owed[c]
             /\ c \notin drifted => Play(TextHeld(c), Due(c)) = text \o pending
  BY <1>2, DueOrder, Zenon DEF AccountsSound, AccountOf
<1>3. ASSUME NEW c \in Clients, Connected(c), pc[c] = "done"
      PROVE  IsPrefix(shown[c] \o Edits(Incoming(c)), owed[c])
  <2>1. PICK told \in Seq(Entry) : told = shown[c] \o Edits(Incoming(c))
    BY AccountTypes, Zenon DEF Told
  <2>2. PICK rest \in Seq(Entry) : told \o rest = owed[c]
    BY <1>3, <2>1, Zenon DEF AccountsSound, AccountOf, Told
  <2>3. /\ Len(told) <= Len(told \o rest)
        /\ SubSeq(told, 1, Len(told)) = SubSeq(told \o rest, 1, Len(told))
    BY ONLY <2>1, <2>2
  <2>4. QED
    BY <2>1, <2>2, <2>3, Zenon DEF IsPrefix
<1>4. QED
  BY <1>1, <1>2, <1>3, Zenon DEF OnlySkippedMissed, OnlyDriftedDiffer

-------------------------------------------------------------------------------
(* Theorems *)

\* However many calls of the session threads fail, the invariant holds: a failed call
\* never leaves the mutex with a thread that has ended.
THEOREM FaultyInvariantHolds == FaultySpec => []FaultyIndInv
<1>1. FaultyInit => FaultyIndInv
  BY InitFaultyIndInv
<1>2. FaultyIndInv /\ [FaultyNext]_<<vars, faultVars>> => FaultyIndInv'
  BY StepFaultyIndInv
<1>3. QED
  BY <1>1, <1>2, PTL DEF FaultySpec

\* When calls fail, every variable still holds what its C counterpart can hold: a client
\* that was left out of a version reads its next payload from the first line on.
THEOREM FaultyTypesCorrect == FaultySpec => []FaultyTypeOK
<1>1. FaultyIndInv => FaultyTypeOK
  BY DEF FaultyIndInv
<1>2. QED
  BY <1>1, FaultyInvariantHolds, PTL

\* client_thread_main's error paths unlock what they locked, and nothing else: also when
\* calls fail, the mutex is held exactly by the thread between lock and unlock.
THEOREM FaultyMutualExclusion == FaultySpec => []MutexHeld
<1>1. FaultyIndInv => MutexHeld
  BY DEF FaultyIndInv
<1>2. QED
  BY <1>1, FaultyInvariantHolds, PTL

\* client_registry.c when calls fail: a thread that ends early, before or after its
\* registration, leaves no stream of its own behind for a broadcast.
THEOREM FaultyRegistryCorrect == FaultySpec => []RegistrySound
<1>1. FaultyIndInv => RegistrySound
  BY DEF FaultyIndInv
<1>2. QED
  BY <1>1, FaultyInvariantHolds, PTL

\* Wherever calls fail in client_thread_main, server_core_submit and server_core_commit, and
\* however often: the account of every client is right.
THEOREM AccountsRight == FaultySpec => [](FaultyIndInv /\ AccountsSound)
<1>1. FaultyInit => FaultyIndInv /\ AccountsSound
  BY InitFaultyIndInv, InitAccounts
<1>2. FaultyIndInv /\ AccountsSound /\ [FaultyNext]_<<vars, faultVars>>
        => (FaultyIndInv /\ AccountsSound)'
  BY StepFaultyIndInv, StepAccounts
<1>3. QED
  BY <1>1, <1>2, PTL DEF FaultySpec

\* However many broadcasts are cut short, at whichever client, and however many commits find
\* no memory for a version or a payload: the edits that are logged while a client is
\* registered reach it once and in order, the one that a kept log holds with the next payload,
\* but for those of the broadcasts that it was left out of.
THEOREM OnlySkippedAreMissed == FaultySpec => []OnlySkippedMissed
<1>1. FaultyIndInv /\ AccountsSound => OnlySkippedMissed
  BY AccountsMeanMissed
<1>2. QED
  BY <1>1, AccountsRight, PTL

\* A version that could not be made, a payload that could not be made, an entry of a rejected
\* command that could not be logged, a client left out of rejected commands only: none of
\* these makes the text of a client differ from the text of the server for good.
THEOREM OnlyDriftedTextsDiffer == FaultySpec => []OnlyDriftedDiffer
<1>1. FaultyIndInv /\ AccountsSound => OnlyDriftedDiffer
  BY AccountsMeanMissed
<1>2. QED
  BY <1>1, AccountsRight, PTL
===============================================================================
