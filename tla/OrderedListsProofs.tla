-------------------------- MODULE OrderedListsProofs --------------------------
(***************************************************************************)
(* Theorems about OrderedLists, for every text.                            *)
(***************************************************************************)
EXTENDS OrderedLists, TLAPS, SequenceTheorems, FiniteSetTheorems

Renumbering == INSTANCE FoldLaws WITH Op <- RenumberStep

NoLines == [out |-> <<>>, number |-> 1, inBlock |-> FALSE]

\* Where the loop is after the first n characters.
After(text, n) == Renumbering!Fold(NoLines, [i \in 1 .. n |-> Seen(text, i)])

LEMMA RenumberIsAfter ==
  ASSUME NEW X, NEW text \in Seq(X)
  PROVE  Renumber(text) = After(text, Len(text)).out
<1>1. DOMAIN text = 1 .. Len(text)
  OBVIOUS
<1>2. QED
  BY <1>1 DEF Renumber, After, NoLines, Renumbering!Fold, FoldLeft, Renumbering!FoldLeft, MapThenFoldSet,
              Renumbering!MapThenFoldSet, Max, Renumbering!Max

LEMMA AfterStep ==
  ASSUME NEW text, NEW n \in Nat
  PROVE  /\ After(text, 0) = NoLines
         /\ After(text, n + 1) = RenumberStep(After(text, n), Seen(text, n + 1))
<1> DEFINE s == [i \in 1 .. n |-> Seen(text, i)]
           X == {Seen(text, i) : i \in 1 .. n + 1}
<1>1. [i \in 1 .. 0 |-> Seen(text, i)] = <<>>
  OBVIOUS
<1>2. After(text, 0) = NoLines
  BY <1>1, Renumbering!FoldEmpty DEF After
<1>3. s \in Seq(X) /\ Seen(text, n + 1) \in X
  OBVIOUS
<1>4. [i \in 1 .. n + 1 |-> Seen(text, i)] = Append(s, Seen(text, n + 1))
  <2>1. Len(s) = n /\ DOMAIN Append(s, Seen(text, n + 1)) = 1 .. n + 1
    BY <1>3
  <2>2. \A i \in 1 .. n + 1 : Append(s, Seen(text, n + 1))[i] = Seen(text, i)
    BY <1>3, <2>1
  <2>3. QED
    BY <1>3, <2>1, <2>2
<1> HIDE DEF s, X
<1>5. Renumbering!Fold(NoLines, Append(s, Seen(text, n + 1)))
        = RenumberStep(Renumbering!Fold(NoLines, s), Seen(text, n + 1))
  BY <1>3, Renumbering!FoldAppend
<1>6. QED
  BY <1>2, <1>4, <1>5 DEF After, s

\* The block that reaches an index: one longer at an item, none after another line.
LEMMA BlockStep ==
  ASSUME NEW text, NEW n \in Nat
  PROVE  /\ IsFiniteSet(BlockUpTo(text, n))
         /\ LineStart(text, n + 1) /\ IsItem(text, n + 1) =>
              /\ BlockUpTo(text, n + 1) = BlockUpTo(text, n) \cup {n + 1}
              /\ n + 1 \notin BlockUpTo(text, n)
         /\ LineStart(text, n + 1) /\ ~IsItem(text, n + 1) => BlockUpTo(text, n + 1) = {}
         /\ ~LineStart(text, n + 1) => BlockUpTo(text, n + 1) = BlockUpTo(text, n)
<1>1. IsFiniteSet(BlockUpTo(text, n))
  <2>1. IsFiniteSet(1 .. n)
    BY FS_Interval
  <2>2. BlockUpTo(text, n) \subseteq 1 .. n
    BY DEF BlockUpTo
  <2>3. QED
    BY <2>1, <2>2, FS_Subset
<1>2. \A j \in 1 .. n : j .. n + 1 = (j .. n) \cup {n + 1}
  OBVIOUS
<1>3. (n + 1) .. (n + 1) = {n + 1} /\ 1 .. n + 1 = (1 .. n) \cup {n + 1}
  OBVIOUS
<1>4. ASSUME LineStart(text, n + 1), IsItem(text, n + 1)
      PROVE  /\ BlockUpTo(text, n + 1) = BlockUpTo(text, n) \cup {n + 1}
             /\ n + 1 \notin BlockUpTo(text, n)
  <2>1. n + 1 \in BlockUpTo(text, n + 1)
    BY <1>3, <1>4 DEF BlockUpTo
  <2>2. \A j \in 1 .. n : j \in BlockUpTo(text, n + 1) <=> j \in BlockUpTo(text, n)
    BY <1>2, <1>4 DEF BlockUpTo
  <2>3. BlockUpTo(text, n) \subseteq 1 .. n /\ BlockUpTo(text, n + 1) \subseteq 1 .. n + 1
    BY DEF BlockUpTo
  <2>4. QED
    BY <1>3, <2>1, <2>2, <2>3
<1>5. ASSUME LineStart(text, n + 1), ~IsItem(text, n + 1)
      PROVE  BlockUpTo(text, n + 1) = {}
  <2>1. \A j \in 1 .. n + 1 : n + 1 \in j .. n + 1
    OBVIOUS
  <2>2. QED
    BY <1>5, <2>1 DEF BlockUpTo
<1>6. ASSUME ~LineStart(text, n + 1)
      PROVE  BlockUpTo(text, n + 1) = BlockUpTo(text, n)
  <2>1. n + 1 \notin BlockUpTo(text, n + 1)
    BY <1>6 DEF BlockUpTo
  <2>2. \A j \in 1 .. n : j \in BlockUpTo(text, n + 1) <=> j \in BlockUpTo(text, n)
    BY <1>2, <1>6 DEF BlockUpTo
  <2>3. BlockUpTo(text, n) \subseteq 1 .. n /\ BlockUpTo(text, n + 1) \subseteq 1 .. n + 1
    BY DEF BlockUpTo
  <2>4. QED
    BY <1>3, <2>1, <2>2, <2>3
<1>7. QED
  BY <1>1, <1>4, <1>5, <1>6

\* As far as numbers are written.
Capped(rank) == IF rank < MaxItem THEN rank ELSE MaxItem

\* What the loop has written after n characters, and what it will number the next item with.
Agrees(text, n) ==
    LET state == After(text, n) IN
    /\ state.out = [i \in 1 .. n |-> Numbered(text)[i]]
    /\ state.inBlock \in BOOLEAN
    /\ state.inBlock <=> BlockUpTo(text, n) # {}
    /\ state.inBlock => state.number = Capped(Cardinality(BlockUpTo(text, n)) + 1)

\* One more element written.
LEMMA OneMore ==
  ASSUME NEW f, NEW n \in Nat
  PROVE  Append([i \in 1 .. n |-> f[i]], f[n + 1]) = [i \in 1 .. n + 1 |-> f[i]]
<1> DEFINE s == [i \in 1 .. n |-> f[i]]
           X == {f[i] : i \in 1 .. n + 1}
<1>1. s \in Seq(X) /\ Len(s) = n /\ f[n + 1] \in X
  OBVIOUS
<1>2. /\ Append(s, f[n + 1]) \in Seq(X) /\ DOMAIN Append(s, f[n + 1]) = 1 .. n + 1
      /\ \A i \in 1 .. n : Append(s, f[n + 1])[i] = f[i]
      /\ Append(s, f[n + 1])[n + 1] = f[n + 1]
  BY <1>1
<1>3. QED
  BY <1>2

LEMMA AgreesStep ==
  ASSUME NEW X, NEW text \in Seq(X), NEW n \in Nat, n < Len(text), Agrees(text, n)
  PROVE  Agrees(text, n + 1)
<1> DEFINE state == After(text, n)
           block == BlockUpTo(text, n)
           at == Seen(text, n + 1)
           next == After(text, n + 1)
           card == Cardinality(block)
           f == Numbered(text)
<1> USE MaxItemAssumption
<1>1. next = RenumberStep(state, at)
  BY AfterStep
<1>2. /\ state.out = [i \in 1 .. n |-> f[i]]
      /\ state.inBlock \in BOOLEAN /\ (state.inBlock <=> block # {})
      /\ state.inBlock => state.number = Capped(card + 1)
  BY DEF Agrees
<1>3. /\ at.char = text[n + 1] /\ at.start = LineStart(text, n + 1) /\ at.item = IsItem(text, n + 1)
  BY DEF Seen
<1>4. IsFiniteSet(block) /\ card \in Nat /\ (card = 0 <=> block = {})
  BY BlockStep, FS_CardinalityType, FS_EmptySet
<1>5. n + 1 \in DOMAIN text
  OBVIOUS
<1>6. f[n + 1] = IF LineStart(text, n + 1) /\ IsItem(text, n + 1)
                   THEN Digits[ItemNumber(text, n + 1)] ELSE text[n + 1]
  BY <1>5 DEF Numbered
<1>7. Append(state.out, f[n + 1]) = [i \in 1 .. n + 1 |-> f[i]]
  BY <1>2, OneMore
<1>8. CASE LineStart(text, n + 1) /\ IsItem(text, n + 1)
  <2> DEFINE number == IF state.inBlock THEN state.number ELSE 1
  <2>1. /\ BlockUpTo(text, n + 1) = block \cup {n + 1} /\ n + 1 \notin block
    BY <1>8, BlockStep
  <2>2. Cardinality(BlockUpTo(text, n + 1)) = card + 1
    BY <1>4, <2>1, FS_AddElement
  <2>3. number = Capped(card + 1)
    <3>1. Capped(1) = 1
      BY DEF Capped
    <3>2. QED
      BY <1>2, <1>4, <3>1
  <2>4. number = ItemNumber(text, n + 1)
    BY <2>2, <2>3 DEF ItemNumber, Capped
  <2> HIDE DEF number, state, at, next, block, card, f
  <2>5. next = [out |-> Append(state.out, Digits[number]), inBlock |-> TRUE,
                number |-> IF number < MaxItem THEN number + 1 ELSE MaxItem]
    BY <1>1, <1>3, <1>8 DEF RenumberStep, number
  <2>6. next.number = Capped(card + 1 + 1)
    BY <1>4, <2>3, <2>5 DEF Capped
  <2>7. next.out = [i \in 1 .. n + 1 |-> f[i]]
    BY <1>6, <1>7, <1>8, <2>4, <2>5
  <2>8. next.inBlock = TRUE /\ BlockUpTo(text, n + 1) # {}
    BY <2>1, <2>5
  <2>9. QED
    BY <2>2, <2>6, <2>7, <2>8 DEF Agrees, next, f
<1>9. CASE ~(LineStart(text, n + 1) /\ IsItem(text, n + 1))
  <2>1. next = [out |-> Append(state.out, at.char), number |-> state.number,
                inBlock |-> state.inBlock /\ ~at.start]
    BY <1>1, <1>3, <1>9 DEF RenumberStep
  <2> HIDE DEF state, at, next, f
  <2>2. next.out = [i \in 1 .. n + 1 |-> f[i]]
    BY <1>3, <1>6, <1>7, <1>9, <2>1
  <2>3. CASE LineStart(text, n + 1)
    <3>1. BlockUpTo(text, n + 1) = {}
      BY <1>9, <2>3, BlockStep
    <3>2. next.inBlock = FALSE
      BY <1>2, <1>3, <2>1, <2>3
    <3>3. QED
      BY <2>2, <3>1, <3>2 DEF Agrees, next, f
  <2>4. CASE ~LineStart(text, n + 1)
    <3>1. BlockUpTo(text, n + 1) = block
      BY <2>4, BlockStep
    <3>2. next.inBlock = state.inBlock /\ next.number = state.number
      BY <1>2, <1>3, <2>1, <2>4
    <3>3. QED
      BY <1>2, <2>2, <3>1, <3>2 DEF Agrees, next, f
  <2>5. QED
    BY <2>3, <2>4
<1>10. QED
  BY <1>8, <1>9

\* renumber_ordered_lists numbers the items of every block of every text 1, 2, ... up to the
\* last number, and changes nothing else.
THEOREM RenumberingCorrect ==
  ASSUME NEW X, NEW text \in Seq(X)
  PROVE  Renumber(text) = Numbered(text)
<1> DEFINE P == {n \in Nat : n <= Len(text) => Agrees(text, n)}
<1>1. 0 \in P
  <2>1. After(text, 0) = NoLines
    BY AfterStep
  <2>2. BlockUpTo(text, 0) = {}
    BY DEF BlockUpTo
  <2>3. [i \in 1 .. 0 |-> Numbered(text)[i]] = <<>>
    OBVIOUS
  <2>4. After(text, 0).out = <<>> /\ After(text, 0).inBlock = FALSE
    BY <2>1 DEF NoLines
  <2>5. After(text, 0).out = [i \in 1 .. 0 |-> Numbered(text)[i]]
    BY <2>3, <2>4
  <2>6. Agrees(text, 0)
    BY <2>2, <2>4, <2>5 DEF Agrees
  <2>7. QED
    BY <2>6
<1>2. ASSUME NEW n \in Nat, n \in P
      PROVE  n + 1 \in P
  <2>1. CASE n + 1 <= Len(text)
    BY <1>2, <2>1, AgreesStep
  <2>2. CASE ~(n + 1 <= Len(text))
    BY <2>2
  <2>3. QED
    BY <2>1, <2>2
<1> HIDE DEF P
<1>3. Len(text) \in P
  BY <1>1, <1>2, Renumbering!Induction
<1>4. Agrees(text, Len(text))
  BY <1>3 DEF P
<1>5. Renumber(text) = [i \in 1 .. Len(text) |-> Numbered(text)[i]]
  BY <1>4, RenumberIsAfter DEF Agrees
<1>6. DOMAIN text = 1 .. Len(text)
  OBVIOUS
<1>7. QED
  BY <1>5, <1>6 DEF Numbered
===============================================================================
