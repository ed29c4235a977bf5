------------------------------ MODULE TextsProofs ------------------------------
(***************************************************************************)
(* Theorems about the algorithms on texts, for every size of the buffers   *)
(* and any number of pieces.                                               *)
(***************************************************************************)
EXTENDS MCTexts, CommandLineProofs

\* What the pieces are made of.
Character == {"1", "7", "0", "5", ".", " ", "a", LineFeed, "INSERT", "DEL", "LINK", "-", "\t",
         "VERSION", "END", "DISCONNECT", "u", "v", "write", "owner", "#"}

TextOK == text \in Seq(Character) /\ kind \in DOMAIN PiecesOf

LEMMA PiecesType ==
  ASSUME NEW k \in DOMAIN PiecesOf, NEW piece \in PiecesOf[k]
  PROVE  piece \in Seq(Character)
<1>1. /\ {"1", "7", "0", "5", ".", " ", "a", LineFeed} \subseteq Character
      /\ {"INSERT", "DEL", "LINK", "-", "\t", "VERSION", "END", "DISCONNECT"} \subseteq Character
      /\ {"u", "v", "write", "owner", "#"} \subseteq Character
  BY Zenon DEF Character
<1> DEFINE T == Seq(Character)
<1>2. /\ \A a \in Character : <<a>> \in T
      /\ \A a, b \in Character : <<a, b>> \in T
      /\ \A a, b, c \in Character : <<a, b, c>> \in T
      /\ \A a, b, c, d \in Character : <<a, b, c, d>> \in T
  BY ShortSequences
<1> HIDE DEF T
<1>3. PiecesOf.list \subseteq T
  <2>1. /\ <<"1", ".", " ">> \in T
        /\ <<"7", ".", " ">> \in T
        /\ <<"0", ".">> \in T
        /\ <<" ", "a">> \in T
        /\ <<LineFeed>> \in T
        /\ <<LineFeed, "5", ".", " ">> \in T
    BY <1>1, <1>2
  <2>2. QED
    BY <2>1, Zenon DEF PiecesOf
<1>4. PiecesOf.line \subseteq T
  <2>1. /\ <<"INSERT">> \in T
        /\ <<"DEL">> \in T
        /\ <<"LINK">> \in T
        /\ <<" ">> \in T
        /\ <<" ", "1">> \in T
        /\ <<"1">> \in T
        /\ <<" ", "-">> \in T
        /\ <<"\t">> \in T
    BY <1>1, <1>2
  <2>2. QED
    BY <2>1, Zenon DEF PiecesOf
<1>5. PiecesOf.typed \subseteq T
  <2>1. /\ <<"a">> \in T
        /\ <<"VERSION">> \in T
        /\ <<"END">> \in T
        /\ <<"DISCONNECT">> \in T
        /\ <<LineFeed>> \in T
    BY <1>1, <1>2
  <2>2. QED
    BY <2>1, Zenon DEF PiecesOf
<1>6. PiecesOf.roles \subseteq T
  <2>1. /\ <<"u">> \in T
        /\ <<"v">> \in T
        /\ <<"write">> \in T
        /\ <<"owner">> \in T
        /\ <<"#">> \in T
        /\ <<LineFeed>> \in T
    BY <1>1, <1>2
  <2>2. QED
    BY <2>1, Zenon DEF PiecesOf
<1>7. k \in {"list", "line", "typed", "roles"}
  BY DEF PiecesOf
<1>8. QED
  BY <1>3, <1>4, <1>5, <1>6, <1>7 DEF T

LEMMA TextTyped == Spec => []TextOK
<1>1. Init => TextOK
  BY DEF Init, TextOK
<1>2. ASSUME TextOK, [Next]_<<text, kind, pieces>>
      PROVE  TextOK'
  <2>1. CASE UNCHANGED <<text, kind, pieces>>
    BY <1>2, <2>1 DEF TextOK
  <2>2. CASE Next
    <3>1. PICK piece \in PiecesOf[kind] : text' = text \o piece
      BY <2>2 DEF Next
    <3>2. piece \in Seq(Character)
      BY <1>2, PiecesType DEF TextOK
    <3>3. text' \in Seq(Character) /\ kind' = kind
      BY <1>2, <2>2, <3>1, <3>2 DEF TextOK, Next
    <3>4. QED
      BY <1>2, <3>3 DEF TextOK
  <2>3. QED
    BY <1>2, <2>1, <2>2
<1>3. QED
  BY <1>1, <1>2, PTL DEF Spec

\* The texts of the run are an instance of RenumberingCorrect: renumber_ordered_lists numbers
\* the items of every block of them and changes nothing else.
THEOREM TextsRenumbered == Spec => []RenumberCorrect
<1>1. TextOK => RenumberCorrect
  BY RenumberingCorrect DEF TextOK, RenumberCorrect
<1>2. QED
  BY <1>1, TextTyped, PTL

\* command_execute reads what the words of a line say, however many blanks are between them,
\* and inserts exactly the text after the blank behind the position.
THEOREM CommandsAlwaysRead == Spec => []CommandsRead
<1>1. TextOK => CommandsRead
  <2>1. ASSUME TextOK, NEW line \in {text, Append(text, LineFeed)}
        PROVE  Parse(line) = Meaning(line)
    <3>1. LineFeed \in Character /\ text \in Seq(Character)
      BY <2>1 DEF TextOK, Character
    <3>2. line \in Seq(Character)
      BY <2>1, <3>1
    <3>3. QED
      BY <3>2, ParsingCorrect
  <2>2. QED
    BY <2>1 DEF CommandsRead
<1>2. QED
  BY <1>1, TextTyped, PTL

-------------------------------------------------------------------------------
(* How fgets cuts a text *)

Associates(a, b, c) == (a \o b) \o c = a \o (b \o c)

LEMMA ConcatAssociates ==
  ASSUME NEW X, NEW a \in Seq(X), NEW b \in Seq(X), NEW c \in Seq(X)
  PROVE  Associates(a, b, c)
  BY ConcatAssociative DEF Associates

AppendsBehind(a, b, e) == a \o Append(b, e) = Append(a \o b, e)

LEMMA ConcatAppends ==
  ASSUME NEW X, NEW a \in Seq(X), NEW b \in Seq(X), NEW e \in X
  PROVE  AppendsBehind(a, b, e)
  BY DEF AppendsBehind

CutLine(at, item) == PieceStep(at, item, LineSize)
CutName(at, item) == PieceStep(at, item, NameSize)
CutRole(at, item) == PieceStep(at, item, AuthLineSize)
CutWhole(at, item) == PieceStep(at, item, Len(text) + 2)

CuttingLines == INSTANCE FoldLaws WITH Op <- CutLine
CuttingNames == INSTANCE FoldLaws WITH Op <- CutName
CuttingRoles == INSTANCE FoldLaws WITH Op <- CutRole
CuttingWhole == INSTANCE FoldLaws WITH Op <- CutWhole

\* The sizes of the buffers, and one that every line fits into.
Sizes == {LineSize, NameSize, AuthLineSize, Len(text) + 2}

LEMMA SizesType == TextOK => Sizes \subseteq Nat /\ \A size \in Sizes : size > 1
  BY SizesAssumption, AuthAssumption DEF Sizes, TextOK

\* Where fgets is after a text.
Cut(at, s, size) == FoldLeft(LAMBDA state, item : PieceStep(state, item, size), at, s)

Uncut == [pieces |-> <<>>, piece |-> <<>>]

LEMMA CutIsFold ==
  ASSUME NEW at, NEW s
  PROVE  /\ Cut(at, s, LineSize) = CuttingLines!Fold(at, s)
         /\ Cut(at, s, NameSize) = CuttingNames!Fold(at, s)
         /\ Cut(at, s, AuthLineSize) = CuttingRoles!Fold(at, s)
         /\ Cut(at, s, Len(text) + 2) = CuttingWhole!Fold(at, s)
<1>1. Cut(at, s, LineSize) = CuttingLines!Fold(at, s)
  BY DEF Cut, CutLine, CuttingLines!Fold, FoldLeft, CuttingLines!FoldLeft, MapThenFoldSet,
         CuttingLines!MapThenFoldSet, Max, CuttingLines!Max
<1>2. Cut(at, s, NameSize) = CuttingNames!Fold(at, s)
  BY DEF Cut, CutName, CuttingNames!Fold, FoldLeft, CuttingNames!FoldLeft, MapThenFoldSet,
         CuttingNames!MapThenFoldSet, Max, CuttingNames!Max
<1>3. Cut(at, s, AuthLineSize) = CuttingRoles!Fold(at, s)
  BY DEF Cut, CutRole, CuttingRoles!Fold, FoldLeft, CuttingRoles!FoldLeft, MapThenFoldSet,
         CuttingRoles!MapThenFoldSet, Max, CuttingRoles!Max
<1>4. Cut(at, s, Len(text) + 2) = CuttingWhole!Fold(at, s)
  BY DEF Cut, CutWhole, CuttingWhole!Fold, FoldLeft, CuttingWhole!FoldLeft, MapThenFoldSet,
         CuttingWhole!MapThenFoldSet, Max, CuttingWhole!Max
<1>5. QED
  BY <1>1, <1>2, <1>3, <1>4

LEMMA CutEmpty == ASSUME NEW at, NEW size \in Sizes PROVE Cut(at, <<>>, size) = at
  BY CutIsFold, CuttingLines!FoldEmpty, CuttingNames!FoldEmpty, CuttingRoles!FoldEmpty,
     CuttingWhole!FoldEmpty DEF Sizes

LEMMA CutAppend ==
  ASSUME NEW X, NEW s \in Seq(X), NEW e \in X, NEW at, NEW size \in Sizes
  PROVE  Cut(at, Append(s, e), size) = PieceStep(Cut(at, s, size), e, size)
<1>1. CASE size = LineSize
  BY <1>1, CutIsFold, CuttingLines!FoldAppend DEF CutLine
<1>2. CASE size = NameSize
  BY <1>2, CutIsFold, CuttingNames!FoldAppend DEF CutName
<1>3. CASE size = AuthLineSize
  BY <1>3, CutIsFold, CuttingRoles!FoldAppend DEF CutRole
<1>4. CASE size = Len(text) + 2
  BY <1>4, CutIsFold, CuttingWhole!FoldAppend DEF CutWhole
<1>5. QED
  BY <1>1, <1>2, <1>3, <1>4 DEF Sizes

LEMMA CutConcat ==
  ASSUME NEW X, NEW s \in Seq(X), NEW t \in Seq(X), NEW at, NEW size \in Sizes
  PROVE  Cut(at, s \o t, size) = Cut(Cut(at, s, size), t, size)
<1>1. CASE size = LineSize
  BY <1>1, CutIsFold, CuttingLines!FoldConcat
<1>2. CASE size = NameSize
  BY <1>2, CutIsFold, CuttingNames!FoldConcat
<1>3. CASE size = AuthLineSize
  BY <1>3, CutIsFold, CuttingRoles!FoldConcat
<1>4. CASE size = Len(text) + 2
  BY <1>4, CutIsFold, CuttingWhole!FoldConcat
<1>5. QED
  BY <1>1, <1>2, <1>3, <1>4 DEF Sizes

\* What fgets returns has one line feed at most, at its end; the rest of the buffer is full.
Open(piece, size) ==
    Len(piece) < size - 1 /\ \A i \in 1 .. Len(piece) : piece[i] # LineFeed
Full(piece, size) ==
    /\ piece # <<>> /\ Len(piece) < size
    /\ \A i \in 1 .. Len(piece) - 1 : piece[i] # LineFeed
    /\ piece[Len(piece)] = LineFeed \/ Len(piece) = size - 1

\* Where fgets is: what it has returned and what is in its buffer.
Holding(ps, p) == [pieces |-> ps, piece |-> p]
Done(ps) == Holding(ps, <<>>)

\* The pieces before do not matter.
LEMMA CutShift ==
  ASSUME NEW X, NEW s \in Seq(X), NEW ps \in Seq(Seq(X)), NEW p \in Seq(X), NEW size \in Sizes
  PROVE  LET rest == Cut(Holding(<<>>, p), s, size) IN
         /\ rest \in [pieces : Seq(Seq(X)), piece : Seq(X)]
         /\ Cut(Holding(ps, p), s, size) = Holding(ps \o rest.pieces, rest.piece)
<1> DEFINE a == [pieces |-> <<>>, piece |-> p]
           b == [pieces |-> ps, piece |-> p]
           T == [pieces : Seq(Seq(X)), piece : Seq(X)]
           Prefixed(c) == [pieces |-> ps \o c.pieces, piece |-> c.piece]
           Shifted(r) == Cut(a, r, size) \in T /\ Cut(b, r, size) = Prefixed(Cut(a, r, size))
           P == {r \in Seq(X) : Shifted(r)}
<1>1. Shifted(<<>>)
  <2>1. Cut(a, <<>>, size) = a /\ Cut(b, <<>>, size) = b
    BY CutEmpty
  <2>2. ps \o <<>> = ps /\ <<>> \in Seq(Seq(X)) /\ <<>> \in Seq(X)
    BY ConcatEmptySeq
  <2>3. a \in T /\ Prefixed(a) = b
    BY <2>2
  <2>4. QED
    BY <2>1, <2>3
<1>2. ASSUME NEW r \in Seq(X), NEW e \in X, Shifted(r)
      PROVE  Shifted(Append(r, e))
  <2> DEFINE c == Cut(a, r, size)
             piece == Append(c.piece, e)
  <2>1. c \in T /\ Cut(b, r, size) = [pieces |-> ps \o c.pieces, piece |-> c.piece]
    BY <1>2
  <2>2. Append(r, e) \in Seq(X) /\ piece \in Seq(X)
    BY <2>1
  <2>3. Cut(a, Append(r, e), size) = PieceStep(c, e, size)
    BY CutAppend
  <2>4. Cut(b, Append(r, e), size) = PieceStep([pieces |-> ps \o c.pieces, piece |-> c.piece], e, size)
    BY <2>1, CutAppend
  <2> HIDE DEF a, b, c
  <2>5. ps \o Append(c.pieces, piece) = Append(ps \o c.pieces, piece)
        /\ Append(c.pieces, piece) \in Seq(Seq(X)) /\ <<>> \in Seq(X)
    <3>1. PICK qs \in Seq(Seq(X)), w \in Seq(X) : qs = c.pieces /\ w = piece
      BY <2>1, <2>2
    <3>2. AppendsBehind(ps, qs, w)
      BY ConcatAppends
    <3>3. Append(qs, w) \in Seq(Seq(X)) /\ <<>> \in Seq(X)
      OBVIOUS
    <3>4. QED
      BY <3>1, <3>2, <3>3, Zenon DEF AppendsBehind
  <2>6. CASE e = LineFeed \/ Len(piece) = size - 1
    <3>1. PieceStep(c, e, size) = [pieces |-> Append(c.pieces, piece), piece |-> <<>>]
      BY <2>6 DEF PieceStep
    <3>2. PieceStep([pieces |-> ps \o c.pieces, piece |-> c.piece], e, size)
            = [pieces |-> Append(ps \o c.pieces, piece), piece |-> <<>>]
      BY <2>6 DEF PieceStep
    <3> HIDE DEF piece
    <3>3. PieceStep(c, e, size) \in T
      BY <2>5, <3>1
    <3>4. Prefixed(PieceStep(c, e, size)) = [pieces |-> ps \o Append(c.pieces, piece), piece |-> <<>>]
      BY <3>1
    <3>5. QED
      BY <2>3, <2>4, <2>5, <3>2, <3>3, <3>4
  <2>7. CASE ~(e = LineFeed \/ Len(piece) = size - 1)
    <3>1. PieceStep(c, e, size) = [pieces |-> c.pieces, piece |-> piece]
      BY <2>1, <2>7 DEF PieceStep
    <3>2. PieceStep([pieces |-> ps \o c.pieces, piece |-> c.piece], e, size)
            = [pieces |-> ps \o c.pieces, piece |-> piece]
      BY <2>7 DEF PieceStep
    <3> HIDE DEF piece
    <3>3. PieceStep(c, e, size) \in T /\ Prefixed(PieceStep(c, e, size))
            = PieceStep([pieces |-> ps \o c.pieces, piece |-> c.piece], e, size)
      BY <2>1, <2>2, <3>1, <3>2
    <3>4. QED
      BY <2>3, <2>4, <3>3
  <2>8. QED
    BY <2>6, <2>7
<1> HIDE DEF Shifted
<1>3. <<>> \in P /\ \A r \in Seq(X) : \A e \in X : r \in P => Append(r, e) \in P
  BY <1>1, <1>2
<1> HIDE DEF P
<1>4. s \in P
  BY <1>3, CuttingLines!SequenceInduction
<1>5. Shifted(s)
  BY <1>4 DEF P
<1>6. QED
  BY <1>5 DEF Shifted, Holding

LEMMA CutAfter ==
  ASSUME NEW X, NEW s \in Seq(X), NEW ps \in Seq(Seq(X)), NEW size \in Sizes,
         NEW qs \in Seq(Seq(X)), NEW q \in Seq(X), Cut(Uncut, s, size) = Holding(qs, q)
  PROVE  Cut(Done(ps), s, size) = Holding(ps \o qs, q)
<1>1. PICK none \in Seq(X) : none = <<>>
  <2>1. <<>> \in Seq(X)
    OBVIOUS
  <2>2. QED
    BY <2>1
<1> DEFINE rest == Cut(Holding(<<>>, none), s, size)
<1>2. rest = Holding(qs, q)
  BY <1>1 DEF Uncut, Holding
<1>3. Cut(Holding(ps, none), s, size) = Holding(ps \o rest.pieces, rest.piece)
  BY CutShift
<1> HIDE DEF rest
<1>4. rest.pieces = qs /\ rest.piece = q
  BY <1>2 DEF Holding
<1>5. QED
  BY <1>1, <1>3, <1>4 DEF Done

LEMMA CutAfterDone ==
  ASSUME NEW X, NEW s \in Seq(X), NEW ps \in Seq(Seq(X)), NEW size \in Sizes,
         NEW qs \in Seq(Seq(X)), Cut(Uncut, s, size) = Done(qs)
  PROVE  Cut(Done(ps), s, size) = Done(ps \o qs)
<1>1. PICK none \in Seq(X) : none = <<>>
  <2>1. <<>> \in Seq(X)
    OBVIOUS
  <2>2. QED
    BY <2>1
<1>2. Cut(Uncut, s, size) = Holding(qs, none)
  BY <1>1 DEF Done
<1>3. Cut(Done(ps), s, size) = Holding(ps \o qs, none)
  BY <1>2, CutAfter
<1>4. QED
  BY <1>1, <1>3 DEF Done

LEMMA PiecesOfHolding ==
  ASSUME NEW X, NEW s \in Seq(X), NEW size, NEW qs \in Seq(Seq(X)), NEW q \in Seq(X),
         Cut(Uncut, s, size) = Holding(qs, q)
  PROVE  Pieces(s, size) = IF q = <<>> THEN qs ELSE Append(qs, q)
<1> DEFINE end == Cut(Uncut, s, size)
<1>1. Pieces(s, size) = end.pieces \o (IF end.piece = <<>> THEN <<>> ELSE <<end.piece>>)
  BY DEF Pieces, Cut, Uncut
<1> HIDE DEF end
<1>2. end.pieces = qs /\ end.piece = q
  BY DEF Holding, end
<1>3. qs \o <<>> = qs /\ qs \o <<q>> = Append(qs, q)
  OBVIOUS
<1>4. QED
  BY <1>1, <1>2, <1>3

LEMMA PiecesOfDone ==
  ASSUME NEW X, NEW s \in Seq(X), NEW size, NEW qs \in Seq(Seq(X)), Cut(Uncut, s, size) = Done(qs)
  PROVE  Pieces(s, size) = qs
<1> DEFINE end == Cut(Uncut, s, size)
<1>1. Pieces(s, size) = end.pieces \o (IF end.piece = <<>> THEN <<>> ELSE <<end.piece>>)
  BY DEF Pieces, Cut, Uncut
<1> HIDE DEF end
<1>2. end.pieces = qs /\ end.piece = <<>>
  BY DEF Holding, Done, end
<1>3. qs \o <<>> = qs
  OBVIOUS
<1>4. QED
  BY <1>1, <1>2, <1>3

\* A text that is cut nowhere, or only at its end.
LEMMA CutOpen ==
  ASSUME NEW X, NEW q \in Seq(X), NEW size \in Sizes, TextOK, Open(q, size)
  PROVE  Cut(Uncut, q, size) = Holding(<<>>, q)
<1> DEFINE P == {r \in Seq(X) : Open(r, size) => Cut(Uncut, r, size) = Holding(<<>>, r)}
<1>1. <<>> \in P
  BY CutEmpty DEF Uncut, Holding
<1>2. ASSUME NEW r \in Seq(X), NEW e \in X, r \in P, Open(Append(r, e), size)
      PROVE  Cut(Uncut, Append(r, e), size) = Holding(<<>>, Append(r, e))
  <2>1. size \in Nat
    BY SizesType
  <2>2. Open(r, size) /\ e # LineFeed /\ Len(Append(r, e)) # size - 1
    BY <1>2, <2>1 DEF Open
  <2>3. QED
    BY <1>2, <2>2, CutAppend DEF PieceStep, Holding
<1>3. \A r \in Seq(X) : \A e \in X : r \in P => Append(r, e) \in P
  BY <1>2
<1> HIDE DEF P
<1>4. q \in P
  BY <1>1, <1>3, CuttingLines!SequenceInduction
<1>5. QED
  BY <1>4 DEF P

LEMMA CutFull ==
  ASSUME NEW X, NEW p \in Seq(X), NEW size \in Sizes, TextOK, Full(p, size)
  PROVE  Cut(Uncut, p, size) = Done(<<p>>)
<1>1. size \in Nat /\ p # <<>>
  BY SizesType DEF Full
<1>2. PICK q \in Seq(X), e \in X : p = Append(q, e)
  BY <1>1, SequenceEmptyOrAppend
<1>3. Len(p) = Len(q) + 1 /\ p[Len(p)] = e /\ \A i \in 1 .. Len(q) : p[i] = q[i]
  BY <1>2
<1>4. Open(q, size)
  BY <1>1, <1>3 DEF Full, Open
<1>5. e = LineFeed \/ Len(p) = size - 1
  BY <1>3 DEF Full
<1>6. Cut(Uncut, p, size) = PieceStep(Holding(<<>>, q), e, size)
  BY <1>2, <1>4, CutAppend, CutOpen
<1>7. QED
  BY <1>2, <1>5, <1>6 DEF PieceStep, Holding, Done

-------------------------------------------------------------------------------
(* Texts put together from pieces *)

IsFlatten(f, n, ps) == f = [i \in 1 .. n |-> IF i = 1 THEN ps[i] ELSE f[i - 1] \o ps[i]]

LEMMA IsFlattenExists ==
  ASSUME NEW ps, NEW k \in Nat
  PROVE  \E f : IsFlatten(f, k, ps)
<1> DEFINE P == {n \in Nat : \E f : IsFlatten(f, n, ps)}
<1>1. 0 \in P
  <2>1. IsFlatten(<<>>, 0, ps)
    BY DEF IsFlatten
  <2>2. QED
    BY <2>1
<1>2. ASSUME NEW n \in Nat, n \in P
      PROVE  n + 1 \in P
  <2>1. PICK f : IsFlatten(f, n, ps)
    BY <1>2
  <2> DEFINE last == IF n + 1 = 1 THEN ps[n + 1] ELSE f[n] \o ps[n + 1]
  <2> HIDE DEF last
  <2> DEFINE g == [i \in 1 .. n + 1 |-> IF i = n + 1 THEN last ELSE f[i]]
  <2>2. g[n + 1] = last /\ \A i \in 1 .. n : g[i] = f[i]
    OBVIOUS
  <2>3. \A i \in 1 .. n : f[i] = IF i = 1 THEN ps[i] ELSE f[i - 1] \o ps[i]
    BY <2>1 DEF IsFlatten
  <2>4. ASSUME NEW i \in 1 .. n
        PROVE  g[i] = IF i = 1 THEN ps[i] ELSE g[i - 1] \o ps[i]
    <3>1. i # 1 => i - 1 \in 1 .. n
      OBVIOUS
    <3> HIDE DEF g
    <3>2. QED
      BY <2>2, <2>3, <3>1
  <2>5. last = IF n + 1 = 1 THEN ps[n + 1] ELSE g[(n + 1) - 1] \o ps[n + 1]
    <3> USE DEF last
    <3>1. n + 1 # 1 => n \in 1 .. n /\ (n + 1) - 1 = n
      OBVIOUS
    <3> HIDE DEF g
    <3>2. QED
      BY <2>2, <3>1
  <2>6. g = [i \in 1 .. n + 1 |-> g[i]]
    OBVIOUS
  <2> HIDE DEF g
  <2>7. \A i \in 1 .. n + 1 : g[i] = IF i = 1 THEN ps[i] ELSE g[i - 1] \o ps[i]
    <3>1. \A i \in 1 .. n + 1 : i = n + 1 \/ i \in 1 .. n
      OBVIOUS
    <3>2. QED
      BY <2>2, <2>4, <2>5, <3>1
  <2>8. IsFlatten(g, n + 1, ps)
    BY <2>6, <2>7 DEF IsFlatten
  <2>9. QED
    BY <2>8
<1> HIDE DEF P
<1>3. k \in P
  BY <1>1, <1>2, CuttingLines!Induction
<1>4. QED
  BY <1>3 DEF P

SameUpTo(f, g, n) == \A i \in 1 .. n : f[i] = g[i]

LEMMA IsFlattenUnique ==
  ASSUME NEW ps, NEW qs, NEW n \in Nat, NEW m \in Nat, n <= m,
         NEW f, NEW g, IsFlatten(f, n, ps), IsFlatten(g, m, qs), SameUpTo(ps, qs, n)
  PROVE  SameUpTo(f, g, n)
<1> DEFINE P == {i \in Nat : i \in 1 .. n => f[i] = g[i]}
<1>1. 0 \in P
  OBVIOUS
<1>2. ASSUME NEW i \in Nat, i \in P, i + 1 \in 1 .. n
      PROVE  f[i + 1] = g[i + 1]
  <2>1. f[i + 1] = IF i + 1 = 1 THEN ps[i + 1] ELSE f[(i + 1) - 1] \o ps[i + 1]
    <3>1. i + 1 \in 1 .. n
      BY <1>2
    <3>2. QED
      BY <3>1 DEF IsFlatten
  <2>2. g[i + 1] = IF i + 1 = 1 THEN qs[i + 1] ELSE g[(i + 1) - 1] \o qs[i + 1]
    <3>1. i + 1 \in 1 .. m
      BY <1>2
    <3>2. QED
      BY <3>1 DEF IsFlatten
  <2>3. (i + 1) - 1 = i /\ (i + 1 # 1 => i \in 1 .. n)
    BY <1>2
  <2>4. QED
    BY <1>2, <2>1, <2>2, <2>3 DEF SameUpTo
<1>3. \A i \in Nat : i \in P => i + 1 \in P
  BY <1>2
<1> HIDE DEF P
<1>4. \A i \in Nat : i \in P
  BY <1>1, <1>3, CuttingLines!Induction
<1>5. QED
  BY <1>4 DEF P, SameUpTo

LEMMA FlattenIsFlatten ==
  ASSUME NEW ps, Len(ps) \in Nat \ {0}
  PROVE  \E f : IsFlatten(f, Len(ps), ps) /\ FlattenSeq(ps) = f[Len(ps)]
<1> DEFINE f == CHOOSE f : IsFlatten(f, Len(ps), ps)
<1>1. IsFlatten(f, Len(ps), ps)
  BY IsFlattenExists
<1>2. FlattenSeq(ps) = f[Len(ps)]
  BY DEF FlattenSeq, IsFlatten
<1>3. QED
  BY <1>1, <1>2

LEMMA FlattenEmpty == FlattenSeq(<<>>) = <<>>
  BY DEF FlattenSeq

LEMMA FlattenStep ==
  ASSUME NEW X, NEW ps \in Seq(Seq(X)), NEW p \in Seq(X)
  PROVE  FlattenSeq(Append(ps, p)) = IF ps = <<>> THEN p ELSE FlattenSeq(ps) \o p
<1>0. PICK n \in Nat, m \in Nat, qs \in Seq(Seq(X)) : n = Len(ps) /\ m = n + 1 /\ qs = Append(ps, p)
  <2>1. Len(ps) \in Nat /\ Len(ps) + 1 \in Nat /\ Append(ps, p) \in Seq(Seq(X))
    OBVIOUS
  <2>2. QED
    BY <2>1
<1>1. /\ n = Len(ps) /\ m = n + 1 /\ Len(qs) = m /\ qs[n + 1] = p /\ \A i \in 1 .. n : qs[i] = ps[i]
      /\ ps = <<>> <=> n = 0
  BY <1>0
<1>2. PICK g : IsFlatten(g, m, qs) /\ FlattenSeq(qs) = g[m]
  <2>1. Len(qs) \in Nat \ {0}
    BY <1>1
  <2>2. QED
    BY <1>1, <2>1, FlattenIsFlatten
<1>3. g[m] = IF m = 1 THEN p ELSE g[n] \o p
  <2>1. m \in 1 .. m /\ m - 1 = n
    BY <1>1
  <2>2. g[m] = IF m = 1 THEN qs[m] ELSE g[m - 1] \o qs[m]
    BY <1>2, <2>1 DEF IsFlatten
  <2>3. QED
    BY <1>1, <2>1, <2>2
<1>4. CASE ps = <<>>
  BY <1>0, <1>1, <1>2, <1>3, <1>4
<1>5. CASE ps # <<>>
  <2>1. PICK f : IsFlatten(f, n, ps) /\ FlattenSeq(ps) = f[n]
    BY <1>1, <1>5, FlattenIsFlatten
  <2>2. n \in 1 .. n /\ n <= m
    BY <1>1, <1>5
  <2>3. SameUpTo(ps, qs, n)
    BY <1>1 DEF SameUpTo
  <2>4. SameUpTo(f, g, n)
    BY <1>1, <1>2, <2>1, <2>2, <2>3, IsFlattenUnique
  <2>5. QED
    <3>1. f[n] = g[n] /\ m # 1
      BY <1>1, <1>5, <2>2, <2>4 DEF SameUpTo
    <3>2. QED
      BY <1>0, <1>2, <1>3, <1>5, <2>1, <3>1
<1>6. QED
  BY <1>4, <1>5

LEMMA FlattenType ==
  ASSUME NEW X, NEW ps \in Seq(Seq(X))
  PROVE  FlattenSeq(ps) \in Seq(X)
<1> DEFINE P == {qs \in Seq(Seq(X)) : FlattenSeq(qs) \in Seq(X)}
<1>1. <<>> \in P
  <2>1. <<>> \in Seq(Seq(X)) /\ <<>> \in Seq(X)
    OBVIOUS
  <2>2. QED
    BY <2>1, FlattenEmpty
<1>2. ASSUME NEW qs \in Seq(Seq(X)), NEW q \in Seq(X), qs \in P
      PROVE  Append(qs, q) \in P
  <2>1. FlattenSeq(Append(qs, q)) = IF qs = <<>> THEN q ELSE FlattenSeq(qs) \o q
    BY FlattenStep
  <2>2. FlattenSeq(qs) \in Seq(X) /\ FlattenSeq(qs) \o q \in Seq(X) /\ Append(qs, q) \in Seq(Seq(X))
    BY <1>2
  <2>3. QED
    BY <2>1, <2>2
<1> HIDE DEF P
<1>3. ps \in P
  BY <1>1, <1>2, CuttingLines!SequenceInduction
<1>4. QED
  BY <1>3 DEF P

LEMMA FlattenAppend ==
  ASSUME NEW X, NEW ps \in Seq(Seq(X)), NEW p \in Seq(X)
  PROVE  FlattenSeq(Append(ps, p)) = FlattenSeq(ps) \o p
<1>1. <<>> \o p = p
  BY ConcatEmptySeq
<1>2. QED
  BY <1>1, FlattenStep, FlattenEmpty

LEMMA FlattenConcat ==
  ASSUME NEW X, NEW ps \in Seq(Seq(X)), NEW qs \in Seq(Seq(X))
  PROVE  FlattenSeq(ps \o qs) = FlattenSeq(ps) \o FlattenSeq(qs)
<1> DEFINE P == {rs \in Seq(Seq(X)) : FlattenSeq(ps \o rs) = FlattenSeq(ps) \o FlattenSeq(rs)}
<1>1. <<>> \in P
  <2>1. ps \o <<>> = ps /\ FlattenSeq(ps) \o <<>> = FlattenSeq(ps)
    BY ConcatEmptySeq, FlattenType
  <2>2. <<>> \in Seq(Seq(X))
    OBVIOUS
  <2>3. QED
    BY <2>1, <2>2, FlattenEmpty
<1>2. ASSUME NEW rs \in Seq(Seq(X)), NEW r \in Seq(X), rs \in P
      PROVE  Append(rs, r) \in P
  <2>1. ps \o Append(rs, r) = Append(ps \o rs, r) /\ ps \o rs \in Seq(Seq(X))
        /\ Append(rs, r) \in Seq(Seq(X))
    <3>1. AppendsBehind(ps, rs, r)
      BY ConcatAppends
    <3>2. ps \o rs \in Seq(Seq(X)) /\ Append(rs, r) \in Seq(Seq(X))
      OBVIOUS
    <3>3. QED
      BY <3>1, <3>2, Zenon DEF AppendsBehind
  <2>2. /\ FlattenSeq(Append(ps \o rs, r)) = FlattenSeq(ps \o rs) \o r
        /\ FlattenSeq(Append(rs, r)) = FlattenSeq(rs) \o r
    BY <2>1, FlattenAppend
  <2>3. (FlattenSeq(ps) \o FlattenSeq(rs)) \o r = FlattenSeq(ps) \o (FlattenSeq(rs) \o r)
    <3>1. PICK a \in Seq(X), b \in Seq(X) : a = FlattenSeq(ps) /\ b = FlattenSeq(rs)
      BY FlattenType
    <3>2. Associates(a, b, r)
      BY ConcatAssociates
    <3>3. QED
      BY <3>1, <3>2, Zenon DEF Associates
  <2>4. QED
    BY <1>2, <2>1, <2>2, <2>3
<1> HIDE DEF P
<1>3. qs \in P
  BY <1>1, <1>2, CuttingLines!SequenceInduction
<1>4. QED
  BY <1>3 DEF P

\* What is cut off is full, what is left is not, and together they are the text.
IsCut(s, size, qs, q) ==
    /\ Cut(Uncut, s, size) = Holding(qs, q)
    /\ \A i \in 1 .. Len(qs) : Full(qs[i], size)
    /\ Open(q, size)
    /\ FlattenSeq(qs) \o q = s

LEMMA CutSound ==
  ASSUME NEW X, NEW s \in Seq(X), NEW size \in Sizes, TextOK
  PROVE  \E qs \in Seq(Seq(X)), q \in Seq(X) : IsCut(s, size, qs, q)
<1> DEFINE Sound(r) == \E qs \in Seq(Seq(X)), q \in Seq(X) : IsCut(r, size, qs, q)
           P == {r \in Seq(X) : Sound(r)}
<1>0. size \in Nat /\ size > 1
  BY SizesType
<1>1. Sound(<<>>)
  <2>1. Cut(Uncut, <<>>, size) = Holding(<<>>, <<>>)
    BY CutEmpty DEF Uncut, Holding
  <2>2. Open(<<>>, size) /\ <<>> \o <<>> = <<>> /\ <<>> \in Seq(Seq(X)) /\ <<>> \in Seq(X)
    BY <1>0 DEF Open
  <2>3. IsCut(<<>>, size, <<>>, <<>>)
    BY <2>1, <2>2, FlattenEmpty DEF IsCut
  <2>4. QED
    BY <2>2, <2>3
<1>2. ASSUME NEW r \in Seq(X), NEW e \in X, Sound(r)
      PROVE  Sound(Append(r, e))
  <2>1. PICK cs \in Seq(Seq(X)), c \in Seq(X) : IsCut(r, size, cs, c)
    BY <1>2
  <2>2. PICK p \in Seq(X) : p = Append(c, e)
    <3>1. Append(c, e) \in Seq(X)
      OBVIOUS
    <3>2. QED
      BY <3>1
  <2>3. /\ Len(p) = Len(c) + 1 /\ p[Len(p)] = e
        /\ \A i \in 1 .. Len(p) - 1 : p[i] # LineFeed
        /\ Len(p) < size /\ p # <<>>
    <3>1. Len(p) = Len(c) + 1 /\ p[Len(p)] = e /\ \A i \in 1 .. Len(c) : p[i] = c[i]
      BY <2>2
    <3>2. Len(c) < size - 1 /\ \A i \in 1 .. Len(c) : c[i] # LineFeed
      BY <2>1 DEF IsCut, Open
    <3>3. Len(c) \in Nat /\ Len(p) - 1 = Len(c) /\ Len(p) < size /\ p # <<>>
      BY <1>0, <3>1, <3>2
    <3>4. \A i \in 1 .. Len(p) - 1 : p[i] # LineFeed
      BY <3>1, <3>2, <3>3
    <3>5. QED
      BY <3>1, <3>3, <3>4
  <2>4. FlattenSeq(cs) \o p = Append(r, e)
    <3>1. PICK a \in Seq(X) : a = FlattenSeq(cs)
      BY FlattenType
    <3>2. a \o Append(c, e) = Append(a \o c, e)
      OBVIOUS
    <3>3. QED
      BY <2>1, <2>2, <3>1, <3>2 DEF IsCut
  <2>5. Cut(Uncut, Append(r, e), size)
          = IF e = LineFeed \/ Len(p) = size - 1 THEN Done(Append(cs, p)) ELSE Holding(cs, p)
    <3>1. Cut(Uncut, Append(r, e), size) = PieceStep(Holding(cs, c), e, size)
      BY <2>1, CutAppend DEF IsCut
    <3>2. QED
      BY <2>2, <3>1 DEF PieceStep, Holding, Done
  <2>6. CASE e = LineFeed \/ Len(p) = size - 1
    <3>1. PICK qs \in Seq(Seq(X)) : qs = Append(cs, p)
      <4>1. Append(cs, p) \in Seq(Seq(X))
        OBVIOUS
      <4>2. QED
        BY <4>1
    <3>2. PICK none \in Seq(X) : none = <<>>
      <4>1. <<>> \in Seq(X)
        OBVIOUS
      <4>2. QED
        BY <4>1
    <3>3. Cut(Uncut, Append(r, e), size) = Holding(qs, none)
      BY <2>5, <2>6, <3>1, <3>2 DEF Done
    <3>4. Full(p, size)
      BY <2>3, <2>6 DEF Full
    <3>5. \A i \in 1 .. Len(qs) : Full(qs[i], size)
      BY <2>1, <3>1, <3>4 DEF IsCut
    <3>6. Open(none, size)
      BY <1>0, <3>2 DEF Open
    <3>7. FlattenSeq(qs) = Append(r, e)
      BY <2>4, <3>1, FlattenAppend
    <3>8. FlattenSeq(qs) \o none = Append(r, e)
      BY <3>2, <3>7, ConcatEmptySeq, AppendProperties
    <3>9. IsCut(Append(r, e), size, qs, none)
      BY <3>3, <3>5, <3>6, <3>8 DEF IsCut
    <3>10. QED
      BY <3>9
  <2>7. CASE ~(e = LineFeed \/ Len(p) = size - 1)
    <3>1. Open(p, size)
      BY <1>0, <2>3, <2>7 DEF Open
    <3>2. IsCut(Append(r, e), size, cs, p)
      BY <2>1, <2>4, <2>5, <2>7, <3>1 DEF IsCut
    <3>3. QED
      BY <3>2
  <2>8. QED
    BY <2>6, <2>7
<1> HIDE DEF Sound
<1>3. <<>> \in P /\ \A r \in Seq(X) : \A e \in X : r \in P => Append(r, e) \in P
  <2>1. <<>> \in Seq(X) /\ \A r \in Seq(X) : \A e \in X : Append(r, e) \in Seq(X)
    OBVIOUS
  <2>2. QED
    BY <1>1, <1>2, <2>1
<1> HIDE DEF P
<1>4. s \in P
  BY <1>3, CuttingLines!SequenceInduction
<1>5. Sound(s)
  BY <1>4 DEF P
<1>6. QED
  BY <1>5 DEF Sound

\* Full pieces are cut as they were.
LEMMA CutOfFull ==
  ASSUME NEW X, NEW ps \in Seq(Seq(X)), NEW size \in Sizes, TextOK,
         \A i \in 1 .. Len(ps) : Full(ps[i], size)
  PROVE  Cut(Uncut, FlattenSeq(ps), size) = Done(ps)
<1> DEFINE AllFull(qs) == \A i \in 1 .. Len(qs) : Full(qs[i], size)
           Kept(qs) == Cut(Uncut, FlattenSeq(qs), size) = Done(qs)
           P == {qs \in Seq(Seq(X)) : AllFull(qs) => Kept(qs)}
<1>1. Kept(<<>>)
  BY CutEmpty, FlattenEmpty DEF Uncut, Holding, Done
<1>2. ASSUME NEW qs \in Seq(Seq(X)), NEW q \in Seq(X), AllFull(qs) => Kept(qs), AllFull(Append(qs, q))
      PROVE  Kept(Append(qs, q))
  <2>1. AllFull(qs)
    <3>1. \A i \in 1 .. Len(qs) : i \in 1 .. Len(Append(qs, q)) /\ Append(qs, q)[i] = qs[i]
      OBVIOUS
    <3>2. QED
      BY <1>2, <3>1
  <2>2. Full(q, size)
    <3>1. PICK n \in 1 .. Len(Append(qs, q)) : Append(qs, q)[n] = q
      <4>1. Len(qs) + 1 \in 1 .. Len(Append(qs, q)) /\ Append(qs, q)[Len(qs) + 1] = q
        OBVIOUS
      <4>2. QED
        BY <4>1
    <3>2. QED
      BY <1>2, <3>1
  <2>3. PICK a \in Seq(X) : a = FlattenSeq(qs)
    BY FlattenType
  <2>4. Cut(Uncut, a, size) = Done(qs)
    BY <1>2, <2>1, <2>3
  <2>5. FlattenSeq(Append(qs, q)) = a \o q
    BY <2>3, FlattenAppend
  <2>6. Cut(Uncut, a \o q, size) = Cut(Done(qs), q, size)
    BY <2>4, CutConcat
  <2>7. PICK one \in Seq(Seq(X)) : one = <<q>>
    <3>1. <<q>> \in Seq(Seq(X))
      OBVIOUS
    <3>2. QED
      BY <3>1
  <2>8. Cut(Uncut, q, size) = Done(one)
    BY <2>2, <2>7, CutFull
  <2>9. Cut(Done(qs), q, size) = Done(qs \o one)
    BY <2>8, CutAfterDone
  <2>10. qs \o one = Append(qs, q)
    BY <2>7
  <2>11. QED
    BY <2>5, <2>6, <2>9, <2>10
<1> HIDE DEF AllFull, Kept
<1>3. <<>> \in P /\ \A qs \in Seq(Seq(X)) : \A q \in Seq(X) : qs \in P => Append(qs, q) \in P
  <2>1. <<>> \in Seq(Seq(X)) /\ \A qs \in Seq(Seq(X)) : \A q \in Seq(X) : Append(qs, q) \in Seq(Seq(X))
    OBVIOUS
  <2>2. QED
    BY <1>1, <1>2, <2>1
<1> HIDE DEF P
<1>4. ps \in P
  BY <1>3, CuttingLines!SequenceInduction
<1>5. AllFull(ps) => Kept(ps)
  BY <1>4 DEF P
<1>6. QED
  BY <1>5 DEF AllFull, Kept

\* What fgets returns: every piece is full, but the last need not be.
AlmostFull(piece, size) == Open(piece, size) /\ piece # <<>>
WellCut(ps, size) ==
    \A i \in 1 .. Len(ps) : Full(ps[i], size) \/ (i = Len(ps) /\ AlmostFull(ps[i], size))

LEMMA PiecesWellCut ==
  ASSUME NEW X, NEW s \in Seq(X), NEW size \in Sizes, TextOK
  PROVE  /\ Pieces(s, size) \in Seq(Seq(X)) /\ WellCut(Pieces(s, size), size)
         /\ FlattenSeq(Pieces(s, size)) = s
<1>0. PICK qs \in Seq(Seq(X)), q \in Seq(X) : IsCut(s, size, qs, q)
  BY CutSound
<1>1. /\ Cut(Uncut, s, size) = Holding(qs, q)
      /\ \A i \in 1 .. Len(qs) : Full(qs[i], size)
      /\ Open(q, size)
      /\ FlattenSeq(qs) \o q = s
  BY <1>0 DEF IsCut
<1>2. Pieces(s, size) = IF q = <<>> THEN qs ELSE Append(qs, q)
  BY <1>1, PiecesOfHolding
<1>3. CASE q = <<>>
  <2>1. FlattenSeq(qs) = s
    BY <1>1, <1>3, FlattenType, ConcatEmptySeq
  <2>2. QED
    BY <1>1, <1>2, <1>3, <2>1 DEF WellCut
<1>4. CASE q # <<>>
  <2>1. PICK ps \in Seq(Seq(X)) : ps = Append(qs, q)
    <3>1. Append(qs, q) \in Seq(Seq(X))
      OBVIOUS
    <3>2. QED
      BY <3>1
  <2>2. FlattenSeq(ps) = s
    BY <1>1, <2>1, FlattenAppend
  <2>3. WellCut(ps, size)
    BY <1>1, <1>4, <2>1 DEF WellCut, AlmostFull
  <2>4. QED
    BY <1>2, <1>4, <2>1, <2>2, <2>3
<1>5. QED
  BY <1>3, <1>4

\* Pieces that fgets can return are returned again.
LEMMA PiecesOfWellCut ==
  ASSUME NEW X, NEW ps \in Seq(Seq(X)), NEW size \in Sizes, TextOK, WellCut(ps, size)
  PROVE  Pieces(FlattenSeq(ps), size) = ps
<1>0. PICK s \in Seq(X) : s = FlattenSeq(ps)
  BY FlattenType
<1>1. CASE \A i \in 1 .. Len(ps) : Full(ps[i], size)
  <2>1. Cut(Uncut, s, size) = Done(ps)
    BY <1>0, <1>1, CutOfFull
  <2>2. QED
    BY <1>0, <2>1, PiecesOfDone
<1>2. CASE ~ \A i \in 1 .. Len(ps) : Full(ps[i], size)
  <2>1. ps # <<>>
    BY <1>2
  <2>2. PICK qs \in Seq(Seq(X)), q \in Seq(X) : ps = Append(qs, q)
    BY <2>1, SequenceEmptyOrAppend
  <2>3. Len(ps) = Len(qs) + 1 /\ ps[Len(ps)] = q /\ \A i \in 1 .. Len(qs) : ps[i] = qs[i]
    BY <2>2
  <2>4. (\A i \in 1 .. Len(qs) : Full(qs[i], size)) /\ Open(q, size) /\ q # <<>>
    BY <1>2, <2>3 DEF WellCut, AlmostFull
  <2>5. PICK a \in Seq(X) : a = FlattenSeq(qs)
    BY FlattenType
  <2>6. Cut(Uncut, a, size) = Done(qs)
    BY <2>4, <2>5, CutOfFull
  <2>7. s = a \o q
    BY <1>0, <2>2, <2>5, FlattenAppend
  <2>8. Cut(Uncut, s, size) = Cut(Done(qs), q, size)
    BY <2>6, <2>7, CutConcat
  <2>9. PICK none \in Seq(Seq(X)) : none = <<>>
    <3>1. <<>> \in Seq(Seq(X))
      OBVIOUS
    <3>2. QED
      BY <3>1
  <2>10. Cut(Uncut, q, size) = Holding(none, q)
    BY <2>4, <2>9, CutOpen
  <2>11. Cut(Done(qs), q, size) = Holding(qs \o none, q)
    BY <2>10, CutAfter
  <2>12. Cut(Uncut, s, size) = Holding(qs, q)
    BY <2>8, <2>9, <2>11, ConcatEmptySeq
  <2>13. QED
    BY <1>0, <2>2, <2>4, <2>12, PiecesOfHolding
<1>3. QED
  BY <1>1, <1>2

\* The first pieces are cut like all of them.
LEMMA WellCutPrefix ==
  ASSUME NEW X, NEW ps \in Seq(Seq(X)), NEW size, WellCut(ps, size), NEW k \in 0 .. Len(ps)
  PROVE  SubSeq(ps, 1, k) \in Seq(Seq(X)) /\ WellCut(SubSeq(ps, 1, k), size)
         /\ Len(SubSeq(ps, 1, k)) = k /\ \A i \in 1 .. k : SubSeq(ps, 1, k)[i] = ps[i]
<1>1. PICK qs \in Seq(Seq(X)) : qs = SubSeq(ps, 1, k)
  <2>1. SubSeq(ps, 1, k) \in Seq(Seq(X))
    OBVIOUS
  <2>2. QED
    BY <2>1
<1>2. Len(qs) = k /\ \A i \in 1 .. k : qs[i] = ps[i] /\ i \in 1 .. Len(ps)
  BY <1>1
<1>3. ASSUME NEW i \in 1 .. Len(qs)
      PROVE  Full(qs[i], size) \/ (i = Len(qs) /\ AlmostFull(qs[i], size))
  <2>1. Full(ps[i], size) \/ (i = Len(ps) /\ AlmostFull(ps[i], size))
    BY <1>2 DEF WellCut
  <2>2. qs[i] = ps[i] /\ (i = Len(ps) => i = Len(qs))
    BY <1>2
  <2>3. QED
    BY <2>1, <2>2
<1>4. WellCut(qs, size)
  BY <1>3 DEF WellCut
<1>5. QED
  BY <1>1, <1>2, <1>4

\* After full pieces fgets begins anew.
LEMMA PiecesAfterFull ==
  ASSUME NEW X, NEW ps \in Seq(Seq(X)), NEW t \in Seq(X), NEW size \in Sizes, TextOK,
         \A i \in 1 .. Len(ps) : Full(ps[i], size)
  PROVE  Pieces(FlattenSeq(ps) \o t, size) = ps \o Pieces(t, size)
<1>1. PICK a \in Seq(X) : a = FlattenSeq(ps)
  BY FlattenType
<1>2. PICK s \in Seq(X) : s = a \o t
  <2>1. a \o t \in Seq(X)
    OBVIOUS
  <2>2. QED
    BY <2>1
<1>3. Cut(Uncut, s, size) = Cut(Done(ps), t, size)
  <2>1. Cut(Uncut, a, size) = Done(ps)
    BY <1>1, CutOfFull
  <2>2. QED
    BY <1>2, <2>1, CutConcat
<1>4. PICK qs \in Seq(Seq(X)), q \in Seq(X) : Cut(Uncut, t, size) = Holding(qs, q)
  BY CutSound DEF IsCut
<1>5. PICK rs \in Seq(Seq(X)) : rs = ps \o qs
  <2>1. ps \o qs \in Seq(Seq(X))
    OBVIOUS
  <2>2. QED
    BY <2>1
<1>6. Cut(Done(ps), t, size) = Holding(rs, q)
  BY <1>4, <1>5, CutAfter
<1>7. Pieces(t, size) = IF q = <<>> THEN qs ELSE Append(qs, q)
  BY <1>4, PiecesOfHolding
<1>8. Pieces(s, size) = IF q = <<>> THEN rs ELSE Append(rs, q)
  BY <1>3, <1>6, PiecesOfHolding
<1>9. ps \o Append(qs, q) = Append(ps \o qs, q) /\ Append(qs, q) \in Seq(Seq(X))
  <2>1. AppendsBehind(ps, qs, q)
    BY ConcatAppends
  <2>2. Append(qs, q) \in Seq(Seq(X))
    OBVIOUS
  <2>3. QED
    BY <2>1, <2>2, Zenon DEF AppendsBehind
<1>10. QED
  BY <1>1, <1>2, <1>5, <1>7, <1>8, <1>9

-------------------------------------------------------------------------------
(* How the server takes apart what the client writes *)

LEMMA PrefixIndices == ASSUME NEW n \in Nat, NEW m \in 0 .. n PROVE \A i \in 1 .. m : i \in 1 .. n
  OBVIOUS

\* The commands are the pieces before the first that disconnects.
LEMMA CommandsAre ==
  ASSUME NEW Y, NEW ps \in Seq(Y), NEW m \in 0 .. Len(ps), \A i \in 1 .. m : ~IsDisconnect(ps[i]),
         m = Len(ps) \/ IsDisconnect(ps[m + 1])
  PROVE  CommandsIn(ps) = [i \in 1 .. m |-> ps[i]]
<1>1. DOMAIN ps = 1 .. Len(ps) /\ Len(ps) \in Nat
  OBVIOUS
<1>2. ASSUME NEW i \in 1 .. m, NEW j \in 1 .. Len(ps), IsDisconnect(ps[j])
      PROVE  i < j
  <2>1. ~(j \in 1 .. m)
    BY <1>2
  <2>2. QED
    BY <2>1
<1>3. ASSUME NEW i \in 1 .. Len(ps), \A j \in 1 .. Len(ps) : IsDisconnect(ps[j]) => i < j
      PROVE  i \in 1 .. m
  <2>1. m # Len(ps) => m + 1 \in 1 .. Len(ps) /\ IsDisconnect(ps[m + 1])
    OBVIOUS
  <2>2. CASE m # Len(ps)
    <3>1. PICK d \in 1 .. Len(ps) : d = m + 1 /\ IsDisconnect(ps[d])
      BY <2>1, <2>2
    <3>2. i < d
      BY <1>3, <3>1
    <3>3. i < m + 1 /\ m \in Nat /\ i \in Nat /\ 1 <= i
      BY <3>1, <3>2
    <3>4. QED
      BY ONLY <3>3
  <2>3. CASE m = Len(ps)
    <3>1. i \in 1 .. Len(ps)
      BY <1>3
    <3>2. QED
      BY ONLY <2>3, <3>1, Zenon
  <2>4. QED
    BY <2>2, <2>3
<1>4. \A i \in 1 .. m : i \in 1 .. Len(ps)
  BY <1>1, PrefixIndices
<1>5. BeforeDisconnect(ps) = 1 .. m
  BY <1>1, <1>2, <1>3, <1>4, Zenon DEF BeforeDisconnect
<1>6. QED
  BY <1>5 DEF CommandsIn

LEMMA CommandsEnd ==
  ASSUME NEW Y, NEW ps \in Seq(Y)
  PROVE  \E m \in 0 .. Len(ps) : /\ \A i \in 1 .. m : ~IsDisconnect(ps[i])
                                 /\ m = Len(ps) \/ IsDisconnect(ps[m + 1])
<1> DEFINE D == {i \in 1 .. Len(ps) : IsDisconnect(ps[i])}
<1>1. Len(ps) \in Nat
  OBVIOUS
<1>2. CASE \A i \in 1 .. Len(ps) : i \notin D
  <2>1. \A i \in 1 .. Len(ps) : ~IsDisconnect(ps[i])
    BY <1>2
  <2>2. Len(ps) \in 0 .. Len(ps)
    BY <1>1
  <2>3. QED
    BY <2>1, <2>2
<1>3. CASE \E m \in 1 .. Len(ps) : m \in D /\ \A i \in 1 .. m - 1 : i \notin D
  <2>1. PICK m \in 1 .. Len(ps) : m \in D /\ \A i \in 1 .. m - 1 : i \notin D
    BY <1>3
  <2>2. IsDisconnect(ps[(m - 1) + 1]) /\ m - 1 \in 0 .. Len(ps)
    BY <1>1, <2>1
  <2>3. \A i \in 1 .. m - 1 : i \in 1 .. Len(ps)
    OBVIOUS
  <2>4. \A i \in 1 .. m - 1 : ~IsDisconnect(ps[i])
    BY <2>1, <2>3
  <2>5. QED
    BY <2>2, <2>4
<1> HIDE DEF D
<1>4. QED
  BY <1>1, <1>2, <1>3, FirstOrNone

\* As many pieces as the client writes hold the same commands.
LEMMA CommandsOfPrefix ==
  ASSUME NEW Y, NEW ps \in Seq(Y)
  PROVE  LET last == Len(CommandsIn(ps)) + 1
             k == IF last > Len(ps) THEN Len(ps) ELSE last
         IN k \in 0 .. Len(ps) /\ CommandsIn(SubSeq(ps, 1, k)) = CommandsIn(ps)
<1> DEFINE last == Len(CommandsIn(ps)) + 1
           k == IF last > Len(ps) THEN Len(ps) ELSE last
<1>1. PICK m \in 0 .. Len(ps) : /\ \A i \in 1 .. m : ~IsDisconnect(ps[i])
                                /\ m = Len(ps) \/ IsDisconnect(ps[m + 1])
  BY CommandsEnd
<1>2. CommandsIn(ps) = [i \in 1 .. m |-> ps[i]]
  BY <1>1, CommandsAre
<1>3. Len(CommandsIn(ps)) = m /\ Len(ps) \in Nat
  BY <1>2
<1>4. k \in 0 .. Len(ps) /\ m <= k /\ (m = k \/ (k = m + 1 /\ k <= Len(ps)))
      /\ (m = k => m = Len(ps))
  BY <1>3
<1> HIDE DEF k
<1>5. PICK qs \in Seq(Y) : qs = SubSeq(ps, 1, k)
  <2>1. SubSeq(ps, 1, k) \in Seq(Y)
    BY <1>4
  <2>2. QED
    BY <2>1
<1>6. Len(qs) = k /\ \A i \in 1 .. k : qs[i] = ps[i]
  BY <1>4, <1>5
<1>7. m \in 0 .. Len(qs) /\ \A i \in 1 .. m : i \in 1 .. k
  BY <1>4, <1>6
<1>8. m = Len(qs) \/ IsDisconnect(qs[m + 1])
  <2>1. m # k => m + 1 \in 1 .. k /\ m # Len(ps)
    BY <1>4
  <2>2. QED
    BY <1>1, <1>4, <1>6, <2>1
<1>9. CommandsIn(qs) = [i \in 1 .. m |-> qs[i]]
  BY <1>1, <1>6, <1>7, <1>8, CommandsAre
<1>10. QED
  BY <1>2, <1>4, <1>5, <1>6, <1>7, <1>9 DEF k

LEMMA FlattenOne == ASSUME NEW X, NEW p \in Seq(X) PROVE FlattenSeq(<<p>>) = p
<1>1. <<>> \in Seq(Seq(X)) /\ Append(<<>>, p) = <<p>>
  OBVIOUS
<1>2. PICK none \in Seq(Seq(X)) : none = <<>>
  BY <1>1
<1>3. FlattenSeq(Append(none, p)) = p
  BY <1>2, FlattenStep
<1>4. QED
  BY <1>1, <1>2, <1>3

LEMMA NamesType ==
  ASSUME NEW name \in Names
  PROVE  name \in Seq(Character) /\ \A i \in 1 .. Len(name) : name[i] = "u"
<1>1. "u" \in Character
  BY Zenon DEF Character
<1>2. CASE name = <<"u">>
  BY <1>1, <1>2
<1>3. CASE name = <<"u", "u">>
  BY <1>1, <1>3
<1>4. CASE name = <<"u", "u", "u">>
  BY <1>1, <1>4
<1>5. QED
  BY <1>2, <1>3, <1>4, Zenon DEF Names

LEMMA LineFeedType == LineFeed \in Character
  BY Zenon DEF Character

\* A name that fits into its buffer is the first piece of the stream, and the rest follows it.
LEMMA NameRead ==
  ASSUME NEW name \in Names, NEW t \in Seq(Character), TextOK, Len(name) + 1 < NameSize
  PROVE  LET stream == name \o <<LineFeed>> \o t
             first == Head(Pieces(stream, NameSize))
         IN /\ WithoutNewline(first) = name
            /\ SubSeq(stream, Len(first) + 1, Len(stream)) = t
<1> DEFINE X == Character
<1>1. name \in Seq(X) /\ (\A i \in 1 .. Len(name) : name[i] # LineFeed) /\ LineFeed \in X
  BY NamesType, LineFeedType DEF LineFeed
<1> HIDE DEF X
<1>2. PICK h \in Seq(X) : h = name \o <<LineFeed>>
  <2>1. name \o <<LineFeed>> \in Seq(X)
    BY <1>1
  <2>2. QED
    BY <2>1
<1>3. Len(h) = Len(name) + 1 /\ h[Len(h)] = LineFeed /\ \A i \in 1 .. Len(name) : h[i] = name[i]
  BY <1>1, <1>2
<1>4. NameSize \in Nat /\ NameSize \in Sizes
  BY SizesAssumption DEF Sizes
<1>5. Full(h, NameSize)
  <2>1. Len(name) \in Nat /\ Len(h) - 1 = Len(name) /\ Len(h) < NameSize /\ h # <<>>
    BY <1>1, <1>3, <1>4
  <2>2. QED
    BY <1>1, <1>3, <2>1 DEF Full
<1>6. PICK one \in Seq(Seq(X)) : one = <<h>>
  <2>1. <<h>> \in Seq(Seq(X))
    OBVIOUS
  <2>2. QED
    BY <2>1
<1>7. t \in Seq(X)
  BY DEF X
<1>8. Pieces(h \o t, NameSize) = one \o Pieces(t, NameSize)
  <2>1. \A i \in 1 .. Len(one) : Full(one[i], NameSize)
    BY <1>5, <1>6
  <2>2. FlattenSeq(one) = h
    BY <1>6, FlattenOne
  <2>3. QED
    <3>1. Pieces(FlattenSeq(one) \o t, NameSize) = one \o Pieces(t, NameSize)
      BY <1>4, <1>7, <2>1, PiecesAfterFull
    <3>2. QED
      BY <2>2, <3>1
<1>9. Head(Pieces(h \o t, NameSize)) = h
  <2>1. PICK ps \in Seq(Seq(X)) : ps = Pieces(t, NameSize)
    BY <1>4, <1>7, PiecesWellCut
  <2>2. Head(one \o ps) = h
    BY <1>6
  <2>3. QED
    BY <1>8, <2>1, <2>2
<1>10. WithoutNewline(h) = name
  <2>1. Last(h) = LineFeed /\ h # <<>>
    BY <1>3 DEF Last
  <2>2. SubSeq(h, 1, Len(h) - 1) = name
    BY <1>1, <1>3
  <2>3. QED
    BY <2>1, <2>2 DEF WithoutNewline, Front
<1>11. SubSeq(h \o t, Len(h) + 1, Len(h \o t)) = t
  BY <1>7
<1>12. QED
  BY <1>2, <1>9, <1>10, <1>11

\* However long the lines that are typed are, the server sees the pieces that the client saw,
\* so both read the same DISCONNECT; a user name that fits into its buffer is read whole.
THEOREM TypedLinesSeenAlike == Spec => []TypedLinesAligned
<1>1. ASSUME TextOK, NEW name \in Names, Len(name) + 1 < NameSize
      PROVE  Understood(Written(name, text))
               = [name |-> name, commands |-> CommandsIn(Pieces(text, LineSize))]
  <2> DEFINE X == Character
  <2>1. LineSize \in Sizes /\ text \in Seq(X)
    BY <1>1 DEF Sizes, TextOK
  <2> HIDE DEF X
  <2>2. PICK ps \in Seq(Seq(X)) : ps = Pieces(text, LineSize) /\ WellCut(ps, LineSize)
    BY <1>1, <2>1, PiecesWellCut
  <2> DEFINE last == Len(CommandsIn(ps)) + 1
             k == IF last > Len(ps) THEN Len(ps) ELSE last
  <2>3. k \in 0 .. Len(ps) /\ CommandsIn(SubSeq(ps, 1, k)) = CommandsIn(ps)
    BY CommandsOfPrefix
  <2>4. Written(name, text) = name \o <<LineFeed>> \o FlattenSeq(SubSeq(ps, 1, k))
    BY <2>2 DEF Written
  <2> HIDE DEF k
  <2>5. PICK qs \in Seq(Seq(X)) : qs = SubSeq(ps, 1, k) /\ WellCut(qs, LineSize)
    BY <2>2, <2>3, WellCutPrefix
  <2>6. PICK t \in Seq(X) : t = FlattenSeq(qs)
    BY FlattenType
  <2>7. Pieces(t, LineSize) = qs
    BY <1>1, <2>1, <2>5, <2>6, PiecesOfWellCut
  <2> DEFINE stream == name \o <<LineFeed>> \o t
             first == Head(Pieces(stream, NameSize))
  <2>8. WithoutNewline(first) = name /\ SubSeq(stream, Len(first) + 1, Len(stream)) = t
    BY <1>1, NameRead DEF X
  <2>9. Written(name, text) = stream
    BY <2>4, <2>5, <2>6
  <2> HIDE DEF stream
  <2>10. Understood(stream) = [name |-> name, commands |-> CommandsIn(qs)]
    BY <2>7, <2>8 DEF Understood
  <2>11. QED
    BY <2>2, <2>3, <2>5, <2>9, <2>10
<1>2. TextOK => TypedLinesAligned
  BY <1>1 DEF TypedLinesAligned
<1>3. QED
  BY <1>2, TextTyped, PTL

-------------------------------------------------------------------------------
(* How the client takes the broadcasts apart *)

Showing == INSTANCE FoldLaws WITH Op <- ShowStep

Shown(at, ps) == FoldLeft(ShowStep, at, ps)

\* Outside of a payload, and inside of one.
Between(shown) == [shown |-> shown, open |-> FALSE, payload |-> <<>>]
Within(shown, payload) == [shown |-> shown, open |-> TRUE, payload |-> payload]

LEMMA ShownIsFold == ASSUME NEW at, NEW ps PROVE Shown(at, ps) = Showing!Fold(at, ps)
  BY DEF Shown, Showing!Fold, FoldLeft, Showing!FoldLeft, MapThenFoldSet, Showing!MapThenFoldSet,
         Max, Showing!Max

LEMMA ShownLaws ==
  ASSUME NEW X, NEW ps \in Seq(X), NEW qs \in Seq(X), NEW p \in X, NEW at
  PROVE  /\ Shown(at, <<>>) = at
         /\ Shown(at, Append(ps, p)) = ShowStep(Shown(at, ps), p)
         /\ Shown(at, ps \o qs) = Shown(Shown(at, ps), qs)
  BY ShownIsFold, Showing!FoldEmpty, Showing!FoldAppend, Showing!FoldConcat
\* What the words of the stream are: those of the text, and what the server adds.
StreamWord == Character \cup {"EDIT", "SUCCESS", "Reject"}

LEMMA StreamWords ==
  /\ Character \subseteq StreamWord
  /\ {"EDIT", "SUCCESS", "Reject", "VERSION", "END", LineFeed} \subseteq StreamWord
<1>1. {"VERSION", "END", LineFeed} \subseteq Character
  BY Zenon DEF Character
<1>2. QED
  BY <1>1 DEF StreamWord

\* A piece is somewhere in the text.
LEMMA FlattenAround ==
  ASSUME NEW X, NEW ps \in Seq(Seq(X)), NEW i \in 1 .. Len(ps)
  PROVE  \E a \in Seq(X), b \in Seq(X) : FlattenSeq(ps) = (a \o ps[i]) \o b
<1> DEFINE k == Len(ps)
<1>1. PICK before \in Seq(Seq(X)), after \in Seq(Seq(X)), p \in Seq(X) :
         before = SubSeq(ps, 1, i - 1) /\ after = SubSeq(ps, i + 1, k) /\ p = ps[i]
  <2>1. SubSeq(ps, 1, i - 1) \in Seq(Seq(X)) /\ SubSeq(ps, i + 1, k) \in Seq(Seq(X)) /\ ps[i] \in Seq(X)
    OBVIOUS
  <2>2. QED
    BY <2>1
<1>2. ps = Append(before, p) \o after
  <2>1. /\ Len(before) = i - 1 /\ Len(after) = k - i
        /\ \A j \in 1 .. i - 1 : before[j] = ps[j]
        /\ \A j \in 1 .. k - i : after[j] = ps[j + i]
    BY <1>1
  <2>2. PICK rs \in Seq(Seq(X)) : rs = Append(before, p)
    <3>1. Append(before, p) \in Seq(Seq(X))
      OBVIOUS
    <3>2. QED
      BY <3>1
  <2>3. Len(rs) = i /\ \A j \in 1 .. i : rs[j] = ps[j]
    BY <1>1, <2>1, <2>2
  <2>4. PICK whole \in Seq(Seq(X)) :
           /\ whole = rs \o after /\ Len(whole) = Len(rs) + Len(after)
           /\ \A j \in 1 .. Len(rs) : whole[j] = rs[j]
           /\ \A j \in Len(rs) + 1 .. Len(whole) : whole[j] = after[j - Len(rs)]
    <3>1. /\ rs \o after \in Seq(Seq(X)) /\ Len(rs \o after) = Len(rs) + Len(after)
          /\ \A j \in 1 .. Len(rs) : (rs \o after)[j] = rs[j]
          /\ \A j \in Len(rs) + 1 .. Len(rs) + Len(after) : (rs \o after)[j] = after[j - Len(rs)]
      OBVIOUS
    <3>2. QED
      BY <3>1
  <2>5. Len(whole) = k
    BY <2>1, <2>3, <2>4
  <2>6. ASSUME NEW j \in 1 .. k
        PROVE  whole[j] = ps[j]
    <3>1. CASE j \in 1 .. i
      BY <2>3, <2>4, <3>1
    <3>2. CASE j \in i + 1 .. k
      <4>1. j - i \in 1 .. k - i /\ (j - i) + i = j
        BY <3>2
      <4>2. whole[j] = after[j - i]
        BY <2>3, <2>4, <2>5, <3>2
      <4>3. QED
        BY <2>1, <4>1, <4>2
    <3>3. QED
      BY <3>1, <3>2
  <2>7. rs \o after = ps
    BY <2>4, <2>5, <2>6, SeqEqual
  <2>8. QED
    BY <2>2, <2>7
<1>3. PICK a \in Seq(X), b \in Seq(X) : a = FlattenSeq(before) /\ b = FlattenSeq(after)
  BY FlattenType
<1>4. PICK rs \in Seq(Seq(X)) : rs = Append(before, p)
  <2>1. Append(before, p) \in Seq(Seq(X))
    OBVIOUS
  <2>2. QED
    BY <2>1
<1>5. FlattenSeq(rs) = a \o p
  BY <1>3, <1>4, FlattenAppend
<1>6. FlattenSeq(rs \o after) = FlattenSeq(rs) \o b
  BY <1>3, FlattenConcat
<1>7. FlattenSeq(ps) = (a \o p) \o b
  BY <1>2, <1>4, <1>5, <1>6
<1>8. QED
  BY <1>1, <1>7

\* A line that does not end with END before its line feed: all of its pieces are full,
\* and none of them ends a payload.
LEMMA LinePieces ==
  ASSUME NEW X, NEW u \in Seq(X), NEW result \in X, LineFeed \in X, TextOK,
         \A i \in 1 .. Len(u) : u[i] # LineFeed, result # LineFeed, result # "END"
  PROVE  LET m == u \o <<result, LineFeed>>
             ps == Pieces(m, LineSize)
         IN /\ ps \in Seq(Seq(X)) /\ FlattenSeq(ps) = m
            /\ \A i \in 1 .. Len(ps) : Full(ps[i], LineSize) /\ ~EndsPayload(ps[i])
<1>1. PICK m \in Seq(X) : m = u \o <<result, LineFeed>>
  <2>1. u \o <<result, LineFeed>> \in Seq(X)
    OBVIOUS
  <2>2. QED
    BY <2>1
<1>2. /\ Len(m) = Len(u) + 2 /\ m[Len(u) + 1] = result /\ m[Len(u) + 2] = LineFeed
      /\ \A i \in 1 .. Len(u) : m[i] = u[i]
  BY <1>1
<1>3. \A i \in 1 .. Len(m) : m[i] = LineFeed => i = Len(m)
  BY <1>2
<1>4. LineSize \in Sizes
  BY DEF Sizes
<1>5. PICK ps \in Seq(Seq(X)) : ps = Pieces(m, LineSize) /\ WellCut(ps, LineSize) /\ FlattenSeq(ps) = m
  BY <1>4, PiecesWellCut
<1>6. ASSUME NEW i \in 1 .. Len(ps)
      PROVE  Full(ps[i], LineSize)
  <2>1. SUFFICES ASSUME i = Len(ps), AlmostFull(ps[i], LineSize) PROVE FALSE
    BY <1>5 DEF WellCut
  <2>2. ps # <<>>
    OBVIOUS
  <2>3. PICK qs \in Seq(Seq(X)), q \in Seq(X) : ps = Append(qs, q)
    BY <2>2, SequenceEmptyOrAppend
  <2>4. ps[i] = q
    BY <2>1, <2>3
  <2>5. q # <<>> /\ \A j \in 1 .. Len(q) : q[j] # LineFeed
    BY <2>1, <2>4 DEF AlmostFull, Open
  <2>6. PICK a \in Seq(X) : a = FlattenSeq(qs)
    BY FlattenType
  <2>7. m = a \o q
    BY <1>5, <2>3, <2>6, FlattenAppend
  <2>8. m[Len(m)] = q[Len(q)] /\ Len(q) \in 1 .. Len(q)
    BY <2>5, <2>7
  <2>9. QED
    BY <1>2, <2>5, <2>8
<1>7. ASSUME NEW i \in 1 .. Len(ps)
      PROVE  ~EndsPayload(ps[i])
  <2>1. SUFFICES ASSUME EndsPayload(ps[i]) PROVE FALSE
    OBVIOUS
  <2>2. PICK p \in Seq(X) : p = ps[i]
    OBVIOUS
  <2>3. Len(p) = 2 /\ p[1] = "END" /\ p[2] = LineFeed
    BY <2>1, <2>2 DEF EndsPayload
  <2>4. PICK a \in Seq(X), b \in Seq(X) : FlattenSeq(ps) = (a \o p) \o b
    BY <2>2, FlattenAround
  <2>5. m = (a \o p) \o b
    BY <1>5, <2>4
  <2>6. /\ Len(a) + 1 \in 1 .. Len(m) /\ Len(a) + 2 \in 1 .. Len(m)
        /\ m[Len(a) + 1] = p[1] /\ m[Len(a) + 2] = p[2]
    <3>1. PICK ap \in Seq(X) : ap = a \o p
      <4>1. a \o p \in Seq(X)
        OBVIOUS
      <4>2. QED
        BY <4>1
    <3>2. Len(ap) = Len(a) + 2 /\ ap[Len(a) + 1] = p[1] /\ ap[Len(a) + 2] = p[2]
      <4>1. Len(ap) = Len(a) + 2 /\ \A j \in Len(a) + 1 .. Len(ap) : ap[j] = p[j - Len(a)]
        <5>1. Len(ap) = Len(a) + Len(p) /\ \A j \in Len(a) + 1 .. Len(a) + Len(p) : ap[j] = p[j - Len(a)]
          BY <3>1
        <5>2. QED
          BY <2>3, <5>1
      <4>2. /\ Len(a) + 1 \in Len(a) + 1 .. Len(ap) /\ (Len(a) + 1) - Len(a) = 1
            /\ Len(a) + 2 \in Len(a) + 1 .. Len(ap) /\ (Len(a) + 2) - Len(a) = 2
        BY <4>1
      <4>3. QED
        BY <4>1, <4>2
    <3>3. Len(m) = Len(ap) + Len(b) /\ \A j \in 1 .. Len(ap) : m[j] = ap[j]
      BY <2>5, <3>1
    <3>4. Len(a) \in Nat /\ Len(b) \in Nat
      OBVIOUS
    <3>5. Len(a) + 1 \in 1 .. Len(ap) /\ Len(a) + 2 \in 1 .. Len(ap)
      BY <3>2, <3>4
    <3>6. \A j \in 1 .. Len(ap) : j \in 1 .. Len(m)
      BY <3>3, <3>4
    <3>7. QED
      BY <3>2, <3>3, <3>5, <3>6
  <2>7. Len(a) + 2 = Len(m)
    BY <1>3, <2>3, <2>6
  <2>8. Len(a) + 1 = Len(u) + 1
    BY <1>2, <2>7
  <2>9. QED
    BY <1>2, <2>3, <2>6, <2>8
<1>8. QED
  BY <1>1, <1>5, <1>6, <1>7

\* Inside of a payload whatever does not end it is added to it.
LEMMA ShownWithin ==
  ASSUME NEW X, NEW ps \in Seq(Seq(X)), NEW p \in Seq(X), NEW shown,
         \A i \in 1 .. Len(ps) : ~EndsPayload(ps[i])
  PROVE  Shown(Within(shown, p), ps) = Within(shown, p \o FlattenSeq(ps))
<1> DEFINE NoEnd(qs) == \A i \in 1 .. Len(qs) : ~EndsPayload(qs[i])
           Added(qs) == Shown(Within(shown, p), qs) = Within(shown, p \o FlattenSeq(qs))
           P == {qs \in Seq(Seq(X)) : NoEnd(qs) => Added(qs)}
<1>1. Added(<<>>)
  <2>1. PICK none \in Seq(Seq(X)), any \in Seq(X) : none = <<>> /\ any = <<>>
    <3>1. <<>> \in Seq(Seq(X)) /\ <<>> \in Seq(X)
      OBVIOUS
    <3>2. QED
      BY <3>1
  <2>2. Shown(Within(shown, p), <<>>) = Within(shown, p)
    BY <2>1, ShownLaws
  <2>3. p \o <<>> = p
    OBVIOUS
  <2>4. QED
    BY <2>2, <2>3, FlattenEmpty
<1>2. ASSUME NEW qs \in Seq(Seq(X)), NEW q \in Seq(X), NoEnd(qs) => Added(qs), NoEnd(Append(qs, q))
      PROVE  Added(Append(qs, q))
  <2>1. NoEnd(qs)
    <3>1. \A i \in 1 .. Len(qs) : i \in 1 .. Len(Append(qs, q)) /\ Append(qs, q)[i] = qs[i]
      OBVIOUS
    <3>2. QED
      BY <1>2, <3>1
  <2>2. ~EndsPayload(q)
    <3>1. PICK n \in 1 .. Len(Append(qs, q)) : Append(qs, q)[n] = q
      <4>1. Len(qs) + 1 \in 1 .. Len(Append(qs, q)) /\ Append(qs, q)[Len(qs) + 1] = q
        OBVIOUS
      <4>2. QED
        BY <4>1
    <3>2. QED
      BY <1>2, <3>1
  <2>3. PICK a \in Seq(X) : a = FlattenSeq(qs)
    BY FlattenType
  <2>4. Shown(Within(shown, p), qs) = Within(shown, p \o a)
    BY <1>2, <2>1, <2>3
  <2>5. Shown(Within(shown, p), Append(qs, q)) = ShowStep(Within(shown, p \o a), q)
    BY <2>4, ShownLaws
  <2>6. ShowStep(Within(shown, p \o a), q) = Within(shown, (p \o a) \o q)
    BY <2>2 DEF ShowStep, Within
  <2>7. FlattenSeq(Append(qs, q)) = a \o q
    BY <2>3, FlattenAppend
  <2>8. (p \o a) \o q = p \o (a \o q)
    <3>1. Associates(p, a, q)
      BY ConcatAssociates
    <3>2. QED
      BY <3>1, Zenon DEF Associates
  <2>9. QED
    BY <2>5, <2>6, <2>7, <2>8
<1> HIDE DEF NoEnd, Added
<1>3. <<>> \in P /\ \A qs \in Seq(Seq(X)) : \A q \in Seq(X) : qs \in P => Append(qs, q) \in P
  <2>1. <<>> \in Seq(Seq(X)) /\ \A qs \in Seq(Seq(X)) : \A q \in Seq(X) : Append(qs, q) \in Seq(Seq(X))
    OBVIOUS
  <2>2. ASSUME NEW qs \in Seq(Seq(X)), NEW q \in Seq(X), qs \in P, NoEnd(Append(qs, q))
        PROVE  Added(Append(qs, q))
    BY <1>2, <2>2
  <2>3. QED
    BY <1>1, <2>1, <2>2
<1> HIDE DEF P
<1>4. ps \in P
  BY <1>3, CuttingLines!SequenceInduction
<1>5. NoEnd(ps) => Added(ps)
  BY <1>4 DEF P
<1>6. QED
  BY <1>5 DEF NoEnd, Added

\* The pieces of a payload open it, add to it and end it.
IsPayloadCut(ps, payload) ==
    /\ \A i \in 1 .. Len(ps) : Full(ps[i], LineSize)
    /\ FlattenSeq(ps) = payload
    /\ \A shown : Shown(Between(shown), ps) = Between(Append(shown, payload))

LEMMA PayloadCut ==
  ASSUME NEW X, NEW u \in Seq(X), NEW result \in X, LineFeed \in X, "VERSION" \in X, "END" \in X,
         TextOK, \A i \in 1 .. Len(u) : u[i] # LineFeed, result # LineFeed, result # "END"
  PROVE  \E ps \in Seq(Seq(X)) :
           IsPayloadCut(ps, (<<"VERSION", LineFeed>> \o (u \o <<result, LineFeed>>)) \o <<"END", LineFeed>>)
<1>1. PICK v \in Seq(X), z \in Seq(X), m \in Seq(X) :
         v = <<"VERSION", LineFeed>> /\ z = <<"END", LineFeed>> /\ m = u \o <<result, LineFeed>>
  <2>1. <<"VERSION", LineFeed>> \in Seq(X) /\ <<"END", LineFeed>> \in Seq(X)
        /\ u \o <<result, LineFeed>> \in Seq(X)
    OBVIOUS
  <2>2. QED
    BY <2>1
<1>2. PICK ms \in Seq(Seq(X)) : /\ ms = Pieces(m, LineSize) /\ FlattenSeq(ms) = m
                               /\ \A i \in 1 .. Len(ms) : Full(ms[i], LineSize) /\ ~EndsPayload(ms[i])
  BY <1>1, LinePieces
<1>3. Full(v, LineSize) /\ Full(z, LineSize)
  <2>1. LineSize \in Nat /\ LineSize > 2
    BY SizesAssumption
  <2>2. Len(v) = 2 /\ v[1] = "VERSION" /\ v[2] = LineFeed /\ Len(z) = 2 /\ z[1] = "END" /\ z[2] = LineFeed
        /\ v # <<>> /\ z # <<>>
    BY <1>1
  <2>3. "VERSION" # LineFeed /\ "END" # LineFeed
    BY DEF LineFeed
  <2>4. \A i \in 1 .. 2 - 1 : i = 1
    OBVIOUS
  <2>5. QED
    BY <2>1, <2>2, <2>3, <2>4 DEF Full
<1>4. PICK vs \in Seq(Seq(X)) : vs = <<v>>
  <2>1. <<v>> \in Seq(Seq(X))
    OBVIOUS
  <2>2. QED
    BY <2>1
<1>5. PICK vms \in Seq(Seq(X)) : vms = vs \o ms
  <2>1. vs \o ms \in Seq(Seq(X))
    OBVIOUS
  <2>2. QED
    BY <2>1
<1>6. PICK ps \in Seq(Seq(X)) : ps = Append(vms, z)
  <2>1. Append(vms, z) \in Seq(Seq(X))
    OBVIOUS
  <2>2. QED
    BY <2>1
<1>7. \A i \in 1 .. Len(ps) : Full(ps[i], LineSize)
  <2>1. \A i \in 1 .. Len(vms) : Full(vms[i], LineSize)
    <3>1. Len(vms) = 1 + Len(ms) /\ vms[1] = v /\ \A i \in 2 .. Len(vms) : vms[i] = ms[i - 1]
      BY <1>4, <1>5
    <3>2. \A i \in 2 .. Len(vms) : i - 1 \in 1 .. Len(ms)
      BY <3>1
    <3>3. \A i \in 1 .. Len(vms) : i = 1 \/ i \in 2 .. Len(vms)
      OBVIOUS
    <3>4. QED
      BY <1>2, <1>3, <3>1, <3>2, <3>3
  <2>2. QED
    BY <1>3, <1>6, <2>1
<1>8. FlattenSeq(ps) = (v \o m) \o z
  <2>1. FlattenSeq(vs) = v
    BY <1>4, FlattenOne
  <2>2. FlattenSeq(vms) = v \o m
    BY <1>2, <1>5, <2>1, FlattenConcat
  <2>3. QED
    BY <1>6, <2>2, FlattenAppend
<1>9. ASSUME NEW shown
      PROVE  Shown(Between(shown), ps) = Between(Append(shown, (v \o m) \o z))
  <2>1. Shown(Between(shown), vs) = Within(shown, v)
    <3>1. PICK none \in Seq(Seq(X)) : none = <<>>
      <4>1. <<>> \in Seq(Seq(X))
        OBVIOUS
      <4>2. QED
        BY <4>1
    <3>2. Append(none, v) = vs
      BY <1>4, <3>1
    <3>3. Shown(Between(shown), <<>>) = Between(shown)
      BY <3>1, ShownLaws
    <3>4. Shown(Between(shown), vs) = ShowStep(Between(shown), v)
      <4>1. Shown(Between(shown), Append(none, v)) = ShowStep(Shown(Between(shown), none), v)
        BY ShownLaws
      <4>2. QED
        BY <3>1, <3>2, <3>3, <4>1
    <3>5. Head(v) = "VERSION"
      BY <1>1
    <3>6. ShowStep(Between(shown), v) = Within(shown, v)
      BY <3>5 DEF ShowStep, Between, Within
    <3>7. QED
      BY <3>4, <3>6
  <2>2. Shown(Within(shown, v), ms) = Within(shown, v \o m)
    BY <1>2, ShownWithin
  <2>3. Shown(Between(shown), vms) = Within(shown, v \o m)
    BY <1>5, <2>1, <2>2, ShownLaws
  <2>4. Shown(Between(shown), ps) = ShowStep(Within(shown, v \o m), z)
    BY <1>6, <2>3, ShownLaws
  <2>5. EndsPayload(z)
    BY <1>1 DEF EndsPayload
  <2>6. ShowStep(Within(shown, v \o m), z) = Between(Append(shown, (v \o m) \o z))
    BY <2>5 DEF ShowStep, Between, Within
  <2>7. QED
    BY <2>4, <2>6
<1>10. IsPayloadCut(ps, (v \o m) \o z)
  BY <1>7, <1>8, <1>9 DEF IsPayloadCut
<1>11. QED
  BY <1>1, <1>10

\* Payloads one after the other are shown one by one.
LEMMA PayloadsShown ==
  ASSUME NEW X, NEW payloads \in Seq(Seq(X)),
         \A i \in 1 .. Len(payloads) : \E ps \in Seq(Seq(X)) : IsPayloadCut(ps, payloads[i])
  PROVE  \E ps \in Seq(Seq(X)) : /\ \A i \in 1 .. Len(ps) : Full(ps[i], LineSize)
                                /\ FlattenSeq(ps) = FlattenSeq(payloads)
                                /\ Shown(Between(<<>>), ps) = Between(payloads)
<1> DEFINE AllCut(qs) == \A i \in 1 .. Len(qs) : \E ps \in Seq(Seq(X)) : IsPayloadCut(ps, qs[i])
           Goal(ps, qs) == /\ \A i \in 1 .. Len(ps) : Full(ps[i], LineSize)
                           /\ FlattenSeq(ps) = FlattenSeq(qs)
                           /\ Shown(Between(<<>>), ps) = Between(qs)
           ShownAll(qs) == \E ps \in Seq(Seq(X)) : Goal(ps, qs)
           P == {qs \in Seq(Seq(X)) : AllCut(qs) => ShownAll(qs)}
<1>1. ShownAll(<<>>)
  <2>1. PICK none \in Seq(Seq(X)) : none = <<>>
    <3>1. <<>> \in Seq(Seq(X))
      OBVIOUS
    <3>2. QED
      BY <3>1
  <2>2. PICK any \in Seq(X) : TRUE
    <3>1. <<>> \in Seq(X)
      OBVIOUS
    <3>2. QED
      BY <3>1
  <2>3. Shown(Between(<<>>), <<>>) = Between(<<>>)
    BY <2>1, <2>2, ShownLaws
  <2>4. Goal(none, <<>>)
    BY <2>1, <2>3
  <2> HIDE DEF Goal
  <2>5. QED
    BY <2>4
<1>2. ASSUME NEW qs \in Seq(Seq(X)), NEW q \in Seq(X), AllCut(qs) => ShownAll(qs), AllCut(Append(qs, q))
      PROVE  ShownAll(Append(qs, q))
  <2>1. AllCut(qs)
    <3>1. \A i \in 1 .. Len(qs) : i \in 1 .. Len(Append(qs, q)) /\ Append(qs, q)[i] = qs[i]
      OBVIOUS
    <3>2. QED
      BY <1>2, <3>1
  <2>2. PICK rs \in Seq(Seq(X)) : IsPayloadCut(rs, q)
    <3>1. PICK n \in 1 .. Len(Append(qs, q)) : Append(qs, q)[n] = q
      <4>1. Len(qs) + 1 \in 1 .. Len(Append(qs, q)) /\ Append(qs, q)[Len(qs) + 1] = q
        OBVIOUS
      <4>2. QED
        BY <4>1
    <3>2. QED
      BY <1>2, <3>1
  <2>3. PICK ps \in Seq(Seq(X)) : Goal(ps, qs)
    BY <1>2, <2>1
  <2>4. PICK all \in Seq(Seq(X)) : all = ps \o rs
    <3>1. ps \o rs \in Seq(Seq(X))
      OBVIOUS
    <3>2. QED
      BY <3>1
  <2>5. \A i \in 1 .. Len(all) : Full(all[i], LineSize)
    <3>1. /\ Len(all) = Len(ps) + Len(rs) /\ \A i \in 1 .. Len(ps) : all[i] = ps[i]
          /\ \A i \in Len(ps) + 1 .. Len(all) : all[i] = rs[i - Len(ps)]
      BY <2>4
    <3>2. \A i \in Len(ps) + 1 .. Len(all) : i - Len(ps) \in 1 .. Len(rs)
      BY <3>1
    <3>3. \A i \in 1 .. Len(all) : i \in 1 .. Len(ps) \/ i \in Len(ps) + 1 .. Len(all)
      OBVIOUS
    <3>4. QED
      BY <2>2, <2>3, <3>1, <3>2, <3>3 DEF IsPayloadCut
  <2>6. FlattenSeq(all) = FlattenSeq(Append(qs, q))
    <3>1. FlattenSeq(all) = FlattenSeq(ps) \o FlattenSeq(rs)
      BY <2>4, FlattenConcat
    <3>2. FlattenSeq(Append(qs, q)) = FlattenSeq(qs) \o q
      BY FlattenAppend
    <3>3. QED
      BY <2>2, <2>3, <3>1, <3>2 DEF IsPayloadCut
  <2>7. Shown(Between(<<>>), all) = Between(Append(qs, q))
    <3>1. PICK any \in Seq(X) : TRUE
      OBVIOUS
    <3>2. Shown(Between(<<>>), all) = Shown(Shown(Between(<<>>), ps), rs)
      BY <2>4, <3>1, ShownLaws
    <3>3. QED
      BY <2>2, <2>3, <3>2 DEF IsPayloadCut
  <2>8. Goal(all, Append(qs, q))
    BY <2>5, <2>6, <2>7
  <2> HIDE DEF Goal
  <2>9. QED
    BY <2>8
<1> HIDE DEF AllCut, ShownAll
<1>3. <<>> \in P /\ \A qs \in Seq(Seq(X)) : \A q \in Seq(X) : qs \in P => Append(qs, q) \in P
  <2>1. <<>> \in Seq(Seq(X)) /\ \A qs \in Seq(Seq(X)) : \A q \in Seq(X) : Append(qs, q) \in Seq(Seq(X))
    OBVIOUS
  <2>2. ASSUME NEW qs \in Seq(Seq(X)), NEW q \in Seq(X), qs \in P, AllCut(Append(qs, q))
        PROVE  ShownAll(Append(qs, q))
    BY <1>2, <2>2
  <2>3. QED
    BY <1>1, <2>1, <2>2
<1> HIDE DEF P
<1>4. payloads \in P
  BY <1>3, CuttingLines!SequenceInduction
<1>5. AllCut(payloads) => ShownAll(payloads)
  BY <1>4 DEF P
<1>6. QED
  BY <1>5 DEF AllCut, ShownAll

\* What is in neither of two sequences is not in both together.
LEMMA NoneInConcat ==
  ASSUME NEW X, NEW a \in Seq(X), NEW b \in Seq(X), NEW c,
         \A i \in 1 .. Len(a) : a[i] # c, \A i \in 1 .. Len(b) : b[i] # c
  PROVE  \A i \in 1 .. Len(a \o b) : (a \o b)[i] # c
<1>1. PICK ab \in Seq(X) : ab = a \o b
  <2>1. a \o b \in Seq(X)
    OBVIOUS
  <2>2. QED
    BY <2>1
<1>2. /\ Len(ab) = Len(a) + Len(b) /\ \A i \in 1 .. Len(a) : ab[i] = a[i]
      /\ \A i \in Len(a) + 1 .. Len(a) + Len(b) : ab[i] = b[i - Len(a)]
  BY <1>1
<1>3. \A i \in Len(a) + 1 .. Len(a) + Len(b) : i - Len(a) \in 1 .. Len(b)
  OBVIOUS
<1>4. \A i \in 1 .. Len(ab) : i \in 1 .. Len(a) \/ i \in Len(a) + 1 .. Len(a) + Len(b)
  BY <1>2
<1>5. QED
  BY <1>1, <1>2, <1>3, <1>4

\* What is between VERSION and END of a payload has one line feed, at its end.
LEMMA PayloadIsCut ==
  ASSUME NEW name \in Names, NEW result \in Results, NEW command \in Seq(Character),
         \A i \in 1 .. Len(WithoutNewline(command)) : WithoutNewline(command)[i] # LineFeed,
         WithoutNewline(command) \in Seq(Character), TextOK
  PROVE  /\ PayloadText(name, command, result) \in Seq(StreamWord)
         /\ \E ps \in Seq(Seq(StreamWord)) : IsPayloadCut(ps, PayloadText(name, command, result))
<1> DEFINE Y == StreamWord
<1>1. /\ "VERSION" \in Y /\ "END" \in Y /\ "EDIT" \in Y /\ LineFeed \in Y /\ result \in Y
      /\ Character \subseteq Y
  BY StreamWords DEF Results
<1>2. PICK w \in Seq(Character) : w = WithoutNewline(command) /\ \A i \in 1 .. Len(w) : w[i] # LineFeed
  OBVIOUS
<1>3. name \in Seq(Character) /\ (\A i \in 1 .. Len(name) : name[i] # LineFeed)
  BY NamesType DEF LineFeed
<1>4. Seq(Character) \subseteq Seq(Y)
  BY <1>1, SeqMonotonic
<1>5. name \in Seq(Y) /\ w \in Seq(Y)
  BY <1>3, <1>4
<1>6. result # LineFeed /\ result # "END" /\ "EDIT" # LineFeed
  BY DEF Results, LineFeed
<1> HIDE DEF Y
<1>7. PICK e \in Seq(Y), v \in Seq(Y), z \in Seq(Y), r \in Seq(Y) :
         /\ e = <<"EDIT">> /\ v = <<"VERSION", LineFeed>> /\ z = <<"END", LineFeed>>
         /\ r = <<result, LineFeed>>
  <2>1. /\ <<"EDIT">> \in Seq(Y) /\ <<"VERSION", LineFeed>> \in Seq(Y)
        /\ <<"END", LineFeed>> \in Seq(Y) /\ <<result, LineFeed>> \in Seq(Y)
    BY <1>1
  <2>2. QED
    BY <2>1
<1>8. PICK en \in Seq(Y) : en = e \o name
  <2>1. e \o name \in Seq(Y)
    BY <1>5
  <2>2. QED
    BY <2>1
<1>9. PICK u \in Seq(Y) : u = en \o w
  <2>1. en \o w \in Seq(Y)
    BY <1>5
  <2>2. QED
    BY <2>1
<1>10. \A i \in 1 .. Len(u) : u[i] # LineFeed
  <2>1. Len(e) = 1 /\ e[1] # LineFeed
    BY <1>6, <1>7
  <2>2. \A i \in 1 .. Len(e) : e[i] # LineFeed
    BY <2>1
  <2>3. \A i \in 1 .. Len(en) : en[i] # LineFeed
    BY <1>3, <1>5, <1>8, <2>2, NoneInConcat
  <2>4. QED
    BY <1>2, <1>5, <1>9, <2>3, NoneInConcat
<1>11. PICK ps \in Seq(Seq(Y)) : IsPayloadCut(ps, (v \o (u \o r)) \o z)
  BY <1>1, <1>6, <1>7, <1>10, PayloadCut
<1>12. PayloadText(name, command, result) = (v \o (u \o r)) \o z
  <2>1. PayloadText(name, command, result) = v \o e \o name \o w \o r \o z
    BY <1>2, <1>7 DEF PayloadText
  <2>2. v \o e \o name \o w \o r = v \o (u \o r)
    <3>1. v \o e \o name = v \o en
      <4>1. Associates(v, e, name)
        BY <1>5, ConcatAssociates
      <4>2. QED
        BY <1>8, <4>1, Zenon DEF Associates
    <3>2. (v \o en) \o w = v \o u
      <4>1. Associates(v, en, w)
        BY <1>5, ConcatAssociates
      <4>2. QED
        BY <1>9, <4>1, Zenon DEF Associates
    <3>3. Associates(v, u, r)
      BY ConcatAssociates
    <3>4. QED
      BY <3>1, <3>2, <3>3, Zenon DEF Associates
  <2>3. QED
    BY <2>1, <2>2
<1>13. (v \o (u \o r)) \o z \in Seq(Y)
  OBVIOUS
<1>14. QED
  BY <1>11, <1>12, <1>13 DEF Y

\* Every command the server reads has at most one line feed, at its end.
LEMMA CommandType ==
  ASSUME NEW X, NEW ps \in Seq(Seq(X)), NEW size, WellCut(ps, size), NEW i \in 1 .. Len(ps)
  PROVE  LET w == WithoutNewline(ps[i])
         IN w \in Seq(X) /\ \A j \in 1 .. Len(w) : w[j] # LineFeed
<1>1. PICK p \in Seq(X) : p = ps[i]
  OBVIOUS
<1>2. p # <<>> /\ \A j \in 1 .. Len(p) - 1 : p[j] # LineFeed
  BY <1>1 DEF WellCut, Full, AlmostFull, Open
<1>3. CASE Last(p) = LineFeed
  <2>1. WithoutNewline(p) = SubSeq(p, 1, Len(p) - 1)
    BY <1>2, <1>3 DEF WithoutNewline, Front
  <2>2. PICK w \in Seq(X) : w = SubSeq(p, 1, Len(p) - 1)
    <3>1. SubSeq(p, 1, Len(p) - 1) \in Seq(X)
      BY <1>2
    <3>2. QED
      BY <3>1
  <2>3. Len(w) = Len(p) - 1 /\ \A j \in 1 .. Len(w) : w[j] = p[j]
    <3>1. p # <<>>
      BY <1>2
    <3>2. Len(p) \in Nat /\ Len(p) # 0
      BY <3>1
    <3>3. Len(p) - 1 \in 0 .. Len(p)
      BY <3>2
    <3>4. PICK n \in 0 .. Len(p) : n = Len(p) - 1
      BY <3>3
    <3>5. w = SubSeq(p, 1, n)
      BY <2>2, <3>4
    <3>6. Len(w) = n /\ \A j \in 1 .. n : w[j] = p[j]
      BY <3>5
    <3>7. QED
      BY <3>4, <3>6
  <2>4. QED
    BY <1>1, <1>2, <2>1, <2>2, <2>3
<1>4. CASE Last(p) # LineFeed
  <2>1. WithoutNewline(p) = p
    BY <1>4 DEF WithoutNewline
  <2>2. p[Len(p)] # LineFeed
    BY <1>4 DEF Last
  <2>3. \A j \in 1 .. Len(p) : j \in 1 .. Len(p) - 1 \/ j = Len(p)
    OBVIOUS
  <2>4. QED
    BY <1>1, <1>2, <2>1, <2>2, <2>3
<1>5. QED
  BY <1>3, <1>4

\* Whatever the document and the commands contain, the client takes the stream of the server
\* apart where the server put it together.
THEOREM StreamAlwaysFramed == Spec => []StreamFramed
<1>1. ASSUME TextOK, NEW name \in Names, NEW result \in Results
      PROVE  LET commands == CommandsIn(Pieces(text, LineSize))
                 payloads == [i \in DOMAIN commands |-> PayloadText(name, commands[i], result)]
                 document == Document(text)
             IN Received(document.length, document.body \o FlattenSeq(payloads))
                  = [text |-> text, shown |-> payloads]
  <2> DEFINE X == Character
             Y == StreamWord
  <2>1. LineSize \in Sizes /\ text \in Seq(X)
    BY <1>1 DEF Sizes, TextOK
  <2> HIDE DEF X
  <2>2. PICK ps \in Seq(Seq(X)) : ps = Pieces(text, LineSize) /\ WellCut(ps, LineSize)
    BY <1>1, <2>1, PiecesWellCut
  <2>3. PICK m \in 0 .. Len(ps) : /\ \A i \in 1 .. m : ~IsDisconnect(ps[i])
                                  /\ m = Len(ps) \/ IsDisconnect(ps[m + 1])
    BY CommandsEnd
  <2>4. CommandsIn(ps) = [i \in 1 .. m |-> ps[i]]
    BY <2>3, CommandsAre
  <2> DEFINE payload(i) == PayloadText(name, ps[i], result)
  <2>5. ASSUME NEW i \in 1 .. m
        PROVE  /\ payload(i) \in Seq(Y)
               /\ \E cut \in Seq(Seq(Y)) : IsPayloadCut(cut, payload(i))
    <3>1. i \in 1 .. Len(ps)
      OBVIOUS
    <3>2. ps[i] \in Seq(Character)
      BY <3>1 DEF X
    <3>3. /\ WithoutNewline(ps[i]) \in Seq(Character)
          /\ \A j \in 1 .. Len(WithoutNewline(ps[i])) : WithoutNewline(ps[i])[j] # LineFeed
      BY <2>2, <3>1, CommandType DEF X
    <3>4. QED
      BY <1>1, <3>2, <3>3, PayloadIsCut
  <2> HIDE DEF Y
  <2>6. PICK payloads \in Seq(Seq(Y)) : payloads = [i \in 1 .. m |-> payload(i)]
    <3>1. m \in Nat
      OBVIOUS
    <3>2. \A i \in 1 .. m : payload(i) \in Seq(Y)
      BY <2>5
    <3> HIDE DEF payload
    <3>3. [i \in 1 .. m |-> payload(i)] \in Seq(Seq(Y))
      BY <3>1, <3>2
    <3>4. QED
      BY <3>3
  <2>7. \A i \in 1 .. Len(payloads) : \E cut \in Seq(Seq(Y)) : IsPayloadCut(cut, payloads[i])
    <3>1. Len(payloads) = m /\ \A i \in 1 .. m : payloads[i] = payload(i)
      BY <2>6
    <3> HIDE DEF payload
    <3>2. QED
      BY <2>5, <3>1
  <2>8. PICK cuts \in Seq(Seq(Y)) : /\ \A i \in 1 .. Len(cuts) : Full(cuts[i], LineSize)
                                    /\ FlattenSeq(cuts) = FlattenSeq(payloads)
                                    /\ Shown(Between(<<>>), cuts) = Between(payloads)
    BY <2>7, PayloadsShown
  <2>9. PICK rest \in Seq(Y) : rest = FlattenSeq(payloads)
    BY FlattenType
  <2>10. Pieces(rest, LineSize) = cuts
    <3>1. WellCut(cuts, LineSize)
      BY <2>8 DEF WellCut
    <3>2. QED
      BY <1>1, <2>1, <2>8, <2>9, <3>1, PiecesOfWellCut
  <2>11. text \in Seq(Y)
    <3>1. Seq(X) \subseteq Seq(Y)
      BY StreamWords, SeqMonotonic DEF X, Y
    <3>2. QED
      BY <2>1, <3>1
  <2>12. PICK t \in Seq(Y) : t = text
    BY <2>11
  <2>13. SubSeq(t \o rest, Len(t) + 1, Len(t \o rest)) = rest /\ SubSeq(t \o rest, 1, Len(t)) = t
    OBVIOUS
  <2>14. Received(Len(t), t \o rest) = [text |-> t, shown |-> payloads]
    <3>1. Received(Len(t), t \o rest)
            = [text |-> t, shown |-> Shown(Between(<<>>), Pieces(rest, LineSize)).shown]
      BY <2>13 DEF Received, Shown, Between
    <3>2. QED
      BY <2>8, <2>10, <3>1 DEF Between
  <2>15. DOMAIN CommandsIn(ps) = 1 .. m /\ \A i \in 1 .. m : CommandsIn(ps)[i] = ps[i]
    BY <2>4
  <2>16. [i \in DOMAIN CommandsIn(ps) |-> PayloadText(name, CommandsIn(ps)[i], result)] = payloads
    BY <2>6, <2>15
  <2>17. QED
    BY <2>2, <2>9, <2>12, <2>14, <2>16 DEF Document
<1>2. TextOK => StreamFramed
  BY <1>1 DEF StreamFramed
<1>3. QED
  BY <1>2, TextTyped, PTL

-------------------------------------------------------------------------------
(* How auth_lookup_role reads the roles file *)

\* Lines that fit into the buffer come from fgets whole: a larger buffer changes nothing.
LEMMA LinesThatFit ==
  ASSUME TextOK, \A i \in 1 .. Len(FileLines(text)) : Len(FileLines(text)[i]) < AuthLineSize
  PROVE  FileLines(text) \in Seq(Seq(Character)) /\ Pieces(text, AuthLineSize) = FileLines(text)
<1> DEFINE X == Character
           whole == Len(text) + 2
<1>1. text \in Seq(X) /\ Len(text) \in Nat
  BY DEF TextOK
<1>2. whole \in Sizes /\ AuthLineSize \in Sizes /\ AuthLineSize \in Nat
  BY AuthAssumption DEF Sizes
<1> HIDE DEF X
<1>3. PICK ps \in Seq(Seq(X)) : ps = Pieces(text, whole) /\ WellCut(ps, whole) /\ FlattenSeq(ps) = text
  BY <1>1, <1>2, PiecesWellCut
<1>4. ps = FileLines(text)
  BY <1>3 DEF FileLines
<1>5. ASSUME NEW i \in 1 .. Len(ps)
      PROVE  Full(ps[i], AuthLineSize) \/ (i = Len(ps) /\ AlmostFull(ps[i], AuthLineSize))
  <2>1. PICK p \in Seq(X) : p = ps[i]
    OBVIOUS
  <2>2. Len(p) < AuthLineSize /\ Len(p) \in Nat
    BY <1>4, <2>1
  <2>3. Len(p) <= Len(text)
    <3>1. PICK a \in Seq(X), b \in Seq(X) : text = (a \o p) \o b
      <4>1. \E a \in Seq(X), b \in Seq(X) : FlattenSeq(ps) = (a \o ps[i]) \o b
        BY FlattenAround
      <4>2. QED
        BY <1>3, <2>1, <4>1
    <3>2. Len(text) = (Len(a) + Len(p)) + Len(b) /\ Len(a) \in Nat /\ Len(b) \in Nat
      BY <3>1
    <3>3. QED
      BY <2>2, <3>2
  <2>4. CASE Full(p, whole)
    <3>1. p # <<>> /\ (\A j \in 1 .. Len(p) - 1 : p[j] # LineFeed) /\ p[Len(p)] = LineFeed
      BY <1>1, <2>2, <2>3, <2>4 DEF Full
    <3>2. QED
      BY <2>1, <2>2, <3>1 DEF Full
  <2>5. CASE i = Len(ps) /\ AlmostFull(p, whole)
    <3>1. p # <<>> /\ \A j \in 1 .. Len(p) : p[j] # LineFeed
      BY <2>5 DEF AlmostFull, Open
    <3>2. \A j \in 1 .. Len(p) - 1 : j \in 1 .. Len(p)
      BY <2>2
    <3>3. CASE Len(p) = AuthLineSize - 1
      BY <2>1, <2>2, <3>1, <3>2, <3>3 DEF Full
    <3>4. CASE Len(p) # AuthLineSize - 1
      <4>1. Len(p) < AuthLineSize - 1
        BY <1>2, <2>2, <3>4
      <4>2. QED
        BY <2>1, <2>5, <3>1, <4>1 DEF AlmostFull, Open
    <3>5. QED
      BY <3>3, <3>4
  <2>6. QED
    BY <1>3, <2>1, <2>4, <2>5 DEF WellCut
<1>6. WellCut(ps, AuthLineSize)
  BY <1>5 DEF WellCut
<1>7. Pieces(FlattenSeq(ps), AuthLineSize) = ps
  BY <1>2, <1>6, PiecesOfWellCut
<1>8. QED
  BY <1>3, <1>4, <1>7 DEF X

\* What one piece means to a user.
AnswerTo(user, words) == IF Ignored(words) THEN "next" ELSE Decide(user, Tokens(words))
OwnLine(user, words) == Len(words) = 2 /\ words[1] = user
RoleIn(word) == IF word \in {"write", "read"} THEN word ELSE "INVALID_ROLE"

LEMMA WordAnswers ==
  ASSUME NEW words \in Seq(Character), NEW user \in Users
  PROVE  /\ AnswerTo(user, words) # "next" <=> OwnLine(user, words)
         /\ OwnLine(user, words) => AnswerTo(user, words) = RoleIn(words[2])
<1>1. NoToken \notin Character /\ user # "#" /\ user # NoToken
  BY DEF NoToken, Character, Users, LineFeed
<1>2. Len(words) \in Nat /\ \A i \in 1 .. Len(words) : words[i] \in Character
  OBVIOUS
<1> DEFINE tokens == Tokens(words)
<1>3. /\ tokens[1] = IF 1 <= Len(words) THEN words[1] ELSE NoToken
      /\ tokens[2] = IF 2 <= Len(words) THEN words[2] ELSE NoToken
      /\ tokens[3] = IF 3 <= Len(words) THEN words[3] ELSE NoToken
  BY DEF Tokens
<1> HIDE DEF tokens
<1>4. CASE OwnLine(user, words)
  <2>1. Len(words) = 2 /\ words[1] = user /\ words[2] # NoToken
    BY <1>1, <1>2, <1>4 DEF OwnLine
  <2>2. tokens[1] = user /\ tokens[2] = words[2] /\ tokens[3] = NoToken
    BY <1>3, <2>1
  <2>3. ~Ignored(words)
    <3>1. words # <<>>
      BY <2>1
    <3>2. words[1] # "#"
      BY <1>1, <2>1
    <3>3. QED
      BY <3>1, <3>2 DEF Ignored
  <2>4. Decide(user, tokens) = RoleIn(words[2])
    BY <2>1, <2>2 DEF Decide, RoleIn
  <2>5. RoleIn(words[2]) # "next"
    BY DEF RoleIn
  <2>6. QED
    BY <1>4, <2>3, <2>4, <2>5 DEF AnswerTo, tokens
<1>5. CASE ~OwnLine(user, words)
  <2>1. ~Ignored(words) => tokens[2] = NoToken \/ tokens[3] # NoToken \/ tokens[1] # user
    <3>1. CASE Len(words) < 2
      BY <1>2, <1>3, <3>1
    <3>2. CASE Len(words) > 2
      <4>1. 3 \in 1 .. Len(words)
        BY <1>2, <3>2
      <4>2. QED
        BY <1>1, <1>2, <1>3, <4>1
    <3>3. CASE Len(words) = 2
      BY <1>3, <1>5, <3>3 DEF OwnLine
    <3>4. Len(words) < 2 \/ Len(words) = 2 \/ Len(words) > 2
      <4>1. PICK n \in Nat : n = Len(words)
        BY <1>2
      <4>2. n < 2 \/ n = 2 \/ n > 2
        OBVIOUS
      <4>3. QED
        BY <4>1, <4>2
    <3>5. QED
      BY <3>1, <3>2, <3>3, <3>4
  <2>2. ~Ignored(words) => Decide(user, tokens) = "next"
    BY <2>1 DEF Decide
  <2>3. QED
    BY <1>5, <2>2 DEF AnswerTo, tokens
<1>6. QED
  BY <1>4, <1>5

\* auth_lookup_role finds the role that the file lists for a user, whatever comments, blank
\* lines and malformed lines are around it, as long as every line fits into the buffer.
THEOREM RolesAlwaysRead == Spec => []RolesRead
<1>1. ASSUME TextOK, NEW user \in Users,
             \A i \in DOMAIN FileLines(text) : Len(FileLines(text)[i]) < AuthLineSize
      PROVE  LookupRole(text, user) = ListedRole(text, user)
  <2>1. text \in Seq(Character)
    BY <1>1 DEF TextOK
  <2>2. PICK ps \in Seq(Seq(Character)) : ps = FileLines(text) /\ WellCut(ps, Len(text) + 2)
    <3>1. Len(text) + 2 \in Sizes
      BY DEF Sizes
    <3>2. QED
      BY <1>1, <2>1, <3>1, PiecesWellCut DEF FileLines
  <2>3. DOMAIN ps = 1 .. Len(ps) /\ Len(ps) \in Nat
    OBVIOUS
  <2>4. Pieces(text, AuthLineSize) = ps
    <3>1. \A i \in 1 .. Len(FileLines(text)) : Len(FileLines(text)[i]) < AuthLineSize
      BY <1>1, <2>2, <2>3
    <3>2. QED
      BY <1>1, <2>2, <3>1, LinesThatFit
  <2>5. ASSUME NEW i \in 1 .. Len(ps)
        PROVE  WordsOf(ps[i]) \in Seq(Character)
    BY <2>2, CommandType DEF WordsOf
  <2> DEFINE own == {i \in 1 .. Len(ps) : OwnLine(user, WordsOf(ps[i]))}
  <2>6. \A i \in 1 .. Len(ps) :
          /\ AnswerTo(user, WordsOf(ps[i])) # "next" <=> i \in own
          /\ i \in own => AnswerTo(user, WordsOf(ps[i])) = RoleIn(WordsOf(ps[i])[2])
    BY <1>1, <2>5, WordAnswers
  <2>7. LookupRole(text, user) = IF own = {} THEN "NOT_FOUND" ELSE AnswerTo(user, WordsOf(ps[Min(own)]))
    <3>1. {i \in 1 .. Len(ps) : AnswerTo(user, WordsOf(ps[i])) # "next"} = own
      BY <2>6
    <3> HIDE DEF own
    <3>2. QED
      BY <2>3, <2>4, <3>1 DEF LookupRole, AnswerTo
  <2>8. ListedRole(text, user) = IF own = {} THEN "NOT_FOUND" ELSE RoleIn(WordsOf(ps[Min(own)])[2])
    <3>1. own = {i \in DOMAIN ps : LET words == WordsOf(ps[i]) IN Len(words) = 2 /\ words[1] = user}
      BY <2>3 DEF OwnLine
    <3> HIDE DEF own
    <3>2. QED
      BY <2>2, <3>1 DEF ListedRole, RoleIn
  <2>9. own # {} => Min(own) \in own
    <3>1. CASE \A i \in 1 .. Len(ps) : i \notin own
      BY <3>1
    <3>2. CASE \E m \in 1 .. Len(ps) : m \in own /\ \A i \in 1 .. m - 1 : i \notin own
      <4>1. PICK m \in 1 .. Len(ps) : m \in own /\ \A i \in 1 .. m - 1 : i \notin own
        BY <3>2
      <4>2. \A i \in own : m <= i
        <5>1. \A i \in 1 .. Len(ps) : i < m => i \in 1 .. m - 1
          OBVIOUS
        <5>2. own \subseteq 1 .. Len(ps)
          OBVIOUS
        <5> HIDE DEF own
        <5>3. QED
          BY <4>1, <5>1, <5>2
      <4> HIDE DEF own
      <4>3. QED
        BY <4>1, <4>2 DEF Min
    <3> HIDE DEF own
    <3>3. QED
      BY <2>3, <3>1, <3>2, FirstOrNone
  <2>10. own \subseteq 1 .. Len(ps)
    OBVIOUS
  <2> HIDE DEF own
  <2>11. QED
    BY <2>6, <2>7, <2>8, <2>9, <2>10
<1>2. TextOK => RolesRead
  BY <1>1 DEF RolesRead
<1>3. QED
  BY <1>2, TextTyped, PTL
===============================================================================
