--------------------------- MODULE CommandLineProofs ---------------------------
(***************************************************************************)
(* Theorems about CommandLine, for every line: how strtok_r finds the      *)
(* words of a command line, and what they are read as.                     *)
(***************************************************************************)
EXTENDS CommandLine, OrderedListsProofs

-------------------------------------------------------------------------------
(* How strtok_r finds the words of a command line *)

LEMMA ShortSequences ==
  ASSUME NEW S
  PROVE  /\ \A a \in S : <<a>> \in Seq(S)
         /\ \A a, b \in S : <<a, b>> \in Seq(S)
         /\ \A a, b, c \in S : <<a, b, c>> \in Seq(S)
         /\ \A a, b, c, d \in S : <<a, b, c, d>> \in Seq(S)
<1>1. \A a \in S : <<a>> \in Seq(S)
  OBVIOUS
<1>2. \A a, b \in S : <<a, b>> \in Seq(S)
  OBVIOUS
<1>3. \A a, b, c \in S : <<a, b, c>> \in Seq(S)
  OBVIOUS
<1>4. \A a, b, c, d \in S : <<a, b, c, d>> \in Seq(S)
  OBVIOUS
<1>5. QED
  BY <1>1, <1>2, <1>3, <1>4

\* A set of numbers is empty up to n or has a first one.
LEMMA FirstOrNone ==
  ASSUME NEW D, NEW n \in Nat
  PROVE  (\A i \in 1 .. n : i \notin D) \/ \E m \in 1 .. n : m \in D /\ \A i \in 1 .. m - 1 : i \notin D
<1> DEFINE P == {k \in Nat : (\A i \in 1 .. k : i \notin D)
                            \/ \E m \in 1 .. k : m \in D /\ \A i \in 1 .. m - 1 : i \notin D}
<1>1. 0 \in P
  OBVIOUS
<1>2. ASSUME NEW k \in Nat, k \in P
      PROVE  k + 1 \in P
  <2>1. CASE \E m \in 1 .. k : m \in D /\ \A i \in 1 .. m - 1 : i \notin D
    <3>1. \A m \in 1 .. k : m \in 1 .. k + 1
      OBVIOUS
    <3>2. QED
      BY <2>1, <3>1
  <2>2. CASE (\A i \in 1 .. k : i \notin D) /\ k + 1 \in D
    <3>1. k + 1 \in 1 .. k + 1 /\ 1 .. (k + 1) - 1 = 1 .. k
      OBVIOUS
    <3>2. QED
      BY <2>2, <3>1
  <2>3. CASE (\A i \in 1 .. k : i \notin D) /\ k + 1 \notin D
    <3>1. \A i \in 1 .. k + 1 : i \in 1 .. k \/ i = k + 1
      OBVIOUS
    <3>2. QED
      BY <2>3, <3>1
  <2>4. QED
    BY <1>2, <2>1, <2>2, <2>3
<1> HIDE DEF P
<1>3. n \in P
  BY <1>1, <1>2, Renumbering!Induction
<1>4. QED
  BY <1>3 DEF P

\* The part of a line behind a place in it.
Behind(line, place) == SubSeq(line, place + 1, Len(line))

LEMMA BehindType ==
  ASSUME NEW X, NEW line \in Seq(X), NEW place \in Nat
  PROVE  /\ Behind(line, place) \in Seq(X)
         /\ place <= Len(line) => Len(Behind(line, place)) = Len(line) - place
         /\ place >= Len(line) => Behind(line, place) = <<>>
         /\ \A i \in 1 .. Len(Behind(line, place)) : i + place \in 1 .. Len(line)
                                                     /\ Behind(line, place)[i] = line[i + place]
<1>1. place + 1 \in Int /\ place + 1 >= 1 /\ Len(line) \in Nat
  OBVIOUS
<1>2. CASE place <= Len(line)
  <2>1. PICK s \in Seq(X) : s = SubSeq(line, place + 1, Len(line))
    <3>1. SubSeq(line, place + 1, Len(line)) \in Seq(X)
      BY <1>1, <1>2
    <3>2. QED
      BY <3>1
  <2>2. Len(s) = Len(line) - place /\ \A i \in 1 .. Len(line) - place : s[i] = line[i + place]
    BY <1>1, <1>2, <2>1
  <2>3. \A i \in 1 .. Len(line) - place : i + place \in 1 .. Len(line)
    BY <1>1
  <2>4. place = Len(line) => s = <<>>
    BY <2>2
  <2>5. QED
    BY <1>1, <1>2, <2>1, <2>2, <2>3, <2>4 DEF Behind
<1>3. CASE place > Len(line)
  <2>1. SubSeq(line, place + 1, Len(line)) = <<>>
    BY <1>1, <1>3
  <2>2. QED
    BY <1>1, <1>3, <2>1 DEF Behind
<1>4. QED
  BY <1>1, <1>2, <1>3

\* A part of what is behind a place is a part of the line.
LEMMA PartBehind ==
  ASSUME NEW X, NEW line \in Seq(X), NEW place \in 0 .. Len(line),
         NEW a \in Nat \ {0}, NEW b \in Nat, b <= Len(line) - place
  PROVE  SubSeq(Behind(line, place), a, b) = SubSeq(line, place + a, place + b)
<1>1. PICK s \in Seq(X) : s = Behind(line, place) /\ Len(s) = Len(line) - place
                         /\ \A i \in 1 .. Len(s) : s[i] = line[i + place]
  BY BehindType
<1>2. CASE a <= b
  <2>1. PICK c \in Nat \ {0}, d \in Nat : c = place + a /\ d = place + b
    OBVIOUS
  <2>2. c <= d /\ d <= Len(line) /\ b <= Len(s)
    BY <1>1, <1>2, <2>1
  <2>3. PICK n \in Nat : n = b - a + 1 /\ n = d - c + 1
    BY <1>2, <2>1
  <2>4. Len(SubSeq(s, a, b)) = n /\ \A i \in 1 .. n : SubSeq(s, a, b)[i] = s[a + i - 1]
    BY ONLY s \in Seq(X), a \in Nat \ {0}, b \in Nat, n \in Nat, <1>2, <2>2, <2>3
  <2>5. Len(SubSeq(line, c, d)) = n /\ \A i \in 1 .. n : SubSeq(line, c, d)[i] = line[c + i - 1]
    BY <2>2, <2>3
  <2>6. ASSUME NEW i \in 1 .. n
        PROVE  s[a + i - 1] = line[c + i - 1]
    <3>1. PICK m \in Nat : m = Len(s)
      BY <1>1
    <3>2. PICK j \in 1 .. m : j = a + i - 1
      <4>1. i \in Int /\ 1 <= i /\ i <= n
        OBVIOUS
      <4>2. QED
        BY ONLY <2>2, <2>3, <3>1, <4>1, a \in Nat \ {0}, b \in Nat, n \in Nat, m \in Nat
    <3>3. j + place = c + i - 1
      BY ONLY <2>1, <3>2, a \in Nat, c \in Nat, i \in 1 .. n, place \in 0 .. Len(line),
              Len(line) \in Nat
    <3>4. QED
      BY <1>1, <3>1, <3>2, <3>3
  <2>7. SubSeq(s, a, b) \in Seq(X) /\ SubSeq(line, c, d) \in Seq(X)
    BY <1>2, <2>2
  <2>8. SubSeq(s, a, b) = SubSeq(line, c, d)
    BY <2>4, <2>5, <2>6, <2>7, SeqEqual
  <2>9. QED
    BY <1>1, <2>1, <2>8
<1>3. CASE a > b
  <2>1. SubSeq(s, a, b) = <<>> /\ SubSeq(line, place + a, place + b) = <<>>
    BY <1>1, <1>3
  <2>2. QED
    BY <1>1, <2>1
<1>4. QED
  BY <1>2, <1>3

\* Where a word that begins at i ends.
EndsAt(line, i, e) ==
    /\ \A j \in i .. e : line[j] # Blank
    /\ e = Len(line) \/ line[e + 1] = Blank

LEMMA WordEndIs ==
  ASSUME NEW X, NEW line \in Seq(X), NEW i \in 1 .. Len(line), NEW e \in i .. Len(line),
         EndsAt(line, i, e)
  PROVE  WordEnd(line, i) = e
<1> DEFINE blanks == {j \in i .. Len(line) : line[j] = Blank}
<1>1. Len(line) \in Nat /\ (\A j \in i .. e : line[j] # Blank) /\ (e = Len(line) \/ line[e + 1] = Blank)
  BY DEF EndsAt
<1>2. CASE e = Len(line)
  <2>1. blanks = {}
    BY <1>1, <1>2
  <2>2. QED
    BY <1>2, <2>1 DEF WordEnd
<1>3. CASE e # Len(line)
  <2>1. e + 1 \in i .. Len(line) /\ line[e + 1] = Blank
    BY <1>1, <1>3
  <2>2. e + 1 \in blanks
    BY <2>1
  <2>3. \A j \in blanks : e + 1 <= j
    <3>1. \A j \in i .. Len(line) : j <= e => j \in i .. e
      OBVIOUS
    <3>2. QED
      BY <1>1, <3>1
  <2>4. blanks \subseteq Nat
    OBVIOUS
  <2> HIDE DEF blanks
  <2>5. Min(blanks) = e + 1
    <3>1. PICK m \in blanks : m = Min(blanks) /\ \A j \in blanks : m <= j
      BY <2>2, <2>3 DEF Min
    <3>2. m <= e + 1 /\ e + 1 <= m
      BY <2>2, <2>3, <3>1
    <3>3. QED
      BY <2>4, <3>1, <3>2
  <2>6. blanks # {}
    BY <2>2
  <2>7. (e + 1) - 1 = e
    OBVIOUS
  <2>8. WordEnd(line, i) = Min(blanks) - 1
    BY <2>6 DEF WordEnd, blanks
  <2>9. QED
    BY <2>5, <2>7, <2>8
<1>4. QED
  BY <1>2, <1>3

LEMMA WordEnds ==
  ASSUME NEW X, NEW line \in Seq(X), NEW i \in 1 .. Len(line), line[i] # Blank
  PROVE  \E e \in i .. Len(line) : EndsAt(line, i, e)
<1> DEFINE n == Len(line) - i
           D == {d \in 1 .. n : line[i + d] = Blank}
<1>1. n \in Nat /\ Len(line) \in Nat /\ i + n = Len(line)
  OBVIOUS
<1>2. CASE \A d \in 1 .. n : d \notin D
  <2>1. ASSUME NEW j \in i .. Len(line)
        PROVE  line[j] # Blank
    <3>1. CASE j = i
      BY <3>1
    <3>2. CASE j # i
      <4>1. j - i \in 1 .. n /\ i + (j - i) = j
        BY <1>1, <3>2
      <4>2. QED
        BY <1>2, <4>1
    <3>3. QED
      BY <3>1, <3>2
  <2>2. Len(line) \in i .. Len(line)
    BY <1>1
  <2>3. QED
    BY <2>1, <2>2 DEF EndsAt
<1>3. CASE \E m \in 1 .. n : m \in D /\ \A d \in 1 .. m - 1 : d \notin D
  <2>1. PICK m \in 1 .. n : m \in D /\ \A d \in 1 .. m - 1 : d \notin D
    BY <1>3
  <2>2. PICK e \in i .. Len(line) : e = i + m - 1 /\ e + 1 = i + m
    <3>1. i + m - 1 \in i .. Len(line) /\ (i + m - 1) + 1 = i + m
      BY <1>1
    <3>2. QED
      BY <3>1
  <2>3. ASSUME NEW j \in i .. e
        PROVE  line[j] # Blank
    <3>1. CASE j = i
      BY <3>1
    <3>2. CASE j # i
      <4>1. j - i \in 1 .. m - 1 /\ j - i \in 1 .. n /\ i + (j - i) = j
        BY <1>1, <2>2, <3>2
      <4>2. QED
        BY <2>1, <4>1
    <3>3. QED
      BY <3>1, <3>2
  <2>4. line[e + 1] = Blank
    BY <2>1, <2>2
  <2>5. QED
    BY <2>3, <2>4 DEF EndsAt
<1> HIDE DEF D, n
<1>4. QED
  BY <1>1, <1>2, <1>3, FirstOrNone

LEMMA TokenOfBlanks ==
  ASSUME NEW X, NEW t \in Seq(X), \A i \in 1 .. Len(t) : t[i] = Blank
  PROVE  Token(t) = [word |-> <<>>, rest |-> <<>>]
<1>1. {i \in DOMAIN t : t[i] # Blank} = {}
  OBVIOUS
<1>2. QED
  BY <1>1 DEF Token

LEMMA TokenOfWord ==
  ASSUME NEW X, NEW t \in Seq(X), NEW m \in 1 .. Len(t), t[m] # Blank,
         \A i \in 1 .. m - 1 : t[i] = Blank, NEW e \in m .. Len(t), EndsAt(t, m, e)
  PROVE  Token(t) = [word |-> SubSeq(t, m, e), rest |-> SubSeq(t, e + 2, Len(t))]
<1> DEFINE inked == {i \in DOMAIN t : t[i] # Blank}
<1>1. DOMAIN t = 1 .. Len(t) /\ Len(t) \in Nat
  OBVIOUS
<1>2. m \in inked /\ inked \subseteq 1 .. Len(t)
  BY <1>1
<1>3. \A i \in inked : m <= i
  <2>1. \A i \in 1 .. Len(t) : i < m => i \in 1 .. m - 1
    OBVIOUS
  <2>2. QED
    BY <1>1, <2>1
<1> HIDE DEF inked
<1>4. Min(inked) = m
  <2>1. PICK k \in inked : k = Min(inked) /\ \A i \in inked : k <= i
    BY <1>2, <1>3 DEF Min
  <2>2. k <= m /\ m <= k /\ k \in 1 .. Len(t)
    BY <1>2, <1>3, <2>1
  <2>3. QED
    BY <2>1, <2>2
<1>5. WordEnd(t, m) = e
  BY WordEndIs
<1>6. inked # {}
  BY <1>2
<1>7. QED
  BY <1>4, <1>5, <1>6 DEF Token, inked

\* strtok_r stops at the blank behind a word, or at the end.
Break(line, place) == place = 0 \/ place > Len(line) \/ line[place] = Blank
StartsBehind(line, place) == {i \in WordStarts(line) : i > place}

\* The first that is not blank behind a break begins a word, the first there.
LEMMA FirstInk ==
  ASSUME NEW X, NEW line \in Seq(X), NEW place \in 0 .. Len(line), Break(line, place)
  PROVE  LET t == Behind(line, place) IN
         \/ (\A i \in 1 .. Len(t) : t[i] = Blank) /\ StartsBehind(line, place) = {}
         \/ \E m \in 1 .. Len(t) :
              /\ t[m] # Blank /\ \A i \in 1 .. m - 1 : t[i] = Blank
              /\ m + place \in StartsBehind(line, place)
              /\ \A j \in StartsBehind(line, place) : m + place <= j
<1>1. PICK t \in Seq(X) : t = Behind(line, place) /\ Len(t) = Len(line) - place
                        /\ \A i \in 1 .. Len(t) : i + place \in 1 .. Len(line) /\ t[i] = line[i + place]
  BY BehindType
<1>2. Len(line) \in Nat /\ DOMAIN line = 1 .. Len(line) /\ Len(t) \in Nat
  OBVIOUS
<1>3. ASSUME NEW j \in StartsBehind(line, place)
      PROVE  j - place \in 1 .. Len(t) /\ (j - place) + place = j /\ t[j - place] # Blank
  <2>1. j \in 1 .. Len(line) /\ j > place /\ line[j] # Blank
    BY <1>2 DEF StartsBehind, WordStarts
  <2>2. j - place \in 1 .. Len(t) /\ (j - place) + place = j
    BY <1>1, <1>2, <2>1
  <2>3. QED
    BY <1>1, <2>1, <2>2
<1> DEFINE D == {i \in 1 .. Len(t) : t[i] # Blank}
<1>4. CASE \A i \in 1 .. Len(t) : i \notin D
  <2>1. \A i \in 1 .. Len(t) : t[i] = Blank
    BY <1>4
  <2>2. StartsBehind(line, place) = {}
    BY <1>3, <2>1
  <2>3. QED
    BY <1>1, <2>1, <2>2
<1>5. CASE \E m \in 1 .. Len(t) : m \in D /\ \A i \in 1 .. m - 1 : i \notin D
  <2>1. PICK m \in 1 .. Len(t) : m \in D /\ \A i \in 1 .. m - 1 : i \notin D
    BY <1>5
  <2>2. t[m] # Blank /\ \A i \in 1 .. m - 1 : i \in 1 .. Len(t) /\ t[i] = Blank
    BY <1>2, <2>1
  <2>3. m + place \in 1 .. Len(line) /\ line[m + place] # Blank /\ m + place > place
    BY <1>1, <2>2
  <2>4. m + place = 1 \/ line[(m + place) - 1] = Blank
    <3>1. CASE m = 1
      <4>1. place = 0 \/ line[place] = Blank
        BY <1>2 DEF Break
      <4>2. (m + place) - 1 = place
        BY <3>1
      <4>3. QED
        BY <3>1, <4>1, <4>2
    <3>2. CASE m # 1
      <4>1. m - 1 \in 1 .. m - 1 /\ (m - 1) + place = (m + place) - 1
        BY <1>2, <3>2
      <4>2. t[m - 1] = Blank /\ t[m - 1] = line[(m - 1) + place]
        BY <1>1, <2>2, <4>1
      <4>3. QED
        BY <4>1, <4>2
    <3>3. QED
      BY <3>1, <3>2
  <2>5. m + place \in StartsBehind(line, place)
    BY <1>2, <2>3, <2>4 DEF StartsBehind, WordStarts
  <2>6. ASSUME NEW j \in StartsBehind(line, place)
        PROVE  m + place <= j
    <3>1. j - place \in 1 .. Len(t) /\ (j - place) + place = j /\ t[j - place] # Blank
      BY <1>3
    <3>2. ~(j - place \in 1 .. m - 1)
      BY <2>2, <3>1
    <3>3. QED
      BY <3>1, <3>2
  <2>7. QED
    BY <1>1, <2>2, <2>5, <2>6
<1> HIDE DEF D
<1>6. \/ \A i \in 1 .. Len(t) : i \notin D
      \/ \E m \in 1 .. Len(t) : m \in D /\ \A i \in 1 .. m - 1 : i \notin D
  <2>1. PICK n \in Nat : n = Len(t)
    OBVIOUS
  <2>2. QED
    BY ONLY <2>1, FirstOrNone
<1>7. QED
  BY <1>4, <1>5, <1>6

LEMMA NoTokenBehind ==
  ASSUME NEW X, NEW line \in Seq(X), NEW place \in Nat, Break(line, place),
         StartsBehind(line, place) = {}
  PROVE  Token(Behind(line, place)) = [word |-> <<>>, rest |-> <<>>]
<1>1. PICK t \in Seq(X) : t = Behind(line, place)
  BY BehindType
<1>2. CASE place <= Len(line)
  <2>1. place \in 0 .. Len(line)
    BY <1>2
  <2>2. \A i \in 1 .. Len(t) : t[i] = Blank
    BY <1>1, <2>1, FirstInk
  <2>3. QED
    BY <1>1, <2>2, TokenOfBlanks
<1>3. CASE ~(place <= Len(line))
  <2>1. Len(line) \in Nat
    OBVIOUS
  <2>2. place >= Len(line)
    BY <1>3, <2>1
  <2>3. t = <<>>
    BY <1>1, <2>2, BehindType
  <2>4. \A i \in 1 .. Len(t) : t[i] = Blank
    BY <2>3
  <2>5. QED
    BY <1>1, <2>4, TokenOfBlanks
<1>4. QED
  BY <1>2, <1>3

\* Otherwise strtok_r takes the first word there is, and comes to a break behind it.
LEMMA TokenBehind ==
  ASSUME NEW X, NEW line \in Seq(X), NEW place \in Nat, Break(line, place),
         NEW s \in StartsBehind(line, place), \A j \in StartsBehind(line, place) : s <= j
  PROVE  LET e == WordEnd(line, s) IN
         /\ e \in s .. Len(line) /\ EndsAt(line, s, e)
         /\ Token(Behind(line, place)) = [word |-> SubSeq(line, s, e), rest |-> Behind(line, e + 1)]
<1>1. s \in 1 .. Len(line) /\ s > place /\ line[s] # Blank /\ Len(line) \in Nat
  BY DEF StartsBehind, WordStarts
<1>2. place \in 0 .. Len(line)
  BY <1>1
<1>3. PICK t \in Seq(X) : t = Behind(line, place) /\ Len(t) = Len(line) - place
                        /\ \A i \in 1 .. Len(t) : i + place \in 1 .. Len(line) /\ t[i] = line[i + place]
  BY <1>2, BehindType
<1>4. PICK m \in 1 .. Len(t) : /\ t[m] # Blank /\ \A i \in 1 .. m - 1 : t[i] = Blank
                              /\ m + place \in StartsBehind(line, place)
                              /\ \A j \in StartsBehind(line, place) : m + place <= j
  <2>1. StartsBehind(line, place) # {}
    OBVIOUS
  <2>2. QED
    BY <1>2, <1>3, <2>1, FirstInk
<1>5. s = m + place
  <2>1. s <= m + place /\ m + place <= s
    BY <1>4
  <2>2. m \in Nat
    OBVIOUS
  <2>3. QED
    BY <1>1, <2>1, <2>2
<1>6. PICK e \in s .. Len(line) : EndsAt(line, s, e)
  BY <1>1, WordEnds
<1>7. WordEnd(line, s) = e
  BY <1>1, <1>6, WordEndIs
<1>8. PICK d \in m .. Len(t) : d + place = e /\ d = e - place
  <2>1. e - place \in m .. Len(t) /\ (e - place) + place = e
    BY <1>1, <1>3, <1>5
  <2>2. QED
    BY <2>1
<1>9. EndsAt(t, m, d)
  <2>1. ASSUME NEW j \in m .. d
        PROVE  t[j] # Blank
    <3>1. j + place \in s .. e /\ j \in 1 .. Len(t)
      BY <1>3, <1>5, <1>8
    <3>2. QED
      BY <1>3, <1>6, <3>1 DEF EndsAt
  <2>2. CASE e = Len(line)
    <3>1. d = Len(t)
      BY <1>1, <1>3, <1>8, <2>2
    <3>2. QED
      BY <2>1, <3>1 DEF EndsAt
  <2>3. CASE e # Len(line)
    <3>1. line[e + 1] = Blank
      BY <1>6, <2>3 DEF EndsAt
    <3>2. d + 1 \in 1 .. Len(t) /\ (d + 1) + place = e + 1
      <4>1. e < Len(line) /\ e \in Nat
        BY <1>1, <2>3
      <4>2. d \in Nat /\ Len(t) \in Nat /\ Len(t) = Len(line) - place
        BY <1>3
      <4>3. QED
        BY <1>1, <1>2, <1>8, <4>1, <4>2
    <3>3. t[d + 1] = Blank
      BY <1>3, <3>1, <3>2
    <3>4. QED
      BY <2>1, <3>3 DEF EndsAt
  <2>4. QED
    BY <2>2, <2>3
<1>10. Token(t) = [word |-> SubSeq(t, m, d), rest |-> SubSeq(t, d + 2, Len(t))]
  BY <1>4, <1>9, TokenOfWord
<1>11. SubSeq(t, m, d) = SubSeq(line, s, e)
  <2>1. m \in Nat \ {0} /\ d \in Nat /\ d <= Len(line) - place
    BY <1>3, <1>8
  <2>2. SubSeq(t, m, d) = SubSeq(line, place + m, place + d)
    BY <1>2, <1>3, <2>1, PartBehind
  <2>3. place + m = s /\ place + d = e
    BY <1>5, <1>8
  <2>4. QED
    BY <2>2, <2>3
<1>12. SubSeq(t, d + 2, Len(t)) = Behind(line, e + 1)
  <2>1. PICK a \in Nat \ {0}, b \in Nat : a = d + 2 /\ b = Len(t)
    <3>1. d + 2 \in Nat \ {0} /\ Len(t) \in Nat
      OBVIOUS
    <3>2. QED
      BY <3>1
  <2>2. b <= Len(line) - place
    BY <1>1, <1>3, <2>1
  <2>3. SubSeq(t, a, b) = SubSeq(line, place + a, place + b)
    <3>1. SubSeq(Behind(line, place), a, b) = SubSeq(line, place + a, place + b)
      BY ONLY line \in Seq(X), <1>2, a \in Nat \ {0}, b \in Nat, <2>2, PartBehind
    <3>2. QED
      BY <1>3, <3>1
  <2>4. place + a = (e + 1) + 1 /\ place + b = Len(line)
    <3>1. Len(t) = Len(line) - place /\ d + place = e
      BY <1>3, <1>8
    <3>2. d \in Int /\ e \in Int /\ place \in Int /\ Len(line) \in Int
      BY <1>1
    <3>3. QED
      BY ONLY <2>1, <3>1, <3>2
  <2>5. QED
    BY <2>1, <2>3, <2>4 DEF Behind
<1>13. QED
  BY <1>3, <1>6, <1>7, <1>10, <1>11, <1>12

\* How many words begin up to a place.
Rank(line, place) == Cardinality({j \in WordStarts(line) : j <= place})

LEMMA RankType ==
  ASSUME NEW X, NEW line \in Seq(X), NEW place
  PROVE  /\ IsFiniteSet(WordStarts(line)) /\ IsFiniteSet({j \in WordStarts(line) : j <= place})
         /\ Cardinality(WordStarts(line)) \in Nat /\ Rank(line, place) \in Nat
<1>1. WordStarts(line) \subseteq 1 .. Len(line) /\ Len(line) \in Nat
  BY DEF WordStarts
<1>2. IsFiniteSet(1 .. Len(line))
  BY <1>1, FS_Interval
<1>3. IsFiniteSet(WordStarts(line))
  BY <1>1, <1>2, FS_Subset
<1> DEFINE T == {j \in WordStarts(line) : j <= place}
<1>4. T \subseteq WordStarts(line)
  OBVIOUS
<1> HIDE DEF T
<1>5. IsFiniteSet(T)
  BY <1>3, <1>4, FS_Subset
<1>6. QED
  BY <1>3, <1>5, FS_CardinalityType DEF T, Rank

LEMMA RankZero == ASSUME NEW X, NEW line \in Seq(X) PROVE Rank(line, 0) = 0
<1>1. {j \in WordStarts(line) : j <= 0} = {}
  BY DEF WordStarts
<1>2. QED
  BY <1>1, FS_EmptySet DEF Rank

\* The first word behind a place is the next one.
LEMMA RankNext ==
  ASSUME NEW X, NEW line \in Seq(X), NEW place \in Nat,
         NEW s \in StartsBehind(line, place), \A j \in StartsBehind(line, place) : s <= j
  PROVE  Rank(line, s) = Rank(line, place) + 1
<1> DEFINE T == {j \in WordStarts(line) : j <= place}
           U == {j \in WordStarts(line) : j <= s}
<1>1. s \in WordStarts(line) /\ s > place /\ WordStarts(line) \subseteq Nat
  BY DEF StartsBehind, WordStarts
<1>2. \A j \in WordStarts(line) : j > place => s <= j
  BY DEF StartsBehind
<1>3. ASSUME NEW j \in WordStarts(line)
      PROVE  j <= s <=> j <= place \/ j = s
  BY <1>1, <1>2
<1>4. U = T \cup {s}
  BY <1>1, <1>3
<1>5. s \notin T
  BY <1>1
<1>6. IsFiniteSet(T)
  BY RankType
<1> HIDE DEF T, U
<1>7. Cardinality(U) = Cardinality(T) + 1
  BY <1>4, <1>5, <1>6, FS_AddElement
<1>8. QED
  BY <1>7 DEF T, U, Rank

LEMMA RankLast ==
  ASSUME NEW X, NEW line \in Seq(X), NEW place \in Nat
  PROVE  /\ StartsBehind(line, place) = {} => Rank(line, place) = Cardinality(WordStarts(line))
         /\ StartsBehind(line, place) # {} => Rank(line, place) < Cardinality(WordStarts(line))
<1> DEFINE T == {j \in WordStarts(line) : j <= place}
           W == WordStarts(line)
<1>1. WordStarts(line) \subseteq Nat
  BY DEF WordStarts
<1>2. ASSUME StartsBehind(line, place) = {}
      PROVE  T = W
  BY <1>1, <1>2 DEF StartsBehind
<1>3. ASSUME NEW s \in StartsBehind(line, place)
      PROVE  T \subseteq W \ {s} /\ s \in W
  BY <1>1, <1>3 DEF StartsBehind
<1>4. IsFiniteSet(T) /\ IsFiniteSet(W) /\ Cardinality(W) \in Nat
  BY RankType
<1> HIDE DEF T, W
<1>5. ASSUME NEW s \in StartsBehind(line, place)
      PROVE  Cardinality(T) < Cardinality(W)
  <2>1. IsFiniteSet(W \ {s}) /\ Cardinality(W \ {s}) = Cardinality(W) - 1
    BY <1>3, <1>4, FS_RemoveElement
  <2>2. Cardinality(T) <= Cardinality(W \ {s}) /\ Cardinality(T) \in Nat
    BY <1>3, <1>4, <2>1, FS_Subset, FS_CardinalityType
  <2>3. QED
    BY <1>4, <2>1, <2>2
<1>6. QED
  BY <1>2, <1>5 DEF T, W, Rank

LEMMA RankGrows ==
  ASSUME NEW X, NEW line \in Seq(X), NEW i \in WordStarts(line), NEW s \in WordStarts(line), i < s
  PROVE  Rank(line, i) < Rank(line, s)
<1> DEFINE T == {j \in WordStarts(line) : j <= i}
           U == {j \in WordStarts(line) : j <= s}
<1>1. WordStarts(line) \subseteq Nat
  BY DEF WordStarts
<1>2. T \subseteq U \ {s} /\ s \in U
  BY <1>1
<1>3. IsFiniteSet(T) /\ IsFiniteSet(U)
  BY RankType
<1> HIDE DEF T, U
<1>4. Cardinality(U) \in Nat /\ Cardinality(T) \in Nat
  BY <1>3, FS_CardinalityType
<1>5. IsFiniteSet(U \ {s}) /\ Cardinality(U \ {s}) = Cardinality(U) - 1
  BY <1>2, <1>3, FS_RemoveElement
<1>6. Cardinality(T) <= Cardinality(U \ {s})
  BY <1>2, <1>5, FS_Subset
<1>7. QED
  BY <1>4, <1>5, <1>6 DEF T, U, Rank

LEMMA StartOfIs ==
  ASSUME NEW X, NEW line \in Seq(X), NEW s \in WordStarts(line), NEW k, Rank(line, s) = k
  PROVE  StartOf(line, k) = s
<1>1. WordStarts(line) \subseteq Nat
  BY DEF WordStarts
<1>2. ASSUME NEW i \in WordStarts(line), Rank(line, i) = k
      PROVE  i = s
  <2>1. ~(i < s) /\ ~(s < i)
    <3>1. Rank(line, i) \in Nat
      BY RankType
    <3>2. QED
      BY <1>2, <3>1, RankGrows
  <2>2. i \in Nat /\ s \in Nat
    BY <1>1
  <2>3. QED
    BY <2>1, <2>2
<1>3. StartOf(line, k) = CHOOSE i \in WordStarts(line) : Rank(line, i) = k
  BY DEF StartOf, Rank
<1>4. QED
  BY <1>2, <1>3

LEMMA FirstBehind ==
  ASSUME NEW X, NEW line \in Seq(X), NEW place \in Nat, StartsBehind(line, place) # {}
  PROVE  \E s \in StartsBehind(line, place) : \A j \in StartsBehind(line, place) : s <= j
<1> DEFINE D == StartsBehind(line, place)
<1>1. D \subseteq 1 .. Len(line) /\ Len(line) \in Nat
  BY DEF StartsBehind, WordStarts
<1> HIDE DEF D
<1>2. CASE \A i \in 1 .. Len(line) : i \notin D
  BY <1>1, <1>2 DEF D
<1>3. CASE \E m \in 1 .. Len(line) : m \in D /\ \A i \in 1 .. m - 1 : i \notin D
  <2>1. PICK m \in 1 .. Len(line) : m \in D /\ \A i \in 1 .. m - 1 : i \notin D
    BY <1>3
  <2>2. \A j \in 1 .. Len(line) : j < m => j \in 1 .. m - 1
    OBVIOUS
  <2>3. \A j \in D : m <= j
    BY <1>1, <2>1, <2>2
  <2>4. QED
    BY <2>1, <2>3 DEF D
<1>4. QED
  BY <1>1, <1>2, <1>3, FirstOrNone

\* What strtok_r leaves when it has found k words, and the next it finds.
Reading(line, k, rest) ==
    IF k <= Cardinality(WordStarts(line))
      THEN \E place \in Nat : Break(line, place) /\ Rank(line, place) = k /\ rest = Behind(line, place)
      ELSE rest = <<>>
WordAt(line, k) == IF k <= Cardinality(WordStarts(line)) THEN Word(line, k) ELSE <<>>

LEMMA ReadingBegins == ASSUME NEW X, NEW line \in Seq(X) PROVE Reading(line, 0, line)
<1>1. Cardinality(WordStarts(line)) \in Nat
  BY RankType
<1>2. Behind(line, 0) = line
  <2>1. SubSeq(line, 1, Len(line)) = line
    OBVIOUS
  <2>2. QED
    BY <2>1 DEF Behind
<1>3. Rank(line, 0) = 0 /\ Break(line, 0) /\ 0 \in Nat
  BY RankZero DEF Break
<1>4. QED
  BY <1>1, <1>2, <1>3 DEF Reading

LEMMA TokenReads ==
  ASSUME NEW X, NEW line \in Seq(X), NEW k \in Nat, NEW rest, Reading(line, k, rest)
  PROVE  /\ Token(rest).word = WordAt(line, k + 1)
         /\ Reading(line, k + 1, Token(rest).rest)
         /\ k < Cardinality(WordStarts(line)) =>
              LET s == StartOf(line, k + 1) IN
              /\ WordEnd(line, s) \in s .. Len(line) /\ s \in 1 .. Len(line)
              /\ Token(rest).rest = Behind(line, WordEnd(line, s) + 1)
<1> DEFINE count == Cardinality(WordStarts(line))
<1>1. count \in Nat
  BY RankType
<1>2. CASE k > count
  <2>1. rest = <<>>
    BY <1>1, <1>2 DEF Reading
  <2>2. PICK none \in Seq(X) : none = <<>>
    <3>1. <<>> \in Seq(X)
      OBVIOUS
    <3>2. QED
      BY <3>1
  <2>3. \A i \in 1 .. Len(none) : none[i] = Blank
    BY <2>2
  <2>4. Token(none) = [word |-> <<>>, rest |-> <<>>]
    BY <2>3, TokenOfBlanks
  <2>5. Token(rest).word = <<>> /\ Token(rest).rest = <<>>
    BY <2>1, <2>2, <2>4
  <2>6. ~(k + 1 <= count) /\ ~(k < count)
    BY <1>1, <1>2
  <2>7. QED
    BY <2>5, <2>6 DEF WordAt, Reading
<1>3. CASE k = count
  <2>1. PICK place \in Nat : Break(line, place) /\ Rank(line, place) = k /\ rest = Behind(line, place)
    BY <1>1, <1>3 DEF Reading
  <2>2. StartsBehind(line, place) = {}
    BY <1>1, <1>3, <2>1, RankLast
  <2>3. Token(rest) = [word |-> <<>>, rest |-> <<>>]
    BY <2>1, <2>2, NoTokenBehind
  <2>4. Token(rest).word = <<>> /\ Token(rest).rest = <<>>
    BY <2>3
  <2>5. ~(k + 1 <= count) /\ ~(k < count)
    BY <1>1, <1>3
  <2>6. QED
    BY <2>4, <2>5 DEF WordAt, Reading
<1>4. CASE k < count
  <2>1. PICK place \in Nat : Break(line, place) /\ Rank(line, place) = k /\ rest = Behind(line, place)
    BY <1>1, <1>4 DEF Reading
  <2>2. StartsBehind(line, place) # {}
    BY <1>1, <1>4, <2>1, RankLast
  <2>3. PICK s \in StartsBehind(line, place) : \A j \in StartsBehind(line, place) : s <= j
    BY <2>2, FirstBehind
  <2>4. Rank(line, s) = k + 1
    BY <2>1, <2>3, RankNext
  <2>5. s \in WordStarts(line) /\ s \in 1 .. Len(line) /\ s \in Nat
    BY DEF StartsBehind, WordStarts
  <2>6. StartOf(line, k + 1) = s
    <3>1. PICK n \in Nat : n = k + 1
      OBVIOUS
    <3>2. QED
      BY <2>4, <2>5, <3>1, StartOfIs
  <2>7. PICK e \in s .. Len(line) : e = WordEnd(line, s) /\ EndsAt(line, s, e)
           /\ Token(rest) = [word |-> SubSeq(line, s, e), rest |-> Behind(line, e + 1)]
    BY <2>1, <2>3, TokenBehind
  <2>8. Token(rest).word = SubSeq(line, s, e) /\ Token(rest).rest = Behind(line, e + 1)
    <3>1. Token(rest) = [word |-> SubSeq(line, s, e), rest |-> Behind(line, e + 1)]
      BY <2>7
    <3>2. \A w, b : [word |-> w, rest |-> b].word = w /\ [word |-> w, rest |-> b].rest = b
      OBVIOUS
    <3>3. QED
      BY <3>1, <3>2, Zenon
  <2>9. k + 1 <= count
    BY <1>1, <1>4
  <2>10. Token(rest).word = WordAt(line, k + 1)
    BY <2>6, <2>7, <2>8, <2>9 DEF WordAt, Word
  <2>11. PICK next \in Nat : next = e + 1
    <3>1. e + 1 \in Nat
      BY <2>5
    <3>2. QED
      BY <3>1
  <2>12. Break(line, next)
    <3>1. Len(line) \in Nat
      OBVIOUS
    <3>2. QED
      BY <2>7, <2>11, <3>1 DEF EndsAt, Break
  <2>13. Rank(line, next) = k + 1
    <3>1. ASSUME NEW j \in WordStarts(line)
          PROVE  j <= next <=> j <= s
      <4>1. j \in 1 .. Len(line) /\ line[j] # Blank /\ (j = 1 \/ line[j - 1] = Blank)
        BY DEF WordStarts
      <4>2. CASE j > s /\ j <= next
        <5>1. j - 1 \in s .. e /\ j # 1
          BY <2>5, <2>11, <4>1, <4>2
        <5>2. line[j - 1] # Blank
          BY <2>7, <5>1 DEF EndsAt
        <5>3. QED
          BY <4>1, <5>1, <5>2
      <4>3. s <= next /\ j \in Nat
        BY <2>5, <2>11, <4>1
      <4>4. QED
        BY <2>5, <4>2, <4>3
    <3>2. {j \in WordStarts(line) : j <= next} = {j \in WordStarts(line) : j <= s}
      BY <3>1
    <3>3. QED
      BY <2>4, <3>2 DEF Rank
  <2>14. Reading(line, k + 1, Behind(line, next))
    BY <2>9, <2>12, <2>13 DEF Reading
  <2>15. QED
    BY <2>5, <2>6, <2>7, <2>8, <2>10, <2>11, <2>14
<1>5. QED
  BY <1>1, <1>2, <1>3, <1>4

\* The loop of Split.
SplitCall(state, i) ==
    [words |-> Append(state.words, Token(state.rest).word), rest |-> Token(state.rest).rest]

Splitting == INSTANCE FoldLaws WITH Op <- SplitCall

Unsplit(rest) == [words |-> <<>>, rest |-> rest]
UpTo(n) == [i \in 1 .. n |-> i]

LEMMA SplitIsFold ==
  ASSUME NEW rest, NEW n
  PROVE  Split(rest, n) = Splitting!Fold(Unsplit(rest), UpTo(n))
  BY DEF Split, SplitCall, Unsplit, UpTo, Splitting!Fold, FoldLeft, Splitting!FoldLeft, MapThenFoldSet,
         Splitting!MapThenFoldSet, Max, Splitting!Max

LEMMA SplitNext ==
  ASSUME NEW rest, NEW n \in Nat
  PROVE  Split(rest, n + 1) = SplitCall(Split(rest, n), n + 1)
<1> DEFINE f == [i \in Nat |-> i]
<1>1. UpTo(n) \in Seq(Nat) /\ UpTo(n) = [i \in 1 .. n |-> f[i]]
  BY DEF UpTo
<1>2. Append(UpTo(n), n + 1) = UpTo(n + 1)
  <2>1. UpTo(n + 1) = [i \in 1 .. n + 1 |-> f[i]] /\ f[n + 1] = n + 1
    BY DEF UpTo
  <2> HIDE DEF f
  <2>2. Append([i \in 1 .. n |-> f[i]], f[n + 1]) = [i \in 1 .. n + 1 |-> f[i]]
    BY OneMore
  <2>3. QED
    BY <1>1, <2>1, <2>2
<1>3. PICK m \in Nat : m = n + 1
  OBVIOUS
<1>4. PICK s \in Seq(Nat) : s = UpTo(n)
  BY <1>1
<1>5. Splitting!Fold(Unsplit(rest), Append(s, m)) = SplitCall(Splitting!Fold(Unsplit(rest), s), m)
  BY Splitting!FoldAppend
<1>6. QED
  BY <1>2, <1>3, <1>4, <1>5, SplitIsFold

LEMMA SplitNone == ASSUME NEW rest PROVE Split(rest, 0) = Unsplit(rest)
<1>1. UpTo(0) = <<>>
  BY DEF UpTo
<1>2. QED
  BY <1>1, SplitIsFold, Splitting!FoldEmpty

\* So many calls of strtok_r behind the first word find the words that follow it.
WordsAfterFirst(line, n) == [i \in 1 .. n |-> WordAt(line, i + 1)]
IsSplit(state, line, n) ==
    state = [words |-> WordsAfterFirst(line, n), rest |-> state.rest] /\ Reading(line, n + 1, state.rest)

LEMMA SplitReads ==
  ASSUME NEW X, NEW line \in Seq(X), NEW rest, Reading(line, 1, rest), NEW n \in Nat
  PROVE  IsSplit(Split(rest, n), line, n)
<1> DEFINE P == {k \in Nat : IsSplit(Split(rest, k), line, k)}
<1>1. IsSplit(Split(rest, 0), line, 0)
  <2>1. Split(rest, 0) = [words |-> <<>>, rest |-> rest]
    BY SplitNone DEF Unsplit
  <2>2. WordsAfterFirst(line, 0) = <<>>
    BY DEF WordsAfterFirst
  <2>3. QED
    BY <2>1, <2>2 DEF IsSplit
<1>2. ASSUME NEW k \in Nat, IsSplit(Split(rest, k), line, k)
      PROVE  IsSplit(Split(rest, k + 1), line, k + 1)
  <2>1. PICK state : state = Split(rest, k)
    OBVIOUS
  <2>2. state.words = WordsAfterFirst(line, k) /\ Reading(line, k + 1, state.rest)
    BY <1>2, <2>1 DEF IsSplit
  <2>3. PICK m \in Nat : m = k + 1
    OBVIOUS
  <2>4. Token(state.rest).word = WordAt(line, m + 1) /\ Reading(line, m + 1, Token(state.rest).rest)
    BY <2>2, <2>3, TokenReads
  <2>5. Append(WordsAfterFirst(line, k), WordAt(line, m + 1)) = WordsAfterFirst(line, m)
    <3> DEFINE f == [i \in Nat |-> WordAt(line, i + 1)]
    <3>1. /\ WordsAfterFirst(line, k) = [i \in 1 .. k |-> f[i]]
          /\ WordsAfterFirst(line, m) = [i \in 1 .. k + 1 |-> f[i]]
          /\ f[k + 1] = WordAt(line, m + 1)
      BY <2>3 DEF WordsAfterFirst
    <3> HIDE DEF f
    <3>2. Append([i \in 1 .. k |-> f[i]], f[k + 1]) = [i \in 1 .. k + 1 |-> f[i]]
      BY OneMore
    <3>3. QED
      BY <3>1, <3>2
  <2>6. Split(rest, m) = [words |-> WordsAfterFirst(line, m), rest |-> Token(state.rest).rest]
    BY <2>1, <2>2, <2>3, <2>4, <2>5, SplitNext DEF SplitCall
  <2>7. IsSplit(Split(rest, m), line, m)
    BY <2>4, <2>6 DEF IsSplit
  <2>8. QED
    BY <2>3, <2>7
<1> HIDE DEF P
<1>3. 0 \in P /\ \A k \in Nat : k \in P => k + 1 \in P
  BY <1>1, <1>2 DEF P
<1>4. n \in P
  BY <1>3, Renumbering!Induction
<1>5. QED
  BY <1>4 DEF P

\* A word that there is is not empty.
LEMMA ReadingAlways ==
  ASSUME NEW X, NEW line \in Seq(X), NEW n \in Nat
  PROVE  \E rest : Reading(line, n, rest)
<1> DEFINE P == {k \in Nat : \E rest : Reading(line, k, rest)}
<1>1. 0 \in P
  BY ReadingBegins
<1>2. \A k \in Nat : k \in P => k + 1 \in P
  BY TokenReads
<1> HIDE DEF P
<1>3. n \in P
  BY <1>1, <1>2, Renumbering!Induction
<1>4. QED
  BY <1>3 DEF P

LEMMA WordsAreInked ==
  ASSUME NEW X, NEW line \in Seq(X), NEW k \in Nat, k < Cardinality(WordStarts(line))
  PROVE  Word(line, k + 1) # <<>>
<1>1. PICK rest : Reading(line, k, rest)
  BY ReadingAlways
<1>2. PICK s, e : s = StartOf(line, k + 1) /\ e = WordEnd(line, s) /\ s \in 1 .. Len(line) /\ e \in s .. Len(line)
  BY <1>1, TokenReads
<1>3. Len(SubSeq(line, s, e)) # 0
  BY <1>2
<1>4. QED
  BY <1>2, <1>3 DEF Word

LEMMA ArgumentsType ==
  ASSUME NEW name \in DOMAIN Arguments
  PROVE  Len(Arguments[name]) \in Nat /\ DOMAIN Arguments[name] = 1 .. Len(Arguments[name])
<1>1. \/ Arguments[name] = <<"start", "end">>
      \/ Arguments[name] = <<"start", "end", "url">>
      \/ Arguments[name] = <<"pos", "len">>
      \/ Arguments[name] = <<"level", "pos">>
      \/ Arguments[name] = <<"pos">>
  BY DEF Arguments
<1> DEFINE fields == {"start", "end", "url", "pos", "len", "level"}
<1>2. "start" \in fields /\ "end" \in fields /\ "url" \in fields /\ "pos" \in fields
      /\ "len" \in fields /\ "level" \in fields
  OBVIOUS
<1> HIDE DEF fields
<1>3. /\ \A a \in fields : <<a>> \in Seq(fields)
      /\ \A a, b \in fields : <<a, b>> \in Seq(fields)
      /\ \A a, b, c \in fields : <<a, b, c>> \in Seq(fields)
  BY ShortSequences
<1>4. Arguments[name] \in Seq(fields)
  BY <1>1, <1>2, <1>3, Zenon
<1>5. QED
  BY <1>4

\* The arguments of a command are made of as many words as it has fields.
ValueIn(words, fields, i) == IF fields[i] = "url" THEN words[i] ELSE SizeOf(words[i])
ArgumentsFrom(words, fields) ==
    [field \in {fields[i] : i \in DOMAIN fields} |->
       ValueIn(words, fields, CHOOSE i \in DOMAIN fields : fields[i] = field)]
SizesIn(words, fields) == \A i \in DOMAIN fields : fields[i] # "url" => IsSize(words[i])

LEMMA SameArguments ==
  ASSUME NEW name, NEW a, NEW b, \A i \in DOMAIN Arguments[name] : a[i] = b[i]
  PROVE  WithArguments(name, a) = WithArguments(name, b)
<1> DEFINE fields == Arguments[name]
<1>1. \A w : WithArguments(name, w) = IF SizesIn(w, fields)
                                      THEN [name |-> name] @@ ArgumentsFrom(w, fields)
                                      ELSE [name |-> "MALFORMED"]
  BY DEF WithArguments, SizesIn, ArgumentsFrom, ValueIn
<1>2. \A i \in DOMAIN fields : a[i] = b[i]
  OBVIOUS
<1> HIDE DEF fields
<1>3. SizesIn(a, fields) <=> SizesIn(b, fields)
  BY <1>2 DEF SizesIn
<1>4. ASSUME NEW field \in {fields[i] : i \in DOMAIN fields}
      PROVE  LET i == CHOOSE i \in DOMAIN fields : fields[i] = field
             IN ValueIn(a, fields, i) = ValueIn(b, fields, i)
  <2>1. PICK i : i = (CHOOSE n \in DOMAIN fields : fields[n] = field) /\ i \in DOMAIN fields
    OBVIOUS
  <2>2. ValueIn(a, fields, i) = ValueIn(b, fields, i)
    BY <1>2, <2>1 DEF ValueIn
  <2>3. QED
    BY <2>1, <2>2
<1>5. ArgumentsFrom(a, fields) = ArgumentsFrom(b, fields)
  BY <1>4 DEF ArgumentsFrom
<1>6. QED
  BY <1>1, <1>3, <1>5

\* INSERT: what follows the blank behind its position is its content.
LEMMA InsertMeans ==
  ASSUME NEW X, NEW line \in Seq(X), NEW rest, Reading(line, 1, rest)
  PROVE  LET count == Cardinality(WordStarts(line))
             begin == WordEnd(line, StartOf(line, 2)) + 2
         IN ParseInsert(rest) = IF count > 1 /\ IsSize(Word(line, 2)) /\ begin <= Len(line)
                                THEN [name |-> "INSERT", pos |-> SizeOf(Word(line, 2)),
                                      content |-> SubSeq(line, begin, Len(line))]
                                ELSE [name |-> "MALFORMED"]
<1> DEFINE count == Cardinality(WordStarts(line))
           begin == WordEnd(line, StartOf(line, 2)) + 2
<1>1. count \in Nat
  BY RankType
<1>2. PICK two \in Nat, one \in Nat : two = 2 /\ one = 1 /\ two = one + 1
  OBVIOUS
<1>3. /\ Token(rest).word = WordAt(line, 2)
      /\ count > 1 => /\ WordEnd(line, StartOf(line, 2)) \in StartOf(line, 2) .. Len(line)
                      /\ StartOf(line, 2) \in 1 .. Len(line)
                      /\ Token(rest).rest = Behind(line, WordEnd(line, StartOf(line, 2)) + 1)
  <2>1. Reading(line, one, rest)
    BY <1>2
  <2>2. /\ Token(rest).word = WordAt(line, one + 1)
        /\ one < count =>
              LET s == StartOf(line, one + 1) IN
              /\ WordEnd(line, s) \in s .. Len(line) /\ s \in 1 .. Len(line)
              /\ Token(rest).rest = Behind(line, WordEnd(line, s) + 1)
    BY <2>1, TokenReads
  <2>3. QED
    BY <1>1, <1>2, <2>2
<1>4. ~IsSize(<<>>)
  BY DEF IsSize, DigitsOf
<1>5. CASE ~(count > 1)
  <2>1. Token(rest).word = <<>>
    BY <1>1, <1>3, <1>5 DEF WordAt
  <2>2. QED
    BY <1>4, <1>5, <2>1 DEF ParseInsert
<1>6. CASE count > 1
  <2>1. Token(rest).word = Word(line, 2)
    BY <1>1, <1>3, <1>6 DEF WordAt
  <2>2. PICK e \in Nat : e = WordEnd(line, StartOf(line, 2)) /\ Token(rest).rest = Behind(line, e + 1)
    BY <1>3, <1>6
  <2>3. begin = e + 2 /\ begin = (e + 1) + 1
    BY <2>2
  <2>4. PICK next \in Nat : next = e + 1
    OBVIOUS
  <2>5. Behind(line, next) # <<>> <=> begin <= Len(line)
    <3>1. Len(line) \in Nat /\ begin = next + 1
      BY <2>3, <2>4
    <3>2. CASE next < Len(line)
      <4>1. Len(Behind(line, next)) = Len(line) - next
        BY <3>1, <3>2, BehindType
      <4>2. Len(Behind(line, next)) # 0
        BY <3>1, <3>2, <4>1
      <4>3. Behind(line, next) # <<>>
        BY <4>2
      <4>4. QED
        BY <3>1, <3>2, <4>3
    <3>3. CASE ~(next < Len(line))
      <4>1. Behind(line, next) = <<>>
        BY <3>1, <3>3, BehindType
      <4>2. QED
        BY <3>1, <3>3, <4>1
    <3>4. QED
      BY <3>2, <3>3
  <2>6. Behind(line, next) = SubSeq(line, begin, Len(line))
    BY <2>3, <2>4 DEF Behind
  <2>7. Token(rest).rest = Behind(line, next)
    BY <2>2, <2>4
  <2> HIDE DEF begin
  <2>8. QED
    BY <1>6, <2>1, <2>5, <2>6, <2>7 DEF ParseInsert, begin
<1>7. QED
  BY <1>5, <1>6

\* The other commands: they are executed when their words are as many as their arguments.
LEMMA WordsMean ==
  ASSUME NEW X, NEW line \in Seq(X), NEW rest, Reading(line, 1, rest), NEW name \in DOMAIN Arguments,
         Cardinality(WordStarts(line)) > 0
  PROVE  ParseWords(name, rest)
           = IF Cardinality(WordStarts(line)) = 1 + Len(Arguments[name])
             THEN WithArguments(name, [i \in DOMAIN Arguments[name] |-> Word(line, i + 1)])
             ELSE [name |-> "MALFORMED"]
<1> DEFINE count == Cardinality(WordStarts(line))
           k == Len(Arguments[name])
           words == Split(rest, k + 1).words
<1>1. count \in Nat /\ k \in Nat /\ DOMAIN Arguments[name] = 1 .. k
  BY RankType, ArgumentsType
<1>2. words = [i \in 1 .. k + 1 |-> WordAt(line, i + 1)]
  <2>1. PICK m \in Nat : m = k + 1
    BY <1>1
  <2>2. IsSplit(Split(rest, m), line, m)
    BY SplitReads
  <2>3. Split(rest, m).words = WordsAfterFirst(line, m)
    BY <2>2 DEF IsSplit
  <2>4. QED
    BY <2>1, <2>3 DEF WordsAfterFirst
<1> HIDE DEF count, k
<1>3. ASSUME NEW i \in 1 .. k + 1
      PROVE  words[i] = <<>> <=> count < i + 1
  <2>1. words[i] = WordAt(line, i + 1)
    BY <1>2
  <2>2. CASE count < i + 1
    <3>1. ~(i + 1 <= count)
      BY <1>1, <2>2
    <3>2. QED
      BY <2>1, <2>2, <3>1 DEF WordAt, count
  <2>3. CASE ~(count < i + 1)
    <3>1. i + 1 <= count /\ i < count
      BY <1>1, <2>3
    <3>2. PICK n \in Nat : n = i
      BY <1>1
    <3>3. Word(line, n + 1) # <<>>
      BY <3>1, <3>2, WordsAreInked DEF count
    <3>4. QED
      BY <2>1, <2>3, <3>1, <3>2, <3>3 DEF WordAt, count
  <2>4. QED
    BY <2>2, <2>3
<1>4. (words[k + 1] = <<>> /\ \A i \in 1 .. k : words[i] # <<>>) <=> count = 1 + k
  <2>1. k + 1 \in 1 .. k + 1 /\ (\A i \in 1 .. k : i \in 1 .. k + 1)
    BY <1>1
  <2>2. words[k + 1] = <<>> <=> count < (k + 1) + 1
    BY <1>3, <2>1
  <2>3. ASSUME count = 1 + k
        PROVE  \A i \in 1 .. k : words[i] # <<>>
    <3>1. \A i \in 1 .. k : ~(count < i + 1)
      BY <1>1, <2>3
    <3>2. QED
      BY <1>3, <2>1, <3>1
  <2>4. ASSUME \A i \in 1 .. k : words[i] # <<>>
        PROVE  count >= k + 1
    <3>1. CASE k = 0
      BY <1>1, <3>1 DEF count
    <3>2. CASE k # 0
      <4>1. k \in 1 .. k
        BY <1>1, <3>2
      <4>2. ~(count < k + 1)
        BY <1>3, <2>1, <2>4, <4>1
      <4>3. QED
        BY <1>1, <4>2
    <3>3. QED
      BY <3>1, <3>2
  <2> HIDE DEF words
  <2>5. QED
    BY <1>1, <2>2, <2>3, <2>4
<1>5. count = 1 + k => WithArguments(name, words)
                         = WithArguments(name, [i \in DOMAIN Arguments[name] |-> Word(line, i + 1)])
  <2>1. ASSUME count = 1 + k, NEW i \in 1 .. k
        PROVE  words[i] = Word(line, i + 1)
    <3>1. i \in 1 .. k + 1 /\ i + 1 <= count
      BY <1>1, <2>1
    <3>2. QED
      BY <1>2, <3>1 DEF WordAt, count
  <2> DEFINE named == [i \in DOMAIN Arguments[name] |-> Word(line, i + 1)]
  <2>2. \A i \in DOMAIN Arguments[name] : named[i] = Word(line, i + 1)
    OBVIOUS
  <2> HIDE DEF words, named
  <2>3. count = 1 + k => \A i \in DOMAIN Arguments[name] : words[i] = named[i]
    BY <1>1, <2>1, <2>2
  <2>4. count = 1 + k => WithArguments(name, words) = WithArguments(name, named)
    BY <2>3, SameArguments
  <2>5. QED
    BY <2>4 DEF named
<1>6. ParseWords(name, rest) = IF words[k + 1] = <<>> /\ \A i \in 1 .. k : words[i] # <<>>
                               THEN WithArguments(name, words) ELSE [name |-> "MALFORMED"]
  BY DEF ParseWords, k
<1> HIDE DEF words
<1>7. QED
  BY <1>4, <1>5, <1>6 DEF count, k

\* What command_execute makes of a line is what its words say, whatever they are and however
\* many blanks are between them.
THEOREM ParsingCorrect ==
  ASSUME NEW X, NEW line \in Seq(X)
  PROVE  Parse(line) = Meaning(line)
<1>0. PICK copy \in Seq(X) : copy = WithoutNewline(line)
  <2>1. WithoutNewline(line) \in Seq(X)
    BY DEF WithoutNewline, Front, Last
  <2>2. QED
    BY <2>1, Zenon
<1> DEFINE count == Cardinality(WordStarts(copy))
           rest == Token(copy).rest
           first == Word(copy, 1)
<1>1. count \in Nat
  BY RankType
<1>2. Token(copy).word = WordAt(copy, 1) /\ Reading(copy, 1, rest)
  <2>1. PICK zero \in Nat : zero = 0 /\ zero + 1 = 1
    OBVIOUS
  <2>2. Reading(copy, zero, copy)
    BY <2>1, ReadingBegins
  <2>3. Token(copy).word = WordAt(copy, zero + 1) /\ Reading(copy, zero + 1, Token(copy).rest)
    BY <2>2, TokenReads
  <2>4. QED
    BY <2>1, <2>3
<1>3. CASE count = 0
  <2>1. Token(copy).word = <<>>
    BY <1>2, <1>3 DEF WordAt
  <2>2. ~IsName(<<>>)
    BY DEF IsName
  <2>3. Parse(line) = [name |-> "UNKNOWN"]
    BY <1>0, <2>1, <2>2 DEF Parse
  <2>4. Meaning(line) = [name |-> "UNKNOWN"]
    BY <1>0, <1>3 DEF Meaning
  <2>5. QED
    BY <2>3, <2>4
<1>4. CASE count > 0
  <2>1. Token(copy).word = first
    BY <1>1, <1>2, <1>4 DEF WordAt
  <2>2. first \in Seq(X)
    <3>1. PICK zero \in Nat : zero = 0 /\ zero + 1 = 1
      OBVIOUS
    <3>2. Reading(copy, zero, copy) /\ zero < count
      BY <1>4, <3>1, ReadingBegins
    <3>3. PICK s, e : s = StartOf(copy, zero + 1) /\ e = WordEnd(copy, s) /\ s \in 1 .. Len(copy)
                      /\ e \in s .. Len(copy)
      BY <3>2, TokenReads
    <3>4. SubSeq(copy, s, e) \in Seq(X)
      BY <3>3
    <3>5. QED
      BY <3>1, <3>3, <3>4 DEF Word
  <2>3. CASE ~Valid(line) \/ ~IsName(first)
    <3>1. Parse(line) = [name |-> "UNKNOWN"]
      <4>1. IsName(<<"INSERT">>)
        BY DEF IsName, Arguments
      <4>2. QED
        BY <1>0, <2>1, <2>3, <4>1 DEF Parse
    <3>2. Meaning(line) = [name |-> "UNKNOWN"]
      BY <1>0, <2>3 DEF Meaning
    <3>3. QED
      BY <3>1, <3>2
  <2>4. CASE Valid(line) /\ IsName(first)
    <3>1. first[1] \in DOMAIN Arguments /\ Len(first) = 1
      BY <2>4 DEF IsName
    <3>2. first = <<"INSERT">> <=> first[1] = "INSERT"
      BY <2>2, <3>1
    <3> DEFINE begin == WordEnd(copy, StartOf(copy, 2)) + 2
    <3>3. CASE first[1] = "INSERT"
      <4>1. Parse(line) = ParseInsert(rest)
        BY <1>0, <2>1, <2>4, <3>2, <3>3 DEF Parse
      <4>2. Meaning(line) = IF count > 1 /\ IsSize(Word(copy, 2)) /\ begin <= Len(copy)
                            THEN [name |-> "INSERT", pos |-> SizeOf(Word(copy, 2)),
                                  content |-> SubSeq(copy, begin, Len(copy))]
                            ELSE [name |-> "MALFORMED"]
        BY <1>0, <1>4, <2>4, <3>3 DEF Meaning
      <4>3. QED
        BY <1>2, <4>1, <4>2, InsertMeans
    <3>4. CASE first[1] # "INSERT"
      <4>1. Parse(line) = ParseWords(first[1], rest)
        BY <1>0, <2>1, <2>4, <3>2, <3>4 DEF Parse
      <4>2. Meaning(line) = IF count = 1 + Len(Arguments[first[1]])
                            THEN WithArguments(first[1], [i \in DOMAIN Arguments[first[1]] |-> Word(copy, i + 1)])
                            ELSE [name |-> "MALFORMED"]
        BY <1>0, <1>4, <2>4, <3>4 DEF Meaning
      <4>3. PICK name \in DOMAIN Arguments : name = first[1]
        BY <3>1
      <4>4. QED
        BY <1>2, <1>4, <4>1, <4>2, <4>3, WordsMean
    <3>5. QED
      BY <3>3, <3>4
  <2>5. QED
    BY <2>3, <2>4
<1>5. QED
  BY <1>1, <1>3, <1>4
===============================================================================
