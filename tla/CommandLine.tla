------------------------------- MODULE CommandLine ------------------------------
(***************************************************************************)
(* How command.c reads a line as a command, as an operator from a line, as *)
(* fgets returns it, to the command that Markdown!Execute takes.  A text   *)
(* is a sequence of words, digits and signs; blanks separate them and what *)
(* is not printable is a tab.                                              *)
(***************************************************************************)
EXTENDS Markdown

CONSTANT CommandSize    \* MAX_COMMAND_LEN: 256 in the code

ASSUME CommandSizeAssumption == CommandSize \in Nat

Blank == " "
Tab == "\t"

\* The arguments of each command that are words of their own.  INSERT has its content too.
Arguments ==
    [name \in {"INSERT", "DEL", "NEWLINE", "HEADING", "BOLD", "ITALIC", "CODE", "LINK", "ORDERED_LIST"}
              \cup DOMAIN Tags |->
       CASE name \in {"BOLD", "ITALIC", "CODE"} -> <<"start", "end">>
         [] name = "LINK" -> <<"start", "end", "url">>
         [] name = "DEL" -> <<"pos", "len">>
         [] name = "HEADING" -> <<"level", "pos">>
         [] OTHER -> <<"pos">>]

\* validate_raw_command_line: the length counts the line feed, if the line has one.
Valid(line) ==
    /\ line # <<>> /\ Len(line) <= CommandSize
    /\ \A i \in DOMAIN line : line[i] # Tab /\ (line[i] = LineFeed => i = Len(line))

\* The last index before the first blank from i on.
WordEnd(line, i) ==
    LET blanks == {j \in i .. Len(line) : line[j] = Blank}
    IN IF blanks = {} THEN Len(line) ELSE Min(blanks) - 1

\* Faulty variant: strtok_r skips the blanks after the word as well.
TokenSkipping(line) ==
    LET inked == {i \in DOMAIN line : line[i] # Blank}
        first == Min(inked)
        end == WordEnd(line, first)
        later == {i \in inked : i > end}
    IN IF inked = {} THEN [word |-> <<>>, rest |-> <<>>]
       ELSE [word |-> SubSeq(line, first, end),
             rest |-> IF later = {} THEN <<>> ELSE SubSeq(line, Min(later), Len(line))]

\* strtok_r: skip blanks, take a word (the empty one is NULL) and the blank that ends it.
Token(line) ==
    LET inked == {i \in DOMAIN line : line[i] # Blank}
        first == Min(inked)
        end == WordEnd(line, first)
    IN IF inked = {} THEN [word |-> <<>>, rest |-> <<>>]
       ELSE [word |-> SubSeq(line, first, end), rest |-> SubSeq(line, end + 2, Len(line))]

\* So many calls of strtok_r on a line.
Split(line, calls) ==
    LET Call(state, i) ==
          [words |-> Append(state.words, Token(state.rest).word), rest |-> Token(state.rest).rest]
    IN FoldLeft(Call, [words |-> <<>>, rest |-> line], [i \in 1 .. calls |-> i])

\* The digits of a number, after the sign that strtoul lets pass.
DigitsOf(word) == IF word # <<>> /\ word[1] \in {"-", "+"} THEN Tail(word) ELSE word

\* parse_size: all of the word is a number.
IsSize(word) == DigitsOf(word) # <<>> /\ \A i \in DOMAIN DigitsOf(word) : IsDigit(DigitsOf(word)[i])

\* strtoul: a number that is too large becomes the largest, a negative one wraps around.
SizeOf(word) ==
    LET Digit(char) == IF char = "0" THEN 0 ELSE CHOOSE n \in DOMAIN Digits : Digits[n] = char
        value == FoldLeft(LAMBDA n, char : 10 * n + Digit(char), 0, DigitsOf(word))
    IN CASE value >= SizeModulus -> SizeModulus - 1
         [] value < SizeModulus /\ word[1] = "-" -> (SizeModulus - value) % SizeModulus
         [] OTHER -> value

\* The command with such words as arguments.
WithArguments(name, words) ==
    LET fields == Arguments[name]
        Value(i) == IF fields[i] = "url" THEN words[i] ELSE SizeOf(words[i])
    IN IF \A i \in DOMAIN fields : fields[i] # "url" => IsSize(words[i])
         THEN [name |-> name] @@ [field \in {fields[i] : i \in DOMAIN fields} |->
                                   Value(CHOOSE i \in DOMAIN fields : fields[i] = field)]
         ELSE [name |-> "MALFORMED"]

\* INSERT: a position, and whatever follows the blank after it, blanks included.
ParseInsert(rest) ==
    LET position == Token(rest) IN
    IF IsSize(position.word) /\ position.rest # <<>>
      THEN [name |-> "INSERT", pos |-> SizeOf(position.word), content |-> position.rest]
      ELSE [name |-> "MALFORMED"]

\* The other commands: as many words as they have arguments, and none after them.
ParseWords(name, rest) ==
    LET count == Len(Arguments[name])
        words == Split(rest, count + 1).words
    IN IF words[count + 1] = <<>> /\ \A i \in 1 .. count : words[i] # <<>>
         THEN WithArguments(name, words)
         ELSE [name |-> "MALFORMED"]

IsName(word) == Len(word) = 1 /\ word[1] \in DOMAIN Arguments

\* What command_execute makes of a line before it calls the engine: the line as it came is
\* checked, and its copy without the line feed is read.
Parse(line) ==
    LET copy == WithoutNewline(line)
        name == Token(copy).word
    IN CASE ~Valid(line) \/ ~IsName(name) -> [name |-> "UNKNOWN"]
         [] Valid(line) /\ name = <<"INSERT">> -> ParseInsert(Token(copy).rest)
         [] OTHER -> ParseWords(name[1], Token(copy).rest)

-------------------------------------------------------------------------------
(* Reference definition *)

\* The words of a line: where they begin and end, from left to right.
WordStarts(line) == {i \in DOMAIN line : line[i] # Blank /\ (i = 1 \/ line[i - 1] = Blank)}
StartOf(line, k) ==
    CHOOSE i \in WordStarts(line) : Cardinality({j \in WordStarts(line) : j <= i}) = k
Word(line, k) == SubSeq(line, StartOf(line, k), WordEnd(line, StartOf(line, k)))

\* What a line says, by its words: all of them are used, except that INSERT has one
\* argument and then text that begins after exactly one blank and ends with the line.
Meaning(line) ==
    LET copy == WithoutNewline(line)
        count == Cardinality(WordStarts(copy))
        known == Valid(line) /\ count > 0 /\ IsName(Word(copy, 1))
        name == Word(copy, 1)[1]
        text == WordEnd(copy, StartOf(copy, 2)) + 2
    IN CASE ~known -> [name |-> "UNKNOWN"]
         [] known /\ name = "INSERT" /\ count > 1 /\ IsSize(Word(copy, 2)) /\ text <= Len(copy) ->
              [name |-> name, pos |-> SizeOf(Word(copy, 2)),
               content |-> SubSeq(copy, text, Len(copy))]
         [] known /\ name # "INSERT" /\ count = 1 + Len(Arguments[name]) ->
              WithArguments(name, [i \in DOMAIN Arguments[name] |-> Word(copy, i + 1)])
         [] OTHER -> [name |-> "MALFORMED"]
===============================================================================
