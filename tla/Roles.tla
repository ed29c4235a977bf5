--------------------------------- MODULE Roles ---------------------------------
(***************************************************************************)
(* The roles file and its lookup in auth.c, as an operator on the text of  *)
(* the file.  Texts are sequences of words: blanks only separate them.     *)
(***************************************************************************)
EXTENDS Lines

CONSTANT AuthLineSize    \* AUTH_LINE_BUF_SIZE: 512 in the code

ASSUME AuthAssumption == AuthLineSize \in Nat /\ AuthLineSize > 2

NoToken == "NULL"

\* What trimming leaves of a piece of the file for strtok.
WordsOf(piece) == WithoutNewline(piece)

\* Blank pieces and comments are not looked at.
Ignored(words) == words = <<>> \/ words[1] = "#"

\* The three calls of strtok.
Tokens(words) == [i \in 1 .. 3 |-> IF i <= Len(words) THEN words[i] ELSE NoToken]

\* Faulty variant: what follows the role is not looked at.
DecideAnyLength(user, tokens) ==
    CASE tokens[2] = NoToken \/ tokens[1] # user -> "next"
      [] tokens[2] # NoToken /\ tokens[1] = user /\ tokens[2] \in {"write", "read"} -> tokens[2]
      [] OTHER -> "INVALID_ROLE"

\* What the tokens of a piece mean for a user: go on with the next one, or the result.
Decide(user, tokens) ==
    CASE tokens[2] = NoToken \/ tokens[3] # NoToken \/ tokens[1] # user -> "next"
      [] tokens[2] # NoToken /\ tokens[3] = NoToken /\ tokens[1] = user
         /\ tokens[2] \in {"write", "read"} -> tokens[2]
      [] OTHER -> "INVALID_ROLE"

\* auth_lookup_role when nobody else calls it: the first piece that decides.
LookupRole(file, user) ==
    LET pieces == Pieces(file, AuthLineSize)
        Answer(i) == LET words == WordsOf(pieces[i])
                     IN IF Ignored(words) THEN "next" ELSE Decide(user, Tokens(words))
        deciding == {i \in DOMAIN pieces : Answer(i) # "next"}
    IN IF deciding = {} THEN "NOT_FOUND" ELSE Answer(Min(deciding))

-------------------------------------------------------------------------------
(* Reference definition *)

\* The lines of the file, however long.
FileLines(file) == Pieces(file, Len(file) + 2)

\* The role the file lists for a user: that of the first line that is its name and one
\* more word.
ListedRole(file, user) ==
    LET lines == FileLines(file)
        own == {i \in DOMAIN lines :
                  LET words == WordsOf(lines[i]) IN Len(words) = 2 /\ words[1] = user}
        role == WordsOf(lines[Min(own)])[2]
    IN CASE own = {} -> "NOT_FOUND"
         [] own # {} /\ role \in {"write", "read"} -> role
         [] OTHER -> "INVALID_ROLE"
===============================================================================
