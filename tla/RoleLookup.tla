------------------------------- MODULE RoleLookup ------------------------------
(***************************************************************************)
(* auth_lookup_role as the threads of several clients call it at the same  *)
(* time: server.c:210 is not under the mutex.  Each call has the roles     *)
(* file open and a line buffer of its own, but strtok keeps the place it   *)
(* has come to in one static pointer for the whole process (auth.c:73-75). *)
(*                                                                         *)
(* A call of strtok is one step here and the word it finds is read at      *)
(* once; a finer interleaving, and a buffer that is refilled before the    *)
(* word in it is compared, add outcomes and take none away.                *)
(***************************************************************************)
EXTENDS Roles

CONSTANTS
    UserOf,      \* the user names that the threads of the clients have read
    RolesFile    \* the text of config/roles.txt

VARIABLES
    pc,        \* where each thread is in auth_lookup_role
    piece,     \* which piece of the file is in the thread's line
    tokens,    \* username_s, role_s, extra of each thread, as far as found
    place,     \* the static pointer of strtok: into whose line, before which word
    role       \* what auth_lookup_role has returned to each thread

vars == <<pc, piece, tokens, place, role>>

Threads == DOMAIN UserOf

FilePieces == Pieces(RolesFile, AuthLineSize)
Line(t) == WordsOf(FilePieces[piece[t]])

Goto(t, label) == pc' = [pc EXCEPT ![t] = label]

\* fgets the next piece of the file; at its end the user is not found.
NextPiece(t) ==
    /\ pc[t] = "scan"
    /\ IF piece[t] < Len(FilePieces)
         THEN /\ piece' = [piece EXCEPT ![t] = @ + 1]
              /\ Goto(t, IF Ignored(WordsOf(FilePieces[piece[t] + 1])) THEN "scan" ELSE "first")
              /\ UNCHANGED role
         ELSE /\ role' = [role EXCEPT ![t] = "NOT_FOUND"]
              /\ Goto(t, "returned")
              /\ UNCHANGED piece
    /\ UNCHANGED <<tokens, place>>

\* strtok(p): the first word of the line, and the pointer moves into this line.
FirstToken(t) ==
    /\ pc[t] = "first"
    /\ tokens' = [tokens EXCEPT ![t] = <<Line(t)[1]>>]
    /\ place' = [line |-> t, next |-> 2]
    /\ Goto(t, "rest")
    /\ UNCHANGED <<piece, role>>

\* strtok(NULL): the next word from wherever the pointer is.
NextToken(t) ==
    /\ pc[t] = "rest"
    /\ Len(tokens[t]) < 3
    /\ LET words == Line(place.line) IN
         IF place.next <= Len(words)
           THEN /\ tokens' = [tokens EXCEPT ![t] = Append(@, words[place.next])]
                /\ place' = [place EXCEPT !.next = @ + 1]
           ELSE /\ tokens' = [tokens EXCEPT ![t] = Append(@, NoToken)]
                /\ UNCHANGED place
    /\ UNCHANGED <<pc, piece, role>>

\* The tests on the three tokens.
UseTokens(t) ==
    /\ pc[t] = "rest"
    /\ Len(tokens[t]) = 3
    /\ LET answer == Decide(UserOf[t], tokens[t]) IN
         IF answer = "next"
           THEN Goto(t, "scan") /\ UNCHANGED role
           ELSE Goto(t, "returned") /\ role' = [role EXCEPT ![t] = answer]
    /\ UNCHANGED <<piece, tokens, place>>

Init ==
    /\ pc = [t \in Threads |-> "scan"]
    /\ piece = [t \in Threads |-> 0]
    /\ tokens = [t \in Threads |-> <<>>]
    /\ place = [line |-> "none", next |-> 1]
    /\ role = [t \in Threads |-> "none"]

Next == \E t \in Threads : NextPiece(t) \/ FirstToken(t) \/ NextToken(t) \/ UseTokens(t)

Spec == Init /\ [][Next]_vars

\* README.md:166, "`read` users can connect and receive broadcasts but their edit commands
\* are rejected": a user gets the role the file lists for it, whoever else connects.
RoleAsListed == \A t \in Threads : pc[t] = "returned" => role[t] = ListedRole(RolesFile, UserOf[t])
===============================================================================
