---------------------------- MODULE SharedDocument ----------------------------
(***************************************************************************)
(* What the collaboration server promises, without threads, FIFOs or a     *)
(* mutex: one append-only history of versions.  Each version records the   *)
(* entry it committed and the text that results; an edit changes the text  *)
(* only if it succeeded, and only a writer's edit succeeds.  A client gets *)
(* some version that was current and from then on moves through the        *)
(* history one version at a time, holding the text of its version.         *)
(***************************************************************************)
EXTENDS Naturals, Sequences

CONSTANTS
    Clients,
    Writers,    \* the clients that may change the text
    Offline     \* the replica of a client that is not connected

VARIABLES
    history,    \* history[v] = [entry, text] of version v; version 0 is empty
    replica     \* replica[c] = [version, text], or Offline

vars == <<history, replica>>

TextOf(v) == IF v = 0 THEN <<>> ELSE history[v].text
At(v) == [version |-> v, text |-> TextOf(v)]

Init ==
    /\ history = <<>>
    /\ replica = [c \in Clients |-> Offline]

\* What version v may be, given the version before it.
Follows(next) ==
    /\ next.entry.user \in Clients
    /\ IF next.entry.result = "SUCCESS"
         THEN /\ next.entry.user \in Writers
              /\ next.text = Append(TextOf(Len(history)), next.entry)
         ELSE next.text = TextOf(Len(history))

Commit ==
    /\ Len(history') = Len(history) + 1
    /\ history' = Append(history, history'[Len(history) + 1])
    /\ Follows(history'[Len(history) + 1])
    /\ UNCHANGED replica

Join(c) ==
    /\ replica[c] = Offline
    /\ \E v \in 0 .. Len(history) : replica' = [replica EXCEPT ![c] = At(v)]
    /\ UNCHANGED history

Advance(c) ==
    /\ replica[c] # Offline
    /\ replica[c].version < Len(history)
    /\ replica' = [replica EXCEPT ![c] = At(replica[c].version + 1)]
    /\ UNCHANGED history

Part(c) ==
    /\ replica[c] # Offline
    /\ replica' = [replica EXCEPT ![c] = Offline]
    /\ UNCHANGED history

Next == Commit \/ \E c \in Clients : Join(c) \/ Advance(c) \/ Part(c)

Spec == Init /\ [][Next]_vars
===============================================================================
