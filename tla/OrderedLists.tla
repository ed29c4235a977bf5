----------------------------- MODULE OrderedLists -----------------------------
(***************************************************************************)
(* The renumbering of ordered lists in markdown.c, applied to the whole    *)
(* text at every commit.  A text is a sequence of characters; a list item  *)
(* is a line that begins with a digit, a dot and a space.                  *)
(***************************************************************************)
EXTENDS Lines, FiniteSets

CONSTANT MaxItem    \* the last number given to an item: 9 in the code

ASSUME MaxItemAssumption == MaxItem \in 1 .. 9

Digits == <<"1", "2", "3", "4", "5", "6", "7", "8", "9">>
IsDigit(char) == char = "0" \/ \E n \in DOMAIN Digits : Digits[n] = char

\* A line of the text begins at index i.
LineStart(text, i) == i = 1 \/ text[i - 1] = LineFeed

\* is_ordered_list_line: the line at i is a list item.  The characters after the
\* digit may be missing: the text ends with a zero byte.
IsItem(text, i) ==
    /\ i + 2 <= Len(text)
    /\ IsDigit(text[i]) /\ text[i + 1] = "." /\ text[i + 2] = " "

\* What the loop of renumber_ordered_lists sees at index i.
Seen(text, i) == [char |-> text[i], start |-> LineStart(text, i), item |-> IsItem(text, i)]

\* Faulty variant: the number goes on counting after the block has ended.
RenumberStepOneBlock(state, at) ==
    IF at.start /\ at.item
      THEN [out |-> Append(state.out, Digits[state.number]), inBlock |-> TRUE,
            number |-> IF state.number < MaxItem THEN state.number + 1 ELSE MaxItem]
      ELSE [state EXCEPT !.out = Append(@, at.char)]

\* One round of the loop, a character at a time: the first item of a block gets 1, the
\* next ones one more, up to MaxItem; any other line ends the block.
RenumberStep(state, at) ==
    IF at.start /\ at.item
      THEN LET number == IF state.inBlock THEN state.number ELSE 1 IN
           [out |-> Append(state.out, Digits[number]), inBlock |-> TRUE,
            number |-> IF number < MaxItem THEN number + 1 ELSE MaxItem]
      ELSE [out |-> Append(state.out, at.char), number |-> state.number,
            inBlock |-> state.inBlock /\ ~at.start]

\* renumber_ordered_lists.
Renumber(text) ==
    FoldLeft(RenumberStep, [out |-> <<>>, number |-> 1, inBlock |-> FALSE],
             [i \in DOMAIN text |-> Seen(text, i)]).out

-------------------------------------------------------------------------------
(* Reference definition *)

\* The items of the block that ends with the item at i: no line between is another line.
BlockUpTo(text, i) ==
    {j \in 1 .. i : /\ LineStart(text, j)
                    /\ \A k \in j .. i : LineStart(text, k) => IsItem(text, k)}

\* The rank of the item at i in its block, as far as it can be written.
ItemNumber(text, i) ==
    LET rank == Cardinality(BlockUpTo(text, i)) IN IF rank < MaxItem THEN rank ELSE MaxItem

\* What the renumbering is to produce: an item shows its rank, nothing else changes.
Numbered(text) ==
    [i \in DOMAIN text |-> IF LineStart(text, i) /\ IsItem(text, i)
                             THEN Digits[ItemNumber(text, i)] ELSE text[i]]
===============================================================================
