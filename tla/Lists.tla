-------------------------------- MODULE Lists --------------------------------
(***************************************************************************)
(* list.c of FreeRTOS: a list is the sequence of its entries, first to last. *)
(***************************************************************************)
EXTENDS Integers, Sequences

\* uxListRemove of the entries that are not at the positions I; the others keep their
\* order.
Kept(list, I) ==
    LET kept[n \in 0 .. Len(list)] ==
            IF n = 0 THEN << >>
            ELSE IF n \in I THEN Append(kept[n - 1], list[n]) ELSE kept[n - 1]
    IN  kept[Len(list)]

\* The list without the threads W.
Without(list, W) == Kept(list, {i \in DOMAIN list : list[i] \notin W})
=============================================================================
