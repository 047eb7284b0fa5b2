------------------------------- MODULE Lists --------------------------------
(***************************************************************************)
(* The linked lists of the server, as sequences.                           *)
(***************************************************************************)
EXTENDS Naturals, Sequences

\* What a list holds.
Elems(list) == {list[i] : i \in DOMAIN list}

\* The list without the elements of S, which are unlinked one after the other;
\* the others stay in order.
Without(list, S) ==
    LET kept[i \in 0 .. Len(list)] ==
            IF i = 0 THEN << >>
            ELSE IF list[i] \in S THEN kept[i - 1]
            ELSE Append(kept[i - 1], list[i])
    IN  kept[Len(list)]
=============================================================================
