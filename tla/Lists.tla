------------------------------- MODULE Lists -------------------------------
(***************************************************************************)
(* What the program does with vectors through the standard library:        *)
(* filter, retain and partition keep some elements in their order, sort    *)
(* puts numbers in ascending order.  SelectSeq and SortSeq would say the   *)
(* same, but the provers cannot look into them.                            *)
(***************************************************************************)
EXTENDS Integers, SequencesExt

\* iter().filter, Vec::retain, partition: the elements of s that are in S.
Kept(s, S) ==
  LET kept[n \in 0..Len(s)] ==
        IF n = 0 THEN <<>>
        ELSE IF s[n] \in S THEN Append(kept[n - 1], s[n]) ELSE kept[n - 1]
  IN  kept[Len(s)]

\* x put where it belongs into the ascending sequence t, behind its equals.
Inserted(t, x) ==
  Kept(t, {y \in ToSet(t) : y <= x}) \o <<x>> \o Kept(t, {y \in ToSet(t) : y > x})

\* sort: a stable sort of a sequence of numbers.
Sorted(s) ==
  LET sorted[n \in 0..Len(s)] ==
        IF n = 0 THEN <<>> ELSE Inserted(sorted[n - 1], s[n])
  IN  sorted[Len(s)]

=============================================================================
