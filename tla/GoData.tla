------------------------------- MODULE GoData -------------------------------
(***************************************************************************)
(* Go's maps and slices as the inspectors use them: a map is a function    *)
(* whose domain are its keys, a slice is a sequence.                       *)
(***************************************************************************)
EXTENDS Integers, Sequences, FiniteSets, FiniteSetsExt

\* m[k] = v
Put(m, k, v) == [x \in DOMAIN m \cup {k} |-> IF x = k THEN v ELSE m[x]]

\* delete(m, k)
Drop(m, k) == [x \in DOMAIN m \ {k} |-> m[x]]

\* s[len(s)-n:], of a slice that has n elements or more.
LastOf(s, n) == SubSeq(s, Len(s) - n + 1, Len(s))

\* A bounded buffer after an append: cut when it has grown too long.
Bounded(s, n) == IF Len(s) > n THEN LastOf(s, n) ELSE s

\* The newest n elements of s, or all of them, by their numbers.
NewestOf(s, n) ==
    LET k == IF Len(s) < n THEN Len(s) ELSE n
    IN  [i \in 1..k |-> s[Len(s) - k + i]]

\* The elements of s whose indices are in chosen, in their order: what a loop
\* makes that appends some elements of s to a slice of its own.
Filtered(s, chosen) ==
    [k \in 1..Cardinality(chosen) |->
       s[CHOOSE i \in chosen : Cardinality({j \in chosen : j <= i}) = k]]

\* The sum of the numbers in a map.
Total(counts) == MapThenSumSet(LAMBDA k : counts[k], DOMAIN counts)
=============================================================================
