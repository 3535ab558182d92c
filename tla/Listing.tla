------------------------------ MODULE Listing -------------------------------
(***************************************************************************)
(* Lists made of other lists: what the loops of this code keep of a slice, *)
(* in the order of the slice.                                              *)
(***************************************************************************)
EXTENDS Integers, Sequences, FiniteSets

\* The elements of a finite set of numbers, least first.
InOrder(numbers) ==
  [k \in 1 .. Cardinality(numbers) |->
     CHOOSE x \in numbers : Cardinality({y \in numbers : y <= x}) = k]

\* What s has at these places.
Picked(s, places) ==
  LET upTo[n \in 0 .. Len(s)] ==
        IF n = 0 THEN <<>>
        ELSE IF n \in places THEN Append(upTo[n - 1], s[n]) ELSE upTo[n - 1]
  IN upTo[Len(s)]

\* The elements that pass a test; each element at its first place only.
Keep(s, test(_)) == Picked(s, {i \in DOMAIN s : test(s[i])})
Distinct(s) == Picked(s, {i \in DOMAIN s : \A j \in 1 .. i - 1 : s[j] # s[i]})

Mapped(s, f(_)) == [i \in DOMAIN s |-> f(s[i])]
=============================================================================
