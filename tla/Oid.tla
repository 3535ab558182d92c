-------------------------------- MODULE Oid ---------------------------------
(***************************************************************************)
(* Package oid: object identifiers as sequences of arcs.  Dots, leading or *)
(* between, are spelling.                                                  *)
(***************************************************************************)
EXTENDS Integers, Sequences, SequencesExt

CONSTANT ArcModulus      \* 2^32: an arc is a uint32

ASSUME ArcAssumption == ArcModulus \in Nat \ {0}

Arc == 0 .. ArcModulus - 1

\* The arcs two OIDs have in common at their start.
Shared(a, b) ==
  CHOOSE n \in 0 .. Len(a) :
    /\ n <= Len(b)
    /\ \A i \in 1 .. n : a[i] = b[i]
    /\ n < Len(a) /\ n < Len(b) => a[n + 1] # b[n + 1]

\* Compare(a, b) < 0: the first arc that differs decides, and a proper prefix
\* sorts before its extensions.
Less(a, b) == LET n == Shared(a, b)
              IN IF n < Len(a) /\ n < Len(b) THEN a[n + 1] < b[n + 1]
                                             ELSE Len(a) < Len(b)

\* HasPrefix: o lies at or under p.
HasPrefix(o, p) == IsPrefix(p, o)

\* SkipTarget: where a walk goes on after an answer that is not greater than
\* the request, the next sibling of the deepest arc the two have in common.
\* Its arc may wrap.
SkipDepth(request, answer) == IF Shared(request, answer) = 0 THEN 1 ELSE Shared(request, answer)

SkipTarget_same(request, answer) == SubSeq(request, 1, SkipDepth(request, answer))
SkipTarget_wide(request, answer) ==
  LET n == SkipDepth(request, answer)
  IN [SubSeq(request, 1, n) EXCEPT ![n] = @ + 1]
SkipTarget(request, answer) ==
  LET n == SkipDepth(request, answer)
  IN [SubSeq(request, 1, n) EXCEPT ![n] = (@ + 1) % ArcModulus]

SkipWraps(request, answer) == request[SkipDepth(request, answer)] = ArcModulus - 1
=============================================================================
