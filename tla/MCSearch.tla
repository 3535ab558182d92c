------------------------------ MODULE MCSearch ------------------------------
(***************************************************************************)
(* Values for the constants of Search that a cfg cannot write.             *)
(***************************************************************************)
EXTENDS Plan

NoSettings == <<>>

\* Settings as an operator may name them: a larger one before and after a smaller
\* one, a product twice and a setting twice.
S(r, v) == [r |-> r, v |-> v]
MixedSettings == <<S(4, 10), S(2, 10), S(8, 5), S(4, 10)>>
=============================================================================
