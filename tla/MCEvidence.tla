----------------------------- MODULE MCEvidence -----------------------------
(***************************************************************************)
(* A small instance of Evidence for TLC: two publishers of the same and of *)
(* different artifacts and sources.                                        *)
(***************************************************************************)
EXTENDS Evidence, TLC

CONSTANTS w1, w2, d1, d2, s1, s2, f1, f2, f3

\* Files are interchangeable, as are publishers, digests and sources.
Alike == Permutations({w1, w2}) \cup Permutations({d1, d2})
           \cup Permutations({s1, s2}) \cup Permutations({f1, f2, f3})

=============================================================================
