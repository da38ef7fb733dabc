------------------------------ MODULE MCReview ------------------------------
(***************************************************************************)
(* A small instance of Review for TLC: one plan id, since no step concerns *)
(* two.                                                                    *)
(***************************************************************************)
EXTENDS Review

=============================================================================
