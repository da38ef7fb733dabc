------------------------------ MODULE MCServer ------------------------------
(***************************************************************************)
(* Small instances of Server for TLC: two processes, three connections and *)
(* a single permit, so that one connection is served, one waits for the    *)
(* permit and one is not yet accepted.                                     *)
(***************************************************************************)
EXTENDS Server

CONSTANTS d1, d2, c1, c2, c3

MCDaemons == {d1, d2}
MCConnections == {c1, c2, c3}

=============================================================================
