---------------------------- MODULE MCSimulator ----------------------------
(***************************************************************************)
(* A small instance of Simulator for TLC.                                  *)
(***************************************************************************)
EXTENDS Simulator

\* Writes that overlap, an erase of more than one byte, the relay, a read
\* beyond the end and a verification.
MCOperations ==
  {[kind |-> "write", offset |-> 0, data |-> <<0, 1>>],
   [kind |-> "write", offset |-> 1, data |-> <<0, 0>>],
   [kind |-> "verify", offset |-> 1, data |-> <<0, 0>>],
   [kind |-> "erase", offset |-> 0, data |-> <<1, 1, 1>>],
   [kind |-> "read", offset |-> 2, data |-> <<1, 1>>],
   [kind |-> "set", offset |-> 0, data |-> <<1>>]}

\* The next effect fails before its first byte, or after one byte.
MCFaults == {[kind |-> "next", bytes |-> 0], [kind |-> "after", bytes |-> 1]}

=============================================================================
