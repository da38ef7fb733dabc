------------------------------ MODULE MCFlash ------------------------------
(***************************************************************************)
(* A small instance of Patching for TLC: two sectors of four bytes, pages  *)
(* of four, and payloads and reads that divide neither.                    *)
(***************************************************************************)
EXTENDS Patching

\* A write across a page, a write of part of a page, erases of a sector and
\* of a range that is not aligned, and a write beyond the end of the chip.
MCOperations ==
  {[kind |-> "write", offset |-> 2, data |-> <<0, 1, 0, 0>>, configure |-> TRUE],
   [kind |-> "verify", offset |-> 2, data |-> <<0, 1, 0, 0>>, configure |-> TRUE],
   [kind |-> "erase", offset |-> 0, data |-> <<1, 1, 1, 1>>, configure |-> TRUE],
   [kind |-> "erase", offset |-> 2, data |-> <<1, 1, 1, 1>>, configure |-> TRUE],
   [kind |-> "write", offset |-> 6, data |-> <<0, 0, 0>>, configure |-> TRUE],
   [kind |-> "read", offset |-> 0, data |-> <<1, 1, 1, 1>>, configure |-> TRUE],
   [kind |-> "write", offset |-> 4, data |-> <<0>>, configure |-> FALSE]}

Patch(start, end, replacement) ==
  [start |-> start, end |-> end, replacement |-> replacement]

\* Patches out of order, that touch, that overlap though they are not
\* neighbours in the list, that are too short or beyond the end of the image
MCPatchLists ==
  {<<Patch(2, 4, <<0, 0>>), Patch(0, 1, <<0>>)>>,
   <<Patch(1, 2, <<0>>), Patch(2, 3, <<1>>)>>,
   <<Patch(0, 2, <<0, 0>>), Patch(3, 4, <<0>>), Patch(1, 2, <<1>>)>>,
   <<Patch(0, 2, <<0>>)>>, <<Patch(3, 5, <<0, 0>>)>>}

MCProtectedSets == {{}, {[start |-> 1, end |-> 2]}}

=============================================================================
