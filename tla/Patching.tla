------------------------------ MODULE Patching ------------------------------
(***************************************************************************)
(* A device is patched: an image is read from its flash, a candidate is    *)
(* composed from it (handle_firmware of src/src/service/api.rs), and plans *)
(* write and verify the candidate.  Images and candidates are artifacts,   *)
(* which never change; Evidence is about their storage.                    *)
(***************************************************************************)
EXTENDS Flash, Firmware

CONSTANTS
  PatchLists,     \* patches that a client may ask for
  ProtectedSets,  \* ranges that it wants preserved
  MaxRanges       \* most ranges that a comparison reports

\* ByteRange::new refuses a range that is empty.
ASSUME PatchingParameters ==
  /\ MaxRanges \in Nat \ {0}
  /\ \A patches \in PatchLists :
       /\ patches \in Seq([start : Nat, end : Nat, replacement : Seq({0, 1})])
       /\ \A i \in DOMAIN patches : patches[i].start < patches[i].end
  /\ \A protected \in ProtectedSets :
       /\ protected \subseteq [start : Nat, end : Nat]
       /\ \A r \in protected : r.start < r.end

VARIABLE candidate  \* the candidate, what it is built from and asked to keep

patchingVars == <<vars, candidate>>

NoCandidate == [built |-> Refused]

PatchingInit == Init /\ candidate = NoCandidate

\* build_firmware_candidate, on the image that was read last.  One candidate
\* is enough: its bytes are what a plan names.
Compose(patches, protected) ==
  LET built == BuildCandidate(call.got, patches, protected)
  IN  /\ call.pc = "idle" /\ call.result = "observed"
      /\ candidate = NoCandidate
      /\ ~built.refused
      /\ candidate' = [built |-> built, original |-> call.got,
                       offset |-> call.op.offset, patches |-> patches,
                       protected |-> protected]
      /\ UNCHANGED vars

\* A plan with the candidate as its source: source_bytes has its length.
Plans ==
  {[kind |-> kind, offset |-> candidate.offset,
    data |-> candidate.built.bytes, configure |-> TRUE] :
      kind \in {"write", "verify"}}

Program(reconcile) ==
  /\ candidate # NoCandidate
  /\ \E op \in Plans : Start(op, reconcile)
  /\ UNCHANGED candidate

PatchingNext ==
  \/ Next /\ UNCHANGED candidate
  \/ \E patches \in PatchLists, protected \in ProtectedSets :
       Compose(patches, protected)
  \/ \E reconcile \in BOOLEAN : Program(reconcile)

PatchingSpec == PatchingInit /\ [][PatchingNext]_patchingVars

FairPatchingSpec ==
  /\ PatchingSpec
  /\ WF_patchingVars(Finish /\ UNCHANGED candidate)
  /\ WF_patchingVars(DriverStep /\ UNCHANGED candidate)

-----------------------------------------------------------------------------
(* Properties *)

Cells(r) == (r.start + 1)..r.end
CellsOf(ranges) == UNION {Cells(r) : r \in ranges}

Difference(left, right) == {i \in DOMAIN left : left[i] # right[i]}

Programmed ==
  /\ candidate # NoCandidate
  /\ call.result = "completed" /\ call.op \in Plans

\* Once the candidate is reported as programmed, the chip holds every patch
\* that was asked for, each byte outside of them and each protected byte is as
\* it was read, and a comparison of the chip with the original names changed
\* bytes only, counts them, and names all of them if it says it is complete,
\* else as many ranges as it may.
PatchedAsReviewed ==
  Programmed =>
    LET on == [i \in DOMAIN call.got |-> flash[candidate.offset + i - 1]]
        changed == Difference(candidate.original, on)
        diff == CompareImages(candidate.original, call.got, MaxRanges)
        named == CellsOf(Range(diff.ranges))
    IN  /\ \A p \in Range(candidate.patches) :
             \A i \in Cells(p) : on[i] = p.replacement[i - p.start]
        /\ changed \subseteq CellsOf(candidate.built.modified)
        /\ changed \cap CellsOf(candidate.protected) = {}
        /\ diff.changed = Cardinality(changed)
        /\ named \subseteq changed
        /\ IF diff.complete THEN named = changed
           ELSE Len(diff.ranges) = MaxRanges /\ named # changed

=============================================================================
