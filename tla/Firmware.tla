------------------------------ MODULE Firmware ------------------------------
(***************************************************************************)
(* Comparison of firmware images and composition of a candidate from       *)
(* patches (src/src/firmware.rs).  A range has a start and an exclusive    *)
(* end and is not empty; a patch is a range and its replacement.           *)
(***************************************************************************)
EXTENDS Naturals, Sequences, FiniteSets, Functions

Refused == [refused |-> TRUE]

Overlaps(r, s) == r.start < s.end /\ s.start < r.end

SortedBug(patches) == patches

\* sort_by_key: by start, and patches with one start as they are listed.
Sorted(patches) ==
  LET before(i) ==
        {j \in DOMAIN patches :
           \/ patches[j].start < patches[i].start
           \/ patches[j].start = patches[i].start /\ j < i}
  IN  [k \in DOMAIN patches |->
         patches[CHOOSE i \in DOMAIN patches : Cardinality(before(i)) = k - 1]]

\* The bytes of the range give way to the replacement.
Applied(image, patch) ==
  [i \in DOMAIN image |->
     IF patch.start < i /\ i <= patch.end
     THEN patch.replacement[i - patch.start] ELSE image[i]]

\* The patches are applied one after the other.
AllApplied(original, patches) ==
  LET image[k \in 0..Len(patches)] ==
        IF k = 0 THEN original ELSE Applied(image[k - 1], patches[k])
  IN  image[Len(patches)]

\* A patch is checked against its neighbour in the order of starts alone.  The
\* digest that the original must match is the name it was read by.
BuildCandidate(original, patches, protected) ==
  LET ordered == Sorted(patches)
      within(r) == r.end <= Len(original)
      acceptable(i) ==
        /\ within(ordered[i])
        /\ Len(ordered[i].replacement) = ordered[i].end - ordered[i].start
        /\ i > 1 => ~Overlaps(ordered[i - 1], ordered[i])
        /\ \A r \in protected : ~Overlaps(ordered[i], r)
  IN  IF /\ \A r \in protected : within(r)
         /\ \A i \in DOMAIN ordered : acceptable(i)
      THEN [refused |-> FALSE, bytes |-> AllApplied(original, ordered),
            modified |-> {[start |-> p.start, end |-> p.end] :
                            p \in Range(ordered)}]
      ELSE Refused

\* A run of changed bytes ends: it is counted, and reported up to the limit.
Closed(scan, end, limit) ==
  IF scan.open = <<>> THEN scan
  ELSE [scan EXCEPT !.count = @ + 1, !.open = <<>>,
          !.ranges = IF Len(@) < limit
                     THEN Append(@, [start |-> scan.open[1], end |-> end])
                     ELSE @]

\* compare_images: `open` holds the start of the run under way.
CompareImages(left, right, limit) ==
  LET scan[i \in 0..Len(left)] ==
        IF i = 0
        THEN [changed |-> 0, count |-> 0, open |-> <<>>, ranges |-> <<>>]
        ELSE IF left[i] = right[i] THEN Closed(scan[i - 1], i - 1, limit)
        ELSE [scan[i - 1] EXCEPT !.changed = @ + 1,
                !.open = IF @ = <<>> THEN <<i - 1>> ELSE @]
      last == Closed(scan[Len(left)], Len(left), limit)
  IN  IF Len(left) # Len(right) THEN Refused
      ELSE [refused |-> FALSE, changed |-> last.changed, ranges |-> last.ranges,
            complete |-> last.count = Len(last.ranges)]

=============================================================================
