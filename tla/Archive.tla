------------------------------ MODULE Archive ------------------------------
(***************************************************************************)
(* What the evidence store promises: an entry, a piece of evidence with    *)
(* the source it came from, that a publisher was told is stored is held    *)
(* for good.  Entries nobody was told about may come and go.               *)
(***************************************************************************)
CONSTANTS Entry

VARIABLES
  held,      \* entries that can be read and verified
  promised   \* entries whose publisher was told so

Init == held = {} /\ promised = {}

Add(x) == held' = held \cup {x} /\ UNCHANGED promised

Promise(x) == /\ x \in held
              /\ promised' = promised \cup {x}
              /\ UNCHANGED held

Lose(S) == /\ S \cap promised = {}
           /\ held' = held \ S
           /\ UNCHANGED promised

Next == \/ \E x \in Entry : Add(x) \/ Promise(x)
        \/ \E S \in SUBSET Entry : Lose(S)

Spec == Init /\ [][Next]_<<held, promised>>

=============================================================================
