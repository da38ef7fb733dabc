------------------------------ MODULE Custody ------------------------------
(***************************************************************************)
(* What the supervisor promises about physical resources: a resource whose *)
(* state is in doubt always has one responsible holder.  The holder can    *)
(* resolve the doubt or hand it over together with the resource, and only  *)
(* a resource without doubt is given back.                                 *)
(***************************************************************************)
CONSTANTS Holder, Resource, None

VARIABLES
  holder,   \* who is responsible for a resource, or None
  doubt     \* resources in an unknown or changing physical state

Init == /\ holder = [r \in Resource |-> None]
        /\ doubt = {}

Held(h, S) == \A r \in S : holder[r] = h

Assign(S, h) == holder' = [r \in Resource |-> IF r \in S THEN h ELSE holder[r]]

\* Free resources get a holder; the ones it already has stay as they are.
Acquire(h, S) ==
  /\ \A r \in S : holder[r] \in {h, None}
  /\ Assign(S, h)
  /\ UNCHANGED doubt

\* The holder starts to change the state of what it holds.
Begin(h, S) ==
  /\ Held(h, S)
  /\ doubt' = doubt \cup S
  /\ UNCHANGED holder

\* The state is known again; the resources are kept or given back.
Resolve(h, S) ==
  /\ Held(h, S)
  /\ doubt' = doubt \ S
  /\ UNCHANGED holder \/ Assign(S, None)

\* Someone else becomes responsible for resources that are in doubt.
HandOver(from, to, S) ==
  /\ Held(from, S)
  /\ S \subseteq doubt
  /\ Assign(S, to)
  /\ UNCHANGED doubt

GiveBack(h, S) ==
  /\ Held(h, S)
  /\ S \cap doubt = {}
  /\ Assign(S, None)
  /\ UNCHANGED doubt

Next ==
  \E h \in Holder, S \in SUBSET Resource :
    \/ Acquire(h, S) \/ Begin(h, S) \/ Resolve(h, S) \/ GiveBack(h, S)
    \/ \E to \in Holder : HandOver(h, to, S)

Spec == Init /\ [][Next]_<<holder, doubt>>

=============================================================================
