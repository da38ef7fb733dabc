---------------------------- MODULE MCSupervisor ----------------------------
(***************************************************************************)
(* Small instances of Supervisor for TLC.                                  *)
(***************************************************************************)
EXTENDS Supervisor, TLC

CONSTANTS w1, w2, g1, g2, p1, p2, p3, p4, d1, d2, r1, r2, r3, r4, a1, a2, a3, a4,
          t1, t2, q1, q2, h1

\* Duel: two pairs of one grant compete for the device, and the grant does not
\* afford both plans and the reconciliations.  The plan of two steps is also
\* asked for under the run id of the other, with its own first attempt.
DuelPairs == {p1, p2}
DuelGrantOf == [p \in DuelPairs |-> g1]
DuelResources == [p \in DuelPairs |-> {d1}]
DuelOpCount == [p \in DuelPairs |-> IF p = p1 THEN 2 ELSE 1]
DuelConfigCost == [p \in DuelPairs |-> IF p = p1 THEN 1 ELSE 0]
DuelAllowance == [g \in {g1} |-> 4]
DuelAdmissions == {[run |-> r1, pair |-> p1, first |-> a1],
                   [run |-> r2, pair |-> p1, first |-> a1],
                   [run |-> r2, pair |-> p2, first |-> a2]}
DuelReconciliations ==
  {[request |-> q, attempt |-> a1] : q \in {q1, q2}}

\* An operator asks for a takeover under the request id of the first run, for
\* the attempt of that run, but in the name of the second.
DuelTakeovers ==
  {[request |-> r1, run |-> r2, first |-> a1, pair |-> p1,
    unresolved |-> {a1}]}

\* Workers and reconciliation requests are interchangeable.
DuelSymmetry == Permutations({w1, w2}) \cup Permutations({q1, q2})

DuelAbandonments == {[request |-> h1, run |-> r1, pair |-> p1]}

\* Relay: the device goes from p1 to p2 and from p2 on to p3, out of each of
\* the states a recovery run can stop in.
RelayPairs == {p1, p2, p3}
RelayGrantOf == [p \in RelayPairs |-> IF p = p1 THEN g1 ELSE g2]
RelayResources == [p \in RelayPairs |-> {d1}]
RelayOpCount == [p \in RelayPairs |-> IF p = p3 THEN 1 ELSE 2]
RelayConfigCost == [p \in RelayPairs |-> 0]
RelayAllowance == [g \in {g1, g2} |-> 3]
RelayAdmissions == {[run |-> r1, pair |-> p1, first |-> a1]}
RelayTakeovers ==
  {[request |-> t1, run |-> r2, first |-> a2, pair |-> p2,
    unresolved |-> {a1}]}
  \cup
  {[request |-> t2, run |-> r3, first |-> a3, pair |-> p3, unresolved |-> S] :
     S \in {{a2}, {a2, <<r2, 1>>}}}
RelayReconciliations == {[request |-> q1, attempt |-> a1]}
RelayAbandonments == {[request |-> h1, run |-> r2, pair |-> p2]}

\* Stale: d1 is shared by all pairs.  A recovery run p2 of the work of p1 may
\* finish before p3, itself admitted in between, needs to be recovered.
StaleTakeovers ==
  {[request |-> t1, run |-> r2, first |-> a2, pair |-> p2,
    unresolved |-> {a1}],
   [request |-> t2, run |-> r4, first |-> a4, pair |-> p4,
    unresolved |-> {a2, a3}]}
StalePairs == {p1, p2, p3, p4}
StaleGrantOf == [p \in StalePairs |-> g1]
StaleResources == [p \in StalePairs |-> {d1}]
StaleOpCount == [p \in StalePairs |-> 1]
StaleConfigCost == [p \in StalePairs |-> 0]
StaleAllowance == [g \in {g1} |-> 4]
StaleAdmissions == {[run |-> r1, pair |-> p1, first |-> a1],
                    [run |-> r3, pair |-> p3, first |-> a3]}

=============================================================================
