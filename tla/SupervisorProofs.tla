-------------------------- MODULE SupervisorProofs --------------------------
(***************************************************************************)
(* Proofs about Store and Supervisor.  First, for all sizes of the tables, *)
(* what every transaction of the journal preserves: the rows, then the     *)
(* leases, with the step of Custody that each transaction is.  Then the    *)
(* workers that call the transactions: type correctness, that no attempt   *)
(* is ever executed twice, that leases go with doubt as Custody says, that *)
(* cursors are backed by receipts, and that effects stay within budgets,   *)
(* whatever tasks, requests, crashes and restarts there are.               *)
(***************************************************************************)
EXTENDS Supervisor, TLAPS, FiniteSetTheorems

-----------------------------------------------------------------------------
(* What every transaction does for the rows. *)

Claimed(q) == recons[q].state = "claimed"

\* The row of an attempt names its pair, and has a receipt once it has an
\* outcome.
AttemptsSound ==
  \A a \in AttemptId :
    /\ attempts[a].state # "absent" => attempts[a].pair \in Pair
    /\ attempts[a].receipt = None
         <=> attempts[a].state \in {"absent", "intent", "dispatched"}

RunsSound ==
  \A r \in RunId :
    runs[r] # NoRun => runs[r].pair \in Pair /\ runs[r].first \in FirstId

\* A claimed reconciliation is the only one of an attempt left unknown.
ReconsSound ==
  /\ \A q \in ReconcileId :
       Claimed(q) => /\ recons[q].attempt \in AttemptId
                     /\ attempts[recons[q].attempt].state = "unknown"
  /\ \A q, o \in ReconcileId :
       Claimed(q) /\ Claimed(o) /\ recons[q].attempt = recons[o].attempt
         => q = o

StoreInv == TablesTyped /\ AttemptsSound /\ RunsSound /\ ReconsSound

\* No transaction rewrites a receipt or gives a row to another pair.
RowsKept ==
  /\ \A a \in AttemptId :
       /\ attempts[a].receipt # None =>
            attempts'[a].receipt = attempts[a].receipt
       /\ attempts[a].pair \in Pair => attempts'[a].pair = attempts[a].pair
  /\ \A r \in RunId :
       runs[r] # NoRun => runs'[r] # NoRun /\ runs'[r].pair = runs[r].pair

-----------------------------------------------------------------------------

\* A commissioned instance satisfies the invariant.
LEMMA StoreInitSound ==
  StoreInit => StoreInv
<1>1. StoreInit => TablesTyped
  BY ParametersTyped
     DEF StoreInit, TablesTyped, AttemptRow, NoAttempt, RunRow, NoRun,
         ReconRow, NoRecon, GrantRow, StepIndex, TakeoverRecord, AbandonRecord
<1>2. StoreInit => AttemptsSound /\ RunsSound /\ ReconsSound
  BY DEF StoreInit, AttemptsSound, RunsSound, ReconsSound, Claimed, NoAttempt,
         NoRecon, NoRun
<1> QED  BY <1>1, <1>2 DEF StoreInv

\* A grant that affords a charge keeps a natural remainder.
LEMMA ChargeTyped ==
  ASSUME TablesTyped, NEW p \in Pair, NEW cost \in Nat, Affords(p, cost)
  PROVE  Charge(p, cost) \in [Grant -> GrantRow]
<1>1. GrantOf[p] \in Grant
  BY ParametersTyped
<1> QED  BY <1>1 DEF TablesTyped, Affords, Charge, GrantRow

\* reserve
LEMMA ReserveSound ==
  ASSUME StoreInv,
         NEW a \in AttemptId, NEW p \in Pair, NEW i \in StepIndex,
         NEW req \in RequestId \cup {None},
         CanReserve(a, p, i, req), Reserve(a, p, i, req)
  PROVE  StoreInv' /\ RowsKept
<1>1. attempts' \in [AttemptId -> AttemptRow]
  BY DEF StoreInv, TablesTyped, Reserve, Intent, AttemptRow
<1>2. leases' \in [Resource -> Pair \cup {None}]
  BY DEF StoreInv, TablesTyped, Reserve
<1>3. grants' \in [Grant -> GrantRow]
  <2>1. Reserved(p, i) \in Nat
    BY ParametersTyped DEF Reserved
  <2> QED  BY <2>1, ChargeTyped DEF StoreInv, CanReserve, Reserve
<1>4. TablesTyped'
  BY <1>1, <1>2, <1>3 DEF StoreInv, TablesTyped, Reserve
<1>5. AttemptsSound'
  BY DEF StoreInv, AttemptsSound, TablesTyped, Reserve, Intent
<1>6. RunsSound'
  BY DEF StoreInv, RunsSound, Reserve
<1>7. ReconsSound'
  <2>1. attempts[a].state # "unknown"
    BY DEF CanReserve, NoAttempt
  <2> QED
    BY <2>1 DEF StoreInv, TablesTyped, ReconsSound, Claimed, Reserve, Intent
<1>8. RowsKept
  BY NoneIsNoValue
     DEF RowsKept, StoreInv, TablesTyped, Reserve, CanReserve, NoAttempt,
         Intent
<1> QED  BY <1>4, <1>5, <1>6, <1>7, <1>8 DEF StoreInv

\* claim_dispatch
LEMMA ClaimDispatchSound ==
  ASSUME StoreInv, NEW a \in AttemptId,
         CanClaimDispatch(a), ClaimDispatch(a)
  PROVE  StoreInv' /\ RowsKept
<1>1. attempts[a].state = "intent"
  BY DEF CanClaimDispatch
<1>2. TablesTyped'
  BY DEF StoreInv, TablesTyped, ClaimDispatch, AttemptRow
<1>3. AttemptsSound' /\ RowsKept
  BY <1>1 DEF StoreInv, TablesTyped, AttemptsSound, RowsKept, ClaimDispatch
<1>4. RunsSound'
  BY DEF StoreInv, RunsSound, ClaimDispatch
<1>5. ReconsSound'
  BY <1>1 DEF StoreInv, TablesTyped, ReconsSound, Claimed, ClaimDispatch
<1> QED  BY <1>2, <1>3, <1>4, <1>5 DEF StoreInv

\* Leases only ever lose an owner when they are released.
LEMMA ReleasedTyped ==
  ASSUME TablesTyped, NEW p \in Pair
  PROVE  Released(p) \in [Resource -> Pair \cup {None}]
BY DEF TablesTyped, Released

\* record_receipt
LEMMA RecordReceiptSound ==
  ASSUME StoreInv, NEW a \in AttemptId, NEW receipt \in Receipt,
         NEW release \in BOOLEAN,
         attempts[a].state = "dispatched", RecordReceipt(a, receipt, release)
  PROVE  StoreInv' /\ RowsKept
<1>1. attempts[a].pair \in Pair /\ attempts[a].receipt = None
  BY DEF StoreInv, AttemptsSound
<1>2. None \notin Receipt
  BY NoneIsNoValue
<1>3. leases' \in [Resource -> Pair \cup {None}]
  BY <1>1, ReleasedTyped DEF StoreInv, TablesTyped, RecordReceipt
<1>4. TablesTyped'
  <2>1. \A row \in AttemptRow :
          [row EXCEPT !.state = receipt, !.receipt = receipt] \in AttemptRow
    BY DEF AttemptRow
  <2>2. attempts' \in [AttemptId -> AttemptRow]
    BY <2>1 DEF StoreInv, TablesTyped, RecordReceipt, Settle
  <2> QED  BY <1>3, <2>2 DEF StoreInv, TablesTyped, RecordReceipt
<1>5. AttemptsSound' /\ RowsKept
  BY <1>1, <1>2 DEF StoreInv, TablesTyped, AttemptsSound, RowsKept,
                    RecordReceipt, Settle, Receipt
<1>6. RunsSound'
  BY DEF StoreInv, RunsSound, RecordReceipt
<1>7. ReconsSound'
  BY DEF StoreInv, TablesTyped, ReconsSound, Claimed, RecordReceipt, Settle
<1> QED  BY <1>4, <1>5, <1>6, <1>7 DEF StoreInv

\* claim_reconciliation
LEMMA ClaimReconciliationSound ==
  ASSUME StoreInv, NEW q \in ReconcileId, NEW a \in AttemptId,
         CanClaimReconciliation(q, a), ClaimReconciliation(q, a)
  PROVE  StoreInv' /\ RowsKept
<1>1. attempts[a].state \in Uncertain /\ attempts[a].pair \in Pair
  BY DEF CanClaimReconciliation, Reconcilable, StoreInv, AttemptsSound,
         Uncertain
<1>2. grants' \in [Grant -> GrantRow]
  <2>1. ConfigCost[attempts[a].pair] \in Nat
    BY <1>1, ParametersTyped
  <2> QED
    BY <1>1, <2>1, ChargeTyped
       DEF StoreInv, CanClaimReconciliation, ClaimReconciliation
<1>3. TablesTyped'
  <2>1. \A row \in AttemptRow : [row EXCEPT !.state = "unknown"] \in AttemptRow
    BY DEF AttemptRow, Receipt
  <2>2. attempts' \in [AttemptId -> AttemptRow]
    BY <2>1 DEF StoreInv, TablesTyped, ClaimReconciliation
  <2>3. recons' \in [ReconcileId -> ReconRow]
    BY DEF StoreInv, TablesTyped, ClaimReconciliation, ReconRow
  <2> QED  BY <1>2, <2>2, <2>3 DEF StoreInv, TablesTyped, ClaimReconciliation
<1>4. AttemptsSound' /\ RowsKept
  BY <1>1 DEF StoreInv, TablesTyped, AttemptsSound, RowsKept,
              ClaimReconciliation, Uncertain
<1>5. RunsSound'
  BY DEF StoreInv, RunsSound, ClaimReconciliation
<1>6. \A o \in ReconcileId : Claimed(o) => recons[o].attempt # a
  BY DEF CanClaimReconciliation, ActiveReconciliation, Claimed, StoreInv,
         TablesTyped, ReconRow
<1>7. ReconsSound'
  BY <1>6 DEF StoreInv, TablesTyped, ReconsSound, Claimed, ClaimReconciliation
<1> QED  BY <1>3, <1>4, <1>5, <1>7 DEF StoreInv

\* finish_reconciliation
LEMMA FinishReconciliationSound ==
  ASSUME StoreInv, NEW q \in ReconcileId,
         NEW verdict \in {"completed", "unknown", "failed"},
         NEW release \in BOOLEAN,
         Claimed(q), FinishReconciliation(q, verdict, release)
  PROVE  StoreInv' /\ RowsKept
<1> DEFINE a == recons[q].attempt
<1>1. /\ a \in AttemptId /\ attempts[a].state = "unknown"
      /\ attempts[a].pair \in Pair
  BY DEF StoreInv, ReconsSound, AttemptsSound
<1>2. /\ Resolved(a, verdict) \in [AttemptId -> AttemptRow]
      /\ Resolved(a, verdict)[a].state \in {"completed", "unknown"}
      /\ Resolved(a, verdict)[a].pair = attempts[a].pair
      /\ Resolved(a, verdict)[a].receipt = attempts[a].receipt
      /\ \A b \in AttemptId \ {a} : Resolved(a, verdict)[b] = attempts[b]
  BY <1>1 DEF StoreInv, TablesTyped, Resolved, AttemptRow, Receipt
<1>3. attempts' = Resolved(a, verdict)
  BY DEF FinishReconciliation
<1>4. leases' \in [Resource -> Pair \cup {None}]
  BY <1>1, ReleasedTyped DEF StoreInv, TablesTyped, FinishReconciliation
<1>5. TablesTyped'
  BY <1>2, <1>3, <1>4
     DEF StoreInv, TablesTyped, FinishReconciliation, ReconRow
<1>6. AttemptsSound' /\ RowsKept
  BY <1>1, <1>2, <1>3
     DEF StoreInv, AttemptsSound, RowsKept, FinishReconciliation
<1>7. RunsSound'
  BY DEF StoreInv, RunsSound, FinishReconciliation
<1>8. ReconsSound'
  <2>1. recons' = [recons EXCEPT ![q].state = verdict]
    BY DEF FinishReconciliation
  <2>2. \A o \in ReconcileId :
          Claimed(o)' => o # q /\ Claimed(o) /\ recons'[o] = recons[o]
    BY <2>1 DEF Claimed, StoreInv, TablesTyped
  <2>3. \A o \in ReconcileId : Claimed(o)' => recons[o].attempt # a
    BY <2>2 DEF StoreInv, ReconsSound
  <2> QED  BY <1>2, <1>3, <2>2, <2>3 DEF StoreInv, ReconsSound
<1> QED  BY <1>5, <1>6, <1>7, <1>8 DEF StoreInv

\* takeover_recovery
LEMMA TakeoverRecoverySound ==
  ASSUME StoreInv, NEW t \in TakeoverRecord,
         CanTakeover(t), TakeoverRecovery(t)
  PROVE  StoreInv' /\ RowsKept
<1>1. /\ t.request \in TakeoverId \cap RequestId /\ t.run \in RunId /\ t.first \in FirstId
      /\ t.first \in AttemptId /\ t.pair \in Pair
      /\ t.unresolved \subseteq AttemptId
  BY DEF TakeoverRecord, RequestId, AttemptId
<1>2. grants' \in [Grant -> GrantRow]
  <2>1. Reserved(t.pair, 0) \in Nat
    BY <1>1, ParametersTyped DEF Reserved
  <2> QED
    BY <1>1, <2>1, ChargeTyped DEF StoreInv, CanTakeover, TakeoverRecovery
<1>3. 0 \in StepIndex
  BY ParametersTyped DEF StepIndex
<1>4. attempts' \in [AttemptId -> AttemptRow]
  BY <1>1, <1>3
     DEF StoreInv, TablesTyped, TakeoverRecovery, Intent, AttemptRow
<1>5. leases' \in [Resource -> Pair \cup {None}]
  BY <1>1 DEF StoreInv, TablesTyped, TakeoverRecovery
<1>6. runs' \in [RunId -> RunRow]
  BY <1>1, ParametersTyped DEF StoreInv, TablesTyped, TakeoverRecovery, RunRow
<1>7. SourcePairs(t) \subseteq Pair
  BY <1>1 DEF StoreInv, AttemptsSound, SourcePairs, CanTakeover, IsSource
<1>8. TablesTyped'
  BY <1>2, <1>4, <1>5, <1>6, <1>7 DEF StoreInv, TablesTyped, TakeoverRecovery
<1>9. AttemptsSound'
  BY <1>1 DEF StoreInv, AttemptsSound, TablesTyped, TakeoverRecovery, Intent
<1>10. RunsSound'
  BY <1>1 DEF StoreInv, TablesTyped, RunsSound, TakeoverRecovery
<1>11. ReconsSound'
  <2>1. attempts[t.first].state # "unknown"
    BY DEF CanTakeover, NoAttempt
  <2> QED
    BY <1>1, <2>1
       DEF StoreInv, TablesTyped, ReconsSound, Claimed, TakeoverRecovery
<1>12. RowsKept
  BY <1>1, NoneIsNoValue
     DEF RowsKept, StoreInv, TablesTyped, TakeoverRecovery, CanTakeover,
         NoAttempt, Intent
<1> QED  BY <1>8, <1>9, <1>10, <1>11, <1>12 DEF StoreInv

\* abandon_halted_run rejects intents and changes nothing else of a row.
LEMMA AbandonedRows ==
  ASSUME attempts \in [AttemptId -> AttemptRow], NEW h, AbandonHaltedRun(h),
         NEW a \in AttemptId
  PROVE  /\ attempts'[a].pair = attempts[a].pair
         /\ attempts'[a].index = attempts[a].index
         /\ attempts'[a].request = attempts[a].request
         /\ \/ attempts'[a] = attempts[a]
            \/ /\ attempts[a].state = "intent"
               /\ attempts'[a].state = "rejected"
               /\ attempts'[a].receipt = "rejected"
<1>1. attempts[a] \in AttemptRow
  OBVIOUS
<1>2. \/ attempts'[a] = attempts[a]
      \/ /\ attempts[a].state = "intent"
         /\ attempts'[a] = [attempts[a] EXCEPT !.state = "rejected",
                                              !.receipt = "rejected"]
  BY DEF AbandonHaltedRun
<1> QED  BY <1>1, <1>2 DEF AttemptRow

\* recover_interrupted_dispatches changes only what was dispatched.
LEMMA InterruptedRows ==
  ASSUME attempts \in [AttemptId -> AttemptRow],
         RecoverInterruptedDispatches, NEW a \in AttemptId
  PROVE  /\ attempts'[a].pair = attempts[a].pair
         /\ attempts'[a].index = attempts[a].index
         /\ attempts'[a].request = attempts[a].request
         /\ \/ attempts'[a] = attempts[a]
            \/ /\ attempts[a].state = "dispatched"
               /\ attempts'[a].state = "unknown"
               /\ attempts'[a].receipt = "unknown"
<1>1. attempts[a] \in AttemptRow
  OBVIOUS
<1>2. \/ attempts'[a] = attempts[a]
      \/ /\ attempts[a].state = "dispatched"
         /\ attempts'[a] = Interrupted(attempts[a])
  BY DEF RecoverInterruptedDispatches
<1> QED  BY <1>1, <1>2 DEF AttemptRow, Interrupted

\* abandon_halted_run
LEMMA AbandonHaltedRunSound ==
  ASSUME StoreInv, NEW h \in AbandonRecord, AbandonHaltedRun(h)
  PROVE  StoreInv' /\ RowsKept
<1>1. TablesTyped'
  <2>1. attempts' \in [AttemptId -> AttemptRow]
    <3>1. \A row \in AttemptRow :
            [row EXCEPT !.state = "rejected", !.receipt = "rejected"]
              \in AttemptRow
      BY DEF AttemptRow, Receipt
    <3> QED  BY <3>1 DEF StoreInv, TablesTyped, AbandonHaltedRun
  <2>2. leases' \in [Resource -> Pair \cup {None}]
    BY DEF StoreInv, TablesTyped, AbandonHaltedRun
  <2> QED  BY <2>1, <2>2 DEF StoreInv, TablesTyped, AbandonHaltedRun
<1>2. None # "rejected"
  BY NoneIsNoValue DEF Receipt
<1>3. \A a \in AttemptId :
        /\ attempts'[a].pair = attempts[a].pair
        /\ \/ attempts'[a] = attempts[a]
           \/ /\ attempts[a].state = "intent"
              /\ attempts'[a].state = "rejected"
              /\ attempts'[a].receipt = "rejected"
  BY AbandonedRows DEF StoreInv, TablesTyped
<1>6. AttemptsSound' /\ RowsKept
  <2>1. AttemptsSound'
    BY <1>2, <1>3 DEF StoreInv, AttemptsSound
  <2>2. UNCHANGED runs
    BY DEF AbandonHaltedRun
  <2> QED  BY <1>2, <1>3, <2>1, <2>2 DEF StoreInv, AttemptsSound, RowsKept
<1>4. RunsSound'
  BY DEF StoreInv, RunsSound, AbandonHaltedRun
<1>5. ReconsSound'
  BY DEF StoreInv, TablesTyped, ReconsSound, Claimed, AbandonHaltedRun
<1> QED  BY <1>1, <1>4, <1>5, <1>6 DEF StoreInv

\* recover_interrupted_dispatches
LEMMA RecoverInterruptedDispatchesSound ==
  ASSUME StoreInv, RecoverInterruptedDispatches
  PROVE  StoreInv' /\ RowsKept
<1>1. TablesTyped'
  <2>1. attempts' \in [AttemptId -> AttemptRow]
    <3>1. \A row \in AttemptRow : Interrupted(row) \in AttemptRow
      BY DEF AttemptRow, Receipt, Interrupted
    <3> QED
      BY <3>1 DEF StoreInv, TablesTyped, RecoverInterruptedDispatches
  <2>2. recons' \in [ReconcileId -> ReconRow]
    BY DEF StoreInv, TablesTyped, RecoverInterruptedDispatches, ReconRow
  <2> QED
    BY <2>1, <2>2 DEF StoreInv, TablesTyped, RecoverInterruptedDispatches
<1>2. None # "unknown"
  BY NoneIsNoValue DEF Receipt
<1>3. \A a \in AttemptId :
        /\ attempts'[a].pair = attempts[a].pair
        /\ \/ attempts'[a] = attempts[a]
           \/ /\ attempts[a].state = "dispatched"
              /\ attempts'[a].state = "unknown"
              /\ attempts'[a].receipt = "unknown"
  BY InterruptedRows DEF StoreInv, TablesTyped
<1>7. AttemptsSound' /\ RowsKept
  <2>1. AttemptsSound'
    BY <1>2, <1>3 DEF StoreInv, AttemptsSound
  <2>2. UNCHANGED runs
    BY DEF RecoverInterruptedDispatches
  <2> QED  BY <1>2, <1>3, <2>1, <2>2 DEF StoreInv, AttemptsSound, RowsKept
<1>4. RunsSound'
  BY DEF StoreInv, RunsSound, RecoverInterruptedDispatches
<1>5. \A q \in ReconcileId : ~Claimed(q)'
  BY DEF StoreInv, TablesTyped, Claimed, RecoverInterruptedDispatches, ReconRow
<1>6. ReconsSound'
  BY <1>5 DEF ReconsSound
<1> QED  BY <1>1, <1>4, <1>6, <1>7 DEF StoreInv

-----------------------------------------------------------------------------

\* The completed steps of a run have a longest prefix.
LEMMA CompletedPrefixExists ==
  ASSUME StoreInv, NEW r \in RunId, runs[r] # NoRun
  PROVE  /\ CompletedPrefix(r) \in 0..OpCount[runs[r].pair]
         /\ \A i \in 0..(CompletedPrefix(r) - 1) : StepDone(r, i)
<1> DEFINE count == OpCount[runs[r].pair]
           Stop == {n \in Nat : n = count \/ (n < count /\ ~StepDone(r, n))}
<1>1. count \in Nat /\ count <= MaxOps /\ MaxOps \in Nat
  BY ParametersTyped DEF StoreInv, RunsSound
<1>2. PICK n \in Stop : \A m \in Stop : ~(<<m, n>> \in OpToRel(<, Nat))
  <2>1. count \in Stop
    BY <1>1
  <2> HIDE DEF Stop
  <2>2. Stop \subseteq Nat
    BY DEF Stop
  <2> QED  BY <2>1, <2>2, NatLessThanWellFounded, WFMin
<1>3. \A m \in Stop : ~(m < n)
  BY <1>2 DEF OpToRel
<1>4. \A i \in 0..(n - 1) : StepDone(r, i)
  BY <1>1, <1>3
<1>5. n \in 0..count /\ (n < count => ~StepDone(r, n))
  BY <1>1
<1> QED  BY <1>4, <1>5 DEF CompletedPrefix

\* create_run and repair_run_cursor
LEMMA RunsUpdated ==
  ASSUME StoreInv, NEW r \in RunId
  PROVE  /\ runs[r] # NoRun =>
              /\ RunsAfterRepair(r) \in [RunId -> RunRow]
              /\ \A o \in RunId :
                   /\ RunsAfterRepair(r)[o].pair = runs[o].pair
                   /\ RunsAfterRepair(r)[o].first = runs[o].first
         /\ \A p \in Pair, first \in FirstId :
              /\ RunsAfterCreate(r, p, first) \in [RunId -> RunRow]
              /\ \A o \in RunId :
                   \/ RunsAfterCreate(r, p, first)[o] = runs[o]
                   \/ /\ runs[o] = NoRun
                      /\ RunsAfterCreate(r, p, first)[o].pair = p
                      /\ RunsAfterCreate(r, p, first)[o].first = first
<1>1. ASSUME runs[r] # NoRun
      PROVE  RunsAfterRepair(r) \in [RunId -> RunRow]
  <2>1. CompletedPrefix(r) \in 0..MaxOps
    BY <1>1, CompletedPrefixExists, ParametersTyped DEF StoreInv, RunsSound
  <2> QED  BY <2>1 DEF StoreInv, TablesTyped, RunsAfterRepair, RunRow
<1>2. \A o \in RunId : /\ RunsAfterRepair(r)[o].pair = runs[o].pair
                       /\ RunsAfterRepair(r)[o].first = runs[o].first
  BY DEF StoreInv, TablesTyped, RunsAfterRepair, RunRow
<1>3. ASSUME NEW p \in Pair, NEW first \in FirstId
      PROVE  /\ RunsAfterCreate(r, p, first) \in [RunId -> RunRow]
             /\ \A o \in RunId :
                  \/ RunsAfterCreate(r, p, first)[o] = runs[o]
                  \/ /\ runs[o] = NoRun
                     /\ RunsAfterCreate(r, p, first)[o].pair = p
                     /\ RunsAfterCreate(r, p, first)[o].first = first
  BY ParametersTyped DEF StoreInv, TablesTyped, RunsAfterCreate, RunRow
<1> QED  BY <1>1, <1>2, <1>3

-----------------------------------------------------------------------------
(* What every transaction does for the leases. *)

\* Every attempt is of a step of its plan.
InPlan ==
  \A a \in AttemptId :
    attempts[a].pair \in Pair => attempts[a].index < OpCount[attempts[a].pair]

\* A pair that leases anything leases all its resources and nothing else ...
LeasesWhole ==
  \A r \in Resource :
    leases[r] \in Pair => r \in Resources[leases[r]] /\ OwnsAll(leases[r])

\* ... and only as long as its plan is not complete.
LeasesNeeded == \A r \in Resource : leases[r] \in Pair => Unfinished(leases[r])

\* The inductive form of the promises about leases.
CustodyInv ==
  /\ InPlan
  /\ StepsInOrder
  /\ LeasesWhole
  /\ LeasesNeeded
  /\ UncertaintyHoldsLeases
  /\ ClosedPairsQuiet
  /\ InheritedLeasesHeld

\* No transaction changes a settled outcome, or settles a doubt other than by
\* proof.
OutcomesKept ==
  \A a \in AttemptId :
    /\ attempts[a].state \in {"completed", "rejected"} =>
         attempts'[a].state = attempts[a].state
    /\ attempts[a].state \in Uncertain =>
         attempts'[a].state \in {"unknown", "completed", attempts[a].state}

\* No transaction but a takeover moves a lease from one pair to another.
LeasesKept ==
  \A r \in Resource :
    leases[r] # None /\ leases'[r] \notin {None, leases[r]} =>
      /\ leases[r] \in retired'
      /\ \E t \in takeovers' \ takeovers : t.pair = leases'[r]

\* An attempt that is not completed is the last of its pair.
LEMMA OpenIsLast ==
  ASSUME StoreInv, StepsInOrder, NEW p \in Pair, NEW a \in AttemptsOf(p),
         attempts[a].state # "completed"
  PROVE  \A b \in AttemptsOf(p) :
           b # a => /\ attempts[b].state = "completed"
                    /\ attempts[b].index < attempts[a].index
<1> TAKE b \in AttemptsOf(p)
<1>1. /\ a \in AttemptId /\ attempts[a].pair = p /\ p # None
      /\ b \in AttemptId /\ attempts[b].pair = p
      /\ attempts[a].index \in Int /\ attempts[b].index \in Int
  BY NoneIsNoValue, ParametersTyped
     DEF AttemptsOf, StoreInv, TablesTyped, AttemptRow, StepIndex
<1>2. CASE attempts[b].index < attempts[a].index
  BY <1>1, <1>2 DEF StepsInOrder
<1>3. CASE attempts[a].index < attempts[b].index
  BY <1>1, <1>3 DEF StepsInOrder
<1>4. CASE attempts[a].index = attempts[b].index
  BY <1>1, <1>4 DEF StepsInOrder
<1> QED  BY <1>1, <1>2, <1>3, <1>4

OnlyOutcomesMove ==
  \A a \in AttemptId :
    /\ attempts'[a].pair = attempts[a].pair
    /\ attempts'[a].index = attempts[a].index
    /\ attempts[a].state = "completed" => attempts'[a].state = "completed"

\* Outcomes that move leave the order of the steps as it was.
LEMMA OrderKept ==
  ASSUME InPlan, StepsInOrder, OnlyOutcomesMove
  PROVE  /\ InPlan' /\ StepsInOrder'
         /\ \A p : AttemptsOf(p)' = AttemptsOf(p)
         /\ \A p \in Pair : Unfinished(p)' => Unfinished(p)
<1>1. \A p : AttemptsOf(p)' = AttemptsOf(p)
  BY DEF OnlyOutcomesMove, AttemptsOf
<1>2. InPlan'
  BY DEF OnlyOutcomesMove, InPlan
<1>3. StepsInOrder'
  BY <1>1 DEF OnlyOutcomesMove, StepsInOrder, AttemptsOf
<1>4. \A p \in Pair : Unfinished(p)' => Unfinished(p)
  BY <1>1 DEF OnlyOutcomesMove, Unfinished, AttemptsOf
<1> QED  BY <1>1, <1>2, <1>3, <1>4

\* The steps before the next one of a pair are all there and completed.
LEMMA NextInOrder ==
  ASSUME StoreInv, StepsInOrder, NEW p \in Pair, NEW i \in StepIndex,
         InOrder(p, i)
  PROVE  /\ \A b \in AttemptsOf(p) : /\ attempts[b].state = "completed"
                                     /\ attempts[b].index < i
         /\ \A j \in 0..(i - 1) :
              \E b \in AttemptsOf(p) : attempts[b].index = j
<1>1. CASE AttemptsOf(p) = {} /\ i = 0
  BY <1>1
<1>2. CASE ~(AttemptsOf(p) = {} /\ i = 0)
  <2>1. PICK c \in AttemptsOf(p) :
          /\ \A b \in AttemptsOf(p) : attempts[b].index <= attempts[c].index
          /\ attempts[c].state = "completed"
          /\ i = attempts[c].index + 1
    BY <1>2 DEF InOrder
  <2>2. /\ c \in AttemptId /\ attempts[c].pair = p /\ p # None
        /\ \A b \in AttemptsOf(p) : attempts[b].index \in Nat
    BY NoneIsNoValue, ParametersTyped
       DEF AttemptsOf, StoreInv, TablesTyped, AttemptRow, StepIndex
  <2>3. /\ \A b \in AttemptsOf(p) :
             /\ attempts[b].index = attempts[c].index => c = b
             /\ attempts[b].index < attempts[c].index =>
                  attempts[b].state = "completed"
        /\ \A j \in 0..(attempts[c].index - 1) :
             \E b \in AttemptsOf(p) : attempts[b].index = j
    BY <2>2 DEF StepsInOrder
  <2>4. \A b \in AttemptsOf(p) : /\ attempts[b].state = "completed"
                                 /\ attempts[b].index < i
    BY <2>1, <2>2, <2>3
  <2>5. \A j \in 0..(i - 1) : \E b \in AttemptsOf(p) : attempts[b].index = j
    BY <2>1, <2>2, <2>3
  <2> QED  BY <2>4, <2>5
<1> QED  BY <1>1, <1>2

\* The next step of a pair whose steps so far are completed.
LEMMA StepAdmitted ==
  ASSUME StoreInv, InPlan, StepsInOrder,
         NEW a \in AttemptId, NEW p \in Pair, NEW i \in StepIndex, NEW req,
         i < OpCount[p], attempts[a] = NoAttempt,
         attempts' = [attempts EXCEPT ![a] = Intent(p, i, req)],
         \A b \in AttemptsOf(p) : /\ attempts[b].state = "completed"
                                  /\ attempts[b].index < i,
         \A j \in 0..(i - 1) : \E b \in AttemptsOf(p) : attempts[b].index = j
  PROVE  /\ InPlan' /\ StepsInOrder'
         /\ Unfinished(p) /\ Unfinished(p)'
         /\ \A x \in Pair : Unfinished(x)' <=> Unfinished(x)
<1>1. /\ attempts'[a] = Intent(p, i, req)
      /\ \A b \in AttemptId : b # a => attempts'[b] = attempts[b]
      /\ attempts[a].pair = None /\ None \notin Pair
      /\ i \in Nat
  BY NoneIsNoValue, ParametersTyped
     DEF StoreInv, TablesTyped, NoAttempt, StepIndex
<1>2. /\ attempts'[a].pair = p /\ attempts'[a].index = i
      /\ attempts'[a].state = "intent"
  BY <1>1 DEF Intent
<1>3. /\ AttemptsOf(p)' = AttemptsOf(p) \cup {a}
      /\ \A x \in Pair : x # p => AttemptsOf(x)' = AttemptsOf(x)
      /\ \A x \in Pair : a \notin AttemptsOf(x)
  BY <1>1, <1>2 DEF AttemptsOf
<1>4. InPlan'
  BY <1>1, <1>2 DEF InPlan
<1>5. \A b \in AttemptId : attempts[b].index \in Nat
  BY ParametersTyped DEF StoreInv, TablesTyped, AttemptRow, StepIndex
<1>6. StepsInOrder'
  <2> SUFFICES ASSUME NEW c \in AttemptId, attempts'[c].pair # None
               PROVE  /\ \A b \in AttemptsOf(attempts[c].pair)' :
                           /\ attempts'[b].index = attempts'[c].index => c = b
                           /\ attempts'[b].index < attempts'[c].index =>
                                attempts'[b].state = "completed"
                      /\ \A j \in 0..(attempts'[c].index - 1) :
                           \E b \in AttemptsOf(attempts[c].pair)' :
                             attempts'[b].index = j
    BY DEF StepsInOrder
  <2>1. CASE c = a
    <3>1. AttemptsOf(attempts[c].pair)' = AttemptsOf(p) \cup {a}
      BY <1>2, <1>3, <2>1
    <3>2. \A b \in AttemptsOf(p) :
            b \in AttemptId /\ b # a /\ attempts'[b] = attempts[b]
      BY <1>1, <1>3 DEF AttemptsOf
    <3>3. \A b \in AttemptsOf(p) :
            /\ attempts'[b].state = "completed" /\ attempts'[b].index < i
            /\ attempts'[b].index \in Nat
      BY <1>5, <3>2
    <3>4. \A j \in 0..(i - 1) :
            \E b \in AttemptsOf(p) : attempts'[b].index = j
      BY <3>2
    <3> QED  BY <1>1, <1>2, <2>1, <3>1, <3>3, <3>4
  <2>2. CASE c # a /\ attempts[c].pair = p
    <3>1. /\ AttemptsOf(attempts[c].pair)' = AttemptsOf(p) \cup {a}
          /\ attempts'[c] = attempts[c] /\ c \in AttemptsOf(p)
      BY <1>1, <1>3, <2>2 DEF AttemptsOf
    <3>2. \A b \in AttemptsOf(p) :
            b \in AttemptId /\ b # a /\ attempts'[b] = attempts[b]
      BY <1>1, <1>3 DEF AttemptsOf
    <3>3. attempts[c].index < i /\ attempts[c].index \in Nat
      BY <1>5, <3>1
    <3>4. /\ \A b \in AttemptsOf(p) :
               /\ attempts[b].index = attempts[c].index => c = b
               /\ attempts[b].index < attempts[c].index =>
                    attempts[b].state = "completed"
          /\ \A j \in 0..(attempts[c].index - 1) :
               \E b \in AttemptsOf(p) : attempts[b].index = j
      BY <1>1, <2>2 DEF StepsInOrder
    <3> QED  BY <1>1, <1>2, <3>1, <3>2, <3>3, <3>4
  <2>3. CASE c # a /\ attempts[c].pair # p
    <3>1. attempts'[c] = attempts[c]
      BY <1>1, <2>3
    <3>2. AttemptsOf(attempts[c].pair)' = AttemptsOf(attempts[c].pair)
      BY <1>1, <1>2, <2>3, <3>1 DEF AttemptsOf
    <3>3. \A b \in AttemptsOf(attempts[c].pair) : attempts'[b] = attempts[b]
      BY <1>1, <3>1 DEF AttemptsOf
    <3> QED  BY <3>1, <3>2, <3>3 DEF StepsInOrder
  <2> QED  BY <2>1, <2>2, <2>3
<1>7. Unfinished(p) /\ Unfinished(p)'
  <2>1. i \in 0..(OpCount[p] - 1)
    BY <1>1, ParametersTyped
  <2>2. \A b \in AttemptsOf(p) : attempts[b].index # i
    BY <1>5 DEF AttemptsOf
  <2>3. \A b \in AttemptsOf(p)' :
          attempts'[b].index = i => attempts'[b].state # "completed"
    BY <1>1, <1>2, <1>3, <2>2 DEF AttemptsOf
  <2> QED  BY <2>1, <2>2, <2>3 DEF Unfinished
<1>8. \A x \in Pair : x # p => (Unfinished(x)' <=> Unfinished(x))
  BY <1>1, <1>3 DEF Unfinished, AttemptsOf
<1> QED  BY <1>4, <1>6, <1>7, <1>8

\* The leases a pair gets are free, its own, or those of pairs it relieves.
LEMMA LeasesAssigned ==
  ASSUME StoreInv, LeasesWhole, NEW p \in Pair, NEW Gone \in SUBSET Pair,
         \A x \in Gone : Resources[x] = Resources[p],
         \A r \in Resources[p] : leases[r] \in {p, None} \cup Gone,
         leases' = [r \in Resource |->
                      IF r \in Resources[p] THEN p ELSE leases[r]]
  PROVE  /\ LeasesWhole'
         /\ OwnsAll(p)'
         /\ \A x \in Pair \ Gone : OwnsAll(x) => OwnsAll(x)'
         /\ \A r \in Resource :
              \/ leases'[r] = p /\ leases[r] \in {p, None} \cup Gone
              \/ leases'[r] = leases[r] /\ leases[r] \notin Gone
<1>1. \A x \in Pair : Resources[x] \subseteq Resource
  BY ParametersTyped
<1>2. None \notin Pair
  BY NoneIsNoValue
<1>3. \A r \in Resource :
        /\ r \in Resources[p] => leases'[r] = p
        /\ r \notin Resources[p] => leases'[r] = leases[r]
  OBVIOUS
<1>4. OwnsAll(p)'
  BY <1>1, <1>3 DEF OwnsAll
<1>5. \A x \in Pair \ Gone : OwnsAll(x) => OwnsAll(x)'
  BY <1>1, <1>2, <1>3 DEF OwnsAll
<1>6. \A r \in Resource : r \notin Resources[p] => leases[r] \notin Gone
  BY DEF LeasesWhole
<1>7. LeasesWhole'
  <2> SUFFICES ASSUME NEW r \in Resource, leases'[r] \in Pair
               PROVE  r \in Resources[leases'[r]] /\ OwnsAll(leases[r])'
    BY DEF LeasesWhole
  <2>1. CASE r \in Resources[p]
    BY <1>3, <1>4, <2>1 DEF OwnsAll
  <2>2. CASE r \notin Resources[p]
    <3>1. /\ leases'[r] = leases[r] /\ r \in Resources[leases[r]]
          /\ leases[r] \in Pair \ Gone /\ OwnsAll(leases[r])
      BY <1>3, <1>6, <2>2 DEF LeasesWhole
    <3>2. PICK x \in Pair \ Gone : x = leases[r]
      BY <3>1
    <3>3. OwnsAll(x)'
      BY <1>5, <3>1, <3>2
    <3> QED  BY <3>1, <3>2, <3>3 DEF OwnsAll
  <2> QED  BY <2>1, <2>2
<1> QED  BY <1>3, <1>4, <1>5, <1>6, <1>7

\* A pair that gives back what it leases leaves the others alone.
LEMMA LeasesGivenBack ==
  ASSUME StoreInv, LeasesWhole, NEW p \in Pair,
         leases' = [r \in Resource |->
                      IF leases[r] = p THEN None ELSE leases[r]]
  PROVE  /\ LeasesWhole'
         /\ \A x \in Pair : x # p => (OwnsAll(x) => OwnsAll(x)')
         /\ \A r \in Resource :
              leases'[r] \in {None, leases[r]} /\ leases'[r] # p
<1>1. \A x \in Pair : Resources[x] \subseteq Resource
  BY ParametersTyped
<1>2. None \notin Pair
  BY NoneIsNoValue
<1>3. \A r \in Resource :
        /\ leases[r] = p => leases'[r] = None
        /\ leases[r] # p => leases'[r] = leases[r]
  OBVIOUS
<1>4. \A x \in Pair : x # p => (OwnsAll(x) => OwnsAll(x)')
  BY <1>1, <1>3 DEF OwnsAll
<1>5. LeasesWhole'
  <2> SUFFICES ASSUME NEW r \in Resource, leases'[r] \in Pair
               PROVE  r \in Resources[leases'[r]] /\ OwnsAll(leases[r])'
    BY DEF LeasesWhole
  <2>1. /\ leases'[r] = leases[r] /\ r \in Resources[leases[r]]
        /\ leases[r] \in Pair /\ leases[r] # p /\ OwnsAll(leases[r])
    BY <1>2, <1>3 DEF LeasesWhole
  <2>2. PICK x \in Pair : x = leases[r]
    BY <2>1
  <2>3. OwnsAll(x)'
    BY <1>4, <2>1, <2>2
  <2> QED  BY <2>1, <2>2, <2>3 DEF OwnsAll
<1> QED  BY <1>2, <1>3, <1>4, <1>5

\* release_leases gives back all the pair has.
LEMMA ReleasedIsAll ==
  ASSUME StoreInv, LeasesWhole, NEW p \in Pair
  PROVE  Released(p) = [r \in Resource |->
                          IF leases[r] = p THEN None ELSE leases[r]]
BY DEF LeasesWhole, Released

\* An owner has leases, so it is not retired and its plan is not complete.
LEMMA OwnerIsActive ==
  ASSUME LeasesWhole, LeasesNeeded, UncertaintyHoldsLeases,
         NEW p \in Pair, OwnsAll(p)
  PROVE  p \notin retired /\ Unfinished(p)
<1>1. PICK r \in Resource : r \in Resources[p]
  BY ParametersTyped
<1>2. leases[r] = p
  BY <1>1 DEF OwnsAll
<1> QED  BY <1>2 DEF LeasesNeeded, UncertaintyHoldsLeases

-----------------------------------------------------------------------------

\* reserve: the pair is open, the step is its next, and the leases are free.
LEMMA ReserveCustody ==
  ASSUME StoreInv, CustodyInv,
         NEW a \in AttemptId, NEW p \in Pair, NEW i \in StepIndex, NEW req,
         i < OpCount[p], CanReserve(a, p, i, req), Reserve(a, p, i, req)
  PROVE  CustodyInv' /\ OutcomesKept /\ LeasesKept
<1>1. /\ \A b \in AttemptsOf(p) : /\ attempts[b].state = "completed"
                                  /\ attempts[b].index < i
      /\ \A j \in 0..(i - 1) : \E b \in AttemptsOf(p) : attempts[b].index = j
  BY NextInOrder DEF CanReserve, CustodyInv
<1>2. /\ attempts[a] = NoAttempt
      /\ attempts' = [attempts EXCEPT ![a] = Intent(p, i, req)]
      /\ UNCHANGED <<recons, takeovers, retired, abandonments>>
      /\ ~Halted(p) /\ p \notin retired
  BY DEF CanReserve, Reserve
<1>3. /\ InPlan' /\ StepsInOrder' /\ Unfinished(p)'
      /\ \A x \in Pair : Unfinished(x)' <=> Unfinished(x)
  BY <1>1, <1>2, StepAdmitted DEF CustodyInv
<1>4. /\ LeasesWhole'
      /\ OwnsAll(p)'
      /\ \A x \in Pair : OwnsAll(x) => OwnsAll(x)'
      /\ \A r \in Resource :
           \/ leases'[r] = p /\ leases[r] \in {p, None}
           \/ leases'[r] = leases[r]
  <2>1. /\ leases' = [r \in Resource |->
                        IF r \in Resources[p] THEN p ELSE leases[r]]
        /\ \A r \in Resources[p] : leases[r] \in {p, None}
    BY DEF CanReserve, Reserve, LeasesFree
  <2> DEFINE Gone == {}
  <2>2. /\ Gone \in SUBSET Pair
        /\ \A x \in Gone : Resources[x] = Resources[p]
        /\ \A r \in Resources[p] : leases[r] \in {p, None} \cup Gone
        /\ \A x : x \notin Gone
    BY <2>1
  <2> HIDE DEF Gone
  <2>3. /\ LeasesWhole'
        /\ OwnsAll(p)'
        /\ \A x \in Pair \ Gone : OwnsAll(x) => OwnsAll(x)'
        /\ \A r \in Resource :
             \/ leases'[r] = p /\ leases[r] \in {p, None} \cup Gone
             \/ leases'[r] = leases[r] /\ leases[r] \notin Gone
    BY <2>1, <2>2, LeasesAssigned DEF CustodyInv
  <2> QED  BY <2>2, <2>3
<1>5. /\ attempts[a].pair = None /\ attempts[a].state = "absent"
      /\ attempts'[a].pair = p /\ attempts'[a].state = "intent"
      /\ \A b \in AttemptId : b # a => attempts'[b] = attempts[b]
      /\ None \notin Pair
  BY <1>2, NoneIsNoValue DEF StoreInv, TablesTyped, NoAttempt, Intent
<1>6. \A b \in AttemptId : attempts[b].state \in Pending =>
                             attempts[b].pair \in Pair
  BY DEF StoreInv, AttemptsSound, Pending, Unsettled, Uncertain
<1>7. LeasesNeeded'
  BY <1>3, <1>4 DEF CustodyInv, LeasesNeeded
<1>8. UncertaintyHoldsLeases'
  <2>1. ASSUME NEW b \in AttemptId, attempts'[b].state \in Pending,
               attempts'[b].pair \notin retired
        PROVE  OwnsAll(attempts[b].pair)'
    BY <1>4, <1>5, <1>6, <2>1 DEF CustodyInv, UncertaintyHoldsLeases, OwnsAll
  <2>2. \A r \in Resource : leases'[r] \notin retired
    BY <1>2, <1>4 DEF CustodyInv, UncertaintyHoldsLeases
  <2> QED  BY <1>2, <2>1, <2>2 DEF UncertaintyHoldsLeases
<1>9. ClosedPairsQuiet'
  <2>1. \A x \in Pair : x # p => AttemptsOf(x)' = AttemptsOf(x)
    BY <1>5 DEF AttemptsOf
  <2>2. retired \subseteq Pair /\ \A h \in abandonments : h.pair \in Pair
    BY DEF StoreInv, TablesTyped, AbandonRecord
  <2>3. ASSUME NEW x \in retired
        PROVE  ~HasDispatched(x)' /\ ~HasActiveReconciliation(x)'
    <3>1. x \in Pair /\ x # p /\ AttemptsOf(x)' = AttemptsOf(x)
      BY <1>2, <2>1, <2>2
    <3>2. \A b \in AttemptsOf(x) : attempts'[b] = attempts[b]
      BY <1>5, <3>1 DEF AttemptsOf
    <3>3. ~HasDispatched(x) /\ ~HasActiveReconciliation(x) /\ UNCHANGED recons
      BY <1>2 DEF CustodyInv, ClosedPairsQuiet
    <3>4. ~HasDispatched(x)'
      BY <3>1, <3>2, <3>3 DEF HasDispatched
    <3>5. ~HasActiveReconciliation(x)'
      BY <3>1, <3>3 DEF HasActiveReconciliation, ActiveReconciliation
    <3> QED  BY <3>4, <3>5
  <2>4. ASSUME NEW h \in abandonments
        PROVE  /\ LeaseKeys(h.pair)' = {}
               /\ \A b \in AttemptsOf(h.pair)' : attempts'[b].state \notin Pending
    <3>1. h.pair # p /\ h.pair \in Pair
      BY <1>2, <2>2 DEF Halted
    <3> QED
      BY <1>4, <1>5, <2>1, <3>1
         DEF CustodyInv, ClosedPairsQuiet, LeaseKeys, AttemptsOf
  <2> QED  BY <1>2, <2>3, <2>4 DEF ClosedPairsQuiet
<1>10. InheritedLeasesHeld'
  <2>1. \A t \in takeovers : t.pair \in Pair
    BY DEF StoreInv, TablesTyped, TakeoverRecord
  <2> QED
    BY <1>2, <1>3, <1>4, <2>1 DEF CustodyInv, InheritedLeasesHeld
<1>11. OutcomesKept
  BY <1>5 DEF OutcomesKept, Uncertain
<1>12. LeasesKept
  BY <1>4 DEF LeasesKept
<1> QED  BY <1>3, <1>4, <1>7, <1>8, <1>9, <1>10, <1>11, <1>12 DEF CustodyInv

\* Nothing new is opened on a closed pair.
NothingOpens ==
  /\ OnlyOutcomesMove
  /\ \A a \in AttemptId :
       /\ attempts'[a].state \in Pending => attempts[a].state \in Pending
       /\ attempts'[a].state = "dispatched" =>
            attempts[a].state = "dispatched" \/ attempts[a].pair \notin retired
  /\ \A q \in ReconcileId :
       Claimed(q)' => \/ recons'[q] = recons[q]
                      \/ attempts[recons'[q].attempt].pair \notin retired
  /\ \A r \in Resource : leases'[r] \in {None, leases[r]}
  /\ UNCHANGED <<takeovers, retired, abandonments>>

\* Closed pairs stay quiet when nothing opens.
LEMMA QuietKept ==
  ASSUME StoreInv, ClosedPairsQuiet, NothingOpens
  PROVE  ClosedPairsQuiet'
<1>1. \A p : AttemptsOf(p)' = AttemptsOf(p)
  BY DEF NothingOpens, OnlyOutcomesMove, AttemptsOf
<1>2. UNCHANGED <<retired, abandonments>>
  BY DEF NothingOpens
<1>3. ASSUME NEW p \in retired
      PROVE  ~HasDispatched(p)' /\ ~HasActiveReconciliation(p)'
  <2>1. ~HasDispatched(p)'
    BY <1>1 DEF NothingOpens, ClosedPairsQuiet, HasDispatched, AttemptsOf
  <2>2. ASSUME NEW a \in AttemptsOf(p), NEW q \in ReconcileId,
               recons'[q] = [attempt |-> a, state |-> "claimed"]
        PROVE  FALSE
    <3>1. a \in AttemptId /\ attempts[a].pair = p
      BY DEF AttemptsOf
    <3>2. Claimed(q)' /\ recons'[q].attempt = a
      BY <2>2 DEF Claimed
    <3>3. recons[q] = [attempt |-> a, state |-> "claimed"]
      BY <2>2, <3>1, <3>2 DEF NothingOpens
    <3> QED
      BY <3>3 DEF ClosedPairsQuiet, HasActiveReconciliation,
                  ActiveReconciliation
  <2>3. ~HasActiveReconciliation(p)'
    BY <1>1, <2>2 DEF HasActiveReconciliation, ActiveReconciliation
  <2> QED  BY <2>1, <2>3
<1>4. ASSUME NEW h \in abandonments
      PROVE  /\ LeaseKeys(h.pair)' = {}
             /\ \A a \in AttemptsOf(h.pair)' : attempts'[a].state \notin Pending
  <2>1. h.pair \in Pair /\ None \notin Pair
    BY NoneIsNoValue DEF StoreInv, TablesTyped, AbandonRecord
  <2>2. LeaseKeys(h.pair)' = {}
    BY <2>1 DEF NothingOpens, ClosedPairsQuiet, LeaseKeys
  <2>3. \A a \in AttemptsOf(h.pair) :
          a \in AttemptId /\ attempts[a].state \notin Pending
    BY DEF ClosedPairsQuiet, AttemptsOf
  <2> QED  BY <1>1, <2>2, <2>3 DEF NothingOpens
<1> QED  BY <1>2, <1>3, <1>4 DEF ClosedPairsQuiet

\* Outcomes that move under leases that stay.
LEMMA LeasesStay ==
  ASSUME StoreInv, CustodyInv, NothingOpens, leases' = leases,
         \A r \in Resource : leases[r] \in Pair => Unfinished(leases[r])'
  PROVE  CustodyInv'
<1>1. OnlyOutcomesMove /\ UNCHANGED <<takeovers, retired, abandonments>>
  BY DEF NothingOpens
<1>2. /\ InPlan' /\ StepsInOrder'
      /\ \A p \in Pair : Unfinished(p)' => Unfinished(p)
  BY <1>1, OrderKept DEF CustodyInv
<1>3. \A p : OwnsAll(p)' <=> OwnsAll(p)
  BY DEF OwnsAll
<1>4. LeasesWhole'
  BY <1>3 DEF CustodyInv, LeasesWhole, OwnsAll
<1>5. LeasesNeeded'
  BY DEF LeasesNeeded, Unfinished, AttemptsOf
<1>6. UncertaintyHoldsLeases'
  BY <1>1, <1>3
     DEF CustodyInv, UncertaintyHoldsLeases, NothingOpens, OnlyOutcomesMove,
         OwnsAll
<1>7. ClosedPairsQuiet'
  BY QuietKept DEF CustodyInv
<1>8. InheritedLeasesHeld'
  <2>1. \A t \in takeovers : t.pair \in Pair
    BY DEF StoreInv, TablesTyped, TakeoverRecord
  <2> QED
    BY <1>1, <1>2, <1>3, <2>1 DEF CustodyInv, InheritedLeasesHeld
<1> QED  BY <1>2, <1>4, <1>5, <1>6, <1>7, <1>8 DEF CustodyInv

\* Completion is all that finishes a plan.
LEMMA UnfinishedStays ==
  ASSUME OnlyOutcomesMove,
         \A a \in AttemptId : attempts'[a].state = "completed" =>
                                attempts[a].state = "completed"
  PROVE  \A p : Unfinished(p) <=> Unfinished(p)'
<1>1. \A p : AttemptsOf(p)' = AttemptsOf(p)
  BY DEF OnlyOutcomesMove, AttemptsOf
<1> QED  BY <1>1 DEF OnlyOutcomesMove, Unfinished, AttemptsOf

\* claim_dispatch
LEMMA ClaimDispatchCustody ==
  ASSUME StoreInv, CustodyInv, NEW a \in AttemptId,
         CanClaimDispatch(a), ClaimDispatch(a)
  PROVE  CustodyInv' /\ OutcomesKept /\ LeasesKept
<1>1. /\ attempts[a].state = "intent" /\ attempts[a].pair \notin retired
      /\ attempts' = [attempts EXCEPT ![a].state = "dispatched"]
      /\ UNCHANGED <<leases, recons, takeovers, retired, abandonments>>
  BY DEF CanClaimDispatch, ClaimDispatch
<1>2. NothingOpens
  BY <1>1 DEF NothingOpens, OnlyOutcomesMove, Pending, Unsettled, StoreInv,
              TablesTyped, AttemptRow
<1>3. \A p : Unfinished(p) <=> Unfinished(p)'
  BY <1>1, <1>2, UnfinishedStays DEF NothingOpens, StoreInv, TablesTyped
<1>4. CustodyInv'
  BY <1>1, <1>2, <1>3, LeasesStay DEF CustodyInv, LeasesNeeded
<1>5. OutcomesKept /\ LeasesKept
  BY <1>1 DEF OutcomesKept, LeasesKept, Uncertain, StoreInv, TablesTyped
<1> QED  BY <1>4, <1>5

\* claim_reconciliation
LEMMA ClaimReconciliationCustody ==
  ASSUME StoreInv, CustodyInv, NEW q \in ReconcileId, NEW a \in AttemptId,
         CanClaimReconciliation(q, a), ClaimReconciliation(q, a)
  PROVE  CustodyInv' /\ OutcomesKept /\ LeasesKept
<1>1. /\ attempts[a].state \in Uncertain
      /\ attempts' = [attempts EXCEPT ![a].state = "unknown"]
      /\ recons' = [recons EXCEPT ![q] = [attempt |-> a, state |-> "claimed"]]
      /\ UNCHANGED <<leases, takeovers, retired, abandonments>>
  BY DEF CanClaimReconciliation, Reconcilable, ClaimReconciliation
<1>2. attempts[a].pair \notin retired
  <2>1. attempts[a].pair \in Pair /\ OwnsAll(attempts[a].pair)
    BY <1>1 DEF StoreInv, AttemptsSound, Uncertain, CanClaimReconciliation
  <2> QED  BY <2>1, OwnerIsActive DEF CustodyInv
<1>3. NothingOpens
  <2>1. OnlyOutcomesMove
    BY <1>1 DEF OnlyOutcomesMove, StoreInv, TablesTyped, AttemptRow, Uncertain
  <2>2. \A o \in ReconcileId : recons'[o] = recons[o] \/ recons'[o].attempt = a
    BY <1>1 DEF StoreInv, TablesTyped
  <2> QED
    BY <1>1, <1>2, <2>1, <2>2
       DEF NothingOpens, Pending, Unsettled, Uncertain, StoreInv, TablesTyped
<1>4. \A p : Unfinished(p) <=> Unfinished(p)'
  BY <1>1, <1>3, UnfinishedStays DEF NothingOpens, StoreInv, TablesTyped
<1>5. CustodyInv'
  BY <1>1, <1>3, <1>4, LeasesStay DEF CustodyInv, LeasesNeeded
<1>6. OutcomesKept /\ LeasesKept
  BY <1>1 DEF OutcomesKept, LeasesKept, Uncertain, StoreInv, TablesTyped
<1> QED  BY <1>5, <1>6

\* recover_interrupted_dispatches
LEMMA RecoverInterruptedDispatchesCustody ==
  ASSUME StoreInv, CustodyInv, RecoverInterruptedDispatches
  PROVE  CustodyInv' /\ OutcomesKept /\ LeasesKept
<1>1. \A b \in AttemptId :
        /\ attempts'[b].pair = attempts[b].pair
        /\ attempts'[b].index = attempts[b].index
        /\ \/ attempts'[b].state = attempts[b].state
           \/ /\ attempts[b].state = "dispatched"
              /\ attempts'[b].state = "unknown"
        /\ attempts'[b].state # "dispatched"
  BY DEF RecoverInterruptedDispatches, Interrupted, StoreInv, TablesTyped,
         AttemptRow
<1>2. /\ \A q \in ReconcileId : ~Claimed(q)'
      /\ UNCHANGED <<leases, takeovers, retired, abandonments>>
  BY DEF RecoverInterruptedDispatches, Claimed, StoreInv, TablesTyped, ReconRow
<1>3. NothingOpens
  BY <1>1, <1>2
     DEF NothingOpens, OnlyOutcomesMove, Pending, Unsettled, Uncertain
<1>4. \A p : Unfinished(p) <=> Unfinished(p)'
  BY <1>1, <1>3, UnfinishedStays DEF NothingOpens
<1>5. CustodyInv'
  BY <1>2, <1>3, <1>4, LeasesStay DEF CustodyInv, LeasesNeeded
<1>6. OutcomesKept /\ LeasesKept
  BY <1>1, <1>2 DEF OutcomesKept, LeasesKept, Uncertain
<1> QED  BY <1>5, <1>6

-----------------------------------------------------------------------------

\* An effect gets an outcome, and the leases go with the last one.
Settles(a, frees) ==
  LET p == attempts[a].pair
  IN  /\ attempts[a].state \in {"dispatched", "unknown"}
      /\ p \notin retired
      /\ \A b \in AttemptId : b # a => attempts'[b] = attempts[b]
      /\ attempts'[a].pair = p
      /\ attempts'[a].index = attempts[a].index
      /\ attempts'[a].state \in Receipt
      /\ \A q \in ReconcileId : Claimed(q)' => recons'[q] = recons[q]
      /\ leases' = IF frees THEN Released(p) ELSE leases
      /\ frees =>
           \/ /\ attempts'[a].state = "completed"
              /\ attempts[a].index + 1 = OpCount[p]
           \/ attempts'[a].state = "rejected" /\ ~RecoveryDestination(p)
      /\ /\ attempts'[a].state = "completed"
         /\ attempts[a].index + 1 = OpCount[p]
         => frees
      /\ UNCHANGED <<takeovers, retired, abandonments>>

\* The plan of a settled step is complete exactly after its last step.
LEMMA SettledPlan ==
  ASSUME StoreInv, InPlan, StepsInOrder,
         NEW a \in AttemptId, NEW frees, Settles(a, frees),
         NEW p \in Pair, attempts[a].pair = p
  PROVE  /\ \A x \in Pair : x # p => (Unfinished(x)' <=> Unfinished(x))
         /\ Unfinished(p)
         /\ Unfinished(p)' <=> ~(/\ attempts'[a].state = "completed"
                                 /\ attempts[a].index + 1 = OpCount[p])
         /\ \A b \in AttemptsOf(p) :
              b # a => /\ attempts'[b].state = "completed"
                       /\ attempts[b].state = "completed"
<1> DEFINE i == attempts[a].index
<1>1. /\ OpCount[p] \in Nat /\ i \in 0..(OpCount[p] - 1)
      /\ attempts[a].state # "completed" /\ a \in AttemptsOf(p)
      /\ \A b \in AttemptId : attempts[b].index \in Nat
  BY ParametersTyped
     DEF Settles, StoreInv, TablesTyped, AttemptsSound, InPlan, AttemptRow,
         StepIndex, AttemptsOf
<1>2. \A b \in AttemptsOf(p) :
        b # a => attempts[b].state = "completed" /\ attempts[b].index < i
  BY <1>1, OpenIsLast
<1>3. /\ \A x : AttemptsOf(x)' = AttemptsOf(x)
      /\ \A b \in AttemptId : attempts'[b].index = attempts[b].index
      /\ \A b \in AttemptId : b # a => attempts'[b] = attempts[b]
  BY DEF Settles, AttemptsOf
<1>4. \A x \in Pair : x # p => (Unfinished(x)' <=> Unfinished(x))
  BY <1>3 DEF Unfinished, AttemptsOf
<1>5. Unfinished(p)
  BY <1>1, <1>2 DEF Unfinished
<1>6. ASSUME ~(attempts'[a].state = "completed" /\ i + 1 = OpCount[p])
      PROVE  Unfinished(p)'
  <2>1. CASE attempts'[a].state # "completed"
    BY <1>1, <1>2, <1>3, <2>1 DEF Unfinished, AttemptsOf
  <2>2. CASE i + 1 # OpCount[p]
    <3>1. OpCount[p] - 1 \in 0..(OpCount[p] - 1) /\ i < OpCount[p] - 1
      BY <1>1, <2>2
    <3>2. \A b \in AttemptsOf(p)' : attempts'[b].index # OpCount[p] - 1
      BY <1>1, <1>2, <1>3, <3>1 DEF AttemptsOf
    <3> QED  BY <3>1, <3>2 DEF Unfinished
  <2> QED  BY <1>6, <2>1, <2>2
<1>7. ASSUME attempts'[a].state = "completed", i + 1 = OpCount[p]
      PROVE  ~Unfinished(p)'
  <2> SUFFICES ASSUME NEW j \in 0..(OpCount[p] - 1)
               PROVE  \E b \in AttemptsOf(p)' :
                        /\ attempts'[b].index = j
                        /\ attempts'[b].state = "completed"
    BY DEF Unfinished
  <2>1. CASE j = i
    BY <1>1, <1>3, <1>7, <2>1
  <2>2. CASE j # i
    <3>1. j \in 0..(i - 1)
      BY <1>1, <1>7, <2>2
    <3>2. PICK b \in AttemptsOf(p) : attempts[b].index = j
      BY <1>1, <3>1, NoneIsNoValue DEF StepsInOrder
    <3>3. b # a /\ b \in AttemptId
      BY <1>1, <3>1, <3>2 DEF AttemptsOf
    <3> QED  BY <1>2, <1>3, <3>2, <3>3
  <2> QED  BY <2>1, <2>2
<1>8. \A b \in AttemptsOf(p) : b # a => /\ attempts'[b].state = "completed"
                                        /\ attempts[b].state = "completed"
  BY <1>2, <1>3 DEF AttemptsOf
<1> QED  BY <1>1, <1>4, <1>5, <1>6, <1>7, <1>8

\* record_receipt and finish_reconciliation release exactly what nothing open
\* and no inherited plan needs.
LEMMA SettlesCustody ==
  ASSUME StoreInv, CustodyInv, NEW a \in AttemptId, NEW frees \in BOOLEAN,
         Settles(a, frees)
  PROVE  CustodyInv' /\ LeasesKept
<1> PICK p \in Pair : p = attempts[a].pair
  BY DEF Settles, StoreInv, AttemptsSound
<1>1. /\ p \notin retired /\ None \notin Pair
      /\ \A b \in AttemptId : b # a => attempts'[b] = attempts[b]
      /\ attempts'[a].pair = p
      /\ UNCHANGED <<takeovers, retired, abandonments>>
  BY NoneIsNoValue DEF Settles
<1>2. /\ \A x \in Pair : x # p => (Unfinished(x)' <=> Unfinished(x))
      /\ Unfinished(p)' <=> ~(/\ attempts'[a].state = "completed"
                              /\ attempts[a].index + 1 = OpCount[p])
      /\ \A b \in AttemptsOf(p) : b # a => attempts'[b].state = "completed"
  BY SettledPlan DEF CustodyInv
<1>3. \A r \in Resource : leases'[r] \in {None, leases[r]}
  BY DEF Settles, Released
<1>4. NothingOpens
  BY <1>3 DEF NothingOpens, OnlyOutcomesMove, Settles, Pending, Unsettled,
              Uncertain
<1>5. LeasesKept
  BY <1>3 DEF LeasesKept
<1>6. CASE ~frees
  <2>1. leases' = leases /\ Unfinished(p)'
    BY <1>2, <1>6 DEF Settles
  <2>2. \A r \in Resource : leases[r] \in Pair => Unfinished(leases[r])'
    <3> SUFFICES ASSUME NEW r \in Resource, NEW x \in Pair, leases[r] = x
                 PROVE  Unfinished(x)'
      BY <2>1 DEF Unfinished, AttemptsOf
    <3> QED  BY <1>2, <2>1 DEF CustodyInv, LeasesNeeded
  <2> QED  BY <1>4, <1>5, <2>1, <2>2, LeasesStay
<1>7. CASE frees
  <2>1. /\ attempts'[a].state \in {"completed", "rejected"}
        /\ Unfinished(p)' => ~RecoveryDestination(p)
    BY <1>2, <1>7 DEF Settles
  <2>2. /\ LeasesWhole'
        /\ \A x \in Pair : x # p => (OwnsAll(x) => OwnsAll(x)')
        /\ \A r \in Resource : leases'[r] # p
    <3>1. leases' = [r \in Resource |->
                       IF leases[r] = p THEN None ELSE leases[r]]
      BY <1>1, <1>7, ReleasedIsAll DEF CustodyInv, Settles
    <3> QED  BY <1>1, <3>1, LeasesGivenBack DEF CustodyInv
  <2>3. InPlan' /\ StepsInOrder'
    BY <1>4, OrderKept DEF NothingOpens, CustodyInv
  <2>4. LeasesNeeded'
    <3> SUFFICES ASSUME NEW r \in Resource, NEW x \in Pair, leases'[r] = x
                 PROVE  Unfinished(x)'
      BY DEF LeasesNeeded, Unfinished, AttemptsOf
    <3>1. x # p /\ leases[r] = x
      BY <1>1, <1>3, <2>2
    <3> QED  BY <1>2, <3>1 DEF CustodyInv, LeasesNeeded
  <2>5. UncertaintyHoldsLeases'
    <3>1. ASSUME NEW b \in AttemptId, attempts'[b].state \in Pending,
                 attempts'[b].pair \notin retired
          PROVE  OwnsAll(attempts[b].pair)'
      <4>1. b # a /\ attempts'[b] = attempts[b]
        BY <1>1, <2>1, <3>1 DEF Pending, Unsettled, Uncertain
      <4>2. attempts[b].pair # p
        BY <1>2, <3>1, <4>1
           DEF AttemptsOf, Pending, Unsettled, Uncertain
      <4>3. PICK x \in Pair : x = attempts[b].pair
        BY <3>1, <4>1
           DEF StoreInv, AttemptsSound, Pending, Unsettled, Uncertain
      <4>4. OwnsAll(x)'
        BY <2>2, <3>1, <4>1, <4>2, <4>3
           DEF CustodyInv, UncertaintyHoldsLeases
      <4> QED  BY <4>1, <4>3, <4>4 DEF OwnsAll
    <3>2. \A r \in Resource : leases'[r] \notin retired
      BY <1>3, NoneIsNoValue
         DEF CustodyInv, UncertaintyHoldsLeases, StoreInv, TablesTyped
    <3> QED  BY <1>1, <3>1, <3>2 DEF UncertaintyHoldsLeases
  <2>6. ClosedPairsQuiet'
    BY <1>4, QuietKept DEF CustodyInv
  <2>7. InheritedLeasesHeld'
    <3>1. \A t \in takeovers : t.pair \in Pair
      BY DEF StoreInv, TablesTyped, TakeoverRecord
    <3>2. \A t \in takeovers : Unfinished(t.pair)' => t.pair # p
      BY <2>1 DEF RecoveryDestination
    <3> QED
      BY <1>1, <1>2, <2>2, <3>1, <3>2 DEF CustodyInv, InheritedLeasesHeld
  <2> QED  BY <1>5, <2>2, <2>3, <2>4, <2>5, <2>6, <2>7 DEF CustodyInv
<1> QED  BY <1>6, <1>7

\* record_receipt
LEMMA RecordReceiptSettles ==
  ASSUME StoreInv, CustodyInv, NEW a \in AttemptId, NEW receipt \in Receipt,
         NEW release \in BOOLEAN,
         release <=> \/ receipt = "rejected"
                     \/ /\ receipt = "completed"
                        /\ attempts[a].index + 1 = OpCount[attempts[a].pair],
         attempts[a].state = "dispatched", RecordReceipt(a, receipt, release)
  PROVE  /\ Settles(a, FreesLeases(a, receipt, release))
         /\ FreesLeases(a, receipt, release) \in BOOLEAN
<1>1. attempts[a].pair \notin retired
  BY DEF CustodyInv, ClosedPairsQuiet, HasDispatched, AttemptsOf
<1>2. /\ attempts'[a].pair = attempts[a].pair
      /\ attempts'[a].index = attempts[a].index
      /\ attempts'[a].state = receipt
      /\ \A b \in AttemptId : b # a => attempts'[b] = attempts[b]
  BY DEF RecordReceipt, Settle, StoreInv, TablesTyped, AttemptRow
<1> QED  BY <1>1, <1>2 DEF RecordReceipt, FreesLeases, Settles, Claimed

\* record_receipt
LEMMA RecordReceiptCustody ==
  ASSUME StoreInv, CustodyInv, NEW a \in AttemptId, NEW receipt \in Receipt,
         NEW release \in BOOLEAN,
         release <=> \/ receipt = "rejected"
                     \/ /\ receipt = "completed"
                        /\ attempts[a].index + 1 = OpCount[attempts[a].pair],
         attempts[a].state = "dispatched", RecordReceipt(a, receipt, release)
  PROVE  CustodyInv' /\ OutcomesKept /\ LeasesKept
<1>1. CustodyInv' /\ LeasesKept
  BY RecordReceiptSettles, SettlesCustody
<1>2. OutcomesKept
  BY DEF OutcomesKept, Uncertain, RecordReceipt, Settle, StoreInv, TablesTyped
<1> QED  BY <1>1, <1>2

\* finish_reconciliation
LEMMA FinishReconciliationSettles ==
  ASSUME StoreInv, CustodyInv, NEW q \in ReconcileId,
         NEW verdict \in {"completed", "unknown", "failed"},
         NEW release \in BOOLEAN,
         verdict = "completed" =>
           (release <=> attempts[recons[q].attempt].index + 1
                          = OpCount[attempts[recons[q].attempt].pair]),
         Claimed(q), FinishReconciliation(q, verdict, release)
  PROVE  /\ recons[q].attempt \in AttemptId
         /\ Settles(recons[q].attempt, verdict = "completed" /\ release)
<1> DEFINE a == recons[q].attempt
<1>1. a \in AttemptId /\ attempts[a].state = "unknown"
  BY DEF StoreInv, ReconsSound
<1>2. attempts[a].pair \notin retired
  <2>1. recons[q] = [attempt |-> a, state |-> "claimed"]
    BY DEF StoreInv, TablesTyped, ReconRow, Claimed
  <2> QED
    BY <1>1, <2>1 DEF CustodyInv, ClosedPairsQuiet, HasActiveReconciliation,
                      ActiveReconciliation, AttemptsOf
<1>3. /\ attempts'[a].pair = attempts[a].pair
      /\ attempts'[a].index = attempts[a].index
      /\ attempts'[a].state = (IF verdict = "completed" THEN "completed"
                               ELSE "unknown")
      /\ \A b \in AttemptId : b # a => attempts'[b] = attempts[b]
  BY <1>1 DEF FinishReconciliation, Resolved, StoreInv, TablesTyped, AttemptRow
<1>4. \A o \in ReconcileId : Claimed(o)' => recons'[o] = recons[o]
  BY DEF FinishReconciliation, Claimed, StoreInv, TablesTyped
<1> QED
  BY <1>1, <1>2, <1>3, <1>4 DEF FinishReconciliation, Settles, Receipt

\* finish_reconciliation
LEMMA FinishReconciliationCustody ==
  ASSUME StoreInv, CustodyInv, NEW q \in ReconcileId,
         NEW verdict \in {"completed", "unknown", "failed"},
         NEW release \in BOOLEAN,
         verdict = "completed" =>
           (release <=> attempts[recons[q].attempt].index + 1
                          = OpCount[attempts[recons[q].attempt].pair]),
         Claimed(q), FinishReconciliation(q, verdict, release)
  PROVE  CustodyInv' /\ OutcomesKept /\ LeasesKept
<1> DEFINE a == recons[q].attempt
<1>1. /\ a \in AttemptId /\ attempts[a].state = "unknown"
      /\ Settles(a, verdict = "completed" /\ release)
  BY FinishReconciliationSettles DEF StoreInv, ReconsSound
<1>2. CustodyInv' /\ LeasesKept
  BY <1>1, SettlesCustody
<1>3. OutcomesKept
  BY <1>1 DEF OutcomesKept, FinishReconciliation, Resolved, Uncertain, StoreInv,
              TablesTyped
<1> QED  BY <1>2, <1>3

-----------------------------------------------------------------------------

\* abandon_halted_run: nothing of the pair is open, so its leases can go.
LEMMA AbandonHaltedRunCustody ==
  ASSUME StoreInv, CustodyInv, NEW h \in AbandonRecord, NEW keys,
         CanAbandon(h, keys), AbandonHaltedRun(h)
  PROVE  CustodyInv' /\ OutcomesKept /\ LeasesKept
<1> DEFINE p == h.pair
<1>1. /\ p \in Pair /\ None \notin Pair
      /\ \A a \in AttemptsOf(p) : attempts[a].state \notin Unsettled
      /\ ~RecoveryDestination(p)
      /\ UNCHANGED <<recons, takeovers, retired>>
      /\ abandonments' = abandonments \cup {h}
  BY NoneIsNoValue
     DEF AbandonRecord, CanAbandon, Abandonable, AbandonHaltedRun
<1>2. \A a \in AttemptId :
        /\ attempts'[a].pair = attempts[a].pair
        /\ attempts'[a].index = attempts[a].index
        /\ \/ attempts'[a].state = attempts[a].state
           \/ attempts[a].state = "intent" /\ attempts'[a].state = "rejected"
        /\ attempts[a].pair = p => attempts'[a].state \notin Pending
  <2>1. \A a \in AttemptId :
          /\ attempts'[a].pair = attempts[a].pair
          /\ attempts'[a].index = attempts[a].index
          /\ attempts'[a].state = IF /\ attempts[a].pair = p
                                     /\ attempts[a].state = "intent"
                                  THEN "rejected" ELSE attempts[a].state
    BY DEF AbandonHaltedRun, StoreInv, TablesTyped, AttemptRow
  <2> QED  BY <1>1, <2>1 DEF AttemptsOf, Pending, Unsettled, Uncertain
<1>3. OnlyOutcomesMove
  BY <1>2 DEF OnlyOutcomesMove
<1>4. /\ InPlan' /\ StepsInOrder'
      /\ \A x : AttemptsOf(x)' = AttemptsOf(x)
  BY <1>3, OrderKept DEF CustodyInv
<1>5. \A x : Unfinished(x) <=> Unfinished(x)'
  BY <1>2, <1>3, UnfinishedStays
<1>6. /\ LeasesWhole'
      /\ \A x \in Pair : x # p => (OwnsAll(x) => OwnsAll(x)')
      /\ \A r \in Resource : leases'[r] \in {None, leases[r]} /\ leases'[r] # p
  <2>1. leases' = [r \in Resource |->
                     IF leases[r] = p THEN None ELSE leases[r]]
    BY DEF AbandonHaltedRun
  <2> QED  BY <1>1, <2>1, LeasesGivenBack DEF CustodyInv
<1>7. LeasesNeeded'
  <2> SUFFICES ASSUME NEW r \in Resource, NEW x \in Pair, leases'[r] = x
               PROVE  Unfinished(x)'
    BY DEF LeasesNeeded, Unfinished, AttemptsOf
  <2> QED  BY <1>1, <1>5, <1>6 DEF CustodyInv, LeasesNeeded
<1>8. UncertaintyHoldsLeases'
  <2>1. ASSUME NEW b \in AttemptId, attempts'[b].state \in Pending,
               attempts'[b].pair \notin retired
        PROVE  OwnsAll(attempts[b].pair)'
    <3>1. /\ attempts[b].state \in Pending /\ attempts[b].pair # p
          /\ attempts'[b].pair = attempts[b].pair
      BY <1>2, <2>1 DEF Pending, Unsettled, Uncertain
    <3>2. PICK x \in Pair : x = attempts[b].pair
      BY <3>1 DEF StoreInv, AttemptsSound, Pending, Unsettled, Uncertain
    <3>3. OwnsAll(x)'
      BY <1>6, <2>1, <3>1, <3>2 DEF CustodyInv, UncertaintyHoldsLeases
    <3> QED  BY <3>1, <3>2, <3>3 DEF OwnsAll
  <2>2. \A r \in Resource : leases'[r] \notin retired
    BY <1>6, NoneIsNoValue
       DEF CustodyInv, UncertaintyHoldsLeases, StoreInv, TablesTyped
  <2> QED  BY <1>1, <2>1, <2>2 DEF UncertaintyHoldsLeases
<1>9. ClosedPairsQuiet'
  <2>1. ASSUME NEW x \in retired
        PROVE  ~HasDispatched(x)' /\ ~HasActiveReconciliation(x)'
    BY <1>1, <1>2, <1>4
       DEF CustodyInv, ClosedPairsQuiet, HasDispatched,
           HasActiveReconciliation, ActiveReconciliation, AttemptsOf
  <2>2. ASSUME NEW u \in abandonments'
        PROVE  /\ LeaseKeys(u.pair)' = {}
               /\ \A b \in AttemptsOf(u.pair)' : attempts'[b].state \notin Pending
    <3>1. PICK x \in Pair : x = u.pair
      BY <1>1, <2>2 DEF StoreInv, TablesTyped, AbandonRecord
    <3>2. CASE x = p
      BY <1>2, <1>4, <1>6, <3>1, <3>2 DEF LeaseKeys, AttemptsOf
    <3>3. CASE x # p
      <4>1. u \in abandonments
        BY <1>1, <2>2, <3>1, <3>3
      <4>2. /\ LeaseKeys(u.pair) = {}
            /\ \A b \in AttemptsOf(u.pair) : attempts[b].state \notin Pending
        BY <4>1 DEF CustodyInv, ClosedPairsQuiet
      <4>3. LeaseKeys(u.pair)' = {}
        BY <1>1, <1>6, <3>1, <4>2 DEF LeaseKeys
      <4>4. \A b \in AttemptsOf(u.pair) : attempts'[b].state \notin Pending
        BY <1>2, <4>2 DEF AttemptsOf, Pending, Unsettled, Uncertain
      <4> QED  BY <1>4, <4>3, <4>4
    <3> QED  BY <3>2, <3>3
  <2> QED  BY <1>1, <2>1, <2>2 DEF ClosedPairsQuiet
<1>10. InheritedLeasesHeld'
  <2>1. \A t \in takeovers : t.pair \in Pair /\ t.pair # p
    BY <1>1 DEF StoreInv, TablesTyped, TakeoverRecord, RecoveryDestination
  <2> QED  BY <1>1, <1>5, <1>6, <2>1 DEF CustodyInv, InheritedLeasesHeld
<1>11. OutcomesKept
  BY <1>2 DEF OutcomesKept, Uncertain
<1>12. LeasesKept
  BY <1>6 DEF LeasesKept
<1> QED  BY <1>4, <1>6, <1>7, <1>8, <1>9, <1>10, <1>11, <1>12 DEF CustodyInv

\* A pair that a takeover may name has no attempts, and every pair it relieves
\* is another one that needs the same resources.
LEMMA TakeoverFacts ==
  ASSUME StoreInv, CustodyInv, NEW t \in TakeoverRecord, CanTakeover(t)
  PROVE  /\ t.pair \in Pair /\ t.first \in AttemptId
         /\ AttemptsOf(t.pair) = {}
         /\ SourcePairs(t) \in SUBSET Pair
         /\ t.pair \notin SourcePairs(t)
         /\ \A x \in SourcePairs(t) : Resources[x] = Resources[t.pair]
         /\ \A x \in SourcePairs(t) :
              ~HasDispatched(x) /\ ~HasActiveReconciliation(x)
<1>1. /\ t.pair \in Pair /\ t.first \in AttemptId
      /\ t.unresolved \subseteq AttemptId
  BY DEF TakeoverRecord, AttemptId
<1>2. AttemptsOf(t.pair) = {}
  <2> SUFFICES ASSUME NEW a \in AttemptsOf(t.pair)
               PROVE  FALSE
    OBVIOUS
  <2>1. /\ a \in AttemptId /\ attempts[a].pair = t.pair /\ t.pair # None
        /\ attempts[a].index \in Nat /\ attempts[a].index # 0
    BY <1>1, NoneIsNoValue, ParametersTyped
       DEF AttemptsOf, StoreInv, TablesTyped, AttemptRow, StepIndex,
           CanTakeover
  <2>2. 0 \in 0..(attempts[a].index - 1)
    BY <2>1
  <2>3. \E b \in AttemptsOf(t.pair) : attempts[b].index = 0
    BY <2>1, <2>2 DEF CustodyInv, StepsInOrder
  <2> QED  BY <2>3 DEF CanTakeover
<1>3. ASSUME NEW x \in SourcePairs(t)
      PROVE  /\ x \in Pair /\ x # t.pair
             /\ Resources[x] = Resources[t.pair]
             /\ ~HasDispatched(x) /\ ~HasActiveReconciliation(x)
  <2>1. PICK s \in t.unresolved : x = attempts[s].pair
    BY DEF SourcePairs
  <2>2. s \in AttemptId /\ IsSource(s, t.pair)
    BY <1>1 DEF CanTakeover
  <2>3. x \in Pair /\ x # t.pair
    BY <1>2, <2>1, <2>2 DEF IsSource, StoreInv, AttemptsSound, AttemptsOf
  <2> QED  BY <2>1, <2>2, <2>3 DEF IsSource
<1> QED  BY <1>1, <1>2, <1>3

\* takeover_recovery: the leases go from retired pairs to the new one.
LEMMA TakeoverRecoveryCustody ==
  ASSUME StoreInv, CustodyInv, NEW t \in TakeoverRecord,
         CanTakeover(t), t \notin takeovers, TakeoverRecovery(t)
  PROVE  CustodyInv' /\ OutcomesKept /\ LeasesKept
<1> DEFINE p == t.pair
           a == t.first
           Gone == SourcePairs(t)
<1>1. /\ p \in Pair /\ a \in AttemptId /\ None \notin Pair
      /\ Gone \in SUBSET Pair /\ p \notin Gone
      /\ \A x \in Gone : Resources[x] = Resources[p]
      /\ \A x \in Gone : ~HasDispatched(x) /\ ~HasActiveReconciliation(x)
  BY TakeoverFacts, NoneIsNoValue
<1>2. /\ attempts[a] = NoAttempt
      /\ attempts' = [attempts EXCEPT ![a] = Intent(p, 0, t.request)]
      /\ retired' = retired \cup Gone /\ takeovers' = takeovers \cup {t}
      /\ UNCHANGED <<recons, abandonments>>
      /\ ~Halted(p) /\ p \notin retired
  BY DEF CanTakeover, TakeoverRecovery
<1>3. /\ InPlan' /\ StepsInOrder' /\ Unfinished(p)'
      /\ \A x \in Pair : Unfinished(x)' <=> Unfinished(x)
  <2>1. 0 \in StepIndex /\ 0 < OpCount[p]
    BY <1>1, ParametersTyped DEF StepIndex
  <2>2. /\ \A b \in AttemptsOf(p) : /\ attempts[b].state = "completed"
                                    /\ attempts[b].index < 0
        /\ \A j \in 0..(0 - 1) : \E b \in AttemptsOf(p) : attempts[b].index = j
    BY TakeoverFacts
  <2> QED  BY <1>1, <1>2, <2>1, <2>2, StepAdmitted DEF CustodyInv
<1>4. /\ LeasesWhole'
      /\ OwnsAll(p)'
      /\ \A x \in Pair \ Gone : OwnsAll(x) => OwnsAll(x)'
      /\ \A r \in Resource :
           \/ leases'[r] = p /\ leases[r] \in {p, None} \cup Gone
           \/ leases'[r] = leases[r] /\ leases[r] \notin Gone
  <2>1. /\ leases' = [r \in Resource |->
                        IF r \in Resources[p] THEN p ELSE leases[r]]
        /\ \A r \in Resources[p] : leases[r] \in {p, None} \cup Gone
    BY DEF CanTakeover, TakeoverRecovery
  <2> HIDE DEF Gone
  <2> QED  BY <1>1, <2>1, LeasesAssigned DEF CustodyInv
<1>5. /\ attempts[a].pair = None /\ attempts[a].state = "absent"
      /\ attempts'[a].pair = p /\ attempts'[a].state = "intent"
      /\ \A b \in AttemptId : b # a => attempts'[b] = attempts[b]
  BY <1>1, <1>2 DEF StoreInv, TablesTyped, NoAttempt, Intent
<1> HIDE DEF Gone
<1>6. LeasesNeeded'
  <2> SUFFICES ASSUME NEW r \in Resource, NEW x \in Pair, leases'[r] = x
               PROVE  Unfinished(x)'
    BY DEF LeasesNeeded, Unfinished, AttemptsOf
  <2> QED  BY <1>3, <1>4 DEF CustodyInv, LeasesNeeded
<1>7. UncertaintyHoldsLeases'
  <2>1. ASSUME NEW b \in AttemptId, attempts'[b].state \in Pending,
               attempts'[b].pair \notin retired'
        PROVE  OwnsAll(attempts[b].pair)'
    <3>1. CASE b = a
      BY <1>4, <1>5, <3>1 DEF OwnsAll
    <3>2. CASE b # a
      <4>1. attempts'[b] = attempts[b] /\ attempts[b].pair \notin retired
        BY <1>2, <1>5, <2>1, <3>2
      <4>2. PICK x \in Pair \ Gone : x = attempts[b].pair
        BY <1>2, <2>1, <4>1
           DEF StoreInv, AttemptsSound, Pending, Unsettled, Uncertain
      <4>3. OwnsAll(x)'
        BY <1>4, <2>1, <4>1, <4>2 DEF CustodyInv, UncertaintyHoldsLeases
      <4> QED  BY <4>1, <4>2, <4>3 DEF OwnsAll
    <3> QED  BY <3>1, <3>2
  <2>2. \A r \in Resource : leases'[r] \notin retired'
    BY <1>1, <1>2, <1>4 DEF CustodyInv, UncertaintyHoldsLeases
  <2> QED  BY <2>1, <2>2 DEF UncertaintyHoldsLeases
<1>8. ClosedPairsQuiet'
  <2>1. \A x \in Pair : x # p => AttemptsOf(x)' = AttemptsOf(x)
    BY <1>1, <1>5 DEF AttemptsOf
  <2>2. retired' \subseteq Pair /\ \A h \in abandonments : h.pair \in Pair
    BY <1>1, <1>2 DEF StoreInv, TablesTyped, AbandonRecord
  <2>3. ASSUME NEW x \in retired'
        PROVE  ~HasDispatched(x)' /\ ~HasActiveReconciliation(x)'
    <3>1. x \in Pair /\ x # p
      BY <1>1, <1>2, <2>2, <2>3
    <3>2. ~HasDispatched(x) /\ ~HasActiveReconciliation(x)
      BY <1>1, <1>2, <2>3 DEF CustodyInv, ClosedPairsQuiet
    <3>3. a \notin AttemptsOf(x)
      BY <1>1, <1>5, <3>1 DEF AttemptsOf
    <3> QED
      BY <1>2, <1>5, <2>1, <3>1, <3>2, <3>3
         DEF HasDispatched, HasActiveReconciliation, ActiveReconciliation,
             AttemptsOf
  <2>4. ASSUME NEW h \in abandonments
        PROVE  /\ LeaseKeys(h.pair)' = {}
               /\ \A b \in AttemptsOf(h.pair)' : attempts'[b].state \notin Pending
    <3>1. h.pair # p /\ h.pair \in Pair
      BY <1>2, <2>2 DEF Halted
    <3> QED
      BY <1>4, <1>5, <2>1, <3>1
         DEF CustodyInv, ClosedPairsQuiet, LeaseKeys, AttemptsOf
  <2> QED  BY <1>2, <2>3, <2>4 DEF ClosedPairsQuiet
<1>9. InheritedLeasesHeld'
  <2> SUFFICES ASSUME NEW u \in takeovers', u.pair \notin retired',
                      Unfinished(u.pair)'
               PROVE  OwnsAll(u.pair)'
    BY DEF InheritedLeasesHeld
  <2>1. PICK x \in Pair : x = u.pair
    BY <1>1, <1>2 DEF StoreInv, TablesTyped, TakeoverRecord
  <2>2. CASE x = p
    BY <1>4, <2>1, <2>2
  <2>3. CASE x # p
    <3>1. u \in takeovers /\ x \notin retired /\ x \notin Gone
      BY <1>2, <2>1, <2>3
    <3> QED  BY <1>3, <1>4, <2>1, <3>1 DEF CustodyInv, InheritedLeasesHeld
  <2> QED  BY <2>2, <2>3
<1>10. OutcomesKept
  BY <1>5 DEF OutcomesKept, Uncertain
<1>11. LeasesKept
  <2> SUFFICES ASSUME NEW r \in Resource, leases[r] # None,
                      leases'[r] \notin {None, leases[r]}
               PROVE  /\ leases[r] \in retired'
                      /\ \E u \in takeovers' \ takeovers : u.pair = leases'[r]
    BY DEF LeasesKept
  <2>1. leases'[r] = p /\ leases[r] \in Gone
    BY <1>4
  <2> QED  BY <1>2, <2>1
<1> QED  BY <1>3, <1>4, <1>6, <1>7, <1>8, <1>9, <1>10, <1>11 DEF CustodyInv

-----------------------------------------------------------------------------
(* Every transaction is a step of Custody or leaves it alone. *)

HasUnsettled(x) == \E a \in AttemptsOf(x) : attempts[a].state \in Unsettled

\* A pair that puts what it needs in doubt.
Doubtful(x) ==
  HasUnsettled(x) \/ (RecoveryDestination(x) /\ Unfinished(x))

DoubtIsByPair ==
  \A r \in Resource :
    r \in InDoubt <=> \E x \in Pair \ retired : Doubtful(x) /\ r \in Resources[x]

\* A resource is in doubt through a pair that is not retired.
LEMMA DoubtByPair ==
  StoreInv => DoubtIsByPair
<1> SUFFICES ASSUME StoreInv, NEW r \in Resource
             PROVE  r \in InDoubt <=> \E x \in Pair \ retired :
                                        Doubtful(x) /\ r \in Resources[x]
  BY DEF DoubtIsByPair
<1>1. \A a \in AttemptId :
        attempts[a].state \in Unsettled => attempts[a].pair \in Pair
  BY DEF StoreInv, AttemptsSound, Unsettled, Uncertain
<1>2. \A t \in takeovers : t.pair \in Pair
  BY DEF StoreInv, TablesTyped, TakeoverRecord
<1> QED
  BY <1>1, <1>2
     DEF InDoubt, Doubtful, HasUnsettled, RecoveryDestination, AttemptsOf

\* The same of the state after a step.
LEMMA DoubtByPairNext ==
  StoreInv' => DoubtIsByPair'
BY DoubtByPair, PTL

\* Who puts a resource in doubt leases it.
LEMMA DoubtIsOwned ==
  ASSUME StoreInv, CustodyInv
  PROVE  \A x \in Pair \ retired : Doubtful(x) => OwnsAll(x)
<1> SUFFICES ASSUME NEW x \in Pair \ retired, Doubtful(x)
             PROVE  OwnsAll(x)
  OBVIOUS
<1>1. CASE HasUnsettled(x)
  BY <1>1 DEF HasUnsettled, AttemptsOf, CustodyInv, UncertaintyHoldsLeases,
              Pending
<1>2. CASE RecoveryDestination(x) /\ Unfinished(x)
  BY <1>2 DEF RecoveryDestination, CustodyInv, InheritedLeasesHeld
<1> QED  BY <1>1, <1>2 DEF Doubtful

\* The doubt stays where it is while the same pairs are doubtful.
LEMMA DoubtStays ==
  ASSUME StoreInv, StoreInv', retired' = retired,
         \A x \in Pair : Doubtful(x)' <=> Doubtful(x)
  PROVE  InDoubt' = InDoubt
<1>1. InDoubt \subseteq Resource /\ InDoubt' \subseteq Resource
  BY DEF InDoubt
<1>2. \A r \in Resource : r \in InDoubt' <=> r \in InDoubt
  BY DoubtByPair, DoubtByPairNext DEF DoubtIsByPair
<1> QED  BY <1>1, <1>2

\* An intent does not put anything in doubt.
LEMMA IntentIsSafe ==
  ASSUME StoreInv, NEW a \in AttemptId, NEW p \in Pair, NEW i, NEW req,
         attempts[a] = NoAttempt,
         attempts' = [attempts EXCEPT ![a] = Intent(p, i, req)]
  PROVE  \A x \in Pair : HasUnsettled(x)' <=> HasUnsettled(x)
<1>1. /\ attempts'[a].state = "intent" /\ attempts[a].state = "absent"
      /\ \A b \in AttemptId : b # a => attempts'[b] = attempts[b]
  BY DEF StoreInv, TablesTyped, NoAttempt, Intent
<1> QED  BY <1>1 DEF HasUnsettled, AttemptsOf, Unsettled, Uncertain

\* Tables that keep the leases and who is doubtful leave Custody alone.
LEMMA CustodyStutters ==
  ASSUME StoreInv, StoreInv', UNCHANGED <<leases, retired>>,
         \A x \in Pair : Doubtful(x)' <=> Doubtful(x)
  PROVE  [C!Next]_<<leases, InDoubt>>
BY DoubtStays

\* reserve acquires the resources of the pair.
LEMMA ReserveAcquires ==
  ASSUME StoreInv, StoreInv', CustodyInv,
         NEW a \in AttemptId, NEW p \in Pair, NEW i \in StepIndex, NEW req,
         i < OpCount[p], CanReserve(a, p, i, req), Reserve(a, p, i, req)
  PROVE  [C!Next]_<<leases, InDoubt>>
<1>1. /\ attempts[a] = NoAttempt
      /\ attempts' = [attempts EXCEPT ![a] = Intent(p, i, req)]
      /\ UNCHANGED <<takeovers, retired>>
      /\ leases' = [r \in Resource |->
                      IF r \in Resources[p] THEN p ELSE leases[r]]
      /\ \A r \in Resources[p] : leases[r] \in {p, None}
  BY DEF CanReserve, Reserve, LeasesFree
<1>2. \A x \in Pair : Unfinished(x)' <=> Unfinished(x)
  BY <1>1, NextInOrder, StepAdmitted DEF CanReserve, CustodyInv
<1>3. InDoubt' = InDoubt
  BY <1>1, <1>2, IntentIsSafe, DoubtStays DEF Doubtful, RecoveryDestination
<1>4. Resources[p] \in SUBSET Resource
  BY ParametersTyped
<1>5. C!Acquire(p, Resources[p])
  BY <1>1, <1>3 DEF C!Acquire, C!Assign
<1> QED  BY <1>4, <1>5 DEF C!Next

\* claim_dispatch begins to change what the pair leases.
LEMMA ClaimDispatchBegins ==
  ASSUME StoreInv, StoreInv', CustodyInv, NEW a \in AttemptId,
         CanClaimDispatch(a), ClaimDispatch(a)
  PROVE  [C!Next]_<<leases, InDoubt>>
<1> PICK p \in Pair : p = attempts[a].pair
  BY DEF CanClaimDispatch, StoreInv, AttemptsSound
<1>1. /\ attempts[a].state = "intent" /\ p \notin retired /\ OwnsAll(p)
      /\ attempts' = [attempts EXCEPT ![a].state = "dispatched"]
      /\ UNCHANGED <<leases, takeovers, retired>>
  BY DEF CanClaimDispatch, ClaimDispatch
<1>2. /\ attempts'[a].state = "dispatched" /\ attempts'[a].pair = p
      /\ \A b \in AttemptId : b # a => attempts'[b] = attempts[b]
  BY <1>1 DEF StoreInv, TablesTyped, AttemptRow
<1>3. Doubtful(p)'
  BY <1>2 DEF Doubtful, HasUnsettled, AttemptsOf, Unsettled
<1>4. \A x \in Pair : x # p => (Doubtful(x)' <=> Doubtful(x))
  BY <1>1, <1>2
     DEF Doubtful, HasUnsettled, AttemptsOf, Unfinished, RecoveryDestination
<1>5. InDoubt' = InDoubt \cup Resources[p]
  <2>1. /\ InDoubt \subseteq Resource /\ InDoubt' \subseteq Resource
        /\ Resources[p] \subseteq Resource
    BY ParametersTyped DEF InDoubt
  <2>2. \A r \in Resource : r \in InDoubt' <=> r \in InDoubt \cup Resources[p]
    BY <1>1, <1>3, <1>4, DoubtByPair, DoubtByPairNext DEF DoubtIsByPair
  <2> QED  BY <2>1, <2>2
<1>6. Resources[p] \in SUBSET Resource
  BY ParametersTyped
<1>7. C!Begin(p, Resources[p])
  BY <1>1, <1>5 DEF C!Begin, C!Held, OwnsAll
<1> QED  BY <1>6, <1>7 DEF C!Next

\* claim_reconciliation leaves the doubt as it is.
LEMMA ClaimReconciliationStutters ==
  ASSUME StoreInv, StoreInv', NEW q \in ReconcileId, NEW a \in AttemptId,
         CanClaimReconciliation(q, a), ClaimReconciliation(q, a)
  PROVE  [C!Next]_<<leases, InDoubt>>
<1>1. /\ attempts[a].state \in Uncertain
      /\ attempts' = [attempts EXCEPT ![a].state = "unknown"]
      /\ UNCHANGED <<leases, takeovers, retired>>
  BY DEF CanClaimReconciliation, Reconcilable, ClaimReconciliation
<1>2. /\ attempts'[a].state = "unknown" /\ attempts'[a].pair = attempts[a].pair
      /\ attempts'[a].index = attempts[a].index
      /\ \A b \in AttemptId : b # a => attempts'[b] = attempts[b]
  BY <1>1 DEF StoreInv, TablesTyped, AttemptRow
<1>3. \A x : AttemptsOf(x)' = AttemptsOf(x)
  BY <1>2 DEF AttemptsOf
<1>4. \A x \in Pair : Doubtful(x)' <=> Doubtful(x)
  BY <1>1, <1>2, <1>3
     DEF Doubtful, HasUnsettled, Unfinished, RecoveryDestination, Unsettled,
         Uncertain, AttemptsOf
<1> QED  BY <1>1, <1>4, CustodyStutters

\* recover_interrupted_dispatches gives the doubt another name.
LEMMA RecoverInterruptedDispatchesStutters ==
  ASSUME StoreInv, StoreInv', RecoverInterruptedDispatches
  PROVE  [C!Next]_<<leases, InDoubt>>
<1>1. /\ \A b \in AttemptId :
           /\ attempts'[b].pair = attempts[b].pair
           /\ attempts'[b].index = attempts[b].index
           /\ \/ attempts'[b].state = attempts[b].state
              \/ /\ attempts[b].state = "dispatched"
                 /\ attempts'[b].state = "unknown"
      /\ UNCHANGED <<leases, takeovers, retired>>
  BY InterruptedRows
     DEF StoreInv, TablesTyped, RecoverInterruptedDispatches
<1>2. \A x : AttemptsOf(x)' = AttemptsOf(x)
  BY <1>1 DEF AttemptsOf
<1>3. \A x \in Pair : Doubtful(x)' <=> Doubtful(x)
  BY <1>1, <1>2
     DEF Doubtful, HasUnsettled, Unfinished, RecoveryDestination, Unsettled,
         Uncertain, AttemptsOf
<1> QED  BY <1>1, <1>3, CustodyStutters

\* An outcome resolves the doubt of its pair, or leaves it.
LEMMA SettlesResolves ==
  ASSUME StoreInv, StoreInv', CustodyInv,
         NEW a \in AttemptId, NEW frees \in BOOLEAN, Settles(a, frees)
  PROVE  [C!Next]_<<leases, InDoubt>>
<1> PICK p \in Pair : p = attempts[a].pair
  BY DEF Settles, StoreInv, AttemptsSound
<1>1. /\ p \notin retired
      /\ attempts[a].state \in Unsettled
      /\ \A b \in AttemptId : b # a => attempts'[b] = attempts[b]
      /\ attempts'[a].pair = p /\ a \in AttemptsOf(p)
      /\ UNCHANGED <<takeovers, retired>>
  BY DEF Settles, AttemptsOf, Unsettled, Uncertain
<1>2. /\ \A x \in Pair : x # p => (Unfinished(x)' <=> Unfinished(x))
      /\ Unfinished(p)' <=> ~(/\ attempts'[a].state = "completed"
                              /\ attempts[a].index + 1 = OpCount[p])
      /\ \A b \in AttemptsOf(p) : b # a => attempts'[b].state = "completed"
  BY SettledPlan DEF CustodyInv
<1>3. \A x : AttemptsOf(x)' = AttemptsOf(x)
  BY <1>1 DEF AttemptsOf
<1>4. \A x \in Pair : x # p => (Doubtful(x)' <=> Doubtful(x))
  BY <1>1, <1>2, <1>3
     DEF Doubtful, HasUnsettled, RecoveryDestination, AttemptsOf
<1>5. Doubtful(p) /\ OwnsAll(p)
  BY <1>1, DoubtIsOwned DEF Doubtful, HasUnsettled
<1>6. HasUnsettled(p)' <=> attempts'[a].state \in Unsettled
  BY <1>1, <1>2, <1>3 DEF HasUnsettled, Unsettled, Uncertain
<1>7. Resources[p] \in SUBSET Resource
  BY ParametersTyped
<1>8. CASE Doubtful(p)'
  <2>1. ~frees
    BY <1>1, <1>2, <1>6, <1>8
       DEF Settles, Doubtful, RecoveryDestination, Unsettled, Uncertain
  <2>2. leases' = leases
    BY <2>1 DEF Settles
  <2> QED  BY <1>1, <1>4, <1>5, <1>8, <2>2, CustodyStutters
<1>9. CASE ~Doubtful(p)'
  <2>1. \A x \in Pair \ retired :
          Doubtful(x) /\ x # p => Resources[x] \cap Resources[p] = {}
    BY <1>5, DoubtIsOwned DEF OwnsAll
  <2>2. InDoubt' = InDoubt \ Resources[p]
    <3>1. InDoubt \subseteq Resource /\ InDoubt' \subseteq Resource
      BY DEF InDoubt
    <3>2. \A r \in Resource :
            r \in InDoubt' <=> r \in InDoubt /\ r \notin Resources[p]
      BY <1>1, <1>4, <1>9, <2>1, DoubtByPair, DoubtByPairNext
         DEF DoubtIsByPair
    <3> QED  BY <3>1, <3>2
  <2>3. \/ leases' = leases
        \/ leases' = [r \in Resource |->
                        IF r \in Resources[p] THEN None ELSE leases[r]]
    BY <1>5, <1>7 DEF Settles, Released, OwnsAll
  <2>4. C!Resolve(p, Resources[p])
    BY <1>5, <2>2, <2>3 DEF C!Resolve, C!Held, C!Assign, OwnsAll
  <2> QED  BY <1>7, <2>4 DEF C!Next
<1> QED  BY <1>8, <1>9

\* abandon_halted_run gives back what is not in doubt.
LEMMA AbandonHaltedRunGivesBack ==
  ASSUME StoreInv, StoreInv', CustodyInv, NEW h \in AbandonRecord, NEW keys,
         CanAbandon(h, keys), AbandonHaltedRun(h)
  PROVE  [C!Next]_<<leases, InDoubt>>
<1> DEFINE p == h.pair
<1>1. /\ p \in Pair
      /\ \A a \in AttemptsOf(p) : attempts[a].state \notin Unsettled
      /\ ~RecoveryDestination(p)
      /\ leases' = [r \in Resource |->
                      IF leases[r] = p THEN None ELSE leases[r]]
      /\ UNCHANGED <<takeovers, retired>>
  BY DEF AbandonRecord, CanAbandon, Abandonable, AbandonHaltedRun
<1>2. \A a \in AttemptId :
        /\ attempts'[a].pair = attempts[a].pair
        /\ attempts'[a].index = attempts[a].index
        /\ \/ attempts'[a].state = attempts[a].state
           \/ attempts[a].state = "intent" /\ attempts'[a].state = "rejected"
  BY AbandonedRows DEF StoreInv, TablesTyped
<1>3. \A x : AttemptsOf(x)' = AttemptsOf(x)
  BY <1>2 DEF AttemptsOf
<1>4. \A x \in Pair : Doubtful(x)' <=> Doubtful(x)
  BY <1>1, <1>2, <1>3
     DEF Doubtful, HasUnsettled, Unfinished, RecoveryDestination, Unsettled,
         Uncertain, AttemptsOf
<1>5. InDoubt' = InDoubt
  BY <1>1, <1>4, DoubtStays
<1>6. LeaseKeys(p) \cap InDoubt = {}
  <2>1. ~Doubtful(p)
    BY <1>1 DEF Doubtful, HasUnsettled
  <2>2. ASSUME NEW r \in Resource, r \in InDoubt
        PROVE  leases[r] # p
    <3>1. PICK x \in Pair \ retired : Doubtful(x) /\ r \in Resources[x]
      BY <2>2, DoubtByPair DEF DoubtIsByPair
    <3> QED  BY <2>1, <3>1, DoubtIsOwned DEF OwnsAll
  <2> QED  BY <2>2 DEF LeaseKeys
<1>7. LeaseKeys(p) \in SUBSET Resource
  BY DEF LeaseKeys
<1>8. C!GiveBack(p, LeaseKeys(p))
  BY <1>1, <1>5, <1>6 DEF C!GiveBack, C!Held, C!Assign, LeaseKeys
<1> QED  BY <1>1, <1>7, <1>8 DEF C!Next

\* takeover_recovery hands the doubt over with the leases.
LEMMA TakeoverRecoveryHandsOver ==
  ASSUME StoreInv, StoreInv', CustodyInv, NEW t \in TakeoverRecord,
         CanTakeover(t), TakeoverRecovery(t)
  PROVE  [C!Next]_<<leases, InDoubt>>
<1> DEFINE p == t.pair
           S == Resources[p]
           Gone == SourcePairs(t)
<1>1. /\ p \in Pair /\ t.first \in AttemptId /\ AttemptsOf(p) = {}
      /\ Gone \in SUBSET Pair /\ p \notin Gone
      /\ \A x \in Gone : Resources[x] = S
  BY TakeoverFacts
<1>2. /\ attempts[t.first] = NoAttempt
      /\ attempts' = [attempts EXCEPT ![t.first] = Intent(p, 0, t.request)]
      /\ retired' = retired \cup Gone /\ takeovers' = takeovers \cup {t}
      /\ p \notin retired
      /\ leases' = [r \in Resource |-> IF r \in S THEN p ELSE leases[r]]
      /\ \A r \in S : leases[r] \in Gone
  BY DEF CanTakeover, TakeoverRecovery
<1>3. PICK from \in Gone :
        /\ OwnsAll(from) /\ Unfinished(from) /\ from \notin retired
        /\ Doubtful(from)
  <2>1. PICK r \in Resource : r \in S
    BY <1>1, ParametersTyped
  <2>2. PICK from \in Gone : leases[r] = from
    BY <1>2, <2>1
  <2>3. /\ from \in Pair /\ OwnsAll(from) /\ Unfinished(from)
        /\ from \notin retired
    BY <1>1, <2>2
       DEF CustodyInv, LeasesWhole, LeasesNeeded, UncertaintyHoldsLeases
  <2>4. PICK s \in t.unresolved : from = attempts[s].pair
    BY DEF SourcePairs
  <2>5. s \in AttemptId /\ IsSource(s, p)
    BY DEF CanTakeover, TakeoverRecord
  <2>6. Doubtful(from)
    BY <2>3, <2>4, <2>5
       DEF IsSource, Doubtful, HasUnsettled, AttemptsOf, Unsettled
  <2> QED  BY <2>3, <2>6
<1>4. /\ Unfinished(p)'
      /\ \A x \in Pair : Unfinished(x)' <=> Unfinished(x)
  <2>1. 0 \in StepIndex /\ 0 < OpCount[p]
    BY <1>1, ParametersTyped DEF StepIndex
  <2>2. /\ \A b \in AttemptsOf(p) : /\ attempts[b].state = "completed"
                                    /\ attempts[b].index < 0
        /\ \A j \in 0..(0 - 1) : \E b \in AttemptsOf(p) : attempts[b].index = j
    BY <1>1
  <2> QED  BY <1>1, <1>2, <2>1, <2>2, StepAdmitted DEF CustodyInv
<1>5. \A x \in Pair : HasUnsettled(x)' <=> HasUnsettled(x)
  BY <1>1, <1>2, IntentIsSafe
<1>6. /\ Doubtful(p)'
      /\ \A x \in Pair : x # p => (Doubtful(x)' <=> Doubtful(x))
  BY <1>2, <1>4, <1>5 DEF Doubtful, RecoveryDestination
<1>7. S \in SUBSET Resource
  BY <1>1, ParametersTyped
<1>8. S \subseteq InDoubt
  BY <1>1, <1>3, <1>7, DoubtByPair DEF DoubtIsByPair
<1>9. InDoubt' = InDoubt
  <2>1. InDoubt \subseteq Resource /\ InDoubt' \subseteq Resource
    BY DEF InDoubt
  <2>2. p \in Pair \ retired' /\ retired \subseteq retired'
    BY <1>1, <1>2
  <2>3. ASSUME NEW r \in Resource, r \in InDoubt'
        PROVE  r \in InDoubt
    <3>1. PICK x \in Pair \ retired' : Doubtful(x)' /\ r \in Resources[x]
      BY <2>3, DoubtByPairNext DEF DoubtIsByPair
    <3>2. CASE x = p
      BY <1>8, <3>1, <3>2
    <3>3. CASE x # p
      BY <1>6, <2>2, <3>1, <3>3, DoubtByPair DEF DoubtIsByPair
    <3> QED  BY <3>2, <3>3
  <2>4. ASSUME NEW r \in Resource, r \in InDoubt
        PROVE  r \in InDoubt'
    <3>1. PICK x \in Pair \ retired : Doubtful(x) /\ r \in Resources[x]
      BY <2>4, DoubtByPair DEF DoubtIsByPair
    <3>2. CASE r \in S
      BY <1>6, <2>2, <3>2, DoubtByPairNext DEF DoubtIsByPair
    <3>3. CASE r \notin S
      <4>1. x # p /\ x \notin Gone
        BY <1>1, <3>1, <3>3
      <4> QED
        BY <1>2, <1>6, <3>1, <4>1, DoubtByPairNext DEF DoubtIsByPair
    <3> QED  BY <3>2, <3>3
  <2> QED  BY <2>1, <2>3, <2>4
<1>10. C!HandOver(from, p, S)
  BY <1>1, <1>2, <1>3, <1>8, <1>9
     DEF C!HandOver, C!Held, C!Assign, OwnsAll
<1> QED  BY <1>1, <1>3, <1>7, <1>10 DEF C!Next

-----------------------------------------------------------------------------
(* The workers: type correctness. *)

OnRun == {"submit", "claim", "drive", "record", "advance", "save"}

\* A task has read what its next call needs, and the step it is at is one of
\* its run.
TaskSound(t, rs, as) ==
  /\ t.pc \in OnRun \cup {"create", "scan", "abandon"} => t.run \in RunId
  /\ t.pc \in OnRun \cup {"create", "abandon"} => t.pair \in Pair
  /\ t.pc \in OnRun \cup {"create", "reconcile", "finish"} =>
       t.attempt \in AttemptId
  /\ t.pc = "create" => t.attempt \in FirstId
  /\ t.pc = "record" => t.outcome \in Receipt
  /\ t.pc \in {"scan", "save"} => rs[t.run] # NoRun
  /\ t.pc \in OnRun /\ t.index # 0 =>
       rs[t.run] # NoRun /\ t.index < OpCount[rs[t.run].pair]
  /\ t.pc \in {"reconcile", "finish"} =>
       t.request \in ReconcileId /\ as[t.attempt].pair \in Pair
  /\ t.pc = "finish" => t.outcome \in {"completed", "unknown", "failed"}
  /\ t.pc = "abandon" => t.request \in AbandonId

TasksSound == \A w \in Worker : TaskSound(task[w], runs, attempts)

\* The inductive form of type correctness.
TypeInv ==
  /\ StoreInv
  /\ task \in [Worker -> Task]
  /\ driven \in [AttemptId -> Nat]
  /\ configured \in [ReconcileId -> Nat]
  /\ restarts \in 0..MaxRestarts
  /\ TasksSound

Executes(w) == task[w].pc \in {"drive", "record"}

\* Whoever executes an attempt has dispatched it, alone, and what was never
\* dispatched was never driven.
ExecutionInv ==
  /\ \A w \in Worker :
       Executes(w) => attempts[task[w].attempt].state = "dispatched"
  /\ \A v, w \in Worker :
       Executes(v) /\ Executes(w) /\ task[v].attempt = task[w].attempt => v = w
  /\ \A w \in Worker : task[w].pc = "drive" => driven[task[w].attempt] = 0
  /\ \A a \in AttemptId :
       /\ attempts[a].state \in {"absent", "intent"} => driven[a] = 0
       /\ driven[a] <= 1

Inv == TypeInv /\ ExecutionInv

-----------------------------------------------------------------------------
(* Facts shared by the actions. *)

\* The state a worker becomes is a sound one.
Continues(w) ==
  \E next \in Task : Becomes(w, next) /\ TaskSound(next, runs', attempts')

\* An idle task is sound in every state of the tables.
LEMMA IdleSound ==
  Idle \in Task /\ \A rs, as : TaskSound(Idle, rs, as)
BY ParametersTyped DEF Idle, Task, Pc, TaskSound, OnRun, StepIndex

\* Rows are never taken from a task that read them.
LEMMA SoundKept ==
  ASSUME TypeInv, RowsKept, NEW t \in Task, TaskSound(t, runs, attempts)
  PROVE  TaskSound(t, runs', attempts')
BY DEF TypeInv, RowsKept, TaskSound, OnRun

\* A step of one worker over a committed transaction.
LEMMA TypeInvStep ==
  ASSUME TypeInv, NEW w \in Worker, Continues(w), StoreInv', RowsKept,
         driven' \in [AttemptId -> Nat], configured' \in [ReconcileId -> Nat],
         UNCHANGED restarts
  PROVE  TypeInv'
<1>1. PICK next \in Task : /\ task' = [task EXCEPT ![w] = next]
                           /\ TaskSound(next, runs', attempts')
  BY DEF Continues, Becomes
<1>2. \A v \in Worker : TaskSound(task[v], runs', attempts')
  BY SoundKept DEF TypeInv, TasksSound
<1>3. TasksSound'
  BY <1>1, <1>2 DEF TypeInv, TasksSound
<1> QED  BY <1>1, <1>3 DEF TypeInv

\* Tables that stay as they are keep their invariant and their rows.
LEMMA TablesUnchanged ==
  ASSUME StoreInv, UNCHANGED tables
  PROVE  StoreInv' /\ RowsKept
BY DEF tables, StoreInv, TablesTyped, AttemptsSound, RunsSound, ReconsSound,
       Claimed, RowsKept

\* Tables of which only the runs change keep their invariant when the runs do.
LEMMA OnlyRunsChange ==
  ASSUME StoreInv, runs' \in [RunId -> RunRow], RunsSound',
         UNCHANGED <<attempts, leases, grants, recons, takeovers, retired,
                     abandonments>>
  PROVE  StoreInv'
BY DEF StoreInv, TablesTyped, AttemptsSound, ReconsSound, Claimed

\* A call that is refused ends the task.
LEMMA GivesUpSound ==
  ASSUME TypeInv, NEW w \in Worker, GivesUp(w)
  PROVE  StoreInv' /\ RowsKept /\ Continues(w)
BY IdleSound, TablesUnchanged DEF TypeInv, GivesUp, Continues

\* A submission and the ticket it yields are at a step of their run.
LEMMA TicketSound ==
  ASSUME NEW r \in RunId, NEW p \in Pair, NEW i \in StepIndex,
         NEW a \in AttemptId, NEW rs, NEW as,
         i = 0 \/ (rs[r] # NoRun /\ i < OpCount[rs[r].pair])
  PROVE  /\ Ticket(r, p, i, a) \in Task
         /\ TaskSound(Ticket(r, p, i, a), rs, as)
         /\ Submission(r, p, i, a) \in Task
         /\ TaskSound(Submission(r, p, i, a), rs, as)
         /\ Ticket(r, p, i, a).pc = "claim"
         /\ Submission(r, p, i, a).pc = "submit"
BY IdleSound, NoneIsNoValue
   DEF Ticket, Submission, Idle, Task, Pc, TaskSound, OnRun

-----------------------------------------------------------------------------
(* Every action preserves TypeInv and the rows. *)

\* admit_plan: the new submission is at the first step of its run.
LEMMA AdmitPlanTyped ==
  ASSUME TypeInv, NEW w \in Worker, NEW adm \in Admissions, AdmitPlan(w, adm)
  PROVE  TypeInv' /\ RowsKept
<1> DEFINE next == [Submission(adm.run, adm.pair, 0, adm.first)
                      EXCEPT !.pc = "create"]
<1>1. /\ adm.run \in RunId /\ adm.pair \in Pair /\ adm.first \in FirstId
      /\ adm.first \in AttemptId
  BY RequestsTyped DEF AttemptId
<1>2. next \in Task /\ \A rs, as : TaskSound(next, rs, as)
  BY <1>1, IdleSound
     DEF Submission, Ticket, Idle, Task, Pc, TaskSound, OnRun
<1>3. StoreInv' /\ RowsKept
  BY TablesUnchanged DEF TypeInv, AdmitPlan
<1>4. Continues(w)
  BY <1>2 DEF AdmitPlan, Continues
<1> QED  BY <1>3, <1>4, TypeInvStep DEF TypeInv, AdmitPlan, world

\* create_run: an inserted run fits the submission that inserted it.
LEMMA CreateRunTyped ==
  ASSUME TypeInv, NEW w \in Worker, CreateRun(w)
  PROVE  TypeInv' /\ RowsKept
<1> DEFINE t == task[w]
<1>1. /\ t \in Task /\ t.run \in RunId /\ t.pair \in Pair /\ t.attempt \in FirstId
      /\ t.attempt \in AttemptId
  BY DEF TypeInv, TasksSound, TaskSound, CreateRun, OnRun, Task
<1>2. StoreInv' /\ RowsKept /\ Continues(w)
  <2>1. CASE GivesUp(w)
    BY <2>1, GivesUpSound
  <2>2. CASE ~GivesUp(w)
    <3>1. runs' = RunsAfterCreate(t.run, t.pair, t.attempt)
      BY <2>2 DEF CreateRun
    <3>2. /\ runs' \in [RunId -> RunRow]
          /\ \A o \in RunId :
               \/ runs'[o] = runs[o]
               \/ /\ runs[o] = NoRun
                  /\ runs'[o].pair = t.pair
                  /\ runs'[o].first = t.attempt
      BY <1>1, <3>1, RunsUpdated DEF TypeInv
    <3>3. RunsSound'
      BY <1>1, <3>2 DEF TypeInv, StoreInv, RunsSound
    <3>4. StoreInv'
      BY <2>2, <3>2, <3>3, OnlyRunsChange DEF TypeInv, CreateRun
    <3>5. RowsKept
      BY <2>2, <3>2 DEF RowsKept, CreateRun
    <3>6. 0 \in StepIndex
      BY ParametersTyped DEF StepIndex
    <3>7. /\ Submission(t.run, t.pair, 0, t.attempt) \in Task
          /\ TaskSound(Submission(t.run, t.pair, 0, t.attempt),
                       runs', attempts')
      BY <1>1, <3>6, TicketSound
    <3> QED  BY <2>2, <3>4, <3>5, <3>7 DEF CreateRun, Continues
  <2> QED  BY <2>1, <2>2
<1> QED  BY <1>2, TypeInvStep DEF TypeInv, CreateRun, world

\* submit: a reserved step is a new row, and the ticket holds it.
LEMMA SubmitTyped ==
  ASSUME TypeInv, NEW w \in Worker, Submit(w)
  PROVE  TypeInv' /\ RowsKept
<1> DEFINE t == task[w]
           req == StepRequest(t.run, t.index)
<1>1. /\ t \in Task /\ t.run \in RunId /\ t.pair \in Pair
      /\ t.attempt \in AttemptId /\ t.index \in StepIndex
      /\ t.index = 0 \/ (runs[t.run] # NoRun
                         /\ t.index < OpCount[runs[t.run].pair])
  BY DEF TypeInv, TasksSound, TaskSound, Submit, OnRun, Task
<1>2. req \in RequestId \cup {None}
  BY <1>1, ParametersTyped
     DEF TypeInv, StoreInv, TablesTyped, RunRow, StepRequest, RequestId,
         StepIndex
<1>3. StoreInv' /\ RowsKept
  <2>1. CASE /\ CanReserve(t.attempt, t.pair, t.index, req)
             /\ Reserve(t.attempt, t.pair, t.index, req)
    BY <1>1, <1>2, <2>1, ReserveSound DEF TypeInv
  <2>2. CASE UNCHANGED tables
    BY <2>2, TablesUnchanged DEF TypeInv
  <2> QED  BY <2>1, <2>2 DEF Submit, GivesUp
<1>4. TaskSound(t, runs', attempts')
  BY <1>3, SoundKept DEF TypeInv, TasksSound
<1>5. Continues(w)
  <2>1. \/ t.index = 0
        \/ runs'[t.run] # NoRun /\ t.index < OpCount[runs'[t.run].pair]
    BY <1>1, <1>4 DEF TaskSound, Submit, OnRun
  <2>2. /\ Ticket(t.run, t.pair, t.index, t.attempt) \in Task
        /\ TaskSound(Ticket(t.run, t.pair, t.index, t.attempt),
                     runs', attempts')
    BY <1>1, <2>1, TicketSound
  <2> QED  BY <2>2, IdleSound DEF Submit, GivesUp, Continues
<1> QED  BY <1>3, <1>5, TypeInvStep DEF TypeInv, Submit, world

\* claim_dispatch: only the state of an intent moves.
LEMMA DispatchTyped ==
  ASSUME TypeInv, NEW w \in Worker, Dispatch(w)
  PROVE  TypeInv' /\ RowsKept
<1> DEFINE t == task[w]
<1>1. t \in Task /\ t.attempt \in AttemptId /\ TaskSound(t, runs, attempts)
  BY DEF TypeInv, TasksSound, TaskSound, Dispatch, OnRun
<1>2. StoreInv' /\ RowsKept /\ Continues(w)
  <2>1. CASE CanClaimDispatch(t.attempt)
    <3>1. ClaimDispatch(t.attempt) /\ Becomes(w, [t EXCEPT !.pc = "drive"])
      BY <2>1 DEF Dispatch
    <3>2. StoreInv' /\ RowsKept
      BY <1>1, <2>1, <3>1, ClaimDispatchSound DEF TypeInv
    <3>3. TaskSound(t, runs', attempts')
      BY <1>1, <3>2, SoundKept
    <3>4. /\ [t EXCEPT !.pc = "drive"] \in Task
          /\ TaskSound([t EXCEPT !.pc = "drive"], runs', attempts')
      BY <1>1, <3>3 DEF Dispatch, Task, Pc, TaskSound, OnRun
    <3> QED  BY <3>1, <3>2, <3>4 DEF Continues
  <2>2. CASE ~CanClaimDispatch(t.attempt)
    BY <2>2, GivesUpSound DEF Dispatch
  <2> QED  BY <2>1, <2>2
<1> QED  BY <1>2, TypeInvStep DEF TypeInv, Dispatch, world

\* The backend call: the journal stays as it is.
LEMMA DriveTyped ==
  ASSUME TypeInv, NEW w \in Worker, Drive(w)
  PROVE  TypeInv' /\ RowsKept
<1> DEFINE t == task[w]
<1>1. t \in Task /\ t.attempt \in AttemptId /\ TaskSound(t, runs, attempts)
  BY DEF TypeInv, TasksSound, TaskSound, Drive, OnRun
<1>2. StoreInv' /\ RowsKept
  BY TablesUnchanged DEF TypeInv, Drive
<1>3. Continues(w)
  <2>1. PICK receipt \in Receipt :
          Becomes(w, [t EXCEPT !.pc = "record", !.outcome = receipt])
    BY DEF Drive
  <2> DEFINE next == [t EXCEPT !.pc = "record", !.outcome = receipt]
  <2>2. TaskSound(t, runs', attempts')
    BY <1>1, <1>2, SoundKept
  <2>3. next \in Task /\ TaskSound(next, runs', attempts')
    BY <1>1, <2>2 DEF Drive, Task, Pc, TaskSound, OnRun
  <2> QED  BY <2>1, <2>3 DEF Continues
<1>4. driven' \in [AttemptId -> Nat]
  BY DEF TypeInv, Drive
<1> QED  BY <1>2, <1>3, <1>4, TypeInvStep DEF TypeInv, Drive

\* record_receipt: the row gets its first receipt.
LEMMA RecordTyped ==
  ASSUME TypeInv, NEW w \in Worker, Record(w)
  PROVE  TypeInv' /\ RowsKept
<1> DEFINE t == task[w]
           release == Releases(t.attempt, t.outcome)
<1>1. /\ t \in Task /\ t.attempt \in AttemptId /\ t.outcome \in Receipt
      /\ TaskSound(t, runs, attempts)
  BY DEF TypeInv, TasksSound, TaskSound, Record, OnRun
<1>2. StoreInv' /\ RowsKept /\ Continues(w)
  <2>1. CASE attempts[t.attempt].state = "dispatched"
    <3>1. RecordReceipt(t.attempt, t.outcome, release)
      BY <2>1 DEF Record
    <3>2. release \in BOOLEAN
      BY DEF Releases
    <3>3. StoreInv' /\ RowsKept
      BY <1>1, <2>1, <3>1, <3>2, RecordReceiptSound DEF TypeInv
    <3> DEFINE next == [t EXCEPT !.pc = "advance", !.outcome = None]
    <3>4. TaskSound(t, runs', attempts')
      BY <1>1, <3>3, SoundKept
    <3>5. next \in Task /\ TaskSound(next, runs', attempts')
      BY <1>1, <3>4 DEF Record, Task, Pc, TaskSound, OnRun
    <3> QED  BY <2>1, <3>3, <3>5, IdleSound DEF Record, Continues
  <2>2. CASE attempts[t.attempt].state # "dispatched"
    BY <2>2, GivesUpSound DEF Record
  <2> QED  BY <2>1, <2>2
<1> QED  BY <1>2, TypeInvStep DEF TypeInv, Record, world

\* advance_run, the read: the cursor it saw is at the step of the task.
LEMMA AdvanceRunTyped ==
  ASSUME TypeInv, NEW w \in Worker, AdvanceRun(w)
  PROVE  TypeInv' /\ RowsKept
<1> DEFINE t == task[w]
           next == [t EXCEPT !.pc = "save"]
<1>1. t \in Task /\ TaskSound(t, runs, attempts)
  BY DEF TypeInv, TasksSound
<1>2. StoreInv' /\ RowsKept
  BY TablesUnchanged DEF TypeInv, AdvanceRun, GivesUp
<1>3. TaskSound(t, runs', attempts')
  BY <1>1, <1>2, SoundKept
<1>4. CASE runs[t.run] # NoRun /\ runs[t.run].cursor = t.index
  <2>1. t.run \in RunId
    BY <1>1 DEF AdvanceRun, TaskSound, OnRun
  <2>2. next \in Task /\ TaskSound(next, runs', attempts')
    BY <1>1, <1>2, <1>3, <1>4, <2>1
       DEF AdvanceRun, Task, Pc, TaskSound, OnRun, RowsKept
  <2>3. Continues(w)
    BY <1>4, <2>2 DEF AdvanceRun, Continues
  <2> QED  BY <1>2, <2>3, TypeInvStep DEF TypeInv, AdvanceRun, world
<1>5. CASE ~(runs[t.run] # NoRun /\ runs[t.run].cursor = t.index)
  BY <1>2, <1>5, GivesUpSound, TypeInvStep DEF TypeInv, AdvanceRun, world
<1> QED  BY <1>4, <1>5

\* advance_run, the write: the cursor stays within the plan.
LEMMA SaveRunTyped ==
  ASSUME TypeInv, NEW w \in Worker, SaveRun(w)
  PROVE  TypeInv' /\ RowsKept
<1> DEFINE t == task[w]
           i == t.index + 1
           p == runs[t.run].pair
           next == Submission(t.run, t.pair, i, StepAttempt(t.run, i))
<1>1. /\ t \in Task /\ t.run \in RunId /\ t.pair \in Pair
      /\ t.index \in StepIndex /\ runs[t.run] # NoRun
      /\ t.index = 0 \/ t.index < OpCount[p]
  BY DEF TypeInv, TasksSound, TaskSound, SaveRun, OnRun, Task
<1>2. /\ p \in Pair /\ OpCount[p] \in 1..MaxOps /\ MaxOps \in Nat
      /\ i \in 1..MaxOps
  BY <1>1, ParametersTyped DEF TypeInv, StoreInv, RunsSound, StepIndex
<1>3. runs' = [runs EXCEPT ![t.run].cursor = i]
  BY DEF SaveRun
<1>4. /\ runs' \in [RunId -> RunRow]
      /\ \A r \in RunId : /\ runs'[r].pair = runs[r].pair
                         /\ runs'[r].first = runs[r].first
  BY <1>1, <1>2, <1>3 DEF TypeInv, StoreInv, TablesTyped, RunRow
<1>5. runs'[t.run] # NoRun /\ RunsSound' /\ RowsKept
  <2>1. \A r \in RunId : runs[r] # NoRun => runs'[r] # NoRun
    BY <1>4, NoneIsNoValue DEF TypeInv, StoreInv, RunsSound, NoRun
  <2>2. \A r \in RunId : r # t.run => runs'[r] = runs[r]
    BY <1>3 DEF TypeInv, StoreInv, TablesTyped
  <2> QED
    BY <1>1, <1>4, <2>1, <2>2
       DEF TypeInv, StoreInv, RunsSound, RowsKept, SaveRun
<1>6. StoreInv'
  BY <1>4, <1>5, OnlyRunsChange DEF TypeInv, SaveRun
<1>7. Continues(w)
  <2>1. CASE LastStep(p, t.index)
    BY <2>1, IdleSound DEF SaveRun, Continues
  <2>2. CASE ~LastStep(p, t.index)
    <3>1. i < OpCount[p] /\ i \in StepIndex
      BY <1>1, <1>2, <2>2 DEF LastStep, StepIndex
    <3>2. StepAttempt(t.run, i) \in AttemptId
      BY <1>1, <1>2, <3>1 DEF StepAttempt, StepIndex, AttemptId
    <3>3. next \in Task /\ TaskSound(next, runs', attempts')
      BY <1>1, <1>4, <1>5, <3>1, <3>2, TicketSound
    <3> QED  BY <2>2, <3>3 DEF SaveRun, Continues
  <2> QED  BY <2>1, <2>2
<1> QED  BY <1>5, <1>6, <1>7, TypeInvStep DEF TypeInv, SaveRun, world

\* resume_plan: a repaired cursor stays within the plan.
LEMMA ResumePlanTyped ==
  ASSUME TypeInv, NEW w \in Worker, NEW r \in RunId, ResumePlan(w, r)
  PROVE  TypeInv' /\ RowsKept
<1>1. runs[r] # NoRun /\ runs' = RunsAfterRepair(r)
  BY DEF ResumePlan
<1>2. /\ runs' \in [RunId -> RunRow]
      /\ \A o \in RunId : /\ runs'[o].pair = runs[o].pair
                         /\ runs'[o].first = runs[o].first
  BY <1>1, RunsUpdated DEF TypeInv
<1>3. \A o \in RunId : o # r => runs'[o] = runs[o]
  BY <1>1 DEF RunsAfterRepair, TypeInv, StoreInv, TablesTyped
<1>4. \A o \in RunId : runs[o] # NoRun => runs'[o] # NoRun
  BY <1>2, NoneIsNoValue DEF TypeInv, StoreInv, RunsSound, NoRun
<1>5. RunsSound' /\ RowsKept
  BY <1>1, <1>2, <1>3, <1>4
     DEF TypeInv, StoreInv, RunsSound, RowsKept, ResumePlan
<1>6. StoreInv'
  BY <1>2, <1>5, OnlyRunsChange DEF TypeInv, ResumePlan
<1>7. Continues(w)
  <2> DEFINE next == [Idle EXCEPT !.pc = "scan", !.run = r]
  <2>1. next \in Task /\ TaskSound(next, runs', attempts')
    BY <1>1, <1>4, IdleSound DEF Idle, Task, Pc, TaskSound, OnRun
  <2> QED  BY <2>1, IdleSound DEF ResumePlan, Continues
<1> QED  BY <1>5, <1>6, <1>7, TypeInvStep DEF TypeInv, ResumePlan, world

\* resume_plan: the step to go on with is a step of the run.
LEMMA ScanStepsTyped ==
  ASSUME TypeInv, NEW w \in Worker, ScanSteps(w)
  PROVE  TypeInv' /\ RowsKept
<1> DEFINE r == task[w].run
           p == runs[r].pair
           n == CompletedPrefix(r)
           a == StepAttempt(r, n)
<1>1. r \in RunId /\ runs[r] # NoRun
  BY DEF TypeInv, TasksSound, TaskSound, ScanSteps
<1>2. /\ p \in Pair /\ runs[r].first \in AttemptId
      /\ OpCount[p] \in 1..MaxOps /\ MaxOps \in Nat
  BY <1>1, ParametersTyped DEF TypeInv, StoreInv, RunsSound, AttemptId
<1>3. n \in 0..OpCount[p]
  BY <1>1, CompletedPrefixExists DEF TypeInv
<1>4. StoreInv' /\ RowsKept
  BY TablesUnchanged DEF TypeInv, ScanSteps
<1>5. Continues(w)
  <2>1. CASE n = OpCount[p]
    BY <2>1, IdleSound DEF ScanSteps, Continues
  <2>2. CASE n # OpCount[p]
    <3>1. n \in StepIndex /\ n < OpCount[p]
      BY <1>2, <1>3, <2>2 DEF StepIndex
    <3>2. a \in AttemptId
      BY <1>1, <1>2, <3>1 DEF StepAttempt, StepIndex, AttemptId
    <3> HIDE DEF n, a
    <3>3. /\ Ticket(r, p, n, a) \in Task
          /\ TaskSound(Ticket(r, p, n, a), runs, attempts)
          /\ Submission(r, p, n, a) \in Task
          /\ TaskSound(Submission(r, p, n, a), runs, attempts)
      BY <1>1, <1>2, <3>1, <3>2, TicketSound
    <3>4. runs' = runs /\ attempts' = attempts
      BY DEF ScanSteps, tables
    <3>5. \/ Becomes(w, Idle)
          \/ Becomes(w, Ticket(r, p, n, a))
          \/ Becomes(w, Submission(r, p, n, a))
      BY <2>2 DEF ScanSteps, n, a
    <3> QED  BY <3>3, <3>4, <3>5, IdleSound DEF Continues
  <2> QED  BY <2>1, <2>2
<1> QED  BY <1>4, <1>5, TypeInvStep DEF TypeInv, ScanSteps, world

\* claim_reconciliation: the claimed attempt has become unknown.
LEMMA ClaimReconTyped ==
  ASSUME TypeInv, NEW w \in Worker, NEW rec \in Reconciliations,
         ClaimRecon(w, rec)
  PROVE  TypeInv' /\ RowsKept
<1> DEFINE next == [Idle EXCEPT !.pc = "reconcile", !.request = rec.request,
                                !.attempt = rec.attempt]
<1>1. rec.request \in ReconcileId /\ rec.attempt \in AttemptId
  BY RequestsTyped
<1>2. StoreInv' /\ RowsKept
  BY <1>1, ClaimReconciliationSound DEF TypeInv, ClaimRecon
<1>3. attempts[rec.attempt].pair \in Pair
  BY <1>1 DEF TypeInv, StoreInv, AttemptsSound, ClaimRecon, Uncertain,
              CanClaimReconciliation, Reconcilable
<1>4. next \in Task /\ TaskSound(next, runs', attempts')
  BY <1>1, <1>2, <1>3, IdleSound
     DEF Idle, Task, Pc, TaskSound, OnRun, RowsKept
<1>5. Continues(w)
  BY <1>4 DEF ClaimRecon, Continues
<1> QED  BY <1>2, <1>5, TypeInvStep DEF TypeInv, ClaimRecon, world

\* backend.reconcile: the journal stays as it is.
LEMMA ReconcileTyped ==
  ASSUME TypeInv, NEW w \in Worker, Reconcile(w)
  PROVE  TypeInv' /\ RowsKept
<1> DEFINE t == task[w]
<1>1. /\ t \in Task /\ t.request \in ReconcileId
      /\ attempts[t.attempt].pair \in Pair /\ TaskSound(t, runs, attempts)
  BY DEF TypeInv, TasksSound, TaskSound, Reconcile
<1>2. StoreInv' /\ RowsKept
  BY TablesUnchanged DEF TypeInv, Reconcile
<1>3. Continues(w)
  <2>1. PICK verdict \in {"completed", "unknown", "failed"} :
          Becomes(w, [t EXCEPT !.pc = "finish", !.outcome = verdict])
    BY DEF Reconcile
  <2> DEFINE next == [t EXCEPT !.pc = "finish", !.outcome = verdict]
  <2>2. TaskSound(t, runs', attempts')
    BY <1>1, <1>2, SoundKept
  <2>3. next \in Task /\ TaskSound(next, runs', attempts')
    BY <1>1, <2>2 DEF Reconcile, Task, Pc, TaskSound, OnRun, Receipt
  <2> QED  BY <2>1, <2>3 DEF Continues
<1>4. configured' \in [ReconcileId -> Nat]
  BY <1>1, ParametersTyped DEF TypeInv, Reconcile
<1> QED  BY <1>2, <1>3, <1>4, TypeInvStep DEF TypeInv, Reconcile

\* finish_reconciliation: the receipt of the dispatch stays.
LEMMA FinishReconTyped ==
  ASSUME TypeInv, NEW w \in Worker, FinishRecon(w)
  PROVE  TypeInv' /\ RowsKept
<1> DEFINE t == task[w]
           release == Releases(t.attempt, t.outcome)
<1>1. t.request \in ReconcileId /\ t.outcome \in {"completed", "unknown", "failed"}
  BY DEF TypeInv, TasksSound, TaskSound, FinishRecon
<1>2. StoreInv' /\ RowsKept
  <2>1. CASE Claimed(t.request)
    <3>1. FinishReconciliation(t.request, t.outcome, release)
      BY <2>1 DEF FinishRecon, Claimed
    <3>2. release \in BOOLEAN
      BY DEF Releases
    <3> QED
      BY <1>1, <2>1, <3>1, <3>2, FinishReconciliationSound DEF TypeInv
  <2>2. CASE ~Claimed(t.request)
    BY <2>2, TablesUnchanged DEF FinishRecon, Claimed, TypeInv
  <2> QED  BY <2>1, <2>2
<1>3. Continues(w)
  BY IdleSound DEF FinishRecon, Continues
<1> QED  BY <1>2, <1>3, TypeInvStep DEF TypeInv, FinishRecon, world

\* takeover_recovery: the new attempt and run are new rows.
LEMMA TakeOverTyped ==
  ASSUME TypeInv, NEW w \in Worker, NEW t \in Takeovers, TakeOver(w, t)
  PROVE  TypeInv' /\ RowsKept
<1>1. /\ t \in TakeoverRecord /\ t.run \in RunId /\ t.pair \in Pair
      /\ t.first \in AttemptId
  BY RequestsTyped DEF TakeoverRecord, AttemptId
<1>2. StoreInv' /\ RowsKept
  BY <1>1, TablesUnchanged, TakeoverRecoverySound DEF TypeInv, TakeOver
<1>3. 0 \in StepIndex
  BY ParametersTyped DEF StepIndex
<1>4. Continues(w)
  BY <1>1, <1>3, TicketSound DEF TakeOver, Continues
<1> QED  BY <1>2, <1>4, TypeInvStep DEF TypeInv, TakeOver, world

\* abandon_halted_run, before its transaction.
LEMMA ProposeAbandonmentTyped ==
  ASSUME TypeInv, NEW w \in Worker, NEW h \in Abandonments,
         ProposeAbandonment(w, h)
  PROVE  TypeInv' /\ RowsKept
<1> DEFINE next == [Idle EXCEPT !.pc = "abandon", !.run = h.run,
                                !.pair = h.pair, !.request = h.request,
                                !.keys = LeaseKeys(h.pair)]
<1>1. h.request \in AbandonId /\ h.run \in RunId /\ h.pair \in Pair
  BY RequestsTyped DEF AbandonRecord
<1>2. StoreInv' /\ RowsKept
  BY TablesUnchanged DEF TypeInv, ProposeAbandonment
<1>3. next \in Task /\ TaskSound(next, runs', attempts')
  BY <1>1, IdleSound DEF Idle, Task, Pc, TaskSound, OnRun, LeaseKeys
<1>4. Continues(w)
  BY <1>3 DEF ProposeAbandonment, Continues
<1> QED  BY <1>2, <1>4, TypeInvStep DEF TypeInv, ProposeAbandonment, world

\* abandon_halted_run: only intents get a receipt.
LEMMA AbandonTyped ==
  ASSUME TypeInv, NEW w \in Worker, Abandon(w)
  PROVE  TypeInv' /\ RowsKept
<1> DEFINE t == task[w]
           h == [request |-> t.request, run |-> t.run, pair |-> t.pair]
<1>1. h \in AbandonRecord
  BY DEF TypeInv, TasksSound, TaskSound, Abandon, AbandonRecord
<1>2. StoreInv' /\ RowsKept /\ Continues(w)
  <2>1. CASE AbandonHaltedRun(h) /\ Becomes(w, Idle)
    BY <1>1, <2>1, AbandonHaltedRunSound, IdleSound DEF TypeInv, Continues
  <2>2. CASE GivesUp(w)
    BY <2>2, GivesUpSound
  <2> QED  BY <2>1, <2>2 DEF Abandon
<1> QED  BY <1>2, TypeInvStep DEF TypeInv, Abandon, world

\* revoke_grant and the expiry of a grant leave its budget alone.
LEMMA GrantEndsTyped ==
  ASSUME TypeInv, NEW g \in Grant, RevokeGrant(g) \/ GrantExpires(g)
  PROVE  TypeInv' /\ RowsKept
<1>1. grants' \in [Grant -> GrantRow]
  BY DEF TypeInv, StoreInv, TablesTyped, GrantRow, RevokeGrant, GrantExpires
<1>2. UNCHANGED <<attempts, leases, runs, recons, takeovers, retired,
                  abandonments, task, world>>
  BY DEF RevokeGrant, GrantExpires
<1>3. StoreInv' /\ RowsKept
  BY <1>1, <1>2 DEF TypeInv, StoreInv, TablesTyped, AttemptsSound, RunsSound,
                    ReconsSound, Claimed, RowsKept
<1> QED  BY <1>2, <1>3 DEF TypeInv, TasksSound, world

\* The end of a task leaves the journal alone.
LEMMA TaskDiesTyped ==
  ASSUME TypeInv, NEW w \in Worker, TaskDies(w)
  PROVE  TypeInv' /\ RowsKept
<1>1. StoreInv' /\ RowsKept /\ Continues(w)
  BY TablesUnchanged, IdleSound DEF TypeInv, TaskDies, Continues
<1> QED  BY <1>1, TypeInvStep DEF TypeInv, TaskDies, world

\* open: interrupted dispatches get their first receipt.
LEMMA RestartTyped ==
  ASSUME TypeInv, Restart
  PROVE  TypeInv' /\ RowsKept
<1>1. StoreInv' /\ RowsKept
  BY RecoverInterruptedDispatchesSound DEF TypeInv, Restart
<1>2. TasksSound' /\ task' \in [Worker -> Task]
  BY IdleSound DEF Restart, TasksSound
<1>3. restarts' \in 0..MaxRestarts
  BY RequestsTyped DEF TypeInv, Restart
<1> QED  BY <1>1, <1>2, <1>3 DEF TypeInv, Restart

\* A step that changes nothing.
LEMMA StutterTyped ==
  ASSUME TypeInv, UNCHANGED vars
  PROVE  TypeInv' /\ RowsKept
<1>1. StoreInv' /\ RowsKept
  BY TablesUnchanged DEF TypeInv, vars
<1>2. TasksSound'
  BY DEF TypeInv, TasksSound, vars, tables
<1> QED  BY <1>1, <1>2 DEF TypeInv, vars

-----------------------------------------------------------------------------

\* Every step preserves the invariant and the rows.
LEMMA NextTyped ==
  ASSUME TypeInv, [Next]_vars
  PROVE  TypeInv' /\ RowsKept
<1>1. CASE UNCHANGED vars
  BY <1>1, StutterTyped
<1>2. ASSUME NEW w \in Worker, TaskStep(w)
      PROVE  TypeInv' /\ RowsKept
  BY <1>2, CreateRunTyped, SubmitTyped, DispatchTyped, DriveTyped, RecordTyped,
     AdvanceRunTyped, SaveRunTyped, ScanStepsTyped, ReconcileTyped,
     FinishReconTyped, AbandonTyped
     DEF TaskStep
<1>3. ASSUME NEW w \in Worker, Request(w)
      PROVE  TypeInv' /\ RowsKept
  BY <1>3, AdmitPlanTyped, ResumePlanTyped, ClaimReconTyped, TakeOverTyped,
     ProposeAbandonmentTyped
     DEF Request
<1>4. ASSUME NEW w \in Worker, TaskDies(w)
      PROVE  TypeInv' /\ RowsKept
  BY <1>4, TaskDiesTyped
<1>5. ASSUME NEW g \in Grant, RevokeGrant(g) \/ GrantExpires(g)
      PROVE  TypeInv' /\ RowsKept
  BY <1>5, GrantEndsTyped
<1>6. CASE Restart
  BY <1>6, RestartTyped
<1> QED  BY <1>1, <1>2, <1>3, <1>4, <1>5, <1>6 DEF Next

\* An empty journal satisfies the invariant.
LEMMA InitTyped ==
  Init => TypeInv
<1> SUFFICES ASSUME Init PROVE TypeInv
  OBVIOUS
<1>1. 0 \in 0..MaxRestarts
  BY RequestsTyped
<1>2. TasksSound /\ task \in [Worker -> Task]
  BY IdleSound DEF Init, TasksSound
<1> QED  BY <1>1, <1>2, StoreInitSound DEF Init, TypeInv

\* The tables and the tasks always have their shapes: in particular no grant
\* is charged below zero and a cursor stays within its plan.
THEOREM Typed ==
  Spec => []TypeOK
<1>1. TypeInv /\ [Next]_vars => TypeInv'
  BY NextTyped
<1>2. TypeInv => TypeOK
  BY DEF TypeInv, TypeOK, StoreInv
<1> QED  BY InitTyped, <1>1, <1>2, PTL DEF Spec

\* A recorded receipt is never rewritten, whatever is reconciled, taken over,
\* abandoned or restarted later.
THEOREM ReceiptsStay ==
  Spec => ReceiptsImmutable
<1>1. TypeInv /\ [Next]_vars => TypeInv'
  BY NextTyped
<1>2. TypeInv /\ [Next]_vars =>
        [\A a \in AttemptId :
           attempts[a].receipt # None =>
             attempts'[a].receipt = attempts[a].receipt]_vars
  BY NextTyped DEF RowsKept
<1> QED  BY InitTyped, <1>1, <1>2, PTL DEF Spec, ReceiptsImmutable

-----------------------------------------------------------------------------
(* At most one execution. *)

\* A step that leaves what is in flight in flight and reopens nothing.
Calm ==
  \A a \in AttemptId :
    /\ attempts[a].state = "dispatched" => attempts'[a].state = "dispatched"
    /\ attempts'[a].state \in {"absent", "intent"} =>
         attempts[a].state \in {"absent", "intent"}

\* Worker w goes on to something else than executing an attempt.
StaysAway(w) ==
  \E next \in Task : Becomes(w, next) /\ next.pc \notin {"drive", "record"}

\* A calm step of a worker that stays away disturbs no execution.
LEMMA CalmStep ==
  ASSUME TypeInv, ExecutionInv, Calm, UNCHANGED driven,
         NEW w \in Worker, StaysAway(w)
  PROVE  ExecutionInv'
<1>1. PICK next \in Task : /\ task' = [task EXCEPT ![w] = next]
                           /\ next.pc \notin {"drive", "record"}
  BY DEF StaysAway, Becomes
<1>2. \A v \in Worker : Executes(v)' => v # w /\ task'[v] = task[v]
  BY <1>1 DEF TypeInv, Executes
<1>3. \A v \in Worker : Executes(v) => task[v].attempt \in AttemptId
  BY DEF TypeInv, TasksSound, TaskSound, Executes, OnRun
<1> QED  BY <1>2, <1>3 DEF ExecutionInv, Calm, Executes

\* A worker becomes what the action says, and the others stay as they are.
LEMMA Moves ==
  ASSUME TypeInv, NEW w \in Worker, NEW next, Becomes(w, next)
  PROVE  /\ task'[w] = next
         /\ \A v \in Worker : v # w => task'[v] = task[v]
BY DEF TypeInv, Becomes

\* A task that ends is not executing.
LEMMA IdleStaysAway ==
  ASSUME NEW w \in Worker, Becomes(w, Idle)
  PROVE  StaysAway(w)
BY IdleSound DEF StaysAway, Idle

\* Nothing is in flight or undispatched that was not before.
LEMMA SameAttemptsCalm ==
  ASSUME UNCHANGED attempts
  PROVE  Calm
BY DEF Calm

\* Admission: what is inserted was absent before.
LEMMA AdmissionCalm ==
  ASSUME TypeInv, NEW w \in Worker,
         \/ \E adm \in Admissions : AdmitPlan(w, adm)
         \/ CreateRun(w) \/ Submit(w)
         \/ \E t \in Takeovers : TakeOver(w, t)
  PROVE  Calm /\ StaysAway(w) /\ UNCHANGED driven
<1>1. ASSUME NEW adm \in Admissions, AdmitPlan(w, adm)
      PROVE  Calm /\ StaysAway(w) /\ UNCHANGED driven
  <2> DEFINE next == [Submission(adm.run, adm.pair, 0, adm.first)
                        EXCEPT !.pc = "create"]
  <2>1. next \in Task /\ next.pc = "create"
    BY <1>1, IdleSound, RequestsTyped
       DEF Submission, Ticket, Idle, Task, Pc, AttemptId
  <2>2. Becomes(w, next) /\ UNCHANGED <<attempts, driven>>
    BY <1>1 DEF AdmitPlan, tables, world
  <2> QED  BY <2>1, <2>2, SameAttemptsCalm DEF StaysAway
<1>2. ASSUME CreateRun(w)
      PROVE  Calm /\ StaysAway(w) /\ UNCHANGED driven
  <2> DEFINE t == task[w]
             next == Submission(t.run, t.pair, 0, t.attempt)
  <2>1. /\ t \in Task /\ t.run \in RunId /\ t.pair \in Pair
        /\ t.attempt \in AttemptId /\ 0 \in StepIndex
    BY <1>2, ParametersTyped
       DEF TypeInv, TasksSound, TaskSound, CreateRun, OnRun, StepIndex
  <2>2. next \in Task /\ next.pc = "submit"
    BY <2>1, TicketSound
  <2>3. Becomes(w, next) \/ Becomes(w, Idle)
    BY <1>2 DEF CreateRun, GivesUp
  <2>4. UNCHANGED <<attempts, driven>>
    BY <1>2 DEF CreateRun, GivesUp, tables, world
  <2> QED
    BY <2>2, <2>3, <2>4, IdleStaysAway, SameAttemptsCalm DEF StaysAway
<1>3. ASSUME Submit(w)
      PROVE  Calm /\ StaysAway(w) /\ UNCHANGED driven
  <2> DEFINE t == task[w]
             req == StepRequest(t.run, t.index)
             next == Ticket(t.run, t.pair, t.index, t.attempt)
  <2>1. /\ t \in Task /\ t.run \in RunId /\ t.pair \in Pair
        /\ t.attempt \in AttemptId /\ t.index \in StepIndex
        /\ t.index = 0 \/ (runs[t.run] # NoRun
                           /\ t.index < OpCount[runs[t.run].pair])
    BY <1>3 DEF TypeInv, TasksSound, TaskSound, Submit, OnRun, Task
  <2>2. next \in Task /\ next.pc = "claim"
    BY <2>1, TicketSound
  <2>3. StaysAway(w) /\ UNCHANGED driven
    BY <1>3, <2>2, IdleStaysAway DEF Submit, GivesUp, StaysAway, world
  <2>4. Calm
    <3>1. CASE /\ CanReserve(t.attempt, t.pair, t.index, req)
               /\ Reserve(t.attempt, t.pair, t.index, req)
      BY <2>1, <3>1 DEF Calm, CanReserve, Reserve, Intent, NoAttempt, TypeInv,
                        StoreInv, TablesTyped
    <3>2. CASE UNCHANGED tables
      BY <3>2, SameAttemptsCalm DEF tables
    <3> QED  BY <1>3, <3>1, <3>2 DEF Submit, GivesUp
  <2> QED  BY <2>3, <2>4
<1>4. ASSUME NEW t \in Takeovers, TakeOver(w, t)
      PROVE  Calm /\ StaysAway(w) /\ UNCHANGED driven
  <2> DEFINE next == Ticket(t.run, t.pair, 0, t.first)
  <2>1. /\ t.run \in RunId /\ t.pair \in Pair /\ t.first \in AttemptId
        /\ 0 \in StepIndex
    BY RequestsTyped, ParametersTyped DEF TakeoverRecord, AttemptId, StepIndex
  <2>2. next \in Task /\ next.pc = "claim"
    BY <2>1, TicketSound
  <2>3. StaysAway(w) /\ UNCHANGED driven
    BY <1>4, <2>2 DEF TakeOver, StaysAway, world
  <2>4. Calm
    <3>1. CASE CanTakeover(t) /\ TakeoverRecovery(t)
      BY <2>1, <3>1 DEF Calm, CanTakeover, TakeoverRecovery, Intent, NoAttempt,
                        TypeInv, StoreInv, TablesTyped
    <3>2. CASE UNCHANGED tables
      BY <3>2, SameAttemptsCalm DEF tables
    <3> QED  BY <1>4, <3>1, <3>2 DEF TakeOver
  <2> QED  BY <2>3, <2>4
<1> QED  BY <1>1, <1>2, <1>3, <1>4

\* Cursors and scans of a run touch no attempt.
LEMMA ResumptionCalm ==
  ASSUME TypeInv, NEW w \in Worker,
         \/ AdvanceRun(w) \/ SaveRun(w) \/ ScanSteps(w)
         \/ \E r \in RunId : ResumePlan(w, r)
  PROVE  Calm /\ StaysAway(w) /\ UNCHANGED driven
<1>1. TypeInv'
  BY AdvanceRunTyped, SaveRunTyped, ScanStepsTyped, ResumePlanTyped
<1>2. task'[w] \in Task /\ task' = [task EXCEPT ![w] = task'[w]]
  BY <1>1 DEF TypeInv, AdvanceRun, SaveRun, ScanSteps, ResumePlan, Becomes,
              GivesUp
<1>3. task'[w].pc \in {"idle", "save", "scan", "submit", "claim"}
  <2>1. /\ Idle.pc = "idle"
        /\ [task[w] EXCEPT !.pc = "save"].pc = "save"
        /\ \A r, p, i, a : /\ Ticket(r, p, i, a).pc = "claim"
                          /\ Submission(r, p, i, a).pc = "submit"
        /\ \A r : [Idle EXCEPT !.pc = "scan", !.run = r].pc = "scan"
    BY DEF TypeInv, Task, Idle, Ticket, Submission
  <2>2. CASE AdvanceRun(w)
    BY <2>1, <2>2, Moves DEF AdvanceRun, GivesUp
  <2>3. CASE SaveRun(w)
    BY <2>1, <2>3, Moves DEF SaveRun
  <2>4. CASE ScanSteps(w)
    BY <2>1, <2>4, Moves DEF ScanSteps
  <2>5. ASSUME NEW r \in RunId, ResumePlan(w, r)
        PROVE  task'[w].pc \in {"idle", "scan"}
    <3>1. \/ Becomes(w, Idle)
          \/ Becomes(w, [Idle EXCEPT !.pc = "scan", !.run = r])
      BY <2>5 DEF ResumePlan
    <3>2. \/ task'[w] = Idle
          \/ task'[w] = [Idle EXCEPT !.pc = "scan", !.run = r]
      BY <3>1, Moves
    <3> QED  BY <2>1, <3>2
  <2> QED  BY <2>2, <2>3, <2>4, <2>5
<1>4. UNCHANGED <<attempts, driven>>
  BY DEF AdvanceRun, SaveRun, ScanSteps, ResumePlan, GivesUp, tables, world
<1> QED  BY <1>2, <1>3, <1>4, SameAttemptsCalm DEF StaysAway, Becomes

\* A reconciliation only moves an attempt that is unknown or partial.
LEMMA ReconciliationCalm ==
  ASSUME TypeInv, NEW w \in Worker,
         \/ \E rec \in Reconciliations : ClaimRecon(w, rec)
         \/ Reconcile(w) \/ FinishRecon(w)
  PROVE  Calm /\ StaysAway(w) /\ UNCHANGED driven
<1>1. TypeInv'
  BY ClaimReconTyped, ReconcileTyped, FinishReconTyped
<1>2. task'[w] \in Task /\ task' = [task EXCEPT ![w] = task'[w]]
  BY <1>1 DEF TypeInv, ClaimRecon, Reconcile, FinishRecon, Becomes
<1>3. task'[w].pc \in {"idle", "reconcile", "finish"}
  <2>1. ASSUME NEW rec \in Reconciliations, ClaimRecon(w, rec)
        PROVE  task'[w].pc = "reconcile"
    BY <2>1 DEF TypeInv, ClaimRecon, Becomes, Idle
  <2>2. CASE Reconcile(w)
    <3>1. \E verdict \in {"completed", "unknown", "failed"} :
            Becomes(w, [task[w] EXCEPT !.pc = "finish", !.outcome = verdict])
      BY <2>2 DEF Reconcile
    <3> QED  BY <3>1 DEF TypeInv, Becomes, Task
  <2>3. CASE FinishRecon(w)
    BY <2>3, Moves DEF FinishRecon, Idle
  <2> QED  BY <2>1, <2>2, <2>3
<1>4. UNCHANGED driven
  BY DEF ClaimRecon, Reconcile, FinishRecon, world
<1>5. Calm
  <2>1. ASSUME NEW rec \in Reconciliations, ClaimRecon(w, rec)
        PROVE  Calm
    <3>1. /\ rec.attempt \in AttemptId
          /\ attempts[rec.attempt].state \in {"partial", "unknown"}
          /\ attempts' = [attempts EXCEPT ![rec.attempt].state = "unknown"]
      BY <2>1, RequestsTyped
         DEF ClaimRecon, CanClaimReconciliation, Reconcilable, Uncertain,
             ClaimReconciliation
    <3> QED  BY <3>1 DEF Calm, TypeInv, StoreInv, TablesTyped
  <2>2. CASE Reconcile(w)
    BY <2>2, SameAttemptsCalm DEF Reconcile, tables
  <2>3. CASE FinishRecon(w)
    <3> DEFINE q == task[w].request
    <3>1. CASE Claimed(q)
      <4>1. /\ q \in ReconcileId /\ recons[q].attempt \in AttemptId
            /\ attempts[recons[q].attempt].state = "unknown"
        BY <2>3, <3>1 DEF TypeInv, TasksSound, TaskSound, FinishRecon,
                          StoreInv, ReconsSound
      <4>2. attempts' = Resolved(recons[q].attempt, task[w].outcome)
        BY <2>3, <3>1 DEF FinishRecon, FinishReconciliation, Claimed
      <4> QED
        BY <4>1, <4>2 DEF Calm, Resolved, TypeInv, StoreInv, TablesTyped
    <3>2. CASE ~Claimed(q)
      BY <2>3, <3>2, SameAttemptsCalm DEF FinishRecon, Claimed, tables
    <3> QED  BY <3>1, <3>2
  <2> QED  BY <2>1, <2>2, <2>3
<1> QED  BY <1>2, <1>3, <1>4, <1>5 DEF StaysAway, Becomes

\* An abandonment closes intents, which nothing executes.
LEMMA AbandonmentCalm ==
  ASSUME TypeInv, NEW w \in Worker,
         \/ \E h \in Abandonments : ProposeAbandonment(w, h)
         \/ Abandon(w) \/ TaskDies(w)
  PROVE  Calm /\ StaysAway(w) /\ UNCHANGED driven
<1>1. TypeInv'
  BY ProposeAbandonmentTyped, AbandonTyped, TaskDiesTyped
<1>2. task'[w] \in Task /\ task' = [task EXCEPT ![w] = task'[w]]
  BY <1>1 DEF TypeInv, ProposeAbandonment, Abandon, TaskDies, GivesUp, Becomes
<1>3. task'[w].pc \in {"idle", "abandon"}
  <2>1. ASSUME NEW h \in Abandonments, ProposeAbandonment(w, h)
        PROVE  task'[w].pc = "abandon"
    BY <2>1 DEF TypeInv, ProposeAbandonment, Becomes, Idle
  <2>2. CASE Abandon(w) \/ TaskDies(w)
    BY <2>2, Moves DEF Abandon, TaskDies, GivesUp, Idle
  <2> QED  BY <2>1, <2>2
<1>4. UNCHANGED driven
  BY DEF ProposeAbandonment, Abandon, TaskDies, world
<1>5. Calm
  BY SameAttemptsCalm
     DEF Calm, ProposeAbandonment, Abandon, TaskDies, GivesUp, tables,
         AbandonHaltedRun, TypeInv, StoreInv, TablesTyped
<1> QED  BY <1>2, <1>3, <1>4, <1>5 DEF StaysAway, Becomes

\* The dispatch of an intent makes its worker the only executor.
LEMMA DispatchExecutes ==
  ASSUME TypeInv, ExecutionInv, NEW w \in Worker, Dispatch(w)
  PROVE  ExecutionInv'
<1> DEFINE t == task[w]
<1>1. t.attempt \in AttemptId
  BY DEF TypeInv, TasksSound, TaskSound, Dispatch, OnRun
<1>2. CASE CanClaimDispatch(t.attempt)
  <2>1. attempts[t.attempt].state = "intent" /\ driven[t.attempt] = 0
    BY <1>1, <1>2 DEF CanClaimDispatch, ExecutionInv
  <2>2. /\ task' = [task EXCEPT ![w] = [t EXCEPT !.pc = "drive"]]
        /\ attempts' = [attempts EXCEPT ![t.attempt].state = "dispatched"]
        /\ driven' = driven
    BY <1>2 DEF Dispatch, ClaimDispatch, Becomes, world
  <2>3. /\ task'[w].pc = "drive" /\ task'[w].attempt = t.attempt
        /\ \A v \in Worker : v # w => task'[v] = task[v]
        /\ attempts'[t.attempt].state = "dispatched"
        /\ \A a \in AttemptId : a # t.attempt => attempts'[a] = attempts[a]
    BY <1>1, <2>2 DEF TypeInv, StoreInv, TablesTyped, Task
  <2>4. \A v \in Worker :
          Executes(v) => /\ task[v].attempt \in AttemptId
                         /\ task[v].attempt # t.attempt
    BY <2>1 DEF TypeInv, TasksSound, TaskSound, Executes, OnRun, ExecutionInv
  <2> QED  BY <2>1, <2>2, <2>3, <2>4 DEF ExecutionInv, Executes
<1>3. CASE ~CanClaimDispatch(t.attempt)
  BY <1>3, CalmStep, IdleStaysAway, SameAttemptsCalm
     DEF Dispatch, GivesUp, tables, world
<1> QED  BY <1>2, <1>3

\* Only the executor drives, once, and then only records.
LEMMA DriveExecutes ==
  ASSUME TypeInv, ExecutionInv, NEW w \in Worker, Drive(w)
  PROVE  ExecutionInv'
<1> DEFINE t == task[w]
<1>1. /\ t \in Task /\ t.attempt \in AttemptId /\ Executes(w)
      /\ driven[t.attempt] = 0 /\ attempts[t.attempt].state = "dispatched"
  BY DEF TypeInv, TasksSound, TaskSound, Drive, OnRun, Executes, ExecutionInv
<1>2. /\ task'[w].pc = "record" /\ task'[w].attempt = t.attempt
      /\ \A v \in Worker : v # w => task'[v] = task[v]
  BY <1>1 DEF TypeInv, Drive, Becomes, Task
<1>3. /\ attempts' = attempts
      /\ driven'[t.attempt] <= 1
      /\ \A a \in AttemptId : a # t.attempt => driven'[a] = driven[a]
  BY <1>1 DEF TypeInv, Drive, tables
<1>4. \A v \in Worker :
        Executes(v) => /\ task[v].attempt \in AttemptId
                       /\ v # w => task[v].attempt # t.attempt
  BY <1>1 DEF TypeInv, TasksSound, TaskSound, Executes, OnRun, ExecutionInv
<1> QED  BY <1>1, <1>2, <1>3, <1>4 DEF ExecutionInv, Executes

\* The receipt ends the execution.
LEMMA RecordExecutes ==
  ASSUME TypeInv, ExecutionInv, NEW w \in Worker, Record(w)
  PROVE  ExecutionInv'
<1> DEFINE t == task[w]
<1>1. /\ t \in Task /\ t.attempt \in AttemptId /\ Executes(w)
      /\ t.outcome \in Receipt
  BY DEF TypeInv, TasksSound, TaskSound, Record, OnRun, Executes
<1>2. attempts[t.attempt].state = "dispatched"
  BY <1>1 DEF ExecutionInv
<1>3. /\ task'[w].pc \in {"advance", "idle"}
      /\ \A v \in Worker : v # w => task'[v] = task[v]
  <2>1. \/ Becomes(w, Idle)
        \/ Becomes(w, [t EXCEPT !.pc = "advance", !.outcome = None])
    BY <1>2 DEF Record
  <2>2. CASE Becomes(w, Idle)
    BY <2>2, Moves DEF Idle
  <2>3. CASE Becomes(w, [t EXCEPT !.pc = "advance", !.outcome = None])
    BY <1>1, <2>3 DEF TypeInv, Becomes, Task
  <2> QED  BY <2>1, <2>2, <2>3
<1>4. /\ attempts'[t.attempt].state \in Receipt
      /\ \A a \in AttemptId : a # t.attempt => attempts'[a] = attempts[a]
      /\ driven' = driven
  <2>1. attempts' = Settle(t.attempt, t.outcome) /\ driven' = driven
    BY <1>2 DEF Record, RecordReceipt, world
  <2> QED  BY <1>1, <2>1 DEF TypeInv, StoreInv, TablesTyped, AttemptRow, Settle
<1>5. \A v \in Worker :
        Executes(v) => /\ task[v].attempt \in AttemptId
                       /\ v # w => task[v].attempt # t.attempt
  BY <1>1 DEF TypeInv, TasksSound, TaskSound, Executes, OnRun, ExecutionInv
<1> QED  BY <1>1, <1>3, <1>4, <1>5 DEF ExecutionInv, Executes, Receipt

\* After a restart nothing executes, and what was in flight is unknown.
LEMMA RestartExecutes ==
  ASSUME TypeInv, ExecutionInv, Restart
  PROVE  ExecutionInv'
<1>1. \A w \in Worker : task'[w].pc = "idle"
  BY DEF Restart, Idle
<1>2. \A a \in AttemptId :
        attempts'[a].state \in {"absent", "intent"} =>
          attempts[a].state \in {"absent", "intent"}
  BY DEF Restart, RecoverInterruptedDispatches, Interrupted, TypeInv, StoreInv,
         TablesTyped, AttemptRow
<1> QED  BY <1>1, <1>2 DEF ExecutionInv, Executes, Restart

\* Every step keeps each attempt with at most one executor.
LEMMA NextExecutes ==
  ASSUME TypeInv, ExecutionInv, [Next]_vars
  PROVE  ExecutionInv'
<1>1. CASE UNCHANGED vars
  BY <1>1 DEF ExecutionInv, Executes, vars, tables
<1>2. ASSUME NEW w \in Worker, TaskStep(w) \/ Request(w) \/ TaskDies(w)
      PROVE  ExecutionInv'
  BY <1>2, CalmStep, AdmissionCalm, ResumptionCalm, ReconciliationCalm,
     AbandonmentCalm, DispatchExecutes, DriveExecutes, RecordExecutes
     DEF TaskStep, Request
<1>3. ASSUME NEW g \in Grant, RevokeGrant(g) \/ GrantExpires(g)
      PROVE  ExecutionInv'
  BY <1>3 DEF ExecutionInv, Executes, RevokeGrant, GrantExpires, world
<1>4. CASE Restart
  BY <1>4, RestartExecutes
<1> QED  BY <1>1, <1>2, <1>3, <1>4 DEF Next

\* Nothing executes before the first request.
LEMMA InitExecutes ==
  Init => ExecutionInv
BY DEF Init, StoreInit, ExecutionInv, Executes, Idle

\* A backend is let loose on an attempt at most once, for any number of
\* workers, duplicate requests, resumptions, reconciliations and crashes.
THEOREM NoAttemptTwice ==
  Spec => []AtMostOnce
<1>1. Inv /\ [Next]_vars => Inv'
  BY NextTyped, NextExecutes DEF Inv
<1>2. Init => Inv
  BY InitTyped, InitExecutes DEF Inv
<1>3. Inv => AtMostOnce
  BY DEF Inv, ExecutionInv, AtMostOnce
<1> QED  BY <1>1, <1>2, <1>3, PTL DEF Spec

\* Whatever is under reconciliation is unknown, and no other reconciliation
\* of it is claimed.
THEOREM ReconciledStaysUnknown ==
  Spec => []ReconciledIsUnknown
<1>1. TypeInv /\ [Next]_vars => TypeInv'
  BY NextTyped
<1>2. TypeInv => ReconciledIsUnknown
  BY DEF TypeInv, StoreInv, ReconsSound, Claimed, ReconciledIsUnknown
<1> QED  BY InitTyped, <1>1, <1>2, PTL DEF Spec

-----------------------------------------------------------------------------
(* Leases.  The journal keeps CustodyInv in every step, and the worker that *)
(* reconciles is the one its reconciliation is claimed for.                 *)

\* What every step does to the leases.
CustodyStep ==
  CustodyInv' /\ OutcomesKept /\ LeasesKept /\ [C!Next]_<<leases, InDoubt>>

Reconciles(w) == task[w].pc \in {"reconcile", "finish"}

\* Whoever reconciles has claimed it, alone.
ReconInv ==
  /\ \A w \in Worker :
       Reconciles(w) =>
         recons[task[w].request] =
           [attempt |-> task[w].attempt, state |-> "claimed"]
  /\ \A v, w \in Worker :
       Reconciles(v) /\ Reconciles(w) /\ task[v].request = task[w].request
         => v = w

\* The promises about leases do not depend on grants and cursors.
LEMMA TablesKeepCustody ==
  ASSUME CustodyInv,
         UNCHANGED <<attempts, leases, recons, takeovers, retired,
                     abandonments>>
  PROVE  CustodyStep
<1>1. \A p : /\ AttemptsOf(p)' = AttemptsOf(p)
             /\ OwnsAll(p)' <=> OwnsAll(p)
             /\ LeaseKeys(p)' = LeaseKeys(p)
  BY DEF AttemptsOf, OwnsAll, LeaseKeys
<1>2. \A p : Unfinished(p)' <=> Unfinished(p)
  BY <1>1 DEF Unfinished
<1>3. InPlan' /\ StepsInOrder' /\ LeasesWhole' /\ LeasesNeeded'
  BY DEF CustodyInv, InPlan, StepsInOrder, LeasesWhole, LeasesNeeded, OwnsAll,
         Unfinished, AttemptsOf
<1>4. UncertaintyHoldsLeases' /\ InheritedLeasesHeld'
  BY <1>1, <1>2 DEF CustodyInv, UncertaintyHoldsLeases, InheritedLeasesHeld
<1>5. ClosedPairsQuiet'
  BY DEF CustodyInv, ClosedPairsQuiet, HasDispatched, HasActiveReconciliation,
         ActiveReconciliation, AttemptsOf, LeaseKeys
<1>6. InDoubt' = InDoubt
  BY DEF InDoubt, Unfinished, AttemptsOf
<1>7. OutcomesKept /\ LeasesKept
  BY DEF OutcomesKept, LeasesKept, Uncertain
<1> QED  BY <1>3, <1>4, <1>5, <1>6, <1>7 DEF CustodyStep, CustodyInv

\* submit: reserve, or nothing.
LEMMA SubmitCustody ==
  ASSUME TypeInv, CustodyInv, NEW w \in Worker, Submit(w)
  PROVE  CustodyStep
<1> DEFINE t == task[w]
           req == StepRequest(t.run, t.index)
<1>1. /\ t.pair \in Pair /\ t.attempt \in AttemptId /\ t.index \in StepIndex
  BY DEF TypeInv, TasksSound, TaskSound, Submit, OnRun, Task
<1>2. StoreInv /\ StoreInv'
  BY SubmitTyped DEF TypeInv
<1>3. CASE /\ Submittable(t.pair, t.index)
           /\ CanReserve(t.attempt, t.pair, t.index, req)
           /\ Reserve(t.attempt, t.pair, t.index, req)
  <2>1. t.index < OpCount[t.pair]
    BY <1>3 DEF Submittable
  <2> QED
    BY <1>1, <1>2, <1>3, <2>1, ReserveCustody, ReserveAcquires DEF CustodyStep
<1>4. CASE UNCHANGED tables
  BY <1>4, TablesKeepCustody DEF tables
<1> QED  BY <1>3, <1>4 DEF Submit, GivesUp

\* execute: claim_dispatch, or nothing.
LEMMA DispatchCustody ==
  ASSUME TypeInv, CustodyInv, NEW w \in Worker, Dispatch(w)
  PROVE  CustodyStep
<1> DEFINE t == task[w]
<1>1. t.attempt \in AttemptId
  BY DEF TypeInv, TasksSound, TaskSound, Dispatch, OnRun
<1>2. StoreInv /\ StoreInv'
  BY DispatchTyped DEF TypeInv
<1>3. CASE CanClaimDispatch(t.attempt) /\ ClaimDispatch(t.attempt)
  BY <1>1, <1>2, <1>3, ClaimDispatchCustody, ClaimDispatchBegins
     DEF CustodyStep
<1>4. CASE UNCHANGED tables
  BY <1>4, TablesKeepCustody DEF tables
<1> QED  BY <1>3, <1>4 DEF Dispatch, GivesUp

\* execute: record_receipt, or nothing.
LEMMA RecordCustody ==
  ASSUME TypeInv, CustodyInv, NEW w \in Worker, Record(w)
  PROVE  CustodyStep
<1> DEFINE t == task[w]
           release == Releases(t.attempt, t.outcome)
           frees == FreesLeases(t.attempt, t.outcome, release)
<1>1. t.attempt \in AttemptId /\ t.outcome \in Receipt
  BY DEF TypeInv, TasksSound, TaskSound, Record, OnRun
<1>2. StoreInv /\ StoreInv'
  BY RecordTyped DEF TypeInv
<1>3. CASE /\ attempts[t.attempt].state = "dispatched"
           /\ RecordReceipt(t.attempt, t.outcome, release)
  <2>1. /\ release \in BOOLEAN
        /\ release <=>
             \/ t.outcome = "rejected"
             \/ /\ t.outcome = "completed"
                /\ attempts[t.attempt].index + 1
                     = OpCount[attempts[t.attempt].pair]
    BY DEF Releases, LastStep
  <2> HIDE DEF release
  <2>2. CustodyInv' /\ OutcomesKept /\ LeasesKept
    BY <1>1, <1>2, <1>3, <2>1, RecordReceiptCustody
  <2>3. Settles(t.attempt, frees) /\ frees \in BOOLEAN
    BY <1>1, <1>2, <1>3, <2>1, RecordReceiptSettles
  <2>4. [C!Next]_<<leases, InDoubt>>
    BY <1>1, <1>2, <2>3, SettlesResolves
  <2> QED  BY <2>2, <2>4 DEF CustodyStep
<1>4. CASE UNCHANGED tables
  BY <1>4, TablesKeepCustody DEF tables
<1> QED  BY <1>3, <1>4 DEF Record, GivesUp

\* reconcile: claim_reconciliation.
LEMMA ClaimReconCustody ==
  ASSUME TypeInv, CustodyInv, NEW w \in Worker, NEW rec \in Reconciliations,
         ClaimRecon(w, rec)
  PROVE  CustodyStep
<1>1. rec.request \in ReconcileId /\ rec.attempt \in AttemptId
  BY RequestsTyped
<1>2. StoreInv /\ StoreInv'
  BY ClaimReconTyped DEF TypeInv
<1>3. /\ CanClaimReconciliation(rec.request, rec.attempt)
      /\ ClaimReconciliation(rec.request, rec.attempt)
  BY DEF ClaimRecon
<1> QED
  BY <1>1, <1>2, <1>3, ClaimReconciliationCustody, ClaimReconciliationStutters
     DEF CustodyStep

\* reconcile: finish_reconciliation.  The attempt whose step decides about the
\* leases is the one the reconciliation was claimed for.
LEMMA FinishReconCustody ==
  ASSUME TypeInv, ReconInv, CustodyInv, NEW w \in Worker, FinishRecon(w)
  PROVE  CustodyStep
<1> DEFINE t == task[w]
           q == t.request
           release == Releases(t.attempt, t.outcome)
<1>1. q \in ReconcileId /\ t.outcome \in {"completed", "unknown", "failed"}
  BY DEF TypeInv, TasksSound, TaskSound, FinishRecon
<1>2. StoreInv /\ StoreInv'
  BY FinishReconTyped DEF TypeInv
<1>3. recons[q].attempt = t.attempt
  <2>1. recons[q] = [attempt |-> t.attempt, state |-> "claimed"]
    BY DEF ReconInv, Reconciles, FinishRecon
  <2> QED  BY <2>1
<1>4. CASE Claimed(q) /\ FinishReconciliation(q, t.outcome, release)
  <2>1. /\ release \in BOOLEAN
        /\ t.outcome = "completed" =>
             (release <=> attempts[recons[q].attempt].index + 1
                            = OpCount[attempts[recons[q].attempt].pair])
    BY <1>3 DEF Releases, LastStep
  <2> HIDE DEF release
  <2>2. CustodyInv' /\ OutcomesKept /\ LeasesKept
    BY <1>1, <1>2, <1>4, <2>1, FinishReconciliationCustody
  <2>3. /\ recons[q].attempt \in AttemptId
        /\ Settles(recons[q].attempt, t.outcome = "completed" /\ release)
    BY <1>1, <1>2, <1>4, <2>1, FinishReconciliationSettles
  <2>4. [C!Next]_<<leases, InDoubt>>
    BY <1>2, <2>3, SettlesResolves
  <2> QED  BY <2>2, <2>4 DEF CustodyStep
<1>5. CASE UNCHANGED tables
  BY <1>5, TablesKeepCustody DEF tables
<1> QED  BY <1>4, <1>5 DEF FinishRecon, Claimed

\* takeover: takeover_recovery, or a ticket for the one already there.
LEMMA TakeOverCustody ==
  ASSUME TypeInv, CustodyInv, NEW w \in Worker, NEW t \in Takeovers,
         TakeOver(w, t)
  PROVE  CustodyStep
<1>1. t \in TakeoverRecord
  BY RequestsTyped
<1>2. StoreInv /\ StoreInv'
  BY TakeOverTyped DEF TypeInv
<1>3. CASE CanTakeover(t) /\ TakeoverRecovery(t) /\ t \notin takeovers
  BY <1>1, <1>2, <1>3, TakeoverRecoveryCustody, TakeoverRecoveryHandsOver
     DEF CustodyStep
<1>4. CASE UNCHANGED tables
  BY <1>4, TablesKeepCustody DEF tables
<1> QED  BY <1>3, <1>4 DEF TakeOver

\* abandon: abandon_halted_run, or nothing.
LEMMA AbandonCustody ==
  ASSUME TypeInv, CustodyInv, NEW w \in Worker, Abandon(w)
  PROVE  CustodyStep
<1> DEFINE t == task[w]
           h == [request |-> t.request, run |-> t.run, pair |-> t.pair]
<1>1. h \in AbandonRecord
  BY DEF TypeInv, TasksSound, TaskSound, Abandon, AbandonRecord
<1>2. StoreInv /\ StoreInv'
  BY AbandonTyped DEF TypeInv
<1>3. CASE CanAbandon(h, t.keys) /\ AbandonHaltedRun(h)
  BY <1>1, <1>2, <1>3, AbandonHaltedRunCustody, AbandonHaltedRunGivesBack
     DEF CustodyStep
<1>4. CASE UNCHANGED tables
  BY <1>4, TablesKeepCustody DEF tables
<1> QED  BY <1>3, <1>4 DEF Abandon, GivesUp

\* open: recover_interrupted_dispatches.
LEMMA RestartCustody ==
  ASSUME TypeInv, CustodyInv, Restart
  PROVE  CustodyStep
<1>1. StoreInv /\ StoreInv'
  BY RestartTyped DEF TypeInv
<1>2. RecoverInterruptedDispatches
  BY DEF Restart
<1> QED
  BY <1>1, <1>2, RecoverInterruptedDispatchesCustody,
     RecoverInterruptedDispatchesStutters
     DEF CustodyStep

\* Every step keeps the promises about leases.
LEMMA NextCustody ==
  ASSUME TypeInv, ReconInv, CustodyInv, [Next]_vars
  PROVE  CustodyStep
<1>1. CASE UNCHANGED vars
  BY <1>1, TablesKeepCustody DEF vars, tables
<1>2. ASSUME NEW w \in Worker, TaskStep(w)
      PROVE  CustodyStep
  <2>1. CASE CreateRun(w) \/ Drive(w) \/ AdvanceRun(w) \/ SaveRun(w)
             \/ ScanSteps(w) \/ Reconcile(w)
    BY <2>1, TablesKeepCustody
       DEF CreateRun, Drive, AdvanceRun, SaveRun, ScanSteps, Reconcile,
           GivesUp, tables
  <2> QED
    BY <1>2, <2>1, SubmitCustody, DispatchCustody, RecordCustody,
       FinishReconCustody, AbandonCustody
       DEF TaskStep
<1>3. ASSUME NEW w \in Worker, Request(w)
      PROVE  CustodyStep
  <2>1. ASSUME \/ \E adm \in Admissions : AdmitPlan(w, adm)
               \/ \E r \in RunId : ResumePlan(w, r)
               \/ \E h \in Abandonments : ProposeAbandonment(w, h)
        PROVE  CustodyStep
    BY <2>1, TablesKeepCustody
       DEF AdmitPlan, ResumePlan, ProposeAbandonment, tables
  <2> QED  BY <1>3, <2>1, ClaimReconCustody, TakeOverCustody DEF Request
<1>4. ASSUME NEW w \in Worker, TaskDies(w)
      PROVE  CustodyStep
  BY <1>4, TablesKeepCustody DEF TaskDies, tables
<1>5. ASSUME NEW g \in Grant, RevokeGrant(g) \/ GrantExpires(g)
      PROVE  CustodyStep
  BY <1>5, TablesKeepCustody DEF RevokeGrant, GrantExpires
<1>6. CASE Restart
  BY <1>6, RestartCustody
<1> QED  BY <1>1, <1>2, <1>3, <1>4, <1>5, <1>6 DEF Next

\* An empty journal keeps every promise.
LEMMA InitCustody ==
  Init => CustodyInv /\ C!Init
<1> SUFFICES ASSUME Init PROVE CustodyInv /\ C!Init
  OBVIOUS
<1>1. /\ \A a \in AttemptId : /\ attempts[a].pair = None
                              /\ attempts[a].state = "absent"
      /\ \A r \in Resource : leases[r] = None
      /\ takeovers = {} /\ retired = {} /\ abandonments = {}
      /\ None \notin Pair
  BY NoneIsNoValue DEF Init, StoreInit, NoAttempt
<1>2. InPlan /\ StepsInOrder /\ LeasesWhole /\ LeasesNeeded
  BY <1>1 DEF InPlan, StepsInOrder, LeasesWhole, LeasesNeeded
<1>3. UncertaintyHoldsLeases /\ ClosedPairsQuiet /\ InheritedLeasesHeld
  BY <1>1 DEF UncertaintyHoldsLeases, ClosedPairsQuiet, InheritedLeasesHeld,
              Pending, Unsettled, Uncertain
<1>4. InDoubt = {}
  BY <1>1 DEF InDoubt, Unsettled, Uncertain
<1>5. leases = [r \in Resource |-> None]
  BY DEF Init, StoreInit
<1> QED  BY <1>2, <1>3, <1>4, <1>5 DEF CustodyInv, C!Init

-----------------------------------------------------------------------------
(* Who reconciles. *)

\* Worker w goes on to something else than a reconciliation.
TurnsAway(w) ==
  \E next : Becomes(w, next) /\ next.pc \notin {"reconcile", "finish"}

\* The reconciliations of the others are not touched by such a step.
LEMMA TurnsAwayStep ==
  ASSUME TypeInv, ReconInv, NEW w \in Worker, TurnsAway(w), UNCHANGED recons
  PROVE  ReconInv'
<1>1. PICK next : Becomes(w, next) /\ next.pc \notin {"reconcile", "finish"}
  BY DEF TurnsAway
<1>2. \A v \in Worker : Reconciles(v)' => v # w /\ task'[v] = task[v]
  BY <1>1, Moves DEF Reconciles
<1> QED  BY <1>2 DEF ReconInv, Reconciles

\* What the records that actions build are about to do.
LEMMA OtherPcs ==
  /\ Idle.pc = "idle"
  /\ \A r, p, i, a :
       /\ Ticket(r, p, i, a).pc = "claim"
       /\ Submission(r, p, i, a).pc = "submit"
       /\ [Submission(r, p, i, a) EXCEPT !.pc = "create"].pc = "create"
  /\ \A r : [Idle EXCEPT !.pc = "scan", !.run = r].pc = "scan"
BY DEF Idle, Ticket, Submission

\* Execution of a plan.
LEMMA ExecutionTurnsAway ==
  ASSUME TypeInv, NEW w \in Worker,
         Dispatch(w) \/ Drive(w) \/ Record(w) \/ AdvanceRun(w)
  PROVE  TurnsAway(w) /\ UNCHANGED recons
<1> DEFINE t == task[w]
<1>1. t \in Task
  BY DEF TypeInv
<1>2. UNCHANGED recons
  BY DEF Dispatch, ClaimDispatch, Drive, Record, RecordReceipt, AdvanceRun,
         GivesUp, tables
<1>3. CASE Becomes(w, Idle)
  BY <1>2, <1>3, OtherPcs DEF TurnsAway
<1>4. CASE Becomes(w, [t EXCEPT !.pc = "drive"])
  <2>1. [t EXCEPT !.pc = "drive"].pc = "drive"
    BY <1>1 DEF Task
  <2> QED  BY <1>2, <1>4, <2>1 DEF TurnsAway
<1>5. ASSUME NEW receipt,
             Becomes(w, [t EXCEPT !.pc = "record", !.outcome = receipt])
      PROVE  TurnsAway(w)
  <2>1. [t EXCEPT !.pc = "record", !.outcome = receipt].pc = "record"
    BY <1>1 DEF Task
  <2> QED  BY <1>5, <2>1 DEF TurnsAway
<1>6. CASE Becomes(w, [t EXCEPT !.pc = "advance", !.outcome = None])
  <2>1. [t EXCEPT !.pc = "advance", !.outcome = None].pc = "advance"
    BY <1>1 DEF Task
  <2> QED  BY <1>2, <1>6, <2>1 DEF TurnsAway
<1>7. CASE Becomes(w, [t EXCEPT !.pc = "save"])
  <2>1. [t EXCEPT !.pc = "save"].pc = "save"
    BY <1>1 DEF Task
  <2> QED  BY <1>2, <1>7, <2>1 DEF TurnsAway
<1> QED
  BY <1>2, <1>3, <1>4, <1>5, <1>6, <1>7
     DEF Dispatch, Drive, Record, AdvanceRun, GivesUp

\* Admission, resumption, takeover, abandonment and the end of a task.
LEMMA OthersTurnAway ==
  ASSUME TypeInv, NEW w \in Worker,
         \/ CreateRun(w) \/ Submit(w) \/ SaveRun(w) \/ ScanSteps(w)
         \/ Abandon(w) \/ TaskDies(w)
         \/ \E adm \in Admissions : AdmitPlan(w, adm)
         \/ \E r \in RunId : ResumePlan(w, r)
         \/ \E t \in Takeovers : TakeOver(w, t)
         \/ \E h \in Abandonments : ProposeAbandonment(w, h)
  PROVE  TurnsAway(w) /\ UNCHANGED recons
<1>1. CASE CreateRun(w)
  BY <1>1, OtherPcs DEF TurnsAway, CreateRun, GivesUp, tables
<1>2. CASE Submit(w)
  BY <1>2, OtherPcs DEF TurnsAway, Submit, Reserve, GivesUp, tables
<1>3. CASE SaveRun(w)
  BY <1>3, OtherPcs DEF TurnsAway, SaveRun
<1>4. CASE ScanSteps(w)
  <2>1. UNCHANGED recons
    BY <1>4 DEF ScanSteps, tables
  <2>2. \/ Becomes(w, Idle)
        \/ \E r, p, i, a : Becomes(w, Ticket(r, p, i, a))
        \/ \E r, p, i, a : Becomes(w, Submission(r, p, i, a))
    BY <1>4 DEF ScanSteps
  <2> QED  BY <2>1, <2>2, OtherPcs DEF TurnsAway
<1>5. CASE Abandon(w)
  BY <1>5, OtherPcs DEF TurnsAway, Abandon, AbandonHaltedRun, GivesUp, tables
<1>6. CASE TaskDies(w)
  BY <1>6, OtherPcs DEF TurnsAway, TaskDies, tables
<1>7. ASSUME NEW adm \in Admissions, AdmitPlan(w, adm)
      PROVE  TurnsAway(w) /\ UNCHANGED recons
  BY <1>7, OtherPcs DEF TurnsAway, AdmitPlan, tables
<1>8. ASSUME NEW r \in RunId, ResumePlan(w, r)
      PROVE  TurnsAway(w) /\ UNCHANGED recons
  BY <1>8, OtherPcs DEF TurnsAway, ResumePlan
<1>9. ASSUME NEW t \in Takeovers, TakeOver(w, t)
      PROVE  TurnsAway(w) /\ UNCHANGED recons
  BY <1>9, OtherPcs DEF TurnsAway, TakeOver, TakeoverRecovery, tables
<1>10. ASSUME NEW h \in Abandonments, ProposeAbandonment(w, h)
       PROVE  TurnsAway(w) /\ UNCHANGED recons
  <2> DEFINE next == [Idle EXCEPT !.pc = "abandon", !.run = h.run,
                                  !.pair = h.pair, !.request = h.request,
                                  !.keys = LeaseKeys(h.pair)]
  <2>1. next.pc = "abandon"
    BY DEF Idle
  <2>2. Becomes(w, next) /\ UNCHANGED recons
    BY <1>10 DEF ProposeAbandonment, tables
  <2> QED  BY <2>1, <2>2 DEF TurnsAway
<1> QED
  BY <1>1, <1>2, <1>3, <1>4, <1>5, <1>6, <1>7, <1>8, <1>9, <1>10

\* The reconciliation of a worker is claimed in the journal, for the attempt
\* it has at hand.
LEMMA ReconcilerClaims ==
  ASSUME TypeInv, ReconInv, NEW w \in Worker, Reconciles(w)
  PROVE  /\ task[w].request \in ReconcileId
         /\ Claimed(task[w].request)
         /\ recons[task[w].request].attempt = task[w].attempt
<1>1. task[w].request \in ReconcileId
  BY DEF TypeInv, TasksSound, TaskSound, Reconciles
<1>2. recons[task[w].request]
        = [attempt |-> task[w].attempt, state |-> "claimed"]
  BY DEF ReconInv
<1> QED  BY <1>1, <1>2 DEF Claimed

\* claim_reconciliation: a new request, which nobody works on yet.
LEMMA ClaimReconClaims ==
  ASSUME TypeInv, ReconInv, NEW w \in Worker, NEW rec \in Reconciliations,
         ClaimRecon(w, rec)
  PROVE  ReconInv'
<1> DEFINE q == rec.request
           next == [Idle EXCEPT !.pc = "reconcile", !.request = q,
                                !.attempt = rec.attempt]
<1>1. q \in ReconcileId /\ recons[q] = NoRecon
  BY RequestsTyped DEF ClaimRecon, CanClaimReconciliation
<1>2. /\ recons'[q] = [attempt |-> rec.attempt, state |-> "claimed"]
      /\ \A o \in ReconcileId : o # q => recons'[o] = recons[o]
  BY <1>1 DEF ClaimRecon, ClaimReconciliation, TypeInv, StoreInv, TablesTyped
<1>3. \A v \in Worker : Reconciles(v) => /\ task[v].request \in ReconcileId
                                         /\ task[v].request # q
  BY <1>1, ReconcilerClaims DEF Claimed, NoRecon
<1>4. next.pc = "reconcile" /\ next.request = q /\ next.attempt = rec.attempt
  BY DEF Idle
<1>5. Becomes(w, next)
  BY DEF ClaimRecon
<1> HIDE DEF next
<1>6. task'[w] = next /\ \A v \in Worker : v # w => task'[v] = task[v]
  BY <1>5, Moves
<1>7. \A v \in Worker :
        Reconciles(v)' =>
          recons'[task'[v].request] =
            [attempt |-> task'[v].attempt, state |-> "claimed"]
  BY <1>2, <1>3, <1>4, <1>6 DEF ReconInv, Reconciles
<1>8. \A u, v \in Worker :
        Reconciles(u)' /\ Reconciles(v)'
          /\ task'[u].request = task'[v].request => u = v
  BY <1>3, <1>4, <1>6 DEF ReconInv, Reconciles
<1> QED  BY <1>7, <1>8 DEF ReconInv, Reconciles

\* backend.reconcile: the worker goes on with the same claim.
LEMMA ReconcileClaims ==
  ASSUME TypeInv, ReconInv, NEW w \in Worker, Reconcile(w)
  PROVE  ReconInv'
<1> DEFINE t == task[w]
<1>1. t \in Task /\ Reconciles(w) /\ recons' = recons
  BY DEF TypeInv, Reconcile, Reconciles, tables
<1>2. PICK verdict :
        Becomes(w, [t EXCEPT !.pc = "finish", !.outcome = verdict])
  BY DEF Reconcile
<1>3. /\ task'[w] = [t EXCEPT !.pc = "finish", !.outcome = verdict]
      /\ \A v \in Worker : v # w => task'[v] = task[v]
  BY <1>2, Moves
<1>4. task'[w].request = t.request /\ task'[w].attempt = t.attempt
  BY <1>1, <1>3 DEF Task
<1>5. \A v \in Worker :
        /\ Reconciles(v)' => Reconciles(v)
        /\ task'[v].request = task[v].request
        /\ task'[v].attempt = task[v].attempt
  BY <1>1, <1>3, <1>4 DEF Reconciles
<1> QED  BY <1>1, <1>5 DEF ReconInv

\* finish_reconciliation: the claim and its worker go together.
LEMMA FinishReconClaims ==
  ASSUME TypeInv, ReconInv, NEW w \in Worker, FinishRecon(w)
  PROVE  ReconInv'
<1> DEFINE q == task[w].request
<1>1. Reconciles(w)
  BY DEF FinishRecon, Reconciles
<1>2. \A v \in Worker : Reconciles(v)' => v # w /\ task'[v] = task[v]
  BY Moves, OtherPcs DEF FinishRecon, Reconciles
<1>3. \A v \in Worker :
        Reconciles(v) /\ v # w => /\ task[v].request \in ReconcileId
                                  /\ task[v].request # q
  BY <1>1, ReconcilerClaims DEF ReconInv
<1>4. \A o \in ReconcileId : o # q => recons'[o] = recons[o]
  BY DEF FinishRecon, FinishReconciliation, tables, TypeInv, StoreInv,
         TablesTyped
<1> QED  BY <1>2, <1>3, <1>4 DEF ReconInv, Reconciles

\* Every step keeps reconciliations with the worker that claimed them.
LEMMA NextClaims ==
  ASSUME TypeInv, ReconInv, [Next]_vars
  PROVE  ReconInv'
<1>1. CASE UNCHANGED vars
  BY <1>1 DEF ReconInv, Reconciles, vars, tables
<1>2. ASSUME NEW w \in Worker, TaskStep(w) \/ Request(w) \/ TaskDies(w)
      PROVE  ReconInv'
  BY <1>2, TurnsAwayStep, ExecutionTurnsAway, OthersTurnAway, ClaimReconClaims,
     ReconcileClaims, FinishReconClaims
     DEF TaskStep, Request
<1>3. ASSUME NEW g \in Grant, RevokeGrant(g) \/ GrantExpires(g)
      PROVE  ReconInv'
  BY <1>3 DEF ReconInv, Reconciles, RevokeGrant, GrantExpires
<1>4. CASE Restart
  BY <1>4, OtherPcs DEF Restart, ReconInv, Reconciles
<1> QED  BY <1>1, <1>2, <1>3, <1>4 DEF Next

-----------------------------------------------------------------------------
(* The promises. *)

\* The inductive invariant of the supervisor.
FullInv == TypeInv /\ ExecutionInv /\ ReconInv /\ CustodyInv

\* It holds at first, and every step keeps it and what CustodyStep says.
LEMMA FullInvHolds ==
  /\ Init => FullInv
  /\ FullInv /\ [Next]_vars => FullInv' /\ CustodyStep
<1>1. Init => FullInv
  <2>1. Init => ReconInv
    BY OtherPcs DEF Init, ReconInv, Reconciles
  <2> QED  BY <2>1, InitTyped, InitExecutes, InitCustody DEF FullInv
<1>2. FullInv /\ [Next]_vars => FullInv' /\ CustodyStep
  BY NextTyped, NextExecutes, NextClaims, NextCustody DEF FullInv, CustodyStep
<1> QED  BY <1>1, <1>2

\* What a worker at an instrument works on is open, and its pair leases every
\* resource of it.
LEMMA InstrumentIsLeased ==
  ASSUME FullInv, NEW w \in Worker, AtInstrument(w)
  PROVE  /\ task[w].attempt \in AttemptId
         /\ attempts[task[w].attempt].pair \in Pair
         /\ attempts[task[w].attempt].state =
              (IF task[w].pc = "drive" THEN "dispatched" ELSE "unknown")
         /\ OwnsAll(attempts[task[w].attempt].pair)
<1> DEFINE a == task[w].attempt
<1>1. TypeInv /\ ExecutionInv /\ ReconInv /\ CustodyInv /\ StoreInv
  BY DEF FullInv, TypeInv
<1>2. a \in AttemptId
  BY <1>1 DEF TypeInv, TasksSound, TaskSound, OnRun, AtInstrument
<1>3. CASE task[w].pc = "drive"
  <2>1. attempts[a].state = "dispatched"
    BY <1>1, <1>3 DEF ExecutionInv, Executes
  <2>2. attempts[a].pair \in Pair
    BY <1>1, <1>2, <2>1 DEF StoreInv, AttemptsSound
  <2>3. attempts[a].pair \notin retired
    BY <1>1, <1>2, <2>1
       DEF CustodyInv, ClosedPairsQuiet, HasDispatched, AttemptsOf
  <2>4. OwnsAll(attempts[a].pair)
    BY <1>1, <1>2, <2>1, <2>3
       DEF CustodyInv, UncertaintyHoldsLeases, Pending, Unsettled
  <2> QED  BY <1>2, <1>3, <2>1, <2>2, <2>4
<1>4. CASE task[w].pc = "reconcile"
  <2>1. /\ task[w].request \in ReconcileId
        /\ Claimed(task[w].request)
        /\ recons[task[w].request] = [attempt |-> a, state |-> "claimed"]
        /\ recons[task[w].request].attempt = a
    BY <1>1, <1>4, ReconcilerClaims DEF ReconInv, Reconciles
  <2>2. attempts[a].state = "unknown"
    BY <1>1, <2>1 DEF StoreInv, ReconsSound
  <2>3. attempts[a].pair \in Pair
    BY <1>1, <1>2, <2>2 DEF StoreInv, AttemptsSound
  <2>4. attempts[a].pair \notin retired
    BY <1>1, <1>2, <2>1
       DEF CustodyInv, ClosedPairsQuiet, HasActiveReconciliation,
           ActiveReconciliation, AttemptsOf
  <2>5. OwnsAll(attempts[a].pair)
    BY <1>1, <1>2, <2>2, <2>4
       DEF CustodyInv, UncertaintyHoldsLeases, Pending, Unsettled, Uncertain
  <2> QED  BY <1>2, <1>4, <2>2, <2>3, <2>5
<1> QED  BY <1>3, <1>4 DEF AtInstrument

\* Two workers never drive or reconcile the same physical resource at the same
\* time: both would work for its lessee, on its last step, and so on the same
\* attempt, which has one executor or one claimed reconciliation.
THEOREM InstrumentsExclusive ==
  Spec => []ExclusiveInstruments
<1>1. FullInv => ExclusiveInstruments
  <2> SUFFICES ASSUME FullInv, NEW v \in Worker, NEW w \in Worker, v # w,
                      AtInstrument(v), AtInstrument(w),
                      NEW r \in Resources[attempts[task[v].attempt].pair],
                      r \in Resources[attempts[task[w].attempt].pair]
               PROVE  FALSE
    BY DEF ExclusiveInstruments
  <2> DEFINE a == task[v].attempt
             b == task[w].attempt
             p == attempts[a].pair
  <2>1. TypeInv /\ ExecutionInv /\ ReconInv /\ StepsInOrder /\ StoreInv
    BY DEF FullInv, TypeInv, CustodyInv
  <2>2. /\ a \in AttemptId /\ b \in AttemptId /\ p \in Pair
        /\ attempts[a].state =
             (IF task[v].pc = "drive" THEN "dispatched" ELSE "unknown")
        /\ attempts[b].state =
             (IF task[w].pc = "drive" THEN "dispatched" ELSE "unknown")
        /\ OwnsAll(p) /\ OwnsAll(attempts[b].pair)
    BY InstrumentIsLeased
  <2>3. attempts[b].pair = p
    BY <2>2 DEF OwnsAll
  <2>4. a = b
    <3>1. a \in AttemptsOf(p) /\ b \in AttemptsOf(p)
      BY <2>2, <2>3 DEF AttemptsOf
    <3>2. attempts[a].state # "completed" /\ attempts[b].state # "completed"
      BY <2>2
    <3> HIDE DEF a, b, p
    <3> QED  BY <2>1, <2>2, <3>1, <3>2, OpenIsLast
  <2>5. CASE task[v].pc = "drive"
    <3>1. task[w].pc = "drive"
      BY <2>2, <2>4, <2>5
    <3> QED  BY <2>1, <2>4, <2>5, <3>1 DEF ExecutionInv, Executes
  <2>6. CASE task[v].pc # "drive"
    <3>1. Reconciles(v) /\ Reconciles(w)
      BY <2>2, <2>4, <2>6 DEF AtInstrument, Reconciles
    <3>2. /\ task[v].request \in ReconcileId /\ Claimed(task[v].request)
          /\ task[w].request \in ReconcileId /\ Claimed(task[w].request)
          /\ recons[task[v].request].attempt = a
          /\ recons[task[w].request].attempt = b
      BY <2>1, <3>1, ReconcilerClaims
    <3>3. task[v].request = task[w].request
      BY <2>1, <2>4, <3>2 DEF StoreInv, ReconsSound
    <3> QED  BY <2>1, <3>1, <3>3 DEF ReconInv
  <2> QED  BY <2>5, <2>6
<1> QED  BY FullInvHolds, <1>1, PTL DEF Spec

\* Effects whose outcome is open keep every lease of their pair.
THEOREM LeasesHeldInDoubt ==
  Spec => []UncertaintyHoldsLeases
<1>1. FullInv => UncertaintyHoldsLeases
  BY DEF FullInv, CustodyInv
<1> QED  BY FullInvHolds, <1>1, PTL DEF Spec

\* Nothing is in flight on a retired pair, and an abandoned pair has nothing
\* open and leases nothing.
THEOREM ClosedStaysQuiet ==
  Spec => []ClosedPairsQuiet
<1>1. FullInv => ClosedPairsQuiet
  BY DEF FullInv, CustodyInv
<1> QED  BY FullInvHolds, <1>1, PTL DEF Spec

\* Steps of a pair reach the journal once each and in order.
THEOREM StepsStayInOrder ==
  Spec => []StepsInOrder
<1>1. FullInv => StepsInOrder
  BY DEF FullInv, CustodyInv
<1> QED  BY FullInvHolds, <1>1, PTL DEF Spec

\* A recovery destination holds what it inherited until its plan is complete or
\* a further takeover retires it.
THEOREM InheritanceHeld ==
  Spec => []InheritedLeasesHeld
<1>1. FullInv => InheritedLeasesHeld
  BY DEF FullInv, CustodyInv
<1> QED  BY FullInvHolds, <1>1, PTL DEF Spec

\* Completed and rejected are final, and doubt ends only in proven completion.
THEOREM OutcomesStay ==
  Spec => OutcomesFinal
<1>1. FullInv /\ [Next]_vars =>
        [\A a \in AttemptId :
           /\ attempts[a].state \in {"completed", "rejected"} =>
                attempts'[a].state = attempts[a].state
           /\ attempts[a].state \in Uncertain =>
                attempts'[a].state \in {"unknown", "completed",
                                        attempts[a].state}]_vars
  BY FullInvHolds DEF CustodyStep, OutcomesKept
<1> QED  BY FullInvHolds, <1>1, PTL DEF Spec, OutcomesFinal

\* A lease passes from pair to pair only in the takeover that retires the old
\* owner.
THEOREM LeasesMoveByTakeover ==
  Spec => LeasesChangeHandsByTakeover
<1>1. FullInv /\ [Next]_vars =>
        [\A r \in Resource :
           leases[r] # None /\ leases'[r] \notin {None, leases[r]} =>
             /\ leases[r] \in retired'
             /\ \E t \in takeovers' \ takeovers : t.pair = leases'[r]]_vars
  BY FullInvHolds DEF CustodyStep, LeasesKept
<1> QED  BY FullInvHolds, <1>1, PTL DEF Spec, LeasesChangeHandsByTakeover

\* The journal implements Custody: a resource in doubt always has one
\* responsible pair, which resolves the doubt or hands it over.
THEOREM CustodyKept ==
  Spec => KeepsCustody
<1>1. Init => C!Init
  BY InitCustody
<1>2. FullInv /\ [Next]_vars => [C!Next]_<<leases, InDoubt>>
  BY FullInvHolds DEF CustodyStep
<1> QED  BY FullInvHolds, <1>1, <1>2, PTL DEF Spec, KeepsCustody, C!Spec

-----------------------------------------------------------------------------
(* Cursors.  A cursor is moved by the task that completed the step it is at, *)
(* or by a repair that looks at the attempts; both need to know which       *)
(* attempts the steps of a run are, and that a run keeps them.              *)

StepOf(rs, r, i) == IF i = 0 THEN rs[r].first ELSE <<r, i>>

\* The takeovers that would be taken for repetitions of requests.
RepeatedTakeovers == {t \in Takeovers : TakenForRepeated(t)}

\* A task was started by one of them, in the name of a run that does not start
\* with the attempt, or is not there yet.
Strays(t, rs, us) ==
  \E u \in us :
    /\ u.run = t.run /\ u.first # rs[t.run].first
    /\ rs[t.run] = NoRun => u.first = t.attempt /\ t.index = 0 /\ t.pc # "save"

\* A task on a run has the attempt of its step at hand, and writes the cursor
\* only when all steps so far are completed.
OnItsRun(t, rs, as) ==
  /\ rs[t.run] # NoRun /\ t.attempt = StepOf(rs, t.run, t.index)
  /\ t.pc = "save" =>
       \A i \in 0..t.index : as[StepOf(rs, t.run, i)].state = "completed"

\* A task goes to the cursor when the attempt at hand is completed, and is on
\* its run unless it strays.
AtStep(t, rs, as, us) ==
  /\ t.pc = "advance" => as[t.attempt].state = "completed"
  /\ t.pc \in OnRun => OnItsRun(t, rs, as) \/ Strays(t, rs, us)

TasksAtStep ==
  \A w \in Worker : AtStep(task[w], runs, attempts, RepeatedTakeovers)

\* The run of a takeover starts with the attempt of the takeover.
TakenRuns ==
  \A t \in takeovers : runs[t.run] # NoRun /\ runs[t.run].first = t.first

\* A run stays, with its first attempt.
RunsStay ==
  \A r \in RunId :
    runs[r] # NoRun => /\ runs'[r] # NoRun
                       /\ runs'[r].first = runs[r].first

\* An attempt keeps its request, under which no takeover can be recorded.
RequestsStay ==
  /\ \A a \in AttemptId :
       attempts[a].request # None => attempts'[a].request = attempts[a].request
  /\ \A t \in takeovers' \ takeovers : ~Existing(t.request)

\* What is taken for a repetition stays so.
RepeatsStay == RepeatedTakeovers \subseteq RepeatedTakeovers'

LedgerStep == RunsStay /\ TakenRuns' /\ RequestsStay

\* Steps that touch neither runs nor takeovers nor the request of an attempt.
LEMMA LedgerKept ==
  ASSUME TakenRuns, UNCHANGED <<runs, takeovers>>,
         \A a \in AttemptId : attempts'[a].request = attempts[a].request
  PROVE  LedgerStep
BY DEF LedgerStep, RunsStay, TakenRuns, RequestsStay

\* Steps that change only runs.
LEMMA LedgerOfRuns ==
  ASSUME TakenRuns, RunsStay, UNCHANGED <<attempts, takeovers>>,
         \A t \in takeovers : t.run \in RunId
  PROVE  LedgerStep
BY DEF LedgerStep, RunsStay, TakenRuns, RequestsStay

\* create_run
LEMMA CreateRunLedger ==
  ASSUME TypeInv, TakenRuns, NEW w \in Worker, CreateRun(w)
  PROVE  LedgerStep
<1> DEFINE t == task[w]
<1>1. /\ t.run \in RunId /\ t.pair \in Pair /\ t.attempt \in FirstId
  BY DEF TypeInv, TasksSound, TaskSound, CreateRun, OnRun
<1>2. \/ runs' = runs
      \/ /\ runs[t.run] = NoRun
         /\ runs' = [runs EXCEPT ![t.run] =
                       [pair |-> t.pair, first |-> t.attempt,
                        request |-> t.run, cursor |-> 0]]
  BY DEF CreateRun, RunsAfterCreate, GivesUp, tables
<1>3. RunsStay
  BY <1>1, <1>2 DEF RunsStay, TypeInv, StoreInv, TablesTyped
<1>4. UNCHANGED <<attempts, takeovers>> /\ \A u \in takeovers : u.run \in RunId
  BY DEF CreateRun, GivesUp, tables, TypeInv, StoreInv, TablesTyped,
         TakeoverRecord
<1> QED  BY <1>3, <1>4, LedgerOfRuns

\* advance_run and repair_run_cursor write a cursor only.
LEMMA CursorLedger ==
  ASSUME TypeInv, TakenRuns, NEW w \in Worker,
         SaveRun(w) \/ \E r \in RunId : ResumePlan(w, r)
  PROVE  LedgerStep
<1>1. \E r \in RunId : \E n :
        runs' = runs \/ runs' = [runs EXCEPT ![r].cursor = n]
  <2>1. CASE SaveRun(w)
    <3>1. task[w].run \in RunId
      BY <2>1 DEF TypeInv, TasksSound, TaskSound, SaveRun, OnRun
    <3> QED  BY <2>1, <3>1 DEF SaveRun
  <2>2. ASSUME NEW r \in RunId, ResumePlan(w, r)
        PROVE  \E n : runs' = runs \/ runs' = [runs EXCEPT ![r].cursor = n]
    BY <2>2 DEF ResumePlan, RunsAfterRepair
  <2> QED  BY <2>1, <2>2
<1>2. \A o \in RunId : /\ runs'[o].pair = runs[o].pair
                       /\ runs'[o].first = runs[o].first
  BY <1>1 DEF TypeInv, StoreInv, TablesTyped, RunRow
<1>3. RunsStay
  BY <1>2, NoneIsNoValue DEF RunsStay, TypeInv, StoreInv, RunsSound, NoRun
<1>4. UNCHANGED <<attempts, takeovers>> /\ \A u \in takeovers : u.run \in RunId
  BY DEF SaveRun, ResumePlan, TypeInv, StoreInv, TablesTyped, TakeoverRecord
<1> QED  BY <1>3, <1>4, LedgerOfRuns

\* submit: an attempt gets its request with its row.
LEMMA SubmitLedger ==
  ASSUME TypeInv, TakenRuns, NEW w \in Worker, Submit(w)
  PROVE  LedgerStep
<1> DEFINE t == task[w]
           req == StepRequest(t.run, t.index)
<1>1. t.attempt \in AttemptId
  BY DEF TypeInv, TasksSound, TaskSound, Submit, OnRun
<1> HIDE DEF req
<1>2. CASE /\ CanReserve(t.attempt, t.pair, t.index, req)
           /\ Reserve(t.attempt, t.pair, t.index, req)
  <2>1. /\ UNCHANGED <<runs, takeovers>>
        /\ attempts' = [attempts EXCEPT ![t.attempt] =
                          Intent(t.pair, t.index, req)]
        /\ attempts[t.attempt].request = None
    BY <1>2 DEF Reserve, CanReserve, NoAttempt
  <2>2. \A a \in AttemptId :
          a # t.attempt => attempts'[a].request = attempts[a].request
    BY <1>1, <2>1 DEF TypeInv, StoreInv, TablesTyped
  <2> QED
    BY <2>1, <2>2 DEF LedgerStep, RunsStay, TakenRuns, RequestsStay
<1>3. CASE UNCHANGED tables
  BY <1>3, LedgerKept DEF tables
<1> QED  BY <1>2, <1>3 DEF Submit, GivesUp, req

\* takeover_recovery: a takeover is recorded with its run, under a request that
\* no attempt has.
LEMMA TakeOverLedger ==
  ASSUME TypeInv, TakenRuns, NEW w \in Worker, NEW t \in Takeovers,
         TakeOver(w, t)
  PROVE  LedgerStep
<1>1. /\ t.run \in RunId /\ t.first \in AttemptId /\ t.first \in FirstId
      /\ t.pair \in Pair
  BY RequestsTyped DEF TakeoverRecord, AttemptId
<1>2. CASE CanTakeover(t) /\ TakeoverRecovery(t)
  <2> DEFINE row == [pair |-> t.pair, first |-> t.first,
                     request |-> t.request, cursor |-> 0]
  <2>1. /\ runs[t.run] = NoRun /\ ~Existing(t.request)
        /\ attempts[t.first].request = None
        /\ runs' = [runs EXCEPT ![t.run] = row]
        /\ takeovers' = takeovers \cup {t}
        /\ attempts' = [attempts EXCEPT ![t.first] =
                          Intent(t.pair, 0, t.request)]
    BY <1>2 DEF CanTakeover, TakeoverRecovery, NoAttempt
  <2>2. row.first = t.first /\ row # NoRun
    BY <1>1, NoneIsNoValue DEF NoRun
  <2> HIDE DEF row
  <2>3. /\ runs'[t.run] = row
        /\ \A r \in RunId : r # t.run => runs'[r] = runs[r]
    BY <1>1, <2>1 DEF TypeInv, StoreInv, TablesTyped
  <2>4. RunsStay
    BY <2>1, <2>3 DEF RunsStay
  <2>5. TakenRuns'
    <3>1. \A u \in takeovers : u.run \in RunId /\ u.run # t.run
      BY <2>1 DEF TakenRuns, TypeInv, StoreInv, TablesTyped, TakeoverRecord
    <3> QED  BY <2>1, <2>2, <2>3, <3>1 DEF TakenRuns
  <2>6. RequestsStay
    <3>1. \A a \in AttemptId :
            a # t.first => attempts'[a].request = attempts[a].request
      BY <1>1, <2>1 DEF TypeInv, StoreInv, TablesTyped
    <3> QED  BY <2>1, <3>1 DEF RequestsStay
  <2> QED  BY <2>4, <2>5, <2>6 DEF LedgerStep
<1>3. CASE UNCHANGED tables
  BY <1>3, LedgerKept DEF tables
<1> QED  BY <1>2, <1>3 DEF TakeOver

\* Outcomes move under the request they had.
LEMMA RequestsKept ==
  ASSUME TypeInv,
         \/ \E w \in Worker : Dispatch(w) \/ Record(w) \/ Abandon(w)
                              \/ FinishRecon(w)
         \/ \E w \in Worker, rec \in Reconciliations : ClaimRecon(w, rec)
         \/ Restart
  PROVE  /\ UNCHANGED <<runs, takeovers>>
         /\ \A a \in AttemptId : attempts'[a].request = attempts[a].request
<1>1. attempts \in [AttemptId -> AttemptRow]
  BY DEF TypeInv, StoreInv, TablesTyped
<1>2. UNCHANGED <<runs, takeovers>>
  BY DEF Dispatch, ClaimDispatch, Record, RecordReceipt, Abandon,
         AbandonHaltedRun, FinishRecon, FinishReconciliation, ClaimRecon,
         ClaimReconciliation, Restart, RecoverInterruptedDispatches, GivesUp,
         tables
<1>3. ASSUME NEW w \in Worker, Dispatch(w)
      PROVE  \A a \in AttemptId : attempts'[a].request = attempts[a].request
  BY <1>1, <1>3 DEF Dispatch, ClaimDispatch, GivesUp, tables, AttemptRow
<1>4. ASSUME NEW w \in Worker, Record(w)
      PROVE  \A a \in AttemptId : attempts'[a].request = attempts[a].request
  <2>1. task[w].attempt \in AttemptId
    BY <1>4 DEF TypeInv, TasksSound, TaskSound, Record, OnRun
  <2>2. \/ attempts' = attempts
        \/ attempts' = Settle(task[w].attempt, task[w].outcome)
    BY <1>4 DEF Record, RecordReceipt, GivesUp, tables
  <2> QED  BY <1>1, <2>1, <2>2 DEF Settle, AttemptRow
<1>5. ASSUME NEW w \in Worker, Abandon(w)
      PROVE  \A a \in AttemptId : attempts'[a].request = attempts[a].request
  <2>1. \/ attempts' = attempts
        \/ \E h : AbandonHaltedRun(h)
    BY <1>5 DEF Abandon, GivesUp, tables
  <2>2. ASSUME NEW h, AbandonHaltedRun(h)
        PROVE  \A a \in AttemptId :
                 attempts'[a].request = attempts[a].request
    BY <1>1, <2>2, AbandonedRows
  <2> QED  BY <2>1, <2>2
<1>6. ASSUME NEW w \in Worker, FinishRecon(w)
      PROVE  \A a \in AttemptId : attempts'[a].request = attempts[a].request
  <2> DEFINE q == task[w].request
  <2>1. CASE Claimed(q)
    <3>1. q \in ReconcileId /\ recons[q].attempt \in AttemptId
      BY <1>6, <2>1 DEF TypeInv, TasksSound, TaskSound, FinishRecon, StoreInv,
                        ReconsSound
    <3>2. attempts' = Resolved(recons[q].attempt, task[w].outcome)
      BY <1>6, <2>1 DEF FinishRecon, FinishReconciliation, Claimed
    <3> QED  BY <1>1, <3>1, <3>2 DEF Resolved, AttemptRow
  <2>2. CASE ~Claimed(q)
    BY <1>6, <2>2 DEF FinishRecon, Claimed, tables
  <2> QED  BY <2>1, <2>2
<1>7. ASSUME NEW w \in Worker, NEW rec \in Reconciliations, ClaimRecon(w, rec)
      PROVE  \A a \in AttemptId : attempts'[a].request = attempts[a].request
  BY <1>1, <1>7 DEF ClaimRecon, ClaimReconciliation, AttemptRow
<1>8. CASE Restart
  BY <1>1, <1>8 DEF Restart, RecoverInterruptedDispatches, Interrupted,
                    AttemptRow
<1> QED  BY <1>2, <1>3, <1>4, <1>5, <1>6, <1>7, <1>8

\* Every step keeps the runs and the requests.
LEMMA NextLedger ==
  ASSUME TypeInv, TakenRuns, [Next]_vars
  PROVE  LedgerStep
<1>1. CASE UNCHANGED vars
  BY <1>1, LedgerKept DEF vars, tables
<1>2. ASSUME NEW w \in Worker, TaskStep(w)
      PROVE  LedgerStep
  <2>1. CASE Drive(w) \/ AdvanceRun(w) \/ ScanSteps(w) \/ Reconcile(w)
    BY <2>1, LedgerKept
       DEF Drive, AdvanceRun, ScanSteps, Reconcile, GivesUp, tables
  <2>2. CASE Dispatch(w) \/ Record(w) \/ Abandon(w) \/ FinishRecon(w)
    BY <2>2, RequestsKept, LedgerKept
  <2> QED
    BY <1>2, <2>1, <2>2, CreateRunLedger, CursorLedger, SubmitLedger
       DEF TaskStep
<1>3. ASSUME NEW w \in Worker, Request(w)
      PROVE  LedgerStep
  <2>1. ASSUME \/ \E adm \in Admissions : AdmitPlan(w, adm)
               \/ \E h \in Abandonments : ProposeAbandonment(w, h)
        PROVE  LedgerStep
    BY <2>1, LedgerKept DEF AdmitPlan, ProposeAbandonment, tables
  <2>2. ASSUME NEW rec \in Reconciliations, ClaimRecon(w, rec)
        PROVE  LedgerStep
    BY <2>2, RequestsKept, LedgerKept
  <2> QED  BY <1>3, <2>1, <2>2, CursorLedger, TakeOverLedger DEF Request
<1>4. ASSUME NEW w \in Worker, TaskDies(w)
      PROVE  LedgerStep
  BY <1>4, LedgerKept DEF TaskDies, tables
<1>5. ASSUME NEW g \in Grant, RevokeGrant(g) \/ GrantExpires(g)
      PROVE  LedgerStep
  BY <1>5, LedgerKept DEF RevokeGrant, GrantExpires
<1>6. CASE Restart
  BY <1>6, RequestsKept, LedgerKept
<1> QED  BY <1>1, <1>2, <1>3, <1>4, <1>5, <1>6 DEF Next

\* A takeover that is taken for a repetition never becomes a takeover of its own.
LEMMA RepeatsAreKept ==
  ASSUME TypeInv, RowsKept, RequestsStay
  PROVE  RepeatsStay
<1> SUFFICES ASSUME NEW t \in Takeovers, TakenForRepeated(t)
             PROVE  TakenForRepeated(t)'
  BY DEF RepeatsStay, RepeatedTakeovers
<1>1. /\ t.first \in AttemptId /\ t.pair \in Pair
      /\ t.request \in RequestId /\ t.request # None
  BY RequestsTyped, NoneIsNoValue DEF TakeoverRecord, AttemptId, RequestId
<1>2. /\ attempts[t.first].request = t.request
      /\ attempts[t.first].pair = t.pair
      /\ \A u \in takeovers : u.request # t.request
  BY DEF TakenForRepeated
<1>3. Existing(t.request)
  BY <1>1, <1>2 DEF Existing
<1>4. /\ attempts'[t.first].request = t.request
      /\ attempts'[t.first].pair = t.pair
  BY <1>1, <1>2 DEF RequestsStay, RowsKept
<1>5. \A u \in takeovers' : u.request # t.request
  BY <1>2, <1>3 DEF RequestsStay
<1> QED  BY <1>4, <1>5 DEF TakenForRepeated

\* The steps of a run are attempts, and stay the same ones.
LEMMA StepsOfRun ==
  ASSUME StoreInv, NEW r \in RunId, runs[r] # NoRun, NEW i \in StepIndex
  PROVE  /\ StepOf(runs, r, i) \in AttemptId
         /\ StepAttempt(r, i) = StepOf(runs, r, i)
         /\ RunsStay => StepOf(runs', r, i) = StepOf(runs, r, i)
<1>1. runs[r].first \in FirstId
  BY DEF StoreInv, RunsSound
<1>2. i # 0 => i \in 1..(MaxOps - 1)
  BY ParametersTyped DEF StepIndex
<1> QED  BY <1>1, <1>2 DEF StepOf, StepAttempt, AttemptId, RunsStay

\* A task that strays goes on doing so, or its run is created after all and
\* starts with the attempt it has at hand.
LEMMA StraysKept ==
  ASSUME TypeInv, RunsStay, RepeatsStay, NEW t \in Task,
         TaskSound(t, runs, attempts), t.pc \in OnRun,
         Strays(t, runs, RepeatedTakeovers)
  PROVE  OnItsRun(t, runs', attempts') \/ Strays(t, runs', RepeatedTakeovers')
<1>1. PICK u \in RepeatedTakeovers :
        /\ u.run = t.run /\ u.first # runs[t.run].first
        /\ runs[t.run] = NoRun =>
             u.first = t.attempt /\ t.index = 0 /\ t.pc # "save"
  BY DEF Strays
<1>2. u \in RepeatedTakeovers' /\ u.first \in FirstId /\ t.run \in RunId
  BY <1>1, RequestsTyped
     DEF RepeatsStay, RepeatedTakeovers, TakeoverRecord, TaskSound
<1>3. CASE runs[t.run] # NoRun
  BY <1>1, <1>2, <1>3 DEF RunsStay, Strays
<1>4. CASE runs[t.run] = NoRun /\ u.first # runs'[t.run].first
  BY <1>1, <1>2, <1>4 DEF Strays
<1>5. CASE runs[t.run] = NoRun /\ u.first = runs'[t.run].first
  <2>1. runs'[t.run] # NoRun
    BY <1>2, <1>5, NoneIsNoValue DEF NoRun, AttemptId
  <2> QED  BY <1>1, <1>5, <2>1 DEF OnItsRun, StepOf
<1> QED  BY <1>3, <1>4, <1>5

\* A task on its run stays there while others act.
LEMMA OnItsRunKept ==
  ASSUME TypeInv, RunsStay, OutcomesKept, NEW t \in Task,
         TaskSound(t, runs, attempts), t.pc \in OnRun,
         OnItsRun(t, runs, attempts)
  PROVE  OnItsRun(t, runs', attempts')
<1>1. /\ t.run \in RunId /\ t.attempt \in AttemptId /\ t.index \in StepIndex
      /\ runs[t.run] # NoRun /\ runs'[t.run] # NoRun
      /\ t.attempt = StepOf(runs, t.run, t.index)
  BY DEF TaskSound, OnItsRun, Task, RunsStay
<1>2. \A i \in 0..t.index : i \in StepIndex
  BY <1>1, ParametersTyped DEF StepIndex
<1>3. \A i \in 0..t.index : /\ StepOf(runs, t.run, i) \in AttemptId
                            /\ StepOf(runs', t.run, i) = StepOf(runs, t.run, i)
  BY <1>1, <1>2, StepsOfRun DEF TypeInv
<1>4. t.attempt = StepOf(runs', t.run, t.index)
  BY <1>1, StepsOfRun DEF TypeInv
<1>5. t.pc = "save" =>
        \A i \in 0..t.index :
          attempts'[StepOf(runs', t.run, i)].state = "completed"
  BY <1>3 DEF OnItsRun, OutcomesKept
<1> QED  BY <1>1, <1>4, <1>5 DEF OnItsRun

\* A task stays at its step while others act.
LEMMA AtStepKept ==
  ASSUME TypeInv, RunsStay, RepeatsStay, OutcomesKept, NEW t \in Task,
         TaskSound(t, runs, attempts),
         AtStep(t, runs, attempts, RepeatedTakeovers)
  PROVE  AtStep(t, runs', attempts', RepeatedTakeovers')
<1>1. t.pc = "advance" => attempts'[t.attempt].state = "completed"
  BY DEF AtStep, OutcomesKept, TaskSound, OnRun
<1>2. t.pc \in OnRun =>
        \/ OnItsRun(t, runs', attempts')
        \/ Strays(t, runs', RepeatedTakeovers')
  BY OnItsRunKept, StraysKept DEF AtStep
<1> QED  BY <1>1, <1>2 DEF AtStep

\* The state a worker becomes is at its step.
GoesOn(w) ==
  \E next : /\ Becomes(w, next)
            /\ AtStep(next, runs', attempts', RepeatedTakeovers')

\* A step of one worker leaves the others at theirs.
LEMMA GoesOnStep ==
  ASSUME TypeInv, TasksAtStep, RunsStay, RepeatsStay, OutcomesKept,
         NEW w \in Worker, GoesOn(w)
  PROVE  TasksAtStep'
<1>1. PICK next : Becomes(w, next) /\ AtStep(next, runs', attempts', RepeatedTakeovers')
  BY DEF GoesOn
<1>2. \A v \in Worker : AtStep(task[v], runs', attempts', RepeatedTakeovers')
  BY AtStepKept DEF TypeInv, TasksSound, TasksAtStep
<1> QED  BY <1>1, <1>2, Moves DEF TasksAtStep

\* A task that goes on with the attempt it has at hand stays at its step.
LEMMA SameStep ==
  ASSUME NEW t, NEW next, NEW rs, NEW as, NEW us, AtStep(t, rs, as, us),
         t.pc \in OnRun, next.pc \in {"claim", "drive", "record", "advance"},
         next.pc = "advance" => as[next.attempt].state = "completed",
         next.run = t.run, next.index = t.index, next.attempt = t.attempt
  PROVE  AtStep(next, rs, as, us)
<1>1. CASE OnItsRun(t, rs, as)
  <2>1. OnItsRun(next, rs, as)
    BY <1>1 DEF OnItsRun
  <2> QED  BY <2>1 DEF AtStep
<1>2. CASE Strays(t, rs, us)
  <2>1. Strays(next, rs, us)
    BY <1>2 DEF Strays
  <2> QED  BY <2>1 DEF AtStep
<1> QED  BY <1>1, <1>2 DEF AtStep

\* A task that is not on a run is at no step.
LEMMA OffRun ==
  ASSUME NEW w \in Worker, NEW next, Becomes(w, next), next.pc \notin OnRun
  PROVE  GoesOn(w)
BY DEF GoesOn, AtStep, OnRun

\* Admission: the first step of a run, which is inserted or already there.
LEMMA AdmissionGoesOn ==
  ASSUME TypeInv, TasksAtStep, RunsStay, RepeatsStay, OutcomesKept, NEW w \in Worker,
         \/ \E adm \in Admissions : AdmitPlan(w, adm)
         \/ CreateRun(w) \/ Submit(w)
  PROVE  GoesOn(w)
<1> DEFINE t == task[w]
<1>1. ASSUME NEW adm \in Admissions, AdmitPlan(w, adm)
      PROVE  GoesOn(w)
  BY <1>1, OtherPcs, OffRun DEF AdmitPlan, OnRun
<1>2. CASE Becomes(w, Idle)
  BY <1>2, OtherPcs, OffRun DEF OnRun
<1>3. CASE CreateRun(w) /\ ~Becomes(w, Idle)
  <2> DEFINE next == Submission(t.run, t.pair, 0, t.attempt)
  <2>1. /\ t.run \in RunId /\ t.pair \in Pair /\ t.attempt \in FirstId
    BY <1>3 DEF TypeInv, TasksSound, TaskSound, CreateRun, OnRun
  <2>2. /\ Becomes(w, next)
        /\ CanCreateRun(t.run, t.pair, t.attempt)
        /\ runs' = RunsAfterCreate(t.run, t.pair, t.attempt)
    BY <1>3 DEF CreateRun, GivesUp
  <2>3. /\ next.pc = "submit" /\ next.run = t.run /\ next.index = 0
        /\ next.attempt = t.attempt
    BY DEF Submission, Ticket, Idle
  <2>4. runs'[t.run].first = t.attempt /\ runs'[t.run].pair = t.pair
    BY <2>1, <2>2 DEF RunsAfterCreate, CanCreateRun, TypeInv, StoreInv,
                      TablesTyped
  <2>5. runs'[t.run] # NoRun
    BY <2>1, <2>4, NoneIsNoValue DEF NoRun
  <2> HIDE DEF next
  <2>6. AtStep(next, runs', attempts', RepeatedTakeovers')
    BY <2>3, <2>4, <2>5 DEF AtStep, OnItsRun, StepOf
  <2> QED  BY <2>2, <2>6 DEF GoesOn
<1>4. CASE Submit(w) /\ ~Becomes(w, Idle)
  <2> DEFINE next == Ticket(t.run, t.pair, t.index, t.attempt)
  <2>1. AtStep(t, runs', attempts', RepeatedTakeovers') /\ t.pc = "submit"
    BY <1>4, AtStepKept DEF TypeInv, TasksSound, TasksAtStep, Submit
  <2>2. /\ next.pc = "claim" /\ next.run = t.run /\ next.index = t.index
        /\ next.attempt = t.attempt
    BY DEF Ticket, Idle
  <2>3. Becomes(w, next)
    BY <1>4 DEF Submit, GivesUp
  <2> HIDE DEF next
  <2>4. AtStep(next, runs', attempts', RepeatedTakeovers')
    BY <2>1, <2>2, SameStep DEF OnRun
  <2> QED  BY <2>3, <2>4 DEF GoesOn
<1> QED  BY <1>1, <1>2, <1>3, <1>4

\* Execution: the task keeps its attempt until the step is completed.
LEMMA ExecutionGoesOn ==
  ASSUME TypeInv, ExecutionInv, TasksAtStep, CursorBacked, RunsStay,
         RepeatsStay, OutcomesKept, NEW w \in Worker,
         Dispatch(w) \/ Drive(w) \/ Record(w) \/ AdvanceRun(w) \/ SaveRun(w)
  PROVE  GoesOn(w)
<1> DEFINE t == task[w]
<1>1. /\ t \in Task /\ t.pc \in OnRun /\ AtStep(t, runs', attempts', RepeatedTakeovers')
      /\ AtStep(t, runs, attempts, RepeatedTakeovers)
      /\ t.run \in RunId /\ t.attempt \in AttemptId /\ t.index \in StepIndex
  <2>1. /\ t \in Task /\ AtStep(t, runs, attempts, RepeatedTakeovers)
        /\ AtStep(t, runs', attempts', RepeatedTakeovers') /\ TaskSound(t, runs, attempts)
    BY AtStepKept DEF TypeInv, TasksSound, TasksAtStep
  <2>2. t.pc \in OnRun
    BY DEF Dispatch, Drive, Record, AdvanceRun, SaveRun, OnRun
  <2> QED  BY <2>1, <2>2 DEF TaskSound, Task
<1>2. CASE Becomes(w, Idle)
  BY <1>2, OtherPcs, OffRun DEF OnRun
<1>3. CASE Dispatch(w) /\ ~Becomes(w, Idle)
  <2> DEFINE next == [t EXCEPT !.pc = "drive"]
  <2>1. Becomes(w, next)
    BY <1>3 DEF Dispatch, GivesUp
  <2>2. AtStep(next, runs', attempts', RepeatedTakeovers')
    <3>1. /\ next.pc = "drive" /\ next.run = t.run /\ next.index = t.index
          /\ next.attempt = t.attempt
      BY <1>1 DEF Task
    <3> HIDE DEF next
    <3> QED  BY <1>1, <3>1, SameStep
  <2> QED  BY <2>1, <2>2 DEF GoesOn
<1>4. CASE Drive(w)
  <2>1. PICK receipt :
          Becomes(w, [t EXCEPT !.pc = "record", !.outcome = receipt])
    BY <1>4 DEF Drive
  <2> DEFINE next == [t EXCEPT !.pc = "record", !.outcome = receipt]
  <2>2. AtStep(next, runs', attempts', RepeatedTakeovers')
    <3>1. /\ next.pc = "record" /\ next.run = t.run /\ next.index = t.index
          /\ next.attempt = t.attempt
      BY <1>1 DEF Task
    <3> HIDE DEF next
    <3> QED  BY <1>1, <3>1, SameStep
  <2> QED  BY <2>1, <2>2 DEF GoesOn
<1>5. CASE Record(w) /\ ~Becomes(w, Idle)
  <2> DEFINE next == [t EXCEPT !.pc = "advance", !.outcome = None]
  <2>1. /\ Becomes(w, next) /\ t.outcome = "completed"
        /\ attempts' = Settle(t.attempt, t.outcome)
    BY <1>5 DEF Record, RecordReceipt, GivesUp
  <2>2. attempts'[t.attempt].state = "completed"
    BY <1>1, <2>1 DEF Settle, TypeInv, StoreInv, TablesTyped, AttemptRow
  <2>3. AtStep(next, runs', attempts', RepeatedTakeovers')
    <3>1. /\ next.pc = "advance" /\ next.run = t.run /\ next.index = t.index
          /\ next.attempt = t.attempt
      BY <1>1 DEF Task
    <3> HIDE DEF next
    <3> QED  BY <1>1, <2>2, <3>1, SameStep
  <2> QED  BY <2>1, <2>3 DEF GoesOn
<1>6. CASE AdvanceRun(w) /\ ~Becomes(w, Idle)
  <2> DEFINE next == [t EXCEPT !.pc = "save"]
  <2>1. /\ Becomes(w, next) /\ t.pc = "advance"
        /\ runs[t.run].cursor = t.index /\ runs[t.run] # NoRun
        /\ runs' = runs /\ attempts' = attempts
    BY <1>6 DEF AdvanceRun, GivesUp, tables
  <2>2. /\ next.pc = "save" /\ next.run = t.run /\ next.index = t.index
        /\ next.attempt = t.attempt
    BY <1>1 DEF Task
  <2> HIDE DEF next
  <2>3. CASE Strays(t, runs', RepeatedTakeovers')
    <3>1. Strays(next, runs', RepeatedTakeovers')
      BY <2>1, <2>2, <2>3 DEF Strays
    <3> QED  BY <2>1, <2>2, <3>1 DEF AtStep, GoesOn
  <2>4. CASE ~Strays(t, runs', RepeatedTakeovers')
    <3>1. OnItsRun(t, runs, attempts) /\ attempts[t.attempt].state = "completed"
      BY <1>1, <2>1, <2>4 DEF AtStep
    <3>2. attempts[StepOf(runs, t.run, t.index)].state = "completed"
      BY <3>1 DEF OnItsRun
    <3>3. ~Misnamed(t.run)
      BY <2>1, <2>4 DEF Misnamed, RepeatedTakeovers, RepeatsStay, Strays
    <3>4. ASSUME NEW i \in 0..t.index
          PROVE  attempts[StepOf(runs, t.run, i)].state = "completed"
      <4>1. t.index \in Nat /\ i \in StepIndex
        BY <1>1, ParametersTyped DEF StepIndex
      <4>2. CASE i # t.index
        <5>1. i \in 0..(runs[t.run].cursor - 1)
          BY <2>1, <4>1, <4>2
        <5>2. attempts[StepAttempt(t.run, i)].state = "completed"
          BY <1>1, <3>3, <5>1 DEF CursorBacked
        <5> QED  BY <1>1, <2>1, <4>1, <5>2, StepsOfRun DEF TypeInv
      <4> QED  BY <3>2, <4>2
    <3>5. OnItsRun(next, runs', attempts')
      BY <2>1, <2>2, <3>1, <3>4 DEF OnItsRun
    <3> QED  BY <2>1, <2>2, <3>5 DEF AtStep, GoesOn
  <2> QED  BY <2>3, <2>4
<1>7. CASE SaveRun(w) /\ ~Becomes(w, Idle)
  <2> DEFINE a == StepAttempt(t.run, t.index + 1)
             next == Submission(t.run, t.pair, t.index + 1, a)
  <2>1. Becomes(w, next)
    BY <1>7 DEF SaveRun
  <2>2. t.index + 1 # 0 /\ a = <<t.run, t.index + 1>>
    BY <1>1, ParametersTyped DEF StepAttempt, StepIndex
  <2>3. /\ next.pc = "submit" /\ next.run = t.run
        /\ next.index = t.index + 1 /\ next.attempt = a
    BY DEF Submission, Ticket, Idle
  <2> HIDE DEF next, a
  <2>4. CASE OnItsRun(t, runs', attempts')
    <3>1. OnItsRun(next, runs', attempts')
      BY <2>2, <2>3, <2>4 DEF OnItsRun, StepOf
    <3> QED  BY <2>1, <2>3, <3>1 DEF AtStep, GoesOn
  <2>5. CASE Strays(t, runs', RepeatedTakeovers')
    <3>1. runs'[t.run] # NoRun
      BY <1>7, <2>5 DEF SaveRun, Strays
    <3>2. Strays(next, runs', RepeatedTakeovers')
      BY <2>3, <2>5, <3>1 DEF Strays
    <3> QED  BY <2>1, <2>3, <3>2 DEF AtStep, GoesOn
  <2> QED  BY <1>1, <2>4, <2>5 DEF AtStep
<1> QED  BY <1>2, <1>3, <1>4, <1>5, <1>6, <1>7

\* Resumption: the scan finds a step of the run it scans.
LEMMA ScanGoesOn ==
  ASSUME TypeInv, RunsStay, NEW w \in Worker, ScanSteps(w)
  PROVE  GoesOn(w)
<1> DEFINE r == task[w].run
           p == runs[r].pair
           n == CompletedPrefix(r)
           a == StepAttempt(r, n)
<1>1. r \in RunId /\ runs[r] # NoRun /\ runs' = runs
  BY DEF TypeInv, TasksSound, TaskSound, ScanSteps, tables
<1>2. a = StepOf(runs', r, n)
  BY <1>1 DEF StepAttempt, StepOf
<1>3. \/ Becomes(w, Idle)
      \/ Becomes(w, Ticket(r, p, n, a))
      \/ Becomes(w, Submission(r, p, n, a))
  BY DEF ScanSteps
<1> HIDE DEF p, n, a
<1>4. \A next \in {Ticket(r, p, n, a), Submission(r, p, n, a)} :
        /\ next.pc \in {"claim", "submit"} /\ next.run = r
        /\ next.index = n /\ next.attempt = a
  BY DEF Ticket, Submission, Idle
<1>5. \A next \in {Ticket(r, p, n, a), Submission(r, p, n, a)} :
        AtStep(next, runs', attempts', RepeatedTakeovers')
  BY <1>1, <1>2, <1>4 DEF AtStep, OnItsRun
<1> QED  BY <1>3, <1>5, OtherPcs, OffRun DEF GoesOn, OnRun

\* Takeover: the ticket is for the run of the takeover, or strays.
LEMMA TakeOverGoesOn ==
  ASSUME TypeInv, TakenRuns', RepeatsStay, NEW w \in Worker,
         NEW t \in Takeovers, TakeOver(w, t)
  PROVE  GoesOn(w)
<1> DEFINE next == Ticket(t.run, t.pair, 0, t.first)
<1>1. t.first \in FirstId
  BY RequestsTyped DEF TakeoverRecord
<1>2. next.pc = "claim" /\ next.run = t.run /\ next.index = 0
      /\ next.attempt = t.first
  BY DEF Ticket, Idle
<1>3. Becomes(w, next)
  BY DEF TakeOver
<1> HIDE DEF next
<1>4. CASE runs'[t.run].first = t.first
  <2>1. runs'[t.run] # NoRun
    BY <1>1, <1>4, NoneIsNoValue DEF NoRun, AttemptId
  <2>2. OnItsRun(next, runs', attempts')
    BY <1>2, <1>4, <2>1 DEF OnItsRun, StepOf
  <2> QED  BY <1>2, <1>3, <2>2 DEF AtStep, GoesOn
<1>5. CASE runs'[t.run].first # t.first
  <2>1. t \notin takeovers'
    BY <1>5 DEF TakenRuns
  <2>2. t \in RepeatedTakeovers'
    BY <2>1
       DEF TakeOver, TakeoverRecovery, RepeatsStay, RepeatedTakeovers, tables
  <2>3. Strays(next, runs', RepeatedTakeovers')
    BY <1>2, <1>5, <2>2 DEF Strays
  <2> QED  BY <1>2, <1>3, <2>3 DEF AtStep, GoesOn
<1> QED  BY <1>4, <1>5

\* Reconciliation and abandonment are not on a run.
LEMMA OthersGoOn ==
  ASSUME TypeInv, NEW w \in Worker,
         \/ Reconcile(w) \/ FinishRecon(w) \/ Abandon(w) \/ TaskDies(w)
         \/ \E r \in RunId : ResumePlan(w, r)
         \/ \E rec \in Reconciliations : ClaimRecon(w, rec)
         \/ \E h \in Abandonments : ProposeAbandonment(w, h)
  PROVE  GoesOn(w)
<1>1. CASE Becomes(w, Idle)
  BY <1>1, OtherPcs, OffRun DEF OnRun
<1>2. ASSUME NEW r \in RunId, ResumePlan(w, r)
      PROVE  GoesOn(w)
  BY <1>1, <1>2, OtherPcs, OffRun DEF ResumePlan, OnRun
<1>3. CASE Reconcile(w)
  <2>1. PICK verdict :
          Becomes(w, [task[w] EXCEPT !.pc = "finish", !.outcome = verdict])
    BY <1>3 DEF Reconcile
  <2>2. [task[w] EXCEPT !.pc = "finish", !.outcome = verdict].pc = "finish"
    BY DEF TypeInv, Task
  <2> QED  BY <2>1, <2>2, OffRun DEF OnRun
<1>4. ASSUME NEW rec \in Reconciliations, ClaimRecon(w, rec)
      PROVE  GoesOn(w)
  <2> DEFINE next == [Idle EXCEPT !.pc = "reconcile", !.request = rec.request,
                                  !.attempt = rec.attempt]
  <2>1. Becomes(w, next) /\ next.pc = "reconcile"
    BY <1>4 DEF ClaimRecon, Idle
  <2> QED  BY <2>1, OffRun DEF OnRun
<1>5. ASSUME NEW h \in Abandonments, ProposeAbandonment(w, h)
      PROVE  GoesOn(w)
  <2> DEFINE next == [Idle EXCEPT !.pc = "abandon", !.run = h.run,
                                  !.pair = h.pair, !.request = h.request,
                                  !.keys = LeaseKeys(h.pair)]
  <2>1. next.pc = "abandon"
    BY DEF Idle
  <2>2. Becomes(w, next)
    BY <1>5 DEF ProposeAbandonment
  <2> QED  BY <2>1, <2>2, OffRun DEF OnRun
<1> QED
  BY <1>1, <1>2, <1>3, <1>4, <1>5
     DEF FinishRecon, Abandon, TaskDies, GivesUp

\* Cursors that stay or stop at a completed step stay backed.
LEMMA CursorsMove ==
  ASSUME TypeInv, TypeInv', CursorBacked, RunsStay, RepeatsStay, OutcomesKept,
         \A r \in RunId :
           \/ Misnamed(r)'
           \/ runs'[r].cursor \in {0, runs[r].cursor}
           \/ /\ runs[r] # NoRun
              /\ \A i \in 0..(runs'[r].cursor - 1) : StepDone(r, i)
  PROVE  CursorBacked'
<1> SUFFICES ASSUME NEW r \in RunId, ~Misnamed(r)',
                    NEW i \in 0..(runs'[r].cursor - 1)
             PROVE  attempts'[StepAttempt(r, i)'].state = "completed"
  BY DEF CursorBacked
<1>1. runs'[r].cursor \in 0..MaxOps /\ MaxOps \in Nat /\ i \in StepIndex
  BY ParametersTyped DEF TypeInv, StoreInv, TablesTyped, RunRow, StepIndex
<1>2. runs[r] # NoRun
  BY <1>1 DEF NoRun
<1>3. attempts[StepAttempt(r, i)].state = "completed"
  <2>1. ~Misnamed(r)
    BY <1>2 DEF Misnamed, RunsStay, RepeatsStay, RepeatedTakeovers
  <2> QED  BY <1>1, <2>1 DEF CursorBacked, StepDone
<1>4. /\ StepAttempt(r, i) \in AttemptId
      /\ StepAttempt(r, i)' = StepAttempt(r, i)
  BY <1>1, <1>2, StepsOfRun DEF TypeInv, RunsStay, StepAttempt
<1> QED  BY <1>3, <1>4 DEF OutcomesKept

\* A cursor is moved to a step only when all before are completed.
LEMMA NextCursors ==
  ASSUME TypeInv, CursorBacked, TasksAtStep, OutcomesKept, RunsStay,
         RepeatsStay, [Next]_vars
  PROVE  CursorBacked'
<1>1. TypeInv'
  BY NextTyped
<1>2. CASE UNCHANGED runs
  BY <1>1, <1>2, CursorsMove
<1>3. ASSUME NEW w \in Worker, CreateRun(w)
      PROVE  CursorBacked'
  <2> DEFINE t == task[w]
  <2>1. t.run \in RunId
    BY <1>3 DEF TypeInv, TasksSound, TaskSound, CreateRun, OnRun
  <2>2. \/ runs' = runs
        \/ runs' = [runs EXCEPT ![t.run] =
                      [pair |-> t.pair, first |-> t.attempt,
                       request |-> t.run, cursor |-> 0]]
    BY <1>3 DEF CreateRun, RunsAfterCreate, GivesUp, tables
  <2>3. \A r \in RunId : runs'[r].cursor \in {0, runs[r].cursor}
    BY <2>1, <2>2 DEF TypeInv, StoreInv, TablesTyped
  <2> QED  BY <1>1, <2>3, CursorsMove
<1>4. ASSUME NEW w \in Worker, SaveRun(w)
      PROVE  CursorBacked'
  <2> DEFINE t == task[w]
  <2>1. t.run \in RunId /\ t.index \in StepIndex /\ t.pc = "save"
    BY <1>4 DEF TypeInv, TasksSound, TaskSound, SaveRun, OnRun, Task
  <2>2. /\ runs'[t.run].cursor = t.index + 1
        /\ runs'[t.run].first = runs[t.run].first
        /\ \A r \in RunId : r # t.run => runs'[r] = runs[r]
    BY <1>4, <2>1 DEF SaveRun, TypeInv, StoreInv, TablesTyped, RunRow
  <2>3. CASE Strays(t, runs, RepeatedTakeovers)
    <3>1. ASSUME NEW r \in RunId, r = t.run
          PROVE  Misnamed(r)'
      BY <2>2, <2>3, <3>1 DEF Misnamed, RepeatsStay, RepeatedTakeovers, Strays
    <3> QED  BY <1>1, <2>2, <3>1, CursorsMove
  <2>4. CASE OnItsRun(t, runs, attempts)
    <3>1. /\ runs[t.run] # NoRun
          /\ \A i \in 0..t.index :
               attempts[StepOf(runs, t.run, i)].state = "completed"
      BY <2>1, <2>4 DEF OnItsRun
    <3>2. \A i \in 0..t.index : i \in StepIndex
      BY <2>1, ParametersTyped DEF StepIndex
    <3>3. \A i \in 0..t.index : StepAttempt(t.run, i) = StepOf(runs, t.run, i)
      BY <2>1, <3>1, <3>2, StepsOfRun DEF TypeInv
    <3>4. 0..(runs'[t.run].cursor - 1) = 0..t.index
      BY <2>1, <2>2, ParametersTyped DEF StepIndex
    <3>5. \A i \in 0..(runs'[t.run].cursor - 1) : StepDone(t.run, i)
      BY <3>1, <3>3, <3>4 DEF StepDone
    <3> QED  BY <1>1, <2>1, <2>2, <3>1, <3>5, CursorsMove
  <2> QED  BY <2>1, <2>3, <2>4 DEF TasksAtStep, AtStep, OnRun
<1>5. ASSUME NEW w \in Worker, NEW r \in RunId, ResumePlan(w, r)
      PROVE  CursorBacked'
  <2>1. /\ runs[r] # NoRun
        /\ \/ runs' = runs
           \/ runs' = [runs EXCEPT ![r].cursor = CompletedPrefix(r)]
    BY <1>5 DEF ResumePlan, RunsAfterRepair
  <2>2. \A i \in 0..(CompletedPrefix(r) - 1) : StepDone(r, i)
    BY <2>1, CompletedPrefixExists DEF TypeInv
  <2>3. \A o \in RunId :
          \/ runs'[o] = runs[o]
          \/ o = r /\ runs'[o].cursor = CompletedPrefix(r)
    BY <2>1 DEF TypeInv, StoreInv, TablesTyped, RunRow
  <2> QED  BY <1>1, <2>1, <2>2, <2>3, CursorsMove
<1>6. ASSUME NEW w \in Worker, NEW t \in Takeovers, TakeOver(w, t)
      PROVE  CursorBacked'
  <2>1. t.run \in RunId
    BY RequestsTyped DEF TakeoverRecord
  <2>2. \/ runs' = runs
        \/ runs' = [runs EXCEPT ![t.run] =
                      [pair |-> t.pair, first |-> t.first,
                       request |-> t.request, cursor |-> 0]]
    BY <1>6 DEF TakeOver, TakeoverRecovery, tables
  <2>3. \A r \in RunId : runs'[r].cursor \in {0, runs[r].cursor}
    BY <2>1, <2>2 DEF TypeInv, StoreInv, TablesTyped
  <2> QED  BY <1>1, <2>3, CursorsMove
<1>7. ASSUME NEW w \in Worker, TaskStep(w)
      PROVE  CursorBacked'
  <2>1. CASE \/ Dispatch(w) \/ Record(w) \/ FinishRecon(w) \/ Abandon(w)
    BY <1>2, <2>1, RequestsKept
  <2>2. CASE \/ Submit(w) \/ Drive(w) \/ AdvanceRun(w) \/ ScanSteps(w)
             \/ Reconcile(w)
    BY <1>2, <2>2 DEF Submit, Reserve, Drive, AdvanceRun, ScanSteps, Reconcile,
                      GivesUp, tables
  <2> QED  BY <1>3, <1>4, <1>7, <2>1, <2>2 DEF TaskStep
<1>8. ASSUME NEW w \in Worker, Request(w)
      PROVE  CursorBacked'
  <2>1. ASSUME NEW rec \in Reconciliations, ClaimRecon(w, rec)
        PROVE  CursorBacked'
    BY <1>2, <2>1, RequestsKept
  <2>2. ASSUME \/ \E adm \in Admissions : AdmitPlan(w, adm)
               \/ \E h \in Abandonments : ProposeAbandonment(w, h)
        PROVE  CursorBacked'
    BY <1>2, <2>2 DEF AdmitPlan, ProposeAbandonment, tables
  <2> QED  BY <1>5, <1>6, <1>8, <2>1, <2>2 DEF Request
<1>9. CASE \/ UNCHANGED vars \/ Restart
           \/ \E w \in Worker : TaskDies(w)
           \/ \E g \in Grant : RevokeGrant(g) \/ GrantExpires(g)
  BY <1>2, <1>9, RequestsKept
     DEF vars, tables, TaskDies, RevokeGrant, GrantExpires
<1> QED  BY <1>7, <1>8, <1>9 DEF Next

\* Every step leaves every task at its step.
LEMMA NextAtStep ==
  ASSUME FullInv, TasksAtStep, CursorBacked, OutcomesKept, LedgerStep,
         RepeatsStay, [Next]_vars
  PROVE  TasksAtStep'
<1>1. TypeInv /\ ExecutionInv /\ RunsStay /\ TakenRuns'
  BY DEF FullInv, LedgerStep
<1>2. CASE UNCHANGED vars
  BY <1>2 DEF TasksAtStep, RepeatedTakeovers, TakenForRepeated, vars, tables
<1>3. ASSUME NEW w \in Worker, TaskStep(w) \/ Request(w) \/ TaskDies(w)
      PROVE  TasksAtStep'
  <2>1. GoesOn(w)
    BY <1>1, <1>3, AdmissionGoesOn, ExecutionGoesOn, ScanGoesOn,
       TakeOverGoesOn, OthersGoOn
       DEF TaskStep, Request
  <2> QED  BY <1>1, <2>1, GoesOnStep
<1>4. ASSUME NEW g \in Grant, RevokeGrant(g) \/ GrantExpires(g)
      PROVE  TasksAtStep'
  BY <1>4 DEF TasksAtStep, RepeatedTakeovers, TakenForRepeated, RevokeGrant,
              GrantExpires
<1>5. CASE Restart
  BY <1>5, OtherPcs DEF Restart, TasksAtStep, AtStep, OnRun
<1> QED  BY <1>2, <1>3, <1>4, <1>5 DEF Next

CursorInv == FullInv /\ TakenRuns /\ TasksAtStep /\ CursorBacked

\* The cursor of a run never runs ahead of the receipts it stands for, whatever
\* workers, resumptions and restarts come between; the one request that can move
\* it is a takeover that the journal takes for a repetition of another request.
THEOREM CursorsStayBacked == Spec => []CursorBacked
<1>1. Init => CursorInv
  <2> SUFFICES ASSUME Init PROVE CursorInv
    OBVIOUS
  <2>1. /\ \A r \in RunId : runs[r] = NoRun
        /\ \A a \in AttemptId : attempts[a] = NoAttempt
        /\ takeovers = {}
        /\ \A w \in Worker : task[w] = Idle
    BY DEF Init, StoreInit
  <2>2. TakenRuns
    BY <2>1 DEF TakenRuns
  <2>3. TasksAtStep
    BY <2>1, OtherPcs DEF TasksAtStep, AtStep, OnRun
  <2>4. CursorBacked
    BY <2>1 DEF CursorBacked, NoRun
  <2> QED  BY <2>2, <2>3, <2>4, FullInvHolds DEF CursorInv
<1>2. CursorInv /\ [Next]_vars => CursorInv'
  <2> SUFFICES ASSUME CursorInv, [Next]_vars PROVE CursorInv'
    OBVIOUS
  <2>1. TypeInv /\ FullInv' /\ OutcomesKept /\ RowsKept
    BY FullInvHolds, NextTyped DEF CursorInv, FullInv, CustodyStep
  <2>2. LedgerStep
    BY <2>1, NextLedger DEF CursorInv
  <2>3. RunsStay /\ RepeatsStay /\ TakenRuns'
    BY <2>1, <2>2, RepeatsAreKept DEF LedgerStep
  <2>4. CursorBacked'
    BY <2>1, <2>3, NextCursors DEF CursorInv
  <2>5. TasksAtStep'
    BY <2>1, <2>2, <2>3, NextAtStep DEF CursorInv
  <2> QED  BY <2>1, <2>3, <2>4, <2>5 DEF CursorInv
<1>3. CursorInv => CursorBacked
  BY DEF CursorInv
<1> QED  BY <1>1, <1>2, <1>3, PTL DEF Spec

-----------------------------------------------------------------------------
(* Budgets.  Every effect is matched with a unit that its grant was charged  *)
(* for: a step of a plan, or a reconciliation that reapplies configuration.  *)

\* What was charged under a grant: every step of a plan with its first one, and
\* each reconciliation that reapplies the configuration.
Planned(g) ==
  {u \in Pair \X StepIndex : /\ GrantOf[u[1]] = g
                             /\ AttemptsOf(u[1]) # {}
                             /\ u[2] < OpCount[u[1]]}
Reapplied(g) ==
  {q \in ReconcileId : /\ recons[q].attempt # None
                       /\ GrantOfAttempt(recons[q].attempt) = g
                       /\ ConfigCost[attempts[recons[q].attempt].pair] = 1}

\* What a grant has lost is what was charged under it.
ChargedExactly ==
  \A g \in Grant :
    /\ IsFiniteSet(Planned(g)) /\ IsFiniteSet(Reapplied(g))
    /\ Cardinality(Planned(g)) + Cardinality(Reapplied(g))
         = Allowance[g] - grants[g].remaining

\* A reconciliation is of an attempt of a pair, and reapplies the configuration
\* at most as often as it was charged.
ConfiguredOnce ==
  /\ \A q \in ReconcileId :
       IF recons[q].attempt = None THEN configured[q] = 0
       ELSE /\ attempts[recons[q].attempt].pair \in Pair
            /\ configured[q] <= ConfigCost[attempts[recons[q].attempt].pair]
  /\ \A w \in Worker :
       task[w].pc = "reconcile" => configured[task[w].request] = 0

BudgetInv == ChargedExactly /\ ConfiguredOnce

-----------------------------------------------------------------------------

\* Nothing was charged and nothing done at first.
LEMMA InitBudget == Init => BudgetInv
<1> SUFFICES ASSUME Init PROVE BudgetInv
  OBVIOUS
<1>1. \A p \in Pair : AttemptsOf(p) = {}
  BY NoneIsNoValue DEF Init, StoreInit, AttemptsOf, NoAttempt
<1>2. \A q \in ReconcileId : recons[q].attempt = None /\ configured[q] = 0
  BY DEF Init, StoreInit, NoRecon
<1>3. \A g \in Grant : Planned(g) = {} /\ Reapplied(g) = {}
  BY <1>1, <1>2 DEF Planned, Reapplied
<1>4. \A g \in Grant :
        grants[g].remaining = Allowance[g] /\ Allowance[g] \in Nat
  BY ParametersTyped DEF Init, StoreInit
<1>5. ChargedExactly
  <2>1. IsFiniteSet({}) /\ Cardinality({}) = 0
    BY FS_EmptySet
  <2> SUFFICES ASSUME NEW g \in Grant
               PROVE  /\ IsFiniteSet(Planned(g)) /\ IsFiniteSet(Reapplied(g))
                      /\ Cardinality(Planned(g)) + Cardinality(Reapplied(g))
                           = Allowance[g] - grants[g].remaining
    BY DEF ChargedExactly
  <2>2. Planned(g) = {} /\ Reapplied(g) = {}
    BY <1>3
  <2>3. 0 + 0 = Allowance[g] - grants[g].remaining
    BY <1>4
  <2> QED  BY <2>1, <2>2, <2>3
<1>6. ConfiguredOnce
  BY <1>2, OtherPcs DEF ConfiguredOnce, Init
<1> QED  BY <1>5, <1>6 DEF BudgetInv

\* Rows are not given to other attempts or pairs, and budgets stay.
ChargesStay ==
  /\ \A a \in AttemptId : attempts'[a].pair = attempts[a].pair
  /\ \A q \in ReconcileId : recons'[q].attempt = recons[q].attempt
  /\ \A g \in Grant : grants'[g].remaining = grants[g].remaining

LEMMA ChargesKept ==
  ASSUME TypeInv, ChargedExactly, ChargesStay
  PROVE  ChargedExactly'
<1>1. \A p : AttemptsOf(p)' = AttemptsOf(p)
  BY DEF ChargesStay, AttemptsOf
<1>2. \A q \in ReconcileId : recons[q].attempt \in AttemptId \cup {None}
  BY DEF TypeInv, StoreInv, TablesTyped, ReconRow
<1>3. \A g \in Grant : Planned(g)' = Planned(g)
  BY <1>1 DEF Planned
<1>4. \A g \in Grant : Reapplied(g)' = Reapplied(g)
  BY <1>2 DEF ChargesStay, Reapplied, GrantOfAttempt
<1> QED  BY <1>3, <1>4 DEF ChargesStay, ChargedExactly

\* A charge is exact if the grant's charged units grow by it.
LEMMA ChargeCounted ==
  ASSUME TypeInv, ChargedExactly, NEW p \in Pair, NEW cost \in Nat,
         Affords(p, cost), grants' = Charge(p, cost),
         \A g \in Grant :
           g # GrantOf[p] => Planned(g)' = Planned(g)
                             /\ Reapplied(g)' = Reapplied(g),
         LET g == GrantOf[p]
         IN  /\ IsFiniteSet(Planned(g)') /\ IsFiniteSet(Reapplied(g)')
             /\ Cardinality(Planned(g)') + Cardinality(Reapplied(g)')
                  = Cardinality(Planned(g)) + Cardinality(Reapplied(g)) + cost
  PROVE  ChargedExactly'
<1>1. GrantOf[p] \in Grant
  BY ParametersTyped
<1>2. /\ grants'[GrantOf[p]].remaining = grants[GrantOf[p]].remaining - cost
      /\ \A g \in Grant :
           g # GrantOf[p] => grants'[g].remaining = grants[g].remaining
      /\ \A g \in Grant : grants[g].remaining \in Nat /\ Allowance[g] \in Nat
  BY <1>1, ParametersTyped
     DEF Charge, TypeInv, StoreInv, TablesTyped, GrantRow
<1> QED  BY <1>1, <1>2 DEF ChargedExactly

\* reserve and takeover_recovery: the first step of a pair pays for its plan.
LEMMA PlanCharged ==
  ASSUME TypeInv, BudgetInv, NEW a \in AttemptId, NEW p \in Pair, NEW req,
         attempts[a] = NoAttempt, AttemptsOf(p) = {},
         attempts' = [attempts EXCEPT ![a] = Intent(p, 0, req)],
         Affords(p, Reserved(p, 0)), grants' = Charge(p, Reserved(p, 0)),
         UNCHANGED recons
  PROVE  ChargedExactly'
<1> DEFINE g == GrantOf[p]
           plan == {p} \X (0..(OpCount[p] - 1))
<1>1. /\ g \in Grant /\ OpCount[p] \in Nat \ {0} /\ OpCount[p] <= MaxOps
      /\ MaxOps \in Nat
  BY ParametersTyped
<1>2. /\ attempts'[a].pair = p
      /\ \A b \in AttemptId : b # a => attempts'[b] = attempts[b]
      /\ attempts[a].pair = None /\ None \notin Pair
  BY NoneIsNoValue DEF TypeInv, StoreInv, TablesTyped, NoAttempt, Intent
<1>3. /\ AttemptsOf(p)' # {}
      /\ \A x \in Pair : x # p => AttemptsOf(x)' = AttemptsOf(x)
  BY <1>2 DEF AttemptsOf
<1>4. \A x \in Grant : x # g => Planned(x)' = Planned(x)
  BY <1>3 DEF Planned
<1>5. \A x \in Grant : Reapplied(x)' = Reapplied(x)
  <2>1. \A q \in ReconcileId :
          recons[q].attempt # None =>
            attempts'[recons[q].attempt].pair = attempts[recons[q].attempt].pair
    BY <1>2
       DEF TypeInv, StoreInv, TablesTyped, ReconRow, BudgetInv, ConfiguredOnce
  <2> QED  BY <2>1 DEF Reapplied, GrantOfAttempt
<1>6. /\ Planned(g)' = Planned(g) \cup plan
      /\ Planned(g) \cap plan = {}
  <2>1. 0..(OpCount[p] - 1) = {i \in StepIndex : i < OpCount[p]}
    BY <1>1 DEF StepIndex
  <2>2. plan = {u \in Pair \X StepIndex : u[1] = p /\ u[2] < OpCount[p]}
    BY <2>1
  <2> HIDE DEF plan
  <2>3. Planned(g)' = {u \in Pair \X StepIndex :
                         /\ GrantOf[u[1]] = g
                         /\ AttemptsOf(u[1]) # {} \/ u[1] = p
                         /\ u[2] < OpCount[u[1]]}
    BY <1>3 DEF Planned
  <2>4. Planned(g)' = Planned(g) \cup plan
    BY <2>2, <2>3 DEF Planned
  <2> QED  BY <2>2, <2>4 DEF Planned
<1>7. IsFiniteSet(plan) /\ Cardinality(plan) = OpCount[p]
  <2>1. IsFiniteSet(0..(OpCount[p] - 1))
        /\ Cardinality(0..(OpCount[p] - 1)) = OpCount[p]
    <3> DEFINE last == OpCount[p] - 1
    <3>1. 0 \in Int /\ last \in Int /\ ~(0 > last) /\ last - 0 + 1 = OpCount[p]
      BY <1>1
    <3> HIDE DEF last
    <3>2. IsFiniteSet(0..last) /\ Cardinality(0..last) = OpCount[p]
      BY <3>1, FS_Interval
    <3> QED  BY <3>2 DEF last
  <2>2. IsFiniteSet({p}) /\ Cardinality({p}) = 1
    BY FS_Singleton
  <2>3. /\ IsFiniteSet(plan)
        /\ Cardinality(plan) = Cardinality({p}) * Cardinality(0..(OpCount[p] - 1))
    BY <2>1, <2>2, FS_Product
  <2> QED  BY <1>1, <2>1, <2>2, <2>3
<1>8. /\ IsFiniteSet(Planned(g)) /\ IsFiniteSet(Reapplied(g))
      /\ Cardinality(Planned(g)) \in Nat /\ Cardinality(Reapplied(g)) \in Nat
  BY <1>1, FS_CardinalityType DEF BudgetInv, ChargedExactly
<1>9. /\ IsFiniteSet(Planned(g)')
      /\ Cardinality(Planned(g)') = Cardinality(Planned(g)) + OpCount[p]
  <2> HIDE DEF plan
  <2>1. /\ IsFiniteSet(Planned(g) \cup plan)
        /\ Cardinality(Planned(g) \cup plan)
             = Cardinality(Planned(g)) + OpCount[p] - Cardinality({})
    <3> DEFINE n == Cardinality(Planned(g) \cap plan)
    <3>1. /\ IsFiniteSet(Planned(g) \cup plan)
          /\ Cardinality(Planned(g) \cup plan)
               = Cardinality(Planned(g)) + Cardinality(plan) - n
      BY <1>7, <1>8, FS_Union
    <3>2. n = Cardinality({})
      BY <1>6
    <3> QED  BY <1>7, <3>1, <3>2
  <2> QED  BY <1>1, <1>6, <1>8, <2>1, FS_EmptySet
<1>10. Reserved(p, 0) = OpCount[p]
  BY DEF Reserved
<1> HIDE DEF plan
<1> QED
  BY <1>1, <1>4, <1>5, <1>8, <1>9, <1>10, ChargeCounted DEF BudgetInv

\* reserve, takeover_recovery and claim_reconciliation.
LEMMA ReserveCharges ==
  ASSUME TypeInv, BudgetInv, NEW a \in AttemptId, NEW p \in Pair,
         NEW i \in StepIndex, NEW req,
         CanReserve(a, p, i, req), Reserve(a, p, i, req)
  PROVE  ChargedExactly'
<1>1. attempts[a] = NoAttempt /\ UNCHANGED recons
      /\ attempts' = [attempts EXCEPT ![a] = Intent(p, i, req)]
      /\ Affords(p, Reserved(p, i)) /\ grants' = Charge(p, Reserved(p, i))
  BY DEF CanReserve, Reserve
<1>2. CASE AttemptsOf(p) = {}
  <2>1. i = 0
    BY <1>2 DEF CanReserve, InOrder
  <2> QED  BY <1>1, <1>2, <2>1, PlanCharged
<1>3. CASE AttemptsOf(p) # {}
  <2>1. i # 0
    <3>1. \A b \in AttemptsOf(p) : attempts[b].index + 1 # 0
      BY ParametersTyped
         DEF AttemptsOf, TypeInv, StoreInv, TablesTyped, AttemptRow, StepIndex
    <3> QED  BY <1>3, <3>1 DEF CanReserve, InOrder
  <2>2. /\ attempts'[a].pair = p /\ attempts[a].pair = None
        /\ \A b \in AttemptId : b # a => attempts'[b] = attempts[b]
    BY <1>1 DEF TypeInv, StoreInv, TablesTyped, NoAttempt, Intent
  <2>3. \A x \in Pair : AttemptsOf(x)' # {} <=> AttemptsOf(x) # {}
    BY <1>3, <2>2, NoneIsNoValue DEF AttemptsOf
  <2>4. \A g \in Grant : Planned(g)' = Planned(g)
    BY <2>3 DEF Planned
  <2>5. \A q \in ReconcileId :
          recons[q].attempt # None =>
            attempts'[recons[q].attempt].pair = attempts[recons[q].attempt].pair
    BY <2>2, NoneIsNoValue
       DEF TypeInv, StoreInv, TablesTyped, ReconRow, BudgetInv, ConfiguredOnce
  <2>6. \A g \in Grant : Reapplied(g)' = Reapplied(g)
    BY <1>1, <2>5 DEF Reapplied, GrantOfAttempt
  <2>7. GrantOf[p] \in Grant
    BY ParametersTyped
  <2>8. /\ IsFiniteSet(Planned(GrantOf[p])) /\ IsFiniteSet(Reapplied(GrantOf[p]))
        /\ Cardinality(Planned(GrantOf[p])) \in Nat
        /\ Cardinality(Reapplied(GrantOf[p])) \in Nat
    BY <2>7, FS_CardinalityType DEF BudgetInv, ChargedExactly
  <2>9. Reserved(p, i) = 0
    BY <2>1 DEF Reserved
  <2> QED
    BY <1>1, <2>4, <2>6, <2>7, <2>8, <2>9, ChargeCounted DEF BudgetInv
<1> QED  BY <1>2, <1>3

LEMMA TakeoverCharges ==
  ASSUME TypeInv, BudgetInv, StepsInOrder, NEW t \in TakeoverRecord,
         CanTakeover(t), TakeoverRecovery(t)
  PROVE  ChargedExactly'
<1>1. t.pair \in Pair /\ t.first \in AttemptId
  BY DEF TakeoverRecord, AttemptId
<1>2. AttemptsOf(t.pair) = {}
  <2> SUFFICES ASSUME NEW a \in AttemptsOf(t.pair) PROVE FALSE
    OBVIOUS
  <2>1. /\ a \in AttemptId /\ attempts[a].pair = t.pair /\ t.pair # None
        /\ attempts[a].index \in Nat \ {0}
    BY <1>1, NoneIsNoValue, ParametersTyped
       DEF CanTakeover, AttemptsOf, TypeInv, StoreInv, TablesTyped, AttemptRow,
           StepIndex
  <2>2. \E b \in AttemptsOf(t.pair) : attempts[b].index = 0
    BY <2>1 DEF StepsInOrder
  <2> QED  BY <2>2 DEF CanTakeover
<1> QED
  BY <1>1, <1>2, PlanCharged DEF CanTakeover, TakeoverRecovery

LEMMA ClaimReconciliationCharges ==
  ASSUME TypeInv, BudgetInv, NEW q \in ReconcileId, NEW a \in AttemptId,
         CanClaimReconciliation(q, a), ClaimReconciliation(q, a)
  PROVE  ChargedExactly'
<1>0. PICK p \in Pair : attempts[a].pair = p
  BY DEF CanClaimReconciliation, Reconcilable, Uncertain, TypeInv, StoreInv,
         AttemptsSound
<1> DEFINE g == GrantOf[p]
<1>1. g \in Grant /\ ConfigCost[p] \in {0, 1}
  BY ParametersTyped
<1>2. \A b \in AttemptId : attempts'[b].pair = attempts[b].pair
  BY DEF ClaimReconciliation, TypeInv, StoreInv, TablesTyped, AttemptRow
<1>3. /\ recons[q].attempt = None /\ recons'[q].attempt = a /\ a # None
      /\ \A o \in ReconcileId : o # q => recons'[o] = recons[o]
      /\ \A o \in ReconcileId : recons[o].attempt \in AttemptId \cup {None}
  BY NoneIsNoValue
     DEF CanClaimReconciliation, ClaimReconciliation, NoRecon, TypeInv, StoreInv,
         TablesTyped, ReconRow
<1>4. \A x \in Grant : Planned(x)' = Planned(x)
  BY <1>2 DEF Planned, AttemptsOf
<1>5. \A x \in Grant :
        Reapplied(x)' = IF x = g /\ ConfigCost[p] = 1
                        THEN Reapplied(x) \cup {q} ELSE Reapplied(x)
  <2>1. \A o \in ReconcileId :
          o # q /\ recons[o].attempt # None =>
            attempts'[recons'[o].attempt].pair = attempts[recons[o].attempt].pair
    BY <1>2, <1>3
  <2>2. attempts'[recons'[q].attempt].pair = p
    BY <1>0, <1>2, <1>3
  <2> HIDE DEF g
  <2>3. \A x \in Grant, o \in ReconcileId :
          o # q => (o \in Reapplied(x)' <=> o \in Reapplied(x))
    BY <1>3, <2>1 DEF Reapplied, GrantOfAttempt
  <2>4. \A x \in Grant :
          /\ q \notin Reapplied(x)
          /\ q \in Reapplied(x)' <=> x = g /\ ConfigCost[p] = 1
    BY <1>3, <2>2 DEF Reapplied, GrantOfAttempt, g
  <2>5. \A x \in Grant :
          Reapplied(x) \subseteq ReconcileId /\ Reapplied(x)' \subseteq ReconcileId
    BY DEF Reapplied
  <2> QED  BY <2>3, <2>4, <2>5
<1>6. q \notin Reapplied(g)
  BY <1>3 DEF Reapplied
<1>7. /\ IsFiniteSet(Planned(g)) /\ IsFiniteSet(Reapplied(g))
      /\ Cardinality(Planned(g)) \in Nat /\ Cardinality(Reapplied(g)) \in Nat
  BY <1>1, FS_CardinalityType DEF BudgetInv, ChargedExactly
<1>8. /\ IsFiniteSet(Reapplied(g)')
      /\ Cardinality(Reapplied(g)') = Cardinality(Reapplied(g)) + ConfigCost[p]
  <2>1. CASE ConfigCost[p] = 1
    <3>1. Reapplied(g)' = Reapplied(g) \cup {q}
      BY <1>1, <1>5, <2>1
    <3>2. /\ IsFiniteSet(Reapplied(g) \cup {q})
          /\ Cardinality(Reapplied(g) \cup {q}) = Cardinality(Reapplied(g)) + 1
      BY <1>6, <1>7, FS_AddElement
    <3> QED  BY <2>1, <3>1, <3>2
  <2>2. CASE ConfigCost[p] = 0
    <3>1. Reapplied(g)' = Reapplied(g)
      BY <1>1, <1>5, <2>2
    <3> QED  BY <1>7, <2>2, <3>1
  <2> QED  BY <1>1, <2>1, <2>2
<1>9. Affords(p, ConfigCost[p]) /\ grants' = Charge(p, ConfigCost[p])
  BY <1>0 DEF CanClaimReconciliation, ClaimReconciliation
<1>10. ConfigCost[p] \in Nat
  BY <1>1
<1>11. \A x \in Grant : x # g => Reapplied(x)' = Reapplied(x)
  BY <1>5
<1> QED
  BY <1>1, <1>4, <1>7, <1>8, <1>9, <1>10, <1>11, ChargeCounted
     DEF BudgetInv

\* The other transactions charge nothing.
LEMMA OutcomesCharge ==
  ASSUME TypeInv, ChargedExactly,
         \/ \E w \in Worker : \/ Dispatch(w) \/ Record(w) \/ FinishRecon(w)
                             \/ Abandon(w)
         \/ \E g \in Grant : RevokeGrant(g) \/ GrantExpires(g)
         \/ Restart
  PROVE  ChargesStay
<1>1. /\ attempts \in [AttemptId -> AttemptRow]
      /\ recons \in [ReconcileId -> ReconRow]
      /\ grants \in [Grant -> GrantRow]
  BY DEF TypeInv, StoreInv, TablesTyped
<1>2. CASE UNCHANGED tables
  BY <1>2 DEF tables, ChargesStay
<1>3. ASSUME NEW w \in Worker, Dispatch(w)
      PROVE  ChargesStay
  BY <1>1, <1>2, <1>3
     DEF Dispatch, ClaimDispatch, GivesUp, ChargesStay, AttemptRow
<1>4. ASSUME NEW w \in Worker, Record(w)
      PROVE  ChargesStay
  <2> DEFINE a == task[w].attempt
  <2>1. a \in AttemptId
    BY <1>4 DEF TypeInv, TasksSound, TaskSound, Record, OnRun
  <2> SUFFICES ASSUME ~UNCHANGED tables PROVE ChargesStay
    BY <1>2
  <2>2. UNCHANGED <<grants, recons>> /\ attempts' = Settle(a, task[w].outcome)
    BY <1>4 DEF Record, RecordReceipt, GivesUp
  <2> HIDE DEF a
  <2>3. \A b \in AttemptId : attempts'[b].pair = attempts[b].pair
    BY <1>1, <2>1, <2>2 DEF Settle, AttemptRow
  <2> QED  BY <2>2, <2>3 DEF ChargesStay
<1>5. ASSUME NEW w \in Worker, FinishRecon(w)
      PROVE  ChargesStay
  <2> SUFFICES ASSUME ~UNCHANGED tables PROVE ChargesStay
    BY <1>2
  <2>1. PICK q \in ReconcileId,
             verdict \in {"completed", "unknown", "failed"} :
          /\ UNCHANGED grants
          /\ recons' = [recons EXCEPT ![q].state = verdict]
          /\ attempts' = Resolved(recons[q].attempt, verdict)
    BY <1>5
       DEF FinishRecon, FinishReconciliation, TypeInv, TasksSound, TaskSound
  <2>2. \A o \in ReconcileId : recons'[o].attempt = recons[o].attempt
    BY <1>1, <2>1 DEF ReconRow
  <2>3. \A b \in AttemptId : attempts'[b].pair = attempts[b].pair
    BY <1>1, <2>1 DEF Resolved, AttemptRow
  <2> QED  BY <2>1, <2>2, <2>3 DEF ChargesStay
<1>6. ASSUME NEW w \in Worker, Abandon(w)
      PROVE  ChargesStay
  <2> SUFFICES ASSUME ~UNCHANGED tables PROVE ChargesStay
    BY <1>2
  <2>1. PICK h : AbandonHaltedRun(h)
    BY <1>6 DEF Abandon, GivesUp
  <2>2. UNCHANGED <<grants, recons>>
    BY <2>1 DEF AbandonHaltedRun
  <2> QED  BY <1>1, <2>1, <2>2, AbandonedRows DEF ChargesStay
<1>7. ASSUME NEW g \in Grant, RevokeGrant(g) \/ GrantExpires(g)
      PROVE  ChargesStay
  BY <1>1, <1>7 DEF RevokeGrant, GrantExpires, ChargesStay, GrantRow
<1>8. CASE Restart
  <2>1. /\ UNCHANGED grants
        /\ RecoverInterruptedDispatches
        /\ recons' = [o \in ReconcileId |->
                        IF recons[o].state = "claimed"
                        THEN [recons[o] EXCEPT !.state = "unknown"]
                        ELSE recons[o]]
    BY <1>8 DEF Restart, RecoverInterruptedDispatches
  <2>2. ASSUME NEW b \in AttemptId
        PROVE  attempts'[b].pair = attempts[b].pair
    BY <1>1, <2>1, InterruptedRows
  <2>3. ASSUME NEW o \in ReconcileId
        PROVE  recons'[o].attempt = recons[o].attempt
    BY <1>1, <2>1 DEF ReconRow
  <2> QED  BY <2>1, <2>2, <2>3 DEF ChargesStay
<1> QED  BY <1>3, <1>4, <1>5, <1>6, <1>7, <1>8

\* Every step charges what it lets happen.
LEMMA NextCharges ==
  ASSUME FullInv, BudgetInv, [Next]_vars
  PROVE  ChargedExactly'
<1>1. CASE UNCHANGED tables
  BY <1>1, ChargesKept DEF tables, ChargesStay, FullInv, BudgetInv
<1>2. CASE UNCHANGED <<attempts, grants, recons>>
  BY <1>2, ChargesKept DEF ChargesStay, FullInv, BudgetInv
<1>3. CASE \/ \E w \in Worker : \/ Dispatch(w) \/ Record(w) \/ FinishRecon(w)
                               \/ Abandon(w)
           \/ \E g \in Grant : RevokeGrant(g) \/ GrantExpires(g)
           \/ Restart
  BY <1>3, OutcomesCharge, ChargesKept DEF FullInv, BudgetInv
<1>4. CASE UNCHANGED vars
  BY <1>1, <1>4 DEF vars
<1>5. ASSUME NEW w \in Worker,
             \/ CreateRun(w) \/ Drive(w) \/ AdvanceRun(w) \/ SaveRun(w)
             \/ ScanSteps(w) \/ Reconcile(w) \/ TaskDies(w)
             \/ \E adm \in Admissions : AdmitPlan(w, adm)
             \/ \E r \in RunId : ResumePlan(w, r)
             \/ \E h \in Abandonments : ProposeAbandonment(w, h)
      PROVE  ChargedExactly'
  BY <1>2, <1>5
     DEF CreateRun, Drive, AdvanceRun, SaveRun, ScanSteps, Reconcile, TaskDies,
         AdmitPlan, ResumePlan, ProposeAbandonment, GivesUp, tables
<1>6. ASSUME NEW w \in Worker, Submit(w)
      PROVE  ChargedExactly'
  <2> DEFINE t == task[w]
  <2>1. /\ t.pair \in Pair /\ t.attempt \in AttemptId /\ t.index \in StepIndex
    BY <1>6 DEF FullInv, TypeInv, TasksSound, TaskSound, Submit, OnRun, Task
  <2>2. \/ UNCHANGED tables
        \/ \E req : /\ CanReserve(t.attempt, t.pair, t.index, req)
                    /\ Reserve(t.attempt, t.pair, t.index, req)
    BY <1>6 DEF Submit, GivesUp
  <2> HIDE DEF t
  <2> QED  BY <1>1, <2>1, <2>2, ReserveCharges DEF FullInv
<1>7. ASSUME NEW w \in Worker, NEW rec \in Reconciliations, ClaimRecon(w, rec)
      PROVE  ChargedExactly'
  BY <1>7, RequestsTyped, ClaimReconciliationCharges DEF ClaimRecon, FullInv
<1>8. ASSUME NEW w \in Worker, NEW t \in Takeovers, TakeOver(w, t)
      PROVE  ChargedExactly'
  <2>1. t \in TakeoverRecord
    BY RequestsTyped
  <2>2. UNCHANGED tables \/ (CanTakeover(t) /\ TakeoverRecovery(t))
    BY <1>8 DEF TakeOver
  <2> QED  BY <1>1, <2>1, <2>2, TakeoverCharges DEF FullInv, CustodyInv
<1> QED
  BY <1>3, <1>4, <1>5, <1>6, <1>7, <1>8 DEF Next, TaskStep, Request

-----------------------------------------------------------------------------

\* A step without a reconciliation leaves what was configured as it was.
LEMMA ConfiguredKept ==
  ASSUME TypeInv, ConfiguredOnce, RowsKept, UNCHANGED configured,
         \A q \in ReconcileId : recons'[q].attempt = recons[q].attempt,
         \A v \in Worker : task'[v].pc = "reconcile" => task'[v] = task[v]
  PROVE  ConfiguredOnce'
<1>1. \A q \in ReconcileId : recons[q].attempt \in AttemptId \cup {None}
  BY DEF TypeInv, StoreInv, TablesTyped, ReconRow
<1>2. \A q \in ReconcileId :
        recons[q].attempt # None =>
          attempts'[recons[q].attempt].pair = attempts[recons[q].attempt].pair
  BY <1>1 DEF ConfiguredOnce, RowsKept
<1> QED  BY <1>2 DEF ConfiguredOnce

\* claim_reconciliation: a new request has reapplied nothing.
LEMMA ClaimReconConfigures ==
  ASSUME FullInv, BudgetInv, RowsKept, NEW w \in Worker,
         NEW rec \in Reconciliations, ClaimRecon(w, rec)
  PROVE  ConfiguredOnce'
<1> DEFINE q == rec.request
           a == rec.attempt
           next == [Idle EXCEPT !.pc = "reconcile", !.request = q, !.attempt = a]
<1>1. q \in ReconcileId /\ a \in AttemptId /\ a # None
  BY RequestsTyped, NoneIsNoValue
<1>2. /\ recons[q].attempt = None /\ recons'[q].attempt = a
      /\ \A o \in ReconcileId : o # q => recons'[o] = recons[o]
      /\ \A o \in ReconcileId : recons[o].attempt \in AttemptId \cup {None}
  BY <1>1
     DEF ClaimRecon, CanClaimReconciliation, ClaimReconciliation, NoRecon, FullInv,
         TypeInv, StoreInv, TablesTyped, ReconRow
<1>3. /\ attempts[a].pair \in Pair /\ attempts'[a].pair = attempts[a].pair
      /\ ConfigCost[attempts[a].pair] \in {0, 1}
  BY <1>1, ParametersTyped
     DEF ClaimRecon, CanClaimReconciliation, Reconcilable, Uncertain, FullInv,
         TypeInv, StoreInv, AttemptsSound, RowsKept
<1>4. configured[q] = 0 /\ UNCHANGED configured
  BY <1>1, <1>2 DEF BudgetInv, ConfiguredOnce, ClaimRecon, world
<1>5. \A o \in ReconcileId :
        IF recons'[o].attempt = None THEN configured'[o] = 0
        ELSE /\ attempts'[recons'[o].attempt].pair \in Pair
             /\ configured'[o] <= ConfigCost[attempts'[recons'[o].attempt].pair]
  <2> TAKE o \in ReconcileId
  <2>1. CASE o = q
    BY <1>1, <1>2, <1>3, <1>4, <2>1
  <2>2. CASE o # q
    BY <1>2, <1>4, <2>2 DEF BudgetInv, ConfiguredOnce, RowsKept
  <2> QED  BY <2>1, <2>2
<1>6. next.pc = "reconcile" /\ next.request = q
  BY DEF Idle
<1>7. Becomes(w, next)
  BY DEF ClaimRecon
<1> HIDE DEF next
<1>8. task'[w] = next /\ \A v \in Worker : v # w => task'[v] = task[v]
  BY <1>7, Moves DEF FullInv
<1>9. \A v \in Worker :
        task'[v].pc = "reconcile" => configured'[task'[v].request] = 0
  BY <1>4, <1>6, <1>8 DEF BudgetInv, ConfiguredOnce
<1> QED  BY <1>5, <1>9 DEF ConfiguredOnce

\* backend.reconcile: once for its claim.
LEMMA ReconcileConfigures ==
  ASSUME FullInv, BudgetInv, RowsKept, NEW w \in Worker, Reconcile(w)
  PROVE  ConfiguredOnce'
<1>1. PICK q \in ReconcileId : q = task[w].request
  BY DEF Reconcile, FullInv, TypeInv, TasksSound, TaskSound
<1>2. PICK a \in AttemptId : a = task[w].attempt
  BY DEF Reconcile, FullInv, TypeInv, TasksSound, TaskSound
<1>3. task[w].pc = "reconcile" /\ task[w] \in Task
      /\ UNCHANGED <<attempts, recons>>
  BY DEF Reconcile, tables, FullInv, TypeInv
<1>4. recons[q].attempt = a /\ a # None /\ configured[q] = 0
  BY <1>1, <1>2, <1>3, ReconcilerClaims, NoneIsNoValue
     DEF Reconciles, FullInv, BudgetInv, ConfiguredOnce
<1>5. attempts[a].pair \in Pair /\ ConfigCost[attempts[a].pair] \in {0, 1}
  BY <1>4, ParametersTyped DEF BudgetInv, ConfiguredOnce
<1>6. \/ configured' = [configured EXCEPT ![q] = @ + ConfigCost[attempts[a].pair]]
      \/ UNCHANGED configured
  BY <1>1, <1>2 DEF Reconcile
<1>7. /\ configured'[q] \in {0, ConfigCost[attempts[a].pair]}
      /\ \A o \in ReconcileId : o # q => configured'[o] = configured[o]
  BY <1>4, <1>5, <1>6 DEF FullInv, TypeInv
<1>8. \A v \in Worker :
        task'[v].pc = "reconcile" =>
          /\ task'[v] = task[v] /\ task[v].request \in ReconcileId
          /\ task[v].request # q
  <2>1. PICK verdict :
          Becomes(w, [task[w] EXCEPT !.pc = "finish", !.outcome = verdict])
    BY DEF Reconcile
  <2>2. /\ task'[w].pc = "finish"
        /\ \A v \in Worker : v # w => task'[v] = task[v]
    <3> DEFINE next == [task[w] EXCEPT !.pc = "finish", !.outcome = verdict]
    <3>1. next.pc = "finish"
      BY <1>3 DEF Task
    <3> HIDE DEF next
    <3> QED  BY <2>1, <3>1, Moves DEF FullInv, next
  <2> QED
    BY <1>1, <1>3, <2>2, ReconcilerClaims DEF FullInv, ReconInv, Reconciles
<1>9. \A o \in ReconcileId :
        IF recons'[o].attempt = None THEN configured'[o] = 0
        ELSE /\ attempts'[recons'[o].attempt].pair \in Pair
             /\ configured'[o] <= ConfigCost[attempts'[recons'[o].attempt].pair]
  BY <1>3, <1>4, <1>5, <1>7 DEF BudgetInv, ConfiguredOnce
<1> QED  BY <1>7, <1>8, <1>9 DEF BudgetInv, ConfiguredOnce

\* Every step keeps the accounts.
LEMMA NextBudget ==
  ASSUME FullInv, BudgetInv, [Next]_vars
  PROVE  BudgetInv'
<1>1. TypeInv /\ RowsKept /\ ConfiguredOnce
  BY NextTyped DEF FullInv, BudgetInv
<1>2. ASSUME NEW w \in Worker, TurnsAway(w)
      PROVE  \A v \in Worker : task'[v].pc = "reconcile" => task'[v] = task[v]
  BY <1>1, <1>2, Moves DEF TurnsAway
<1>3. ASSUME UNCHANGED vars PROVE ConfiguredOnce'
  <2>1. UNCHANGED <<recons, task, configured>>
    BY <1>3 DEF vars, tables
  <2> QED  BY <1>1, <2>1, ConfiguredKept
<1>4. ASSUME NEW w \in Worker, FinishRecon(w)
      PROVE  ConfiguredOnce'
  <2>1. TurnsAway(w) /\ UNCHANGED configured
    BY <1>4, OtherPcs DEF FinishRecon, TurnsAway, world
  <2> QED
    BY <1>1, <1>2, <1>4, <2>1, OutcomesCharge, ConfiguredKept
       DEF BudgetInv, ChargesStay
<1>5. ASSUME NEW w \in Worker, TurnsAway(w), UNCHANGED <<recons, configured>>
      PROVE  ConfiguredOnce'
  BY <1>1, <1>2, <1>5, ConfiguredKept
<1>6. ASSUME NEW w \in Worker,
             \/ Dispatch(w) \/ Drive(w) \/ Record(w) \/ AdvanceRun(w)
             \/ CreateRun(w) \/ Submit(w) \/ SaveRun(w) \/ ScanSteps(w)
             \/ Abandon(w) \/ TaskDies(w)
             \/ \E adm \in Admissions : AdmitPlan(w, adm)
             \/ \E r \in RunId : ResumePlan(w, r)
             \/ \E t \in Takeovers : TakeOver(w, t)
             \/ \E h \in Abandonments : ProposeAbandonment(w, h)
      PROVE  ConfiguredOnce'
  <2>1. TurnsAway(w) /\ UNCHANGED recons
    BY <1>1, <1>6, ExecutionTurnsAway, OthersTurnAway
  <2>2. UNCHANGED configured
    BY <1>6
       DEF Dispatch, Drive, Record, AdvanceRun, CreateRun, Submit, SaveRun,
           ScanSteps, Abandon, TaskDies, AdmitPlan, ResumePlan, TakeOver,
           ProposeAbandonment, world
  <2> QED  BY <1>5, <2>1, <2>2
<1>7. ASSUME NEW w \in Worker,
             Reconcile(w) \/ \E rec \in Reconciliations : ClaimRecon(w, rec)
      PROVE  ConfiguredOnce'
  BY <1>1, <1>7, ReconcileConfigures, ClaimReconConfigures
<1>8. ASSUME NEW g \in Grant, RevokeGrant(g) \/ GrantExpires(g)
      PROVE  ConfiguredOnce'
  BY <1>1, <1>8, ConfiguredKept DEF RevokeGrant, GrantExpires, world
<1>9. ASSUME Restart PROVE ConfiguredOnce'
  <2>1. \A v \in Worker : task'[v].pc # "reconcile"
    BY <1>9, OtherPcs DEF Restart
  <2>2. ChargesStay
    BY <1>1, <1>9, OutcomesCharge DEF BudgetInv
  <2>3. UNCHANGED configured
    BY <1>9 DEF Restart
  <2> QED  BY <1>1, <2>1, <2>2, <2>3, ConfiguredKept DEF ChargesStay
<1>10. ASSUME NEW w \in Worker, TaskStep(w) \/ Request(w) \/ TaskDies(w)
       PROVE  ConfiguredOnce'
  BY <1>4, <1>6, <1>7, <1>10 DEF TaskStep, Request
<1>11. ConfiguredOnce'
  BY <1>3, <1>8, <1>9, <1>10 DEF Next
<1> QED  BY <1>11, NextCharges DEF BudgetInv

\* Every execution is of a planned step of its own, and every reconfiguration of
\* a charged reconciliation.
LEMMA EffectsAreCharged ==
  ASSUME FullInv, BudgetInv
  PROVE  EffectsWithinBudget
<1> SUFFICES ASSUME NEW g \in Grant
             PROVE  Cardinality(Executions(g)) + Cardinality(Reconfigurations(g))
                      <= Allowance[g] - grants[g].remaining
  BY DEF EffectsWithinBudget
<1>1. /\ IsFiniteSet(Planned(g)) /\ IsFiniteSet(Reapplied(g))
      /\ Cardinality(Planned(g)) \in Nat /\ Cardinality(Reapplied(g)) \in Nat
      /\ Cardinality(Planned(g)) + Cardinality(Reapplied(g))
           = Allowance[g] - grants[g].remaining
  BY FS_CardinalityType DEF BudgetInv, ChargedExactly
<1>2. /\ IsFiniteSet(Executions(g))
      /\ Cardinality(Executions(g)) <= Cardinality(Planned(g))
  <2> DEFINE step(x) == <<attempts[x[1]].pair, attempts[x[1]].index>>
             f == [x \in Executions(g) |-> step(x)]
  <2>1. \A x \in Executions(g) :
          /\ x[1] \in AttemptId /\ attempts[x[1]].pair \in Pair
          /\ GrantOf[attempts[x[1]].pair] = g
          /\ x = <<x[1], 1>>
    <3>1. \A a \in AttemptId : driven[a] \in {0, 1}
      BY DEF FullInv, TypeInv, ExecutionInv
    <3>2. \A a \in AttemptId :
            attempts[a].pair # None => attempts[a].pair \in Pair
      BY DEF FullInv, TypeInv, StoreInv, TablesTyped, AttemptRow
    <3> QED  BY <3>1, <3>2 DEF Executions, GrantOfAttempt
  <2>2. \A x \in Executions(g) : step(x) \in Planned(g)
    <3> TAKE x \in Executions(g)
    <3> DEFINE a == x[1]
    <3>1. a \in AttemptId /\ attempts[a].pair \in Pair
          /\ GrantOf[attempts[a].pair] = g
      BY <2>1
    <3>2. /\ a \in AttemptsOf(attempts[a].pair)
          /\ attempts[a].index \in StepIndex
          /\ attempts[a].index < OpCount[attempts[a].pair]
      BY <3>1
         DEF AttemptsOf, FullInv, TypeInv, StoreInv, TablesTyped, AttemptRow,
             CustodyInv, InPlan
    <3> QED  BY <3>1, <3>2 DEF Planned
  <2>3. ASSUME NEW x \in Executions(g), NEW y \in Executions(g),
               step(x) = step(y)
        PROVE  x = y
    <3>1. /\ attempts[x[1]].pair = attempts[y[1]].pair
          /\ attempts[x[1]].index = attempts[y[1]].index
      BY <2>3
    <3>2. x[1] = y[1]
      BY <2>1, <3>1, NoneIsNoValue
         DEF FullInv, CustodyInv, StepsInOrder, AttemptsOf
    <3> QED  BY <2>1, <3>2
  <2>4. f \in Injection(Executions(g), Planned(g))
    BY <2>2, <2>3 DEF Injection, IsInjective
  <2> HIDE DEF f
  <2> QED  BY <1>1, <2>4, FS_Injection
<1>3. /\ IsFiniteSet(Reconfigurations(g))
      /\ Cardinality(Reconfigurations(g)) <= Cardinality(Reapplied(g))
  <2> DEFINE f == [x \in Reconfigurations(g) |-> x[1]]
  <2>1. \A x \in Reconfigurations(g) : x[1] \in Reapplied(g) /\ x = <<x[1], 1>>
    <3>1. \A q \in ReconcileId :
            recons[q].attempt # None =>
              /\ ConfigCost[attempts[recons[q].attempt].pair] \in {0, 1}
              /\ configured[q] <= ConfigCost[attempts[recons[q].attempt].pair]
              /\ configured[q] \in Nat
      BY ParametersTyped DEF BudgetInv, ConfiguredOnce, FullInv, TypeInv
    <3> SUFFICES ASSUME NEW q \in ReconcileId, recons[q].attempt # None,
                        GrantOfAttempt(recons[q].attempt) = g,
                        NEW n \in 1..configured[q]
                 PROVE  q \in Reapplied(g) /\ n = 1
      BY DEF Reconfigurations
    <3>2. n = 1 /\ ConfigCost[attempts[recons[q].attempt].pair] = 1
      BY <3>1
    <3> QED  BY <3>2 DEF Reapplied
  <2>2. f \in Injection(Reconfigurations(g), Reapplied(g))
    BY <2>1 DEF Injection, IsInjective
  <2> HIDE DEF f
  <2> QED  BY <1>1, <2>2, FS_Injection
<1>4. /\ Cardinality(Executions(g)) \in Nat
      /\ Cardinality(Reconfigurations(g)) \in Nat
  BY <1>2, <1>3, FS_CardinalityType
<1>5. \A j, k, m, n \in Nat : j <= m /\ k <= n => j + k <= m + n
  OBVIOUS
<1> QED  BY <1>1, <1>2, <1>3, <1>4, <1>5

\* The physical effects done under a grant never exceed what it was charged
\* for, however plans are resumed, reconciled and taken over.
THEOREM EffectsStayWithinBudget == Spec => []EffectsWithinBudget
<1>1. Init => FullInv /\ BudgetInv
  BY FullInvHolds, InitBudget
<1>2. FullInv /\ BudgetInv /\ [Next]_vars => (FullInv /\ BudgetInv)'
  BY FullInvHolds, NextBudget
<1>3. FullInv /\ BudgetInv => EffectsWithinBudget
  BY EffectsAreCharged
<1> QED  BY <1>1, <1>2, <1>3, PTL DEF Spec

=============================================================================
