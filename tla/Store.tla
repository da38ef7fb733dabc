------------------------------- MODULE Store -------------------------------
(***************************************************************************)
(* The SQLite journal of the supervisor (src/src/store/mod.rs).            *)
(*                                                                         *)
(* A method of SqliteStore holds the connection mutex and runs in one      *)
(* immediate transaction, so it is one atomic step here: a predicate that  *)
(* says when the transaction commits (Can...) and an operator that gives   *)
(* the tables after the commit.  A refused transaction rolls back and      *)
(* leaves every table as it was.  Module Supervisor says who calls what.   *)
(*                                                                         *)
(* A pair is a (grant, plan) combination, the unit that owns leases.  The  *)
(* profile, grant and plan rows a pair names are immutable apart from the  *)
(* grant columns below, so the digest comparisons of the transactions      *)
(* always succeed and are left out, as is the agent of the grant: a        *)
(* request in another agent's name is refused before it changes anything.  *)
(***************************************************************************)
EXTENDS Integers

CONSTANTS
  Grant,         \* grants issued by the operator
  Pair,          \* (grant, plan) pairs that requests can name
  Resource,      \* canonical keys of physical resources
  RunId,         \* request ids that name runs
  FirstId,       \* attempt ids that clients choose for a first step
  TakeoverId,    \* request ids of recovery takeovers
  ReconcileId,   \* request ids of reconciliations
  AbandonId,     \* request ids of abandonments
  GrantOf,       \* the grant of a pair
  Resources,     \* the physical resources of the profile of a pair
  OpCount,       \* the number of operations of the plan of a pair
  MaxOps,        \* the longest plan
  ConfigCost,    \* effects charged for a reconciliation: 1 when the plan
                 \* reapplies instrument configuration, else 0
  Allowance,     \* effects a grant starts with
  None           \* no value

StepIndex == 0..(MaxOps - 1)

\* plan_steps derives the attempt and request ids of later steps from a hash
\* of the run id and the index; the first ones come with the request.
AttemptId == FirstId \cup (RunId \X (1..(MaxOps - 1)))
RequestId == RunId \cup TakeoverId \cup (RunId \X (1..(MaxOps - 1)))

ASSUME ParametersTyped ==
  /\ MaxOps \in Nat \ {0}
  /\ GrantOf \in [Pair -> Grant]
  /\ Resources \in [Pair -> (SUBSET Resource) \ {{}}]
  /\ OpCount \in [Pair -> 1..MaxOps]
  /\ ConfigCost \in [Pair -> {0, 1}]
  /\ Allowance \in [Grant -> Nat]

VARIABLES
  attempts,      \* attempts table: attempt id -> row or NoAttempt
  leases,        \* plan_leases table: resource -> owning pair or None
  grants,        \* grants table: remaining budget, revocation, expiry
  runs,          \* runs table: run id -> row or NoRun
  recons,        \* reconciliations table: request id -> row or NoRecon
  takeovers,     \* recovery_takeovers table
  retired,       \* recovery_source_retirements table: pairs
  abandonments   \* halted_run_abandonments table

tables == <<attempts, leases, grants, runs, recons, takeovers, retired,
            abandonments>>

NoAttempt == [state |-> "absent", pair |-> None, index |-> 0,
              request |-> None, receipt |-> None]
NoRun == [pair |-> None, first |-> None, request |-> None, cursor |-> 0]
NoRecon == [attempt |-> None, state |-> "absent"]

Receipt == {"completed", "partial", "unknown", "rejected"}

ASSUME NoneIsNoValue ==
  None \notin Pair \cup RunId \cup AttemptId \cup RequestId \cup ReconcileId
               \cup Receipt

Uncertain == {"partial", "unknown"}
Unsettled == {"dispatched"} \cup Uncertain

AttemptRow ==
  [state : {"absent", "intent", "dispatched"} \cup Receipt,
   pair : Pair \cup {None}, index : StepIndex,
   request : RequestId \cup {None}, receipt : Receipt \cup {None}]
RunRow ==
  [pair : Pair \cup {None}, first : FirstId \cup {None},
   request : RunId \cup TakeoverId \cup {None}, cursor : 0..MaxOps]
ReconRow ==
  [attempt : AttemptId \cup {None},
   state : {"absent", "claimed", "completed", "unknown", "failed"}]
GrantRow == [remaining : Nat, revoked : BOOLEAN, expired : BOOLEAN]
TakeoverRecord ==
  [request : TakeoverId, run : RunId, first : FirstId, pair : Pair,
   unresolved : (SUBSET AttemptId) \ {{}}]
AbandonRecord == [request : AbandonId, run : RunId, pair : Pair]

TablesTyped ==
  /\ attempts \in [AttemptId -> AttemptRow]
  /\ leases \in [Resource -> Pair \cup {None}]
  /\ grants \in [Grant -> GrantRow]
  /\ runs \in [RunId -> RunRow]
  /\ recons \in [ReconcileId -> ReconRow]
  /\ takeovers \in SUBSET TakeoverRecord
  /\ retired \in SUBSET Pair
  /\ abandonments \in SUBSET AbandonRecord

\* A commissioned instance with its grants issued and nothing submitted.
StoreInit ==
  /\ attempts = [a \in AttemptId |-> NoAttempt]
  /\ leases = [r \in Resource |-> None]
  /\ grants = [g \in Grant |-> [remaining |-> Allowance[g],
                                revoked |-> FALSE, expired |-> FALSE]]
  /\ runs = [r \in RunId |-> NoRun]
  /\ recons = [q \in ReconcileId |-> NoRecon]
  /\ takeovers = {}
  /\ retired = {}
  /\ abandonments = {}

-----------------------------------------------------------------------------
(* Queries.  An operator whose name ends in Bug is a mutated form of the   *)
(* definition after it, a mistake the runs must notice; no definition of   *)
(* the specification uses one.                                             *)

AttemptsOf(p) == {a \in AttemptId : attempts[a].pair = p}

RecoveryDestination(p) == \E t \in takeovers : t.pair = p

Halted(p) == \E h \in abandonments : h.pair = p

HasDispatched(p) == \E a \in AttemptsOf(p) : attempts[a].state = "dispatched"

ActiveReconciliationBug(a) ==
  \E q \in ReconcileId : recons[q] = [attempt |-> a, state |-> "unknown"]

ActiveReconciliation(a) ==
  \E q \in ReconcileId : recons[q] = [attempt |-> a, state |-> "claimed"]

HasActiveReconciliation(p) == \E a \in AttemptsOf(p) : ActiveReconciliation(a)

OwnsAll(p) == \A r \in Resources[p] : leases[r] = p

Authorized(p) == /\ ~grants[GrantOf[p]].revoked
                 /\ ~grants[GrantOf[p]].expired

AffordsBug(p, cost) == TRUE
Affords(p, cost) == cost <= grants[GrantOf[p]].remaining

Charge(p, cost) == [grants EXCEPT ![GrantOf[p]].remaining = @ - cost]

\* release_leases: only rows the pair still owns are deleted.
Released(p) ==
  [r \in Resource |->
     IF r \in Resources[p] /\ leases[r] = p THEN None ELSE leases[r]]

\* The attempt and request ids of step i in the stored run r.
StepAttempt(r, i) == IF i = 0 THEN runs[r].first ELSE <<r, i>>
StepRequest(r, i) == IF i = 0 THEN runs[r].request ELSE <<r, i>>

Intent(p, i, req) ==
  [state |-> "intent", pair |-> p, index |-> i, request |-> req,
   receipt |-> None]

Settle(a, receipt) ==
  [attempts EXCEPT ![a].state = receipt, ![a].receipt = receipt]

-----------------------------------------------------------------------------
(* create_run: inserts the run, or finds the same run already there. *)

CanCreateRun(r, p, first) ==
  \/ runs[r] = NoRun
  \/ runs[r].pair = p /\ runs[r].first = first /\ runs[r].request = r

RunsAfterCreate(r, p, first) ==
  IF runs[r] = NoRun
  THEN [runs EXCEPT ![r] = [pair |-> p, first |-> first, request |-> r,
                            cursor |-> 0]]
  ELSE runs

(* repair_run_cursor: the completed prefix of the steps, never backwards. *)

StepDoneBug(r, i) == attempts[StepAttempt(r, i)].receipt # None
StepDone(r, i) == attempts[StepAttempt(r, i)].state = "completed"

CompletedPrefix(r) ==
  CHOOSE n \in 0..OpCount[runs[r].pair] :
    /\ \A i \in 0..(n - 1) : StepDone(r, i)
    /\ n < OpCount[runs[r].pair] => ~StepDone(r, n)

RunsAfterRepair(r) ==
  IF CompletedPrefix(r) > runs[r].cursor
  THEN [runs EXCEPT ![r].cursor = CompletedPrefix(r)]
  ELSE runs

-----------------------------------------------------------------------------
(* reserve: admits step i of pair p as a durable intent. *)

InOrderBug(p, i) ==
  \/ AttemptsOf(p) = {} /\ i = 0
  \/ \E a \in AttemptsOf(p) : /\ attempts[a].state = "completed"
                             /\ i = attempts[a].index + 1

\* Steps of a pair are admitted in order, each after the one before it
\* completed.
InOrder(p, i) ==
  \/ AttemptsOf(p) = {} /\ i = 0
  \/ \E a \in AttemptsOf(p) :
       /\ \A b \in AttemptsOf(p) : attempts[b].index <= attempts[a].index
       /\ attempts[a].state = "completed"
       /\ i = attempts[a].index + 1

ReservedBug(p, i) == IF i = 0 THEN 1 ELSE 0

\* The first step reserves the worst case of the whole plan.
Reserved(p, i) == IF i = 0 THEN OpCount[p] ELSE 0

Existing(req) == \E a \in AttemptId : attempts[a].request = req

SameAttempt(a, p, i, req) ==
  attempts[a].request = req /\ attempts[a].pair = p /\ attempts[a].index = i

LeasesFreeBug(p) == TRUE
LeasesFree(p) == \A r \in Resources[p] : leases[r] \in {p, None}

CanReserve(a, p, i, req) ==
  /\ ~Existing(req)
  /\ attempts[a] = NoAttempt
  /\ ~Halted(p)
  /\ p \notin retired
  /\ Authorized(p)
  /\ InOrder(p, i)
  /\ LeasesFree(p)
  /\ Affords(p, Reserved(p, i))

Reserve(a, p, i, req) ==
  /\ attempts' = [attempts EXCEPT ![a] = Intent(p, i, req)]
  /\ leases' = [r \in Resource |->
                  IF r \in Resources[p] THEN p ELSE leases[r]]
  /\ grants' = Charge(p, Reserved(p, i))
  /\ UNCHANGED <<runs, recons, takeovers, retired, abandonments>>

-----------------------------------------------------------------------------
(* claim_dispatch and record_receipt *)

CanClaimDispatch(a) ==
  LET p == attempts[a].pair
  IN  /\ attempts[a].state = "intent"
      /\ ~Halted(p)
      /\ p \notin retired
      /\ Authorized(p)
      /\ OwnsAll(p)

ClaimDispatch(a) ==
  /\ attempts' = [attempts EXCEPT ![a].state = "dispatched"]
  /\ UNCHANGED <<leases, grants, runs, recons, takeovers, retired,
                 abandonments>>

FreesLeasesBug(a, receipt, release) == release

\* A rejected step of a recovery destination keeps the uncertainty it
\* inherited, and with it the leases.
FreesLeases(a, receipt, release) ==
  release /\ (receipt # "rejected" \/ ~RecoveryDestination(attempts[a].pair))

RecordReceipt(a, receipt, release) ==
  /\ attempts' = Settle(a, receipt)
  /\ leases' = IF FreesLeases(a, receipt, release)
               THEN Released(attempts[a].pair) ELSE leases
  /\ UNCHANGED <<grants, runs, recons, takeovers, retired, abandonments>>

-----------------------------------------------------------------------------
(* claim_reconciliation and finish_reconciliation *)

ReconcilableBug(a) == attempts[a].receipt \in Uncertain
Reconcilable(a) == attempts[a].state \in Uncertain

CanClaimReconciliation(q, a) ==
  LET p == attempts[a].pair
  IN  /\ recons[q] = NoRecon
      /\ ~ActiveReconciliation(a)
      /\ Reconcilable(a)
      /\ Authorized(p)
      /\ OwnsAll(p)
      /\ Affords(p, ConfigCost[p])

ClaimReconciliation(q, a) ==
  /\ recons' = [recons EXCEPT ![q] = [attempt |-> a, state |-> "claimed"]]
  /\ attempts' = [attempts EXCEPT ![a].state = "unknown"]
  /\ grants' = Charge(attempts[a].pair, ConfigCost[attempts[a].pair])
  /\ UNCHANGED <<leases, runs, takeovers, retired, abandonments>>

ResolvedBug(a, verdict) ==
  IF verdict = "completed" THEN Settle(a, verdict)
  ELSE [attempts EXCEPT ![a].state = "unknown"]

\* The receipt of the original dispatch stays; only the state moves.
Resolved(a, verdict) ==
  [attempts EXCEPT ![a].state =
     IF verdict = "completed" THEN "completed"
     ELSE IF @ = "partial" THEN "unknown" ELSE @]

FinishReconciliation(q, verdict, release) ==
  LET a == recons[q].attempt
  IN  /\ recons' = [recons EXCEPT ![q].state = verdict]
      /\ attempts' = Resolved(a, verdict)
      /\ leases' = IF verdict = "completed" /\ release
                   THEN Released(attempts[a].pair) ELSE leases
      /\ UNCHANGED <<grants, runs, takeovers, retired, abandonments>>

-----------------------------------------------------------------------------
(* takeover_recovery: moves the leases of unresolved work to a new pair. *)

SourcePairs(t) == {attempts[s].pair : s \in t.unresolved}

\* What makes an attempt a source that may be taken over.
IsSource(s, p) ==
  LET from == attempts[s].pair
  IN  /\ attempts[s].state # "absent"
      /\ from \notin retired
      /\ ~HasDispatched(from)
      /\ ~HasActiveReconciliation(from)
      /\ \/ attempts[s].state \in Uncertain
         \/ /\ RecoveryDestination(from)
            /\ attempts[s].state \in {"intent", "rejected", "completed"}
      /\ Resources[from] = Resources[p]

\* A takeover whose request id is not of a takeover but of the attempt it names
\* is taken for the repetition of that request; its run is not compared.
TakenForRepeated(t) ==
  /\ \A u \in takeovers : u.request # t.request
  /\ attempts[t.first].request = t.request
  /\ attempts[t.first].pair = t.pair

CanTakeover(t) ==
  /\ ~Existing(t.request)
  /\ ~Halted(t.pair)
  /\ t.pair \notin retired
  /\ Authorized(t.pair)
  /\ \A s \in t.unresolved : IsSource(s, t.pair)
  /\ \A r \in Resources[t.pair] : leases[r] \in SourcePairs(t)
  /\ Affords(t.pair, Reserved(t.pair, 0))
  /\ attempts[t.first] = NoAttempt
  /\ \A a \in AttemptsOf(t.pair) : attempts[a].index # 0
  /\ runs[t.run] = NoRun

TakeoverRecoveryBug(t) ==
  /\ leases' = [r \in Resource |->
                  IF r \in Resources[t.pair] THEN t.pair ELSE leases[r]]
  /\ grants' = Charge(t.pair, Reserved(t.pair, 0))
  /\ attempts' = [attempts EXCEPT ![t.first] = Intent(t.pair, 0, t.request)]
  /\ runs' = [runs EXCEPT ![t.run] =
                [pair |-> t.pair, first |-> t.first, request |-> t.request,
                 cursor |-> 0]]
  /\ takeovers' = takeovers \cup {t}
  /\ UNCHANGED <<recons, retired, abandonments>>

TakeoverRecovery(t) ==
  /\ leases' = [r \in Resource |->
                  IF r \in Resources[t.pair] THEN t.pair ELSE leases[r]]
  /\ retired' = retired \cup SourcePairs(t)
  /\ grants' = Charge(t.pair, Reserved(t.pair, 0))
  /\ attempts' = [attempts EXCEPT ![t.first] = Intent(t.pair, 0, t.request)]
  /\ runs' = [runs EXCEPT ![t.run] =
                [pair |-> t.pair, first |-> t.first, request |-> t.request,
                 cursor |-> 0]]
  /\ takeovers' = takeovers \cup {t}
  /\ UNCHANGED <<recons, abandonments>>

-----------------------------------------------------------------------------
(* abandon_halted_run: closes a pair without uncertain effects. *)

LeaseKeys(p) == {r \in Resource : leases[r] = p}

AbandonableBug(p) == \E a \in AttemptsOf(p) : attempts[a].state # "unknown"

\* Intent is provably before any effect, completed and rejected after it.
Abandonable(p) ==
  /\ AttemptsOf(p) # {}
  /\ \A a \in AttemptsOf(p) : attempts[a].state \notin Unsettled

CanAbandon(h, keys) ==
  /\ \A other \in abandonments :
       other.request # h.request /\ other.run # h.run
  /\ ~Halted(h.pair)
  /\ ~RecoveryDestination(h.pair)
  /\ runs[h.run].pair = h.pair
  /\ Abandonable(h.pair)
  /\ keys = LeaseKeys(h.pair)

AbandonHaltedRun(h) ==
  /\ attempts' =
       [a \in AttemptId |->
          IF attempts[a].pair = h.pair /\ attempts[a].state = "intent"
          THEN [attempts[a] EXCEPT !.state = "rejected",
                                   !.receipt = "rejected"]
          ELSE attempts[a]]
  /\ leases' = [r \in Resource |->
                  IF leases[r] = h.pair THEN None ELSE leases[r]]
  /\ abandonments' = abandonments \cup {h}
  /\ UNCHANGED <<grants, runs, recons, takeovers, retired>>

-----------------------------------------------------------------------------
(* recover_interrupted_dispatches, on every open of the journal *)

InterruptedBug(row) == [row EXCEPT !.state = "intent"]

\* The effect may have happened: its outcome is unknown, never a new intent.
Interrupted(row) == [row EXCEPT !.state = "unknown", !.receipt = "unknown"]

RecoverInterruptedDispatches ==
  /\ attempts' = [a \in AttemptId |->
                    IF attempts[a].state = "dispatched"
                    THEN Interrupted(attempts[a]) ELSE attempts[a]]
  /\ recons' = [q \in ReconcileId |->
                  IF recons[q].state = "claimed"
                  THEN [recons[q] EXCEPT !.state = "unknown"] ELSE recons[q]]
  /\ UNCHANGED <<leases, grants, runs, takeovers, retired, abandonments>>

-----------------------------------------------------------------------------
(* What the tables promise *)

Pending == {"intent"} \cup Unsettled

\* An effect whose outcome is open keeps every lease of its pair until it is
\* reconciled or handed to a recovery pair; what it was handed from holds
\* nothing.  (record_receipt, finish_reconciliation, takeover_recovery)
UncertaintyHoldsLeases ==
  /\ \A a \in AttemptId :
       /\ attempts[a].state \in Pending
       /\ attempts[a].pair \notin retired
       => OwnsAll(attempts[a].pair)
  /\ \A r \in Resource : leases[r] \notin retired

Unfinished(p) ==
  \E i \in 0..(OpCount[p] - 1) :
    \A a \in AttemptsOf(p) :
      attempts[a].index = i => attempts[a].state # "completed"

\* A recovery destination holds what it inherited until its plan is complete
\* or a further takeover retires it, even if one of its steps is rejected.
\* (record_receipt, abandon_halted_run; OPERATIONS.md on recovery runs)
InheritedLeasesHeld ==
  \A t \in takeovers :
    t.pair \notin retired /\ Unfinished(t.pair) => OwnsAll(t.pair)

\* Steps of a pair reach the journal once each and in order: all steps
\* before one that exists are completed.  (reserve, takeover_recovery)
StepsInOrder ==
  \A a \in AttemptId :
    attempts[a].pair # None =>
      /\ \A b \in AttemptsOf(attempts[a].pair) :
           /\ attempts[b].index = attempts[a].index => a = b
           /\ attempts[b].index < attempts[a].index =>
                attempts[b].state = "completed"
      /\ \A i \in 0..(attempts[a].index - 1) :
           \E b \in AttemptsOf(attempts[a].pair) : attempts[b].index = i

\* A closed pair is quiet: no dispatch or reconciliation of a retired pair is
\* in flight, and an abandoned pair has nothing open and leases nothing.
\* (claim_dispatch, claim_reconciliation, abandon_halted_run)
ClosedPairsQuiet ==
  /\ \A p \in retired : ~HasDispatched(p) /\ ~HasActiveReconciliation(p)
  /\ \A h \in abandonments :
       /\ LeaseKeys(h.pair) = {}
       /\ \A a \in AttemptsOf(h.pair) : attempts[a].state \notin Pending

\* A resource is in doubt while an effect on it is unsettled, and while a
\* recovery destination has not finished what it took over.
InDoubt ==
  {r \in Resource :
     \/ \E a \in AttemptId : /\ attempts[a].state \in Unsettled
                            /\ attempts[a].pair \notin retired
                            /\ r \in Resources[attempts[a].pair]
     \/ \E t \in takeovers : /\ t.pair \notin retired
                            /\ Unfinished(t.pair)
                            /\ r \in Resources[t.pair]}

C == INSTANCE Custody WITH Holder <- Pair, holder <- leases, doubt <- InDoubt

\* The journal keeps the promise of Custody: leases are the responsibility
\* for a resource.  (reserve, record_receipt, takeover_recovery and the rest)
KeepsCustody == C!Spec

=============================================================================
