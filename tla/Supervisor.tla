----------------------------- MODULE Supervisor -----------------------------
(***************************************************************************)
(* The supervisor (src/src/supervisor/mod.rs) and the service tasks that   *)
(* run it (src/src/service/api.rs), over the journal of module Store.      *)
(*                                                                         *)
(* A worker is a request handler or the detached task it spawns.  It calls *)
(* several store transactions in a row, and other workers and a crash can  *)
(* come between any two of them: task[w].pc names the call it makes next   *)
(* and the other fields what it read so far.  Instruments appear as the    *)
(* times a backend was let loose on them (driven, configured), which no    *)
(* restart takes back.                                                     *)
(***************************************************************************)
EXTENDS Store, FiniteSets

CONSTANTS
  Worker,          \* handlers and detached tasks alive at the same time
  Admissions,      \* plan executions that agents ask for
  Takeovers,       \* recovery takeovers that operators ask for
  Abandonments,    \* abandonments that operators ask for
  Reconciliations, \* reconciliations that agents ask for
  Revocable,       \* grants an operator may revoke
  Expirable,       \* grants that may run out
  MaxRestarts,     \* bound: crashes followed by a restart
  TasksMayDie      \* a store error or a panic may end a task

ASSUME RequestsTyped ==
  /\ Admissions \subseteq [run : RunId, pair : Pair, first : FirstId]
  /\ Takeovers \subseteq TakeoverRecord
  /\ Abandonments \subseteq AbandonRecord
  /\ Reconciliations \subseteq [request : ReconcileId, attempt : AttemptId]
  /\ Revocable \subseteq Grant /\ Expirable \subseteq Grant
  /\ MaxRestarts \in Nat /\ TasksMayDie \in BOOLEAN

VARIABLES
  task,         \* what each worker is doing
  driven,       \* times a backend executed the operation of an attempt
  configured,   \* times a reconciliation reapplied instrument configuration
  restarts      \* crashes so far

vars == <<tables, task, driven, configured, restarts>>

Idle == [pc |-> "idle", run |-> None, pair |-> None, index |-> 0,
         attempt |-> None, outcome |-> None, request |-> None, keys |-> {}]

Pc == {"idle", "create", "submit", "claim", "drive", "record", "advance",
       "save", "scan", "abandon", "reconcile", "finish"}

Task ==
  [pc : Pc, run : RunId \cup {None}, pair : Pair \cup {None},
   index : StepIndex, attempt : AttemptId \cup {None},
   outcome : Receipt \cup {"failed", None},
   request : ReconcileId \cup AbandonId \cup {None},
   keys : SUBSET Resource]

\* Shapes of the tables and tasks, of Supervisor and ServiceApi.
TypeOK ==
  /\ TablesTyped
  /\ task \in [Worker -> Task]
  /\ driven \in [AttemptId -> Nat]
  /\ configured \in [ReconcileId -> Nat]
  /\ restarts \in 0..MaxRestarts

Init ==
  /\ StoreInit
  /\ task = [w \in Worker |-> Idle]
  /\ driven = [a \in AttemptId |-> 0]
  /\ configured = [q \in ReconcileId |-> 0]
  /\ restarts = 0

world == <<driven, configured, restarts>>

Becomes(w, next) == task' = [task EXCEPT ![w] = next]

GivesUp(w) == Becomes(w, Idle) /\ UNCHANGED tables

\* The dispatch ticket for step i of run r, held as attempt a of pair p.
Ticket(r, p, i, a) ==
  [Idle EXCEPT !.pc = "claim", !.run = r, !.pair = p, !.index = i,
               !.attempt = a]

Submission(r, p, i, a) == [Ticket(r, p, i, a) EXCEPT !.pc = "submit"]

-----------------------------------------------------------------------------
(* Admission *)

\* admit_plan reads the grant and the closed pairs first.
AdmitPlan(w, adm) ==
  /\ task[w] = Idle
  /\ ~grants[GrantOf[adm.pair]].revoked
  /\ ~Halted(adm.pair)
  /\ adm.pair \notin retired
  /\ Becomes(w, [Submission(adm.run, adm.pair, 0, adm.first)
                   EXCEPT !.pc = "create"])
  /\ UNCHANGED <<tables, world>>

CreateRun(w) ==
  LET t == task[w]
  IN  /\ t.pc = "create"
      /\ IF CanCreateRun(t.run, t.pair, t.attempt)
         THEN /\ runs' = RunsAfterCreate(t.run, t.pair, t.attempt)
              /\ Becomes(w, Submission(t.run, t.pair, 0, t.attempt))
              /\ UNCHANGED <<attempts, leases, grants, recons, takeovers,
                             retired, abandonments>>
         ELSE GivesUp(w)
      /\ UNCHANGED world

\* submit, with the branches its callers take on the outcome: a reserved
\* or a still undispatched step yields a ticket, anything else ends the task.
Submittable(p, i) == i < OpCount[p] /\ ~grants[GrantOf[p]].revoked

Submit(w) ==
  LET t == task[w]
      req == StepRequest(t.run, t.index)
      fresh == /\ Submittable(t.pair, t.index)
               /\ CanReserve(t.attempt, t.pair, t.index, req)
      pending == /\ Submittable(t.pair, t.index)
                 /\ SameAttempt(t.attempt, t.pair, t.index, req)
                 /\ attempts[t.attempt].state = "intent"
      ticket == Ticket(t.run, t.pair, t.index, t.attempt)
  IN  /\ t.pc = "submit"
      /\ \/ /\ fresh
            /\ Reserve(t.attempt, t.pair, t.index, req)
            /\ Becomes(w, ticket)
         \/ pending /\ Becomes(w, ticket) /\ UNCHANGED tables
         \/ ~fresh /\ ~pending /\ GivesUp(w)
      /\ UNCHANGED world

-----------------------------------------------------------------------------
(* Execution: execute and execute_next *)

Dispatch(w) ==
  LET t == task[w]
  IN  /\ t.pc = "claim"
      /\ IF CanClaimDispatch(t.attempt)
         THEN ClaimDispatch(t.attempt) /\ Becomes(w, [t EXCEPT !.pc = "drive"])
         ELSE GivesUp(w)
      /\ UNCHANGED world

DriveBug(w) ==
  /\ task[w].pc = "drive"
  /\ driven' = [driven EXCEPT ![task[w].attempt] = @ + 1]
  /\ Becomes(w, Idle)
  /\ UNCHANGED <<tables, configured, restarts>>

\* Preflight, interlocks, the backend, evidence and postconditions.  Only a
\* rejection proves that the instrument was left alone.
Drive(w) ==
  /\ task[w].pc = "drive"
  /\ \E receipt \in Receipt :
       /\ Becomes(w, [task[w] EXCEPT !.pc = "record", !.outcome = receipt])
       /\ \/ /\ receipt = "rejected"
             /\ UNCHANGED driven
          \/ /\ receipt # "rejected"
             /\ driven' = [driven EXCEPT ![task[w].attempt] = @ + 1]
          \/ /\ receipt = "unknown"
             /\ UNCHANGED driven
  /\ UNCHANGED <<tables, configured, restarts>>

LastStep(p, i) == i + 1 = OpCount[p]

ReleasesBug(a, receipt) ==
  LastStep(attempts[a].pair, attempts[a].index) \/ receipt = "rejected"

Releases(a, receipt) ==
  \/ receipt = "rejected"
  \/ receipt = "completed" /\ LastStep(attempts[a].pair, attempts[a].index)

Record(w) ==
  LET t == task[w]
  IN  /\ t.pc = "record"
      /\ IF attempts[t.attempt].state = "dispatched"
         THEN /\ RecordReceipt(t.attempt, t.outcome,
                               Releases(t.attempt, t.outcome))
              /\ Becomes(w, IF t.outcome = "completed"
                            THEN [t EXCEPT !.pc = "advance",
                                           !.outcome = None]
                            ELSE Idle)
         ELSE GivesUp(w)
      /\ UNCHANGED world

\* advance_run reads the run under one lock ...
AdvanceRun(w) ==
  LET t == task[w]
  IN  /\ t.pc = "advance"
      /\ IF runs[t.run] # NoRun /\ runs[t.run].cursor = t.index
         THEN Becomes(w, [t EXCEPT !.pc = "save"]) /\ UNCHANGED tables
         ELSE GivesUp(w)
      /\ UNCHANGED world

\* ... and writes it back under another; execute_next then goes on to the
\* next step of the run.
SaveRun(w) ==
  LET t == task[w]
  IN  /\ t.pc = "save"
      /\ runs' = [runs EXCEPT ![t.run].cursor = t.index + 1]
      /\ Becomes(w, IF LastStep(runs[t.run].pair, t.index) THEN Idle
                    ELSE Submission(t.run, t.pair, t.index + 1,
                                    StepAttempt(t.run, t.index + 1)))
      /\ UNCHANGED <<attempts, leases, grants, recons, takeovers, retired,
                     abandonments, world>>

-----------------------------------------------------------------------------
(* Resumption: resume_plan *)

ClosedRun(r) == \/ \E h \in abandonments : h.run = r
                \/ runs[r].pair \in retired

\* The cursor is repaired before the run is found to be closed.
ResumePlan(w, r) ==
  /\ task[w] = Idle
  /\ runs[r] # NoRun
  /\ runs' = RunsAfterRepair(r)
  /\ Becomes(w, IF ClosedRun(r) THEN Idle
                ELSE [Idle EXCEPT !.pc = "scan", !.run = r])
  /\ UNCHANGED <<attempts, leases, grants, recons, takeovers, retired,
                 abandonments, world>>

\* The first step without a completed attempt decides.
ScanSteps(w) ==
  LET r == task[w].run
      p == runs[r].pair
      next == CompletedPrefix(r)
      a == StepAttempt(r, next)
  IN  /\ task[w].pc = "scan"
      /\ Becomes(w, IF next = OpCount[p] THEN Idle
                    ELSE IF attempts[a].state = "intent"
                    THEN Ticket(r, p, next, a)
                    ELSE IF attempts[a].state = "absent"
                    THEN Submission(r, p, next, a)
                    ELSE Idle)
      /\ UNCHANGED <<tables, world>>

-----------------------------------------------------------------------------
(* Reconciliation *)

ClaimRecon(w, rec) ==
  /\ task[w] = Idle
  /\ CanClaimReconciliation(rec.request, rec.attempt)
  /\ ClaimReconciliation(rec.request, rec.attempt)
  /\ Becomes(w, [Idle EXCEPT !.pc = "reconcile", !.request = rec.request,
                             !.attempt = rec.attempt])
  /\ UNCHANGED world

ReconcileBug(w) ==
  LET t == task[w]
  IN  /\ t.pc = "reconcile"
      /\ \/ Becomes(w, [t EXCEPT !.pc = "finish", !.outcome = "completed"])
         \/ Becomes(w, Idle)
      /\ UNCHANGED <<tables, driven, configured, restarts>>

\* backend.reconcile observes, after it reapplied the configuration if the
\* plan says so; "unknown" is a fresh receipt that does not prove completion,
\* "failed" the lack of one.
Reconcile(w) ==
  LET t == task[w]
  IN  /\ t.pc = "reconcile"
      /\ \E verdict \in {"completed", "unknown", "failed"} :
           /\ Becomes(w, [t EXCEPT !.pc = "finish", !.outcome = verdict])
           /\ \/ configured' = [configured EXCEPT ![t.request] =
                                 @ + ConfigCost[attempts[t.attempt].pair]]
              \/ verdict = "failed" /\ UNCHANGED configured
      /\ UNCHANGED <<tables, driven, restarts>>

FinishRecon(w) ==
  LET t == task[w]
  IN  /\ t.pc = "finish"
      /\ IF recons[t.request].state = "claimed"
         THEN FinishReconciliation(t.request, t.outcome,
                                   Releases(t.attempt, t.outcome))
         ELSE UNCHANGED tables
      /\ Becomes(w, Idle)
      /\ UNCHANGED world

-----------------------------------------------------------------------------
(* Authority: takeover, abandonment, the end of a grant *)

TakeOver(w, t) ==
  /\ task[w] = Idle
  /\ ~grants[GrantOf[t.pair]].revoked
  /\ \/ /\ t \in takeovers \/ TakenForRepeated(t)
        /\ UNCHANGED tables
     \/ /\ \A u \in takeovers : u.request # t.request
        /\ CanTakeover(t)
        /\ TakeoverRecovery(t)
  /\ Becomes(w, Ticket(t.run, t.pair, 0, t.first))
  /\ UNCHANGED world

\* The handler notes the leases it means to release ...
ProposeAbandonment(w, h) ==
  /\ task[w] = Idle
  /\ h \notin abandonments
  /\ runs[h.run].pair = h.pair
  /\ Becomes(w, [Idle EXCEPT !.pc = "abandon", !.run = h.run,
                             !.pair = h.pair, !.request = h.request,
                             !.keys = LeaseKeys(h.pair)])
  /\ UNCHANGED <<tables, world>>

\* ... and the transaction compares them again.
Abandon(w) ==
  LET t == task[w]
      h == [request |-> t.request, run |-> t.run, pair |-> t.pair]
  IN  /\ t.pc = "abandon"
      /\ IF CanAbandon(h, t.keys)
         THEN AbandonHaltedRun(h) /\ Becomes(w, Idle)
         ELSE GivesUp(w)
      /\ UNCHANGED world

RevokeGrant(g) ==
  /\ g \in Revocable
  /\ ~grants[g].revoked
  /\ grants' = [grants EXCEPT ![g].revoked = TRUE]
  /\ UNCHANGED <<attempts, leases, runs, recons, takeovers, retired,
                 abandonments, task, world>>

GrantExpires(g) ==
  /\ g \in Expirable
  /\ ~grants[g].expired
  /\ grants' = [grants EXCEPT ![g].expired = TRUE]
  /\ UNCHANGED <<attempts, leases, runs, recons, takeovers, retired,
                 abandonments, task, world>>

-----------------------------------------------------------------------------
(* Failure *)

\* A store call fails or the backend panics: the task ends where it is.
TaskDies(w) ==
  /\ TasksMayDie
  /\ task[w] # Idle
  /\ Becomes(w, Idle)
  /\ UNCHANGED <<tables, world>>

\* The daemon dies with all its tasks and reopens the journal.
Restart ==
  /\ restarts < MaxRestarts
  /\ restarts' = restarts + 1
  /\ task' = [w \in Worker |-> Idle]
  /\ RecoverInterruptedDispatches
  /\ UNCHANGED <<driven, configured>>

\* The steps a worker takes by itself once it has started.
TaskStep(w) ==
  \/ CreateRun(w) \/ Submit(w)
  \/ Dispatch(w) \/ Drive(w) \/ Record(w) \/ AdvanceRun(w) \/ SaveRun(w)
  \/ ScanSteps(w)
  \/ Reconcile(w) \/ FinishRecon(w)
  \/ Abandon(w)

\* The requests that start a worker.
Request(w) ==
  \/ \E adm \in Admissions : AdmitPlan(w, adm)
  \/ \E r \in RunId : ResumePlan(w, r)
  \/ \E rec \in Reconciliations : ClaimRecon(w, rec)
  \/ \E t \in Takeovers : TakeOver(w, t)
  \/ \E h \in Abandonments : ProposeAbandonment(w, h)

Next ==
  \/ \E w \in Worker : TaskStep(w) \/ Request(w) \/ TaskDies(w)
  \/ \E g \in Grant : RevokeGrant(g) \/ GrantExpires(g)
  \/ Restart

Spec == Init /\ [][Next]_vars

\* Detached tasks run on threads of their own and every backend call has a
\* deadline, so a task that has started takes its next step eventually.
FairSpec == Spec /\ \A w \in Worker : WF_vars(TaskStep(w))

-----------------------------------------------------------------------------
(* Safety *)

\* The supervisor never repeats a physical effect: not on a duplicate
\* request, a second task for the same run, a resumption or a restart.
\* (claim_dispatch, recover_interrupted_dispatches)
AtMostOnce == \A a \in AttemptId : driven[a] <= 1

\* What was done under a grant, every time apart: operations of its attempts
\* executed, and configurations reapplied by its reconciliations.
GrantOfAttempt(a) == GrantOf[attempts[a].pair]

Executions(g) ==
  UNION {{a} \X (1..driven[a]) :
           a \in {b \in AttemptId : /\ attempts[b].pair # None
                                    /\ GrantOfAttempt(b) = g}}

Reconfigurations(g) ==
  UNION {{q} \X (1..configured[q]) :
           q \in {o \in ReconcileId : /\ recons[o].attempt # None
                                      /\ GrantOfAttempt(recons[o].attempt) = g}}

\* The physical effects done under a grant, reconciliations included, never
\* exceed what admission and reconciliation charged it for, although a plan is
\* charged once and executed over many tasks, resumptions and restarts.
\* (reserve, claim_reconciliation)
EffectsWithinBudget ==
  \A g \in Grant :
    Cardinality(Executions(g)) + Cardinality(Reconfigurations(g))
      <= Allowance[g] - grants[g].remaining

\* The attempts a worker is executing or reconciling at an instrument.
AtInstrument(w) == task[w].pc \in {"drive", "reconcile"}

\* Two workers never drive the same physical resource at the same time,
\* whether they execute or reconcile.  (plan_leases, the claimed index)
ExclusiveInstruments ==
  \A v, w \in Worker :
    v # w /\ AtInstrument(v) /\ AtInstrument(w) =>
      Resources[attempts[task[v].attempt].pair]
        \cap Resources[attempts[task[w].attempt].pair] = {}

\* A takeover that would be taken for a repetition names this run, although the
\* attempt it names is not the first one of it.
Misnamed(r) ==
  \E t \in Takeovers : /\ t.run = r
                       /\ TakenForRepeated(t)
                       /\ t.first # runs[r].first

\* The cursor of a run never runs ahead of the receipts it stands for, although
\* advance_run reads and writes it under two locks.  Only a takeover under the
\* request id of an attempt of another run can move it, which the journal takes
\* for a repeated request.  (advance_run, repair_run_cursor, takeover_recovery)
CursorBacked ==
  \A r \in RunId :
    ~Misnamed(r) =>
      \A i \in 0..(runs[r].cursor - 1) :
        attempts[StepAttempt(r, i)].state = "completed"

\* An attempt under reconciliation is unknown, and nothing else acts on it.
ReconciledIsUnknown ==
  \A q \in ReconcileId :
    recons[q].state = "claimed" =>
      /\ attempts[recons[q].attempt].state = "unknown"
      /\ \A other \in ReconcileId :
           other # q => recons[other] # recons[q]

\* A receipt, once recorded, is never rewritten: not by a reconciliation, a
\* takeover, an abandonment or a restart.
ReceiptsImmutable ==
  [][\A a \in AttemptId :
       attempts[a].receipt # None =>
         attempts'[a].receipt = attempts[a].receipt]_vars

\* Settled outcomes are final, and doubt ends only in proven completion.
OutcomesFinal ==
  [][\A a \in AttemptId :
       /\ attempts[a].state \in {"completed", "rejected"} =>
            attempts'[a].state = attempts[a].state
       /\ attempts[a].state \in Uncertain =>
            attempts'[a].state \in {"unknown", "completed",
                                    attempts[a].state}]_vars

\* A lease passes from one pair to another only in the takeover that retires
\* the old owner; otherwise it is given back first.
LeasesChangeHandsByTakeover ==
  [][\A r \in Resource :
       leases[r] # None /\ leases'[r] \notin {None, leases[r]} =>
         /\ leases[r] \in retired'
         /\ \E t \in takeovers' \ takeovers : t.pair = leases'[r]]_vars

\* A takeover names only attempts of pairs that still hold the leases it
\* moves, as OPERATIONS.md says of inherited responsibility.
SourcesOwnTheirLeases ==
  [][\A p \in retired' \ retired : OwnsAll(p)]_vars

(* Liveness *)

\* What was dispatched is settled while the daemon lives, at the latest as
\* unknown when it restarts.
DispatchSettles ==
  \A a \in AttemptId :
    attempts[a].state = "dispatched" ~> attempts[a].state # "dispatched"

\* A claimed reconciliation ends and lets the next one begin.
ReconciliationSettles ==
  \A q \in ReconcileId :
    recons[q].state = "claimed" ~> recons[q].state # "claimed"

=============================================================================
