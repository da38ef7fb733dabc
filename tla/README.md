# Cheirismos: specification and proofs

Cheirismos lets agents use laboratory instruments (relays, bus adapters, flash
chips, cameras) under authority an operator granted. Its supervisor admits
reviewed plans, executes them step by step, records what happened in a SQLite
journal, and never repeats a physical effect whose outcome it does not know.
This directory specifies that behaviour in TLA+, checks it with TLC on small
instances and proves part of it with TLAPS for every instance.

Paths below are relative to the repository; the code is in `src/src`, the
documents in `src/docs`.

## The system

| part | state it keeps | operations | what makes it hard |
|---|---|---|---|
| journal (`store/mod.rs`) | attempts, leases, grants, runs, reconciliations, takeovers, retirements, abandonments, proposals, plans, case facts | one immediate transaction per method, under one connection mutex; recovery of interrupted work on open | the order and completeness of the checks in each transaction; crash between two transactions |
| supervisor (`supervisor/mod.rs`) | none of its own; the backend and the stores | propose, review, admit, execute, resume, reconcile, take over, abandon | each is a sequence of transactions and a backend call, and any other request can come between two of them |
| service API (`service/api.rs`) | detached tasks | dispatches requests; spawns an execution on a thread of its own | a task outlives its request; it may die between an effect and its receipt |
| interlocks, conditions (`supervisor/interlocks.rs`, `conditions.rs`) | none | check a witness observation before a dispatch, postconditions after it | the age of an observation that is checked before a wait |
| evidence (`evidence/mod.rs`) | files named by digest, source markers | publish, read, verify a source | concurrent publishers of the same bytes, crashes between file operations |
| device backend (`service/backend`) | a session per instrument, behind a mutex | preflight, execute, reconcile, inspect | deadlines, sessions that are thrown away after an error |
| simulator, flash (`instruments/simulator.rs`, `flash.rs`) | simulated flash and relays, persisted; none | erase, write, set a relay, faults; plans of NOR commands | interruption in the middle of an effect |
| adapters (`service/backend/bus.rs`, `instruments/bpio2.rs`, `cobs.rs`, `numato.rs`, `video.rs`) | a serial stream | framing, requests and answers; transfers that are split into requests, scans, captures | an answer that comes after its call gave up; what a failed transfer left half done on the target |
| server and clients (`service/server.rs`, `client.rs`, `auth.rs`, `mcp.rs`, `config.rs`) | socket, singleton lock, connection permits | accept, authenticate, answer | permits held by slow clients, a stale socket, tasks that outlive the server |
| firmware (`firmware.rs`) | none; images and candidates are evidence | compare images, compose a candidate from patches | ranges that touch, overlap or are out of order; a comparison that is cut short |
| domain (`domain/mod.rs`), entry (`main.rs`) | none | value types and checks; wiring | arithmetic at boundaries |

An agent's request reaches the supervisor through the server and the API. The
supervisor calls the journal for every decision, the device backend for every
effect, and the backend publishes evidence that the receipt then names. Only the
journal decides who may act on an instrument: a *pair* (a grant and a plan) owns
the leases of the physical resources in its profile from the admission of its
first step until its last step completes, it is rejected, it is abandoned, or a
recovery takeover moves the leases to another pair.

What makes each part correct, in a sentence: the journal and the supervisor never
drive an attempt twice and never lose the responsibility for a doubtful effect;
the evidence store never loses what it acknowledged; a device session never mixes
the answers of two calls, and a rejection means that nothing was sent; a gated
effect goes out only on an observation of its own run that passed, is fresh, and
is later than the last effect; a receipt of a bus says what happened on the bus;
a flash operation says completed only of what it read back from a chip at rest; a
candidate changes what was reviewed and nothing else; a
reviewed plan stays what an independent reviewer approved; the simulator's answers
agree with its file; one process at a time owns an instance and every connection
to it ends.

## Modules

| module | what it is |
|---|---|
| `Custody` | the abstract promise of leases: whoever holds a resource whose state is in doubt is responsible for it until the doubt is resolved or handed over |
| `Store` | the journal: a predicate `Can...` for when each transaction commits and an operator for the tables after it; what the tables promise about leases, and the mapping to `Custody` |
| `Supervisor` | the workers (request handlers and detached tasks) that call the journal and the backend, crashes and restarts; the properties |
| `MCSupervisor` | the instances TLC checks, one group of definitions per instance |
| `SupervisorProofs` | the invariants of the tables and of the leases, that every transaction of `Store` preserves them and is a step of `Custody`; the invariants of the workers; the theorems |
| `Archive` | the abstract promise of the evidence store: what a publisher was told is stored is held for good |
| `Evidence`, `MCEvidence`, `EvidenceProofs` | `evidence/mod.rs` at the granularity of file operations; the proof that it implements `Archive` |
| `Device` | the session of an instrument in `service/backend/mod.rs`: mutex, deadline, interlock expiry |
| `Interlocks`, `MCInterlocks`, `InterlocksProofs` | a plan under live interlocks (`supervisor/interlocks.rs`, `conditions.rs`), executed and reconciled through a session of `Device`; the proofs about both |
| `Cobs`, `Bus`, `MCBus`, `BusProofs` | the framing, and the requests and answers of the Bus Pirate and of the relay controller, in one session |
| `Flash`, `FlashProofs` | the flash operations of `service/backend/bus.rs` on a NOR chip that works on by itself |
| `Firmware`, `Patching`, `MCFlash` | comparison and composition of images (`firmware.rs`), and the patching of a chip: read with `Flash`, compose, program with `Flash` |
| `Review`, `MCReview`, `ReviewProofs` | proposals and their review, with the two store calls of a review apart |
| `Simulator`, `MCSimulator`, `SimulatorProofs` | the simulated instrument and its file |
| `Server`, `MCServer`, `ServerProofs` | the daemon process, its lock and socket, and its connections |

`Supervisor` extends `Store`, which is composed with `Custody` by a refinement
mapping, as `Evidence` is with `Archive`. `Interlocks` extends `Device`: each of its
actions is one of the session's together with what it does to the run, so that it
implements `Device` and everything proved of `Device` holds of it. `Bus` extends
`Cobs`, and `Patching` composes `Flash` with `Firmware`. Beyond that, what
one module needs of another is a property of the other. `Supervisor`'s `Drive` relies on
`Device` (a rejection means that nothing was sent; a call ends), on `Interlocks`
(when it may drive at all), on `Flash` and `Bus`
(what completed means); its receipts rely on `Evidence`; its single journal relies
on `Server`. `Device` in turn takes from `Bus` that a session that is kept owes no
answer, which holds of everything but a scan (below).

### Store

The variables are tables of the schema: `attempts`, `leases` (`plan_leases`),
`grants`, `runs`, `recons` (`reconciliations`), `takeovers`
(`recovery_takeovers`), `retired` (`recovery_source_retirements`) and
`abandonments` (`halted_run_abandonments`). A method of `SqliteStore` runs in one
immediate transaction under the connection mutex, so it is atomic. `advance_run`
is the exception: it takes the mutex twice, and is two actions.

| operator | method |
|---|---|
| `CanCreateRun`, `RunsAfterCreate` | `create_run` |
| `CompletedPrefix`, `RunsAfterRepair` | `repair_run_cursor` |
| `CanReserve`, `Reserve` | `reserve` |
| `CanClaimDispatch`, `ClaimDispatch` | `claim_dispatch` |
| `RecordReceipt` | `record_receipt` |
| `CanClaimReconciliation`, `ClaimReconciliation` | `claim_reconciliation` |
| `FinishReconciliation` | `finish_reconciliation` |
| `CanTakeover`, `TakeoverRecovery` | `takeover_recovery` |
| `CanAbandon`, `AbandonHaltedRun` | `abandon_halted_run` |
| `RecoverInterruptedDispatches` | `recover_interrupted_dispatches` |

Abstracted: digests, agents and the immutable rows they bind (a mismatch is
refused before anything changes); the budget is counted in effects, one for each
operation; evidence ordinals and challenges are left out; the ids that
`plan_steps` derives by hashing the run id and the index are the pairs
`<<run, index>>`. An expired grant is a flag of its own beside revocation, since
expiry is noticed only by the transactions that compare the clock.

### Supervisor

A worker's `pc` names the call it makes next, the rest of its record what it has
read. Every action is one transaction or the backend call.

| actions | code |
|---|---|
| `AdmitPlan`, `CreateRun`, `Submit` | `admit_plan`, `submit` |
| `Dispatch`, `Drive`, `Record` | `execute`: the claim, the backend call with interlocks, evidence and postconditions, the receipt |
| `AdvanceRun`, `SaveRun` | `advance_run`, its read and its write, and the loop of `execute_next` |
| `ResumePlan`, `ScanSteps` | `resume_plan`: cursor repair and the choice of the step to continue with |
| `ClaimRecon`, `Reconcile`, `FinishRecon` | `reconcile` |
| `TakeOver` | `takeover_recovery`, fresh and repeated |
| `ProposeAbandonment`, `Abandon` | `abandon_halted_run`: the leases it reads, then the transaction |
| `RevokeGrant`, `GrantExpires` | `revoke_grant`, the passing of time |
| `TaskDies`, `Restart` | a failed store call or a panic in a task; the death of the daemon and the next `open` |

`driven` and `configured` count what the backend was let loose on; no code keeps
these, they are what the properties are about, and a crash does not undo them.
`Drive` ends in any receipt: a rejection proves that nothing happened, an unknown
one may stand for an effect or for none. Reconciliation only observes, after it
reapplied the instrument's configuration if the plan says so.

Left out: `reject_intent`, and `submit`, `execute`, `execute_plan` and `resume` as
entry points of their own, which no request of the service reaches; proposals and
review, which are in `Review`. The closed-run check of `resume_plan` is merged with its
cursor repair, which no other table depends on.

### Evidence and Archive

`publish` probes for the digest, writes a temporary file, synchronizes it, links
it under its digest, verifies what is linked, synchronizes file and directory,
removes the temporary name, and then makes and synchronizes the source marker.
Each of these is an action of a publisher; publishers share the directory without
a lock. `content`, `names`, `temps` and `marks` are what the page cache shows,
`disk` what a loss of power leaves: `LosePower` takes back any part of what was
not synchronized, `Die` nothing. File contents are none, torn or full.
`TemporaryEntry::remove` removes the temporary name (`Unlink`) and gives it up when
the directory is synchronized (`SyncGone`); a publisher that is told of a failure
drops it as `TemporaryEntry::drop` does, which may fail to remove it or to
synchronize, and then only warns (`Fail`). `left` has the names that such a failure,
a death or a loss of power left behind. Directories and modes are left out.

`Held`, the refinement mapping, is what `verify_source` would confirm: a marker
whose digest names intact bytes.

### Flash

`call` is the operation of the driver and how far it is, `flash`, `latch` and
`pending` the chip, which is external: it ignores a program or erase command when
it is busy or not enabled, wraps a program inside its page, and finishes by
itself (`Finish`). `TransferFails` stands for every failed transfer and for the
deadline, with the command taken or not; it drops the session, and the next call
starts over. A byte is a bit: programming clears bits, erasing sets them, and no
code distinguishes more. `entitled` collects the regions effects were asked for.
A request always asks for at least one byte: `preflight.rs:128` and `:146` refuse
an empty one before the device is touched.

### Device

A call of `execute`, `reconcile` or `inspect` waits for the session's mutex,
connects if there is no session, observes the identity, and sends its commands.
`Limit` is the smaller of the deadline and the interlock's expiry. The timer
looks at the answer first, so a command begins even if the limit passed a moment
ago: one command at most, which `OneCommandLate` says. A panic poisons the mutex
for good. That closing a port discards an answer still under way is assumed of
the operating system. Adapters that never wait (the simulator) and `Wait`
operations have none of this and are left out. A command is answered or the
session is dropped; that a scan goes on after a probe timed out is in `Bus`, and
`NeverMixed` says nothing of it.

### Interlocks

`case` is a plan with the interlocks of its profile, `attempt` the state of each
step with when and how well it observed. `Execute`, `Reconcile` and `Inspect` begin
a call of `Device`; `Follow` and `Records` are what the call then does to the run.
`Witnesses` is the search of `observation_step`, `PlanIsGuarded` that of
`validate_plan`, `Vouches` the check of one interlock, `Expiry` what is passed on
to the backend.

The signal that an observation reads may pass or fail its checks at any time, so
`sample` is drawn when the instrument answers; the age counts from when the
observation is published, as `captured_at` does, which is later. `quiet` is kept by
no code: it holds the steps that observed with no effect commanded since, and the
property needs it to say what the search for a witness is meant to ensure. JSON
pointers, predicates and expectations pass or fail as a whole. The wall clock is
that of the session and is assumed never to be set back. The code compares the
expiry exclusively where a command begins, so an observation of exactly its maximum
age, which `conditions.rs` calls inclusive and `Vouches` accepts, is turned away
later; nothing is done on it.

### Bus and Cobs

An operation is a script of requests (`Script`), sent one at a time; `requests`
is what the firmware has received and `answers` what it has answered. The firmware
is external: it carries requests out in order and as late as it likes, after the
call has given up too; answers to a session that was closed are lost, as in
`Device`. `Send`, `Accept` and `Finish` are the calls of an adapter, `Probe` and
`ProbeTimesOut` those of a scan, which judges the two probes of an address
together, `Fail` every error and deadline: it drops the session. `wire` is what
happened on the bus of the target during the call, which the receipts are held
against.

`Cobs` is the framing with the full block as a parameter (254 in the code). Every
transfer in `Bus` is encoded by one side and decoded by the other, so that
payloads with delimiters, with full blocks and with both go through it.
Assumed: frames are received whole. Left out: the encoding of packets and
transcripts, the limits of frames, video capture.

### Firmware and Patching

`BuildCandidate` and `CompareImages` are the functions of that name; the refusals
that concern files and digests are left out. Sorting is stable, as `sort_by_key`
is: `Sorted` gives each patch the place of its rank. Ranges are not empty, as
`ByteRange::new` ensures (`firmware.rs:301`), and `PatchingParameters` says so.
`Patching` reads an image with
`Flash`, composes a candidate from it, and programs and verifies it with the
operations of `Flash` again, while other operations of the same chip come
between. One candidate is composed in a behaviour: a plan names a candidate by its
digest, and no code relates two.

### Review

`ReadProposal` is `review_proposal` up to its transaction, `Consume` the
transaction, and any other save or review comes between. A digest stands for its
content. Roles are checked request by request and left out; `delete_proposal` and
`save_plan` are called by tests only.

### Simulator

`memory` is the session's state, `file` the saved one. `Create`, `Write`, `Sync`
and `Rename` are the steps of `persist`; each can fail, and the backend then
throws the session away, as it does for every error. The directory is not
synchronized after the rename, so a loss of power may bring back an older file
(`older`): `AnswersAreStored` says that it can still be read, and nothing more is
claimed of a loss of power, by the model or by the documents. Injecting a fault is
a call of tests; a test that sees it fail gives up the simulator.

### Server

`daemon` is how far a process is: it locks the instance, opens the journal, removes
a stale name, binds, serves. `Close` is the end of `serve` by an error (or a failed
start): the lock of the instance and the listener go, the runtime goes on until
`main` has returned (`Shutdown`), and waits for blocking tasks (`Exit`). The store
takes a lock of its own on the journal (`acquire_journal_lock`), which is released
with the last reference to it: `main` has one while it serves, and so have every
served connection and every task that a request left behind (`KeepsStore`). `Open`
fails while another process has it. Inspections (`api.rs:400`) hold the backend
alone and are left out. A connection waits in the backlog, is accepted, waits for a permit, is read, handled and answered;
its client may never send, never read, or hang up. Time limits are steps that may
be taken at any moment, and that fairness takes in the end. The permits of
`Permits` stand for the eight of the code.

## Runs

| run | instance | what it shows |
|---|---|---|
| `duel` | two workers, two pairs of one grant on one device, a plan of two steps asked for under two run ids with one first attempt, two reconciliations, one abandonment, a revocation, an expiring grant, a takeover that names the second run under the request id of the first, dying tasks, one crash; a budget that does not afford everything | no attempt is driven twice, no device by two; open effects keep their leases; closed pairs stay quiet; effects stay within the charge; the cursor of a run never runs ahead of completed steps, although two locks guard it; duplicates are absorbed, steps stay in order, receipts stay, outcomes are final |
| `relay` | three pairs on one device, a chain of two takeovers out of every state a recovery run stops in, one reconciliation and one abandonment, one crash; fair workers | inherited leases stay with the recovery run; leases change hands only by a takeover; the journal implements `Custody`; every dispatch and every claimed reconciliation ends |
| `stale_source` | four pairs on one device, two takeovers | a document's claim that the code does not keep (below) |
| `evidence` | two publishers of two artifacts for one source, three files, one loss of power, any number of failures and deaths | names stay intact, acknowledged evidence survives, no temporary name can come back but one whose removal failed or that a death or a loss of power left, and the store implements `Archive` |
| `interlocks` | one driver and one inspecting thread, four plans of two and three steps with interlocks of one and two ticks, two commands an operation, four calls, deadlines of two ticks | sessions never mix, rejections are harmless, at most one command is late, no gated command without a fresh and quiet witness; every call returns |
| `bus` | a Bus Pirate or a relay controller, three calls of eleven operations of the one or three of the other, with transfers of three bytes in requests of two, one device among two addresses, two probes that time out | a receipt says exactly what happened on the target's bus; no answer is owed to the next call; reconciliation only observes |
| `scan` | the same with scans only | a comment's claim that the code does not keep (below) |
| `flash` | eight cells, pages and sectors of four, payloads and reads of three, seven operations and those of a candidate from five lists of patches, three calls in any order, every initial content | completed is proven, what is read is real, nothing outside the regions changes; a programmed candidate differs from its original by its patches alone; every operation ends |
| `review` | one plan id, two contents, three principals, two reviews at a time | approvals stand; nobody reviewed his own |
| `simulator` | three cells, one relay, six operations, two kinds of fault, three calls, two faults, any number of failures, deaths and losses of power | answers agree with the file, which is never torn and holds what was completed; a fault is taken once |
| `server` | two processes and two starts, three connections made four times, one permit | one process at a time works on the journal, also while tasks of one whose `serve` failed go on; who serves is reachable; every connection ends |

Bounds: two workers give every pair of overlapping calls, and one of them may
stay where it is while the other makes any number of them; a plan of two steps has
a first, a last and an in-between; one crash per behaviour
meets every intermediate state, and a second one would find what the first found,
for `recover_interrupted_dispatches` is idempotent. Two takeovers are the shortest
chain with a recovery run as a source. In `flash`, three divides neither page nor
sector, so that page ends, payload limits and the end of the data fall apart, and
three calls are an effect, its retry or the reconciliation of it, and an effect
of another region, or the reading of an image, the programming of a candidate and
its verification. A comparison may report one range, so that it is cut short by
two. In `interlocks`, three steps put an effect between a witness and what it is to
vouch for, and four calls are the steps of such a plan and an inspection that makes
one of them wait; the clock ends late enough for every call begun to run
into its limit, and the ages let an observation expire before, while and after the
call waits. In `bus`, three bytes in requests of two need a full request and a
rest, with a full block and a delimiter in the frame; the third call meets the
session that the second found after the first had failed. One plan id is enough
for `review`: no transaction reads the row of another. `evidence` needs the third file for the retry of a publisher whose
file was lost, and one loss of power, after which the disk is what is seen. In
`simulator` three cells let an interrupted write and an interrupted erase overlap
another write in part. In `server` one permit and three connections give one that
is served, one that waits for the permit and one that is not accepted. Deadlock
is not checked: a daemon without requests rests.

Fairness: `FairSpec` asks weak fairness of the steps a worker has begun and of
nothing else: tasks run on threads of their own, every backend call has a
deadline, and store calls do not wait for one another for ever. It is asked with
`TasksMayDie` off: a task that dies after its effect leaves the attempt dispatched
until the next restart, which no fairness brings about. Requests, crashes,
revocation and expiry are never fair. `Flash`'s asks that the chip finishes what
it began and that the driver goes on: the poll of `wait_busy_clear` is a loop over
transfers that return. `Device`'s asks that time passes and that threads which can
go on do; the instrument need not answer, and a standard mutex whose holders
leave in a bounded time is obtained by every waiter, of which there are finitely
many; `Interlocks` asks for the same. `Bus` claims no liveness: its deadlines are
those of `Device`. `Server`'s asks that the runtime runs the accept loop, and that a
connection takes its next step, of which the time limits are one; clients owe
nothing.

Each property has a mutant in `PROJECT.json`: a plausible mistake in one
definition, under which the run reports the property. The operators whose name
ends in `Bug` are these mistakes; no definition uses one.

### Documents and the code

Two runs refute a sentence of the repository, and are expected to.

`OPERATIONS.md:172` says that a takeover may name an undispatched, rejected or
completed attempt only when it belongs to a recovery destination "that still owns
the exact resource leases". `takeover_recovery` asks only that the owner of each
lease be one of the named sources. `stale_source` shows a recovery run that
finished and gave its leases back being accepted, and retired, next to the pair
that holds the leases now. Nothing it did is repeated or lost.

`backend/mod.rs:3` says that a transport failure invalidates the session. `i2c_scan`
keeps the error of each probe as a value (`bus.rs:588`): an address whose write
probe was acknowledged is found even if its read probe timed out, and when it is
the last one the scan completes. `scan` shows the session kept with an answer still
to come, which the next call takes for the answer to its own first request. That
call then fails, and drops the session; nothing is reported that did not happen
(`ReportsAreExact`).

## Proofs

`tlapm` checks, for every value of the constants that satisfies the assumptions
named in each module (`ParametersTyped`, `NoneIsNoValue`, `RequestsTyped`,
`EvidenceParameters`, `ReviewParameters`, `DeviceParameters`,
`InterlockParameters`, `BusParameters`, `FlashParameters`, `PatchingParameters`, `SimulatorParameters`,
`NoneIsNoState`, `ServerParameters`),
that is for every number of workers, pairs, publishers, threads, processes,
requests and restarts:

| module | theorem | statement |
|---|---|---|
| `SupervisorProofs` | `Typed` | `Spec => []TypeOK` |
| | `ReceiptsStay` | `Spec => ReceiptsImmutable` |
| | `NoAttemptTwice` | `Spec => []AtMostOnce` |
| | `ReconciledStaysUnknown` | `Spec => []ReconciledIsUnknown` |
| | `InstrumentsExclusive` | `Spec => []ExclusiveInstruments` |
| | `LeasesHeldInDoubt` | `Spec => []UncertaintyHoldsLeases` |
| | `ClosedStaysQuiet` | `Spec => []ClosedPairsQuiet` |
| | `StepsStayInOrder` | `Spec => []StepsInOrder` |
| | `InheritanceHeld` | `Spec => []InheritedLeasesHeld` |
| | `OutcomesStay` | `Spec => OutcomesFinal` |
| | `LeasesMoveByTakeover` | `Spec => LeasesChangeHandsByTakeover` |
| | `CustodyKept` | `Spec => KeepsCustody` |
| | `CursorsStayBacked` | `Spec => []CursorBacked` |
| | `EffectsStayWithinBudget` | `Spec => []EffectsWithinBudget` |
| `EvidenceProofs` | `NamesStayIntact` | `Spec => []NamesIntact` |
| | `AckedStays` | `Spec => []AckedSurvives` |
| | `Implements` | `Spec => KeepsArchive` |
| | `NothingLeaks` | `Spec => []NoLeaks` |
| `ReviewProofs` | `ApprovalsStay` | `Spec => []ApprovalsStand` |
| | `ReviewIsIndependent` | `Spec => []IndependentlyReviewed` |
| `InterlocksProofs` | `RejectionsHarmless` | `Spec => []RejectedIsHarmless` |
| | `LateOnce` | `Spec => []OneCommandLate` |
| | `SessionsUnmixed` | `Spec => NeverMixed` |
| | `BegunFresh` | `Spec => BegunWhileFresh` |
| | `ImplementsDevice` | `InterlockSpec => Spec` of `Device` |
| | `GatedByWitness` | `InterlockSpec => GatedByFreshWitness` |
| `BusProofs` | `FramesDecode` | a payload is what is decoded from its frame |
| | `NothingLeftOwed` | `Spec => []ReceiptsOweNothing` |
| | `OnlyObserves` | `Spec => ReconciliationOnlyObserves` |
| | `ReceiptsAreExact` | `Spec => []ReportsAreExact` |
| `FlashProofs` | `NeighboursUntouched` | `Spec => OutsideUntouched` |
| | `ReadbackReal` | `Spec => []ReadsAreReal` |
| | `CompletionProven` | `Spec => []CompletedIsProven` |
| | `PatchedIsReviewed` | `PatchingSpec => []PatchedAsReviewed` |
| | `PatchingNeighbours` | `PatchingSpec => OutsideUntouched` |
| | `PatchingProven` | `PatchingSpec => [](ReadsAreReal /\ CompletedIsProven)` |
| `SimulatorProofs` | `AnswersStored` | `Spec => []AnswersAreStored` |
| | `FaultsTakenOnce` | `Spec => []FaultsAreSpent` |
| `ServerProofs` | `OwnersAlone` | `Spec => []OneOwner` |
| | `NameReachesOwner` | `Spec => []OwnerReachable` |

Of the supervisor:

`TypeOK` is not inductive: that a grant never goes below zero and that a cursor
stays within its plan depend on what a task read earlier. `TypeInv` adds what
the rows mean (`StoreInv`: an existing attempt has its pair, a receipt
is there exactly when the state says so, a run's fields are all present, a claimed
reconciliation is the only one of an unknown attempt) and that a task still agrees with the
rows it read (`TasksSound`). The second part survives other workers' steps because
rows are never taken back: `RowsKept` says which parts of a row no transaction
changes, and is proved for every transaction with its preservation of `StoreInv`.

`AtMostOnce` needs `ExecutionInv`: an attempt that was driven is past intent, and
each dispatched attempt that a worker is about to drive has no other executor and
has not been driven. Most actions are `Calm`: they dispatch nothing and drive
nothing, so that one lemma covers them; `Dispatch`, `Drive`, `Record` and `Restart`
have a lemma each.

The promises about leases are conjuncts of `CustodyInv`, with what they need of one
another: a step that was reserved is one of its plan (`InPlan`); a pair that leases
anything leases all that its profile names and nothing else (`LeasesWhole`), and
only while its plan is not complete (`LeasesNeeded`). From the order of the steps,
an attempt that is not completed is the last of its pair (`OpenIsLast`), so that
what a transaction asks of one attempt decides for the pair: a completion that
gives the leases back leaves no doubt behind, and a takeover that names one open
attempt has named all. Every transaction preserves `CustodyInv`, whatever the
workers do; the first half of `SupervisorProofs` has a lemma for each.

`ExclusiveInstruments` then follows. Two workers at the same resource act for pairs
that lease it, hence for one pair, on its last step, hence on one attempt. It has
one executor (`ExecutionInv`), or it is unknown and has one claimed reconciliation,
which belongs to the worker that claimed it (`ReconInv`).

That the journal implements `Custody` is shown transaction by transaction: `reserve`
acquires, `claim_dispatch` begins a doubt, receipts and results of reconciliations
resolve it or stutter, a takeover hands over, an abandonment gives back, and
everything else stutters. Doubt is a matter of the pair, not of the attempt
(`DoubtByPair`), and what resolves it is that the last step of the pair has a
final outcome (`SettlesResolves`).

A cursor is moved by a task that found its step completed, or by a repair that
looks at all of them. `CursorBacked` has one exception. Request ids are chosen by
clients, and the transactions look an id up among all attempts: a takeover under the
request id of an admitted attempt that also names that attempt and its pair is taken
for a repetition, and the run it names is not compared (`TakenForRepeated`). When the
attempt is not the first one of that run, the worker moves the cursor of a run whose
steps it does not execute (`Misnamed`). Only an operator can ask for it; of every
other run the property says that the cursor is backed. `duel` has a takeover of this kind, and without the exception TLC finds the cursor of the
second run ahead of its receipts.

The proof needs that a task on a run has at hand the attempt of the step it is at,
or was started by such a takeover (`TasksAtStep`, `Strays`), that a run keeps its
first attempt (`RunsStay`), that the run of a takeover starts with the attempt of the
takeover (`TakenRuns`), and that an attempt keeps its request, under which no takeover
is recorded any more (`RequestsStay`): what is taken for a repetition once is taken
for one ever after (`RepeatsStay`).

Budgets are counted by matching. The first step of a pair is charged for the whole
plan and a reconciliation for the configuration it may reapply, so that what a
grant has lost is the number of steps of its admitted plans (`Planned`) and of such
reconciliations (`Reapplied`): `ChargedExactly`, which is kept because a pair has
no first step twice (`StepsInOrder`). Every execution is of a planned step of its
own, for an attempt is driven at most once (`ExecutionInv`) and no two attempts of
a pair are of the same step; every reconfiguration is of a reconciliation that was
charged, once (`ConfiguredOnce`). Two injections, hence two inequalities of
cardinalities, and no induction over a sum.

Of the evidence store: the invariant orders durability. A name is linked only to
a file whose bytes are on the disk, a marker is made only when the name it refers
to is on the disk, and `publish` returns only when the marker is. What a publisher
is about to do is covered by what its `pc` says is already durable, which no other
publisher takes back, and a loss of power takes only what is not durable: hence
what is held contains every marker, and `Lose` never meets what was promised.

For the temporary names it is enough that a file has one owner, who has created it
(`FilesOwned`): only its owner makes or removes its name, and the owner forgets the
file when neither the directory nor the disk has the name, or when it adds the name
to what is left.

Of reviews: `ReviewInv` says that the plan under review is that of a saved
proposal with another reviewer, so that whatever the second store call finds, the
row it writes is either new or the same.

Of devices: `CallsSound` relates how far a call is to what it has sent and to the
wire, and `QuietWhenFree` says that a free mutex leaves no answer under way in a
session that is kept and not poisoned. `BegunWhileFresh` is a property of `Device`
that no run checks by itself: `FirstCommandFresh`, the lemma it rests on, is used
again for interlocks.

Of interlocks: an action of `Interlocks` is one of `Device`'s together with what it
does to the run, which is all `ImplementsDevice` needs, and which lets the
invariant of `Device` be used of the composition. `RunInv` adds that the steps are
reserved in the order of the plan, that an observation completed with no later
effect reserved is quiet, that each call belongs to the step its thread works on,
and that an execution that has sent nothing yet is supported on every interlock of
its step. The last part is what makes the wait harmless: the support is checked
before the mutex is waited for, and only expires with the limit of the call.

Of the bus: what a session still owes is one of three things (`DebtsSound`): nothing;
the answer to the one request the call waits for; or the answers to probes, left
by a scan that went on after a timeout. `NothingLeftOwed` needs the third: the next
call begins with a status request (`ScriptsSound`), the answer to a probe is not
one to that, and the call fails and drops the session before it has sent anything
else. A call that is answered has thus sent its whole script and read every answer
(`ScriptsCarriedOut`). `OnlyObserves` is about the requests that the firmware has
received, not about the call, which may have given up: each of a reconciliation's
scripts has only requests that observe (`ScriptsSound`), those not yet carried out
keep to it (`OnlyObserved`), and a transfer without data, whose frame decodes to
nothing (`EmptyFrame`), writes nothing.

`ReceiptsAreExact` compares a receipt with events of the whole call, of which a state
keeps only what is left of the script and what was read so far. `ExactInv` is
`BusInv` with an account that joins the two:

- what is left is the end of the script (`Left`), so that its length tells how many
  transfers are through (`Through`);
- the call has at most one request on its way, the one under way, behind any probes
  that an earlier scan left (`OwnUnderWay`), so that nothing of the call happens on
  the bus before its turn or after it;
- the events of the call are then the transfers that are through, in order, each
  whole, and what was read is what they read (`Matched`); while the answer to a
  transfer is on its way there is one event more, and the answer is its frame, which
  `FramesDecode` turns back into the bytes read (`TransfersSound`);
- the probes of a scan in which nothing timed out were answered as the devices that
  are there answer (`ScansSound`), which needs that the mode was shown before;
- the one answer owed shows the instrument as it is (`ReplyFresh`), and the last
  request of an output reads it back (`ReadBackLast`).

When the script is empty the events are the whole plan. That they make up the
operation that was asked for, however it was split, is arithmetic of the plans: the
chunks of a write join to it (`WritesJoin`), those of a read sum to it (`ReadsSum`),
and only the first begins the transaction and only the last ends it.

Of frames: encoder and decoder are recursive functions over the length of their
argument, so each is first shown to be a sequence of states that exists
(`EncoderRuns`, `DecoderRuns`, from `Walk`). The block under way is the end of what
the encoder has taken, and never full (`BlocksAreTails`), and what it has written
out is the beginning of the frame (`FramesGrow`); from each place where a block
begins, the decoder then finds the rest of the payload, by steps from the end of the
frame to its beginning (`RestDecoded`). At the beginning that is `FramesDecode`. The
steps are over the natural numbers up to a length, which needs no induction theorem
with an operator as parameter: `Steps` has a set of numbers in its place.

Of flash: the lemmas about quotients and remainders show that a chunk ends with
its page and that an erase at a multiple of the sector covers one sector
(`ProgramInside`, `EraseInside`), so that every command stays in the region of its
operation, whatever the sizes. `FlashInv` adds that the chip works only on what
was asked for and only while nothing has been read back, for the identity check
does not pass while it is busy. Its lemmas are about any operation with data of
its own, so that they hold of the plans of a candidate too.

Of patching: `PatchingInv` adds `CandidateSound` to `FlashInv`: a candidate that was
composed was composed by `BuildCandidate` of an image that was read. What follows of
its bytes is about three computations that go over data step by step, and each is
done in the same way. `Walk` shows that a function defined by its value at zero and
a step exists, which is what lets its equation be used at all; `Steps` is induction
over its argument, first-order: a least counterexample would have a predecessor that
is none. Sorting gives every rank to one patch (`SortedSorts`), so that
patches whose neighbours do not overlap are pairwise apart (`NeighboursSuffice`);
hence each cell is patched by one of them or by none, in whatever order they are
applied (`AllAppliedCells`); and a scan of two images has at every point counted the
changed bytes before it, and named them in ranges that end there (`ScanSound`). A
reported completion is a region that reads back as the candidate
(`ProgrammedIsCandidate`), which gives `PatchedAsReviewed`.

Of the simulator: whatever file a loss of power may bring back is whole and has its
data on the disk (`FilesAreWhole`), since only a file that was synchronized takes
the name; and while a call persists, the new file is what the session holds
(`TemporaryIsNew`), so that an answer and the file agree from the rename on, not
before. A state accounts for the faults that have interrupted an effect and the one
that is set, which are never more than were injected, in the session and in every
file (`FaultsAccounted`): an effect takes the fault it counts (`AfterTyped`).

Of the server: `ServerInv` says that whoever is between locking and closing has
the lock of the instance (`OwnerLocked`), so that a stale name is removed and a new
one bound while nobody serves, and that one process keeps the store (`OneStore`).
Opening the journal is the one step after which a process keeps a store that it did
not keep before (`NobodyGains` says so of the others), and it asks that nobody does.

The type invariants of `Evidence`, `Review`, `Device`, `Bus`, `Simulator` and
`Flash` are conjuncts of these inductive invariants, and are not checked a second
time by a run.

Only model-checked: liveness, which the prover does not do. Every invariant and
every action property of a passing run is stated by a theorem above.

## Plan

The order is that of importance; done so far: the journal and the supervisor, the
evidence store, device sessions and interlocks, bus and flash operations, patching,
review, the simulator and the server process, with the proofs above.

1. `Bus` in a session of `Device`, with its deadlines, so that the consequences of
   the scan are seen by a second thread.
2. Cases and their facts (`store/mod.rs`, `append_case_fact`): a table that is
   appended to in one transaction, for the order of its entries.
3. The bounds of `preflight.rs` and of `domain/mod.rs` against the limits that
   `Bus` and `Flash` rely on.

## Not modelled

- Video capture (`video.rs`): a child process and its output; of the other
  adapters the encoding of packets, transcripts and the limits of frames, and serial
  ports that deliver a frame in parts.
- Conditions (`conditions.rs`): JSON pointers and predicates, which pass or fail as
  a whole in `Interlocks`.
- Tokens, peer credentials, configuration files and the MCP bridge (`auth.rs`,
  `config.rs`, `mcp.rs`): checks without state, and files written once.
- Profiles, identifiers and operation bounds (`domain/mod.rs`): value checks that
  refuse a request before anything changes.
- `inspect_image` of `firmware.rs`: statistics of an image, which nothing acts on.
- `preflight.rs`: limits of a request before a device is touched.
- The conversion of unsigned ordinals to the signed integers of SQLite
  (`sqlite_index`): it refuses what does not fit, and the step indices of a model are
  bounded far below.
- Case facts: planned.
- `reject_intent`, `delete_proposal`, `save_plan` and the planner of `flash.rs`:
  no request of the service reaches them.
