----------------------------- MODULE Interlocks -----------------------------
(***************************************************************************)
(* Live interlocks (src/src/supervisor/interlocks.rs, conditions.rs) over  *)
(* the session of Device: a reviewed plan is executed step by step, and a  *)
(* step with a gated effect needs a passing observation that is fresh, of  *)
(* this run, and later than the last effect.  Other threads inspect the    *)
(* instrument or reconcile what is in doubt.                               *)
(*                                                                         *)
(* Plans, receipts and leases in full are in Store and Supervisor; here an *)
(* attempt is one row of the run, and everything happens at one            *)
(* instrument.  The wall clock is the clock of Device and is never set     *)
(* back.                                                                   *)
(***************************************************************************)
EXTENDS Device, FiniteSets, Sequences

CONSTANTS
  Drivers,    \* threads of the supervisor; the others inspect
  Operation,  \* what a step asks for
  Sensing,    \* the read-only operations that an interlock may name
  Effects,    \* operation -> its effect permissions
  Cases       \* plans with the interlocks of their profile

\* LiveInterlock::validate: an interlock gates something, observes without an
\* effect, and has a positive maximum age.
LiveInterlock(lock) ==
  /\ lock.gates # {}
  /\ lock.observation \in Sensing
  /\ lock.age \in 1..MaxAge

ASSUME InterlockParameters ==
  /\ Drivers \subseteq Callers
  /\ Sensing \subseteq Operation
  /\ \A op \in Sensing : Effects[op] = {}
  /\ \A case \in Cases :
       /\ case.plan \in Seq(Operation) /\ case.plan # <<>>
       /\ case.reconfigures \in BOOLEAN
       /\ IsFiniteSet(case.locks)
       /\ \A lock \in case.locks : LiveInterlock(lock)

VARIABLES
  case,     \* the plan and the interlocks under which it is commissioned
  attempt,  \* step -> its attempt
  job,      \* caller -> the step it drives, 0 for none
  sample,   \* whether the checks pass on the last answer
  quiet     \* steps that observed, with no effect commanded since

run == <<case, attempt, job, sample, quiet>>
allvars == <<vars, run>>

Step == 1..Len(case.plan)

Unresolved == {"partial", "unknown"}

\* The checks of every observation read one and pass or fail with it.
InterlockInit ==
  /\ Init
  /\ case \in Cases
  /\ attempt = [k \in Step |-> [state |-> "none", good |-> FALSE, at |-> 0]]
  /\ job = [c \in Callers |-> 0]
  /\ sample = FALSE
  /\ quiet = {}

-----------------------------------------------------------------------------
(* validate_plan and check_live_interlocks *)

Effectful(k) == Effects[case.plan[k]] # {}

GatesStep(lock, k) == lock.gates \cap Effects[case.plan[k]] # {}

\* observation_step: the steps that can vouch for step k.  The search goes
\* back from k to the last effect.
Witnesses(lock, k) ==
  {i \in 1..(k - 1) : /\ case.plan[i] = lock.observation
                      /\ \A j \in (i + 1)..(k - 1) : ~Effectful(j)}

Newest(steps) == CHOOSE i \in steps : \A j \in steps : j <= i

\* validate_plan, in the preflight of the first step
PlanIsGuarded ==
  \A lock \in case.locks : \A k \in Step :
    GatesStep(lock, k) => Witnesses(lock, k) # {}

\* check_live_interlocks of one interlock: the newest witness is completed,
\* not too old, and its checks pass.
Vouches(lock, k) ==
  /\ Witnesses(lock, k) # {}
  /\ LET witness == attempt[Newest(Witnesses(lock, k))]
     IN  /\ witness.state = "completed"
         /\ now - witness.at <= lock.age
         /\ witness.good

LocksOf(k) == {lock \in case.locks : GatesStep(lock, k)}

ExpiryBug(k) ==
  LET ends == {attempt[Newest(Witnesses(lock, k))].at + lock.age :
                 lock \in LocksOf(k)}
  IN  IF ends = {} THEN Never ELSE CHOOSE t \in ends : \A u \in ends : u <= t

\* The earliest end of the observations that step k rests on
Expiry(k) ==
  LET ends == {attempt[Newest(Witnesses(lock, k))].at + lock.age :
                 lock \in LocksOf(k)}
  IN  IF ends = {} THEN Never ELSE CHOOSE t \in ends : \A u \in ends : t <= u

\* execute up to the backend
Permitted(k) ==
  /\ k = 1 => PlanIsGuarded
  /\ \A lock \in LocksOf(k) : Vouches(lock, k)

-----------------------------------------------------------------------------
(* The supervisor's calls *)

NextStep(k) ==
  /\ attempt[k].state = "none"
  /\ k > 1 => attempt[k - 1].state = "completed"
  /\ \A c \in Callers : job[c] = 0

\* A step is reserved and claimed, and its interlocks deny it.
Deny(k) ==
  /\ NextStep(k) /\ ~Permitted(k)
  /\ attempt' = [attempt EXCEPT ![k].state = "rejected"]
  /\ UNCHANGED <<vars, case, job, sample, quiet>>

Execute(c, k) ==
  /\ NextStep(k) /\ Permitted(k)
  /\ Begin(c, "execute", Expiry(k))
  /\ attempt' = [attempt EXCEPT ![k].state = "dispatched"]
  /\ job' = [job EXCEPT ![c] = k]
  /\ UNCHANGED <<case, sample, quiet>>

\* A reconciliation has no reviewed observation before it, so it may not
\* configure what an interlock gates.
RefusesConfiguration ==
  /\ case.reconfigures
  /\ \E lock \in case.locks : "configure" \in lock.gates

Reconcile(c, k) ==
  /\ attempt[k].state \in Unresolved
  /\ \A d \in Callers : job[d] = 0
  /\ ~RefusesConfiguration
  /\ Begin(c, "reconcile", Never)
  /\ attempt' = [attempt EXCEPT ![k].state = "unknown"]
  /\ job' = [job EXCEPT ![c] = k]
  /\ UNCHANGED <<case, sample, quiet>>

Inspect(c) ==
  /\ Begin(c, "inspect", Never)
  /\ UNCHANGED run

-----------------------------------------------------------------------------
(* What a step of the call does to the run *)

\* What the commands of a call do besides observing
Commanded(c) ==
  IF job[c] = 0 THEN {}
  ELSE IF call[c].kind = "execute" THEN Effects[case.plan[job[c]]]
  ELSE IF case.reconfigures THEN Effects[case.plan[job[c]]] \cap {"configure"}
  ELSE {}

\* verify_receipt_evidence, check_postconditions and the receipt: readback and
\* reviewed postconditions turn completion into doubt, a failed call is one,
\* and a reconciliation settles the attempt or leaves it.
Outcomes(c) ==
  LET result == call'[c].result
      old == attempt[job[c]].state
  IN  IF call[c].kind = "execute"
      THEN CASE result = "receipt" -> {"completed", "partial"}
             [] result = "rejected" -> {"rejected"}
             [] result = "none" -> {old}
             [] OTHER -> {"unknown"}
      ELSE IF result = "receipt" THEN {"completed", old} ELSE {old}

\* The observation counts from when it is published, and its checks see what
\* the last answer said.
Records(c) ==
  \E state \in Outcomes(c) :
    /\ attempt' = [attempt EXCEPT ![job[c]] =
         IF case.plan[job[c]] \in Sensing /\ call'[c].result = "receipt"
         THEN [state |-> state, good |-> sample, at |-> now]
         ELSE [@ EXCEPT !.state = state]]
    /\ job' = [job EXCEPT ![c] = 0]

Ended(c) == call[c].pc # "idle" /\ call'[c].pc = "idle"

Follow(c) ==
  /\ quiet' = IF call'[c].sent > call[c].sent /\ Commanded(c) # {}
              THEN {} ELSE quiet
  /\ IF Ended(c) /\ job[c] # 0
     THEN Records(c) /\ sample' = FALSE
     ELSE UNCHANGED <<attempt, job, sample>>
  /\ UNCHANGED case

CallerStep(c) == CallStep(c) /\ Follow(c)

CallerFails(c) == (Refuse(c) \/ AdapterFails(c) \/ Panic(c)) /\ Follow(c)

Senses(c) == /\ c # Nobody /\ call[c].pc = "operate"
             /\ job[c] # 0 /\ case.plan[job[c]] \in Sensing

\* The signal that an observation reads may pass or fail its checks at any
\* time; what counts is what it is when the instrument answers.
Answers ==
  /\ Answer
  /\ \/ /\ Senses(owner)
        /\ sample' \in BOOLEAN
        /\ quiet' = quiet \cup {job[owner]}
     \/ /\ ~Senses(owner)
        /\ UNCHANGED <<sample, quiet>>
  /\ UNCHANGED <<case, attempt, job>>

Passes == Tick /\ UNCHANGED run

InterlockNext ==
  \/ \E c \in Drivers, k \in Step : Execute(c, k) \/ Reconcile(c, k)
  \/ \E c \in Callers \ Drivers : Inspect(c)
  \/ \E c \in Callers : CallerStep(c) \/ CallerFails(c)
  \/ \E k \in Step : Deny(k)
  \/ Answers \/ Passes

InterlockSpec == InterlockInit /\ [][InterlockNext]_allvars

\* As for Device: time passes and threads run.
FairInterlockSpec ==
  /\ InterlockSpec
  /\ WF_allvars(Passes)
  /\ \A c \in Callers : WF_allvars(CallerStep(c))

-----------------------------------------------------------------------------
(* Properties *)

\* The first command of a call that does something an interlock gates
CommandsGated(c, lock) ==
  /\ call[c].sent = 0 /\ call'[c].sent > 0
  /\ Commanded(c) \cap lock.gates # {}

\* Whatever an interlock gates, the first command goes out only after the
\* observation of the interlock passed in this run, with no effect commanded
\* in between, and less than its maximum age ago: however long the call waited
\* for the instrument, and for a reconciliation as for an execution.
\* (check_live_interlocks, observation_step, run)
GatedByFreshWitness ==
  [][\A c \in Callers : \A lock \in case.locks :
       CommandsGated(c, lock) =>
         \E i \in quiet : /\ case.plan[i] = lock.observation
                          /\ attempt[i].state = "completed"
                          /\ attempt[i].good
                          /\ now < attempt[i].at + lock.age]_allvars

=============================================================================
