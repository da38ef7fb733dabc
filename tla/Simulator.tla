----------------------------- MODULE Simulator -----------------------------
(***************************************************************************)
(* The simulated instrument (instruments/simulator.rs, with the operations *)
(* of service/backend/simulated.rs): flash cells and a relay in a file     *)
(* that every effect replaces, injected faults that interrupt an effect,   *)
(* failing file operations, process death and loss of power.               *)
(*                                                                         *)
(* A byte is a bit: 1 erased, 0 programmed.  Call counters are left out.   *)
(***************************************************************************)
EXTENDS Naturals, Sequences

CONSTANTS
  Cells,        \* length of the flash
  Operations,   \* operations of plans
  Faults,       \* faults: of the next effect, or after a number of bytes
  MaxCalls,     \* bound: calls
  MaxInjected,  \* bound: injected faults
  None          \* no state: no session, no file

Kind == {"read", "verify", "write", "erase", "set"}
NoFault == [kind |-> "none", bytes |-> 0]
Fault == [kind : {"next", "after"}, bytes : Nat]

\* What the session and the file hold.
State == [flash : [1..Cells -> {0, 1}], relay : {0, 1}, partial : Nat,
          fault : {NoFault} \cup Fault]

ASSUME SimulatorParameters ==
  /\ Cells \in Nat \ {0} /\ MaxCalls \in Nat /\ MaxInjected \in Nat
  /\ Operations \subseteq [kind : Kind, offset : Nat, data : Seq({0, 1})]
  /\ \A op \in Operations : op.kind = "set" => op.data # <<>>
  /\ Faults \subseteq Fault

ASSUME NoneIsNoState == None \notin State

VARIABLES
  memory,     \* the state in the open session, or None
  file,       \* the store file
  older,      \* the store files that a loss of power may bring back
  temporary,  \* the file being written
  call,       \* the call under way, or the last one and its result
  calls,      \* calls so far
  injected    \* faults injected so far

storage == <<file, older, temporary>>
vars == <<memory, storage, call, calls, injected>>

\* The state that open writes when there is no file.
Fresh == [flash |-> [i \in 1..Cells |-> 1], relay |-> 0, partial |-> 0,
          fault |-> NoFault]

\* A file: its state, whether its data is on the disk, and whether it can be
\* read.
Missing == [state |-> None, synced |-> TRUE, whole |-> TRUE]

Quiet == [pc |-> "idle", result |-> "none", reconcile |-> FALSE,
          op |-> [kind |-> "read", offset |-> 0, data |-> <<>>],
          interrupted |-> FALSE]

Init ==
  /\ memory = None
  /\ file = Missing /\ older = {} /\ temporary = Missing
  /\ call = Quiet
  /\ calls = 0 /\ injected = 0

-----------------------------------------------------------------------------
(* Effects *)

InRange(op) == op.kind = "set" \/ op.offset + Len(op.data) <= Cells

\* program_nor and the erase, on the first n bytes of the region.
Programmed(flash, op, n) ==
  [i \in 1..Cells |-> IF i \in (op.offset + 1)..(op.offset + n)
                      THEN flash[i] * op.data[i - op.offset] ELSE flash[i]]

Blanked(flash, op, n) ==
  [i \in 1..Cells |-> IF i \in (op.offset + 1)..(op.offset + n)
                      THEN 1 ELSE flash[i]]

\* A write that would raise a bit is refused.
Raises(s, op) ==
  op.kind = "write" /\ \E i \in 1..Len(op.data) :
                         op.data[i] > s.flash[op.offset + i]

\* A fault after some bytes does not interrupt a relay; it is used up by it.
Interrupted(s, op) ==
  s.fault # NoFault /\ (op.kind = "set" => s.fault.kind = "next")

Extent(s, op) ==
  LET n == Len(op.data) IN
  IF ~Interrupted(s, op) THEN n
  ELSE IF op.kind = "erase" THEN n \div 2
  ELSE IF s.fault.bytes < n THEN s.fault.bytes ELSE n

AfterBug(s, op) ==
  LET n == Extent(s, op) IN
  [s EXCEPT
     !.partial = IF Interrupted(s, op) THEN @ + 1 ELSE @,
     !.flash = CASE op.kind = "write" -> Programmed(@, op, n)
                 [] op.kind = "erase" -> Blanked(@, op, n)
                 [] OTHER -> @,
     !.relay = IF op.kind = "set" /\ n > 0 THEN op.data[1] ELSE @]

\* The state after an effect, interrupted or not; its fault is taken.
After(s, op) ==
  LET n == Extent(s, op) IN
  [s EXCEPT
     !.fault = NoFault,
     !.partial = IF Interrupted(s, op) THEN @ + 1 ELSE @,
     !.flash = CASE op.kind = "write" -> Programmed(@, op, n)
                 [] op.kind = "erase" -> Blanked(@, op, n)
                 [] OTHER -> @,
     !.relay = IF op.kind = "set" /\ n > 0 THEN op.data[1] ELSE @]

\* The state is as the operation asks.
Agrees(s, op) ==
  CASE op.kind = "set" -> s.relay = op.data[1]
    [] op.kind = "read" -> TRUE
    [] OTHER -> \A i \in 1..Len(op.data) : s.flash[op.offset + i] =
                  IF op.kind = "erase" THEN 1 ELSE op.data[i]

Verdict(s, op) == IF Agrees(s, op) THEN "completed" ELSE "partial"

-----------------------------------------------------------------------------
(* Calls *)

\* open: read the file, or write the first one.
Open ==
  /\ call.pc = "idle" /\ memory = None /\ file.whole
  /\ IF file.state = None
     THEN memory' = Fresh /\ call' = [Quiet EXCEPT !.pc = "create"]
     ELSE memory' = file.state /\ UNCHANGED call
  /\ UNCHANGED <<storage, calls, injected>>

\* inject_fault.
Inject(fault) ==
  /\ call.pc = "idle" /\ memory # None
  /\ injected < MaxInjected
  /\ injected' = injected + 1
  /\ memory' = [memory EXCEPT !.fault = fault]
  /\ call' = [Quiet EXCEPT !.pc = "create"]
  /\ UNCHANGED <<storage, calls>>

\* An operation, up to where its effect is saved.  A refusal is an error of
\* the backend, which throws the session away.
Execute(op, reconcile) ==
  LET effect == op.kind \in {"write", "erase", "set"} /\ ~reconcile
      this == [Quiet EXCEPT !.op = op, !.reconcile = reconcile]
  IN  /\ call.pc = "idle" /\ memory # None
      /\ calls < MaxCalls
      /\ calls' = calls + 1
      /\ \/ /\ ~InRange(op) \/ (effect /\ Raises(memory, op))
            /\ call' = [this EXCEPT !.result = "error"]
            /\ memory' = None
         \/ /\ InRange(op) /\ effect /\ ~Raises(memory, op)
            /\ memory' = After(memory, op)
            /\ call' = [this EXCEPT !.pc = "create",
                                    !.interrupted = Interrupted(memory, op)]
         \/ /\ InRange(op) /\ ~effect
            /\ call' = [this EXCEPT !.result = Verdict(memory, op)]
            /\ UNCHANGED memory
      /\ UNCHANGED <<storage, injected>>

-----------------------------------------------------------------------------
(* persist *)

Create ==
  /\ call.pc = "create"
  /\ temporary' = Missing
  /\ call' = [call EXCEPT !.pc = "write"]
  /\ UNCHANGED <<memory, file, older, calls, injected>>

Write ==
  /\ call.pc = "write"
  /\ temporary' = [state |-> memory, synced |-> FALSE, whole |-> TRUE]
  /\ call' = [call EXCEPT !.pc = "sync"]
  /\ UNCHANGED <<memory, file, older, calls, injected>>

Sync ==
  /\ call.pc = "sync"
  /\ temporary' = [temporary EXCEPT !.synced = TRUE]
  /\ call' = [call EXCEPT !.pc = "rename"]
  /\ UNCHANGED <<memory, file, older, calls, injected>>

\* The directory is not synchronized.  An interrupted effect is an error.
Rename ==
  /\ call.pc = "rename"
  /\ file' = temporary /\ older' = older \cup {file} /\ temporary' = Missing
  /\ IF call.interrupted
     THEN /\ memory' = None
          /\ call' = [call EXCEPT !.pc = "idle", !.result = "error"]
     ELSE /\ UNCHANGED memory
          /\ call' = [call EXCEPT !.pc = "idle",
                                  !.result = Verdict(memory, call.op)]
  /\ UNCHANGED <<calls, injected>>

FailBug ==
  /\ call.pc # "idle"
  /\ call' = [call EXCEPT !.pc = "idle", !.result = "error"]
  /\ UNCHANGED <<memory, storage, calls, injected>>

\* A file operation fails; the backend throws the session away.
Fail ==
  /\ call.pc # "idle"
  /\ memory' = None
  /\ call' = [call EXCEPT !.pc = "idle", !.result = "error"]
  /\ UNCHANGED <<storage, calls, injected>>

\* The daemon dies; what it answered before was answered.
Die ==
  /\ memory # None
  /\ memory' = None
  /\ call' = IF call.pc = "idle" THEN call ELSE Quiet
  /\ UNCHANGED <<storage, calls, injected>>

\* The file system writes its directory by itself.
Settle ==
  /\ older # {}
  /\ older' = {}
  /\ UNCHANGED <<memory, file, temporary, call, calls, injected>>

\* The power fails.  The name may stand for an older file again, and data
\* that was not synchronized is gone.
LosePower ==
  /\ \E f \in older \cup {file} :
       file' = [state |-> f.state, synced |-> TRUE, whole |-> f.synced]
  /\ older' = {} /\ temporary' = Missing
  /\ memory' = None
  /\ call' = Quiet
  /\ UNCHANGED <<calls, injected>>

Persist == Create \/ Write \/ Sync \/ Rename

Next ==
  \/ Open
  \/ \E fault \in Faults : Inject(fault)
  \/ \E op \in Operations, reconcile \in BOOLEAN : Execute(op, reconcile)
  \/ Persist \/ Fail \/ Die \/ Settle \/ LosePower

Spec == Init /\ [][Next]_vars

-----------------------------------------------------------------------------
(* Properties *)

\* Whatever interrupts it, the file can be read and is the state after some
\* effect.  Between calls it agrees with the session, so that a restarted
\* daemon reads what was answered, and a completed operation left the cells and
\* the relay in it as asked; the power failing is another matter.  (persist;
\* the session that backend/mod.rs drops)
AnswersAreStored ==
  /\ file.whole
  /\ call.pc = "idle" /\ memory # None => memory = file.state
  /\ call.pc = "idle" /\ call.result = "completed" =>
       file.state # None /\ Agrees(file.state, call.op)

\* An injected fault interrupts one effect at most, though the daemon may die
\* between the effect and its record.  (take_fault, persist)
FaultsAreSpent ==
  \A s \in {memory, file.state} : s # None => s.partial <= injected

=============================================================================
