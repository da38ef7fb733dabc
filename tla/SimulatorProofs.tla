-------------------------- MODULE SimulatorProofs --------------------------
(***************************************************************************)
(* Proofs about Simulator: what was answered is in the file, and a fault   *)
(* is taken once, whatever fails between an effect and its record.         *)
(***************************************************************************)
EXTENDS Simulator, TLAPS

File == [state : State \cup {None}, synced : BOOLEAN, whole : BOOLEAN]

Call == [pc : {"idle", "create", "write", "sync", "rename"},
         result : {"none", "error", "completed", "partial"},
         reconcile : BOOLEAN, op : Operations \cup {Quiet.op},
         interrupted : BOOLEAN]

SimulatorTypeOK ==
  /\ memory \in State \cup {None}
  /\ file \in File /\ older \subseteq File /\ temporary \in File
  /\ call \in Call
  /\ calls \in Nat /\ injected \in Nat

\* The faults that a state accounts for: those that have interrupted an effect,
\* and the one that is set.
Accounted(s) == s.partial + (IF s.fault = NoFault THEN 0 ELSE 1)

WithinInjected(s) == s # None => Accounted(s) <= injected

FaultsAccounted ==
  /\ WithinInjected(memory)
  /\ WithinInjected(file.state)
  /\ WithinInjected(temporary.state)
  /\ \A f \in older : WithinInjected(f.state)

\* Whatever name of the file a loss of power brings back, its data is on the
\* disk.
FilesAreWhole == \A f \in older \cup {file} : f.synced /\ f.whole

\* The file that is about to take the name holds what the session holds.
TemporaryIsNew ==
  /\ call.pc # "idle" => memory # None
  /\ call.pc \in {"sync", "rename"} =>
       temporary = [state |-> memory, synced |-> call.pc = "rename",
                    whole |-> TRUE]

SimulatorInv ==
  /\ SimulatorTypeOK
  /\ FaultsAccounted
  /\ FilesAreWhole
  /\ TemporaryIsNew
  /\ AnswersAreStored

-----------------------------------------------------------------------------
(* Effects *)

LEMMA FreshTyped == Fresh \in State /\ Accounted(Fresh) = 0 /\ Fresh # None
BY SimulatorParameters, NoneIsNoState DEF Fresh, State, Accounted, NoFault

\* An effect leaves a state, and takes its fault to account for an interruption.
LEMMA AfterTyped ==
  ASSUME NEW s \in State, NEW op \in Operations, InRange(op)
  PROVE  After(s, op) \in State /\ Accounted(After(s, op)) <= Accounted(s)
<1> DEFINE n == Extent(s, op)
<1>1. /\ op.kind \in Kind /\ op.offset \in Nat /\ op.data \in Seq({0, 1})
      /\ Len(op.data) \in Nat /\ (op.kind = "set" => Len(op.data) > 0)
  BY SimulatorParameters
<1>2. /\ s.flash \in [1..Cells -> {0, 1}] /\ s.relay \in {0, 1}
      /\ s.partial \in Nat /\ s.fault \in {NoFault} \cup Fault
  BY DEF State
<1>3. n \in Nat /\ n <= Len(op.data)
  <2> DEFINE m == Len(op.data)
             b == s.fault.bytes
  <2>1. m \in Nat /\ m \div 2 \in Nat /\ m \div 2 <= m
    <3>1. \A k \in Nat : k \div 2 \in Nat /\ k \div 2 <= k
      OBVIOUS
    <3> QED  BY <1>1, <3>1
  <2>2. b \in Nat
    BY <1>2 DEF Fault, NoFault
  <2>3. n = IF ~Interrupted(s, op) THEN m
            ELSE IF op.kind = "erase" THEN m \div 2
            ELSE IF b < m THEN b ELSE m
    BY DEF Extent
  <2> HIDE DEF n, m, b
  <2>4. n \in Nat /\ n <= m
    BY <2>1, <2>2, <2>3
  <2> QED  BY <2>4 DEF m
<1> HIDE DEF n
<1>4. Programmed(s.flash, op, n) \in [1..Cells -> {0, 1}]
  <2> SUFFICES ASSUME NEW i \in 1..Cells,
                      i \in (op.offset + 1)..(op.offset + n)
               PROVE  s.flash[i] * op.data[i - op.offset] \in {0, 1}
    BY <1>2 DEF Programmed
  <2> DEFINE k == i - op.offset
  <2>1. k \in 1..Len(op.data)
    BY <1>1, <1>3, SimulatorParameters
  <2> HIDE DEF k
  <2>2. op.data[k] \in {0, 1} /\ s.flash[i] \in {0, 1}
    <3>1. op.data[k] \in {0, 1}
      BY <1>1, <2>1
    <3> QED  BY <1>2, <3>1
  <2>3. CASE s.flash[i] = 0
    BY <2>2, <2>3 DEF k
  <2>4. CASE s.flash[i] = 1
    BY <2>2, <2>4 DEF k
  <2> QED  BY <2>2, <2>3, <2>4
<1>5. Blanked(s.flash, op, n) \in [1..Cells -> {0, 1}]
  BY <1>2 DEF Blanked
<1>6. op.kind = "set" => op.data[1] \in {0, 1}
  BY <1>1
<1> DEFINE t == After(s, op)
           flashed == CASE op.kind = "write" -> Programmed(s.flash, op, n)
                        [] op.kind = "erase" -> Blanked(s.flash, op, n)
                        [] OTHER -> s.flash
           set == IF op.kind = "set" /\ n > 0 THEN op.data[1] ELSE s.relay
           part == IF Interrupted(s, op) THEN s.partial + 1 ELSE s.partial
<1>7. t = [s EXCEPT !.fault = NoFault, !.partial = part, !.flash = flashed,
                    !.relay = set]
  BY DEF After, n
<1>8. /\ flashed \in [1..Cells -> {0, 1}] /\ set \in {0, 1}
      /\ part \in Nat
  BY <1>2, <1>4, <1>5, <1>6
<1>9. t \in State /\ t.fault = NoFault /\ t.partial = part
  <2> HIDE DEF flashed, set, part, t
  <2> QED  BY <1>7, <1>8 DEF State
<1>10. Accounted(t) <= Accounted(s)
  <2> HIDE DEF t
  <2> QED  BY <1>2, <1>9 DEF Accounted, Interrupted
<1> QED  BY <1>9, <1>10 DEF t

-----------------------------------------------------------------------------
(* Calls *)

LEMMA InitInv == Init => SimulatorInv
<1> SUFFICES ASSUME Init PROVE SimulatorInv
  OBVIOUS
<1>1. SimulatorTypeOK
  BY DEF Init, SimulatorTypeOK, File, Missing, Call, Quiet
<1>2. FaultsAccounted /\ FilesAreWhole /\ TemporaryIsNew /\ AnswersAreStored
  BY DEF Init, FaultsAccounted, WithinInjected, FilesAreWhole, TemporaryIsNew,
         AnswersAreStored, Missing, Quiet
<1> QED  BY <1>1, <1>2 DEF SimulatorInv

\* What a session is and how much it accounts for, when no file changes.
LEMMA SessionChanges ==
  ASSUME SimulatorInv, UNCHANGED storage,
         memory' \in State \cup {None}, call' \in Call,
         calls' \in Nat, injected' \in Nat, injected <= injected',
         WithinInjected(memory)',
         call'.pc \in {"idle", "create"},
         call'.pc = "create" => memory' # None,
         call'.pc = "idle" =>
           /\ memory' # None => memory' = file.state
           /\ call'.result = "completed" =>
                file.state # None /\ Agrees(file.state, call'.op)
  PROVE  SimulatorInv'
<1>1. SimulatorTypeOK' /\ FilesAreWhole' /\ TemporaryIsNew' /\ AnswersAreStored'
  BY DEF SimulatorInv, SimulatorTypeOK, FilesAreWhole, TemporaryIsNew,
         AnswersAreStored, storage
<1>2. \A s \in State : Accounted(s) \in Nat
  BY DEF Accounted, State
<1>3. \A s \in State \cup {None} : WithinInjected(s) => WithinInjected(s)'
  BY <1>2 DEF WithinInjected, SimulatorInv, SimulatorTypeOK
<1>4. FaultsAccounted'
  <2>1. /\ file.state \in State \cup {None}
        /\ temporary.state \in State \cup {None}
        /\ \A f \in older : f.state \in State \cup {None}
    BY DEF SimulatorInv, SimulatorTypeOK, File
  <2> QED
    BY <1>3, <2>1 DEF FaultsAccounted, SimulatorInv, storage, WithinInjected
<1> QED  BY <1>1, <1>4 DEF SimulatorInv

LEMMA OpenInv ==
  ASSUME SimulatorInv, Open
  PROVE  SimulatorInv'
<1>1. CASE file.state = None
  <2>1. /\ memory' = Fresh /\ UNCHANGED <<storage, calls, injected>>
        /\ call' = [Quiet EXCEPT !.pc = "create"]
    BY <1>1 DEF Open
  <2>2. call' \in Call /\ call'.pc = "create"
    BY <2>1 DEF Call, Quiet
  <2>3. WithinInjected(memory)' /\ calls \in Nat /\ injected \in Nat
    BY <2>1, FreshTyped DEF WithinInjected, SimulatorInv, SimulatorTypeOK
  <2> QED  BY <2>1, <2>2, <2>3, FreshTyped, SessionChanges
<1>2. CASE file.state # None
  BY <1>2, SessionChanges
     DEF Open, SimulatorInv, SimulatorTypeOK, File, WithinInjected,
         FaultsAccounted, AnswersAreStored
<1> QED  BY <1>1, <1>2

LEMMA InjectInv ==
  ASSUME SimulatorInv, NEW fault \in Faults, Inject(fault)
  PROVE  SimulatorInv'
<1>1. memory \in State /\ fault \in Fault /\ fault # NoFault
  BY SimulatorParameters
     DEF Inject, SimulatorInv, SimulatorTypeOK, Fault, NoFault
<1>2. memory' \in State /\ memory'.fault = fault /\ memory'.partial = memory.partial
  BY <1>1 DEF Inject, State
<1>3. WithinInjected(memory)'
  <2>1. memory.partial <= injected
    BY <1>1 DEF SimulatorInv, SimulatorTypeOK, FaultsAccounted, WithinInjected,
                Accounted, State, Inject
  <2> QED
    BY <1>1, <1>2, <2>1
       DEF WithinInjected, Accounted, Inject, SimulatorInv, SimulatorTypeOK,
           State
<1>4. memory' # None
  BY <1>2, NoneIsNoState
<1>5. call' \in Call /\ call'.pc = "create"
  BY DEF Inject, Call, Quiet
<1>6. /\ UNCHANGED <<storage, calls>> /\ calls \in Nat
      /\ injected \in Nat /\ injected' = injected + 1
  BY DEF Inject, SimulatorInv, SimulatorTypeOK
<1> QED  BY <1>2, <1>3, <1>4, <1>5, <1>6, SessionChanges

LEMMA ExecuteInv ==
  ASSUME SimulatorInv, NEW op \in Operations, NEW reconcile \in BOOLEAN,
         Execute(op, reconcile)
  PROVE  SimulatorInv'
<1> DEFINE effect == op.kind \in {"write", "erase", "set"} /\ ~reconcile
           this == [Quiet EXCEPT !.op = op, !.reconcile = reconcile]
<1>1. /\ memory \in State /\ memory = file.state /\ WithinInjected(memory)
      /\ UNCHANGED storage /\ calls' \in Nat /\ injected' = injected
      /\ injected \in Nat /\ memory # None
  BY DEF Execute, SimulatorInv, SimulatorTypeOK, FaultsAccounted,
         AnswersAreStored
<1>2. CASE /\ call' = [this EXCEPT !.result = "error"]
           /\ memory' = None
  <2>1. call' \in Call /\ call'.pc = "idle" /\ call'.result = "error"
    BY <1>2 DEF Call, Quiet
  <2> QED  BY <1>1, <1>2, <2>1, SessionChanges DEF WithinInjected
<1>3. CASE /\ InRange(op)
           /\ memory' = After(memory, op)
           /\ call' = [this EXCEPT !.pc = "create",
                                   !.interrupted = Interrupted(memory, op)]
  <2>1. memory' \in State /\ Accounted(memory') <= Accounted(memory)
    BY <1>1, <1>3, AfterTyped
  <2>2. \A s \in State : Accounted(s) \in Nat
    BY DEF Accounted, State
  <2>3. WithinInjected(memory)'
    BY <1>1, <2>1, <2>2 DEF WithinInjected
  <2>4. call' \in Call /\ call'.pc = "create" /\ memory' # None
    BY <1>3, <2>1, NoneIsNoState DEF Call, Quiet, Interrupted
  <2> QED  BY <1>1, <2>1, <2>3, <2>4, SessionChanges
<1>4. CASE /\ call' = [this EXCEPT !.result = Verdict(memory, op)]
           /\ UNCHANGED memory
  <2>1. /\ call' \in Call /\ call'.pc = "idle" /\ call'.op = op
        /\ call'.result = Verdict(memory, op)
    BY <1>4 DEF Call, Quiet, Verdict
  <2>2. call'.result = "completed" => Agrees(memory, op)
    BY <2>1 DEF Verdict
  <2> QED
    BY <1>1, <1>4, <2>1, <2>2, SessionChanges DEF WithinInjected
<1> QED  BY <1>2, <1>3, <1>4 DEF Execute

\* A session that is thrown away, or whose process dies.
LEMMA FailDieInv ==
  ASSUME SimulatorInv, Fail \/ Die
  PROVE  SimulatorInv'
<1>1. /\ UNCHANGED <<storage, calls, injected>> /\ memory' = None
      /\ \/ call' = call /\ call.pc = "idle"
         \/ call' \in Call /\ call'.pc = "idle" /\ call'.result # "completed"
  <2>1. Quiet \in Call
    BY DEF Call, Quiet
  <2>2. call \in Call => [call EXCEPT !.pc = "idle", !.result = "error"] \in Call
    BY DEF Call
  <2> QED
    BY <2>1, <2>2 DEF Fail, Die, SimulatorInv, SimulatorTypeOK, Quiet, Call
<1>2. /\ call \in Call /\ calls \in Nat /\ injected \in Nat
      /\ call.pc = "idle" /\ call.result = "completed" =>
           file.state # None /\ Agrees(file.state, call.op)
  BY DEF SimulatorInv, SimulatorTypeOK, AnswersAreStored
<1> QED  BY <1>1, <1>2, SessionChanges DEF WithinInjected

-----------------------------------------------------------------------------
(* persist *)

LEMMA TemporaryInv ==
  ASSUME SimulatorInv, Create \/ Write \/ Sync
  PROVE  SimulatorInv'
<1>1. /\ UNCHANGED <<memory, file, older, calls, injected>>
      /\ call' \in Call /\ call'.pc # "idle" /\ call.pc # "idle"
  BY DEF Create, Write, Sync, SimulatorInv, SimulatorTypeOK, Call
<1>2. /\ temporary' \in File
      /\ temporary'.state \in {None, memory}
      /\ call'.pc \in {"sync", "rename"} =>
           temporary' = [state |-> memory, synced |-> call'.pc = "rename",
                         whole |-> TRUE]
  <2>1. memory \in State \cup {None} /\ temporary \in File /\ call \in Call
    BY DEF SimulatorInv, SimulatorTypeOK
  <2>2. CASE Create
    BY <2>1, <2>2 DEF Create, File, Missing, Call
  <2>3. CASE Write
    BY <2>1, <2>3 DEF Write, File, Call
  <2>4. CASE Sync
    <3>1. temporary = [state |-> memory, synced |-> FALSE, whole |-> TRUE]
      BY <2>4 DEF Sync, SimulatorInv, TemporaryIsNew
    <3> QED  BY <2>1, <2>4, <3>1 DEF Sync, File, Call
  <2> QED  BY <2>2, <2>3, <2>4
<1>3. SimulatorTypeOK' /\ FilesAreWhole' /\ TemporaryIsNew' /\ AnswersAreStored'
  BY <1>1, <1>2
     DEF SimulatorInv, SimulatorTypeOK, FilesAreWhole, TemporaryIsNew,
         AnswersAreStored
<1>4. FaultsAccounted'
  BY <1>1, <1>2 DEF SimulatorInv, FaultsAccounted, WithinInjected
<1> QED  BY <1>3, <1>4 DEF SimulatorInv

LEMMA RenameInv ==
  ASSUME SimulatorInv, Rename
  PROVE  SimulatorInv'
<1>1. /\ memory \in State /\ memory # None
      /\ file' = [state |-> memory, synced |-> TRUE, whole |-> TRUE]
      /\ older' = older \cup {file} /\ temporary' = Missing
      /\ UNCHANGED <<calls, injected>>
  BY DEF Rename, SimulatorInv, SimulatorTypeOK, TemporaryIsNew
<1>2. /\ call' \in Call /\ call'.pc = "idle" /\ call'.op = call.op
      /\ memory' \in {memory, None}
      /\ call'.result = "completed" => Agrees(memory, call.op)
  <2>1. CASE call.interrupted
    BY <2>1 DEF Rename, SimulatorInv, SimulatorTypeOK, Call
  <2>2. CASE ~call.interrupted
    BY <2>2 DEF Rename, SimulatorInv, SimulatorTypeOK, Call, Verdict
  <2> QED  BY <2>1, <2>2
<1>3. SimulatorTypeOK' /\ FilesAreWhole' /\ TemporaryIsNew'
  BY <1>1, <1>2
     DEF SimulatorInv, SimulatorTypeOK, FilesAreWhole, TemporaryIsNew, File,
         Missing
<1>4. AnswersAreStored'
  BY <1>1, <1>2 DEF AnswersAreStored
<1>5. FaultsAccounted'
  BY <1>1, <1>2 DEF SimulatorInv, FaultsAccounted, WithinInjected, Missing
<1> QED  BY <1>3, <1>4, <1>5 DEF SimulatorInv

LEMMA DiskInv ==
  ASSUME SimulatorInv, Settle \/ LosePower
  PROVE  SimulatorInv'
<1>1. CASE Settle
  BY <1>1 DEF Settle, SimulatorInv, SimulatorTypeOK, FilesAreWhole,
              TemporaryIsNew, AnswersAreStored, FaultsAccounted, WithinInjected
<1>2. CASE LosePower
  <2>1. PICK f \in older \cup {file} :
          file' = [state |-> f.state, synced |-> TRUE, whole |-> f.synced]
    BY <1>2 DEF LosePower
  <2>2. f \in File /\ f.synced /\ WithinInjected(f.state)
    BY DEF SimulatorInv, SimulatorTypeOK, FilesAreWhole, FaultsAccounted
  <2>3. /\ older' = {} /\ temporary' = Missing /\ memory' = None
        /\ call' = Quiet /\ UNCHANGED <<calls, injected>>
    BY <1>2 DEF LosePower
  <2>4. SimulatorTypeOK'
    BY <2>1, <2>2, <2>3
       DEF SimulatorInv, SimulatorTypeOK, File, Missing, Call, Quiet
  <2>5. FilesAreWhole' /\ TemporaryIsNew' /\ AnswersAreStored'
    BY <2>1, <2>2, <2>3
       DEF FilesAreWhole, TemporaryIsNew, AnswersAreStored, Quiet
  <2>6. FaultsAccounted'
    BY <2>1, <2>2, <2>3 DEF FaultsAccounted, WithinInjected, Missing
  <2> QED  BY <2>4, <2>5, <2>6 DEF SimulatorInv
<1> QED  BY <1>1, <1>2

-----------------------------------------------------------------------------

LEMMA InvHolds == Spec => []SimulatorInv
<1>1. SimulatorInv /\ [Next]_vars => SimulatorInv'
  <2> SUFFICES ASSUME SimulatorInv, [Next]_vars PROVE SimulatorInv'
    OBVIOUS
  <2>1. CASE UNCHANGED vars
    BY <2>1 DEF vars, storage, SimulatorInv, SimulatorTypeOK, FaultsAccounted,
                WithinInjected, FilesAreWhole, TemporaryIsNew, AnswersAreStored
  <2>2. CASE Persist
    BY <2>2, TemporaryInv, RenameInv DEF Persist
  <2> QED
    BY <2>1, <2>2, OpenInv, InjectInv, ExecuteInv, FailDieInv, DiskInv DEF Next
<1> QED  BY InitInv, <1>1, PTL DEF Spec

\* The file can always be read, agrees with the session between calls, and
\* holds what was reported as completed, whatever fails, dies or loses power
\* between an effect and its record.
THEOREM AnswersStored == Spec => []AnswersAreStored
<1>1. SimulatorInv => AnswersAreStored
  BY DEF SimulatorInv
<1> QED  BY InvHolds, <1>1, PTL

\* A fault interrupts one effect at most, in the session and in the file.
THEOREM FaultsTakenOnce == Spec => []FaultsAreSpent
<1>1. SimulatorInv => FaultsAreSpent
  <2>1. \A s \in State : s.partial <= Accounted(s) /\ Accounted(s) \in Nat
                         /\ s.partial \in Nat
    BY DEF Accounted, State
  <2> QED
    BY <2>1 DEF SimulatorInv, SimulatorTypeOK, FaultsAccounted, WithinInjected,
                FaultsAreSpent, File
<1> QED  BY InvHolds, <1>1, PTL

=============================================================================
