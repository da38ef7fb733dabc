-------------------------- MODULE InterlocksProofs --------------------------
(***************************************************************************)
(* Proofs about Device, and about Interlocks: it implements Device, so     *)
(* that what is proved of that holds here, and no gated command goes out   *)
(* unsupported.                                                            *)
(***************************************************************************)
EXTENDS Interlocks, TLAPS, WellFoundedInduction

-----------------------------------------------------------------------------
(* The session of an instrument: theorems about Device.                     *)

\* How far a call is tells how many commands it has sent, and how late.
CallSound(k) ==
  /\ k.pc \in {"lock", "observe"} => k.sent = 0 /\ k.late = 0
  /\ k.pc = "operate" => k.sent > 0 /\ k.late = 0
  /\ k.pc # "idle" => k.result = "none"
  /\ k.result = "rejected" => k.sent = 0
  /\ k.late <= 1

CallsSound == \A c \in Callers : CallSound(call[c])

\* While nobody holds the mutex no answer is awaited.
QuietWhenFree == owner = Nobody /\ ~poisoned => wire = "quiet"

DeviceInv == DeviceTypeOK /\ CallsSound /\ QuietWhenFree

\* The state before the first call satisfies the invariant.
LEMMA InitDevice == Init => DeviceInv
<1> SUFFICES ASSUME Init PROVE DeviceInv
  OBVIOUS
<1> DEFINE k == [pc |-> "idle", kind |-> "execute", limit |-> 0,
                 expires |-> Never, sent |-> 0, late |-> 0, result |-> "none"]
<1>1. Never \in Nat
  BY DeviceParameters DEF Never
<1>2. k \in Call /\ CallSound(k)
  BY <1>1, DeviceParameters DEF Call, CallSound, Kind
<1>3. call = [c \in Callers |-> k]
  BY DEF Init
<1> HIDE DEF k
<1>4. DeviceTypeOK
  <2>1. call \in [Callers -> Call]
    BY <1>2, <1>3
  <2>2. /\ now = 0 /\ owner = Nobody /\ poisoned = FALSE
        /\ session = "none" /\ wire = "quiet" /\ calls = 0
    BY DEF Init
  <2>3. 0 \in 0..MaxTime /\ 0 \in 0..MaxCalls
    BY DeviceParameters
  <2> QED
    BY <2>1, <2>2, <2>3, Zenon DEF DeviceTypeOK
<1>5. CallsSound
  BY <1>2, <1>3 DEF CallsSound
<1> QED
  BY <1>4, <1>5 DEF Init, DeviceInv, QuietWhenFree

\* A step that changes one call, to a sound one, preserves the invariant.
LEMMA OneCall ==
  ASSUME DeviceInv, NEW c \in Callers, NEW k \in Call, CallSound(k),
         call' = [call EXCEPT ![c] = k],
         now' \in 0..MaxTime, owner' \in Callers \cup {Nobody},
         poisoned' \in BOOLEAN, session' \in {"none", "open"},
         wire' \in {"quiet", "asked", "answered"}, calls' \in 0..MaxCalls,
         QuietWhenFree'
  PROVE  DeviceInv'
BY DEF DeviceInv, DeviceTypeOK, CallsSound, CallSound, QuietWhenFree

\* The call of a caller has the fields of one.
LEMMA CallFields ==
  ASSUME DeviceInv, NEW c \in Callers
  PROVE  call[c] \in Call /\ CallSound(call[c])
BY DEF DeviceInv, DeviceTypeOK, CallsSound

\* A call that ends in the session with a result other than a rejection, or
\* before its first command, keeps the invariant.
LEMMA Ending ==
  ASSUME DeviceInv, NEW c \in Callers,
         NEW r \in {"receipt", "rejected", "error", "timeout"},
         r = "rejected" => call[c].sent = 0,
         Keeps(c, r) \/ Drops(c, r)
  PROVE  DeviceInv'
<1> DEFINE k == [call[c] EXCEPT !.pc = "idle", !.result = r]
<1>1. k \in Call /\ CallSound(k)
  BY CallFields DEF Call, CallSound
<1>2. call' = [call EXCEPT ![c] = k]
  BY CallFields DEF Keeps, Drops, Returns, Call, DeviceInv, DeviceTypeOK
<1>3. QuietWhenFree'
  BY DEF Keeps, Drops, QuietWhenFree
<1> QED
  BY <1>1, <1>2, <1>3, OneCall DEF Keeps, Drops, Returns, DeviceInv, DeviceTypeOK

\* Sending a command keeps it, if the call stays sound either way.
LEMMA Asking ==
  ASSUME DeviceInv, NEW c \in Callers, NEW k \in Call,
         k.pc # "idle", k.result = "none", k.late <= 1,
         now < k.limit => CallSound(k), Ask(c, k)
  PROVE  DeviceInv'
<1>1. CASE now >= k.limit
  <2> DEFINE j == [k EXCEPT !.pc = "idle", !.result = "timeout"]
  <2>1. j \in Call /\ CallSound(j)
    BY DEF Call, CallSound
  <2>2. QuietWhenFree'
    BY <1>1 DEF Ask, QuietWhenFree
  <2> QED
    BY <1>1, <2>1, <2>2, OneCall DEF Ask, DeviceInv, DeviceTypeOK
<1>2. CASE ~(now >= k.limit)
  <2>1. now < k.limit
    BY <1>2, DeviceParameters DEF DeviceInv, DeviceTypeOK, Call, Never
  <2>2. QuietWhenFree'
    BY <1>2, DeviceParameters DEF Ask, QuietWhenFree
  <2> QED
    BY <1>2, <2>1, <2>2, OneCall DEF Ask, DeviceInv, DeviceTypeOK
<1> QED
  BY <1>1, <1>2

\* The next command of an operation leaves a sound call while its limit has
\* not passed.
LEMMA Commanding ==
  ASSUME DeviceInv, NEW c \in Callers, InSession(c), call[c].sent < Commands
  PROVE  /\ Command(c) \in Call
         /\ Command(c).pc # "idle" /\ Command(c).result = "none"
         /\ Command(c).late <= 1 /\ Command(c).limit = call[c].limit
         /\ now < call[c].limit => CallSound(Command(c))
<1>1. call[c] \in Call /\ CallSound(call[c])
  BY CallFields
<1>2. now \in Nat /\ call[c].limit \in Nat /\ call[c].late = 0
  BY <1>1, DeviceParameters
     DEF DeviceInv, DeviceTypeOK, Call, CallSound, InSession, Never
<1>3. call[c].sent + 1 \in 0..Commands /\ call[c].sent + 1 > 0
  BY <1>1, DeviceParameters DEF Call
<1> DEFINE late == IF now >= call[c].limit THEN call[c].late + 1
                   ELSE call[c].late
<1>4. late \in Nat /\ late = IF now >= call[c].limit THEN 1 ELSE 0
  BY <1>2
<1>5. Command(c) = [call[c] EXCEPT !.pc = "operate", !.sent = @ + 1,
                                   !.late = late]
  BY DEF Command
<1> HIDE DEF late
<1>6. /\ Command(c) \in Call
      /\ Command(c).pc = "operate" /\ Command(c).result = call[c].result
      /\ Command(c).sent = call[c].sent + 1
      /\ Command(c).limit = call[c].limit
      /\ Command(c).late = IF now >= call[c].limit THEN 1 ELSE 0
  BY <1>1, <1>3, <1>4, <1>5 DEF Call
<1>7. call[c].result = "none"
  BY <1>1 DEF CallSound, InSession
<1>8. now < call[c].limit => Command(c).late = 0
  BY <1>2, <1>6
<1>9. Command(c).late <= 1
  BY <1>6
<1> QED
  BY <1>3, <1>6, <1>7, <1>8, <1>9 DEF CallSound

\* A call begins, or is refused before it waits for the session.
LEMMA BeginKeeps ==
  ASSUME DeviceInv, NEW c \in Callers, NEW kind \in Kind,
         NEW expires \in 0..Never, Begin(c, kind, expires) \/ Refuse(c)
  PROVE  DeviceInv'
<1>1. now \in 0..MaxTime /\ calls \in 0..MaxCalls /\ QuietWhenFree
  BY DEF DeviceInv, DeviceTypeOK
<1>2. CASE Begin(c, kind, expires)
  <2> DEFINE k == [pc |-> "lock", kind |-> kind, limit |-> now + Deadline,
                   expires |-> expires, sent |-> 0, late |-> 0,
                   result |-> "none"]
  <2>1. now + Deadline \in 0..Never
    BY <1>1, <1>2, DeviceParameters DEF Begin, Never
  <2>2. k \in Call /\ CallSound(k)
    BY <2>1, DeviceParameters DEF Call, CallSound
  <2>3. calls' \in 0..MaxCalls
    BY <1>1, <1>2, DeviceParameters DEF Begin
  <2> QED
    BY <1>1, <1>2, <2>2, <2>3, OneCall
       DEF Begin, link, QuietWhenFree, DeviceInv, DeviceTypeOK
<1>3. CASE Refuse(c)
  <2> DEFINE k == [call[c] EXCEPT !.pc = "idle", !.result = "rejected"]
  <2>1. k \in Call /\ CallSound(k)
    BY <1>3, CallFields DEF Refuse, Call, CallSound
  <2>2. call' = [call EXCEPT ![c] = k]
    BY <1>3, CallFields DEF Refuse, Call, DeviceInv, DeviceTypeOK
  <2> QED
    BY <1>1, <1>3, <2>1, <2>2, OneCall
       DEF Refuse, link, QuietWhenFree, DeviceInv, DeviceTypeOK
<1> QED
  BY <1>2, <1>3

\* A call that got the mutex is turned away, or speaks to the instrument.
LEMMA LockKeeps ==
  ASSUME DeviceInv, NEW c \in Callers, TurnedAway(c) \/ Enter(c)
  PROVE  DeviceInv'
<1>1. call[c] \in Call /\ CallSound(call[c]) /\ call[c].pc = "lock"
  BY CallFields DEF TurnedAway, Enter
<1>2. CASE TurnedAway(c)
  <2>1. PICK r \in {"error", "rejected", "timeout"} : Returns(c, r)
    BY <1>2 DEF TurnedAway
  <2> DEFINE k == [call[c] EXCEPT !.pc = "idle", !.result = r]
  <2>2. k \in Call /\ CallSound(k)
    BY <1>1 DEF Call, CallSound
  <2>3. call' = [call EXCEPT ![c] = k] /\ owner' = Nobody
    BY <1>1, <2>1 DEF Returns, Call, DeviceInv, DeviceTypeOK
  <2>4. QuietWhenFree'
    BY <1>2 DEF TurnedAway, QuietWhenFree, DeviceInv
  <2> QED
    BY <1>2, <2>2, <2>3, <2>4, OneCall DEF TurnedAway, DeviceInv, DeviceTypeOK
<1>3. CASE Enter(c)
  <2> DEFINE k == [call[c] EXCEPT !.pc = "observe", !.limit = Limit(c)]
  <2>1. Limit(c) \in 0..Never
    BY <1>1, DeviceParameters
       DEF Limit, DeviceInv, DeviceTypeOK, Call, Never
  <2>2. k \in Call /\ k.pc # "idle" /\ k.result = "none" /\ k.late <= 1
        /\ CallSound(k)
    BY <1>1, <2>1 DEF Call, CallSound
  <2>3. Ask(c, k) => DeviceInv'
    BY <2>2, Asking
  <2>4. Drops(c, "error") => DeviceInv'
    BY Ending
  <2> QED
    BY <1>3, <2>3, <2>4 DEF Enter
<1> QED
  BY <1>2, <1>3

\* Answers, failures and timeouts in the session.
LEMMA SessionKeeps ==
  ASSUME DeviceInv, NEW c \in Callers,
         Observed(c) \/ Operated(c) \/ AdapterFails(c) \/ Expire(c)
  PROVE  DeviceInv'
<1>1. call[c] \in Call /\ CallSound(call[c]) /\ InSession(c)
  BY CallFields DEF Observed, Operated, Published, AdapterFails, Expire, InSession
<1>2. \/ Drops(c, "error") \/ Drops(c, "timeout")
      \/ Keeps(c, "receipt") \/ Keeps(c, "error")
      \/ call[c].pc = "observe" /\ Keeps(c, "rejected")
      \/ call[c].sent < Commands /\ Ask(c, Command(c))
  BY <1>1, DeviceParameters
     DEF Observed, Operated, Published, AdapterFails, Expire, CallSound
<1>3. call[c].pc = "observe" => call[c].sent = 0
  BY <1>1 DEF CallSound
<1>4. ASSUME call[c].sent < Commands, Ask(c, Command(c)) PROVE DeviceInv'
  BY <1>1, <1>4, Commanding, Asking
<1> QED
  BY <1>2, <1>3, <1>4, Ending

\* A panic leaves the session to nobody.
LEMMA PanicKeeps ==
  ASSUME DeviceInv, NEW c \in Callers, Panic(c)
  PROVE  DeviceInv'
<1> DEFINE k == [call[c] EXCEPT !.pc = "idle"]
<1>1. k \in Call /\ CallSound(k)
  BY CallFields DEF Call, CallSound, Panic, InSession
<1>2. call' = [call EXCEPT ![c] = k]
  BY CallFields DEF Panic, Call, DeviceInv, DeviceTypeOK
<1> QED
  BY <1>1, <1>2, OneCall DEF Panic, QuietWhenFree, DeviceInv, DeviceTypeOK

\* Every step preserves the invariant.
LEMMA StepDevice == DeviceInv /\ [Next]_vars => DeviceInv'
<1> SUFFICES ASSUME DeviceInv, [Next]_vars PROVE DeviceInv'
  OBVIOUS
<1>1. ASSUME NEW c \in Callers, Refuse(c) PROVE DeviceInv'
  <2>1. "execute" \in Kind /\ 0 \in 0..Never
    BY DeviceParameters DEF Kind, Never
  <2> QED
    BY <1>1, <2>1, BeginKeeps
<1>2. CASE Answer \/ Tick \/ UNCHANGED vars
  BY <1>2, DeviceParameters DEF Answer, Tick, vars, link, DeviceInv,
     DeviceTypeOK, CallsSound, QuietWhenFree
<1> QED
  BY <1>1, <1>2, BeginKeeps, LockKeeps, SessionKeeps, PanicKeeps
     DEF Next, CallStep

\* DeviceInv is an invariant.
LEMMA DeviceInvariant == Spec => []DeviceInv
BY InitDevice, StepDevice, PTL DEF Spec

-----------------------------------------------------------------------------

\* A rejected operation sent no command, so that its leases may be freed.
THEOREM RejectionsHarmless == Spec => []RejectedIsHarmless
<1>1. DeviceInv => RejectedIsHarmless
  BY DEF DeviceInv, CallsSound, CallSound, RejectedIsHarmless
<1> QED
  BY <1>1, DeviceInvariant, PTL

\* Past its limit an operation sends one more command at most.
THEOREM LateOnce == Spec => []OneCommandLate
<1>1. DeviceInv => OneCommandLate
  BY DEF DeviceInv, CallsSound, CallSound, OneCommandLate
<1> QED
  BY <1>1, DeviceInvariant, PTL

\* A step is that of one caller, or leaves the calls alone.
LEMMA OneCaller ==
  ASSUME DeviceInv, [Next]_vars, NEW c \in Callers, call'[c] # call[c]
  PROVE  \/ \E kind \in Kind, expires \in 0..Never : Begin(c, kind, expires)
         \/ Refuse(c) \/ CallStep(c) \/ AdapterFails(c) \/ Panic(c)
<1>1. call \in [Callers -> Call]
  BY DEF DeviceInv, DeviceTypeOK
<1>2. ASSUME NEW d \in Callers, d # c, NEW kind \in Kind,
             NEW expires \in 0..Never, Begin(d, kind, expires) \/ Refuse(d)
      PROVE  FALSE
  BY <1>1, <1>2 DEF Begin, Refuse
<1>3. ASSUME NEW d \in Callers, d # c, NEW k, Ask(d, k)
      PROVE  FALSE
  BY <1>1, <1>3 DEF Ask
<1>4. ASSUME NEW d \in Callers, d # c, NEW r,
             Returns(d, r) \/ Keeps(d, r) \/ Drops(d, r)
      PROVE  FALSE
  BY <1>1, <1>4 DEF Keeps, Drops, Returns
<1>5. ASSUME NEW d \in Callers, d # c,
             CallStep(d) \/ AdapterFails(d) \/ Panic(d)
      PROVE  FALSE
  <2>1. CASE TurnedAway(d) \/ AdapterFails(d) \/ Expire(d)
    BY <1>4, <1>5, <2>1 DEF TurnedAway, AdapterFails, Expire
  <2>2. CASE Enter(d) \/ Observed(d) \/ Operated(d)
    BY <1>3, <1>4, <1>5, <2>2 DEF Enter, Observed, Operated, Published
  <2>3. CASE Panic(d)
    BY <1>1, <1>5, <2>3 DEF Panic
  <2> QED
    BY <1>5, <2>1, <2>2, <2>3 DEF CallStep
<1>6. ~(Answer \/ Tick \/ UNCHANGED vars)
  BY DEF Answer, Tick, vars
<1>7. PICK d \in Callers :
        \/ \E kind \in Kind, expires \in 0..Never : Begin(d, kind, expires)
        \/ Refuse(d) \/ CallStep(d) \/ AdapterFails(d) \/ Panic(d)
  BY <1>6 DEF Next
<1>8. 0 \in 0..Never /\ "execute" \in Kind
  BY DeviceParameters DEF Never, Kind
<1>9. d = c
  BY <1>2, <1>5, <1>7, <1>8
<1> QED
  BY <1>7, <1>9

\* A call speaks first in a session where no answer is awaited.
THEOREM SessionsUnmixed == Spec => NeverMixed
<1>1. ASSUME DeviceInv, [Next]_vars, NEW c \in Callers,
             call[c].pc = "lock", call'[c].pc = "observe"
      PROVE  session = "none" \/ wire = "quiet"
  <2>1. call \in [Callers -> Call] /\ QuietWhenFree
    BY <1>1 DEF DeviceInv, DeviceTypeOK
  <2>2. CASE Enter(c)
    BY <2>1, <2>2 DEF Enter, QuietWhenFree
  <2>3. ASSUME NEW r, Returns(c, r) PROVE FALSE
    BY <1>1, <2>1, <2>3 DEF Returns, Call
  <2>4. ~(TurnedAway(c) \/ Refuse(c))
    BY <1>1, <2>1, <2>3 DEF TurnedAway, Refuse, Call
  <2>5. ~(Observed(c) \/ Operated(c) \/ Expire(c) \/ AdapterFails(c) \/ Panic(c))
    BY <1>1 DEF Observed, Operated, Published, Expire, AdapterFails, Panic, InSession
  <2>6. ~ \E kind \in Kind, expires \in 0..Never : Begin(c, kind, expires)
    BY <1>1 DEF Begin
  <2> QED
    BY <1>1, <2>2, <2>4, <2>5, <2>6, OneCaller DEF CallStep
<1>2. DeviceInv /\ [Next]_vars =>
        [\A c \in Callers : call[c].pc = "lock" /\ call'[c].pc = "observe" =>
           session = "none" \/ wire = "quiet"]_vars
  BY <1>1
<1> QED
  BY <1>2, DeviceInvariant, PTL DEF Spec, NeverMixed

\* The step that sends the first command of a call finds its interlock fresh.
LEMMA FirstCommandFresh ==
  ASSUME DeviceInv, [Next]_vars, NEW c \in Callers,
         call[c].sent = 0, call'[c].sent > 0
  PROVE  now < call[c].expires
<1>1. call \in [Callers -> Call] /\ CallSound(call[c])
  BY DEF DeviceInv, DeviceTypeOK, CallsSound
<1>2. CASE Observed(c)
  <2>1. ASSUME NEW r, Keeps(c, r) PROVE FALSE
    BY <1>1, <2>1 DEF Keeps, Returns, Call
  <2> QED
    BY <1>2, <2>1 DEF Observed
<1>3. ~Operated(c)
  BY <1>1 DEF Operated, Published, CallSound
<1>4. ASSUME NEW r, Returns(c, r) \/ Keeps(c, r) \/ Drops(c, r) PROVE FALSE
  BY <1>1, <1>4 DEF Returns, Keeps, Drops, Call
<1>5. ~(TurnedAway(c) \/ Expire(c) \/ AdapterFails(c))
  BY <1>4 DEF TurnedAway, Expire, AdapterFails
<1>6. ~(Refuse(c) \/ Panic(c))
  BY <1>1 DEF Refuse, Panic, Call
<1>7. ~ \E kind \in Kind, expires \in 0..Never : Begin(c, kind, expires)
  BY <1>1 DEF Begin
<1>8. ~Enter(c)
  <2>1. ASSUME Ask(c, [call[c] EXCEPT !.pc = "observe", !.limit = Limit(c)])
        PROVE  FALSE
    <3> DEFINE k == [call[c] EXCEPT !.pc = "observe", !.limit = Limit(c)]
    <3>1. Limit(c) \in 0..Never
      BY <1>1, DeviceParameters
         DEF Limit, DeviceInv, DeviceTypeOK, Call, Never
    <3>2. k \in Call /\ k.sent = 0
      <4>1. call[c] \in Call
        BY <1>1
      <4>2. \A row \in Call, limit \in 0..Never :
              LET new == [row EXCEPT !.pc = "observe", !.limit = limit]
              IN  new \in Call /\ new.sent = row.sent
        BY DEF Call
      <4> QED  BY <3>1, <4>1, <4>2
    <3>3. Ask(c, k)
      BY <2>1
    <3> HIDE DEF k
    <3>4. CASE now >= k.limit
      <4> DEFINE j == [k EXCEPT !.pc = "idle", !.result = "timeout"]
      <4>1. j.sent = 0
        BY <3>2 DEF Call
      <4>2. call' = [call EXCEPT ![c] = j]
        BY <3>3, <3>4 DEF Ask
      <4> HIDE DEF j
      <4> QED
        BY <1>1, <4>1, <4>2
    <3>5. CASE ~(now >= k.limit)
      BY <1>1, <3>2, <3>3, <3>5 DEF Ask
    <3> QED
      BY <3>4, <3>5
  <2> QED
    BY <1>4, <2>1 DEF Enter
<1> QED
  BY <1>2, <1>3, <1>5, <1>6, <1>7, <1>8, OneCaller DEF CallStep

\* An operation sends its first command before its interlock expires.
THEOREM BegunFresh == Spec => BegunWhileFresh
<1>1. DeviceInv /\ [Next]_vars =>
        [\A c \in Callers :
           call[c].sent = 0 /\ call'[c].sent > 0 => now < call[c].expires]_vars
  BY FirstCommandFresh
<1> QED
  BY <1>1, DeviceInvariant, PTL DEF Spec, BegunWhileFresh

-----------------------------------------------------------------------------
(* A plan under interlocks.                                                 *)

State == {"none", "dispatched", "completed", "partial", "unknown", "rejected"}

\* Shapes of the run
RunTypeOK ==
  /\ case \in Cases
  /\ attempt \in [Step -> [state : State, good : BOOLEAN, at : Nat]]
  /\ job \in [Callers -> Step \cup {0}]
  /\ sample \in BOOLEAN
  /\ quiet \subseteq Step

\* One caller at a time drives a step, in a call that is under way, and the
\* step is in doubt while it does.
JobsSound ==
  /\ \A c \in Callers : job[c] # 0 =>
       /\ call[c].pc # "idle"
       /\ \A d \in Callers : job[d] # 0 => d = c
       /\ \/ call[c].kind = "execute" /\ attempt[job[c]].state = "dispatched"
          \/ /\ call[c].kind = "reconcile" /\ ~RefusesConfiguration
             /\ attempt[job[c]].state = "unknown"

\* A step is reserved when all those before it are completed.
StepsOrdered ==
  \A j \in Step : attempt[j].state # "none" =>
    \A i \in 1..(j - 1) : attempt[i].state = "completed"

\* A completed observation with no effect reserved after it is quiet, and so
\* is one whose instrument has just answered.
QuietSound ==
  /\ \A i \in Step :
       /\ case.plan[i] \in Sensing
       /\ attempt[i].state = "completed"
       /\ \A j \in (i + 1)..Len(case.plan) :
            Effectful(j) => attempt[j].state = "none"
       => i \in quiet
  /\ \A c \in Callers :
       call[c].pc = "operate" /\ owner = c /\ wire = "answered" /\ job[c] # 0
       /\ case.plan[job[c]] \in Sensing
       => job[c] \in quiet

\* Step i vouches for a call until it expires.
Supports(i, lock, expires) ==
  /\ i \in quiet
  /\ case.plan[i] = lock.observation
  /\ attempt[i].state = "completed" /\ attempt[i].good
  /\ expires <= attempt[i].at + lock.age

\* An execution that has sent nothing yet is supported on every interlock of
\* its step.
SupportedUntilSent ==
  \A c \in Callers :
    /\ job[c] # 0 /\ call[c].kind = "execute"
    /\ call[c].pc \in {"lock", "observe"}
    => \A lock \in LocksOf(job[c]) :
         \E i \in Step : Supports(i, lock, call[c].expires)

RunInv ==
  /\ RunTypeOK /\ JobsSound /\ StepsOrdered /\ QuietSound
  /\ SupportedUntilSent

-----------------------------------------------------------------------------
(* The steps of a call *)

\* What every step of a call does to the call and its session
Onward(c) ==
  /\ \A d \in Callers : d # c => call'[d] = call[d]
  /\ call[c].pc # "idle"
  /\ call'[c].kind = call[c].kind
  /\ call'[c].expires = call[c].expires
  /\ call'[c].pc \in {"idle", "observe", "operate"}
  /\ call'[c].pc = "observe" => call[c].pc = "lock"
  /\ call'[c].pc = "operate" => wire' = "asked"
  /\ call'[c].sent # call[c].sent => call'[c].pc # "observe"
  /\ owner' \in {Nobody, c} \/ (owner' = owner /\ wire' = wire)
  /\ call'[c].result = "receipt" /\ call[c].kind # "inspect" =>
       /\ call[c].pc = "operate" /\ owner = c /\ wire = "answered"
       /\ call'[c].sent = call[c].sent

\* A call that returns goes onward; it has a receipt only in the session.
LEMMA ReturnsOnward ==
  ASSUME DeviceInv, NEW c \in Callers, NEW r, Returns(c, r),
         call[c].pc # "idle",
         r = "receipt" /\ call[c].kind # "inspect" =>
           call[c].pc = "operate" /\ owner = c /\ wire = "answered"
  PROVE  Onward(c)
<1> DEFINE k == [call[c] EXCEPT !.pc = "idle", !.result = r]
<1>1. call[c] \in Call /\ call \in [Callers -> Call]
  BY CallFields DEF DeviceInv, DeviceTypeOK
<1>2. call' = [call EXCEPT ![c] = k] /\ owner' = Nobody
  BY <1>1 DEF Returns, Call
<1>3. /\ k.pc = "idle" /\ k.result = r /\ k.kind = call[c].kind
      /\ k.expires = call[c].expires /\ k.sent = call[c].sent
  BY <1>1 DEF Call
<1> HIDE DEF k
<1>4. call'[c] = k /\ \A d \in Callers : d # c => call'[d] = call[d]
  BY <1>1, <1>2
<1> QED
  BY <1>2, <1>3, <1>4 DEF Onward

\* A call that asks goes onward.
LEMMA AsksOnward ==
  ASSUME DeviceInv, NEW c \in Callers, NEW k \in Call, Ask(c, k),
         call[c].pc # "idle", k.kind = call[c].kind,
         k.expires = call[c].expires, k.result = "none",
         \/ k.pc = "observe" /\ call[c].pc = "lock" /\ k.sent = call[c].sent
         \/ k.pc = "operate"
  PROVE  Onward(c)
<1> DEFINE j == [k EXCEPT !.pc = "idle", !.result = "timeout"]
<1>1. call \in [Callers -> Call]
  BY DEF DeviceInv, DeviceTypeOK
<1>2. /\ j.pc = "idle" /\ j.result = "timeout" /\ j.kind = k.kind
      /\ j.expires = k.expires
  BY DEF Call
<1>3. \/ call' = [call EXCEPT ![c] = j] /\ owner' = Nobody
      \/ call' = [call EXCEPT ![c] = k] /\ owner' = c /\ wire' = "asked"
  BY DEF Ask
<1> HIDE DEF j
<1>4. /\ \A d \in Callers : d # c => call'[d] = call[d]
      /\ \/ call'[c] = j /\ owner' = Nobody
         \/ call'[c] = k /\ owner' = c /\ wire' = "asked"
  BY <1>1, <1>3
<1> QED
  BY <1>2, <1>4 DEF Onward

\* Every step of a call goes onward.
LEMMA StepOnward ==
  ASSUME DeviceInv, NEW c \in Callers,
         CallStep(c) \/ Refuse(c) \/ AdapterFails(c) \/ Panic(c)
  PROVE  Onward(c)
<1>1. call[c] \in Call /\ CallSound(call[c]) /\ call \in [Callers -> Call]
  BY CallFields DEF DeviceInv, DeviceTypeOK
<1>2. CASE TurnedAway(c) \/ Expire(c) \/ AdapterFails(c)
  <2>1. PICK r \in {"error", "rejected", "timeout"} : Returns(c, r)
    BY <1>2 DEF TurnedAway, Expire, AdapterFails, Drops
  <2>2. call[c].pc # "idle"
    BY <1>2 DEF TurnedAway, Expire, AdapterFails, InSession
  <2> QED
    BY <2>1, <2>2, ReturnsOnward
<1>3. CASE Enter(c)
  <2> DEFINE k == [call[c] EXCEPT !.pc = "observe", !.limit = Limit(c)]
  <2>1. Limit(c) \in 0..Never
    BY <1>1, DeviceParameters DEF Limit, DeviceInv, DeviceTypeOK, Call, Never
  <2>2. /\ k \in Call /\ k.kind = call[c].kind /\ k.pc = "observe"
        /\ k.expires = call[c].expires /\ k.sent = call[c].sent
        /\ k.result = call[c].result
    BY <1>1, <2>1 DEF Call
  <2>3. call[c].pc = "lock" /\ call[c].result = "none"
    BY <1>1, <1>3 DEF Enter, CallSound
  <2>4. Ask(c, k) \/ Returns(c, "error")
    BY <1>3 DEF Enter, Drops
  <2> HIDE DEF k
  <2> QED
    BY <2>2, <2>3, <2>4, AsksOnward, ReturnsOnward
<1>4. CASE Observed(c) \/ Operated(c)
  <2>1. InSession(c) /\ owner = c /\ wire = "answered"
    BY <1>4 DEF Observed, Operated, InSession
  <2>2. \/ Returns(c, "rejected") \/ Returns(c, "error")
        \/ /\ Returns(c, "receipt")
           /\ call[c].kind = "inspect" \/ call[c].pc = "operate"
        \/ call[c].sent < Commands /\ Ask(c, Command(c))
    BY <1>1, <1>4, DeviceParameters
       DEF Observed, Operated, Published, Keeps, Drops, CallSound
  <2>3. ASSUME call[c].sent < Commands
        PROVE  /\ Command(c) \in Call /\ Command(c).pc = "operate"
               /\ Command(c).result = "none"
               /\ Command(c).kind = call[c].kind
               /\ Command(c).expires = call[c].expires
    <3>1. Command(c) \in Call /\ Command(c).result = "none"
      <4>1. call[c].result = "none"
        BY <1>1, <2>1 DEF CallSound, InSession
      <4>2. Command(c) \in Call
        BY <2>1, <2>3, Commanding
      <4>3. Command(c).result = call[c].result
        BY <1>1 DEF Command, Call
      <4> QED
        BY <4>1, <4>2, <4>3
    <3>2. /\ Command(c).pc = "operate" /\ Command(c).kind = call[c].kind
          /\ Command(c).expires = call[c].expires
      BY <1>1 DEF Command, Call
    <3> QED
      BY <3>1, <3>2
  <2>4. call[c].pc # "idle"
    BY <2>1 DEF InSession
  <2> QED
    BY <2>1, <2>2, <2>3, <2>4, AsksOnward, ReturnsOnward
<1>5. CASE Refuse(c)
  <2> DEFINE k == [call[c] EXCEPT !.pc = "idle", !.result = "rejected"]
  <2>1. /\ k.pc = "idle" /\ k.result = "rejected" /\ k.kind = call[c].kind
        /\ k.expires = call[c].expires /\ k.sent = call[c].sent
    BY <1>1 DEF Call
  <2>2. call' = [call EXCEPT ![c] = k] /\ owner' = owner /\ wire' = wire
    BY <1>1, <1>5 DEF Refuse, Call, link
  <2> HIDE DEF k
  <2>3. call'[c] = k /\ \A d \in Callers : d # c => call'[d] = call[d]
    BY <1>1, <2>2
  <2>4. call[c].pc # "idle"
    BY <1>5 DEF Refuse
  <2> QED
    BY <2>1, <2>2, <2>3, <2>4 DEF Onward
<1>6. CASE Panic(c)
  <2> DEFINE k == [call[c] EXCEPT !.pc = "idle"]
  <2>1. /\ k.pc = "idle" /\ k.result = call[c].result
        /\ k.kind = call[c].kind
        /\ k.expires = call[c].expires /\ k.sent = call[c].sent
    BY <1>1 DEF Call
  <2>2. call' = [call EXCEPT ![c] = k] /\ owner' = Nobody
    BY <1>1, <1>6 DEF Panic, Call
  <2> HIDE DEF k
  <2>3. call'[c] = k /\ \A d \in Callers : d # c => call'[d] = call[d]
    BY <1>1, <2>2
  <2>4. call[c].pc # "idle" /\ call[c].result = "none"
    BY <1>1, <1>6 DEF Panic, InSession, CallSound
  <2> QED
    BY <2>1, <2>2, <2>3, <2>4 DEF Onward
<1> QED
  BY <1>2, <1>3, <1>4, <1>5, <1>6 DEF CallStep

-----------------------------------------------------------------------------
(* What a step of a call does to the run *)

Row == [state : State, good : BOOLEAN, at : Nat]

\* The receipt of a call that ends is that of the step it drove.
LEMMA RecordedRow ==
  ASSUME DeviceInv, DeviceInv', RunInv, NEW c \in Callers, Onward(c),
         job[c] # 0, Records(c)
  PROVE  \E row \in Row :
           /\ attempt' = [attempt EXCEPT ![job[c]] = row]
           /\ row.state # "none"
           /\ row.state = "completed" => call'[c].result = "receipt"
<1>1. /\ job[c] \in Step /\ attempt[job[c]] \in Row
      /\ attempt \in [Step -> Row]
  BY DEF RunInv, RunTypeOK, Row
<1>2. PICK state \in Outcomes(c) :
        attempt' = [attempt EXCEPT ![job[c]] =
          IF case.plan[job[c]] \in Sensing /\ call'[c].result = "receipt"
          THEN [state |-> state, good |-> sample, at |-> now]
          ELSE [@ EXCEPT !.state = state]]
  BY DEF Records
<1>3. call'[c].result \in {"none", "receipt", "rejected", "error", "timeout"}
  BY DEF DeviceInv, DeviceTypeOK, Call
<1>4. \/ call[c].kind = "execute" /\ attempt[job[c]].state = "dispatched"
      \/ call[c].kind = "reconcile" /\ attempt[job[c]].state = "unknown"
  BY DEF RunInv, JobsSound
<1>5. /\ state \in State /\ state # "none"
      /\ state = "completed" => call'[c].result = "receipt"
  BY <1>2, <1>3, <1>4 DEF Outcomes, State
<1> DEFINE seen == [state |-> state, good |-> sample, at |-> now]
           kept == [attempt[job[c]] EXCEPT !.state = state]
<1>6. seen \in Row /\ kept \in Row
  BY <1>1, <1>5, DeviceParameters
     DEF Row, RunInv, RunTypeOK, DeviceInv, DeviceTypeOK
<1>7. seen.state = state /\ kept.state = state
  BY <1>1 DEF Row
<1>8. \/ attempt' = [attempt EXCEPT ![job[c]] = seen]
      \/ attempt' = [attempt EXCEPT ![job[c]] = kept]
  BY <1>1, <1>2
<1> HIDE DEF seen, kept
<1> QED
  BY <1>5, <1>6, <1>7, <1>8

\* The two ways in which a step of a call leaves the rows: as they are, with
\* the call under way, or with the row of its step settled.
Goes(c) ==
  /\ attempt' = attempt /\ job' = job
  /\ job[c] # 0 => call'[c].pc # "idle"

Settles(c) ==
  /\ job[c] # 0 /\ call'[c].pc = "idle"
  /\ job' = [job EXCEPT ![c] = 0]
  /\ \E row \in Row :
       /\ attempt' = [attempt EXCEPT ![job[c]] = row]
       /\ row.state # "none"
       /\ row.state = "completed" => call'[c].result = "receipt"

\* What was quiet stays so unless the step commands an effect.
Spoils(c) ==
  /\ quiet' = {}
  /\ job[c] # 0 /\ Effectful(job[c]) /\ call'[c].sent # call[c].sent

\* Follow does one of these to the rows, and quiet steps stay or are spoilt.
LEMMA FollowShape ==
  ASSUME DeviceInv, DeviceInv', RunInv, NEW c \in Callers, Onward(c), Follow(c)
  PROVE  /\ case' = case
         /\ sample' \in BOOLEAN
         /\ Goes(c) \/ Settles(c)
         /\ quiet' = quiet \/ Spoils(c)
<1>1. case' = case
  BY DEF Follow
<1>2. sample' \in BOOLEAN
  BY DEF Follow, RunInv, RunTypeOK
<1>3. Goes(c) \/ Settles(c)
  <2>1. CASE Ended(c) /\ job[c] # 0
    <3>1. Records(c)
      BY <2>1 DEF Follow
    <3> QED
      BY <2>1, <3>1, RecordedRow DEF Ended, Settles, Records
  <2>2. CASE ~(Ended(c) /\ job[c] # 0)
    BY <2>2 DEF Follow, Goes, Ended, Onward
  <2> QED
    BY <2>1, <2>2
<1>4. quiet' = quiet \/ Spoils(c)
  <2>1. call[c].sent \in Nat /\ call'[c].sent \in Nat
    BY DeviceParameters DEF DeviceInv, DeviceTypeOK, Call
  <2>2. Commanded(c) # {} => job[c] # 0 /\ Effectful(job[c])
    BY DEF Commanded, Effectful
  <2>3. CASE call'[c].sent > call[c].sent /\ Commanded(c) # {}
    BY <2>1, <2>2, <2>3 DEF Follow, Spoils
  <2>4. CASE ~(call'[c].sent > call[c].sent /\ Commanded(c) # {})
    BY <2>4 DEF Follow
  <2> QED
    BY <2>3, <2>4
<1> QED
  BY <1>1, <1>2, <1>3, <1>4

\* A step of a call preserves each part of the invariant.
LEMMA FollowKeeps ==
  ASSUME DeviceInv, DeviceInv', RunInv, NEW c \in Callers, Onward(c), Follow(c)
  PROVE  RunInv'
<1>1. /\ case' = case /\ sample' \in BOOLEAN
      /\ Goes(c) \/ Settles(c)
      /\ quiet' = quiet \/ Spoils(c)
  BY FollowShape
<1>2. /\ Step' = Step
      /\ RefusesConfiguration' = RefusesConfiguration
      /\ \A k : Effectful(k)' = Effectful(k)
      /\ \A k : LocksOf(k)' = LocksOf(k)
  BY <1>1 DEF Step, RefusesConfiguration, Effectful, LocksOf, GatesStep
<1>3. /\ attempt \in [Step -> Row] /\ job \in [Callers -> Step \cup {0}]
      /\ quiet \subseteq Step /\ case \in Cases /\ sample \in BOOLEAN
  BY DEF RunInv, RunTypeOK, Row
<1>4. \A d \in Callers : job[d] # 0 =>
        /\ job[d] \in Step /\ call[d].pc # "idle"
        /\ \A b \in Callers : job[b] # 0 => b = d
        /\ attempt[job[d]].state \in {"dispatched", "unknown"}
        /\ \A j \in Step : j > job[d] => attempt[j].state = "none"
  <2> SUFFICES ASSUME NEW d \in Callers, job[d] # 0
               PROVE  /\ job[d] \in Step /\ call[d].pc # "idle"
                      /\ \A b \in Callers : job[b] # 0 => b = d
                      /\ attempt[job[d]].state \in {"dispatched", "unknown"}
                      /\ \A j \in Step :
                           j > job[d] => attempt[j].state = "none"
    OBVIOUS
  <2>1. /\ job[d] \in Step /\ call[d].pc # "idle"
        /\ \A b \in Callers : job[b] # 0 => b = d
        /\ attempt[job[d]].state \in {"dispatched", "unknown"}
    BY <1>3 DEF RunInv, JobsSound
  <2>2. ASSUME NEW j \in Step, j > job[d] PROVE attempt[j].state = "none"
    <3>1. job[d] \in 1..(j - 1)
      BY <2>1, <2>2, InterlockParameters, <1>3 DEF Step
    <3> QED
      BY <2>1, <3>1 DEF RunInv, StepsOrdered
  <2> QED
    BY <2>1, <2>2
<1>5. RunTypeOK'
  BY <1>1, <1>2, <1>3 DEF RunTypeOK, Goes, Settles, Spoils, Row
<1>6. JobsSound'
  <2> SUFFICES ASSUME NEW d \in Callers, job'[d] # 0
               PROVE  /\ call'[d].pc # "idle"
                      /\ \A b \in Callers : job'[b] # 0 => b = d
                      /\ \/ /\ call'[d].kind = "execute"
                            /\ attempt'[job'[d]].state = "dispatched"
                         \/ /\ call'[d].kind = "reconcile"
                            /\ ~RefusesConfiguration'
                            /\ attempt'[job'[d]].state = "unknown"
    BY DEF JobsSound
  <2>1. Goes(c)
    BY <1>1, <1>3, <1>4 DEF Settles
  <2>2. job[d] # 0 /\ attempt'[job'[d]] = attempt[job[d]] /\ job' = job
    BY <2>1 DEF Goes
  <2>3. call'[d].pc # "idle" /\ call'[d].kind = call[d].kind
    BY <1>4, <2>1, <2>2 DEF Goes, Onward
  <2> QED
    BY <1>2, <1>4, <2>2, <2>3 DEF RunInv, JobsSound
<1>7. StepsOrdered'
  <2>1. CASE Goes(c)
    BY <1>2, <2>1 DEF Goes, RunInv, StepsOrdered
  <2>2. CASE Settles(c)
    <3>1. PICK row \in Row : attempt' = [attempt EXCEPT ![job[c]] = row]
      BY <2>2 DEF Settles
    <3>2. job[c] \in Step
      BY <1>4, <2>2 DEF Settles
    <3> SUFFICES ASSUME NEW j \in Step, attempt'[j].state # "none",
                        NEW i \in 1..(j - 1)
                 PROVE  attempt'[i].state = "completed"
      BY <1>2 DEF StepsOrdered
    <3>3. attempt[j].state # "none"
      BY <1>3, <1>4, <2>2, <3>1, <3>2 DEF Settles
    <3>4. attempt[i].state = "completed"
      BY <3>3 DEF RunInv, StepsOrdered
    <3>5. i \in Step
      BY <1>3, InterlockParameters DEF Step
    <3>6. i # job[c]
      BY <1>4, <2>2, <3>4 DEF Settles
    <3> QED
      BY <1>3, <3>1, <3>4, <3>5, <3>6
  <2> QED
    BY <1>1, <2>1, <2>2
<1>8. QuietSound'
  <2>1. ASSUME NEW i \in Step, case.plan[i] \in Sensing,
               attempt'[i].state = "completed",
               \A j \in (i + 1)..Len(case.plan) :
                 Effectful(j) => attempt'[j].state = "none"
        PROVE  i \in quiet'
    <3>1. \A j \in (i + 1)..Len(case.plan) :
            Effectful(j) => attempt[j].state = "none"
      <4>1. \A j \in Step :
              attempt[j].state # "none" => attempt'[j].state # "none"
        BY <1>1, <1>3, <1>4 DEF Goes, Settles
      <4>2. \A j \in (i + 1)..Len(case.plan) : j \in Step
        BY <1>3, InterlockParameters DEF Step
      <4> QED
        BY <2>1, <4>1, <4>2
    <3>2. CASE attempt[i].state = "completed"
      <4>1. i \in quiet
        BY <2>1, <3>1, <3>2 DEF RunInv, QuietSound
      <4>2. ~Spoils(c)
        <5> SUFFICES ASSUME Spoils(c) PROVE FALSE
          OBVIOUS
        <5>1. /\ job[c] \in Step /\ Effectful(job[c])
              /\ attempt[job[c]].state \in {"dispatched", "unknown"}
          BY <1>4 DEF Spoils
        <5>2. ~(job[c] < i)
          BY <1>4, <3>2, <5>1 DEF Spoils
        <5>3. job[c] # i
          BY <3>2, <5>1
        <5>4. job[c] \in (i + 1)..Len(case.plan)
          BY <1>3, <5>1, <5>2, <5>3, InterlockParameters DEF Step
        <5> QED
          BY <3>1, <5>1, <5>4
      <4> QED
        BY <1>1, <4>1, <4>2
    <3>3. CASE attempt[i].state # "completed"
      <4>1. Settles(c)
        BY <1>1, <2>1, <3>3 DEF Goes
      <4>2. /\ job[c] = i
            /\ call'[c].result = "receipt"
        BY <1>3, <1>4, <2>1, <3>3, <4>1 DEF Settles
      <4>3. call[c].kind # "inspect"
        BY <4>1 DEF Settles, RunInv, JobsSound
      <4>4. i \in quiet
        BY <2>1, <4>1, <4>2, <4>3 DEF Onward, Settles, RunInv, QuietSound
      <4>5. ~Spoils(c)
        BY <4>2, <4>3 DEF Onward, Spoils
      <4> QED
        BY <1>1, <4>4, <4>5
    <3> QED
      BY <3>2, <3>3
  <2>2. ASSUME NEW d \in Callers, call'[d].pc = "operate", owner' = d,
               wire' = "answered", job'[d] # 0,
               case.plan[job'[d]] \in Sensing
        PROVE  job'[d] \in quiet'
    <3>1. d # c
      BY <2>2 DEF Onward
    <3>2. /\ owner = d /\ wire = "answered" /\ call[d].pc = "operate"
      BY <2>2, <3>1, DeviceParameters DEF Onward
    <3>3. job'[d] = job[d]
      BY <1>1, <1>3, <3>1 DEF Goes, Settles
    <3>4. ~Spoils(c)
      BY <1>4, <2>2, <3>1, <3>3 DEF Spoils
    <3> QED
      BY <1>1, <2>2, <3>2, <3>3, <3>4 DEF RunInv, QuietSound
  <2> QED
    BY <1>1, <1>2, <2>1, <2>2 DEF QuietSound
<1>9. SupportedUntilSent'
  <2> SUFFICES ASSUME NEW d \in Callers, job'[d] # 0,
                      call'[d].kind = "execute",
                      call'[d].pc \in {"lock", "observe"},
                      NEW lock \in LocksOf(job'[d])
               PROVE  \E i \in Step : Supports(i, lock, call[d].expires)'
    BY <1>2 DEF SupportedUntilSent
  <2>1. Goes(c)
    BY <1>1, <1>3, <1>4 DEF Settles
  <2>2. job' = job /\ attempt' = attempt /\ job[d] # 0
    BY <2>1 DEF Goes
  <2>3. /\ call[d].kind = "execute" /\ call[d].pc \in {"lock", "observe"}
        /\ call'[d].expires = call[d].expires
    BY DEF Onward
  <2>4. quiet' = quiet
    <3>1. ~Spoils(c)
      BY <1>4, <2>2 DEF Spoils, Onward
    <3> QED
      BY <1>1, <3>1
  <2>5. PICK i \in Step : Supports(i, lock, call[d].expires)
    BY <2>2, <2>3 DEF RunInv, SupportedUntilSent
  <2> QED
    BY <1>1, <2>2, <2>3, <2>4, <2>5 DEF Supports
<1> QED
  BY <1>5, <1>6, <1>7, <1>8, <1>9 DEF RunInv

-----------------------------------------------------------------------------
(* Witnesses *)

\* A set of natural numbers that is not empty has a least element.
LEMMA LeastNumber ==
  ASSUME NEW S, S \subseteq Nat, S # {}
  PROVE  \E m \in S : \A n \in S : m <= n
<1> DEFINE R == {p \in Nat \X Nat : p[1] < p[2]}
<1>1. R = OpToRel(<, Nat)
  BY DEF OpToRel
<1>2. IsWellFoundedOn(R, Nat)
  BY <1>1, NatLessThanWellFounded
<1>3. \A m, n \in Nat : n < m => <<n, m>> \in R
  OBVIOUS
<1> HIDE DEF R
<1>4. PICK m \in S : \A n \in S : ~(<<n, m>> \in R)
  BY <1>2, WFMin
<1>5. \A n \in S : ~(n < m)
  BY <1>3, <1>4
<1>6. \A a, b \in Nat : ~(a < b) => b <= a
  OBVIOUS
<1> QED
  BY <1>5, <1>6

\* The newest of the steps before another one is among them.
LEMMA NewestIsOne ==
  ASSUME NEW k \in Nat, NEW S, S \subseteq 1..(k - 1), S # {}
  PROVE  Newest(S) \in S
<1> DEFINE T == {k - i : i \in S}
<1>1. T \subseteq Nat /\ T # {}
  OBVIOUS
<1>2. PICK m \in T : \A n \in T : m <= n
  BY <1>1, LeastNumber
<1>3. PICK i \in S : m = k - i
  BY <1>2
<1>4. \A j \in S : j <= i
  BY <1>2, <1>3
<1>5. \E s \in S : \A j \in S : j <= s
  BY <1>4
<1> QED
  BY <1>5 DEF Newest

\* The witness that vouches for a step that is reserved next is quiet, and the
\* expiry that is passed on is within its age.
LEMMA PermittedIsSupported ==
  ASSUME DeviceInv, RunInv, NEW k \in Step, NEW c \in Callers,
         NextStep(k), Permitted(k)
  PROVE  \A lock \in LocksOf(k) : \E i \in Step :
           i # k /\ Supports(i, lock, Expiry(k))
<1>1. /\ attempt \in [Step -> Row] /\ case \in Cases /\ k \in Nat
  BY InterlockParameters DEF RunInv, RunTypeOK, Row, Step
<1> DEFINE witness(lock) == Newest(Witnesses(lock, k))
           ends == {attempt[witness(lock)].at + lock.age :
                      lock \in LocksOf(k)}
<1>2. \A lock \in LocksOf(k) :
        /\ witness(lock) \in Step /\ witness(lock) # k
        /\ witness(lock) \in Witnesses(lock, k)
        /\ lock.age \in Nat /\ lock.observation \in Sensing
        /\ attempt[witness(lock)].state = "completed"
        /\ attempt[witness(lock)].good
  <2> SUFFICES ASSUME NEW lock \in LocksOf(k)
               PROVE  /\ witness(lock) \in Step /\ witness(lock) # k
                      /\ witness(lock) \in Witnesses(lock, k)
                      /\ lock.age \in Nat /\ lock.observation \in Sensing
                      /\ attempt[witness(lock)].state = "completed"
                      /\ attempt[witness(lock)].good
    OBVIOUS
  <2>1. Vouches(lock, k)
    BY DEF Permitted
  <2>2. witness(lock) \in Witnesses(lock, k)
    <3>1. Witnesses(lock, k) \subseteq 1..(k - 1) /\ Witnesses(lock, k) # {}
      BY <2>1 DEF Witnesses, Vouches
    <3> HIDE DEF witness
    <3> QED
      BY <1>1, <3>1, NewestIsOne DEF witness
  <2>3. lock.age \in Nat /\ lock.observation \in Sensing
    BY <1>1, InterlockParameters, DeviceParameters DEF LocksOf, LiveInterlock
  <2>4. witness(lock) \in 1..(k - 1)
    BY <2>2 DEF Witnesses
  <2>5. witness(lock) \in Step /\ witness(lock) # k
    <3> HIDE DEF witness
    <3> QED
      BY <1>1, <2>4, InterlockParameters DEF Step
  <2> QED
    BY <2>1, <2>2, <2>3, <2>5 DEF Vouches
<1>3. \A lock \in LocksOf(k) : witness(lock) \in quiet
  <2> SUFFICES ASSUME NEW lock \in LocksOf(k) PROVE witness(lock) \in quiet
    OBVIOUS
  <2> DEFINE i == witness(lock)
  <2>1. /\ i \in Step /\ case.plan[i] = lock.observation
        /\ \A j \in (i + 1)..(k - 1) : ~Effectful(j)
    BY <1>2 DEF Witnesses
  <2>2. lock.observation \in Sensing /\ attempt[i].state = "completed"
    BY <1>2
  <2> HIDE DEF i
  <2>3. ASSUME NEW j \in (i + 1)..Len(case.plan), Effectful(j)
        PROVE  attempt[j].state = "none"
    <3>1. j \in Step /\ j \in Nat /\ i \in Nat
      BY <1>1, <2>1, InterlockParameters DEF Step
    <3>2. ~(j < k)
      BY <1>1, <2>1, <2>3, <3>1
    <3>3. CASE j = k
      BY <3>3 DEF NextStep
    <3>4. CASE j # k
      <4>1. k \in 1..(j - 1)
        BY <1>1, <3>1, <3>2, <3>4 DEF Step
      <4> QED
        BY <3>1, <4>1 DEF NextStep, RunInv, StepsOrdered
    <3> QED
      BY <3>3, <3>4
  <2>4. i \in quiet
    BY <2>1, <2>2, <2>3 DEF RunInv, QuietSound
  <2> QED
    BY <2>4 DEF i
<1>4. \A lock \in LocksOf(k) :
        Expiry(k) <= attempt[witness(lock)].at + lock.age
  <2>1. ends \subseteq Nat
    <3>1. \A s \in Step : attempt[s].at \in Nat
      BY <1>1 DEF Row
    <3> HIDE DEF witness
    <3> QED
      BY <1>2, <3>1
  <2>2. Expiry(k) = IF ends = {} THEN Never
                    ELSE CHOOSE t \in ends : \A u \in ends : t <= u
    BY DEF Expiry
  <2>3. \A lock \in LocksOf(k) : attempt[witness(lock)].at + lock.age \in ends
    OBVIOUS
  <2> HIDE DEF ends, witness
  <2>4. ends # {} => Expiry(k) \in ends /\ \A u \in ends : Expiry(k) <= u
    BY <2>1, <2>2, LeastNumber
  <2> QED
    BY <2>3, <2>4
<1>5. \A lock \in LocksOf(k) : case.plan[witness(lock)] = lock.observation
  BY <1>2 DEF Witnesses
<1> HIDE DEF witness
<1> QED
  BY <1>2, <1>3, <1>4, <1>5 DEF Supports

-----------------------------------------------------------------------------
(* The supervisor's calls, and the invariant *)

\* No attempt is made yet.
LEMMA InitRun == InterlockInit => RunInv
<1> SUFFICES ASSUME InterlockInit PROVE RunInv
  OBVIOUS
<1>1. /\ case \in Cases /\ sample = FALSE /\ quiet = {}
      /\ attempt = [k \in Step |-> [state |-> "none", good |-> FALSE, at |-> 0]]
      /\ job = [c \in Callers |-> 0]
  BY DEF InterlockInit
<1>2. /\ \A k \in Step : attempt[k].state = "none"
      /\ \A c \in Callers : job[c] = 0
  BY <1>1
<1>3. RunTypeOK
  BY <1>1 DEF RunTypeOK, State
<1>4. JobsSound /\ StepsOrdered /\ SupportedUntilSent
  BY <1>2 DEF JobsSound, StepsOrdered, SupportedUntilSent
<1>5. QuietSound
  BY <1>2 DEF QuietSound
<1> QED
  BY <1>3, <1>4, <1>5 DEF RunInv

\* What a step leaves alone when it reserves a row: the case and what is quiet;
\* the row had no state, and has one that is not completed.
Reserves(k) ==
  /\ NextStep(k)
  /\ case' = case /\ quiet' = quiet /\ sample' = sample
  /\ \E state \in {"rejected", "dispatched"} :
       attempt' = [attempt EXCEPT ![k].state = state]

\* Reserving the next step keeps the rows in order and what is known quiet.
LEMMA ReservesKeeps ==
  ASSUME DeviceInv, RunInv, NEW k \in Step, Reserves(k),
         job' \in [Callers -> Step \cup {0}],
         \A c \in Callers : call'[c].pc = "operate" => job'[c] = 0
  PROVE  RunTypeOK' /\ StepsOrdered' /\ QuietSound'
<1>1. /\ attempt \in [Step -> Row] /\ case \in Cases
      /\ attempt[k].state = "none"
  BY DEF RunInv, RunTypeOK, Row, Reserves, NextStep
<1>2. PICK state \in {"rejected", "dispatched"} :
        attempt' = [attempt EXCEPT ![k].state = state]
  BY DEF Reserves
<1> DEFINE row == [attempt[k] EXCEPT !.state = state]
<1>3. row \in Row /\ row.state = state
  BY <1>1 DEF Row, State
<1>4. attempt' = [attempt EXCEPT ![k] = row]
  BY <1>1, <1>2
<1> HIDE DEF row
<1>5. Step' = Step
  BY DEF Step, Reserves
<1>6. RunTypeOK'
  BY <1>1, <1>3, <1>4, <1>5 DEF Reserves, RunInv, RunTypeOK, Row
<1>7. StepsOrdered'
  <2> SUFFICES ASSUME NEW j \in Step, attempt'[j].state # "none",
                      NEW i \in 1..(j - 1)
               PROVE  attempt'[i].state = "completed"
    BY <1>5 DEF StepsOrdered
  <2>1. i \in Step
    BY <1>1, InterlockParameters DEF Step
  <2>2. attempt[i].state = "completed"
    <3>1. CASE j # k
      BY <1>1, <1>4, <3>1 DEF RunInv, StepsOrdered
    <3>2. CASE j = k
      <4>1. k > 1 /\ attempt[k - 1].state = "completed" /\ k - 1 \in Step
        BY <1>1, <3>2, InterlockParameters DEF Reserves, NextStep, Step
      <4>2. i = k - 1 \/ i \in 1..((k - 1) - 1)
        BY <3>2, <1>1, InterlockParameters DEF Step
      <4> QED
        BY <4>1, <4>2 DEF RunInv, StepsOrdered
    <3> QED
      BY <3>1, <3>2
  <2> QED
    BY <1>1, <1>4, <2>1, <2>2
<1>8. QuietSound'
  <2>1. ASSUME NEW i \in Step, case.plan[i] \in Sensing,
               attempt'[i].state = "completed",
               \A j \in (i + 1)..Len(case.plan) :
                 Effectful(j) => attempt'[j].state = "none"
        PROVE  i \in quiet
    <3>1. attempt[i].state = "completed"
      BY <1>1, <1>3, <1>4, <2>1
    <3>2. ASSUME NEW j \in (i + 1)..Len(case.plan), Effectful(j)
          PROVE  attempt[j].state = "none"
      <4>1. j \in Step
        BY <1>1, InterlockParameters DEF Step
      <4> QED
        BY <1>1, <1>4, <2>1, <3>2, <4>1
    <3> QED
      BY <2>1, <3>1, <3>2 DEF RunInv, QuietSound
  <2>2. quiet' = quiet /\ case' = case
    BY DEF Reserves
  <2>3. \A j : Effectful(j)' = Effectful(j)
    BY <2>2 DEF Effectful
  <2> QED
    BY <1>5, <2>1, <2>2, <2>3 DEF QuietSound
<1> QED
  BY <1>6, <1>7, <1>8

\* A call that begins is the only thing that begins.
LEMMA Begins ==
  ASSUME DeviceInv, NEW c \in Callers, NEW kind, NEW expires,
         Begin(c, kind, expires)
  PROVE  /\ call[c].pc = "idle"
         /\ \A d \in Callers : d # c => call'[d] = call[d]
         /\ call'[c].pc = "lock" /\ call'[c].kind = kind
         /\ call'[c].expires = expires
         /\ owner' = owner /\ wire' = wire
BY DEF Begin, link, DeviceInv, DeviceTypeOK

\* Denying a step preserves the invariant.
LEMMA DenyKeeps ==
  ASSUME DeviceInv, RunInv, NEW k \in Step, Deny(k)
  PROVE  RunInv'
<1>1. /\ Reserves(k) /\ job' = job /\ call' = call
      /\ \A c \in Callers : job[c] = 0
  BY DEF Deny, Reserves, NextStep, vars
<1>2. RunTypeOK' /\ StepsOrdered' /\ QuietSound'
  BY <1>1, ReservesKeeps DEF RunInv, RunTypeOK
<1>3. JobsSound' /\ SupportedUntilSent'
  BY <1>1 DEF JobsSound, SupportedUntilSent
<1> QED
  BY <1>2, <1>3 DEF RunInv

\* An execution begins supported.
LEMMA ExecuteKeeps ==
  ASSUME DeviceInv, RunInv, NEW c \in Callers, NEW k \in Step, Execute(c, k)
  PROVE  RunInv'
<1>1. /\ Reserves(k) /\ job' = [job EXCEPT ![c] = k]
      /\ attempt' = [attempt EXCEPT ![k].state = "dispatched"]
      /\ \A d \in Callers : job[d] = 0
      /\ job \in [Callers -> Step \cup {0}]
      /\ attempt \in [Step -> Row]
      /\ Begin(c, "execute", Expiry(k))
  BY DEF Execute, Reserves, NextStep, RunInv, RunTypeOK, Row
<1>2. /\ call'[c].pc = "lock" /\ call'[c].kind = "execute"
      /\ call'[c].expires = Expiry(k)
  BY <1>1, Begins
<1>3. /\ job'[c] = k /\ \A d \in Callers : d # c => job'[d] = 0
      /\ k # 0 /\ attempt'[k].state = "dispatched"
  BY <1>1, InterlockParameters DEF Row, Step
<1>4. RunTypeOK' /\ StepsOrdered' /\ QuietSound'
  BY <1>1, <1>2, <1>3, ReservesKeeps
<1>5. JobsSound'
  BY <1>2, <1>3 DEF JobsSound
<1>6. SupportedUntilSent'
  <2> SUFFICES ASSUME NEW lock \in LocksOf(k)
               PROVE  \E i \in Step :
                        /\ i \in quiet'
                        /\ case.plan[i] = lock.observation
                        /\ attempt'[i].state = "completed"
                        /\ attempt'[i].good
                        /\ call'[c].expires <= attempt'[i].at + lock.age
    BY <1>1, <1>3 DEF SupportedUntilSent, Supports, Reserves, LocksOf,
       GatesStep, Step
  <2>1. PICK i \in Step : i # k /\ Supports(i, lock, Expiry(k))
    BY PermittedIsSupported DEF Execute
  <2>2. attempt'[i] = attempt[i] /\ quiet' = quiet
    BY <1>1, <2>1 DEF Reserves
  <2> QED
    BY <1>2, <2>1, <2>2 DEF Supports
<1> QED
  BY <1>4, <1>5, <1>6 DEF RunInv

\* A reconciliation begins only where no interlock gates what it repeats.
LEMMA ReconcileKeeps ==
  ASSUME DeviceInv, RunInv, NEW c \in Callers, NEW k \in Step, Reconcile(c, k)
  PROVE  RunInv'
<1>1. /\ case' = case /\ quiet' = quiet /\ sample' = sample
      /\ job' = [job EXCEPT ![c] = k]
      /\ attempt[k].state \in Unresolved
      /\ \A d \in Callers : job[d] = 0
      /\ job \in [Callers -> Step \cup {0}] /\ case \in Cases
      /\ attempt \in [Step -> Row]
      /\ ~RefusesConfiguration /\ Begin(c, "reconcile", Never)
  BY DEF Reconcile, RunInv, RunTypeOK, Row
<1> DEFINE row == [attempt[k] EXCEPT !.state = "unknown"]
<1>2. row \in Row /\ row.state = "unknown" /\ attempt' = [attempt EXCEPT ![k] = row]
  BY <1>1 DEF Reconcile, Row, State
<1> HIDE DEF row
<1>3. /\ call'[c].pc = "lock" /\ call'[c].kind = "reconcile"
      /\ job'[c] = k /\ \A d \in Callers : d # c => job'[d] = 0
      /\ k # 0 /\ attempt'[k].state = "unknown"
      /\ \A d \in Callers : d # c => call'[d] = call[d]
  BY <1>1, <1>2, Begins, InterlockParameters DEF Step
<1>4. /\ Step' = Step /\ RefusesConfiguration' = RefusesConfiguration
      /\ \A j : Effectful(j)' = Effectful(j)
  BY <1>1 DEF Step, RefusesConfiguration, Effectful
<1>5. RunTypeOK'
  BY <1>1, <1>2, <1>4 DEF RunInv, RunTypeOK, Row
<1>6. JobsSound'
  BY <1>1, <1>3, <1>4 DEF JobsSound
<1>7. \A j \in Step : attempt'[j].state = attempt[j].state \/ j = k
  BY <1>1, <1>2
<1>8. StepsOrdered'
  <2> SUFFICES ASSUME NEW j \in Step, attempt'[j].state # "none",
                      NEW i \in 1..(j - 1)
               PROVE  attempt'[i].state = "completed"
    BY <1>4 DEF StepsOrdered
  <2>1. i \in Step
    BY <1>1, InterlockParameters DEF Step
  <2>2. attempt[j].state # "none"
    BY <1>1, <1>7 DEF Unresolved
  <2>3. attempt[i].state = "completed"
    BY <2>2 DEF RunInv, StepsOrdered
  <2> QED
    BY <1>1, <1>7, <2>1, <2>3 DEF Unresolved
<1>9. QuietSound'
  <2>1. ASSUME NEW i \in Step, case.plan[i] \in Sensing,
               attempt'[i].state = "completed",
               \A j \in (i + 1)..Len(case.plan) :
                 Effectful(j) => attempt'[j].state = "none"
        PROVE  i \in quiet
    <3>1. attempt[i].state = "completed"
      BY <1>3, <1>7, <2>1
    <3>2. ASSUME NEW j \in (i + 1)..Len(case.plan), Effectful(j)
          PROVE  attempt[j].state = "none"
      <4>1. j \in Step
        BY <1>1, InterlockParameters DEF Step
      <4> QED
        BY <1>3, <1>7, <2>1, <3>2, <4>1
    <3> QED
      BY <2>1, <3>1, <3>2 DEF RunInv, QuietSound
  <2>2. \A d \in Callers : call'[d].pc = "operate" => job'[d] = 0
    BY <1>3
  <2> QED
    BY <1>1, <1>4, <2>1, <2>2 DEF QuietSound
<1>10. SupportedUntilSent'
  BY <1>3 DEF SupportedUntilSent
<1> QED
  BY <1>5, <1>6, <1>8, <1>9, <1>10 DEF RunInv

\* An inspection drives no step.
LEMMA InspectKeeps ==
  ASSUME DeviceInv, RunInv, NEW c \in Callers, Inspect(c)
  PROVE  RunInv'
<1>1. /\ case' = case /\ attempt' = attempt /\ job' = job
      /\ sample' = sample /\ quiet' = quiet
      /\ owner' = owner /\ wire' = wire
      /\ call[c].pc = "idle"
      /\ \A d \in Callers : d # c => call'[d] = call[d]
  BY Begins DEF Inspect, run
<1>2. job[c] = 0
  BY <1>1 DEF RunInv, JobsSound
<1>3. /\ Step' = Step /\ RefusesConfiguration' = RefusesConfiguration
      /\ \A k : Effectful(k)' = Effectful(k)
  BY <1>1 DEF Step, RefusesConfiguration, Effectful
<1>4. RunTypeOK' /\ StepsOrdered'
  BY <1>1, <1>3 DEF RunInv, RunTypeOK, StepsOrdered
<1>5. JobsSound'
  BY <1>1, <1>2, <1>3 DEF RunInv, JobsSound
<1>6. QuietSound'
  BY <1>1, <1>2, <1>3 DEF RunInv, QuietSound
<1>7. SupportedUntilSent'
  <2> SUFFICES ASSUME NEW d \in Callers, job[d] # 0, d # c
               PROVE  /\ call[d].kind = "execute"
                      /\ call[d].pc \in {"lock", "observe"}
                      => \A lock \in LocksOf(job[d])' : \E i \in Step :
                           Supports(i, lock, call[d].expires)'
    BY <1>1, <1>2, <1>3 DEF SupportedUntilSent
  <2>1. LocksOf(job[d])' = LocksOf(job[d])
    BY <1>1 DEF LocksOf, GatesStep
  <2>2. \A i, lock :
          Supports(i, lock, call[d].expires)' = Supports(i, lock, call[d].expires)
    BY <1>1 DEF Supports
  <2> QED
    BY <2>1, <2>2 DEF RunInv, SupportedUntilSent
<1> QED
  BY <1>4, <1>5, <1>6, <1>7 DEF RunInv

\* Steps that change neither calls nor rows: what is quiet only grows, and the
\* step whose instrument answers is quiet.
LEMMA GrowsKeeps ==
  ASSUME DeviceInv, RunInv, call' = call, owner' = owner, case' = case,
         attempt' = attempt, job' = job, sample' \in BOOLEAN,
         quiet \subseteq quiet', quiet' \subseteq Step,
         \/ wire' = wire
         \/ \A c \in Callers :
              owner = c /\ Senses(c) => job[c] \in quiet'
  PROVE  RunInv'
<1>1. /\ Step' = Step /\ RefusesConfiguration' = RefusesConfiguration
      /\ \A k : Effectful(k)' = Effectful(k)
  BY DEF Step, RefusesConfiguration, Effectful
<1>2. RunTypeOK' /\ StepsOrdered' /\ JobsSound'
  BY <1>1 DEF RunInv, RunTypeOK, StepsOrdered, JobsSound
<1>3. QuietSound'
  <2>1. ASSUME NEW c \in Callers, call[c].pc = "operate", owner = c,
               wire' = "answered", job[c] # 0, case.plan[job[c]] \in Sensing
        PROVE  job[c] \in quiet'
    BY <2>1, DeviceParameters DEF RunInv, QuietSound, Senses
  <2> QED
    BY <1>1, <2>1 DEF RunInv, QuietSound
<1>4. SupportedUntilSent'
  BY DEF RunInv, SupportedUntilSent, Supports, LocksOf, GatesStep, Step
<1> QED
  BY <1>2, <1>3, <1>4 DEF RunInv

InterlockInv == DeviceInv /\ RunInv

\* Every action is one of the session, and what it does to the run.
LEMMA StepImplements ==
  ASSUME DeviceInv, [InterlockNext]_allvars
  PROVE  [Next]_vars
<1>1. ASSUME NEW c \in Drivers, NEW k \in Step, Execute(c, k)
      PROVE  Next
  <2>1. c \in Callers /\ "execute" \in Kind
    BY InterlockParameters DEF Kind
  <2>2. Begin(c, "execute", Expiry(k))
    BY <1>1 DEF Execute
  <2>3. Expiry(k) \in 0..Never
    <3>1. Expiry(k) \in (now..(now + MaxAge)) \cup {Never}
      BY <2>2 DEF Begin
    <3>2. now \in 0..MaxTime /\ MaxAge \in Nat /\ MaxTime \in Nat
      BY DeviceParameters DEF DeviceInv, DeviceTypeOK
    <3> HIDE DEF Never
    <3>3. Never \in Nat /\ now + MaxAge <= Never
      BY <3>2 DEF Never
    <3> QED
      BY <3>1, <3>2, <3>3
  <2> QED
    BY <2>1, <2>2, <2>3 DEF Next
<1>2. Never \in 0..Never /\ "reconcile" \in Kind /\ "inspect" \in Kind
  BY DeviceParameters DEF Never, Kind
<1>3. ASSUME NEW c \in Drivers, NEW k \in Step, Reconcile(c, k)
      PROVE  Next
  <2>1. c \in Callers /\ Begin(c, "reconcile", Never)
    BY <1>3, InterlockParameters DEF Reconcile
  <2> QED
    BY <1>2, <2>1 DEF Next
<1>4. ASSUME NEW c \in Callers, Inspect(c)
      PROVE  Next
  BY <1>2, <1>4 DEF Inspect, Next
<1>5. ASSUME NEW c \in Callers, CallerStep(c) \/ CallerFails(c)
      PROVE  Next
  BY <1>5 DEF CallerStep, CallerFails, Next
<1>6. (\E k \in Step : Deny(k)) \/ UNCHANGED allvars => UNCHANGED vars
  BY DEF Deny, allvars
<1>7. Answers \/ Passes => Next
  BY DEF Answers, Passes, Next
<1> QED
  BY <1>1, <1>3, <1>4, <1>5, <1>6, <1>7 DEF InterlockNext

\* Every step preserves the invariant.
LEMMA StepInterlock ==
  ASSUME InterlockInv, [InterlockNext]_allvars
  PROVE  InterlockInv'
<1>1. DeviceInv /\ RunInv
  BY DEF InterlockInv
<1>2. DeviceInv'
  BY <1>1, StepImplements, StepDevice
<1>3. ASSUME NEW c \in Callers, CallerStep(c) \/ CallerFails(c)
      PROVE  RunInv'
  BY <1>1, <1>2, <1>3, StepOnward, FollowKeeps DEF CallerStep, CallerFails
<1>4. ASSUME Answers PROVE RunInv'
  <2>1. /\ wire' = "answered" /\ call' = call /\ owner' = owner
        /\ case' = case /\ attempt' = attempt /\ job' = job
    BY <1>4 DEF Answers, Answer
  <2>2. sample' \in BOOLEAN /\ quiet \subseteq quiet' /\ quiet' \subseteq Step
        /\ \A c \in Callers : owner = c /\ Senses(c) => job[c] \in quiet'
    BY <1>1, <1>4 DEF Answers, Senses, RunInv, RunTypeOK, DeviceInv, DeviceTypeOK
  <2> QED
    BY <1>1, <2>1, <2>2, GrowsKeeps
<1>5. ASSUME Passes \/ UNCHANGED allvars PROVE RunInv'
  BY <1>1, <1>5, GrowsKeeps
     DEF Passes, Tick, allvars, vars, link, run, RunInv, RunTypeOK
<1>6. ASSUME NEW k \in Step, Deny(k) PROVE RunInv'
  BY <1>1, <1>6, DenyKeeps
<1>7. ASSUME NEW c \in Drivers, NEW k \in Step,
             Execute(c, k) \/ Reconcile(c, k)
      PROVE  RunInv'
  BY <1>1, <1>7, ExecuteKeeps, ReconcileKeeps, InterlockParameters
<1>8. ASSUME NEW c \in Callers, Inspect(c) PROVE RunInv'
  BY <1>1, <1>8, InspectKeeps
<1>9. RunInv'
  BY <1>3, <1>4, <1>5, <1>6, <1>7, <1>8 DEF InterlockNext
<1> QED
  BY <1>2, <1>9 DEF InterlockInv

\* InterlockInv is an invariant.
LEMMA InterlockInvariant == InterlockSpec => []InterlockInv
<1>1. InterlockInit => InterlockInv
  BY InitDevice, InitRun DEF InterlockInit, InterlockInv
<1> QED
  BY <1>1, StepInterlock, PTL DEF InterlockSpec

-----------------------------------------------------------------------------

\* A run under interlocks uses the session as Device allows, so that what is
\* proved of Device holds of it.
THEOREM ImplementsDevice == InterlockSpec => Spec
<1>1. InterlockInit => Init
  BY DEF InterlockInit
<1>2. InterlockInv /\ [InterlockNext]_allvars => [Next]_vars
  BY StepImplements DEF InterlockInv
<1> QED
  BY <1>1, <1>2, InterlockInvariant, PTL DEF InterlockSpec, Spec

\* No gated command goes out without an observation of the run that passed,
\* that is not too old, and that no effect came after.
THEOREM GatedByWitness == InterlockSpec => GatedByFreshWitness
<1>1. ASSUME InterlockInv, [InterlockNext]_allvars, NEW c \in Callers,
             NEW lock \in case.locks, CommandsGated(c, lock)
      PROVE  \E i \in quiet : /\ case.plan[i] = lock.observation
                              /\ attempt[i].state = "completed"
                              /\ attempt[i].good
                              /\ now < attempt[i].at + lock.age
  <2>1. DeviceInv /\ RunInv /\ [Next]_vars
    BY <1>1, StepImplements DEF InterlockInv
  <2>2. now < call[c].expires /\ call[c].sent = 0
    BY <1>1, <2>1, FirstCommandFresh DEF CommandsGated
  <2>3. job[c] # 0 /\ job[c] \in Step
    BY <1>1, <2>1 DEF CommandsGated, Commanded, RunInv, RunTypeOK
  <2>4. call[c].kind = "execute"
    BY <1>1, <2>1, <2>3
       DEF CommandsGated, Commanded, RunInv, JobsSound, RefusesConfiguration
  <2>5. call[c].pc \in {"lock", "observe"}
    <3>1. call[c].pc # "idle" /\ call[c].pc # "operate"
      BY <2>1, <2>2, <2>3, CallFields DEF CallSound, RunInv, JobsSound
    <3> QED
      BY <2>1, <3>1, CallFields DEF Call
  <2>6. lock \in LocksOf(job[c])
    BY <1>1, <2>3, <2>4 DEF CommandsGated, Commanded, LocksOf, GatesStep
  <2>7. PICK i \in Step : Supports(i, lock, call[c].expires)
    BY <2>1, <2>3, <2>4, <2>5, <2>6 DEF RunInv, SupportedUntilSent
  <2>8. now < attempt[i].at + lock.age
    <3>1. attempt[i].at \in Nat /\ lock.age \in Nat
      BY <1>1, <2>1, InterlockParameters, DeviceParameters
         DEF RunInv, RunTypeOK, LiveInterlock
    <3>2. now \in Nat /\ call[c].expires \in Nat
      BY <2>1, CallFields, DeviceParameters
         DEF DeviceInv, DeviceTypeOK, Call, Never
    <3>3. call[c].expires <= attempt[i].at + lock.age
      BY <2>7 DEF Supports
    <3> QED
      BY <2>2, <3>1, <3>2, <3>3
  <2> QED
    BY <2>7, <2>8 DEF Supports
<1>2. InterlockInv /\ [InterlockNext]_allvars =>
        [\A c \in Callers : \A lock \in case.locks :
           CommandsGated(c, lock) =>
             \E i \in quiet : /\ case.plan[i] = lock.observation
                              /\ attempt[i].state = "completed"
                              /\ attempt[i].good
                              /\ now < attempt[i].at + lock.age]_allvars
  BY <1>1
<1> QED
  BY <1>2, InterlockInvariant, PTL DEF InterlockSpec, GatedByFreshWitness

=============================================================================
