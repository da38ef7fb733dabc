------------------------------- MODULE Device -------------------------------
(***************************************************************************)
(* The session of one instrument (src/src/service/backend/mod.rs): calls   *)
(* of execute, reconcile and inspect that wait for a mutex, a deadline     *)
(* that counts from the call, live interlocks that expire meanwhile, and a *)
(* session that is thrown away when an answer may still be on the way.     *)
(*                                                                         *)
(* Of an operation only its commands are modelled; what they mean on a     *)
(* flash chip is in Flash.  Wait operations use no session.                *)
(***************************************************************************)
EXTENDS Naturals

CONSTANTS
  Callers,    \* threads that call the backend
  Nobody,     \* the owner of a free mutex
  Commands,   \* commands of an operation after the identity is observed
  Deadline,   \* deadline of an operation
  Discovery,  \* deadline of an inspection, from when it has the session
  MaxAge,     \* how long a live interlock lets its observation stand
  MaxTime,    \* bound: the clock
  MaxCalls    \* bound: calls

ASSUME DeviceParameters ==
  /\ Nobody \notin Callers
  /\ Commands \in Nat \ {0} /\ Deadline \in Nat \ {0}
  /\ Discovery \in Nat \ {0} /\ MaxAge \in Nat
  /\ MaxTime \in Nat /\ MaxCalls \in Nat

VARIABLES
  now,       \* the clock
  owner,     \* who holds the mutex of the session
  poisoned,  \* a thread panicked while it held the mutex
  session,   \* "open" or "none"
  wire,      \* "quiet", "asked" or "answered": the command under way
  call,      \* caller -> its call
  calls      \* calls so far

link == <<owner, poisoned, session, wire>>
vars == <<now, link, call, calls>>

Never == MaxTime + MaxAge + 1
Kind == {"execute", "reconcile", "inspect"}

Call == [pc : {"idle", "lock", "observe", "operate"}, kind : Kind,
         limit : 0..Never, expires : 0..Never, sent : 0..Commands, late : Nat,
         result : {"none", "receipt", "rejected", "error", "timeout"}]

\* Shapes of the session and of the calls.
DeviceTypeOK ==
  /\ now \in 0..MaxTime
  /\ owner \in Callers \cup {Nobody}
  /\ poisoned \in BOOLEAN
  /\ session \in {"none", "open"}
  /\ wire \in {"quiet", "asked", "answered"}
  /\ call \in [Callers -> Call]
  /\ calls \in 0..MaxCalls

Init ==
  /\ now = 0
  /\ owner = Nobody
  /\ poisoned = FALSE
  /\ session = "none"
  /\ wire = "quiet"
  /\ call = [c \in Callers |->
       [pc |-> "idle", kind |-> "execute", limit |-> 0, expires |-> Never,
        sent |-> 0, late |-> 0, result |-> "none"]]
  /\ calls = 0

InSession(c) == call[c].pc \in {"observe", "operate"}

\* The call returns and gives the mutex back; the session is kept after an
\* answer and after a rejection, and thrown away after an error.
Returns(c, result) ==
  /\ call' = [call EXCEPT ![c].pc = "idle", ![c].result = result]
  /\ owner' = Nobody

Keeps(c, result) ==
  /\ Returns(c, result)
  /\ wire' = "quiet"
  /\ UNCHANGED <<now, poisoned, session, calls>>

Drops(c, result) ==
  /\ Returns(c, result)
  /\ session' = "none"
  /\ wire' = "quiet"
  /\ UNCHANGED <<now, poisoned, calls>>

AskBug(c, as) ==
  /\ call' = [call EXCEPT ![c] = as]
  /\ wire' = "asked" /\ session' = "open" /\ owner' = c
  /\ UNCHANGED <<now, poisoned, calls>>

\* Send the next command and wait.  The timer is looked at only when the wait
\* begins, so that a command is sent even if the limit has passed.
Ask(c, as) ==
  IF now >= as.limit
  THEN /\ call' = [call EXCEPT ![c] =
            [as EXCEPT !.pc = "idle", !.result = "timeout"]]
       /\ owner' = Nobody /\ session' = "none" /\ wire' = "quiet"
       /\ UNCHANGED <<now, poisoned, calls>>
  ELSE /\ call' = [call EXCEPT ![c] = as]
       /\ wire' = "asked" /\ session' = "open" /\ owner' = c
       /\ UNCHANGED <<now, poisoned, calls>>

-----------------------------------------------------------------------------

\* The expiry is that of the witness observation: an execution begins while
\* check_live_interlocks finds it fresh, and other calls have none.
Begin(c, kind, expires) ==
  /\ call[c].pc = "idle"
  /\ calls < MaxCalls /\ now + Deadline <= MaxTime
  /\ calls' = calls + 1
  /\ expires \in IF kind = "execute" THEN (now..(now + MaxAge)) \cup {Never}
                 ELSE {Never}
  /\ call' = [call EXCEPT ![c] =
       [pc |-> "lock", kind |-> kind, limit |-> now + Deadline,
        expires |-> expires, sent |-> 0, late |-> 0, result |-> "none"]]
  /\ UNCHANGED <<now, link>>

\* The reviewed binding, fixture or configuration is not the configured one.
Refuse(c) ==
  /\ call[c].pc = "lock" /\ call[c].kind # "inspect"
  /\ call' = [call EXCEPT ![c].pc = "idle", ![c].result = "rejected"]
  /\ UNCHANGED <<now, link, calls>>

\* The limit once the mutex is held: the deadline and the interlock.  The end
\* of the clock bounds that of an inspection.
Limit(c) ==
  IF call[c].kind = "inspect"
  THEN IF now + Discovery < MaxTime THEN now + Discovery ELSE MaxTime
  ELSE IF call[c].expires < call[c].limit THEN call[c].expires
  ELSE call[c].limit

\* Take the mutex, and leave without touching the session if it is poisoned,
\* the interlock has expired or the deadline has passed.
TurnedAway(c) ==
  /\ call[c].pc = "lock" /\ owner = Nobody
  /\ \/ poisoned /\ Returns(c, "error")
     \/ ~poisoned /\ call[c].expires <= now /\ Returns(c, "rejected")
     \/ ~poisoned /\ call[c].expires > now /\ Limit(c) < now
        /\ Returns(c, "timeout")
  /\ UNCHANGED <<now, poisoned, session, wire, calls>>

\* Take the mutex, connect if there is no session, and ask who is there; the
\* port may be gone.
Enter(c) ==
  /\ call[c].pc = "lock" /\ owner = Nobody /\ ~poisoned
  /\ call[c].expires > now /\ Limit(c) >= now
  /\ \/ Ask(c, [call[c] EXCEPT !.pc = "observe", !.limit = Limit(c)])
     \/ Drops(c, "error")

Command(c) ==
  [call[c] EXCEPT !.pc = "operate", !.sent = @ + 1,
                  !.late = IF now >= call[c].limit THEN @ + 1 ELSE @]

\* The identity is there.  It may be another one, or the interlock may have
\* expired by now: the operation is rejected.  An inspection publishes what it
\* saw after the device has answered.
Observed(c) ==
  /\ call[c].pc = "observe" /\ owner = c /\ wire = "answered"
  /\ \/ call[c].kind # "inspect" /\ Keeps(c, "rejected")
     \/ call[c].kind = "inspect" /\ (Keeps(c, "receipt") \/ Keeps(c, "error"))
     \/ /\ call[c].kind # "inspect" /\ now < call[c].expires
        /\ Ask(c, Command(c))

\* publish: the bytes and the envelope of an operation become evidence, or
\* that fails and costs the session.
Published(c) == Keeps(c, "receipt") \/ Drops(c, "error")

OperatedBug(c) ==
  /\ call[c].pc = "operate" /\ owner = c /\ wire = "answered"
  /\ \/ call[c].sent < Commands /\ Ask(c, Command(c))
     \/ Keeps(c, "rejected")
     \/ call[c].sent = Commands /\ Published(c)

\* The answer of a command: the next one, or the receipt.
Operated(c) ==
  /\ call[c].pc = "operate" /\ owner = c /\ wire = "answered"
  /\ \/ call[c].sent < Commands /\ Ask(c, Command(c))
     \/ call[c].sent = Commands /\ Published(c)

\* The port fails, or the adapter does not understand the answer or gives up
\* waiting for it.
AdapterFails(c) == InSession(c) /\ owner = c /\ Drops(c, "error")

ExpireBug(c) ==
  /\ InSession(c) /\ owner = c /\ wire = "asked" /\ now >= call[c].limit
  /\ Returns(c, "timeout")
  /\ UNCHANGED <<now, poisoned, session, wire, calls>>

ExpireStuckBug(c) ==
  /\ InSession(c) /\ owner = c /\ wire = "answered" /\ now >= call[c].limit
  /\ Drops(c, "timeout")

\* The limit passes before the answer is there.
Expire(c) ==
  /\ InSession(c) /\ owner = c /\ wire = "asked" /\ now >= call[c].limit
  /\ Drops(c, "timeout")

\* The thread panics with the mutex in its hands: nothing is returned.
Panic(c) ==
  /\ InSession(c) /\ owner = c
  /\ call' = [call EXCEPT ![c].pc = "idle"]
  /\ owner' = Nobody
  /\ poisoned' = TRUE
  /\ UNCHANGED <<now, session, wire, calls>>

\* The instrument answers, sooner or later or never.
Answer ==
  /\ wire = "asked"
  /\ wire' = "answered"
  /\ UNCHANGED <<now, owner, poisoned, session, call, calls>>

Tick ==
  /\ now < MaxTime
  /\ now' = now + 1
  /\ UNCHANGED <<link, call, calls>>

CallStep(c) ==
  TurnedAway(c) \/ Enter(c) \/ Observed(c) \/ Operated(c) \/ Expire(c)

Next ==
  \/ \E c \in Callers :
       \/ \E kind \in Kind, expires \in 0..Never : Begin(c, kind, expires)
       \/ Refuse(c) \/ CallStep(c) \/ AdapterFails(c) \/ Panic(c)
  \/ Answer \/ Tick

Spec == Init /\ [][Next]_vars

\* Time passes and threads run; no instrument needs to answer.
FairSpec == Spec /\ WF_vars(Tick) /\ \A c \in Callers : WF_vars(CallStep(c))

-----------------------------------------------------------------------------
(* Properties *)

\* No call begins to speak in a session in which the answer of another call
\* may still come: after a timeout, an error or a panic.
NeverMixed ==
  [][\A c \in Callers :
       call[c].pc = "lock" /\ call'[c].pc = "observe" =>
         session = "none" \/ wire = "quiet"]_vars

\* A rejection tells the supervisor that nothing was done, and frees the
\* leases: no command of the operation was sent.
RejectedIsHarmless ==
  \A c \in Callers : call[c].result = "rejected" => call[c].sent = 0

\* An operation is not begun after its interlock has expired, however long it
\* waited for the mutex and for the identity of the instrument.
BegunWhileFresh ==
  [][\A c \in Callers :
       call[c].sent = 0 /\ call'[c].sent > 0 => now < call[c].expires]_vars

\* Past its deadline and the expiry of its interlock an operation sends one
\* more command at most.
OneCommandLate == \A c \in Callers : call[c].late <= 1

\* Every call returns, whether the instrument answers or not.
CallEnds == \A c \in Callers : call[c].pc # "idle" ~> call[c].pc = "idle"

=============================================================================
