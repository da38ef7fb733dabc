------------------------------- MODULE Flash -------------------------------
(***************************************************************************)
(* Flash operations over a Bus Pirate (src/src/service/backend/bus.rs, the *)
(* geometry from src/src/instruments/flash.rs) on a serial NOR chip.       *)
(*                                                                         *)
(* The driver sends one command per transfer.  A transfer may fail or time *)
(* out, the session is dropped, and the chip may have got the command or   *)
(* not; it goes on programming by itself.  The next operation starts over  *)
(* with a new session.  A byte is a bit here: 1 erased, 0 programmed.      *)
(***************************************************************************)
EXTENDS Naturals, Sequences

CONSTANTS
  Capacity,    \* bytes of the chip
  Page,        \* bytes of a page: a program command wraps inside its page
  Sector,      \* bytes of an erase sector
  WriteLimit,  \* payload bytes the adapter takes in one program command
  ReadLimit,   \* bytes the adapter returns in one transfer
  Operations,  \* flash operations that plans contain
  MaxCalls     \* bound: operations, reconciliations included

Address == 0..(Capacity - 1)
Kind == {"read", "verify", "write", "erase"}

ASSUME FlashParameters ==
  /\ Capacity \in Nat \ {0} /\ Page \in Nat \ {0} /\ Sector \in Nat \ {0}
  /\ WriteLimit \in Nat \ {0} /\ ReadLimit \in Nat \ {0}
  /\ Operations \subseteq
       [kind : Kind, offset : Nat, data : Seq({0, 1}) \ {<<>>},
        configure : BOOLEAN]
  /\ MaxCalls \in Nat

VARIABLES
  flash,     \* the cells of the chip
  latch,     \* its write enable latch
  pending,   \* the cells it is programming or erasing: address -> value
  call,      \* the operation of the driver, how far it is and its result
  entitled,  \* addresses in the regions of the effects asked for so far
  calls      \* operations so far

chip == <<flash, latch, pending>>
vars == <<chip, call, entitled, calls>>

Quiet == [a \in {} |-> 0]
Busy == DOMAIN pending # {}

Region(op) == op.offset..(op.offset + Len(op.data) - 1)
EffectKind == {"write", "erase"}

Init ==
  /\ flash \in [Address -> {0, 1}]
  /\ latch = FALSE
  /\ pending = Quiet
  /\ call = [pc |-> "idle", op |-> [kind |-> "read", offset |-> 0,
             data |-> <<>>, configure |-> FALSE], reconcile |-> FALSE,
             cursor |-> 0, got |-> <<>>, result |-> "none"]
  /\ entitled = {}
  /\ calls = 0

Smaller(m, n) == IF m <= n THEN m ELSE n

Ends(result) == call' = [call EXCEPT !.pc = "idle", !.result = result]

-----------------------------------------------------------------------------
(* Geometry *)

ValidRange(op) == op.offset + Len(op.data) <= Capacity

ValidErase(op) == /\ ValidRange(op)
                  /\ op.offset % Sector = 0
                  /\ Len(op.data) % Sector = 0

ValidEffect(op) == IF op.kind = "erase" THEN ValidErase(op) ELSE ValidRange(op)

ChunkBug(op, cursor) ==
  IF op.kind = "erase" THEN Sector
  ELSE Smaller(WriteLimit, Len(op.data) - cursor)

\* Bytes the next effect command covers: an erase sector, or what is left of
\* the page, of the payload limit and of the data.
Chunk(op, cursor) ==
  IF op.kind = "erase" THEN Sector
  ELSE Smaller(Page - ((op.offset + cursor) % Page),
               Smaller(WriteLimit, Len(op.data) - cursor))

\* What the chip does with a command at an address: an erase takes the sector
\* around it, a program goes on at the start of the page when it passes the
\* end, and can only clear bits.
Erasing(a) == [b \in {c \in Address : c \div Sector = a \div Sector} |-> 1]

Programming(a, data) ==
  LET cell(i) == (a \div Page) * Page + ((a + i - 1) % Page)
      last(b) == {i \in 1..Len(data) : cell(i) = b}
  IN  [b \in {cell(i) : i \in 1..Len(data)} |->
         IF \E i \in last(b) : data[i] = 0 THEN 0 ELSE flash[b]]

Commanded(op, cursor) ==
  LET a == op.offset + cursor
  IN  IF op.kind = "erase" THEN Erasing(a)
      ELSE Programming(a, SubSeq(op.data, cursor + 1,
                                 cursor + Chunk(op, cursor)))

-----------------------------------------------------------------------------
(* The chip *)

Finish ==
  /\ Busy
  /\ flash' = [a \in Address |->
                 IF a \in DOMAIN pending THEN pending[a] ELSE flash[a]]
  /\ latch' = FALSE
  /\ pending' = Quiet
  /\ UNCHANGED <<call, entitled, calls>>

\* A busy chip ignores the command, as does one without the latch.
Takes(op, cursor) ==
  IF latch /\ ~Busy
  THEN pending' = Commanded(op, cursor) /\ UNCHANGED <<flash, latch>>
  ELSE UNCHANGED chip

\* A busy chip drives no data: the bus reads as erased bytes.
Reads(a, n) ==
  [i \in 1..n |-> IF Busy THEN 1 ELSE flash[a + i - 1]]

-----------------------------------------------------------------------------
(* The driver: execute of bus.rs for the flash operations *)

\* Without authority to configure the adapter an execution is refused, and a
\* reconciliation cannot tell.
Start(op, reconcile) ==
  /\ call.pc = "idle"
  /\ calls < MaxCalls
  /\ calls' = calls + 1
  /\ call' = [pc |-> IF op.configure THEN "identify" ELSE "idle", op |-> op,
              reconcile |-> reconcile, cursor |-> 0, got |-> <<>>,
              result |-> IF op.configure THEN "none"
                         ELSE IF reconcile THEN "partial" ELSE "error"]
  /\ entitled' = IF reconcile \/ op.kind \notin EffectKind THEN entitled
                 ELSE entitled \cup Region(op)
  /\ UNCHANGED chip

IdentifyBug ==
  LET effect == call.op.kind \in EffectKind /\ ~call.reconcile
      valid == IF effect THEN ValidEffect(call.op) ELSE ValidRange(call.op)
  IN  /\ call.pc = "identify"
      /\ IF ~valid THEN Ends("error")
         ELSE call' = [call EXCEPT !.pc = IF effect THEN "enable" ELSE "read"]
      /\ UNCHANGED <<chip, entitled, calls>>

\* verify_flash_identity: a busy chip does not answer with its identity.
Identify ==
  LET effect == call.op.kind \in EffectKind /\ ~call.reconcile
      valid == IF effect THEN ValidEffect(call.op) ELSE ValidRange(call.op)
  IN  /\ call.pc = "identify"
      /\ IF Busy \/ ~valid THEN Ends("error")
         ELSE call' = [call EXCEPT !.pc = IF effect THEN "enable" ELSE "read"]
      /\ UNCHANGED <<chip, entitled, calls>>

\* write_enable: the latch is read back; it is still set while a chip works.
Enable ==
  /\ call.pc = "enable"
  /\ latch' = TRUE
  /\ call' = [call EXCEPT !.pc = "send"]
  /\ UNCHANGED <<flash, pending, entitled, calls>>

Send ==
  /\ call.pc = "send"
  /\ Takes(call.op, call.cursor)
  /\ call' = [call EXCEPT !.pc = "poll"]
  /\ UNCHANGED <<entitled, calls>>

PollBug ==
  /\ call.pc = "poll"
  /\ LET next == call.cursor + Chunk(call.op, call.cursor)
     IN  call' = IF next < Len(call.op.data)
                 THEN [call EXCEPT !.pc = "enable", !.cursor = next]
                 ELSE [call EXCEPT !.pc = "read", !.cursor = 0]
  /\ UNCHANGED <<chip, entitled, calls>>

PollStuckBug ==
  /\ call.pc = "poll"
  /\ ~Busy
  /\ call' = IF call.cursor < Len(call.op.data)
             THEN [call EXCEPT !.pc = "enable"]
             ELSE [call EXCEPT !.pc = "read", !.cursor = 0]
  /\ UNCHANGED <<chip, entitled, calls>>

\* wait_busy_clear returns only when the chip is done.
Poll ==
  /\ call.pc = "poll"
  /\ ~Busy
  /\ LET next == call.cursor + Chunk(call.op, call.cursor)
     IN  call' = IF next < Len(call.op.data)
                 THEN [call EXCEPT !.pc = "enable", !.cursor = next]
                 ELSE [call EXCEPT !.pc = "read", !.cursor = 0]
  /\ UNCHANGED <<chip, entitled, calls>>

\* What the readback proves: a blank region, or the bytes of the candidate.
Verdict(op, got) ==
  CASE op.kind = "read" -> "observed"
    [] op.kind = "erase" -> IF \A i \in 1..Len(got) : got[i] = 1
                            THEN "completed" ELSE "partial"
    [] OTHER -> IF got = op.data THEN "completed" ELSE "partial"

\* flash_read, one transfer.
Read ==
  LET op == call.op
      n == Smaller(ReadLimit, Len(op.data) - call.cursor)
      got == call.got \o Reads(op.offset + call.cursor, n)
      next == call.cursor + n
  IN  /\ call.pc = "read"
      /\ call' = IF next < Len(op.data)
                 THEN [call EXCEPT !.cursor = next, !.got = got]
                 ELSE [call EXCEPT !.pc = "idle", !.cursor = next,
                                   !.got = got, !.result = Verdict(op, got)]
      /\ UNCHANGED <<chip, entitled, calls>>

\* A transfer fails or the deadline passes; the chip may have acted on it.
TransferFails ==
  /\ call.pc # "idle"
  /\ Ends("error")
  /\ \/ UNCHANGED chip
     \/ call.pc = "enable" /\ latch' = TRUE /\ UNCHANGED <<flash, pending>>
     \/ call.pc = "send" /\ Takes(call.op, call.cursor)
  /\ UNCHANGED <<entitled, calls>>

DriverStep == Identify \/ Enable \/ Send \/ Poll \/ Read

Next ==
  \/ \E op \in Operations, reconcile \in BOOLEAN : Start(op, reconcile)
  \/ DriverStep \/ TransferFails \/ Finish

Spec == Init /\ [][Next]_vars

\* The chip finishes what it began, and the driver goes on; no deadline needs
\* to end an operation.
FairSpec == Spec /\ WF_vars(Finish) /\ WF_vars(DriverStep)

-----------------------------------------------------------------------------
(* Properties *)

Proven(op) ==
  \A i \in 1..Len(op.data) :
    flash[op.offset + i - 1] = IF op.kind = "erase" THEN 1 ELSE op.data[i]

\* Completed is said only of a region that is as asked for and stays so, even
\* by a reconciliation of an operation that broke off while the chip worked.
\* (verify_flash_identity, flash_read)
CompletedIsProven ==
  call.result = "completed" => ~Busy /\ Proven(call.op)

\* What is read is what the cells hold, never the bus of a busy chip.
ReadsAreReal ==
  \A i \in 1..Len(call.got) :
    call.pc = "read" \/ call.result # "none" =>
      call.got[i] = flash[call.op.offset + i - 1]

\* Cells outside the regions of the effects that were asked for never change:
\* no program wraps around its page, no erase covers a neighbour, and a
\* reconciliation changes nothing.  (flash_write, validate_erase)
OutsideUntouched ==
  [][\A a \in Address : flash'[a] # flash[a] => a \in entitled]_vars

\* Every operation comes to an end by itself, before its deadline or not.
\* (flash_write, flash_erase and wait_busy_clear loop without a bound)
OperationEnds == call.pc # "idle" ~> call.pc = "idle"

=============================================================================
