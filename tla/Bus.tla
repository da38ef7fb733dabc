--------------------------------- MODULE Bus ---------------------------------
(***************************************************************************)
(* Operations of the serial instruments (src/src/service/backend/bus.rs,   *)
(* relay_operation of backend/mod.rs, instruments/bpio2.rs, numato.rs) in  *)
(* one session: each is a script of requests, sent one at a time, each     *)
(* after the answer to the one before.  The firmware takes requests in     *)
(* order and at leisure.  After an error or a timeout the session is       *)
(* dropped and its answers are lost, but what was sent is still carried    *)
(* out.  Only a scan goes on after a timeout.                              *)
(*                                                                         *)
(* The mutex and the deadlines of a call are in Device, flash operations   *)
(* in Flash.  That closing the port loses late answers is assumed.         *)
(***************************************************************************)
EXTENDS Cobs, FiniteSets, SequencesExt

CONSTANTS
  Operations,  \* operations that a plan may ask for, by kind of instrument
  WriteMax,    \* most bytes of one write, as the firmware reports
  ReadMax,     \* most bytes of one read
  Present,     \* I2C addresses that answer
  Addresses,   \* I2C addresses that a scan tries: 1..Addresses
  MaxCalls,    \* bound: calls
  MaxTimeouts  \* bound: requests of scans that time out

\* Operations that a relay controller knows, and those of a Bus Pirate
RelayOperation == [k : {"status"}] \cup [k : {"set"}, level : Nat]
PirateOperation ==
  RelayOperation \cup [k : {"scan"}]
  \cup [k : {"spi"}, tx : Seq(Nat), rx : Nat]
  \cup [k : {"i2c"}, address : Nat, tx : Seq(Nat), rx : Nat]
  \cup [k : {"transmit"}, tx : Seq(Nat)]
  \cup [k : {"capture"}, rx : Nat]

ASSUME BusParameters ==
  /\ DOMAIN Operations \subseteq {"bpio2", "numato"}
  /\ \A k \in DOMAIN Operations :
       Operations[k] \subseteq (IF k = "bpio2" THEN PirateOperation
                                ELSE RelayOperation)
  /\ WriteMax \in Nat \ {0} /\ ReadMax \in Nat \ {0} /\ FullBlock \in Nat \ {0}
  /\ Addresses \in Nat /\ Present \subseteq 1..Addresses
  /\ MaxCalls \in Nat /\ MaxTimeouts \in Nat

VARIABLES
  kind,      \* the kind of the instrument
  session,   \* the call that opened the session, or 0 for none
  call,      \* the call under way, or the last one
  requests,  \* what the firmware has received and not yet carried out
  answers,   \* what it has answered and the adapter not yet read
  mode,      \* the bus mode of the instrument
  level,     \* what the outputs are set to: pins, supply or relays
  wire,      \* what happened on the target's bus since the call began
  calls,     \* calls so far
  timeouts   \* timeouts so far

target == <<requests, mode, level, wire>>

vars == <<kind, session, call, answers, target, calls, timeouts>>

-----------------------------------------------------------------------------
(* Requests *)

Status == [t |-> "status"]
Relays == [t |-> "relays"]
ConfigureMode(m) == [t |-> "configure", mode |-> m]
SetOutput(v) == [t |-> "set", level |-> v]

Data(write, read, start, stop) ==
  [t |-> "data", frame |-> Encode(write), read |-> read,
   start |-> start, stop |-> stop]

\* The first requests of every call: identity::observe, and the fresh status
\* of bus::execute.
Identify ==
  IF kind = "bpio2" THEN <<Status, Status>>
  ELSE <<[t |-> "version"], [t |-> "id"]>>

\* ensure_mode: the status after the configuration must show the mode.
EnsureMode(m) == <<ConfigureMode(m), [t |-> "status", shows |-> m]>>

Least(m, n) == IF m < n THEN m ELSE n

Chunks(length, limit) == (length + limit - 1) \div limit

WriteChunk(tx, i) ==
  SubSeq(tx, (i - 1) * WriteMax + 1, Least(i * WriteMax, Len(tx)))

WriteRequests(tx, starts) ==
  [i \in 1..Chunks(Len(tx), WriteMax) |->
     Data(WriteChunk(tx, i), 0, starts /\ i = 1, FALSE)]

ReadSize(length, i) == Least(ReadMax, length - (i - 1) * ReadMax)

ReadRequests(length, starts, stops) ==
  [i \in 1..Chunks(length, ReadMax) |->
     Data(<<>>, ReadSize(length, i), starts /\ i = 1,
          stops /\ i = Chunks(length, ReadMax))]

SpiBug(tx, rx) ==
  WriteRequests(tx, TRUE) \o ReadRequests(rx, TRUE, TRUE)
  \o (IF rx = 0 THEN <<Data(<<>>, 0, FALSE, TRUE)>> ELSE <<>>)

\* spi_transfer: writes, then reads, within one selection of the chip
SpiTransfer(tx, rx) ==
  WriteRequests(tx, TRUE) \o ReadRequests(rx, tx = <<>>, TRUE)
  \o (IF rx = 0 /\ tx # <<>> THEN <<Data(<<>>, 0, FALSE, TRUE)>> ELSE <<>>)

WriteAddress(a) == 2 * a
ReadAddress(a) == 2 * a + 1

\* i2c_transfer is one request; the firmware turns the bus around by itself.
I2cTransfer(op) ==
  <<Data(<<WriteAddress(op.address)>> \o op.tx, op.rx, TRUE, TRUE)>>

\* i2c_scan: a write and a read probe for each address
ScanProbes ==
  [i \in 1..(2 * Addresses) |->
     LET a == (i + 1) \div 2
     IN  IF i % 2 = 1 THEN Data(<<WriteAddress(a)>>, 0, TRUE, TRUE)
         ELSE Data(<<ReadAddress(a)>>, 1, TRUE, TRUE)]

ModeOf(op) ==
  CASE op.k = "spi" -> "SPI"
    [] op.k \in {"i2c", "scan"} -> "I2C"
    [] OTHER -> "UART"

Transfers(op) ==
  CASE op.k = "spi" -> SpiTransfer(op.tx, op.rx)
    [] op.k = "i2c" -> I2cTransfer(op)
    [] op.k = "scan" -> ScanProbes
    [] op.k = "transmit" -> WriteRequests(op.tx, FALSE)
    [] op.k = "capture" -> ReadRequests(op.rx, FALSE, FALSE)

\* Outputs are read back; set_relay reads the relays, and so does the
\* operation after it.
ReadBack == IF kind = "bpio2" THEN <<Status>> ELSE <<Relays>>

SetRequestsBug(op, reconciles) ==
  <<SetOutput(op.level)>> \o (IF kind = "bpio2" THEN <<>> ELSE <<Relays>>)

SetRequests(op, reconciles) ==
  IF reconciles THEN <<>>
  ELSE <<SetOutput(op.level)>> \o (IF kind = "bpio2" THEN <<>> ELSE <<Relays>>)

\* What a call asks of the instrument.  A reconciliation of a raw transfer
\* only reads the status; that of a capture reads again, if the plan lets it
\* configure the instrument; that of an output compares.
Script(op, reconciles, configures) ==
  CASE op.k = "status" ->
         Identify \o (IF kind = "numato" THEN <<Relays>> ELSE <<>>)
    [] op.k = "set" ->
         Identify \o SetRequests(op, reconciles) \o ReadBack
    [] op.k = "capture" /\ configures ->
         Identify \o EnsureMode("UART") \o Transfers(op)
    [] op.k \in {"spi", "i2c", "scan", "transmit"} /\ ~reconciles ->
         Identify \o EnsureMode(ModeOf(op)) \o Transfers(op)
    [] OTHER -> Identify

-----------------------------------------------------------------------------
(* A call and its session *)

NoCall == [op |-> [k |-> "status"], reconciles |-> FALSE, pc |-> "done",
           todo |-> <<>>, got |-> <<>>, probes |-> <<>>, found |-> {},
           read |-> 0, receipt |-> "error"]

Init ==
  /\ kind \in DOMAIN Operations
  /\ session = 0
  /\ call = NoCall
  /\ requests = <<>> /\ answers = <<>>
  /\ mode = "HiZ" /\ level = 0
  /\ wire = <<>>
  /\ calls = 0 /\ timeouts = 0

\* run: the device is connected if there is no session.  Only a
\* reconciliation may lack the authority to configure the instrument.
Begin(op, reconciles, configures) ==
  /\ call.pc = "done" /\ calls < MaxCalls
  /\ reconciles \/ configures
  /\ calls' = calls + 1
  /\ call' = [NoCall EXCEPT !.op = op, !.reconciles = reconciles,
                !.pc = "ready", !.todo = Script(op, reconciles, configures)]
  /\ session' = IF session = 0 THEN calls + 1 ELSE session
  /\ wire' = <<>>
  /\ UNCHANGED <<kind, requests, answers, mode, level, timeouts>>

Bytes(r) == Decode(Unframed(r.frame))

\* A transfer that exceeds the limits is refused; an I2C transfer is not split.
Fits(r) == r.t = "data" => Len(Bytes(r)) <= WriteMax /\ r.read <= ReadMax

Send ==
  /\ call.pc = "ready" /\ call.todo # <<>> /\ Fits(Head(call.todo))
  /\ requests' = Append(requests,
       [r |-> Head(call.todo), n |-> calls, reconciles |-> call.reconciles])
  /\ call' = [call EXCEPT !.pc = "wait"]
  /\ UNCHANGED <<kind, session, answers, mode, level, wire, calls, timeouts>>

\* Everything that ends a call early: a lost port, an answer that does not
\* come in time, a deadline, evidence that cannot be published.
DropBug(next) ==
  /\ call' = [next EXCEPT !.pc = "done", !.receipt = "error"]
  /\ UNCHANGED <<session, answers>>

Drop(next) ==
  /\ call' = [next EXCEPT !.pc = "done", !.receipt = "error"]
  /\ session' = 0
  /\ answers' = <<>>

Fail ==
  /\ call.pc \in {"ready", "wait"}
  /\ Drop(call)
  /\ UNCHANGED <<kind, target, calls, timeouts>>

-----------------------------------------------------------------------------
(* The firmware *)

Count(log) == Len(FlattenSeq([i \in DOMAIN log |-> log[i].rx]))

\* Bytes are told apart by how many were read before them.
Fresh(n) == [i \in 1..n |-> (Count(wire) + i - 1) % (FullBlock + 2)]

Acknowledged(r) ==
  mode = "I2C" => \E a \in Present : Bytes(r)[1] \in {WriteAddress(a),
                                                     ReadAddress(a)}

Read(r) ==
  IF ~Acknowledged(r) THEN {0}
  ELSE IF mode = "UART" THEN 0..r.read ELSE {r.read}

\* A data request is carried out on the bus, and is refused if no device
\* acknowledges its address.
Transfer(e) ==
  \E n \in Read(e.r) :
    /\ wire' = Append(wire, [n |-> e.n, reconciles |-> e.reconciles,
         tx |-> Bytes(e.r), rx |-> Fresh(n), start |-> e.r.start,
         stop |-> e.r.stop])
    /\ answers' = IF session # 0 /\ e.n >= session
                  THEN Append(answers,
                    IF Acknowledged(e.r)
                    THEN [t |-> "data", frame |-> Encode(Fresh(n))]
                    ELSE [t |-> "nack"])
                  ELSE answers
    /\ UNCHANGED <<mode, level>>

\* The other requests are about the instrument itself.
Reply(e) ==
  /\ mode' = IF e.r.t = "configure" THEN e.r.mode ELSE mode
  /\ level' = IF e.r.t = "set" THEN e.r.level ELSE level
  /\ answers' = IF session # 0 /\ e.n >= session
                THEN Append(answers,
                       [t |-> e.r.t, mode |-> mode', level |-> level'])
                ELSE answers
  /\ UNCHANGED wire

CarryOut ==
  /\ requests # <<>>
  /\ LET e == Head(requests)
     IN  IF e.r.t = "data" THEN Transfer(e) ELSE Reply(e)
  /\ requests' = Tail(requests)
  /\ UNCHANGED <<kind, session, call, calls, timeouts>>

-----------------------------------------------------------------------------
(* Answers *)

Asked == Head(call.todo)

Probing == call.op.k = "scan" /\ Asked.t = "data"

\* Whether the adapter takes an answer for that of the request under way: the
\* kind of packet, the mode, and the length, which a UART may fall short of.
Accepts(a) ==
  /\ a.t = Asked.t
  /\ "shows" \in DOMAIN Asked => a.mode = Asked.shows
  /\ a.t = "data" => \/ Len(Bytes(a)) = Asked.read
                     \/ call.op.k = "capture"

\* What an accepted answer adds to the call; a short read ends a capture.
Takes(a) ==
  LET bytes == IF a.t = "data" THEN Bytes(a) ELSE <<>>
      short == a.t = "data" /\ Len(bytes) < Asked.read
  IN  [call EXCEPT !.pc = "ready", !.got = @ \o bytes,
         !.todo = IF short THEN <<>> ELSE Tail(@),
         !.read = IF a.t \in {"status", "relays"} THEN a.level ELSE @]

Accept ==
  /\ call.pc = "wait" /\ answers # <<>> /\ ~Probing
  /\ IF Accepts(Head(answers))
     THEN /\ call' = Takes(Head(answers))
          /\ answers' = Tail(answers)
          /\ UNCHANGED session
     ELSE Drop(call)
  /\ UNCHANGED <<kind, target, calls, timeouts>>

\* The outcomes of the two probes of an address: found if one was answered,
\* absent if both were refused, and otherwise the scan has failed.
Judged(outcome) ==
  LET probes == Append(call.probes, outcome)
      pair == {probes[i] : i \in (Len(probes) - 1)..Len(probes)}
      after == [call EXCEPT !.pc = "ready", !.todo = Tail(@), !.probes = probes]
  IN  IF Len(probes) % 2 = 1 THEN after
      ELSE IF "ok" \in pair
      THEN [after EXCEPT !.found = @ \cup {Len(probes) \div 2}]
      ELSE IF pair = {"nack"} THEN after
      ELSE [after EXCEPT !.receipt = "failed"]

Outcome(a) ==
  IF a.t = "nack" THEN "nack" ELSE IF Accepts(a) THEN "ok" ELSE "unexpected"

Probed(outcome) ==
  IF Judged(outcome).receipt = "failed" THEN Drop(Judged(outcome))
  ELSE call' = Judged(outcome) /\ UNCHANGED session

Probe ==
  /\ call.pc = "wait" /\ answers # <<>> /\ Probing
  /\ Probed(Outcome(Head(answers)))
  /\ session' # 0 => answers' = Tail(answers)
  /\ UNCHANGED <<kind, target, calls, timeouts>>

\* The scan notes that a probe timed out, and goes on.
ProbeTimesOut ==
  /\ call.pc = "wait" /\ Probing /\ timeouts < MaxTimeouts
  /\ timeouts' = timeouts + 1
  /\ Probed("timeout")
  /\ session' # 0 => UNCHANGED answers
  /\ UNCHANGED <<kind, target, calls>>

\* What the outcome of a complete script is: a raw operation cannot be proved
\* afterwards, an output must read back as asked, a capture may fall short.
Verdict ==
  CASE call.op.k = "status" -> "completed"
    [] call.op.k = "set" ->
         IF call.read = call.op.level THEN "completed" ELSE "partial"
    [] call.op.k = "capture" ->
         IF call.op.rx = Len(call.got) THEN "completed" ELSE "partial"
    [] OTHER -> IF call.reconciles THEN "partial" ELSE "completed"

Finish ==
  /\ call.pc = "ready" /\ call.todo = <<>>
  /\ call' = [call EXCEPT !.pc = "done", !.receipt = Verdict]
  /\ UNCHANGED <<kind, session, answers, target, calls, timeouts>>

Next ==
  \/ \E op \in Operations[kind], reconciles, configures \in BOOLEAN :
       Begin(op, reconciles, configures)
  \/ Send \/ CarryOut \/ Accept \/ Probe \/ ProbeTimesOut \/ Finish \/ Fail

Spec == Init /\ [][Next]_vars

-----------------------------------------------------------------------------
(* Properties *)

Own ==
  FlattenSeq([i \in DOMAIN wire |->
                IF wire[i].n = calls THEN <<wire[i]>> ELSE <<>>])

Written == FlattenSeq([i \in DOMAIN Own |-> Own[i].tx])
ReadBytes == FlattenSeq([i \in DOMAIN Own |-> Own[i].rx])

\* One transaction: started by its first transfer and stopped by its last
OneTransaction ==
  \A i \in DOMAIN Own : /\ Own[i].start = (i = 1)
                        /\ Own[i].stop = (i = Len(Own))

AsAsked ==
  LET op == call.op
  IN  CASE op.k = "spi" ->
             /\ OneTransaction
             /\ Written = op.tx /\ ReadBytes = call.got /\ Len(call.got) = op.rx
             /\ \A i, j \in DOMAIN Own :
                  i < j => Own[i].rx = <<>> \/ Own[j].tx = <<>>
        [] op.k = "i2c" ->
             /\ Len(Own) = 1 /\ OneTransaction
             /\ Written = <<WriteAddress(op.address)>> \o op.tx
             /\ ReadBytes = call.got /\ Len(call.got) = op.rx
        [] op.k = "transmit" -> Written = op.tx
        [] op.k = "capture" -> Written = <<>> /\ ReadBytes = call.got
        [] op.k = "scan" ->
             "timeout" \notin Range(call.probes) => call.found = Present
        [] OTHER -> Own = <<>>

Answered == call.pc = "done" /\ call.receipt # "error"

\* A receipt reports what happened on the bus of the target, whatever earlier
\* calls left in the instrument: a transfer was carried out once, whole, in
\* order and within one transaction however it was split, the bytes are those
\* read by it, a scan found the devices that are there, and an output that is
\* reported as set, by a call or by a reconciliation, stands as asked.
ReportsAreExact ==
  Answered =>
    /\ ~call.reconciles => AsAsked
    /\ call.op.k = "set" /\ call.receipt = "completed" => level = call.op.level

\* A call that was answered leaves nothing in its session for the next one to
\* take for its own: every request was carried out and every answer read.
\* Only a scan can (see FailureEndsSession).
ReceiptsOweNothing ==
  Answered /\ call.op.k # "scan" => requests = <<>> /\ answers = <<>>

\* What a reconciliation asked for never sets an output or writes to the bus of
\* the target, not even if it is carried out after the call has given up.
ReconciliationOnlyObserves ==
  [][level' # level \/ (Len(wire') > Len(wire) /\ Last(wire').tx # <<>>)
       => ~Head(requests).reconciles]_vars

\* backend/mod.rs:3: "Transport failure invalidates the session".  So no session
\* outlasts a call in which a request timed out.
FailureEndsSession ==
  call.pc = "done" /\ "timeout" \in Range(call.probes) => session = 0

=============================================================================
