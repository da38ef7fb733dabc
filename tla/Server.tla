------------------------------- MODULE Server -------------------------------
(***************************************************************************)
(* The daemon process and its socket (service/server.rs, and the part of   *)
(* main.rs that starts it): the lock of an instance and that of its        *)
(* journal, a stale socket, the accept loop with its permits, connections  *)
(* whose clients keep silent or hang up, and blocking tasks that outlive   *)
(* their connection.                                                       *)
(*                                                                         *)
(* What a request does is in Supervisor; here a task only takes its time.  *)
(* Inspections, which never use the journal, are left out.                 *)
(***************************************************************************)
EXTENDS Naturals, Sequences, FiniteSets

CONSTANTS
  Daemons,      \* processes that serve the same instance
  Connections,  \* connections of clients
  Nobody,       \* no process
  Permits,      \* MAX_CONCURRENT_CLIENTS
  MaxTasks,     \* bound: tasks of a process at a time
  MaxStarts,    \* bound: starts of processes
  MaxConnects   \* bound: connections made

ASSUME ServerParameters ==
  /\ Nobody \notin Daemons
  /\ IsFiniteSet(Connections)
  /\ Permits \in Nat \ {0}
  /\ MaxTasks \in Nat /\ MaxStarts \in Nat /\ MaxConnects \in Nat

VARIABLES
  lock,      \* who holds supervisor.lock
  socket,    \* whose listener the socket's name stands for; it may be gone
  daemon,    \* process -> how far it is
  tasks,     \* process -> blocking tasks that go on by themselves
  backlog,   \* process -> connections it has not accepted
  conn,      \* connection -> its state
  starts, connects  \* so far

vars == <<lock, socket, daemon, tasks, backlog, conn, starts, connects>>

Pc == {"off", "locked", "opened", "unlinked", "serving", "closing", "ending"}

Away == [pc |-> "away", at |-> Nobody, sent |-> FALSE, gone |-> FALSE]

Init ==
  /\ lock = Nobody /\ socket = Nobody
  /\ daemon = [d \in Daemons |-> "off"]
  /\ tasks = [d \in Daemons |-> 0]
  /\ backlog = [d \in Daemons |-> <<>>]
  /\ conn = [c \in Connections |-> Away]
  /\ starts = 0 /\ connects = 0

\* The connections of d in one of the states close.
Hung(d, pcs) ==
  [c \in Connections |->
     IF conn[c].at = d /\ conn[c].pc \in pcs THEN Away ELSE conn[c]]

At(d, pcs) == {c \in Connections : conn[c].at = d /\ conn[c].pc \in pcs}

Served == {"reading", "handling", "writing"}

KeepsStoreBug(d) == daemon[d] \in {"opened", "unlinked", "serving"}

\* The store, and with it the lock of its journal, lives as long as anything
\* in the process refers to it: main, a served connection, or a task.
KeepsStore(d) ==
  \/ daemon[d] \in {"opened", "unlinked", "serving"}
  \/ At(d, Served) # {}
  \/ tasks[d] > 0

-----------------------------------------------------------------------------
(* A process *)

\* acquire; if another process has the lock, this one ends at once.
Start(d) ==
  /\ daemon[d] = "off" /\ starts < MaxStarts
  /\ lock = Nobody
  /\ lock' = d
  /\ daemon' = [daemon EXCEPT ![d] = "locked"]
  /\ starts' = starts + 1
  /\ UNCHANGED <<socket, tasks, backlog, conn, connects>>

\* open_api: the journal is opened and recovered, unless a process, which need
\* not be the owner of the instance any more, keeps its lock; then the start
\* fails.
Open(d) ==
  /\ daemon[d] = "locked"
  /\ \A e \in Daemons : ~KeepsStore(e)
  /\ daemon' = [daemon EXCEPT ![d] = "opened"]
  /\ UNCHANGED <<lock, socket, tasks, backlog, conn, starts, connects>>

\* Whatever socket has the name is removed.
Unlink(d) ==
  /\ daemon[d] = "opened"
  /\ daemon' = [daemon EXCEPT ![d] = "unlinked"]
  /\ socket' = Nobody
  /\ UNCHANGED <<lock, tasks, backlog, conn, starts, connects>>

Bind(d) ==
  /\ daemon[d] = "unlinked"
  /\ socket = Nobody
  /\ daemon' = [daemon EXCEPT ![d] = "serving"]
  /\ socket' = d
  /\ UNCHANGED <<lock, tasks, backlog, conn, starts, connects>>

\* serve returns an error, or the start fails: the listener is closed and the
\* lock, which the server owns, is released; the name stays.  The tasks of the
\* runtime go on.
Close(d) ==
  /\ daemon[d] \in {"locked", "opened", "unlinked", "serving"}
  /\ daemon' = [daemon EXCEPT ![d] = "closing"]
  /\ lock' = Nobody
  /\ backlog' = [backlog EXCEPT ![d] = <<>>]
  /\ conn' = Hung(d, {"queued", "accepted"})
  /\ UNCHANGED <<socket, tasks, starts, connects>>

\* main has returned and the runtime shuts down: what serves connections is
\* dropped, and blocking tasks are waited for, with those that a connection
\* was waiting for.
Shutdown(d) ==
  /\ daemon[d] = "closing"
  /\ daemon' = [daemon EXCEPT ![d] = "ending"]
  /\ conn' = Hung(d, Served)
  /\ \E n \in 0..Cardinality(At(d, {"handling"})) :
       tasks' = [tasks EXCEPT ![d] = @ + n]
  /\ UNCHANGED <<lock, socket, backlog, starts, connects>>

ExitBug(d) ==
  /\ daemon[d] = "ending" /\ tasks[d] = 0
  /\ daemon' = [daemon EXCEPT ![d] = "off"]
  /\ socket' = Nobody
  /\ UNCHANGED <<lock, tasks, backlog, conn, starts, connects>>

Exit(d) ==
  /\ daemon[d] = "ending" /\ tasks[d] = 0
  /\ daemon' = [daemon EXCEPT ![d] = "off"]
  /\ UNCHANGED <<lock, socket, tasks, backlog, conn, starts, connects>>

\* The process is killed: the kernel closes its files.
Die(d) ==
  /\ daemon[d] # "off"
  /\ daemon' = [daemon EXCEPT ![d] = "off"]
  /\ lock' = IF lock = d THEN Nobody ELSE lock
  /\ tasks' = [tasks EXCEPT ![d] = 0]
  /\ backlog' = [backlog EXCEPT ![d] = <<>>]
  /\ conn' = Hung(d, {"queued", "accepted"} \cup Served)
  /\ UNCHANGED <<socket, starts, connects>>

TaskEnds(d) ==
  /\ tasks[d] > 0
  /\ tasks' = [tasks EXCEPT ![d] = @ - 1]
  /\ UNCHANGED <<lock, socket, daemon, backlog, conn, starts, connects>>

-----------------------------------------------------------------------------
(* Clients *)

\* The name may stand for a listener that is gone: the client is refused.
Connect(c) ==
  /\ conn[c].pc = "away" /\ connects < MaxConnects
  /\ socket # Nobody /\ daemon[socket] = "serving"
  /\ conn' = [conn EXCEPT ![c] = [Away EXCEPT !.pc = "queued", !.at = socket]]
  /\ backlog' = [backlog EXCEPT ![socket] = Append(@, c)]
  /\ connects' = connects + 1
  /\ UNCHANGED <<lock, socket, daemon, tasks, starts>>

\* The frame of the request is in the socket, accepted or not.
Send(c) ==
  /\ conn[c].pc \in {"queued", "accepted", "reading"}
  /\ ~conn[c].sent /\ ~conn[c].gone
  /\ conn' = [conn EXCEPT ![c].sent = TRUE]
  /\ UNCHANGED <<lock, socket, daemon, tasks, backlog, starts, connects>>

\* The client ends, or runs into its own time limit.
HangUp(c) ==
  /\ conn[c].pc # "away" /\ ~conn[c].gone
  /\ conn' = [conn EXCEPT ![c].gone = TRUE]
  /\ UNCHANGED <<lock, socket, daemon, tasks, backlog, starts, connects>>

-----------------------------------------------------------------------------
(* serve and serve_client *)

\* The loop accepts one connection and waits for a permit for it before it
\* accepts the next.
Accept(d) ==
  /\ daemon[d] = "serving" /\ backlog[d] # <<>>
  /\ At(d, {"accepted"}) = {}
  /\ conn' = [conn EXCEPT ![Head(backlog[d])].pc = "accepted"]
  /\ backlog' = [backlog EXCEPT ![d] = Tail(@)]
  /\ UNCHANGED <<lock, socket, daemon, tasks, starts, connects>>

Admit(d) ==
  /\ daemon[d] = "serving"
  /\ Cardinality(At(d, Served)) < Permits
  /\ \E c \in At(d, {"accepted"}) :
       conn' = [conn EXCEPT ![c].pc = "reading"]
  /\ UNCHANGED <<lock, socket, daemon, tasks, backlog, starts, connects>>

\* The request is read, or refused for its credential or its form.
Read(c) ==
  /\ conn[c].pc = "reading" /\ conn[c].sent
  /\ \E pc \in {"handling", "writing", "away"} :
       conn' = [conn EXCEPT ![c] =
         IF pc = "away" THEN Away ELSE [@ EXCEPT !.pc = pc]]
  /\ UNCHANGED <<lock, socket, daemon, tasks, backlog, starts, connects>>

ReadEndsBug(c) ==
  /\ conn[c].pc = "reading" /\ ~conn[c].sent /\ conn[c].gone
  /\ conn' = [conn EXCEPT ![c] = Away]
  /\ UNCHANGED <<lock, socket, daemon, tasks, backlog, starts, connects>>

\* No request comes: the client is gone, or the time limit passes.
ReadEnds(c) ==
  /\ conn[c].pc = "reading" /\ ~conn[c].sent
  /\ conn' = [conn EXCEPT ![c] = Away]
  /\ UNCHANGED <<lock, socket, daemon, tasks, backlog, starts, connects>>

\* The request is handled, here or by a task that is waited for; it may leave
\* a task behind.
Handle(c) ==
  LET d == conn[c].at IN
  /\ conn[c].pc = "handling"
  /\ conn' = [conn EXCEPT ![c].pc = "writing"]
  /\ \/ tasks[d] < MaxTasks /\ tasks' = [tasks EXCEPT ![d] = @ + 1]
     \/ UNCHANGED tasks
  /\ UNCHANGED <<lock, socket, daemon, backlog, starts, connects>>

\* The reply is written, or nobody takes it, and the connection is closed.
Write(c) ==
  /\ conn[c].pc = "writing"
  /\ conn' = [conn EXCEPT ![c] = Away]
  /\ UNCHANGED <<lock, socket, daemon, tasks, backlog, starts, connects>>

Serve(c) == Read(c) \/ ReadEnds(c) \/ Handle(c) \/ Write(c)

Next ==
  \/ \E d \in Daemons :
       \/ Start(d) \/ Open(d) \/ Unlink(d) \/ Bind(d)
       \/ Close(d) \/ Shutdown(d) \/ Exit(d) \/ Die(d)
       \/ TaskEnds(d) \/ Accept(d) \/ Admit(d)
  \/ \E c \in Connections : Connect(c) \/ Send(c) \/ HangUp(c) \/ Serve(c)

Spec == Init /\ [][Next]_vars

\* The runtime runs the accept loop, the connections and their timers.
FairSpec ==
  /\ Spec
  /\ \A d \in Daemons : WF_vars(Accept(d)) /\ WF_vars(Admit(d))
  /\ \A c \in Connections : WF_vars(Serve(c))

-----------------------------------------------------------------------------
(* Properties *)

Working(d) ==
  \/ daemon[d] \in {"opened", "unlinked", "serving"}
  \/ At(d, {"handling"}) # {}
  \/ tasks[d] > 0

\* One process at a time recovers the journal, serves it or has a task that
\* works on it, although the lock of the instance is gone when serve fails and
\* tasks go on after that.  (acquire_journal_lock, main.rs)
OneOwner == \A d, e \in Daemons : Working(d) /\ Working(e) => d = e

\* The socket's name stands for the process that serves, though another one
\* may still be ending and stale names are left behind.  (serve)
OwnerReachable == \A d \in Daemons : daemon[d] = "serving" => socket = d

\* Silent clients and clients that hang up do not keep the permits: every
\* connection is accepted, served and closed in the end.  (serve,
\* read_json_frame, write_json_frame)
ConnectionsEnd ==
  \A c \in Connections : conn[c].pc # "away" ~> conn[c].pc = "away"

=============================================================================
