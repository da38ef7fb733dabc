---------------------------- MODULE ServerProofs ----------------------------
(***************************************************************************)
(* Proofs about Server: one process works on the journal, and the process  *)
(* that serves is the one the socket's name stands for.                    *)
(***************************************************************************)
EXTENDS Server, FiniteSetTheorems, TLAPS

ConnPc == {"away", "queued", "accepted"} \cup Served

Conn == [pc : ConnPc, at : Daemons \cup {Nobody}, sent : BOOLEAN,
         gone : BOOLEAN]

ServerTyped ==
  /\ socket \in Daemons \cup {Nobody}
  /\ daemon \in [Daemons -> Pc]
  /\ tasks \in [Daemons -> Nat]
  /\ conn \in [Connections -> Conn]

\* From start to close, a process has the lock of the instance.
Owns(d) == daemon[d] \in {"locked", "opened", "unlinked", "serving"}

\* The owner has the lock, so that a stale name is removed, and a new one
\* bound, while nobody serves.
OwnerLocked ==
  /\ \A d \in Daemons : Owns(d) => lock = d
  /\ \A d \in Daemons : daemon[d] = "serving" => socket = d

\* The lock of the journal has one holder, who need not own the instance.
OneStore == \A d, e \in Daemons : KeepsStore(d) /\ KeepsStore(e) => d = e

ServerInv == ServerTyped /\ OwnerLocked /\ OneStore

-----------------------------------------------------------------------------

LEMMA InitServer == Init => ServerInv
<1> SUFFICES ASSUME Init PROVE ServerInv
  OBVIOUS
<1>1. ServerTyped
  BY DEF Init, ServerTyped, Pc, Away, Conn, ConnPc, Served
<1>2. OwnerLocked
  BY DEF Init, OwnerLocked, Owns
<1>3. \A d \in Daemons : ~KeepsStore(d)
  BY DEF Init, KeepsStore, At, Away, Served
<1> QED  BY <1>1, <1>2, <1>3 DEF ServerInv, OneStore

\* Every step keeps the shapes.
LEMMA StepTyped == ServerTyped /\ [Next]_vars => ServerTyped'
<1> SUFFICES ASSUME ServerTyped, [Next]_vars PROVE ServerTyped'
  OBVIOUS
<1>1. Away \in Conn
  BY DEF Away, Conn, ConnPc
<1>2. ASSUME NEW d \in Daemons, NEW pcs
      PROVE  Hung(d, pcs) \in [Connections -> Conn]
  BY <1>1 DEF Hung, ServerTyped
<1>3. ASSUME NEW d \in Daemons,
             Start(d) \/ Open(d) \/ Unlink(d) \/ Bind(d) \/ Exit(d)
      PROVE  ServerTyped'
  BY <1>3 DEF Start, Open, Unlink, Bind, Exit, ServerTyped, Pc
<1>4. ASSUME NEW d \in Daemons, Close(d) \/ Die(d)
      PROVE  ServerTyped'
  BY <1>2, <1>4 DEF Close, Die, ServerTyped, Pc
<1>5. ASSUME NEW d \in Daemons, Shutdown(d)
      PROVE  ServerTyped'
  <2>1. PICK n \in 0..Cardinality(At(d, {"handling"})) :
          tasks' = [tasks EXCEPT ![d] = @ + n]
    BY <1>5 DEF Shutdown
  <2>2. n \in Nat
    OBVIOUS
  <2>3. tasks' \in [Daemons -> Nat]
    BY <2>1, <2>2 DEF ServerTyped
  <2> QED  BY <1>2, <1>5, <2>3 DEF Shutdown, ServerTyped, Pc
<1>6. ASSUME NEW d \in Daemons, TaskEnds(d)
      PROVE  ServerTyped'
  BY <1>6 DEF TaskEnds, ServerTyped
<1>7. ASSUME NEW d \in Daemons, Accept(d) \/ Admit(d)
      PROVE  ServerTyped'
  <2>1. PICK c : \E pc \in {"accepted", "reading"} :
          conn' = [conn EXCEPT ![c].pc = pc]
    BY <1>7 DEF Accept, Admit
  <2>2. conn' \in [Connections -> Conn]
    <3>1. PICK pc \in ConnPc : conn' = [conn EXCEPT ![c].pc = pc]
      BY <2>1 DEF ConnPc, Served
    <3>2. ASSUME NEW x \in Conn PROVE [x EXCEPT !.pc = pc] \in Conn
      BY DEF Conn
    <3> QED  BY <3>1, <3>2 DEF ServerTyped
  <2>3. UNCHANGED <<socket, daemon, tasks>>
    BY <1>7 DEF Accept, Admit
  <2> QED  BY <2>2, <2>3 DEF ServerTyped
<1>8. ASSUME NEW c \in Connections, Connect(c)
      PROVE  ServerTyped'
  <2>1. [Away EXCEPT !.pc = "queued", !.at = socket] \in Conn
    BY <1>8 DEF Connect, ServerTyped, Away, Conn, ConnPc
  <2> QED  BY <1>8, <2>1 DEF Connect, ServerTyped
<1>9. ASSUME NEW c \in Connections, Send(c) \/ HangUp(c) \/ Serve(c)
      PROVE  ServerTyped'
  <2>1. conn[c] \in Conn
    BY DEF ServerTyped
  <2>2. PICK next \in Conn : conn' = [conn EXCEPT ![c] = next]
    <3>1. CASE Send(c) \/ HangUp(c)
      BY <2>1, <3>1 DEF Send, HangUp, Conn
    <3>2. CASE Read(c)
      BY <1>1, <2>1, <3>2 DEF Read, Conn, ConnPc, Served
    <3>3. CASE ReadEnds(c) \/ Write(c)
      BY <1>1, <3>3 DEF ReadEnds, Write
    <3>4. CASE Handle(c)
      BY <2>1, <3>4 DEF Handle, Conn, ConnPc, Served
    <3> QED  BY <1>9, <3>1, <3>2, <3>3, <3>4 DEF Serve
  <2>3. tasks' \in [Daemons -> Nat]
    BY <1>9
       DEF Send, HangUp, Serve, Read, ReadEnds, Handle, Write, ServerTyped
  <2>4. UNCHANGED <<socket, daemon>>
    BY <1>9 DEF Send, HangUp, Serve, Read, ReadEnds, Handle, Write
  <2> QED  BY <2>2, <2>3, <2>4 DEF ServerTyped
<1>10. CASE UNCHANGED vars
  BY <1>10 DEF vars, ServerTyped
<1> QED
  BY <1>3, <1>4, <1>5, <1>6, <1>7, <1>8, <1>9, <1>10 DEF Next

\* Where processes start, open the journal and bind the socket.
LEMMA ProcessKeepsOwner ==
  ASSUME ServerTyped, OwnerLocked, NEW d \in Daemons,
         Start(d) \/ Open(d) \/ Unlink(d) \/ Bind(d)
  PROVE  OwnerLocked'
<1>1. CASE Start(d)
  BY <1>1, ServerParameters DEF Start, ServerTyped, OwnerLocked, Owns, Pc
<1>2. CASE Open(d)
  BY <1>2 DEF Open, ServerTyped, OwnerLocked, Owns, Pc
<1>3. ASSUME daemon[d] \in {"opened", "unlinked"}, NEW e \in Daemons, e # d
      PROVE  daemon[e] # "serving"
  BY <1>3 DEF OwnerLocked, Owns
<1>4. CASE Unlink(d)
  BY <1>3, <1>4 DEF Unlink, ServerTyped, OwnerLocked, Owns, Pc
<1>5. CASE Bind(d)
  BY <1>3, <1>5 DEF Bind, ServerTyped, OwnerLocked, Owns, Pc
<1> QED
  BY <1>1, <1>2, <1>4, <1>5

\* Where they end: the lock goes, the socket's name stays.
LEMMA EndKeepsOwner ==
  ASSUME ServerTyped, OwnerLocked, NEW d \in Daemons,
         Close(d) \/ Shutdown(d) \/ Exit(d) \/ Die(d)
  PROVE  OwnerLocked'
<1>1. CASE Close(d)
  <2>1. \A e \in Daemons : e # d => ~Owns(e)
    BY <1>1 DEF Close, OwnerLocked, Owns
  <2> QED
    BY <1>1, <2>1 DEF Close, ServerTyped, OwnerLocked, Owns, Pc
<1>2. CASE Shutdown(d) \/ Exit(d)
  BY <1>2 DEF Shutdown, Exit, ServerTyped, OwnerLocked, Owns, Pc
<1>3. CASE Die(d)
  BY <1>3, ServerParameters DEF Die, ServerTyped, OwnerLocked, Owns, Pc
<1> QED
  BY <1>1, <1>2, <1>3

LEMMA StepKeepsOwner ==
  ServerTyped /\ OwnerLocked /\ [Next]_vars => OwnerLocked'
<1> SUFFICES ASSUME ServerTyped, OwnerLocked, [Next]_vars PROVE OwnerLocked'
  OBVIOUS
<1>1. ASSUME NEW d \in Daemons, TaskEnds(d) \/ Accept(d) \/ Admit(d)
      PROVE  UNCHANGED <<lock, socket, daemon>>
  BY <1>1 DEF TaskEnds, Accept, Admit
<1>2. ASSUME NEW c \in Connections,
             Connect(c) \/ Send(c) \/ HangUp(c) \/ Serve(c)
      PROVE  UNCHANGED <<lock, socket, daemon>>
  BY <1>2 DEF Connect, Send, HangUp, Serve, Read, ReadEnds, Handle, Write
<1>3. ASSUME UNCHANGED <<lock, socket, daemon>> PROVE OwnerLocked'
  BY <1>3 DEF OwnerLocked, Owns
<1> QED
  BY <1>1, <1>2, <1>3, ProcessKeepsOwner, EndKeepsOwner DEF Next, vars

-----------------------------------------------------------------------------
(* The store *)

\* No connection is served, and no task begins, in a process that does not
\* keep the store already: only open_api gives it to one.
NobodyGains == \A e \in Daemons : KeepsStore(e)' => KeepsStore(e)

LEMMA ConnectionsGainNothing ==
  ASSUME ServerTyped, NEW c \in Connections,
         Connect(c) \/ Send(c) \/ HangUp(c) \/ Serve(c)
  PROVE  NobodyGains
<1>1. CASE Connect(c)
  <2>1. ASSUME NEW e \in Daemons, NEW x \in At(e, Served)'
        PROVE  x \in At(e, Served)
    BY <1>1, <2>1 DEF Connect, At, Served, ServerTyped, Conn, Away
  <2> QED  BY <1>1, <2>1 DEF Connect, NobodyGains, KeepsStore
<1>2. CASE Send(c) \/ HangUp(c) \/ Read(c) \/ ReadEnds(c) \/ Write(c)
  <2>1. ASSUME NEW e \in Daemons, NEW x \in At(e, Served)'
        PROVE  x \in At(e, Served)
    BY <1>2, <2>1
       DEF Send, HangUp, Read, ReadEnds, Write, At, Served, ServerTyped, Conn,
           Away
  <2> QED
    BY <1>2, <2>1
       DEF Send, HangUp, Read, ReadEnds, Write, NobodyGains, KeepsStore
<1>3. CASE Handle(c)
  <2> DEFINE d == conn[c].at
  <2>1. ASSUME NEW e \in Daemons, NEW x \in At(e, Served)'
        PROVE  x \in At(e, Served)
    BY <1>3, <2>1 DEF Handle, At, Served, ServerTyped, Conn
  <2>2. c \in At(d, Served)
    BY <1>3 DEF Handle, At, Served
  <2>3. \A e \in Daemons : e # d => tasks'[e] = tasks[e]
    BY <1>3 DEF Handle, ServerTyped
  <2>4. daemon' = daemon
    BY <1>3 DEF Handle
  <2> HIDE DEF d
  <2> QED  BY <2>1, <2>2, <2>3, <2>4 DEF NobodyGains, KeepsStore
<1> QED  BY <1>1, <1>2, <1>3 DEF Serve

LEMMA EndGainsNothing ==
  ASSUME ServerTyped, NEW d \in Daemons,
         Close(d) \/ Shutdown(d) \/ Exit(d) \/ Die(d)
  PROVE  NobodyGains
<1>1. ASSUME NEW pcs, conn' = Hung(d, pcs), NEW e \in Daemons,
             NEW x \in At(e, Served)'
      PROVE  x \in At(e, Served)
  BY <1>1 DEF Hung, At, Served, Away
<1>2. CASE Close(d) \/ Die(d)
  <2>1. \A e \in Daemons : At(e, Served)' \subseteq At(e, Served)
    BY <1>1, <1>2 DEF Close, Die
  <2>2. \A e \in Daemons : tasks'[e] > 0 => tasks[e] > 0
    BY <1>2 DEF Close, Die, ServerTyped
  <2>3. \A e \in Daemons :
          daemon'[e] \in {"opened", "unlinked", "serving"} => daemon'[e] = daemon[e]
    BY <1>2 DEF Close, Die, ServerTyped
  <2> QED  BY <2>1, <2>2, <2>3 DEF NobodyGains, KeepsStore
<1>3. CASE Shutdown(d)
  <2>1. \A e \in Daemons : At(e, Served)' \subseteq At(e, Served)
    BY <1>1, <1>3 DEF Shutdown
  <2>2. \A e \in Daemons :
          daemon'[e] \in {"opened", "unlinked", "serving"} => daemon'[e] = daemon[e]
    BY <1>3 DEF Shutdown, ServerTyped
  <2>3. PICK n \in 0..Cardinality(At(d, {"handling"})) :
          tasks' = [tasks EXCEPT ![d] = @ + n]
    BY <1>3 DEF Shutdown
  <2>4. \A e \in Daemons : e # d => tasks'[e] = tasks[e]
    BY <2>3 DEF ServerTyped
  <2>5. CASE At(d, {"handling"}) = {}
    <3>1. n = 0
      BY <2>3, <2>5, FS_EmptySet
    <3>2. tasks'[d] = tasks[d]
      BY <2>3, <3>1 DEF ServerTyped
    <3> QED  BY <2>1, <2>2, <2>4, <3>2 DEF NobodyGains, KeepsStore
  <2>6. CASE At(d, {"handling"}) # {}
    <3>1. KeepsStore(d)
      BY <2>6 DEF KeepsStore, At, Served
    <3> QED  BY <2>1, <2>2, <2>4, <3>1 DEF NobodyGains, KeepsStore
  <2> QED  BY <2>5, <2>6
<1>4. CASE Exit(d)
  BY <1>4 DEF Exit, NobodyGains, KeepsStore, At, ServerTyped
<1> QED  BY <1>2, <1>3, <1>4

LEMMA ProcessGainsNothing ==
  ASSUME ServerTyped, NEW d \in Daemons,
         \/ Start(d) \/ Unlink(d) \/ Bind(d)
         \/ TaskEnds(d) \/ Accept(d) \/ Admit(d)
  PROVE  NobodyGains
<1>1. CASE Start(d) \/ Unlink(d) \/ Bind(d)
  BY <1>1
     DEF Start, Unlink, Bind, NobodyGains, KeepsStore, At, ServerTyped
<1>2. CASE TaskEnds(d)
  BY <1>2 DEF TaskEnds, NobodyGains, KeepsStore, At, ServerTyped
<1>3. CASE Accept(d)
  <2>1. ASSUME NEW e \in Daemons, NEW x \in At(e, Served)'
        PROVE  x \in At(e, Served)
    BY <1>3, <2>1 DEF Accept, At, Served, ServerTyped, Conn
  <2> QED  BY <1>3, <2>1 DEF Accept, NobodyGains, KeepsStore
<1>4. CASE Admit(d)
  <2>1. KeepsStore(d)
    BY <1>4 DEF Admit, KeepsStore
  <2>2. ASSUME NEW e \in Daemons, e # d, NEW x \in At(e, Served)'
        PROVE  x \in At(e, Served)
    BY <1>4, <2>2 DEF Admit, At, Served, ServerTyped, Conn
  <2> QED  BY <1>4, <2>1, <2>2 DEF Admit, NobodyGains, KeepsStore
<1> QED  BY <1>1, <1>2, <1>3, <1>4

LEMMA StepKeepsStore == ServerTyped /\ OneStore /\ [Next]_vars => OneStore'
<1> SUFFICES ASSUME ServerTyped, OneStore, [Next]_vars PROVE OneStore'
  OBVIOUS
<1>1. ASSUME NobodyGains PROVE OneStore'
  BY <1>1 DEF NobodyGains, OneStore
<1>2. ASSUME NEW d \in Daemons, Open(d) PROVE OneStore'
  <2>1. \A e \in Daemons : e # d => ~KeepsStore(e)'
    BY <1>2 DEF Open, KeepsStore, At, ServerTyped
  <2> QED  BY <2>1 DEF OneStore
<1>3. CASE UNCHANGED vars
  BY <1>3 DEF vars, OneStore, KeepsStore, At
<1> QED
  BY <1>1, <1>2, <1>3, ConnectionsGainNothing, EndGainsNothing,
     ProcessGainsNothing
     DEF Next

LEMMA ServerInvariant == Spec => []ServerInv
<1>1. ServerInv /\ [Next]_vars => ServerInv'
  BY StepTyped, StepKeepsOwner, StepKeepsStore DEF ServerInv
<1> QED  BY InitServer, <1>1, PTL DEF Spec

\* One process at a time works on the journal, for any number of processes,
\* tasks, failures and deaths: a start that comes too early gets the lock of
\* the instance, but not the journal.  (acquire_journal_lock, main.rs)
THEOREM OwnersAlone == Spec => []OneOwner
<1>1. ServerInv => OneOwner
  <2> SUFFICES ASSUME ServerInv PROVE OneOwner
    OBVIOUS
  <2>1. \A d \in Daemons : Working(d) => KeepsStore(d)
    BY DEF Working, KeepsStore, At, Served
  <2> QED  BY <2>1 DEF ServerInv, OneStore, OneOwner
<1> QED
  BY <1>1, ServerInvariant, PTL

\* The socket's name stands for the process that serves, whatever stale names
\* and ending processes there are.  (serve)
THEOREM NameReachesOwner == Spec => []OwnerReachable
<1>1. ServerInv => OwnerReachable
  BY DEF ServerInv, OwnerLocked, OwnerReachable
<1> QED
  BY <1>1, ServerInvariant, PTL

=============================================================================
