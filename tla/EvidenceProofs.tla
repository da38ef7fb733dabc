--------------------------- MODULE EvidenceProofs ---------------------------
(***************************************************************************)
(* The evidence store keeps the promise of Archive, for every number of    *)
(* publishers, artifacts, sources and losses of power.                     *)
(***************************************************************************)
EXTENDS Evidence, TLAPS

\* What was synchronized is what processes see, or older.
DiskBehind ==
  /\ \A d \in Digest : disk.names[d] \in {None, names[d]}
  /\ disk.marks \subseteq marks

\* A linked file is complete, for processes and on the disk.
LinkedFull ==
  \A d \in Digest :
    names[d] # None => /\ content[names[d]] = "full"
                       /\ disk.content[names[d]] = "full"

\* How far each publisher has come.
Progress ==
  \A w \in Publisher :
    /\ pub[w].pc # "idle" => pub[w].digest \in Digest /\ pub[w].source \in Source
    /\ pub[w].pc \in {"write", "flush", "link", "unlink"} => pub[w].file \in File
    /\ pub[w].pc \in {"write", "flush", "link"} => content[pub[w].file] # "none"
    /\ pub[w].pc \in {"flush", "link"} => content[pub[w].file] = "full"
    /\ pub[w].pc = "link" => disk.content[pub[w].file] = "full"
    /\ pub[w].pc \in {"syncfile", "syncdir", "unlink", "syncgone"} =>
         names[pub[w].digest] # None
    /\ pub[w].pc \in {"mark", "syncmark"} => disk.names[pub[w].digest] # None
    /\ pub[w].pc = "syncmark" => Entered(w) \in marks

\* A marker never refers to an artifact that a loss of power can take away.
MarksBacked == \A e \in marks : disk.names[e[1]] # None

EvidenceInv ==
  /\ EvidenceTypeOK
  /\ DiskBehind /\ LinkedFull /\ MarksBacked /\ Progress /\ AckedSurvives

-----------------------------------------------------------------------------

\* An empty store satisfies the invariant.
LEMMA InitSound == Init => EvidenceInv
BY EvidenceParameters
   DEF Init, EvidenceInv, EvidenceTypeOK, DiskBehind, LinkedFull, MarksBacked,
       Progress, AckedSurvives, Idle, Pc, Content, Entry, Disk, Call

\* A publisher that goes on to its next step changes nothing else of itself.
LEMMA GoesOn ==
  ASSUME EvidenceTypeOK, NEW w \in Publisher, NEW pc \in Pc, Goes(w, pc)
  PROVE  /\ pub' \in [Publisher -> Call]
         /\ pub'[w].pc = pc /\ pub'[w].digest = pub[w].digest
         /\ pub'[w].source = pub[w].source /\ pub'[w].file = pub[w].file
         /\ \A v \in Publisher : v # w => pub'[v] = pub[v]
<1>1. pub[w] \in Call /\ pub \in [Publisher -> Call]
  BY DEF EvidenceTypeOK
<1> DEFINE next == [pub[w] EXCEPT !.pc = pc]
<1>2. /\ next \in Call /\ next.pc = pc /\ next.digest = pub[w].digest
      /\ next.source = pub[w].source /\ next.file = pub[w].file
  BY <1>1 DEF Call
<1>3. pub' = [pub EXCEPT ![w] = next]
  BY DEF Goes
<1> HIDE DEF next
<1> QED  BY <1>1, <1>2, <1>3

\* Every operation of a publisher preserves the invariant.
LEMMA StepSound ==
  ASSUME EvidenceInv, NEW w \in Publisher, Step(w)
  PROVE  EvidenceInv'
<1> USE EvidenceParameters DEF EvidenceInv
<1>1. CASE \E d \in Digest, s \in Source : Publish(w, d, s)
  BY <1>1 DEF Publish, files, EvidenceTypeOK, DiskBehind,
     LinkedFull, MarksBacked, Progress, AckedSurvives, Pc, Content, Entry,
     Entered, Disk, Call
<1>2. CASE Probe(w)
  <2>1. PICK pc \in {"create", "syncfile"} :
          /\ Goes(w, pc) /\ UNCHANGED <<files, acked, left, losses>>
          /\ pub[w].pc = "probe"
          /\ pc = "syncfile" => names[pub[w].digest] # None
    BY <1>2 DEF Probe
  <2>2. EvidenceTypeOK'
    BY <2>1, GoesOn DEF files, EvidenceTypeOK, Pc
  <2>3. DiskBehind' /\ LinkedFull' /\ MarksBacked' /\ AckedSurvives'
    BY <2>1 DEF files, DiskBehind, LinkedFull, MarksBacked, AckedSurvives
  <2>4. Progress'
    BY <2>1, GoesOn DEF files, Progress, Entered, Pc
  <2> QED  BY <2>2, <2>3, <2>4
<1>3. CASE Create(w)
  <2>1. EvidenceTypeOK'
    <3>1. disk' \in Disk
      BY <1>3 DEF Create, EvidenceTypeOK, Disk, Content
    <3>2. pub' \in [Publisher -> Call]
      <4>1. PICK f \in File :
              pub' = [pub EXCEPT ![w].pc = "write", ![w].file = f]
        BY <1>3 DEF Create
      <4>2. [pub[w] EXCEPT !.pc = "write", !.file = f] \in Call
        BY DEF EvidenceTypeOK, Call, Pc
      <4>3. pub' = [pub EXCEPT ![w] = [pub[w] EXCEPT !.pc = "write",
                                                     !.file = f]]
        BY <4>1 DEF EvidenceTypeOK, Call
      <4> QED  BY <4>2, <4>3 DEF EvidenceTypeOK
    <3> QED  BY <1>3, <3>1, <3>2 DEF Create, EvidenceTypeOK, Content
  <2>2. DiskBehind' /\ MarksBacked' /\ AckedSurvives'
    BY <1>3
       DEF Create, EvidenceTypeOK, DiskBehind, MarksBacked, AckedSurvives,
           Entry, Disk, Call
  <2>3. LinkedFull'
    BY <1>3
       DEF Create, EvidenceTypeOK, DiskBehind, LinkedFull, Progress, Content,
           Disk, Call
  <2>4. Progress'
    BY <1>3
       DEF Create, EvidenceTypeOK, DiskBehind, LinkedFull, MarksBacked,
           Progress, Entered, Disk, Call
  <2> QED  BY <2>1, <2>2, <2>3, <2>4
<1>4. CASE Write(w)
  <2>1. EvidenceTypeOK'
    <3>1. disk' \in Disk
      BY <1>4 DEF Write, Goes, EvidenceTypeOK, Disk, Content
    <3>2. pub' \in [Publisher -> Call]
      BY <1>4, GoesOn DEF Write, Pc
    <3> QED  BY <1>4, <3>1, <3>2 DEF Write, Goes, EvidenceTypeOK, Content
  <2>2. DiskBehind' /\ MarksBacked' /\ AckedSurvives'
    BY <1>4
       DEF Write, Goes, EvidenceTypeOK, DiskBehind, MarksBacked,
           AckedSurvives, Entry, Disk, Call
  <2>3. LinkedFull'
    BY <1>4
       DEF Write, Goes, EvidenceTypeOK, DiskBehind, LinkedFull, Progress,
           Content, Disk, Call
  <2>4. Progress'
    BY <1>4
       DEF Write, Goes, EvidenceTypeOK, DiskBehind, LinkedFull, MarksBacked,
           Progress, Entered, Disk, Call
  <2> QED  BY <2>1, <2>2, <2>3, <2>4
<1>5. CASE Flush(w)
  <2>1. EvidenceTypeOK'
    <3>1. disk' \in Disk
      BY <1>5 DEF Flush, EvidenceTypeOK, Disk
    <3>2. pub' \in [Publisher -> Call]
      BY <1>5, GoesOn DEF Flush, Pc
    <3> QED  BY <1>5, <3>1, <3>2 DEF Flush, EvidenceTypeOK
  <2>2. DiskBehind' /\ MarksBacked' /\ AckedSurvives'
    BY <1>5
       DEF Flush, EvidenceTypeOK, DiskBehind, MarksBacked, AckedSurvives,
           Disk
  <2>3. LinkedFull'
    BY <1>5
       DEF Flush, EvidenceTypeOK, DiskBehind, LinkedFull, Progress, Disk
  <2>4. Progress'
    <3>1. UNCHANGED <<content, names, marks>> /\ Goes(w, "link")
      BY <1>5 DEF Flush
    <3>2. \A d \in Digest : disk'.names[d] = disk.names[d]
      BY <1>5 DEF Flush, EvidenceTypeOK, Disk
    <3>3. \A f \in File :
            content[f] = "full" /\ disk.content[f] = "full"
              => disk'.content[f] = "full"
      BY <1>5 DEF Flush, EvidenceTypeOK, Disk
    <3>4. /\ pub[w].pc = "flush" /\ pub[w].file \in File
          /\ content[pub[w].file] = "full"
      BY <1>5 DEF Flush, Progress
    <3>5. disk'.content[pub[w].file] = "full"
      BY <1>5, <3>4 DEF Flush, EvidenceTypeOK, Disk
    <3>6. \A v \in Publisher : v # w => pub'[v] = pub[v]
      BY <3>1, GoesOn DEF Pc
    <3>7. /\ pub'[w].pc = "link" /\ pub'[w].digest = pub[w].digest
          /\ pub'[w].source = pub[w].source /\ pub'[w].file = pub[w].file
      BY <3>1, GoesOn DEF Pc
    <3>8. ASSUME NEW v \in Publisher, v # w, pub[v].pc = "link"
          PROVE  disk'.content[pub[v].file] = "full"
      BY <3>3, <3>8 DEF Progress
    <3> QED
      BY <3>1, <3>2, <3>4, <3>5, <3>6, <3>7, <3>8 DEF Progress, Entered
  <2> QED  BY <2>1, <2>2, <2>3, <2>4
<1>6. CASE Link(w)
  <2>1. EvidenceTypeOK'
    <3>1. disk' \in Disk
      BY <1>6 DEF Link, Goes, EvidenceTypeOK, Disk, Content
    <3>2. pub' \in [Publisher -> Call]
      BY <1>6, GoesOn DEF Link, Pc
    <3> QED
      BY <1>6, <3>1, <3>2 DEF Link, Goes, EvidenceTypeOK, Content, Progress
  <2>2. DiskBehind' /\ MarksBacked' /\ AckedSurvives'
    BY <1>6
       DEF Link, Goes, EvidenceTypeOK, DiskBehind, MarksBacked, AckedSurvives,
           Entry, Disk, Call
  <2>3. LinkedFull'
    BY <1>6
       DEF Link, Goes, EvidenceTypeOK, DiskBehind, LinkedFull, Progress,
           Content, Disk, Call
  <2>4. Progress'
    BY <1>6
       DEF Link, Goes, EvidenceTypeOK, DiskBehind, LinkedFull, MarksBacked,
           Progress, Entered, Disk, Call
  <2> QED  BY <2>1, <2>2, <2>3, <2>4
<1>7. CASE Verify(w)
  BY <1>7 DEF Verify, Goes, files, EvidenceTypeOK, DiskBehind,
     LinkedFull, MarksBacked, Progress, AckedSurvives, Pc, Content, Entry,
     Entered, Disk, Call
<1>8. CASE SyncFile(w)
  <2>1. EvidenceTypeOK'
    <3>1. disk' \in Disk
      BY <1>8 DEF SyncFile, EvidenceTypeOK, Disk
    <3>2. pub' \in [Publisher -> Call]
      BY <1>8, GoesOn DEF SyncFile, Pc
    <3> QED  BY <1>8, <3>1, <3>2 DEF SyncFile, EvidenceTypeOK
  <2>2. DiskBehind' /\ MarksBacked' /\ AckedSurvives'
    BY <1>8
       DEF SyncFile, EvidenceTypeOK, DiskBehind, MarksBacked, AckedSurvives,
           Disk
  <2>3. LinkedFull'
    BY <1>8
       DEF SyncFile, EvidenceTypeOK, DiskBehind, LinkedFull, Progress, Disk
  <2>4. Progress'
    <3>1. UNCHANGED <<content, names, marks>> /\ Goes(w, "syncdir")
      BY <1>8 DEF SyncFile
    <3>2. \A d \in Digest : disk'.names[d] = disk.names[d]
      BY <1>8 DEF SyncFile, EvidenceTypeOK, Disk
    <3>3. \A f \in File :
            content[f] = "full" /\ disk.content[f] = "full"
              => disk'.content[f] = "full"
      BY <1>8 DEF SyncFile, EvidenceTypeOK, Disk
    <3>4. pub[w].pc = "syncfile"
      BY <1>8 DEF SyncFile
    <3> QED  BY <3>1, <3>2, <3>3, <3>4, GoesOn DEF Progress, Pc, Entered
  <2> QED  BY <2>1, <2>2, <2>3, <2>4
<1>9. CASE SyncDir(w)
  <2>1. EvidenceTypeOK'
    <3>1. disk' \in Disk
      BY <1>9 DEF SyncDir, Synced, Goes, EvidenceTypeOK, Disk, Content
    <3>2. pub' \in [Publisher -> Call]
      BY <1>9, GoesOn DEF SyncDir, Pc
    <3> QED  BY <1>9, <3>1, <3>2
       DEF SyncDir, Synced, Goes, EvidenceTypeOK, Content
  <2>2. DiskBehind' /\ MarksBacked' /\ AckedSurvives'
    BY <1>9
       DEF SyncDir, Synced, Goes, EvidenceTypeOK, DiskBehind, MarksBacked,
           AckedSurvives, Entry, Disk, Call
  <2>3. LinkedFull'
    BY <1>9
       DEF SyncDir, Synced, Goes, EvidenceTypeOK, DiskBehind, LinkedFull,
           Progress, Content, Disk, Call
  <2>4. Progress'
    BY <1>9
       DEF SyncDir, Synced, Goes, EvidenceTypeOK, DiskBehind, LinkedFull,
           MarksBacked, Progress, Entered, Disk, Call
  <2> QED  BY <2>1, <2>2, <2>3, <2>4
<1>10. CASE Unlink(w)
  <2>1. /\ pub[w].pc = "unlink" /\ Goes(w, "syncgone")
        /\ UNCHANGED <<content, names, marks, disk, acked, left, losses>>
        /\ temps' \subseteq temps
    BY <1>10 DEF Unlink
  <2>2. EvidenceTypeOK'
    BY <2>1, GoesOn DEF EvidenceTypeOK, Pc
  <2>3. DiskBehind' /\ LinkedFull' /\ MarksBacked' /\ AckedSurvives'
    BY <2>1 DEF DiskBehind, LinkedFull, MarksBacked, AckedSurvives
  <2>4. Progress'
    BY <2>1, GoesOn DEF Progress, Entered, Pc
  <2> QED  BY <2>2, <2>3, <2>4
<1>11. CASE SyncGone(w)
  <2>1. EvidenceTypeOK'
    <3>1. disk' \in Disk
      BY <1>11 DEF SyncGone, Synced, EvidenceTypeOK, Disk, Content
    <3>2. pub' \in [Publisher -> Call]
      <4>1. [pub[w] EXCEPT !.pc = "mark", !.file = None] \in Call
        BY DEF EvidenceTypeOK, Call, Pc
      <4>2. pub' = [pub EXCEPT ![w] = [pub[w] EXCEPT !.pc = "mark",
                                                     !.file = None]]
        BY <1>11 DEF SyncGone, Synced, EvidenceTypeOK, Call
      <4> QED  BY <4>1, <4>2 DEF EvidenceTypeOK
    <3> QED  BY <1>11, <3>1, <3>2 DEF SyncGone, Synced, EvidenceTypeOK, Content
  <2>2. DiskBehind' /\ MarksBacked' /\ AckedSurvives'
    BY <1>11
       DEF SyncGone, Synced, EvidenceTypeOK, DiskBehind, MarksBacked, AckedSurvives,
           Entry, Disk, Call
  <2>3. LinkedFull'
    BY <1>11
       DEF SyncGone, Synced, EvidenceTypeOK, DiskBehind, LinkedFull, Progress, Content,
           Disk, Call
  <2>4. Progress'
    BY <1>11
       DEF SyncGone, Synced, EvidenceTypeOK, DiskBehind, LinkedFull, MarksBacked,
           Progress, Entered, Disk, Call
  <2> QED  BY <2>1, <2>2, <2>3, <2>4
<1>12. CASE Mark(w)
  BY <1>12 DEF Mark, Goes, EvidenceTypeOK, DiskBehind,
     LinkedFull, MarksBacked, Progress, AckedSurvives, Pc, Content, Entry,
     Entered, Disk, Call
<1>13. CASE SyncMark(w)
  BY <1>13 DEF SyncMark, Idle, EvidenceTypeOK, DiskBehind,
     LinkedFull, MarksBacked, Progress, AckedSurvives, Pc, Content, Entry,
     Entered, Disk, Call
<1>14. CASE Fail(w)
  <2>1. EvidenceTypeOK'
    <3>1. disk' \in Disk
      <4>1. Synced \in Disk
        BY DEF Synced, EvidenceTypeOK, Disk
      <4>2. temps' \in SUBSET File
        BY <1>14 DEF Fail, EvidenceTypeOK
      <4>3. [Synced EXCEPT !.temps = temps'] \in Disk
        BY <4>1, <4>2 DEF Disk
      <4> QED  BY <1>14, <4>3 DEF Fail, EvidenceTypeOK
    <3>2. pub' \in [Publisher -> Call]
      BY <1>14 DEF Fail, Synced, Idle, EvidenceTypeOK, Call, Pc
    <3>3. temps' \in SUBSET File /\ left' \in SUBSET File
      BY <1>14 DEF Fail, EvidenceTypeOK, Call
    <3> QED  BY <1>14, <3>1, <3>2, <3>3 DEF Fail, EvidenceTypeOK
  <2>2. DiskBehind' /\ MarksBacked' /\ AckedSurvives'
    BY <1>14
       DEF Fail, Synced, Idle, EvidenceTypeOK, DiskBehind, MarksBacked,
           AckedSurvives, Entry, Disk, Call
  <2>3. LinkedFull'
    BY <1>14
       DEF Fail, Synced, Idle, EvidenceTypeOK, DiskBehind, LinkedFull,
           Progress, Content, Disk, Call
  <2>4. Progress'
    <3>1. /\ disk'.content = disk.content
          /\ \A d \in Digest : disk.names[d] # None => disk'.names[d] # None
      BY <1>14 DEF Fail, Synced, EvidenceTypeOK, DiskBehind, Disk
    <3>2. pub' = [pub EXCEPT ![w] = Idle]
      BY <1>14 DEF Fail
    <3> QED
      BY <1>14, <3>1, <3>2
         DEF Fail, Idle, EvidenceTypeOK, Progress, Entered, Call
  <2> QED  BY <2>1, <2>2, <2>3, <2>4
<1> QED
  BY <1>1, <1>2, <1>3, <1>4, <1>5, <1>6, <1>7, <1>8, <1>9, <1>10, <1>11, <1>12,
     <1>13, <1>14
     DEF Step

\* The death of the process leaves the files as they are.
LEMMA DieSound == EvidenceInv /\ Die => EvidenceInv'
BY DEF EvidenceInv, Die, EvidenceTypeOK, DiskBehind, LinkedFull, MarksBacked,
       Progress, AckedSurvives, Idle, Pc, Call, Disk, files

\* After a loss of power everything is as it was or as it was synchronized;
\* both are sound, and so is every mixture of them.
LEMMA LosePowerSound == EvidenceInv /\ LosePower => EvidenceInv'
<1> SUFFICES ASSUME EvidenceInv, LosePower PROVE EvidenceInv'
  OBVIOUS
<1> USE EvidenceParameters DEF EvidenceInv
<1>1. /\ names' \in [Digest -> File \cup {None}]
      /\ \A d \in Digest : names'[d] \in {names[d], disk.names[d]}
  BY DEF LosePower, EvidenceTypeOK, Disk
<1>2. /\ content' \in [File -> Content]
      /\ \A f \in File : content'[f] \in {content[f], disk.content[f]}
  BY DEF LosePower, EvidenceTypeOK, Disk
<1>3. marks' \in SUBSET Entry /\ disk.marks \subseteq marks' /\ marks' \subseteq marks
  BY DEF LosePower, EvidenceTypeOK, DiskBehind
<1>4. temps' \in SUBSET File
  BY DEF LosePower, EvidenceTypeOK, Disk
<1>5. disk' = [content |-> content', names |-> names', temps |-> temps',
               marks |-> marks']
  BY DEF LosePower
<1>6. EvidenceTypeOK'
  BY <1>1, <1>2, <1>3, <1>4, <1>5
     DEF LosePower, EvidenceTypeOK, Disk, Call, Idle, Pc
<1>7. DiskBehind'
  BY <1>5 DEF DiskBehind
<1>8. LinkedFull'
  BY <1>1, <1>2, <1>5 DEF EvidenceTypeOK, LinkedFull, DiskBehind
<1>9. MarksBacked' /\ AckedSurvives'
  BY <1>1, <1>3, <1>5
     DEF LosePower, EvidenceTypeOK, DiskBehind, MarksBacked, AckedSurvives,
         Entry
<1>10. Progress'
  BY DEF LosePower, Progress, Idle
<1> QED  BY <1>6, <1>7, <1>8, <1>9, <1>10

\* Every step preserves the invariant.
LEMMA NextSound == EvidenceInv /\ [Next]_vars => EvidenceInv'
<1>1. EvidenceInv /\ UNCHANGED vars => EvidenceInv'
  BY DEF EvidenceInv, vars, files, EvidenceTypeOK, DiskBehind, LinkedFull,
         MarksBacked, Progress, AckedSurvives, Entered
<1> QED  BY <1>1, StepSound, DieSound, LosePowerSound DEF Next

\* The invariant of the files and their publishers.
THEOREM Sound == Spec => []EvidenceInv
BY InitSound, NextSound, PTL DEF Spec

\* What publish returned is never lost, whoever wrote it, and whatever dies.
THEOREM AckedStays == Spec => []AckedSurvives
<1>1. EvidenceInv => AckedSurvives
  BY DEF EvidenceInv
<1> QED  BY <1>1, Sound, PTL

\* No digest ever names other bytes, for processes or after a loss of power.
THEOREM NamesStayIntact == Spec => []NamesIntact
<1>1. EvidenceInv => NamesIntact
  BY EvidenceParameters
     DEF EvidenceInv, EvidenceTypeOK, DiskBehind, LinkedFull, NamesIntact
<1> QED  BY <1>1, Sound, PTL

-----------------------------------------------------------------------------
(* Temporary names *)

\* A publisher that is idle, has yet to create a file or has given up its
\* temporary name owns no file; a file that is owned has been created, and one
\* whose name is being given up does not have it any more.
FilesOwned ==
  \A w \in Publisher :
    /\ pub[w].pc \in {"idle", "probe", "create", "mark", "syncmark"} =>
         pub[w].file = None
    /\ pub[w].file # None =>
         pub[w].file \in File /\ content[pub[w].file] # "none"
    /\ pub[w].pc = "syncgone" => pub[w].file \notin temps

\* A temporary name appears with its owner, and its owner lets go of it only
\* when it cannot come back or is known to be left.
LEMMA StepOwns ==
  ASSUME EvidenceInv, FilesOwned, NoLeaks, NEW w \in Publisher, Step(w)
  PROVE  FilesOwned' /\ NoLeaks'
<1> USE EvidenceParameters DEF EvidenceInv, EvidenceTypeOK, Disk, Call
<1> DEFINE Owned(v) ==
      /\ pub[v].pc \in {"idle", "probe", "create", "mark", "syncmark"} =>
           pub[v].file = None
      /\ pub[v].file # None =>
           pub[v].file \in File /\ content[pub[v].file] # "none"
      /\ pub[v].pc = "syncgone" => pub[v].file \notin temps
<1>1. ASSUME \A u \in Publisher : u # w => pub'[u] = pub[u],
             left \subseteq left',
             \A f \in File : content[f] # "none" => content'[f] # "none",
             temps' \subseteq
               temps \cup ({f \in File : content[f] = "none"} \cap {pub'[w].file}),
             disk'.temps \subseteq disk.temps \cup temps',
             pub[w].file \in temps' \cup disk'.temps =>
               pub[w].file \in {pub'[w].file} \cup left',
             Owned(w)'
      PROVE  FilesOwned' /\ NoLeaks'
  <2>1. ASSUME NEW u \in Publisher, u # w
        PROVE  Owned(u)'
    BY <1>1, <2>1 DEF FilesOwned
  <2>2. FilesOwned'
    BY <1>1, <2>1 DEF FilesOwned
  <2>3. ASSUME NEW f \in temps' \cup disk'.temps, f # pub'[w].file
        PROVE  f \in {pub'[u].file : u \in Publisher} \cup left'
    <3>1. f \in {pub[u].file : u \in Publisher} \cup left
      BY <1>1, <2>3 DEF NoLeaks
    <3>2. CASE f \in left
      BY <1>1, <3>2
    <3>3. CASE f = pub[w].file
      BY <1>1, <2>3, <3>3
    <3>4. CASE \E u \in Publisher : u # w /\ f = pub[u].file
      BY <1>1, <3>4
    <3> QED  BY <3>1, <3>2, <3>3, <3>4
  <2> QED  BY <2>2, <2>3 DEF NoLeaks
<1>2. CASE \E d \in Digest, s \in Source : Publish(w, d, s)
  BY <1>1, <1>2 DEF Publish, files, FilesOwned
<1>3. CASE Probe(w) \/ Verify(w)
  BY <1>1, <1>3, GoesOn DEF Probe, Verify, files, FilesOwned, Pc
<1>4. CASE Create(w)
  <2>1. PICK f \in File :
          /\ content[f] = "none"
          /\ content' = [content EXCEPT ![f] = "torn"]
          /\ disk' = [disk EXCEPT !.content[f] = "torn"]
          /\ temps' = temps \cup {f}
          /\ pub' = [pub EXCEPT ![w].pc = "write", ![w].file = f]
    BY <1>4 DEF Create
  <2>2. pub[w].file = None /\ left' = left
    BY <1>4 DEF Create, FilesOwned
  <2>3. pub'[w].file = f /\ pub'[w].pc = "write"
    BY <2>1
  <2>4. disk'.temps = disk.temps
    BY <2>1
  <2>5. pub[w].file \notin temps' \cup disk'.temps
    BY <2>1, <2>2, <2>4
  <2>6. Owned(w)'
    BY <2>1, <2>3
  <2> QED  BY <1>1, <2>1, <2>2, <2>3, <2>4, <2>5, <2>6
<1>5. CASE Write(w) \/ Flush(w) \/ Link(w) \/ SyncFile(w)
  <2>1. PICK pc \in {"flush", "link", "verify", "syncdir"} : Goes(w, pc)
    BY <1>5 DEF Write, Flush, Link, SyncFile
  <2>2. UNCHANGED <<temps, left>> /\ disk'.temps = disk.temps
    BY <1>5 DEF Write, Flush, Link, SyncFile
  <2>3. \A f \in File : content[f] # "none" => content'[f] # "none"
    BY <1>5 DEF Write, Flush, Link, SyncFile
  <2> HIDE DEF Owned
  <2>4. Owned(w)'
    BY <2>1, <2>2, <2>3, GoesOn DEF Owned, FilesOwned, Pc
  <2> QED  BY <1>1, <2>1, <2>2, <2>3, <2>4, GoesOn DEF Pc
<1>6. CASE SyncDir(w)
  <2>1. PICK pc \in {"mark", "unlink"} :
          Goes(w, pc) /\ (pc = "mark" => pub[w].file = None)
    BY <1>6 DEF SyncDir
  <2>2. UNCHANGED <<content, temps, left>> /\ disk'.temps = temps
    BY <1>6 DEF SyncDir, Synced
  <2>3. Owned(w)'
    BY <2>1, <2>2, GoesOn DEF FilesOwned, Pc
  <2> QED  BY <1>1, <2>1, <2>2, <2>3, GoesOn DEF Pc
<1>7. CASE Unlink(w)
  <2>1. /\ Goes(w, "syncgone") /\ temps' = temps \ {pub[w].file}
        /\ UNCHANGED <<content, disk, left>>
    BY <1>7 DEF Unlink
  <2>2. Owned(w)'
    BY <2>1, GoesOn DEF FilesOwned, Pc
  <2> QED  BY <1>1, <2>1, <2>2, GoesOn DEF Pc
<1>8. CASE SyncGone(w)
  <2>1. UNCHANGED <<content, temps, left>> /\ disk'.temps = temps
    BY <1>8 DEF SyncGone, Synced
  <2>2. pub[w].file \notin temps
    BY <1>8 DEF SyncGone, FilesOwned
  <2>3. pub'[w].file = None /\ pub'[w].pc = "mark"
    BY <1>8 DEF SyncGone
  <2>4. \A u \in Publisher : u # w => pub'[u] = pub[u]
    BY <1>8 DEF SyncGone
  <2> QED  BY <1>1, <2>1, <2>2, <2>3, <2>4
<1>9. CASE Mark(w)
  BY <1>1, <1>9, GoesOn DEF Mark, FilesOwned, Pc
<1>10. CASE SyncMark(w)
  BY <1>1, <1>10 DEF SyncMark, Idle, FilesOwned
<1>11. CASE Fail(w)
  <2>1. /\ pub'[w] = Idle /\ \A u \in Publisher : u # w => pub'[u] = pub[u]
        /\ content' = content
    BY <1>11 DEF Fail
  <2>2. /\ left \subseteq left' /\ temps' \subseteq temps
        /\ disk'.temps \subseteq disk.temps \cup temps'
    BY <1>11 DEF Fail, Synced
  <2>3. pub[w].file \in temps' \cup disk'.temps => pub[w].file \in left'
    BY <1>11 DEF Fail, Synced
  <2>4. Owned(w)'
    BY <2>1 DEF Idle
  <2> QED  BY <1>1, <2>1, <2>2, <2>3, <2>4
<1> QED
  BY <1>2, <1>3, <1>4, <1>5, <1>6, <1>7, <1>8, <1>9, <1>10, <1>11 DEF Step

\* A temporary name that is there or can come back is that of a publisher at
\* work, or one whose removal failed or that a death or a loss of power left.
THEOREM NothingLeaks == Spec => []NoLeaks
<1>1. Init => FilesOwned /\ NoLeaks
  BY DEF Init, Idle, FilesOwned, NoLeaks
<1>2. ASSUME EvidenceInv, FilesOwned, NoLeaks, Die \/ LosePower \/ UNCHANGED vars
      PROVE  FilesOwned' /\ NoLeaks'
  BY <1>2 DEF Die, LosePower, vars, files, Idle, FilesOwned, NoLeaks
<1>3. EvidenceInv /\ FilesOwned /\ NoLeaks /\ [Next]_vars =>
        FilesOwned' /\ NoLeaks'
  BY <1>2, StepOwns DEF Next
<1> QED
  BY <1>1, <1>3, Sound, PTL DEF Spec

-----------------------------------------------------------------------------
(* Refinement *)

\* Every step is one of Archive, or none.  A marker is enough for an entry to
\* be held: what it refers to is there and complete.
LEMMA StepRefines ==
  ASSUME EvidenceInv, EvidenceInv', [Next]_vars
  PROVE  [A!Next]_<<Held, acked>>
<1>1. Held = marks /\ Held' = marks'
  BY EvidenceParameters
     DEF EvidenceInv, EvidenceTypeOK, DiskBehind, LinkedFull, MarksBacked,
         Held, Entry
<1>2. ASSUME NEW w \in Publisher, Mark(w)
      PROVE  \E x \in Entry : A!Add(x)
  <2>1. Entered(w) \in Entry
    BY <1>2 DEF Mark, EvidenceInv, Progress, Entered, Entry
  <2> QED  BY <1>1, <1>2, <2>1 DEF Mark, A!Add
<1>3. ASSUME NEW w \in Publisher, SyncMark(w)
      PROVE  \E x \in Entry : A!Promise(x)
  <2>1. Entered(w) \in Entry /\ Entered(w) \in marks
    BY <1>3 DEF SyncMark, EvidenceInv, Progress, Entered, Entry
  <2> QED  BY <1>1, <1>3, <2>1 DEF SyncMark, A!Promise
<1>4. ASSUME LosePower
      PROVE  \E S \in SUBSET Entry : A!Lose(S)
  <2>1. PICK S \in SUBSET (marks \ disk.marks) : marks' = marks \ S
    BY <1>4 DEF LosePower
  <2>2. S \in SUBSET Entry /\ S \cap acked = {}
    BY <2>1 DEF EvidenceInv, EvidenceTypeOK, AckedSurvives
  <2> QED  BY <1>1, <1>4, <2>1, <2>2 DEF LosePower, A!Lose
<1>5. ASSUME NEW w \in Publisher, Step(w), ~Mark(w), ~SyncMark(w)
      PROVE  UNCHANGED <<marks, acked>>
  BY <1>5 DEF Step, Publish, Probe, Create, Write, Flush, Link, Verify,
              SyncFile, SyncDir, Unlink, SyncGone, Fail, files
<1>6. Die \/ UNCHANGED vars => UNCHANGED <<marks, acked>>
  BY DEF Die, vars, files
<1> QED
  BY <1>1, <1>2, <1>3, <1>4, <1>5, <1>6 DEF Next, A!Next

\* The evidence store implements Archive.
THEOREM Implements == Spec => KeepsArchive
<1>1. Init => A!Init
  BY DEF Init, A!Init, Held
<1>2. EvidenceInv /\ EvidenceInv' /\ [Next]_vars => [A!Next]_<<Held, acked>>
  BY StepRefines
<1> QED  BY <1>1, <1>2, Sound, PTL DEF Spec, KeepsArchive, A!Spec

=============================================================================
