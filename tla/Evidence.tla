------------------------------ MODULE Evidence ------------------------------
(***************************************************************************)
(* The evidence store (src/src/evidence/mod.rs): artifacts are files named *)
(* by the digest of their bytes, and an empty marker file says that a      *)
(* source refers to an artifact.                                           *)
(*                                                                         *)
(* publish writes a temporary file, links it under its digest and removes  *)
(* the temporary name.  Publishers work in the same directory without      *)
(* locks; a process may die, and a loss of power undoes whatever was not   *)
(* synchronized.  Every file operation is one action.  The directories     *)
(* above the files are synchronized whenever they are opened for writing   *)
(* and are left out, as are file modes and types.                          *)
(***************************************************************************)
EXTENDS Naturals

CONSTANTS
  Publisher,   \* concurrent calls of publish
  Digest,      \* artifacts, by digest; they share a directory
  Source,      \* cases, attempts and instruments that evidence belongs to
  File,        \* files that publishers may create, each written once
  None,        \* no file, digest or source
  MaxLosses    \* bound: losses of power

ASSUME EvidenceParameters ==
  None \notin File /\ MaxLosses \in Nat

VARIABLES
  content,     \* what a file holds: nothing yet, a torn part, all bytes
  names,       \* the file linked under a digest, or None
  temps,       \* files that still have their temporary name
  marks,       \* source markers
  disk,        \* the same as it would be found after a loss of power
  pub,         \* what each publisher is doing
  acked,       \* entries for which publish returned the digest
  left,        \* temporary names that a failed removal, a death or a loss
               \* of power left behind
  losses       \* losses of power so far

files == <<content, names, temps, marks, disk>>
vars == <<files, pub, acked, left, losses>>

Content == {"none", "torn", "full"}
Entry == Digest \X Source

Idle == [pc |-> "idle", digest |-> None, source |-> None, file |-> None]

Pc == {"idle", "probe", "create", "write", "flush", "link", "verify",
       "syncfile", "syncdir", "unlink", "syncgone", "mark", "syncmark"}

Disk == [content : [File -> Content], names : [Digest -> File \cup {None}],
         temps : SUBSET File, marks : SUBSET Entry]
Call == [pc : Pc, digest : Digest \cup {None}, source : Source \cup {None},
         file : File \cup {None}]

\* Shapes of the files and of the publishers.
EvidenceTypeOK ==
  /\ content \in [File -> Content]
  /\ names \in [Digest -> File \cup {None}]
  /\ temps \in SUBSET File
  /\ marks \in SUBSET Entry
  /\ disk \in Disk
  /\ pub \in [Publisher -> Call]
  /\ acked \in SUBSET Entry
  /\ left \in SUBSET File
  /\ losses \in 0..MaxLosses

Init ==
  /\ content = [f \in File |-> "none"]
  /\ names = [d \in Digest |-> None]
  /\ temps = {} /\ marks = {}
  /\ disk = [content |-> content, names |-> names, temps |-> {}, marks |-> {}]
  /\ pub = [w \in Publisher |-> Idle]
  /\ acked = {} /\ left = {} /\ losses = 0

Goes(w, pc) == pub' = [pub EXCEPT ![w].pc = pc]

\* A directory is synchronized with all the names in it.
Synced == [disk EXCEPT !.names = names, !.temps = temps]

-----------------------------------------------------------------------------
(* publish *)

Publish(w, d, s) ==
  /\ pub[w].pc = "idle"
  /\ pub' = [pub EXCEPT ![w] = [pc |-> "probe", digest |-> d, source |-> s,
                                file |-> None]]
  /\ UNCHANGED <<files, acked, left, losses>>

ProbeBug(w) ==
  /\ pub[w].pc = "probe"
  /\ Goes(w, IF names[pub[w].digest] = None THEN "create" ELSE "mark")
  /\ UNCHANGED <<files, acked, left, losses>>

\* read_artifact_if_present: an artifact that another publisher has linked
\* is used, once it is verified and synchronized.
Probe(w) ==
  /\ pub[w].pc = "probe"
  /\ \/ names[pub[w].digest] = None /\ Goes(w, "create")
     \/ /\ names[pub[w].digest] # None
        /\ content[names[pub[w].digest]] = "full"
        /\ Goes(w, "syncfile")
  /\ UNCHANGED <<files, acked, left, losses>>

\* create_temporary: a name that exists is passed over.
Create(w) ==
  /\ pub[w].pc = "create"
  /\ \E f \in File :
       /\ content[f] = "none"
       /\ content' = [content EXCEPT ![f] = "torn"]
       /\ disk' = [disk EXCEPT !.content[f] = "torn"]
       /\ temps' = temps \cup {f}
       /\ pub' = [pub EXCEPT ![w].pc = "write", ![w].file = f]
  /\ UNCHANGED <<names, marks, acked, left, losses>>

Write(w) ==
  /\ pub[w].pc = "write"
  /\ content' = [content EXCEPT ![pub[w].file] = "full"]
  /\ Goes(w, "flush")
  /\ UNCHANGED <<names, temps, marks, disk, acked, left, losses>>

FlushBug(w) ==
  /\ pub[w].pc = "flush"
  /\ Goes(w, "link")
  /\ UNCHANGED <<files, acked, left, losses>>

Flush(w) ==
  /\ pub[w].pc = "flush"
  /\ disk' = [disk EXCEPT !.content[pub[w].file] = content[pub[w].file]]
  /\ Goes(w, "link")
  /\ UNCHANGED <<content, names, temps, marks, acked, left, losses>>

\* linkat never replaces a name: the first publisher wins.
Link(w) ==
  /\ pub[w].pc = "link"
  /\ names' = [names EXCEPT ![pub[w].digest] =
                 IF @ = None THEN pub[w].file ELSE @]
  /\ Goes(w, "verify")
  /\ UNCHANGED <<content, temps, marks, disk, acked, left, losses>>

Verify(w) ==
  /\ pub[w].pc = "verify"
  /\ names[pub[w].digest] # None
  /\ content[names[pub[w].digest]] = "full"
  /\ Goes(w, "syncfile")
  /\ UNCHANGED <<files, acked, left, losses>>

SyncFile(w) ==
  LET f == names[pub[w].digest]
  IN  /\ pub[w].pc = "syncfile"
      /\ disk' = [disk EXCEPT !.content[f] = content[f]]
      /\ Goes(w, "syncdir")
      /\ UNCHANGED <<content, names, temps, marks, acked, left, losses>>

\* The read ends with the directory, whoever linked the file.
SyncDir(w) ==
  /\ pub[w].pc = "syncdir"
  /\ disk' = Synced
  /\ Goes(w, IF pub[w].file = None THEN "mark" ELSE "unlink")
  /\ UNCHANGED <<content, names, temps, marks, acked, left, losses>>

\* TemporaryEntry::remove
Unlink(w) ==
  /\ pub[w].pc = "unlink"
  /\ temps' = temps \ {pub[w].file}
  /\ Goes(w, "syncgone")
  /\ UNCHANGED <<content, names, marks, disk, acked, left, losses>>

SyncGoneBug(w) ==
  /\ pub[w].pc = "syncgone"
  /\ pub' = [pub EXCEPT ![w].pc = "mark", ![w].file = None]
  /\ UNCHANGED <<files, acked, left, losses>>

\* Only when the directory is synchronized is the temporary name given up.
SyncGone(w) ==
  /\ pub[w].pc = "syncgone"
  /\ disk' = Synced
  /\ pub' = [pub EXCEPT ![w].pc = "mark", ![w].file = None]
  /\ UNCHANGED <<content, names, temps, marks, acked, left, losses>>

-----------------------------------------------------------------------------
(* record_source *)

Entered(w) == <<pub[w].digest, pub[w].source>>

MarkBug(w) ==
  /\ pub[w].pc = "mark"
  /\ marks' = marks \cup {Entered(w)}
  /\ IF Entered(w) \in marks
     THEN acked' = acked \cup {Entered(w)} /\ Goes(w, "idle")
     ELSE Goes(w, "syncmark") /\ UNCHANGED acked
  /\ UNCHANGED <<content, names, temps, disk, left, losses>>

\* An existing marker is synchronized like a new one: whoever made it may
\* not have come that far.
Mark(w) ==
  /\ pub[w].pc = "mark"
  /\ marks' = marks \cup {Entered(w)}
  /\ Goes(w, "syncmark")
  /\ UNCHANGED <<content, names, temps, disk, acked, left, losses>>

SyncMark(w) ==
  /\ pub[w].pc = "syncmark"
  /\ disk' = [disk EXCEPT !.marks = @ \cup {e \in marks : e[1] = pub[w].digest}]
  /\ acked' = acked \cup {Entered(w)}
  /\ pub' = [pub EXCEPT ![w] = Idle]
  /\ UNCHANGED <<content, names, temps, marks, left, losses>>

-----------------------------------------------------------------------------
(* Failure *)

\* An operation fails.  TemporaryEntry::drop tries to remove the temporary name
\* and to synchronize the directory; when it cannot, it only warns.
Fail(w) ==
  LET f == pub[w].file
  IN  /\ pub[w].pc # "idle"
      /\ pub' = [pub EXCEPT ![w] = Idle]
      /\ \/ f = None /\ UNCHANGED <<temps, disk, left>>
         \/ /\ f # None
            /\ temps' = temps \ {f}
            /\ disk' = [Synced EXCEPT !.temps = temps']
            /\ UNCHANGED left
         \/ /\ f # None
            /\ temps' \in {temps, temps \ {f}}
            /\ left' = left \cup {f}
            /\ UNCHANGED disk
      /\ UNCHANGED <<content, names, marks, acked, losses>>

\* The process dies; what it wrote is still there for the next one.
Die ==
  /\ \E w \in Publisher : pub[w] # Idle
  /\ pub' = [w \in Publisher |-> Idle]
  /\ left' = temps \cup disk.temps
  /\ UNCHANGED <<files, acked, losses>>

\* Each file, name and marker is found as it was or as it was synchronized.
LosePower ==
  /\ losses < MaxLosses
  /\ losses' = losses + 1
  /\ pub' = [w \in Publisher |-> Idle]
  /\ \E S \in SUBSET {d \in Digest : names[d] # disk.names[d]} :
       names' = [d \in Digest |-> IF d \in S THEN disk.names[d] ELSE names[d]]
  /\ \E S \in SUBSET {f \in File : content[f] # disk.content[f]} :
       content' = [f \in File |->
                     IF f \in S THEN disk.content[f] ELSE content[f]]
  /\ \E S \in SUBSET (marks \ disk.marks) : marks' = marks \ S
  /\ \E S \in SUBSET (temps \ disk.temps), U \in SUBSET (disk.temps \ temps) :
       temps' = (temps \ S) \cup U
  /\ disk' = [content |-> content', names |-> names', temps |-> temps',
              marks |-> marks']
  /\ left' = temps'
  /\ UNCHANGED acked

Step(w) ==
  \/ \E d \in Digest, s \in Source : Publish(w, d, s)
  \/ Probe(w) \/ Create(w) \/ Write(w) \/ Flush(w) \/ Link(w) \/ Verify(w)
  \/ SyncFile(w) \/ SyncDir(w) \/ Unlink(w) \/ SyncGone(w)
  \/ Mark(w) \/ SyncMark(w)
  \/ Fail(w)

Next == (\E w \in Publisher : Step(w)) \/ Die \/ LosePower

Spec == Init /\ [][Next]_vars

-----------------------------------------------------------------------------
(* Properties *)

\* A name never stands for bytes other than those of its digest, not even
\* after a loss of power: publish links only what is synchronized.
NamesIntact ==
  \A d \in Digest :
    /\ names[d] # None => content[names[d]] = "full"
    /\ disk.names[d] # None => disk.content[disk.names[d]] = "full"

\* What publish returned survives the process and the power, although the
\* file and the marker may be the unfinished work of another publisher.
AckedSurvives ==
  \A e \in acked : e \in disk.marks /\ disk.names[e[1]] # None

\* A temporary name that can be found, now or after a loss of power, belongs to
\* a publisher at work, or else its removal failed, its process died or the
\* power was lost: what publish returned has left none that could come back.
\* (TemporaryEntry::remove and drop)
NoLeaks ==
  temps \cup disk.temps \subseteq {pub[w].file : w \in Publisher} \cup left

\* verify_source succeeds for these entries.
Held ==
  {e \in Entry : /\ e \in marks
                /\ names[e[1]] # None
                /\ content[names[e[1]]] = "full"}

A == INSTANCE Archive WITH held <- Held, promised <- acked

\* The files keep the promise of Archive.  (publish, verify_source)
KeepsArchive == A!Spec

=============================================================================
