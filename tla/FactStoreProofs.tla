--------------------------- MODULE FactStoreProofs ---------------------------
(***************************************************************************)
(* Theorems about FactStore, for every number of processes, calls and      *)
(* crashes and all sizes of appends: writers are guarded, an acknowledged  *)
(* event stays readable, and the store implements FactPort.                *)
(*                                                                         *)
(* All need SoloRecovery: without it two waiters can unlink each other's   *)
(* locks (facts_lock_theft).  GuardInv says why the lock then excludes,    *)
(* LogInv what each call knows of the file under it: which events are new, *)
(* where they go, that a torn tail is the last line and unacknowledged,    *)
(* and that what was synced is the beginning of the file.  LogInv needs    *)
(* that no write is torn just before its last newline                      *)
(* (broken_promises).                                                      *)
(***************************************************************************)
EXTENDS FactStore, SequenceTheorems, TLAPS

-----------------------------------------------------------------------------
(* The invariant *)

Record == [seq : Nat, call : Nat]
Line == Record \cup {Garbage}
File == [lines : Seq(Line), ended : BOOLEAN]

Types ==
  /\ file \in File /\ disk \in File
  /\ lock \in {NoLock} \cup [by : Process, written : BOOLEAN, expired : BOOLEAN]
  /\ status \in [Process -> {"new", "live", "dead"}]
  /\ pc \in [Process -> Point]
  /\ attempts \in [Process -> Nat]
  /\ batch \in [Process -> Seq(Record)]
  /\ kept \in [Process -> Nat]
  /\ calls \in Nat /\ crashes \in Nat
  /\ acked \subseteq Record
  /\ renames \in Seq(Nat) /\ saved \subseteq Nat

\* A call is a live process's, and knows what it writes.
InCall ==
  \A p \in Process : pc[p] # "idle" => status[p] = "live" /\ Len(batch[p]) > 0

\* From making the lock file to removing it.
InLock(p) ==
  pc[p] \in { "stamp", "read", "truncate", "write", "sync",
              "release", "releaseAcked", "unlink", "unlinkAcked" }

Live(p) == status[p] = "live"

\* Why nobody steals a lock that is used.  Before the first crash nobody is
\* dead, no lock is old, and whoever is in the lock made it; after it one
\* process lives.
Alone ==
  /\ crashes > 0 => \A p, q \in Process : Live(p) /\ Live(q) => p = q
  /\ crashes = 0 =>
       /\ \A p, q, r \in Process : Live(p) /\ Live(q) /\ Live(r) => p = q \/ q = r \/ p = r
       /\ \A p \in Process : status[p] # "dead" /\ pc[p] # "steal"
       /\ lock # NoLock => ~lock.expired
       /\ \A p \in Process : InLock(p) => lock # NoLock /\ lock.by = p

\* The save of call c, or one that replaced it later, left the checkpoint k.
Replaced(c, k) ==
  \E i, j \in 1..Len(renames) : i <= j /\ renames[i] = c /\ renames[j] = k

\* It is so of both checkpoints, the one that is read and the one a power loss
\* leaves; and of a save that has yet to sync the directory, of the first.
Saves ==
  /\ \A c \in saved : Replaced(c, checkpoint) /\ Replaced(c, ckDisk)
  /\ \A p \in Process : pc[p] = "syncDirectory" => Replaced(batch[p][1].call, checkpoint)

\* Where a torn tail begins is still within the file when it is cut off.
Cut == \A p \in Process : pc[p] = "truncate" => kept[p] <= Len(file.lines)

GuardInv == Types /\ InCall /\ Alone /\ Cut /\ Saves

\* Only the last line may not parse; every other is the event of its number.
Ordered(s) ==
  \A i \in 1..Len(s) : IF s[i] = Garbage THEN i = Len(s) ELSE s[i].seq = i

\* A file without a newline at its end has a last line that does not parse.
Intact(f) == Ordered(f.lines) /\ (f.ended \/ Torn(f))

\* The event e is in the file f, at its seq.
Has(f, e) == e.seq \in 1..Len(f.lines) /\ f.lines[e.seq] = e

\* What is synced is the beginning of the file, all of it if its tail is torn,
\* and holds what was acknowledged.
Files ==
  /\ Intact(file)
  /\ disk.ended \/ Torn(disk)
  /\ Len(disk.lines) <= Len(file.lines)
  /\ \A i \in 1..Len(disk.lines) : disk.lines[i] = file.lines[i]
  /\ Torn(disk) => file = disk
  /\ \A i \in 1..Len(file.lines) : file.lines[i] # Garbage => file.lines[i].call <= calls
  /\ \A e \in acked : Has(disk, e)

Unwritten == {"open", "inspect", "steal", "stamp", "read", "truncate", "write"}
Appending ==
  Unwritten \cup {"sync", "release", "releaseAcked", "unlink", "unlinkAcked"}

\* The events a call appends are consecutive, and its own.
Batch(p) ==
  /\ batch[p][1].call <= calls
  /\ pc[p] \in Appending =>
       /\ batch[p][1].seq > 0
       /\ \A i \in 1..Len(batch[p]) :
            batch[p][i] = [seq |-> batch[p][1].seq + i - 1, call |-> batch[p][1].call]
  /\ \A q \in Process \ {p} : pc[q] # "idle" => batch[q][1].call # batch[p][1].call

\* What a call knows of the file at each point of it.
Known(p) ==
  /\ pc[p] \in Unwritten =>
       \A i \in 1..Len(file.lines) :
         file.lines[i] # Garbage => file.lines[i].call # batch[p][1].call
  /\ pc[p] = "truncate" => Torn(file) /\ kept[p] = Len(file.lines) - 1
  /\ pc[p] = "write" => ~Torn(file) /\ Len(file.lines) = batch[p][1].seq - 1
  /\ pc[p] = "sync" => \A i \in 1..Len(batch[p]) : Has(file, batch[p][i])
  /\ pc[p] \in {"releaseAcked", "unlinkAcked"} =>
       \A i \in 1..Len(batch[p]) : Has(disk, batch[p][i])

LogInv ==
  /\ Files
  /\ \A p \in Process : pc[p] # "idle" => Batch(p) /\ Known(p)

\* The lines t are the lines s after the first n of the items were written to
\* them, whole or followed by part of the next.
Written(s, t, items, n, torn) ==
  /\ Len(t) = Len(s) + n + (IF torn THEN 1 ELSE 0)
  /\ \A i \in 1..Len(s) : t[i] = s[i]
  /\ \A i \in 1..n : t[Len(s) + i] = items[i]
  /\ torn => t[Len(t)] = Garbage

-----------------------------------------------------------------------------
(* Lemmas about files. *)

\* An event or garbage on each line, as a write leaves them; and what a crash
\* leaves of a write is such a file too.
LEMMA PutType ==
  ASSUME NEW f \in File, NEW items \in Seq(Line), NEW ended \in BOOLEAN
  PROVE  Put(f, items, ended) \in File
<1>1. CASE items = <<>>
  BY <1>1 DEF Put
<1>2. CASE items # <<>> /\ f.ended
  <2>1. f.lines \o items \in Seq(Line)
    BY ConcatProperties DEF File
  <2> QED BY <1>2, <2>1 DEF Put, File
<1>3. CASE items # <<>> /\ ~f.ended
  <2>1. Front(f.lines) \in Seq(Line)
    BY DEF Front, File
  <2>2. <<Garbage>> \in Seq(Line)
    BY DEF Line
  <2>3. Tail(items) \in Seq(Line)
    BY <1>3, HeadTailProperties
  <2>4. Front(f.lines) \o <<Garbage>> \o Tail(items) \in Seq(Line)
    BY <2>1, <2>2, <2>3, ConcatProperties
  <2> QED BY <1>3, <2>4 DEF Put, File
<1> QED BY <1>1, <1>2, <1>3

\* The lines of such a piece are lines.
LEMMA PieceType ==
  ASSUME NEW items \in Seq(Line), NEW n \in 0..Len(items)
  PROVE  /\ SubSeq(items, 1, n) \in Seq(Line)
         /\ SubSeq(items, 1, n) \o <<Garbage>> \in Seq(Line)
<1>1. SubSeq(items, 1, n) \in Seq(Line)
  OBVIOUS
<1>2. <<Garbage>> \in Seq(Line)
  BY DEF Line
<1> QED BY <1>1, <1>2, ConcatProperties

\* And what a crash leaves of a write is a file.
LEMMA TornPutsType ==
  ASSUME NEW f \in File, NEW items \in Seq(Line)
  PROVE  TornPuts(f, items) \subseteq File
<1>1. \A n \in 0..Len(items) : /\ SubSeq(items, 1, n) \in Seq(Line)
                               /\ SubSeq(items, 1, n) \o <<Garbage>> \in Seq(Line)
  BY PieceType
<1>2. Len(items) \in Nat
  BY LenProperties
<1>3. \A n \in 0..Len(items) : Put(f, SubSeq(items, 1, n), TRUE) \in File
  BY <1>1, PutType
<1>4. ASSUME NEW n \in 0..Len(items) - 1
      PROVE  Put(f, SubSeq(items, 1, n) \o <<Garbage>>, FALSE) \in File
  <2>1. SubSeq(items, 1, n) \o <<Garbage>> \in Seq(Line)
    BY <1>1, <1>2
  <2> QED BY <2>1, PutType
<1>5. ASSUME NEW n \in 1..Len(items)
      PROVE  Put(f, SubSeq(items, 1, n), FALSE) \in File
  <2>1. SubSeq(items, 1, n) \in Seq(Line)
    BY <1>1, <1>2
  <2> QED BY <2>1, PutType
<1> QED BY <1>3, <1>4, <1>5 DEF TornPuts

\* Events: the lines before a torn tail.
LEMMA EventsType ==
  ASSUME NEW f \in File
  PROVE  /\ Events(f) \in Seq(Line)
         /\ Len(Events(f)) \in Nat
         /\ Len(Events(f)) = IF Torn(f) THEN Len(f.lines) - 1 ELSE Len(f.lines)
         /\ \A i \in 1..Len(Events(f)) : Events(f)[i] = f.lines[i]
<1>1. f.lines \in Seq(Line)
  BY DEF File
<1>2. Len(f.lines) \in Nat
  BY <1>1, LenProperties
<1>3. CASE Torn(f)
  <2>1. Len(f.lines) > 0
    BY <1>1, <1>2, <1>3, EmptySeq DEF Torn
  <2>2. \A i \in 1..Len(f.lines) - 1 : f.lines[i] \in Line
    BY <1>1, <1>2
  <2>3. /\ SubSeq(f.lines, 1, Len(f.lines) - 1) \in Seq(Line)
        /\ Len(SubSeq(f.lines, 1, Len(f.lines) - 1)) = Len(f.lines) - 1
        /\ \A i \in 1..Len(f.lines) - 1 :
             SubSeq(f.lines, 1, Len(f.lines) - 1)[i] = f.lines[i]
    BY <1>1, <1>2, <2>1
  <2> QED BY <1>2, <1>3, <2>1, <2>3 DEF Events, Front
<1>4. CASE ~Torn(f)
  BY <1>1, <1>2, <1>4 DEF Events
<1> QED BY <1>3, <1>4

\* A function over 1..n is a sequence of length n.
LEMMA FunctionIsSeq ==
  ASSUME NEW S, NEW n \in Nat, NEW b \in [1..n -> S]
  PROVE  b \in Seq(S) /\ Len(b) = n
OBVIOUS

\* The version an append expects is the next seq.
LEMMA BatchType ==
  ASSUME file \in File, calls \in Nat, NEW n \in Nat, NEW b,
         b = [i \in 1..n |-> [seq |-> Len(Events(file)) + i, call |-> calls + 1]]
  PROVE  /\ b \in Seq(Record)
         /\ Len(b) = n
         /\ \A i \in 1..n : b[i] = [seq |-> Len(Events(file)) + i, call |-> calls + 1]
<1>1. Len(Events(file)) \in Nat
  BY EventsType
<1>2. \A i \in 1..n : [seq |-> Len(Events(file)) + i, call |-> calls + 1] \in Record
  BY <1>1 DEF Record
<1>3. b \in [1..n -> Record]
  BY <1>2
<1>4. \A i \in 1..n : b[i] = [seq |-> Len(Events(file)) + i, call |-> calls + 1]
  OBVIOUS
<1>5. b \in Seq(Record) /\ Len(b) = n
  BY <1>3, FunctionIsSeq
<1> QED BY <1>4, <1>5

-----------------------------------------------------------------------------
(* Two appends are never in the log at once. *)

\* In the lock there is one: its owner, or the only one alive.
LEMMA Exclusive ==
  ASSUME Types, InCall, Alone, NEW p \in Process, NEW q \in Process, InLock(p), InLock(q)
  PROVE  p = q
<1>1. Live(p) /\ Live(q)
  BY DEF InCall, InLock, Live
<1>2. CASE crashes = 0
  BY <1>2 DEF Alone
<1>3. CASE crashes > 0
  BY <1>1, <1>3 DEF Alone
<1> QED BY <1>2, <1>3 DEF Types

\* Every step keeps the types; Cut is what a truncation needs for it.
LEMMA TypesStep ==
  ASSUME Types, InCall, Alone, Cut, [Next]_vars
  PROVE  Types'
<1> USE DEF Types, Point
<1>1. ASSUME NEW p \in Process, Start(p)
      PROVE  Types'
  BY <1>1 DEF Start, fileVars, checkpointVars, history
<1>2. ASSUME NEW p \in Process, BeginAppend(p)
      PROVE  Types'
  <2>1. PICK n \in BatchSizes :
          batch' = [batch EXCEPT ![p] =
            [i \in 1..n |-> [seq |-> Len(Events(file)) + i, call |-> calls']]]
    BY <1>2 DEF BeginAppend
  <2> DEFINE b == [i \in 1..n |-> [seq |-> Len(Events(file)) + i, call |-> calls + 1]]
  <2>2. n \in Nat
    BY FactStoreAssumption
  <2>3. b \in Seq(Record)
    BY <2>2, BatchType
  <2>4. batch' = [batch EXCEPT ![p] = b]
    BY <1>2, <2>1 DEF BeginAppend
  <2>5. /\ calls' = calls + 1 /\ pc' = [pc EXCEPT ![p] = "open"]
        /\ UNCHANGED <<file, disk, lock, status, attempts, kept, crashes, acked, renames, saved>>
    BY <1>2 DEF BeginAppend, fileVars, Goto
  <2> HIDE DEF b
  <2> QED BY <2>3, <2>4, <2>5
<1>3. ASSUME NEW p \in Process, BeginSave(p)
      PROVE  Types'
  <2>1. <<[seq |-> 0, call |-> calls + 1]>> \in Seq(Record)
    BY DEF Record
  <2> QED BY <1>3, <2>1 DEF BeginSave, fileVars, checkpointVars, Goto
<1>4. ASSUME NEW p \in Process, OpenLock(p) \/ TimeOut(p) \/ Inspect(p) \/ Steal(p)
      PROVE  Types'
  <2>1. CASE OpenLock(p)
    <3>1. lock' \in {lock, [by |-> p, written |-> FALSE, expired |-> FALSE]}
      BY <2>1 DEF OpenLock
    <3>2. [by |-> p, written |-> FALSE, expired |-> FALSE]
            \in [by : Process, written : BOOLEAN, expired : BOOLEAN]
      OBVIOUS
    <3>3. lock' \in {NoLock} \cup [by : Process, written : BOOLEAN, expired : BOOLEAN]
      BY <3>1, <3>2
    <3>4. pc' \in [Process -> Point]
      BY <2>1 DEF OpenLock, Goto
    <3>5. attempts' \in [Process -> Nat]
      BY <2>1 DEF OpenLock
    <3> QED BY <2>1, <3>3, <3>4, <3>5 DEF OpenLock, fileVars, checkpointVars, history
  <2>2. CASE TimeOut(p)
    <3>1. <<>> \in Seq(Record)
      OBVIOUS
    <3> QED BY <2>2, <3>1 DEF TimeOut, Return, Goto, fileVars, checkpointVars, history
  <2>3. CASE Inspect(p)
    BY <2>3 DEF Inspect, Goto, fileVars, checkpointVars, history, callVars
  <2>4. CASE Steal(p)
    BY <2>4 DEF Steal, Goto, fileVars, checkpointVars, history, callVars
  <2> QED BY <1>4, <2>1, <2>2, <2>3, <2>4
<1>5. ASSUME NEW p \in Process, Stamp(p) \/ Release(p) \/ Unlink(p)
      PROVE  Types'
  <2>1. Range(batch[p]) \subseteq Record
    BY RangeOfSeq
  <2>2. CASE Stamp(p)
    BY <2>2 DEF Stamp, Goto, fileVars, checkpointVars, history, callVars
  <2>3. CASE Release(p)
    <3>1. acked' \subseteq Record
      BY <2>1, <2>3 DEF Release
    <3>2. <<>> \in Seq(Record)
      OBVIOUS
    <3>3. \/ Return(p)
          \/ UNCHANGED callVars /\ \E next \in {"unlink", "unlinkAcked"} : Goto(p, next)
      <4>1. CASE lock # NoLock /\ lock.written /\ lock.by # p
        BY <2>3, <4>1 DEF Release
      <4>2. CASE ~(lock # NoLock /\ lock.written /\ lock.by # p)
        BY <2>3, <4>2 DEF Release
      <4> QED BY <4>1, <4>2
    <3>4. /\ pc' \in [Process -> Point] /\ attempts' \in [Process -> Nat]
          /\ batch' \in [Process -> Seq(Record)] /\ kept' \in [Process -> Nat]
          /\ status' = status
      <4>1. CASE Return(p)
        BY <3>2, <4>1 DEF Return, Goto
      <4>2. CASE UNCHANGED callVars /\ \E next \in {"unlink", "unlinkAcked"} : Goto(p, next)
        BY <4>2 DEF Goto, callVars
      <4> QED BY <3>3, <4>1, <4>2
    <3> QED BY <2>3, <3>1, <3>4 DEF Release, fileVars, checkpointVars
  <2>4. CASE Unlink(p)
    BY <2>1, <2>4 DEF Unlink, Return, Goto, fileVars, checkpointVars
  <2> QED BY <1>5, <2>2, <2>3, <2>4
<1>6. ASSUME NEW p \in Process, Read(p)
      PROVE  Types'
  <2>1. Len(Events(file)) \in Nat
    BY EventsType
  <2> QED BY <1>6, <2>1 DEF Read, Compared, Goto, fileVars, checkpointVars, history
<1>7. ASSUME NEW p \in Process, Truncate(p)
      PROVE  Types'
  <2>1. kept[p] <= Len(file.lines) /\ kept[p] \in Nat
    BY <1>7 DEF Truncate, Cut
  <2>2. SubSeq(file.lines, 1, kept[p]) \in Seq(Line)
    BY <2>1 DEF File
  <2>3. file' \in File
    BY <1>7, <2>2 DEF Truncate, File
  <2> QED BY <1>7, <2>3 DEF Truncate, Compared, Goto, checkpointVars, callVars, history
<1>8. ASSUME NEW p \in Process, Write(p) \/ Sync(p)
      PROVE  Types'
  <2>1. batch[p] \in Seq(Line)
    BY SeqMonotonic DEF Line
  <2>2. Put(file, batch[p], TRUE) \in File
    BY <2>1, PutType
  <2>3. CASE Write(p)
    BY <2>2, <2>3 DEF Write, Goto, checkpointVars, callVars, history
  <2>4. CASE Sync(p)
    BY <2>4 DEF Sync, Goto, checkpointVars, callVars, history
  <2> QED BY <1>8, <2>3, <2>4
<1>9. ASSUME NEW p \in Process, SaveTemporary(p) \/ Rename(p) \/ SyncDirectory(p)
      PROVE  Types'
  <2>0. pc[p] # "idle"
    BY <1>9 DEF SaveTemporary, Rename, SyncDirectory
  <2>1. batch[p][1] \in Record
    <3>1. batch[p] \in Seq(Record) /\ Len(batch[p]) > 0
      BY <2>0 DEF InCall
    <3> QED BY <3>1
  <2>2. batch[p][1].call \in Nat
    BY <2>1 DEF Record
  <2>3. CASE SaveTemporary(p)
    BY <2>3 DEF SaveTemporary, Goto, fileVars, checkpointVars, history, callVars
  <2>4. CASE Rename(p)
    BY <2>2, <2>4 DEF Rename, Goto, fileVars, callVars
  <2>5. CASE SyncDirectory(p)
    <3>1. saved' \subseteq Nat
      BY <2>2, <2>5 DEF SyncDirectory
    <3>2. <<>> \in Seq(Record)
      OBVIOUS
    <3> QED BY <2>5, <3>1, <3>2 DEF SyncDirectory, Return, Goto, fileVars
  <2> QED BY <1>9, <2>3, <2>4, <2>5
<1>10. ASSUME NEW ps \in SUBSET Process, Die(ps), file' \in File, disk' \in File,
              lock' \in {lock, NoLock}
       PROVE  Types'
  BY <1>10 DEF Die
<1>11. ASSUME NEW p \in Process, Kill(p)
       PROVE  Types'
  <2>1. batch[p] \in Seq(Line)
    BY SeqMonotonic DEF Line
  <2>2. TornPuts(file, batch[p]) \subseteq File
    BY <2>1, TornPutsType
  <2>3. file' \in File /\ disk' \in File
    BY <1>11, <2>2 DEF Kill
  <2> QED BY <1>10, <1>11, <2>3 DEF Kill
<1>12. ASSUME PowerLoss
       PROVE  Types'
  <2> DEFINE unsynced == SubSeq(file.lines, Len(disk.lines) + 1, Len(file.lines))
  <2>1. unsynced \in Seq(Line)
    BY DEF File
  <2>2. TornPuts(disk, unsynced) \subseteq File
    BY <2>1, TornPutsType
  <2>3. file' \in File /\ disk' \in File
    BY <1>12, <2>2 DEF PowerLoss
  <2> QED BY <1>10, <1>12, <2>3 DEF PowerLoss
<1>13. ASSUME Expire
       PROVE  Types'
  BY <1>13 DEF Expire, fileVars, checkpointVars, callVars, history
<1>14. ASSUME UNCHANGED vars
       PROVE  Types'
  BY <1>14 DEF vars
<1> QED BY <1>1, <1>2, <1>3, <1>4, <1>5, <1>6, <1>7, <1>8, <1>9, <1>11, <1>12, <1>13, <1>14
        DEF Next, Proceed

\* What a step of a call does to the others: nothing.
LEMMA CallSteps ==
  ASSUME Types, NEW p \in Process, Proceed(p)
  PROVE  /\ pc[p] # "idle"
         /\ UNCHANGED <<status, crashes, calls>>
         /\ \A q \in Process \ {p} :
              pc'[q] = pc[q] /\ batch'[q] = batch[q] /\ kept'[q] = kept[q]
         /\ pc'[p] = "idle" \/ batch'[p] = batch[p]
<1> USE DEF Types, callVars, history, Goto
<1>1. CASE OpenLock(p) \/ Inspect(p) \/ Steal(p) \/ Stamp(p)
  BY <1>1 DEF OpenLock, Inspect, Steal, Stamp
<1>2. CASE TimeOut(p) \/ Unlink(p) \/ SyncDirectory(p)
  BY <1>2 DEF TimeOut, Return, Unlink, SyncDirectory
<1>3. CASE Release(p)
  <2>1. CASE Return(p)
    BY <1>3, <2>1 DEF Release, Return
  <2>2. CASE ~(lock # NoLock /\ lock.written /\ lock.by # p)
    BY <1>3, <2>2 DEF Release
  <2> QED BY <1>3, <2>1, <2>2 DEF Release
<1>4. CASE Read(p) \/ Truncate(p) \/ Write(p) \/ Sync(p)
  BY <1>4 DEF Read, Truncate, Write, Sync
<1>5. CASE SaveTemporary(p) \/ Rename(p)
  BY <1>5 DEF SaveTemporary, Rename
<1> QED BY <1>1, <1>2, <1>3, <1>4, <1>5 DEF Proceed

\* Who dies leaves nothing of its call; the others do not move.
LEMMA Deaths ==
  ASSUME Types, NEW ps \in SUBSET Process, Die(ps)
  PROVE  /\ crashes' = crashes + 1
         /\ \A q \in ps : pc'[q] = "idle" /\ status'[q] = "dead"
         /\ \A q \in Process \ ps :
              /\ pc'[q] = pc[q] /\ batch'[q] = batch[q] /\ kept'[q] = kept[q]
              /\ status'[q] = status[q]
         /\ UNCHANGED <<calls, acked, renames, saved>>
BY DEF Types, Die

\* A call begins with events, and ends or dies with them.
LEMMA InCallStep ==
  ASSUME Types, InCall, [Next]_vars
  PROVE  InCall'
<1>1. ASSUME NEW p \in Process, Start(p)
      PROVE  InCall'
  BY <1>1 DEF Types, InCall, Start
<1>2. ASSUME NEW p \in Process, BeginAppend(p)
      PROVE  InCall'
  <2>1. PICK n \in BatchSizes :
          batch' = [batch EXCEPT ![p] =
            [i \in 1..n |-> [seq |-> Len(Events(file)) + i, call |-> calls']]]
    BY <1>2 DEF BeginAppend
  <2> DEFINE b == [i \in 1..n |-> [seq |-> Len(Events(file)) + i, call |-> calls + 1]]
  <2>2. n \in Nat /\ n > 0
    BY FactStoreAssumption
  <2>3. Len(b) > 0
    BY <2>2, BatchType DEF Types
  <2>4. /\ batch' = [batch EXCEPT ![p] = b]
        /\ pc' = [pc EXCEPT ![p] = "open"] /\ status' = status /\ status[p] = "live"
    BY <1>2, <2>1 DEF BeginAppend, Goto
  <2> HIDE DEF b
  <2> QED BY <2>3, <2>4 DEF Types, InCall
<1>3. ASSUME NEW p \in Process, BeginSave(p)
      PROVE  InCall'
  <2>1. Len(<<[seq |-> 0, call |-> calls']>>) > 0
    OBVIOUS
  <2> QED BY <1>3, <2>1 DEF Types, InCall, BeginSave, Goto
<1>4. ASSUME NEW p \in Process, Proceed(p)
      PROVE  InCall'
  BY <1>4, CallSteps DEF InCall
<1>5. ASSUME NEW p \in Process, Kill(p)
      PROVE  InCall'
  BY <1>5, Deaths DEF InCall, Kill
<1>6. ASSUME PowerLoss
      PROVE  InCall'
  <2> DEFINE ps == {p \in Process : status[p] = "live"}
  <2>1. Die(ps)
    BY <1>6 DEF PowerLoss
  <2> QED BY <2>1, Deaths DEF InCall
<1>7. ASSUME Expire \/ UNCHANGED vars
      PROVE  InCall'
  BY <1>7 DEF InCall, Expire, callVars, vars
<1> QED BY <1>1, <1>2, <1>3, <1>4, <1>5, <1>6, <1>7 DEF Next

\* With one process at a time meeting what a crash left, a lock that is used is
\* its user's.
LEMMA AloneStep ==
  ASSUME SoloRecovery, Types, InCall, Alone, [Next]_vars
  PROVE  Alone'
<1>1. ASSUME NEW p \in Process, Start(p)
      PROVE  Alone'
  <2>1. UNCHANGED <<crashes, pc, lock>>
    BY <1>1 DEF Start, history
  <2>2. \A q \in Process \ {p} : status'[q] = status[q]
    BY <1>1 DEF Start, Types
  <2>3. status'[p] = "live"
    BY <1>1 DEF Start, Types
  <2>4. CASE \A q \in Process : ~Live(q)
    BY <2>1, <2>2, <2>3, <2>4 DEF Alone, Live, InLock
  <2>5. CASE crashes = 0 /\ \E q \in Process : \A r \in Process : Live(r) => r = q
    BY <2>1, <2>2, <2>3, <2>5 DEF Alone, Live, InLock
  <2>6. \/ \A q \in Process : ~Live(q)
        \/ crashes = 0 /\ \E q \in Process : \A r \in Process : Live(r) => r = q
    BY <1>1 DEF Start, Live
  <2> QED BY <2>4, <2>5, <2>6
<1>2. ASSUME NEW p \in Process, BeginAppend(p) \/ BeginSave(p)
      PROVE  Alone'
  <2>1. UNCHANGED <<crashes, lock, status>>
    BY <1>2 DEF BeginAppend, BeginSave
  <2>2. /\ pc'[p] \in {"open", "saveTemporary"}
        /\ \A q \in Process \ {p} : pc'[q] = pc[q]
    BY <1>2 DEF Types, BeginAppend, BeginSave, Goto
  <2> QED BY <2>1, <2>2 DEF Alone, Live, InLock
<1>3. ASSUME NEW p \in Process, OpenLock(p)
      PROVE  Alone'
  <2>1. UNCHANGED <<crashes, status>> /\ \A q \in Process \ {p} : pc'[q] = pc[q]
    BY <1>3, CallSteps DEF Proceed
  <2>2. CASE /\ lock = NoLock /\ lock' = [by |-> p, written |-> FALSE, expired |-> FALSE]
             /\ pc'[p] = "stamp"
    <3>1. [by |-> p, written |-> FALSE, expired |-> FALSE]
            \in [by : Process, written : BOOLEAN, expired : BOOLEAN]
      OBVIOUS
    <3>2. lock'.by = p /\ ~lock'.expired /\ lock' # NoLock
      BY <2>2, <3>1, FactStoreAssumption
    <3> QED BY <2>1, <2>2, <3>2 DEF Alone, Live, InLock
  <2>3. CASE UNCHANGED lock /\ pc'[p] = "inspect"
    BY <2>1, <2>3 DEF Alone, Live, InLock
  <2> QED BY <1>3, <2>2, <2>3 DEF OpenLock, Goto, Types
<1>4. ASSUME NEW p \in Process, Inspect(p)
      PROVE  Alone'
  <2>1. UNCHANGED <<crashes, status>> /\ \A q \in Process \ {p} : pc'[q] = pc[q]
    BY <1>4, CallSteps DEF Proceed
  <2>2. pc'[p] \in {"open", "steal"} /\ lock' = lock
    BY <1>4 DEF Inspect, Goto, Types
  <2>3. crashes = 0 => pc'[p] = "open"
    <3>1. crashes = 0 => (lock # NoLock => ~lock.expired /\ status[lock.by] # "dead")
      BY DEF Alone, Types
    <3> QED BY <1>4, <3>1 DEF Inspect, Goto, Types
  <2> QED BY <2>1, <2>2, <2>3 DEF Alone, Live, InLock
<1>5. ASSUME NEW p \in Process, Steal(p)
      PROVE  Alone'
  <2>1. UNCHANGED <<crashes, status>> /\ \A q \in Process \ {p} : pc'[q] = pc[q]
    BY <1>5, CallSteps DEF Proceed
  <2>2. crashes # 0
    BY <1>5 DEF Steal, Alone
  <2> QED BY <2>1, <2>2 DEF Alone, Live
<1>6. ASSUME NEW p \in Process, Stamp(p)
      PROVE  Alone'
  <2>1. UNCHANGED <<crashes, status>> /\ \A q \in Process \ {p} : pc'[q] = pc[q]
    BY <1>6, CallSteps DEF Proceed
  <2>2. pc[p] = "stamp" /\ pc'[p] = "read"
    BY <1>6 DEF Stamp, Goto, Types
  <2>3. lock' = lock \/ (lock # NoLock /\ lock' = [lock EXCEPT !.written = TRUE])
    <3>1. lock' = IF lock # NoLock /\ lock.by = p THEN [lock EXCEPT !.written = TRUE] ELSE lock
      BY <1>6 DEF Stamp
    <3>2. CASE lock # NoLock /\ lock.by = p
      BY <3>1, <3>2
    <3>3. CASE ~(lock # NoLock /\ lock.by = p)
      BY <3>1, <3>3
    <3> QED BY <3>2, <3>3
  <2>4. lock # NoLock => lock' # NoLock /\ lock'.by = lock.by /\ lock'.expired = lock.expired
    <3> DEFINE L == [by : Process, written : BOOLEAN, expired : BOOLEAN]
    <3>1. SUFFICES ASSUME lock # NoLock, lock' = [lock EXCEPT !.written = TRUE]
                   PROVE  lock' # NoLock /\ lock'.by = lock.by /\ lock'.expired = lock.expired
      BY <2>3
    <3>2. lock \in L
      BY <3>1 DEF Types
    <3>3. lock' \in L /\ lock'.by = lock.by /\ lock'.expired = lock.expired
      BY <3>1, <3>2
    <3>4. NoLock \notin L
      BY FactStoreAssumption
    <3> QED BY <3>3, <3>4
  <2>5. lock = NoLock => lock' = NoLock
    BY <2>3
  <2> QED BY <2>1, <2>2, <2>4, <2>5 DEF Alone, Live, InLock
<1>7. ASSUME NEW p \in Process, TimeOut(p) \/ Read(p) \/ Truncate(p) \/ Write(p) \/ Sync(p)
      PROVE  Alone'
  <2>1. UNCHANGED <<crashes, status>> /\ \A q \in Process \ {p} : pc'[q] = pc[q]
    BY <1>7, CallSteps DEF Proceed
  <2>2. UNCHANGED lock /\ pc'[p] # "steal" /\ (InLock(p)' => InLock(p))
    BY <1>7 DEF TimeOut, Read, Truncate, Write, Sync, Return, Goto, Compared, InLock, Types
  <2> QED BY <2>1, <2>2 DEF Alone, Live, InLock
<1>8. ASSUME NEW p \in Process, Release(p)
      PROVE  Alone'
  <2>1. UNCHANGED <<crashes, status>> /\ \A q \in Process \ {p} : pc'[q] = pc[q]
    BY <1>8, CallSteps DEF Proceed
  <2>2. UNCHANGED lock /\ InLock(p)
    BY <1>8 DEF Release, InLock
  <2>3. pc'[p] \in {"idle", "unlink", "unlinkAcked"}
    BY <1>8 DEF Release, Return, Goto, Types
  <2> QED BY <2>1, <2>2, <2>3 DEF Alone, Live, InLock
<1>9. ASSUME NEW p \in Process, Unlink(p)
      PROVE  Alone'
  <2>1. UNCHANGED <<crashes, status>> /\ \A q \in Process \ {p} : pc'[q] = pc[q]
    BY <1>9, CallSteps DEF Proceed
  <2>2. pc'[p] = "idle" /\ InLock(p) /\ lock' = NoLock
    BY <1>9 DEF Unlink, Return, Goto, InLock, Types
  <2> QED BY <2>1, <2>2, Exclusive DEF Alone, Live, InLock
<1>10. ASSUME NEW p \in Process, SaveTemporary(p) \/ Rename(p) \/ SyncDirectory(p)
       PROVE  Alone'
  <2>1. UNCHANGED <<crashes, status>> /\ \A q \in Process \ {p} : pc'[q] = pc[q]
    BY <1>10, CallSteps DEF Proceed
  <2>2. UNCHANGED lock /\ pc'[p] \in {"rename", "syncDirectory", "idle"}
    BY <1>10 DEF SaveTemporary, Rename, SyncDirectory, Return, Goto, Types
  <2> QED BY <2>1, <2>2 DEF Alone, Live, InLock
<1>11. ASSUME NEW p \in Process, Kill(p)
       PROVE  Alone'
  <2>1. /\ crashes' = crashes + 1 /\ Live(p) /\ status'[p] = "dead"
        /\ \A q \in Process \ {p} : status'[q] = status[q]
    BY <1>11, Deaths DEF Kill, Live
  <2>2. ASSUME NEW q \in Process, NEW r \in Process, Live(q)', Live(r)'
        PROVE  q = r
    <3>1. q # p /\ r # p /\ Live(q) /\ Live(r)
      BY <2>1, <2>2 DEF Live
    <3>2. CASE crashes = 0
      BY <2>1, <3>1, <3>2 DEF Alone
    <3>3. CASE crashes > 0
      BY <3>1, <3>3 DEF Alone
    <3> QED BY <3>2, <3>3 DEF Types
  <2>3. crashes' # 0
    BY <2>1 DEF Types
  <2> QED BY <2>2, <2>3 DEF Alone
<1>12. ASSUME PowerLoss
       PROVE  Alone'
  <2> DEFINE ps == {p \in Process : status[p] = "live"}
  <2>1. Die(ps)
    BY <1>12 DEF PowerLoss
  <2>2. crashes' = crashes + 1 /\ \A q \in Process : status'[q] # "live"
    BY <2>1, Deaths
  <2> QED BY <2>2 DEF Alone, Live, Types
<1>13. ASSUME Expire
       PROVE  Alone'
  <2>1. crashes # 0
    BY <1>13 DEF Expire, Alone, Types
  <2> QED BY <1>13, <2>1 DEF Expire, callVars, history, Alone, Live
<1>14. ASSUME UNCHANGED vars
       PROVE  Alone'
  BY <1>14 DEF vars, Alone, Live, InLock
<1> QED BY <1>1, <1>2, <1>3, <1>4, <1>5, <1>6, <1>7, <1>8, <1>9, <1>10, <1>11, <1>12, <1>13, <1>14
        DEF Next, Proceed

\* The file is not written, but by the one in the lock, while its torn tail is
\* cut off.
LEMMA CutStep ==
  ASSUME Types, InCall, Alone, Cut, [Next]_vars
  PROVE  Cut'
<1>1. ASSUME NEW p \in Process, Start(p) \/ BeginAppend(p) \/ BeginSave(p)
      PROVE  Cut'
  BY <1>1 DEF Start, BeginAppend, BeginSave, Goto, fileVars, Cut, Types
<1>2. ASSUME NEW p \in Process, Proceed(p), file' = file, pc'[p] # "truncate"
      PROVE  Cut'
  BY <1>2, CallSteps DEF Cut
<1>3. ASSUME NEW p \in Process, Read(p)
      PROVE  Cut'
  <2>1. CASE Torn(file)
    <3>1. kept'[p] = Len(Events(file)) /\ file' = file
      BY <1>3, <2>1 DEF Read, fileVars, Types
    <3>2. Len(Events(file)) <= Len(file.lines)
      <4>1. file \in File /\ Len(file.lines) \in Nat
        BY LenProperties DEF Types, File
      <4> QED BY <4>1, EventsType
    <3> QED BY <1>3, <3>1, <3>2, CallSteps DEF Proceed, Cut
  <2>2. CASE ~Torn(file)
    <3>1. pc'[p] # "truncate" /\ file' = file
      BY <1>3, <2>2 DEF Read, fileVars, Goto, Compared, Types
    <3> QED BY <1>2, <1>3, <3>1 DEF Proceed
  <2> QED BY <2>1, <2>2
<1>4. ASSUME NEW p \in Process, Truncate(p) \/ Write(p)
      PROVE  Cut'
  <2>1. InLock(p) /\ pc'[p] # "truncate"
    BY <1>4 DEF Truncate, Write, InLock, Goto, Compared, Types
  <2>2. \A q \in Process \ {p} : pc[q] # "truncate"
    BY <2>1, Exclusive DEF InLock
  <2> QED BY <1>4, <2>1, <2>2, CallSteps DEF Proceed, Cut
<1>5. ASSUME NEW p \in Process,
             \/ OpenLock(p) \/ TimeOut(p) \/ Inspect(p) \/ Steal(p) \/ Stamp(p)
             \/ Sync(p) \/ Release(p) \/ Unlink(p)
             \/ SaveTemporary(p) \/ Rename(p) \/ SyncDirectory(p)
      PROVE  Cut'
  <2>1. file' = file
    BY <1>5 DEF OpenLock, TimeOut, Inspect, Steal, Stamp, Sync, Release, Unlink,
                SaveTemporary, Rename, SyncDirectory, fileVars
  <2>2. pc'[p] # "truncate"
    <3>1. CASE Release(p)
      BY <3>1 DEF Release, Return, Goto, Types
    <3>2. CASE OpenLock(p) \/ Inspect(p)
      BY <3>2 DEF OpenLock, Inspect, Goto, Types
    <3> QED BY <1>5, <3>1, <3>2 DEF TimeOut, Steal, Stamp, Sync, Unlink,
                SaveTemporary, Rename, SyncDirectory, Return, Goto, Types
  <2> QED BY <1>2, <1>5, <2>1, <2>2 DEF Proceed
<1>6. ASSUME NEW p \in Process, Kill(p)
      PROVE  Cut'
  <2>1. /\ pc'[p] = "idle"
        /\ \A q \in Process \ {p} : pc'[q] = pc[q] /\ kept'[q] = kept[q]
    BY <1>6, Deaths DEF Kill
  <2>2. CASE pc[p] = "write"
    <3>1. \A q \in Process \ {p} : pc[q] # "truncate"
      BY <2>2, Exclusive DEF InLock
    <3> QED BY <2>1, <3>1 DEF Cut
  <2>3. CASE pc[p] # "write"
    <3>1. file' = file
      BY <1>6, <2>3 DEF Kill
    <3> QED BY <2>1, <3>1 DEF Cut
  <2> QED BY <2>2, <2>3
<1>7. ASSUME PowerLoss
      PROVE  Cut'
  <2> DEFINE ps == {p \in Process : status[p] = "live"}
  <2>1. Die(ps)
    BY <1>7 DEF PowerLoss
  <2>2. \A q \in Process : pc'[q] = "idle"
    BY <2>1, Deaths DEF InCall
  <2> QED BY <2>2 DEF Cut
<1>8. ASSUME Expire \/ UNCHANGED vars
      PROVE  Cut'
  BY <1>8 DEF Cut, Expire, fileVars, callVars, vars
<1> QED BY <1>1, <1>3, <1>4, <1>5, <1>6, <1>7, <1>8 DEF Next, Proceed

\* What replaced a save still does when more saves follow.
LEMMA ReplacedStays ==
  ASSUME Types, Types', NEW c, NEW k, Replaced(c, k), NEW new \in Nat,
         renames' \in {renames, Append(renames, new)}
  PROVE  \E i, j \in 1..Len(renames') : i <= j /\ renames'[i] = c /\ renames'[j] = k
<1>1. PICK i \in 1..Len(renames), j \in 1..Len(renames) :
        i <= j /\ renames[i] = c /\ renames[j] = k
  BY DEF Replaced
<1>2. Len(renames) \in Nat
  BY DEF Types
<1>3. Len(renames') >= Len(renames) /\ \A n \in 1..Len(renames) : renames'[n] = renames[n]
  <2>1. CASE renames' = renames
    BY <1>2, <2>1
  <2>2. CASE renames' = Append(renames, new)
    BY <1>2, <2>2, AppendProperties DEF Types
  <2> QED BY <2>1, <2>2
<1>4. i \in 1..Len(renames') /\ j \in 1..Len(renames')
  BY <1>2, <1>3 DEF Types
<1> QED BY <1>1, <1>3, <1>4

\* And by the latest: the one that is there now.
LEMMA ReplacedByNew ==
  ASSUME Types, Types', NEW c, NEW k, Replaced(c, k), NEW new \in Nat,
         renames' = Append(renames, new)
  PROVE  \E i, j \in 1..Len(renames') : i <= j /\ renames'[i] = c /\ renames'[j] = new
<1>1. PICK i \in 1..Len(renames) : renames[i] = c
  BY DEF Replaced
<1>2. /\ Len(renames) \in Nat
      /\ Len(renames') = Len(renames) + 1
      /\ renames'[i] = c
      /\ renames'[Len(renames) + 1] = new
  BY <1>1, AppendProperties DEF Types
<1>3. i \in 1..Len(renames') /\ Len(renames) + 1 \in 1..Len(renames')
  BY <1>2
<1> QED BY <1>2, <1>3

\* No step takes back a checkpoint whose save returned.
LEMMA SavesStep ==
  ASSUME Types, Types', InCall, Saves, [Next]_vars
  PROVE  Saves'
<1>1. ASSUME UNCHANGED <<renames, saved, checkpoint, ckDisk>>,
             \A q \in Process : pc'[q] = "syncDirectory" =>
               pc[q] = "syncDirectory" /\ batch'[q] = batch[q]
      PROVE  Saves'
  BY <1>1 DEF Saves, Replaced
<1>2. ASSUME NEW p \in Process, Start(p) \/ BeginAppend(p) \/ BeginSave(p)
      PROVE  Saves'
  BY <1>1, <1>2 DEF Start, BeginAppend, BeginSave, Goto, checkpointVars, history, Types
<1>3. ASSUME NEW p \in Process,
             \/ OpenLock(p) \/ TimeOut(p) \/ Inspect(p) \/ Steal(p) \/ Stamp(p)
             \/ Read(p) \/ Truncate(p) \/ Write(p) \/ Sync(p) \/ Release(p) \/ Unlink(p)
             \/ SaveTemporary(p)
      PROVE  Saves'
  <2>1. UNCHANGED <<renames, saved, checkpoint, ckDisk>>
    BY <1>3 DEF OpenLock, TimeOut, Inspect, Steal, Stamp, Read, Truncate, Write, Sync,
                Release, Unlink, SaveTemporary, checkpointVars, history
  <2>2. pc'[p] # "syncDirectory"
    <3>1. CASE Release(p)
      BY <3>1 DEF Release, Return, Goto, Types
    <3>2. CASE OpenLock(p) \/ Inspect(p) \/ Read(p) \/ Truncate(p)
      BY <3>2 DEF OpenLock, Inspect, Read, Truncate, Compared, Goto, Types
    <3> QED BY <1>3, <3>1, <3>2 DEF TimeOut, Steal, Stamp, Write, Sync, Unlink,
                SaveTemporary, Return, Goto, Types
  <2> QED BY <1>1, <1>3, <2>1, <2>2, CallSteps DEF Proceed
<1>4. ASSUME NEW p \in Process, Rename(p)
      PROVE  Saves'
  <2> DEFINE new == batch[p][1].call
  <2>1. new \in Nat
    <3>1. batch[p] \in Seq(Record) /\ Len(batch[p]) > 0
      BY <1>4 DEF Types, InCall, Rename
    <3>2. batch[p][1] \in Record
      BY <3>1
    <3> QED BY <3>2 DEF Record
  <2>2. /\ renames' = Append(renames, new) /\ checkpoint' = new
        /\ UNCHANGED <<saved, ckDisk, batch>>
        /\ \A q \in Process \ {p} : pc'[q] = pc[q]
    BY <1>4 DEF Rename, callVars, Goto, Types
  <2>3. Replaced(batch[p][1].call, checkpoint)'
    <3>1. /\ Len(renames') = Len(renames) + 1 /\ Len(renames) \in Nat
          /\ renames'[Len(renames) + 1] = new
      BY <2>1, <2>2, AppendProperties DEF Types
    <3>2. Len(renames) + 1 \in 1..Len(renames')
      BY <3>1
    <3> QED BY <2>2, <3>1, <3>2 DEF Replaced
  <2> HIDE DEF new
  <2>4. ASSUME NEW c \in saved
        PROVE  Replaced(c, checkpoint)' /\ Replaced(c, ckDisk)'
    <3>1. Replaced(c, checkpoint) /\ Replaced(c, ckDisk)
      BY DEF Saves
    <3>2. Replaced(c, checkpoint)'
      BY <2>1, <2>2, <3>1, ReplacedByNew DEF Replaced
    <3>3. Replaced(c, ckDisk)'
      BY <2>1, <2>2, <3>1, ReplacedStays DEF Replaced
    <3> QED BY <3>2, <3>3
  <2>5. ASSUME NEW q \in Process \ {p}, pc[q] = "syncDirectory"
        PROVE  Replaced(batch[q][1].call, checkpoint)'
    <3> DEFINE c == batch[q][1].call
    <3>1. Replaced(c, checkpoint)
      BY <2>5 DEF Saves
    <3>2. batch'[q][1].call = c
      BY <2>2
    <3> HIDE DEF c
    <3> QED BY <2>1, <2>2, <3>1, <3>2, ReplacedByNew DEF Replaced
  <2> QED BY <2>2, <2>3, <2>4, <2>5 DEF Saves
<1>5. ASSUME NEW p \in Process, SyncDirectory(p)
      PROVE  Saves'
  <2>1. /\ UNCHANGED <<renames, checkpoint>> /\ ckDisk' = checkpoint
        /\ saved' = saved \cup {batch[p][1].call}
        /\ pc[p] = "syncDirectory" /\ pc'[p] = "idle"
        /\ \A q \in Process \ {p} : pc'[q] = pc[q] /\ batch'[q] = batch[q]
    BY <1>5 DEF SyncDirectory, Return, Goto, Types
  <2> QED BY <2>1 DEF Saves, Replaced
<1>6. ASSUME NEW p \in Process, Kill(p)
      PROVE  Saves'
  <2>1. /\ UNCHANGED <<renames, saved, checkpoint, ckDisk>> /\ pc'[p] = "idle"
        /\ \A q \in Process \ {p} : pc'[q] = pc[q] /\ batch'[q] = batch[q]
    BY <1>6, Deaths DEF Kill, checkpointVars
  <2> QED BY <1>1, <2>1
<1>7. ASSUME PowerLoss
      PROVE  Saves'
  <2> DEFINE ps == {p \in Process : status[p] = "live"}
  <2>1. Die(ps)
    BY <1>7 DEF PowerLoss
  <2>2. UNCHANGED <<renames, saved>> /\ \A q \in Process : pc'[q] = "idle"
    BY <2>1, Deaths DEF InCall
  <2>3. checkpoint' \in {checkpoint, ckDisk} /\ ckDisk' = checkpoint'
    BY <1>7 DEF PowerLoss
  <2> QED BY <2>2, <2>3 DEF Saves, Replaced
<1>8. ASSUME Expire \/ UNCHANGED vars
      PROVE  Saves'
  BY <1>1, <1>8 DEF Expire, checkpointVars, callVars, history, vars
<1> QED BY <1>2, <1>3, <1>4, <1>5, <1>6, <1>7, <1>8 DEF Next, Proceed

\* At first nobody has opened the store.
LEMMA GuardInit == Init => GuardInv
<1>1. SUFFICES ASSUME Init PROVE GuardInv
  OBVIOUS
<1>2. <<>> \in Seq(Line) /\ <<>> \in Seq(Record) /\ <<>> \in Seq(Nat)
  OBVIOUS
<1>3. Types
  BY <1>1, <1>2 DEF Init, Types, EmptyFile, File, Point
<1> QED BY <1>1, <1>3 DEF Init, GuardInv, InCall, Alone, Cut, Saves, Live, InLock

\* The five parts together are inductive.
LEMMA GuardStep ==
  ASSUME SoloRecovery, GuardInv, [Next]_vars
  PROVE  GuardInv'
BY TypesStep, InCallStep, AloneStep, CutStep, SavesStep DEF GuardInv

\* Two appends are never in a task's log at once, and no crash takes back a
\* checkpoint whose save returned (file-fact-store.ts:259-263, 332-347), when
\* what a crash left is met by one process at a time.
THEOREM WritersAreGuarded ==
  ASSUME SoloRecovery
  PROVE  Spec => []WritesGuarded
<1>1. GuardInv => WritesGuarded
  <2>1. ASSUME GuardInv, NEW p \in Process, NEW q \in Process, Holding(p), Holding(q)
        PROVE  p = q
    BY <2>1, Exclusive DEF GuardInv, Holding, InLock
  <2>2. GuardInv => CheckpointKept
    BY DEF GuardInv, Saves, Replaced, CheckpointKept
  <2> QED BY <2>1, <2>2 DEF WritesGuarded, LockExclusive
<1> QED BY GuardInit, GuardStep, <1>1, PTL DEF Spec

-----------------------------------------------------------------------------
(* What a write leaves in a file that ends with a newline. *)

\* The lines of two sequences of lines, one after the other.
LEMMA Joined ==
  ASSUME NEW s \in Seq(Line), NEW t \in Seq(Line), NEW u, u = s \o t
  PROVE  /\ u \in Seq(Line)
         /\ Len(u) = Len(s) + Len(t)
         /\ \A i \in 1..Len(s) : u[i] = s[i]
         /\ \A i \in 1..Len(t) : u[Len(s) + i] = t[i]
<1>1. Len(s) \in Nat /\ Len(t) \in Nat
  BY LenProperties
<1>2. /\ u \in Seq(Line)
      /\ Len(u) = Len(s) + Len(t)
      /\ \A i \in 1..Len(s) + Len(t) : u[i] = IF i <= Len(s) THEN s[i] ELSE t[i - Len(s)]
  BY ConcatProperties
<1>3. ASSUME NEW i \in 1..Len(t)
      PROVE  u[Len(s) + i] = t[i]
  <2>1. /\ Len(s) + i \in 1..Len(s) + Len(t)
        /\ ~(Len(s) + i <= Len(s))
        /\ (Len(s) + i) - Len(s) = i
    BY <1>1
  <2> QED BY <1>2, <2>1
<1>4. ASSUME NEW i \in 1..Len(s)
      PROVE  u[i] = s[i]
  <2>1. i \in 1..Len(s) + Len(t) /\ i <= Len(s)
    BY <1>1
  <2> QED BY <1>2, <2>1
<1> QED BY <1>2, <1>3, <1>4

\* Items and part of the next, after what was there.
LEMMA JoinedTorn ==
  ASSUME NEW s \in Seq(Line), NEW items \in Seq(Line), NEW t, t = s \o (items \o <<Garbage>>)
  PROVE  Written(s, t, items, Len(items), TRUE)
<1>1. Len(s) \in Nat /\ Len(items) \in Nat
  BY LenProperties
<1>2. <<Garbage>> \in Seq(Line) /\ Len(<<Garbage>>) = 1 /\ <<Garbage>>[1] = Garbage
  BY DEF Line
<1> DEFINE all == items \o <<Garbage>>
           one == <<Garbage>>
<1>3. t = s \o all /\ all = items \o one
  OBVIOUS
<1> HIDE DEF all, one
<1>4. /\ all \in Seq(Line)
      /\ Len(all) = Len(items) + 1
      /\ \A i \in 1..Len(items) : all[i] = items[i]
      /\ \A i \in 1..1 : all[Len(items) + i] = one[i]
  BY <1>2, <1>3, Joined DEF one
<1>5. all[Len(items) + 1] = Garbage
  BY <1>2, <1>4 DEF one
<1>6. /\ Len(t) = Len(s) + (Len(items) + 1)
      /\ \A i \in 1..Len(s) : t[i] = s[i]
      /\ \A i \in 1..Len(items) + 1 : t[Len(s) + i] = all[i]
  BY <1>3, <1>4, Joined
<1>7. t[Len(t)] = Garbage
  BY <1>1, <1>5, <1>6
<1>8. Len(t) = Len(s) + Len(items) + 1
  BY <1>1, <1>6
<1> QED BY <1>1, <1>4, <1>6, <1>7, <1>8 DEF Written

\* A write that no crash interrupts is there as a whole.
LEMMA PutWhole ==
  ASSUME NEW f \in File, f.ended, NEW items \in Seq(Line)
  PROVE  /\ Put(f, items, TRUE).ended
         /\ Written(f.lines, Put(f, items, TRUE).lines, items, Len(items), FALSE)
<1>1. Put(f, items, TRUE).ended /\ Put(f, items, TRUE).lines = f.lines \o items
  BY ConcatEmptySeq DEF Put, File
<1>2. ASSUME NEW s \in Seq(Line), NEW t, t = s \o items
      PROVE  Written(s, t, items, Len(items), FALSE)
  <2>1. Len(s) \in Nat /\ Len(items) \in Nat
    BY LenProperties
  <2>2. /\ Len(t) = Len(s) + Len(items)
        /\ \A i \in 1..Len(s) : t[i] = s[i]
        /\ \A i \in 1..Len(items) : t[Len(s) + i] = items[i]
    BY <1>2, Joined
  <2> QED BY <2>1, <2>2 DEF Written
<1>3. f.lines \in Seq(Line)
  BY DEF File
<1> QED BY <1>1, <1>2, <1>3

\* One that a crash cut in the middle of a line ends with garbage.
LEMMA PutTorn ==
  ASSUME NEW f \in File, f.ended, NEW items \in Seq(Line)
  PROVE  Written(f.lines, Put(f, items \o <<Garbage>>, FALSE).lines, items, Len(items), TRUE)
<1>1. items \o <<Garbage>> # <<>>
  <2>1. <<Garbage>> \in Seq(Line) /\ Len(<<Garbage>>) = 1
    BY DEF Line
  <2> QED BY <2>1, Joined, LenProperties
<1>2. Put(f, items \o <<Garbage>>, FALSE).lines = f.lines \o (items \o <<Garbage>>)
  BY <1>1 DEF Put
<1>3. f.lines \in Seq(Line)
  BY DEF File
<1> QED BY <1>2, <1>3, JoinedTorn

\* A crash in the write of some items leaves the first of them, and perhaps
\* part of the next.
LEMMA TornPutsLeave ==
  ASSUME ~LoseNewline, NEW f \in File, f.ended, NEW items \in Seq(Line),
         NEW g \in TornPuts(f, items)
  PROVE  \E n \in 0..Len(items), torn \in BOOLEAN :
           /\ torn => n < Len(items)
           /\ g.ended \/ torn
           /\ Written(f.lines, g.lines, items, n, torn)
<1>1. Len(items) \in Nat
  BY LenProperties
<1>2. ASSUME NEW n \in 0..Len(items)
      PROVE  /\ SubSeq(items, 1, n) \in Seq(Line)
             /\ Len(SubSeq(items, 1, n)) = n
             /\ \A i \in 1..n : SubSeq(items, 1, n)[i] = items[i]
  BY <1>1
<1>3. ASSUME NEW n \in 0..Len(items), g = Put(f, SubSeq(items, 1, n), TRUE)
      PROVE  g.ended /\ Written(f.lines, g.lines, items, n, FALSE)
  <2>1. g.ended /\ Written(f.lines, g.lines, SubSeq(items, 1, n), n, FALSE)
    BY <1>2, <1>3, PutWhole
  <2> QED BY <1>2, <2>1 DEF Written
<1>4. ASSUME NEW n \in 0..Len(items) - 1, g = Put(f, SubSeq(items, 1, n) \o <<Garbage>>, FALSE)
      PROVE  Written(f.lines, g.lines, items, n, TRUE)
  <2>0. n \in 0..Len(items)
    BY <1>1
  <2>1. Written(f.lines, g.lines, SubSeq(items, 1, n), n, TRUE)
    BY <1>2, <1>4, <2>0, PutTorn
  <2> QED BY <1>2, <2>0, <2>1 DEF Written
<1>5. \/ \E n \in 0..Len(items) : g = Put(f, SubSeq(items, 1, n), TRUE)
      \/ \E n \in 0..Len(items) - 1 : g = Put(f, SubSeq(items, 1, n) \o <<Garbage>>, FALSE)
  BY DEF TornPuts
<1>6. CASE \E n \in 0..Len(items) : g = Put(f, SubSeq(items, 1, n), TRUE)
  BY <1>3, <1>6
<1>7. CASE \E n \in 0..Len(items) - 1 : g = Put(f, SubSeq(items, 1, n) \o <<Garbage>>, FALSE)
  <2>1. PICK n \in 0..Len(items) - 1 : g = Put(f, SubSeq(items, 1, n) \o <<Garbage>>, FALSE)
    BY <1>7
  <2>2. n \in 0..Len(items) /\ n < Len(items)
    BY <1>1
  <2> QED BY <1>4, <2>1, <2>2
<1> QED BY <1>5, <1>6, <1>7

-----------------------------------------------------------------------------
(* The log: what is in the file, and what of it is safe. *)

\* A torn tail is a last line that does not parse.
LEMMA TornIs ==
  ASSUME NEW f \in File
  PROVE  Torn(f) <=> Len(f.lines) > 0 /\ f.lines[Len(f.lines)] = Garbage
<1>1. f.lines \in Seq(Line) /\ Len(f.lines) \in Nat
  BY LenProperties DEF File
<1>2. f.lines # <<>> <=> Len(f.lines) > 0
  BY <1>1, EmptySeq
<1> QED BY <1>2 DEF Torn, Last

\* A line of what was written: one that was there, one of the items, or what is
\* left of the next.
LEMMA LinesWritten ==
  ASSUME NEW s \in Seq(Line), NEW t \in Seq(Line), NEW items \in Seq(Record),
         NEW n \in 0..Len(items), NEW torn \in BOOLEAN, Written(s, t, items, n, torn),
         NEW i \in 1..Len(t)
  PROVE  \/ i \in 1..Len(s) /\ t[i] = s[i]
         \/ \E k \in 1..n : i = Len(s) + k /\ t[i] = items[k]
         \/ torn /\ i = Len(t) /\ t[i] = Garbage
<1>1. Len(s) \in Nat /\ Len(t) \in Nat /\ Len(items) \in Nat /\ n \in Nat
  BY LenProperties
<1>2. CASE i <= Len(s)
  BY <1>1, <1>2 DEF Written
<1>3. CASE i > Len(s) /\ i <= Len(s) + n
  <2>1. i - Len(s) \in 1..n /\ i = Len(s) + (i - Len(s))
    BY <1>1, <1>3
  <2>2. t[Len(s) + (i - Len(s))] = items[i - Len(s)]
    BY <2>1 DEF Written
  <2> QED BY <2>1, <2>2
<1>4. CASE i > Len(s) + n
  <2>1. Len(t) = Len(s) + n + (IF torn THEN 1 ELSE 0)
    BY DEF Written
  <2>2. CASE torn
    <3>1. i = Len(t)
      BY <1>1, <1>4, <2>1, <2>2
    <3> QED BY <2>2, <3>1 DEF Written
  <2>3. CASE ~torn
    BY <1>1, <1>4, <2>1, <2>3
  <2> QED BY <2>2, <2>3
<1> QED BY <1>1, <1>2, <1>3, <1>4

\* An event parses.
LEMMA RecordIsNoGarbage == Garbage \notin Record
BY FactStoreAssumption DEF Record

\* The next events keep the order.
LEMMA OrderedWritten ==
  ASSUME NEW s \in Seq(Line), NEW t \in Seq(Line), NEW items \in Seq(Record),
         NEW n \in 0..Len(items), NEW torn \in BOOLEAN, Written(s, t, items, n, torn),
         Ordered(s), ~(Len(s) > 0 /\ s[Len(s)] = Garbage),
         \A i \in 1..Len(items) : items[i].seq = Len(s) + i
  PROVE  Ordered(t)
<1>1. Len(s) \in Nat /\ Len(t) \in Nat /\ Len(items) \in Nat /\ n \in Nat
  BY LenProperties
<1>2. SUFFICES ASSUME NEW i \in 1..Len(t)
               PROVE  IF t[i] = Garbage THEN i = Len(t) ELSE t[i].seq = i
  BY DEF Ordered
<1>3. CASE i \in 1..Len(s) /\ t[i] = s[i]
  BY <1>1, <1>3 DEF Ordered
<1>4. CASE \E k \in 1..n : i = Len(s) + k /\ t[i] = items[k]
  <2>1. PICK k \in 1..n : i = Len(s) + k /\ t[i] = items[k]
    BY <1>4
  <2>2. k \in 1..Len(items) /\ items[k] \in Record
    BY <1>1, ElementOfSeq
  <2> QED BY <2>1, <2>2, RecordIsNoGarbage
<1> QED BY <1>3, <1>4, LinesWritten

\* What a crash leaves of the lines s, of which the lines d were safe: a part
\* from the beginning, with d in it, the last line of which may be torn.
CutBack(d, s, t) ==
  /\ Len(d) <= Len(t) /\ Len(t) <= Len(s)
  /\ \A i \in 1..Len(d) : t[i] = d[i]
  /\ \A i \in 1..Len(t) : t[i] = s[i] \/ (i = Len(t) /\ t[i] = Garbage)

\* A power loss cuts the file back to no less than what was synced.
LEMMA UnsyncedLost ==
  ASSUME ~LoseNewline, Types, Types', Files, PowerLoss
  PROVE  /\ disk' = file'
         /\ CutBack(disk.lines, file.lines, file'.lines)
         /\ file'.ended \/ Torn(file)' 
<1> DEFINE unsynced == SubSeq(file.lines, Len(disk.lines) + 1, Len(file.lines))
           s == file.lines
           d == disk.lines
           t == file'.lines
<1>1. /\ s \in Seq(Line) /\ d \in Seq(Line) /\ t \in Seq(Line)
      /\ file \in File /\ disk \in File /\ file' \in File
      /\ Len(s) \in Nat /\ Len(d) \in Nat /\ Len(t) \in Nat /\ Len(d) <= Len(s)
  BY LenProperties DEF Types, File, Files
<1>2. /\ unsynced \in Seq(Line)
      /\ Len(unsynced) = Len(s) - Len(d)
      /\ \A i \in 1..Len(s) - Len(d) : unsynced[i] = s[Len(d) + i]
  <2> HIDE DEF s, d
  <2> DEFINE u == SubSeq(s, Len(d) + 1, Len(s))
  <2>1. /\ u \in Seq(Line) /\ Len(u) = Len(s) - Len(d)
        /\ \A i \in 1..Len(s) - Len(d) : u[i] = s[Len(d) + i]
    BY <1>1
  <2> QED BY <2>1 DEF s, d
<1>3. disk' = file' /\ file' \in {file} \cup TornPuts(disk, unsynced)
  BY DEF PowerLoss
<1>4. CASE file' = file
  BY <1>1, <1>3, <1>4 DEF Files, CutBack, Intact
<1>5. CASE ~disk.ended
  <2>1. file = disk
    BY <1>5 DEF Files
  <2>2. unsynced = <<>>
    BY <1>1, <1>2, <2>1, EmptySeq
  <2>3. file' = file
    <3> HIDE DEF unsynced
    <3>1. Len(unsynced) = 0
      BY <2>2
    <3>2. SubSeq(unsynced, 1, 0) = <<>>
      BY <2>2
    <3> QED BY <1>3, <2>1, <2>2, <3>1, <3>2 DEF TornPuts, Put
  <2> QED BY <1>4, <2>3
<1>6. CASE disk.ended /\ file' \in TornPuts(disk, unsynced)
  <2> HIDE DEF unsynced
  <2>1. PICK n \in 0..Len(unsynced), torn \in BOOLEAN :
          /\ torn => n < Len(unsynced)
          /\ file'.ended \/ torn
          /\ Written(disk.lines, file'.lines, unsynced, n, torn)
    BY <1>1, <1>2, <1>6, TornPutsLeave
  <2>2. n \in Nat /\ Len(unsynced) \in Nat
    BY <1>1, <1>2
  <2>3. Written(d, t, unsynced, n, torn)
    BY <2>1
  <2>4. file'.ended \/ Torn(file)'
    <3>1. CASE torn
      <4>1. Len(t) > 0 /\ t[Len(t)] = Garbage
        <5> HIDE DEF d, t
        <5> QED BY <1>1, <2>2, <2>3, <3>1 DEF Written
      <4> QED BY <1>1, <4>1, TornIs
    <3> QED BY <2>1, <3>1
  <2> HIDE DEF s, d, t
  <2>5. Len(t) = Len(d) + n + (IF torn THEN 1 ELSE 0) /\ Len(t) <= Len(s) /\ Len(d) <= Len(t)
    BY <1>1, <1>2, <2>1, <2>2, <2>3 DEF Written
  <2>6. ASSUME NEW i \in 1..Len(t)
        PROVE  t[i] = s[i] \/ (i = Len(t) /\ t[i] = Garbage)
    <3>1. CASE i <= Len(d)
      <4>1. t[i] = d[i]
        BY <1>1, <2>3, <3>1 DEF Written
      <4>2. d[i] = s[i]
        BY <1>1, <3>1 DEF Files, d, s
      <4> QED BY <4>1, <4>2
    <3>2. CASE i > Len(d) /\ i <= Len(d) + n
      <4>1. i - Len(d) \in 1..n /\ i = Len(d) + (i - Len(d)) /\ i - Len(d) \in 1..Len(s) - Len(d)
        BY <1>1, <1>2, <2>2, <3>2
      <4>2. t[Len(d) + (i - Len(d))] = unsynced[i - Len(d)]
        BY <2>3, <4>1 DEF Written
      <4> QED BY <1>2, <4>1, <4>2
    <3>3. CASE i > Len(d) + n
      <4>1. torn /\ i = Len(t)
        BY <1>1, <2>2, <2>5, <3>3
      <4> QED BY <2>3, <4>1 DEF Written
    <3> QED BY <1>1, <2>2, <3>1, <3>2, <3>3
  <2>7. \A i \in 1..Len(d) : t[i] = d[i]
    BY <2>3 DEF Written
  <2>8. CutBack(d, s, t)
    BY <2>5, <2>6, <2>7 DEF CutBack
  <2> QED BY <1>3, <2>4, <2>8 DEF s, d, t
<1> QED BY <1>3, <1>4, <1>5, <1>6

\* The events of a call about to write are the next of the file.
LEMMA NextEvents ==
  ASSUME Types, Intact(file), NEW p \in Process, pc[p] = "write", InCall, Batch(p), Known(p)
  PROVE  /\ file.ended /\ ~Torn(file)
         /\ ~(Len(file.lines) > 0 /\ file.lines[Len(file.lines)] = Garbage)
         /\ batch[p] \in Seq(Record) /\ batch[p] \in Seq(Line)
         /\ \A i \in 1..Len(batch[p]) :
              /\ batch[p][i].seq = Len(file.lines) + i
              /\ batch[p][i].call = batch[p][1].call
              /\ batch[p][i] \in Record
<1>1. ~Torn(file) /\ Len(file.lines) = batch[p][1].seq - 1
  BY DEF Known
<1>2. batch[p] \in Seq(Record) /\ Len(batch[p]) > 0
  BY DEF Types, InCall
<1>3. batch[p] \in Seq(Line)
  BY <1>2, SeqMonotonic DEF Line
<1>4. batch[p][1] \in Record
  BY <1>2
<1>5. batch[p][1].seq \in Nat
  BY <1>4 DEF Record
<1> DEFINE s == batch[p][1].seq
           len == Len(file.lines)
<1>6. \A i \in 1..Len(batch[p]) :
        batch[p][i] = [seq |-> s + i - 1, call |-> batch[p][1].call]
  BY DEF Batch, Appending, Unwritten
<1>7. len = s - 1 /\ s \in Nat
  BY <1>1, <1>5
<1> HIDE DEF s, len
<1>8. ASSUME NEW i \in 1..Len(batch[p])
      PROVE  /\ batch[p][i].seq = len + i
             /\ batch[p][i].call = batch[p][1].call
             /\ batch[p][i] \in Record
  <2>1. i \in Nat /\ s + i - 1 = len + i
    BY <1>2, <1>7
  <2>2. batch[p][i] = [seq |-> s + i - 1, call |-> batch[p][1].call]
    BY <1>6
  <2>3. batch[p][i].seq = s + i - 1 /\ batch[p][i].call = batch[p][1].call
    BY <2>2
  <2>4. batch[p][i] \in Record
    BY <1>2, ElementOfSeq
  <2> QED BY <2>1, <2>3, <2>4
<1> QED BY <1>1, <1>2, <1>3, <1>8, TornIs DEF Types, Intact, len

\* A write, whole or torn, in the lock leaves what is safe and adds events in
\* order.
LEMMA WrittenFiles ==
  ASSUME Types, Types', Files, InCall, NEW p \in Process, pc[p] = "write", Batch(p), Known(p),
         NEW n \in 0..Len(batch[p]), NEW torn \in BOOLEAN, file'.ended \/ torn,
         Written(file.lines, file'.lines, batch[p], n, torn),
         UNCHANGED <<disk, calls, acked>>
  PROVE  Files'
<1> DEFINE s == file.lines
           t == file'.lines
           d == disk.lines
           b == batch[p]
<1>1. /\ s \in Seq(Line) /\ d \in Seq(Line) /\ t \in Seq(Line)
      /\ file \in File /\ disk \in File /\ file' \in File
      /\ Len(s) \in Nat /\ Len(d) \in Nat /\ Len(t) \in Nat /\ Len(d) <= Len(s)
  BY LenProperties DEF Types, File, Files
<1>2. /\ ~Torn(file)
      /\ ~(Len(s) > 0 /\ s[Len(s)] = Garbage)
      /\ b \in Seq(Record)
      /\ \A i \in 1..Len(b) : /\ b[i].seq = Len(s) + i
                              /\ b[i].call = b[1].call
                              /\ b[i] \in Record
  BY NextEvents DEF Files
<1>3. Written(s, t, b, n, torn) /\ n \in 0..Len(b)
  OBVIOUS
<1>4. Ordered(s) /\ ~Torn(disk)
  BY <1>2 DEF Files, Intact
<1>5. b[1].call <= calls
  BY DEF Batch
<1>6. \A i \in 1..Len(s) : s[i] # Garbage => s[i].call <= calls
  BY DEF Files
<1>7. \A i \in 1..Len(d) : d[i] = s[i]
  BY DEF Files
<1>8. Torn(file)' \/ ~torn
  <2>1. SUFFICES ASSUME torn PROVE Len(t) > 0 /\ t[Len(t)] = Garbage
    BY <1>1, TornIs
  <2> HIDE DEF s, t, b
  <2>2. n \in Nat
    BY <1>2, <1>3, LenProperties
  <2> QED BY <1>1, <1>3, <2>1, <2>2 DEF Written
<1> HIDE DEF s, t, b, d
<1>9. Ordered(t)
  BY <1>1, <1>2, <1>3, <1>4, OrderedWritten
<1>10. n \in Nat /\ Len(b) \in Nat
  BY <1>2, <1>3, LenProperties
<1>11. ASSUME NEW i \in 1..Len(t), t[i] # Garbage
       PROVE  t[i].call <= calls
  <2>1. CASE i \in 1..Len(s) /\ t[i] = s[i]
    BY <1>6, <1>11, <2>1
  <2>2. CASE \E k \in 1..n : i = Len(s) + k /\ t[i] = b[k]
    <3>1. PICK k \in 1..n : t[i] = b[k]
      BY <2>2
    <3>2. k \in 1..Len(b)
      BY <1>3, <1>10
    <3> QED BY <1>2, <1>5, <3>1, <3>2
  <2> QED BY <1>1, <1>2, <1>3, <1>11, <2>1, <2>2, LinesWritten
<1>12. Len(d) <= Len(t) /\ \A i \in 1..Len(d) : d[i] = t[i]
  <2>1. Len(t) = Len(s) + n + (IF torn THEN 1 ELSE 0) /\ \A i \in 1..Len(s) : t[i] = s[i]
    BY <1>3 DEF Written
  <2>2. Len(s) <= Len(t)
    BY <1>1, <1>10, <2>1
  <2>3. \A i \in 1..Len(d) : i \in 1..Len(s)
    BY <1>1
  <2>4. Len(d) <= Len(t)
    BY <1>1, <2>2
  <2> QED BY <1>7, <2>1, <2>3, <2>4
<1>13. Intact(file)'
  BY <1>8, <1>9 DEF Intact, t
<1>14. (disk.ended \/ Torn(disk)) /\ \A e \in acked : Has(disk, e)
  BY DEF Files
<1>15. /\ Len(disk'.lines) <= Len(file'.lines)
       /\ \A i \in 1..Len(disk'.lines) : disk'.lines[i] = file'.lines[i]
       /\ \A i \in 1..Len(file'.lines) : file'.lines[i] # Garbage => file'.lines[i].call <= calls'
  BY <1>11, <1>12 DEF d, t
<1> QED BY <1>4, <1>13, <1>14, <1>15 DEF Files, Has, Torn

\* Nothing of the file changes, but what of it is acknowledged.
LEMMA QuietFiles ==
  ASSUME Types, Types', Files, UNCHANGED <<file, disk>>, calls' >= calls,
         \A e \in acked' : e \in acked \/ Has(disk, e)
  PROVE  Files'
<1>1. \A i \in 1..Len(file.lines) : file.lines[i] # Garbage => file.lines[i].call <= calls'
  <2>1. SUFFICES ASSUME NEW i \in 1..Len(file.lines), file.lines[i] # Garbage
                 PROVE  file.lines[i].call <= calls'
    OBVIOUS
  <2>2. file.lines[i] \in Record /\ file.lines[i].call <= calls
    BY <2>1, ElementOfSeq DEF Files, Types, File, Line
  <2>3. file.lines[i].call \in Nat /\ calls \in Nat /\ calls' \in Nat
    BY <2>2 DEF Types, Record
  <2> QED BY <2>2, <2>3
<1>2. \A e \in acked' : Has(disk, e)
  BY DEF Files
<1> QED BY <1>1, <1>2 DEF Files, Has, Intact, Torn

\* Every step keeps the file in order and what is synced and acknowledged in it.
LEMMA FilesStep ==
  ASSUME ~LoseNewline, GuardInv, Types', LogInv, [Next]_vars
  PROVE  Files'
<1> USE DEF GuardInv, LogInv
<1>1. ASSUME NEW p \in Process, Start(p) \/ BeginAppend(p) \/ BeginSave(p)
      PROVE  Files'
  <2>1. UNCHANGED <<file, disk, acked>> /\ calls' \in {calls, calls + 1}
    BY <1>1 DEF Start, BeginAppend, BeginSave, fileVars, history
  <2>2. calls' >= calls
    BY <2>1 DEF Types
  <2> QED BY <2>1, <2>2, QuietFiles
<1>2. ASSUME NEW p \in Process,
             \/ OpenLock(p) \/ TimeOut(p) \/ Inspect(p) \/ Steal(p) \/ Stamp(p) \/ Read(p)
             \/ SaveTemporary(p) \/ Rename(p) \/ SyncDirectory(p)
      PROVE  Files'
  <2>1. UNCHANGED <<file, disk, acked, calls>>
    BY <1>2 DEF OpenLock, TimeOut, Inspect, Steal, Stamp, Read, SaveTemporary, Rename,
                SyncDirectory, fileVars, history
  <2>2. calls' >= calls
    BY <2>1 DEF Types
  <2> QED BY <2>1, <2>2, QuietFiles
<1>3. ASSUME NEW p \in Process, Release(p) \/ Unlink(p)
      PROVE  Files'
  <2>1. UNCHANGED <<file, disk, calls>>
    BY <1>3 DEF Release, Unlink, fileVars
  <2>2. \/ acked' = acked
        \/ acked' = acked \cup Range(batch[p]) /\ pc[p] \in {"releaseAcked", "unlinkAcked"}
    <3>1. CASE Release(p)
      BY <3>1 DEF Release
    <3>2. CASE Unlink(p)
      BY <3>2 DEF Unlink
    <3> QED BY <1>3, <3>1, <3>2
  <2>3. ASSUME NEW e \in acked', e \notin acked
        PROVE  Has(disk, e)
    <3>1. e \in Range(batch[p]) /\ pc[p] \in {"releaseAcked", "unlinkAcked"}
      BY <2>2, <2>3
    <3>2. PICK i \in 1..Len(batch[p]) : e = batch[p][i]
      BY <3>1, RangeEquality DEF Types
    <3> QED BY <3>1, <3>2 DEF Known
  <2>4. calls' >= calls
    BY <2>1 DEF Types
  <2> QED BY <2>1, <2>3, <2>4, QuietFiles
<1>4. ASSUME NEW p \in Process, Truncate(p)
      PROVE  Files'
  <2> DEFINE s == file.lines
             t == SubSeq(s, 1, kept[p])
  <2>1. Torn(file) /\ kept[p] = Len(s) - 1
    BY <1>4 DEF Truncate, Known
  <2>2. /\ file' = [lines |-> t, ended |-> TRUE] /\ disk' = file'
        /\ UNCHANGED <<calls, acked>>
    BY <1>4 DEF Truncate, history
  <2>3. s \in Seq(Line) /\ Len(s) \in Nat /\ Len(s) > 0 /\ s[Len(s)] = Garbage
    BY <2>1, LenProperties, TornIs DEF Types, File
  <2>4. kept[p] = Len(s) - 1 /\ kept[p] \in Nat
    BY <2>1 DEF Types
  <2>5. Ordered(s) /\ \A i \in 1..Len(s) : s[i] # Garbage => s[i].call <= calls
    BY DEF Files, Intact
  <2>6. \A e \in acked : e.seq \in 1..Len(s) /\ s[e.seq] = e /\ e \in Record
    <3>1. SUFFICES ASSUME NEW e \in acked
                   PROVE  e.seq \in 1..Len(s) /\ s[e.seq] = e /\ e \in Record
      OBVIOUS
    <3>2. Has(disk, e) /\ e \in Record
      BY DEF Files, Types
    <3>3. Len(disk.lines) \in Nat /\ Len(disk.lines) <= Len(s)
      BY LenProperties DEF Types, File, Files
    <3> QED BY <2>3, <3>2, <3>3 DEF Has, Files
  <2> HIDE DEF s
  <2>7. Len(t) = Len(s) - 1 /\ \A i \in 1..Len(s) - 1 : t[i] = s[i]
    <3> DEFINE m == kept[p]
    <3>1. m = Len(s) - 1 /\ m \in Nat /\ t = SubSeq(s, 1, m)
      BY <2>4
    <3> HIDE DEF m, t
    <3> QED BY <2>3, <3>1
  <2> HIDE DEF t
  <2>8. \A i \in 1..Len(t) : t[i] # Garbage /\ t[i].seq = i /\ t[i].call <= calls
    BY <2>3, <2>5, <2>7 DEF Ordered
  <2>9. \A e \in acked : e.seq \in 1..Len(t) /\ t[e.seq] = e
    BY <2>3, <2>6, <2>7, RecordIsNoGarbage
  <2>10. file'.lines = t /\ file'.ended /\ disk'.lines = t
    BY <2>2
  <2>11. Ordered(t)
    BY <2>8 DEF Ordered
  <2>12. Len(t) \in Nat
    BY <2>3, <2>7
  <2> QED BY <2>2, <2>8, <2>9, <2>10, <2>11, <2>12 DEF Files, Has, Intact
<1>5. ASSUME NEW p \in Process, Write(p)
      PROVE  Files'
  <2>1. InCall /\ Batch(p) /\ Known(p) /\ pc[p] = "write" /\ Files
    BY <1>5 DEF Write
  <2>2. file.ended /\ batch[p] \in Seq(Line)
    BY <2>1, NextEvents DEF Files
  <2>3. /\ file'.ended
        /\ Written(file.lines, file'.lines, batch[p], Len(batch[p]), FALSE)
    BY <1>5, <2>2, PutWhole DEF Write, Types
  <2>4. Len(batch[p]) \in 0..Len(batch[p])
    BY <2>2, LenProperties
  <2>5. UNCHANGED <<disk, calls, acked>>
    BY <1>5 DEF Write, history
  <2> QED BY <2>1, <2>3, <2>4, <2>5, WrittenFiles
<1>6. ASSUME NEW p \in Process, Sync(p)
      PROVE  Files'
  <2>1. disk' = file /\ UNCHANGED <<file, calls, acked>>
    BY <1>6 DEF Sync, history
  <2>2. ASSUME NEW e \in acked
        PROVE  Has(file, e)
    <3>1. Has(disk, e)
      BY DEF Files
    <3>2. Len(disk.lines) \in Nat /\ Len(file.lines) \in Nat /\ Len(disk.lines) <= Len(file.lines)
      BY LenProperties DEF Types, File, Files
    <3> QED BY <3>1, <3>2 DEF Has, Files
  <2>3. Len(file.lines) \in Nat
    BY LenProperties DEF Types, File
  <2> QED BY <2>1, <2>2, <2>3 DEF Files, Has, Intact, Torn
<1>7. ASSUME NEW p \in Process, Kill(p)
      PROVE  Files'
  <2>1. UNCHANGED <<disk, calls, acked>>
    BY <1>7, Deaths DEF Kill
  <2>2. CASE pc[p] = "write"
    <3>1. InCall /\ Batch(p) /\ Known(p) /\ Files
      BY <2>2
    <3>2. file.ended /\ batch[p] \in Seq(Line)
      BY <2>2, <3>1, NextEvents DEF Files
    <3>3. file' \in TornPuts(file, batch[p])
      BY <1>7, <2>2 DEF Kill
    <3>4. PICK n \in 0..Len(batch[p]), torn \in BOOLEAN :
            /\ file'.ended \/ torn
            /\ Written(file.lines, file'.lines, batch[p], n, torn)
      BY <3>2, <3>3, TornPutsLeave DEF Types
    <3> QED BY <2>1, <2>2, <3>1, <3>4, WrittenFiles
  <2>3. CASE pc[p] # "write"
    <3>1. file' = file /\ calls' >= calls
      BY <1>7, <2>1, <2>3 DEF Kill, Types
    <3> QED BY <2>1, <3>1, QuietFiles
  <2> QED BY <2>2, <2>3
<1>8. ASSUME PowerLoss
      PROVE  Files'
  <2> DEFINE s == file.lines
             t == file'.lines
             d == disk.lines
  <2>1. /\ disk' = file' /\ CutBack(d, s, t)
        /\ file'.ended \/ Torn(file)'
    BY <1>8, UnsyncedLost
  <2>2. UNCHANGED <<calls, acked>>
    BY <1>8, Deaths DEF PowerLoss
  <2>3. /\ Ordered(s) /\ \A i \in 1..Len(s) : s[i] # Garbage => s[i].call <= calls
        /\ \A e \in acked : e.seq \in 1..Len(d) /\ d[e.seq] = e
    BY DEF Files, Intact, Has
  <2>4. Len(s) \in Nat /\ Len(t) \in Nat /\ Len(d) \in Nat
    BY LenProperties DEF Types, File
  <2> HIDE DEF s, t, d
  <2>5. Ordered(t)
    BY <2>1, <2>3, <2>4 DEF Ordered, CutBack
  <2>6. \A i \in 1..Len(t) : t[i] # Garbage => t[i].call <= calls
    BY <2>1, <2>3, <2>4 DEF CutBack
  <2>7. \A e \in acked : e.seq \in 1..Len(t) /\ t[e.seq] = e
    BY <2>1, <2>3, <2>4 DEF CutBack
  <2>8. \A e \in acked : Has(disk, e)'
    BY <2>1, <2>7 DEF Has, t
  <2>9. Intact(file)'
    BY <2>1, <2>5 DEF Intact, t
  <2>10. Len(disk'.lines) <= Len(file'.lines) /\ (disk'.ended \/ Torn(disk)')
    BY <2>1, <2>4 DEF t, Torn
  <2> QED BY <2>1, <2>2, <2>6, <2>8, <2>9, <2>10 DEF Files, t
<1>9. ASSUME Expire \/ UNCHANGED vars
      PROVE  Files'
  <2>1. UNCHANGED <<file, disk, acked, calls>>
    BY <1>9 DEF Expire, fileVars, history, vars
  <2>2. calls' >= calls
    BY <2>1 DEF Types
  <2> QED BY <2>1, <2>2, QuietFiles
<1> QED BY <1>1, <1>2, <1>3, <1>4, <1>5, <1>6, <1>7, <1>8, <1>9 DEF Next, Proceed

\* A call stays of its kind, and does not come back before its write.
LEMMA CallKinds ==
  ASSUME Types, NEW p \in Process, Proceed(p)
  PROVE  /\ pc'[p] \in Appending => pc[p] \in Appending
         /\ pc'[p] \in Unwritten => pc[p] \in Unwritten
<1> USE DEF Types, Goto, Appending, Unwritten
<1>1. CASE OpenLock(p) \/ Inspect(p) \/ Steal(p) \/ Stamp(p)
  BY <1>1 DEF OpenLock, Inspect, Steal, Stamp
<1>2. CASE TimeOut(p) \/ Unlink(p) \/ SyncDirectory(p)
  BY <1>2 DEF TimeOut, Return, Unlink, SyncDirectory
<1>3. CASE Release(p)
  BY <1>3 DEF Release, Return
<1>4. CASE Read(p) \/ Truncate(p)
  BY <1>4 DEF Read, Truncate, Compared
<1>5. CASE Write(p) \/ Sync(p) \/ SaveTemporary(p) \/ Rename(p)
  BY <1>5 DEF Write, Sync, SaveTemporary, Rename
<1> QED BY <1>1, <1>2, <1>3, <1>4, <1>5 DEF Proceed

\* Calls are numbered apart, and an append's events by its first.
Batches == \A p \in Process : pc[p] # "idle" => Batch(p)

\* A call that begins takes a new number; no other step gives one.
LEMMA BatchStep ==
  ASSUME GuardInv, GuardInv', Batches, [Next]_vars
  PROVE  Batches'
<1> USE DEF GuardInv
<1>1. ASSUME UNCHANGED calls,
             \A q \in Process : pc'[q] # "idle" =>
               /\ pc[q] # "idle" /\ batch'[q] = batch[q]
               /\ pc'[q] \in Appending => pc[q] \in Appending
      PROVE  Batches'
  <2>1. SUFFICES ASSUME NEW q \in Process, pc'[q] # "idle"
                 PROVE  Batch(q)'
    BY DEF Batches
  <2>2. pc[q] # "idle" /\ Batch(q) /\ batch'[q] = batch[q]
    BY <1>1, <2>1 DEF Batches
  <2>3. ASSUME NEW r \in Process \ {q}, pc'[r] # "idle"
        PROVE  batch'[r][1].call # batch'[q][1].call
    <3>1. pc[r] # "idle" /\ batch'[r] = batch[r]
      BY <1>1, <2>3
    <3> QED BY <2>2, <3>1 DEF Batch
  <2>4. batch'[q][1].call <= calls'
    BY <1>1, <2>2 DEF Batch
  <2>5. pc'[q] \in Appending =>
          /\ batch'[q][1].seq > 0
          /\ \A i \in 1..Len(batch'[q]) :
               batch'[q][i] = [seq |-> batch'[q][1].seq + i - 1, call |-> batch'[q][1].call]
    BY <1>1, <2>1, <2>2 DEF Batch
  <2> QED BY <2>3, <2>4, <2>5 DEF Batch
<1>2. ASSUME NEW p \in Process, calls' = calls + 1, pc'[p] # "idle", batch'[p][1].call = calls + 1,
             \A q \in Process \ {p} : pc'[q] = pc[q] /\ batch'[q] = batch[q],
             pc'[p] \in Appending =>
               /\ batch'[p][1].seq > 0
               /\ \A i \in 1..Len(batch'[p]) :
                    batch'[p][i] = [seq |-> batch'[p][1].seq + i - 1, call |-> batch'[p][1].call]
      PROVE  Batches'
  <2>1. ASSUME NEW q \in Process \ {p}, pc[q] # "idle"
        PROVE  batch[q][1].call \in Nat /\ batch[q][1].call <= calls
    <3>1. batch[q] \in Seq(Record) /\ Len(batch[q]) > 0
      BY <2>1 DEF Types, InCall
    <3>2. batch[q][1] \in Record
      BY <3>1
    <3> QED BY <2>1, <3>2 DEF Record, Batches, Batch
  <2>2. calls \in Nat
    BY DEF Types
  <2>3. ASSUME NEW q \in Process \ {p}, pc'[q] # "idle"
        PROVE  Batch(q)'
    <3>1. pc[q] # "idle" /\ Batch(q) /\ batch'[q] = batch[q] /\ pc'[q] = pc[q]
      BY <1>2, <2>3 DEF Batches
    <3>2. batch[q][1].call <= calls' /\ batch[q][1].call # batch'[p][1].call
      BY <1>2, <2>1, <2>2, <3>1
    <3> QED BY <1>2, <3>1, <3>2 DEF Batch
  <2>4. Batch(p)'
    <3>1. batch'[p][1].call <= calls'
      BY <1>2, <2>2
    <3>2. ASSUME NEW q \in Process \ {p}, pc'[q] # "idle"
          PROVE  batch'[q][1].call # batch'[p][1].call
      BY <1>2, <2>1, <2>2, <3>2
    <3> QED BY <1>2, <3>1, <3>2 DEF Batch
  <2> QED BY <2>3, <2>4 DEF Batches
<1>3. ASSUME NEW p \in Process, Start(p)
      PROVE  Batches'
  BY <1>1, <1>3 DEF Start, history
<1>4. ASSUME NEW p \in Process, BeginAppend(p)
      PROVE  Batches'
  <2>1. PICK n \in BatchSizes :
          batch' = [batch EXCEPT ![p] =
            [i \in 1..n |-> [seq |-> Len(Events(file)) + i, call |-> calls']]]
    BY <1>4 DEF BeginAppend
  <2> DEFINE b == [i \in 1..n |-> [seq |-> Len(Events(file)) + i, call |-> calls + 1]]
             next == Len(Events(file))
  <2>2. n \in Nat /\ n > 0
    BY FactStoreAssumption
  <2>3. /\ b \in Seq(Record) /\ Len(b) = n
        /\ \A i \in 1..n : b[i] = [seq |-> next + i, call |-> calls + 1]
    BY <2>2, BatchType DEF Types
  <2>4. /\ batch' = [batch EXCEPT ![p] = b]
        /\ pc' = [pc EXCEPT ![p] = "open"] /\ calls' = calls + 1
    BY <1>4, <2>1 DEF BeginAppend, Goto
  <2>5. next \in Nat
    BY EventsType DEF Types
  <2> HIDE DEF b, next
  <2>6. b[1] = [seq |-> next + 1, call |-> calls + 1]
    BY <2>2, <2>3
  <2>7. b[1].seq = next + 1 /\ b[1].call = calls + 1
    BY <2>6
  <2>8. ASSUME NEW i \in 1..Len(b)
        PROVE  b[i] = [seq |-> b[1].seq + i - 1, call |-> b[1].call]
    <3>1. i \in 1..n /\ (next + 1) + i - 1 = next + i
      BY <2>2, <2>3, <2>5
    <3> QED BY <2>3, <2>7, <3>1
  <2>9. b[1].seq > 0
    BY <2>5, <2>7
  <2>10. batch'[p] = b /\ pc'[p] = "open"
         /\ \A q \in Process \ {p} : pc'[q] = pc[q] /\ batch'[q] = batch[q]
    BY <2>4 DEF Types
  <2> QED BY <1>2, <2>4, <2>7, <2>8, <2>9, <2>10
<1>5. ASSUME NEW p \in Process, BeginSave(p)
      PROVE  Batches'
  <2>1. /\ calls' = calls + 1 /\ pc'[p] = "saveTemporary"
        /\ batch'[p] = <<[seq |-> 0, call |-> calls + 1]>>
        /\ \A q \in Process \ {p} : pc'[q] = pc[q] /\ batch'[q] = batch[q]
    BY <1>5 DEF BeginSave, Goto, Types
  <2>2. batch'[p][1].call = calls + 1
    BY <2>1
  <2>3. pc'[p] \notin Appending /\ pc'[p] # "idle"
    BY <2>1 DEF Appending, Unwritten
  <2> QED BY <1>2, <2>1, <2>2, <2>3
<1>6. ASSUME NEW p \in Process, Proceed(p)
      PROVE  Batches'
  BY <1>1, <1>6, CallSteps, CallKinds
<1>7. ASSUME NEW p \in Process, Kill(p)
      PROVE  Batches'
  <2>1. Die({p})
    BY <1>7 DEF Kill
  <2> QED BY <1>1, <2>1, Deaths
<1>8. ASSUME PowerLoss
      PROVE  Batches'
  <2> DEFINE ps == {p \in Process : status[p] = "live"}
  <2>1. Die(ps)
    BY <1>8 DEF PowerLoss
  <2> QED BY <1>1, <2>1, Deaths
<1>9. ASSUME Expire \/ UNCHANGED vars
      PROVE  Batches'
  BY <1>1, <1>9 DEF Expire, callVars, history, vars
<1> QED BY <1>3, <1>4, <1>5, <1>6, <1>7, <1>8, <1>9 DEF Next

\* What a call knows of the file stays true: until it has the lock it only
\* knows that its events are not there, and in the lock it is alone.
Knowledge == \A p \in Process : pc[p] # "idle" => Known(p)

\* While the file stays, so does what a call that does not move knows of it.
LEMMA KnownStays ==
  ASSUME UNCHANGED <<file, disk>>, NEW q \in Process, Known(q),
         pc'[q] = pc[q], batch'[q] = batch[q], kept'[q] = kept[q]
  PROVE  Known(q)'
BY DEF Known, Has, Torn

\* Another writes, in the lock: only who waits for the lock knows something.
LEMMA KnownOutside ==
  ASSUME Types, Types', InCall, Alone, NEW p \in Process, InLock(p),
         NEW q \in Process \ {p}, Known(q), pc[q] # "idle",
         pc'[q] = pc[q], batch'[q] = batch[q],
         \A i \in 1..Len(file'.lines) :
           \/ file'.lines[i] = Garbage
           \/ i \in 1..Len(file.lines) /\ file'.lines[i] = file.lines[i]
           \/ file'.lines[i].call # batch[q][1].call
  PROVE  Known(q)'
<1>1. ~InLock(q)
  BY Exclusive
<1>2. pc[q] \in {"open", "inspect", "steal", "saveTemporary", "rename", "syncDirectory"}
  BY <1>1 DEF Types, Point, InLock
<1> QED BY <1>2 DEF Known, Unwritten

\* A step of its own call that leaves the file.
LEMMA KnownHere ==
  ASSUME Types, UNCHANGED <<file, disk>>, NEW p \in Process, Known(p), batch'[p] = batch[p],
         pc'[p] \in Unwritten => pc[p] \in Unwritten,
         pc'[p] = "truncate" => Torn(file) /\ kept'[p] = Len(file.lines) - 1,
         pc'[p] = "write" => ~Torn(file) /\ Len(file.lines) = batch[p][1].seq - 1,
         pc'[p] = "sync" => pc[p] = "sync",
         pc'[p] \in {"releaseAcked", "unlinkAcked"} => pc[p] \in {"releaseAcked", "unlinkAcked"}
  PROVE  Known(p)'
BY DEF Known, Has, Torn

\* Every step leaves every call what it knows, and what the step finds out.
LEMMA KnowledgeStep ==
  ASSUME ~LoseNewline, GuardInv, GuardInv', LogInv, [Next]_vars
  PROVE  Knowledge'
<1> USE DEF GuardInv, LogInv
<1>1. ASSUME NEW p \in Process, Proceed(p), UNCHANGED <<file, disk>>,
             pc'[p] # "idle" => Known(p)'
      PROVE  Knowledge'
  <2>1. ASSUME NEW q \in Process \ {p}, pc'[q] # "idle"
        PROVE  Known(q)'
    BY <1>1, <2>1, CallSteps, KnownStays
  <2> QED BY <1>1, <2>1 DEF Knowledge
<1>2. ASSUME NEW p \in Process, Proceed(p), UNCHANGED <<file, disk>>, pc'[p] # "idle",
             pc'[p] \notin {"truncate", "write", "sync", "releaseAcked"},
             pc'[p] = "unlinkAcked" => pc[p] = "releaseAcked"
      PROVE  Knowledge'
  <2>1. Known(p) /\ batch'[p] = batch[p]
    BY <1>2, CallSteps
  <2>2. pc'[p] \in Unwritten => pc[p] \in Unwritten
    BY <1>2, CallKinds
  <2>3. Known(p)'
    BY <1>2, <2>1, <2>2, KnownHere
  <2> QED BY <1>1, <1>2, <2>3
<1>3. ASSUME NEW p \in Process, Start(p)
      PROVE  Knowledge'
  BY <1>3, KnownStays DEF Start, fileVars, Knowledge
<1>4. ASSUME NEW p \in Process, BeginAppend(p) \/ BeginSave(p)
      PROVE  Knowledge'
  <2>1. /\ UNCHANGED <<file, disk, kept>> /\ calls' = calls + 1
        /\ pc'[p] \in {"open", "saveTemporary"}
        /\ \A q \in Process \ {p} : pc'[q] = pc[q] /\ batch'[q] = batch[q]
    BY <1>4 DEF BeginAppend, BeginSave, fileVars, Goto, Types
  <2>2. ASSUME NEW q \in Process \ {p}, pc'[q] # "idle"
        PROVE  Known(q)'
    BY <2>1, <2>2, KnownStays
  <2>3. Known(p)'
    <3>1. pc'[p] \in Unwritten => batch'[p][1].call = calls + 1
      <4>1. CASE BeginSave(p)
        BY <4>1 DEF BeginSave, Goto, Types, Unwritten
      <4>2. CASE BeginAppend(p)
        <5>1. PICK n \in BatchSizes :
                batch' = [batch EXCEPT ![p] =
                  [i \in 1..n |-> [seq |-> Len(Events(file)) + i, call |-> calls']]]
          BY <4>2 DEF BeginAppend
        <5> DEFINE b == [i \in 1..n |-> [seq |-> Len(Events(file)) + i, call |-> calls + 1]]
        <5>2. n \in Nat /\ n > 0
          BY FactStoreAssumption
        <5>3. b[1] = [seq |-> Len(Events(file)) + 1, call |-> calls + 1]
          BY <5>2, BatchType DEF Types
        <5>4. batch'[p] = b
          BY <2>1, <5>1 DEF Types
        <5> QED BY <5>3, <5>4
      <4> QED BY <1>4, <4>1, <4>2
    <3>2. ASSUME NEW i \in 1..Len(file.lines), file.lines[i] # Garbage
          PROVE  file.lines[i].call # calls + 1
      <4>1. file.lines[i] \in Record /\ file.lines[i].call <= calls
        BY <3>2, ElementOfSeq DEF Files, Types, File, Line
      <4>2. file.lines[i].call \in Nat /\ calls \in Nat
        BY <4>1 DEF Record, Types
      <4> QED BY <4>1, <4>2
    <3> QED BY <2>1, <3>1, <3>2 DEF Known
  <2> QED BY <2>2, <2>3 DEF Knowledge
<1>5. ASSUME NEW p \in Process,
             OpenLock(p) \/ Inspect(p) \/ Steal(p) \/ Stamp(p) \/ SaveTemporary(p) \/ Rename(p)
      PROVE  Knowledge'
  <2>1. UNCHANGED <<file, disk>>
    BY <1>5 DEF OpenLock, Inspect, Steal, Stamp, SaveTemporary, Rename, fileVars
  <2>2. pc'[p] \in {"open", "stamp", "inspect", "steal", "read", "rename", "syncDirectory"}
    <3>1. CASE OpenLock(p) \/ Inspect(p)
      BY <3>1 DEF OpenLock, Inspect, Goto, Types
    <3> QED BY <1>5, <3>1 DEF Steal, Stamp, SaveTemporary, Rename, Goto, Types
  <2> QED BY <1>2, <1>5, <2>1, <2>2 DEF Proceed
<1>6. ASSUME NEW p \in Process, TimeOut(p) \/ Unlink(p) \/ SyncDirectory(p)
      PROVE  Knowledge'
  <2>1. UNCHANGED <<file, disk>> /\ pc'[p] = "idle"
    BY <1>6 DEF TimeOut, Unlink, SyncDirectory, Return, Goto, fileVars, Types
  <2> QED BY <1>1, <1>6, <2>1 DEF Proceed
<1>7. ASSUME NEW p \in Process, Release(p)
      PROVE  Knowledge'
  <2>1. UNCHANGED <<file, disk>>
    BY <1>7 DEF Release, fileVars
  <2>2. \/ pc'[p] \in {"idle", "unlink"}
        \/ pc'[p] = "unlinkAcked" /\ pc[p] = "releaseAcked"
    BY <1>7 DEF Release, Return, Goto, Types
  <2>3. CASE pc'[p] = "idle"
    BY <1>1, <1>7, <2>1, <2>3 DEF Proceed
  <2>4. CASE pc'[p] # "idle"
    BY <1>2, <1>7, <2>1, <2>2, <2>4 DEF Proceed
  <2> QED BY <2>3, <2>4
<1>8. ASSUME NEW p \in Process, Read(p)
      PROVE  Knowledge'
  <2>1. UNCHANGED <<file, disk>> /\ batch'[p] = batch[p] /\ Known(p) /\ pc[p] = "read"
    BY <1>8 DEF Read, fileVars
  <2>2. /\ pc'[p] \in {"release", "truncate", "write"}
        /\ pc'[p] = "truncate" => Torn(file) /\ kept'[p] = Len(Events(file))
        /\ pc'[p] = "write" => ~Torn(file) /\ Len(Events(file)) = batch[p][1].seq - 1
    BY <1>8 DEF Read, Compared, Goto, Types
  <2>3. Len(Events(file)) = IF Torn(file) THEN Len(file.lines) - 1 ELSE Len(file.lines)
    BY EventsType DEF Types
  <2>4. Known(p)'
    BY <2>1, <2>2, <2>3, KnownHere DEF Unwritten
  <2> QED BY <1>1, <1>8, <2>1, <2>4 DEF Proceed
<1>9. ASSUME NEW p \in Process, Sync(p)
      PROVE  Knowledge'
  <2>1. /\ file' = file /\ disk' = file /\ pc'[p] = "releaseAcked"
        /\ pc[p] = "sync" /\ batch'[p] = batch[p] /\ Known(p) /\ InLock(p)
    BY <1>9 DEF Sync, callVars, Goto, Types, InLock
  <2>2. Known(p)'
    BY <2>1 DEF Known, Has, Unwritten
  <2>3. ASSUME NEW q \in Process \ {p}, pc'[q] # "idle"
        PROVE  Known(q)'
    <3>1. Known(q) /\ pc[q] # "idle" /\ pc'[q] = pc[q] /\ batch'[q] = batch[q]
      BY <1>9, <2>3, CallSteps DEF Proceed
    <3> QED BY <2>1, <3>1, KnownOutside
  <2> QED BY <2>2, <2>3 DEF Knowledge
<1>10. ASSUME NEW p \in Process, Truncate(p)
       PROVE  Knowledge'
  <2> DEFINE s == file.lines
             t == SubSeq(s, 1, kept[p])
  <2>1. /\ pc[p] = "truncate" /\ Known(p) /\ InLock(p)
        /\ file' = [lines |-> t, ended |-> TRUE]
        /\ batch'[p] = batch[p] /\ pc'[p] = Compared(p, kept[p])
    BY <1>10 DEF Truncate, InLock, callVars, Goto, Types
  <2>2. Torn(file) /\ kept[p] = Len(s) - 1 /\ kept[p] \in Nat
    BY <2>1 DEF Known, Types
  <2>3. s \in Seq(Line) /\ Len(s) \in Nat /\ Len(s) > 0
    BY <2>2, LenProperties, TornIs DEF Types, File
  <2>4. Ordered(s)
    BY DEF Files, Intact
  <2>5. Len(t) = Len(s) - 1 /\ \A i \in 1..Len(s) - 1 : t[i] = s[i]
    <3> DEFINE m == kept[p]
    <3>1. m = Len(s) - 1 /\ m \in Nat /\ t = SubSeq(s, 1, m)
      BY <2>2
    <3> HIDE DEF m, t, s
    <3> QED BY <2>3, <3>1
  <2>6. file'.lines = t
    BY <2>1
  <2> HIDE DEF t, s
  <2>7. \A i \in 1..Len(t) : i \in 1..Len(s) /\ t[i] = s[i] /\ t[i] # Garbage
    BY <2>3, <2>4, <2>5 DEF Ordered
  <2>8. ~Torn(file)'
    <3>1. Len(t) > 0 => t[Len(t)] # Garbage
      BY <2>3, <2>5, <2>7
    <3> QED BY <2>6, <3>1, TornIs DEF Types
  <2>9. ASSUME NEW q \in Process \ {p}, pc'[q] # "idle"
        PROVE  Known(q)'
    <3>1. Known(q) /\ pc[q] # "idle" /\ pc'[q] = pc[q] /\ batch'[q] = batch[q]
      BY <1>10, <2>9, CallSteps DEF Proceed
    <3>2. \A i \in 1..Len(file'.lines) : i \in 1..Len(file.lines) /\ file'.lines[i] = file.lines[i]
      BY <2>6, <2>7 DEF s
    <3> QED BY <2>1, <3>1, <3>2, KnownOutside
  <2>10. Known(p)'
    <3>1. \A i \in 1..Len(s) : s[i] # Garbage => s[i].call # batch[p][1].call
      BY <2>1 DEF Known, Unwritten, s
    <3>2. \A i \in 1..Len(file'.lines) : file'.lines[i].call # batch'[p][1].call
      BY <2>1, <2>6, <2>7, <3>1
    <3>3. pc'[p] \in {"write", "release"}
          /\ (pc'[p] = "write" => kept[p] = batch'[p][1].seq - 1)
      BY <2>1 DEF Compared
    <3>4. Len(file'.lines) = kept[p]
      BY <2>2, <2>5, <2>6
    <3> QED BY <2>8, <3>2, <3>3, <3>4 DEF Known, Unwritten
  <2> QED BY <2>9, <2>10 DEF Knowledge
<1>11. ASSUME NEW p \in Process, pc[p] = "write", NEW n \in 0..Len(batch[p]),
              NEW torn \in BOOLEAN, Written(file.lines, file'.lines, batch[p], n, torn),
              NEW q \in Process \ {p}, pc[q] # "idle", pc'[q] = pc[q], batch'[q] = batch[q]
       PROVE  Known(q)'
  <2> DEFINE s == file.lines
             t == file'.lines
             b == batch[p]
  <2>1. s \in Seq(Line) /\ t \in Seq(Line) /\ b \in Seq(Record) /\ Len(b) \in Nat
    BY LenProperties DEF Types, File
  <2>2. /\ \A i \in 1..Len(b) : b[i].call = b[1].call
        /\ b[1].call # batch[q][1].call
    BY <1>11, NextEvents DEF Files, Batch
  <2>3. Written(s, t, b, n, torn) /\ n \in 0..Len(b)
    BY <1>11
  <2> HIDE DEF s, t, b
  <2>4. ASSUME NEW i \in 1..Len(t)
        PROVE  \/ t[i] = Garbage
               \/ i \in 1..Len(s) /\ t[i] = s[i]
               \/ t[i].call # batch[q][1].call
    <3>1. ASSUME NEW k \in 1..n, t[i] = b[k]
          PROVE  t[i].call # batch[q][1].call
      <4>1. k \in 1..Len(b)
        BY <2>1, <2>3
      <4> QED BY <2>2, <3>1, <4>1
    <3>2. \/ i \in 1..Len(s) /\ t[i] = s[i]
          \/ \E k \in 1..n : i = Len(s) + k /\ t[i] = b[k]
          \/ torn /\ i = Len(t) /\ t[i] = Garbage
      BY <2>1, <2>3, LinesWritten
    <3>3. CASE \E k \in 1..n : i = Len(s) + k /\ t[i] = b[k]
      BY <3>1, <3>3
    <3> QED BY <3>2, <3>3
  <2>5. InLock(p) /\ Known(q)
    BY <1>11 DEF InLock
  <2> QED BY <1>11, <2>4, <2>5, KnownOutside DEF s, t
<1>12. ASSUME NEW p \in Process, Write(p)
       PROVE  Knowledge'
  <2>1. /\ pc[p] = "write" /\ pc'[p] = "sync" /\ batch'[p] = batch[p]
        /\ Batch(p) /\ Known(p)
        /\ file' = Put(file, batch[p], TRUE)
    BY <1>12 DEF Write, Goto, callVars, Types
  <2>2. /\ file.ended /\ batch[p] \in Seq(Line) /\ Len(batch[p]) \in Nat
        /\ \A i \in 1..Len(batch[p]) : batch[p][i].seq = Len(file.lines) + i
    BY <2>1, NextEvents, LenProperties DEF Files
  <2>3. Written(file.lines, file'.lines, batch[p], Len(batch[p]), FALSE)
    BY <2>1, <2>2, PutWhole DEF Types
  <2>4. Len(batch[p]) \in 0..Len(batch[p])
    BY <2>2
  <2>5. ASSUME NEW q \in Process \ {p}, pc'[q] # "idle"
        PROVE  Known(q)'
    <3>1. pc[q] # "idle" /\ pc'[q] = pc[q] /\ batch'[q] = batch[q]
      BY <1>12, <2>5, CallSteps DEF Proceed
    <3> QED BY <1>11, <2>1, <2>3, <2>4, <3>1
  <2>6. ASSUME NEW i \in 1..Len(batch[p])
        PROVE  batch[p][i].seq \in 1..Len(file'.lines) /\ file'.lines[batch[p][i].seq] = batch[p][i]
    <3> DEFINE s == file.lines
               t == file'.lines
               b == batch[p]
    <3>1. /\ Len(t) = Len(s) + Len(b) + 0 /\ t[Len(s) + i] = b[i]
          /\ b[i].seq = Len(s) + i
          /\ Len(s) \in Nat /\ Len(b) \in Nat
      BY <2>2, <2>3, LenProperties DEF Written, Types, File
    <3> HIDE DEF s, t, b
    <3>2. b[i].seq \in 1..Len(t) /\ t[b[i].seq] = b[i]
      BY <2>6, <3>1 DEF b
    <3> QED BY <3>2 DEF b, t
  <2>7. Known(p)'
    BY <2>1, <2>6 DEF Known, Has, Unwritten
  <2> QED BY <2>5, <2>7 DEF Knowledge
<1>13. ASSUME NEW p \in Process, Kill(p)
       PROVE  Knowledge'
  <2>1. /\ pc'[p] = "idle" /\ disk' = disk
        /\ \A q \in Process \ {p} :
             pc'[q] = pc[q] /\ batch'[q] = batch[q] /\ kept'[q] = kept[q]
    BY <1>13, Deaths DEF Kill
  <2>2. CASE pc[p] = "write"
    <3>1. Batch(p) /\ Known(p)
      BY <2>2
    <3>2. file.ended /\ batch[p] \in Seq(Line)
      BY <2>2, <3>1, NextEvents DEF Files
    <3>3. file' \in TornPuts(file, batch[p])
      BY <1>13, <2>2 DEF Kill
    <3>4. PICK n \in 0..Len(batch[p]), torn \in BOOLEAN :
            Written(file.lines, file'.lines, batch[p], n, torn)
      BY <3>2, <3>3, TornPutsLeave DEF Types
    <3> QED BY <1>11, <2>1, <2>2, <3>4 DEF Knowledge
  <2>3. CASE pc[p] # "write"
    <3>1. file' = file
      BY <1>13, <2>3 DEF Kill
    <3> QED BY <2>1, <3>1, KnownStays DEF Knowledge
  <2> QED BY <2>2, <2>3
<1>14. ASSUME PowerLoss
       PROVE  Knowledge'
  <2> DEFINE ps == {p \in Process : status[p] = "live"}
  <2>1. Die(ps)
    BY <1>14 DEF PowerLoss
  <2>2. \A q \in Process : pc'[q] = "idle"
    BY <2>1, Deaths DEF InCall
  <2> QED BY <2>2 DEF Knowledge
<1>15. ASSUME Expire \/ UNCHANGED vars
       PROVE  Knowledge'
  <2>1. UNCHANGED <<file, disk, pc, batch, kept>>
    BY <1>15 DEF Expire, fileVars, callVars, vars
  <2> QED BY <2>1, KnownStays DEF Knowledge
<1> QED BY <1>3, <1>4, <1>5, <1>6, <1>7, <1>8, <1>9, <1>10, <1>12, <1>13, <1>14, <1>15
        DEF Next, Proceed

\* The file is empty, and nobody is in a call.
LEMMA LogInit == Init => LogInv
BY DEF Init, LogInv, Files, Intact, Ordered, EmptyFile, Torn

\* The file, the batches and what calls know of them, together.
LEMMA LogStep ==
  ASSUME ~LoseNewline, SoloRecovery, GuardInv, LogInv, [Next]_vars
  PROVE  LogInv'
<1>1. GuardInv'
  BY GuardStep
<1>2. Files'
  BY <1>1, FilesStep DEF GuardInv
<1>3. Batches'
  BY <1>1, BatchStep DEF LogInv, Batches
<1>4. Knowledge'
  BY <1>1, KnowledgeStep
<1> QED BY <1>2, <1>3, <1>4 DEF LogInv, Batches, Knowledge

\* An acknowledged event is read back at its seq.
LEMMA LogIsReadable ==
  ASSUME Types, Files
  PROVE  AckedReadable /\ ~Corrupt(file)
<1> DEFINE s == file.lines
           d == disk.lines
<1>1. /\ s \in Seq(Line) /\ d \in Seq(Line) /\ file \in File
      /\ Len(s) \in Nat /\ Len(d) \in Nat /\ Len(d) <= Len(s)
  BY LenProperties DEF Types, File, Files
<1>2. Ordered(s) /\ \A i \in 1..Len(d) : d[i] = s[i]
  BY DEF Files, Intact
<1>3. /\ Len(Events(file)) = IF Torn(file) THEN Len(s) - 1 ELSE Len(s)
      /\ \A i \in 1..Len(Events(file)) : Events(file)[i] = s[i]
  BY <1>1, EventsType
<1>4. Torn(file) => s[Len(s)] = Garbage
  BY <1>1, TornIs
<1>5. ~Corrupt(file)
  <2>1. ASSUME NEW i \in 1..Len(s) - 1
        PROVE  s[i] # Garbage
    <3>1. i \in 1..Len(s) /\ i # Len(s)
      BY <1>1
    <3> QED BY <1>2, <3>1 DEF Ordered
  <2> QED BY <2>1 DEF Corrupt
<1>6. ASSUME NEW e \in acked
      PROVE  e.seq <= Len(Events(file)) /\ Events(file)[e.seq] = e
  <2>1. e \in Record /\ e.seq \in 1..Len(d) /\ d[e.seq] = e
    BY DEF Types, Files, Has
  <2> HIDE DEF s, d
  <2>2. e.seq \in 1..Len(s) /\ s[e.seq] = e /\ e # Garbage
    BY <1>1, <1>2, <2>1, RecordIsNoGarbage
  <2>3. e.seq \in 1..Len(Events(file))
    BY <1>1, <1>3, <1>4, <2>2
  <2> QED BY <1>3, <2>2, <2>3
<1> QED BY <1>5, <1>6 DEF AckedReadable

\* Whatever is killed or lost, an event whose append returned is read back at
\* its seq: "a committed record survives a crash" (file-fact-store.ts:32).
\* Writes are not torn just before their last newline here: that they may be is
\* a finding of the run broken_promises.
THEOREM AckedStaysReadable ==
  ASSUME SoloRecovery, ~LoseNewline
  PROVE  Spec => []AckedReadable
<1>1. Init => GuardInv /\ LogInv
  BY GuardInit, LogInit
<1>2. (GuardInv /\ LogInv) /\ [Next]_vars => (GuardInv /\ LogInv)'
  BY GuardStep, LogStep
<1>3. GuardInv /\ LogInv => AckedReadable
  BY LogIsReadable DEF GuardInv, LogInv
<1> QED BY <1>1, <1>2, <1>3, PTL DEF Spec

-----------------------------------------------------------------------------
(* To its callers the store is a log that grows, keeps what it acknowledged,
   and forgets only in a crash. *)

\* What loadEvents returns: the calls of the readable events.
Readable == [i \in 1..Len(Events(file)) |-> Events(file)[i].call]

\* A step that changes neither is none of the port's.
LEMMA PortStutters ==
  ASSUME UNCHANGED <<Readable, acked>>
  PROVE  UNCHANGED Port!vars
BY DEF Port!vars, Readable

\* The readable lines are events.
LEMMA ReadableIs ==
  ASSUME NEW f \in File, Ordered(f.lines), NEW r, r = [i \in 1..Len(Events(f)) |-> Events(f)[i].call]
  PROVE  /\ Len(Events(f)) \in Nat
         /\ r \in Seq(Nat)
         /\ Len(r) = Len(Events(f))
         /\ \A i \in 1..Len(Events(f)) : r[i] = f.lines[i].call /\ f.lines[i] \in Record
<1> DEFINE s == f.lines
           e == Events(f)
<1>1. s \in Seq(Line) /\ Len(s) \in Nat
  BY LenProperties DEF File
<1>2. /\ Len(e) \in Nat
      /\ Len(e) = IF Torn(f) THEN Len(s) - 1 ELSE Len(s)
      /\ \A i \in 1..Len(e) : e[i] = s[i]
  BY EventsType
<1>3. Torn(f) <=> Len(s) > 0 /\ s[Len(s)] = Garbage
  BY TornIs
<1>4. Ordered(s) /\ r = [i \in 1..Len(e) |-> e[i].call]
  OBVIOUS
<1> HIDE DEF s, e
<1>5. ASSUME NEW i \in 1..Len(e)
      PROVE  r[i] = s[i].call /\ s[i] \in Record
  <2>1. i \in 1..Len(s) /\ s[i] \in Line
    BY <1>1, <1>2, ElementOfSeq
  <2>2. s[i] # Garbage
    BY <1>1, <1>2, <1>3, <1>4, <2>1 DEF Ordered
  <2> QED BY <1>2, <1>4, <2>1, <2>2 DEF Line
<1>6. r \in [1..Len(e) -> Nat]
  <2>1. \A i \in 1..Len(e) : e[i].call \in Nat
    BY <1>2, <1>5 DEF Record
  <2> QED BY <1>4, <2>1
<1>7. r \in Seq(Nat) /\ Len(r) = Len(e)
  BY <1>2, <1>6, FunctionIsSeq
<1> QED BY <1>2, <1>5, <1>7 DEF s, e

\* Of this file and the next.
LEMMA ReadableNow ==
  ASSUME Types, Intact(file)
  PROVE  /\ Len(Events(file)) \in Nat
         /\ Readable \in Seq(Nat)
         /\ Len(Readable) = Len(Events(file))
         /\ \A i \in 1..Len(Events(file)) : Readable[i] = file.lines[i].call /\ file.lines[i] \in Record
BY ReadableIs DEF Types, Intact, Readable

\* The same of the file a step leaves.
LEMMA ReadableNext ==
  ASSUME Types', Intact(file)'
  PROVE  /\ Len(Events(file')) \in Nat
         /\ Readable' \in Seq(Nat)
         /\ Len(Readable') = Len(Events(file'))
         /\ \A i \in 1..Len(Events(file')) : Readable'[i] = file'.lines[i].call
<1>1. file' \in File /\ Ordered(file'.lines)
  BY DEF Types, Intact
<1>2. Readable' = [i \in 1..Len(Events(file')) |-> Events(file')[i].call]
  BY DEF Readable
<1> QED BY <1>1, <1>2, ReadableIs

\* Written events become readable at the end, and are of one new call.
LEMMA WriteExtends ==
  ASSUME Types, Types', Intact(file), Intact(file)', InCall, NEW p \in Process,
         pc[p] = "write", Batch(p), Known(p),
         NEW n \in 0..Len(batch[p]), NEW torn \in BOOLEAN,
         Written(file.lines, file'.lines, batch[p], n, torn), acked' = acked
  PROVE  Port!Next \/ UNCHANGED Port!vars
<1> DEFINE s == file.lines
           t == file'.lines
           b == batch[p]
           c == batch[p][1].call
           ev == Len(Events(file))
           next == Len(Events(file'))
<1>1. /\ s \in Seq(Line) /\ t \in Seq(Line) /\ b \in Seq(Record)
      /\ Len(s) \in Nat /\ Len(t) \in Nat /\ Len(b) \in Nat /\ n \in Nat
      /\ file \in File /\ file' \in File
  BY LenProperties DEF Types, File
<1>2. /\ ~Torn(file)
      /\ ~(Len(s) > 0 /\ s[Len(s)] = Garbage)
      /\ \A i \in 1..Len(b) : b[i].call = c /\ b[i] \in Record
  BY NextEvents
<1>3. /\ Len(t) = Len(s) + n + (IF torn THEN 1 ELSE 0)
      /\ \A i \in 1..Len(s) : t[i] = s[i]
      /\ \A i \in 1..n : t[Len(s) + i] = b[i]
      /\ torn => t[Len(t)] = Garbage
  BY DEF Written
<1>4. Torn(file') <=> Len(t) > 0 /\ t[Len(t)] = Garbage
  BY <1>1, TornIs
<1>5. /\ ev = IF Torn(file) THEN Len(s) - 1 ELSE Len(s)
      /\ next = IF Torn(file') THEN Len(t) - 1 ELSE Len(t)
  BY <1>1, EventsType
<1>6. /\ Readable \in Seq(Nat) /\ Len(Readable) = ev
      /\ \A i \in 1..ev : Readable[i] = s[i].call
      /\ Readable' \in Seq(Nat) /\ Len(Readable') = next
      /\ \A i \in 1..next : Readable'[i] = t[i].call
  BY ReadableNow, ReadableNext
<1>7. \A i \in 1..Len(s) : s[i] # Garbage => s[i].call # c
  BY DEF Known, Unwritten
<1> HIDE DEF s, t, b, c, ev, next
<1>8. ev = Len(s)
  BY <1>2, <1>5
<1>9. next = Len(s) + n
  <2>1. CASE torn
    BY <1>1, <1>3, <1>4, <1>5, <2>1
  <2>2. CASE ~torn /\ n = 0
    BY <1>1, <1>2, <1>3, <1>4, <1>5, <2>2
  <2>3. CASE ~torn /\ n > 0
    <3>1. Len(t) = Len(s) + n /\ t[Len(s) + n] = b[n] /\ n \in 1..Len(b)
      BY <1>1, <1>3, <2>3 DEF b
    <3>2. b[n] # Garbage
      BY <1>2, <3>1, RecordIsNoGarbage
    <3> QED BY <1>4, <1>5, <3>1, <3>2
  <2> QED BY <1>1, <2>1, <2>2, <2>3
<1>10. \A i \in 1..Len(s) : Readable'[i] = Readable[i]
  <2>1. SUFFICES ASSUME NEW i \in 1..Len(s) PROVE Readable'[i] = Readable[i]
    OBVIOUS
  <2>2. i \in 1..ev /\ i \in 1..next
    BY <1>1, <1>8, <1>9
  <2> QED BY <1>3, <1>6, <2>2
<1>11. CASE n = 0
  <2>1. Readable' = Readable
    BY <1>1, <1>6, <1>8, <1>9, <1>10, <1>11, SeqEqual
  <2> QED BY <2>1, PortStutters
<1>12. CASE n > 0
  <2>1. \A j \in Len(s) + 1..Len(s) + n : Readable'[j] = c
    <3>1. SUFFICES ASSUME NEW j \in Len(s) + 1..Len(s) + n PROVE Readable'[j] = c
      OBVIOUS
    <3>2. j - Len(s) \in 1..n /\ Len(s) + (j - Len(s)) = j /\ j \in 1..next
      BY <1>1, <1>9
    <3>3. t[j] = b[j - Len(s)] /\ j - Len(s) \in 1..Len(b)
      BY <1>1, <1>3, <3>2 DEF b
    <3> QED BY <1>2, <1>6, <3>2, <3>3
  <2>2. \A i \in 1..Len(s) : Readable[i] # c
    <3>1. \A i \in 1..Len(s) : s[i] # Garbage
      <4>1. ASSUME NEW i \in 1..Len(s)
            PROVE  s[i] # Garbage
        BY <1>1, <1>2 DEF Intact, Ordered, s
      <4> QED BY <4>1
    <3> QED BY <1>6, <1>7, <1>8, <3>1
  <2>3. SubSeq(Readable', 1, Len(Readable)) = Readable
    <3> DEFINE u == SubSeq(Readable', 1, Len(s))
    <3>1. u \in Seq(Nat) /\ Len(u) = Len(s) /\ \A i \in 1..Len(s) : u[i] = Readable'[i]
      BY <1>1, <1>6, <1>9
    <3> HIDE DEF u
    <3>2. u = Readable
      BY <1>1, <1>6, <1>8, <1>10, <3>1, SeqEqual
    <3> QED BY <1>6, <1>8, <3>2 DEF u
  <2>4. Len(Readable') > Len(Readable)
    BY <1>1, <1>6, <1>8, <1>9, <1>12
  <2>5. ASSUME NEW i \in 1..Len(Readable), NEW j \in Len(Readable) + 1..Len(Readable')
        PROVE  /\ Readable'[j] # Readable[i]
               /\ Readable'[j] = Readable'[Len(Readable) + 1]
    <3>1. i \in 1..Len(s) /\ j \in Len(s) + 1..Len(s) + n /\ Len(s) + 1 \in Len(s) + 1..Len(s) + n
      BY <1>1, <1>6, <1>8, <1>9, <1>12
    <3> QED BY <1>6, <1>8, <2>1, <2>2, <3>1
  <2>6. Port!Extend
    BY <2>3, <2>4, <2>5 DEF Port!Extend, Readable
  <2> QED BY <2>6 DEF Port!Next
<1> QED BY <1>1, <1>11, <1>12

\* A torn tail was never readable.
LEMMA TruncateIsUnseen ==
  ASSUME GuardInv, GuardInv', LogInv, LogInv', NEW p \in Process, Truncate(p)
  PROVE  UNCHANGED Port!vars
<1> DEFINE s == file.lines
           t == file'.lines
           ev == Len(Events(file))
           next == Len(Events(file'))
<1>1. /\ Torn(file) /\ kept[p] = Len(s) - 1 /\ kept[p] \in Nat
      /\ t = SubSeq(s, 1, kept[p]) /\ acked' = acked
  BY DEF Truncate, LogInv, Known, GuardInv, Types, history
<1>2. s \in Seq(Line) /\ Len(s) \in Nat /\ Len(s) > 0 /\ file \in File /\ file' \in File
  BY <1>1, LenProperties, TornIs DEF GuardInv, Types, File
<1>3. /\ ev = Len(s) - 1
      /\ Readable \in Seq(Nat) /\ Len(Readable) = ev
      /\ \A i \in 1..ev : Readable[i] = s[i].call /\ s[i] \in Record
  BY <1>1, <1>2, EventsType, ReadableNow DEF GuardInv, LogInv, Files
<1>4. /\ next = IF Torn(file') THEN Len(t) - 1 ELSE Len(t)
      /\ Torn(file') <=> Len(t) > 0 /\ t[Len(t)] = Garbage
      /\ Readable' \in Seq(Nat) /\ Len(Readable') = next
      /\ \A i \in 1..next : Readable'[i] = t[i].call
  BY <1>2, EventsType, TornIs, ReadableNext DEF GuardInv, LogInv, Files
<1>5. Len(t) = Len(s) - 1 /\ \A i \in 1..Len(s) - 1 : t[i] = s[i]
  <2> DEFINE m == kept[p]
  <2>1. m = Len(s) - 1 /\ m \in Nat /\ t = SubSeq(s, 1, m)
    BY <1>1
  <2> HIDE DEF m, t, s
  <2> QED BY <1>2, <2>1
<1> HIDE DEF s, t, ev, next
<1>6. ~Torn(file')
  <2>1. Len(t) > 0 => t[Len(t)] \in Record
    BY <1>2, <1>3, <1>5
  <2> QED BY <1>4, <2>1, RecordIsNoGarbage
<1>7. next = ev /\ \A i \in 1..ev : Readable'[i] = Readable[i]
  BY <1>2, <1>3, <1>4, <1>5, <1>6
<1>8. Readable' = Readable
  BY <1>3, <1>4, <1>7, SeqEqual
<1> QED BY <1>1, <1>8, PortStutters

\* A power loss forgets, from the end, and nothing that was acknowledged.
LEMMA PowerLossForgets ==
  ASSUME ~LoseNewline, GuardInv, GuardInv', LogInv, LogInv', PowerLoss
  PROVE  Port!Next
<1> DEFINE s == file.lines
           t == file'.lines
           d == disk.lines
           ev == Len(Events(file))
           n == Len(Events(file'))
<1>1. CutBack(d, s, t) /\ acked' = acked
  BY UnsyncedLost, Deaths DEF GuardInv, LogInv, PowerLoss
<1>2. /\ s \in Seq(Line) /\ Len(s) \in Nat /\ t \in Seq(Line) /\ Len(t) \in Nat
      /\ file \in File /\ file' \in File
  BY LenProperties DEF GuardInv, Types, File
<1>3. /\ ev = IF Torn(file) THEN Len(s) - 1 ELSE Len(s)
      /\ Torn(file) <=> Len(s) > 0 /\ s[Len(s)] = Garbage
      /\ Readable \in Seq(Nat) /\ Len(Readable) = ev
      /\ \A i \in 1..ev : Readable[i] = s[i].call
  BY <1>2, EventsType, TornIs, ReadableNow DEF GuardInv, LogInv, Files
<1>4. /\ n \in Nat
      /\ n = IF Torn(file') THEN Len(t) - 1 ELSE Len(t)
      /\ Torn(file') <=> Len(t) > 0 /\ t[Len(t)] = Garbage
      /\ Readable' \in Seq(Nat) /\ Len(Readable') = n
      /\ \A i \in 1..n : Readable'[i] = t[i].call
  BY <1>2, EventsType, TornIs, ReadableNext DEF GuardInv, LogInv, Files
<1>5. Ordered(t)
  BY DEF LogInv, Files, Intact
<1>6. \A e \in acked : e.seq <= n
  <2>1. AckedReadable'
    <3>1. Types' /\ Files'
      BY DEF GuardInv, LogInv
    <3>2. (Types /\ Files => AckedReadable)'
      BY LogIsReadable, PTL
    <3> QED BY <3>1, <3>2
  <2> QED BY <1>1, <2>1 DEF AckedReadable
<1> HIDE DEF s, t, d, ev, n
<1>7. ASSUME NEW i \in 1..n
      PROVE  i \in 1..Len(t) /\ t[i] # Garbage
  BY <1>2, <1>4, <1>5 DEF Ordered
<1>8. ASSUME NEW i \in 1..n
      PROVE  i \in 1..Len(s) /\ t[i] = s[i]
  <2>1. i \in 1..Len(t) /\ t[i] # Garbage
    BY <1>7
  <2>2. t[i] = s[i]
    BY <1>1, <2>1 DEF CutBack
  <2>3. Len(t) <= Len(s)
    BY <1>1 DEF CutBack
  <2> QED BY <1>2, <2>1, <2>2, <2>3
<1>9. n <= ev
  <2>1. n <= Len(s)
    <3>1. n <= Len(t) /\ Len(t) <= Len(s)
      BY <1>1, <1>2, <1>4 DEF CutBack
    <3> QED BY <1>2, <1>4, <3>1
  <2>2. Torn(file) => n # Len(s)
    <3>1. SUFFICES ASSUME Torn(file), n = Len(s) PROVE FALSE
      OBVIOUS
    <3>2. n \in 1..n
      BY <1>2, <1>3, <3>1
    <3>3. t[n] = s[n] /\ t[n] # Garbage
      BY <1>7, <1>8, <3>2
    <3> QED BY <1>3, <3>1, <3>3
  <2> QED BY <1>2, <1>3, <1>4, <2>1, <2>2
<1>10. Readable' = SubSeq(Readable, 1, n)
  <2> DEFINE u == SubSeq(Readable, 1, n)
  <2>1. u \in Seq(Nat) /\ Len(u) = n /\ \A i \in 1..n : u[i] = Readable[i]
    <3>1. n \in 0..Len(Readable) /\ Readable \in Seq(Nat)
      BY <1>2, <1>3, <1>4, <1>9
    <3>2. ASSUME NEW r \in Seq(Nat), NEW m \in 0..Len(r), NEW v, v = SubSeq(r, 1, m)
          PROVE  v \in Seq(Nat) /\ Len(v) = m /\ \A i \in 1..m : v[i] = r[i]
      BY <3>2
    <3>3. u = SubSeq(Readable, 1, n)
      OBVIOUS
    <3> HIDE DEF u
    <3> QED BY <3>1, <3>2, <3>3
  <2>2. \A i \in 1..n : Readable'[i] = Readable[i]
    <3>1. SUFFICES ASSUME NEW i \in 1..n PROVE Readable'[i] = Readable[i]
      OBVIOUS
    <3>2. i \in 1..ev
      BY <1>2, <1>3, <1>4, <1>9
    <3> QED BY <1>3, <1>4, <1>8, <3>2
  <2> HIDE DEF u
  <2>3. Readable' = u
    BY <1>4, <2>1, <2>2, SeqEqual
  <2> QED BY <2>3 DEF u
<1>11. n \in 0..Len(Readable)
  BY <1>2, <1>3, <1>4, <1>9
<1>12. Port!Forget
  BY <1>1, <1>6, <1>10, <1>11 DEF Port!Forget, Readable
<1> QED BY <1>12 DEF Port!Next

\* What is acknowledged is where the acknowledgement says.
LEMMA Acknowledges ==
  ASSUME GuardInv, GuardInv', LogInv, LogInv', NEW p \in Process, Release(p) \/ Unlink(p)
  PROVE  Port!Next
<1>1. UNCHANGED <<file, disk>> /\ acked \subseteq acked'
  BY DEF Release, Unlink, fileVars
<1>2. ASSUME NEW e \in acked'
      PROVE  e.seq \in 1..Len(Readable) /\ Readable[e.seq] = e.call
  <2>1. e \in Record /\ Has(disk, e)
    BY <1>1 DEF GuardInv, LogInv, Types, Files, Has
  <2>2. AckedReadable'
    <3>1. Types' /\ Files'
      BY DEF GuardInv, LogInv
    <3>2. (Types /\ Files => AckedReadable)'
      BY LogIsReadable, PTL
    <3> QED BY <3>1, <3>2
  <2>3. e.seq <= Len(Events(file)) /\ Events(file)[e.seq] = e
    BY <1>1, <2>2 DEF AckedReadable
  <2>4. e.seq \in 1..Len(Events(file))
    <3>1. Len(Events(file)) \in Nat /\ e.seq \in Nat /\ e.seq > 0
      BY <2>1, EventsType DEF Record, Has, GuardInv, Types
    <3> QED BY <2>3, <3>1
  <2>5. Len(Readable) = Len(Events(file))
    BY ReadableNow DEF GuardInv, LogInv, Files
  <2>6. Readable[e.seq] = e.call
    BY <2>3, <2>4 DEF Readable
  <2> QED BY <2>4, <2>5, <2>6
<1>3. Readable' = Readable
  BY <1>1 DEF Readable
<1>4. Port!Acknowledge
  BY <1>1, <1>2, <1>3 DEF Port!Acknowledge, Readable
<1> QED BY <1>4 DEF Port!Next

\* Every step of the store is one of the port's, or changes nothing of it.
LEMMA PortStep ==
  ASSUME ~LoseNewline, SoloRecovery, GuardInv, LogInv, [Next]_vars
  PROVE  [Port!Next]_(Port!vars)
<1>1. GuardInv' /\ LogInv'
  BY GuardStep, LogStep
<1>2. ASSUME UNCHANGED <<file, acked>>
      PROVE  UNCHANGED Port!vars
  BY <1>2, PortStutters DEF Readable
<1>3. ASSUME NEW p \in Process, Start(p) \/ BeginAppend(p) \/ BeginSave(p)
      PROVE  UNCHANGED Port!vars
  BY <1>2, <1>3 DEF Start, BeginAppend, BeginSave, fileVars, history
<1>4. ASSUME NEW p \in Process,
             \/ OpenLock(p) \/ TimeOut(p) \/ Inspect(p) \/ Steal(p) \/ Stamp(p) \/ Read(p)
             \/ Sync(p) \/ SaveTemporary(p) \/ Rename(p) \/ SyncDirectory(p)
      PROVE  UNCHANGED Port!vars
  BY <1>2, <1>4 DEF OpenLock, TimeOut, Inspect, Steal, Stamp, Read, Sync, SaveTemporary,
                    Rename, SyncDirectory, fileVars, history
<1>5. ASSUME NEW p \in Process, Release(p) \/ Unlink(p)
      PROVE  Port!Next
  BY <1>1, <1>5, Acknowledges
<1>6. ASSUME NEW p \in Process, Truncate(p)
      PROVE  UNCHANGED Port!vars
  BY <1>1, <1>6, TruncateIsUnseen
<1>7. ASSUME NEW p \in Process, pc[p] = "write", acked' = acked,
             file' \in {Put(file, batch[p], TRUE)} \cup TornPuts(file, batch[p])
      PROVE  Port!Next \/ UNCHANGED Port!vars
  <2>1. Types /\ InCall /\ Batch(p) /\ Known(p) /\ Intact(file) /\ Types' /\ Intact(file)'
    BY <1>1, <1>7 DEF GuardInv, LogInv, Files
  <2>2. file.ended /\ batch[p] \in Seq(Line) /\ Len(batch[p]) \in Nat /\ file \in File
    BY <1>7, <2>1, NextEvents, LenProperties DEF Types
  <2>3. \E n \in 0..Len(batch[p]), torn \in BOOLEAN :
          Written(file.lines, file'.lines, batch[p], n, torn)
    <3>1. CASE file' = Put(file, batch[p], TRUE)
      <4>1. Written(file.lines, file'.lines, batch[p], Len(batch[p]), FALSE)
        BY <2>2, <3>1, PutWhole
      <4>2. Len(batch[p]) \in 0..Len(batch[p]) /\ FALSE \in BOOLEAN
        BY <2>2
      <4> QED BY <4>1, <4>2, Zenon
    <3>2. CASE file' \in TornPuts(file, batch[p])
      BY <2>2, <3>2, TornPutsLeave
    <3> QED BY <1>7, <3>1, <3>2
  <2> QED BY <1>7, <2>1, <2>3, WriteExtends
<1>8. ASSUME NEW p \in Process, Write(p)
      PROVE  Port!Next \/ UNCHANGED Port!vars
  BY <1>7, <1>8 DEF Write, history
<1>9. ASSUME NEW p \in Process, Kill(p)
      PROVE  Port!Next \/ UNCHANGED Port!vars
  <2>1. acked' = acked
    BY <1>9, Deaths DEF Kill, GuardInv
  <2>2. CASE pc[p] = "write"
    BY <1>7, <1>9, <2>1, <2>2 DEF Kill
  <2>3. CASE pc[p] # "write"
    BY <1>2, <1>9, <2>1, <2>3 DEF Kill
  <2> QED BY <2>2, <2>3
<1>10. ASSUME PowerLoss
       PROVE  Port!Next
  BY <1>1, <1>10, PowerLossForgets
<1>11. ASSUME Expire \/ UNCHANGED vars
       PROVE  UNCHANGED Port!vars
  BY <1>2, <1>11 DEF Expire, fileVars, history, vars
<1> QED BY <1>3, <1>4, <1>5, <1>6, <1>8, <1>9, <1>10, <1>11 DEF Next, Proceed

\* FactStore implements FactPort: to its callers the file is a log that only
\* grows, where each seq is given once and an acknowledged event stays, but for
\* appends that never returned (file-fact-store.ts:205-309).
THEOREM FactPortImplemented ==
  ASSUME SoloRecovery, ~LoseNewline
  PROVE  Spec => ImplementsFactPort
<1>1. Init => GuardInv /\ LogInv
  BY GuardInit, LogInit
<1>2. (GuardInv /\ LogInv) /\ [Next]_vars => (GuardInv /\ LogInv)'
  BY GuardStep, LogStep
<1>3. (GuardInv /\ LogInv) /\ [Next]_vars => [Port!Next]_(Port!vars)
  BY PortStep
<1>4. Init => Port!Init
  <2>1. SUFFICES ASSUME Init PROVE Port!Init
    OBVIOUS
  <2>2. Events(file) = <<>>
    BY <2>1 DEF Init, EmptyFile, Events, Torn
  <2> QED BY <2>1, <2>2 DEF Init, Port!Init
<1> QED BY <1>1, <1>2, <1>3, <1>4, PTL DEF Spec, ImplementsFactPort, Port!Spec

=============================================================================
