----------------------------- MODULE GroupCommit -----------------------------
(***************************************************************************)
(* Group commit: wal::sync_pending, which every write calls after it has   *)
(* released the writer lock, sharing one fsync among the writers that wait *)
(* for it, while other writers append and a checkpoint rotates the log.    *)
(*                                                                         *)
(* A file (inode) of the log is numbered by the rotation that created it;  *)
(* of its content only the highest sequence matters, since records are     *)
(* appended in sequence order and fsync covers the whole file.  A rotated  *)
(* file drops only records the checkpoint covers; those count as stable.   *)
(***************************************************************************)
EXTENDS Naturals

CONSTANTS
  Writers,     \* threads that write
  Start,       \* the last sequence in the log when the process started
  FsyncFails,  \* whether the environment lets an fsync fail
  MaxAppends, MaxRotations  \* bounds

ASSUME WritersAssumption ==
  /\ "free" \notin Writers
  /\ Start \in Nat /\ FsyncFails \in BOOLEAN
  /\ MaxAppends \in Nat /\ MaxRotations \in Nat

VARIABLES
  appended,   \* APPENDED
  durable, syncing,  \* SyncState
  flushedRecords,    \* FLUSHED_RECORDS
  lock,       \* holder of StorageEngine::writer, or "free"
  renamed,    \* rotate is between its rename and reset_handle
  named,      \* the file that facetql.wal names
  handle,     \* the file the cached WalHandle has open
  content,    \* highest sequence written to each file
  stable,     \* highest sequence of each file on stable storage
  pc, mine, target, covered, file, result  \* of each writer

syncVars == <<durable, syncing, flushedRecords>>
fileVars == <<named, handle, content, stable>>
callVars == <<mine, target, covered, file, result>>
vars == <<appended, syncVars, lock, renamed, fileVars, pc, callVars>>

Files == 0 .. MaxRotations

Larger(a, b) == IF a >= b THEN a ELSE b

Goto(w, l) == pc' = [pc EXCEPT ![w] = l]

Init ==
  /\ appended = 0 /\ durable = 0 /\ syncing = FALSE /\ flushedRecords = 0
  /\ lock = "free" /\ renamed = FALSE /\ named = 0 /\ handle = 0
  /\ content = [f \in Files |-> Start] /\ stable = [f \in Files |-> Start]
  /\ pc = [w \in Writers |-> "idle"]
  /\ mine = [w \in Writers |-> 0] /\ target = [w \in Writers |-> 0]
  /\ covered = [w \in Writers |-> 0] /\ file = [w \in Writers |-> 0]
  /\ result = [w \in Writers |-> "none"]

-----------------------------------------------------------------------------
(* Under the writer lock.                                                   *)

\* wal::append: the record is written...
WriteLine(w) ==
  /\ pc[w] = "idle" /\ lock = "free" /\ content[handle] < Start + MaxAppends
  /\ lock' = w
  /\ content' = [content EXCEPT ![handle] = @ + 1]
  /\ mine' = [mine EXCEPT ![w] = content[handle] + 1]
  /\ Goto(w, "appended")
  /\ UNCHANGED <<appended, syncVars, renamed, named, handle, stable, target, covered,
                 file, result>>

\* ...and then counted.
append(w) ==
  /\ pc[w] = "appended"
  /\ appended' = Larger(appended, mine[w])
  /\ Goto(w, "locked")
  /\ UNCHANGED <<syncVars, lock, renamed, fileVars, callVars>>

\* The write's checkpoint rotates the log: the new file is written, synced and
\* renamed.
rotate(w) ==
  /\ pc[w] = "locked" /\ named < MaxRotations
  /\ content' = [content EXCEPT ![named + 1] = content[named]]
  /\ stable' = [stable EXCEPT ![named + 1] = content[named]]
  /\ named' = named + 1
  /\ renamed' = TRUE
  /\ Goto(w, "renamed")
  /\ UNCHANGED <<appended, syncVars, lock, handle, callVars>>

\* All threads asleep on the condvar have to look again.
notify_all(l) ==
  pc' = [w \in Writers |-> CASE w \in DOMAIN l -> l[w]
                             [] pc[w] = "asleep" -> "loop"
                             [] OTHER -> pc[w]]

Only(w, l) == [x \in {w} |-> l]

\* reset_handle, after the directory's fsync: reset_sync_state with it.
reset_handle(w) ==
  /\ pc[w] = "renamed"
  /\ handle' = named
  /\ renamed' = FALSE
  /\ durable' = 0 /\ syncing' = FALSE
  /\ notify_all(Only(w, "unlock"))
  /\ UNCHANGED <<appended, flushedRecords, lock, named, content, stable, callVars>>

\* The lock is released and sync_pending called: it reads its target first.
sync_pending(w) ==
  /\ pc[w] \in {"locked", "unlock"}
  /\ lock' = "free"
  /\ target' = [target EXCEPT ![w] = appended]
  /\ Goto(w, "loop")
  /\ UNCHANGED <<appended, syncVars, renamed, fileVars, mine, covered, file, result>>

-----------------------------------------------------------------------------
(* The loop of sync_pending, under the SyncState mutex.                     *)

AlreadyDurable(w) ==
  /\ pc[w] = "loop" /\ durable >= target[w]
  /\ result' = [result EXCEPT ![w] = "ok"]
  /\ Goto(w, "idle")
  /\ UNCHANGED <<appended, syncVars, lock, renamed, fileVars, mine, target, covered, file>>

Wait(w) ==
  /\ pc[w] = "loop" /\ durable < target[w] /\ syncing
  /\ Goto(w, "asleep")
  /\ UNCHANGED <<appended, syncVars, lock, renamed, fileVars, callVars>>

\* Condvar::wait may return without a notification.
SpuriousWakeup(w) ==
  /\ pc[w] = "asleep"
  /\ Goto(w, "loop")
  /\ UNCHANGED <<appended, syncVars, lock, renamed, fileVars, callVars>>

BecomeSyncer(w) ==
  /\ pc[w] = "loop" /\ durable < target[w] /\ ~syncing
  /\ syncing' = TRUE
  /\ covered' = [covered EXCEPT ![w] = appended]
  /\ Goto(w, "fetch")
  /\ UNCHANGED <<appended, durable, flushedRecords, lock, renamed, fileVars, mine,
                 target, file, result>>

\* with_handle: the descriptor is cloned under the handle lock.
FetchHandle(w) ==
  /\ pc[w] = "fetch"
  /\ file' = [file EXCEPT ![w] = handle]
  /\ Goto(w, "flush")
  /\ UNCHANGED <<appended, syncVars, lock, renamed, fileVars, mine, target, covered, result>>

\* sync_data, outside every lock.  It covers what was written when it began.
sync_data(w) ==
  /\ pc[w] = "flush"
  /\ \/ /\ stable' = [stable EXCEPT ![file[w]] = content[file[w]]]
        /\ Goto(w, "flushed")
     \/ FsyncFails /\ Goto(w, "failed") /\ UNCHANGED stable
  /\ UNCHANGED <<appended, syncVars, lock, renamed, named, handle, content, callVars>>

PublishLatest(w) ==
  /\ pc[w] = "flushed"
  /\ syncing' = FALSE
  /\ durable' = Larger(durable, appended)
  /\ flushedRecords' = flushedRecords + (durable' - durable)
  /\ result' = [result EXCEPT ![w] = "ok"]
  /\ notify_all(Only(w, "idle"))
  /\ UNCHANGED <<appended, lock, renamed, fileVars, mine, target, covered, file>>

Publish(w) ==
  /\ pc[w] = "flushed"
  /\ syncing' = FALSE
  /\ durable' = Larger(durable, covered[w])
  /\ flushedRecords' = flushedRecords + (durable' - durable)
  /\ result' = [result EXCEPT ![w] = "ok"]
  /\ notify_all(Only(w, "idle"))
  /\ UNCHANGED <<appended, lock, renamed, fileVars, mine, target, covered, file>>

FlushErrorUnnoticed(w) ==
  /\ pc[w] = "failed"
  /\ syncing' = FALSE
  /\ result' = [result EXCEPT ![w] = "err"]
  /\ Goto(w, "idle")
  /\ UNCHANGED <<appended, durable, flushedRecords, lock, renamed, fileVars, mine,
                 target, covered, file>>

\* The fsync failed: its caller reports the error, the others look again.
FlushError(w) ==
  /\ pc[w] = "failed"
  /\ syncing' = FALSE
  /\ result' = [result EXCEPT ![w] = "err"]
  /\ notify_all(Only(w, "idle"))
  /\ UNCHANGED <<appended, durable, flushedRecords, lock, renamed, fileVars, mine,
                 target, covered, file>>

-----------------------------------------------------------------------------
Locked(w) == append(w) \/ rotate(w) \/ reset_handle(w) \/ sync_pending(w)

Syncing(w) ==
  \/ AlreadyDurable(w) \/ Wait(w) \/ BecomeSyncer(w) \/ FetchHandle(w)
  \/ sync_data(w) \/ Publish(w) \/ FlushError(w)

Next ==
  \E w \in Writers : WriteLine(w) \/ Locked(w) \/ Syncing(w) \/ SpuriousWakeup(w)

\* Threads run, and the mutexes' critical sections end: a writer past its
\* append takes its next step eventually.  Nobody has to start a write.
Fairness == \A w \in Writers : WF_vars(Locked(w)) /\ WF_vars(Syncing(w))

Spec == Init /\ [][Next]_vars /\ Fairness

-----------------------------------------------------------------------------
(* Properties.                                                              *)

\* Every variable holds a value of its kind.
TypeOK ==
  /\ appended \in Nat /\ durable \in Nat /\ syncing \in BOOLEAN /\ flushedRecords \in Nat
  /\ lock \in Writers \cup {"free"} /\ renamed \in BOOLEAN
  /\ named \in Files /\ handle \in Files
  /\ content \in [Files -> Nat] /\ stable \in [Files -> Nat]
  /\ pc \in [Writers -> {"idle", "appended", "locked", "renamed", "unlock", "loop",
                         "asleep", "fetch", "flush", "flushed", "failed"}]
  /\ mine \in [Writers -> Nat] /\ target \in [Writers -> Nat]
  /\ covered \in [Writers -> Nat] /\ file \in [Writers -> Files]
  /\ result \in [Writers -> {"none", "ok", "err"}]

\* The files a power loss now may leave under the log's name: until the
\* directory is synced, the rename may be undone.
Survivors == {named} \cup IF renamed THEN {named - 1} ELSE {}

\* A write whose sync_pending returned Ok is on stable storage, and stays
\* there, whichever thread's fsync covered it and whatever rotated meanwhile.
OkIsDurable ==
  \A w \in Writers : pc[w] = "idle" /\ result[w] = "ok" =>
    \A f \in Survivors : stable[f] >= mine[w]

\* A thread sleeps on the condvar only while some thread is flushing and will
\* wake it, also after reset_sync_state cleared the syncing flag under it.
NoLostWakeup ==
  \A w \in Writers : pc[w] = "asleep" =>
    \E s \in Writers : pc[s] \in {"fetch", "flush", "flushed", "failed"}

\* Every call of sync_pending returns, failed flushes of others included.
EveryCallReturns ==
  \A w \in Writers : pc[w] \in {"locked", "loop", "asleep"} ~> pc[w] = "idle"

\* "records covered by them" (wal.rs on FLUSHED_RECORDS): the count is of
\* records that this process wrote.
FlushedRecordsWereWritten == flushedRecords <= content[named] - Start
=============================================================================
