------------------------------ MODULE FlatLogs ------------------------------
(***************************************************************************)
(* The flat append-only logs of storage/binary.rs, as facetql.users uses   *)
(* them (the logs of index, text-index and reference definitions are       *)
(* appended and read by the same functions): a framed append, the replay   *)
(* at startup, what recovery appends again, and the compaction of the user *)
(* log.                                                                    *)
(*                                                                         *)
(* The file is a sequence of cells: a header, then as many cells of        *)
(* payload as it declares.  The last cells of an append that did not       *)
(* finish are missing; a "shard" is a piece of a header.                   *)
(***************************************************************************)
EXTENDS Integers, Sequences, FiniteSets, SequencesExt

CONSTANTS
  Users,
  PutCells,       \* payload of a Put; a Revoke has one cell
  Floor,          \* 64 records: below it the log is not compacted
  Tears,          \* what may leave a part of a frame: "crash", "failure"
  MaxOps, MaxCrashes,
  None

FlatLogBounds == PutCells \in Nat \ {0} /\ Floor \in Nat

VARIABLES
  file,           \* facetql.users
  before,         \* what its name may still resolve to after a power loss
  wal,            \* operations after the checkpoint
  applied,        \* how many of them the next checkpoint passes
  users,          \* the identities in memory
  records,        \* user_log_records
  at,             \* what the process is doing
  op,             \* the operation it is applying
  todo,           \* what recovery has still to replay
  left, crashes,
  owed,           \* history: the identities the logged operations leave
  unsure          \* history: identities whose last operation reported an error

vars == <<file, before, wal, applied, users, records, at, op, todo, left, crashes, owed,
          unsure>>

Put(u) == [do |-> "put", user |-> u]
Revoke(u) == [do |-> "revoke", user |-> u]
Ops == {Put(u) : u \in Users} \cup {Revoke(u) : u \in Users}
Effect(S, o) == IF o.do = "put" THEN S \cup {o.user} ELSE S \ {o.user}

-----------------------------------------------------------------------------
(* Frames.                                                                 *)

PayloadLen(o) == IF o.do = "put" THEN PutCells ELSE 1
encode_frame(o) == [i \in 1 .. PayloadLen(o) + 1 |-> [op |-> o, part |-> i - 1]]
Shard == [op |-> None, part |-> -1]

\* What a write of a frame leaves when it is cut short.
Cuts(o) == {SubSeq(encode_frame(o), 1, k) : k \in 1 .. PayloadLen(o)} \cup {<<Shard>>}

\* read_one_frame at cell i.  The checksum covers the payload.
read_one_frame(f, i) ==
  LET remaining == Len(f) - i + 1
      n == PayloadLen(f[i].op)
  IN IF f[i].part = -1 THEN IF remaining = 1 THEN "truncated" ELSE "corrupt"
     ELSE IF f[i].part # 0 THEN "corrupt"
     ELSE IF n > remaining - 1 THEN "truncated"
     ELSE IF \A j \in 1 .. n : f[i + j] = [op |-> f[i].op, part |-> j] THEN "record"
     ELSE "corrupt"

RECURSIVE ReadFrom(_, _, _)
ReadFrom(f, i, ops) ==
  IF i > Len(f) THEN [ops |-> ops, tail |-> "clean"]
  ELSE LET o == read_one_frame(f, i)
       IN IF o # "record" THEN [ops |-> ops, tail |-> o]
          ELSE ReadFrom(f, i + 1 + PayloadLen(f[i].op), Append(ops, f[i].op))
read_all_records_framed(f) == ReadFrom(f, 1, <<>>)

-----------------------------------------------------------------------------
(* Operations.                                                             *)

\* insert_user and revoke_user log the operation and then apply it.
Log(o) ==
  /\ at = "serving" /\ left > 0
  /\ wal' = Append(wal, o) /\ op' = o /\ at' = "applying" /\ left' = left - 1
  /\ owed' = Effect(owed, o) /\ unsure' = unsure \ {o.user}
  /\ UNCHANGED <<file, before, applied, users, records, todo, crashes>>

\* apply_operation for InsertUser and RevokeUser.
AppendAndApply(o) ==
  /\ file' = file \o encode_frame(o)
  /\ records' = records + 1
  /\ users' = Effect(users, o)

Apply ==
  /\ at = "applying" /\ AppendAndApply(op)
  /\ at' = "serving" /\ op' = None /\ applied' = Len(wal)
  /\ UNCHANGED <<before, wal, todo, left, crashes, owed, unsure>>

\* The append fails in a process that goes on: the caller gets an error.
ApplyFails ==
  /\ at = "applying"
  /\ \E cut \in {<<>>} \cup (IF "failure" \in Tears THEN Cuts(op) ELSE {}) :
       file' = file \o cut
  /\ at' = "serving" /\ op' = None /\ unsure' = unsure \cup {op.user}
  /\ UNCHANGED <<before, wal, applied, users, records, todo, left, crashes, owed>>

Checkpoint ==
  /\ at = "serving" /\ applied > 0
  /\ wal' = SubSeq(wal, applied + 1, Len(wal)) /\ applied' = 0
  /\ UNCHANGED <<file, before, users, records, at, op, todo, left, crashes, owed, unsure>>

-----------------------------------------------------------------------------
(* Startup.                                                                *)

\* load: the last record of a user wins.
RECURSIVE Replay(_)
Replay(ops) == IF ops = <<>> THEN {} ELSE Effect(Replay(Front(ops)), Last(ops))

\* read_all_records: a truncated tail is reported and passed over.
read_all_records(f) ==
  LET r == read_all_records_framed(f) IN [ops |-> r.ops, ok |-> r.tail # "corrupt"]

\* load replays the log; what it cannot read ends the start.
Load ==
  LET r == read_all_records(file)
  IN /\ at = "down"
     /\ IF ~r.ok THEN at' = "refused" /\ UNCHANGED <<users, records, todo>>
        ELSE /\ users' = Replay(r.ops) /\ records' = Len(r.ops)
             /\ todo' = wal /\ at' = "replaying"
     /\ UNCHANGED <<file, before, wal, applied, op, left, crashes, owed, unsure>>

\* Records that recovery appends are not counted.
ReplayUncounted ==
  /\ at = "replaying" /\ todo # <<>>
  /\ file' = file \o encode_frame(Head(todo)) /\ users' = Effect(users, Head(todo))
  /\ todo' = Tail(todo) /\ op' = None
  /\ UNCHANGED <<before, wal, applied, records, at, left, crashes, owed, unsure>>

\* Recovery applies what is after the checkpoint again.
ReplayOne ==
  /\ at = "replaying" /\ todo # <<>>
  /\ AppendAndApply(Head(todo)) /\ todo' = Tail(todo)
  /\ UNCHANGED <<before, wal, applied, at, op, left, crashes, owed, unsure>>

\* ... and settles it with a checkpoint.
Settle ==
  /\ at = "replaying" /\ todo = <<>>
  /\ wal' = <<>> /\ applied' = 0 /\ at' = "compact"
  /\ UNCHANGED <<file, before, users, records, op, todo, left, crashes, owed, unsure>>

Threshold(n) == IF 4 * n > Floor THEN 4 * n ELSE Floor

compact_user_log ==
  /\ at = "compact"
  /\ at' = IF records <= Threshold(Cardinality(users)) THEN "serving" ELSE "rewriting"
  /\ UNCHANGED <<file, before, wal, applied, users, records, op, todo, left, crashes,
                 owed, unsure>>

RewriteFails ==
  /\ at = "rewriting" /\ at' = "serving"
  /\ UNCHANGED <<file, before, wal, applied, users, records, op, todo, left, crashes,
                 owed, unsure>>

\* The log is emptied, then filled.
TruncateFirst ==
  /\ at = "rewriting" /\ at' = "renamed" /\ before' = <<>>
  /\ file' = FlattenSeq([i \in 1 .. Cardinality(users) |->
                           encode_frame(Put(SetToSeq(users)[i]))])
  /\ UNCHANGED <<wal, applied, users, records, op, todo, left, crashes, owed, unsure>>

\* rewrite_records: a synced temporary file takes the name of the log.
Rename ==
  /\ at = "rewriting" /\ at' = "renamed" /\ before' = file
  /\ file' = FlattenSeq([i \in 1 .. Cardinality(users) |->
                           encode_frame(Put(SetToSeq(users)[i]))])
  /\ UNCHANGED <<wal, applied, users, records, op, todo, left, crashes, owed, unsure>>

\* The directory is synced; only then does the counter take the new length.
sync_parent_dir ==
  /\ at = "renamed" /\ at' = "serving" /\ before' = <<>>
  /\ records' = Cardinality(users)
  /\ UNCHANGED <<file, wal, applied, users, op, todo, left, crashes, owed, unsure>>

\* The process dies, or the machine: an append may be cut short, a rename
\* that was not synced undone.
Crash ==
  /\ at \notin {"down", "refused"} /\ crashes < MaxCrashes /\ crashes' = crashes + 1
  /\ LET cut(o) == {file} \cup (IF "crash" \in Tears THEN {file \o c : c \in Cuts(o)}
                               ELSE {})
     IN file' \in CASE at = "applying" -> cut(op)
                    [] at = "replaying" /\ todo # <<>> -> cut(Head(todo))
                    [] at = "renamed" -> {file, before}
                    [] OTHER -> {file}
  /\ at' = "down" /\ before' = <<>> /\ op' = None /\ todo' = <<>> /\ users' = {}
  /\ records' = 0 /\ applied' = 0
  /\ UNCHANGED <<wal, left, owed, unsure>>

Init ==
  /\ file = <<>> /\ before = <<>> /\ wal = <<>> /\ applied = 0 /\ users = {} /\ records = 0
  /\ at = "down" /\ op = None /\ todo = <<>> /\ left = MaxOps /\ crashes = 0
  /\ owed = {} /\ unsure = {}

Next ==
  \/ \E o \in Ops : Log(o)
  \/ Apply \/ ApplyFails \/ Checkpoint \/ Crash
  \/ Load \/ ReplayOne \/ Settle \/ compact_user_log \/ RewriteFails \/ Rename
  \/ sync_parent_dir

Spec == Init /\ [][Next]_vars

-----------------------------------------------------------------------------
(* Properties.                                                             *)

\* Whoever serves knows exactly the identities that the acknowledged
\* creations and revocations leave, through crashes, replays that append
\* again and compactions ("append_record returned Ok means this record is
\* durable").
UsersAreTheLog ==
  at = "serving" => \A u \in Users \ unsure : u \in users <=> u \in owed

Compacted == Len(read_all_records_framed(file).ops) <= Threshold(Cardinality(users))

\* A process that starts serving has a user log of at most four records per
\* identity, or of the floor (compact_user_log).
StartsCompacted ==
  [][(at \in {"compact", "renamed"} /\ at' = "serving") => Compacted']_vars

\* A crash during an append never makes the log unreadable: it "leaves at
\* most a torn trailing frame".
AlwaysReadable == at # "refused"
=============================================================================
