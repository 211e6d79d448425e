------------------------------ MODULE WalTail ------------------------------
(***************************************************************************)
(* The characters at the end of facetql.wal (storage/wal.rs): the frame    *)
(* and its newline that an append writes, what a crash, a power loss, a    *)
(* write that stops half way or a failed flush leaves of them, the reader  *)
(* that classifies each line, the truncation recovery does and the         *)
(* rotation of a checkpoint.                                               *)
(*                                                                         *)
(* The file is a sequence of cells, one for a hex digit: a frame is a      *)
(* header of one byte, which declares the length of the payload, and the   *)
(* payload.  A transaction is named by the sequence of its BEGIN.          *)
(***************************************************************************)
EXTENDS Integers, Sequences, FiniteSets, SequencesExt

CONSTANTS
  MaxSeq,         \* bound on sequences
  MaxCrashes, MaxFaults,
  RotateCells,    \* rotate_threshold
  PageCells,      \* the unit in which the kernel writes the file back
  Faults          \* "partial": a failed write leaves a part of its line;
                  \* "drop": a failed flush leaves its pages clean;
                  \* "reorder": pages are written back in any order

WalTailBounds ==
  /\ MaxSeq \in Nat /\ RotateCells \in Nat /\ PageCells \in Nat \ {0}
  /\ Faults \subseteq {"partial", "drop", "reorder"}

VARIABLES
  file,           \* the cells the process sees
  synced,         \* how many of them the disk has
  dropped,        \* positions the kernel gave up writing back
  open, separator,  \* the WalHandle: whether there is one, needs_separator
  nextSeq, appended, durable,   \* NEXT_SEQUENCE, APPENDED, SyncState.durable
  at,             \* "serving", "down", or "refused" by recovery
  frame,          \* the open StagedCommit
  waiting,        \* writes applied, whose caller is in sync_pending
  applied, settled,   \* the writes in memory, applied_sequence
  base, ckpt,     \* the writes a checkpoint made durable, its sequence
  acked,          \* history: writes whose caller got Ok
  crashes, faults

diskVars == <<file, synced, dropped>>
handleVars == <<open, separator>>
counterVars == <<nextSeq, appended, durable>>
storeVars == <<applied, settled, base, ckpt>>
clientVars == <<waiting, acked>>
vars == <<diskVars, handleVars, counterVars, storeVars, clientVars, at, frame, crashes, faults>>

NoFrame == [step |-> "none", tx |-> 0, put |-> 0]

-----------------------------------------------------------------------------
(* Frames and lines.                                                       *)

Record(tx, op) == [seq |-> nextSeq, tx |-> tx, op |-> op]
NoRecord == [seq |-> 0, tx |-> 0, op |-> "none"]
Cell(r, i) == [rec |-> r, part |-> i]
Newline == Cell(NoRecord, 0)
Hole == Cell(NoRecord, -1)        \* what is read where nothing was written
IsNewline(c) == c.part = 0
IsHole(c) == c.part = -1

\* Hex digits of the payload: a mutation is longer than a marker.
PayloadLen(r) == IF r.op = "put" THEN 4 ELSE 2
encode_frame(r) == [i \in 1 .. 2 + PayloadLen(r) |-> Cell(r, i)]

\* Anything but a whole frame of one record fails its checksum, unless a
\* shorter test rejects it first.
decode_frame(l) ==
  LET available == Len(l) - 2
  IN IF Len(l) % 2 # 0 \/ \E i \in DOMAIN l : IsHole(l[i]) THEN "torn"
     ELSE IF l[1].part # 1 \/ l[2].part # 2 \/ l[2].rec # l[1].rec THEN "corrupt"
     ELSE IF available < PayloadLen(l[1].rec) THEN "torn"
     ELSE IF l = encode_frame(l[1].rec) THEN "durable"
     ELSE "corrupt"

Ends(f) == {i \in DOMAIN f : IsNewline(f[i])} \cup {Len(f) + 1}
EndOf(f, s) == Min({e \in Ends(f) : e >= s})
Line(f, s) == SubSeq(f, s, EndOf(f, s) - 1)

\* Where the lines that are not blank start.
Lines(f) == {s \in {1} \cup {e + 1 : e \in Ends(f)} : s <= Len(f) /\ ~IsNewline(f[s])}
OfKind(f, k) == {s \in Lines(f) : decode_frame(Line(f, s)) = k}

\* read_all fails on a corrupt line, and on a torn one that is not the last.
Readable(f) ==
  /\ OfKind(f, "corrupt") = {}
  /\ \A s \in OfKind(f, "torn"), t \in Lines(f) : t <= s
Torn(f) == OfKind(f, "torn") # {}
Records(f) == {f[s].rec : s \in OfKind(f, "durable")}

\* The offsets add up the lines without their terminators.
DurableLenWithoutNewlines(f) ==
  LET s == CHOOSE s \in OfKind(f, "torn") : TRUE
  IN s - 1 - Cardinality({e \in Ends(f) : e < s})
durable_len(f) == (CHOOSE s \in OfKind(f, "torn") : TRUE) - 1

-----------------------------------------------------------------------------
(* Appending and flushing.                                                 *)

EndsOpen == file # <<>> /\ ~IsNewline(Last(file))

\* needs_separator, probed when the handle is opened.
NeedsNoSeparator == FALSE
NeedsSeparator == IF open THEN separator ELSE EndsOpen

LineOf(r) ==
  (IF NeedsSeparator THEN <<Newline>> ELSE <<>>) \o encode_frame(r) \o <<Newline>>

PageOf(i) == (i - 1) \div PageCells
\* A write makes the page it starts in dirty again.
Redirtied == {i \in 1 .. Len(file) : PageOf(i) = Len(file) \div PageCells}

\* append(record) of the record with the next sequence.
append(r) ==
  /\ file' = file \o LineOf(r)
  /\ dropped' = dropped \ Redirtied
  /\ open' = TRUE /\ separator' = FALSE
  /\ nextSeq' = nextSeq + 1 /\ appended' = r.seq
  /\ UNCHANGED <<synced, durable>>

\* write_all fails: the handle keeps what it believed about the last byte.
append_fails(r) ==
  /\ faults < MaxFaults
  /\ \E k \in 0 .. (IF "partial" \in Faults THEN Len(LineOf(r)) - 1 ELSE 0) :
       /\ file' = file \o SubSeq(LineOf(r), 1, k)
       /\ dropped' = IF k > 0 THEN dropped \ Redirtied ELSE dropped
  /\ open' = TRUE /\ separator' = NeedsSeparator
  /\ nextSeq' = nextSeq + 1 /\ faults' = faults + 1
  /\ UNCHANGED <<synced, appended, durable>>

\* After write w is logged it is applied, and its caller flushes.
Settle(w) ==
  /\ applied' = applied \cup {w} /\ settled' = nextSeq
  /\ waiting' = waiting \cup {w}

Ready == at = "serving" /\ nextSeq <= MaxSeq

standalone ==
  /\ Ready /\ frame = NoFrame /\ append(Record(0, "put")) /\ Settle(nextSeq)
  /\ UNCHANGED <<base, ckpt, acked, at, frame, crashes, faults>>

begin ==
  /\ Ready /\ frame = NoFrame /\ append(Record(nextSeq, "begin"))
  /\ frame' = [step |-> "begun", tx |-> nextSeq, put |-> 0]
  /\ UNCHANGED <<storeVars, clientVars, at, crashes, faults>>

\* A batch of one mutation.
stage ==
  /\ Ready /\ frame.step = "begun" /\ append(Record(frame.tx, "put"))
  /\ frame' = [frame EXCEPT !.step = "staged", !.put = nextSeq]
  /\ UNCHANGED <<storeVars, clientVars, at, crashes, faults>>

commit ==
  /\ Ready /\ frame.step = "staged" /\ append(Record(frame.tx, "commit"))
  /\ Settle(frame.put) /\ frame' = NoFrame
  /\ UNCHANGED <<base, ckpt, acked, at, crashes, faults>>

\* The record the next append of the open frame writes.
Upcoming ==
  CASE frame.step = "none" -> {Record(0, "put"), Record(nextSeq, "begin")}
    [] frame.step = "begun" -> {Record(frame.tx, "put")}
    [] frame.step = "staged" -> {Record(frame.tx, "commit")}
    [] frame.step = "dropping" -> {Record(frame.tx, "abort")}

\* The caller gets the error; an open frame is dropped.
Fails ==
  /\ Ready /\ frame.step # "dropping"
  /\ \E r \in Upcoming : append_fails(r)
  /\ frame' = IF frame = NoFrame THEN NoFrame ELSE [frame EXCEPT !.step = "dropping"]
  /\ UNCHANGED <<storeVars, clientVars, at, crashes>>

\* Drop writes the ABORT and ignores its failure.
drop ==
  /\ Ready /\ frame.step = "dropping" /\ frame' = NoFrame
  /\ \E r \in Upcoming : \/ append(r) /\ UNCHANGED faults
                         \/ append_fails(r)
  /\ UNCHANGED <<storeVars, clientVars, at, crashes>>

\* A log that was flushed once is taken for flushed.
SyncPendingOnce(w) ==
  /\ at = "serving" /\ waiting' = waiting \ {w} /\ acked' = acked \cup {w}
  /\ IF durable > 0 THEN UNCHANGED <<synced, durable>>
     ELSE synced' = Len(file) /\ durable' = appended
  /\ UNCHANGED <<file, dropped, handleVars, nextSeq, appended, storeVars, at, frame, crashes,
                 faults>>

\* sync_pending by the caller of write w.
sync_pending(w) ==
  /\ at = "serving" /\ waiting' = waiting \ {w} /\ acked' = acked \cup {w}
  /\ IF durable >= appended THEN UNCHANGED <<synced, durable>>
     ELSE synced' = Len(file) /\ durable' = appended
  /\ UNCHANGED <<file, dropped, handleVars, nextSeq, appended, storeVars, at, frame, crashes,
                 faults>>

\* sync_data fails, and the caller gets the error.
SyncFails(w) ==
  /\ at = "serving" /\ durable < appended /\ faults < MaxFaults
  /\ waiting' = waiting \ {w} /\ faults' = faults + 1
  /\ dropped' = dropped \cup (IF "drop" \in Faults THEN synced + 1 .. Len(file) ELSE {})
  /\ UNCHANGED <<file, synced, handleVars, counterVars, storeVars, acked, at, frame, crashes>>

-----------------------------------------------------------------------------
(* Checkpoint, crash and recovery.                                         *)

RECURSIVE Frames(_)
Frames(S) ==
  IF S = {} THEN <<>>
  ELSE LET r == CHOOSE r \in S : \A q \in S : r.seq <= q.seq
       IN encode_frame(r) \o <<Newline>> \o Frames(S \ {r})

\* rotate(c) of file f: a log it cannot read, or that is torn, is left alone.
Rotated(f, c) ==
  LET kept == {r \in Records(f) : r.seq > c}
  IN IF Len(f) < RotateCells \/ ~Readable(f) \/ Torn(f) \/ kept = Records(f) THEN f
     ELSE Frames(kept)

\* rotate_wal: a rewritten log is on the disk, and both the handle and the
\* flush state start again.
rotate_wal(f, c) ==
  /\ file' = Rotated(f, c)
  /\ IF Rotated(f, c) = f THEN UNCHANGED <<synced, dropped, handleVars, durable>>
     ELSE synced' = Len(file') /\ dropped' = {} /\ open' = FALSE /\ separator' = FALSE
          /\ durable' = 0

checkpoint ==
  /\ at = "serving" /\ frame = NoFrame /\ applied # base
  /\ base' = applied /\ ckpt' = settled /\ rotate_wal(file, settled)
  /\ UNCHANGED <<nextSeq, appended, applied, settled, clientVars, at, frame, crashes, faults>>

\* What the file may hold when the process ends, in an append or not.
Interrupted ==
  {file} \cup
  IF at # "serving" THEN {}
  ELSE UNION {{file \o SubSeq(LineOf(r), 1, k) : k \in DOMAIN LineOf(r)} : r \in Upcoming}

LoseMemory ==
  /\ at # "refused" /\ crashes < MaxCrashes /\ crashes' = crashes + 1
  /\ at' = "down" /\ frame' = NoFrame /\ waiting' = {} /\ applied' = {} /\ settled' = 0
  /\ open' = FALSE /\ separator' = FALSE /\ appended' = 0 /\ durable' = 0
  /\ UNCHANGED <<nextSeq, base, ckpt, acked, faults>>

Crash ==
  /\ at = "serving" /\ LoseMemory /\ file' \in Interrupted
  /\ UNCHANGED <<synced, dropped>>

\* The sets of pages of what is not flushed that a power loss may skip below
\* the end it leaves.
Skipped(k) == IF "reorder" \in Faults THEN SUBSET {PageOf(i) : i \in synced + 1 .. k} ELSE {{}}

\* The disk has what was flushed and a part of what came after it.
PowerLoss ==
  /\ LoseMemory
  /\ \E f \in Interrupted : \E k \in synced .. Len(f) : \E lost \in Skipped(k) :
       LET gone == dropped \cup {i \in synced + 1 .. k : PageOf(i) \in lost}
       IN /\ file' = [i \in 1 .. k |-> IF i \in gone THEN Hole ELSE f[i]]
          /\ synced' = k /\ dropped' = {}

\* Writes of the records S that recovery replays.
Effective(S) ==
  {r.seq : r \in {p \in S : p.op = "put" /\ p.seq > ckpt
                    /\ (p.tx = 0 \/ \E c \in S : c.op = "commit" /\ c.tx = p.tx)}}

Replayable == IF Readable(file) THEN Effective(Records(file)) ELSE {}

Highest(S) == CHOOSE n \in S : \A m \in S : m <= n

\* truncate_torn_tail.
Truncated(f) == IF Torn(f) THEN SubSeq(f, 1, durable_len(f)) ELSE f

\* recover: read, truncate, seed the counters, replay, checkpoint.
recover ==
  /\ at = "down"
  /\ IF ~Readable(file)
     THEN at' = "refused" /\ UNCHANGED <<diskVars, handleVars, counterVars, storeVars>>
     ELSE LET f == Truncated(file)
              top == Highest({ckpt} \cup {r.seq : r \in Records(file)})
              last == Highest({ckpt} \cup Replayable
                              \cup {r.seq : r \in {c \in Records(file) : c.op = "commit"}})
          IN /\ at' = "serving" /\ nextSeq' = top + 1 /\ appended' = 0
             /\ base' = base \cup Replayable /\ applied' = base'
             /\ ckpt' = last /\ settled' = last
             /\ file' = Rotated(f, last)
             /\ open' = FALSE /\ separator' = FALSE /\ durable' = 0
             /\ IF file' = file THEN UNCHANGED <<synced, dropped>>
                ELSE /\ synced' = Len(file')
                     /\ dropped' = IF file' = f THEN dropped \cap 1 .. Len(f) ELSE {}
  /\ UNCHANGED <<clientVars, frame, crashes, faults>>

Init ==
  /\ file = <<>> /\ synced = 0 /\ dropped = {}
  /\ open = FALSE /\ separator = FALSE
  /\ nextSeq = 1 /\ appended = 0 /\ durable = 0
  /\ at = "serving" /\ frame = NoFrame
  /\ waiting = {} /\ acked = {} /\ applied = {} /\ settled = 0 /\ base = {} /\ ckpt = 0
  /\ crashes = 0 /\ faults = 0

Next ==
  \/ standalone \/ begin \/ stage \/ commit \/ Fails \/ drop
  \/ \E w \in waiting : sync_pending(w) \/ SyncFails(w)
  \/ checkpoint \/ Crash \/ PowerLoss \/ recover

Spec == Init /\ [][Next]_vars

-----------------------------------------------------------------------------
(* Properties.                                                             *)

\* Whenever the process is down, every write whose caller got Ok is in the
\* pages of a checkpoint or will be replayed: sync_pending, the classification
\* of lines and the truncation agree on what is durable.
AckedSurvives == at # "serving" => acked \subseteq base \cup Replayable

\* No crash leaves a log that recovery refuses to read (the separator of
\* write_line and the truncation of recover keep two frames off one line).
StartsAgain == at # "refused"

\* Whatever pages a power loss keeps: a process that serves has every write
\* whose caller got Ok, and a log that recovery refuses still holds each of
\* them whole, for the operator that the error of read_all calls.
AckedKept ==
  /\ at = "serving" => acked \subseteq applied
  /\ acked \subseteq base \cup Effective(Records(file))

\* The torn last line that recover discards "was never acknowledged durable".
DiscardedWasNeverAcked ==
  at = "down" /\ Readable(file) /\ Torn(file) => acked \subseteq base \cup Replayable
=============================================================================
