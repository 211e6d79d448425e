------------------------------ MODULE Changes -------------------------------
(***************************************************************************)
(* The two change channels: GET /changes, which rebuilds committed node    *)
(* mutations from the write-ahead log (changes.rs), and GET /events, the   *)
(* in-memory ring of published notifications (database.rs).  Both number   *)
(* their positions from NEXT_OPERATION_ID, which history versions draw     *)
(* from too and which recovery restarts from the log and the checkpoint.   *)
(*                                                                         *)
(* One writer at a time appends the records of a unit, one write_all per   *)
(* record, so a scan may read a log that ends inside a frame.  Units are   *)
(* lowered as in Batches.tla: a node that is replaced or removed is        *)
(* archived just before.  Heap and indexes are reduced to nodes.           *)
(***************************************************************************)
EXTENDS Naturals, Sequences, FiniteSets

CONSTANTS
  Addresses, Nodes,    \* a node is [owner, public]
  Units,               \* the batches of [what, address, node] a writer submits
  Me, IsAdmin,         \* the identity that scans and subscribes
  Limits,              \* the page sizes it asks for
  Capacity,            \* EVENT_REPLAY_CAPACITY and BROADCAST_CAPACITY
  AppendFaults,        \* whether an append may fail
  Clients,             \* who else is there: "scan", "events", "publish"
  MaxOp, MaxRestarts   \* bounds on positions and on restarts

NoNode == [owner |-> "none", public |-> FALSE]
Everything == MaxOp + 100    \* u64::MAX as a horizon

ConstantsAssumption ==
  /\ Nodes \subseteq [owner : STRING, public : BOOLEAN]
  /\ Capacity \in Nat \ {0} /\ Limits \subseteq Nat \ {0}
  /\ AppendFaults \in BOOLEAN /\ IsAdmin \in BOOLEAN

VARIABLES
  log,                      \* the records of facetql.wal, in file order
  nextSeq, nextOp, nextTx,  \* the three counters of wal.rs
  ckpt, applied,            \* facetql.checkpoint and applied_sequence
  scanHorizon, rotating,    \* SCAN_HORIZON; a rotation is about to rename its file
  nodes,                    \* the live nodes
  unit, left,               \* the unit being written, its records to append
  unsent,                   \* committed units whose handler has yet to publish
  retained, earliest,       \* FeedState
  up, restarts,             \* the process runs; how often it was restarted
  scanner,                  \* the consumer of GET /changes
  stream,                   \* the subscriber of GET /events
  changes, versions, issued, born, lost, reset  \* what really happened

writeVars == <<log, rotating, nextSeq, nextOp, nextTx, ckpt, applied, nodes, unit, left>>
feedVars == <<retained, earliest, stream>>
ghostVars == <<changes, versions, issued, born, lost, reset>>
vars == <<writeVars, scanHorizon, unsent, feedVars, up, restarts, scanner, ghostVars>>

Last(s) == s[Len(s)]
NoUnit == [ops |-> <<>>, versions |-> <<>>]
Idle == left = <<>>
Largest(S) == CHOOSE x \in S \cup {0} : \A y \in S : y <= x
RangeOf(s) == {s[i] : i \in 1 .. Len(s)}

-----------------------------------------------------------------------------
(* Audience::admits of Audience::for_node.                                  *)

admits(n) == n.public \/ IsAdmin \/ n.owner = Me

-----------------------------------------------------------------------------
(* changes.rs: the scan of one reading of the log.                          *)

horizonOldestRecord(records) ==
  IF records = <<>> THEN scanHorizon ELSE records[1].op

horizon(records) ==
  IF records = <<>> THEN scanHorizon
  ELSE IF records[1].seq = 1 THEN 0
  ELSE records[1].op

validate_positions(records) ==
  \A i \in 2 .. Len(records) : records[i - 1].op < records[i].op

\* classify_transactions: the frames that committed, and whether every frame is
\* one that a BEGIN opens and a COMMIT or ABORT, if any, closes.
Committed(records) == {r.tx : r \in {c \in RangeOf(records) : c.what = "commit"}}

FrameOf(records, t) == SelectSeq(records, LAMBDA r : r.tx = t)

WellFormed(records) ==
  \A t \in {r.tx : r \in RangeOf(records)} \ {0} :
    LET frame == FrameOf(records, t) IN
    /\ frame[1].what = "begin"
    /\ \A i \in 2 .. Len(frame) : frame[i].what # "begin"
    /\ \A i \in 1 .. Len(frame) - 1 : frame[i].what \notin {"commit", "abort"}

durable_unit(records, start) ==
  LET tx == records[start].tx
      ends == {e \in start .. Len(records) :
                 \A i \in start .. e : records[i].tx = tx}
  IN  IF tx = 0 THEN <<records[start]>> ELSE SubSeq(records, start, Largest(ends))

frame_state(frame, committed, isTail) ==
  IF frame[1].tx = 0 \/ frame[1].tx \in committed THEN "committed"
  ELSE IF (\E r \in RangeOf(frame) : r.what = "abort") \/ ~isTail THEN "terminal"
  ELSE "in flight"

Admit(r, change, subject, after) ==
  IF r.op > after /\ admits(subject)
    THEN <<[op |-> r.op, change |-> change, address |-> r.address]>>
    ELSE <<>>

\* archived maps an address to the state this unit archived, or NoNode.
EmitKeepingArchive(r, archived, after) ==
  CASE r.what = "archive" -> [out |-> <<>>, archived |-> [archived EXCEPT ![r.address] = r.node]]
    [] r.what = "insert" ->
         [out |-> Admit(r, IF archived[r.address] = NoNode THEN "created" ELSE "updated",
                        r.node, after),
          archived |-> archived]
    [] r.what = "delete" ->
         [out |-> IF archived[r.address] = NoNode THEN <<>>
                  ELSE Admit(r, "deleted", archived[r.address], after),
          archived |-> archived]
    [] OTHER -> [out |-> <<>>, archived |-> archived]

EmitRecord(r, archived, after) ==
  CASE r.what = "archive" -> [out |-> <<>>, archived |-> [archived EXCEPT ![r.address] = r.node]]
    [] r.what = "insert" ->
         [out |-> Admit(r, IF archived[r.address] = NoNode THEN "created" ELSE "updated",
                        r.node, after),
          archived |-> archived]
    [] r.what = "delete" ->
         [out |-> IF archived[r.address] = NoNode THEN <<>>
                  ELSE Admit(r, "deleted", archived[r.address], after),
          archived |-> [archived EXCEPT ![r.address] = NoNode]]
    [] OTHER -> [out |-> <<>>, archived |-> archived]

RECURSIVE EmitFrom(_, _, _)
EmitFrom(frame, archived, after) ==
  IF frame = <<>> THEN <<>>
  ELSE LET step == EmitRecord(frame[1], archived, after)
       IN  step.out \o EmitFrom(Tail(frame), step.archived, after)

emit_unit(frame, after) == EmitFrom(frame, [a \in Addresses |-> NoNode], after)

\* The loop of scan, from records[index] on with the changes found so far.
RECURSIVE Pages(_, _, _, _, _)
Pages(records, index, after, limit, found) ==
  IF index > Len(records) THEN [changes |-> found, complete |-> TRUE]
  ELSE LET frame == durable_unit(records, index)
           next == index + Len(frame)
           state == frame_state(frame, Committed(records), next > Len(records))
           now == found \o emit_unit(frame, after)
       IN  CASE state = "in flight" -> [changes |-> found, complete |-> TRUE]
             [] state = "terminal" -> Pages(records, next, after, limit, found)
             [] Last(frame).op <= after -> Pages(records, next, after, limit, found)
             [] Len(now) >= limit /\ next <= Len(records) ->
                  [changes |-> now, complete |-> FALSE]
             [] OTHER -> Pages(records, next, after, limit, now)

-----------------------------------------------------------------------------
(* Writing.                                                                 *)

\* Lowering a unit over the live nodes: a replaced or removed node is archived.
RECURSIVE Lower(_, _)
Lower(ops, live) ==
  IF ops = <<>> THEN <<>>
  ELSE LET o == ops[1]
           archive == [o EXCEPT !.what = "archive", !.node = live[o.address]]
           after == [live EXCEPT ![o.address] = IF o.what = "delete" THEN NoNode ELSE o.node]
       IN  (IF live[o.address] = NoNode THEN <<>> ELSE <<archive>>) \o <<o>>
             \o Lower(Tail(ops), after)

\* delete_node of an absent node is refused before anything is lowered.
Applicable(u) ==
  \A i \in 1 .. Len(u) : u[i].what = "delete" => nodes[u[i].address] # NoNode

Mark(what) == [what |-> what, address |-> CHOOSE a \in Addresses : TRUE, node |-> NoNode]

\* The version numbers of a unit's archives are drawn while it is lowered.
Archives(records) == SelectSeq(records, LAMBDA r : r.what = "archive")

Stage(u) ==
  LET lowered == Lower(u, nodes)
      archives == Archives(lowered)
      framed == Len(lowered) > 1
  IN
  /\ up /\ Idle /\ ~rotating /\ Applicable(u)
  /\ nextOp + Len(lowered) + Len(archives) + 3 <= MaxOp
  /\ unit' = [ops |-> u, versions |-> [i \in 1 .. Len(archives) |->
                                         <<archives[i].address, nextOp + i - 1>>]]
  /\ left' = IF framed THEN <<Mark("begin")>> \o lowered \o <<Mark("commit")>> ELSE lowered
  /\ nextOp' = nextOp + Len(archives)
  /\ nextTx' = IF framed THEN nextTx + 1 ELSE nextTx
  /\ UNCHANGED <<log, rotating, nextSeq, ckpt, applied, scanHorizon, nodes, unsent, feedVars,
                 up, restarts, scanner, ghostVars>>

\* The transaction id of the unit being written: it was drawn by Stage.
TxOf == IF Len(left) > 1 \/ left[1].what = "commit" THEN nextTx - 1 ELSE 0

ThisRecord(seq, op) ==
  [seq |-> seq, op |-> op, tx |-> TxOf, what |-> left[1].what,
   address |-> left[1].address, node |-> left[1].node]

\* What a unit did to the nodes, told from the nodes and not from archives:
\* position, kind of change, address, for those this identity may see.
RECURSIVE Effects(_, _)
Effects(records, live) ==
  IF records = <<>> THEN <<>>
  ELSE LET r == records[1]
           was == IF r.address \in DOMAIN live THEN live[r.address] ELSE NoNode
           change == CASE r.what = "delete" -> "deleted"
                       [] was = NoNode -> "created"
                       [] OTHER -> "updated"
           subject == IF r.what = "delete" THEN was ELSE r.node
       IN  IF r.what \notin {"insert", "delete"} THEN Effects(Tail(records), live)
           ELSE (IF admits(subject)
                   THEN <<[op |-> r.op, change |-> change, address |-> r.address]>>
                   ELSE <<>>)
                \o Effects(Tail(records),
                     [live EXCEPT ![r.address] = IF r.what = "delete" THEN NoNode ELSE r.node])

RECURSIVE After(_, _)
After(ops, live) ==
  IF ops = <<>> THEN live
  ELSE After(Tail(ops), [live EXCEPT ![ops[1].address] =
                           IF ops[1].what = "delete" THEN NoNode ELSE ops[1].node])

Append1 ==
  /\ up /\ ~Idle
  /\ LET r == ThisRecord(nextSeq, nextOp)
         done == Len(left) = 1
         written == IF r.tx = 0 THEN <<r>> ELSE FrameOf(Append(log, r), r.tx)
     IN
     /\ log' = Append(log, r)
     /\ left' = Tail(left)
     /\ IF done
          THEN /\ changes' = changes \o Effects(written, nodes)
               /\ nodes' = After(unit.ops, nodes)
               /\ versions' = versions \o unit.versions
               /\ applied' = nextSeq
               /\ unsent' = Append(unsent, unit.ops)
               /\ unit' = NoUnit
          ELSE UNCHANGED <<changes, nodes, versions, applied, unsent, unit>>
  /\ nextSeq' = nextSeq + 1 /\ nextOp' = nextOp + 1
  /\ UNCHANGED <<rotating, nextTx, ckpt, scanHorizon, feedVars, up, restarts, scanner, issued,
                 born, lost, reset>>

\* An append fails: its numbers are burned; an open frame is dropped, with an
\* ABORT record if that one can be written.
AppendFails ==
  /\ AppendFaults /\ up /\ ~Idle /\ nextOp + 2 <= MaxOp
  /\ \/ /\ TxOf # 0 /\ left[1].what # "begin"
        /\ log' = Append(log, [ThisRecord(nextSeq + 1, nextOp + 1) EXCEPT
                                 !.what = "abort", !.node = NoNode])
        /\ nextSeq' = nextSeq + 2 /\ nextOp' = nextOp + 2
     \/ /\ UNCHANGED log
        /\ nextSeq' = nextSeq + 1 /\ nextOp' = nextOp + 1
  /\ left' = <<>> /\ unit' = NoUnit
  /\ UNCHANGED <<rotating, nextTx, ckpt, applied, scanHorizon, nodes, unsent, feedVars, up,
                 restarts, scanner, ghostVars>>

Kept(upto) == SelectSeq(log, LAMBDA r : r.seq > upto)
Dropped(upto) == {r.op : r \in {q \in RangeOf(log) : q.seq <= upto}}

\* checkpoint_locked and wal::rotate, under the writer lock, after some unit.
\* The horizon moves first, the rename follows; scans take no lock.  Below the
\* size threshold only the checkpoint moves.
Rotate ==
  /\ up /\ Idle /\ ~rotating
  /\ Dropped(applied) # {}
  /\ ckpt' = applied
  /\ scanHorizon' = Largest(Dropped(applied) \cup {scanHorizon})
  /\ rotating' = TRUE /\ lost' = TRUE
  /\ UNCHANGED <<log, nextSeq, nextOp, nextTx, applied, nodes, unit, left, unsent,
                 feedVars, up, restarts, scanner, changes, versions, issued, born, reset>>

RenameLog ==
  /\ rotating
  /\ log' = Kept(ckpt)
  /\ rotating' = FALSE
  /\ UNCHANGED <<nextSeq, nextOp, nextTx, ckpt, applied, scanHorizon, nodes, unit,
                 left, unsent, feedVars, up, restarts, scanner, ghostVars>>

Checkpoint ==
  /\ up /\ Idle /\ ~rotating /\ ckpt # applied
  /\ ckpt' = applied
  /\ UNCHANGED <<log, rotating, nextSeq, nextOp, nextTx, applied, scanHorizon, nodes, unit,
                 left, unsent, feedVars, up, restarts, scanner, ghostVars>>

-----------------------------------------------------------------------------
(* GET /events.                                                             *)

Ring == INSTANCE EventFeed

\* The handler of a committed unit publishes, holding no engine lock.
Publish ==
  /\ up
  /\ \E i \in 1 .. Len(unsent) :
       /\ unsent' = [j \in 1 .. Len(unsent) - 1 |->
                       IF j < i THEN unsent[j] ELSE unsent[j + 1]]
       /\ Ring!emit_with("change")
  /\ UNCHANGED <<log, rotating, nextSeq, nextTx, ckpt, applied, nodes, unit, left, scanHorizon,
                 up, restarts, scanner, changes, versions, born, lost, reset>>

\* POST /publish.
publish_event ==
  /\ "publish" \in Clients /\ up /\ Ring!emit_with("notice")
  /\ UNCHANGED <<log, rotating, nextSeq, nextTx, ckpt, applied, nodes, unit, left, scanHorizon,
                 unsent, up, restarts, scanner, changes, versions, born, lost, reset>>

Others == <<writeVars, scanHorizon, unsent, up, restarts, scanner, changes, versions, born,
            lost, reset>>

subscribe == "events" \in Clients /\ up /\ Ring!subscribe /\ UNCHANGED Others

Receive == Ring!Receive /\ UNCHANGED Others

Disconnect == Ring!Disconnect /\ UNCHANGED Others

-----------------------------------------------------------------------------
(* GET /changes?after=<next of the previous page>.                          *)

\* read_all takes no lock: the log it read may have grown or been rotated by
\* the time the answer is put together.
read_all ==
  /\ "scan" \in Clients /\ up /\ ~scanner.refused /\ ~scanner.reading
  /\ scanner' = [scanner EXCEPT !.reading = TRUE, !.records = log, !.upto = Len(changes)]
  /\ UNCHANGED <<writeVars, scanHorizon, unsent, feedVars, up, restarts, ghostVars>>

scan ==
  /\ up /\ scanner.reading
  /\ \E limit \in Limits :
       LET page == Pages(scanner.records, 1, scanner.next, limit, <<>>)
           refused == scanner.next < horizon(scanner.records)
       IN
       scanner' =
         [scanner EXCEPT !.reading = FALSE, !.records = <<>>,
            !.refused = refused,
            !.seen = IF refused THEN @ ELSE @ \o page.changes,
            !.next = IF refused \/ page.changes = <<>> THEN @
                     ELSE Last(page.changes).op,
            !.complete = page.complete]
  /\ UNCHANGED <<writeVars, scanHorizon, unsent, feedVars, up, restarts, ghostVars>>

-----------------------------------------------------------------------------
(* The process dies; recovery::recover and Database::attach start the next. *)

Crash ==
  /\ up /\ restarts < MaxRestarts
  /\ up' = FALSE
  /\ rotating' = FALSE                     \* before the rename, or after it
  /\ unit' = NoUnit /\ left' = <<>> /\ unsent' = <<>>
  /\ scanner' = [scanner EXCEPT !.reading = FALSE, !.records = <<>>, !.complete = FALSE]
  /\ stream' = Ring!Hangup
  /\ UNCHANGED <<log, nextSeq, nextOp, nextTx, ckpt, applied, nodes, scanHorizon,
                 retained, earliest, restarts, ghostVars>>

Maxima(records, floor) ==
  [seq |-> Largest({r.seq : r \in RangeOf(records)} \cup {floor}),
   op |-> Largest({r.op : r \in RangeOf(records)} \cup {floor}),
   tx |-> Largest({r.tx : r \in RangeOf(records)})]

\* Counting only the records above the checkpoint.
countersAfterFilter == Maxima(Kept(ckpt), ckpt)

\* initialize_counters, twice: with the checkpoint, then with the whole log.
counters == Maxima(log, ckpt)

Recover ==
  /\ ~up
  /\ nextSeq' = counters.seq + 1
  /\ nextTx' = counters.tx + 1
  /\ scanHorizon' = IF log = <<>> /\ ckpt > 0 THEN Everything ELSE 0
  /\ ckpt' = applied                       \* engine.checkpoint() after replay
  /\ earliest' = counters.op + 1           \* EventFeed::new mints a position
  /\ nextOp' = counters.op + 2
  /\ retained' = <<>>
  /\ born' = Len(issued)
  /\ up' = TRUE /\ restarts' = restarts + 1
  /\ reset' = (reset \/ (log = <<>> /\ ckpt > 0))
  /\ UNCHANGED <<log, rotating, applied, nodes, unit, left, unsent, stream, scanner,
                 changes, versions, issued, lost>>

Init ==
  /\ log = <<>> /\ nextSeq = 1 /\ nextTx = 1 /\ nextOp = 2 /\ ckpt = 0 /\ applied = 0
  /\ scanHorizon = 0 /\ rotating = FALSE /\ nodes = [a \in Addresses |-> NoNode]
  /\ unit = NoUnit /\ left = <<>> /\ unsent = <<>>
  /\ retained = <<>> /\ earliest = 1 /\ up = TRUE /\ restarts = 0
  /\ scanner = [next |-> 0, seen |-> <<>>, upto |-> 0, refused |-> FALSE, reading |-> FALSE,
                records |-> <<>>, complete |-> FALSE]
  /\ stream = Ring!NoStream
  /\ changes = <<>> /\ versions = <<>> /\ issued = <<>> /\ born = 0 /\ lost = FALSE /\ reset = FALSE

Next ==
  \/ \E u \in Units : Stage(u)
  \/ Append1 \/ AppendFails \/ Rotate \/ RenameLog \/ Checkpoint
  \/ Publish \/ publish_event \/ subscribe \/ Receive \/ Disconnect
  \/ read_all \/ scan \/ Crash \/ Recover

Spec == Init /\ [][Next]_vars

-----------------------------------------------------------------------------
(* Properties.                                                             *)

\* GET /changes (changes.rs scan): paging by next shows this identity every
\* committed change it may see, in commit order, once, as what it really was,
\* and nothing of a frame that never committed; a page that says complete has
\* reached everything committed when the log was read.  Rotation and restarts
\* in between do not change that, as long as no restart found an empty log.
ScanLosesNothing ==
  (~reset /\ ~scanner.refused) =>
    /\ Len(scanner.seen) <= Len(changes)
    /\ scanner.seen = SubSeq(changes, 1, Len(scanner.seen))
    /\ (scanner.complete /\ ~scanner.reading) => Len(scanner.seen) >= scanner.upto

\* The same without the proviso: "A position the log can no longer serve is a
\* 410, never a page that quietly begins at the oldest record still present".
ScanLosesNothingEver ==
  ~scanner.refused =>
    /\ Len(scanner.seen) <= Len(changes)
    /\ scanner.seen = SubSeq(changes, 1, Len(scanner.seen))
    /\ (scanner.complete /\ ~scanner.reading) => Len(scanner.seen) >= scanner.upto

\* changes.rs horizon: a scan is refused only on a log that lost records.
RefusalMeansLoss == scanner.refused => lost

\* changes.rs scan never ends in ScanError::Log: whatever crashed, failed or was
\* rotated, positions ascend in file order and every frame in the file is one
\* classify_transactions accepts.
ScanIsServed == validate_positions(log) /\ WellFormed(log)

\* database.rs EventFeed::new: every position a previous process handed out is
\* below the position the new feed can resume from.
OldTokensRefused ==
  up => \A i \in 1 .. born : issued[i].seq < earliest

\* history.rs: a version is unique across the life of the database.
VersionsUnique ==
  \A i, j \in 1 .. Len(versions) : versions[i] = versions[j] => i = j

\* Version numbers are not logged as such: recovery starts the counter again
\* from the records of the log and the checkpoint (initialize_counters).  As
\* long as no restart found an empty log, that is above every version a
\* committed unit was given, rotations and checkpoints notwithstanding.
VersionsNeverReissued == ~reset => VersionsUnique
=============================================================================
