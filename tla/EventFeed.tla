------------------------------ MODULE EventFeed ------------------------------
(***************************************************************************)
(* EventFeed of database.rs, the in-memory ring of published notifications *)
(* behind GET /events, with one subscriber that resumes by the position of *)
(* the last event it received.  Positions come from NEXT_OPERATION_ID,     *)
(* which log records and history versions draw from too.                   *)
(*                                                                         *)
(* Changes.tla has the rest of the process, and publishes, subscribes and  *)
(* receives by the actions below.                                          *)
(***************************************************************************)
EXTENDS Integers, Sequences, FiniteSets

CONSTANTS
  Capacity,            \* EVENT_REPLAY_CAPACITY and BROADCAST_CAPACITY
  MaxOp                \* bound on positions

VARIABLES
  nextOp,              \* NEXT_OPERATION_ID
  retained, earliest,  \* FeedState
  stream,              \* the subscriber of GET /events
  issued               \* history: every event of this database

vars == <<nextOp, retained, earliest, stream, issued>>

-----------------------------------------------------------------------------
(* Publishing.                                                              *)

\* What waits for the subscriber is its backlog, the first stream.backlog of
\* the queue, and then the messages its receiver holds.
Full == Len(stream.queue) - stream.backlog >= Capacity

\* A receiver that would hold more than the broadcast's capacity loses its
\* oldest message and is told so; the backlog is not the receiver's.
Deliver(q, e) ==
  IF ~Full THEN Append(q, e)
  ELSE Append(SubSeq(q, 1, stream.backlog) \o SubSeq(q, stream.backlog + 2, Len(q)), e)

RetainedAfter(e) ==
  IF Len(retained) < Capacity THEN Append(retained, e) ELSE Append(Tail(retained), e)

EmitKeepingHorizon(what) ==
  LET e == [seq |-> nextOp, what |-> what] IN
  /\ nextOp < MaxOp
  /\ nextOp' = nextOp + 1
  /\ issued' = issued \o <<e>>
  /\ retained' = RetainedAfter(e)
  /\ UNCHANGED earliest
  /\ stream' = IF ~stream.open THEN stream
               ELSE [stream EXCEPT !.queue = Deliver(@, e),
                                   !.lagged = @ \/ Full]

\* A position, the ring, and every live receiver, under one lock.
emit_with(what) ==
  LET e == [seq |-> nextOp, what |-> what] IN
  /\ nextOp < MaxOp
  /\ nextOp' = nextOp + 1
  /\ issued' = issued \o <<e>>
  /\ retained' = RetainedAfter(e)
  /\ earliest' = IF Len(retained) < Capacity THEN earliest ELSE retained[1].seq
  /\ stream' = IF ~stream.open THEN stream
               ELSE [stream EXCEPT !.queue = Deliver(@, e),
                                   !.lagged = @ \/ Full]

-----------------------------------------------------------------------------
(* Subscribing.                                                             *)

NoStream == [open |-> FALSE, queue |-> <<>>, backlog |-> 0, from |-> 0, got |-> <<>>,
             lagged |-> FALSE, token |-> 0]

\* The events of s past a position, in the order of s.
Newer(s, after) ==
  LET past == {i \in DOMAIN s : s[i].seq > after}
  IN  [n \in 1 .. Cardinality(past) |->
         s[CHOOSE i \in past : Cardinality({k \in past : k <= i}) = n]]

\* GET /events?after=<the last position it received>, or a first GET /events.
subscribe ==
  /\ ~stream.open
  /\ \/ /\ stream.token > 0 /\ stream.token < earliest
        /\ stream' = NoStream    \* 410: it starts over from a full read
     \/ /\ stream.token > 0 /\ stream.token >= earliest
        /\ stream' = [stream EXCEPT !.open = TRUE, !.lagged = FALSE,
                                    !.queue = Newer(retained, stream.token),
                                    !.backlog = Len(Newer(retained, stream.token))]
     \/ /\ stream.token = 0
        /\ stream' = [NoStream EXCEPT !.open = TRUE, !.from = Len(issued)]
  /\ UNCHANGED <<nextOp, retained, earliest, issued>>

Receive ==
  /\ stream.open /\ stream.queue # <<>>
  /\ stream' = [stream EXCEPT !.queue = Tail(@), !.got = Append(@, stream.queue[1]),
                              !.token = stream.queue[1].seq,
                              !.backlog = IF @ = 0 THEN 0 ELSE @ - 1]
  /\ UNCHANGED <<nextOp, retained, earliest, issued>>

\* The connection goes; a subscriber that was told it lagged reads everything
\* again and starts over.
Hangup ==
  IF stream.lagged \/ stream.token = 0 THEN NoStream
  ELSE [stream EXCEPT !.open = FALSE, !.queue = <<>>, !.backlog = 0]

Disconnect ==
  /\ stream.open
  /\ stream' = Hangup
  /\ UNCHANGED <<nextOp, retained, earliest, issued>>

-----------------------------------------------------------------------------

\* EventFeed::new mints a position.
Init ==
  /\ nextOp = 2 /\ retained = <<>> /\ earliest = 1 /\ stream = NoStream /\ issued = <<>>

\* Log records and history versions take positions in between.
DrawPositions ==
  /\ \E n \in 1 .. MaxOp : nextOp' = nextOp + n
  /\ UNCHANGED <<retained, earliest, stream, issued>>

Next ==
  \/ \E what \in {"change", "notice"} : emit_with(what)
  \/ subscribe \/ Receive \/ Disconnect \/ DrawPositions

Spec == Init /\ [][Next]_vars

-----------------------------------------------------------------------------

\* A subscriber that was never told it lagged has received, or has queued, exactly
\* the events published since it first subscribed, in position order, across
\* reconnects that resume by position.
StreamIsTheFeed ==
  stream.open /\ ~stream.lagged =>
    stream.got \o stream.queue = SubSeq(issued, stream.from + 1, Len(issued))
=============================================================================
