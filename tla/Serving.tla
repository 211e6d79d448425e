------------------------------ MODULE Serving ------------------------------
(***************************************************************************)
(* A process that serves and stops: the accept loop (tls_server.rs, or     *)
(* axum::serve), the connection, request and subscriber permits and the    *)
(* deadline of api/limits.rs, the engine jobs that handlers spawn on the   *)
(* blocking pool (database.rs), and the shutdown of main.rs with its drain *)
(* and its final checkpoint.                                               *)
(*                                                                         *)
(* A handler awaits only its engine job.  The refusals of auth_middleware  *)
(* and rate_limit leave no state here and are one action with the others;  *)
(* the limiter is module RateLimit.                                        *)
(***************************************************************************)
EXTENDS Integers, FiniteSets

CONSTANTS
  Conns,
  Tls,              \* which of the two accept loops serves
  MaxConnections,   \* connection_permit, on the TLS path only
  MaxConcurrent,    \* request_slots
  MaxSubscribers,   \* subscriber_permit
  PoolSize,         \* threads of the blocking pool
  Kinds,            \* what clients ask for
  MaxRequests

ServingBounds ==
  /\ Tls \in BOOLEAN
  /\ {MaxConnections, MaxConcurrent, MaxSubscribers, PoolSize} \subseteq Nat \ {0}
  /\ Kinds \subseteq {"read", "write", "stats", "ping", "events"}

VARIABLES
  phase,      \* serving, draining, settling, exiting, dropping, gone
  conn,       \* what each connection is at
  held,       \* the permits each connection owns
  awaits,     \* the job the request of a connection awaits
  jobs,       \* the engine jobs spawned so far
  sent,       \* how many requests have arrived
  tail,       \* is there a commit behind the last checkpoint?
  settled,    \* did the final checkpoint succeed?
  expired,    \* history: the drain ran into its deadline
  cut,        \* history: a request was dropped by the end of the process
  starved     \* history: kinds answered 408 with no thread free for their job

vars == <<phase, conn, held, awaits, jobs, sent, tail, settled, expired, cut, starved>>

Numbers == 1 .. MaxRequests

NoJob == [kind |-> "none", at |-> "none"]

\* try_acquire_owned: how many permits of a pool are out.
Out(pool) == Cardinality({c \in Conns : pool \in held[c]})

-----------------------------------------------------------------------------
(* Connections.                                                            *)

\* serve_tls drops the stream of a connection past the cap; axum::serve has none.
Accept(c) ==
  /\ phase = "serving" /\ conn[c] = "none"
  /\ IF Tls
       THEN /\ Out("connection") < MaxConnections
            /\ conn' = [conn EXCEPT ![c] = "handshake"]
            /\ held' = [held EXCEPT ![c] = {"connection"}]
       ELSE /\ conn' = [conn EXCEPT ![c] = "open"]
            /\ UNCHANGED held
  /\ UNCHANGED <<phase, awaits, jobs, sent, tail, settled, expired, cut, starved>>

Running == phase \in {"serving", "draining", "settling", "exiting"}

\* The connection's task keeps its permit for as long as it runs.
Handshake(c) ==
  /\ Running /\ conn[c] = "handshake"
  /\ conn' = [conn EXCEPT ![c] = "open"]
  /\ UNCHANGED <<phase, held, awaits, jobs, sent, tail, settled, expired, cut, starved>>

\* The peer goes away, or the handshake fails.  The handler's future is dropped with
\* its permit; the job it awaited is not.
Disconnect(c) ==
  /\ Running /\ conn[c] # "none"
  /\ conn' = [conn EXCEPT ![c] = "none"]
  /\ held' = [held EXCEPT ![c] = {}]
  /\ awaits' = [awaits EXCEPT ![c] = 0]
  /\ UNCHANGED <<phase, jobs, sent, tail, settled, expired, cut, starved>>

-----------------------------------------------------------------------------
(* Requests.                                                               *)

is_telemetry(kind) == kind \in {"ping", "stats"}

\* A draining axum::serve takes no further request on a connection; a connection of
\* serve_tls is a task that was told nothing.
TakesRequests == IF Tls THEN Running ELSE phase = "serving"

Arrives(c, kind) ==
  /\ TakesRequests /\ conn[c] = "open" /\ sent < MaxRequests
  /\ kind \in Kinds
  /\ sent' = sent + 1

\* concurrency: a request is admitted with a permit, telemetry without one.
Admitted(kind) == is_telemetry(kind) \/ Out("request") < MaxConcurrent

\* 401, 429 or 503; and home, which answers at once.
Answered(c, kind) ==
  /\ Arrives(c, kind)
  /\ UNCHANGED <<phase, conn, held, awaits, jobs, tail, settled, expired, cut, starved>>

\* with_engine, with_engine_mut: the handler spawns a job and awaits it.
Spawn(c, kind) ==
  /\ Arrives(c, kind) /\ Admitted(kind)
  /\ kind \in {"read", "write", "stats"}
  /\ jobs' = [jobs EXCEPT ![sent'] = [kind |-> kind, at |-> "queued"]]
  /\ conn' = [conn EXCEPT ![c] = "waiting"]
  /\ awaits' = [awaits EXCEPT ![c] = sent']
  /\ held' = [held EXCEPT ![c] = IF is_telemetry(kind) THEN @ ELSE @ \cup {"request"}]
  /\ UNCHANGED <<phase, tail, settled, expired, cut, starved>>

SubscribeUnheld(c) ==
  /\ Arrives(c, "events") /\ Admitted("events")
  /\ Out("subscriber") < MaxSubscribers
  /\ conn' = [conn EXCEPT ![c] = "stream"]
  /\ UNCHANGED <<phase, held, awaits, jobs, tail, settled, expired, cut, starved>>

\* subscribe_events: the request's permit goes with the response head, the
\* subscriber's moves into the stream.
Subscribe(c) ==
  /\ Arrives(c, "events") /\ Admitted("events")
  /\ Out("subscriber") < MaxSubscribers
  /\ conn' = [conn EXCEPT ![c] = "stream"]
  /\ held' = [held EXCEPT ![c] = @ \cup {"subscriber"}]
  /\ UNCHANGED <<phase, awaits, jobs, tail, settled, expired, cut, starved>>

\* The response head exists: the permit is dropped, the connection is kept alive.
\* A draining server closes it instead.
Respond(c) ==
  /\ conn' = [conn EXCEPT ![c] = "open"]
  /\ held' = [held EXCEPT ![c] = @ \ {"request"}]
  /\ awaits' = [awaits EXCEPT ![c] = 0]

TimeoutKeepsPermit(c) ==
  /\ Running /\ conn[c] = "waiting"
  /\ jobs[awaits[c]].at = "done"
  /\ Respond(c)
  /\ UNCHANGED <<phase, jobs, sent, tail, settled, expired, cut, starved>>

\* The jobs of the blocking pool, by where they are.
At(where) == {n \in Numbers : jobs[n].at = where}

PoolIsFull == Cardinality(At("running")) >= PoolSize

\* TimeoutLayer: 408.  The job stays where it is.
Timeout(c) ==
  /\ Running /\ conn[c] = "waiting"
  /\ Respond(c)
  /\ starved' = IF jobs[awaits[c]].at = "queued" /\ PoolIsFull
                  THEN starved \cup {jobs[awaits[c]].kind} ELSE starved
  /\ UNCHANGED <<phase, jobs, sent, tail, settled, expired, cut>>

-----------------------------------------------------------------------------
(* The blocking pool.                                                      *)

Start(n) ==
  /\ Running
  /\ jobs[n].at = "queued"
  /\ ~PoolIsFull
  /\ jobs' = [jobs EXCEPT ![n].at = "running"]
  /\ UNCHANGED <<phase, conn, held, awaits, sent, tail, settled, expired, cut, starved>>

\* The job ends; the handler that still awaits it answers.
Finish(n) ==
  /\ jobs[n].at = "running" /\ phase # "gone"
  /\ jobs' = [jobs EXCEPT ![n].at = "done"]
  /\ tail' = (tail \/ jobs[n].kind = "write")
  /\ IF \E c \in Conns : awaits[c] = n
       THEN Respond(CHOOSE c \in Conns : awaits[c] = n)
       ELSE UNCHANGED <<conn, held, awaits>>
  /\ UNCHANGED <<phase, sent, settled, expired, cut, starved>>

-----------------------------------------------------------------------------
(* Shutdown.                                                               *)

shutdown_signal ==
  /\ phase = "serving"
  /\ phase' = "draining"
  /\ UNCHANGED <<conn, held, awaits, jobs, sent, tail, settled, expired, cut, starved>>

\* The graceful half: an idle connection of a draining axum::serve is closed.
CloseIdle(c) ==
  /\ ~Tls /\ phase = "draining" /\ conn[c] = "open"
  /\ conn' = [conn EXCEPT ![c] = "none"]
  /\ UNCHANGED <<phase, held, awaits, jobs, sent, tail, settled, expired, cut, starved>>

GoOn(late) ==
  /\ phase = "draining"
  /\ phase' = "settling"
  /\ expired' = late
  /\ UNCHANGED <<conn, held, awaits, jobs, sent, tail, settled, cut, starved>>

DrainedOfIdle == ~Tls /\ "open" \notin {conn[c] : c \in Conns} /\ GoOn(FALSE)
Drained == ~Tls /\ (\A c \in Conns : conn[c] = "none") /\ GoOn(FALSE)

NoDeadline == ~Tls /\ (\A c \in Conns : conn[c] # "stream") /\ GoOn(TRUE)
drain_deadline == ~Tls /\ GoOn(TRUE)

\* serve_tls returns from its loop as soon as the signal is there.
StopAccepting == Tls /\ GoOn(FALSE)

\* One last checkpoint; its failure is reported and not fatal.
settle ==
  /\ phase = "settling"
  /\ phase' = "exiting"
  /\ \/ tail' = FALSE /\ settled' = TRUE
     \/ UNCHANGED <<tail, settled>>
  /\ UNCHANGED <<conn, held, awaits, jobs, sent, expired, cut, starved>>

\* main returns: the runtime drops its tasks and the jobs that have not started, and
\* waits for the ones that have.
DropTasks ==
  /\ phase = "exiting"
  /\ phase' = "dropping"
  /\ cut' = (\E c \in Conns : conn[c] = "waiting")
  /\ conn' = [c \in Conns |-> "none"]
  /\ held' = [c \in Conns |-> {}]
  /\ awaits' = [c \in Conns |-> 0]
  /\ jobs' = [n \in Numbers |-> IF jobs[n].at = "queued" THEN NoJob ELSE jobs[n]]
  /\ UNCHANGED <<sent, tail, settled, expired, starved>>

Exit ==
  /\ phase = "dropping" /\ At("running") = {}
  /\ phase' = "gone"
  /\ UNCHANGED <<conn, held, awaits, jobs, sent, tail, settled, expired, cut, starved>>

-----------------------------------------------------------------------------

Init ==
  /\ phase = "serving"
  /\ conn = [c \in Conns |-> "none"]
  /\ held = [c \in Conns |-> {}]
  /\ awaits = [c \in Conns |-> 0]
  /\ jobs = [n \in Numbers |-> NoJob]
  /\ sent = 0 /\ tail = FALSE /\ settled = FALSE
  /\ expired = FALSE /\ cut = FALSE /\ starved = {}

Connection(c) == Accept(c) \/ Handshake(c) \/ Disconnect(c) \/ CloseIdle(c)

Request(c) ==
  \/ \E kind \in Kinds : Answered(c, kind) \/ Spawn(c, kind)
  \/ Subscribe(c)
  \/ Timeout(c)

Stopping ==
  \/ shutdown_signal \/ Drained \/ drain_deadline \/ StopAccepting
  \/ settle \/ DropTasks \/ Exit

Next ==
  \/ \E c \in Conns : Connection(c) \/ Request(c)
  \/ \E n \in Numbers : Start(n) \/ Finish(n)
  \/ Stopping

\* What the main thread does without being asked.
MainGoesOn == drain_deadline \/ StopAccepting \/ settle \/ DropTasks \/ Exit

\* The deadline of a request and of the drain are timers; main goes on by itself.
\* Nothing makes a client send, read or disconnect, or a job start or end.
Spec ==
  /\ Init /\ [][Next]_vars
  /\ \A c \in Conns : WF_vars(Timeout(c))
  /\ WF_vars(MainGoesOn)

-----------------------------------------------------------------------------
(* Properties.                                                             *)

\* The permit of a request comes back, whatever becomes of its client and even if the
\* job it awaits never ends: request_timeout_layer inside concurrency.
PermitComesBack ==
  \A c \in Conns : ("request" \in held[c]) ~> ("request" \notin held[c])

\* A process asked to stop does stop, though a subscriber keeps its stream open and
\* clients keep sending: the drain of main.rs is on a clock.
StopsWhenAsked == (phase = "draining") ~> (phase = "gone")

\* No more streams than subscriber permits, and on the TLS path no more connections
\* than connection permits, at any moment of their lives.
LongLivesAreBounded ==
  /\ Cardinality({c \in Conns : conn[c] = "stream"}) <= MaxSubscribers
  /\ Tls => Cardinality({c \in Conns : conn[c] # "none"}) <= MaxConnections

\* A request in flight is finished before the process ends, unless the drain ran
\* into its deadline: with_graceful_shutdown and serve_tls.
InFlightFinish == cut => expired

\* The engine has no more jobs in it than requests may be in flight.
WorkIsBounded == Cardinality(At("queued") \cup At("running")) <= MaxConcurrent

\* A stats poll reaches the engine however busy the request slots are: concurrency
\* takes no permit for it.
StatsAreSeen == "stats" \notin starved

\* After a final checkpoint that succeeded the next start has nothing to replay.
NothingToReplay == phase = "gone" /\ settled => ~tail
=============================================================================
