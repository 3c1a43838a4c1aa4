----------------------------- MODULE EventGateway -----------------------------
(***************************************************************************)
(* How the studio's window learns what the backend has done: the event     *)
(* bus, the WebSocket gateway with its bounded buffer per connection, and  *)
(* the client socket with its gap detection, over the window of            *)
(* StudioWindow.                                                           *)
(*                                                                         *)
(* Services commit first and publish second.  A publisher may be a thread  *)
(* of the pool: between its commit and its publish anything may happen.    *)
(* Coroutines of the event loop (the worker, the director's graph, the     *)
(* cancel endpoint of generations) commit and publish in one step of the   *)
(* loop.  Publishing only schedules the fan-out on the loop; a dedicated   *)
(* task moves the buffer of a connection to its socket, as fast as the     *)
(* client reads.                                                           *)
(*                                                                         *)
(* Connections do not share anything but the loop's callbacks, so one      *)
(* client is modelled.  It never sends subscribe frames, so it is never    *)
(* filtered.  Events without a case in the router are left out, but for    *)
(* those whose missing case matters.                                       *)
(***************************************************************************)
EXTENDS StudioWindow, Sequences

CONSTANTS
  Kinds,       \* the types of the other events: changes of shots, timelines, jobs ...
  QueueMax,    \* MAX_CLIENT_QUEUE
  WireMax,     \* bound: messages the sender and the transport take before they block
  LoopMax,     \* bound: fan-outs scheduled when a publisher goes on
  MaxWorks,    \* bound: rows and runs, together
  MaxEvents    \* bound: other changes, broken connections and crashes, together

\* Events of generations are of the rows.
ASSUME GatewayAssumption ==
  /\ Kinds \cap {"generation.queued", "generation.started", "generation.completed",
                 "generation.interrupted"} = {}
  /\ QueueMax \in Nat \ {0}
  /\ WireMax \in Nat \ {0}
  /\ LoopMax \in Nat \ {0}
  /\ MaxWorks \in Nat
  /\ MaxEvents \in Nat

\* A row "completed" (failed and cancelled are alike) or was "interrupted" by the
\* lease recovery.
RowEnds   == {"completed", "interrupted"}
RowStages == {"absent", "queued", "running"} \cup RowEnds

\* A run's stages; the graph of a "dead" run died with the process, and nobody ends a
\* "stranded" one, which was cancelled without a graph.
Working   == {"running", "planned", "executing", "resumed"}
RunStages == {"absent", "waiting", "cancelling", "dead", "stranded"} \cup Working \cup Over

VARIABLES
  db,         \* the stage of each row and of each run
  latest,     \* the run created last
  late,       \* events whose thread has committed and not yet published
  up,         \* the backend process runs
  callbacks,  \* fan-outs scheduled on the loop
  \* the gateway's side of the connection
  open,       \* there is a connection
  queue,      \* the bounded buffer
  sequence,   \* numbers given on this connection
  wire,       \* sent and not yet received
  \* the client socket
  last,       \* lastSequence
  works, happened

backend == <<db, latest, late, up>>
gateway == <<open, queue, sequence, wire>>
bounds  == <<works, happened>>
vars    == <<backend, callbacks, gateway, window, last, bounds>>

Message(n, e) == [seq |-> n, event |-> e]
Greeting == Message(0, Event("system.connected", NoId))

\* isWellFormedEvent: the greeting has neither event_id nor timestamp.
WellFormed(m) == m # Greeting

\* classifySequence
Classify(incoming) ==
  CASE incoming <= last     -> "dupe"
    [] incoming > last + 1  -> "gap"
    [] OTHER                -> "route"

Events(s) == {s[i] : i \in DOMAIN s}

\* What the client has yet to receive on this connection.
Stream == wire \o queue
Streamed == {Stream[i].event : i \in DOMAIN Stream}

\* The last number the client will have taken before message i of the stream.
NumberBefore(i) ==
  IF i = 1 \/ Stream[i - 1].seq <= last THEN last ELSE Stream[i - 1].seq

\* The client will take message i of the stream ...
IsTaken(i) == WellFormed(Stream[i]) /\ Stream[i].seq > NumberBefore(i)

\* ... and will see that a payload before it is missing.
GapBefore(i) == IsTaken(i) /\ Stream[i].seq > NumberBefore(i) + 1

\* The events that the window has yet to route, the lost and the known ones aside.
Coming ==
  late \cup Events(callbacks) \cup {Stream[i].event : i \in {j \in DOMAIN Stream : IsTaken(j)}}

Init ==
  /\ db = [x \in Rows \cup Runs |-> "absent"]
  /\ latest = NoId
  /\ late = {}
  /\ up = TRUE
  /\ callbacks = <<>>
  /\ open = FALSE
  /\ queue = <<>>
  /\ sequence = 0
  /\ wire = <<>>
  /\ last = 0
  /\ works = 0
  /\ happened = 0
  /\ WindowInit

-----------------------------------------------------------------------------
(* Publishers.                                                             *)

\* publish calls on_event, which hops to the loop.
Publish(events) ==
  /\ Len(callbacks) < LoopMax
  /\ callbacks' = callbacks \o events

\* A coroutine writes a stage and publishes.
WritesAndPublishes(x, stage, e) ==
  /\ up
  /\ db' = [db EXCEPT ![x] = stage]
  /\ Publish(<<e>>)
  /\ Commits(e)
  /\ UNCHANGED <<latest, late, up, gateway, last, bounds>>

\* A thread commits a change; it publishes it later.
ThreadCommits(e) ==
  /\ up
  /\ e \notin late
  /\ late' = late \cup {e}
  /\ Commits(e)
  /\ UNCHANGED <<latest, up, callbacks, gateway, stores, last>>

\* The queued event of a row that has ended puts it into the live store for good.
ThreadPublishes(e) ==
  /\ e \in late
  /\ late' = late \ {e}
  /\ Publish(<<e>>)
  /\ astray' = IF e.type = "generation.queued" /\ db[e.id] \in RowEnds
               THEN astray \cup {e.id}
               ELSE astray
  /\ UNCHANGED <<db, latest, up, gateway, query, live, panel, request, last, bounds>>

\* A row or a run begins, within the bound.
Begins ==
  /\ works < MaxWorks
  /\ works' = works + 1
  /\ UNCHANGED happened

\* Something else happens, within the bound.
Happens ==
  /\ happened < MaxEvents
  /\ happened' = happened + 1
  /\ UNCHANGED works

CreatesRow(r) ==
  /\ Begins
  /\ db[r] = "absent"
  /\ db' = [db EXCEPT ![r] = "queued"]
  /\ ThreadCommits(Event("generation.queued", r))

\* A change of a shot, a timeline, a job ...  An event of an agent, with no run of the
\* model, is of a run that this window does not know.
Changes(kind) ==
  /\ Happens
  /\ ThreadCommits(Event(kind, NoId))
  /\ UNCHANGED db

\* The worker claims the row.
Starts(r) ==
  /\ db[r] = "queued"
  /\ WritesAndPublishes(r, "running", Event("generation.started", r))
  /\ UNCHANGED stores

\* The worker or the cancel endpoint ends it.
Completes(r) ==
  /\ db[r] \in {"queued", "running"}
  /\ WritesAndPublishes(r, "completed", Event("generation.completed", r))
  /\ UNCHANGED stores

\* The lease recovery ends it: no case of the router corrects the live store.
Interrupts(r) ==
  /\ db[r] = "running"
  /\ WritesAndPublishes(r, "interrupted", Event("generation.interrupted", r))
  /\ astray' = astray \cup {r}
  /\ UNCHANGED <<live, panel, request>>

\* A run is created and started: by this window's panel, whose request is served ...
Submits(d) ==
  /\ up
  /\ Begins
  /\ db[d] = "absent"
  /\ panel.status \notin BusyStatuses
  /\ request = NoRequest
  /\ request' = [ask |-> "start", run |-> d]
  /\ db' = [db EXCEPT ![d] = "running"]
  /\ latest' = d
  /\ UNCHANGED <<late, up, callbacks, gateway, query, live, panel, astray, last>>

\* ... or by a continuity check or another window.
OthersSubmit(d) ==
  /\ up
  /\ Begins
  /\ db[d] = "absent"
  /\ db' = [db EXCEPT ![d] = "running"]
  /\ latest' = d
  /\ UNCHANGED <<late, up, callbacks, gateway, window, last>>

Plans(d) ==
  /\ db[d] = "running"
  /\ WritesAndPublishes(d, "planned", Event("agent.plan.created", d))
  /\ UNCHANGED stores

ActsInRun(d) ==
  /\ db[d] = "planned"
  /\ WritesAndPublishes(d, "executing", Event("agent.tool.started", d))
  /\ UNCHANGED stores

\* A proposal parks the run, once within the bound; the approval's event does not say of which run.
Parks(d) ==
  /\ up
  /\ db[d] = "executing"
  /\ db' = [db EXCEPT ![d] = "waiting"]
  /\ Publish(<<Event("agent.proposal.created", d), Event("agent.approval.required", NoId)>>)
  /\ Commits(Event("agent.proposal.created", d))
  /\ UNCHANGED <<latest, late, up, gateway, stores, last, bounds>>

EndEvent(end) ==
  CASE end = "completed" -> "agent.run.completed"
    [] end = "failed"    -> "agent.run.failed"
    [] end = "cancelled" -> "agent.run.cancelled"

\* The graph ends.
EndsRun(d, end) ==
  /\ IF end = "cancelled" THEN db[d] = "cancelling" ELSE db[d] \in Working
  /\ WritesAndPublishes(d, end, Event(EndEvent(end), d))
  /\ UNCHANGED stores

\* A read of the run in a thread finds its proposals expired.
Expires(d) ==
  /\ db[d] = "waiting"
  /\ db' = [db EXCEPT ![d] = "failed"]
  /\ ThreadCommits(Event("agent.run.failed", d))
  /\ UNCHANGED bounds

\* The backend serves the panel's cancel or resume: a status without an event.
Serves(d, ask, stage) ==
  /\ up
  /\ request = NoRequest
  /\ panel.run = d
  /\ request' = [ask |-> ask, run |-> d]
  /\ db' = [db EXCEPT ![d] = stage]
  /\ Commits(Event("agent.run.updated", d))
  /\ UNCHANGED <<latest, late, up, callbacks, gateway, live, panel, astray, last, bounds>>

Cancels(d) ==
  /\ panel.status \in BusyStatuses
  /\ \/ db[d] \in Working /\ Serves(d, "cancel", "cancelling")
     \/ db[d] \in {"waiting", "dead"} /\ Serves(d, "cancel", "stranded")

Resumes(d) == db[d] = "waiting" /\ Serves(d, "resume", "resumed")

-----------------------------------------------------------------------------
(* The gateway, on the event loop.                                         *)

\* A full buffer loses its oldest payload.
Buffered(q, m) == Append(IF Len(q) < QueueMax THEN q ELSE Tail(q), m)

\* _fan_out of the next event: number it and buffer it.
FanOut ==
  /\ callbacks # <<>>
  /\ callbacks' = Tail(callbacks)
  /\ LET e == Head(callbacks)
         m == Message(sequence + 1, e)
         ignored == IF open /\ Classify(m.seq) = "dupe" THEN {e} ELSE {}
         dropped == {x.event : x \in Events(queue) \ Events(Buffered(queue, m))} IN
     IF open
     THEN /\ sequence' = m.seq
          /\ queue' = Buffered(queue, m)
          /\ query' = [query EXCEPT !.unheard =
                          @ \/ (query.behind /\ \E x \in ignored : Invalidates(x))]
          /\ Loses(ignored \cup dropped)
     ELSE /\ UNCHANGED <<sequence, queue, query>>
          /\ Loses({e})
  /\ UNCHANGED <<backend, open, wire, live, panel, request, last, bounds>>

\* The sender task takes a payload and waits for the transport; what it holds counts
\* as sent.
SenderSends ==
  /\ queue # <<>>
  /\ Len(wire) < WireMax
  /\ wire' = Append(wire, Head(queue))
  /\ queue' = Tail(queue)
  /\ UNCHANGED <<backend, callbacks, open, sequence, window, last, bounds>>

\* A mutated form: no refetch after a reconnect.
ConnectMutantTrusts ==
  /\ up
  /\ ~open
  /\ open' = TRUE
  /\ sequence' = 0
  /\ wire' = <<Greeting>>
  /\ UNCHANGED <<backend, callbacks, queue, window, last, bounds>>

\* The client connects: a fresh buffer and fresh numbers, the greeting first.
\* onopen reconciles; no request the client makes after that is served before
\* the gateway has added the connection.
Connect ==
  /\ up
  /\ ~open
  /\ open' = TRUE
  /\ sequence' = 0
  /\ wire' = <<Greeting>>
  /\ Reconcile
  /\ UNCHANGED <<backend, callbacks, queue, last, bounds>>

\* What a broken connection takes with it.
CloseConnection ==
  /\ open' = FALSE
  /\ queue' = <<>>
  /\ wire' = <<>>
  /\ UNCHANGED <<sequence, query, live, panel, last>>

ConnectionBreaks ==
  /\ open
  /\ Happens
  /\ CloseConnection
  /\ Loses(Streamed)
  /\ UNCHANGED <<backend, callbacks, request>>

\* The graphs die with the process, and so do requests and threads.
ProcessDies ==
  /\ up
  /\ Happens
  /\ up' = FALSE
  /\ db' = [x \in DOMAIN db |->
             CASE x \in Runs /\ db[x] \in Working      -> "dead"
               [] x \in Runs /\ db[x] = "cancelling"   -> "stranded"
               [] OTHER                                -> db[x]]
  /\ late' = {}
  /\ callbacks' = <<>>
  /\ request' = NoRequest
  /\ CloseConnection
  /\ Loses(late \cup Events(callbacks) \cup Streamed)
  /\ UNCHANGED latest

Restart ==
  /\ ~up
  /\ up' = TRUE
  /\ UNCHANGED <<db, latest, late, callbacks, gateway, window, last, bounds>>

-----------------------------------------------------------------------------
(* The window.                                                             *)

\* onmessage: what is malformed or known is ignored.  Taking the number of the
\* greeting comes after the test that the greeting does not pass, so lastSequence
\* is never reset.
HandleMessage(m) ==
  IF WellFormed(m) /\ Classify(m.seq) # "dupe"
  THEN /\ last' = m.seq
       /\ Route(m.event, Classify(m.seq) = "gap")
  ELSE UNCHANGED <<last, window>>

Receive ==
  /\ wire # <<>>
  /\ wire' = Tail(wire)
  /\ HandleMessage(Head(wire))
  /\ UNCHANGED <<backend, callbacks, open, queue, sequence, bounds>>

\* The query is fetched, in two steps.
Fetches ==
  /\ up
  /\ BackendAnswers
  /\ UNCHANGED <<backend, callbacks, gateway, last, bounds>>

Shows ==
  /\ ShowsAnswer
  /\ UNCHANGED <<backend, callbacks, gateway, last, bounds>>

\* The answer to a request of the panel may be later than the events of the run.
PanelAnswered ==
  /\ TakesRequest({d \in Runs : db[d] \in Over /\ \A e \in Coming : e.id = d => ~Corrects(e)})
  /\ UNCHANGED <<backend, callbacks, gateway, last, bounds>>

PanelHydrates ==
  /\ up
  /\ latest # NoId
  /\ Hydrates(latest, db[latest])
  /\ UNCHANGED <<backend, callbacks, gateway, last, bounds>>

PanelResets ==
  /\ Resets
  /\ UNCHANGED <<backend, callbacks, gateway, last, bounds>>

-----------------------------------------------------------------------------

OfRow(r) == CreatesRow(r) \/ Starts(r) \/ Completes(r) \/ Interrupts(r)

OfRun(d) ==
  \/ Submits(d)
  \/ OthersSubmit(d)
  \/ Plans(d)
  \/ ActsInRun(d)
  \/ Parks(d)
  \/ \E end \in Over : EndsRun(d, end)
  \/ Expires(d)
  \/ Cancels(d)
  \/ Resumes(d)

\* An event on its way comes nearer.
Delivers ==
  \/ \E e \in late : ThreadPublishes(e)
  \/ FanOut
  \/ SenderSends
  \/ Receive

Next ==
  \/ \E r \in Rows : OfRow(r)
  \/ \E d \in Runs : OfRun(d)
  \/ \E kind \in Kinds : Changes(kind)
  \/ Delivers
  \/ Connect
  \/ ConnectionBreaks
  \/ ProcessDies
  \/ Restart
  \/ Fetches
  \/ Shows
  \/ PanelAnswered
  \/ PanelHydrates
  \/ PanelResets

Spec == Init /\ [][Next]_vars

(***************************************************************************)
(* Fairness: threads publish what they have committed, the loop runs its   *)
(* callbacks and tasks, the client reads its socket, reconnects (its timer *)
(* never gives up), fetches what is invalid and polls, and a dead backend  *)
(* is started again.                                                       *)
(***************************************************************************)
Fairness ==
  /\ WF_vars(Delivers)
  /\ WF_vars(Connect \/ Restart)
  /\ WF_vars(Fetches \/ Shows)

FairSpec == Spec /\ Fairness

-----------------------------------------------------------------------------
(* Properties *)

TypeOK ==
  /\ WindowTypeOK
  /\ db \in [Rows \cup Runs -> RowStages \cup RunStages]
  /\ latest \in Runs \cup {NoId}
  /\ up \in BOOLEAN
  /\ open \in BOOLEAN
  /\ Len(queue) <= QueueMax
  /\ Len(wire) <= WireMax
  /\ sequence \in Nat
  /\ last \in Nat
  /\ works \in 0..MaxWorks
  /\ happened \in 0..MaxEvents

\* Something will make the window show the query as it is: it is due, a current answer
\* is on its way, an event that invalidates it is, or a gap that the next message shows.
FetchIsComing ==
  \/ query.due
  \/ query.answer = "current"
  \/ \E e \in Coming : Invalidates(e)
  \/ \E i \in DOMAIN Stream : GapBefore(i)

\* SAFETY.  A query of a connected window that is behind the database is going to be
\* fetched: drops, late publishes, answers overtaken by changes, lost connections and
\* crashes never leave it silently behind, unless the change got no event the router
\* has a case for, or its event a number of an earlier connection.
NoSilentStaleness ==
  open /\ query.behind /\ ~query.unheard => FetchIsComing

\* LIVENESS.  What the database says is shown, whatever is dropped or lost; in a query
\* that is not polled, unless no event told the window.
QueriesCatchUp ==
  query.behind ~> (~query.behind \/ (query.unheard /\ query.view \notin Polled))

\* The window shows the row or the run as something that goes on.
ShownAsBusy(x) == x \in live \/ (panel.run = x /\ panel.status \in BusyStatuses)

\* SAFETY.  Only events correct the stores, a reconcile does not.  A row or a run that
\* has ended and is shown as busy has the event of its end on its way, unless that
\* event was dropped, lost with the connection or ignored, has no case, or was
\* overtaken: by a late "queued", by the answer to a request of the panel, or by an
\* event of another run.
StoresFollow ==
  open => \A x \in {y \in Rows \cup Runs : ShownAsBusy(y)} \ astray :
            db[x] \in Over \cup RowEnds => \E e \in Coming : e.id = x /\ Corrects(e)
=============================================================================
