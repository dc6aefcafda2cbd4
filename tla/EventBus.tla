------------------------------ MODULE EventBus ------------------------------
(***************************************************************************)
(* The daemon's in-process event fan-out (daemon/event_bus.py) together    *)
(* with the stream handler of GET /v0/events that consumes it              *)
(* (daemon/app.py, events_stream).                                         *)
(*                                                                         *)
(* publish, subscribe, shutdown and remove hold the bus's asyncio.Lock and *)
(* await nothing inside it, so each is one step.  A stream handler runs    *)
(* between two awaits: at "check" it looks at the closed flag, at "get" it *)
(* waits for its queue, at "drain" it flushes what a shutdown left queued. *)
(* An event is represented by the cursor the bus stamps on it.             *)
(***************************************************************************)
EXTENDS Integers, Sequences

CONSTANTS
  Subs,         \* the subscriptions that may ever be made
  QueueMax,     \* QUEUE_MAXSIZE, capacity of one subscriber's queue
  ReplayDepth,  \* REPLAY_BUFFER_SIZE, depth of the replay ring
  MaxCursor     \* bound on the number of events published

ASSUME DepthAssumption ==
  /\ QueueMax \in Nat
  /\ ReplayDepth \in Nat \ {0}
  /\ ReplayDepth < QueueMax      \* the module-level assert of event_bus.py
  /\ MaxCursor \in Nat

VARIABLES
  cursor,        \* _cursor
  buffer,        \* _buffer, the ring of the last stamped events
  shuttingDown,  \* _shutting_down
  subscribers,   \* _subscribers
  queue,         \* [Subs -> the subscription's queue]
  closeReason,   \* [Subs -> "open" until closed is set, then close_reason]
  pc,            \* [Subs -> where the stream handler of the subscription is]
  lastSent,      \* [Subs -> cursor of the last frame the client was sent]
  joinedAt,      \* [Subs -> bus cursor when the subscription was made]
  owed           \* [Subs -> newest cursor a stream closed by shutdown must send]

vars == <<cursor, buffer, shuttingDown, subscribers, queue, closeReason, pc,
          lastSent, joinedAt, owed>>
busVars == <<cursor, buffer, shuttingDown>>

Reasons == {"open", "slow_consumer", "shutdown", "removed"}
Labels  == {"none", "check", "get", "drain", "done", "gone"}

TypeOK ==
  /\ cursor \in Nat
  /\ buffer \in Seq(Nat)
  /\ shuttingDown \in BOOLEAN
  /\ subscribers \in SUBSET Subs
  /\ queue \in [Subs -> Seq(Nat)]
  /\ closeReason \in [Subs -> Reasons]
  /\ pc \in [Subs -> Labels]
  /\ lastSent \in [Subs -> Nat]
  /\ joinedAt \in [Subs -> Nat]
  /\ owed \in [Subs -> Nat]

Init ==
  /\ cursor = 0
  /\ buffer = <<>>
  /\ shuttingDown = FALSE
  /\ subscribers = {}
  /\ queue = [s \in Subs |-> <<>>]
  /\ closeReason = [s \in Subs |-> "open"]
  /\ pc = [s \in Subs |-> "none"]
  /\ lastSent = [s \in Subs |-> 0]
  /\ joinedAt = [s \in Subs |-> 0]
  /\ owed = [s \in Subs |-> 0]

-----------------------------------------------------------------------------
(* The bus.                                                                *)

\* deque(maxlen=REPLAY_BUFFER_SIZE): a full ring loses its oldest event.
Remember(ring, c) ==
  IF Len(ring) < ReplayDepth THEN Append(ring, c) ELSE Append(Tail(ring), c)

\* CursorOutOfRangeError is raised exactly when this is false.
CanServe(since) ==
  /\ since <= cursor
  /\ buffer # <<>> => since >= Head(buffer) - 1

\* Mutants: the event the client names is replayed too; so is the whole ring.
FirstKept(since) ==
  CHOOSE k \in 1..Len(buffer) + 1 :
    \A i \in 1..Len(buffer) : (buffer[i] >= since) <=> (i >= k)
ReplayAll(since) == buffer

\* The retained events a subscriber with this cursor has not seen.  The ring
\* is in ascending order, so the loop's filter keeps a suffix of it.
FirstUnseen(since) ==
  CHOOSE k \in 1..Len(buffer) + 1 :
    \A i \in 1..Len(buffer) : (buffer[i] > since) <=> (i >= k)
Replay(since) == SubSeq(buffer, FirstUnseen(since), Len(buffer))

\* subscribe(since): the replay is queued before any later event can be.
SubscribeSince(s, since) ==
  /\ pc[s] = "none"
  /\ CanServe(since)
  /\ pc' = [pc EXCEPT ![s] = "check"]
  /\ lastSent' = [lastSent EXCEPT ![s] = since]
  /\ owed' = [owed EXCEPT ![s] = since]
  /\ joinedAt' = [joinedAt EXCEPT ![s] = cursor]
  /\ IF shuttingDown
       THEN /\ closeReason' = [closeReason EXCEPT ![s] = "shutdown"]
            /\ UNCHANGED <<queue, subscribers>>
       ELSE /\ queue' = [queue EXCEPT ![s] = Replay(since)]
            /\ subscribers' = subscribers \cup {s}
            /\ UNCHANGED closeReason
  /\ UNCHANGED busVars

\* subscribe(None): live events only, from the current cursor on.
SubscribeLive(s) ==
  /\ pc[s] = "none"
  /\ pc' = [pc EXCEPT ![s] = "check"]
  /\ lastSent' = [lastSent EXCEPT ![s] = cursor]
  /\ owed' = [owed EXCEPT ![s] = cursor]
  /\ joinedAt' = [joinedAt EXCEPT ![s] = cursor]
  /\ IF shuttingDown
       THEN /\ closeReason' = [closeReason EXCEPT ![s] = "shutdown"]
            /\ UNCHANGED subscribers
       ELSE /\ subscribers' = subscribers \cup {s}
            /\ UNCHANGED closeReason
  /\ UNCHANGED <<busVars, queue>>

\* Mutant: one slot of the queue is never used.
HasRoomLess(s) == Len(queue[s]) + 1 < QueueMax

HasRoom(s) == Len(queue[s]) < QueueMax

\* publish: stamp, remember, deliver to every subscriber with room; one whose
\* queue is full is closed as a slow consumer and dropped.
Publish ==
  /\ cursor < MaxCursor
  /\ cursor' = cursor + 1
  /\ buffer' = Remember(buffer, cursor + 1)
  /\ queue' = [s \in Subs |->
                 IF s \in subscribers /\ HasRoom(s)
                   THEN Append(queue[s], cursor + 1) ELSE queue[s]]
  /\ closeReason' = [s \in Subs |->
                       IF s \in subscribers /\ ~HasRoom(s)
                         THEN "slow_consumer" ELSE closeReason[s]]
  /\ subscribers' = {s \in subscribers : HasRoom(s)}
  /\ UNCHANGED <<shuttingDown, pc, lastSent, joinedAt, owed>>

\* Mutant: the subscribers are forgotten, and nobody tells them.
ShutdownSilently ==
  /\ shuttingDown' = TRUE
  /\ subscribers' = {}
  /\ UNCHANGED <<cursor, buffer, queue, closeReason, pc, lastSent, joinedAt, owed>>

Shutdown ==
  /\ shuttingDown' = TRUE
  /\ closeReason' = [s \in Subs |->
                       IF s \in subscribers THEN "shutdown" ELSE closeReason[s]]
  /\ owed' = [s \in Subs |-> IF s \in subscribers THEN cursor ELSE owed[s]]
  /\ subscribers' = {}
  /\ UNCHANGED <<cursor, buffer, queue, pc, lastSent, joinedAt>>

\* remove(sub): the closed flag is set, an existing reason is kept.
Remove(s) ==
  /\ subscribers' = subscribers \ {s}
  /\ closeReason' = [closeReason EXCEPT ![s] = IF @ = "open" THEN "removed" ELSE @]

-----------------------------------------------------------------------------
(* The stream handler of one subscription.                                 *)

\* The loop head: a closed stream ends, after a drain when the bus shut down.
Check(s) ==
  /\ pc[s] = "check"
  /\ \/ /\ closeReason[s] = "open"
        /\ pc' = [pc EXCEPT ![s] = "get"]
        /\ UNCHANGED <<subscribers, closeReason>>
     \/ /\ closeReason[s] = "shutdown"
        /\ pc' = [pc EXCEPT ![s] = "drain"]
        /\ UNCHANGED <<subscribers, closeReason>>
     \/ /\ closeReason[s] \notin {"open", "shutdown"}
        /\ pc' = [pc EXCEPT ![s] = "done"]
        /\ Remove(s)
  /\ UNCHANGED <<busVars, queue, lastSent, joinedAt, owed>>

\* One frame goes from the queue to the client.
Send(s) ==
  /\ queue[s] # <<>>
  /\ lastSent' = [lastSent EXCEPT ![s] = Head(queue[s])]
  /\ queue' = [queue EXCEPT ![s] = Tail(queue[s])]

\* wait_for(queue.get(), 0.5): an event, or a timeout on an empty queue.
Get(s) ==
  /\ pc[s] = "get"
  /\ \/ Send(s)
     \/ /\ queue[s] = <<>>
        /\ UNCHANGED <<queue, lastSent>>
  /\ pc' = [pc EXCEPT ![s] = "check"]
  /\ UNCHANGED <<busVars, subscribers, closeReason, joinedAt, owed>>

\* Mutant: the stream ends at once, as it does for a slow consumer.
DrainNothing(s) ==
  /\ pc[s] = "drain"
  /\ pc' = [pc EXCEPT ![s] = "done"]
  /\ Remove(s)
  /\ UNCHANGED <<busVars, queue, lastSent, joinedAt, owed>>

\* Flush what was queued before the shutdown, then the _close frame and EOF.
Drain(s) ==
  /\ pc[s] = "drain"
  /\ \/ /\ Send(s)
        /\ UNCHANGED <<pc, subscribers, closeReason>>
     \/ /\ queue[s] = <<>>
        /\ pc' = [pc EXCEPT ![s] = "done"]
        /\ Remove(s)
        /\ UNCHANGED <<queue, lastSent>>
  /\ UNCHANGED <<busVars, joinedAt, owed>>

\* The client goes away: the generator's finally removes the subscription.
Disconnect(s) ==
  /\ pc[s] \in {"check", "get", "drain"}
  /\ pc' = [pc EXCEPT ![s] = "gone"]
  /\ Remove(s)
  /\ UNCHANGED <<busVars, queue, lastSent, joinedAt, owed>>

-----------------------------------------------------------------------------
Handler(s) == Check(s) \/ Get(s) \/ Drain(s)

Subscribe(s) ==
  \/ SubscribeLive(s)
  \/ \E since \in 0..MaxCursor : SubscribeSince(s, since)

Next ==
  \/ Publish
  \/ Shutdown
  \/ \E s \in Subs : Subscribe(s) \/ Handler(s) \/ Disconnect(s)

\* The event loop keeps running every handler task that is ready.
Spec == Init /\ [][Next]_vars /\ \A s \in Subs : WF_vars(Handler(s))

-----------------------------------------------------------------------------
(* Properties.                                                             *)

\* Every subscription that was made and has not ended.
Streaming(s) == pc[s] \in {"check", "get", "drain"}

\* What is still queued for a client continues, without a hole, what the
\* client was already sent; while the bus still delivers to the subscription
\* the queue reaches up to the newest event.  (subscribe's replay, publish and
\* the handler's get all touch the queue, at different moments.)
QueueIsNextInLine ==
  \A s \in Subs :
    /\ \A i \in 1..Len(queue[s]) : queue[s][i] = lastSent[s] + i
    /\ s \in subscribers => lastSent[s] + Len(queue[s]) = cursor

\* A client never skips an event and never sees one twice: every frame after
\* the first carries the cursor following the previous frame's.
ClientSeesEveryCursor ==
  [][\A s \in Subs :
       pc[s] # "none" /\ lastSent'[s] # lastSent[s]
         => lastSent'[s] = lastSent[s] + 1]_vars

\* A replay alone never makes a subscriber slow: it takes more live events
\* than the headroom the assert of event_bus.py keeps free.
ReplayLeavesHeadroom ==
  \A s \in Subs :
    closeReason[s] = "slow_consumer"
      => cursor - joinedAt[s] > QueueMax - ReplayDepth

\* A stream that ends because the bus shut down has sent the client every
\* event published while the subscription was live: the drain the handler's
\* comment asks for, so that a final recording_finalized is not lost.  Only a
\* client that hung up gets less.
ShutdownLosesNothing ==
  \A s \in Subs :
    pc[s] = "done" /\ closeReason[s] = "shutdown" => lastSent[s] = owed[s]

\* Once the bus shuts down every stream reaches its end, so the server's
\* drain-to-EOF terminates.
StreamsEnd == shuttingDown ~> \A s \in Subs : ~Streaming(s)
=============================================================================
