--------------------------- MODULE EventBusProofs ---------------------------
(***************************************************************************)
(* Proofs, for any set of subscriptions and any depths, that the event bus *)
(* delivers to every client a gap-free stream, that a replay never makes a *)
(* subscriber slow, and that a shutdown loses nothing.                     *)
(***************************************************************************)
EXTENDS EventBus, SequenceTheorems, TLAPS

\* The cursors in q are the ones that come after base, one by one.
Follows(q, base) == \A i \in 1..Len(q) : q[i] = base + i

\* The ring holds the last stamps in order, and is only empty at the start.
RingInv ==
  /\ Len(buffer) <= ReplayDepth
  /\ Len(buffer) <= cursor
  /\ buffer = <<>> => cursor = 0
  /\ Follows(buffer, cursor - Len(buffer))

\* How the flags of one subscription hang together.
Flags(s) ==
  /\ s \in subscribers => pc[s] \in {"check", "get"} /\ closeReason[s] = "open"
  /\ pc[s] = "none" => queue[s] = <<>> /\ closeReason[s] = "open"
  /\ pc[s] = "drain" => closeReason[s] = "shutdown"

\* The queue continues what was sent, up to the newest event while it is live.
InLine(s) ==
  /\ Follows(queue[s], lastSent[s])
  /\ s \in subscribers => lastSent[s] + Len(queue[s]) = cursor

\* What a stream closed by the shutdown still owes is what its queue holds.
Settled(s) ==
  closeReason[s] = "shutdown" =>
    /\ lastSent[s] + Len(queue[s]) = owed[s]
    /\ pc[s] = "done" => queue[s] = <<>>

\* A live queue holds at most one replay and the events since the join, so
\* that a queue that overflowed had taken more than the headroom.
Headroom(s) ==
  /\ joinedAt[s] <= cursor
  /\ s \in subscribers => Len(queue[s]) <= ReplayDepth + (cursor - joinedAt[s])
  /\ closeReason[s] = "slow_consumer"
       => cursor - joinedAt[s] > QueueMax - ReplayDepth

SubInv(s) == Flags(s) /\ InLine(s) /\ Settled(s) /\ Headroom(s)

BusInv == TypeOK /\ RingInv /\ \A s \in Subs : SubInv(s)

-----------------------------------------------------------------------------
(* Runs of consecutive cursors.                                            *)

\* Appending the next stamp extends a run of consecutive cursors.
LEMMA AppendFollows ==
  ASSUME NEW q \in Seq(Nat), NEW base \in Int, NEW c \in Nat,
         Follows(q, base), c = base + Len(q) + 1
  PROVE  /\ Append(q, c) \in Seq(Nat)
         /\ Append(q, c) # <<>>
         /\ Len(Append(q, c)) = Len(q) + 1
         /\ Follows(Append(q, c), base)
<1> DEFINE r == Append(q, c)
<1>1. r \in Seq(Nat) /\ Len(r) = Len(q) + 1 /\ r # <<>>
  OBVIOUS
<1>2. ASSUME NEW i \in 1..Len(r) PROVE r[i] = base + i
  <2>1. CASE i <= Len(q)
    <3>1. i \in 1..Len(q) /\ r[i] = q[i]
      BY <2>1
    <3>2. QED BY <3>1 DEF Follows
  <2>2. CASE i > Len(q)
    <3>1. i = Len(q) + 1
      BY <1>1, <2>2
    <3>2. r[i] = c
      BY <3>1
    <3>3. QED BY <3>1, <3>2
  <2>3. QED BY <2>1, <2>2
<1> HIDE DEF r
<1>3. Follows(r, base)
  BY <1>2 DEF Follows
<1>4. QED BY <1>1, <1>3 DEF r

\* Taking the oldest stamp off leaves a run that starts one later.
LEMMA TailFollows ==
  ASSUME NEW q \in Seq(Nat), NEW base \in Int, Follows(q, base), q # <<>>
  PROVE  /\ Tail(q) \in Seq(Nat)
         /\ Len(q) \in Nat \ {0}
         /\ Len(Tail(q)) = Len(q) - 1
         /\ Head(q) \in Nat
         /\ Head(q) = base + 1
         /\ Follows(Tail(q), base + 1)
<1>1. /\ Tail(q) \in Seq(Nat)
      /\ Len(Tail(q)) = Len(q) - 1
      /\ \A i \in 1..Len(Tail(q)) : Tail(q)[i] = q[i + 1]
      /\ Head(q) \in Nat
  BY HeadTailProperties
<1>2. Len(q) \in Nat \ {0} /\ Head(q) = q[1]
  OBVIOUS
<1>3. Head(q) = base + 1
  BY <1>2 DEF Follows
<1>4. ASSUME NEW i \in 1..Len(Tail(q)) PROVE Tail(q)[i] = (base + 1) + i
  <2>1. i + 1 \in 1..Len(q) /\ Tail(q)[i] = q[i + 1]
    BY <1>1, <1>2
  <2>2. q[i + 1] = base + (i + 1)
    BY <2>1 DEF Follows
  <2>3. QED BY <2>1, <2>2
<1>5. Follows(Tail(q), base + 1)
  BY <1>1, <1>4 DEF Follows
<1>6. QED BY <1>1, <1>2, <1>3, <1>5

\* The ring stays a window of consecutive stamps that ends at the newest one
\* (publish, and deque(maxlen) behind it).
LEMMA RememberKeepsWindow ==
  ASSUME NEW ring \in Seq(Nat), NEW c \in Nat,
         Len(ring) <= ReplayDepth, Len(ring) <= c, Follows(ring, c - Len(ring))
  PROVE  LET next == Remember(ring, c + 1)
         IN  /\ next \in Seq(Nat)
             /\ next # <<>>
             /\ Len(next) <= ReplayDepth
             /\ Len(next) <= c + 1
             /\ Follows(next, c + 1 - Len(next))
<1> DEFINE base == c - Len(ring)
<1>0. Len(ring) \in Nat /\ base \in Int /\ ReplayDepth \in Nat \ {0}
  BY DepthAssumption
<1>1. CASE Len(ring) < ReplayDepth
  <2>1. Remember(ring, c + 1) = Append(ring, c + 1)
    BY <1>1 DEF Remember
  <2>2. c + 1 = base + Len(ring) + 1
    BY <1>0
  <2>3. /\ Append(ring, c + 1) \in Seq(Nat)
        /\ Append(ring, c + 1) # <<>>
        /\ Len(Append(ring, c + 1)) = Len(ring) + 1
        /\ Follows(Append(ring, c + 1), base)
    BY <1>0, <2>2, AppendFollows
  <2>4. c + 1 - Len(Append(ring, c + 1)) = base
    BY <1>0, <2>3
  <2>5. Len(Append(ring, c + 1)) <= ReplayDepth /\ Len(Append(ring, c + 1)) <= c + 1
    BY <1>0, <1>1, <2>3
  <2> HIDE DEF base
  <2>6. QED BY <2>1, <2>3, <2>4, <2>5, Zenon
<1>2. CASE Len(ring) = ReplayDepth
  <2>1. ring # <<>>
    BY <1>0, <1>2
  <2>2. /\ Tail(ring) \in Seq(Nat)
        /\ Len(Tail(ring)) = Len(ring) - 1
        /\ Follows(Tail(ring), base + 1)
    BY <1>0, <2>1, TailFollows
  <2>3. Remember(ring, c + 1) = Append(Tail(ring), c + 1)
    BY <1>0, <1>2 DEF Remember
  <2>4. base + 1 \in Int /\ c + 1 \in Nat /\ c + 1 = (base + 1) + Len(Tail(ring)) + 1
    BY <1>0, <2>2
  <2>5. /\ Append(Tail(ring), c + 1) \in Seq(Nat)
        /\ Append(Tail(ring), c + 1) # <<>>
        /\ Len(Append(Tail(ring), c + 1)) = Len(Tail(ring)) + 1
        /\ Follows(Append(Tail(ring), c + 1), base + 1)
    BY <2>2, <2>4, AppendFollows
  <2>6. /\ Len(Append(Tail(ring), c + 1)) <= ReplayDepth
        /\ Len(Append(Tail(ring), c + 1)) <= c + 1
        /\ c + 1 - Len(Append(Tail(ring), c + 1)) = base + 1
    BY <1>0, <1>2, <2>2, <2>5
  <2> HIDE DEF base
  <2>7. QED BY <2>3, <2>5, <2>6, Zenon
<1>3. QED BY <1>0, <1>1, <1>2

\* A replay that subscribe() accepts is exactly the events after `since`.
LEMMA ReplayIsRest ==
  ASSUME TypeOK, RingInv, NEW since \in Nat, CanServe(since)
  PROVE  /\ Replay(since) \in Seq(Nat)
         /\ Len(Replay(since)) = cursor - since
         /\ Len(Replay(since)) <= ReplayDepth
         /\ Follows(Replay(since), since)
<1> DEFINE n == Len(buffer)
           K(k) == \A i \in 1..n : (buffer[i] > since) <=> (i >= k)
           k0 == since - (cursor - n) + 1
<1>1. n \in Nat /\ cursor \in Nat /\ n <= cursor /\ n <= ReplayDepth /\ buffer \in Seq(Nat)
  BY DEF TypeOK, RingInv
<1>2. \A i \in 1..n : buffer[i] = cursor - n + i
  BY DEF RingInv, Follows
<1>3. k0 \in 1..n + 1
  <2>1. CASE buffer = <<>>
    BY <1>1, <2>1 DEF CanServe, RingInv
  <2>2. CASE buffer # <<>>
    <3>1. Head(buffer) = cursor - n + 1
      BY <1>1, <1>2, <2>2
    <3>2. QED BY <1>1, <2>2, <3>1 DEF CanServe
  <2>3. QED BY <2>1, <2>2
<1>4. K(k0)
  BY <1>1, <1>2, <1>3
<1>5. /\ FirstUnseen(since) \in 1..n + 1
      /\ K(FirstUnseen(since))
  BY <1>3, <1>4 DEF FirstUnseen
<1>6. FirstUnseen(since) = k0
  <2> DEFINE k == FirstUnseen(since)
  <2>1. k \in Int /\ k0 \in Int /\ k \in 1..n+1 /\ k0 \in 1..n+1
    BY <1>1, <1>3, <1>5
  <2>2. K(k) /\ K(k0)
    BY <1>4, <1>5
  <2>3. ASSUME k < k0 PROVE FALSE
    <3>1. k \in 1..n /\ k >= k /\ ~(k >= k0)
      BY <1>1, <2>1, <2>3
    <3>2. QED BY <2>2, <3>1
  <2>4. ASSUME k0 < k PROVE FALSE
    <3>1. k0 \in 1..n /\ k0 >= k0 /\ ~(k0 >= k)
      BY <1>1, <2>1, <2>4
    <3>2. QED BY <2>2, <3>1
  <2>5. QED BY <2>1, <2>3, <2>4
<1>7. Replay(since) = SubSeq(buffer, k0, n)
  BY <1>6 DEF Replay
<1> HIDE DEF K
<1>8. \A i \in k0..n : buffer[i] \in Nat
  BY <1>1, <1>3
<1>9. /\ SubSeq(buffer, k0, n) \in Seq(Nat)
      /\ Len(SubSeq(buffer, k0, n)) = IF k0 <= n THEN n - k0 + 1 ELSE 0
      /\ \A i \in 1..n - k0 + 1 : SubSeq(buffer, k0, n)[i] = buffer[k0 + i - 1]
  <2>1. k0 \in Int /\ n \in Int
    BY <1>1, <1>3
  <2> HIDE DEF k0, n
  <2>2. QED BY <2>1, <1>8, SubSeqProperties
<1>10. /\ Replay(since) \in Seq(Nat)
       /\ Len(Replay(since)) = cursor - since
       /\ Len(Replay(since)) <= ReplayDepth
  <2>1. n - k0 + 1 = cursor - since /\ k0 >= 1 /\ (k0 > n => n - k0 + 1 = 0)
    <3> HIDE DEF n
    <3>1. QED BY <1>1, <1>3
  <2>2. Len(Replay(since)) = n - k0 + 1
    <3>1. k0 \in Int /\ n \in Int
      BY <1>1, <1>3
    <3> HIDE DEF k0, n
    <3>2. QED BY <1>7, <1>9, <2>1, <3>1
  <2>3. n - k0 + 1 <= n /\ ReplayDepth \in Nat
    BY <1>1, <1>3, DepthAssumption
  <2>4. Replay(since) \in Seq(Nat)
    BY <1>7, <1>9, Zenon
  <2> HIDE DEF k0
  <2>5. Len(Replay(since)) = cursor - since
    BY <2>1, <2>2
  <2>6. Len(Replay(since)) <= ReplayDepth
    <3> USE DEF k0
    <3> HIDE DEF n
    <3>1. QED BY <1>1, <2>2, <2>3, DepthAssumption
  <2>7. QED BY <2>4, <2>5, <2>6
<1>11. ASSUME NEW i \in 1..Len(Replay(since)) PROVE Replay(since)[i] = since + i
  <2>1. i \in 1..n - k0 + 1 /\ k0 + i - 1 \in 1..n /\ i \in Nat
    BY <1>1, <1>3, <1>10
  <2>2. Replay(since)[i] = buffer[k0 + i - 1]
    <3> HIDE DEF k0, n
    <3>1. QED BY <1>7, <1>9, <2>1, Zenon
  <2>3. buffer[k0 + i - 1] = cursor - n + (k0 + i - 1)
    <3> HIDE DEF k0, n
    <3>1. QED BY <1>2, <2>1, Zenon
  <2>4. cursor - n + (k0 + i - 1) = since + i
    <3> HIDE DEF n
    <3>1. QED BY <1>1, <2>1
  <2>5. QED BY <2>2, <2>3, <2>4, Zenon
<1>12. Follows(Replay(since), since)
  <2> HIDE DEF k0, n
  <2>1. QED BY <1>11 DEF Follows
<1>13. QED BY <1>10, <1>12

-----------------------------------------------------------------------------
(* The invariant.                                                          *)

\* Every subscription starts unmade, with nothing queued.
LEMMA BusInvInit == Init => BusInv
<1> SUFFICES ASSUME Init PROVE BusInv
  OBVIOUS
<1>0. <<>> \in Seq(Nat) /\ Len(<<>>) = 0 /\ ReplayDepth \in Nat
  BY DepthAssumption
<1>1. TypeOK
  BY <1>0 DEF TypeOK, Init, Reasons, Labels
<1>2. RingInv
  BY <1>0 DEF Init, RingInv, Follows
<1>3. ASSUME NEW s \in Subs PROVE SubInv(s)
  <2>1. /\ queue[s] = <<>> /\ closeReason[s] = "open" /\ pc[s] = "none"
        /\ lastSent[s] = 0 /\ joinedAt[s] = 0 /\ cursor = 0 /\ s \notin subscribers
    BY DEF Init
  <2>2. Follows(queue[s], lastSent[s])
    BY <1>0, <2>1 DEF Follows
  <2>3. QED BY <1>0, <2>1, <2>2 DEF SubInv, Flags, InLine, Settled, Headroom
<1>4. QED BY <1>1, <1>2, <1>3 DEF BusInv

\* The values of one subscription, with the types the provers need at hand.
LEMMA SubTypes ==
  ASSUME TypeOK, NEW s \in Subs
  PROVE  /\ queue[s] \in Seq(Nat) /\ Len(queue[s]) \in Nat
         /\ closeReason[s] \in Reasons /\ pc[s] \in Labels
         /\ lastSent[s] \in Nat /\ joinedAt[s] \in Nat /\ owed[s] \in Nat
         /\ cursor \in Nat
BY DEF TypeOK

\* A subscription that a step leaves alone keeps its part of the invariant.
LEMMA UntouchedKeepsInv ==
  ASSUME NEW s \in Subs, SubInv(s),
         cursor' = cursor, queue'[s] = queue[s], closeReason'[s] = closeReason[s],
         pc'[s] = pc[s], lastSent'[s] = lastSent[s], joinedAt'[s] = joinedAt[s],
         owed'[s] = owed[s], (s \in subscribers') <=> (s \in subscribers)
  PROVE  SubInv(s)'
BY DEF SubInv, Flags, InLine, Settled, Headroom

\* publish is the only step that fills queues and that closes slow consumers.
LEMMA PublishKeepsInv == BusInv /\ Publish => BusInv'
<1> SUFFICES ASSUME BusInv, Publish PROVE BusInv'
  OBVIOUS
<1>1. TypeOK /\ RingInv /\ cursor \in Nat /\ cursor' = cursor + 1 /\ buffer \in Seq(Nat)
  BY DEF BusInv, TypeOK, Publish
<1>2. /\ buffer' \in Seq(Nat)
      /\ RingInv'
  <2> DEFINE next == Remember(buffer, cursor + 1)
  <2>1. /\ next \in Seq(Nat)
        /\ next # <<>>
        /\ Len(next) <= ReplayDepth
        /\ Len(next) <= cursor + 1
        /\ Follows(next, cursor + 1 - Len(next))
    BY <1>1, RememberKeepsWindow DEF RingInv
  <2>2. buffer' = next
    BY DEF Publish
  <2> HIDE DEF next
  <2>3. QED BY <1>1, <2>1, <2>2 DEF RingInv
<1>3. ASSUME NEW s \in Subs
      PROVE  queue'[s] \in Seq(Nat) /\ closeReason'[s] \in Reasons /\ SubInv(s)'
  <2>0. SubInv(s)
    BY DEF BusInv
  <2>1. /\ queue[s] \in Seq(Nat) /\ Len(queue[s]) \in Nat
        /\ lastSent[s] \in Nat /\ joinedAt[s] \in Nat /\ owed[s] \in Nat
        /\ closeReason[s] \in Reasons
    BY <1>1, SubTypes
  <2>2. /\ pc'[s] = pc[s] /\ lastSent'[s] = lastSent[s]
        /\ joinedAt'[s] = joinedAt[s] /\ owed'[s] = owed[s]
    BY DEF Publish
  <2>3. CASE s \in subscribers /\ HasRoom(s)
    <3>1. /\ queue'[s] = Append(queue[s], cursor + 1)
          /\ closeReason'[s] = closeReason[s]
          /\ s \in subscribers'
      BY <2>3 DEF Publish
    <3>2. cursor + 1 \in Nat /\ cursor + 1 = lastSent[s] + Len(queue[s]) + 1
      BY <1>1, <2>0, <2>1, <2>3 DEF SubInv, InLine
    <3>3. /\ queue'[s] \in Seq(Nat)
          /\ Len(queue'[s]) = Len(queue[s]) + 1
          /\ Follows(queue'[s], lastSent[s])
      BY <2>0, <2>1, <3>1, <3>2, AppendFollows DEF SubInv, InLine
    <3>4. closeReason[s] = "open" /\ pc[s] \in {"check", "get"}
      BY <2>0, <2>3 DEF SubInv, Flags
    <3>5. Headroom(s)'
      BY <1>1, <2>0, <2>1, <2>2, <2>3, <3>1, <3>3, <3>4, DepthAssumption
      DEF SubInv, Headroom
    <3>6. Flags(s)' /\ InLine(s)' /\ Settled(s)'
      BY <1>1, <2>1, <2>2, <3>1, <3>2, <3>3, <3>4 DEF Flags, InLine, Settled
    <3>7. QED BY <2>1, <3>1, <3>3, <3>5, <3>6 DEF SubInv
  <2>4. CASE s \in subscribers /\ ~HasRoom(s)
    <3>1. /\ queue'[s] = queue[s]
          /\ closeReason'[s] = "slow_consumer"
          /\ s \notin subscribers'
      BY <2>4 DEF Publish
    <3>2. pc[s] \in {"check", "get"}
      BY <2>0, <2>4 DEF SubInv, Flags
    <3>3. cursor - joinedAt[s] >= QueueMax - ReplayDepth
      BY <1>1, <2>0, <2>1, <2>4, DepthAssumption DEF SubInv, Headroom, HasRoom
    <3>4. Headroom(s)'
      BY <1>1, <2>0, <2>1, <2>2, <3>1, <3>3, DepthAssumption DEF SubInv, Headroom
    <3>5. Flags(s)' /\ InLine(s)' /\ Settled(s)'
      BY <2>0, <2>2, <3>1, <3>2 DEF SubInv, Flags, InLine, Settled
    <3>6. QED BY <2>1, <3>1, <3>4, <3>5 DEF SubInv, Reasons
  <2>5. CASE s \notin subscribers
    <3>1. /\ queue'[s] = queue[s]
          /\ closeReason'[s] = closeReason[s]
          /\ s \notin subscribers'
      BY <2>5 DEF Publish
    <3>2. Headroom(s)'
      BY <1>1, <2>0, <2>1, <2>2, <3>1, DepthAssumption DEF SubInv, Headroom
    <3>3. Flags(s)' /\ InLine(s)' /\ Settled(s)'
      BY <2>0, <2>2, <2>5, <3>1 DEF SubInv, Flags, InLine, Settled
    <3>4. QED BY <2>1, <3>1, <3>2, <3>3 DEF SubInv
  <2>6. QED BY <2>3, <2>4, <2>5
<1>4. TypeOK'
  <2>1. queue' \in [Subs -> Seq(Nat)] /\ closeReason' \in [Subs -> Reasons]
    BY <1>3 DEF Publish
  <2>2. QED BY <1>1, <1>2, <2>1 DEF TypeOK, Publish
<1>5. QED BY <1>2, <1>3, <1>4 DEF BusInv

\* subscribe(since) queues exactly what the client has not seen.
LEMMA SubscribeSinceKeepsInv ==
  ASSUME BusInv, NEW s \in Subs, NEW since \in Nat, SubscribeSince(s, since)
  PROVE  BusInv'
<1>1. TypeOK /\ RingInv /\ cursor \in Nat /\ cursor' = cursor /\ buffer' = buffer
  BY DEF BusInv, TypeOK, SubscribeSince, busVars
<1>2. RingInv'
  BY <1>1 DEF RingInv
<1>3. /\ Replay(since) \in Seq(Nat)
      /\ Len(Replay(since)) = cursor - since
      /\ Len(Replay(since)) <= ReplayDepth
      /\ Follows(Replay(since), since)
  BY <1>1, ReplayIsRest DEF SubscribeSince
<1>4. ASSUME NEW t \in Subs, t # s PROVE SubInv(t)'
  <2>1. SubInv(t)
    BY DEF BusInv
  <2>2. QED BY <1>1, <1>4, <2>1, UntouchedKeepsInv DEF SubscribeSince, TypeOK
<1>5. SubInv(s)'
  <2>1. /\ SubInv(s) /\ pc[s] = "none" /\ queue[s] = <<>> /\ s \notin subscribers
        /\ closeReason[s] = "open"
    BY DEF BusInv, SubscribeSince, SubInv, Flags
  <2>2. /\ pc'[s] = "check" /\ lastSent'[s] = since /\ owed'[s] = since
        /\ joinedAt'[s] = cursor
    BY <1>1 DEF SubscribeSince, TypeOK
  <2>3. CASE shuttingDown
    <3>1. closeReason'[s] = "shutdown" /\ queue'[s] = <<>> /\ s \notin subscribers'
      BY <1>1, <2>1, <2>3 DEF SubscribeSince, TypeOK
    <3>2. Len(<<>>) = 0 /\ Follows(<<>>, since)
      BY DEF Follows
    <3>3. QED BY <1>1, <2>2, <3>1, <3>2 DEF SubInv, Flags, InLine, Settled, Headroom
  <2>4. CASE ~shuttingDown
    <3>1. closeReason'[s] = "open" /\ queue'[s] = Replay(since)
      BY <1>1, <2>1, <2>4 DEF SubscribeSince, TypeOK
    <3>2. QED
      BY <1>1, <1>3, <2>2, <3>1, DepthAssumption
      DEF SubInv, Flags, InLine, Settled, Headroom
  <2>5. QED BY <2>3, <2>4
<1>6. TypeOK'
  BY <1>1, <1>3 DEF TypeOK, SubscribeSince, busVars, Reasons, Labels
<1>7. QED BY <1>2, <1>4, <1>5, <1>6 DEF BusInv

\* subscribe(None) starts at the current cursor with nothing owed.
LEMMA SubscribeLiveKeepsInv ==
  ASSUME BusInv, NEW s \in Subs, SubscribeLive(s)
  PROVE  BusInv'
<1>1. TypeOK /\ RingInv /\ cursor \in Nat /\ cursor' = cursor /\ buffer' = buffer
  BY DEF BusInv, TypeOK, SubscribeLive, busVars
<1>2. RingInv'
  BY <1>1 DEF RingInv
<1>3. ASSUME NEW t \in Subs, t # s PROVE SubInv(t)'
  <2>1. SubInv(t)
    BY DEF BusInv
  <2>2. QED BY <1>1, <1>3, <2>1, UntouchedKeepsInv DEF SubscribeLive, TypeOK
<1>4. SubInv(s)'
  <2>1. /\ queue'[s] = <<>> /\ s \notin subscribers /\ closeReason[s] = "open"
    BY DEF BusInv, SubscribeLive, SubInv, Flags
  <2>2. /\ pc'[s] = "check" /\ lastSent'[s] = cursor /\ owed'[s] = cursor
        /\ joinedAt'[s] = cursor
        /\ closeReason'[s] = IF shuttingDown THEN "shutdown" ELSE "open"
        /\ shuttingDown => s \notin subscribers'
    BY <1>1, <2>1 DEF SubscribeLive, TypeOK
  <2>3. Len(<<>>) = 0 /\ Follows(<<>>, cursor)
    BY DEF Follows
  <2>4. QED
    BY <1>1, <2>1, <2>2, <2>3, DepthAssumption
    DEF SubInv, Flags, InLine, Settled, Headroom
<1>5. TypeOK'
  BY <1>1 DEF TypeOK, SubscribeLive, busVars, Reasons, Labels
<1>6. QED BY <1>2, <1>3, <1>4, <1>5 DEF BusInv

\* shutdown closes the live streams when their queues reach the last event.
LEMMA ShutdownKeepsInv == BusInv /\ Shutdown => BusInv'
<1> SUFFICES ASSUME BusInv, Shutdown PROVE BusInv'
  OBVIOUS
<1>1. TypeOK /\ RingInv /\ cursor \in Nat /\ cursor' = cursor /\ buffer' = buffer
  BY DEF BusInv, TypeOK, Shutdown
<1>2. RingInv'
  BY <1>1 DEF RingInv
<1>3. ASSUME NEW s \in Subs PROVE SubInv(s)'
  <2>1. SubInv(s)
    BY DEF BusInv
  <2>2. /\ queue' = queue /\ pc' = pc /\ lastSent' = lastSent /\ joinedAt' = joinedAt
        /\ subscribers' = {}
        /\ closeReason'[s] = IF s \in subscribers THEN "shutdown" ELSE closeReason[s]
        /\ owed'[s] = IF s \in subscribers THEN cursor ELSE owed[s]
    BY DEF Shutdown
  <2>4. CASE s \in subscribers
    BY <1>1, <2>1, <2>2, <2>4 DEF SubInv, Flags, InLine, Settled, Headroom
  <2>5. CASE s \notin subscribers
    BY <1>1, <2>1, <2>2, <2>5 DEF SubInv, Flags, InLine, Settled, Headroom
  <2>6. QED BY <2>4, <2>5
<1>4. TypeOK'
  BY <1>1 DEF TypeOK, Shutdown, Reasons
<1>5. QED BY <1>2, <1>3, <1>4 DEF BusInv

\* remove keeps a subscription's share of the invariant: what it drops can only
\* be a live or a slow subscription, or one whose stream was drained.
LEMMA RemoveKeepsSub ==
  ASSUME TypeOK, NEW s \in Subs, SubInv(s), Remove(s),
         cursor' = cursor, queue'[s] = queue[s], lastSent'[s] = lastSent[s],
         joinedAt'[s] = joinedAt[s], owed'[s] = owed[s],
         \/ pc'[s] = "gone"
         \/ pc'[s] = "done" /\ (closeReason[s] = "shutdown" => queue[s] = <<>>)
  PROVE  SubInv(s)'
<1>1. s \notin subscribers'
  BY DEF Remove
<1>2. closeReason'[s] = IF closeReason[s] = "open" THEN "removed" ELSE closeReason[s]
  BY DEF Remove, TypeOK
<1>3. QED BY <1>1, <1>2 DEF SubInv, Flags, InLine, Settled, Headroom

\* Taking one frame off the queue keeps a subscription's share.
LEMMA SendKeepsSub ==
  ASSUME TypeOK, NEW s \in Subs, SubInv(s), Send(s),
         cursor' = cursor, subscribers' = subscribers,
         closeReason'[s] = closeReason[s],
         joinedAt'[s] = joinedAt[s], owed'[s] = owed[s],
         \/ pc[s] = "get" /\ pc'[s] = "check"
         \/ pc[s] = "drain" /\ pc'[s] = "drain"
  PROVE  SubInv(s)' /\ lastSent'[s] = lastSent[s] + 1
<1>1. /\ queue[s] \in Seq(Nat) /\ queue[s] # <<>> /\ lastSent[s] \in Int
      /\ Follows(queue[s], lastSent[s])
  BY SubTypes DEF Send, SubInv, InLine, TypeOK
<1>2. /\ Len(queue[s]) \in Nat \ {0}
      /\ Len(Tail(queue[s])) = Len(queue[s]) - 1
      /\ Head(queue[s]) = lastSent[s] + 1
      /\ Follows(Tail(queue[s]), lastSent[s] + 1)
  BY <1>1, TailFollows
<1>3. queue'[s] = Tail(queue[s]) /\ lastSent'[s] = lastSent[s] + 1
  BY <1>2 DEF Send, TypeOK
<1>4. /\ lastSent[s] \in Nat /\ joinedAt[s] \in Nat /\ owed[s] \in Nat /\ cursor \in Nat
  BY SubTypes
<1>5. InLine(s)'
  BY <1>2, <1>3, <1>4 DEF SubInv, InLine
<1>6. Flags(s)' /\ Settled(s)'
  BY <1>2, <1>3, <1>4 DEF SubInv, Flags, Settled
<1>7. Headroom(s)'
  BY <1>2, <1>3, <1>4, DepthAssumption DEF SubInv, Headroom
<1>8. QED BY <1>3, <1>5, <1>6, <1>7 DEF SubInv

\* Send and Remove keep the types.
LEMMA SendRemoveTypes ==
  ASSUME TypeOK, NEW s \in Subs
  PROVE  /\ Remove(s) => /\ subscribers' \in SUBSET Subs
                         /\ closeReason' \in [Subs -> Reasons]
         /\ Send(s) => /\ lastSent' \in [Subs -> Nat]
                       /\ queue' \in [Subs -> Seq(Nat)]
<1>1. Remove(s) => subscribers' \in SUBSET Subs /\ closeReason' \in [Subs -> Reasons]
  BY DEF TypeOK, Remove, Reasons
<1>2. ASSUME Send(s) PROVE lastSent' \in [Subs -> Nat] /\ queue' \in [Subs -> Seq(Nat)]
  <2>1. queue[s] \in Seq(Nat) /\ queue[s] # <<>>
    BY <1>2 DEF TypeOK, Send
  <2>2. Head(queue[s]) \in Nat /\ Tail(queue[s]) \in Seq(Nat)
    BY <2>1
  <2>3. QED BY <1>2, <2>2 DEF TypeOK, Send
<1>3. QED BY <1>1, <1>2

\* The stream handler's own steps, and a client that hangs up, keep the
\* invariant; each moves only its own subscription.
LEMMA HandlerKeepsInv ==
  ASSUME BusInv, NEW s \in Subs, Handler(s) \/ Disconnect(s)
  PROVE  BusInv'
<1>1. TypeOK /\ RingInv /\ SubInv(s)
  BY DEF BusInv
<1>2. /\ cursor' = cursor /\ buffer' = buffer /\ shuttingDown' = shuttingDown
      /\ joinedAt' = joinedAt /\ owed' = owed
  BY DEF Handler, Check, Get, Drain, Disconnect, busVars
<1>3. RingInv'
  BY <1>1, <1>2 DEF RingInv
<1>4. ASSUME NEW t \in Subs, t # s PROVE SubInv(t)'
  <2>1. SubInv(t)
    BY DEF BusInv
  <2>2. /\ pc'[t] = pc[t] /\ closeReason'[t] = closeReason[t]
        /\ (t \in subscribers') <=> (t \in subscribers)
        /\ queue'[t] = queue[t] /\ lastSent'[t] = lastSent[t]
    BY <1>1, <1>4 DEF Handler, Check, Get, Drain, Disconnect, Send, Remove, TypeOK
  <2>3. QED BY <1>2, <2>1, <2>2, UntouchedKeepsInv
<1>5. /\ SubInv(s)'
      /\ TypeOK'
  <2>1. CASE Check(s)
    <3>1. queue' = queue /\ lastSent' = lastSent
      BY <2>1 DEF Check
    <3>2. CASE closeReason[s] \notin {"open", "shutdown"}
      <4>1. Remove(s) /\ pc' = [pc EXCEPT ![s] = "done"]
        BY <2>1, <3>2 DEF Check
      <4>2. SubInv(s)'
        BY <1>1, <1>2, <3>1, <3>2, <4>1, RemoveKeepsSub DEF TypeOK
      <4>3. TypeOK'
        BY <1>1, <1>2, <3>1, <4>1, SendRemoveTypes DEF TypeOK, Labels
      <4>4. QED BY <4>2, <4>3
    <3>3. CASE closeReason[s] \in {"open", "shutdown"}
      <4>1. /\ subscribers' = subscribers /\ closeReason' = closeReason
            /\ pc[s] = "check"
            /\ pc' = [pc EXCEPT ![s] = IF closeReason[s] = "open" THEN "get" ELSE "drain"]
        BY <2>1, <3>3 DEF Check
      <4>2. SubInv(s)'
        BY <1>1, <1>2, <3>1, <3>3, <4>1
        DEF TypeOK, SubInv, Flags, InLine, Settled, Headroom
      <4>3. TypeOK'
        BY <1>1, <1>2, <3>1, <4>1 DEF TypeOK, Labels
      <4>4. QED BY <4>2, <4>3
    <3>4. QED BY <3>2, <3>3
  <2>2. CASE Get(s)
    <3>1. /\ pc[s] = "get" /\ pc' = [pc EXCEPT ![s] = "check"]
          /\ subscribers' = subscribers /\ closeReason' = closeReason
      BY <2>2 DEF Get
    <3>2. CASE Send(s)
      <4>1. SubInv(s)'
        BY <1>1, <1>2, <3>1, <3>2, SendKeepsSub DEF TypeOK
      <4>2. TypeOK'
        BY <1>1, <1>2, <3>1, <3>2, SendRemoveTypes DEF TypeOK, Labels
      <4>3. QED BY <4>1, <4>2
    <3>3. CASE ~Send(s)
      <4>1. queue' = queue /\ lastSent' = lastSent
        BY <2>2, <3>3 DEF Get
      <4>2. SubInv(s)'
        BY <1>1, <1>2, <3>1, <4>1 DEF TypeOK, SubInv, Flags, InLine, Settled, Headroom
      <4>3. TypeOK'
        BY <1>1, <1>2, <3>1, <4>1 DEF TypeOK, Labels
      <4>4. QED BY <4>2, <4>3
    <3>4. QED BY <3>2, <3>3
  <2>3. CASE Drain(s)
    <3>1. pc[s] = "drain"
      BY <2>3 DEF Drain
    <3>2. CASE queue[s] # <<>>
      <4>1. Send(s) /\ pc' = pc /\ subscribers' = subscribers /\ closeReason' = closeReason
        BY <2>3, <3>2 DEF Drain
      <4>2. SubInv(s)'
        BY <1>1, <1>2, <3>1, <4>1, SendKeepsSub
      <4>3. TypeOK'
        BY <1>1, <1>2, <4>1, SendRemoveTypes DEF TypeOK
      <4>4. QED BY <4>2, <4>3
    <3>3. CASE queue[s] = <<>>
      <4>1. /\ Remove(s) /\ pc' = [pc EXCEPT ![s] = "done"]
            /\ queue' = queue /\ lastSent' = lastSent
        BY <2>3, <3>3 DEF Drain, Send
      <4>2. SubInv(s)'
        BY <1>1, <1>2, <3>3, <4>1, RemoveKeepsSub DEF TypeOK
      <4>3. TypeOK'
        BY <1>1, <1>2, <4>1, SendRemoveTypes DEF TypeOK, Labels
      <4>4. QED BY <4>2, <4>3
    <3>4. QED BY <3>2, <3>3
  <2>4. CASE Disconnect(s)
    <3>1. /\ Remove(s) /\ pc' = [pc EXCEPT ![s] = "gone"]
          /\ queue' = queue /\ lastSent' = lastSent
      BY <2>4 DEF Disconnect
    <3>2. SubInv(s)'
      BY <1>1, <1>2, <3>1, RemoveKeepsSub DEF TypeOK
    <3>3. TypeOK'
      BY <1>1, <1>2, <3>1, SendRemoveTypes DEF TypeOK, Labels
    <3>4. QED BY <3>2, <3>3
  <2>5. QED BY <2>1, <2>2, <2>3, <2>4 DEF Handler
<1>6. QED BY <1>3, <1>4, <1>5 DEF BusInv

-----------------------------------------------------------------------------
(* The theorems.                                                           *)

\* The inductive invariant holds in every reachable state: the types, the
\* ring's window of stamps, and for each subscription the flags, the queue's
\* place in line, the debt of a shutdown and the headroom of a replay.
THEOREM BusSafe == Spec => []BusInv
<1>1. Init => BusInv
  BY BusInvInit
<1>2. BusInv /\ [Next]_vars => BusInv'
  <2> SUFFICES ASSUME BusInv, [Next]_vars PROVE BusInv'
    OBVIOUS
  <2>1. CASE Publish
    BY <2>1, PublishKeepsInv
  <2>2. CASE Shutdown
    BY <2>2, ShutdownKeepsInv
  <2>3. ASSUME NEW s \in Subs, Subscribe(s) PROVE BusInv'
    <3>1. CASE SubscribeLive(s)
      BY <3>1, SubscribeLiveKeepsInv
    <3>2. ASSUME NEW since \in 0..MaxCursor, SubscribeSince(s, since) PROVE BusInv'
      <4>1. since \in Nat
        OBVIOUS
      <4>2. QED BY <3>2, <4>1, SubscribeSinceKeepsInv
    <3>3. QED BY <2>3, <3>1, <3>2 DEF Subscribe
  <2>4. ASSUME NEW s \in Subs, Handler(s) \/ Disconnect(s) PROVE BusInv'
    BY <2>4, HandlerKeepsInv
  <2>5. CASE UNCHANGED vars
    BY <2>5 DEF vars, BusInv, TypeOK, RingInv, SubInv, Flags, InLine, Settled, Headroom
  <2>6. QED BY <2>1, <2>2, <2>3, <2>4, <2>5 DEF Next
<1>3. QED BY <1>1, <1>2, PTL DEF Spec

\* Cursor, ring, queues and handlers keep their types, for any number of
\* clients that subscribe, fall behind, are closed or disconnect.
THEOREM TypeSafe == Spec => []TypeOK
<1>1. BusInv => TypeOK
  BY DEF BusInv
<1> QED BY <1>1, BusSafe, PTL

\* A client's queue holds, in order and without a hole, exactly what comes next
\* for it (subscribe's replay, publish and the handler's get, interleaved).
THEOREM QueueSafe == Spec => []QueueIsNextInLine
<1>1. BusInv => QueueIsNextInLine
  BY DEF BusInv, SubInv, InLine, Follows, QueueIsNextInLine
<1>2. QED BY <1>1, BusSafe, PTL

\* No replay, at whatever depth the module-level assert allows, closes its own
\* subscriber as slow.
THEOREM HeadroomSafe == Spec => []ReplayLeavesHeadroom
<1>1. BusInv => ReplayLeavesHeadroom
  BY DEF BusInv, SubInv, Headroom, ReplayLeavesHeadroom
<1>2. QED BY <1>1, BusSafe, PTL

\* A stream that ends because of the shutdown has sent all it owed: the final
\* recording_finalized reaches every client that did not hang up.
THEOREM ShutdownSafe == Spec => []ShutdownLosesNothing
<1>1. BusInv => ShutdownLosesNothing
  <2> SUFFICES ASSUME BusInv, NEW s \in Subs, pc[s] = "done", closeReason[s] = "shutdown"
               PROVE  lastSent[s] = owed[s]
    BY DEF ShutdownLosesNothing
  <2>1. lastSent[s] + Len(queue[s]) = owed[s] /\ queue[s] = <<>>
    BY DEF BusInv, SubInv, Settled
  <2>2. lastSent[s] \in Nat /\ Len(<<>>) = 0
    BY DEF BusInv, TypeOK
  <2>3. QED BY <2>1, <2>2
<1>2. QED BY <1>1, BusSafe, PTL

\* No client is ever sent an event twice or past a hole: each frame carries the
\* cursor that follows the previous frame's.
THEOREM CursorSafe == Spec => ClientSeesEveryCursor
<1> DEFINE NextFrame == \A s \in Subs :
             pc[s] # "none" /\ lastSent'[s] # lastSent[s]
               => lastSent'[s] = lastSent[s] + 1
<1>1. BusInv /\ [Next]_vars => NextFrame
  <2> SUFFICES ASSUME BusInv, Next, NEW s \in Subs,
                      pc[s] # "none", lastSent'[s] # lastSent[s]
               PROVE  lastSent'[s] = lastSent[s] + 1
    BY DEF vars
  <2>1. TypeOK
    BY DEF BusInv
  <2>2. Send(s)
    BY <2>1 DEF Next, Publish, Shutdown, Subscribe, SubscribeLive, SubscribeSince,
       Handler, Check, Get, Drain, Disconnect, Send, TypeOK
  <2>3. queue[s] \in Seq(Nat) /\ lastSent[s] \in Int /\ Follows(queue[s], lastSent[s])
    BY <2>1 DEF BusInv, SubInv, InLine, TypeOK
  <2>4. Head(queue[s]) = lastSent[s] + 1
    BY <2>2, <2>3, TailFollows DEF Send
  <2>5. QED BY <2>1, <2>2, <2>4 DEF Send, TypeOK
<1>2. QED BY <1>1, BusSafe, PTL DEF ClientSeesEveryCursor, Spec
=============================================================================
