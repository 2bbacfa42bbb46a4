-------------------------- MODULE LogStreamProofs ---------------------------
(***************************************************************************)
(* The theorems about LogStream, for any number of tasks that log, any     *)
(* size of the ring, of the replay and of the queue.                       *)
(*                                                                         *)
(* RingInv says where in the ring a line is, counted back from the last    *)
(* one, and Pending where a line is that a client has not been sent yet:   *)
(* in the queue, or in the hands of a task that is about to broadcast it.  *)
(***************************************************************************)
EXTENDS LogStream, SequenceTheorems, TLAPS

\* An index into the ring that has wrapped at most once.
LEMMA RingIndex ==
  ASSUME NEW L \in Nat \ {0}, NEW a \in 0..(2 * L - 1)
  PROVE  a % L = IF a < L THEN a ELSE a - L
  <1>1. CASE a < L
    BY <1>1, SMT
  <1>2. CASE ~(a < L)
    BY <1>2, SMT
  <1> QED
    BY <1>1, <1>2

-----------------------------------------------------------------------------
(* Types, and who holds the mutex *)

Workers == {"none", "visit", "copied", "live", "leaving"}

TypeInv ==
    /\ head \in 0..(Lines - 1) /\ seq \in Nat
    /\ buf \in [0..(Lines - 1) -> Nat \cup {NoLine}]
    /\ logging \in [Tasks -> Nat \cup {NoLine}]
    /\ queue \in Seq(Nat) /\ clients \in Nat /\ worker \in Workers
    /\ mutex => worker = "copied"
    /\ \A n \in told : n \in Nat /\ n < seq

LEMMA InitTyped == Init => TypeInv
  <1> SUFFICES ASSUME Init PROVE TypeInv
    OBVIOUS
  <1>1. head \in 0..(Lines - 1) /\ seq \in Nat /\ clients \in Nat
    BY LogConstants DEF Init
  <1>2. buf \in [0..(Lines - 1) -> Nat \cup {NoLine}]
        /\ logging \in [Tasks -> Nat \cup {NoLine}] /\ queue \in Seq(Nat)
    BY DEF Init
  <1> QED
    BY <1>1, <1>2 DEF Init, TypeInv, Workers

\* What the next number to log does to the ring: the slot after the last one is
\* the first one.
LEMMA HeadMoves ==
  ASSUME TypeInv
  PROVE  /\ (head + 1) % Lines \in 0..(Lines - 1)
         /\ (head + 1) % Lines = IF head + 1 = Lines THEN 0 ELSE head + 1
  <1>1. Lines \in Nat \ {0} /\ head \in 0..(Lines - 1)
    BY LogConstants DEF TypeInv
  <1> DEFINE a == head + 1
  <1>2. a \in 0..(2 * Lines - 1)
    BY <1>1
  <1>3. a % Lines = IF a < Lines THEN a ELSE a - Lines
    <2> HIDE DEF a
    <2> QED
      BY <1>1, <1>2, RingIndex
  <1>4. CASE head + 1 = Lines
    BY <1>1, <1>3, <1>4
  <1>5. CASE head + 1 # Lines
    BY <1>1, <1>3, <1>5
  <1> QED
    BY <1>4, <1>5

\* While the mutex is held the slot is taken, so that no client comes between.
LEMMA StepTyped == TypeInv /\ SlotIsAWorker /\ [Next]_vars => TypeInv'
  <1> SUFFICES ASSUME TypeInv, SlotIsAWorker, [Next]_vars PROVE TypeInv'
    OBVIOUS
  <1> USE DEF TypeInv, Workers, ringVars, streamVars
  <1>1. ASSUME NEW t \in Tasks, Write(t)
        PROVE  TypeInv'
    <2>1. head' \in 0..(Lines - 1)
      BY <1>1, HeadMoves DEF Write
    <2>2. buf' \in [0..(Lines - 1) -> Nat \cup {NoLine}] /\ seq' = seq + 1
      BY <1>1 DEF Write
    <2>3. logging' \in [Tasks -> Nat \cup {NoLine}]
      BY <1>1 DEF Write
    <2>4. \A n \in told' : n \in Nat /\ n < seq + 1
      BY <1>1 DEF Write
    <2> QED
      BY <1>1, <2>1, <2>2, <2>3, <2>4 DEF Write
  <1>2. ASSUME NEW t \in Tasks, Broadcast(t)
        PROVE  TypeInv'
    <2>1. logging[t] \in Nat
      BY <1>2 DEF Broadcast
    <2>2. queue' \in Seq(Nat)
      <3>1. Append(queue, logging[t]) \in Seq(Nat)
        BY <2>1, AppendProperties
      <3> QED
        BY <1>2, <3>1 DEF Broadcast
    <2>3. logging' \in [Tasks -> Nat \cup {NoLine}]
      BY <1>2 DEF Broadcast
    <2> QED
      BY <1>2, <2>2, <2>3 DEF Broadcast
  <1>3. CASE Open
    <2>1. /\ UNCHANGED <<ringVars, logging, queue, mutex, told>>
          /\ clients' \in Nat /\ worker' \in Workers
      BY <1>3 DEF Open, Reject
    <2>2. ~mutex
      BY <1>3 DEF Open, SlotIsAWorker
    <2> QED
      BY <2>1, <2>2
  <1>4. CASE Copy \/ CopyFails \/ Release \/ Replay \/ Leave
    <2>1. UNCHANGED <<ringVars, logging, queue, clients, told>>
      BY <1>4 DEF Copy, CopyFails, Release, Replay, Leave
    <2>2. worker' \in Workers /\ (mutex' => worker' = "copied")
      BY <1>4 DEF Copy, CopyFails, Release, Replay, Leave, SendTo
    <2> QED
      BY <2>1, <2>2
  <1>5. CASE Follow
    BY <1>5, HeadTailProperties DEF Follow, SendTo
  <1>6. CASE ClientGoes \/ UNCHANGED vars
    BY <1>6 DEF ClientGoes, vars
  <1> QED
    BY <1>1, <1>2, <1>3, <1>4, <1>5, <1>6 DEF Next, Worker

-----------------------------------------------------------------------------
(* The slot of the stream *)

LEMMA StepKeepsSlot == TypeInv /\ SlotIsAWorker /\ [Next]_vars => SlotIsAWorker'
  <1> SUFFICES ASSUME TypeInv, SlotIsAWorker, [Next]_vars PROVE SlotIsAWorker'
    OBVIOUS
  <1> USE DEF SlotIsAWorker, streamVars
  <1>1. CASE Open
    <2>1. clients' \in Nat
      BY <1>1 DEF Open, TypeInv
    <2> QED
      BY <1>1, <2>1 DEF Open, Reject
  <1>2. CASE Worker
    BY <1>2 DEF Worker, Copy, CopyFails, Release, Replay, Follow, Leave, SendTo
  <1>3. CASE UNCHANGED <<fd, worker>>
    BY <1>3
  <1>4. Open \/ Worker \/ UNCHANGED <<fd, worker>>
    BY DEF Next, Write, Broadcast, ClientGoes, vars
  <1> QED
    BY <1>1, <1>2, <1>3, <1>4

\* The slot for a stream is taken exactly as long as there is a worker.
THEOREM SlotHasAWorker == Spec => []SlotIsAWorker
  <1>1. Init => SlotIsAWorker
    BY DEF Init, SlotIsAWorker
  <1> QED
    BY InitTyped, StepTyped, StepKeepsSlot, <1>1, PTL DEF Spec

-----------------------------------------------------------------------------
(* The replay *)

\* The slot of the line k places back from the next one.
Slot(k) == IF k <= head THEN head - k ELSE head + Lines - k

\* The last lines are in the ring, each at its slot; before it has filled the
\* ring begins at its first slot.
RingInv ==
    /\ seq < Lines => head = seq
    /\ \A k \in 1..Lines : k <= seq => buf[Slot(k)] = seq - k

LEMMA RingInit == Init => RingInv
  BY LogConstants DEF Init, RingInv

LEMMA WriteKeepsRing ==
  ASSUME TypeInv, RingInv, NEW t \in Tasks, Write(t)
  PROVE  RingInv'
  <1> USE DEF TypeInv
  <1>1. /\ Lines \in Nat /\ Lines > 0
        /\ seq' = seq + 1 /\ buf' = [buf EXCEPT ![head] = seq]
        /\ head' = IF head + 1 = Lines THEN 0 ELSE head + 1
    BY HeadMoves, LogConstants DEF Write
  <1>2. seq' < Lines => head' = seq'
    BY <1>1 DEF RingInv
  <1>3. ASSUME NEW k \in 1..Lines, k <= seq'
        PROVE  buf'[Slot(k)'] = seq' - k
    <2>1. CASE k = 1
      BY <1>1, <2>1 DEF Slot
    <2>2. CASE k # 1
      <3>1. k - 1 \in 1..Lines /\ k - 1 <= seq
        BY <1>1, <1>3, <2>2
      <3>2. Slot(k)' = Slot(k - 1) /\ Slot(k - 1) # head
            /\ Slot(k - 1) \in 0..(Lines - 1)
        BY <1>1, <2>2, <3>1 DEF Slot
      <3>3. buf[Slot(k - 1)] = seq - (k - 1)
        BY <3>1 DEF RingInv
      <3> QED
        BY <1>1, <3>2, <3>3
    <2> QED
      BY <2>1, <2>2
  <1> QED
    BY <1>2, <1>3 DEF RingInv

\* The copy that is replayed.
LEMMA RecentIsTheTail ==
  ASSUME TypeInv, RingInv
  PROVE  /\ Recent \in Seq(Nat) /\ Len(Recent) = Count - Skipped
         /\ \A i \in 1..(Count - Skipped) :
               Recent[i] = seq - (Count - Skipped) + i - 1
  <1> USE DEF TypeInv
  <1>1. /\ Lines \in Nat /\ Lines > 0 /\ Count \in Nat /\ Count <= Lines
        /\ Count <= seq /\ Skipped \in 0..Count
    BY LogConstants DEF Count, Skipped
  <1>2. ASSUME NEW i \in 1..(Count - Skipped)
        PROVE  Recent[i] \in Nat /\ Recent[i] = seq - (Count - Skipped) + i - 1
    <2> DEFINE k == Count - Skipped - i + 1
               a == Oldest + Skipped + i - 1
    <2>1. k \in 1..Lines /\ k <= seq
      BY <1>1
    <2>2. Lines \in Nat \ {0} /\ a \in 0..(2 * Lines - 1)
      BY <1>1 DEF Oldest
    <2>3. a % Lines = IF a < Lines THEN a ELSE a - Lines
      <3> HIDE DEF a
      <3> QED
        BY <2>2, RingIndex
    <2>4. a % Lines = Slot(k)
      <3>1. CASE seq < Lines
        BY <1>1, <2>3, <3>1 DEF Oldest, Count, Slot, RingInv
      <3>2. CASE ~(seq < Lines)
        BY <1>1, <2>3, <3>2 DEF Oldest, Count, Slot
      <3> QED
        BY <3>1, <3>2
    <2>5. Recent[i] = buf[Slot(k)]
      BY <2>4 DEF Recent
    <2>6. buf[Slot(k)] = seq - k
      BY <2>1 DEF RingInv
    <2> QED
      BY <1>1, <2>1, <2>5, <2>6
  <1>3. Recent = [i \in 1..(Count - Skipped) |-> Recent[i]]
    BY DEF Recent
  <1>4. Recent \in Seq(Nat) /\ Len(Recent) = Count - Skipped
    <2>1. Count - Skipped \in Nat
      BY <1>1
    <2>2. Recent \in [1..(Count - Skipped) -> Nat]
      BY <1>2, <1>3
    <2> HIDE DEF TypeInv
    <2> QED
      BY <2>1, <2>2
  <1> QED
    BY <1>2, <1>4

LEMMA StepKeepsReplay ==
  TypeInv /\ RingInv /\ ReplayIsTheTail /\ [Next]_vars
     => RingInv' /\ ReplayIsTheTail'
  <1> SUFFICES ASSUME TypeInv, RingInv, ReplayIsTheTail, [Next]_vars
               PROVE  RingInv' /\ ReplayIsTheTail'
    OBVIOUS
  <1>1. ASSUME NEW t \in Tasks, Write(t)
        PROVE  RingInv' /\ ReplayIsTheTail'
    BY <1>1, WriteKeepsRing DEF Write, ReplayIsTheTail
  <1>2. ASSUME UNCHANGED ringVars
        PROVE  RingInv'
    BY <1>2 DEF ringVars, RingInv, Slot
  <1>3. CASE Copy
    <2>1. UNCHANGED ringVars /\ snap' = Recent
      BY <1>3 DEF Copy
    <2>2. (Count - Skipped)' = Count - Skipped
      BY <2>1 DEF ringVars, Count, Skipped
    <2>3. Count - Skipped \in Nat
      BY LogConstants DEF TypeInv, Count, Skipped
    <2>4. DOMAIN snap' = 1..(Count - Skipped) /\ Len(snap') = Count - Skipped
      BY <2>1, <2>3, RecentIsTheTail
    <2>5. ReplayIsTheTail'
      BY <2>1, <2>2, <2>4, RecentIsTheTail DEF ReplayIsTheTail, ringVars
    <2> QED
      BY <1>2, <2>1, <2>5
  <1>4. CASE UNCHANGED <<ringVars, snap>> /\ (mutex' => mutex /\ worker = "copied")
    BY <1>2, <1>4 DEF ReplayIsTheTail, ringVars, Count, Skipped
  <1>5. CASE UNCHANGED ringVars /\ mutex' = FALSE
    BY <1>2, <1>5 DEF ReplayIsTheTail
  <1>6. \/ \E t \in Tasks : Write(t)
        \/ Copy
        \/ UNCHANGED <<ringVars, snap>> /\ (mutex' => mutex /\ worker = "copied")
        \/ UNCHANGED ringVars /\ mutex' = FALSE
    BY DEF Next, Worker, Broadcast, Open, CopyFails, Release, Replay, Follow, Leave,
       ClientGoes, vars, streamVars, TypeInv
  <1> QED
    BY <1>1, <1>3, <1>4, <1>5, <1>6

\* A stream replays the end of the log, in order and without a gap, wherever
\* the ring has wrapped and however little of it is asked for.
THEOREM ReplayIsTheEnd == Spec => []ReplayIsTheTail
  <1>1. Init => ReplayIsTheTail
    BY DEF Init, ReplayIsTheTail
  <1> QED
    BY InitTyped, StepTyped, SlotHasAWorker, RingInit, StepKeepsReplay, <1>1, PTL
       DEF Spec

-----------------------------------------------------------------------------
(* The hand-over *)

\* A line that a client is still owed is in the queue, or with a task that is
\* about to broadcast it.
Pending(n) ==
    \/ \E i \in DOMAIN queue : queue[i] = n
    \/ \E t \in Tasks : logging[t] = n

HandOver ==
    worker \in {"visit", "copied", "live"} /\ ~overrun =>
        \A n \in told : n >= since => n \in shown \/ Pending(n)

LEMMA StepKeepsHandOver ==
  ASSUME TypeInv, SlotIsAWorker, HandOver, [Next]_vars
  PROVE  HandOver'
  <1> USE DEF TypeInv
  <1>1. ASSUME NEW t \in Tasks, Write(t)
        PROVE  HandOver'
    <2>1. UNCHANGED <<queue, worker, overrun, shown, since>> /\ logging[t] = NoLine
      BY <1>1 DEF Write, streamVars
    <2>2. ASSUME NEW n \in told, Pending(n) PROVE Pending(n)'
      <3>1. ASSUME NEW u \in Tasks, logging[u] = n PROVE logging'[u] = n
        BY <1>1, <2>1, <2>2, <3>1, LogConstants DEF Write
      <3> QED
        BY <2>1, <2>2, <3>1 DEF Pending
    <2>3. ASSUME NEW n \in told', n \notin told PROVE Pending(n)'
      BY <1>1, <2>3 DEF Write, Pending
    <2> QED
      BY <2>1, <2>2, <2>3 DEF HandOver
  <1>2. ASSUME NEW t \in Tasks, Broadcast(t)
        PROVE  HandOver'
    <2>1. UNCHANGED <<worker, shown, since, told>> /\ logging[t] \in Nat
      BY <1>2 DEF Broadcast, streamVars
    <2>2. CASE fd # -1 /\ Len(queue) < QueueMax
      <3>1. queue' = Append(queue, logging[t]) /\ UNCHANGED overrun
        BY <1>2, <2>2 DEF Broadcast
      <3>2. queue'[Len(queue) + 1] = logging[t] /\ Len(queue) + 1 \in DOMAIN queue'
            /\ \A i \in DOMAIN queue : i \in DOMAIN queue' /\ queue'[i] = queue[i]
        BY <2>1, <3>1, AppendProperties
      <3>3. ASSUME NEW n, Pending(n) PROVE Pending(n)'
        <4>1. ASSUME NEW u \in Tasks, u # t PROVE logging'[u] = logging[u]
          BY <1>2, <4>1 DEF Broadcast
        <4> QED
          BY <3>2, <3>3, <4>1 DEF Pending
      <3> QED
        BY <2>1, <3>1, <3>3 DEF HandOver
    <2>3. CASE ~(fd # -1 /\ Len(queue) < QueueMax)
      <3>1. overrun' = (overrun \/ fd # -1)
        BY <1>2, <2>3 DEF Broadcast
      <3> QED
        BY <2>1, <3>1 DEF HandOver, SlotIsAWorker
    <2> QED
      BY <2>2, <2>3
  <1>3. CASE Open
    <2>1. CASE since' = seq /\ UNCHANGED told
      BY <2>1 DEF HandOver
    <2>2. CASE Reject /\ fd = -1 /\ UNCHANGED told
      BY <2>2 DEF Reject, HandOver, SlotIsAWorker
    <2> QED
      BY <1>3, <2>1, <2>2 DEF Open
  <1>4. CASE Copy \/ CopyFails \/ Release \/ Replay \/ Leave
    <2>1. UNCHANGED <<queue, logging, told, since, overrun>>
          /\ (worker' \in {"visit", "copied", "live"} =>
                worker \in {"visit", "copied", "live"} /\ shown \subseteq shown')
      BY <1>4 DEF Copy, CopyFails, Release, Replay, Leave, SendTo, streamVars
    <2> QED
      BY <2>1 DEF HandOver, Pending
  <1>5. CASE Follow
    <2>1. UNCHANGED <<logging, told, since, overrun>> /\ worker = "live"
      BY <1>5 DEF Follow
    <2>2. ASSUME worker' = "live"
          PROVE  queue # << >> /\ queue' = Tail(queue)
                 /\ shown' = shown \cup {Head(queue)}
      BY <1>5, <2>2 DEF Follow, SendTo
    <2>3. ASSUME worker' = "live", NEW n, Pending(n) PROVE Pending(n)' \/ n \in shown'
      <3>1. ASSUME NEW i \in DOMAIN queue, queue[i] = n
            PROVE  n \in shown' \/ \E j \in DOMAIN queue' : queue'[j] = n
        <4>1. CASE i = 1
          BY <2>2, <2>3, <3>1, <4>1
        <4>2. CASE i # 1
          <5>1. i - 1 \in DOMAIN queue' /\ queue'[i - 1] = n
            BY <2>2, <2>3, <3>1, <4>2, HeadTailProperties
          <5> QED
            BY <5>1
        <4> QED
          BY <4>1, <4>2
      <3> QED
        BY <2>1, <2>3, <3>1 DEF Pending
    <2>4. worker' \in {"live", "leaving"}
      BY <1>5 DEF Follow, SendTo
    <2> QED
      BY <2>1, <2>2, <2>3, <2>4 DEF HandOver
  <1>6. CASE ClientGoes \/ UNCHANGED vars
    BY <1>6 DEF ClientGoes, vars, streamVars, HandOver, Pending
  <1> QED
    BY <1>1, <1>2, <1>3, <1>4, <1>5, <1>6 DEF Next, Worker

\* The hand-over from the replay to the queue has no gap: with an empty queue
\* and nobody about to broadcast, a client was sent every line since it came,
\* unless one found the queue full.
THEOREM NothingIsMissed == Spec => []NoLineIsMissed
  <1>1. Init => SlotIsAWorker /\ HandOver
    BY DEF Init, SlotIsAWorker, HandOver
  <1>2. TypeInv /\ HandOver => NoLineIsMissed
    BY LogConstants DEF TypeInv, HandOver, Pending, NoLineIsMissed
  <1> QED
    BY InitTyped, StepTyped, StepKeepsSlot, StepKeepsHandOver, <1>1, <1>2, PTL
       DEF Spec
=============================================================================
