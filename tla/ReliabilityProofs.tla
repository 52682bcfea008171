-------------------------- MODULE ReliabilityProofs --------------------------
(***************************************************************************)
(* Proofs about the two guards in front of a provider: the bulkhead, for   *)
(* any number of calls and any limits, and the circuit breaker, for any    *)
(* number of overlapping calls, any window and any thresholds.             *)
(***************************************************************************)
EXTENDS Bulkhead, CircuitBreaker, FiniteSetTheorems, SequenceTheorems, TLAPS

-----------------------------------------------------------------------------
(* The bulkhead.                                                           *)

Finite == IsFiniteSet(RunningCalls) /\ IsFiniteSet(WokenCalls)

BulkheadInv == BulkheadTypeOK /\ Finite /\ NoSlotLost

\* The queue holds the calls that came last, in the order they came; each
\* call comes to wait at most once.
QueueIsLatest ==
    /\ \A i \in DOMAIN arrivals : status[arrivals[i]] # "new"
    /\ \A i, j \in DOMAIN arrivals : arrivals[i] = arrivals[j] => i = j
    /\ Len(queue) <= Len(arrivals)
    /\ \A i \in DOMAIN queue :
          queue[i] = arrivals[Len(arrivals) - Len(queue) + i]

-----------------------------------------------------------------------------
(* How a step moves calls between the statuses.                            *)

\* One call changes its status.
LEMMA OneMoves ==
    ASSUME status \in [Executions -> Statuses],
           NEW c \in Executions, NEW s \in Statuses,
           SetStatus(c, s)
    PROVE  /\ status' \in [Executions -> Statuses]
           /\ RunningCalls' = IF s = "running" THEN RunningCalls \cup {c}
                                               ELSE RunningCalls \ {c}
           /\ WokenCalls' = IF s = "woken" THEN WokenCalls \cup {c}
                                           ELSE WokenCalls \ {c}
           /\ QueuedCalls' = IF s = "queued" THEN QueuedCalls \cup {c}
                                             ELSE QueuedCalls \ {c}
  BY DEF SetStatus, RunningCalls, WokenCalls, QueuedCalls

\* A call finishes and wakes the first waiter.
LEMMA TwoMove ==
    ASSUME status \in [Executions -> Statuses],
           NEW c \in Executions, NEW d \in Executions,
           status[c] = "running", status[d] = "queued",
           status' = [status EXCEPT ![c] = "done", ![d] = "woken"]
    PROVE  /\ status' \in [Executions -> Statuses]
           /\ RunningCalls' = RunningCalls \ {c}
           /\ QueuedCalls' = QueuedCalls \ {d}
           /\ WokenCalls' = WokenCalls \cup {d}
  BY DEF RunningCalls, WokenCalls, QueuedCalls, Statuses

-----------------------------------------------------------------------------
LEMMA BulkheadInitEstablishes == BulkheadInit => BulkheadInv
<1> SUFFICES ASSUME BulkheadInit PROVE BulkheadInv
  OBVIOUS
<1>1. RunningCalls = {} /\ WokenCalls = {} /\ QueuedCalls = {}
  BY DEF BulkheadInit, RunningCalls, WokenCalls, QueuedCalls
<1>2. IsFiniteSet({}) /\ Cardinality({}) = 0
  BY FS_EmptySet
<1>3. /\ status \in [Executions -> Statuses] /\ running = 0 /\ queue = <<>>
      /\ arrivals \in Seq(Executions)
  BY DEF BulkheadInit, Statuses
<1>4. BulkheadTypeOK
  <2>1. queue \in Seq(Executions) /\ Len(queue) = 0 /\ DOMAIN queue = {}
    BY <1>3
  <2> QED BY <1>1, <1>2, <1>3, <2>1, BulkheadAssumption DEF BulkheadTypeOK
<1>5. Finite /\ NoSlotLost
  BY <1>1, <1>2, <1>3, BulkheadAssumption DEF Finite, NoSlotLost
<1> QED BY <1>4, <1>5 DEF BulkheadInv

\* execute with a free slot: nothing was waiting unless woken calls hold
\* the other slots.
LEMMA EnterKeeps ==
    ASSUME BulkheadInv, NEW c \in Executions, Enter(c)
    PROVE  BulkheadInv'
<1>1. /\ status \in [Executions -> Statuses] /\ running \in Nat
      /\ status[c] = "new" /\ queue' = queue /\ running' = running + 1
      /\ arrivals \in Seq(Executions) /\ arrivals' = arrivals
      /\ SetStatus(c, "running")
  BY DEF BulkheadInv, BulkheadTypeOK, Enter
<1>2. /\ status' \in [Executions -> Statuses]
      /\ RunningCalls' = RunningCalls \cup {c}
      /\ WokenCalls' = WokenCalls
      /\ QueuedCalls' = QueuedCalls
      /\ c \notin RunningCalls
  BY <1>1, OneMoves DEF Statuses, RunningCalls, WokenCalls, QueuedCalls
<1>3. /\ IsFiniteSet(RunningCalls \cup {c})
      /\ Cardinality(RunningCalls \cup {c})
           = Cardinality(RunningCalls) + 1
  BY <1>2, FS_AddElement DEF BulkheadInv, Finite
<1>4. Cardinality(WokenCalls) \in Nat
  BY FS_CardinalityType DEF BulkheadInv, Finite
<1>5. BulkheadTypeOK'
  BY <1>1, <1>2, <1>3 DEF BulkheadInv, BulkheadTypeOK
<1>6. Finite'
  BY <1>1, <1>2, <1>3 DEF BulkheadInv, Finite
<1>7. NoSlotLost'
  BY <1>1, <1>2, <1>4, BulkheadAssumption DEF BulkheadInv, NoSlotLost
<1> QED BY <1>5, <1>6, <1>7 DEF BulkheadInv

\* A call queues up: every slot is taken.
LEMMA EnqueueKeeps ==
    ASSUME BulkheadInv, NEW c \in Executions, Enqueue(c)
    PROVE  BulkheadInv'
<1>1. /\ status \in [Executions -> Statuses] /\ running \in Nat
      /\ queue \in Seq(Executions) /\ Len(queue) \in Nat
      /\ status[c] = "new" /\ running' = running /\ running >= Concurrency
      /\ Len(queue) < MaxQueue /\ queue' = Append(queue, c)
      /\ SetStatus(c, "queued")
      /\ arrivals \in Seq(Executions) /\ arrivals' = Append(arrivals, c)
  BY DEF BulkheadInv, BulkheadTypeOK, Enqueue
<1>2. /\ status' \in [Executions -> Statuses]
      /\ RunningCalls' = RunningCalls
      /\ WokenCalls' = WokenCalls
      /\ QueuedCalls' = QueuedCalls \cup {c}
      /\ c \notin QueuedCalls
  BY <1>1, OneMoves DEF Statuses, RunningCalls, WokenCalls, QueuedCalls
<1>3. /\ queue' \in Seq(Executions)
      /\ Len(queue') = Len(queue) + 1
      /\ DOMAIN queue' = 1 .. Len(queue) + 1
      /\ DOMAIN queue = 1 .. Len(queue)
      /\ \A i \in 1 .. Len(queue) : queue'[i] = queue[i]
      /\ queue'[Len(queue) + 1] = c
  BY <1>1, AppendProperties
<1>4. {queue'[i] : i \in DOMAIN queue'} = QueuedCalls \cup {c}
  <2>1. {queue[i] : i \in 1 .. Len(queue)} = QueuedCalls
    BY <1>3 DEF BulkheadInv, BulkheadTypeOK
  <2>2. {queue'[i] : i \in 1 .. Len(queue) + 1}
          = {queue[i] : i \in 1 .. Len(queue)} \cup {c}
    <3> DEFINE last == Len(queue) + 1
    <3>1. 1 .. last = (1 .. Len(queue)) \cup {last}
      BY <1>1
    <3>2. /\ queue'[last] = c
          /\ \A i \in 1 .. Len(queue) : queue'[i] = queue[i]
      BY <1>3
    <3> HIDE DEF last
    <3>3. {queue'[i] : i \in 1 .. last}
            = {queue'[i] : i \in 1 .. Len(queue)} \cup {queue'[last]}
      BY <3>1
    <3>4. {queue'[i] : i \in 1 .. Len(queue)} = {queue[i] : i \in 1 .. Len(queue)}
      BY <3>2
    <3> QED BY <3>2, <3>3, <3>4 DEF last
  <2> QED BY <1>3, <2>1, <2>2
<1>5. \A i \in DOMAIN queue : queue[i] # c
  BY <1>2 DEF BulkheadInv, BulkheadTypeOK
<1>6. \A i, j \in DOMAIN queue' : queue'[i] = queue'[j] => i = j
  BY <1>1, <1>3, <1>5 DEF BulkheadInv, BulkheadTypeOK
<1>7. Cardinality(WokenCalls) \in Nat /\ arrivals' \in Seq(Executions)
  BY <1>1, FS_CardinalityType, AppendProperties DEF BulkheadInv, Finite
<1> QED BY <1>1, <1>2, <1>3, <1>4, <1>6, <1>7, BulkheadAssumption
        DEF BulkheadInv, BulkheadTypeOK, Finite, NoSlotLost

LEMMA RefuseKeeps ==
    ASSUME BulkheadInv, NEW c \in Executions, Refuse(c)
    PROVE  BulkheadInv'
<1>1. /\ status' \in [Executions -> Statuses]
      /\ RunningCalls' = RunningCalls
      /\ WokenCalls' = WokenCalls
      /\ QueuedCalls' = QueuedCalls
  <2>1. status \in [Executions -> Statuses] /\ SetStatus(c, "rejected")
    BY DEF BulkheadInv, BulkheadTypeOK, Refuse
  <2>2. c \notin RunningCalls \cup WokenCalls \cup QueuedCalls
    BY DEF Refuse, RunningCalls, WokenCalls, QueuedCalls
  <2> QED BY <2>1, <2>2, OneMoves DEF Statuses
<1> QED BY <1>1 DEF Refuse, BulkheadInv, BulkheadTypeOK, Finite, NoSlotLost

\* The slot a woken call was handed becomes a running one.
LEMMA ResumeKeeps ==
    ASSUME BulkheadInv, NEW c \in Executions, Resume(c)
    PROVE  BulkheadInv'
<1>1. /\ status \in [Executions -> Statuses] /\ running \in Nat
      /\ status[c] = "woken" /\ queue' = queue /\ running' = running + 1
      /\ arrivals \in Seq(Executions) /\ arrivals' = arrivals
      /\ SetStatus(c, "running")
  BY DEF BulkheadInv, BulkheadTypeOK, Resume
<1>2. /\ status' \in [Executions -> Statuses]
      /\ RunningCalls' = RunningCalls \cup {c}
      /\ WokenCalls' = WokenCalls \ {c}
      /\ QueuedCalls' = QueuedCalls
      /\ c \notin RunningCalls /\ c \in WokenCalls
  BY <1>1, OneMoves DEF Statuses, RunningCalls, WokenCalls, QueuedCalls
<1>3. /\ IsFiniteSet(RunningCalls \cup {c})
      /\ Cardinality(RunningCalls \cup {c})
           = Cardinality(RunningCalls) + 1
  BY <1>2, FS_AddElement DEF BulkheadInv, Finite
<1>4. /\ IsFiniteSet(WokenCalls \ {c})
      /\ Cardinality(WokenCalls \ {c})
           = Cardinality(WokenCalls) - 1
      /\ Cardinality(WokenCalls) \in Nat
  BY <1>2, FS_RemoveElement, FS_CardinalityType DEF BulkheadInv, Finite
<1>5. BulkheadTypeOK'
  BY <1>1, <1>2, <1>3 DEF BulkheadInv, BulkheadTypeOK
<1>6. Finite'
  BY <1>1, <1>2, <1>3, <1>4 DEF BulkheadInv, Finite
<1>7. NoSlotLost'
  BY <1>1, <1>2, <1>4, BulkheadAssumption DEF BulkheadInv, NoSlotLost
<1> QED BY <1>5, <1>6, <1>7 DEF BulkheadInv

\* A finished call hands its slot to the first waiter.
LEMMA FinishKeeps ==
    ASSUME BulkheadInv, NEW c \in Executions, Finish(c)
    PROVE  BulkheadInv'
<1>1. /\ status \in [Executions -> Statuses] /\ running \in Nat
      /\ queue \in Seq(Executions) /\ Len(queue) \in Nat
      /\ status[c] = "running" /\ running' = running - 1
      /\ c \in RunningCalls
      /\ running = Cardinality(RunningCalls)
      /\ arrivals \in Seq(Executions) /\ arrivals' = arrivals
  BY DEF BulkheadInv, BulkheadTypeOK, Finish, RunningCalls, WokenCalls,
         QueuedCalls
<1>2. /\ IsFiniteSet(RunningCalls \ {c})
      /\ Cardinality(RunningCalls \ {c}) = running - 1
      /\ Cardinality(RunningCalls \ {c}) \in Nat
  BY <1>1, FS_RemoveElement, FS_CardinalityType DEF BulkheadInv, Finite
<1>3. Cardinality(WokenCalls) \in Nat
  BY FS_CardinalityType DEF BulkheadInv, Finite
<1>4. CASE queue = <<>>
  <2>1. SetStatus(c, "done") /\ queue' = queue
    BY <1>4 DEF Finish
  <2>2. /\ status' \in [Executions -> Statuses]
        /\ RunningCalls' = RunningCalls \ {c}
        /\ WokenCalls' = WokenCalls
        /\ QueuedCalls' = QueuedCalls
    <3>1. c \notin WokenCalls \cup QueuedCalls
      BY <1>1 DEF WokenCalls, QueuedCalls
    <3>2. "done" \in Statuses
      BY DEF Statuses
    <3>3. /\ RunningCalls' = RunningCalls \ {c}
          /\ WokenCalls' = WokenCalls \ {c}
          /\ QueuedCalls' = QueuedCalls \ {c}
          /\ status' \in [Executions -> Statuses]
      BY <1>1, <2>1, <3>2, OneMoves
    <3> QED BY <3>1, <3>3
  <2>3. BulkheadTypeOK'
    BY <1>1, <1>2, <1>4, <2>1, <2>2 DEF BulkheadInv, BulkheadTypeOK
  <2>4. Finite' /\ NoSlotLost'
    BY <1>2, <1>4, <2>1, <2>2 DEF BulkheadInv, Finite, NoSlotLost
  <2> QED BY <2>3, <2>4 DEF BulkheadInv
<1>5. CASE queue # <<>>
  <2> DEFINE d == Head(queue)
             n == Len(queue)
  <2>1. /\ queue' = Tail(queue)
        /\ status' = [status EXCEPT ![c] = "done", ![d] = "woken"]
    BY <1>5 DEF Finish
  <2>2. /\ d = queue[1] /\ 1 \in DOMAIN queue /\ n \in Nat \ {0}
        /\ DOMAIN queue = 1 .. n
        /\ queue' \in Seq(Executions) /\ Len(queue') = n - 1
        /\ DOMAIN queue' = 1 .. n - 1
        /\ \A i \in 1 .. n - 1 : queue'[i] = queue[i + 1]
    BY <1>1, <1>5, <2>1, HeadTailProperties
  <2>3. d \in Executions /\ status[d] = "queued"
    BY <1>1, <2>2
    DEF BulkheadInv, BulkheadTypeOK, RunningCalls, WokenCalls, QueuedCalls
  <2>4. /\ status' \in [Executions -> Statuses]
        /\ RunningCalls' = RunningCalls \ {c}
        /\ QueuedCalls' = QueuedCalls \ {d}
        /\ WokenCalls' = WokenCalls \cup {d}
        /\ d \notin WokenCalls
    BY <1>1, <2>1, <2>3, TwoMove DEF RunningCalls, WokenCalls, QueuedCalls
  <2>5. /\ IsFiniteSet(WokenCalls \cup {d})
        /\ Cardinality(WokenCalls \cup {d})
             = Cardinality(WokenCalls) + 1
    BY <2>4, FS_AddElement DEF BulkheadInv, Finite
  <2>6. \A i, j \in 1 .. n : queue[i] = queue[j] => i = j
    BY <2>2 DEF BulkheadInv, BulkheadTypeOK
  <2>7. \A i, j \in DOMAIN queue' : queue'[i] = queue'[j] => i = j
    BY <2>2, <2>6
  <2>8. {queue'[i] : i \in DOMAIN queue'} = QueuedCalls \ {d}
    <3>1. {queue'[i] : i \in DOMAIN queue'} = {queue[i] : i \in 2 .. n}
      <4>1. \A i \in 1 .. n - 1 : i + 1 \in 2 .. n /\ queue'[i] = queue[i + 1]
        BY <2>2
      <4>2. \A i \in 2 .. n : i - 1 \in 1 .. n - 1 /\ queue'[i - 1] = queue[i]
        BY <2>2
      <4> QED BY <2>2, <4>1, <4>2
    <3>2. {queue[i] : i \in 2 .. n} = {queue[i] : i \in 1 .. n} \ {d}
      BY <2>2, <2>6
    <3>3. {queue[i] : i \in 1 .. n} = QueuedCalls
      BY <2>2 DEF BulkheadInv, BulkheadTypeOK
    <3> QED BY <3>1, <3>2, <3>3
  <2>9. BulkheadTypeOK'
    <3>1. Len(queue') <= MaxQueue
      BY <2>2, BulkheadAssumption DEF BulkheadInv, BulkheadTypeOK
    <3> QED BY <1>1, <1>2, <2>2, <2>4, <2>7, <2>8, <3>1 DEF BulkheadTypeOK
  <2>10. Finite'
    BY <1>1, <1>2, <2>2, <2>4, <2>5, BulkheadAssumption
    DEF BulkheadInv, Finite
  <2>11. NoSlotLost'
    BY <1>1, <1>3, <1>5, <2>4, <2>5, BulkheadAssumption
    DEF BulkheadInv, NoSlotLost
  <2> QED BY <2>9, <2>10, <2>11 DEF BulkheadInv
<1> QED BY <1>4, <1>5

LEMMA BulkheadNextKeeps == BulkheadInv /\ [BulkheadNext]_bulkhead => BulkheadInv'
<1>1. ASSUME BulkheadInv, UNCHANGED bulkhead PROVE BulkheadInv'
  BY <1>1 DEF bulkhead, BulkheadInv, BulkheadTypeOK, Finite, NoSlotLost,
              RunningCalls, WokenCalls, QueuedCalls
<1> QED BY <1>1, EnterKeeps, EnqueueKeeps, RefuseKeeps, ResumeKeeps, FinishKeeps
        DEF BulkheadNext, Idle

THEOREM BulkheadInvariance == BulkheadSpec => []BulkheadInv
  BY BulkheadInitEstablishes, BulkheadNextKeeps, PTL DEF BulkheadSpec

\* execute: the counter counts the running calls, the queue holds the waiting
\* ones and no more than maxQueue; and while a call waits, every slot is in
\* use or handed over.
THEOREM BulkheadInvariants == BulkheadSpec => [](BulkheadTypeOK /\ NoSlotLost)
<1>1. BulkheadInv => BulkheadTypeOK /\ NoSlotLost
  BY DEF BulkheadInv
<1> QED BY <1>1, BulkheadInvariance, PTL

\* execute: the running counter and the waiting queue are at every moment
\* what the states of the calls say, and the queue has room for its calls.
THEOREM CountersAgree == BulkheadSpec => []BulkheadTypeOK
  BY BulkheadInvariants, PTL

-----------------------------------------------------------------------------
(* The order of service.                                                   *)

\* Whoever came before a waiting call and still waits is in the queue ahead
\* of it, and everything that came after is behind it.
LEMMA LatestInOrder ==
    ASSUME BulkheadTypeOK, QueueIsLatest
    PROVE  FirstComeFirstServed
<1> DEFINE n == Len(queue)
           m == Len(arrivals)
<1>1. /\ n \in Nat /\ m \in Nat /\ n <= m
      /\ DOMAIN queue = 1 .. n /\ DOMAIN arrivals = 1 .. m
  BY DEF BulkheadTypeOK, QueueIsLatest
<1> SUFFICES ASSUME NEW i \in 1 .. m, NEW j \in 1 .. m, i < j,
                    status[arrivals[i]] = "queued"
             PROVE  status[arrivals[j]] = "queued"
  BY <1>1 DEF FirstComeFirstServed
<1>2. arrivals[i] \in QueuedCalls
  BY <1>1 DEF BulkheadTypeOK, QueuedCalls
<1>3. PICK k \in 1 .. n : queue[k] = arrivals[i]
  BY <1>1, <1>2 DEF BulkheadTypeOK
<1>4. i = m - n + k
  <2>1. m - n + k \in 1 .. m
    BY <1>1
  <2> QED BY <1>1, <1>3, <2>1 DEF QueueIsLatest
<1>5. k + (j - i) \in 1 .. n /\ m - n + (k + (j - i)) = j
  BY <1>1, <1>4
<1>6. queue[k + (j - i)] = arrivals[j]
  BY <1>1, <1>5 DEF QueueIsLatest
<1>7. arrivals[j] \in QueuedCalls
  BY <1>1, <1>5, <1>6 DEF BulkheadTypeOK
<1> QED BY <1>7 DEF QueuedCalls

\* A step that neither queues nor wakes a call.
LEMMA SameWaiters ==
    ASSUME QueueIsLatest, BulkheadTypeOK, NEW c \in Executions,
           NEW s \in Statuses \ {"new"}, SetStatus(c, s),
           UNCHANGED <<queue, arrivals>>
    PROVE  QueueIsLatest'
  BY DEF QueueIsLatest, BulkheadTypeOK, SetStatus

LEMMA EnqueueKeepsOrder ==
    ASSUME QueueIsLatest, BulkheadTypeOK, NEW c \in Executions, Enqueue(c)
    PROVE  QueueIsLatest'
<1> DEFINE n == Len(queue)
           m == Len(arrivals)
<1>1. /\ queue' = Append(queue, c) /\ arrivals' = Append(arrivals, c)
      /\ status[c] = "new" /\ status' = [status EXCEPT ![c] = "queued"]
      /\ queue \in Seq(Executions) /\ arrivals \in Seq(Executions)
      /\ status \in [Executions -> Statuses]
  BY DEF Enqueue, SetStatus, BulkheadTypeOK
<1>2. /\ n \in Nat /\ m \in Nat /\ n <= m
      /\ DOMAIN queue = 1 .. n /\ DOMAIN arrivals = 1 .. m
  BY <1>1 DEF QueueIsLatest
<1>3. /\ Len(queue') = n + 1 /\ DOMAIN queue' = 1 .. n + 1
      /\ \A i \in 1 .. n : queue'[i] = queue[i]
      /\ queue'[n + 1] = c
      /\ Len(arrivals') = m + 1 /\ DOMAIN arrivals' = 1 .. m + 1
      /\ \A i \in 1 .. m : arrivals'[i] = arrivals[i]
      /\ arrivals'[m + 1] = c
  BY <1>1, AppendProperties
<1>4. \A i \in 1 .. m : arrivals[i] # c /\ arrivals[i] \in Executions
  BY <1>1, <1>2 DEF QueueIsLatest
<1>5. \A i \in DOMAIN arrivals' : status'[arrivals'[i]] # "new"
  BY <1>1, <1>2, <1>3, <1>4 DEF QueueIsLatest
<1>6. \A i, j \in DOMAIN arrivals' : arrivals'[i] = arrivals'[j] => i = j
  BY <1>2, <1>3, <1>4 DEF QueueIsLatest
<1>7. ASSUME NEW i \in DOMAIN queue'
      PROVE  queue'[i] = arrivals'[Len(arrivals') - Len(queue') + i]
  <2>1. Len(arrivals') - Len(queue') + i = m - n + i
    BY <1>2, <1>3
  <2>2. CASE i = n + 1
    BY <1>2, <1>3, <2>1, <2>2
  <2>3. CASE i \in 1 .. n
    <3>1. m - n + i \in 1 .. m /\ queue[i] = arrivals[m - n + i]
      BY <1>2, <2>3 DEF QueueIsLatest
    <3> QED BY <1>3, <2>1, <2>3, <3>1
  <2> QED BY <1>2, <1>3, <2>2, <2>3
<1> QED BY <1>2, <1>3, <1>5, <1>6, <1>7 DEF QueueIsLatest

LEMMA FinishKeepsOrder ==
    ASSUME QueueIsLatest, BulkheadTypeOK, NEW c \in Executions, Finish(c)
    PROVE  QueueIsLatest'
<1>1. CASE queue = <<>>
  BY <1>1, SameWaiters DEF Finish, Statuses
<1>2. CASE queue # <<>>
  <2> DEFINE n == Len(queue)
             m == Len(arrivals)
  <2>1. /\ queue' = Tail(queue) /\ arrivals' = arrivals
        /\ status' = [status EXCEPT ![c] = "done", ![Head(queue)] = "woken"]
        /\ queue \in Seq(Executions) /\ arrivals \in Seq(Executions)
        /\ status \in [Executions -> Statuses]
    BY <1>2 DEF Finish, BulkheadTypeOK
  <2>2. /\ n \in Nat \ {0} /\ m \in Nat /\ n <= m
        /\ DOMAIN queue = 1 .. n /\ DOMAIN arrivals = 1 .. m
    BY <1>2, <2>1 DEF QueueIsLatest
  <2>3. /\ Len(queue') = n - 1 /\ DOMAIN queue' = 1 .. n - 1
        /\ \A i \in 1 .. n - 1 : queue'[i] = queue[i + 1]
    BY <1>2, <2>1, <2>2, HeadTailProperties
  <2>4. \A i \in DOMAIN arrivals' : status'[arrivals'[i]] # "new"
    <3>1. \A e \in Executions : status[e] # "new" => status'[e] # "new"
      BY <2>1
    <3> QED BY <2>1, <2>2, <3>1 DEF QueueIsLatest
  <2>5. ASSUME NEW i \in DOMAIN queue'
        PROVE  queue'[i] = arrivals'[Len(arrivals') - Len(queue') + i]
    <3>1. i + 1 \in 1 .. n /\ m - (n - 1) + i = m - n + (i + 1)
      <4>1. i \in 1 .. n - 1
        BY <2>3
      <4> HIDE DEF n, m
      <4> QED BY <4>1, <2>2
    <3>2. queue[i + 1] = arrivals[m - n + (i + 1)]
      BY <2>2, <3>1 DEF QueueIsLatest
    <3> QED BY <2>1, <2>3, <3>1, <3>2
  <2>6. Len(queue') <= Len(arrivals')
    BY <2>1, <2>2, <2>3
  <2>7. \A i, j \in DOMAIN arrivals' : arrivals'[i] = arrivals'[j] => i = j
    BY <2>1 DEF QueueIsLatest
  <2> QED BY <2>4, <2>5, <2>6, <2>7 DEF QueueIsLatest
<1> QED BY <1>1, <1>2

\* execute and its finally block: a call that came to wait is served before
\* every call that came to wait after it, whatever else comes, finishes or
\* is refused meanwhile.
THEOREM Fifo == BulkheadSpec => []FirstComeFirstServed
<1>1. BulkheadInit => QueueIsLatest
  BY DEF BulkheadInit, QueueIsLatest
<1>2. ASSUME BulkheadInv, QueueIsLatest, [BulkheadNext]_bulkhead
      PROVE  QueueIsLatest'
  <2>1. BulkheadTypeOK
    BY <1>2 DEF BulkheadInv
  <2>2. CASE UNCHANGED bulkhead
    BY <1>2, <2>2 DEF bulkhead, QueueIsLatest
  <2>3. ASSUME NEW c \in Executions, Enter(c) \/ Refuse(c) \/ Resume(c)
        PROVE  QueueIsLatest'
    BY <1>2, <2>1, <2>3, SameWaiters DEF Enter, Refuse, Resume, Statuses
  <2> QED BY <1>2, <2>1, <2>2, <2>3, EnqueueKeepsOrder, FinishKeepsOrder
          DEF BulkheadNext, Idle
<1>3. BulkheadInv /\ QueueIsLatest => FirstComeFirstServed
  BY LatestInOrder DEF BulkheadInv
<1> QED BY <1>1, <1>2, <1>3, BulkheadInvariance, PTL DEF BulkheadSpec

-----------------------------------------------------------------------------
(* The circuit breaker.                                                    *)

\* While the circuit is closed its window holds only failures recorded since
\* it was closed, so none that failures does not count.
FailuresCounted ==
    state = "closed" /\ failures < MinCalls => FailuresIn(window) <= failures

IInv == TypeOK /\ TrialsAllSucceeded /\ FailuresCounted

LEMMA Constants ==
    /\ WindowSize \in Nat /\ WindowSize > 0
    /\ MinCalls \in Nat /\ MinCalls > 0
    /\ TrialsNeeded \in Nat /\ TrialsNeeded > 0
    /\ ThresholdPercent \in 1 .. 100
  BY CircuitBreakerAssumption

-----------------------------------------------------------------------------
(* The window.                                                             *)

FailedAt(w) == {i \in DOMAIN w : ~ w[i]}

LEMMA FailedAtFinite ==
    ASSUME NEW w \in Seq(BOOLEAN)
    PROVE  IsFiniteSet(FailedAt(w)) /\ FailuresIn(w) \in Nat
<1>1. FailedAt(w) \in SUBSET (1 .. Len(w)) /\ IsFiniteSet(1 .. Len(w))
  BY FS_Interval DEF FailedAt
<1>2. IsFiniteSet(FailedAt(w))
  BY <1>1, FS_Subset
<1>3. FailuresIn(w) = Cardinality(FailedAt(w))
  BY DEF FailuresIn, FailedAt
<1> QED BY <1>2, <1>3, FS_CardinalityType

LEMMA OneMore ==
    ASSUME NEW S, IsFiniteSet(S), NEW x
    PROVE  IsFiniteSet(S \cup {x}) /\ Cardinality(S \cup {x}) <= Cardinality(S) + 1
<1>1. Cardinality(S) \in Nat
  BY FS_CardinalityType
<1> QED BY <1>1, FS_AddElement

\* A longer window has at most one failure more.
LEMMA AppendFailures ==
    ASSUME NEW w \in Seq(BOOLEAN), NEW r \in BOOLEAN
    PROVE  /\ FailuresIn(Append(w, r)) <= FailuresIn(w) + 1
           /\ r => FailuresIn(Append(w, r)) <= FailuresIn(w)
<1> DEFINE new == FailedAt(Append(w, r))
<1>1. Append(w, r) \in Seq(BOOLEAN) /\ Len(Append(w, r)) = Len(w) + 1
  BY AppendProperties
<1>2. /\ \A i \in 1 .. Len(w) : Append(w, r)[i] = w[i]
      /\ Append(w, r)[Len(w) + 1] = r
  BY AppendProperties
<1>3. /\ new \subseteq FailedAt(w) \cup {Len(w) + 1}
      /\ r => new \subseteq FailedAt(w)
  BY <1>1, <1>2 DEF FailedAt
<1>4. /\ IsFiniteSet(FailedAt(w)) /\ Cardinality(FailedAt(w)) \in Nat
      /\ IsFiniteSet(new) /\ Cardinality(new) \in Nat
  BY <1>1, FailedAtFinite, FS_CardinalityType
<1>5. /\ IsFiniteSet(FailedAt(w) \cup {Len(w) + 1})
      /\ Cardinality(FailedAt(w) \cup {Len(w) + 1}) <= Cardinality(FailedAt(w)) + 1
      /\ Cardinality(FailedAt(w) \cup {Len(w) + 1}) \in Nat
  BY <1>4, OneMore, FS_CardinalityType
<1>6. Cardinality(new) <= Cardinality(FailedAt(w)) + 1
  <2>1. Cardinality(new) <= Cardinality(FailedAt(w) \cup {Len(w) + 1})
    BY <1>3, <1>5, FS_Subset
  <2> QED BY <2>1, <1>4, <1>5
<1>7. r => Cardinality(new) <= Cardinality(FailedAt(w))
  BY <1>3, <1>4, FS_Subset
<1> QED BY <1>6, <1>7 DEF FailuresIn, FailedAt

\* A window without its oldest result has no failure more.
LEMMA TailFailures ==
    ASSUME NEW w \in Seq(BOOLEAN), w # <<>>
    PROVE  FailuresIn(Tail(w)) <= FailuresIn(w)
<1> DEFINE shift == [i \in FailedAt(Tail(w)) |-> i + 1]
<1>1. /\ Tail(w) \in Seq(BOOLEAN)
      /\ Len(Tail(w)) = Len(w) - 1
      /\ \A i \in 1 .. Len(Tail(w)) : Tail(w)[i] = w[i + 1]
  BY HeadTailProperties
<1>2. shift \in [FailedAt(Tail(w)) -> FailedAt(w)]
  BY <1>1 DEF FailedAt
<1>3. \A i, j \in FailedAt(Tail(w)) : shift[i] = shift[j] => i = j
  BY <1>1 DEF FailedAt
<1>4. shift \in Injection(FailedAt(Tail(w)), FailedAt(w))
  BY <1>2, <1>3 DEF Injection, IsInjective
<1>5. Cardinality(FailedAt(Tail(w))) <= Cardinality(FailedAt(w))
  BY <1>4, FailedAtFinite, FS_Injection
<1> QED BY <1>5 DEF FailuresIn, FailedAt

\* What push does to the window.
LEMMA PushedWindow ==
    ASSUME TypeOK, NEW r \in BOOLEAN
    PROVE  /\ Pushed(r) \in Seq(BOOLEAN)
           /\ Len(Pushed(r)) <= WindowSize
           /\ Len(Pushed(r)) <= Len(window) + 1
           /\ \A i \in 1 .. Len(Pushed(r)) :
                 Pushed(r)[i] = Append(window, r)[i + Len(window) + 1 - Len(Pushed(r))]
           /\ FailuresIn(Pushed(r)) <= FailuresIn(window) + 1
           /\ r => FailuresIn(Pushed(r)) <= FailuresIn(window)
<1> DEFINE w == Append(window, r)
<1>1. window \in Seq(BOOLEAN) /\ Len(window) <= WindowSize /\ WindowSize \in Nat
  BY Constants DEF TypeOK
<1>2. w \in Seq(BOOLEAN) /\ w # <<>> /\ Len(w) = Len(window) + 1
  BY <1>1, AppendProperties
<1>3. /\ Tail(w) \in Seq(BOOLEAN)
      /\ Len(Tail(w)) = Len(w) - 1
      /\ \A i \in 1 .. Len(Tail(w)) : Tail(w)[i] = w[i + 1]
  BY <1>2, HeadTailProperties
<1>4. /\ FailuresIn(w) <= FailuresIn(window) + 1
      /\ r => FailuresIn(w) <= FailuresIn(window)
      /\ FailuresIn(Tail(w)) <= FailuresIn(w)
  BY <1>1, <1>2, AppendFailures, TailFailures
<1>5. /\ FailuresIn(w) \in Nat /\ FailuresIn(window) \in Nat
      /\ FailuresIn(Tail(w)) \in Nat
  BY <1>1, <1>2, <1>3, FailedAtFinite
<1>6. CASE Len(w) > WindowSize
  <2>1. Pushed(r) = Tail(w)
    BY <1>6 DEF Pushed
  <2>2. Len(Tail(w)) = Len(window)
    BY <1>1, <1>2, <1>3
  <2>3. \A i \in 1 .. Len(Tail(w)) : Tail(w)[i] = w[i + Len(window) + 1 - Len(Tail(w))]
    <3> HIDE DEF w
    <3> TAKE i \in 1 .. Len(Tail(w))
    <3>1. Tail(w)[i] = w[i + 1]
      BY <1>3
    <3>2. i + Len(window) + 1 - Len(window) = i + 1
      <4>1. Len(window) \in Nat /\ i \in Int
        BY <1>1, LenProperties
      <4>2. \A k \in Int, n \in Nat : k + n + 1 - n = k + 1
        OBVIOUS
      <4> QED BY <4>1, <4>2
    <3> QED BY <3>1, <3>2, <2>2
  <2>4. /\ FailuresIn(Tail(w)) <= FailuresIn(window) + 1
        /\ r => FailuresIn(Tail(w)) <= FailuresIn(window)
    BY <1>4, <1>5
  <2> HIDE DEF w
  <2>5. Len(Tail(w)) <= WindowSize /\ Len(Tail(w)) <= Len(window) + 1
    BY <2>2, <1>1
  <2> QED BY <2>1, <2>3, <2>4, <2>5, <1>3 DEF w
<1>7. CASE ~ (Len(w) > WindowSize)
  <2>1. Pushed(r) = w
    BY <1>7 DEF Pushed
  <2> QED BY <2>1, <1>1, <1>2, <1>4, <1>5, <1>7
<1> QED BY <1>6, <1>7

-----------------------------------------------------------------------------
LEMMA EmptyWindow == <<>> \in Seq(BOOLEAN) /\ Len(<<>>) = 0 /\ FailuresIn(<<>>) = 0
<1>1. FailedAt(<<>>) = {}
  BY DEF FailedAt
<1> QED BY <1>1, FS_EmptySet DEF FailuresIn, FailedAt

LEMMA InitEstablishes == Init => IInv
<1> SUFFICES ASSUME Init PROVE IInv
  OBVIOUS
<1>1. TypeOK
  <2>1. healthy \in BOOLEAN
    BY DEF Init
  <2>2. calls \in [Calls -> {"idle", "closed", "half-open"}]
    BY DEF Init
  <2>3. window \in Seq(BOOLEAN) /\ Len(window) <= WindowSize
    BY EmptyWindow, Constants DEF Init
  <2>4. /\ state = "closed" /\ openedAt = "null" /\ successes = 0
        /\ successes \in 0 .. TrialsNeeded - 1 /\ failures \in 0 .. MinCalls
    BY Constants DEF Init
  <2> QED BY <2>1, <2>2, <2>3, <2>4 DEF TypeOK, States
<1>2. TrialsAllSucceeded /\ FailuresCounted
  BY EmptyWindow DEF Init, TrialsAllSucceeded, FailuresCounted
<1> QED BY <1>1, <1>2 DEF IInv

\* Closing the circuit starts all over.
LEMMA CloseKeeps ==
    ASSUME IInv, NEW w, Close(w), healthy' \in BOOLEAN,
           calls' \in [Calls -> {"idle", "closed", "half-open"}]
    PROVE  IInv'
<1>1. TypeOK'
  BY EmptyWindow, Constants DEF Close, TypeOK, States
<1>2. TrialsAllSucceeded' /\ FailuresCounted'
  BY EmptyWindow DEF Close, TrialsAllSucceeded, FailuresCounted
<1> QED BY <1>1, <1>2 DEF IInv

\* Looking at the circuit, with or without a call to be let through.
LEMMA LookKeeps ==
    ASSUME IInv, Look, UNCHANGED <<window, healthy, failures>>,
           calls' \in [Calls -> {"idle", "closed", "half-open"}]
    PROVE  IInv'
<1>1. CASE CoolDownOver
  <2>1. state' = "half-open" /\ successes' = 0 /\ openedAt' = "cooled"
    BY <1>1 DEF Look, CoolDownOver
  <2>2. TypeOK'
    BY <2>1, Constants DEF IInv, TypeOK, States
  <2>3. TrialsAllSucceeded' /\ FailuresCounted'
    BY <2>1 DEF TrialsAllSucceeded, FailuresCounted, IInv, TypeOK
  <2> QED BY <2>2, <2>3 DEF IInv
<1>2. CASE ~ CoolDownOver
  BY <1>2 DEF Look, circuit, IInv, TypeOK, TrialsAllSucceeded, FailuresCounted
<1> QED BY <1>1, <1>2

LEMMA SucceedKeeps ==
    ASSUME IInv, NEW c \in Calls, Succeed(c)
    PROVE  IInv'
<1>1. CASE state = "half-open" /\ successes + 1 >= TrialsNeeded
  BY <1>1, CloseKeeps DEF Succeed, IInv, TypeOK
<1>2. CASE ~ (state = "half-open" /\ successes + 1 >= TrialsNeeded)
  <2>1. /\ window' = Pushed(TRUE)
        /\ state = "half-open" => successes' = successes + 1
        /\ state # "half-open" => successes' = successes
        /\ UNCHANGED <<state, openedAt, failures, healthy>>
        /\ calls' = [calls EXCEPT ![c] = "idle"]
    BY <1>2 DEF Succeed
  <2>2. /\ window' \in Seq(BOOLEAN)
        /\ Len(window') <= WindowSize
        /\ Len(window') <= Len(window) + 1
        /\ \A i \in 1 .. Len(window') :
              window'[i] = Append(window, TRUE)[i + Len(window) + 1 - Len(window')]
    BY <2>1, PushedWindow DEF IInv
  <2>3. TypeOK'
    <3>1. successes' \in 0 .. TrialsNeeded - 1
      BY <1>2, <2>1, Constants DEF IInv, TypeOK
    <3>2. calls' \in [Calls -> {"idle", "closed", "half-open"}]
      BY <2>1 DEF IInv, TypeOK
    <3>3. state = "closed" => successes' = 0
      BY <2>1 DEF IInv, TypeOK
    <3>4. healthy' \in BOOLEAN
      BY <2>1 DEF IInv, TypeOK
    <3>5. /\ state' \in States
          /\ openedAt' \in {"null", "cooling", "cooled"}
          /\ failures' \in 0 .. MinCalls
          /\ (state' = "closed") <=> (openedAt' = "null")
          /\ state' = "half-open" => openedAt' = "cooled"
      BY <2>1 DEF IInv, TypeOK
    <3> QED BY <2>1, <2>2, <3>1, <3>2, <3>3, <3>4, <3>5 DEF TypeOK
  <2>4. TrialsAllSucceeded'
    <3>1. SUFFICES ASSUME state = "half-open", Len(window') >= successes + 1,
                          NEW i \in Len(window') - successes .. Len(window')
                   PROVE  window'[i]
      <4>1. CASE state = "half-open"
        <5>1. successes' = successes + 1 /\ successes \in Nat /\ Len(window') \in Nat
          <6>1. successes' = successes + 1 /\ successes \in Nat
            BY <4>1, <2>1, Constants DEF IInv, TypeOK
          <6> QED BY <6>1, <2>2
        <5>2. Len(window') - successes' + 1 = Len(window') - successes
          BY <5>1
        <5> QED BY <3>1, <4>1, <5>1, <5>2 DEF TrialsAllSucceeded
      <4>2. CASE state # "half-open"
        BY <4>2, <2>1 DEF TrialsAllSucceeded
      <4> QED BY <4>1, <4>2
    <3>2. /\ window \in Seq(BOOLEAN) /\ Len(window) \in Nat
          /\ Len(window') \in Nat /\ successes \in Nat
      BY <2>2 DEF IInv, TypeOK
    <3> DEFINE k == i + Len(window) + 1 - Len(window')
    <3>3. k \in Len(window) + 1 - successes .. Len(window) + 1
          /\ Len(window) >= successes /\ i \in 1 .. Len(window')
      BY <3>1, <3>2, <2>2
    <3>4. window'[i] = Append(window, TRUE)[k]
      BY <3>3, <2>2
    <3>5. CASE k = Len(window) + 1
      BY <3>2, <3>4, <3>5, AppendProperties
    <3>6. CASE k # Len(window) + 1
      <4>1. k \in Len(window) - successes + 1 .. Len(window) /\ k \in 1 .. Len(window)
        BY <3>2, <3>3, <3>6
      <4>2. window[k]
        BY <3>1, <3>3, <4>1 DEF IInv, TrialsAllSucceeded
      <4> QED BY <3>2, <3>4, <4>1, <4>2, AppendProperties
    <3> QED BY <3>5, <3>6
  <2>5. FailuresCounted'
    <3>1. FailuresIn(window) \in Nat /\ FailuresIn(window') \in Nat
      BY <2>2, FailedAtFinite DEF IInv, TypeOK
    <3>2. FailuresIn(window') <= FailuresIn(window)
      BY <2>1, <3>1, PushedWindow DEF IInv
    <3>3. failures \in Nat /\ failures' = failures /\ state' = state
      BY <2>1, Constants DEF IInv, TypeOK
    <3> QED BY <3>1, <3>2, <3>3 DEF FailuresCounted, IInv
  <2> QED BY <2>3, <2>4, <2>5 DEF IInv
<1> QED BY <1>1, <1>2

\* What a failure does to window and count.
LEMMA FailCounts ==
    ASSUME IInv, NEW c \in Calls, Fail(c)
    PROVE  /\ window' \in Seq(BOOLEAN) /\ Len(window') <= WindowSize
           /\ FailuresIn(window') \in Nat
           /\ failures' \in 0 .. MinCalls
           /\ state = "closed" /\ failures' < MinCalls =>
                 FailuresIn(window') <= failures'
           /\ state = "closed" => FailuresIn(window') <= failures'
                                  \/ failures' = MinCalls
<1>1. window' = Pushed(FALSE)
      /\ failures' = IF failures < MinCalls THEN failures + 1 ELSE failures
  BY DEF Fail
<1>2. /\ window' \in Seq(BOOLEAN) /\ Len(window') <= WindowSize
      /\ FailuresIn(window') <= FailuresIn(window) + 1
  BY <1>1, PushedWindow DEF IInv
<1>3. FailuresIn(window) \in Nat /\ FailuresIn(window') \in Nat
  BY <1>2, FailedAtFinite DEF IInv, TypeOK
<1>4. failures \in 0 .. MinCalls /\ MinCalls \in Nat
  BY Constants DEF IInv, TypeOK
<1>5. state = "closed" /\ failures < MinCalls => FailuresIn(window) <= failures
  BY DEF IInv, FailuresCounted
<1>6. failures' \in 0 .. MinCalls
  BY <1>1, <1>4
<1>7. CASE failures < MinCalls
  <2>1. failures' = failures + 1
    BY <1>1, <1>7
  <2>2. state = "closed" => FailuresIn(window') <= failures'
    BY <1>2, <1>3, <1>4, <1>5, <1>7, <2>1
  <2> QED BY <1>2, <1>3, <1>6, <2>2
<1>8. CASE ~ (failures < MinCalls)
  <2>1. failures' = MinCalls
    BY <1>1, <1>4, <1>8
  <2> QED BY <1>2, <1>3, <1>4, <1>6, <2>1
<1> QED BY <1>7, <1>8

LEMMA FailKeeps ==
    ASSUME IInv, NEW c \in Calls, Fail(c)
    PROVE  IInv'
<1>1. /\ calls' = [calls EXCEPT ![c] = "idle"]
      /\ UNCHANGED <<successes, healthy>>
  BY DEF Fail, Open, circuit
<1>2. CASE Opens(window')
  <2>1. state' = "open" /\ openedAt' = "cooling"
    BY <1>2 DEF Fail, Open
  <2>2. TypeOK'
    BY <1>1, <2>1, FailCounts DEF IInv, TypeOK, States
  <2>3. TrialsAllSucceeded' /\ FailuresCounted'
    BY <2>1 DEF TrialsAllSucceeded, FailuresCounted
  <2> QED BY <2>2, <2>3 DEF IInv
<1>3. CASE ~ Opens(window')
  <2>1. UNCHANGED <<state, openedAt>> /\ state # "half-open"
    BY <1>3 DEF Fail, circuit, Opens
  <2>2. TypeOK'
    BY <1>1, <2>1, FailCounts DEF IInv, TypeOK, States
  <2>3. TrialsAllSucceeded' /\ FailuresCounted'
    BY <2>1, FailCounts DEF TrialsAllSucceeded, FailuresCounted
  <2> QED BY <2>2, <2>3 DEF IInv
<1> QED BY <1>2, <1>3

LEMMA NextKeeps == IInv /\ [Next]_vars => IInv'
<1> SUFFICES ASSUME IInv, [Next]_vars PROVE IInv'
  OBVIOUS
<1>1. ASSUME NEW c \in Calls, Call(c) PROVE IInv'
  <2>1. Look /\ UNCHANGED <<window, healthy, failures>>
        /\ calls' = [calls EXCEPT ![c] = IF state' = "open" THEN "idle" ELSE state']
    BY <1>1 DEF Call
  <2>2. state' \in States
    BY <2>1 DEF Look, circuit, States, IInv, TypeOK
  <2>3. calls' \in [Calls -> {"idle", "closed", "half-open"}]
    BY <2>1, <2>2 DEF IInv, TypeOK, States
  <2> QED BY <2>1, <2>3, LookKeeps
<1>2. CASE CurrentState
  BY <1>2, LookKeeps DEF CurrentState, IInv, TypeOK
<1>3. CASE Reset
  BY <1>3, CloseKeeps DEF Reset, IInv, TypeOK
<1>4. CASE Cool
  <2>1. TypeOK'
    BY <1>4 DEF Cool, IInv, TypeOK
  <2> QED BY <1>4, <2>1 DEF Cool, IInv, TrialsAllSucceeded, FailuresCounted
<1>5. CASE Recover
  BY <1>5 DEF Recover, circuit, IInv, TypeOK, TrialsAllSucceeded, FailuresCounted
<1>6. CASE UNCHANGED vars
  BY <1>6 DEF vars, IInv, TypeOK, TrialsAllSucceeded, FailuresCounted
<1> QED BY <1>1, <1>2, <1>3, <1>4, <1>5, <1>6, SucceedKeeps, FailKeeps DEF Next

THEOREM Invariance == Spec => []IInv
  BY InitEstablishes, NextKeeps, PTL DEF Spec

\* The fields agree with the state of the circuit, and a half-open circuit
\* counts no success that a failure has followed.
THEOREM CircuitInvariants == Spec => [](TypeOK /\ TrialsAllSucceeded)
<1>1. IInv => TypeOK /\ TrialsAllSucceeded
  BY DEF IInv
<1> QED BY <1>1, Invariance, PTL

\* However calls overlap, an open circuit knows since when it is open and a
\* half-open one still needs a success: neither is a state without a way out.
THEOREM FieldsWellTyped == Spec => []TypeOK
  BY CircuitInvariants, PTL

LEMMA ProductGrows ==
    ASSUME NEW n \in Nat, NEW x \in Nat, NEW y \in Nat, x <= y
    PROVE  n * x <= n * y
<1>1. PICK d \in Nat : y = x + d
  <2>1. y - x \in Nat /\ y = x + (y - x)
    OBVIOUS
  <2> QED BY <2>1
<1>2. n * y = n * x + n * d /\ n * d >= 0 /\ n * x \in Nat
  BY <1>1
<1> QED BY <1>2

\* A closed circuit whose latest result is a failure has not yet got the
\* failures it takes: Fail would have opened it.
NoneUnheeded ==
    state = "closed" /\ window # <<>> /\ ~ window[Len(window)] =>
        ~ (Len(window) >= MinCalls /\ RateReached(window))

\* The latest result stands last.
LEMMA PushedLast ==
    ASSUME TypeOK, NEW r \in BOOLEAN, Pushed(r) # <<>>
    PROVE  Pushed(r)[Len(Pushed(r))] = r
<1> DEFINE n == Len(Pushed(r))
<1>1. n \in Nat \ {0} /\ Len(window) \in Nat /\ window \in Seq(BOOLEAN)
  BY PushedWindow DEF TypeOK
<1>2. Pushed(r)[n] = Append(window, r)[n + Len(window) + 1 - n]
  BY <1>1, PushedWindow
<1>3. n + Len(window) + 1 - n = Len(window) + 1
  BY <1>1
<1> QED BY <1>1, <1>2, <1>3, AppendProperties

LEMMA NoneUnheededKept ==
    ASSUME IInv, NoneUnheeded, [Next]_vars
    PROVE  NoneUnheeded'
<1>1. ASSUME NEW c \in Calls, Succeed(c) PROVE NoneUnheeded'
  <2>1. CASE window' = <<>>
    BY <2>1 DEF NoneUnheeded
  <2>2. CASE window' = Pushed(TRUE) /\ window' # <<>>
    BY <2>2, PushedLast DEF NoneUnheeded, IInv
  <2> QED BY <1>1, <2>1, <2>2 DEF Succeed, Close
<1>2. ASSUME NEW c \in Calls, Fail(c) PROVE NoneUnheeded'
  <2>1. CASE Opens(window')
    BY <1>2, <2>1 DEF Fail, Open, NoneUnheeded
  <2>2. CASE ~ Opens(window')
    BY <1>2, <2>2 DEF Fail, circuit, Opens, RateReached, FailuresIn,
                      NoneUnheeded
  <2> QED BY <2>1, <2>2
<1>3. CASE Look /\ UNCHANGED window
  BY <1>3 DEF Look, circuit, RateReached, FailuresIn, NoneUnheeded
<1>4. CASE Reset
  BY <1>4 DEF Reset, Close, NoneUnheeded
<1>5. CASE UNCHANGED <<state, window>>
  BY <1>5 DEF RateReached, FailuresIn, NoneUnheeded
<1> QED BY <1>1, <1>2, <1>3, <1>4, <1>5
        DEF Next, Call, CurrentState, Cool, Recover, circuit, vars

\* evaluateWindow: a closed circuit opens only on enough failures since it
\* was closed, and a failure never leaves it closed when they are enough.
THEOREM Evidence == Spec => OpensOnEvidence
<1> DEFINE Step ==
        /\ state = "closed" /\ state' = "open" =>
              100 * failures' >= ThresholdPercent * MinCalls
        /\ state' = "closed" /\ window' # <<>> /\ ~ window'[Len(window')] =>
              ~ /\ Len(window') >= MinCalls
                /\ 100 * FailuresIn(window') >= ThresholdPercent * Len(window')
<1>1. ASSUME IInv, Next, state = "closed", state' = "open"
      PROVE  100 * failures' >= ThresholdPercent * MinCalls
  <2>1. PICK c \in Calls : Fail(c)
    BY <1>1 DEF Next, Call, CurrentState, Look, CoolDownOver, circuit, Succeed,
                Reset, Close, Cool, Recover
  <2>2. Len(window') >= MinCalls
        /\ 100 * FailuresIn(window') >= ThresholdPercent * Len(window')
    BY <1>1, <2>1 DEF Fail, circuit, Opens, RateReached
  <2>3. /\ MinCalls \in Nat /\ ThresholdPercent \in 1 .. 100
        /\ failures' \in Nat /\ FailuresIn(window') \in Nat
        /\ window' \in Seq(BOOLEAN)
        /\ FailuresIn(window') <= failures' \/ failures' = MinCalls
    BY <1>1, <2>1, FailCounts, Constants
  <2>4. CASE failures' = MinCalls
    <3>1. MinCalls * ThresholdPercent <= MinCalls * 100
      BY <2>3, ProductGrows
    <3> QED BY <2>3, <2>4, <3>1
  <2>5. CASE FailuresIn(window') <= failures'
    <3>1. ThresholdPercent * MinCalls <= ThresholdPercent * Len(window')
      BY <2>2, <2>3, ProductGrows
    <3>2. /\ 100 * FailuresIn(window') <= 100 * failures'
          /\ 100 * FailuresIn(window') \in Int /\ 100 * failures' \in Int
          /\ ThresholdPercent * MinCalls \in Int
          /\ ThresholdPercent * Len(window') \in Int
      BY <2>3, <2>5
    <3> QED BY <2>2, <3>1, <3>2
  <2> QED BY <2>3, <2>4, <2>5
<1>2. Init => NoneUnheeded
  BY DEF Init, NoneUnheeded
<1>3. NoneUnheeded' =>
          (state' = "closed" /\ window' # <<>> /\ ~ window'[Len(window')] =>
              ~ /\ Len(window') >= MinCalls
                /\ 100 * FailuresIn(window') >= ThresholdPercent * Len(window'))
  BY DEF NoneUnheeded, RateReached, FailuresIn
<1>4. IInv /\ NoneUnheeded /\ [Next]_vars => [Step]_vars
  BY <1>1, <1>3, NoneUnheededKept
<1>5. IInv /\ NoneUnheeded /\ [Next]_vars => NoneUnheeded'
  BY NoneUnheededKept
<1> QED BY <1>2, <1>4, <1>5, Invariance, PTL DEF Spec, OpensOnEvidence
=============================================================================
