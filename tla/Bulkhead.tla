------------------------------ MODULE Bulkhead ------------------------------
(***************************************************************************)
(* The bulkhead in front of a provider                                     *)
(* (mcp/core/reliability/bulkhead.ts): calls run at once up to a limit,    *)
(* further calls wait in a bounded FIFO queue, and calls beyond that are   *)
(* rejected.                                                               *)
(*                                                                         *)
(* JavaScript runs each stretch of code between two awaits to its end.  A  *)
(* call that finishes resolves the promise of the first waiter; the waiter *)
(* itself goes on in a later job of the event loop, and jobs that were     *)
(* already due, among them new calls, run before it.  In between the       *)
(* waiter is "woken", and its slot is not counted in running.              *)
(***************************************************************************)
EXTENDS Naturals, Sequences, FiniteSets

CONSTANTS Executions,   \* the calls of execute, each made once
          Concurrency,  \* how many are meant to run at once
          MaxQueue      \* how many may wait

ASSUME BulkheadAssumption ==
    /\ Concurrency \in Nat \ {0}
    /\ MaxQueue \in Nat

VARIABLES status,   \* status[c]: how far call c has come
          running,  \* the counter of running calls
          queue,    \* the waiting calls, first come first
          arrivals  \* history: the calls that ever had to wait, as they came

bulkhead == <<status, running, queue, arrivals>>

Statuses == {"new", "queued", "woken", "running", "done", "rejected"}

RunningCalls == {c \in Executions : status[c] = "running"}
WokenCalls   == {c \in Executions : status[c] = "woken"}
QueuedCalls  == {c \in Executions : status[c] = "queued"}

-----------------------------------------------------------------------------
BulkheadInit ==
    /\ status = [c \in Executions |-> "new"]
    /\ running = 0
    /\ queue = <<>>
    /\ arrivals = <<>>

SetStatus(c, s) == status' = [status EXCEPT ![c] = s]

\* execute finds a free slot.
Enter(c) ==
    /\ status[c] = "new"
    /\ running < Concurrency
    /\ running' = running + 1
    /\ SetStatus(c, "running")
    /\ UNCHANGED <<queue, arrivals>>

\* Faulty variant: the call is put in front of those that wait.
EnqueueInFront(c) ==
    /\ status[c] = "new"
    /\ running >= Concurrency
    /\ Len(queue) < MaxQueue
    /\ queue' = <<c>> \o queue
    /\ arrivals' = Append(arrivals, c)
    /\ SetStatus(c, "queued")
    /\ UNCHANGED running

\* execute finds every slot taken and room in the queue.
Enqueue(c) ==
    /\ status[c] = "new"
    /\ running >= Concurrency
    /\ Len(queue) < MaxQueue
    /\ queue' = Append(queue, c)
    /\ arrivals' = Append(arrivals, c)
    /\ SetStatus(c, "queued")
    /\ UNCHANGED running

\* execute finds the queue full: BulkheadRejectedError.
Refuse(c) ==
    /\ status[c] = "new"
    /\ running >= Concurrency
    /\ Len(queue) >= MaxQueue
    /\ SetStatus(c, "rejected")
    /\ UNCHANGED <<running, queue, arrivals>>

\* Faulty variant: the call that waited is not counted.
ResumeUncounted(c) ==
    /\ status[c] = "woken"
    /\ SetStatus(c, "running")
    /\ UNCHANGED <<running, queue, arrivals>>

\* A woken call goes on: it takes its slot without looking at the counter.
Resume(c) ==
    /\ status[c] = "woken"
    /\ running' = running + 1
    /\ SetStatus(c, "running")
    /\ UNCHANGED <<queue, arrivals>>

\* Faulty variant: the waiters are forgotten when the call failed.
FinishForgetful(c) ==
    /\ status[c] = "running"
    /\ running' = running - 1
    /\ UNCHANGED arrivals
    /\ \/ /\ queue # <<>>
          /\ queue' = Tail(queue)
          /\ status' = [status EXCEPT ![c] = "done", ![Head(queue)] = "woken"]
       \/ /\ SetStatus(c, "done")
          /\ UNCHANGED queue

\* The protected function returned or threw: the slot is given up and the
\* first waiter is woken.
Finish(c) ==
    /\ status[c] = "running"
    /\ running' = running - 1
    /\ UNCHANGED arrivals
    /\ IF queue = <<>>
       THEN /\ SetStatus(c, "done")
            /\ UNCHANGED queue
       ELSE /\ queue' = Tail(queue)
            /\ status' = [status EXCEPT ![c] = "done",
                                        ![Head(queue)] = "woken"]

\* Nothing runs: the event loop waits for the next call.
Idle ==
    /\ RunningCalls = {} /\ WokenCalls = {}
    /\ UNCHANGED bulkhead

BulkheadNext ==
    \/ \E c \in Executions :
          Enter(c) \/ Enqueue(c) \/ Refuse(c) \/ Resume(c) \/ Finish(c)
    \/ Idle

BulkheadSpec == BulkheadInit /\ [][BulkheadNext]_bulkhead

\* A woken call is a job of the event loop, so it goes on.  That the
\* protected functions come to an end is asked of the providers: the code
\* sets no deadline around them.
BulkheadFairness ==
    \A c \in Executions : WF_bulkhead(Resume(c)) /\ WF_bulkhead(Finish(c))

FairBulkheadSpec == BulkheadSpec /\ BulkheadFairness

-----------------------------------------------------------------------------
(* Properties.                                                             *)

\* The counter counts the running calls, and the queue holds the queued
\* calls, each once.
BulkheadTypeOK ==
    /\ status \in [Executions -> Statuses]
    /\ running \in Nat
    /\ queue \in Seq(Executions)
    /\ arrivals \in Seq(Executions)
    /\ running = Cardinality(RunningCalls)
    /\ {queue[i] : i \in DOMAIN queue} = QueuedCalls
    /\ \A i, j \in DOMAIN queue : queue[i] = queue[j] => i = j
    /\ Len(queue) <= MaxQueue

\* finally: a call waits only while every slot is in use or has been handed
\* to a waiter that is about to go on; no slot is lost however the calls
\* end, so the queue cannot get stuck.
NoSlotLost ==
    queue # <<>> => running + Cardinality(WokenCalls) >= Concurrency

\* execute: whoever came to wait first is served first.  A call still waits
\* only if every call that came to wait after it waits as well, so none that
\* came later is woken, runs or ends before it.
FirstComeFirstServed ==
    \A i, j \in DOMAIN arrivals :
        i < j /\ status[arrivals[i]] = "queued" =>
            status[arrivals[j]] = "queued"

\* Every call comes to an end: it runs, or is rejected when it is made.
EveryCallEnds ==
    \A c \in Executions : status[c] = "queued" ~> status[c] = "done"

\* bulkhead.ts ("the upper limit of simultaneous executions"): no more
\* calls run at once than the limit.
AtMostConcurrency == running <= Concurrency
=============================================================================
