---------------------------- MODULE Orchestration ----------------------------
(***************************************************************************)
(* One orchestrated chat session: the queue of the agents that have yet to *)
(* speak, kept four times over                                             *)
(*                                                                         *)
(*   - in the session object of the live cache (session.queue),            *)
(*   - in the session store, where upsert writes the whole object          *)
(*     (mcp/core/persistence/session-store.*.ts),                          *)
(*   - in the queue store, from which agents are dequeued                  *)
(*     (mcp/infrastructure/workflow/orchestration-queue-store.ts),         *)
(*   - as the step records of the workflow engine                          *)
(*     (in-process-workflow-engine.ts, orchestration-job-runner.ts),       *)
(*                                                                         *)
(* and the tools that work on it: dequeue_next_agent, evaluate_triggers,   *)
(* save_ and restore_orchestration_session                                 *)
(* (mcp/core/application/chat/services/).  A tool call runs until it waits *)
(* for a file, a database or the queue store; then another one may go on.  *)
(* No call takes a lock on the session.  A restart of the server loses the *)
(* live cache and every call under way.                                    *)
(*                                                                         *)
(* A write to a store takes effect when it is issued; replace of the       *)
(* Postgres queue store, which sends the jobs one by one, is one step.     *)
(***************************************************************************)
EXTENDS Naturals, Sequences, FiniteSets, SequencesExt

CONSTANTS Agents,
          Initial,     \* the agents orchestrate_chat was called with
          Callers,     \* tool calls that may be under way at once
          Durable,     \* whether queue store and steps outlive the process
          MaxBatch,    \* bound: how many agents one call asks for
          MaxTurns,    \* bound: how many agents evaluate_triggers asks for
          MaxEnds,     \* bound: how often the session ends
          MaxRestarts  \* bound: how often the server restarts

ASSUME OrchestrationAssumption ==
    /\ Initial \in Seq(Agents)
    /\ Durable \in BOOLEAN
    /\ {MaxBatch, MaxTurns, MaxEnds, MaxRestarts} \subseteq Nat

VARIABLES arrays,    \* the arrays that have been some session's queue
          objects,   \* the session objects there have been: which array is
                     \* the session.queue of each
          live,      \* the object in the live cache, 0 if there is none
          stored,    \* the queue in the session store
          jobs,      \* the queue in the queue store
          steps,     \* the step records, by step index
          call,      \* call[c]: the tool call c makes
          requested, \* history: how often an agent was put in the queue
          handed,    \* history: how often an agent was handed to a client
          turns, ends, restarts  \* history: turns recorded, session_end
                                 \* events, restarts

history == <<requested, handed, turns, ends, restarts>>
vars == <<arrays, objects, live, stored, jobs, steps, call, history>>

NoCall == [at |-> "idle", op |-> "none", obj |-> 0, array |-> 0,
           agents |-> <<>>, index |-> 0]

Step(a) == [agent |-> a, status |-> "queued"]

Count(q, a) == Cardinality({i \in DOMAIN q : q[i] = a})

\* session.queue, for the object call c holds
Queue(c) == arrays[objects[call[c].obj]]

\* That array, changed in place.
QueueBecomes(c, q) == arrays' = [arrays EXCEPT ![objects[call[c].obj]] = q]

-----------------------------------------------------------------------------
\* What orchestrate_chat leaves: persistInitialOrchestrationSession fills
\* the queue store, and the workflow engine it then starts fills it again.
Init ==
    /\ arrays = <<Initial>> /\ objects = <<1>>
    /\ live = 1
    /\ stored = Initial
    /\ jobs = Initial \o Initial
    /\ steps = [i \in DOMAIN Initial |-> Step(Initial[i])]
    /\ call = [c \in Callers |-> NoCall]
    /\ requested = [a \in Agents |-> Count(Initial, a)]
    /\ handed = [a \in Agents |-> 0]
    /\ turns = 0 /\ ends = 0 /\ restarts = 0

\* What a call does without waiting for anything once it has come so far:
\* no other call runs in between.
AtOnce == {"push", "revive", "store"}

\* Call c has come to a step and may run.
At(c, step) ==
    call[c].at = step /\ \A d \in Callers \ {c} : call[d].at \notin AtOnce

Goto(c, at) == call' = [call EXCEPT ![c].at = at]

\* A tool is called: op with its argument, the number of agents to dequeue
\* or the agents the trigger rules ask for.
Begin(c, op, agents, index) ==
    /\ At(c, "idle")
    /\ call' = [call EXCEPT ![c] = [NoCall EXCEPT !.at = "get", !.op = op,
                                                  !.agents = agents, !.index = index]]
    /\ UNCHANGED <<arrays, objects, live, stored, jobs, steps, history>>

\* Where a call goes on once it has its session.
AfterGet(op) == CASE op = "dequeue"  -> "order"
                  [] op = "evaluate" -> "push"
                  [] op = "save"     -> "store"
                  [] op = "restore"  -> "revive"

\* Faulty variant: what the cache has is taken, if it has anything or not.
GetUnchecked(c) ==
    /\ At(c, "get")
    /\ call' = [call EXCEPT ![c].obj = live, ![c].at = AfterGet(call[c].op)]
    /\ UNCHANGED <<arrays, objects>>
    /\ UNCHANGED <<live, stored, jobs, steps, history>>

\* getSessionOrRestore: the object in the cache, or a new one made of the
\* stored session.
Get(c) ==
    /\ At(c, "get")
    /\ IF live # 0
       THEN /\ call' = [call EXCEPT ![c].obj = live, ![c].at = AfterGet(call[c].op)]
            /\ UNCHANGED <<arrays, objects>>
       ELSE /\ arrays' = Append(arrays, stored)
            /\ objects' = Append(objects, Len(arrays) + 1)
            /\ call' = [call EXCEPT ![c].obj = Len(objects) + 1, ![c].at = "cache"]
    /\ UNCHANGED <<live, stored, jobs, steps, history>>

\* The rest of it: the queue store is filled and the new object cached.
Cache(c) ==
    /\ At(c, "cache")
    /\ jobs' = Queue(c)
    /\ live' = call[c].obj
    /\ Goto(c, AfterGet(call[c].op))
    /\ UNCHANGED <<arrays, objects, stored, steps, history>>

\* setLiveSession of restore_orchestration_session
Revive(c) ==
    /\ At(c, "revive")
    /\ live' = call[c].obj
    /\ call' = [call EXCEPT ![c] = NoCall]
    /\ UNCHANGED <<arrays, objects, stored, jobs, steps, history>>

-----------------------------------------------------------------------------
(* dequeue_next_agent                                                      *)

\* An agent moved to the head of a queue.
Foremost(q, a) ==
    IF Contains(q, a) THEN <<a>> \o RemoveFirst(q, a) ELSE q

\* applyAgentGraphRecommendation: nobody, or one of the waiting agents.
Recommendations(q) == {<<>>} \cup {<<q[i]>> : i \in DOMAIN q}

\* What prioritizeQueueByPolicy makes of a queue: the same agents in the
\* order of a score of the agent alone, ties by its name, whatever the order
\* before.
Ranked(q, rank) ==
    {r \in [DOMAIN q -> Agents] :
        /\ \A a \in Agents : Count(r, a) = Count(q, a)
        /\ \A i, j \in DOMAIN rank :
              i < j => \A m, n \in DOMAIN r :
                          r[m] = rank[i] /\ r[n] = rank[j] => m < n}

Rankings == {r \in [1 .. Cardinality(Agents) -> Agents] : IsInjective(r)}

\* The recommended agent goes to the head of the queue, and the policy is
\* given the array that is the queue now.
Order(c, favourite) ==
    /\ At(c, "order") /\ Len(Queue(c)) > 1
    /\ QueueBecomes(c, IF favourite = <<>> THEN Queue(c)
                                           ELSE Foremost(Queue(c), favourite[1]))
    /\ call' = [call EXCEPT ![c].array = objects[call[c].obj], ![c].at = "assign"]
    /\ UNCHANGED <<objects, live, stored, jobs, steps, history>>

\* Once the reputations are loaded, session.queue = result.ordered: a sorted
\* copy of the array the policy was given, and the queue store is filled
\* with it.
Assign(c, rank) ==
    /\ At(c, "assign")
    /\ \E ordered \in Ranked(arrays[call[c].array], rank) :
          /\ arrays' = Append(arrays, ordered)
          /\ objects' = [objects EXCEPT ![call[c].obj] = Len(arrays) + 1]
          /\ jobs' = ordered
    /\ Goto(c, "fetch")
    /\ UNCHANGED <<live, stored, steps, history>>

\* A queue of at most one agent is not sorted.
Fill(c) ==
    /\ At(c, "order") /\ Len(Queue(c)) <= 1
    /\ jobs' = Queue(c)
    /\ Goto(c, "fetch")
    /\ UNCHANGED <<arrays, objects, live, stored, steps, history>>

SmallerOf(m, n) == IF m < n THEN m ELSE n

\* orchestrationQueueStore.dequeue
Fetch(c) ==
    /\ At(c, "fetch")
    /\ LET n == SmallerOf(call[c].index, Len(jobs))
       IN  /\ call' = [call EXCEPT ![c].agents = SubSeq(jobs, 1, n), ![c].at = "take"]
           /\ jobs' = SubSeq(jobs, n + 1, Len(jobs))
    /\ UNCHANGED <<arrays, objects, live, stored, steps, history>>

\* The step at index i gets a new status; none if i is 0.
SetStep(s, i, status) == IF i = 0 THEN s ELSE [s EXCEPT ![i].status = status]

StepsOf(s, a, status) == {i \in DOMAIN s : s[i] = [agent |-> a, status |-> status]}

Earliest(S) == IF S = {} THEN 0 ELSE CHOOSE i \in S : \A j \in S : i <= j
Latest(S)   == IF S = {} THEN 0 ELSE CHOOSE i \in S : \A j \in S : i >= j

\* markDequeued: the first queued step of the agent is running.
MarkDequeued(s, a) == SetStep(s, Earliest(StepsOf(s, a, "queued")), "running")

\* Faulty variant: the last step is completed, running or not.
CompleteStepAny(s, a) ==
    SetStep(s, Latest({i \in DOMAIN s : s[i].agent = a}), "completed")

\* completeStep: the last running step of the agent is completed.
CompleteStep(s, a) == SetStep(s, Latest(StepsOf(s, a, "running")), "completed")

\* Faulty variant: every turn the agent still has goes with this one.
WithoutAll(q, taken) == SelectSeq(q, LAMBDA a : ~ Contains(taken, a))

\* splice: one occurrence of each agent leaves the session's queue.
Without(q, taken) == FoldLeft(RemoveFirst, q, taken)

\* Each agent's step is marked, then session.queue is cut.
Take(c) ==
    /\ At(c, "take")
    /\ steps' = FoldLeft(MarkDequeued, steps, call[c].agents)
    /\ QueueBecomes(c, Without(Queue(c), call[c].agents))
    /\ Goto(c, "store")
    /\ UNCHANGED <<objects, live, stored, jobs, history>>

\* Faulty variant: the session is not written any more once it is there.
StoreSkipped(c) ==
    /\ At(c, "store")
    /\ IF call[c].op = "dequeue" THEN Goto(c, "complete")
                                 ELSE call' = [call EXCEPT ![c] = NoCall]
    /\ UNCHANGED <<arrays, stored, objects, live, jobs, steps, history>>

\* sessionStore.upsert(session, -1): no version is compared.
Store(c) ==
    /\ At(c, "store")
    /\ stored' = Queue(c)
    /\ IF call[c].op = "dequeue" THEN Goto(c, "complete")
                                 ELSE call' = [call EXCEPT ![c] = NoCall]
    /\ UNCHANGED <<arrays, objects, live, jobs, steps, history>>

\* The agents of the answer are with the client.
HandOver(c) == handed' = [a \in Agents |-> handed[a] + Count(call[c].agents, a)]

\* The steps are completed, and the session ends when its queue is empty.
Complete(c) ==
    /\ At(c, "complete")
    /\ steps' = FoldLeft(CompleteStep, steps, call[c].agents)
    /\ IF Queue(c) = <<>>
       THEN Goto(c, "persist") /\ UNCHANGED handed
       ELSE HandOver(c) /\ call' = [call EXCEPT ![c] = NoCall]
    /\ UNCHANGED <<arrays, objects, live, stored, jobs, requested, turns, ends,
                   restarts>>

\* finalizeSessionWhenQueueEmpty, once the sequence has been recorded.
Persist(c) ==
    /\ At(c, "persist")
    /\ stored' = Queue(c)
    /\ Goto(c, "finish")
    /\ UNCHANGED <<arrays, objects, live, jobs, steps, history>>

\* The session leaves the cache and session_end is emitted; the writes of
\* history and knowledge graph in between are left out.
Finish(c) ==
    /\ At(c, "finish") /\ ends < MaxEnds
    /\ live' = 0
    /\ jobs' = <<>>
    /\ ends' = ends + 1
    /\ HandOver(c)
    /\ call' = [call EXCEPT ![c] = NoCall]
    /\ UNCHANGED <<arrays, objects, stored, steps, requested, turns, restarts>>

-----------------------------------------------------------------------------
(* evaluate_triggers                                                       *)

\* applyTriggerTurnToSession: the turn is recorded and the next agents join
\* the queue.
Push(c) ==
    /\ At(c, "push")
    /\ LET next == call[c].agents
           q    == Queue(c) \o next
       IN  /\ QueueBecomes(c, q)
           /\ jobs' = q
           /\ requested' = [a \in Agents |-> requested[a] + Count(next, a)]
           /\ Goto(c, IF next = <<>> THEN "store" ELSE "enqueue")
    /\ turns' = turns + 1
    /\ UNCHANGED <<objects, live, stored, steps, handed, ends, restarts>>

\* workflowEngine.enqueue: the next step index is read and the agents are
\* queued once more.
Enqueue(c) ==
    /\ At(c, "enqueue")
    /\ jobs' = jobs \o call[c].agents
    /\ call' = [call EXCEPT ![c].index = Len(steps), ![c].at = "steps"]
    /\ UNCHANGED <<arrays, objects, live, stored, steps, history>>

\* enqueueStep for each agent; an index that is taken is left as it is.
EnqueueSteps(c) ==
    /\ At(c, "steps")
    /\ LET next == call[c].agents
           free == Len(steps) - call[c].index
       IN  steps' = steps \o [i \in 1 .. Len(next) - SmallerOf(free, Len(next)) |->
                                 Step(next[i + free])]
    /\ Goto(c, "store")
    /\ UNCHANGED <<arrays, objects, live, stored, jobs, history>>

-----------------------------------------------------------------------------
\* The process ends and another one starts on the same stores.
Restart ==
    /\ restarts < MaxRestarts
    /\ restarts' = restarts + 1
    /\ arrays' = <<>> /\ objects' = <<>> /\ live' = 0
    /\ call' = [c \in Callers |-> NoCall]
    /\ IF Durable THEN UNCHANGED <<jobs, steps>> ELSE jobs' = <<>> /\ steps' = <<>>
    /\ UNCHANGED <<stored, requested, handed, turns, ends>>

Next ==
    \/ \E c \in Callers :
          \/ ends < MaxEnds /\ \E n \in 1 .. MaxBatch : Begin(c, "dequeue", <<>>, n)
          \/ turns < MaxTurns /\ \E next \in {<<>>} \cup {<<a>> : a \in Agents} :
                Begin(c, "evaluate", next, 0)
          \/ \E op \in {"save", "restore"} : Begin(c, op, <<>>, 0)
          \/ Get(c) \/ Cache(c) \/ Revive(c)
          \/ At(c, "order") /\
                \E favourite \in Recommendations(Queue(c)) : Order(c, favourite)
          \/ \E rank \in Rankings : Assign(c, rank)
          \/ Fill(c) \/ Fetch(c) \/ Take(c) \/ Store(c) \/ Complete(c)
          \/ Persist(c) \/ Finish(c)
          \/ Push(c) \/ Enqueue(c) \/ EnqueueSteps(c)
    \/ Restart

Spec == Init /\ [][Next]_vars

-----------------------------------------------------------------------------
(* Properties.                                                             *)

Quiet == \A c \in Callers : call[c].at = "idle"

\* The queue of the session, as the next call will find it.
SessionQueue == IF live # 0 THEN arrays[objects[live]] ELSE stored

\* Calls hold an object that exists, and every queue is one of agents.
TypeOK ==
    /\ arrays \in Seq(Seq(Agents)) /\ objects \in Seq(DOMAIN arrays)
    /\ live \in 0 .. Len(objects)
    /\ stored \in Seq(Agents) /\ jobs \in Seq(Agents)
    /\ \A i \in DOMAIN steps : steps[i].agent \in Agents
    /\ \A c \in Callers :
          call[c].at \notin {"idle", "get"} => call[c].obj \in DOMAIN objects

\* docs/features/06-orchestration.md ("takes the next agent out of the head
\* of the queue"): an agent is handed out only as often as it was put in the
\* queue, restarts or not: what was taken before a crash is not handed out
\* again after the answer.
NeverTwice == \A a \in Agents : handed[a] <= requested[a]

\* Between calls, as long as the server has not been restarted, an agent put
\* in the queue has been handed out or still waits.
NoneForgotten ==
    Quiet /\ restarts = 0 =>
        \A a \in Agents : requested[a] = handed[a] + Count(SessionQueue, a)

\* upsert, markDequeued, completeStep: between calls cache, session store and
\* step records tell the same story.  What is live is stored, so a restart
\* there loses nothing; a step waits for each agent in the queue, and one is
\* completed for each agent that was handed out.
RecordsAgree ==
    Quiet =>
        /\ live # 0 => stored = SessionQueue
        /\ restarts = 0 => \A a \in Agents :
              /\ Cardinality(StepsOf(steps, a, "queued")) = Count(SessionQueue, a)
              /\ Cardinality(StepsOf(steps, a, "completed")) = handed[a]
=============================================================================
