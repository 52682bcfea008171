------------------------------- MODULE Outbox -------------------------------
(***************************************************************************)
(* The transactional outbox                                                *)
(* (mcp/infrastructure/outbox/pgboss-outbox.ts) and its dispatchers        *)
(* (mcp/surface/bootstrap/bootstrap-outbox-dispatcher.ts).                 *)
(*                                                                         *)
(* A dispatch is one Postgres transaction: it locks some pending rows,     *)
(* sends each as a pg-boss job over another connection, notes the outcome  *)
(* in the row and commits.  What was sent stays sent when the transaction  *)
(* is rolled back.  The instances of the server take an advisory lock      *)
(* first (mcp/core/reliability/leader-election.ts); a tool or a script     *)
(* calls dispatchPending without it.                                       *)
(***************************************************************************)
EXTENDS Naturals, FiniteSets

CONSTANTS Messages,    \* ids of messages: numbers, in the order of the rows
          Instances,   \* server instances, which elect a leader
          Tools,       \* callers of dispatchPending without an election
          Limit,       \* how many rows a dispatch takes
          MaxAttempts, \* max_attempts of a row
          MaxFaults    \* bound: how often anything goes wrong, but for sends

Dispatchers == Instances \cup Tools

NoOne == "no one"

ASSUME OutboxAssumption ==
    /\ Messages \subseteq Nat
    /\ NoOne \notin Dispatchers
    /\ {Limit, MaxAttempts} \subseteq Nat \ {0}
    /\ MaxFaults \in Nat

VARIABLES rows,    \* the committed table; a message not enqueued has no row
          leader,  \* who holds the advisory lock
          phase,   \* phase[d]: where dispatcher d is
          locked,  \* locked[d]: the rows of d's transaction not yet handled
          sentIn,  \* sentIn[d]: what d sent in its open transaction
          failedIn,\* failedIn[d]: what it could not send
          sent,    \* sent[m]: jobs that exist for m
          doubts,  \* history: how often a send of m was not noted in its row
          faults   \* how much went wrong so far

vars == <<rows, leader, phase, locked, sentIn, failedIn, sent, doubts, faults>>

Row(status, attempts, due) == [status |-> status, attempts |-> attempts, due |-> due]

Absent == Row("absent", 0, FALSE)

Statuses == {"absent", "pending", "dispatched", "failed"}

Phases == {"idle", "select", "loop", "sent", "refused"}

-----------------------------------------------------------------------------
Init ==
    /\ rows = [m \in Messages |-> Absent]
    /\ leader = NoOne
    /\ phase = [d \in Dispatchers |-> "idle"]
    /\ locked = [d \in Dispatchers |-> {}]
    /\ sentIn = [d \in Dispatchers |-> {}]
    /\ failedIn = [d \in Dispatchers |-> {}]
    /\ sent = [m \in Messages |-> 0]
    /\ doubts = [m \in Messages |-> 0]
    /\ faults = 0

\* The row a dispatcher handles next: ORDER BY id.
NextRow(d) == CHOOSE m \in locked[d] : \A n \in locked[d] : m <= n

\* The rows under the lock of d's transaction.
Holds(d) == locked[d] \cup sentIn[d] \cup failedIn[d]

-----------------------------------------------------------------------------
\* enqueue: the row is inserted, due at once or later (availableAt).
Enqueue(m, due) ==
    /\ rows[m] = Absent
    /\ rows' = [rows EXCEPT ![m] = Row("pending", 0, due)]
    /\ UNCHANGED <<leader, phase, locked, sentIn, failedIn, sent, doubts, faults>>

\* available_at comes.
Due(m) ==
    /\ rows[m].status = "pending" /\ ~ rows[m].due
    /\ rows' = [rows EXCEPT ![m].due = TRUE]
    /\ UNCHANGED <<leader, phase, locked, sentIn, failedIn, sent, doubts, faults>>

\* runDispatchOnce, runIfLeader: an instance dispatches when it gets the
\* lock and is a follower otherwise; inFlight keeps its runs apart.
Start(d) ==
    /\ phase[d] = "idle"
    /\ \/ d \in Tools /\ UNCHANGED leader
       \/ d \in Instances /\ leader = NoOne /\ leader' = d
    /\ phase' = [phase EXCEPT ![d] = "select"]
    /\ UNCHANGED <<rows, locked, sentIn, failedIn, sent, doubts, faults>>

Candidates == {m \in Messages : /\ rows[m].status = "pending"
                                /\ rows[m].due
                                /\ rows[m].attempts < MaxAttempts}

FirstOf(S) == {m \in S : Cardinality({n \in S : n < m}) < Limit}

\* Faulty variant: the rows are read but not locked.
AvailableUnlocked == Candidates

\* FOR UPDATE SKIP LOCKED
Available == Candidates \ UNION {Holds(d) : d \in Dispatchers}

\* BEGIN and SELECT ... FOR UPDATE SKIP LOCKED LIMIT
Select(d) ==
    /\ phase[d] = "select"
    /\ locked' = [locked EXCEPT ![d] = FirstOf(Available)]
    /\ phase' = [phase EXCEPT ![d] = "loop"]
    /\ UNCHANGED <<rows, leader, sentIn, failedIn, sent, doubts, faults>>

\* boss.send creates the job.
Send(d) ==
    /\ phase[d] = "loop" /\ locked[d] # {}
    /\ sent' = [sent EXCEPT ![NextRow(d)] = @ + 1]
    /\ phase' = [phase EXCEPT ![d] = "sent"]
    /\ UNCHANGED <<rows, leader, locked, sentIn, failedIn, doubts, faults>>

\* boss.send throws and there is no job.
SendFails(d) ==
    /\ phase[d] = "loop" /\ locked[d] # {}
    /\ phase' = [phase EXCEPT ![d] = "refused"]
    /\ UNCHANGED <<rows, leader, locked, sentIn, failedIn, sent, doubts, faults>>

\* boss.send creates the job and throws: the answer was lost.
SendAnswerLost(d) ==
    /\ phase[d] = "loop" /\ locked[d] # {}
    /\ faults < MaxFaults /\ faults' = faults + 1
    /\ sent' = [sent EXCEPT ![NextRow(d)] = @ + 1]
    /\ doubts' = [doubts EXCEPT ![NextRow(d)] = @ + 1]
    /\ phase' = [phase EXCEPT ![d] = "refused"]
    /\ UNCHANGED <<rows, leader, locked, sentIn, failedIn>>

\* The two UPDATEs: the outcome is noted inside the transaction.
Note(d) ==
    /\ \/ /\ phase[d] = "sent"
          /\ sentIn' = [sentIn EXCEPT ![d] = @ \cup {NextRow(d)}]
          /\ UNCHANGED failedIn
       \/ /\ phase[d] = "refused"
          /\ failedIn' = [failedIn EXCEPT ![d] = @ \cup {NextRow(d)}]
          /\ UNCHANGED sentIn
    /\ locked' = [locked EXCEPT ![d] = @ \ {NextRow(d)}]
    /\ phase' = [phase EXCEPT ![d] = "loop"]
    /\ UNCHANGED <<rows, leader, sent, doubts, faults>>

\* Faulty variant: the limit is compared with the attempts so far.
AfterFailureOffByOne(r) ==
    Row(IF r.attempts >= MaxAttempts THEN "failed" ELSE "pending", r.attempts + 1, FALSE)

\* The row of a message that could not be sent.
AfterFailure(r) ==
    Row(IF r.attempts + 1 >= MaxAttempts THEN "failed" ELSE "pending",
        r.attempts + 1, FALSE)

\* Faulty variant: the row is marked whether the send went well or not.
CommittedUnread(d) ==
    [m \in Messages |->
        IF m \in sentIn[d] \cup failedIn[d]
        THEN Row("dispatched", rows[m].attempts + 1, rows[m].due)
        ELSE rows[m]]

\* The table as the transaction of d leaves it.
Committed(d) ==
    [m \in Messages |->
        CASE m \in sentIn[d]   -> Row("dispatched", rows[m].attempts + 1, rows[m].due)
          [] m \in failedIn[d] -> AfterFailure(rows[m])
          [] OTHER             -> rows[m]]

\* The transaction of d is over, and with it the lock of runIfLeader.
End(d) ==
    /\ phase' = [phase EXCEPT ![d] = "idle"]
    /\ locked' = [locked EXCEPT ![d] = {}]
    /\ sentIn' = [sentIn EXCEPT ![d] = {}]
    /\ failedIn' = [failedIn EXCEPT ![d] = {}]
    /\ leader' = IF leader = d THEN NoOne ELSE leader

\* COMMIT
Commit(d) ==
    /\ phase[d] = "loop" /\ locked[d] = {}
    /\ rows' = Committed(d)
    /\ End(d)
    /\ UNCHANGED <<sent, doubts, faults>>

\* What d sent without a trace in the table.
Unnoted(d) == sentIn[d] \cup (IF phase[d] = "sent" THEN {NextRow(d)} ELSE {})

\* An SQL statement fails, the connection is lost or the process dies:
\* ROLLBACK, whatever was sent.
Rollback(d) ==
    /\ phase[d] # "idle"
    /\ faults < MaxFaults /\ faults' = faults + 1
    /\ doubts' = [m \in Messages |-> IF m \in Unnoted(d) THEN doubts[m] + 1
                                                         ELSE doubts[m]]
    /\ End(d)
    /\ UNCHANGED <<rows, sent>>

\* The connection that holds the advisory lock is lost: Postgres frees the
\* lock, and the leader, which does not look at it again, goes on.
LockLost ==
    /\ leader # NoOne
    /\ faults < MaxFaults /\ faults' = faults + 1
    /\ leader' = NoOne
    /\ UNCHANGED <<rows, phase, locked, sentIn, failedIn, sent, doubts>>

Step(d) == Select(d) \/ Send(d) \/ SendFails(d) \/ Note(d) \/ Commit(d)

Next ==
    \/ \E m \in Messages : Due(m) \/ \E due \in BOOLEAN : Enqueue(m, due)
    \/ \E d \in Dispatchers :
          Start(d) \/ Step(d) \/ SendAnswerLost(d) \/ Rollback(d)
    \/ LockLost

Spec == Init /\ [][Next]_vars

\* Time passes, the timer of some instance goes off again and again, and a
\* dispatch under way goes on.
Fairness ==
    /\ \A m \in Messages : WF_vars(Due(m))
    /\ WF_vars(\E d \in Instances : Start(d))
    /\ \A d \in Dispatchers : WF_vars(Step(d))

FairSpec == Spec /\ Fairness

-----------------------------------------------------------------------------
(* Properties.                                                             *)

\* A pending row has attempts left, or no dispatch would ever take it again;
\* a failed row has used them up.
TypeOK ==
    /\ rows \in [Messages -> [status : Statuses, attempts : 0 .. MaxAttempts,
                              due : BOOLEAN]]
    /\ leader \in Instances \cup {NoOne}
    /\ phase \in [Dispatchers -> Phases]
    /\ {locked, sentIn, failedIn} \subseteq [Dispatchers -> SUBSET Messages]
    /\ {sent, doubts} \subseteq [Messages -> Nat]
    /\ faults \in 0 .. MaxFaults
    /\ \A m \in Messages :
          /\ rows[m].status = "pending" => rows[m].attempts < MaxAttempts
          /\ rows[m].status = "failed"  => rows[m].attempts = MaxAttempts

\* dispatchPending: a message marked as dispatched has a job, whatever sends
\* failed and whatever transactions were rolled back before.
DispatchedWasSent ==
    \A m \in Messages : rows[m].status = "dispatched" => sent[m] > 0

\* FOR UPDATE SKIP LOCKED: a message has more than one job only as often as
\* a send was not noted, be it that its transaction was rolled back or that
\* its answer was lost; dispatchers running side by side add none.
SendsAccountedFor == \A m \in Messages : sent[m] <= 1 + doubts[m]

\* A message waiting in the outbox is dispatched or given up in the end.
Settles ==
    \A m \in Messages : rows[m].status = "pending" ~> rows[m].status # "pending"
=============================================================================
