------------------------ MODULE PgBossProposalQueue ------------------------
(***************************************************************************)
(* The Postgres store of resource-creation proposals                       *)
(* (mcp/core/resource/proposal/pg-boss-proposal-queue.ts): one row per     *)
(* proposal, and a pg-boss job that announces it.                          *)
(*                                                                         *)
(* Each SQL statement and each pg-boss call is awaited, so the operations  *)
(* of concurrent callers interleave between them (one server interleaves   *)
(* its own tool calls, and several servers may share the database):        *)
(*                                                                         *)
(*   enqueue    INSERT the row; send the job; UPDATE boss_job_id           *)
(*   decisions  SELECT and check the row; UPDATE it; delete the job read   *)
(*                                                                         *)
(* The UPDATE of updatePending asks for status = 'pending'; the UPDATE of  *)
(* moveProposal does not.                                                  *)
(***************************************************************************)
EXTENDS ProposalRecords

CONSTANTS Ids,        \* the proposal ids
          Callers,    \* the concurrent calls of the store
          NoRow,      \* there is no such row
          PoolMayEnd, \* a query may find its connection pool ended
          MayCrash    \* the process of a caller may die between two steps

ASSUME StoreAssumption ==
    /\ NoRow \notin Records
    /\ PoolMayEnd \in BOOLEAN /\ MayCrash \in BOOLEAN

VARIABLES
    row,       \* row[p]: the row of proposal p in resource_proposals
    jobId,     \* jobId[p]: its boss_job_id is set
    jobs,      \* the proposals whose job is in the pg-boss queue
    pc,        \* pc[c]: what caller c does next
    target,    \* target[c]: the proposal it works on
    draft,     \* draft[c]: the row it is going to write
    seenJob,   \* seenJob[c]: the boss_job_id it read was set
    retried    \* retried[c]: withRetry has reconnected once for this call

vars == <<row, jobId, jobs, pc, target, draft, seenJob, retried>>

Rows == Records \cup {NoRow}

Decided(p) == row[p] # NoRow /\ row[p].status # "pending"

-----------------------------------------------------------------------------
Init ==
    /\ row     = [p \in Ids |-> NoRow]
    /\ jobId   = [p \in Ids |-> FALSE]
    /\ jobs    = {}
    /\ pc      = [c \in Callers |-> "idle"]
    /\ target  \in [Callers -> Ids]
    /\ draft   = [c \in Callers |-> NoRow]
    /\ seenJob = [c \in Callers |-> FALSE]
    /\ retried = [c \in Callers |-> FALSE]

Goto(c, label) == pc' = [pc EXCEPT ![c] = label]

\* The call returns or throws; its local state is forgotten.
Return(c) ==
    /\ Goto(c, "idle")
    /\ draft' = [draft EXCEPT ![c] = NoRow]
    /\ seenJob' = [seenJob EXCEPT ![c] = FALSE]
    /\ retried' = [retried EXCEPT ![c] = FALSE]
    /\ UNCHANGED target

-----------------------------------------------------------------------------
(* enqueue                                                                 *)

CallEnqueue(c, creator) ==
    /\ pc[c] = "idle"
    /\ Goto(c, "insert")
    /\ draft' = [draft EXCEPT ![c] = NewRecord(creator)]
    /\ UNCHANGED <<row, jobId, jobs, target, seenJob, retried>>

\* nextProposalId gives an id no row has.
InsertRow(c, p) ==
    /\ pc[c] = "insert"
    /\ row[p] = NoRow
    /\ row' = [row EXCEPT ![p] = draft[c]]
    /\ target' = [target EXCEPT ![c] = p]
    /\ Goto(c, "send")
    /\ UNCHANGED <<jobId, jobs, draft, seenJob, retried>>

\* boss.send: gives a job id, or null and then there is nothing to record,
\* or throws.
SendJob(c) ==
    /\ pc[c] = "send"
    /\ \/ /\ jobs' = jobs \cup {target[c]}
          /\ Goto(c, "record")
          /\ UNCHANGED <<target, draft, seenJob, retried>>
       \/ /\ Return(c)
          /\ UNCHANGED jobs
    /\ UNCHANGED <<row, jobId>>

RecordJob(c) ==
    /\ pc[c] = "record"
    /\ jobId' = [jobId EXCEPT ![target[c]] = TRUE]
    /\ Return(c)
    /\ UNCHANGED <<row, jobs>>

\* withRetry: a query of an enqueue finds the pool ended.  The first time
\* the store reconnects and runs the whole operation again, under a new id;
\* the second time the error goes to the caller.
PoolEnded(c) ==
    /\ PoolMayEnd
    /\ pc[c] \in {"insert", "send", "record"}
    /\ IF retried[c] THEN Return(c)
       ELSE /\ Goto(c, "insert")
            /\ retried' = [retried EXCEPT ![c] = TRUE]
            /\ UNCHANGED <<target, draft, seenJob>>
    /\ UNCHANGED <<row, jobId, jobs>>

-----------------------------------------------------------------------------
(* The decisions.  requirePending reads the row and refuses it unless it   *)
(* is pending; the checks and the new record are computed from what it     *)
(* read, and written in a later step.                                      *)

\* Faulty variant: every decision moves the row.
RequirePendingAlwaysMove(c, p, record) ==
    /\ pc[c] = "idle"
    /\ row[p] # NoRow /\ row[p].status = "pending"
    /\ target' = [target EXCEPT ![c] = p]
    /\ draft' = [draft EXCEPT ![c] = record]
    /\ seenJob' = [seenJob EXCEPT ![c] = jobId[p]]
    /\ Goto(c, "move")
    /\ UNCHANGED <<row, jobId, jobs, retried>>

RequirePending(c, p, record) ==
    /\ pc[c] = "idle"
    /\ row[p] # NoRow /\ row[p].status = "pending"
    /\ target' = [target EXCEPT ![c] = p]
    /\ draft' = [draft EXCEPT ![c] = record]
    /\ seenJob' = [seenJob EXCEPT ![c] = jobId[p]]
    /\ Goto(c, IF record.status = "pending" THEN "update" ELSE "move")
    /\ UNCHANGED <<row, jobId, jobs, retried>>

Approve(c, p) ==
    /\ row[p] # NoRow
    /\ RequirePending(c, p, DirectlyApproved(row[p]))

Reject(c, p) ==
    /\ row[p] # NoRow
    /\ RequirePending(c, p, DirectlyRejected(row[p]))

ApproveStage(c, p, stage, actor, relaxed) ==
    /\ row[p] # NoRow
    /\ MayDecideStage(row[p], stage, actor, relaxed)
    /\ RequirePending(c, p, StageApproved(row[p], stage, actor, relaxed))

RejectStage(c, p, stage, actor, relaxed) ==
    /\ row[p] # NoRow
    /\ MayDecideStage(row[p], stage, actor, relaxed)
    /\ RequirePending(c, p, StageRejected(row[p], stage, actor, relaxed))

\* Faulty variant: the UPDATE forgets AND status = 'pending'.
UpdatePendingUnguarded(c) ==
    /\ pc[c] = "update"
    /\ row' = [row EXCEPT ![target[c]] = draft[c]]
    /\ Return(c)
    /\ UNCHANGED <<jobId, jobs>>

\* Faulty variant: the job goes with every decision.
UpdatePendingDropsJob(c) ==
    /\ pc[c] = "update"
    /\ row' = IF row[target[c]].status = "pending"
              THEN [row EXCEPT ![target[c]] = draft[c]] ELSE row
    /\ jobs' = IF seenJob[c] THEN jobs \ {target[c]} ELSE jobs
    /\ Return(c)
    /\ UNCHANGED jobId

\* updatePending: no row is updated when the proposal is decided meanwhile,
\* and the call succeeds all the same.
UpdatePending(c) ==
    /\ pc[c] = "update"
    /\ row' = IF row[target[c]].status = "pending"
              THEN [row EXCEPT ![target[c]] = draft[c]] ELSE row
    /\ Return(c)
    /\ UNCHANGED <<jobId, jobs>>

\* Faulty variant: boss_job_id is kept.
MoveProposalKeepsJobId(c) ==
    /\ pc[c] = "move"
    /\ row' = [row EXCEPT ![target[c]] = draft[c]]
    /\ IF seenJob[c] THEN Goto(c, "delete")
                          /\ UNCHANGED <<target, draft, seenJob, retried>>
                     ELSE Return(c)
    /\ UNCHANGED <<jobs, jobId>>

\* moveProposal: whatever the row has become since it was read.
MoveProposal(c) ==
    /\ pc[c] = "move"
    /\ row' = [row EXCEPT ![target[c]] = draft[c]]
    /\ jobId' = [jobId EXCEPT ![target[c]] = FALSE]
    /\ IF seenJob[c] THEN Goto(c, "delete")
                          /\ UNCHANGED <<target, draft, seenJob, retried>>
                     ELSE Return(c)
    /\ UNCHANGED jobs

\* boss.deleteJob; its failure is ignored.
DeleteJob(c) ==
    /\ pc[c] = "delete"
    /\ jobs' \in {jobs \ {target[c]}, jobs}
    /\ Return(c)
    /\ UNCHANGED <<row, jobId>>

Crash(c) ==
    /\ MayCrash
    /\ pc[c] # "idle"
    /\ Return(c)
    /\ UNCHANGED <<row, jobId, jobs>>

Next ==
    \E c \in Callers :
        \/ \E creator \in Spellings \cup {NoActor} : CallEnqueue(c, creator)
        \/ \E p \in Ids : InsertRow(c, p)
        \/ SendJob(c) \/ RecordJob(c) \/ PoolEnded(c)
        \/ \E p \in Ids : Approve(c, p) \/ Reject(c, p)
        \/ \E p \in Ids, stage \in Stages, actor \in Spellings,
              relaxed \in BOOLEAN :
              \/ ApproveStage(c, p, stage, actor, relaxed)
              \/ RejectStage(c, p, stage, actor, relaxed)
        \/ UpdatePending(c) \/ MoveProposal(c) \/ DeleteJob(c) \/ Crash(c)

Spec == Init /\ [][Next]_vars

-----------------------------------------------------------------------------
(* Properties.                                                             *)

PcLabels == {"idle", "insert", "send", "record",
             "update", "move", "delete"}

\* Rows, drafts and the local state of the callers: updatePending is given
\* a pending draft, moveProposal a decided one, and the row they write is
\* there.
TypeOK ==
    /\ row \in [Ids -> Rows]
    /\ jobId \in [Ids -> BOOLEAN]
    /\ jobs \subseteq Ids
    /\ pc \in [Callers -> PcLabels]
    /\ target \in [Callers -> Ids]
    /\ draft \in [Callers -> Rows]
    /\ seenJob \in [Callers -> BOOLEAN]
    /\ retried \in [Callers -> BOOLEAN]
    /\ \A c \in Callers :
          /\ pc[c] \notin {"idle", "insert"} => row[target[c]] # NoRow
          /\ pc[c] # "idle" => draft[c] # NoRow
          /\ pc[c] \notin {"idle", "move", "delete"} =>
                draft[c].status = "pending"
          /\ pc[c] = "move" => draft[c].status # "pending"

\* However the reads and writes of concurrent decisions interleave, every
\* row is one a sequence of decisions could have produced: a pending row is
\* at the stage its history tells, and an approved row passed every stage
\* or was approved directly (approveStage, approve).
RowsConsistent ==
    \A p \in Ids : row[p] # NoRow =>
        /\ row[p].status = "pending" => StageConsistent(row[p])
        /\ row[p].status = "approved" => AccountedFor(row[p])

\* enforceSod, checked against a row read earlier, still holds of the row
\* that is finally written.
SodRespected ==
    \A p \in Ids : row[p] # NoRow => DutiesSeparated(row[p])

\* updatePending: a decided proposal never becomes pending again, not even
\* by the late write of a stage approval that read it before.
NeverReopened ==
    [][\A p \in Ids : Decided(p) => Decided(p)']_row

\* boss_job_id of a pending row names a job that is in the queue.
JobIdsLive ==
    \A p \in Ids : jobId[p] /\ ~Decided(p) => p \in jobs

\* moveProposal: a decided row names no job.
DecidedHasNoJobId ==
    \A p \in Ids : Decided(p) => ~jobId[p]

-----------------------------------------------------------------------------
(* With one caller at a time the store is the abstract queue, crashes and  *)
(* lost connections included.                                              *)

StagesPassed(record) ==
    IF record.completed = {} THEN 0
    ELSE IF record.completed = Stages THEN 2 ELSE 1

rowDecision ==
    [p \in Ids |-> IF row[p] = NoRow THEN "unknown" ELSE row[p].status]

rowPassed ==
    [p \in Ids |-> IF row[p] = NoRow THEN 0 ELSE StagesPassed(row[p])]

Lifecycle == INSTANCE ProposalLifecycle
    WITH Ids <- Ids, StageCount <- 2,
         decision <- rowDecision, passed <- rowPassed

\* A proposal is submitted once, passes its stages in order and is decided
\* once; the decision is final.
ImplementsLifecycle == Lifecycle!LifecycleSpec
=============================================================================
