--------------------- MODULE PgBossProposalQueueProofs ---------------------
(***************************************************************************)
(* Proofs about the Postgres store of proposals, for any number of         *)
(* concurrent callers, with crashes and lost connections.                  *)
(***************************************************************************)
EXTENDS PgBossProposalQueue, ProposalRecordsProofs

WellMade(record) ==
    PendingRecord(record) \/ ApprovedRecord(record) \/ RejectedRecord(record)

\* The rows are well made, and so is everything a caller may still write:
\* a draft is computed from one row it read, whatever the row is by now.
RowsAndDrafts ==
    /\ \A p \in Ids : row[p] # NoRow => WellMade(row[p])
    /\ \A c \in Callers : draft[c] # NoRow => WellMade(draft[c])

IInv == TypeOK /\ RowsAndDrafts

-----------------------------------------------------------------------------
LEMMA InvariantImplies == IInv => RowsConsistent /\ SodRespected
  BY DEF IInv, RowsAndDrafts, WellMade, RowsConsistent, SodRespected,
         PendingRecord, ApprovedRecord, RejectedRecord

LEMMA InitEstablishes == Init => IInv
  BY DEF Init, IInv, TypeOK, RowsAndDrafts, Rows, PcLabels

\* A well-made record is a record.
LEMMA WellMadeRecords == \A record : WellMade(record) => record \in Records
  BY DEF WellMade, PendingRecord, ApprovedRecord, RejectedRecord

-----------------------------------------------------------------------------
\* A call that returns changes nothing but its local state.
LEMMA ReturnKeeps ==
    ASSUME IInv, NEW c \in Callers, Return(c), UNCHANGED row,
           jobs' \subseteq Ids, jobId' \in [Ids -> BOOLEAN]
    PROVE  IInv'
  BY StoreAssumption
  DEF IInv, TypeOK, RowsAndDrafts, Rows, PcLabels, Return, Goto

\* A decision keeps the invariant when what it is going to write is well
\* made and has the status its next step expects.
LEMMA RequirePendingKeeps ==
    ASSUME IInv, NEW c \in Callers, NEW p \in Ids, NEW record,
           WellMade(record), RequirePending(c, p, record)
    PROVE  IInv'
<1>1. record \in Records /\ record # NoRow
  BY WellMadeRecords, StoreAssumption
<1> QED BY <1>1
        DEF RequirePending, IInv, TypeOK, RowsAndDrafts, Rows, PcLabels, Goto

\* Writing a well-made record into a row that is there.
LEMMA WriteRow ==
    ASSUME IInv, NEW p \in Ids, NEW record, WellMade(record),
           row' = [row EXCEPT ![p] = record]
    PROVE  /\ row' \in [Ids -> Rows]
           /\ \A q \in Ids : row'[q] # NoRow => WellMade(row'[q])
           /\ \A q \in Ids : row[q] # NoRow => row'[q] # NoRow
<1>1. record \in Records /\ record # NoRow
  BY WellMadeRecords, StoreAssumption
<1> QED BY <1>1 DEF IInv, TypeOK, RowsAndDrafts, Rows

LEMMA NextKeeps == IInv /\ [Next]_vars => IInv'
<1>1. SUFFICES ASSUME IInv, [Next]_vars PROVE IInv'
  OBVIOUS
<1>2. TypeOK /\ RowsAndDrafts
  BY <1>1 DEF IInv
<1>3. ASSUME NEW c \in Callers, NEW creator \in Spellings \cup {NoActor},
             CallEnqueue(c, creator)
      PROVE  IInv'
  <2>1. WellMade(NewRecord(creator)) /\ NewRecord(creator) \in Records
        /\ NewRecord(creator).status = "pending"
    BY NewRecordIsPending, WellMadeRecords DEF WellMade, NewRecord
  <2> QED BY <1>2, <1>3, <2>1, StoreAssumption
          DEF CallEnqueue, Goto, IInv, TypeOK, RowsAndDrafts, Rows, PcLabels
<1>4. ASSUME NEW c \in Callers, NEW p \in Ids, InsertRow(c, p)
      PROVE  IInv'
  <2>1. WellMade(draft[c])
    BY <1>2, <1>4 DEF InsertRow, TypeOK, RowsAndDrafts
  <2>2. /\ row' \in [Ids -> Rows]
        /\ \A q \in Ids : row'[q] # NoRow => WellMade(row'[q])
        /\ \A q \in Ids : row[q] # NoRow => row'[q] # NoRow
    BY <1>1, <1>4, <2>1, WriteRow DEF InsertRow
  <2>3. row'[p] # NoRow
    BY <1>2, <1>4 DEF InsertRow, TypeOK
  <2>4. TypeOK'
    BY <1>2, <1>4, <2>2, <2>3 DEF InsertRow, Goto, TypeOK, PcLabels
  <2> QED BY <1>2, <1>4, <2>2, <2>4 DEF InsertRow, IInv, RowsAndDrafts
<1>5. ASSUME NEW c \in Callers, SendJob(c)
      PROVE  IInv'
  <2>1. CASE Return(c) /\ UNCHANGED jobs
    BY <1>1, <1>2, <1>5, <2>1, ReturnKeeps DEF SendJob, TypeOK
  <2>2. CASE /\ jobs' = jobs \cup {target[c]}
             /\ Goto(c, "record")
             /\ UNCHANGED <<target, draft, seenJob, retried>>
    BY <1>2, <1>5, <2>2
    DEF SendJob, Goto, IInv, TypeOK, RowsAndDrafts, PcLabels
  <2> QED BY <1>5, <2>1, <2>2 DEF SendJob
<1>6. ASSUME NEW c \in Callers, RecordJob(c)
      PROVE  IInv'
  BY <1>1, <1>2, <1>6, ReturnKeeps DEF RecordJob, TypeOK
<1>7. ASSUME NEW c \in Callers, PoolEnded(c)
      PROVE  IInv'
  <2>1. CASE retried[c]
    BY <1>1, <1>2, <1>7, <2>1, ReturnKeeps DEF PoolEnded, TypeOK
  <2>2. CASE ~retried[c]
    BY <1>2, <1>7, <2>2
    DEF PoolEnded, Goto, IInv, TypeOK, RowsAndDrafts, PcLabels
  <2> QED BY <2>1, <2>2
<1>8. ASSUME NEW c \in Callers, NEW p \in Ids, Approve(c, p) \/ Reject(c, p)
      PROVE  IInv'
  <2>1. PendingRecord(row[p])
    BY <1>2, <1>8
    DEF Approve, Reject, RequirePending, RowsAndDrafts, WellMade,
        ApprovedRecord, RejectedRecord
  <2>2. /\ WellMade(DirectlyApproved(row[p]))
        /\ WellMade(DirectlyRejected(row[p]))
    BY <2>1, DirectApproval, DirectRejection DEF WellMade
  <2> QED BY <1>1, <1>8, <2>2, RequirePendingKeeps DEF Approve, Reject
<1>9. ASSUME NEW c \in Callers, NEW p \in Ids, NEW stage \in Stages,
             NEW actor \in Spellings, NEW relaxed \in BOOLEAN,
             \/ ApproveStage(c, p, stage, actor, relaxed)
             \/ RejectStage(c, p, stage, actor, relaxed)
      PROVE  IInv'
  <2>1. PendingRecord(row[p]) /\ MayDecideStage(row[p], stage, actor, relaxed)
    BY <1>2, <1>9
    DEF ApproveStage, RejectStage, RequirePending, RowsAndDrafts, WellMade,
        ApprovedRecord, RejectedRecord
  <2>2. /\ WellMade(StageApproved(row[p], stage, actor, relaxed))
        /\ WellMade(StageRejected(row[p], stage, actor, relaxed))
    BY <2>1, FirstStageApproval, LastStageApproval, StageRejection
    DEF WellMade
  <2> QED BY <1>1, <1>9, <2>2, RequirePendingKeeps DEF ApproveStage, RejectStage
<1>10. ASSUME NEW c \in Callers, UpdatePending(c)
       PROVE  IInv'
  <2> DEFINE p == target[c]
  <2>1. /\ p \in Ids /\ WellMade(draft[c])
        /\ UNCHANGED <<jobId, jobs>> /\ Return(c)
    BY <1>2, <1>10 DEF UpdatePending, TypeOK, RowsAndDrafts
  <2>2. /\ row' \in [Ids -> Rows]
        /\ \A q \in Ids : row'[q] # NoRow => WellMade(row'[q])
        /\ \A q \in Ids : row[q] # NoRow => row'[q] # NoRow
    <3>1. CASE row' = row
      BY <1>2, <3>1 DEF TypeOK, RowsAndDrafts
    <3>2. CASE row' = [row EXCEPT ![p] = draft[c]]
      BY <1>1, <2>1, <3>2, WriteRow
    <3> QED BY <1>10, <3>1, <3>2 DEF UpdatePending
  <2> QED BY <1>2, <2>1, <2>2
          DEF Return, Goto, IInv, TypeOK, RowsAndDrafts, Rows, PcLabels
<1>11. ASSUME NEW c \in Callers, MoveProposal(c)
       PROVE  IInv'
  <2> DEFINE p == target[c]
  <2>1. /\ p \in Ids /\ WellMade(draft[c])
        /\ row' = [row EXCEPT ![p] = draft[c]]
        /\ jobId' = [jobId EXCEPT ![p] = FALSE] /\ UNCHANGED jobs
    BY <1>2, <1>11 DEF MoveProposal, TypeOK, RowsAndDrafts
  <2>2. /\ row' \in [Ids -> Rows]
        /\ \A q \in Ids : row'[q] # NoRow => WellMade(row'[q])
        /\ \A q \in Ids : row[q] # NoRow => row'[q] # NoRow
    BY <1>1, <2>1, WriteRow
  <2>3. CASE Return(c)
    BY <1>2, <2>1, <2>2, <2>3
    DEF Return, Goto, IInv, TypeOK, RowsAndDrafts, Rows, PcLabels
  <2>4. CASE Goto(c, "delete") /\ UNCHANGED <<target, draft, seenJob, retried>>
    BY <1>2, <1>11, <2>1, <2>2, <2>4
    DEF MoveProposal, Goto, IInv, TypeOK, RowsAndDrafts, PcLabels
  <2> QED BY <1>11, <2>3, <2>4 DEF MoveProposal
<1>12. ASSUME NEW c \in Callers, DeleteJob(c)
       PROVE  IInv'
  BY <1>1, <1>2, <1>12, ReturnKeeps DEF DeleteJob, TypeOK
<1>13. ASSUME NEW c \in Callers, Crash(c)
       PROVE  IInv'
  BY <1>1, <1>2, <1>13, ReturnKeeps DEF Crash, TypeOK
<1>14. CASE UNCHANGED vars
  BY <1>2, <1>14 DEF vars, IInv, TypeOK, RowsAndDrafts
<1> QED BY <1>1, <1>3, <1>4, <1>5, <1>6, <1>7, <1>8, <1>9, <1>10, <1>11,
           <1>12, <1>13, <1>14 DEF Next

\* The inductive invariant holds in every reachable state.
THEOREM Invariance == Spec => []IInv
  BY InitEstablishes, NextKeeps, PTL DEF Spec

\* However many decisions race, every row is one a sequence of decisions
\* could have produced, and the duties in it were separated.
THEOREM RowInvariants == Spec => [](TypeOK /\ RowsConsistent /\ SodRespected)
<1>1. IInv => TypeOK /\ RowsConsistent /\ SodRespected
  BY InvariantImplies DEF IInv
<1> QED BY <1>1, Invariance, PTL

\* The rows are records, and every call holds the draft its step needs.
THEOREM RowsWellTyped == Spec => []TypeOK
  BY RowInvariants, PTL

\* enforceSod: of callers that race on one row, each having read it before
\* the others wrote, none slips a decision past the separation of duties.
THEOREM DutiesStaySeparated == Spec => []SodRespected
  BY RowInvariants, PTL

\* updatePending: however late it is, a stage approval does not make a
\* decided proposal pending again.
THEOREM DecisionsStay == Spec => NeverReopened
<1> DEFINE Stays == \A p \in Ids : Decided(p) => Decided(p)'
<1>1. ASSUME IInv, Next PROVE Stays \/ UNCHANGED row
  <2>1. SUFFICES ASSUME row' # row, NEW p \in Ids, Decided(p)
                 PROVE  Decided(p)'
    BY DEF Decided
  <2>2. TypeOK
    BY <1>1 DEF IInv
  <2>3. PICK c \in Callers :
          \/ \E q \in Ids : InsertRow(c, q)
          \/ UpdatePending(c)
          \/ MoveProposal(c)
    <3>1. ASSUME NEW c \in Callers
          PROVE  /\ \A creator : ~CallEnqueue(c, creator)
                 /\ ~SendJob(c) /\ ~RecordJob(c) /\ ~PoolEnded(c)
                 /\ ~DeleteJob(c) /\ ~Crash(c)
                 /\ \A q, record : ~RequirePending(c, q, record)
      BY <2>1 DEF CallEnqueue, SendJob, RecordJob, PoolEnded, DeleteJob, Crash,
                  RequirePending
    <3> QED BY <1>1, <3>1 DEF Next, Approve, Reject, ApproveStage, RejectStage
  <2>4. CASE \E q \in Ids : InsertRow(c, q)
    BY <2>1, <2>2, <2>4 DEF InsertRow, Decided, TypeOK
  <2>5. CASE UpdatePending(c)
    BY <2>1, <2>2, <2>5 DEF UpdatePending, Decided, TypeOK
  <2>6. CASE MoveProposal(c)
    BY <2>1, <2>2, <2>6 DEF MoveProposal, Decided, TypeOK
  <2> QED BY <2>3, <2>4, <2>5, <2>6
<1>2. IInv /\ [Next]_vars => [Stays]_row
  BY <1>1 DEF vars
<1> QED BY <1>2, Invariance, PTL DEF Spec, NeverReopened

-----------------------------------------------------------------------------
(* The jobs.  A caller that is about to record its job has sent it, and    *)
(* only the job of a decided proposal is ever deleted.                     *)

JobsNoted ==
    /\ JobIdsLive
    /\ \A c \in Callers :
          /\ pc[c] = "record" /\ ~Decided(target[c]) => target[c] \in jobs
          /\ pc[c] = "delete" => Decided(target[c])

\* A step that leaves the rows, the job ids and the jobs alone, and takes
\* its caller to no step about jobs.
LEMMA QuietStep ==
    ASSUME IInv, JobsNoted, UNCHANGED <<row, jobId, jobs>>,
           NEW c \in Callers,
           pc' \in [Callers -> PcLabels],
           pc'[c] \notin {"record", "delete"},
           \A d \in Callers \ {c} : pc'[d] = pc[d] /\ target'[d] = target[d]
    PROVE  JobsNoted'
  BY DEF JobsNoted, JobIdsLive, Decided

LEMMA JobsNotedKeeps == IInv /\ JobsNoted /\ [Next]_vars => JobsNoted'
<1>1. SUFFICES ASSUME IInv, JobsNoted, [Next]_vars PROVE JobsNoted'
  OBVIOUS
<1>2. TypeOK
  BY <1>1 DEF IInv
<1>3. ASSUME NEW c \in Callers,
             \/ \E creator : CallEnqueue(c, creator)
             \/ \E p \in Ids : \E record : RequirePending(c, p, record)
             \/ PoolEnded(c) \/ Crash(c)
      PROVE  JobsNoted'
  <2>1. /\ UNCHANGED <<row, jobId, jobs>>
        /\ pc' \in [Callers -> PcLabels]
        /\ pc'[c] \notin {"record", "delete"}
        /\ \A d \in Callers \ {c} : pc'[d] = pc[d] /\ target'[d] = target[d]
    BY <1>2, <1>3
    DEF CallEnqueue, RequirePending, PoolEnded, Crash, Return, Goto, TypeOK,
        PcLabels
  <2> QED BY <1>1, <2>1, QuietStep
<1>4. ASSUME NEW c \in Callers, NEW p \in Ids, InsertRow(c, p)
      PROVE  JobsNoted'
  <2>1. \A q \in Ids : Decided(q)' <=> Decided(q)
    BY <1>2, <1>4 DEF InsertRow, Decided, TypeOK
  <2> QED BY <1>1, <1>2, <1>4, <2>1
          DEF InsertRow, Goto, JobsNoted, JobIdsLive, Decided, TypeOK
<1>5. ASSUME NEW c \in Callers, SendJob(c)
      PROVE  JobsNoted'
  BY <1>1, <1>2, <1>5
  DEF SendJob, Return, Goto, JobsNoted, JobIdsLive, Decided, TypeOK
<1>6. ASSUME NEW c \in Callers, RecordJob(c)
      PROVE  JobsNoted'
  BY <1>1, <1>2, <1>6
  DEF RecordJob, Return, Goto, JobsNoted, JobIdsLive, Decided, TypeOK
<1>7. ASSUME NEW c \in Callers, UpdatePending(c)
      PROVE  JobsNoted'
  <2>1. \A q \in Ids : Decided(q)' <=> Decided(q)
    BY <1>2, <1>7 DEF UpdatePending, Decided, TypeOK
  <2> QED BY <1>1, <1>2, <1>7, <2>1
          DEF UpdatePending, Return, Goto, JobsNoted, JobIdsLive, Decided,
              TypeOK
<1>8. ASSUME NEW c \in Callers, MoveProposal(c)
      PROVE  JobsNoted'
  <2>1. PICK p \in Ids : p = target[c]
    BY <1>2 DEF TypeOK
  <2>2. /\ draft[c] # NoRow /\ draft[c].status # "pending"
        /\ row' = [row EXCEPT ![p] = draft[c]]
        /\ jobId' = [jobId EXCEPT ![p] = FALSE] /\ UNCHANGED jobs
    BY <1>2, <1>8, <2>1 DEF MoveProposal, TypeOK
  <2>3. Decided(p)' /\ \A q \in Ids \ {p} : Decided(q)' <=> Decided(q)
    BY <1>2, <2>2 DEF Decided, TypeOK
  <2>4. /\ pc' \in [Callers -> PcLabels] /\ pc'[c] # "record"
        /\ \A d \in Callers \ {c} : pc'[d] = pc[d]
        /\ target' = target
    BY <1>2, <1>8 DEF MoveProposal, Return, Goto, TypeOK, PcLabels
  <2>5. JobIdsLive'
    BY <1>1, <1>2, <2>2, <2>3 DEF JobsNoted, JobIdsLive, TypeOK
  <2>6. ASSUME NEW d \in Callers
        PROVE  /\ pc'[d] = "record" /\ ~Decided(target[d])' => target'[d] \in jobs'
               /\ pc'[d] = "delete" => Decided(target[d])'
    BY <1>1, <1>2, <2>1, <2>2, <2>3, <2>4 DEF JobsNoted, Decided, TypeOK
  <2> QED BY <2>5, <2>6 DEF JobsNoted
<1>9. ASSUME NEW c \in Callers, DeleteJob(c)
      PROVE  JobsNoted'
  BY <1>1, <1>2, <1>9
  DEF DeleteJob, Return, Goto, JobsNoted, JobIdsLive, Decided, TypeOK
<1>10. CASE UNCHANGED vars
  BY <1>1, <1>10 DEF vars, JobsNoted, JobIdsLive, Decided
<1> QED BY <1>1, <1>3, <1>4, <1>5, <1>6, <1>7, <1>8, <1>9, <1>10
        DEF Next, Approve, Reject, ApproveStage, RejectStage

\* enqueue, moveProposal: however calls overlap, crash and retry, the job
\* that a pending row names is in the queue.
THEOREM JobIdsAlwaysLive == Spec => []JobIdsLive
<1>1. Init => JobsNoted
  BY DEF Init, JobsNoted, JobIdsLive, Decided
<1>2. JobsNoted => JobIdsLive
  BY DEF JobsNoted
<1> QED BY <1>1, <1>2, JobsNotedKeeps, Invariance, PTL DEF Spec

-----------------------------------------------------------------------------
(* One caller at a time.  Nobody writes between the read of a row and the  *)
(* write that follows from it, so the draft still fits the row.            *)

\* What a decision makes of the row it has read.
Fits(read, record) ==
    \/ /\ record.status = "pending"
       /\ read.completed = {} /\ record.completed = {"reviewer"}
    \/ record.status = "approved"
    \/ /\ record.status = "rejected"
       /\ record.completed = read.completed

LEMMA DecisionFits ==
    ASSUME NEW read, PendingRecord(read)
    PROVE  /\ Fits(read, DirectlyApproved(read))
           /\ Fits(read, DirectlyRejected(read))
           /\ \A stage \in Stages, actor \in Spellings, relaxed \in BOOLEAN :
                 MayDecideStage(read, stage, actor, relaxed) =>
                   /\ Fits(read, StageApproved(read, stage, actor, relaxed))
                   /\ Fits(read, StageRejected(read, stage, actor, relaxed))
  BY DEF Fits, PendingRecord, Records, StageConsistent, MayDecideStage, Stages,
         IsLastStage, DirectlyApproved, DirectlyRejected, StageApproved,
         StageRejected

DraftsFit ==
    \A c \in Callers :
        /\ pc[c] \in {"insert", "send", "record"} => draft[c].completed = {}
        /\ pc[c] \in {"send", "record", "update", "move"} =>
              row[target[c]].status = "pending"
        /\ pc[c] \in {"update", "move"} => Fits(row[target[c]], draft[c])

OneCaller == \A c, d \in Callers : c = d

LEMMA DraftsFitKeeps ==
    ASSUME OneCaller, IInv, DraftsFit, [Next]_vars
    PROVE  DraftsFit'
<1>1. TypeOK /\ RowsAndDrafts
  BY DEF IInv
<1>2. ASSUME NEW c \in Callers, NEW creator \in Spellings \cup {NoActor},
             CallEnqueue(c, creator)
      PROVE  DraftsFit'
  BY <1>1, <1>2 DEF CallEnqueue, Goto, DraftsFit, TypeOK, NewRecord, OneCaller
<1>3. ASSUME NEW c \in Callers, NEW p \in Ids, InsertRow(c, p)
      PROVE  DraftsFit'
  BY <1>1, <1>3 DEF InsertRow, Goto, DraftsFit, TypeOK, OneCaller
<1>4. ASSUME NEW c \in Callers, SendJob(c) \/ PoolEnded(c)
      PROVE  DraftsFit'
  BY <1>1, <1>4
  DEF SendJob, PoolEnded, Return, Goto, DraftsFit, TypeOK, OneCaller
<1>5. ASSUME NEW c \in Callers, NEW p \in Ids, NEW record,
             Fits(row[p], record), RequirePending(c, p, record)
      PROVE  DraftsFit'
  BY <1>1, <1>5 DEF RequirePending, Goto, DraftsFit, TypeOK, OneCaller
<1>6. ASSUME NEW c \in Callers, NEW p \in Ids, Approve(c, p) \/ Reject(c, p)
      PROVE  DraftsFit'
  <2>1. PendingRecord(row[p])
    BY <1>1, <1>6
    DEF Approve, Reject, RequirePending, RowsAndDrafts, WellMade,
        ApprovedRecord, RejectedRecord
  <2> QED BY <1>5, <1>6, <2>1, DecisionFits DEF Approve, Reject
<1>7. ASSUME NEW c \in Callers, NEW p \in Ids, NEW stage \in Stages,
             NEW actor \in Spellings, NEW relaxed \in BOOLEAN,
             \/ ApproveStage(c, p, stage, actor, relaxed)
             \/ RejectStage(c, p, stage, actor, relaxed)
      PROVE  DraftsFit'
  <2>1. PendingRecord(row[p]) /\ MayDecideStage(row[p], stage, actor, relaxed)
    BY <1>1, <1>7
    DEF ApproveStage, RejectStage, RequirePending, RowsAndDrafts, WellMade,
        ApprovedRecord, RejectedRecord
  <2> QED BY <1>5, <1>7, <2>1, DecisionFits DEF ApproveStage, RejectStage
<1>8. ASSUME NEW c \in Callers, pc'[c] \in {"idle", "delete"}
      PROVE  DraftsFit'
  BY <1>8 DEF DraftsFit, OneCaller
<1>9. ASSUME NEW c \in Callers,
             \/ RecordJob(c) \/ UpdatePending(c) \/ MoveProposal(c)
             \/ DeleteJob(c) \/ Crash(c)
      PROVE  DraftsFit'
  <2>1. pc'[c] \in {"idle", "delete"}
    BY <1>1, <1>9
    DEF RecordJob, UpdatePending, MoveProposal, DeleteJob, Crash, Return, Goto,
        TypeOK
  <2> QED BY <1>8, <2>1
<1>10. CASE UNCHANGED vars
  BY <1>10 DEF vars, DraftsFit
<1> QED BY <1>2, <1>3, <1>4, <1>6, <1>7, <1>9, <1>10 DEF Next

LEMMA DraftsAlwaysFit ==
    ASSUME OneCaller
    PROVE  Spec => []DraftsFit
<1>1. Init => DraftsFit
  BY DEF Init, DraftsFit
<1> QED BY <1>1, DraftsFitKeeps, Invariance, PTL DEF Spec

\* moveProposal: while one call follows the other, a decided row names no
\* job.  (Two calls may: RecordJob after a decision.)
THEOREM DecidedNeverHasJobId ==
    ASSUME OneCaller
    PROVE  Spec => []DecidedHasNoJobId
<1>1. Init => DecidedHasNoJobId
  BY DEF Init, DecidedHasNoJobId, Decided
<1>2. ASSUME IInv, DraftsFit, DecidedHasNoJobId, [Next]_vars
      PROVE  DecidedHasNoJobId'
  <2>1. TypeOK
    BY <1>2 DEF IInv
  <2>2. CASE UNCHANGED <<row, jobId>>
    BY <1>2, <2>2 DEF DecidedHasNoJobId, Decided
  <2>3. ASSUME NEW c \in Callers, NEW p \in Ids, InsertRow(c, p)
        PROVE  DecidedHasNoJobId'
    BY <1>2, <2>1, <2>3 DEF InsertRow, DecidedHasNoJobId, Decided, TypeOK
  <2>4. ASSUME NEW c \in Callers, RecordJob(c)
        PROVE  DecidedHasNoJobId'
    BY <1>2, <2>1, <2>4
    DEF RecordJob, DecidedHasNoJobId, Decided, TypeOK, DraftsFit
  <2>5. ASSUME NEW c \in Callers, UpdatePending(c)
        PROVE  DecidedHasNoJobId'
    BY <1>2, <2>1, <2>5
    DEF UpdatePending, DecidedHasNoJobId, Decided, TypeOK
  <2>6. ASSUME NEW c \in Callers, MoveProposal(c)
        PROVE  DecidedHasNoJobId'
    BY <1>2, <2>1, <2>6 DEF MoveProposal, DecidedHasNoJobId, Decided, TypeOK
  <2> QED BY <1>2, <2>2, <2>3, <2>4, <2>5, <2>6
          DEF Next, vars, CallEnqueue, SendJob, PoolEnded, DeleteJob, Crash,
              Approve, Reject, ApproveStage, RejectStage, RequirePending
<1> QED BY <1>1, <1>2, Invariance, DraftsAlwaysFit, PTL DEF Spec

-----------------------------------------------------------------------------
(* With one caller the store implements ProposalLifecycle.                 *)

LEMMA InitMaps == Init => Lifecycle!LifecycleInit
  BY DEF Init, Lifecycle!LifecycleInit, rowDecision, rowPassed

\* How the refinement mapping follows the write of one row.
LEMMA MappingChange ==
    ASSUME TypeOK, NEW p \in Ids, NEW record \in Records,
           row' = [row EXCEPT ![p] = record]
    PROVE  /\ rowDecision' = [rowDecision EXCEPT ![p] = record.status]
           /\ rowPassed' = [rowPassed EXCEPT ![p] = StagesPassed(record)]
<1>1. record # NoRow
  BY StoreAssumption
<1> QED BY <1>1 DEF TypeOK, rowDecision, rowPassed

\* The stages that well-made records have passed.
LEMMA PassedByStatus ==
    ASSUME NEW record
    PROVE  /\ record.completed = {} => StagesPassed(record) = 0
           /\ record.completed = {"reviewer"} => StagesPassed(record) = 1
           /\ ApprovedRecord(record) => StagesPassed(record) = 2
<1>1. "admin" \in Stages /\ "admin" \notin {} /\ "admin" \notin {"reviewer"}
  BY DEF Stages
<1>2. Stages # {} /\ Stages # {"reviewer"} /\ {"reviewer"} # {}
  BY <1>1
<1> QED BY <1>2 DEF StagesPassed, ApprovedRecord, AccountedFor

LEMMA InsertMaps ==
    ASSUME IInv, DraftsFit, NEW c \in Callers, NEW p \in Ids, InsertRow(c, p)
    PROVE  Lifecycle!Submit(p)
<1>1. TypeOK
  BY DEF IInv
<1>2. /\ draft[c] \in Records /\ draft[c].status = "pending"
      /\ StagesPassed(draft[c]) = 0
  BY <1>1, PassedByStatus DEF InsertRow, TypeOK, Rows, DraftsFit
<1>3. /\ rowDecision' = [rowDecision EXCEPT ![p] = "pending"]
      /\ rowPassed' = [rowPassed EXCEPT ![p] = 0]
  BY <1>1, <1>2, MappingChange DEF InsertRow
<1>4. rowDecision[p] = "unknown" /\ rowPassed[p] = 0
  BY DEF InsertRow, rowDecision, rowPassed
<1>5. rowPassed' = rowPassed
  BY <1>3, <1>4 DEF rowPassed
<1> QED BY <1>3, <1>4, <1>5 DEF Lifecycle!Submit

\* What the mapping says of the row that a decision is about to write.
LEMMA TargetMaps ==
    ASSUME IInv, DraftsFit, NEW c \in Callers, pc[c] \in {"update", "move"}
    PROVE  /\ target[c] \in Ids /\ draft[c] \in Records
           /\ WellMade(draft[c]) /\ Fits(row[target[c]], draft[c])
           /\ row[target[c]].status = "pending"
           /\ rowDecision[target[c]] = "pending"
           /\ rowPassed[target[c]] = StagesPassed(row[target[c]])
  BY WellMadeRecords
  DEF IInv, TypeOK, RowsAndDrafts, DraftsFit, rowDecision, rowPassed

LEMMA UpdateMaps ==
    ASSUME IInv, DraftsFit, NEW c \in Callers, UpdatePending(c)
    PROVE  Lifecycle!PassStage(target[c])
<1> DEFINE p == target[c]
<1>1. TypeOK /\ pc[c] = "update"
  BY DEF IInv, UpdatePending
<1>2. /\ p \in Ids /\ draft[c] \in Records /\ Fits(row[p], draft[c])
      /\ row[p].status = "pending" /\ rowDecision[p] = "pending"
      /\ rowPassed[p] = StagesPassed(row[p])
  BY <1>1, TargetMaps
<1>3. draft[c].status = "pending" /\ rowPassed[p] = 0
      /\ StagesPassed(draft[c]) = 1
  BY <1>1, <1>2, PassedByStatus DEF TypeOK, Fits
<1>4. row' = [row EXCEPT ![p] = draft[c]]
  BY <1>2 DEF UpdatePending
<1> HIDE DEF p
<1>5. /\ rowDecision' = [rowDecision EXCEPT ![p] = "pending"]
      /\ rowPassed' = [rowPassed EXCEPT ![p] = 1]
  BY <1>1, <1>2, <1>3, <1>4, MappingChange
<1>6. rowDecision' = rowDecision
  BY <1>2, <1>5 DEF rowDecision
<1>7. Lifecycle!PassStage(p)
  BY <1>2, <1>3, <1>5, <1>6 DEF Lifecycle!PassStage
<1> QED BY <1>7 DEF p

LEMMA MoveMaps ==
    ASSUME IInv, DraftsFit, NEW c \in Callers, MoveProposal(c)
    PROVE  Lifecycle!Approve(target[c]) \/ Lifecycle!Reject(target[c])
<1> DEFINE p == target[c]
<1>1. TypeOK /\ pc[c] = "move"
  BY DEF IInv, MoveProposal
<1>2. /\ p \in Ids /\ draft[c] \in Records /\ Fits(row[p], draft[c])
      /\ WellMade(draft[c]) /\ rowDecision[p] = "pending"
      /\ rowPassed[p] = StagesPassed(row[p])
  BY <1>1, TargetMaps
<1>3. row' = [row EXCEPT ![p] = draft[c]]
  BY DEF MoveProposal
<1> HIDE DEF p
<1>4. /\ rowDecision' = [rowDecision EXCEPT ![p] = draft[c].status]
      /\ rowPassed' = [rowPassed EXCEPT ![p] = StagesPassed(draft[c])]
  BY <1>1, <1>2, <1>3, MappingChange
<1>5. CASE draft[c].status = "approved"
  <2>1. StagesPassed(draft[c]) = 2
    BY <1>2, <1>5, PassedByStatus DEF WellMade, PendingRecord, RejectedRecord
  <2>2. Lifecycle!Approve(p)
    BY <1>2, <1>4, <1>5, <2>1 DEF Lifecycle!Approve
  <2> QED BY <2>2 DEF p
<1>6. CASE draft[c].status = "rejected"
  <2>1. StagesPassed(draft[c]) = rowPassed[p]
    BY <1>2, <1>6 DEF Fits, StagesPassed
  <2>2. rowPassed' = rowPassed
    BY <1>2, <1>4, <2>1 DEF rowPassed
  <2>3. Lifecycle!Reject(p)
    BY <1>2, <1>4, <1>6, <2>2 DEF Lifecycle!Reject
  <2> QED BY <2>3 DEF p
<1>7. draft[c].status # "pending"
  BY <1>1 DEF TypeOK
<1> QED BY <1>2, <1>5, <1>6, <1>7 DEF Records

\* With one call at a time, whatever crashes and whatever connection is
\* lost, the Postgres store is the abstract queue.
THEOREM Refinement ==
    ASSUME OneCaller
    PROVE  Spec => ImplementsLifecycle
<1>1. ASSUME IInv, DraftsFit, [Next]_vars
      PROVE  [Lifecycle!LifecycleNext]_(Lifecycle!lifecycleVars)
  <2>1. CASE UNCHANGED row
    BY <2>1 DEF Lifecycle!lifecycleVars, rowDecision, rowPassed
  <2>2. ASSUME NEW c \in Callers, NEW p \in Ids, InsertRow(c, p)
        PROVE  Lifecycle!LifecycleNext
    BY <1>1, <2>2, InsertMaps DEF Lifecycle!LifecycleNext
  <2>3. ASSUME NEW c \in Callers, UpdatePending(c)
        PROVE  Lifecycle!LifecycleNext
    <3>1. target[c] \in Ids
      BY <1>1 DEF IInv, TypeOK
    <3> QED BY <1>1, <2>3, <3>1, UpdateMaps DEF Lifecycle!LifecycleNext
  <2>4. ASSUME NEW c \in Callers, MoveProposal(c)
        PROVE  Lifecycle!LifecycleNext
    <3>1. target[c] \in Ids
      BY <1>1 DEF IInv, TypeOK
    <3> QED BY <1>1, <2>4, <3>1, MoveMaps DEF Lifecycle!LifecycleNext
  <2> QED BY <1>1, <2>1, <2>2, <2>3, <2>4
          DEF Next, vars, CallEnqueue, SendJob, RecordJob, PoolEnded,
              DeleteJob, Crash, Approve, Reject, ApproveStage, RejectStage,
              RequirePending
<1> QED BY <1>1, InitMaps, Invariance, DraftsAlwaysFit, PTL
        DEF Spec, ImplementsLifecycle, Lifecycle!LifecycleSpec
=============================================================================
