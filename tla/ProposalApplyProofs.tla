------------------------ MODULE ProposalApplyProofs ------------------------
(***************************************************************************)
(* Theorems about FileProposalQueue and ProposalApply, for any proposals,  *)
(* callers, names and daily limit.                                         *)
(*                                                                         *)
(* First the file store by itself: its invariants hold whatever faults     *)
(* occur, and without faults it implements ProposalLifecycle.              *)
(*                                                                         *)
(* Then the calls on it.  Every step of theirs on the store is one of its  *)
(* steps, so its theorems carry over (ApplyIsQueue).  What a call keeps in *)
(* its hand over its waits, and what an automatic run has counted, is      *)
(* related to the store by ApplyInv.                                       *)
(***************************************************************************)
EXTENDS ProposalApply, ProposalRecordsProofs, FiniteSetTheorems

-----------------------------------------------------------------------------
(* The file store.                                                         *)

\* Every readable file is a well-made record of its directory's status.
WellMade(p) ==
    /\ Readable(pending[p])  => PendingRecord(pending[p])
    /\ Readable(approved[p]) => ApprovedRecord(approved[p])
    /\ Readable(rejected[p]) => RejectedRecord(rejected[p])

Directories ==
    /\ pending  \in [Ids -> Files]
    /\ approved \in [Ids -> Files]
    /\ rejected \in [Ids -> Files]

IInv == Directories /\ \A p \in Ids : WellMade(p)

-----------------------------------------------------------------------------
\* A file is readable exactly when it is a record.
LEMMA ReadableRecords ==
    /\ \A file \in Records : Readable(file) /\ file \in Files
    /\ ~Readable(Absent) /\ ~Readable(Torn)
    /\ Absent \in Files /\ Torn \in Files
  BY FileAssumption DEF Readable, Files

\* The invariant gives the four invariants of the model.
LEMMA InvariantImplies ==
    IInv => TypeOK /\ PendingConsistent /\ ApprovalAccountedFor /\ SodRespected
<1> SUFFICES ASSUME IInv
             PROVE  TypeOK /\ PendingConsistent /\ ApprovalAccountedFor
                    /\ SodRespected
  OBVIOUS
<1>1. TypeOK
  BY DEF IInv, Directories, WellMade, TypeOK, FilesOfStatus, PendingRecord,
         ApprovedRecord, RejectedRecord
<1>2. PendingConsistent
  BY DEF IInv, WellMade, PendingConsistent, PendingRecord
<1>3. ApprovalAccountedFor
  BY DEF IInv, WellMade, ApprovalAccountedFor, ApprovedRecord
<1>4. SodRespected
  BY DEF IInv, WellMade, SodRespected, PendingRecord, ApprovedRecord,
         RejectedRecord
<1> QED BY <1>1, <1>2, <1>3, <1>4

LEMMA InitEstablishes == Init => IInv
  BY ReadableRecords DEF Init, IInv, Directories, WellMade

-----------------------------------------------------------------------------
\* updatePendingProposal keeps the invariant when it writes a well-made
\* pending record, torn or not.
LEMMA UpdateKeeps ==
    ASSUME IInv, NEW p \in Ids, NEW record, PendingRecord(record),
           UpdatePendingProposal(p, record)
    PROVE  IInv'
<1>1. PICK written \in {record, Torn} :
          pending' = [pending EXCEPT ![p] = written]
  BY DEF UpdatePendingProposal, WriteOutcomes
<1>2. approved' = approved /\ rejected' = rejected
  BY DEF UpdatePendingProposal
<1>3. record \in Records
  BY DEF PendingRecord
<1>4. Directories'
  BY <1>1, <1>2, <1>3, ReadableRecords DEF IInv, Directories
<1>5. ASSUME NEW q \in Ids PROVE WellMade(q)'
  <2>1. pending'[q] = pending[q] \/ pending'[q] = record \/ pending'[q] = Torn
    BY <1>1 DEF IInv, Directories
  <2> QED BY <1>2, <2>1, ReadableRecords DEF IInv, WellMade, Readable
<1> QED BY <1>4, <1>5 DEF IInv

\* What a move does: one of the two directories gets the record or a torn
\* file, and the pending file goes only if the record is complete.
LEMMA MoveEffect ==
    ASSUME Directories, NEW p \in Ids, NEW record, record \in Records,
           MoveProposal(p, record)
    PROVE  \E written \in {record, Torn}, left \in {pending[p], Absent} :
              /\ pending' = [pending EXCEPT ![p] = left]
              /\ written = Torn => left = pending[p]
              /\ \/ /\ record.status = "approved"
                    /\ approved' = [approved EXCEPT ![p] = written]
                    /\ rejected' = rejected
                 \/ /\ record.status = "rejected"
                    /\ rejected' = [rejected EXCEPT ![p] = written]
                    /\ approved' = approved
<1>1. PICK written \in WriteOutcomes(record) :
        /\ \E left \in LeftPending(pending[p], written) :
              pending' = [pending EXCEPT ![p] = left]
        /\ \/ /\ record.status = "approved"
              /\ approved' = [approved EXCEPT ![p] = written]
              /\ UNCHANGED rejected
           \/ /\ record.status = "rejected"
              /\ rejected' = [rejected EXCEPT ![p] = written]
              /\ UNCHANGED approved
  BY DEF MoveProposal
<1>2. PICK left \in LeftPending(pending[p], written) :
          pending' = [pending EXCEPT ![p] = left]
  BY <1>1
<1>3. written \in {record, Torn}
  BY DEF WriteOutcomes
<1>4. left \in {pending[p], Absent} /\ (written = Torn => left = pending[p])
  BY DEF LeftPending
<1> QED BY <1>1, <1>2, <1>3, <1>4

\* moveProposal keeps the invariant when it writes a well-made record.
LEMMA MoveKeeps ==
    ASSUME IInv, NEW p \in Ids, NEW record,
           ApprovedRecord(record) \/ RejectedRecord(record),
           MoveProposal(p, record)
    PROVE  IInv'
<1>1. record \in Records
  BY DEF ApprovedRecord, RejectedRecord
<1>2. PICK written \in {record, Torn}, left \in {pending[p], Absent} :
              /\ pending' = [pending EXCEPT ![p] = left]
              /\ \/ /\ record.status = "approved"
                    /\ approved' = [approved EXCEPT ![p] = written]
                    /\ rejected' = rejected
                 \/ /\ record.status = "rejected"
                    /\ rejected' = [rejected EXCEPT ![p] = written]
                    /\ approved' = approved
  BY <1>1, MoveEffect DEF IInv
<1>3. Directories'
  BY <1>1, <1>2, ReadableRecords DEF IInv, Directories
<1>4. ASSUME NEW q \in Ids PROVE WellMade(q)'
  <2>1. pending'[q] = pending[q] \/ pending'[q] = Absent
    BY <1>2 DEF IInv, Directories
  <2>2. \/ approved'[q] = approved[q]
        \/ approved'[q] = Torn
        \/ approved'[q] = record /\ ApprovedRecord(record)
    BY <1>2 DEF IInv, Directories, RejectedRecord
  <2>3. \/ rejected'[q] = rejected[q]
        \/ rejected'[q] = Torn
        \/ rejected'[q] = record /\ RejectedRecord(record)
    BY <1>2 DEF IInv, Directories, ApprovedRecord
  <2> QED BY <2>1, <2>2, <2>3, ReadableRecords DEF IInv, WellMade, Readable
<1> QED BY <1>3, <1>4 DEF IInv

-----------------------------------------------------------------------------
(* What each operation does, in terms of the two ways to write.            *)

Enqueues(p, record) ==
    /\ pending[p] = Absent /\ approved[p] = Absent /\ rejected[p] = Absent
    /\ PendingRecord(record) /\ record.completed = {}
    /\ UpdatePendingProposal(p, record)

Advances(p, record) ==
    /\ Readable(pending[p]) /\ pending[p].completed = {}
    /\ PendingRecord(record) /\ record.completed = {"reviewer"}
    /\ UpdatePendingProposal(p, record)

Approves(p, record) ==
    /\ Readable(pending[p])
    /\ ApprovedRecord(record)
    /\ MoveProposal(p, record)

Rejects(p, record) ==
    /\ Readable(pending[p])
    /\ RejectedRecord(record) /\ record.completed = pending[p].completed
    /\ MoveProposal(p, record)

Effect(p, record) ==
    \/ Enqueues(p, record)
    \/ Advances(p, record)
    \/ Approves(p, record)
    \/ Rejects(p, record)

LEMMA StepShape ==
    ASSUME IInv, Next
    PROVE  \E p \in Ids, record \in Records : Effect(p, record)
<1>1. PICK p \in Ids :
        \/ \E creator \in Spellings \cup {NoActor} : EnqueueProposal(p, creator)
        \/ ApproveProposal(p)
        \/ RejectProposal(p)
        \/ \E stage \in Stages, actor \in Spellings, relaxed \in BOOLEAN :
              \/ ApproveProposalStage(p, stage, actor, relaxed)
              \/ RejectProposalStage(p, stage, actor, relaxed)
  BY DEF Next
<1>2. Readable(pending[p]) => PendingRecord(pending[p])
  BY DEF IInv, WellMade
<1>3. ASSUME NEW creator \in Spellings \cup {NoActor},
             EnqueueProposal(p, creator)
      PROVE  Enqueues(p, NewRecord(creator))
  BY <1>3, NewRecordIsPending DEF EnqueueProposal, Enqueues, NewRecord
<1>4. ASSUME ApproveProposal(p)
      PROVE  Approves(p, DirectlyApproved(pending[p]))
  BY <1>2, <1>4, DirectApproval DEF ApproveProposal, Approves
<1>5. ASSUME RejectProposal(p)
      PROVE  Rejects(p, DirectlyRejected(pending[p]))
  <2>1. DirectlyRejected(pending[p]).completed = pending[p].completed
    BY <1>2, <1>5
    DEF RejectProposal, DirectlyRejected, PendingRecord, Records
  <2> QED BY <1>2, <1>5, <2>1, DirectRejection DEF RejectProposal, Rejects
<1>6. ASSUME NEW stage \in Stages, NEW actor \in Spellings,
             NEW relaxed \in BOOLEAN,
             ApproveProposalStage(p, stage, actor, relaxed)
      PROVE  \E record \in Records : Effect(p, record)
  <2> DEFINE record == StageApproved(pending[p], stage, actor, relaxed)
  <2>1. PendingRecord(pending[p]) /\ Readable(pending[p])
        /\ MayDecideStage(pending[p], stage, actor, relaxed)
    BY <1>2, <1>6 DEF ApproveProposalStage
  <2>2. CASE IsLastStage(stage)
    <3>1. ApprovedRecord(record)
      BY <2>1, <2>2, LastStageApproval
    <3>2. MoveProposal(p, record)
      BY <1>6, <2>2 DEF ApproveProposalStage
    <3> QED BY <2>1, <3>1, <3>2 DEF ApprovedRecord, Effect, Approves
  <2>3. CASE ~IsLastStage(stage)
    <3>1. PendingRecord(record)
      BY <2>1, <2>3, FirstStageApproval
    <3>2. UpdatePendingProposal(p, record)
      BY <1>6, <2>3 DEF ApproveProposalStage
    <3>3. pending[p].completed = {} /\ stage = "reviewer"
      BY <2>1, <2>3
      DEF MayDecideStage, IsLastStage, PendingRecord, StageConsistent, Stages
    <3>4. record.completed = {"reviewer"}
      BY <2>1, <3>3 DEF StageApproved, PendingRecord, Records
    <3> QED BY <2>1, <3>1, <3>2, <3>3, <3>4 DEF PendingRecord, Effect, Advances
  <2> QED BY <2>2, <2>3
<1>7. ASSUME NEW stage \in Stages, NEW actor \in Spellings,
             NEW relaxed \in BOOLEAN,
             RejectProposalStage(p, stage, actor, relaxed)
      PROVE  Rejects(p, StageRejected(pending[p], stage, actor, relaxed))
  <2>1. StageRejected(pending[p], stage, actor, relaxed).completed
          = pending[p].completed
    BY <1>2, <1>7
    DEF RejectProposalStage, StageRejected, PendingRecord, Records
  <2> QED BY <1>2, <1>7, <2>1, StageRejection DEF RejectProposalStage, Rejects
<1> QED BY <1>1, <1>3, <1>4, <1>5, <1>6, <1>7
        DEF Effect, Enqueues, Approves, Rejects, PendingRecord,
            ApprovedRecord, RejectedRecord

LEMMA EffectKeeps ==
    ASSUME IInv, NEW p \in Ids, NEW record \in Records, Effect(p, record)
    PROVE  IInv'
  BY UpdateKeeps, MoveKeeps DEF Effect, Enqueues, Advances, Approves, Rejects

LEMMA NextKeeps == IInv /\ [Next]_vars => IInv'
<1>1. ASSUME IInv, Next PROVE IInv'
  BY <1>1, StepShape, EffectKeeps
<1>2. ASSUME IInv, UNCHANGED vars PROVE IInv'
  BY <1>2 DEF vars, IInv, Directories, WellMade
<1> QED BY <1>1, <1>2

\* The inductive invariant holds in every reachable state.
THEOREM Invariance == Spec => []IInv
  BY InitEstablishes, NextKeeps, PTL DEF Spec

\* Whatever faults occur: each directory holds records of its status, the
\* pending ones are at a stage that agrees with their history, the approved
\* ones passed every stage or were approved directly, and the separation of
\* duties was respected or its relaxation noted.
THEOREM QueueInvariants ==
    Spec => [](TypeOK /\ PendingConsistent /\ ApprovalAccountedFor
               /\ SodRespected)
  BY Invariance, InvariantImplies, PTL

\* Each directory holds records of its status, torn files aside.
THEOREM DirectoriesWellTyped == Spec => []TypeOK
  BY QueueInvariants, PTL

\* updatePendingProposal and moveProposal: no torn write and no missing
\* unlink leaves a pending record at a stage its history does not support.
THEOREM PendingStaysConsistent == Spec => []PendingConsistent
  BY QueueInvariants, PTL

\* approveProposalStage and approveProposal: whatever the faults, nothing is
\* filed as approved that was not approved by stages or directly.
THEOREM ApprovalsAccounted == Spec => []ApprovalAccountedFor
  BY QueueInvariants, PTL

-----------------------------------------------------------------------------
\* moveProposal: whatever faults occur, a pending file goes away only when a
\* complete decided record of the proposal is on disk.
THEOREM RemovalFollowsDecision == Spec => RemovedOnlyWhenDecided
<1> DEFINE Safe == \A p \in Ids :
              pending[p] # Absent /\ pending'[p] = Absent =>
                  Readable(approved'[p]) \/ Readable(rejected'[p])
<1>1. ASSUME IInv, Next PROVE Safe
  <2>1. PICK p \in Ids, record \in Records : Effect(p, record)
    BY <1>1, StepShape
  <2>2. SUFFICES ASSUME NEW q \in Ids, pending[q] # Absent,
                        pending'[q] = Absent
                 PROVE  Readable(approved'[q]) \/ Readable(rejected'[q])
    OBVIOUS
  <2>3. Directories
    BY <1>1 DEF IInv
  <2>4. CASE UpdatePendingProposal(p, record)
    <3>1. PICK written \in {record, Torn} :
              pending' = [pending EXCEPT ![p] = written]
      BY <2>4 DEF UpdatePendingProposal, WriteOutcomes
    <3> QED BY <2>2, <2>3, <3>1, FileAssumption DEF Directories
  <2>5. CASE MoveProposal(p, record)
    <3>1. PICK written \in {record, Torn}, left \in {pending[p], Absent} :
              /\ pending' = [pending EXCEPT ![p] = left]
              /\ written = Torn => left = pending[p]
              /\ \/ /\ record.status = "approved"
                    /\ approved' = [approved EXCEPT ![p] = written]
                    /\ rejected' = rejected
                 \/ /\ record.status = "rejected"
                    /\ rejected' = [rejected EXCEPT ![p] = written]
                    /\ approved' = approved
      BY <2>3, <2>5, MoveEffect
    <3>2. q = p /\ left = Absent /\ pending[p] # Absent
      BY <2>2, <2>3, <3>1 DEF Directories
    <3>3. written = record
      BY <3>1, <3>2
    <3>4. approved'[p] = record \/ rejected'[p] = record
      BY <2>3, <3>1, <3>3 DEF Directories
    <3> QED BY <3>2, <3>4, ReadableRecords
  <2> QED BY <2>1, <2>4, <2>5 DEF Effect, Enqueues, Advances, Approves, Rejects
<1>2. IInv /\ [Next]_vars => [Safe]_vars
  BY <1>1
<1> QED BY <1>2, Invariance, PTL DEF Spec, RemovedOnlyWhenDecided

-----------------------------------------------------------------------------
(* Without faults the store implements ProposalLifecycle.                  *)

\* No file is torn, and a proposal is in one directory at most.
OnePlace ==
    \A p \in Ids :
        /\ Torn \notin {pending[p], approved[p], rejected[p]}
        /\ pending[p] # Absent => approved[p] = Absent /\ rejected[p] = Absent
        /\ approved[p] # Absent => rejected[p] = Absent

\* The effect of a step when nothing fails.
LEMMA FaultFreeEffect ==
    ASSUME Faults = {}, IInv, NEW p \in Ids, NEW record \in Records,
           Effect(p, record)
    PROVE  \/ /\ Enqueues(p, record) \/ Advances(p, record)
              /\ pending' = [pending EXCEPT ![p] = record]
              /\ approved' = approved /\ rejected' = rejected
           \/ /\ Approves(p, record)
              /\ pending' = [pending EXCEPT ![p] = Absent]
              /\ approved' = [approved EXCEPT ![p] = record]
              /\ rejected' = rejected
           \/ /\ Rejects(p, record)
              /\ pending' = [pending EXCEPT ![p] = Absent]
              /\ rejected' = [rejected EXCEPT ![p] = record]
              /\ approved' = approved
<1>1. WriteOutcomes(record) = {record}
  BY DEF WriteOutcomes
<1>2. record # Torn => LeftPending(pending[p], record) = {Absent}
  BY DEF LeftPending
<1>3. record # Torn
  BY FileAssumption
<1> QED BY <1>1, <1>2, <1>3
        DEF Effect, Enqueues, Advances, Approves, Rejects, MoveProposal,
            UpdatePendingProposal, ApprovedRecord, RejectedRecord

LEMMA OnePlaceInvariant ==
    ASSUME Faults = {}
    PROVE  Spec => []OnePlace
<1>1. Init => OnePlace
  BY FileAssumption DEF Init, OnePlace
<1>2. ASSUME IInv, OnePlace, Next PROVE OnePlace'
  <2>1. PICK p \in Ids, record \in Records : Effect(p, record)
    BY <1>2, StepShape
  <2>2. record # Torn /\ record # Absent /\ Directories
    BY <1>2, FileAssumption DEF IInv
  <2> QED BY <1>2, <2>1, <2>2, FaultFreeEffect, FileAssumption
          DEF OnePlace, Directories, Enqueues, Advances, Approves, Rejects,
              Readable
<1>3. ASSUME OnePlace, UNCHANGED vars PROVE OnePlace'
  BY <1>3 DEF OnePlace, vars
<1> QED BY <1>1, <1>2, <1>3, Invariance, PTL DEF Spec

LEMMA InitMaps == Init => Lifecycle!LifecycleInit
  BY ReadableRecords
  DEF Init, Lifecycle!LifecycleInit, fileDecision, filePassed

\* How the refinement mapping follows a change of one proposal.
LEMMA MappingChange ==
    ASSUME NEW p \in Ids,
           \A q \in Ids \ {p} : /\ pending'[q] = pending[q]
                                /\ approved'[q] = approved[q]
                                /\ rejected'[q] = rejected[q]
    PROVE  /\ fileDecision' = [fileDecision EXCEPT ![p] = fileDecision'[p]]
           /\ filePassed' = [filePassed EXCEPT ![p] = filePassed'[p]]
  BY DEF fileDecision, filePassed

LEMMA StepMaps ==
    ASSUME Faults = {}, IInv, OnePlace, Next
    PROVE  Lifecycle!LifecycleNext
<1>1. PICK p \in Ids, record \in Records : Effect(p, record)
  BY StepShape
<1>2. Directories /\ WellMade(p) /\ Readable(record)
  BY ReadableRecords DEF IInv
<1>3. /\ fileDecision' = [fileDecision EXCEPT ![p] = fileDecision'[p]]
      /\ filePassed' = [filePassed EXCEPT ![p] = filePassed'[p]]
  <2>1. \A q \in Ids \ {p} : /\ pending'[q] = pending[q]
                             /\ approved'[q] = approved[q]
                             /\ rejected'[q] = rejected[q]
    BY <1>1, <1>2, FaultFreeEffect DEF Directories
  <2> QED BY <2>1, MappingChange
<1>4. CASE Enqueues(p, record)
  <2>1. pending'[p] = record /\ approved'[p] = Absent /\ rejected'[p] = Absent
    BY <1>1, <1>2, <1>4, FaultFreeEffect, ReadableRecords
    DEF Directories, Enqueues, Approves, Rejects
  <2>2. fileDecision[p] = "unknown" /\ filePassed[p] = 0
    BY <1>4, ReadableRecords DEF Enqueues, fileDecision, filePassed
  <2>3. fileDecision'[p] = "pending" /\ filePassed'[p] = 0
    BY <1>2, <1>4, <2>1, ReadableRecords
    DEF Enqueues, fileDecision, filePassed, StagesPassed
  <2>4. filePassed' = filePassed
    <3>1. filePassed = [q \in Ids |-> filePassed[q]]
      BY DEF filePassed
    <3> QED BY <1>3, <2>2, <2>3, <3>1
  <2> QED BY <1>3, <2>2, <2>3, <2>4
          DEF Lifecycle!LifecycleNext, Lifecycle!Submit
<1>5. ASSUME Readable(pending[p])
      PROVE  /\ fileDecision[p] = "pending"
             /\ filePassed[p] = StagesPassed(pending[p])
             /\ approved[p] = Absent /\ rejected[p] = Absent
  BY <1>5, ReadableRecords DEF OnePlace, fileDecision, filePassed, Readable
<1>6. CASE Advances(p, record)
  <2>1. pending'[p] = record /\ approved'[p] = Absent /\ rejected'[p] = Absent
    <3>1. approved[p] = Absent /\ rejected[p] = Absent
      BY <1>5, <1>6 DEF Advances
    <3>2. record.status = "pending"
      BY <1>6 DEF Advances, PendingRecord
    <3> QED BY <1>1, <1>2, <3>1, <3>2, FaultFreeEffect
            DEF Directories, Approves, Rejects, ApprovedRecord, RejectedRecord
  <2>2. fileDecision[p] = "pending" /\ filePassed[p] = 0
    BY <1>5, <1>6 DEF Advances, StagesPassed
  <2>3. fileDecision'[p] = "pending" /\ filePassed'[p] = 1
    BY <1>2, <1>6, <2>1, ReadableRecords
    DEF Advances, fileDecision, filePassed, StagesPassed, Stages
  <2>4. fileDecision' = fileDecision
    BY <1>3, <2>2, <2>3 DEF fileDecision
  <2> QED BY <1>3, <2>2, <2>3, <2>4
          DEF Lifecycle!LifecycleNext, Lifecycle!PassStage
<1>7. CASE Approves(p, record)
  <2>1. approved'[p] = record
    <3>1. record.status = "approved"
      BY <1>7 DEF Approves, ApprovedRecord
    <3> QED BY <1>1, <1>2, <3>1, FaultFreeEffect
            DEF Directories, Enqueues, Advances, Rejects, PendingRecord,
                RejectedRecord
  <2>2. fileDecision[p] = "pending"
    BY <1>5, <1>7 DEF Approves
  <2>3. fileDecision'[p] = "approved" /\ filePassed'[p] = 2
    <3>1. record.completed = Stages
      BY <1>7 DEF Approves, ApprovedRecord, AccountedFor
    <3> QED BY <1>2, <2>1, <3>1
            DEF fileDecision, filePassed, StagesPassed, Stages
  <2> QED BY <1>3, <2>2, <2>3
          DEF Lifecycle!LifecycleNext, Lifecycle!Approve
<1>8. CASE Rejects(p, record)
  <2>1. /\ rejected'[p] = record /\ approved'[p] = Absent
    <3>1. record.status = "rejected"
      BY <1>8 DEF Rejects, RejectedRecord
    <3>2. approved[p] = Absent
      BY <1>5, <1>8 DEF Rejects
    <3> QED BY <1>1, <1>2, <3>1, <3>2, FaultFreeEffect
            DEF Directories, Enqueues, Advances, Approves, PendingRecord,
                ApprovedRecord
  <2>2. fileDecision[p] = "pending" /\ filePassed[p] = StagesPassed(pending[p])
    BY <1>5, <1>8 DEF Rejects
  <2>3. fileDecision'[p] = "rejected" /\ filePassed'[p] = filePassed[p]
    BY <1>2, <1>8, <2>1, <2>2, ReadableRecords
    DEF Rejects, fileDecision, filePassed, StagesPassed
  <2>4. filePassed' = filePassed
    BY <1>3, <2>3 DEF filePassed
  <2> QED BY <1>3, <2>2, <2>3, <2>4
          DEF Lifecycle!LifecycleNext, Lifecycle!Reject
<1> QED BY <1>1, <1>4, <1>6, <1>7, <1>8 DEF Effect

\* Without faults, the file store is the abstract queue: a proposal passes
\* its stages in order, and its decision is taken once and is final.
THEOREM Refinement ==
    ASSUME Faults = {}
    PROVE  Spec => ImplementsLifecycle
<1>1. ASSUME IInv, OnePlace, [Next]_vars
      PROVE  [Lifecycle!LifecycleNext]_(Lifecycle!lifecycleVars)
  <2>1. CASE Next
    BY <1>1, <2>1, StepMaps
  <2>2. CASE UNCHANGED vars
    BY <2>2 DEF vars, Lifecycle!lifecycleVars, fileDecision, filePassed
  <2> QED BY <1>1, <2>1, <2>2
<1> QED BY <1>1, InitMaps, Invariance, OnePlaceInvariant, PTL
        DEF Spec, ImplementsLifecycle, Lifecycle!LifecycleSpec

-----------------------------------------------------------------------------
(* The calls that apply proposals.                                         *)

\* The store of proposals does not notice who calls it.
LEMMA StoreSteps == ApplyNext => [Next]_vars
<1>1. ASSUME NEW c \in Callers, Decide(c) PROVE Next
  <2>1. call[c].hand \in Ids
    BY <1>1 DEF Decide, PendingIds
  <2> QED BY <1>1, <2>1 DEF Decide, Next
<1>2. UnchangedStore => UNCHANGED vars
  BY DEF UnchangedStore, vars
<1> QED BY <1>1, <1>2
        DEF ApplyNext, TakeUp, CountToday, ListPending, NextInList,
            CheckResource, WriteResource, DecideThrows, OtherOperation, NewDay,
            vars

\* The calls that apply proposals use the file store as its own operations
\* do: every behaviour of theirs is a behaviour of the store.
THEOREM ApplyIsQueue == ApplySpec => Spec
<1>1. ApplyInit => Init
  BY DEF ApplyInit
<1>2. [ApplyNext]_applyVars => [Next]_vars
  BY StoreSteps DEF applyVars, vars
<1> QED BY <1>1, <1>2, PTL DEF ApplySpec, Spec

\* With approve_proposal, apply_proposal, automatic runs and direct decisions
\* overlapping, a proposal is still decided once and its decision is final.
THEOREM ApplyImplementsLifecycle ==
    ASSUME Faults = {}
    PROVE  ApplySpec => ImplementsLifecycle
  BY ApplyIsQueue, Refinement, PTL
-----------------------------------------------------------------------------
(* The inductive invariant, of a store without faults.                     *)

\* The proposal has been submitted: there is a file of it.
Known(p) == pending[p] # Absent \/ approved[p] # Absent \/ rejected[p] # Absent

CallRecords ==
    [kind : {"none", "approve", "apply", "auto"},
     at : {"idle", "list", "next", "check", "write", "decide"},
     hand : Ids \cup {NoOne}, counted : Nat, todo : SUBSET Ids]

Applying == {"check", "write", "decide"}

\* A call of c: what it has in hand was submitted, and an automatic run has
\* counted what c's runs approved and stays below the limit while it applies.
Sound(c, r) ==
    /\ r \in CallRecords
    /\ r.at \in {"list", "next"} => r.kind = "auto"
    /\ r.at \in Applying => r.kind # "none" /\ r.hand \in Ids /\ Known(r.hand)
    /\ \A p \in r.todo : Known(p)
    /\ r.kind = "auto" => auto[c] <= r.counted
    /\ r.kind = "auto" /\ r.at \in Applying => r.counted < MaxPerDay

Calling == call \in [Callers -> CallRecords] /\ \A c \in Callers : Sound(c, call[c])

Installing ==
    /\ resource \in [Names -> Ids \cup {NoOne}]
    /\ \A n \in Names : resource[n] # NoOne => Known(resource[n])

Counting ==
    /\ today \subseteq {p \in Ids : approved[p] # Absent}
    /\ IsFiniteSet(today)
    /\ auto \in [Callers -> Nat]
    /\ \A c \in Callers : auto[c] <= Cardinality(today) /\ auto[c] <= MaxPerDay

ApplyInv == Calling /\ Installing /\ InstalledIsDecided /\ Counting

LEMMA IdleIsSound == \A c : Sound(c, Idle) /\ Idle.at = "idle"
  BY DEF Sound, CallRecords, Idle, Applying

LEMMA ApplyInitEstablishes == ApplyInit => ApplyInv
<1> SUFFICES ASSUME ApplyInit PROVE ApplyInv
  OBVIOUS
<1>1. Calling
  BY IdleIsSound DEF ApplyInit, Calling, Sound
<1>2. Installing /\ InstalledIsDecided
  BY DEF ApplyInit, Installing, InstalledIsDecided
<1>3. Counting
  <2>1. IsFiniteSet({}) /\ Cardinality({}) = 0
    BY FS_EmptySet
  <2> QED BY <2>1, ApplyAssumption DEF ApplyInit, Counting
<1> QED BY <1>1, <1>2, <1>3 DEF ApplyInv

\* Without faults no step of the store forgets a proposal or makes a decided
\* one pending again, and it approves one proposal at most.
LEMMA StoreMoves ==
    ASSUME Faults = {}, IInv, OnePlace, Next
    PROVE  /\ \A q \in Ids : Known(q) => Known(q)'
           /\ \A q \in PendingIds' : Known(q) => q \in PendingIds
           /\ \A q \in Ids : approved[q] # Absent => approved'[q] # Absent
           /\ \E p \in Ids : \A q \in Ids \ {p} : approved'[q] = approved[q]
<1>1. PICK p \in Ids, record \in Records : Effect(p, record)
  BY StepShape
<1>2. Directories /\ Directories' /\ Readable(record)
  BY <1>1, EffectKeeps, ReadableRecords DEF IInv
<1>3. CASE /\ Enqueues(p, record) \/ Advances(p, record)
           /\ pending' = [pending EXCEPT ![p] = record]
           /\ approved' = approved /\ rejected' = rejected
  BY <1>2, <1>3 DEF Directories, Known, PendingIds, Enqueues, Advances, Readable
<1>4. CASE /\ Approves(p, record)
           /\ pending' = [pending EXCEPT ![p] = Absent]
           /\ approved' = [approved EXCEPT ![p] = record]
           /\ rejected' = rejected
  BY <1>2, <1>4 DEF Directories, Known, PendingIds, Readable
<1>5. CASE /\ Rejects(p, record)
           /\ pending' = [pending EXCEPT ![p] = Absent]
           /\ rejected' = [rejected EXCEPT ![p] = record]
           /\ approved' = approved
  BY <1>2, <1>5 DEF Directories, Known, PendingIds, Readable
<1> QED BY <1>1, <1>3, <1>4, <1>5, FaultFreeEffect

\* approveProposal takes the proposal from pending to approved.
LEMMA ApprovalMoves ==
    ASSUME Faults = {}, IInv, OnePlace, NEW p \in PendingIds, ApproveProposal(p)
    PROVE  /\ approved[p] = Absent /\ approved'[p] # Absent
           /\ \A q \in Ids \ {p} : approved'[q] = approved[q]
           /\ p \notin PendingIds'
<1>1. p \in Ids /\ Readable(pending[p])
  BY DEF PendingIds
<1> DEFINE record == DirectlyApproved(pending[p])
<1>2. ApprovedRecord(record) /\ record \in Records
  BY <1>1, DirectApproval DEF IInv, WellMade, ApprovedRecord
<1>3. Approves(p, record)
  BY <1>1, <1>2 DEF Approves, ApproveProposal
<1>4. /\ pending' = [pending EXCEPT ![p] = Absent]
      /\ approved' = [approved EXCEPT ![p] = record]
  <2>1. record.status = "approved"
    BY <1>2 DEF ApprovedRecord
  <2>2. Effect(p, record)
    BY <1>3 DEF Effect
  <2>3. WriteOutcomes(record) = {record} /\ LeftPending(pending[p], record) = {Absent}
    BY <1>2, FileAssumption DEF WriteOutcomes, LeftPending
  <2> QED BY <2>1, <2>3, <1>3 DEF Approves, MoveProposal
<1> QED BY <1>1, <1>2, <1>4, ReadableRecords
        DEF IInv, Directories, OnePlace, PendingIds, Readable

\* The approvals of the day stay finite, and follow the store.
LEMMA ResolveKeeps ==
    ASSUME Counting, Resolve,
           \A q \in Ids : approved[q] # Absent => approved'[q] # Absent,
           NEW p \in Ids, \A q \in Ids \ {p} : approved'[q] = approved[q]
    PROVE  /\ today' \subseteq {q \in Ids : approved'[q] # Absent}
           /\ IsFiniteSet(today')
           /\ Cardinality(today) \in Nat /\ Cardinality(today') \in Nat
           /\ Cardinality(today) <= Cardinality(today')
           /\ approved[p] = Absent /\ approved'[p] # Absent =>
                Cardinality(today') = Cardinality(today) + 1
<1>1. today' = today \/ today' = today \cup {p}
  BY DEF Resolve
<1>2. approved[p] = Absent /\ approved'[p] # Absent =>
        today' = today \cup {p} /\ p \notin today
  BY DEF Resolve, Counting
<1>3. IsFiniteSet(today) /\ Cardinality(today) \in Nat
  BY FS_CardinalityType DEF Counting
<1>4. IsFiniteSet(today \cup {p}) /\ Cardinality(today \cup {p}) \in Nat
  BY <1>3, FS_AddElement, FS_CardinalityType
<1>5. IF p \in today THEN Cardinality(today \cup {p}) = Cardinality(today)
      ELSE Cardinality(today \cup {p}) = Cardinality(today) + 1
  BY <1>3, FS_AddElement
<1>6. today' \subseteq {q \in Ids : approved'[q] # Absent}
  BY DEF Resolve, Counting
<1>7. CASE today' = today
  <2>1. IsFiniteSet(today') /\ Cardinality(today') = Cardinality(today)
    BY <1>3, <1>7
  <2>2. ~(approved[p] = Absent /\ approved'[p] # Absent)
    BY <1>2, <1>7
  <2> QED BY <1>3, <1>6, <2>1, <2>2
<1>8. CASE today' = today \cup {p}
  <2>1. IsFiniteSet(today')
    BY <1>4, <1>8
  <2>2. Cardinality(today') = Cardinality(today \cup {p})
    BY <1>8
  <2> QED BY <1>2, <1>3, <1>4, <1>5, <1>6, <2>1, <2>2
<1> QED BY <1>1, <1>7, <1>8
-----------------------------------------------------------------------------
(* The steps of the calls.                                                 *)

\* A call goes on without touching the store, the resources or the counts,
\* and if it leaves a decision undone, its proposal is not pending.
LEMMA QuietMove ==
    ASSUME ApplyInv, UnchangedStore, UNCHANGED <<resource, auto>>,
           NEW c \in Callers, NEW r, Sound(c, r),
           call' = [call EXCEPT ![c] = r],
           At(c, "decide") => call[c].hand \notin PendingIds
    PROVE  ApplyInv'
<1>1. /\ \A d \in Callers \ {c} : call'[d] = call[d]
      /\ call'[c] = r /\ call' \in [Callers -> CallRecords]
  BY DEF ApplyInv, Calling, Sound
<1>2. \A d, x : Sound(d, x)' <=> Sound(d, x)
  BY DEF UnchangedStore, Sound, Known
<1>3. Calling'
  BY <1>1, <1>2 DEF ApplyInv, Calling
<1>4. Installing' /\ Counting'
  BY DEF ApplyInv, Installing, Counting, UnchangedStore, Known
<1>5. InstalledIsDecided'
  BY <1>1 DEF ApplyInv, InstalledIsDecided, UnchangedStore, PendingIds, At
<1> QED BY <1>3, <1>4, <1>5 DEF ApplyInv

LEMMA TakeUpKeeps ==
    ASSUME ApplyInv, NEW c \in Callers, NEW p \in Ids, TakeUp(c, p)
    PROVE  ApplyInv'
<1>1. PICK kind \in {"approve", "apply"}, apply \in BOOLEAN :
        call' = [call EXCEPT ![c] =
                   [Idle EXCEPT !.kind = kind,
                                !.at = IF apply THEN "check" ELSE "decide",
                                !.hand = p]]
  BY DEF TakeUp
<1>2. Known(p)
  BY DEF TakeUp, PendingIds, Readable, Known
<1>3. Sound(c, [Idle EXCEPT !.kind = kind,
                            !.at = IF apply THEN "check" ELSE "decide",
                            !.hand = p])
  BY <1>2 DEF Sound, CallRecords, Idle, Applying
<1> QED BY <1>1, <1>3, QuietMove DEF TakeUp, At

LEMMA CountTodayKeeps ==
    ASSUME ApplyInv, NEW c \in Callers, CountToday(c)
    PROVE  ApplyInv'
<1>1. Cardinality(today) \in Nat /\ auto[c] <= Cardinality(today)
  BY FS_CardinalityType DEF ApplyInv, Counting
<1>2. Sound(c, [Idle EXCEPT !.kind = "auto", !.at = "list",
                            !.counted = Cardinality(today)])
  BY <1>1 DEF Sound, CallRecords, Idle, Applying
<1> QED BY <1>2, QuietMove DEF CountToday, At

LEMMA ListPendingKeeps ==
    ASSUME ApplyInv, NEW c \in Callers, ListPending(c)
    PROVE  ApplyInv'
<1>1. PICK some \in SUBSET PendingIds :
        call' = [call EXCEPT ![c].at = "next", ![c].todo = some]
  BY DEF ListPending
<1> DEFINE r == [call[c] EXCEPT !.at = "next", !.todo = some]
<1>2. call[c] \in CallRecords /\ Sound(c, call[c])
  BY DEF ApplyInv, Calling
<1>3. call' = [call EXCEPT ![c] = r]
  BY <1>1
<1>4. Sound(c, r)
  BY <1>2 DEF ListPending, At, Sound, CallRecords, Applying, PendingIds,
              Readable, Known
<1> QED BY <1>3, <1>4, QuietMove DEF ListPending, At

LEMMA EndKeeps ==
    ASSUME ApplyInv, NEW c \in Callers, End(c),
           UnchangedStore, UNCHANGED <<resource, auto>>,
           At(c, "decide") => call[c].hand \notin PendingIds
    PROVE  ApplyInv'
  BY IdleIsSound, QuietMove DEF End

LEMMA NextInListKeeps ==
    ASSUME ApplyInv, NEW c \in Callers, NextInList(c)
    PROVE  ApplyInv'
<1>1. ASSUME NEW p \in call[c].todo, GateAllows(c),
             call' = [call EXCEPT ![c].at = "check", ![c].hand = p,
                                  ![c].todo = @ \ {p}]
      PROVE  ApplyInv'
  <2> DEFINE r == [call[c] EXCEPT !.at = "check", !.hand = p,
                                  !.todo = call[c].todo \ {p}]
  <2>1. call[c] \in CallRecords /\ Sound(c, call[c])
    BY DEF ApplyInv, Calling
  <2>2. call' = [call EXCEPT ![c] = r]
    BY <1>1
  <2>3. Sound(c, r)
    BY <1>1, <2>1 DEF NextInList, At, GateAllows, Sound, CallRecords, Applying
  <2> QED BY <2>2, <2>3, QuietMove DEF NextInList, At
<1>2. CASE End(c)
  BY <1>2, EndKeeps DEF NextInList, At
<1> QED BY <1>1, <1>2 DEF NextInList

\* What a call that has not written the resource does next.
LEMMA NotAppliedKeeps ==
    ASSUME ApplyInv, NEW c \in Callers, NEW failed \in BOOLEAN,
           At(c, "check") \/ At(c, "write"), NotApplied(c, failed),
           UnchangedStore, UNCHANGED <<resource, auto>>
    PROVE  ApplyInv'
<1>1. /\ call[c] \in CallRecords /\ Sound(c, call[c])
      /\ ~At(c, "decide") /\ call[c].at \in Applying
  BY DEF ApplyInv, Calling, At, Applying
<1>2. CASE GoOn(c, "decide")
  <2>1. Sound(c, [call[c] EXCEPT !.at = "decide"])
    BY <1>1 DEF Sound, CallRecords, Applying
  <2> QED BY <1>1, <1>2, <2>1, QuietMove DEF GoOn
<1>3. CASE End(c)
  BY <1>1, <1>3, EndKeeps
<1>4. CASE /\ call[c].kind = "auto"
           /\ call' = [call EXCEPT ![c].at = "next", ![c].hand = NoOne]
  <2>1. Sound(c, [call[c] EXCEPT !.at = "next", !.hand = NoOne])
    BY <1>1, <1>4 DEF Sound, CallRecords, Applying
  <2> QED BY <1>1, <1>4, <2>1, QuietMove
<1>5. call[c].kind \in {"approve", "apply", "auto"}
  BY <1>1 DEF Sound, CallRecords, Applying
<1> QED BY <1>2, <1>3, <1>4, <1>5 DEF NotApplied

LEMMA CheckResourceKeeps ==
    ASSUME ApplyInv, NEW c \in Callers, CheckResource(c)
    PROVE  ApplyInv'
<1>1. CASE GoOn(c, "write")
  <2>1. Sound(c, call[c])
    BY DEF ApplyInv, Calling
  <2>2. Sound(c, [call[c] EXCEPT !.at = "write"])
    BY <2>1 DEF CheckResource, At, Sound, CallRecords, Applying
  <2> QED BY <1>1, <2>2, QuietMove DEF CheckResource, At, GoOn
<1>2. CASE \E failed \in BOOLEAN : NotApplied(c, failed)
  BY <1>2, NotAppliedKeeps DEF CheckResource
<1> QED BY <1>1, <1>2 DEF CheckResource
LEMMA WriteResourceKeeps ==
    ASSUME ApplyInv, NEW c \in Callers, WriteResource(c)
    PROVE  ApplyInv'
<1>1. CASE \E failed \in BOOLEAN : NotApplied(c, failed) /\ UNCHANGED resource
  BY <1>1, NotAppliedKeeps DEF WriteResource
<1>2. CASE /\ resource' = [resource EXCEPT ![NameOf[call[c].hand]] = call[c].hand]
           /\ GoOn(c, "decide")
  <2> DEFINE r == [call[c] EXCEPT !.at = "decide"]
  <2>1. /\ Sound(c, call[c]) /\ At(c, "write")
        /\ call[c].hand \in Ids /\ Known(call[c].hand)
    BY DEF WriteResource, ApplyInv, Calling, Sound, At, Applying
  <2>2. Sound(c, r)
    BY <2>1 DEF Sound, At, CallRecords, Applying
  <2>3. /\ call' = [call EXCEPT ![c] = r]
        /\ UnchangedStore /\ UNCHANGED auto
    BY <1>2 DEF WriteResource, GoOn
  <2>4. \A d, x : Sound(d, x)' <=> Sound(d, x)
    BY <2>3 DEF UnchangedStore, Sound, Known
  <2>5. /\ \A d \in Callers \ {c} : call'[d] = call[d]
        /\ call'[c] = r /\ call' \in [Callers -> CallRecords]
    BY <2>2, <2>3 DEF ApplyInv, Calling, Sound
  <2>6. Calling'
    BY <2>2, <2>4, <2>5 DEF ApplyInv, Calling
  <2>7. Counting'
    BY <2>3 DEF ApplyInv, Counting, UnchangedStore
  <2>8. Installing'
    BY <1>2, <2>1, <2>3 DEF ApplyInv, Installing, UnchangedStore, Known
  <2>9. InstalledIsDecided'
    <3>1. SUFFICES ASSUME NEW n \in Names, resource'[n] # NoOne
                   PROVE  \/ resource'[n] \notin PendingIds'
                          \/ \E d \in Callers : At(d, "decide")'
                                                /\ call'[d].hand = resource'[n]
      BY DEF InstalledIsDecided
    <3>2. CASE resource'[n] = call[c].hand
      <4>1. At(c, "decide")' /\ call'[c].hand = call[c].hand
        BY <2>1, <2>5 DEF At, Sound, CallRecords
      <4> QED BY <3>2, <4>1
    <3>3. CASE resource'[n] # call[c].hand
      <4>1. resource'[n] = resource[n] /\ PendingIds' = PendingIds
        BY <1>2, <2>3, <3>3 DEF ApplyInv, Installing, UnchangedStore, PendingIds
      <4> QED BY <2>1, <2>5, <3>1, <4>1 DEF ApplyInv, InstalledIsDecided, At
    <3> QED BY <3>2, <3>3
  <2> QED BY <2>6, <2>7, <2>8, <2>9 DEF ApplyInv
<1> QED BY <1>1, <1>2 DEF WriteResource

LEMMA DecideKeeps ==
    ASSUME Faults = {}, IInv, OnePlace, ApplyInv, NEW c \in Callers, Decide(c)
    PROVE  ApplyInv'
<1> DEFINE p == call[c].hand
           r == IF call[c].kind = "auto"
                THEN [call[c] EXCEPT !.at = "next", !.hand = NoOne,
                                     !.counted = call[c].counted + 1]
                ELSE Idle
<1>1. /\ call[c] \in CallRecords /\ Sound(c, call[c])
      /\ call[c].at = "decide" /\ p \in PendingIds /\ p \in Ids
      /\ ApproveProposal(p) /\ Resolve /\ UNCHANGED resource
  BY DEF Decide, ApplyInv, Calling, At, PendingIds
<1>2. Next
  BY <1>1 DEF Next
<1>3. /\ \A q \in Ids : Known(q) => Known(q)'
      /\ \A q \in PendingIds' : Known(q) => q \in PendingIds
      /\ \A q \in Ids : approved[q] # Absent => approved'[q] # Absent
  BY <1>2, StoreMoves
<1>4. /\ approved[p] = Absent /\ approved'[p] # Absent /\ p \notin PendingIds'
      /\ \A q \in Ids \ {p} : approved'[q] = approved[q]
  BY <1>1, ApprovalMoves
<1>5. /\ today' \subseteq {q \in Ids : approved'[q] # Absent}
      /\ IsFiniteSet(today')
      /\ Cardinality(today) \in Nat
      /\ Cardinality(today') = Cardinality(today) + 1
  BY <1>1, <1>3, <1>4, ResolveKeeps DEF ApplyInv
<1>6. /\ call' = [call EXCEPT ![c] = r]
      /\ auto' = IF call[c].kind = "auto" THEN [auto EXCEPT ![c] = @ + 1] ELSE auto
  BY DEF Decide, End
<1>7. auto \in [Callers -> Nat] /\ MaxPerDay \in Nat
  BY ApplyAssumption DEF ApplyInv, Counting
<1>8. call[c].kind = "auto" =>
        /\ call[c].counted \in Nat
        /\ auto[c] + 1 <= call[c].counted + 1 /\ auto[c] + 1 <= MaxPerDay
  BY <1>1, <1>7 DEF Sound, CallRecords, Applying
<1>9. Counting'
  <2>1. auto' \in [Callers -> Nat]
    BY <1>6, <1>7
  <2>2. ASSUME NEW d \in Callers
        PROVE  auto'[d] <= Cardinality(today') /\ auto'[d] <= MaxPerDay
    <3>1. /\ auto[d] \in Nat
          /\ auto[d] <= Cardinality(today) /\ auto[d] <= MaxPerDay
      BY DEF ApplyInv, Counting
    <3>2. auto'[d] = auto[d] \/ (d = c /\ call[c].kind = "auto" /\ auto'[d] = auto[d] + 1)
      BY <1>6, <1>7
    <3> QED BY <1>5, <1>7, <1>8, <3>1, <3>2
  <2> QED BY <1>5, <2>1, <2>2 DEF Counting
<1>10. Installing'
  BY <1>1, <1>3 DEF ApplyInv, Installing
<1>11. /\ \A d \in Callers \ {c} : call'[d] = call[d] /\ auto'[d] = auto[d]
       /\ call'[c] = r
  BY <1>6, <1>7 DEF ApplyInv, Calling
<1>12. Calling'
  <2>1. r \in CallRecords
    <3>1. CASE call[c].kind # "auto"
      BY <3>1 DEF CallRecords, Idle
    <3>2. CASE call[c].kind = "auto"
      <4> DEFINE next == [call[c] EXCEPT !.at = "next", !.hand = NoOne,
                                         !.counted = call[c].counted + 1]
      <4>1. call[c].counted + 1 \in Nat /\ r = next
        BY <1>8, <3>2
      <4>2. next \in CallRecords
        BY <1>1, <4>1 DEF CallRecords
      <4> QED BY <4>1, <4>2
    <3> QED BY <3>1, <3>2
  <2>2. Sound(c, call[c])'
    <3>1. CASE call[c].kind # "auto"
      BY <1>11, <2>1, <3>1 DEF Sound, Idle, Applying
    <3>2. CASE call[c].kind = "auto"
      <4>1. auto'[c] = auto[c] + 1
        BY <1>6, <1>7, <3>2
      <4>2. \A q \in call[c].todo : Known(q)'
        BY <1>1, <1>3 DEF Sound, CallRecords, Known
      <4>3. /\ call'[c].kind = "auto" /\ call'[c].at = "next"
            /\ call'[c].todo = call[c].todo
            /\ call'[c].counted = call[c].counted + 1
        BY <1>1, <1>11, <3>2 DEF CallRecords
      <4>4. call'[c] \in CallRecords
        BY <1>11, <2>1
      <4>5. auto'[c] <= call'[c].counted
        BY <1>7, <1>8, <3>2, <4>1, <4>3
      <4> HIDE DEF r
      <4> QED BY <4>2, <4>3, <4>4, <4>5 DEF Sound, Applying, Known
    <3> QED BY <3>1, <3>2
  <2>3. ASSUME NEW d \in Callers \ {c} PROVE Sound(d, call[d])'
    <3>1. Sound(d, call[d]) /\ call'[d] = call[d] /\ auto'[d] = auto[d]
      BY <1>11 DEF ApplyInv, Calling
    <3> QED BY <1>3, <3>1 DEF Sound, CallRecords, Known
  <2>4. call' \in [Callers -> CallRecords]
    BY <1>6, <2>1 DEF ApplyInv, Calling
  <2> QED BY <2>2, <2>3, <2>4 DEF Calling
<1>13. InstalledIsDecided'
  <2>1. SUFFICES ASSUME NEW n \in Names, resource[n] # NoOne,
                        resource[n] \in PendingIds'
                 PROVE  \E d \in Callers : At(d, "decide")'
                                           /\ call'[d].hand = resource[n]
    BY <1>1 DEF InstalledIsDecided
  <2>2. resource[n] \in PendingIds /\ resource[n] # p
    BY <1>3, <1>4, <2>1 DEF ApplyInv, Installing
  <2> QED BY <1>11, <2>1, <2>2 DEF ApplyInv, InstalledIsDecided, At
<1> QED BY <1>9, <1>10, <1>12, <1>13 DEF ApplyInv

LEMMA OtherOperationKeeps ==
    ASSUME Faults = {}, IInv, OnePlace, ApplyInv, OtherOperation
    PROVE  ApplyInv'
<1>1. Next /\ Resolve /\ UNCHANGED <<call, resource, auto>>
  BY DEF OtherOperation
<1>2. PICK p \in Ids : \A q \in Ids \ {p} : approved'[q] = approved[q]
  BY <1>1, StoreMoves
<1>3. /\ \A q \in Ids : Known(q) => Known(q)'
      /\ \A q \in PendingIds' : Known(q) => q \in PendingIds
      /\ \A q \in Ids : approved[q] # Absent => approved'[q] # Absent
  BY <1>1, StoreMoves
<1>4. /\ today' \subseteq {q \in Ids : approved'[q] # Absent}
      /\ IsFiniteSet(today')
      /\ Cardinality(today) \in Nat /\ Cardinality(today') \in Nat
      /\ Cardinality(today) <= Cardinality(today')
  BY <1>1, <1>2, <1>3, ResolveKeeps DEF ApplyInv
<1>5. Calling'
  BY <1>1, <1>3 DEF ApplyInv, Calling, Sound, CallRecords
<1>6. Installing'
  BY <1>1, <1>3 DEF ApplyInv, Installing
<1>7. InstalledIsDecided'
  <2>1. SUFFICES ASSUME NEW n \in Names, resource[n] # NoOne,
                        resource[n] \in PendingIds'
                 PROVE  \E d \in Callers : At(d, "decide")
                                           /\ call[d].hand = resource[n]
    BY <1>1 DEF InstalledIsDecided, At
  <2>2. resource[n] \in PendingIds
    BY <1>3, <2>1 DEF ApplyInv, Installing
  <2> QED BY <2>1, <2>2 DEF ApplyInv, InstalledIsDecided
<1>8. Counting'
  <2>1. auto' = auto /\ auto \in [Callers -> Nat]
    BY <1>1 DEF ApplyInv, Counting
  <2>2. ASSUME NEW d \in Callers
        PROVE  auto'[d] <= Cardinality(today') /\ auto'[d] <= MaxPerDay
    <3>1. auto[d] <= Cardinality(today) /\ auto[d] <= MaxPerDay
      BY DEF ApplyInv, Counting
    <3> QED BY <1>4, <2>1, <3>1
  <2> QED BY <1>4, <2>1, <2>2 DEF Counting
<1> QED BY <1>5, <1>6, <1>7, <1>8 DEF ApplyInv

LEMMA NewDayKeeps ==
    ASSUME ApplyInv, NewDay
    PROVE  ApplyInv'
<1>1. Calling'
  <2>1. ASSUME NEW d \in Callers PROVE Sound(d, call[d])'
    <3>1. Sound(d, call[d]) /\ auto'[d] = 0
      BY DEF ApplyInv, Calling, NewDay
    <3> QED BY <3>1 DEF Sound, CallRecords, Known, NewDay
  <2> QED BY <2>1 DEF ApplyInv, Calling, NewDay
<1>2. Installing' /\ InstalledIsDecided'
  BY DEF ApplyInv, Installing, InstalledIsDecided, NewDay, Known, PendingIds, At
<1>3. Counting'
  <2>1. IsFiniteSet({}) /\ Cardinality({}) = 0
    BY FS_EmptySet
  <2> QED BY <2>1, ApplyAssumption DEF Counting, NewDay
<1> QED BY <1>1, <1>2, <1>3 DEF ApplyInv

LEMMA ApplyNextKeeps ==
    ASSUME Faults = {}, IInv, OnePlace, ApplyInv, [ApplyNext]_applyVars
    PROVE  ApplyInv'
<1>1. ASSUME NEW c \in Callers, DecideThrows(c) PROVE ApplyInv'
  BY <1>1, EndKeeps DEF DecideThrows
<1>2. CASE UNCHANGED applyVars
  BY <1>2 DEF applyVars, ApplyInv, Calling, Sound, Known, Installing,
              InstalledIsDecided, Counting, PendingIds, At
<1> QED BY <1>1, <1>2, TakeUpKeeps, CountTodayKeeps, ListPendingKeeps,
           NextInListKeeps, CheckResourceKeeps, WriteResourceKeeps, DecideKeeps,
           OtherOperationKeeps, NewDayKeeps DEF ApplyNext

-----------------------------------------------------------------------------
\* The inductive invariant holds in every state of a store without faults.
THEOREM ApplyInvariance ==
    ASSUME Faults = {}
    PROVE  ApplySpec => []ApplyInv
<1>1. ApplySpec => []IInv /\ []OnePlace
  BY ApplyIsQueue, Invariance, OnePlaceInvariant, PTL
<1>2. IInv /\ OnePlace /\ ApplyInv /\ [ApplyNext]_applyVars => ApplyInv'
  BY ApplyNextKeeps
<1> QED BY <1>1, <1>2, ApplyInitEstablishes, PTL DEF ApplySpec

\* approve_proposal, apply_proposal and the automatic runs: however many of
\* them overlap, on whatever proposals, no resource of a pending proposal is
\* left behind.
THEOREM InstalledAlwaysDecided ==
    ASSUME Faults = {}
    PROVE  ApplySpec => []InstalledIsDecided
<1>1. ApplyInv => InstalledIsDecided
  BY DEF ApplyInv
<1> QED BY <1>1, ApplyInvariance, PTL

\* evaluateAutoCreateGate: whatever else is approved, and whenever the day
\* ends, the automatic runs of one caller stay within the daily limit.
THEOREM DailyLimitAlwaysHolds ==
    ASSUME Faults = {}
    PROVE  ApplySpec => []DailyLimitPerCaller
<1>1. ApplyInv => DailyLimitPerCaller
  BY DEF ApplyInv, Counting, DailyLimitPerCaller
<1> QED BY <1>1, ApplyInvariance, PTL
=============================================================================
