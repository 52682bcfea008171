------------------------- MODULE FileProposalQueue -------------------------
(***************************************************************************)
(* The file store of resource-creation proposals                           *)
(* (mcp/core/resource/proposal/queue.ts): one JSON file per proposal, in   *)
(* the directory that names its status.                                    *)
(*                                                                         *)
(*   outputs/tool-proposals/pending/<id>.json    not decided yet           *)
(*   outputs/tool-proposals/approved/<id>.json   approved                  *)
(*   outputs/tool-proposals/rejected/<id>.json   rejected                  *)
(*                                                                         *)
(* Every operation uses synchronous file calls, so within the one server   *)
(* process that owns the directory it is a single step.  What can go wrong *)
(* inside a step is a write cut short when the process dies (the file is   *)
(* then empty or partial: Torn) and an unlink that fails or is never       *)
(* reached; moveProposal writes the target first and unlinks the pending   *)
(* file afterwards, swallowing the error of the unlink.                    *)
(***************************************************************************)
EXTENDS ProposalRecords

CONSTANTS Ids,      \* the proposal ids
          Absent,   \* there is no such file
          Torn,     \* the file is there and cannot be parsed
          Faults    \* which faults occur: "tear" a write, "keep" a file

ASSUME FileAssumption ==
    /\ Absent \notin Records /\ Torn \notin Records /\ Absent # Torn
    /\ Faults \subseteq {"tear", "keep"}

VARIABLES pending,    \* pending[p], approved[p], rejected[p]: the file of
          approved,   \* proposal p in that directory, or Absent
          rejected

vars == <<pending, approved, rejected>>

Files == Records \cup {Absent, Torn}

Readable(file) == file \notin {Absent, Torn}

-----------------------------------------------------------------------------
(* File calls and their faults.                                            *)

\* What writing a file leaves behind: the file, or a torn one when the
\* process dies in the middle.
WriteOutcomes(file) == {file} \cup (IF "tear" \in Faults THEN {Torn} ELSE {})

\* Faulty variant: the pending file is removed before the target is written.
LeftPendingUnlinkFirst(file, written) ==
    {Absent} \cup (IF "keep" \in Faults THEN {file} ELSE {})

\* What moveProposal leaves in pending/ after it wrote the target: nothing,
\* unless the write was cut short or the unlink did not happen.
LeftPending(file, written) ==
    IF written = Torn THEN {file}
    ELSE {Absent} \cup (IF "keep" \in Faults THEN {file} ELSE {})

\* moveProposal: record is what it writes, in the directory of its status.
MoveProposal(p, record) ==
    \E written \in WriteOutcomes(record) :
        /\ \E left \in LeftPending(pending[p], written) :
              pending' = [pending EXCEPT ![p] = left]
        /\ \/ /\ record.status = "approved"
              /\ approved' = [approved EXCEPT ![p] = written]
              /\ UNCHANGED rejected
           \/ /\ record.status = "rejected"
              /\ rejected' = [rejected EXCEPT ![p] = written]
              /\ UNCHANGED approved

\* updatePendingProposal rewrites the pending file in place.
UpdatePendingProposal(p, record) ==
    /\ \E written \in WriteOutcomes(record) :
          pending' = [pending EXCEPT ![p] = written]
    /\ UNCHANGED <<approved, rejected>>

-----------------------------------------------------------------------------
(* The operations.  All of them find the pending file first (getProposal   *)
(* looks there before it looks elsewhere) and throw when it cannot be      *)
(* parsed; a proposal that is only in the other directories is refused.    *)

Init ==
    /\ pending  = [p \in Ids |-> Absent]
    /\ approved = [p \in Ids |-> Absent]
    /\ rejected = [p \in Ids |-> Absent]

\* enqueueProposal: the id is fresh (nextProposalId).
EnqueueProposal(p, creator) ==
    /\ pending[p] = Absent /\ approved[p] = Absent /\ rejected[p] = Absent
    /\ UpdatePendingProposal(p, NewRecord(creator))

ApproveProposal(p) ==
    /\ Readable(pending[p])
    /\ MoveProposal(p, DirectlyApproved(pending[p]))

RejectProposal(p) ==
    /\ Readable(pending[p])
    /\ MoveProposal(p, DirectlyRejected(pending[p]))

ApproveProposalStage(p, stage, actor, relaxed) ==
    /\ Readable(pending[p])
    /\ MayDecideStage(pending[p], stage, actor, relaxed)
    /\ LET record == StageApproved(pending[p], stage, actor, relaxed)
       IN  IF IsLastStage(stage) THEN MoveProposal(p, record)
                                 ELSE UpdatePendingProposal(p, record)

RejectProposalStage(p, stage, actor, relaxed) ==
    /\ Readable(pending[p])
    /\ MayDecideStage(pending[p], stage, actor, relaxed)
    /\ MoveProposal(p, StageRejected(pending[p], stage, actor, relaxed))

Next ==
    \E p \in Ids :
        \/ \E creator \in Spellings \cup {NoActor} : EnqueueProposal(p, creator)
        \/ ApproveProposal(p)
        \/ RejectProposal(p)
        \/ \E stage \in Stages, actor \in Spellings, relaxed \in BOOLEAN :
              \/ ApproveProposalStage(p, stage, actor, relaxed)
              \/ RejectProposalStage(p, stage, actor, relaxed)

Spec == Init /\ [][Next]_vars

-----------------------------------------------------------------------------
(* Properties.                                                             *)

FilesOfStatus(dir, status) ==
    \A p \in Ids : Readable(dir[p]) => dir[p].status = status

\* Every file is a record, torn or absent, and a record lies in the
\* directory of its status.
TypeOK ==
    /\ pending  \in [Ids -> Files] /\ FilesOfStatus(pending, "pending")
    /\ approved \in [Ids -> Files] /\ FilesOfStatus(approved, "approved")
    /\ rejected \in [Ids -> Files] /\ FilesOfStatus(rejected, "rejected")

\* The pending records are at a stage that agrees with their history:
\* whichever writes were torn and whichever unlinks did not happen.
PendingConsistent ==
    \A p \in Ids : Readable(pending[p]) => StageConsistent(pending[p])

\* approveProposalStage and approveProposal: nothing is filed under
\* approved/ that did not pass every stage or was approved directly.
ApprovalAccountedFor ==
    \A p \in Ids : Readable(approved[p]) => AccountedFor(approved[p])

\* enforceSod: in every file, whatever happened to the proposal, no stage
\* was decided against the separation of duties without a note saying so.
SodRespected ==
    \A p \in Ids : \A file \in {pending[p], approved[p], rejected[p]} :
        Readable(file) => DutiesSeparated(file)

\* moveProposal: a pending file goes away only when the decided record is
\* complete on disk, so a crash in between leaves the proposal decidable.
RemovedOnlyWhenDecided ==
    [][\A p \in Ids :
          pending[p] # Absent /\ pending'[p] = Absent =>
              Readable(approved'[p]) \/ Readable(rejected'[p])]_vars

-----------------------------------------------------------------------------
(* The promise: as long as no fault occurs this store is the abstract      *)
(* proposal queue.                                                         *)

StagesPassed(record) ==
    IF record.completed = {} THEN 0
    ELSE IF record.completed = Stages THEN 2 ELSE 1

fileDecision ==
    [p \in Ids |-> IF Readable(approved[p]) THEN "approved"
                   ELSE IF Readable(rejected[p]) THEN "rejected"
                   ELSE IF Readable(pending[p]) THEN "pending" ELSE "unknown"]

filePassed ==
    [p \in Ids |-> IF Readable(approved[p]) THEN StagesPassed(approved[p])
                   ELSE IF Readable(rejected[p]) THEN StagesPassed(rejected[p])
                   ELSE IF Readable(pending[p]) THEN StagesPassed(pending[p])
                   ELSE 0]

Lifecycle == INSTANCE ProposalLifecycle
                WITH Ids <- Ids, StageCount <- 2,
                     decision <- fileDecision, passed <- filePassed

\* A proposal is submitted once, passes its stages in order and is decided
\* once, by stages or directly; the decision is final.
ImplementsLifecycle == Lifecycle!LifecycleSpec
=============================================================================
