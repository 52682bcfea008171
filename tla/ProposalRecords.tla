-------------------------- MODULE ProposalRecords --------------------------
(***************************************************************************)
(* A resource-creation proposal and what a decision writes into it.  The   *)
(* two stores of proposals, FileProposalQueue and PgBossProposalQueue,     *)
(* build the same records (the code has the rules twice: in queue.ts and   *)
(* in pg-boss-proposal-queue.ts).                                          *)
(*                                                                         *)
(* Left out: name, content, confidence, origin, time stamps, the comment   *)
(* and the reject reason; nothing here depends on them.  A blank actor is  *)
(* refused before anything is written, so Spellings has none.              *)
(***************************************************************************)
EXTENDS Naturals, Sequences

CONSTANTS
    Spellings,    \* the actor strings a caller may pass
    Trim,         \* Trim[s]: the string s without surrounding white space
    NoActor,      \* createdByActorId is not set
    System,       \* the actor recorded by a direct approval or rejection
    SodMayRelax   \* SF_AI_SOD_RELAX_FOR_DEV may be switched on

ASSUME TrimAssumption ==
    /\ Trim \in [Spellings -> Spellings]
    /\ \A s \in Spellings : Trim[Trim[s]] = Trim[s]

ASSUME ActorAssumption ==
    /\ NoActor \notin Spellings
    /\ System \notin Spellings
    /\ SodMayRelax \in BOOLEAN

-----------------------------------------------------------------------------
\* normalizeApprovalStages: every caller in the repository passes no stages
\* or this very list, so the stages of a proposal are these, in this order.
RequiredStages == <<"reviewer", "admin">>

Stages == {"reviewer", "admin"}

\* Faulty variant: the stage after the reviewer's is never found.
IsLastStageTooEarly(stage) == stage \in Stages

IsLastStage(stage) == stage = "admin"

Entries == [stage   : Stages,
            actor   : Spellings \cup {System},
            verdict : {"approved", "rejected"},
            relaxed : BOOLEAN]   \* the comment carries [SOD_RELAX_FOR_DEV]

Records == [status    : {"pending", "approved", "rejected"},
            createdBy : Spellings \cup {NoActor},
            current   : Stages,
            completed : SUBSET Stages,
            history   : Seq(Entries)]

\* buildProposal: no stage completed yet, the creator's name trimmed.
NewRecord(creator) ==
    [status    |-> "pending",
     createdBy |-> IF creator = NoActor THEN NoActor ELSE Trim[creator],
     current   |-> RequiredStages[1],
     completed |-> {},
     history   |-> <<>>]

-----------------------------------------------------------------------------
(* Separation of duties (enforceSod).  The check looks at the trimmed      *)
(* actor; the history keeps the actor as it was passed.                    *)

\* approval.history.find(entry => entry.stage === "reviewer")
IsFirstReview(history, i) ==
    /\ history[i].stage = "reviewer"
    /\ \A j \in 1 .. i - 1 : history[j].stage # "reviewer"

\* The first review among the first n entries was made under this name.
ReviewedBy(history, n, actor) ==
    \E i \in 1 .. n : IsFirstReview(history, i) /\ history[i].actor = actor

\* Faulty variant: the actor is compared as it was passed.
SodConflictUntrimmed(record, stage, actor) ==
    \/ record.createdBy = actor
    \/ /\ stage = "admin"
       /\ ReviewedBy(record.history, Len(record.history), actor)

\* Faulty variant: nobody looks up who the reviewer was.
SodConflictProposerOnly(record, stage, actor) ==
    record.createdBy = Trim[actor]

SodConflict(record, stage, actor) ==
    \/ record.createdBy = Trim[actor]
    \/ /\ stage = "admin"
       /\ ReviewedBy(record.history, Len(record.history), Trim[actor])

\* The checks of the two stage operations.  A conflict is let through, and
\* noted in the entry, only when the relaxed mode is on.
MayDecideStage(record, stage, actor, relaxed) ==
    /\ record.status = "pending"
    /\ record.current = stage
    /\ relaxed = SodConflict(record, stage, actor)
    /\ relaxed => SodMayRelax

-----------------------------------------------------------------------------
(* The record a decision writes.                                           *)

Entry(stage, actor, verdict, relaxed) ==
    [stage |-> stage, actor |-> actor, verdict |-> verdict, relaxed |-> relaxed]

\* Faulty variant: completedStages is left as it was.
DirectlyApprovedStagesOpen(record) ==
    [record EXCEPT
        !.status    = "approved",
        !.current   = RequiredStages[2],
        !.history   = Append(@, Entry(record.current, System, "approved", FALSE))]

\* approveProposal
DirectlyApproved(record) ==
    [record EXCEPT
        !.status    = "approved",
        !.completed = @ \cup Stages,
        !.current   = RequiredStages[2],
        !.history   = Append(@, Entry(record.current, System, "approved", FALSE))]

\* rejectProposal
DirectlyRejected(record) ==
    [record EXCEPT
        !.status  = "rejected",
        !.history = Append(@, Entry(record.current, System, "rejected", FALSE))]

\* Faulty variant: the record counts as approved after any stage.
StageApprovedEagerly(record, stage, actor, relaxed) ==
    [record EXCEPT
        !.status    = "approved",
        !.current   = IF IsLastStage(stage) THEN @ ELSE RequiredStages[2],
        !.completed = @ \cup {stage},
        !.history   = Append(@, Entry(stage, actor, "approved", relaxed))]

\* Faulty variant: currentStage is not advanced.
StageApprovedInPlace(record, stage, actor, relaxed) ==
    [record EXCEPT
        !.status    = IF IsLastStage(stage) THEN "approved" ELSE @,
        !.completed = @ \cup {stage},
        !.history   = Append(@, Entry(stage, actor, "approved", relaxed))]

\* approveProposalStage
StageApproved(record, stage, actor, relaxed) ==
    [record EXCEPT
        !.status    = IF IsLastStage(stage) THEN "approved" ELSE @,
        !.current   = IF IsLastStage(stage) THEN @ ELSE RequiredStages[2],
        !.completed = @ \cup {stage},
        !.history   = Append(@, Entry(stage, actor, "approved", relaxed))]

\* rejectProposalStage
StageRejected(record, stage, actor, relaxed) ==
    [record EXCEPT
        !.status  = "rejected",
        !.history = Append(@, Entry(stage, actor, "rejected", relaxed))]

-----------------------------------------------------------------------------
(* What a well-made record looks like.                                     *)

\* A pending record is at its first stage with an empty history, or a
\* reviewer has signed it off and it waits for the admin.
StageConsistent(record) ==
    \/ /\ record.current = "reviewer"
       /\ record.completed = {}
       /\ record.history = <<>>
    \/ /\ record.current = "admin"
       /\ record.completed = {"reviewer"}
       /\ Len(record.history) = 1
       /\ record.history[1].stage = "reviewer"
       /\ record.history[1].verdict = "approved"
       /\ record.history[1].actor \in Spellings

\* An approved record has every stage completed, and its history accounts
\* for each: an approving entry per stage, or a direct approval at the end.
AccountedFor(record) ==
    /\ record.completed = Stages
    /\ LET h == record.history
       IN  /\ h # <<>>
           /\ \/ h[Len(h)] = Entry(h[Len(h)].stage, System, "approved", FALSE)
              \/ \A stage \in Stages : \E i \in DOMAIN h :
                    h[i].stage = stage /\ h[i].verdict = "approved"

\* Unless an entry carries the relaxed note, a stage is never decided by
\* the proposer, nor the admin stage by whom the history names as reviewer.
DutiesSeparated(record) ==
    \A i \in DOMAIN record.history :
        LET e == record.history[i]
        IN  e.actor = System \/ e.relaxed
            \/ /\ Trim[e.actor] # record.createdBy
               /\ e.stage = "admin" =>
                    ~ReviewedBy(record.history, i - 1, Trim[e.actor])
=============================================================================
