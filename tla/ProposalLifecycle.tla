------------------------- MODULE ProposalLifecycle -------------------------
(***************************************************************************)
(* What a proposal queue promises, whatever it is stored in.  A proposal   *)
(* is submitted once, passes its approval stages in order while it is      *)
(* pending, and is decided at most once: approved (after the last stage,   *)
(* or directly) or rejected.  A decision is final.                         *)
(*                                                                         *)
(* FileProposalQueue implements this specification as long as no write or  *)
(* unlink fails, PgBossProposalQueue as long as calls do not overlap.      *)
(***************************************************************************)
EXTENDS Naturals

CONSTANTS Ids,        \* the proposal ids
          StageCount  \* how many approval stages a proposal has to pass, at least 1

VARIABLES decision,   \* decision[p]: where proposal p is in its life
          passed      \* passed[p]: how many stages p has passed one by one

lifecycleVars == <<decision, passed>>

Decisions == {"unknown", "pending", "approved", "rejected"}

LifecycleInit ==
    /\ decision = [p \in Ids |-> "unknown"]
    /\ passed = [p \in Ids |-> 0]

Submit(p) ==
    /\ decision[p] = "unknown"
    /\ decision' = [decision EXCEPT ![p] = "pending"]
    /\ UNCHANGED passed

\* One stage is signed off and at least one more is required.
PassStage(p) ==
    /\ decision[p] = "pending"
    /\ passed[p] + 1 < StageCount
    /\ passed' = [passed EXCEPT ![p] = @ + 1]
    /\ UNCHANGED decision

\* The last stage is signed off, or the proposal is approved directly.
\* Either way every stage now counts as passed.
Approve(p) ==
    /\ decision[p] = "pending"
    /\ decision' = [decision EXCEPT ![p] = "approved"]
    /\ passed' = [passed EXCEPT ![p] = StageCount]

Reject(p) ==
    /\ decision[p] = "pending"
    /\ decision' = [decision EXCEPT ![p] = "rejected"]
    /\ UNCHANGED passed

LifecycleNext ==
    \E p \in Ids : Submit(p) \/ PassStage(p) \/ Approve(p) \/ Reject(p)

LifecycleSpec == LifecycleInit /\ [][LifecycleNext]_lifecycleVars

=============================================================================
