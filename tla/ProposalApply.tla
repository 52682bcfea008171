--------------------------- MODULE ProposalApply ---------------------------
(***************************************************************************)
(* Proposals that are put into effect: the calls of                        *)
(* proposal-queue-apply-operations.ts over the file store of proposals     *)
(* (FileProposalQueue, extended here), and the resource files they write   *)
(* (applier.ts).  A call looks the proposal up, looks whether the resource *)
(* exists, writes it and approves the proposal, with a wait between any    *)
(* two of these in which other calls on the same proposal go on.           *)
(*                                                                         *)
(*   approve_proposal               "approve": approves whatever became of *)
(*                                  the resource                           *)
(*   apply_proposal                 "apply": approves what it has written  *)
(*   auto_apply_pending_proposals   "auto": applies each pending proposal  *)
(*                                  that passes the gate, up to a number   *)
(*                                  of approvals per day                   *)
(*                                                                         *)
(* A skill is checked and written without a wait in between, a tool with   *)
(* one; a preset is written twice, to a file of its version and to the     *)
(* latest one, of which only the latter is kept here.  All proposals are   *)
(* of one resource type, so there is one daily limit.                      *)
(***************************************************************************)
EXTENDS FileProposalQueue, FiniteSets

CONSTANTS Callers,    \* who makes calls, one at a time each
          Names,      \* the resource names
          NameOf,     \* NameOf[p]: the name (slug) in proposal p
          NoOne,      \* no such resource, or no proposal in hand
          MaxPerDay   \* maxPerDay of the auto-create policy

ASSUME ApplyAssumption ==
    /\ NameOf \in [Ids -> Names]
    /\ NoOne \notin Ids
    /\ MaxPerDay \in Nat

VARIABLES
    call,       \* call[c]: the call of c
    resource,   \* resource[n]: the proposal that wrote the resource n
    today,      \* the approved proposals with resolvedAt today
    auto        \* history: auto[c], what c's automatic runs approved today

applyVars == <<pending, approved, rejected, call, resource, today, auto>>

Idle == [kind |-> "none", at |-> "idle", hand |-> NoOne, counted |-> 0, todo |-> {}]

ApplyInit ==
    /\ Init
    /\ call = [c \in Callers |-> Idle]
    /\ resource = [n \in Names |-> NoOne]
    /\ today = {}
    /\ auto = [c \in Callers |-> 0]

\* What the store does to resolvedAt: set in every record that is approved.
Resolve ==
    today' = today \cup {p \in Ids : approved[p] = Absent /\ approved'[p] # Absent}

UnchangedStore == UNCHANGED <<pending, approved, rejected, today>>

At(c, place) == call[c].at = place

\* The call goes on at a place, with nothing else changed.
GoOn(c, place) == call' = [call EXCEPT ![c].at = place]

\* It returns, or throws to its caller.
End(c) == call' = [call EXCEPT ![c] = Idle]

PendingIds == {p \in Ids : Readable(pending[p])}

-----------------------------------------------------------------------------
(* The three calls up to the proposal they apply.                          *)

\* executeApproveProposal and executeApplyProposal: only pending ones.
TakeUp(c, p) ==
    /\ At(c, "idle")
    /\ p \in PendingIds
    /\ \E kind \in {"approve", "apply"}, apply \in BOOLEAN :
          /\ kind = "apply" => apply
          /\ call' = [call EXCEPT ![c] =
                        [Idle EXCEPT !.kind = kind,
                                     !.at = IF apply THEN "check" ELSE "decide",
                                     !.hand = p]]
    /\ UnchangedStore /\ UNCHANGED <<resource, auto>>

\* executeAutoApplyPendingProposals: countTodayApplied over the approved.
CountToday(c) ==
    /\ At(c, "idle")
    /\ call' = [call EXCEPT ![c] =
                  [Idle EXCEPT !.kind = "auto", !.at = "list",
                               !.counted = Cardinality(today)]]
    /\ UnchangedStore /\ UNCHANGED <<resource, auto>>

\* The pending ones, in a list of limited length; todo has those of them
\* that the gate does not refuse for their type, confidence or name, and
\* none in a dry run.
ListPending(c) ==
    /\ At(c, "list")
    /\ \E some \in SUBSET PendingIds :
          call' = [call EXCEPT ![c].at = "next", ![c].todo = some]
    /\ UnchangedStore /\ UNCHANGED <<resource, auto>>

\* Faulty variant: the limit itself still passes.
GateAllowsOneMore(c) == call[c].counted <= MaxPerDay

\* evaluateAutoCreateGate, as far as it depends on what the run has done.
GateAllows(c) == call[c].counted < MaxPerDay

NextInList(c) ==
    /\ At(c, "next")
    /\ \/ \E p \in call[c].todo :
             /\ GateAllows(c)
             /\ call' = [call EXCEPT ![c].at = "check", ![c].hand = p,
                                     ![c].todo = @ \ {p}]
       \/ /\ call[c].todo = {} \/ ~GateAllows(c)
          /\ End(c)
    /\ UnchangedStore /\ UNCHANGED <<resource, auto>>

-----------------------------------------------------------------------------
(* applyProposalAsync, and what follows.                                   *)

\* The resource was not written: it exists, its file is switched off, or
\* reading or writing failed, which only "approve" survives.
NotApplied(c, failed) ==
    CASE call[c].kind = "approve" -> GoOn(c, "decide")
      [] call[c].kind = "apply" -> End(c)
      [] call[c].kind = "auto" ->
            IF failed THEN End(c)
            ELSE call' = [call EXCEPT ![c].at = "next", ![c].hand = NoOne]

\* A resource that exists is left alone, unless the call says overwrite; the
\* model lets an automatic run say so for one proposal and not for another.
CheckResource(c) ==
    /\ At(c, "check")
    /\ \/ \E overwrite \in BOOLEAN :
             /\ resource[NameOf[call[c].hand]] = NoOne \/ overwrite
             /\ GoOn(c, "write")
       \/ \E failed \in BOOLEAN : NotApplied(c, failed)
    /\ UnchangedStore /\ UNCHANGED <<resource, auto>>

\* Faulty variant: a call that has written the resource returns before it
\* has approved the proposal, unless it was to approve it in any case.
WriteResourceOnly(c) ==
    /\ At(c, "write")
    /\ \/ /\ resource' = [resource EXCEPT ![NameOf[call[c].hand]] = call[c].hand]
          /\ IF call[c].kind = "apply" THEN End(c) ELSE GoOn(c, "decide")
       \/ NotApplied(c, TRUE) /\ UNCHANGED resource
    /\ UnchangedStore /\ UNCHANGED auto

WriteResource(c) ==
    /\ At(c, "write")
    /\ \/ /\ resource' = [resource EXCEPT ![NameOf[call[c].hand]] = call[c].hand]
          /\ GoOn(c, "decide")
       \/ NotApplied(c, TRUE) /\ UNCHANGED resource
    /\ UnchangedStore /\ UNCHANGED auto

\* proposalQueue.approve; an automatic run counts it and goes on.
Decide(c) ==
    /\ At(c, "decide")
    /\ call[c].hand \in PendingIds
    /\ ApproveProposal(call[c].hand)
    /\ Resolve
    /\ IF call[c].kind = "auto"
       THEN /\ call' = [call EXCEPT ![c].at = "next", ![c].hand = NoOne,
                                    ![c].counted = @ + 1]
            /\ auto' = [auto EXCEPT ![c] = @ + 1]
       ELSE End(c) /\ UNCHANGED auto
    /\ UNCHANGED resource

\* It throws when the proposal is not pending any more.
DecideThrows(c) ==
    /\ At(c, "decide")
    /\ call[c].hand \notin PendingIds
    /\ End(c)
    /\ UnchangedStore /\ UNCHANGED <<resource, auto>>

-----------------------------------------------------------------------------
\* A decision of another kind: by stages, directly, or by
\* reviewProposalApprovalSla, which approves directly after a time.
OtherOperation ==
    /\ Next
    /\ Resolve
    /\ UNCHANGED <<call, resource, auto>>

\* Midnight.
NewDay ==
    /\ today # {}
    /\ today' = {}
    /\ auto' = [c \in Callers |-> 0]
    /\ UNCHANGED <<pending, approved, rejected, call, resource>>

ApplyNext ==
    \/ \E c \in Callers :
          \/ \E p \in Ids : TakeUp(c, p)
          \/ CountToday(c) \/ ListPending(c) \/ NextInList(c)
          \/ CheckResource(c) \/ WriteResource(c)
          \/ Decide(c) \/ DecideThrows(c)
    \/ OtherOperation
    \/ NewDay

ApplySpec == ApplyInit /\ [][ApplyNext]_applyVars

-----------------------------------------------------------------------------
(* Properties, of a store without faults.                                  *)

\* executeApproveProposal, executeApplyProposal and the automatic run write
\* the resource first and approve afterwards.  A resource of a proposal that
\* is not decided is in the hand of a call that is about to decide it: no
\* call returns or throws and leaves the resource of a pending proposal.
InstalledIsDecided ==
    \A n \in Names : resource[n] # NoOne =>
        \/ resource[n] \notin PendingIds
        \/ \E c \in Callers : At(c, "decide") /\ call[c].hand = resource[n]

\* countTodayApplied is asked once, before a loop of waits, so overlapping
\* runs each have what it left.  Still no caller's runs approve more than
\* the daily limit in a day, one after the other or around midnight, and all
\* callers together not more than the limit times their number.
DailyLimitPerCaller == \A c \in Callers : auto[c] <= MaxPerDay
=============================================================================
