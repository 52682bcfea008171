----------------------- MODULE ProposalRecordsProofs -----------------------
(***************************************************************************)
(* What a decision makes of a well-made pending record.  Both stores of    *)
(* proposals cite these lemmas for the records they write.                 *)
(***************************************************************************)
EXTENDS ProposalRecords, TLAPS

PendingRecord(record) ==
    /\ record \in Records
    /\ record.status = "pending"
    /\ StageConsistent(record)
    /\ DutiesSeparated(record)

ApprovedRecord(record) ==
    /\ record \in Records
    /\ record.status = "approved"
    /\ AccountedFor(record)
    /\ DutiesSeparated(record)

RejectedRecord(record) ==
    /\ record \in Records
    /\ record.status = "rejected"
    /\ DutiesSeparated(record)

-----------------------------------------------------------------------------
\* A history grows by one entry, at the end.
LEMMA AppendEntry ==
    ASSUME NEW h \in Seq(Entries), NEW e \in Entries
    PROVE  /\ Append(h, e) \in Seq(Entries)
           /\ Len(h) \in Nat
           /\ Len(Append(h, e)) = Len(h) + 1
           /\ DOMAIN Append(h, e) = 1 .. Len(h) + 1
           /\ Append(h, e)[Len(h) + 1] = e
           /\ \A i \in 1 .. Len(h) : Append(h, e)[i] = h[i]
           /\ Append(h, e) # <<>>
  OBVIOUS

\* The fields of a record that takes another status and another history.
LEMMA RecordFields ==
    ASSUME NEW record \in Records, NEW status \in {"pending", "approved", "rejected"},
           NEW current \in Stages, NEW completed \in SUBSET Stages,
           NEW history \in Seq(Entries)
    PROVE  [record EXCEPT !.status = status, !.current = current,
                          !.completed = completed, !.history = history]
           \in Records
  BY DEF Records

\* buildProposal makes a well-made pending record.
LEMMA NewRecordIsPending ==
    ASSUME NEW creator \in Spellings \cup {NoActor}
    PROVE  PendingRecord(NewRecord(creator))
  BY TrimAssumption, ActorAssumption
  DEF PendingRecord, NewRecord, Records, Entries, Stages, RequiredStages,
      StageConsistent, DutiesSeparated

\* enforceSod: an entry that passed the check, or carries the note that it
\* did not, keeps the duties of the record separated.
LEMMA AppendKeepsDuties ==
    ASSUME NEW record \in Records, NEW e \in Entries,
           DutiesSeparated(record),
           \/ e.actor = System
           \/ e.relaxed
           \/ ~SodConflict(record, e.stage, e.actor),
           NEW next \in Records,
           next.history = Append(record.history, e),
           next.createdBy = record.createdBy
    PROVE  DutiesSeparated(next)
<1> DEFINE h == record.history
           g == next.history
           n == Len(h)
<1>1. h \in Seq(Entries) /\ n \in Nat /\ DOMAIN h = 1 .. n
  BY DEF Records
<1>2. /\ DOMAIN g = 1 .. n + 1
      /\ \A i \in 1 .. n : g[i] = h[i]
      /\ g[n + 1] = e
  BY <1>1, AppendEntry
<1>3. ASSUME NEW m \in 0 .. n, NEW actor
      PROVE  ReviewedBy(g, m, actor) <=> ReviewedBy(h, m, actor)
  BY <1>1, <1>2, <1>3 DEF ReviewedBy, IsFirstReview
<1>4. SUFFICES ASSUME NEW i \in 1 .. n + 1,
                      g[i].actor # System, ~g[i].relaxed
               PROVE  /\ Trim[g[i].actor] # next.createdBy
                      /\ g[i].stage = "admin" =>
                            ~ReviewedBy(g, i - 1, Trim[g[i].actor])
  BY <1>2 DEF DutiesSeparated
<1>5. CASE i \in 1 .. n
  <2>1. g[i] = h[i] /\ i \in DOMAIN h /\ i - 1 \in 0 .. n
    BY <1>1, <1>2, <1>5
  <2>2. /\ Trim[h[i].actor] # record.createdBy
        /\ h[i].stage = "admin" => ~ReviewedBy(h, i - 1, Trim[h[i].actor])
    BY <1>4, <2>1 DEF DutiesSeparated
  <2> QED BY <1>3, <2>1, <2>2
<1>6. CASE i = n + 1
  <2>1. g[i] = e /\ ~SodConflict(record, e.stage, e.actor) /\ i - 1 = n
    BY <1>1, <1>2, <1>4, <1>6
  <2>2. n \in 0 .. n
    BY <1>1
  <2> QED BY <1>3, <2>1, <2>2 DEF SodConflict
<1> QED BY <1>1, <1>5, <1>6

-----------------------------------------------------------------------------
\* approveProposal: a direct approval completes every stage.
LEMMA DirectApproval ==
    ASSUME NEW record, PendingRecord(record)
    PROVE  ApprovedRecord(DirectlyApproved(record))
<1> DEFINE e == Entry(record.current, System, "approved", FALSE)
           next == DirectlyApproved(record)
<1>1. record \in Records /\ record.history \in Seq(Entries)
      /\ record.current \in Stages
  BY DEF PendingRecord, Records
<1>2. e \in Entries /\ e.actor = System
  BY <1>1 DEF Entry, Entries
<1>3. /\ next \in Records
      /\ next.status = "approved"
      /\ next.completed = Stages
      /\ next.history = Append(record.history, e)
      /\ next.createdBy = record.createdBy
  BY <1>1, <1>2, AppendEntry DEF DirectlyApproved, Records, Stages, RequiredStages
<1>4. DutiesSeparated(next)
  BY <1>1, <1>2, <1>3, AppendKeepsDuties DEF PendingRecord
<1>5. AccountedFor(next)
  <2> HIDE DEF e, next
  <2>1. /\ next.history # <<>>
        /\ next.history[Len(next.history)] = e
    BY <1>1, <1>2, <1>3, AppendEntry
  <2> USE DEF e
  <2>2. e = Entry(e.stage, System, "approved", FALSE)
    BY DEF Entry
  <2> QED BY <1>3, <2>1, <2>2 DEF AccountedFor
<1> QED BY <1>3, <1>4, <1>5 DEF ApprovedRecord

\* rejectProposal.
LEMMA DirectRejection ==
    ASSUME NEW record, PendingRecord(record)
    PROVE  RejectedRecord(DirectlyRejected(record))
<1> DEFINE e == Entry(record.current, System, "rejected", FALSE)
           next == DirectlyRejected(record)
<1>1. record \in Records /\ record.history \in Seq(Entries)
      /\ record.current \in Stages
  BY DEF PendingRecord, Records
<1>2. e \in Entries /\ e.actor = System
  BY <1>1 DEF Entry, Entries
<1>3. /\ next \in Records
      /\ next.status = "rejected"
      /\ next.history = Append(record.history, e)
      /\ next.createdBy = record.createdBy
  BY <1>1, <1>2, AppendEntry DEF DirectlyRejected, Records
<1>4. DutiesSeparated(next)
  BY <1>1, <1>2, <1>3, AppendKeepsDuties DEF PendingRecord
<1> QED BY <1>3, <1>4 DEF RejectedRecord

\* approveProposalStage at the last stage: the record is approved, and the
\* reviewer signed it off before.
LEMMA LastStageApproval ==
    ASSUME NEW record, PendingRecord(record), NEW stage \in Stages,
           NEW actor \in Spellings, NEW relaxed \in BOOLEAN,
           MayDecideStage(record, stage, actor, relaxed), IsLastStage(stage)
    PROVE  ApprovedRecord(StageApproved(record, stage, actor, relaxed))
<1> DEFINE e == Entry(stage, actor, "approved", relaxed)
           next == StageApproved(record, stage, actor, relaxed)
<1>1. record \in Records /\ record.history \in Seq(Entries)
  BY DEF PendingRecord, Records
<1>2. e \in Entries /\ (e.relaxed \/ ~SodConflict(record, e.stage, e.actor))
  BY DEF Entry, Entries, MayDecideStage
<1>3. /\ record.current = "admin" /\ stage = "admin"
      /\ record.completed = {"reviewer"}
      /\ Len(record.history) = 1
      /\ record.history[1].stage = "reviewer"
      /\ record.history[1].verdict = "approved"
  BY DEF MayDecideStage, IsLastStage, PendingRecord, StageConsistent
<1>4. /\ next \in Records
      /\ next.status = "approved"
      /\ next.completed = Stages
      /\ next.history = Append(record.history, e)
      /\ next.createdBy = record.createdBy
  <2>1. next = [record EXCEPT !.status    = "approved",
                              !.current   = @,
                              !.completed = Stages,
                              !.history   = Append(record.history, e)]
    BY <1>1, <1>3 DEF StageApproved, IsLastStage, Records, Stages
  <2> HIDE DEF e, next
  <2>2. Append(record.history, e) \in Seq(Entries)
    BY <1>1, <1>2, AppendEntry
  <2> QED BY <1>1, <2>1, <2>2 DEF Records
<1>5. DutiesSeparated(next)
  BY <1>1, <1>2, <1>4, AppendKeepsDuties DEF PendingRecord
<1>6. AccountedFor(next)
  <2> DEFINE h == next.history
  <2> HIDE DEF e, next
  <2>1. /\ Len(h) = 2 /\ DOMAIN h = 1 .. 2
        /\ h[1] = record.history[1] /\ h[2] = e
    BY <1>1, <1>2, <1>3, <1>4, AppendEntry
  <2> USE DEF e
  <2>2. e.stage = "admin" /\ e.verdict = "approved"
    BY <1>3 DEF Entry
  <2>3. h # <<>>
    BY <2>1
  <2>4. \A s \in Stages : \E i \in DOMAIN h :
            h[i].stage = s /\ h[i].verdict = "approved"
    BY <1>3, <2>1, <2>2 DEF Stages
  <2> QED BY <1>4, <2>3, <2>4 DEF AccountedFor
<1> QED BY <1>4, <1>5, <1>6 DEF ApprovedRecord

\* approveProposalStage before the last stage: the record stays pending, at
\* the next stage.
LEMMA FirstStageApproval ==
    ASSUME NEW record, PendingRecord(record), NEW stage \in Stages,
           NEW actor \in Spellings, NEW relaxed \in BOOLEAN,
           MayDecideStage(record, stage, actor, relaxed), ~IsLastStage(stage)
    PROVE  PendingRecord(StageApproved(record, stage, actor, relaxed))
<1> DEFINE e == Entry(stage, actor, "approved", relaxed)
           next == StageApproved(record, stage, actor, relaxed)
<1>1. record \in Records /\ record.history \in Seq(Entries)
      /\ record.status = "pending"
  BY DEF PendingRecord, Records
<1>2. e \in Entries /\ (e.relaxed \/ ~SodConflict(record, e.stage, e.actor))
  BY DEF Entry, Entries, MayDecideStage
<1>3. /\ record.current = "reviewer" /\ stage = "reviewer"
      /\ record.completed = {}
      /\ record.history = <<>>
  BY DEF MayDecideStage, IsLastStage, PendingRecord, StageConsistent, Stages
<1>4. /\ next \in Records
      /\ next.status = "pending"
      /\ next.current = "admin"
      /\ next.completed = {"reviewer"}
      /\ next.history = Append(record.history, e)
      /\ next.createdBy = record.createdBy
  BY <1>1, <1>2, <1>3, AppendEntry
  DEF StageApproved, IsLastStage, Records, Stages, RequiredStages
<1>5. DutiesSeparated(next)
  BY <1>1, <1>2, <1>4, AppendKeepsDuties DEF PendingRecord
<1>6. StageConsistent(next)
  <2> HIDE DEF e, next
  <2>1. Len(next.history) = 1 /\ next.history[1] = e
    BY <1>1, <1>2, <1>3, <1>4, AppendEntry
  <2> USE DEF e
  <2>2. e.stage = "reviewer" /\ e.verdict = "approved" /\ e.actor = actor
    BY <1>3 DEF Entry
  <2> QED BY <1>4, <2>1, <2>2 DEF StageConsistent
<1> QED BY <1>4, <1>5, <1>6 DEF PendingRecord

\* rejectProposalStage.
LEMMA StageRejection ==
    ASSUME NEW record, PendingRecord(record), NEW stage \in Stages,
           NEW actor \in Spellings, NEW relaxed \in BOOLEAN,
           MayDecideStage(record, stage, actor, relaxed)
    PROVE  RejectedRecord(StageRejected(record, stage, actor, relaxed))
<1> DEFINE e == Entry(stage, actor, "rejected", relaxed)
           next == StageRejected(record, stage, actor, relaxed)
<1>1. record \in Records /\ record.history \in Seq(Entries)
  BY DEF PendingRecord, Records
<1>2. e \in Entries /\ (e.relaxed \/ ~SodConflict(record, e.stage, e.actor))
  BY DEF Entry, Entries, MayDecideStage
<1>3. /\ next \in Records
      /\ next.status = "rejected"
      /\ next.history = Append(record.history, e)
      /\ next.createdBy = record.createdBy
  BY <1>1, <1>2, AppendEntry DEF StageRejected, Records
<1>4. DutiesSeparated(next)
  BY <1>1, <1>2, <1>3, AppendKeepsDuties DEF PendingRecord
<1> QED BY <1>3, <1>4 DEF RejectedRecord
=============================================================================
