---------------------------- MODULE OutboxProofs ----------------------------
(***************************************************************************)
(* Every message marked as dispatched has a job, and a message has more    *)
(* jobs than one only as often as a send left no trace in its row: for any *)
(* number of messages, instances, tools, faults, and any limits.           *)
(***************************************************************************)
EXTENDS Outbox, WellFoundedInduction, TLAPS

Pending    == {m \in Messages : rows[m].status = "pending"}
Dispatched == {m \in Messages : rows[m].status = "dispatched"}

\* The messages with a send that is noted, or will be with the next commit.
Traced == Dispatched \cup UNION {Unnoted(d) : d \in Dispatchers}

\* The books of one transaction: it works on pending rows, on each once, and
\* on none before it has selected them.
Orderly(d) ==
    /\ Holds(d) \subseteq Pending
    /\ locked[d] \cap sentIn[d] = {}
    /\ locked[d] \cap failedIn[d] = {}
    /\ sentIn[d] \cap failedIn[d] = {}
    /\ phase[d] \in {"idle", "select"} => Holds(d) = {}
    /\ phase[d] \in {"sent", "refused"} => locked[d] # {}

\* No row is in the hands of two transactions.
Apart == \A d, e \in Dispatchers : d # e => Holds(d) \cap Holds(e) = {}

\* A job of a message is the traced one or one in doubt.
Accounts ==
    \A m \in Messages :
        /\ m \in Traced => sent[m] = doubts[m] + 1
        /\ m \notin Traced => sent[m] = doubts[m]

Locks == Apart /\ \A d \in Dispatchers : Orderly(d)

IInv == TypeOK /\ Locks /\ Accounts

-----------------------------------------------------------------------------
(* The row a transaction handles next.                                     *)

LEMMA LeastExists ==
    ASSUME NEW S \in SUBSET Nat, S # {}
    PROVE  \E m \in S : \A n \in S : m <= n
<1>1. \E m \in S : \A n \in S : ~ (<<n, m>> \in OpToRel(<, Nat))
  BY NatLessThanWellFounded, WFMin
<1>2. PICK m \in S : \A n \in S : ~ (<<n, m>> \in OpToRel(<, Nat))
  BY <1>1
<1>3. \A n \in S : ~ (n < m)
  BY <1>2 DEF OpToRel
<1> QED BY <1>3

\* TypeOK, one variable at a time.
LEMMA Types ==
    ASSUME TypeOK
    PROVE  /\ rows \in [Messages -> [status : Statuses, attempts : 0 .. MaxAttempts,
                                     due : BOOLEAN]]
           /\ phase \in [Dispatchers -> Phases]
           /\ locked \in [Dispatchers -> SUBSET Messages]
           /\ sentIn \in [Dispatchers -> SUBSET Messages]
           /\ failedIn \in [Dispatchers -> SUBSET Messages]
           /\ sent \in [Messages -> Nat]
           /\ doubts \in [Messages -> Nat]
           /\ leader \in Instances \cup {NoOne}
           /\ faults \in 0 .. MaxFaults
  BY DEF TypeOK

LEMMA NextRowLocked ==
    ASSUME TypeOK, NEW d \in Dispatchers, locked[d] # {}
    PROVE  NextRow(d) \in locked[d] /\ NextRow(d) \in Messages
<1>1. locked[d] \in SUBSET Messages /\ locked[d] \in SUBSET Nat
  BY Types, OutboxAssumption
<1>2. \E m \in locked[d] : \A n \in locked[d] : m <= n
  BY <1>1, LeastExists
<1>3. NextRow(d) \in locked[d]
  BY <1>2 DEF NextRow
<1> QED BY <1>1, <1>3

\* What a transaction sent it holds.
LEMMA UnnotedHeld ==
    ASSUME TypeOK, NEW d \in Dispatchers, Orderly(d)
    PROVE  Unnoted(d) \subseteq Holds(d)
<1>1. CASE phase[d] = "sent"
  <2>1. NextRow(d) \in locked[d]
    BY <1>1, NextRowLocked DEF Orderly
  <2> QED BY <2>1, <1>1 DEF Unnoted, Holds
<1>2. CASE phase[d] # "sent"
  BY <1>2 DEF Unnoted, Holds
<1> QED BY <1>1, <1>2

-----------------------------------------------------------------------------
(* The traced messages, seen from one dispatcher.                          *)

Others(d) == UNION {Unnoted(e) : e \in Dispatchers \ {d}}

LEMMA TracedSplit ==
    \A d \in Dispatchers : Traced = Dispatched \cup Unnoted(d) \cup Others(d)
  BY DEF Traced, Others

\* What one transaction holds is neither dispatched nor sent by another.
LEMMA HeldAlone ==
    ASSUME TypeOK, Locks, NEW d \in Dispatchers
    PROVE  Holds(d) \cap (Dispatched \cup Others(d)) = {}
<1>1. Holds(d) \cap Dispatched = {}
  BY DEF Locks, Orderly, Pending, Dispatched
<1>2. \A e \in Dispatchers \ {d} : Unnoted(e) \subseteq Holds(e)
  BY UnnotedHeld DEF Locks
<1>3. \A e \in Dispatchers \ {d} : Holds(d) \cap Holds(e) = {}
  BY DEF Locks, Apart
<1> QED BY <1>1, <1>2, <1>3 DEF Others

\* The other transactions do not change with a step of d.
LEMMA OthersStay ==
    ASSUME TypeOK, NEW d \in Dispatchers,
           \A e \in Dispatchers \ {d} :
               /\ phase'[e] = phase[e] /\ locked'[e] = locked[e]
               /\ sentIn'[e] = sentIn[e]
    PROVE  Others(d)' = Others(d)
<1>1. \A e \in Dispatchers \ {d} : NextRow(e)' = NextRow(e)
  BY DEF NextRow
<1>2. \A e \in Dispatchers \ {d} : Unnoted(e)' = Unnoted(e)
  BY <1>1 DEF Unnoted
<1> QED BY <1>2 DEF Others

\* The locks stay in order when one transaction moves on.
LEMMA LocksKept ==
    ASSUME Locks, NEW d \in Dispatchers, Orderly(d)',
           \A e \in Dispatchers \ {d} :
               /\ phase'[e] = phase[e] /\ locked'[e] = locked[e]
               /\ sentIn'[e] = sentIn[e] /\ failedIn'[e] = failedIn[e]
               /\ Holds(e) \subseteq Pending'
               /\ Holds(d)' \cap Holds(e) = {}
    PROVE  Locks'
<1>1. \A e \in Dispatchers \ {d} : Holds(e)' = Holds(e)
  BY DEF Holds
<1>2. \A e \in Dispatchers \ {d} : Orderly(e)'
  BY <1>1 DEF Locks, Orderly
<1>3. Apart'
  BY <1>1 DEF Locks, Apart
<1> QED BY <1>2, <1>3 DEF Locks

\* A step that neither sends nor loses track of what was sent.
LEMMA AccountsKept ==
    ASSUME Accounts, Traced' = Traced, sent' = sent, doubts' = doubts
    PROVE  Accounts'
  BY DEF Accounts

\* A step of d that neither sends nor loses track of what it sent.
LEMMA TracedKept ==
    ASSUME TypeOK, NEW d \in Dispatchers, Dispatched' = Dispatched,
           Unnoted(d)' = Unnoted(d),
           \A e \in Dispatchers \ {d} :
               /\ phase'[e] = phase[e] /\ locked'[e] = locked[e]
               /\ sentIn'[e] = sentIn[e]
    PROVE  Traced' = Traced
<1>1. Others(d)' = Others(d)
  BY OthersStay
<1>2. Traced' = Dispatched' \cup Unnoted(d)' \cup Others(d)'
  BY DEF Traced, Others
<1> QED BY <1>1, <1>2, TracedSplit

-----------------------------------------------------------------------------
(* The steps of the table and of the election.                             *)

LEMMA InitEstablishes == Init => IInv
<1> SUFFICES ASSUME Init PROVE IInv
  OBVIOUS
<1>1. TypeOK
  BY OutboxAssumption DEF Init, TypeOK, Absent, Row, Statuses, Phases
<1>2. \A d \in Dispatchers : Holds(d) = {} /\ Unnoted(d) = {}
  BY DEF Init, Holds, Unnoted
<1>3. Locks
  BY <1>2 DEF Init, Locks, Apart, Orderly, Holds
<1>4. Dispatched = {}
  BY DEF Init, Dispatched, Absent, Row
<1>5. Accounts
  BY <1>2, <1>4 DEF Init, Accounts, Traced
<1> QED BY <1>1, <1>3, <1>5 DEF IInv

\* A step that leaves every transaction alone, and of the rows only such as
\* are not pending yet.
LEMMA TableStepKeeps ==
    ASSUME IInv, TypeOK', Pending \subseteq Pending', Dispatched' = Dispatched,
           UNCHANGED <<phase, locked, sentIn, failedIn, sent, doubts>>
    PROVE  IInv'
<1>1. \A d \in Dispatchers : Holds(d)' = Holds(d)
  BY DEF Holds
<1>2. \A d \in Dispatchers : NextRow(d)' = NextRow(d)
  BY DEF NextRow
<1>3. \A d \in Dispatchers : Unnoted(d)' = Unnoted(d)
  BY <1>2 DEF Unnoted
<1>4. Locks'
  BY <1>1 DEF IInv, Locks, Apart, Orderly
<1>5. Traced' = Traced
  BY <1>3 DEF Traced
<1> QED BY <1>4, <1>5, AccountsKept DEF IInv

LEMMA EnqueueKeeps ==
    ASSUME IInv, NEW m \in Messages, NEW due \in BOOLEAN, Enqueue(m, due)
    PROVE  IInv'
<1>1. rows[m].status = "absent"
  BY DEF Enqueue, Absent, Row
<1>2. rows' = [rows EXCEPT ![m] = [status |-> "pending", attempts |-> 0, due |-> due]]
  BY DEF Enqueue, Row
<1>3. rows' \in [Messages -> [status : Statuses, attempts : 0 .. MaxAttempts,
                              due : BOOLEAN]]
  BY <1>2, Types, OutboxAssumption DEF IInv, Statuses
<1>4. TypeOK'
  BY <1>2, <1>3, Types, OutboxAssumption DEF IInv, TypeOK, Enqueue
<1>5. Pending \subseteq Pending' /\ Dispatched' = Dispatched
  BY <1>1, <1>2, Types DEF IInv, Pending, Dispatched
<1> QED BY <1>4, <1>5, TableStepKeeps DEF Enqueue

LEMMA DueKeeps ==
    ASSUME IInv, NEW m \in Messages, Due(m)
    PROVE  IInv'
<1>1. rows' = [rows EXCEPT ![m].due = TRUE]
  BY DEF Due
<1>2. \A n \in Messages : /\ rows'[n].status = rows[n].status
                          /\ rows'[n].attempts = rows[n].attempts
  BY <1>1, Types DEF IInv
<1>3. rows' \in [Messages -> [status : Statuses, attempts : 0 .. MaxAttempts,
                              due : BOOLEAN]]
  BY <1>1, Types DEF IInv
<1>4. TypeOK'
  BY <1>2, <1>3 DEF IInv, TypeOK, Due
<1>5. Pending \subseteq Pending' /\ Dispatched' = Dispatched
  BY <1>2 DEF Pending, Dispatched
<1> QED BY <1>4, <1>5, TableStepKeeps DEF Due

LEMMA LockLostKeeps ==
    ASSUME IInv, LockLost
    PROVE  IInv'
<1>1. TypeOK'
  BY OutboxAssumption DEF IInv, TypeOK, LockLost
<1>2. Pending' = Pending /\ Dispatched' = Dispatched
  BY DEF LockLost, Pending, Dispatched
<1> QED BY <1>1, <1>2, TableStepKeeps DEF LockLost

-----------------------------------------------------------------------------
(* The steps of a dispatch.                                                *)

\* A step of d within its transaction that changes what it holds at most to
\* something smaller, and nothing of what it sent.
LEMMA QuietStepKeeps ==
    ASSUME IInv, TypeOK', NEW d \in Dispatchers, Orderly(d)',
           Unnoted(d)' = Unnoted(d),
           \A e \in Dispatchers \ {d} : Holds(d)' \cap Holds(e) = {},
           \A e \in Dispatchers \ {d} :
               /\ phase'[e] = phase[e] /\ locked'[e] = locked[e]
               /\ sentIn'[e] = sentIn[e] /\ failedIn'[e] = failedIn[e],
           UNCHANGED <<rows, sent, doubts>>
    PROVE  IInv'
<1>1. Pending' = Pending /\ Dispatched' = Dispatched
  BY DEF Pending, Dispatched
<1>2. Locks'
  BY <1>1, LocksKept DEF IInv, Locks, Orderly
<1>3. Traced' = Traced
  BY <1>1, TracedKept DEF IInv
<1> QED BY <1>2, <1>3, AccountsKept DEF IInv

LEMMA StartKeeps ==
    ASSUME IInv, NEW d \in Dispatchers, Start(d)
    PROVE  IInv'
<1>1. /\ phase' = [phase EXCEPT ![d] = "select"]
      /\ phase[d] = "idle"
      /\ locked' = locked /\ sentIn' = sentIn /\ failedIn' = failedIn
      /\ UNCHANGED <<rows, sent, doubts, faults>>
  BY DEF Start
<1>2. phase'[d] = "select" /\ \A e \in Dispatchers \ {d} : phase'[e] = phase[e]
  BY <1>1, Types DEF IInv
<1>3. TypeOK'
  BY <1>1 DEF IInv, TypeOK, Start, Phases
<1>4. Holds(d) = {} /\ Holds(d)' = {}
  BY <1>1 DEF IInv, Locks, Orderly, Holds
<1>5. Orderly(d)'
  BY <1>2, <1>4 DEF Orderly, Holds
<1>6. Unnoted(d)' = Unnoted(d)
  BY <1>1, <1>2 DEF Unnoted
<1> QED BY <1>1, <1>2, <1>3, <1>4, <1>5, <1>6, QuietStepKeeps

LEMMA SelectKeeps ==
    ASSUME IInv, NEW d \in Dispatchers, Select(d)
    PROVE  IInv'
<1> DEFINE S == FirstOf(Available)
<1>1. /\ locked' = [locked EXCEPT ![d] = S]
      /\ phase' = [phase EXCEPT ![d] = "loop"]
      /\ phase[d] = "select"
      /\ sentIn' = sentIn /\ failedIn' = failedIn
      /\ UNCHANGED <<rows, leader, sent, doubts, faults>>
  BY DEF Select
<1>2. /\ S \subseteq Pending /\ S \subseteq Messages
      /\ \A e \in Dispatchers : S \cap Holds(e) = {}
  BY DEF FirstOf, Available, Candidates, Pending
<1> HIDE DEF S
<1>3. /\ locked'[d] = S /\ phase'[d] = "loop"
      /\ \A e \in Dispatchers \ {d} : phase'[e] = phase[e] /\ locked'[e] = locked[e]
  BY <1>1, Types DEF IInv
<1>4. TypeOK'
  BY <1>1, <1>2 DEF IInv, TypeOK, Phases
<1>5. Holds(d) = {} /\ sentIn[d] = {} /\ failedIn[d] = {}
  BY <1>1 DEF IInv, Locks, Orderly, Holds
<1>6. Holds(d)' = S
  BY <1>1, <1>3, <1>5 DEF Holds
<1>7. Orderly(d)'
  <2>1. Pending' = Pending
    BY <1>1 DEF Pending
  <2> QED BY <2>1, <1>1, <1>2, <1>3, <1>5, <1>6 DEF Orderly
<1>8. Unnoted(d)' = Unnoted(d)
  BY <1>1, <1>3 DEF Unnoted
<1> QED BY <1>1, <1>2, <1>3, <1>4, <1>6, <1>7, <1>8, QuietStepKeeps

LEMMA SendFailsKeeps ==
    ASSUME IInv, NEW d \in Dispatchers, SendFails(d)
    PROVE  IInv'
<1>1. /\ phase' = [phase EXCEPT ![d] = "refused"]
      /\ phase[d] = "loop" /\ locked[d] # {}
      /\ locked' = locked /\ sentIn' = sentIn /\ failedIn' = failedIn
      /\ UNCHANGED <<rows, leader, sent, doubts, faults>>
  BY DEF SendFails
<1>2. phase'[d] = "refused" /\ \A e \in Dispatchers \ {d} : phase'[e] = phase[e]
  BY <1>1, Types DEF IInv
<1>3. TypeOK'
  BY <1>1 DEF IInv, TypeOK, Phases
<1>4. Holds(d)' = Holds(d) /\ Pending' = Pending
  BY <1>1 DEF Holds, Pending
<1>5. Orderly(d)'
  BY <1>1, <1>2, <1>4 DEF IInv, Locks, Orderly
<1>6. Unnoted(d)' = Unnoted(d)
  BY <1>1, <1>2 DEF Unnoted
<1>7. \A e \in Dispatchers \ {d} : Holds(d)' \cap Holds(e) = {}
  BY <1>4 DEF IInv, Locks, Apart
<1> QED BY <1>1, <1>2, <1>3, <1>5, <1>6, <1>7, QuietStepKeeps

\* The outcome of a send is noted: what d sent is what it had sent.
LEMMA NoteKeeps ==
    ASSUME IInv, NEW d \in Dispatchers, Note(d)
    PROVE  IInv'
<1> DEFINE n == NextRow(d)
<1>1. /\ locked' = [locked EXCEPT ![d] = @ \ {n}]
      /\ phase' = [phase EXCEPT ![d] = "loop"]
      /\ phase[d] \in {"sent", "refused"}
      /\ UNCHANGED <<rows, leader, sent, doubts, faults>>
  BY DEF Note
<1>2. \/ /\ phase[d] = "sent"
         /\ sentIn' = [sentIn EXCEPT ![d] = @ \cup {n}] /\ failedIn' = failedIn
      \/ /\ phase[d] = "refused"
         /\ failedIn' = [failedIn EXCEPT ![d] = @ \cup {n}] /\ sentIn' = sentIn
  BY DEF Note
<1>3. n \in locked[d] /\ n \in Messages
  BY <1>1, NextRowLocked DEF IInv, Locks, Orderly
<1>4. Unnoted(d) = sentIn[d] \cup (IF phase[d] = "sent" THEN {n} ELSE {})
  BY DEF Unnoted
<1> HIDE DEF n
<1>5. /\ locked'[d] = locked[d] \ {n} /\ phase'[d] = "loop"
      /\ \A e \in Dispatchers \ {d} : phase'[e] = phase[e] /\ locked'[e] = locked[e]
  BY <1>1, Types DEF IInv
<1>6. /\ \/ /\ phase[d] = "sent"
            /\ sentIn'[d] = sentIn[d] \cup {n} /\ failedIn'[d] = failedIn[d]
         \/ /\ phase[d] = "refused"
            /\ failedIn'[d] = failedIn[d] \cup {n} /\ sentIn'[d] = sentIn[d]
      /\ \A e \in Dispatchers \ {d} :
            sentIn'[e] = sentIn[e] /\ failedIn'[e] = failedIn[e]
  BY <1>2, Types DEF IInv
<1>7. TypeOK'
  <2>1. /\ locked' \in [Dispatchers -> SUBSET Messages]
        /\ sentIn' \in [Dispatchers -> SUBSET Messages]
        /\ failedIn' \in [Dispatchers -> SUBSET Messages]
        /\ phase' \in [Dispatchers -> Phases]
    BY <1>1, <1>2, <1>3, Types DEF IInv, Phases
  <2> QED BY <2>1, <1>1 DEF IInv, TypeOK
<1>8. Holds(d)' = Holds(d)
  BY <1>3, <1>5, <1>6 DEF Holds
<1>9. Orderly(d)'
  <2>1. Pending' = Pending
    BY <1>1 DEF Pending
  <2> QED BY <2>1, <1>3, <1>5, <1>6, <1>8 DEF IInv, Locks, Orderly
<1>10. Unnoted(d)' = Unnoted(d)
  BY <1>4, <1>5, <1>6 DEF Unnoted
<1>11. \A e \in Dispatchers \ {d} : Holds(d)' \cap Holds(e) = {}
  BY <1>8 DEF IInv, Locks, Apart
<1> QED BY <1>1, <1>5, <1>6, <1>7, <1>9, <1>10, <1>11, QuietStepKeeps

\* A send creates a job: one more to account for.
LEMMA SendKeeps ==
    ASSUME IInv, NEW d \in Dispatchers, Send(d)
    PROVE  IInv'
<1> DEFINE n == NextRow(d)
<1>1. /\ sent' = [sent EXCEPT ![n] = @ + 1]
      /\ phase' = [phase EXCEPT ![d] = "sent"]
      /\ phase[d] = "loop" /\ locked[d] # {}
      /\ locked' = locked /\ sentIn' = sentIn /\ failedIn' = failedIn
      /\ UNCHANGED <<rows, leader, doubts, faults>>
  BY DEF Send
<1>2. n \in locked[d] /\ n \in Messages
  BY <1>1, NextRowLocked DEF IInv
<1>3. phase'[d] = "sent" /\ \A e \in Dispatchers \ {d} : phase'[e] = phase[e]
  BY <1>1, Types DEF IInv
<1>4. Unnoted(d) = sentIn[d] /\ Unnoted(d)' = sentIn[d] \cup {n}
  BY <1>1, <1>3 DEF Unnoted, NextRow
<1> HIDE DEF n
<1>5. TypeOK'
  <2>1. sent' \in [Messages -> Nat]
    BY <1>1, <1>2, Types DEF IInv
  <2>2. phase' \in [Dispatchers -> Phases]
    BY <1>1, Types DEF IInv, Phases
  <2> QED BY <2>1, <2>2, <1>1 DEF IInv, TypeOK
<1>6. /\ \A e \in Dispatchers : Holds(e)' = Holds(e)
      /\ Pending' = Pending /\ Dispatched' = Dispatched
  BY <1>1 DEF Holds, Pending, Dispatched
<1>7. Orderly(d)'
  BY <1>1, <1>3, <1>6 DEF IInv, Locks, Orderly
<1>8. Locks'
  BY <1>1, <1>3, <1>6, <1>7, LocksKept DEF IInv, Locks, Apart, Orderly
<1>9. Traced' = Traced \cup {n} /\ n \notin Traced
  <2>1. Others(d)' = Others(d)
    BY <1>1, <1>3, OthersStay DEF IInv
  <2>2. Traced' = Dispatched' \cup Unnoted(d)' \cup Others(d)'
    BY DEF Traced, Others
  <2>3. Traced = Dispatched \cup Unnoted(d) \cup Others(d)
    BY TracedSplit
  <2>4. n \notin Dispatched /\ n \notin Others(d)
    BY <1>2, HeldAlone DEF IInv, Holds
  <2>5. n \notin sentIn[d]
    BY <1>2 DEF IInv, Locks, Orderly
  <2> QED BY <2>1, <2>2, <2>3, <2>4, <2>5, <1>4, <1>6
<1>10. Accounts'
  <2> SUFFICES ASSUME NEW m \in Messages
               PROVE  /\ m \in Traced' => sent'[m] = doubts'[m] + 1
                      /\ m \notin Traced' => sent'[m] = doubts'[m]
    BY DEF Accounts
  <2>1. CASE m = n
    <3>1. sent[m] = doubts[m]
      BY <2>1, <1>9 DEF IInv, Accounts
    <3>2. sent'[m] = sent[m] + 1 /\ doubts'[m] = doubts[m]
      BY <2>1, <1>1, Types DEF IInv
    <3> QED BY <3>1, <3>2, <2>1, <1>9
  <2>2. CASE m # n
    <3>1. sent'[m] = sent[m] /\ doubts'[m] = doubts[m]
      BY <2>2, <1>1, Types DEF IInv
    <3> QED BY <3>1, <2>2, <1>9 DEF IInv, Accounts
  <2> QED BY <2>1, <2>2
<1> QED BY <1>5, <1>8, <1>10 DEF IInv

\* A job is created and nobody knows: one more job, one more doubt.
LEMMA SendAnswerLostKeeps ==
    ASSUME IInv, NEW d \in Dispatchers, SendAnswerLost(d)
    PROVE  IInv'
<1> DEFINE n == NextRow(d)
<1>1. /\ sent' = [sent EXCEPT ![n] = @ + 1]
      /\ doubts' = [doubts EXCEPT ![n] = @ + 1]
      /\ phase' = [phase EXCEPT ![d] = "refused"]
      /\ phase[d] = "loop" /\ locked[d] # {}
      /\ locked' = locked /\ sentIn' = sentIn /\ failedIn' = failedIn
      /\ faults < MaxFaults /\ faults' = faults + 1
      /\ UNCHANGED <<rows, leader>>
  BY DEF SendAnswerLost
<1>2. n \in Messages
  BY <1>1, NextRowLocked DEF IInv
<1>3. phase'[d] = "refused" /\ \A e \in Dispatchers \ {d} : phase'[e] = phase[e]
  BY <1>1, Types DEF IInv
<1>4. Unnoted(d)' = Unnoted(d)
  BY <1>1, <1>3 DEF Unnoted
<1> HIDE DEF n
<1>5. TypeOK'
  <2>1. sent' \in [Messages -> Nat] /\ doubts' \in [Messages -> Nat]
    BY <1>1, <1>2, Types DEF IInv
  <2>2. phase' \in [Dispatchers -> Phases]
    BY <1>1, Types DEF IInv, Phases
  <2>3. faults' \in 0 .. MaxFaults
    BY <1>1, Types, OutboxAssumption DEF IInv
  <2> QED BY <2>1, <2>2, <2>3, <1>1 DEF IInv, TypeOK
<1>6. /\ \A e \in Dispatchers : Holds(e)' = Holds(e)
      /\ Pending' = Pending /\ Dispatched' = Dispatched
  BY <1>1 DEF Holds, Pending, Dispatched
<1>7. Orderly(d)'
  BY <1>1, <1>3, <1>6 DEF IInv, Locks, Orderly
<1>8. Locks'
  BY <1>1, <1>3, <1>6, <1>7, LocksKept DEF IInv, Locks, Apart, Orderly
<1>9. Traced' = Traced
  BY <1>1, <1>3, <1>4, <1>6, TracedKept DEF IInv
<1>10. Accounts'
  <2> SUFFICES ASSUME NEW m \in Messages
               PROVE  /\ m \in Traced => sent'[m] = doubts'[m] + 1
                      /\ m \notin Traced => sent'[m] = doubts'[m]
    BY <1>9 DEF Accounts
  <2>1. \/ sent'[m] = sent[m] + 1 /\ doubts'[m] = doubts[m] + 1
        \/ sent'[m] = sent[m] /\ doubts'[m] = doubts[m]
    BY <1>1, Types DEF IInv
  <2>2. sent[m] \in Nat /\ doubts[m] \in Nat
    BY Types DEF IInv
  <2> QED BY <2>1, <2>2 DEF IInv, Accounts
<1> QED BY <1>5, <1>8, <1>10 DEF IInv

-----------------------------------------------------------------------------
(* The end of a transaction.                                               *)

LEMMA EndClears ==
    ASSUME TypeOK, NEW d \in Dispatchers, End(d)
    PROVE  /\ phase' \in [Dispatchers -> Phases]
           /\ locked' \in [Dispatchers -> SUBSET Messages]
           /\ sentIn' \in [Dispatchers -> SUBSET Messages]
           /\ failedIn' \in [Dispatchers -> SUBSET Messages]
           /\ leader' \in Instances \cup {NoOne}
           /\ Holds(d)' = {} /\ Unnoted(d)' = {} /\ Orderly(d)'
           /\ \A e \in Dispatchers \ {d} :
                 /\ phase'[e] = phase[e] /\ locked'[e] = locked[e]
                 /\ sentIn'[e] = sentIn[e] /\ failedIn'[e] = failedIn[e]
<1>1. /\ phase' = [phase EXCEPT ![d] = "idle"]
      /\ locked' = [locked EXCEPT ![d] = {}]
      /\ sentIn' = [sentIn EXCEPT ![d] = {}]
      /\ failedIn' = [failedIn EXCEPT ![d] = {}]
  BY DEF End
<1>2. /\ phase'[d] = "idle" /\ locked'[d] = {} /\ sentIn'[d] = {} /\ failedIn'[d] = {}
      /\ \A e \in Dispatchers \ {d} :
            /\ phase'[e] = phase[e] /\ locked'[e] = locked[e]
            /\ sentIn'[e] = sentIn[e] /\ failedIn'[e] = failedIn[e]
  BY <1>1, Types
<1>3. /\ phase' \in [Dispatchers -> Phases]
      /\ locked' \in [Dispatchers -> SUBSET Messages]
      /\ sentIn' \in [Dispatchers -> SUBSET Messages]
      /\ failedIn' \in [Dispatchers -> SUBSET Messages]
  BY <1>1, Types DEF Phases
<1>4. leader' \in Instances \cup {NoOne}
  BY Types DEF End
<1>5. Holds(d)' = {} /\ Unnoted(d)' = {} /\ Orderly(d)'
  BY <1>2 DEF Holds, Unnoted, Orderly
<1> QED BY <1>2, <1>3, <1>4, <1>5

\* The rows as a commit leaves them.
LEMMA CommittedRows ==
    ASSUME TypeOK, Locks, NEW d \in Dispatchers, rows' = Committed(d)
    PROVE  /\ rows' \in [Messages -> [status : Statuses, attempts : 0 .. MaxAttempts,
                                      due : BOOLEAN]]
           /\ \A m \in Messages :
                 /\ rows'[m].status = "pending" => rows'[m].attempts < MaxAttempts
                 /\ rows'[m].status = "failed" => rows'[m].attempts = MaxAttempts
           /\ Dispatched' = Dispatched \cup sentIn[d]
           /\ Pending \ Holds(d) \subseteq Pending'
<1>1. \A m \in Messages :
         m \in sentIn[d] \cup failedIn[d] =>
            /\ rows[m].status = "pending"
            /\ rows[m].attempts + 1 \in 0 .. MaxAttempts
  <2> SUFFICES ASSUME NEW m \in Messages, m \in sentIn[d] \cup failedIn[d]
               PROVE  /\ rows[m].status = "pending"
                      /\ rows[m].attempts + 1 \in 0 .. MaxAttempts
    OBVIOUS
  <2>1. rows[m].status = "pending"
    BY DEF Locks, Orderly, Holds, Pending
  <2>2. rows[m].attempts < MaxAttempts /\ rows[m].attempts \in 0 .. MaxAttempts
    BY <2>1, Types DEF TypeOK
  <2> QED BY <2>1, <2>2, OutboxAssumption
<1>2. ASSUME NEW m \in Messages, m \in sentIn[d]
      PROVE  rows'[m] = [status |-> "dispatched", attempts |-> rows[m].attempts + 1,
                         due |-> rows[m].due]
  <2>1. m \notin failedIn[d]
    BY <1>2 DEF Locks, Orderly
  <2> QED BY <1>2, <2>1 DEF Committed, Row
<1>3. ASSUME NEW m \in Messages, m \in failedIn[d]
      PROVE  rows'[m] = [status |-> IF rows[m].attempts + 1 >= MaxAttempts
                                    THEN "failed" ELSE "pending",
                         attempts |-> rows[m].attempts + 1, due |-> FALSE]
  <2>1. m \notin sentIn[d]
    BY <1>3 DEF Locks, Orderly
  <2> QED BY <1>3, <2>1 DEF Committed, AfterFailure, Row
<1>4. ASSUME NEW m \in Messages, m \notin sentIn[d] \cup failedIn[d]
      PROVE  rows'[m] = rows[m]
  BY <1>4 DEF Committed
<1>5. ASSUME NEW m \in Messages
      PROVE  /\ rows'[m] \in [status : Statuses, attempts : 0 .. MaxAttempts,
                              due : BOOLEAN]
             /\ rows'[m].status = "pending" => rows'[m].attempts < MaxAttempts
             /\ rows'[m].status = "failed" => rows'[m].attempts = MaxAttempts
             /\ rows'[m].status = "dispatched" <=>
                   (rows[m].status = "dispatched" \/ m \in sentIn[d])
  <2>1. rows[m] \in [status : Statuses, attempts : 0 .. MaxAttempts, due : BOOLEAN]
    BY Types
  <2>2. CASE m \in sentIn[d]
    <3>1. rows[m].attempts + 1 \in 0 .. MaxAttempts
      BY <2>2, <1>1
    <3>2. rows'[m] = [status |-> "dispatched", attempts |-> rows[m].attempts + 1,
                      due |-> rows[m].due]
      BY <2>2, <1>2
    <3>3. rows[m].due \in BOOLEAN
      BY <2>1
    <3>4. rows'[m] \in [status : Statuses, attempts : 0 .. MaxAttempts, due : BOOLEAN]
      BY <3>1, <3>2, <3>3 DEF Statuses
    <3>5. rows'[m].status = "dispatched"
      BY <3>2
    <3> QED BY <3>4, <3>5, <2>2
  <2>3. CASE m \in failedIn[d]
    <3>1. m \notin sentIn[d]
      BY <2>3 DEF Locks, Orderly
    <3>2. rows[m].status = "pending" /\ rows[m].attempts + 1 \in 0 .. MaxAttempts
      BY <2>3, <1>1
    <3>3. CASE rows[m].attempts + 1 >= MaxAttempts
      <4>1. rows'[m] = [status |-> "failed", attempts |-> rows[m].attempts + 1,
                        due |-> FALSE]
        BY <2>3, <1>3, <3>3
      <4>2. rows[m].attempts + 1 = MaxAttempts
        BY <3>2, <3>3, OutboxAssumption
      <4> QED BY <4>1, <4>2, <3>1, <3>2 DEF Statuses
    <3>4. CASE ~ (rows[m].attempts + 1 >= MaxAttempts)
      <4>1. rows'[m] = [status |-> "pending", attempts |-> rows[m].attempts + 1,
                        due |-> FALSE]
        BY <2>3, <1>3, <3>4
      <4>2. rows[m].attempts + 1 < MaxAttempts
        BY <3>2, <3>4, OutboxAssumption
      <4> QED BY <4>1, <4>2, <3>1, <3>2 DEF Statuses
    <3> QED BY <3>3, <3>4
  <2>4. CASE m \notin sentIn[d] \cup failedIn[d]
    BY <2>1, <2>4, <1>4 DEF TypeOK
  <2> QED BY <2>2, <2>3, <2>4
<1>6. Dispatched' = Dispatched \cup sentIn[d]
  <2>1. sentIn[d] \subseteq Messages
    BY Types
  <2> QED BY <2>1, <1>5 DEF Dispatched
<1>7. Pending \ Holds(d) \subseteq Pending'
  BY <1>4 DEF Pending, Holds
<1>8. rows' \in [Messages -> [status : Statuses, attempts : 0 .. MaxAttempts,
                              due : BOOLEAN]]
  <2>1. rows' = [m \in Messages |-> rows'[m]]
    BY DEF Committed
  <2> QED BY <2>1, <1>5
<1> QED BY <1>5, <1>6, <1>7, <1>8

\* What d sent is dispatched from now on: as traced as before.
LEMMA CommitKeeps ==
    ASSUME IInv, NEW d \in Dispatchers, Commit(d)
    PROVE  IInv'
<1>1. /\ phase[d] = "loop" /\ rows' = Committed(d) /\ End(d)
      /\ UNCHANGED <<sent, doubts, faults>>
  BY DEF Commit
<1>2. TypeOK'
  BY <1>1, EndClears, CommittedRows DEF IInv, TypeOK
<1>3. Locks'
  <2>1. \A e \in Dispatchers \ {d} : Holds(e) \subseteq Pending'
    BY <1>1, CommittedRows DEF IInv, Locks, Apart, Orderly
  <2> QED BY <2>1, <1>1, EndClears, LocksKept DEF IInv
<1>4. Traced' = Traced
  <2>1. Others(d)' = Others(d)
    BY <1>1, EndClears, OthersStay DEF IInv
  <2>2. Traced' = Dispatched' \cup Unnoted(d)' \cup Others(d)'
    BY DEF Traced, Others
  <2>3. Traced = Dispatched \cup Unnoted(d) \cup Others(d)
    BY TracedSplit
  <2>4. Dispatched' = Dispatched \cup sentIn[d] /\ Unnoted(d)' = {}
    BY <1>1, EndClears, CommittedRows DEF IInv
  <2>5. Unnoted(d) = sentIn[d]
    BY <1>1 DEF Unnoted
  <2> QED BY <2>1, <2>2, <2>3, <2>4, <2>5
<1> QED BY <1>1, <1>2, <1>3, <1>4, AccountsKept DEF IInv

\* What d sent is in doubt from now on.
LEMMA RollbackKeeps ==
    ASSUME IInv, NEW d \in Dispatchers, Rollback(d)
    PROVE  IInv'
<1>1. /\ End(d) /\ rows' = rows /\ sent' = sent
      /\ faults < MaxFaults /\ faults' = faults + 1
      /\ doubts' = [m \in Messages |-> IF m \in Unnoted(d) THEN doubts[m] + 1
                                                           ELSE doubts[m]]
  BY DEF Rollback
<1>2. TypeOK'
  <2>1. doubts' \in [Messages -> Nat]
    BY <1>1, Types DEF IInv
  <2>2. faults' \in 0 .. MaxFaults
    BY <1>1, Types, OutboxAssumption DEF IInv
  <2> QED BY <2>1, <2>2, <1>1, EndClears DEF IInv, TypeOK
<1>3. Pending' = Pending /\ Dispatched' = Dispatched
  BY <1>1 DEF Pending, Dispatched
<1>4. Locks'
  BY <1>1, <1>3, EndClears, LocksKept DEF IInv, Locks, Orderly
<1>5. Traced' = Traced \ Unnoted(d) /\ Unnoted(d) \subseteq Traced
  <2>1. Others(d)' = Others(d)
    BY <1>1, EndClears, OthersStay DEF IInv
  <2>2. Traced' = Dispatched' \cup Unnoted(d)' \cup Others(d)'
    BY DEF Traced, Others
  <2>3. Traced = Dispatched \cup Unnoted(d) \cup Others(d)
    BY TracedSplit
  <2>4. Unnoted(d) \cap (Dispatched \cup Others(d)) = {}
    BY UnnotedHeld, HeldAlone DEF IInv, Locks
  <2>5. Unnoted(d)' = {}
    BY <1>1, EndClears DEF IInv
  <2> QED BY <2>1, <2>2, <2>3, <2>4, <2>5, <1>3
<1>6. Accounts'
  <2> SUFFICES ASSUME NEW m \in Messages
               PROVE  /\ m \in Traced' => sent'[m] = doubts'[m] + 1
                      /\ m \notin Traced' => sent'[m] = doubts'[m]
    BY DEF Accounts
  <2>1. CASE m \in Unnoted(d)
    <3>1. sent[m] = doubts[m] + 1 /\ m \notin Traced'
      BY <2>1, <1>5 DEF IInv, Accounts
    <3>2. sent'[m] = sent[m] /\ doubts'[m] = doubts[m] + 1
      BY <2>1, <1>1
    <3> QED BY <3>1, <3>2
  <2>2. CASE m \notin Unnoted(d)
    <3>1. sent'[m] = sent[m] /\ doubts'[m] = doubts[m]
      BY <2>2, <1>1
    <3>2. m \in Traced' <=> m \in Traced
      BY <2>2, <1>5
    <3> QED BY <3>1, <3>2 DEF IInv, Accounts
  <2> QED BY <2>1, <2>2
<1> QED BY <1>2, <1>4, <1>6 DEF IInv

-----------------------------------------------------------------------------
LEMMA NextKeeps == IInv /\ [Next]_vars => IInv'
<1> SUFFICES ASSUME IInv, [Next]_vars PROVE IInv'
  OBVIOUS
<1>1. CASE \E m \in Messages : Due(m) \/ \E due \in BOOLEAN : Enqueue(m, due)
  BY <1>1, DueKeeps, EnqueueKeeps
<1>2. ASSUME NEW d \in Dispatchers,
             Start(d) \/ Step(d) \/ SendAnswerLost(d) \/ Rollback(d)
      PROVE  IInv'
  BY <1>2, StartKeeps, SelectKeeps, SendKeeps, SendFailsKeeps, NoteKeeps,
     CommitKeeps, SendAnswerLostKeeps, RollbackKeeps DEF Step
<1>3. CASE LockLost
  BY <1>3, LockLostKeeps
<1>4. CASE UNCHANGED vars
  <2>1. TypeOK'
    BY <1>4 DEF IInv, TypeOK, vars
  <2>2. Pending' = Pending /\ Dispatched' = Dispatched
    BY <1>4 DEF vars, Pending, Dispatched
  <2> QED BY <2>1, <2>2, <1>4, TableStepKeeps DEF vars
<1> QED BY <1>1, <1>2, <1>3, <1>4 DEF Next

\* The transactions keep out of each other's way and every job is traced or
\* in doubt: the strengthening that makes the invariants inductive.
THEOREM Invariance == Spec => []IInv
<1> QED BY InitEstablishes, NextKeeps, PTL DEF Spec

\* dispatchPending: a message marked as dispatched has a job, and it has more
\* jobs only as often as a send was not noted, whoever dispatches and
\* whatever goes wrong.
THEOREM OutboxInvariants ==
    Spec => [](TypeOK /\ DispatchedWasSent /\ SendsAccountedFor)
<1>1. ASSUME IInv PROVE DispatchedWasSent /\ SendsAccountedFor
  <2> SUFFICES ASSUME NEW m \in Messages
               PROVE  /\ rows[m].status = "dispatched" => sent[m] > 0
                      /\ sent[m] <= 1 + doubts[m]
    BY DEF DispatchedWasSent, SendsAccountedFor
  <2>1. sent[m] \in Nat /\ doubts[m] \in Nat
    BY <1>1, Types DEF IInv
  <2>2. sent[m] = doubts[m] + 1 \/ sent[m] = doubts[m]
    BY <1>1 DEF IInv, Accounts
  <2>3. rows[m].status = "dispatched" => sent[m] = doubts[m] + 1
    BY <1>1 DEF IInv, Accounts, Traced, Dispatched
  <2> QED BY <2>1, <2>2, <2>3
<1>2. IInv => TypeOK /\ DispatchedWasSent /\ SendsAccountedFor
  BY <1>1 DEF IInv
<1> QED BY <1>2, Invariance, PTL

\* A pending row always has attempts left, so a dispatch may still take it,
\* and a failed row has used them up.
THEOREM RowsWellTyped == Spec => []TypeOK
  BY OutboxInvariants, PTL

\* markDispatched and the commit: a message that counts as dispatched has a
\* job, whatever was rolled back, lost or elected in between.
THEOREM NoneDispatchedUnsent == Spec => []DispatchedWasSent
  BY OutboxInvariants, PTL

\* FOR UPDATE SKIP LOCKED: no row is worked on by two dispatchers at once,
\* be they elected or not.
THEOREM NoRowHeldTwice == Spec => []Apart
<1>1. IInv => Apart
  BY DEF IInv, Locks
<1> QED BY <1>1, Invariance, PTL
=============================================================================
