-------------------------- MODULE AuditChainProofs --------------------------
(***************************************************************************)
(* Theorems about AuditChain, for any writers, tenants and number of rows, *)
(* with and without a role that bypasses row level security.               *)
(***************************************************************************)
EXTENDS AuditChain, SequenceTheorems, NaturalsInduction, WellFoundedInduction,
        TLAPS

RowRecords == [tenant : Viewers, prev : 0 .. MaxRows,
               seen : SUBSET Ids, state : States]

\* Those of these rows that a transaction of t may see.
Among(log, ids, t) ==
    {id \in ids : Bypass \/ t = NoTenant \/ log[id].tenant = t}

\* An open row belongs to one append; what an append saw when it looked for
\* the last row is still committed, and what it chose was the last of it.
Held ==
    /\ Len(rows) <= MaxRows
    /\ \A w \in Writers : own[w] # 0 => own[w] \in DOMAIN rows
    /\ \A v, w \in Writers : own[w] # 0 /\ own[v] = own[w] => v = w
    /\ \A w \in Writers : pc[w] \in {"lock", "insert", "commit"} =>
          /\ seen[w] \subseteq Committed
          /\ last[w] = LastOf(Among(rows, seen[w], tenant[w]))

\* The same of every row, whose append may be over long since.
Linked ==
    \A id \in DOMAIN rows :
        /\ rows[id].seen \subseteq Committed
        /\ \A other \in rows[id].seen : other < id
        /\ rows[id].prev = LastOf(Among(rows, rows[id].seen, rows[id].tenant))

IInv == TypeOK /\ Held /\ Linked

-----------------------------------------------------------------------------
(* The last of a set of rows.                                              *)

LEMMA LeastExists ==
    ASSUME NEW S \in SUBSET Nat, S # {}
    PROVE  \E m \in S : \A n \in S : m <= n
<1>1. PICK m \in S : \A n \in S : ~ (<<n, m>> \in OpToRel(<, Nat))
  BY NatLessThanWellFounded, WFMin
<1>2. \A n \in S : ~ (n < m)
  BY <1>1 DEF OpToRel
<1> QED BY <1>2

LEMMA IdNumbers == \A id \in Ids : id \in Nat /\ 1 <= id /\ id <= MaxRows
  BY ChainAssumption DEF Ids

\* A set of ids that is not empty has a last one: the least bound of the
\* set is in it.
LEMMA LastOfBounded ==
    ASSUME NEW ids \in SUBSET Ids, ids # {}
    PROVE  /\ LastOf(ids) \in ids
           /\ \A other \in ids : other <= LastOf(ids)
<1> DEFINE Bounds == {n \in Nat : \A id \in ids : id <= n}
<1>1. ids \subseteq Nat /\ MaxRows \in Bounds
  BY ChainAssumption DEF Ids
<1>2. PICK least \in Bounds : \A n \in Bounds : least <= n
  BY <1>1, LeastExists
<1>3. least \in ids
  <2>1. SUFFICES ASSUME least \notin ids PROVE FALSE
    OBVIOUS
  <2>2. \A id \in ids : id <= least - 1
    BY <1>1, <2>1
  <2>3. least - 1 \in Nat
    <3>1. PICK id \in ids : id <= least - 1
      BY <2>2
    <3>2. id \in Nat /\ 1 <= id /\ least \in Nat
      BY IdNumbers
    <3> QED BY <3>1, <3>2
  <2>4. least - 1 \in Bounds
    BY <2>2, <2>3
  <2> QED BY <1>2, <2>4
<1>4. \E id \in ids : \A other \in ids : other <= id
  BY <1>3
<1> QED BY <1>4 DEF LastOf

LEMMA LastOfUnique ==
    ASSUME NEW ids \in SUBSET Ids, NEW id \in ids,
           \A other \in ids : other <= id
    PROVE  LastOf(ids) = id
<1>1. LastOf(ids) \in ids /\ id <= LastOf(ids) /\ LastOf(ids) <= id
  BY LastOfBounded
<1>2. id \in Nat /\ LastOf(ids) \in Nat
  BY <1>1, IdNumbers
<1> QED BY <1>1, <1>2

LEMMA LastOfType ==
    ASSUME NEW ids \in SUBSET Ids
    PROVE  LastOf(ids) \in 0 .. MaxRows
<1>1. CASE ids = {}
  BY <1>1, ChainAssumption DEF LastOf
<1>2. CASE ids # {}
  BY <1>2, LastOfBounded, IdNumbers, ChainAssumption
<1> QED BY <1>1, <1>2

-----------------------------------------------------------------------------
(* What a step does to the rows.                                           *)

LEMMA RowTypes ==
    ASSUME TypeOK, Held
    PROVE  /\ rows \in Seq(RowRecords) /\ Len(rows) \in Nat
           /\ DOMAIN rows = 1 .. Len(rows) /\ DOMAIN rows \subseteq Ids
           /\ Committed \subseteq DOMAIN rows
           /\ \A id \in DOMAIN rows : rows[id] \in RowRecords
<1>1. rows \in Seq(RowRecords)
  BY DEF TypeOK, RowRecords
<1>2. Len(rows) \in Nat /\ DOMAIN rows = 1 .. Len(rows)
      /\ rows \in [1 .. Len(rows) -> RowRecords]
  BY <1>1, LenProperties
<1>3. DOMAIN rows \subseteq Ids
  BY <1>2, ChainAssumption DEF Held, Ids
<1> QED BY <1>1, <1>2, <1>3 DEF Committed

LEMMA SettleRows ==
    ASSUME TypeOK, Held, NEW w \in Writers, NEW state \in States,
           Settle(w, state)
    PROVE  /\ rows' \in Seq(RowRecords)
           /\ Len(rows') = Len(rows) /\ DOMAIN rows' = DOMAIN rows
           /\ \A id \in DOMAIN rows :
                 /\ rows'[id].tenant = rows[id].tenant
                 /\ rows'[id].prev = rows[id].prev
                 /\ rows'[id].seen = rows[id].seen
                 /\ rows'[id].state = IF id = own[w] THEN state
                                      ELSE rows[id].state
<1>1. CASE own[w] = 0
  BY <1>1, RowTypes DEF Settle
<1>2. CASE own[w] # 0
  <2> DEFINE new == [rows[own[w]] EXCEPT !.state = state]
  <2>1. own[w] \in 1 .. Len(rows)
    BY <1>2, RowTypes DEF Held
  <2>2. rows[own[w]] \in RowRecords
    BY <2>1, RowTypes
  <2>3. /\ new \in RowRecords /\ new.state = state
        /\ new.tenant = rows[own[w]].tenant
        /\ new.prev = rows[own[w]].prev /\ new.seen = rows[own[w]].seen
    BY <2>2 DEF RowRecords
  <2>4. rows' = [rows EXCEPT ![own[w]] = new]
    BY <1>2 DEF Settle
  <2> HIDE DEF new
  <2>5. /\ rows' \in Seq(RowRecords) /\ Len(rows') = Len(rows)
        /\ \A id \in 1 .. Len(rows) :
              rows'[id] = IF id = own[w] THEN new ELSE rows[id]
    BY <2>1, <2>3, <2>4, RowTypes, ExceptSeq
  <2>6. DOMAIN rows' = DOMAIN rows
    BY <2>4
  <2> QED BY <2>1, <2>3, <2>5, <2>6, RowTypes
<1> QED BY <1>1, <1>2

LEMMA InsertRows ==
    ASSUME TypeOK, Held, NEW w \in Writers, Insert(w)
    PROVE  /\ rows' \in Seq(RowRecords)
           /\ Len(rows') = Len(rows) + 1
           /\ DOMAIN rows' = DOMAIN rows \cup {Len(rows) + 1}
           /\ \A id \in DOMAIN rows : rows'[id] = rows[id]
           /\ rows'[Len(rows) + 1] = [tenant |-> tenant[w], prev |-> last[w],
                                      seen |-> seen[w], state |-> "open"]
<1> DEFINE new == [tenant |-> tenant[w], prev |-> last[w],
                   seen |-> seen[w], state |-> "open"]
<1>1. new \in RowRecords
  BY DEF TypeOK, RowRecords, States
<1>2. rows' = Append(rows, new)
  BY DEF Insert
<1> HIDE DEF new
<1>3. /\ rows' \in Seq(RowRecords) /\ Len(rows') = Len(rows) + 1
      /\ \A id \in 1 .. Len(rows) : rows'[id] = rows[id]
      /\ rows'[Len(rows) + 1] = new
  BY <1>1, <1>2, RowTypes
<1>4. DOMAIN rows' = 1 .. Len(rows) + 1
  BY <1>3, RowTypes, LenProperties
<1> QED BY <1>3, <1>4, RowTypes DEF new

-----------------------------------------------------------------------------
(* The invariant.                                                          *)

\* What stays of the rows that were there: the two histories that the
\* invariant relates to them keep their meaning.
Continues ==
    /\ \A id \in DOMAIN rows :
          /\ id \in DOMAIN rows'
          /\ rows'[id].tenant = rows[id].tenant
          /\ rows'[id].prev = rows[id].prev
          /\ rows'[id].seen = rows[id].seen
    /\ Committed \subseteq Committed'

LEMMA AmongContinues ==
    ASSUME Continues, NEW ids \in SUBSET DOMAIN rows, NEW t
    PROVE  Among(rows', ids, t) = Among(rows, ids, t)
  BY DEF Continues, Among

\* An append that goes on, or waits, keeps what it saw and what it chose.
LEMMA ViewContinues ==
    ASSUME TypeOK, Held, Continues, NEW w \in Writers,
           pc[w] \in {"lock", "insert", "commit"},
           UNCHANGED <<tenant[w], last[w], seen[w]>>
    PROVE  /\ seen'[w] \subseteq Committed'
           /\ last'[w] = LastOf(Among(rows', seen'[w], tenant'[w]))
<1>1. seen[w] \subseteq Committed /\ seen[w] \subseteq DOMAIN rows
  BY RowTypes DEF Held
<1>2. Among(rows', seen[w], tenant[w]) = Among(rows, seen[w], tenant[w])
  BY <1>1, AmongContinues
<1> QED BY <1>1, <1>2 DEF Held, Continues

\* So does a row that was there.
LEMMA RowContinues ==
    ASSUME TypeOK, Held, Linked, Continues, NEW id \in DOMAIN rows
    PROVE  /\ rows'[id].seen \subseteq Committed'
           /\ \A other \in rows'[id].seen : other < id
           /\ rows'[id].prev =
                 LastOf(Among(rows', rows'[id].seen, rows'[id].tenant))
<1>1. rows[id].seen \subseteq Committed /\ rows[id].seen \subseteq DOMAIN rows
  BY RowTypes DEF Linked
<1>2. Among(rows', rows[id].seen, rows[id].tenant)
      = Among(rows, rows[id].seen, rows[id].tenant)
  BY <1>1, AmongContinues
<1> QED BY <1>1, <1>2 DEF Linked, Continues

LEMMA InitEstablishes == Init => IInv
<1> SUFFICES ASSUME Init PROVE IInv
  OBVIOUS
<1>1. rows = <<>> /\ rows \in Seq(RowRecords) /\ Len(rows) = 0
      /\ DOMAIN rows = {}
  BY DEF Init
<1>2. TypeOK
  BY <1>1, ChainAssumption DEF Init, TypeOK, RowRecords, Viewers
<1> QED BY <1>1, <1>2, ChainAssumption DEF Init, IInv, Held, Linked

LEMMA BeginKeeps ==
    ASSUME IInv, NEW w \in Writers, Begin(w)
    PROVE  IInv'
<1>1. TypeOK /\ Held /\ Linked
  BY DEF IInv
<1>2. TypeOK'
  BY <1>1 DEF Begin, TypeOK
<1>3. Committed' = Committed
  BY DEF Begin, Committed
<1>4. Held'
  BY <1>1, <1>3 DEF Begin, Held, TypeOK
<1>5. Linked'
  BY <1>1, <1>3 DEF Begin, Linked
<1> QED BY <1>2, <1>4, <1>5 DEF IInv

LEMMA SelectKeeps ==
    ASSUME IInv, NEW w \in Writers, SelectLast(w)
    PROVE  IInv'
<1> DEFINE id == LastOf(VisibleTo(tenant[w]))
<1>1. TypeOK /\ Held /\ Linked
  BY DEF IInv
<1>2. Committed \in SUBSET Ids /\ VisibleTo(tenant[w]) \in SUBSET Ids
  BY <1>1, RowTypes DEF VisibleTo
<1>3. id \in 0 .. MaxRows
  BY <1>2, LastOfType
<1>4. VisibleTo(tenant[w]) = Among(rows, Committed, tenant[w])
  BY DEF VisibleTo, Among
<1>5. /\ last' = [last EXCEPT ![w] = id]
      /\ pc' = [pc EXCEPT ![w] = IF id = 0 THEN "insert" ELSE "lock"]
      /\ seen' = [seen EXCEPT ![w] = Committed]
      /\ UNCHANGED <<rows, tenant, own>>
      /\ pc[w] = "select"
  BY DEF SelectLast
<1>6. id = LastOf(Among(rows, Committed, tenant[w]))
  BY <1>4
<1> HIDE DEF id
<1>7. TypeOK'
  BY <1>1, <1>2, <1>3, <1>5 DEF TypeOK
<1>8. Committed' = Committed
  BY <1>5 DEF Committed
<1>9. Held'
  <2>1. ASSUME NEW v \in Writers, pc'[v] \in {"lock", "insert", "commit"}
        PROVE  /\ seen'[v] \subseteq Committed
               /\ last'[v] = LastOf(Among(rows, seen'[v], tenant[v]))
    <3>1. CASE v = w
      BY <1>1, <1>5, <1>6, <3>1 DEF TypeOK
    <3>2. CASE v # w
      BY <1>1, <1>5, <2>1, <3>2 DEF TypeOK, Held
    <3> QED BY <3>1, <3>2
  <2> QED BY <1>1, <1>5, <1>8, <2>1 DEF Held
<1>10. Linked'
  BY <1>1, <1>5, <1>8 DEF Linked
<1> QED BY <1>7, <1>9, <1>10 DEF IInv

LEMMA LockKeeps ==
    ASSUME IInv, NEW w \in Writers, Lock(w)
    PROVE  IInv'
<1>1. TypeOK /\ Held /\ Linked
  BY DEF IInv
<1>2. TypeOK'
  BY <1>1 DEF Lock, TypeOK
<1>3. Committed' = Committed
  BY DEF Lock, Committed
<1>4. Held'
  BY <1>1, <1>3 DEF Lock, Held, TypeOK
<1>5. Linked'
  BY <1>1, <1>3 DEF Lock, Linked
<1> QED BY <1>2, <1>4, <1>5 DEF IInv

LEMMA InsertKeeps ==
    ASSUME IInv, NEW w \in Writers, Insert(w)
    PROVE  IInv'
<1> DEFINE new == Len(rows) + 1
<1>1. TypeOK /\ Held /\ Linked
  BY DEF IInv
<1>2. /\ rows' \in Seq(RowRecords) /\ Len(rows') = new
      /\ DOMAIN rows' = DOMAIN rows \cup {new}
      /\ \A id \in DOMAIN rows : rows'[id] = rows[id]
      /\ rows'[new] = [tenant |-> tenant[w], prev |-> last[w],
                       seen |-> seen[w], state |-> "open"]
  BY <1>1, InsertRows
<1>3. /\ Len(rows) \in Nat /\ DOMAIN rows = 1 .. Len(rows)
      /\ DOMAIN rows \subseteq Ids /\ Committed \subseteq DOMAIN rows
  BY <1>1, RowTypes
<1>4. /\ pc[w] = "insert" /\ Len(rows) < MaxRows
      /\ own' = [own EXCEPT ![w] = new]
      /\ pc' = [pc EXCEPT ![w] = "commit"]
      /\ UNCHANGED <<tenant, last, seen>>
  BY DEF Insert
<1>5. /\ new \in 1 .. MaxRows /\ new \notin DOMAIN rows
      /\ \A id \in DOMAIN rows : id \in Nat /\ id < new
  BY <1>3, <1>4, ChainAssumption
<1> HIDE DEF new
<1>6. Committed' = Committed
  BY <1>2, <1>5 DEF Committed
<1>7. Continues
  BY <1>2, <1>6 DEF Continues
<1>8. TypeOK'
  <2>1. /\ rows' \in Seq([tenant : Viewers, prev : 0 .. MaxRows,
                          seen : SUBSET Ids, state : States])
    BY <1>2 DEF RowRecords
  <2>2. new \in 0 .. MaxRows /\ new # 0
    BY <1>5, ChainAssumption
  <2>3. /\ pc' \in [Writers -> {"idle", "select", "lock", "insert", "commit"}]
        /\ tenant' \in [Writers -> Viewers]
        /\ last' \in [Writers -> 0 .. MaxRows]
        /\ own' \in [Writers -> 0 .. MaxRows]
        /\ seen' \in [Writers -> SUBSET Ids]
    BY <1>1, <1>4, <2>2 DEF TypeOK
  <2>4. \A v \in Writers : own'[v] # 0 <=> pc'[v] = "commit"
    BY <1>1, <1>4, <2>2 DEF TypeOK
  <2>5. ASSUME NEW id \in DOMAIN rows'
        PROVE  rows'[id].state = "open" <=> \E v \in Writers : own'[v] = id
    <3>1. CASE id = new
      BY <1>1, <1>2, <1>4, <3>1 DEF TypeOK
    <3>2. CASE id \in DOMAIN rows
      <4>1. own[w] = 0 /\ id # 0 /\ id # new
        BY <1>1, <1>3, <1>4, <1>5, <3>2 DEF TypeOK
      <4> QED BY <1>1, <1>2, <1>4, <3>2, <4>1 DEF TypeOK
    <3> QED BY <1>2, <3>1, <3>2
  <2> QED BY <2>1, <2>3, <2>4, <2>5 DEF TypeOK
<1>9. Held'
  <2>1. Len(rows') <= MaxRows
    BY <1>2, <1>5, ChainAssumption
  <2>2. \A v \in Writers : own'[v] # 0 => own'[v] \in DOMAIN rows'
    BY <1>1, <1>2, <1>4 DEF Held, TypeOK
  <2>3. \A u, v \in Writers : own'[v] # 0 /\ own'[u] = own'[v] => u = v
    BY <1>1, <1>4, <1>5 DEF Held, TypeOK
  <2>4. ASSUME NEW v \in Writers, pc'[v] \in {"lock", "insert", "commit"}
        PROVE  /\ seen'[v] \subseteq Committed'
               /\ last'[v] = LastOf(Among(rows', seen'[v], tenant'[v]))
    <3>1. pc[v] \in {"lock", "insert", "commit"}
      BY <1>1, <1>4, <2>4 DEF TypeOK
    <3> QED BY <1>1, <1>4, <1>7, <3>1, ViewContinues
  <2> QED BY <2>1, <2>2, <2>3, <2>4 DEF Held
<1>10. Linked'
  <2>1. ASSUME NEW id \in DOMAIN rows'
        PROVE  /\ rows'[id].seen \subseteq Committed'
               /\ \A other \in rows'[id].seen : other < id
               /\ rows'[id].prev =
                     LastOf(Among(rows', rows'[id].seen, rows'[id].tenant))
    <3>1. CASE id \in DOMAIN rows
      BY <1>1, <1>7, <3>1, RowContinues
    <3>2. CASE id = new
      <4>1. /\ seen[w] \subseteq Committed'
            /\ last[w] = LastOf(Among(rows', seen[w], tenant[w]))
        BY <1>1, <1>4, <1>7, ViewContinues
      <4>2. \A other \in seen[w] : other < new
        BY <1>3, <1>5, <1>6, <4>1
      <4> QED BY <1>2, <3>2, <4>1, <4>2
    <3> QED BY <1>2, <3>1, <3>2
  <2> QED BY <2>1 DEF Linked
<1> QED BY <1>8, <1>9, <1>10 DEF IInv

\* A transaction ends: what is committed stays so, and the row it had
\* inserted is no longer open.
LEMMA EndKeeps ==
    ASSUME IInv, NEW w \in Writers, NEW state \in {"committed", "gone"},
           Settle(w, state), Leave(w)
    PROVE  IInv'
<1>1. TypeOK /\ Held /\ Linked
  BY DEF IInv
<1>2. /\ rows' \in Seq(RowRecords)
      /\ Len(rows') = Len(rows) /\ DOMAIN rows' = DOMAIN rows
      /\ \A id \in DOMAIN rows :
            /\ rows'[id].tenant = rows[id].tenant
            /\ rows'[id].prev = rows[id].prev
            /\ rows'[id].seen = rows[id].seen
            /\ rows'[id].state = IF id = own[w] THEN state ELSE rows[id].state
  BY <1>1, SettleRows DEF States
<1>3. /\ pc' = [pc EXCEPT ![w] = "idle"]
      /\ tenant' = [tenant EXCEPT ![w] = NoTenant]
      /\ last' = [last EXCEPT ![w] = 0]
      /\ own' = [own EXCEPT ![w] = 0]
      /\ seen' = [seen EXCEPT ![w] = {}]
  BY DEF Leave
<1>4. own[w] # 0 => rows[own[w]].state = "open"
  BY <1>1 DEF TypeOK, Held
<1>5. 0 \notin DOMAIN rows
  BY <1>1, RowTypes
<1>6. Continues
  BY <1>2, <1>4, <1>5 DEF Continues, Committed
<1>7. TypeOK'
  <2>1. /\ rows' \in Seq([tenant : Viewers, prev : 0 .. MaxRows,
                          seen : SUBSET Ids, state : States])
    BY <1>2 DEF RowRecords
  <2>2. /\ pc' \in [Writers -> {"idle", "select", "lock", "insert", "commit"}]
        /\ tenant' \in [Writers -> Viewers]
        /\ last' \in [Writers -> 0 .. MaxRows]
        /\ own' \in [Writers -> 0 .. MaxRows]
        /\ seen' \in [Writers -> SUBSET Ids]
    BY <1>1, <1>3, ChainAssumption DEF TypeOK, Viewers
  <2>3. \A v \in Writers : own'[v] # 0 <=> pc'[v] = "commit"
    BY <1>1, <1>3 DEF TypeOK
  <2>4. ASSUME NEW id \in DOMAIN rows'
        PROVE  rows'[id].state = "open" <=> \E v \in Writers : own'[v] = id
    <3>1. CASE id = own[w]
      BY <1>1, <1>2, <1>3, <1>5, <3>1 DEF TypeOK, Held
    <3>2. CASE id # own[w]
      BY <1>1, <1>2, <1>3, <1>5, <3>2 DEF TypeOK
    <3> QED BY <3>1, <3>2
  <2> QED BY <2>1, <2>2, <2>3, <2>4 DEF TypeOK
<1>8. Held'
  <2>1. Len(rows') <= MaxRows
    BY <1>1, <1>2 DEF Held
  <2>2. \A v \in Writers : own'[v] # 0 => own'[v] \in DOMAIN rows'
    BY <1>1, <1>2, <1>3 DEF Held, TypeOK
  <2>3. \A u, v \in Writers : own'[v] # 0 /\ own'[u] = own'[v] => u = v
    BY <1>1, <1>3 DEF Held, TypeOK
  <2>4. ASSUME NEW v \in Writers, pc'[v] \in {"lock", "insert", "commit"}
        PROVE  /\ seen'[v] \subseteq Committed'
               /\ last'[v] = LastOf(Among(rows', seen'[v], tenant'[v]))
    <3>1. /\ pc[v] \in {"lock", "insert", "commit"}
          /\ UNCHANGED <<tenant[v], last[v], seen[v]>>
      BY <1>1, <1>3, <2>4 DEF TypeOK
    <3> QED BY <1>1, <1>6, <3>1, ViewContinues
  <2> QED BY <2>1, <2>2, <2>3, <2>4 DEF Held
<1>9. Linked'
  BY <1>1, <1>2, <1>6, RowContinues DEF Linked
<1> QED BY <1>7, <1>8, <1>9 DEF IInv

LEMMA NextKeeps == IInv /\ [Next]_vars => IInv'
<1>1. SUFFICES ASSUME IInv, [Next]_vars PROVE IInv'
  OBVIOUS
<1>2. ASSUME NEW w \in Writers, Commit(w) \/ Rollback(w) PROVE IInv'
  BY <1>1, <1>2, EndKeeps DEF Commit, Rollback
<1>3. CASE UNCHANGED vars
  BY <1>1, <1>3 DEF vars, IInv, TypeOK, Held, Linked, Committed
<1> QED BY <1>1, <1>2, <1>3, BeginKeeps, SelectKeeps, LockKeeps, InsertKeeps
        DEF Next

THEOREM Invariance == Spec => []IInv
  BY InitEstablishes, NextKeeps, PTL DEF Spec

\* append: the open rows are those of the transactions that have inserted
\* one and not ended, each with one of its own.
THEOREM ChainWellTyped == Spec => []TypeOK
<1>1. IInv => TypeOK
  BY DEF IInv
<1> QED BY <1>1, Invariance, PTL

-----------------------------------------------------------------------------
(* verifyChain.                                                            *)

\* A row that saw, when it looked for the last one, the row that precedes
\* it names that row.
LEMMA SeenIsNamed ==
    ASSUME IInv, NEW t \in IF Bypass THEN Viewers ELSE Tenants,
           NEW id \in VisibleTo(t), Before(id, t) \in rows[id].seen
    PROVE  rows[id].prev = Before(id, t)
<1> DEFINE earlier == {other \in VisibleTo(t) : other < id}
           chosen == Among(rows, rows[id].seen, rows[id].tenant)
<1>1. TypeOK /\ Held /\ Linked
  BY DEF IInv
<1>2. /\ DOMAIN rows \subseteq Ids /\ Committed \subseteq DOMAIN rows
      /\ VisibleTo(t) \subseteq Committed /\ id \in DOMAIN rows
  BY <1>1, RowTypes DEF VisibleTo
<1>3. /\ rows[id].seen \subseteq Committed
      /\ \A other \in rows[id].seen : other < id
      /\ rows[id].prev = LastOf(chosen)
  BY <1>1, <1>2 DEF Linked
<1>4. earlier \in SUBSET Ids /\ chosen \in SUBSET Ids
  BY <1>2, <1>3 DEF Among
<1>5. earlier # {}
  <2>1. Before(id, t) # 0
    BY <1>2, <1>3, IdNumbers
  <2> QED BY <2>1 DEF Before, LastOf
<1>6. /\ Before(id, t) \in earlier
      /\ \A other \in earlier : other <= Before(id, t)
  BY <1>4, <1>5, LastOfBounded DEF Before
<1>7. \A other \in rows[id].seen : other \in chosen <=> other \in earlier
  BY <1>2, <1>3, ChainAssumption DEF Among, VisibleTo
<1>8. Before(id, t) \in chosen /\ \A other \in chosen : other <= Before(id, t)
  BY <1>6, <1>7 DEF Among
<1>9. LastOf(chosen) = Before(id, t)
  BY <1>4, <1>8, LastOfUnique
<1> QED BY <1>3, <1>9

\* verifyChain: however the appends of however many connections interleave,
\* wait for each other, fail and roll back, a link is reported as broken
\* only where two appends of the tenant overlapped.
THEOREM BrokenOnlyWhereOverlapping == Spec => []BrokenOnlyByOverlap
<1>1. IInv => BrokenOnlyByOverlap
  BY SeenIsNamed DEF BrokenOnlyByOverlap, BrokenLinks
<1> QED BY <1>1, Invariance, PTL

-----------------------------------------------------------------------------
(* One append after the other.                                             *)

OneWriter == \A v, w \in Writers : v = w

\* What an append saw is all there is, the open row is the last one, and
\* every row has seen all the rows before it that were ever committed.
Abreast ==
    /\ \A w \in Writers : pc[w] \in {"lock", "insert", "commit"} =>
          seen[w] = Committed
    /\ \A w \in Writers : own[w] # 0 => own[w] = Len(rows)
    /\ \A id \in DOMAIN rows : \A other \in Committed :
          other < id => other \in rows[id].seen

LEMMA AbreastKeeps ==
    ASSUME OneWriter, IInv, Abreast, [Next]_vars
    PROVE  Abreast'
<1>1. TypeOK /\ Held /\ Linked
  BY DEF IInv
<1>2. /\ Len(rows) \in Nat /\ DOMAIN rows = 1 .. Len(rows)
      /\ Committed \subseteq DOMAIN rows
  BY <1>1, RowTypes
<1>3. ASSUME NEW w \in Writers, Begin(w) \/ SelectLast(w) \/ Lock(w)
      PROVE  Abreast'
  <2>1. UNCHANGED <<rows, own>>
    BY <1>3 DEF Begin, SelectLast, Lock
  <2>2. Committed' = Committed
    BY <2>1 DEF Committed
  <2>3. \A v \in Writers : pc'[v] \in {"lock", "insert", "commit"} =>
           seen'[v] = Committed
    BY <1>1, <1>3
    DEF Begin, SelectLast, Lock, OneWriter, Abreast, TypeOK
  <2> QED BY <2>1, <2>2, <2>3 DEF Abreast
<1>4. ASSUME NEW w \in Writers, Insert(w)
      PROVE  Abreast'
  <2> DEFINE new == Len(rows) + 1
  <2>1. /\ Len(rows') = new /\ DOMAIN rows' = DOMAIN rows \cup {new}
        /\ \A id \in DOMAIN rows : rows'[id] = rows[id]
        /\ rows'[new] = [tenant |-> tenant[w], prev |-> last[w],
                         seen |-> seen[w], state |-> "open"]
    BY <1>1, <1>4, InsertRows
  <2>2. new \notin DOMAIN rows
    BY <1>2
  <2> HIDE DEF new
  <2>3. Committed' = Committed
    BY <2>1, <2>2 DEF Committed
  <2>4. seen[w] = Committed /\ UNCHANGED seen
    BY <1>4 DEF Insert, Abreast
  <2>5. own' = [own EXCEPT ![w] = new]
    BY <1>4 DEF Insert, new
  <2>6. \A v \in Writers : own'[v] # 0 => own'[v] = Len(rows')
    BY <1>1, <2>1, <2>5 DEF OneWriter, TypeOK
  <2>7. \A v \in Writers : seen'[v] = Committed'
    BY <2>3, <2>4 DEF OneWriter
  <2>8. \A id \in DOMAIN rows' : \A other \in Committed' :
           other < id => other \in rows'[id].seen
    BY <2>1, <2>3, <2>4 DEF Abreast
  <2> QED BY <2>6, <2>7, <2>8 DEF Abreast
<1>5. ASSUME NEW w \in Writers, Commit(w) \/ Rollback(w)
      PROVE  Abreast'
  <2>1. PICK state \in {"committed", "gone"} : Settle(w, state) /\ Leave(w)
    BY <1>5 DEF Commit, Rollback
  <2>2. /\ Len(rows') = Len(rows) /\ DOMAIN rows' = DOMAIN rows
        /\ \A id \in DOMAIN rows :
              /\ rows'[id].seen = rows[id].seen
              /\ rows'[id].state = IF id = own[w] THEN state
                                   ELSE rows[id].state
    BY <1>1, <2>1, SettleRows DEF States
  <2>3. \A other \in Committed' : other \in Committed \/ other = Len(rows)
    <3>1. ASSUME NEW other \in Committed', other # own[w]
          PROVE  other \in Committed
      BY <2>2, <3>1 DEF Committed
    <3>2. ASSUME NEW other \in Committed', other = own[w]
          PROVE  other = Len(rows)
      <4>1. other # 0
        BY <1>2, <2>2, <3>2 DEF Committed
      <4> QED BY <3>2, <4>1 DEF Abreast
    <3> QED BY <3>1, <3>2
  <2>4. \A id \in DOMAIN rows' : \A other \in Committed' :
           other < id => other \in rows'[id].seen
    BY <1>2, <2>2, <2>3 DEF Abreast
  <2>5. \A v \in Writers : pc'[v] = "idle" /\ own'[v] = 0
    BY <1>1, <2>1 DEF Leave, OneWriter, TypeOK
  <2> QED BY <2>4, <2>5 DEF Abreast
<1>6. CASE UNCHANGED vars
  BY <1>6 DEF vars, Abreast, Committed
<1> QED BY <1>3, <1>4, <1>5, <1>6 DEF Next

\* append: while no two appends overlap, every link of every tenant is
\* intact, whichever appends failed and rolled back.
THEOREM IntactWithoutOverlap ==
    ASSUME OneWriter
    PROVE  Spec => [](\A t \in IF Bypass THEN Viewers ELSE Tenants :
                         BrokenLinks(t) = {})
<1>1. Init => Abreast
  BY DEF Init, Abreast, Committed
<1>2. ASSUME IInv, Abreast, NEW t \in IF Bypass THEN Viewers ELSE Tenants,
             NEW id \in VisibleTo(t)
      PROVE  rows[id].prev = Before(id, t)
  <2> DEFINE earlier == {other \in VisibleTo(t) : other < id}
             chosen == Among(rows, rows[id].seen, rows[id].tenant)
  <2>1. TypeOK /\ Held /\ Linked
    BY <1>2 DEF IInv
  <2>2. /\ DOMAIN rows \subseteq Ids /\ Committed \subseteq DOMAIN rows
        /\ VisibleTo(t) \subseteq Committed /\ id \in DOMAIN rows
    BY <2>1, RowTypes DEF VisibleTo
  <2>3. CASE earlier = {}
    <3>1. /\ rows[id].seen \subseteq Committed
          /\ \A other \in rows[id].seen : other < id
          /\ rows[id].prev = LastOf(chosen)
      BY <2>1, <2>2 DEF Linked
    <3>2. ASSUME NEW other \in chosen PROVE other \in earlier
      BY <2>2, <3>1, ChainAssumption DEF Among, VisibleTo
    <3>3. chosen = earlier
      BY <2>3, <3>2
    <3> QED BY <3>1, <3>3 DEF Before
  <2>4. CASE earlier # {}
    <3>1. earlier \in SUBSET Ids
      BY <2>2
    <3>2. Before(id, t) \in earlier
      BY <2>4, <3>1, LastOfBounded DEF Before
    <3>3. Before(id, t) \in rows[id].seen
      BY <1>2, <2>2, <3>2 DEF Abreast
    <3> QED BY <1>2, <3>3, SeenIsNamed
  <2> QED BY <2>3, <2>4
<1>3. IInv /\ Abreast =>
        \A t \in IF Bypass THEN Viewers ELSE Tenants : BrokenLinks(t) = {}
  BY <1>2 DEF BrokenLinks
<1> QED BY <1>1, <1>3, AbreastKeeps, Invariance, PTL DEF Spec
=============================================================================
