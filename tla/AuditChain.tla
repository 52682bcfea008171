----------------------------- MODULE AuditChain -----------------------------
(***************************************************************************)
(* The audit log in Postgres (mcp/core/audit/audit-writer.ts), whose rows  *)
(* name the hash of the row before them, and the check of this chain       *)
(* (verifyChain in hash-chain.ts).                                         *)
(*                                                                         *)
(* An append is a transaction: it selects the last row for update, inserts *)
(* its own, which names the hash of the row it selected, and commits.      *)
(* Postgres is modelled from outside, at its default isolation: a SELECT   *)
(* sees the rows that are committed when it begins; when it has to wait    *)
(* for the lock of the row it chose it takes that row afterwards and does  *)
(* not look for a later one; ids are drawn in the order of the inserts and *)
(* never given back.  Row level security shows a transaction of a tenant   *)
(* the rows of that tenant, one without a tenant all rows, and a role that *)
(* bypasses it all rows always.                                            *)
(*                                                                         *)
(* The hash of a row stands for the row, so a row names another by its id. *)
(* A tombstone clears the payload and leaves both hashes: it changes       *)
(* nothing here.                                                           *)
(***************************************************************************)
EXTENDS Naturals, Sequences, FiniteSets

CONSTANTS Writers,    \* the connections that append, one entry at a time
          Tenants,    \* the tenants
          NoTenant,   \* no tenant is set
          Bypass,     \* the database role bypasses row level security
          MaxRows     \* bound: rows ever inserted

ASSUME ChainAssumption ==
    /\ NoTenant \notin Tenants
    /\ Bypass \in BOOLEAN
    /\ MaxRows \in Nat

VARIABLES rows,    \* rows[id]: the row with that id
          pc,      \* pc[w]: where the append of w is
          tenant,  \* tenant[w]: the tenant of the append of w
          last,    \* last[w]: the row that its SELECT chose, 0 for none
          own,     \* own[w]: the row it has inserted, 0 for none
          seen     \* history: seen[w], what was committed at its SELECT

vars == <<rows, pc, tenant, last, own, seen>>

Viewers == Tenants \cup {NoTenant}
Ids == 1 .. MaxRows
States == {"open", "committed", "gone"}

Init ==
    /\ rows = <<>>
    /\ pc = [w \in Writers |-> "idle"]
    /\ tenant = [w \in Writers |-> NoTenant]
    /\ last = [w \in Writers |-> 0]
    /\ own = [w \in Writers |-> 0]
    /\ seen = [w \in Writers |-> {}]

Committed == {id \in DOMAIN rows : rows[id].state = "committed"}

\* ensureTenantRlsPolicy
VisibleTo(t) ==
    {id \in Committed : Bypass \/ t = NoTenant \/ rows[id].tenant = t}

LastOf(ids) ==
    IF ids = {} THEN 0 ELSE CHOOSE id \in ids : \A other \in ids : other <= id

-----------------------------------------------------------------------------
(* append                                                                  *)

Begin(w) ==
    /\ pc[w] = "idle"
    /\ pc' = [pc EXCEPT ![w] = "select"]
    /\ \E t \in Viewers : tenant' = [tenant EXCEPT ![w] = t]
    /\ UNCHANGED <<rows, last, own, seen>>

\* Faulty variant: the tenant is set after the SELECT.
SelectLastOfAll(w) ==
    /\ pc[w] = "select"
    /\ LET id == LastOf(Committed)
       IN  /\ last' = [last EXCEPT ![w] = id]
           /\ pc' = [pc EXCEPT ![w] = IF id = 0 THEN "insert" ELSE "lock"]
    /\ seen' = [seen EXCEPT ![w] = Committed]
    /\ UNCHANGED <<rows, tenant, own>>

\* SELECT ... ORDER BY id DESC LIMIT 1 FOR UPDATE, up to the lock.
SelectLast(w) ==
    /\ pc[w] = "select"
    /\ LET id == LastOf(VisibleTo(tenant[w]))
       IN  /\ last' = [last EXCEPT ![w] = id]
           /\ pc' = [pc EXCEPT ![w] = IF id = 0 THEN "insert" ELSE "lock"]
    /\ seen' = [seen EXCEPT ![w] = Committed]
    /\ UNCHANGED <<rows, tenant, own>>

\* A transaction that has selected a row keeps its lock until it ends.
Locked(id) == \E w \in Writers : pc[w] \in {"insert", "commit"} /\ last[w] = id

\* The lock is free, at once or when its holder has ended.
Lock(w) ==
    /\ pc[w] = "lock"
    /\ ~Locked(last[w])
    /\ pc' = [pc EXCEPT ![w] = "insert"]
    /\ UNCHANGED <<rows, tenant, last, own, seen>>

Insert(w) ==
    /\ pc[w] = "insert" /\ Len(rows) < MaxRows
    /\ rows' = Append(rows, [tenant |-> tenant[w], prev |-> last[w],
                             seen |-> seen[w], state |-> "open"])
    /\ own' = [own EXCEPT ![w] = Len(rows) + 1]
    /\ pc' = [pc EXCEPT ![w] = "commit"]
    /\ UNCHANGED <<tenant, last, seen>>

\* Faulty variant: the row of a transaction that failed stays open.
SettleCommittedOnly(w, state) ==
    rows' = IF own[w] = 0 \/ state # "committed" THEN rows
            ELSE [rows EXCEPT ![own[w]].state = state]

\* The row of w, if it has inserted one, is committed or gone.
Settle(w, state) ==
    rows' = IF own[w] = 0 THEN rows ELSE [rows EXCEPT ![own[w]].state = state]

\* The connection goes back to the pool, its tenant is reset.
Leave(w) ==
    /\ pc' = [pc EXCEPT ![w] = "idle"]
    /\ tenant' = [tenant EXCEPT ![w] = NoTenant]
    /\ last' = [last EXCEPT ![w] = 0]
    /\ own' = [own EXCEPT ![w] = 0]
    /\ seen' = [seen EXCEPT ![w] = {}]

Commit(w) ==
    /\ pc[w] = "commit"
    /\ Settle(w, "committed") /\ Leave(w)

\* A query fails, or the connection is lost: ROLLBACK.
Rollback(w) ==
    /\ pc[w] # "idle"
    /\ Settle(w, "gone") /\ Leave(w)

Next ==
    \E w \in Writers :
        \/ Begin(w) \/ SelectLast(w) \/ Lock(w) \/ Insert(w)
        \/ Commit(w) \/ Rollback(w)

Spec == Init /\ [][Next]_vars

-----------------------------------------------------------------------------
(* verifyChain, for whom the rows are visible.                             *)

\* The row that comes before a row in the order of the ids.
Before(id, t) == LastOf({other \in VisibleTo(t) : other < id})

BrokenLinks(t) == {id \in VisibleTo(t) : rows[id].prev # Before(id, t)}

-----------------------------------------------------------------------------
(* Properties.                                                             *)

\* The open rows are those of the transactions that have inserted one and
\* not ended, each with one of its own.
TypeOK ==
    /\ rows \in Seq([tenant : Viewers, prev : 0 .. MaxRows,
                     seen : SUBSET Ids, state : States])
    /\ pc \in [Writers -> {"idle", "select", "lock", "insert", "commit"}]
    /\ tenant \in [Writers -> Viewers]
    /\ last \in [Writers -> 0 .. MaxRows]
    /\ own \in [Writers -> 0 .. MaxRows]
    /\ seen \in [Writers -> SUBSET Ids]
    /\ \A w \in Writers : own[w] # 0 <=> pc[w] = "commit"
    /\ \A id \in DOMAIN rows :
          rows[id].state = "open" <=> \E w \in Writers : own[w] = id

\* verifyChain, called for a tenant, reports a row only where the row before
\* it was not committed yet when the append of the row looked for the last
\* one: appends that do not overlap leave an intact chain for each tenant,
\* whichever of them were rolled back.
BrokenOnlyByOverlap ==
    \A t \in IF Bypass THEN Viewers ELSE Tenants :
        \A id \in BrokenLinks(t) : Before(id, t) \notin rows[id].seen
=============================================================================
