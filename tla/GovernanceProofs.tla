-------------------------- MODULE GovernanceProofs --------------------------
(***************************************************************************)
(* Proofs about the governed tool calls, for any callers, budget, number   *)
(* of retries and number of faults, and about the list of disabled tools,  *)
(* for any instances, tools and editors.                                   *)
(***************************************************************************)
EXTENDS GovernedTool, DisabledTools, FiniteSetTheorems, TLAPS

-----------------------------------------------------------------------------
(* The governed calls.                                                     *)

\* A row has been dealt with whose line has not yet.
Pending(place) == IF place \in {"append", "write"} THEN 1 ELSE 0

\* The tool may have returned without a failed append after it.
Returned(place, status) ==
    IF status = "success" /\ place \in {"record", "append", "write", "idle"}
    THEN 1 ELSE 0

\* What a call has written when it is at a place of the handler.
Balanced(place, how, status, units, a) ==
    /\ a.lines \in {0, 1}
    /\ place \notin {"idle", "fail", "report"} => a.lines = 0
    /\ place \in {"fail", "report"} => a.lines = 1 /\ status = "error"
    /\ place # "idle" => how = "none"
    /\ how \in {"succeeded", "failed"} => a.lines = 1 /\ status # "blocked"
    /\ how = "refused" => a.lines = 0 \/ status = "blocked"
    /\ how = "threw" => a.lines = 0
    /\ place \in {"record", "append", "write"} =>
          status # "none" /\ (status = "blocked" => units = 0)
    /\ a.rows + a.missed = a.lines + a.failed + Pending(place)
    /\ a.returned <= a.failed + Returned(place, status)

Charges ==
    \A c \in Callers : Balanced(pc[c], outcome[c], entry[c], usage[c], account[c])

\* lost bounds the charges that are missing from the file.
Covered == spent <= ledger + lost

IInv == TypeOK /\ Charges /\ Covered /\ OvershootBounded

-----------------------------------------------------------------------------
(* How a step changes the set of calls in flight.                          *)

Flying(place, status) ==
    \/ place \in {"config", "run", "backoff"}
    \/ place \in {"record", "append", "write"} /\ status # "blocked"

\* One call goes to another place.
LEMMA Moves ==
    ASSUME TypeOK, NEW c \in Callers, NEW place \in Places,
           pc' = [pc EXCEPT ![c] = place],
           entry' \in [Callers -> Statuses],
           \A d \in Callers \ {c} : entry'[d] = entry[d]
    PROVE  /\ pc' \in [Callers -> Places] /\ pc'[c] = place
           /\ \A d \in Callers \ {c} : pc'[d] = pc[d]
           /\ Flying(place, entry'[c]) => InFlight' = InFlight \cup {c}
           /\ ~Flying(place, entry'[c]) => InFlight' = InFlight \ {c}
  BY DEF TypeOK, InFlight, Flying

LEMMA Counts ==
    ASSUME NEW c \in Callers
    PROVE  /\ Cardinality(Callers) \in Nat
           /\ Cardinality(InFlight) \in Nat
           /\ Cardinality(InFlight \cup {c}) \in Nat
           /\ Cardinality(InFlight \cup {c}) <= Cardinality(Callers)
           /\ Cardinality(InFlight \cup {c}) <= Cardinality(InFlight) + 1
           /\ Cardinality(InFlight \ {c}) \in Nat
           /\ Cardinality(InFlight \ {c}) <= Cardinality(InFlight)
           /\ c \in InFlight =>
                Cardinality(InFlight \ {c}) = Cardinality(InFlight) - 1
<1>1. IsFiniteSet(Callers)
  BY GovernedAssumption
<1>2. InFlight \subseteq Callers /\ InFlight \cup {c} \subseteq Callers
  BY DEF InFlight
<1>3. IsFiniteSet(InFlight) /\ IsFiniteSet(InFlight \cup {c})
  BY <1>1, <1>2, FS_Subset
<1>4. /\ Cardinality(Callers) \in Nat /\ Cardinality(InFlight) \in Nat
      /\ Cardinality(InFlight \cup {c}) \in Nat
  BY <1>1, <1>3, FS_CardinalityType
<1>5. Cardinality(InFlight \cup {c}) <= Cardinality(Callers)
  BY <1>1, <1>2, FS_Subset
<1>6. Cardinality(InFlight \cup {c}) <= Cardinality(InFlight) + 1
  BY <1>3, <1>4, FS_AddElement
<1>7. /\ Cardinality(InFlight \ {c}) \in Nat
      /\ Cardinality(InFlight \ {c}) <= Cardinality(InFlight)
      /\ c \in InFlight =>
           Cardinality(InFlight \ {c}) = Cardinality(InFlight) - 1
  <2>1. IsFiniteSet(InFlight \ {c})
    BY <1>3, FS_RemoveElement
  <2>2. Cardinality(InFlight \ {c}) \in Nat
    BY <2>1, FS_CardinalityType
  <2>3. CASE c \in InFlight
    <3>1. Cardinality(InFlight \ {c}) = Cardinality(InFlight) - 1
      BY <1>3, <2>3, FS_RemoveElement
    <3> QED BY <1>4, <2>2, <3>1
  <2>4. CASE c \notin InFlight
    <3>1. InFlight \ {c} = InFlight
      BY <2>4
    <3> QED BY <1>4, <2>4, <3>1
  <2> QED BY <2>3, <2>4
<1> QED BY <1>4, <1>5, <1>6, <1>7

\* More calls in flight may cost more, by what one call costs at most.
LEMMA Costs ==
    /\ \A n \in Nat : /\ MaxCharge * n \in Nat
                      /\ MaxCharge * (n + 1) = MaxCharge * n + MaxCharge
    /\ \A m, n \in Nat : m <= n => MaxCharge * m <= MaxCharge * n
<1>1. MaxCharge \in Nat
  BY GovernedAssumption
<1>2. ASSUME NEW n \in Nat
      PROVE  /\ MaxCharge * n \in Nat
             /\ MaxCharge * (n + 1) = MaxCharge * n + MaxCharge
  BY <1>1
<1>3. ASSUME NEW m \in Nat, NEW n \in Nat, m <= n
      PROVE  MaxCharge * m <= MaxCharge * n
  <2>1. PICK d \in Nat : n = m + d
    <3>1. n - m \in Nat /\ n = m + (n - m)
      BY <1>3
    <3> QED BY <3>1
  <2>2. MaxCharge * n = MaxCharge * m + MaxCharge * d /\ MaxCharge * d \in Nat
        /\ MaxCharge * m \in Nat
    BY <1>1, <2>1
  <2> QED BY <2>2
<1> QED BY <1>2, <1>3

\* The bound, and what it is made of.
Owed == MaxCharge * Cardinality(InFlight)

Allowed == MaxCharge * (Cardinality(Callers) + faults)

LEMMA Bound ==
    /\ OvershootBounded <=> spent + Owed <= (Limit - 1) + Allowed + lost
    /\ OvershootBounded' <=> spent' + Owed' <= (Limit - 1) + Allowed' + lost'
  BY DEF OvershootBounded, Owed, Allowed

\* The arithmetic of the bound.
LEMMA Sums ==
    \A m, n \in Nat : /\ m + n \in Nat
                      /\ (m + n) + 1 = m + (n + 1)
                      /\ m <= m + n /\ n <= m + n
                      /\ m = n - 1 => n = m + 1
  OBVIOUS

LEMMA Within ==
    \A m, n, k \in Nat : m <= n => m <= n + k /\ (k = 0 => k + m <= n)
  OBVIOUS

LEMMA Slack ==
    \A s, o, p, l, a, b, t \in Nat :
        s + o <= (l - 1) + a + t /\ p <= o /\ a <= b
            => s + p <= (l - 1) + b + t
  OBVIOUS

\* The call that passes has left a unit in what it read.
LEMMA Room ==
    \A s, g, e, p, l, a, t \in Nat :
        s <= g + t /\ g + e <= l /\ e >= 1 /\ p <= a
            => s + p <= (l - 1) + a + t
  OBVIOUS

\* The call that passes has read nothing: a fault.
LEMMA Blind ==
    \A s, o, p, l, a, b, t, k \in Nat :
        s + o <= (l - 1) + a + t /\ p <= o + k /\ b = a + k
            => s + p <= (l - 1) + b + t
  OBVIOUS

\* A charge is made for what was owed.
LEMMA Paid ==
    \A s, u, o, p, l, a, t, v \in Nat :
        s + o <= (l - 1) + a + t /\ u + p <= o /\ t <= v
            => (s + u) + p <= (l - 1) + a + v
  OBVIOUS

\* A step that charges nothing and lets no further call through.
LEMMA QuietStep ==
    ASSUME IInv, NEW c \in Callers, UNCHANGED ledgerVars,
           InFlight' = InFlight \/ InFlight' = InFlight \ {c},
           faults' \in Nat, faults' >= faults
    PROVE  Covered' /\ OvershootBounded'
<1>1. /\ Cardinality(InFlight') \in Nat
      /\ Cardinality(InFlight') <= Cardinality(InFlight)
      /\ Cardinality(InFlight) \in Nat /\ Cardinality(Callers) \in Nat
  <2>1. /\ Cardinality(InFlight) \in Nat /\ Cardinality(Callers) \in Nat
        /\ Cardinality(InFlight \ {c}) \in Nat
        /\ Cardinality(InFlight \ {c}) <= Cardinality(InFlight)
    BY Counts
  <2>2. CASE InFlight' = InFlight
    BY <2>1, <2>2
  <2>3. CASE InFlight' = InFlight \ {c}
    BY <2>1, <2>3
  <2> QED BY <2>1, <2>2, <2>3
<1>2. /\ spent' = spent /\ lost' = lost /\ ledger' = ledger
      /\ spent \in Nat /\ lost \in Nat /\ faults \in Nat /\ Limit \in Nat
  BY GovernedAssumption DEF IInv, TypeOK, ledgerVars
<1>3. Owed' <= Owed /\ Owed \in Nat /\ Owed' \in Nat
  BY <1>1, Costs DEF Owed
<1>4. Allowed <= Allowed' /\ Allowed \in Nat /\ Allowed' \in Nat
  <2>1. /\ Cardinality(Callers) + faults \in Nat
        /\ Cardinality(Callers) + faults' \in Nat
        /\ Cardinality(Callers) + faults <= Cardinality(Callers) + faults'
    BY <1>1, <1>2
  <2> QED BY <2>1, Costs DEF Allowed
<1>5. spent + Owed <= (Limit - 1) + Allowed + lost
  BY Bound DEF IInv
<1>6. spent' + Owed' <= (Limit - 1) + Allowed' + lost'
  <2>1. spent + Owed' <= (Limit - 1) + Allowed' + lost
    BY <1>2, <1>3, <1>4, <1>5, Slack, Zenon
  <2> QED BY <1>2, <2>1
<1>7. Covered'
  BY <1>2 DEF IInv, Covered
<1> QED BY <1>6, <1>7, Bound

-----------------------------------------------------------------------------
(* The steps.                                                              *)

LEMMA InitEstablishes == Init => IInv
<1> SUFFICES ASSUME Init PROVE IInv
  OBVIOUS
<1>1. TypeOK
  <2>1. 0 \in 0..MaxRetries /\ 0 \in 0..Threshold /\ 0 \in 0..MaxCalls
        /\ 0 \in 0..MaxFaults /\ 0 \in 0..MaxCharge
    BY GovernedAssumption
  <2>2. /\ "idle" \in Places /\ "none" \in Statuses /\ "none" \in Outcomes
        /\ 0 \in Nat /\ NoAccount \in Accounts
    BY DEF Places, Statuses, Outcomes, NoAccount, Accounts
  <2> QED BY <2>1, <2>2 DEF Init, TypeOK
<1>2. Charges /\ Covered
  BY DEF Init, Charges, Balanced, Pending, Returned, NoAccount, Covered
<1>3. OvershootBounded
  <2>1. InFlight = {}
    BY DEF Init, InFlight
  <2>2. Cardinality(InFlight) = 0
    BY <2>1, FS_EmptySet
  <2>3. Cardinality(Callers) \in Nat /\ Cardinality(Callers) >= 1
    BY GovernedAssumption, FS_CardinalityType, FS_EmptySet
  <2>4. MaxCharge * 1 <= MaxCharge * Cardinality(Callers)
        /\ MaxCharge * Cardinality(Callers) \in Nat
    BY <2>3, Costs
  <2>5. Owed = 0 /\ Allowed \in Nat /\ Allowed >= 1
    BY <2>2, <2>3, <2>4, GovernedAssumption DEF Init, Owed, Allowed
  <2>6. spent = 0 /\ lost = 0 /\ Limit \in Nat
    BY GovernedAssumption DEF Init
  <2> QED BY <2>5, <2>6, Bound
<1> QED BY <1>1, <1>2, <1>3 DEF IInv

\* The types, once more, as the steps below use them.
LEMMA Types ==
    ASSUME IInv
    PROVE  /\ pc \in [Callers -> Places] /\ entry \in [Callers -> Statuses]
           /\ attempt \in [Callers -> 0..MaxRetries]
           /\ usage \in [Callers -> 0..MaxCharge]
           /\ read \in [Callers -> Nat] /\ account \in [Callers -> Accounts]
           /\ outcome \in [Callers -> Outcomes]
           /\ ledger \in Nat /\ spent \in Nat /\ lost \in Nat
           /\ failures \in 0..Threshold /\ cooling \in BOOLEAN
           /\ made \in 0..MaxCalls /\ faults \in 0..MaxFaults /\ faults \in Nat
           /\ MaxCalls \in Nat /\ MaxFaults \in Nat /\ MaxRetries \in Nat
           /\ Threshold \in Nat \ {0} /\ Limit \in Nat
           /\ MaxCharge \in Nat \ {0}
  BY GovernedAssumption DEF IInv, TypeOK

\* What a fault does to the bound on faults.
LEMMA Faulted ==
    ASSUME IInv, Fault \/ UNCHANGED faults
    PROVE  faults' \in 0..MaxFaults /\ faults' \in Nat /\ faults' >= faults
  BY Types DEF Fault

\* What a step adds to the account of a call.
Adds(c, rows, missed, lines, failed, returned) ==
    /\ account' \in [Callers -> Accounts]
    /\ \A d \in Callers \ {c} : account'[d] = account[d]
    /\ account'[c].rows = account[c].rows + rows
    /\ account'[c].missed = account[c].missed + missed
    /\ account'[c].lines = account[c].lines + lines
    /\ account'[c].failed = account[c].failed + failed
    /\ account'[c].returned = account[c].returned + returned

Counters(a) ==
    /\ a.rows \in Nat /\ a.missed \in Nat /\ a.lines \in Nat
    /\ a.failed \in Nat /\ a.returned \in Nat

LEMMA CountersAreNat == \A a \in Accounts : Counters(a)
  BY DEF Accounts, Counters

LEMMA Added ==
    ASSUME IInv, NEW c \in Callers
    PROVE  /\ account' = [account EXCEPT ![c].rows = @ + 1] => Adds(c, 1, 0, 0, 0, 0)
           /\ account' = [account EXCEPT ![c].missed = @ + 1] => Adds(c, 0, 1, 0, 0, 0)
           /\ account' = [account EXCEPT ![c].lines = @ + 1] => Adds(c, 0, 0, 1, 0, 0)
           /\ account' = [account EXCEPT ![c].failed = @ + 1] => Adds(c, 0, 0, 0, 1, 0)
           /\ account' = [account EXCEPT ![c].returned = @ + 1] => Adds(c, 0, 0, 0, 0, 1)
           /\ account' = account => Adds(c, 0, 0, 0, 0, 0)
<1>1. account \in [Callers -> Accounts] /\ account[c] \in Accounts
  BY Types
<1>2. /\ account[c].rows \in Nat /\ account[c].missed \in Nat
      /\ account[c].lines \in Nat /\ account[c].failed \in Nat
      /\ account[c].returned \in Nat
  BY <1>1 DEF Accounts
<1>3. account' = [account EXCEPT ![c].rows = @ + 1] => Adds(c, 1, 0, 0, 0, 0)
  BY <1>1, <1>2 DEF Adds, Accounts
<1>4. account' = [account EXCEPT ![c].missed = @ + 1] => Adds(c, 0, 1, 0, 0, 0)
  BY <1>1, <1>2 DEF Adds, Accounts
<1>5. account' = [account EXCEPT ![c].lines = @ + 1] => Adds(c, 0, 0, 1, 0, 0)
  BY <1>1, <1>2 DEF Adds, Accounts
<1>6. account' = [account EXCEPT ![c].failed = @ + 1] => Adds(c, 0, 0, 0, 1, 0)
  BY <1>1, <1>2 DEF Adds, Accounts
<1>7. account' = [account EXCEPT ![c].returned = @ + 1] => Adds(c, 0, 0, 0, 0, 1)
  BY <1>1, <1>2 DEF Adds, Accounts
<1>8. account' = account => Adds(c, 0, 0, 0, 0, 0)
  BY <1>1, <1>2 DEF Adds
<1> QED BY <1>3, <1>4, <1>5, <1>6, <1>7, <1>8

\* A caller goes to a place; its own entry, outcome and account may change.
OneMoves(c, place) ==
    /\ pc' = [pc EXCEPT ![c] = place]
    /\ entry' \in [Callers -> Statuses]
    /\ attempt' \in [Callers -> 0..MaxRetries]
    /\ usage' \in [Callers -> 0..MaxCharge]
    /\ read' \in [Callers -> Nat]
    /\ account' \in [Callers -> Accounts]
    /\ outcome' \in [Callers -> Outcomes]
    /\ \A d \in Callers \ {c} :
          /\ entry'[d] = entry[d] /\ usage'[d] = usage[d]
          /\ account'[d] = account[d]
          /\ outcome'[d] = outcome[d]
    /\ failures' \in 0..Threshold /\ cooling' \in BOOLEAN
    /\ made' \in 0..MaxCalls

\* What Charges asks of the caller that moves.
ChargedAt(c, place) == Balanced(place, outcome'[c], entry'[c], usage'[c], account'[c])

\* What a caller that is at a place has written so far.
LEMMA At ==
    ASSUME IInv, NEW c \in Callers, NEW place, pc[c] = place
    PROVE  /\ Balanced(place, outcome[c], entry[c], usage[c], account[c])
           /\ Counters(account[c])
  BY Types, CountersAreNat DEF IInv, Charges

LEMMA LocalPart ==
    ASSUME IInv, NEW c \in Callers, NEW place \in Places,
           OneMoves(c, place), ChargedAt(c, place),
           ledger' \in Nat, spent' \in Nat, lost' \in Nat,
           Fault \/ UNCHANGED faults
    PROVE  TypeOK' /\ Charges'
<1>1. /\ pc' \in [Callers -> Places] /\ pc'[c] = place
      /\ \A d \in Callers \ {c} : pc'[d] = pc[d]
  BY Types DEF OneMoves
<1>2. TypeOK'
  BY <1>1, Faulted DEF OneMoves, TypeOK
<1>3. Charges'
  <2>1. SUFFICES ASSUME NEW d \in Callers, d # c
                 PROVE  /\ account'[d] = account[d] /\ pc'[d] = pc[d]
                        /\ outcome'[d] = outcome[d] /\ entry'[d] = entry[d]
                        /\ usage'[d] = usage[d]
    BY <1>1 DEF Charges, ChargedAt, IInv
  <2> QED BY <1>1, <2>1 DEF OneMoves
<1> QED BY <1>2, <1>3

\* A step of a caller that charges nothing and is not let through by it.
LEMMA QuietMove ==
    ASSUME IInv, NEW c \in Callers, NEW place \in Places,
           OneMoves(c, place), ChargedAt(c, place), UNCHANGED ledgerVars,
           Fault \/ UNCHANGED faults,
           Flying(place, entry'[c]) => Flying(pc[c], entry[c])
    PROVE  IInv'
<1>1. TypeOK' /\ Charges'
  BY LocalPart, Types DEF ledgerVars
<1>2. InFlight' = InFlight \/ InFlight' = InFlight \ {c}
  <2>1. CASE Flying(place, entry'[c])
    <3>1. InFlight' = InFlight \cup {c}
      BY <2>1, Moves DEF OneMoves, IInv
    <3>2. c \in InFlight
      BY <2>1 DEF Flying, InFlight
    <3> QED BY <3>1, <3>2
  <2>2. CASE ~Flying(place, entry'[c])
    BY <2>2, Moves DEF OneMoves, IInv
  <2> QED BY <2>1, <2>2
<1>3. Covered' /\ OvershootBounded'
  BY <1>2, QuietStep, Faulted
<1> QED BY <1>1, <1>3 DEF IInv

LEMMA CallKeeps ==
    ASSUME IInv, NEW c \in Callers, Call(c)
    PROVE  IInv'
<1>1. account' \in [Callers -> Accounts] /\ account'[c] = NoAccount
      /\ \A d \in Callers \ {c} : account'[d] = account[d]
  <2>1. NoAccount \in Accounts
    BY DEF NoAccount, Accounts
  <2> QED BY <2>1, Types DEF Call
<1>2. 0 \in 0..MaxRetries /\ 0 \in 0..MaxCharge /\ made' \in 0..MaxCalls
  BY Types DEF Call
<1>3. OneMoves(c, "checks")
  BY <1>1, <1>2, Types DEF Call, OneMoves, Outcomes, Statuses, failureVars
<1>4. ChargedAt(c, "checks")
  BY <1>1, Types DEF Call, ChargedAt, Balanced, Pending, Returned, NoAccount
<1> QED BY <1>3, <1>4, QuietMove DEF Call, Places, Flying, ledgerVars

\* A step between the places before the record.
LEMMA Passes ==
    ASSUME IInv, NEW c \in Callers, NEW place \in Places,
           pc[c] \in {"checks", "budget", "config", "run", "backoff"},
           place \in {"budget", "config", "run", "idle"},
           pc' = [pc EXCEPT ![c] = place],
           IF place = "idle"
           THEN \E how \in {"refused", "threw"} :
                   outcome' = [outcome EXCEPT ![c] = how]
           ELSE outcome' = outcome,
           UNCHANGED <<attempt, entry, usage, read, account, failureVars, made>>
    PROVE  OneMoves(c, place) /\ ChargedAt(c, place)
<1>1. /\ Balanced(pc[c], outcome[c], entry[c], usage[c], account[c])
      /\ Counters(account[c])
  BY At
<1>2. /\ entry' = entry /\ account' = account /\ attempt' = attempt
      /\ usage' = usage /\ read' = read /\ made' = made
      /\ failures' = failures /\ cooling' = cooling
  BY DEF failureVars
<1>3. /\ outcome' \in [Callers -> Outcomes]
      /\ \A d \in Callers \ {c} : outcome'[d] = outcome[d]
      /\ IF place = "idle" THEN outcome'[c] \in {"refused", "threw"}
                           ELSE outcome'[c] = outcome[c]
  BY Types DEF Outcomes
<1>4. OneMoves(c, place)
  BY <1>2, <1>3, Types DEF OneMoves
<1>5. ChargedAt(c, place)
  BY <1>1, <1>2, <1>3 DEF ChargedAt, Balanced, Pending, Returned, Counters
<1> QED BY <1>4, <1>5

LEMMA CheckKeeps ==
    ASSUME IInv, NEW c \in Callers, Check(c)
    PROVE  IInv'
<1>1. CASE GoTo(c, "budget")
  <2>1. OneMoves(c, "budget") /\ ChargedAt(c, "budget")
    BY <1>1, Passes DEF Check, GoTo, Places
  <2> QED BY <2>1, QuietMove DEF Check, Places, Flying
<1>2. CASE End(c, "refused")
  <2>1. OneMoves(c, "idle") /\ ChargedAt(c, "idle")
    BY <1>2, Passes DEF Check, End, Places
  <2> QED BY <2>1, QuietMove DEF Check, Places, Flying
<1> QED BY <1>1, <1>2 DEF Check

\* A call makes up its row and line: nothing of it is written yet.
LEMMA Recorded ==
    ASSUME IInv, NEW c \in Callers, NEW status \in Statuses \ {"none"},
           pc[c] \in {"budget", "run", "append", "write"},
           Record(c, status), outcome[c] = "none",
           UNCHANGED <<attempt, failureVars, made>>,
           read' \in [Callers -> Nat],
           account' \in [Callers -> Accounts],
           \A d \in Callers \ {c} : account'[d] = account[d],
           account'[c].lines = 0,
           account'[c].rows + account'[c].missed = account'[c].failed,
           account'[c].returned
               <= account'[c].failed + Returned("record", status)
    PROVE  OneMoves(c, "record") /\ ChargedAt(c, "record") /\ entry'[c] = status
<1>1. /\ pc' = [pc EXCEPT ![c] = "record"] /\ outcome' = outcome
      /\ entry' = [entry EXCEPT ![c] = status]
  BY DEF Record, GoTo
<1>2. /\ usage' \in [Callers -> 0..MaxCharge]
      /\ \A d \in Callers \ {c} : usage'[d] = usage[d]
      /\ status = "blocked" => usage'[c] = 0
  <2>1. PICK units \in Usages(status) : usage' = [usage EXCEPT ![c] = units]
    BY DEF Record
  <2>2. units \in 0..MaxCharge /\ (status = "blocked" => units = 0)
    BY Types DEF Usages
  <2> QED BY <2>1, <2>2, Types
<1>3. OneMoves(c, "record") /\ entry'[c] = status
  BY <1>1, <1>2, Types DEF OneMoves, failureVars
<1>4. ChargedAt(c, "record")
  <2>1. Counters(account'[c])
    BY CountersAreNat
  <2> QED BY <1>1, <1>2, <1>3, <2>1, Types DEF ChargedAt, Balanced, Pending, Counters
<1> QED BY <1>3, <1>4

\* assertWithin: a call that passes leaves room for a unit at least in what
\* the file says, which is what was spent but for the charges that are missing.
LEMMA CheckBudgetKeeps ==
    ASSUME IInv, NEW c \in Callers, CheckBudget(c)
    PROVE  IInv'
<1>1. /\ Balanced("budget", outcome[c], entry[c], usage[c], account[c])
      /\ Counters(account[c]) /\ pc[c] = "budget"
      /\ UNCHANGED <<attempt, read, account, failureVars, made>>
      /\ UNCHANGED ledgerVars
  BY At DEF CheckBudget
<1>2. PICK used \in {0, ledger}, estimate \in 1..MaxEstimate :
        /\ IF used = ledger THEN UNCHANGED faults ELSE Fault
        /\ IF Fits(used, estimate)
           THEN GoTo(c, "config") /\ UNCHANGED <<entry, usage>>
           ELSE Record(c, "blocked")
  BY DEF CheckBudget
<1>3. Fault \/ UNCHANGED faults
  BY <1>2
<1>4. CASE ~ Fits(used, estimate)
  <2>1. Record(c, "blocked")
    BY <1>2, <1>4
  <2>2. OneMoves(c, "record") /\ ChargedAt(c, "record") /\ entry'[c] = "blocked"
    BY <1>1, <2>1, Recorded, Types
    DEF Balanced, Pending, Returned, Counters, Statuses
  <2> QED BY <1>1, <1>3, <2>2, QuietMove DEF Places, Flying
<1>5. CASE Fits(used, estimate)
  <2>1. GoTo(c, "config") /\ UNCHANGED <<entry, usage>>
    BY <1>2, <1>5
  <2>2. OneMoves(c, "config") /\ ChargedAt(c, "config")
    BY <1>1, <2>1, Passes DEF GoTo, Places
  <2>3. TypeOK' /\ Charges'
    BY <1>1, <1>3, <2>2, LocalPart, Types DEF ledgerVars, Places
  <2>4. InFlight' = InFlight \cup {c}
    BY <2>2, Moves DEF IInv, OneMoves, Flying, Places
  <2>5. /\ spent' = spent /\ ledger' = ledger /\ lost' = lost
    BY <1>1 DEF ledgerVars
  <2> DEFINE before == Cardinality(InFlight)
             after == Cardinality(InFlight \cup {c})
             all == Cardinality(Callers)
  <2>6. /\ before \in Nat /\ after \in Nat /\ all \in Nat
        /\ after <= before + 1 /\ after <= all
    BY Counts
  <2>7. /\ Owed = MaxCharge * before /\ Owed' = MaxCharge * after
        /\ Allowed = MaxCharge * (all + faults)
        /\ Allowed' = MaxCharge * (all + faults')
    BY <2>4 DEF Owed, Allowed
  <2> HIDE DEF before, after, all
  <2>8. /\ spent \in Nat /\ lost \in Nat /\ ledger \in Nat /\ Limit \in Nat
        /\ faults \in Nat /\ faults' \in Nat /\ MaxCharge \in Nat
    BY <1>3, Faulted, Types
  <2>9. /\ Owed \in Nat /\ Owed' \in Nat /\ Allowed \in Nat /\ Allowed' \in Nat
    <3>1. all + faults \in Nat /\ all + faults' \in Nat
      BY <2>6, <2>8, Sums, Zenon
    <3> QED BY <2>6, <2>7, <3>1, Costs
  <2>10. spent + Owed' <= (Limit - 1) + Allowed' + lost
    <3>1. CASE used = ledger
      <4>1. spent <= ledger + lost /\ ledger + estimate <= Limit
        BY <1>5, <3>1 DEF IInv, Covered, Fits
      <4>2. estimate \in Nat /\ estimate >= 1
        BY GovernedAssumption
      <4>3. after <= all + faults' /\ all + faults' \in Nat
        BY <2>6, <2>8, Sums, Within, Zenon
      <4>4. Owed' <= Allowed'
        BY <2>6, <2>7, <4>3, Costs
      <4> QED BY <2>8, <2>9, <4>1, <4>2, <4>4, Room, Zenon
    <3>2. CASE used # ledger
      <4>1. faults' = faults + 1
        BY <1>2, <3>2 DEF Fault
      <4>2. spent + Owed <= (Limit - 1) + Allowed + lost
        BY Bound DEF IInv
      <4>3. Owed' <= Owed + MaxCharge
        <5>1. MaxCharge * after <= MaxCharge * (before + 1)
          BY <2>6, Costs
        <5> QED BY <2>6, <2>7, <5>1, Costs
      <4>4. Allowed' = Allowed + MaxCharge
        <5>1. all + faults \in Nat /\ all + faults' = (all + faults) + 1
          BY <2>6, <2>8, <4>1, Sums, Zenon
        <5> QED BY <2>7, <5>1, Costs
      <4> QED BY <2>8, <2>9, <4>2, <4>3, <4>4, Blind, Zenon
    <3> QED BY <3>1, <3>2
  <2>11. OvershootBounded'
    BY <2>5, <2>10, Bound
  <2>12. Covered'
    BY <2>5 DEF IInv, Covered
  <2> QED BY <2>3, <2>11, <2>12 DEF IInv
<1> QED BY <1>4, <1>5

LEMMA LoadRetryConfigKeeps ==
    ASSUME IInv, NEW c \in Callers, LoadRetryConfig(c)
    PROVE  IInv'
<1>1. CASE GoTo(c, "run") /\ UNCHANGED faults
  <2>1. OneMoves(c, "run") /\ ChargedAt(c, "run")
    BY <1>1, Passes DEF LoadRetryConfig, GoTo, Places
  <2> QED BY <1>1, <2>1, QuietMove DEF LoadRetryConfig, Places, Flying
<1>2. CASE End(c, "threw") /\ Fault
  <2>1. OneMoves(c, "idle") /\ ChargedAt(c, "idle")
    BY <1>2, Passes DEF LoadRetryConfig, End, Places
  <2> QED BY <1>2, <2>1, QuietMove DEF LoadRetryConfig, Places, Flying
<1> QED BY <1>1, <1>2 DEF LoadRetryConfig

\* The catch keeps the call in flight: it is repeated, or its error recorded.
LEMMA AttemptFailsMoves ==
    ASSUME IInv, NEW c \in Callers, NEW retryable \in BOOLEAN,
           pc[c] \in {"run", "append", "write"}, outcome[c] = "none",
           AttemptFails(c, retryable),
           UNCHANGED <<failureVars, made>>, read' \in [Callers -> Nat],
           account' \in [Callers -> Accounts],
           \A d \in Callers \ {c} : account'[d] = account[d],
           account'[c].lines = 0,
           account'[c].rows + account'[c].missed = account'[c].failed,
           account'[c].returned <= account'[c].failed
    PROVE  \E place \in {"backoff", "record"} :
              /\ OneMoves(c, place) /\ ChargedAt(c, place)
              /\ place = "record" => entry'[c] = "error"
<1>1. Counters(account'[c])
  BY CountersAreNat
<1>2. CASE retryable /\ attempt[c] < MaxRetries
  <2>1. /\ GoTo(c, "backoff") /\ UNCHANGED <<entry, usage>>
        /\ attempt' = [attempt EXCEPT ![c] = @ + 1]
    BY <1>2 DEF AttemptFails
  <2>2. attempt' \in [Callers -> 0..MaxRetries]
    BY <1>2, <2>1, Types
  <2>3. OneMoves(c, "backoff")
    BY <2>1, <2>2, Types DEF GoTo, OneMoves, failureVars
  <2>4. ChargedAt(c, "backoff")
    BY <1>1, <2>1, Types DEF GoTo, ChargedAt, Balanced, Pending, Returned, Counters
  <2> QED BY <2>3, <2>4
<1>3. CASE ~(retryable /\ attempt[c] < MaxRetries)
  <2>1. Record(c, "error") /\ UNCHANGED attempt
    BY <1>3 DEF AttemptFails
  <2>2. account'[c].returned <= account'[c].failed + Returned("record", "error")
    BY <1>1 DEF Returned, Counters
  <2>3. /\ OneMoves(c, "record") /\ ChargedAt(c, "record")
        /\ entry'[c] = "error"
    BY <2>1, <2>2, Recorded DEF Statuses
  <2> QED BY <2>3
<1> QED BY <1>2, <1>3

LEMMA RunToolKeeps ==
    ASSUME IInv, NEW c \in Callers, RunTool(c)
    PROVE  IInv'
<1>1. /\ Balanced("run", outcome[c], entry[c], usage[c], account[c])
      /\ Counters(account[c]) /\ pc[c] = "run"
  BY At DEF RunTool
<1>2. UNCHANGED <<read, ledgerVars, failureVars, made, faults>>
  BY DEF RunTool
<1>3. CASE /\ Record(c, "success")
           /\ account' = [account EXCEPT ![c].returned = @ + 1]
           /\ UNCHANGED attempt
  <2>1. Adds(c, 0, 0, 0, 0, 1)
    BY <1>3, Added
  <2>2. /\ outcome[c] = "none" /\ account'[c].lines = 0
        /\ account'[c].rows + account'[c].missed = account'[c].failed
    BY <1>1, <2>1 DEF Adds, Balanced, Pending, Counters
  <2>3. account'[c].returned
            <= account'[c].failed + Returned("record", "success")
    BY <1>1, <2>1 DEF Adds, Balanced, Returned, Counters
  <2>4. OneMoves(c, "record") /\ ChargedAt(c, "record")
    <3>1. read' \in [Callers -> Nat] /\ "success" \in Statuses \ {"none"}
      BY <1>2, Types DEF Statuses
    <3> QED BY <1>1, <1>2, <1>3, <2>1, <2>2, <2>3, <3>1, Recorded DEF Adds
  <2> QED BY <1>1, <1>2, <2>4, QuietMove DEF Places, Flying
<1>4. CASE /\ \E retryable \in BOOLEAN : AttemptFails(c, retryable)
           /\ UNCHANGED account
  <2>1. PICK retryable \in BOOLEAN : AttemptFails(c, retryable)
    BY <1>4
  <2>2. PICK place \in {"backoff", "record"} :
           OneMoves(c, place) /\ ChargedAt(c, place)
    BY <1>1, <1>2, <1>4, <2>1, AttemptFailsMoves, Types
    DEF Balanced, Pending, Returned, Counters
  <2> QED BY <1>1, <1>2, <2>2, QuietMove DEF Places, Flying
<1> QED BY <1>3, <1>4 DEF RunTool

LEMMA BackOffKeeps ==
    ASSUME IInv, NEW c \in Callers, BackOff(c)
    PROVE  IInv'
<1>1. OneMoves(c, "run") /\ ChargedAt(c, "run")
  BY Passes DEF BackOff, GoTo, Places
<1> QED BY <1>1, QuietMove DEF BackOff, Places, Flying

\* recordCostLedger: the row, inserted or not, is ahead of its line.
LEMMA InsertRowKeeps ==
    ASSUME IInv, NEW c \in Callers, InsertRow(c)
    PROVE  IInv'
<1>1. /\ Balanced("record", outcome[c], entry[c], usage[c], account[c])
      /\ Counters(account[c]) /\ pc[c] = "record"
  BY At DEF InsertRow
<1>2. /\ GoTo(c, "append") /\ (Fault \/ UNCHANGED faults)
      /\ UNCHANGED <<attempt, entry, usage, read, failureVars, made>>
      /\ UNCHANGED ledgerVars
      /\ Adds(c, 1, 0, 0, 0, 0) \/ Adds(c, 0, 1, 0, 0, 0)
  BY Added DEF InsertRow
<1>3. OneMoves(c, "append")
  BY <1>2, Types DEF GoTo, OneMoves, Adds, failureVars
<1>4. ChargedAt(c, "append")
  <2>1. /\ account[c].rows + account[c].missed = account[c].lines + account[c].failed
        /\ Returned("append", entry[c]) = Returned("record", entry[c])
    BY <1>1 DEF Balanced, Pending, Returned, Counters
  <2>2. account'[c].rows + account'[c].missed
            = account'[c].lines + account'[c].failed + 1
    <3>1. CASE Adds(c, 1, 0, 0, 0, 0)
      BY <1>1, <2>1, <3>1 DEF Adds, Counters
    <3>2. CASE Adds(c, 0, 1, 0, 0, 0)
      BY <1>1, <2>1, <3>2 DEF Adds, Counters
    <3> QED BY <1>2, <3>1, <3>2
  <2>3. /\ account'[c].lines = account[c].lines
        /\ account'[c].failed = account[c].failed
        /\ account'[c].returned = account[c].returned
    BY <1>1, <1>2 DEF Adds, Counters
  <2> QED BY <1>1, <1>2, <2>1, <2>2, <2>3 DEF GoTo, ChargedAt, Balanced, Pending
<1> QED BY <1>1, <1>2, <1>3, <1>4, QuietMove DEF Places, Flying

\* An append that fails after a success is an attempt that failed; otherwise
\* the call is over without a line.
LEMMA AppendFailsKeeps ==
    ASSUME IInv, NEW c \in Callers, pc[c] \in {"append", "write"},
           AppendFails(c), Fault, read' \in [Callers -> Nat],
           account' = [account EXCEPT ![c].failed = @ + 1],
           UNCHANGED <<failureVars, made>>, UNCHANGED ledgerVars
    PROVE  IInv'
<1>1. /\ Balanced(pc[c], outcome[c], entry[c], usage[c], account[c])
      /\ Counters(account[c])
  BY At
<1>2. Adds(c, 0, 0, 0, 1, 0)
  BY Added
<1>3. /\ outcome[c] = "none"
      /\ account'[c].lines = 0
      /\ account'[c].rows + account'[c].missed = account'[c].failed
      /\ account'[c].returned <= account'[c].failed
  BY <1>1, <1>2 DEF Adds, Balanced, Pending, Returned, Counters
<1>4. CASE entry[c] = "success"
  <2>1. PICK retryable \in BOOLEAN : AttemptFails(c, retryable)
    BY <1>4 DEF AppendFails
  <2>2. PICK place \in {"backoff", "record"} :
           OneMoves(c, place) /\ ChargedAt(c, place)
    BY <1>2, <1>3, <2>1, AttemptFailsMoves DEF Adds
  <2> QED BY <1>4, <2>2, QuietMove DEF Places, Flying
<1>5. CASE entry[c] # "success"
  <2>1. End(c, "threw") /\ UNCHANGED <<attempt, entry, usage>>
    BY <1>5 DEF AppendFails
  <2>2. OneMoves(c, "idle") /\ outcome'[c] = "threw" /\ entry'[c] = entry[c]
    BY <1>2, <2>1, Types DEF Adds, End, OneMoves, failureVars, Outcomes
  <2>3. ChargedAt(c, "idle")
    <3>1. Counters(account'[c])
      BY <1>2, CountersAreNat DEF Adds
    <3> QED BY <1>3, <2>2, <3>1 DEF ChargedAt, Balanced, Pending, Returned, Counters
  <2> QED BY <2>2, <2>3, QuietMove DEF Places, Flying
<1> QED BY <1>4, <1>5

LEMMA ReadLedgerKeeps ==
    ASSUME IInv, NEW c \in Callers, ReadLedger(c)
    PROVE  IInv'
<1>1. /\ Balanced("append", outcome[c], entry[c], usage[c], account[c])
      /\ Counters(account[c]) /\ pc[c] = "append"
      /\ UNCHANGED <<failureVars, made>> /\ UNCHANGED ledgerVars
  BY At DEF ReadLedger
<1>2. CASE /\ GoTo(c, "write")
           /\ read' = [read EXCEPT ![c] = ledger]
           /\ UNCHANGED <<attempt, entry, usage, account, faults>>
  <2>1. OneMoves(c, "write")
    BY <1>1, <1>2, Types DEF GoTo, OneMoves, failureVars
  <2>2. ChargedAt(c, "write")
    BY <1>1, <1>2 DEF GoTo, ChargedAt, Balanced, Pending, Returned, Counters
  <2> QED BY <1>1, <1>2, <2>1, <2>2, QuietMove DEF Places, Flying
<1>3. CASE /\ Fault
           /\ AppendFails(c)
           /\ account' = [account EXCEPT ![c].failed = @ + 1]
           /\ UNCHANGED read
  BY <1>1, <1>3, AppendFailsKeeps, Types
<1> QED BY <1>2, <1>3 DEF ReadLedger

\* appendTextFileAtomic: the charge moves from the calls in flight to what is
\* spent; what the file loses by it is added to lost.
LEMMA WriteLedgerKeeps ==
    ASSUME IInv, NEW c \in Callers, WriteLedger(c)
    PROVE  IInv'
<1>1. /\ Balanced("write", outcome[c], entry[c], usage[c], account[c])
      /\ Counters(account[c]) /\ pc[c] = "write"
      /\ UNCHANGED <<failureVars, made>> /\ read' \in [Callers -> Nat]
  BY At, Types DEF WriteLedger
<1>2. CASE /\ Fault
           /\ AppendFails(c)
           /\ account' = [account EXCEPT ![c].failed = @ + 1]
           /\ UNCHANGED ledgerVars
  BY <1>1, <1>2, AppendFailsKeeps
<1>3. CASE /\ Append(c)
           /\ AfterRecord(c)
           /\ account' = [account EXCEPT ![c].lines = @ + 1]
           /\ usage' = [usage EXCEPT ![c] = 0]
           /\ UNCHANGED <<attempt, entry, faults>>
  <2>1. /\ ledger' = read[c] + usage[c] /\ spent' = spent + usage[c]
        /\ lost' = IF spent' - ledger' > lost THEN spent' - ledger' ELSE lost
    BY <1>3 DEF Append
  <2>2. /\ read[c] \in Nat /\ spent \in Nat /\ lost \in Nat
        /\ usage[c] \in Nat /\ usage[c] <= MaxCharge /\ MaxCharge \in Nat
    BY Types
  <2>3. /\ ledger' \in Nat /\ spent' \in Nat /\ lost' \in Nat
        /\ lost' >= lost /\ spent' <= ledger' + lost'
    BY <2>1, <2>2
  <2>4. Adds(c, 0, 0, 1, 0, 0)
    BY <1>3, Added
  <2>5. /\ usage' \in [Callers -> 0..MaxCharge]
        /\ \A d \in Callers \ {c} : usage'[d] = usage[d]
        /\ entry' = entry /\ attempt' = attempt
    BY <1>3, Types
  <2>6. PICK place \in {"idle", "fail"} :
           OneMoves(c, place) /\ ChargedAt(c, place)
    <3>1. ASSUME NEW how \in {"succeeded", "refused"}, End(c, how),
                 entry[c] = IF how = "refused" THEN "blocked" ELSE "success"
          PROVE  OneMoves(c, "idle") /\ ChargedAt(c, "idle")
      <4>1. OneMoves(c, "idle") /\ outcome'[c] = how
        BY <1>1, <2>4, <2>5, <3>1, Types
        DEF Adds, End, OneMoves, failureVars, Outcomes
      <4>2. ChargedAt(c, "idle")
        BY <1>1, <2>4, <2>5, <3>1, <4>1
        DEF Adds, ChargedAt, Balanced, Pending, Returned, Counters
      <4> QED BY <4>1, <4>2
    <3>2. ASSUME GoTo(c, "fail"), entry[c] = "error"
          PROVE  OneMoves(c, "fail") /\ ChargedAt(c, "fail")
      <4>1. OneMoves(c, "fail") /\ outcome'[c] = outcome[c]
        BY <1>1, <2>4, <2>5, <3>2, Types DEF Adds, GoTo, OneMoves, failureVars
      <4>2. ChargedAt(c, "fail")
        BY <1>1, <2>4, <2>5, <3>2, <4>1
        DEF Adds, ChargedAt, Balanced, Pending, Returned, Counters
      <4> QED BY <4>1, <4>2
    <3>3. entry[c] \in {"none", "success", "error", "blocked"}
      BY Types DEF Statuses
    <3>4. entry[c] # "none"
      BY <1>1 DEF Balanced
    <3> QED BY <1>3, <3>1, <3>2, <3>3, <3>4 DEF AfterRecord
  <2>7. TypeOK' /\ Charges'
    BY <1>3, <2>3, <2>6, LocalPart DEF Places
  <2>8. InFlight' = InFlight \ {c}
    BY <2>6, Moves DEF IInv, OneMoves, Flying, Places
  <2>9. OvershootBounded'
    <3> DEFINE before == Cardinality(InFlight)
               after == Cardinality(InFlight \ {c})
    <3>1. /\ before \in Nat /\ after \in Nat
          /\ after <= before /\ (c \in InFlight => before = after + 1)
      BY Counts, Sums, Zenon
    <3>2. Owed = MaxCharge * before /\ Owed' = MaxCharge * after
      BY <2>8 DEF Owed
    <3> HIDE DEF before, after
    <3>3. usage[c] + Owed' <= Owed
      <4>1. CASE c \in InFlight
        <5>1. Owed = Owed' + MaxCharge /\ Owed' \in Nat
          BY <3>1, <3>2, <4>1, Costs
        <5> QED BY <2>2, <5>1
      <4>2. CASE c \notin InFlight
        <5>1. usage[c] = 0
          BY <1>1, <4>2 DEF InFlight, Balanced
        <5>2. Owed' <= Owed /\ Owed \in Nat /\ Owed' \in Nat
          BY <3>1, <3>2, Costs
        <5> QED BY <2>2, <5>1, <5>2, Within, Zenon
      <4> QED BY <4>1, <4>2
    <3>4. spent + Owed <= (Limit - 1) + Allowed + lost
      BY Bound DEF IInv
    <3>5. Allowed' = Allowed /\ Allowed \in Nat /\ Limit \in Nat
          /\ Owed \in Nat /\ Owed' \in Nat
      <4>1. Cardinality(Callers) + faults \in Nat
        BY Counts, Types, Sums, Zenon
      <4> QED BY <1>3, <3>1, <3>2, <4>1, Costs, Types DEF Allowed
    <3>6. spent' + Owed' <= (Limit - 1) + Allowed' + lost'
      <4>1. (spent + usage[c]) + Owed' <= (Limit - 1) + Allowed + lost'
        BY <2>2, <2>3, <3>3, <3>4, <3>5, Paid, Zenon
      <4> QED BY <2>1, <3>5, <4>1, Zenon
    <3> QED BY <3>6, Bound
  <2> QED BY <2>3, <2>7, <2>9 DEF IInv, Covered
<1> QED BY <1>2, <1>3 DEF WriteLedger

LEMMA RegisterToolFailureKeeps ==
    ASSUME IInv, NEW c \in Callers, RegisterToolFailure(c)
    PROVE  IInv'
<1>1. /\ Balanced("fail", outcome[c], entry[c], usage[c], account[c])
      /\ Counters(account[c])
  BY At DEF RegisterToolFailure
<1>2. failures' \in 0..Threshold /\ cooling' \in BOOLEAN
  BY Types DEF RegisterToolFailure
<1>3. UNCHANGED <<attempt, entry, usage, read, account, ledgerVars, made, faults>>
  BY DEF RegisterToolFailure
<1>4. CASE GoTo(c, "report")
  <2>1. OneMoves(c, "report")
    BY <1>2, <1>3, <1>4, Types DEF GoTo, OneMoves
  <2>2. ChargedAt(c, "report")
    BY <1>1, <1>3, <1>4 DEF GoTo, ChargedAt, Balanced, Pending, Returned
  <2> QED BY <1>3, <2>1, <2>2, QuietMove DEF Places, Flying
<1>5. CASE End(c, "failed")
  <2>1. OneMoves(c, "idle") /\ outcome'[c] = "failed"
    BY <1>2, <1>3, <1>5, Types DEF End, OneMoves, Outcomes
  <2>2. ChargedAt(c, "idle")
    BY <1>1, <1>3, <2>1 DEF ChargedAt, Balanced, Pending, Returned
  <2> QED BY <1>3, <2>1, <2>2, QuietMove DEF Places, Flying
<1> QED BY <1>4, <1>5 DEF RegisterToolFailure

LEMMA ReportedKeeps ==
    ASSUME IInv, NEW c \in Callers, Reported(c)
    PROVE  IInv'
<1>1. /\ Balanced("report", outcome[c], entry[c], usage[c], account[c])
      /\ Counters(account[c])
  BY At DEF Reported
<1>2. /\ UNCHANGED <<attempt, entry, usage, read, account, ledgerVars, made, faults>>
      /\ UNCHANGED failureVars
  BY DEF Reported
<1>3. OneMoves(c, "idle") /\ outcome'[c] = "failed"
  BY <1>2, Types DEF Reported, End, OneMoves, Outcomes, failureVars
<1>4. ChargedAt(c, "idle")
  BY <1>1, <1>2, <1>3 DEF ChargedAt, Balanced, Pending, Returned
<1> QED BY <1>2, <1>3, <1>4, QuietMove DEF Places, Flying

\* Time passes: only the count of failures changes.
LEMMA TimeKeeps ==
    ASSUME IInv, CoolDown \/ WindowPasses \/ UNCHANGED vars
    PROVE  IInv'
<1>1. UNCHANGED <<callVars, ledgerVars, made, faults>>
  BY DEF CoolDown, WindowPasses, vars
<1>2. failures' \in 0..Threshold /\ cooling' \in BOOLEAN
  <2>1. CASE CoolDown
    BY <2>1, Types DEF CoolDown
  <2>2. CASE WindowPasses
    BY <2>2, Types DEF WindowPasses
  <2>3. CASE UNCHANGED vars
    BY <2>3, Types DEF vars, failureVars
  <2> QED BY <2>1, <2>2, <2>3
<1>3. InFlight' = InFlight
  BY <1>1 DEF InFlight, callVars
<1>4. TypeOK'
  BY <1>1, <1>2 DEF IInv, TypeOK, callVars, ledgerVars
<1>5. Charges'
  BY <1>1 DEF IInv, Charges, callVars
<1> QED BY <1>1, <1>3, <1>4, <1>5 DEF IInv, Covered, OvershootBounded, ledgerVars

LEMMA NextKeeps == IInv /\ [Next]_vars => IInv'
  BY CallKeeps, CheckKeeps, CheckBudgetKeeps, LoadRetryConfigKeeps, RunToolKeeps,
     BackOffKeeps, InsertRowKeeps, ReadLedgerKeeps, WriteLedgerKeeps, RegisterToolFailureKeeps,
     ReportedKeeps, TimeKeeps
  DEF Next, CallStep

THEOREM Invariance == Spec => []IInv
  BY InitEstablishes, NextKeeps, PTL DEF Spec

\* The retry counter, the places of the handler and the counts stay within
\* their types, whatever fails.
THEOREM TypeCorrect == Spec => []TypeOK
<1>1. IInv => TypeOK
  BY DEF IInv
<1> QED BY <1>1, Invariance, PTL

\* recordCostLedger and recordUsage: for any number of retries and of faults
\* the file charges a call once, after its last attempt, and never one that is
\* refused or throws; the table has a row more for every append that failed;
\* and a tool that returned runs again only after such a failure.
THEOREM LedgersAlwaysAccountedFor == Spec => []LedgersAccountedFor
<1>1. IInv => LedgersAccountedFor
  <2> SUFFICES ASSUME IInv, NEW c \in Callers
               PROVE  LineOnce(c) /\ RowPerAppend(c) /\ RerunOnlyUncharged(c)
    BY DEF LedgersAccountedFor
  <2>1. /\ Balanced(pc[c], outcome[c], entry[c], usage[c], account[c])
        /\ Counters(account[c])
    BY At
  <2>2. LineOnce(c)
    BY <2>1 DEF Balanced, LineOnce
  <2>3. RowPerAppend(c)
    BY <2>1 DEF Balanced, Pending, RowPerAppend
  <2>4. RerunOnlyUncharged(c)
    BY <2>1 DEF Balanced, Returned, Counters, RerunOnlyUncharged
  <2> QED BY <2>2, <2>3, <2>4
<1> QED BY <1>1, Invariance, PTL

\* assertWithin with an estimate and recordUsage with the actual usage: for
\* any charge up to MaxCharge, any callers and any number of faults, what is
\* spent and may still be spent by the calls in flight exceeds the last unit
\* below the budget by no more than a charge of every caller, a charge for
\* each read that failed and the charges the file had lost.
THEOREM OvershootAlwaysBounded == Spec => []OvershootBounded
<1>1. IInv => OvershootBounded
  BY DEF IInv
<1> QED BY <1>1, Invariance, PTL

-----------------------------------------------------------------------------
(* The list of disabled tools.                                             *)

\* What an edit makes of a row.
LEMMA EditedType ==
    ASSUME NEW row \in Rows, NEW by \in {"apply", "others"}
    PROVE  Edited(by, row) \subseteq Rows
<1>1. \A list \in SUBSET Tools : [row EXCEPT !.disabled = list] \in Rows
  BY DEF Rows
<1>2. \A tools \in SUBSET Tools : [row EXCEPT !.spared = tools] \in Rows
  BY DEF Rows
<1> QED BY <1>1, <1>2 DEF Edited, ListEdited, SettingsEdited

LEMMA NoRowType == NoRow \in Rows /\ NoRow.disabled = {}
  BY DEF NoRow, Rows

\* Nobody's edit is none of the edits.
LEMMA EditorsKnown ==
    /\ \A of \in Edits : of.by \in {"automation", "apply", "others"}
    /\ NoEdit.by = "nobody"
    /\ NoEdit \notin Edits
<1>1. \A of \in Edits : of.by \in {"automation", "apply", "others"}
  BY DEF Edits
<1>2. NoEdit.by = "nobody"
  BY DEF NoEdit
<1> QED BY <1>1, <1>2

\* One editor is at another step.
LEMMA EditMoves ==
    ASSUME ToolsTypeOK, NEW e \in Editors, NEW s \in EditStates,
           edit' = [edit EXCEPT ![e] = s],
           s.step \in {"none", "done"} <=> s.of = NoEdit,
           s.step \in {"look", "load"} => s.of.by = "automation",
           s.step \in {"refresh", "set"} => s.of.by \in {"automation", "apply"},
           stored' \in Rows,
           cache' \in [Instances -> SUBSET Tools],
           refreshing' \in [Instances -> Refreshes],
           notified' \in SUBSET Instances,
           queryFaults' \in 0 .. MaxQueryFaults
    PROVE  ToolsTypeOK'
<1>1. edit \in [Editors -> EditStates] /\ edit' \in [Editors -> EditStates]
  BY DEF ToolsTypeOK
<1>2. \A d \in Editors : edit'[d] = IF d = e THEN s ELSE edit[d]
  BY <1>1
<1> QED BY <1>1, <1>2 DEF ToolsTypeOK

LEMMA Advanced ==
    ASSUME ToolsTypeOK, NEW e \in Editors, NEW step \in Steps,
           NEW seen \in Rows, Advance(e, step, seen)
    PROVE  \E s \in EditStates :
              /\ edit' = [edit EXCEPT ![e] = s]
              /\ s.of = edit[e].of /\ s.step = step /\ s.seen = seen
<1> DEFINE r == [edit[e] EXCEPT !.step = step]
           s == [r EXCEPT !.seen = seen]
<1>1. edit \in [Editors -> EditStates] /\ edit[e] \in EditStates
  BY DEF ToolsTypeOK
<1>2. r \in EditStates /\ r.of = edit[e].of /\ r.step = step
  BY <1>1 DEF EditStates
<1>3. s \in EditStates /\ s.of = r.of /\ s.step = r.step /\ s.seen = seen
  <2> HIDE DEF r
  <2> QED BY <1>2 DEF EditStates
<1>4. edit' = [edit EXCEPT ![e] = s]
  BY <1>1 DEF Advance
<1> QED BY <1>2, <1>3, <1>4

\* What a step of an editor leaves well typed besides the edits.
OthersTyped ==
    /\ stored' \in Rows
    /\ cache' \in [Instances -> SUBSET Tools]
    /\ refreshing' \in [Instances -> Refreshes]
    /\ notified' \in SUBSET Instances
    /\ queryFaults' \in 0 .. MaxQueryFaults

LEMMA FinishKeeps ==
    ASSUME ToolsTypeOK, NEW e \in Editors, Finish(e), OthersTyped
    PROVE  ToolsTypeOK'
<1> DEFINE s == [of |-> NoEdit, step |-> "done", seen |-> NoRow]
<1>1. /\ s \in EditStates /\ s.step = "done" /\ s.of = NoEdit
      /\ edit' = [edit EXCEPT ![e] = s]
  BY NoRowType DEF EditStates, Steps, Finish
<1> HIDE DEF s
<1> QED BY <1>1, EditMoves DEF OthersTyped

LEMMA AdvanceKeeps ==
    ASSUME ToolsTypeOK, NEW e \in Editors, edit[e].of # NoEdit,
           NEW step \in Steps \ {"none", "look", "done"},
           NEW seen \in Rows, Advance(e, step, seen),
           step = "load" => edit[e].of.by = "automation",
           step \in {"refresh", "set"} =>
               edit[e].of.by \in {"automation", "apply"},
           OthersTyped
    PROVE  ToolsTypeOK'
<1>1. PICK s \in EditStates :
         /\ edit' = [edit EXCEPT ![e] = s]
         /\ s.of = edit[e].of /\ s.step = step /\ s.seen = seen
  BY Advanced
<1> QED BY <1>1, EditMoves DEF OthersTyped

\* A fault leaves the number of faults within its bound.
LEMMA FaultBound ==
    ASSUME ToolsTypeOK, QueryFault
    PROVE  queryFaults' \in 0 .. MaxQueryFaults
  BY DisabledAssumption DEF QueryFault, ToolsTypeOK

\* The notification, the timer and startRefresh.
LEMMA CacheKeeps ==
    ASSUME ToolsTypeOK, NEW i \in Instances,
           HandleNotification(i) \/ Tick(i) \/ CacheStep(i)
    PROVE  ToolsTypeOK'
<1>1. refreshing \in [Instances -> Refreshes] /\ refreshing[i] \in Refreshes
  BY DEF ToolsTypeOK
<1>2. [refreshing[i] EXCEPT !.step = "load"] \in Refreshes
  BY <1>1 DEF Refreshes
<1>3. StartRefresh(i) => refreshing' \in [Instances -> Refreshes]
  BY <1>1, <1>2 DEF StartRefresh
<1>4. CASE HandleNotification(i) \/ Tick(i)
  BY <1>3, <1>4 DEF HandleNotification, Tick, ToolsTypeOK
<1>5. CASE RefreshLoad(i)
  <2>1. /\ [step |-> "set", seen |-> stored.disabled] \in Refreshes
        /\ [step |-> "set", seen |-> {}] \in Refreshes
    BY DEF Refreshes, Rows, ToolsTypeOK
  <2>2. refreshing' \in [Instances -> Refreshes]
    BY <1>1, <1>5, <2>1 DEF RefreshLoad
  <2>3. queryFaults' \in 0 .. MaxQueryFaults
    BY <1>5, FaultBound DEF RefreshLoad, ToolsTypeOK
  <2> QED BY <1>5, <2>2, <2>3 DEF RefreshLoad, ToolsTypeOK
<1>6. CASE RefreshSet(i)
  <2>1. [step |-> "none", seen |-> {}] \in Refreshes
    BY DEF Refreshes
  <2>2. refreshing' \in [Instances -> Refreshes]
    BY <1>1, <1>6, <2>1 DEF RefreshSet
  <2>3. cache' \in [Instances -> SUBSET Tools]
    BY <1>1, <1>6 DEF RefreshSet, Refreshes, ToolsTypeOK
  <2> QED BY <1>6, <2>2, <2>3 DEF RefreshSet, ToolsTypeOK
<1> QED BY <1>4, <1>5, <1>6 DEF CacheStep

\* An edit begins, by a tool or by a report of failures.
LEMMA BeginKeeps ==
    ASSUME ToolsTypeOK, NEW e \in Editors,
           \/ \E by \in {"apply", "others"} : BeginEdit(e, by)
           \/ \E t \in Tools : ReportFailures(e, t)
    PROVE  ToolsTypeOK'
<1>1. ASSUME NEW by \in {"apply", "others"}, BeginEdit(e, by)
      PROVE  ToolsTypeOK'
  <2>1. CASE Finish(e) /\ QueryFault
    <3>1. OthersTyped
      BY <1>1, <2>1, FaultBound DEF BeginEdit, cacheVars, OthersTyped, ToolsTypeOK
    <3> QED BY <2>1, <3>1, FinishKeeps
  <2>2. CASE ~ (Finish(e) /\ QueryFault)
    <3> DEFINE of == [by |-> by]
               s(row) == [of |-> of, step |-> "save", seen |-> row]
    <3>1. PICK row \in Edited(by, stored) : edit' = [edit EXCEPT ![e] = s(row)]
      BY <1>1, <2>2 DEF BeginEdit
    <3>2. row \in Rows
      BY <3>1, EditedType DEF ToolsTypeOK
    <3>3. of \in Edits
      BY DEF Edits
    <3>4. s(row) \in EditStates /\ s(row).step = "save" /\ s(row).of = of
      BY <3>2, <3>3 DEF EditStates, Steps
    <3>5. OthersTyped
      BY <1>1, <2>2 DEF BeginEdit, cacheVars, OthersTyped, ToolsTypeOK
    <3> HIDE DEF s, of
    <3> QED BY <3>1, <3>3, <3>4, <3>5, EditorsKnown, EditMoves DEF OthersTyped
  <2> QED BY <2>1, <2>2
<1>2. CASE \E t \in Tools : ReportFailures(e, t)
  <2>1. PICK t \in Tools : ReportFailures(e, t)
    BY <1>2
  <2> DEFINE of == [by |-> "automation", tool |-> t]
             s == [of |-> of, step |-> "look", seen |-> NoRow]
  <2>2. of \in Edits /\ of.by = "automation"
    BY DEF Edits
  <2>3. s \in EditStates /\ s.step = "look" /\ s.of = of
    BY <2>2, NoRowType DEF EditStates, Steps
  <2>4. edit' = [edit EXCEPT ![e] = s] /\ OthersTyped
    BY <2>1 DEF ReportFailures, cacheVars, OthersTyped, ToolsTypeOK
  <2> HIDE DEF s, of
  <2> QED BY <2>2, <2>3, <2>4, EditorsKnown, EditMoves DEF OthersTyped
<1> QED BY <1>1, <1>2

\* An edit goes on or fails.
LEMMA EditKeeps ==
    ASSUME ToolsTypeOK, NEW e \in Editors, EditStep(e) \/ EditFails(e)
    PROVE  ToolsTypeOK'
<1>1. /\ edit[e] \in EditStates /\ edit[e].seen \in Rows
      /\ edit[e].seen.disabled \in SUBSET Tools
      /\ edit[e].step \in {"none", "done"} <=> edit[e].of = NoEdit
      /\ edit[e].step \in {"look", "load"} => edit[e].of.by = "automation"
      /\ edit[e].of \in Edits \cup {NoEdit}
      /\ stored \in Rows /\ stored.disabled \in SUBSET Tools
      /\ queryFaults \in 0 .. MaxQueryFaults
  BY DEF ToolsTypeOK, EditStates, Rows
<1>2. {"load", "save", "refresh", "set"} \subseteq Steps \ {"none", "look", "done"}
  BY DEF Steps
<1>3. CASE LookUp(e)
  <2>1. OthersTyped /\ edit[e].of # NoEdit /\ edit[e].of.by = "automation"
    BY <1>1, <1>3 DEF LookUp, cacheVars, OthersTyped, ToolsTypeOK
  <2>2. Finish(e) \/ Advance(e, "load", NoRow)
    BY <1>3 DEF LookUp
  <2> QED BY <1>2, <2>1, <2>2, NoRowType, FinishKeeps, AdvanceKeeps
<1>4. CASE LoadRow(e)
  <2> DEFINE row == [stored EXCEPT !.disabled = @ \cup {edit[e].of.tool}]
  <2>1. /\ OthersTyped /\ edit[e].of # NoEdit
        /\ edit[e].of \in Edits /\ edit[e].of.by = "automation"
    BY <1>1, <1>4 DEF LoadRow, cacheVars, OthersTyped, ToolsTypeOK
  <2>2. edit[e].of.tool \in Tools
    BY <2>1 DEF Edits
  <2>3. row \in Rows
    BY <1>1, <2>2 DEF Rows
  <2>4. Finish(e) \/ Advance(e, "save", row)
    BY <1>4 DEF LoadRow
  <2> HIDE DEF row
  <2> QED BY <1>2, <2>1, <2>3, <2>4, FinishKeeps, AdvanceKeeps
<1>5. CASE SaveRow(e)
  <2>1. queryFaults' \in 0 .. MaxQueryFaults
    BY <1>1, <1>5, FaultBound DEF SaveRow
  <2>2. OthersTyped /\ edit[e].of # NoEdit
    BY <1>1, <1>5, <2>1 DEF SaveRow, OthersTyped, ToolsTypeOK
  <2>3. \/ Finish(e)
        \/ edit[e].of.by \in {"automation", "apply"} /\ Advance(e, "refresh", NoRow)
    BY <1>5 DEF SaveRow
  <2> QED BY <1>2, <2>2, <2>3, NoRowType, FinishKeeps, AdvanceKeeps
<1>6. CASE EditorLoads(e)
  <2>1. queryFaults' \in 0 .. MaxQueryFaults
    BY <1>1, <1>6, FaultBound DEF EditorLoads
  <2>2. OthersTyped /\ edit[e].of # NoEdit
    BY <1>1, <1>6, <2>1 DEF EditorLoads, cacheVars, OthersTyped, ToolsTypeOK
  <2>3. edit[e].of.by \in {"automation", "apply"}
    BY <1>6 DEF EditorLoads, ToolsTypeOK
  <2> DEFINE list == [NoRow EXCEPT !.disabled = stored.disabled]
  <2>4. list \in Rows
    BY <1>1, NoRowType DEF Rows
  <2>5. Advance(e, "set", list) \/ Advance(e, "set", NoRow)
    BY <1>6 DEF EditorLoads
  <2> HIDE DEF list
  <2> QED BY <1>2, <2>2, <2>3, <2>4, <2>5, NoRowType, AdvanceKeeps
<1>7. CASE EditorSets(e)
  <2>1. OthersTyped
    BY <1>1, <1>7 DEF EditorSets, OthersTyped, ToolsTypeOK
  <2>2. Finish(e)
    BY <1>7 DEF EditorSets
  <2> QED BY <2>1, <2>2, FinishKeeps
<1>8. CASE EditFails(e)
  <2>1. queryFaults' \in 0 .. MaxQueryFaults
    BY <1>8, FaultBound DEF EditFails
  <2>2. OthersTyped
    BY <1>1, <1>8, <2>1 DEF EditFails, cacheVars, OthersTyped, ToolsTypeOK
  <2>3. Finish(e)
    BY <1>8 DEF EditFails
  <2> QED BY <2>2, <2>3, FinishKeeps
<1> QED BY <1>3, <1>4, <1>5, <1>6, <1>7, <1>8 DEF EditStep

LEMMA ToolsInitTyped == ToolsInit => ToolsTypeOK
<1> SUFFICES ASSUME ToolsInit PROVE ToolsTypeOK
  OBVIOUS
<1>1. [step |-> "none", seen |-> {}] \in Refreshes
  BY DEF Refreshes
<1> DEFINE s == [of |-> NoEdit, step |-> "none", seen |-> NoRow]
<1>2. s \in EditStates /\ s.step = "none" /\ s.of = NoEdit
  BY NoRowType DEF EditStates, Steps
<1>3. edit = [e \in Editors |-> s]
  BY DEF ToolsInit
<1> HIDE DEF s
<1>4. /\ edit \in [Editors -> EditStates]
      /\ \A e \in Editors : edit[e] = s
  BY <1>2, <1>3
<1>5. /\ stored \in Rows /\ notified \in SUBSET Instances
      /\ cache \in [Instances -> SUBSET Tools]
      /\ refreshing \in [Instances -> Refreshes]
      /\ queryFaults \in 0 .. MaxQueryFaults
  BY <1>1, DisabledAssumption DEF ToolsInit, Rows
<1> QED BY <1>2, <1>4, <1>5 DEF ToolsTypeOK

\* disabled-tools-cache.ts and governance-event-automation.ts: whatever
\* queries fail and however edits and refreshes interleave, a finished edit
\* is forgotten, only automation looks before it loads the row to change, and
\* only automation and apply_resource_actions refresh.
THEOREM ToolsWellTyped == ToolsSpec => []ToolsTypeOK
<1>1. ASSUME ToolsTypeOK, [ToolsNext]_toolsVars PROVE ToolsTypeOK'
  <2>1. CASE UNCHANGED toolsVars
    BY <1>1, <2>1 DEF toolsVars, cacheVars, ToolsTypeOK
  <2> QED BY <1>1, <2>1, CacheKeeps, BeginKeeps, EditKeeps DEF ToolsNext
<1> QED BY <1>1, ToolsInitTyped, PTL DEF ToolsSpec
=============================================================================
