---------------------------- MODULE GovernedTool ----------------------------
(***************************************************************************)
(* Every tool call of a server process goes through the handler that       *)
(* createGovernedToolRegistrar puts around the tool                        *)
(* (mcp/core/governance/governed-tool-registrar.ts): the checks, the cost  *)
(* budget (cost-budget.ts), the tool itself with its retries, and the      *)
(* record of what it cost or that it failed.                               *)
(*                                                                         *)
(* Two ledgers are kept.  The budget is checked against the cost ledger, a *)
(* file of one line per call, before the tool runs, with an estimate from  *)
(* the input; the line is written afterwards, with what the call cost by   *)
(* its output.  A line is appended by reading the whole file and writing   *)
(* it back with the line (appendTextFileAtomic in                          *)
(* persistence/atomic-file.ts), two waits in which other calls go on.      *)
(* Before every attempt to append, a row is inserted into the table        *)
(* cost_ledger; a failure to do so is swallowed, and no check reads it.    *)
(*                                                                         *)
(* Writing the line of a successful run is inside the try that surrounds   *)
(* the run: when it fails the run counts as failed and may be repeated.    *)
(***************************************************************************)
EXTENDS Integers, FiniteSets

CONSTANTS Callers,      \* who makes calls, one at a time each
          Limit,        \* the budget
          MaxEstimate,  \* bound: the most a call is estimated to cost
          MaxCharge,    \* the most a call costs: what is counted of input and
                        \* output is cut to a fixed number of characters
          MaxRetries,   \* retries of the tool after the first attempt
          Threshold,    \* recent failures that are reported
          MaxCalls,     \* bound: calls made
          MaxFaults     \* bound: file operations and queries that fail

ASSUME GovernedAssumption ==
    /\ IsFiniteSet(Callers) /\ Callers # {}
    /\ Limit \in Nat
    /\ MaxEstimate \in Nat \ {0} /\ MaxCharge \in Nat \ {0}
    /\ MaxRetries \in 0..5
    /\ Threshold \in Nat \ {0}
    /\ MaxCalls \in Nat /\ MaxFaults \in Nat

VARIABLES pc,         \* pc[c]: where the call of c is
          attempt,    \* attempt[c]: retries made
          entry,      \* entry[c]: the status of the line that c writes
          usage,      \* usage[c]: the charge in that line
          read,       \* read[c]: the charges in the file as c read it to append
          account,    \* account[c], history of the call: its rows in the table
                      \* and those that failed (missed), its lines in the
                      \* file and the appends that failed, and how often the
                      \* tool returned
          outcome,    \* outcome[c]: how the last call of c ended
          ledger,     \* the charges in the file; blocked calls are not charges
          spent,      \* history: the charges written, still in the file or not
          lost,       \* history: the most charges ever missing from the file
          failures,   \* failures of the tool in the last ten minutes, up to Threshold
          cooling,    \* they were reported within the last minute
          made,       \* calls so far
          faults      \* faults so far

callVars == <<pc, attempt, entry, usage, read, account, outcome>>
ledgerVars == <<ledger, spent, lost>>
failureVars == <<failures, cooling>>
vars == <<callVars, ledgerVars, failureVars, made, faults>>

Places == {"idle", "checks", "budget", "config", "run", "backoff",
           "record", "append", "write", "fail", "report"}
Statuses == {"none", "success", "error", "blocked"}
Outcomes == {"none", "refused", "succeeded", "failed", "threw"}

NoAccount == [rows |-> 0, missed |-> 0, lines |-> 0, failed |-> 0, returned |-> 0]

Init ==
    /\ pc = [c \in Callers |-> "idle"]
    /\ attempt = [c \in Callers |-> 0]
    /\ entry = [c \in Callers |-> "none"]
    /\ usage = [c \in Callers |-> 0]
    /\ read = [c \in Callers |-> 0]
    /\ account = [c \in Callers |-> NoAccount]
    /\ outcome = [c \in Callers |-> "none"]
    /\ ledger = 0
    /\ spent = 0 /\ lost = 0
    /\ failures = 0
    /\ cooling = FALSE
    /\ made = 0
    /\ faults = 0

Fault ==
    /\ faults < MaxFaults
    /\ faults' = faults + 1

GoTo(c, place) ==
    /\ pc' = [pc EXCEPT ![c] = place]
    /\ UNCHANGED outcome

End(c, how) ==
    /\ pc' = [pc EXCEPT ![c] = "idle"]
    /\ outcome' = [outcome EXCEPT ![c] = how]

\* What the line counts for: sum leaves the blocked ones out.
Usages(status) == IF status = "blocked" THEN {0} ELSE 1..MaxCharge

\* The row and the line are made up: they are written next.
Record(c, status) ==
    /\ GoTo(c, "record")
    /\ entry' = [entry EXCEPT ![c] = status]
    /\ \E units \in Usages(status) : usage' = [usage EXCEPT ![c] = units]

-----------------------------------------------------------------------------
(* Before the tool runs.                                                   *)

Call(c) ==
    /\ pc[c] = "idle" /\ made < MaxCalls
    /\ made' = made + 1
    /\ pc' = [pc EXCEPT ![c] = "checks"]
    /\ attempt' = [attempt EXCEPT ![c] = 0]
    /\ entry' = [entry EXCEPT ![c] = "none"]
    /\ usage' = [usage EXCEPT ![c] = 0]
    /\ read' = [read EXCEPT ![c] = 0]
    /\ account' = [account EXCEPT ![c] = NoAccount]
    /\ outcome' = [outcome EXCEPT ![c] = "none"]
    /\ UNCHANGED <<ledgerVars, failureVars, faults>>

\* Access, execution policy, policy engine, policy gate, the list of
\* disabled tools (DisabledTools.tla) and the rate limit refuse or pass.
Check(c) ==
    /\ pc[c] = "checks"
    /\ End(c, "refused") \/ GoTo(c, "budget")
    /\ UNCHANGED <<attempt, entry, usage, read, account,
                   ledgerVars, failureVars, made, faults>>

\* Faulty variant: only what was spent already is compared with the limit.
FitsWithoutEstimate(used, estimate) == used <= Limit

\* checkLimit
Fits(used, estimate) == used + estimate <= Limit

\* assertWithin; a ledger that cannot be read counts as empty.
CheckBudget(c) ==
    /\ pc[c] = "budget"
    /\ \E used \in {0, ledger}, estimate \in 1..MaxEstimate :
          /\ IF used = ledger THEN UNCHANGED faults ELSE Fault
          /\ IF Fits(used, estimate)
             THEN GoTo(c, "config") /\ UNCHANGED <<entry, usage>>
             ELSE Record(c, "blocked")
    /\ UNCHANGED <<attempt, read, account, ledgerVars, failureVars, made>>

\* getRetryConfig loads the governance state, outside the try.
LoadRetryConfig(c) ==
    /\ pc[c] = "config"
    /\ \/ GoTo(c, "run") /\ UNCHANGED faults
       \/ End(c, "threw") /\ Fault
    /\ UNCHANGED <<attempt, entry, usage, read, account,
                   ledgerVars, failureVars, made>>

-----------------------------------------------------------------------------
(* The tool and its retries.                                               *)

\* Faulty variants: one retry too many; the retry is not counted.
AttemptFailsOneMore(c, retryable) ==
    IF retryable /\ attempt[c] <= MaxRetries
    THEN /\ GoTo(c, "backoff")
         /\ attempt' = [attempt EXCEPT ![c] = @ + 1]
         /\ UNCHANGED <<entry, usage>>
    ELSE Record(c, "error") /\ UNCHANGED attempt

AttemptFailsUncounted(c, retryable) ==
    IF retryable /\ attempt[c] < MaxRetries
    THEN GoTo(c, "backoff") /\ UNCHANGED <<attempt, entry, usage>>
    ELSE Record(c, "error") /\ UNCHANGED attempt

\* The catch: a retryable error is tried again while retries are left.
AttemptFails(c, retryable) ==
    IF retryable /\ attempt[c] < MaxRetries
    THEN /\ GoTo(c, "backoff")
         /\ attempt' = [attempt EXCEPT ![c] = @ + 1]
         /\ UNCHANGED <<entry, usage>>
    ELSE /\ Record(c, "error")
         /\ UNCHANGED attempt

\* The tool returns, or it throws, or the recorder around it does.
RunTool(c) ==
    /\ pc[c] = "run"
    /\ \/ /\ Record(c, "success")
          /\ account' = [account EXCEPT ![c].returned = @ + 1]
          /\ UNCHANGED attempt
       \/ /\ \E retryable \in BOOLEAN : AttemptFails(c, retryable)
          /\ UNCHANGED account
    /\ UNCHANGED <<read, ledgerVars, failureVars, made, faults>>

BackOff(c) ==
    /\ pc[c] = "backoff"
    /\ GoTo(c, "run")
    /\ UNCHANGED <<attempt, entry, usage, read, account,
                   ledgerVars, failureVars, made, faults>>

-----------------------------------------------------------------------------
(* The row in the table and the line in the file.                          *)

\* recordCostLedger: whatever fails is swallowed.
InsertRow(c) ==
    /\ pc[c] = "record"
    /\ GoTo(c, "append")
    /\ \/ account' = [account EXCEPT ![c].rows = @ + 1] /\ UNCHANGED faults
       \/ account' = [account EXCEPT ![c].missed = @ + 1] /\ Fault
    /\ UNCHANGED <<attempt, entry, usage, read, ledgerVars, failureVars, made>>

\* A failure to append after a successful run is one of the attempt; after
\* an error or a refusal it is thrown to the caller instead of the result.
AppendFails(c) ==
    IF entry[c] = "success"
    THEN \E retryable \in BOOLEAN : AttemptFails(c, retryable)
    ELSE End(c, "threw") /\ UNCHANGED <<attempt, entry, usage>>

ReadLedger(c) ==
    /\ pc[c] = "append"
    /\ \/ /\ GoTo(c, "write")
          /\ read' = [read EXCEPT ![c] = ledger]
          /\ UNCHANGED <<attempt, entry, usage, account, faults>>
       \/ /\ Fault
          /\ AppendFails(c)
          /\ account' = [account EXCEPT ![c].failed = @ + 1]
          /\ UNCHANGED read
    /\ UNCHANGED <<ledgerVars, failureVars, made>>

AfterRecord(c) ==
    CASE entry[c] = "success" -> End(c, "succeeded")
      [] entry[c] = "blocked" -> End(c, "refused")
      [] entry[c] = "error"   -> GoTo(c, "fail")

\* The file becomes what c read and its line: what others wrote since is gone.
Append(c) ==
    /\ ledger' = read[c] + usage[c]
    /\ spent' = spent + usage[c]
    /\ LET missing == spent' - ledger'
       IN  lost' = IF missing > lost THEN missing ELSE lost

\* Faulty variant: a write that fails has reached the file all the same.
WriteLedgerInPlace(c) ==
    /\ pc[c] = "write"
    /\ Append(c)
    /\ \/ /\ AfterRecord(c)
          /\ account' = [account EXCEPT ![c].lines = @ + 1]
          /\ usage' = [usage EXCEPT ![c] = 0]
          /\ UNCHANGED <<attempt, entry, faults>>
       \/ /\ Fault
          /\ AppendFails(c)
          /\ account' = [account EXCEPT ![c].lines = @ + 1, ![c].failed = @ + 1]
    /\ read' = [read EXCEPT ![c] = 0]
    /\ UNCHANGED <<failureVars, made>>

\* The temporary file is written and renamed, or all is as before.
WriteLedger(c) ==
    /\ pc[c] = "write"
    /\ \/ /\ Append(c)
          /\ AfterRecord(c)
          /\ account' = [account EXCEPT ![c].lines = @ + 1]
          /\ usage' = [usage EXCEPT ![c] = 0]
          /\ UNCHANGED <<attempt, entry, faults>>
       \/ /\ Fault
          /\ AppendFails(c)
          /\ account' = [account EXCEPT ![c].failed = @ + 1]
          /\ UNCHANGED ledgerVars
    /\ read' = [read EXCEPT ![c] = 0]
    /\ UNCHANGED <<failureVars, made>>

\* registerToolFailure; a report is awaited by the call.
RegisterToolFailure(c) ==
    /\ pc[c] = "fail"
    /\ LET enough == failures + 1 >= Threshold
       IN  /\ failures' = IF enough THEN Threshold ELSE failures + 1
           /\ cooling' = (cooling \/ enough)
           /\ IF enough /\ ~cooling THEN GoTo(c, "report") ELSE End(c, "failed")
    /\ UNCHANGED <<attempt, entry, usage, read, account,
                   ledgerVars, made, faults>>

\* error_aggregate_detected has been emitted.
Reported(c) ==
    /\ pc[c] = "report"
    /\ End(c, "failed")
    /\ UNCHANGED <<attempt, entry, usage, read, account,
                   ledgerVars, failureVars, made, faults>>

\* A minute passes after a report; ten minutes pass after some failures.
CoolDown ==
    /\ cooling
    /\ cooling' = FALSE
    /\ UNCHANGED <<callVars, ledgerVars, failures, made, faults>>

WindowPasses ==
    /\ failures' \in 0..(failures - 1)
    /\ cooling' = (cooling /\ failures' > 0)
    /\ UNCHANGED <<callVars, ledgerVars, made, faults>>

-----------------------------------------------------------------------------
CallStep(c) ==
    \/ Check(c) \/ CheckBudget(c) \/ LoadRetryConfig(c)
    \/ RunTool(c) \/ BackOff(c)
    \/ InsertRow(c) \/ ReadLedger(c) \/ WriteLedger(c)
    \/ RegisterToolFailure(c) \/ Reported(c)

Next ==
    \/ \E c \in Callers : Call(c) \/ CallStep(c)
    \/ CoolDown \/ WindowPasses

\* What a call waits for is answered, and the tool returns or throws.
Fairness == \A c \in Callers : WF_vars(CallStep(c))

Spec == Init /\ [][Next]_vars /\ Fairness

-----------------------------------------------------------------------------
(* Properties.                                                             *)

\* The calls that passed the budget and have not been charged yet.
InFlight ==
    {c \in Callers :
        \/ pc[c] \in {"config", "run", "backoff"}
        \/ pc[c] \in {"record", "append", "write"} /\ entry[c] # "blocked"}

Accounts ==
    [rows : Nat, missed : Nat, lines : Nat, failed : Nat, returned : Nat]

TypeOK ==
    /\ pc \in [Callers -> Places]
    /\ attempt \in [Callers -> 0..MaxRetries]
    /\ entry \in [Callers -> Statuses]
    /\ usage \in [Callers -> 0..MaxCharge]
    /\ read \in [Callers -> Nat]
    /\ account \in [Callers -> Accounts]
    /\ outcome \in [Callers -> Outcomes]
    /\ ledger \in Nat /\ spent \in Nat /\ lost \in Nat
    /\ failures \in 0..Threshold
    /\ cooling \in BOOLEAN
    /\ made \in 0..MaxCalls
    /\ faults \in 0..MaxFaults

\* The file: a call has at most one line, written after its last attempt, and
\* just one when it reports its result or its failure; one that was refused
\* has none that counts, one that threw has none.
LineOnce(c) ==
    LET lines == account[c].lines
    IN  /\ lines <= 1
        /\ pc[c] \notin {"idle", "fail", "report"} => lines = 0
        /\ outcome[c] \in {"succeeded", "failed"} =>
              lines = 1 /\ entry[c] # "blocked"
        /\ outcome[c] = "refused" => lines = 0 \/ entry[c] = "blocked"
        /\ outcome[c] = "threw" => lines = 0

\* The table: a call has a row for its line and one more for every append
\* that failed, but for the rows that failed themselves.
RowPerAppend(c) ==
    account[c].rows + account[c].missed =
        account[c].lines + account[c].failed
            + (IF pc[c] \in {"append", "write"} THEN 1 ELSE 0)

\* A tool that returned is run again only because its line was not written.
RerunOnlyUncharged(c) == account[c].returned <= 1 + account[c].failed

\* recordCostLedger, recordUsage and the catch around them: however many
\* attempts a call takes and whichever write fails, the file charges it once,
\* the table has as many rows more as appends failed, and only such a failure
\* makes a tool that returned run once more.
LedgersAccountedFor ==
    \A c \in Callers : LineOnce(c) /\ RowPerAppend(c) /\ RerunOnlyUncharged(c)

\* assertWithin is asked before the call, with an estimate, and the charge is
\* written after it, by what the tool returned, through a read and a write of
\* the file that others may do in between.  What was spent and what the calls
\* that passed may still spend exceeds the last unit below the budget by the
\* charge of each caller, one for each time the ledger could not be read, and
\* the charges that were missing from the file: never by more.  A single
\* caller whose output is larger than estimated exceeds it without any fault.
OvershootBounded ==
    spent + MaxCharge * Cardinality(InFlight)
        <= (Limit - 1) + MaxCharge * (Cardinality(Callers) + faults) + lost

\* Every call is answered in the end, refused, done, failed or thrown: the
\* retries are limited whatever fails.
EveryCallEnds == \A c \in Callers : pc[c] = "checks" ~> pc[c] = "idle"
=============================================================================
