--------------------------- MODULE CircuitBreaker ---------------------------
(***************************************************************************)
(* The circuit breaker around a provider                                   *)
(* (mcp/core/reliability/circuit-breaker.ts).                              *)
(*                                                                         *)
(* execute looks at the circuit, awaits the protected function and records *)
(* its result; any number of calls may be awaiting at once, and the        *)
(* circuit may have moved on when a result comes in.  Time is left out     *)
(* but for the one comparison the code makes with it: whether cooldownMs   *)
(* have passed since the circuit opened.                                   *)
(***************************************************************************)
EXTENDS Naturals, Sequences, FiniteSets

CONSTANTS Calls,            \* concurrent callers; each calls again and again
          WindowSize,       \* how many results are remembered
          MinCalls,         \* minCallsInWindow
          ThresholdPercent, \* failureRateThreshold, in percent
          TrialsNeeded      \* halfOpenSuccessThreshold

ASSUME CircuitBreakerAssumption ==
    /\ {WindowSize, MinCalls, TrialsNeeded} \subseteq Nat \ {0}
    /\ ThresholdPercent \in 1 .. 100

VARIABLES state,      \* the circuit: "closed", "open", "half-open"
          window,     \* the last results: TRUE is a success
          openedAt,   \* "null", or "cooling" and then "cooled" once opened
          successes,  \* halfOpenSuccesses
          calls,      \* calls[c]: "idle", or the state that let c through
          healthy,    \* the provider has recovered for good
          failures    \* history: failures recorded since the circuit was last
                      \* closed, counted up to MinCalls

vars == <<state, window, openedAt, successes, calls, healthy, failures>>

circuit == <<state, openedAt, successes>>

States == {"closed", "open", "half-open"}

-----------------------------------------------------------------------------
Init ==
    /\ state = "closed"
    /\ window = <<>>
    /\ openedAt = "null"
    /\ successes = 0
    /\ calls = [c \in Calls |-> "idle"]
    /\ healthy = FALSE
    /\ failures = 0

FailuresIn(w) == Cardinality({i \in DOMAIN w : ~ w[i]})

\* failureRate >= failureRateThreshold
RateReached(w) == 100 * FailuresIn(w) >= ThresholdPercent * Len(w)

\* push: the window slides.
Pushed(result) ==
    LET w == Append(window, result)
    IN  IF Len(w) > WindowSize THEN Tail(w) ELSE w

\* transitionTo("open") from another state
Open ==
    /\ state' = "open"
    /\ openedAt' = "cooling"
    /\ UNCHANGED successes

\* transitionTo("closed") from another state; w is the window it would have
\* had.
Close(w) ==
    /\ state' = "closed"
    /\ window' = <<>>
    /\ openedAt' = "null"
    /\ successes' = 0
    /\ failures' = 0

CoolDownOver == state = "open" /\ openedAt = "cooled"

\* Faulty variant: a circuit that becomes half-open once more still has the
\* successes of the time before.
LookKeepingSuccesses ==
    IF CoolDownOver
    THEN state' = "half-open" /\ UNCHANGED <<successes, openedAt>>
    ELSE UNCHANGED circuit

\* maybeTransitionToHalfOpen; transitionTo("half-open") leaves openedAt.
Look ==
    IF CoolDownOver
    THEN state' = "half-open" /\ successes' = 0 /\ UNCHANGED openedAt
    ELSE UNCHANGED circuit

-----------------------------------------------------------------------------
\* The getter currentState, which getState calls on every breaker.
CurrentState ==
    /\ Look
    /\ UNCHANGED <<window, calls, healthy, failures>>

\* execute up to the await: an open circuit rejects the call.
Call(c) ==
    /\ calls[c] = "idle"
    /\ Look
    /\ calls' = [calls EXCEPT ![c] = IF state' = "open" THEN "idle" ELSE state']
    /\ UNCHANGED <<window, healthy, failures>>

\* Faulty variant: a success is not looked at in the half-open circuit.
SucceedUnseen(c) ==
    /\ calls[c] # "idle"
    /\ calls' = [calls EXCEPT ![c] = "idle"]
    /\ window' = Pushed(TRUE)
    /\ UNCHANGED <<circuit, healthy, failures>>

\* recordSuccess, in whatever state the circuit is by now.
Succeed(c) ==
    /\ calls[c] # "idle"
    /\ calls' = [calls EXCEPT ![c] = "idle"]
    /\ UNCHANGED healthy
    /\ IF state = "half-open" /\ successes + 1 >= TrialsNeeded
       THEN Close(Pushed(TRUE))
       ELSE /\ window' = Pushed(TRUE)
            /\ successes' = IF state = "half-open" THEN successes + 1 ELSE successes
            /\ UNCHANGED <<state, openedAt, failures>>

\* Faulty variant: the rate has to exceed the threshold.
OpensAbove(w) ==
    \/ state = "half-open"
    \/ /\ state = "closed" /\ Len(w) >= MinCalls
       /\ 100 * FailuresIn(w) > ThresholdPercent * Len(w)

\* recordFailure and evaluateWindow: when a failure opens the circuit.
Opens(w) ==
    \/ state = "half-open"
    \/ state = "closed" /\ Len(w) >= MinCalls /\ RateReached(w)

\* recordFailure, in whatever state the circuit is by now.
Fail(c) ==
    /\ calls[c] # "idle"
    /\ ~ healthy
    /\ calls' = [calls EXCEPT ![c] = "idle"]
    /\ window' = Pushed(FALSE)
    /\ failures' = IF failures < MinCalls THEN failures + 1 ELSE failures
    /\ IF Opens(window') THEN Open ELSE UNCHANGED circuit
    /\ UNCHANGED healthy

\* Faulty variant: the opening time is cleared but the circuit left open.
ResetHalfway ==
    /\ window' = <<>> /\ openedAt' = "null" /\ successes' = 0 /\ failures' = 0
    /\ UNCHANGED <<state, calls, healthy>>

\* reset: whatever the state, all is as in a new circuit.
Reset ==
    /\ Close(<<>>)
    /\ UNCHANGED <<calls, healthy>>

\* cooldownMs have passed since the circuit opened.
Cool ==
    /\ openedAt = "cooling"
    /\ openedAt' = "cooled"
    /\ UNCHANGED <<state, window, successes, calls, healthy, failures>>

\* From now on the provider answers every call.
Recover ==
    /\ ~ healthy
    /\ healthy' = TRUE
    /\ UNCHANGED <<circuit, window, calls, failures>>

Next ==
    \/ \E c \in Calls : Call(c) \/ Succeed(c) \/ Fail(c)
    \/ CurrentState
    \/ Reset
    \/ Cool
    \/ Recover

Spec == Init /\ [][Next]_vars

\* Time passes, the provider once healthy answers every call, and there is
\* always another call: what the recovery of a circuit depends on.
Fairness ==
    /\ WF_vars(Cool)
    /\ \A c \in Calls : WF_vars(Call(c)) /\ WF_vars(healthy /\ Succeed(c))

FairSpec == Spec /\ Fairness

-----------------------------------------------------------------------------
(* Properties.                                                             *)

\* The fields agree with the state of the circuit: an open circuit knows
\* since when, or it would never become half-open; a half-open circuit still
\* needs a success; a closed one starts from nothing.
TypeOK ==
    /\ state \in States
    /\ window \in Seq(BOOLEAN) /\ Len(window) <= WindowSize
    /\ openedAt \in {"null", "cooling", "cooled"}
    /\ successes \in 0 .. TrialsNeeded - 1
    /\ calls \in [Calls -> {"idle", "closed", "half-open"}]
    /\ healthy \in BOOLEAN
    /\ failures \in 0 .. MinCalls
    /\ (state = "closed") <=> (openedAt = "null")
    /\ state = "half-open" => openedAt = "cooled"
    /\ state = "closed" => successes = 0

\* evaluateWindow: a closed circuit opens only when enough calls failed
\* since it was closed, what failed before counts no more; and once a failure
\* makes them enough it does not stay closed.  Enough is the rate itself in
\* the minimum of calls itself, not more.
OpensOnEvidence ==
    [][/\ state = "closed" /\ state' = "open" =>
             100 * failures' >= ThresholdPercent * MinCalls
       /\ state' = "closed" /\ window' # <<>> /\ ~ window'[Len(window')] =>
             ~ /\ Len(window') >= MinCalls
               /\ 100 * FailuresIn(window') >= ThresholdPercent * Len(window')
      ]_vars

\* recordSuccess: the successes counted towards closing a half-open circuit
\* are its latest results, with no failure among them, whether of this trial
\* period or of one before it.
TrialsAllSucceeded ==
    state = "half-open" /\ Len(window) >= successes =>
        \A i \in Len(window) - successes + 1 .. Len(window) : window[i]

\* maybeTransitionToHalfOpen and recordSuccess: once the provider answers
\* again the circuit closes and stays closed; no way through it leaves it
\* open for ever.
Recovers == healthy ~> [](state = "closed")
=============================================================================
