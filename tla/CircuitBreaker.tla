--------------------------- MODULE CircuitBreaker ---------------------------
(***************************************************************************)
(* The circuit breaker for AWS operations, and executeWithCircuitBreaker,  *)
(* the reconciler's way to call through it.                                *)
(*                                                                         *)
(* A caller is a goroutine: it asks whether the operation is allowed, asks *)
(* again in Execute (each question is a critical section of its own), runs *)
(* the operation without the mutex and records its result in a third       *)
(* section.  The result may be recorded long after the breaker has changed *)
(* state.                                                                  *)
(***************************************************************************)
EXTENDS Naturals, FiniteSets

CONSTANTS
  Callers,                \* goroutines that call AWS
  FailureThreshold,       \* consecutive failures that open the circuit
  SuccessThreshold,       \* consecutive successes that close it again
  MaxConcurrentRequests   \* requests admitted in the half-open state

VARIABLES
  state,         \* "closed", "open" or "half-open"
  failureCount,  \* consecutive failures, counted up to FailureThreshold
  successCount,
  requestCount,
  timedOut,      \* Timeout has passed since lastFailureTime
  pc,            \* what a caller does
  healthy,       \* the service answers: an operation that ends succeeds
  probes         \* history: admissions in this half-open period

vars == <<state, failureCount, successCount, requestCount, timedOut, pc, healthy, probes>>

counters == <<state, failureCount, successCount, requestCount, timedOut, probes>>

TypeOK ==
  /\ state \in {"closed", "open", "half-open"}
  /\ failureCount \in 0..FailureThreshold
  /\ successCount \in 0..(SuccessThreshold - 1)
  /\ requestCount \in 0..MaxConcurrentRequests
  /\ timedOut \in BOOLEAN
  /\ pc \in [Callers -> {"idle", "allowed", "running"}]
  /\ healthy \in BOOLEAN
  /\ probes \in Nat

Init ==
  /\ state = "closed"
  /\ failureCount = 0 /\ successCount = 0 /\ requestCount = 0
  /\ timedOut = FALSE
  /\ pc = [c \in Callers |-> "idle"]
  /\ healthy \in BOOLEAN
  /\ probes = 0

Goto(c, to) == pc' = [pc EXCEPT ![c] = to]

\* The answer of both questions, for the state they find.
Allowed ==
  \/ state = "closed"
  \/ state = "open" /\ timedOut
  \/ state = "half-open" /\ requestCount < MaxConcurrentRequests

\* executeWithCircuitBreaker goes on to Execute; a refused call returns at once.
IsOperationAllowed(c) ==
  /\ pc[c] = "idle" /\ Allowed
  /\ Goto(c, "allowed")
  /\ UNCHANGED <<counters, healthy>>

\* Mutant of AllowRequest: the half-open breaker does not count what it admits.
AllowRequestUncounted(c) ==
  /\ pc[c] = "allowed"
  /\ UNCHANGED <<failureCount, timedOut, healthy>>
  /\ IF Allowed
     THEN /\ Goto(c, "running")
          /\ state' = IF state = "open" THEN "half-open" ELSE state
          /\ requestCount' = IF state = "open" THEN 0 ELSE requestCount
          /\ successCount' = IF state = "open" THEN 0 ELSE successCount
          /\ probes' = IF state = "closed" THEN probes ELSE probes + 1
     ELSE Goto(c, "idle") /\ UNCHANGED <<state, requestCount, successCount, probes>>

\* Execute asks again.  The call that finds the circuit open for long enough makes it
\* half-open and goes through without being counted.
AllowRequest(c) ==
  /\ pc[c] = "allowed"
  /\ UNCHANGED <<failureCount, timedOut, healthy>>
  /\ \/ /\ ~Allowed
        /\ Goto(c, "idle")
        /\ UNCHANGED <<state, requestCount, successCount, probes>>
     \/ /\ state = "closed"
        /\ Goto(c, "running")
        /\ UNCHANGED <<state, requestCount, successCount, probes>>
     \/ /\ state = "open" /\ Allowed
        /\ Goto(c, "running")
        /\ state' = "half-open"
        /\ requestCount' = 0 /\ successCount' = 0
        /\ probes' = 1
     \/ /\ state = "half-open" /\ Allowed
        /\ Goto(c, "running")
        /\ requestCount' = requestCount + 1
        /\ probes' = probes + 1
        /\ UNCHANGED <<state, successCount>>

\* Mutant of OnSuccess: the circuit closes with its count of successes kept.
OnSuccessKeptCount(c) ==
  /\ pc[c] = "running" /\ healthy
  /\ Goto(c, "idle")
  /\ failureCount' = 0
  /\ successCount' = IF state = "half-open" THEN successCount + 1 ELSE successCount
  /\ state' = IF successCount' >= SuccessThreshold THEN "closed" ELSE state
  /\ UNCHANGED <<requestCount, timedOut, healthy, probes>>

\* The operation succeeded, whatever the state in which it was admitted.
OnSuccess(c) ==
  /\ pc[c] = "running" /\ healthy
  /\ Goto(c, "idle")
  /\ failureCount' = 0
  /\ UNCHANGED <<timedOut, healthy>>
  /\ \/ /\ state # "half-open"
        /\ UNCHANGED <<state, successCount, requestCount, probes>>
     \/ /\ state = "half-open" /\ successCount + 1 < SuccessThreshold
        /\ successCount' = successCount + 1
        /\ UNCHANGED <<state, requestCount, probes>>
     \/ /\ state = "half-open" /\ successCount + 1 >= SuccessThreshold
        /\ state' = "closed"
        /\ successCount' = 0 /\ requestCount' = 0 /\ probes' = 0

\* The operation failed.  A count beyond the threshold has no effect of its own.
OnFailure(c) ==
  /\ pc[c] = "running" /\ ~healthy
  /\ Goto(c, "idle")
  /\ failureCount' = IF failureCount < FailureThreshold THEN failureCount + 1 ELSE failureCount
  /\ timedOut' = FALSE
  /\ UNCHANGED healthy
  /\ \/ /\ state = "closed"
        /\ state' = IF failureCount' >= FailureThreshold THEN "open" ELSE "closed"
        /\ UNCHANGED <<successCount, requestCount, probes>>
     \/ /\ state = "half-open"
        /\ state' = "open"
        /\ successCount' = 0 /\ requestCount' = 0 /\ probes' = 0
     \/ /\ state = "open"
        /\ UNCHANGED <<state, successCount, requestCount, probes>>

-----------------------------------------------------------------------------
(* The environment *)

TimeoutPasses ==
  /\ state = "open" /\ ~timedOut
  /\ timedOut' = TRUE
  /\ UNCHANGED <<state, failureCount, successCount, requestCount, pc, healthy, probes>>

ServiceChanges ==
  /\ healthy' = ~healthy
  /\ UNCHANGED <<counters, pc>>

Reset ==
  /\ state' = "closed"
  /\ failureCount' = 0 /\ successCount' = 0 /\ requestCount' = 0 /\ probes' = 0
  /\ UNCHANGED <<timedOut, pc, healthy>>

Step(c) == IsOperationAllowed(c) \/ AllowRequest(c) \/ OnSuccess(c) \/ OnFailure(c)

Next ==
  \/ \E c \in Callers : Step(c)
  \/ TimeoutPasses \/ ServiceChanges \/ Reset

Spec == Init /\ [][Next]_vars

\* Reconciles keep coming, an AWS call ends, and time passes.  Nobody is bound to reset
\* the breaker, and the service need not recover.
Fairness == WF_vars(TimeoutPasses) /\ \A c \in Callers : WF_vars(Step(c))

FairSpec == Spec /\ Fairness

-----------------------------------------------------------------------------
(* Properties *)

\* MaxConcurrentRequests is the maximum number of requests allowed in half-open state.  The
\* code admits one more: the request that ends the open state is not counted.
FewProbes == state = "half-open" => probes <= MaxConcurrentRequests

\* What the code does keep: one half-open period sends at most one request more than that
\* to a service that may still be down, however many callers wait and however late the
\* results of older requests arrive.
AtMostOneMoreProbe == state = "half-open" => probes <= MaxConcurrentRequests + 1

\* SuccessThreshold successes close the circuit: once the service stays healthy it is closed
\* again and again, and the breaker does not go on refusing requests that would succeed.
\* With the thresholds the program ships, 3 successes and 1 request, it does.
Recovers == <>[]healthy => []<>(state = "closed")

=============================================================================
