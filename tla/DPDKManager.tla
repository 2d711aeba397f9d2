----------------------------- MODULE DPDKManager -----------------------------
(***************************************************************************)
(* The DPDK manager: binding a PCI device to a DPDK driver, through the    *)
(* manager's circuit breaker and under the device's lock.                  *)
(*                                                                         *)
(* acquireLock keeps locksMutex while it waits for a device's lock, for    *)
(* thirty seconds at most.  It waits in a goroutine of its own; when the   *)
(* wait is given up that goroutine goes on waiting, takes the lock some    *)
(* day and keeps it for ever.                                              *)
(***************************************************************************)
EXTENDS Naturals, FiniteSets

CONSTANTS
  Callers,            \* goroutines that bind devices
  Devices,
  NoDevice,
  FailureThreshold,   \* failures in a row that open the circuit
  SuccessThreshold    \* successes in a row that close it again

VARIABLES
  state, failures, successes, timedOut,   \* the circuit breaker
  locksMutex,     \* the caller that holds it, or "nobody"
  lock,           \* of a device: "free", "taken" by a caller, or "lost"
  abandoned,      \* of a device: somebody's goroutine waits for its lock for nobody
  pc, device,     \* of a caller
  working         \* the script binds devices; else it fails

vars == <<state, failures, successes, timedOut, locksMutex, lock, abandoned, pc, device, working>>

breaker == <<state, failures, successes, timedOut>>
locks == <<locksMutex, lock, abandoned>>

TypeOK ==
  /\ state \in {"closed", "open", "half-open"}
  /\ failures \in 0..FailureThreshold
  /\ successes \in 0..SuccessThreshold
  /\ timedOut \in BOOLEAN
  /\ locksMutex \in Callers \cup {"nobody"}
  /\ lock \in [Devices -> {"free", "taken", "lost"}]
  /\ abandoned \in [Devices -> BOOLEAN]
  /\ pc \in [Callers -> {"idle", "upgrade", "lock", "wait", "script", "succeeded", "failed"}]
  /\ device \in [Callers -> Devices \cup {NoDevice}]
  /\ working \in BOOLEAN

Init ==
  /\ state = "closed" /\ failures = 0 /\ successes = 0 /\ timedOut = FALSE
  /\ locksMutex = "nobody"
  /\ lock = [d \in Devices |-> "free"]
  /\ abandoned = [d \in Devices |-> FALSE]
  /\ pc = [c \in Callers |-> "idle"]
  /\ device = [c \in Callers |-> NoDevice]
  /\ working = TRUE

Goto(c, to) == pc' = [pc EXCEPT ![c] = to]

Return(c) == Goto(c, "idle") /\ device' = [device EXCEPT ![c] = NoDevice]

-----------------------------------------------------------------------------
(* The circuit breaker *)

\* Mutant of canExecute: the half-open circuit admits nobody after the call that opened it.
canExecuteOnce(c, d) ==
  /\ pc[c] = "idle"
  /\ \/ state = "closed" /\ Goto(c, "lock")
     \/ state = "open" /\ timedOut /\ Goto(c, "upgrade")
  /\ device' = [device EXCEPT ![c] = d]
  /\ UNCHANGED <<breaker, locks, working>>

\* canExecute under the read lock: a refused call returns an error and is not recorded.
\* A call that finds the circuit open for long enough gives the read lock up.
canExecute(c, d) ==
  /\ pc[c] = "idle"
  /\ \/ state \in {"closed", "half-open"} /\ Goto(c, "lock")
     \/ state = "open" /\ timedOut /\ Goto(c, "upgrade")
  /\ device' = [device EXCEPT ![c] = d]
  /\ UNCHANGED <<breaker, locks, working>>

\* It looks again under the write lock, and a third time under the read lock (in which
\* nothing else can be found: the two steps are one here).  If others have closed the
\* circuit meanwhile, or opened it again, it is refused.
Upgrade(c) ==
  /\ pc[c] = "upgrade"
  /\ IF state = "open" /\ timedOut
     THEN state' = "half-open" /\ successes' = 0
     ELSE UNCHANGED <<state, successes>>
  /\ IF state' = "half-open"
     THEN Goto(c, "lock") /\ UNCHANGED device
     ELSE Return(c)
  /\ UNCHANGED <<failures, timedOut, locks, working>>

\* A count beyond its threshold has no effect of its own.
Count(n, threshold) == IF n < threshold THEN n + 1 ELSE n

\* recordResult of a success: it counts in every state.
RecordSuccess(c) ==
  /\ pc[c] = "succeeded"
  /\ Return(c)
  /\ failures' = 0
  /\ LET s == Count(successes, SuccessThreshold) IN
     IF state = "half-open" /\ s >= SuccessThreshold
     THEN state' = "closed" /\ successes' = 0
     ELSE successes' = s /\ UNCHANGED state
  /\ UNCHANGED <<timedOut, locks, working>>

\* Also in the half-open state it takes all of FailureThreshold to open the circuit again,
\* counted from the last success.
RecordFailure(c) ==
  /\ pc[c] = "failed"
  /\ Return(c)
  /\ successes' = 0
  /\ failures' = Count(failures, FailureThreshold)
  /\ timedOut' = FALSE
  /\ state' = IF failures' >= FailureThreshold THEN "open" ELSE state
  /\ UNCHANGED <<locks, working>>

Reset ==
  /\ state' = "closed" /\ failures' = 0 /\ successes' = 0
  /\ timedOut' = TRUE
  /\ UNCHANGED <<locks, pc, device, working>>

TimeoutPasses ==
  /\ ~timedOut
  /\ timedOut' = TRUE
  /\ UNCHANGED <<state, failures, successes, locks, pc, device, working>>

-----------------------------------------------------------------------------
(* acquireLock and the binding *)

TakeLocksMutex(c) ==
  /\ pc[c] = "lock" /\ locksMutex = "nobody"
  /\ locksMutex' = c
  /\ Goto(c, "wait")
  /\ UNCHANGED <<breaker, lock, abandoned, device, working>>

\* The goroutine gets the lock in time.
AcquireLock(c) ==
  /\ pc[c] = "wait" /\ lock[device[c]] = "free"
  /\ lock' = [lock EXCEPT ![device[c]] = "taken"]
  /\ locksMutex' = "nobody"
  /\ Goto(c, "script")
  /\ UNCHANGED <<breaker, abandoned, device, working>>

\* Mutant of GiveUp: the mutex of all locks is not given back.
GiveUpLocked(c) ==
  /\ pc[c] = "wait" /\ lock[device[c]] # "free"
  /\ abandoned' = [abandoned EXCEPT ![device[c]] = TRUE]
  /\ Goto(c, "failed")
  /\ UNCHANGED <<breaker, locksMutex, lock, device, working>>

\* Mutant of GiveUp: the caller goes on without the lock.
GiveUpBinds(c) ==
  /\ pc[c] = "wait" /\ lock[device[c]] # "free"
  /\ locksMutex' = "nobody"
  /\ Goto(c, "script")
  /\ UNCHANGED <<breaker, lock, abandoned, device, working>>

\* Thirty seconds have passed.
GiveUp(c) ==
  /\ pc[c] = "wait" /\ lock[device[c]] # "free"
  /\ abandoned' = [abandoned EXCEPT ![device[c]] = TRUE]
  /\ locksMutex' = "nobody"
  /\ Goto(c, "failed")
  /\ UNCHANGED <<breaker, lock, device, working>>

\* A goroutine that was given up gets the lock: nobody is there to release it.
LoseLock(d) ==
  /\ abandoned[d] /\ lock[d] = "free"
  /\ lock' = [lock EXCEPT ![d] = "lost"]
  /\ UNCHANGED <<breaker, locksMutex, abandoned, pc, device, working>>

\* bindPCIDeviceInternal, with the lock: the device is bound already, or the script runs;
\* the lock is released either way.
RunScript(c) ==
  /\ pc[c] = "script"
  /\ lock' = [lock EXCEPT ![device[c]] = "free"]
  /\ Goto(c, IF working THEN "succeeded" ELSE "failed")
  /\ UNCHANGED <<breaker, locksMutex, abandoned, device, working>>

ScriptChanges ==
  /\ working' = ~working
  /\ UNCHANGED <<breaker, locks, pc, device>>

Step(c) ==
  \/ Upgrade(c) \/ RecordSuccess(c) \/ RecordFailure(c)
  \/ TakeLocksMutex(c) \/ AcquireLock(c) \/ GiveUp(c) \/ RunScript(c)

Bind(c) == \E d \in Devices : canExecute(c, d)

Next ==
  \/ \E c \in Callers : Bind(c) \/ Step(c)
  \/ \E d \in Devices : LoseLock(d)
  \/ TimeoutPasses \/ Reset \/ ScriptChanges

Spec == Init /\ [][Next]_vars

\* A call that has begun goes on (Go's mutexes are fair), the coordinator keeps calling,
\* and time passes.
Fairness ==
  /\ WF_vars(TimeoutPasses)
  /\ \A c \in Callers : SF_vars(Step(c)) /\ WF_vars(Bind(c))

FairSpec == Spec /\ Fairness

-----------------------------------------------------------------------------
(* Properties *)

\* Two calls never run the script for one device at the same time, given-up waits and
\* lost locks notwithstanding.
OneScriptPerDevice ==
  \A c, d \in Callers : c # d /\ pc[c] = "script" /\ pc[d] = "script" => device[c] # device[d]

\* A call returns, though it waits for a device's lock, which may be lost, with the mutex
\* of all devices' locks in its hands.
EveryBindReturns == \A c \in Callers : pc[c] # "idle" ~> pc[c] = "idle"

\* Once the script works for good the circuit closes again, however its failures and
\* successes were mixed and whatever late results of older calls arrive; provided that no
\* call has given up waiting for a lock, which would be a failure and may be one for ever.
BreakerRecovers ==
  <>[](working /\ \A d \in Devices : ~abandoned[d]) => []<>(state = "closed")

=============================================================================
