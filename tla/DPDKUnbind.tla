----------------------------- MODULE DPDKUnbind -----------------------------
(***************************************************************************)
(* The reconciler takes an ENI's device off its DPDK driver before it      *)
(* detaches the ENI: handleDPDKUnbinding and what it calls.                *)
(*                                                                         *)
(* It runs shell scripts in the eni-manager's pod on the node.  A script   *)
(* is a row of writes to sysfs, each of which may fail.  When the stream   *)
(* breaks the reconciler takes the command for failed while the script     *)
(* goes on, so two scripts can work on the device.                         *)
(***************************************************************************)
EXTENDS Naturals, FiniteSets

CONSTANTS MaxFailures    \* bound on the writes that fail for no reason of their own

VARIABLES
  driver,      \* of the device: "dpdk", "ena" or "none"
  override,    \* its driver_override: "dpdk", "ena" or "none"
  claims,      \* the DPDK driver takes the device without an override
  scripts,     \* where each script is that still runs on the node
  phase,       \* where unbindInterfaceFromDPDK is
  failures,    \* history: writes that failed for no reason of their own
  lost         \* history: a stream broke before its script ended

vars == <<driver, override, claims, scripts, phase, failures, lost>>

Drivers == {"dpdk", "ena", "none"}

Places == {"verify", "unbind", "override", "rebind", "bind", "giveUp", "clear",
           "undo", "undoUnbind", "undoOverride", "undoBind", "undoClear"}

TypeOK ==
  /\ driver \in Drivers /\ override \in Drivers
  /\ claims \in BOOLEAN
  /\ scripts \in [{"unbind", "rollback"} -> Places \cup {"none"}]
  /\ phase \in {"idle", "unbinding", "failed", "rollingBack", "verifying", "unbound", "error"}
  /\ failures \in 0..MaxFailures
  /\ lost \in BOOLEAN

Init ==
  /\ driver = "dpdk" /\ override = "none"
  /\ claims \in BOOLEAN
  /\ scripts = [s \in {"unbind", "rollback"} |-> "none"]
  /\ phase = "idle"
  /\ failures = 0 /\ lost = FALSE

Quiet == \A s \in DOMAIN scripts : scripts[s] = "none"

-----------------------------------------------------------------------------
(* The writes *)

Go(s, to) == scripts' = [scripts EXCEPT ![s] = to]

Fails == failures < MaxFailures /\ failures' = failures + 1 /\ UNCHANGED <<driver, override>>

Unbinds(d) == driver = d /\ driver' = "none" /\ UNCHANGED <<override, failures>>

Overrides(d) == override' = d /\ UNCHANGED <<driver, failures>>

\* The kernel binds a free device to a driver that is its override, or that knows it.
CanBind(d) ==
  /\ driver = "none"
  /\ \/ override = d
     \/ override = "none" /\ (d = "ena" \/ claims)

Binds(d) == CanBind(d) /\ driver' = d /\ UNCHANGED <<override, failures>>

\* A write that the state of the device refuses.
Refused(possible) == ~possible /\ UNCHANGED <<driver, override, failures>>

\* A script that ends tells the reconciler, if the stream still stands: the reconciler
\* waits in phase "during".
End(s, during, result) ==
  /\ Go(s, "none")
  /\ phase' = IF phase = during THEN result ELSE phase

Same == UNCHANGED <<claims, lost>>

\* atomicDPDKUnbind: verify the driver, unbind, set the override, bind ena and clear the
\* override; after a failure put the DPDK driver back as far as that works.
UnbindScript ==
  LET at == scripts["unbind"]
      go(to) == Go("unbind", to) /\ UNCHANGED phase
      exit1 == End("unbind", "unbinding", "failed")
      exit0 == End("unbind", "unbinding", "verifying")
  IN
  /\ Same
  /\ \/ /\ at = "verify" /\ UNCHANGED <<driver, override, failures>>
        /\ IF driver = "dpdk" THEN go("unbind") ELSE exit1
     \/ at = "unbind" /\ Unbinds("dpdk") /\ go("override")
     \/ at = "unbind" /\ (Fails \/ Refused(driver = "dpdk")) /\ exit1
     \/ at = "override" /\ Overrides("ena") /\ go("bind")
     \/ at = "override" /\ Fails /\ go("rebind")
     \/ at = "bind" /\ Binds("ena") /\ go("clear")
     \/ at = "bind" /\ (Fails \/ Refused(CanBind("ena"))) /\ go("giveUp")
     \/ at = "giveUp" /\ (Overrides("none") \/ Fails) /\ go("rebind")
     \/ at = "rebind" /\ (Binds("dpdk") \/ Fails \/ Refused(CanBind("dpdk"))) /\ exit1
     \/ at = "clear" /\ (Overrides("none") \/ Fails) /\ exit0

\* Mutant of RollbackScript: the override of the failed script is left in place.
RollbackScriptNoOverride ==
  LET at == scripts["rollback"]
      go(to) == Go("rollback", to) /\ UNCHANGED phase
      exit == End("rollback", "rollingBack", "error")
  IN
  /\ Same
  /\ \/ /\ at = "undo" /\ UNCHANGED <<driver, override, failures>>
        /\ CASE driver = "dpdk" -> exit
             [] driver = "ena"  -> go("undoUnbind")
             [] driver = "none" -> go("undoBind")
     \/ at = "undoUnbind" /\ (Unbinds("ena") \/ Fails \/ Refused(driver = "ena")) /\ go("undoBind")
     \/ at = "undoBind" /\ Binds("dpdk") /\ go("undoClear")
     \/ at = "undoBind" /\ (Fails \/ Refused(CanBind("dpdk"))) /\ exit
     \/ at = "undoClear" /\ (Overrides("none") \/ Fails) /\ exit

\* rollbackInterfaceState; its success or failure only changes the error returned.
RollbackScript ==
  LET at == scripts["rollback"]
      go(to) == Go("rollback", to) /\ UNCHANGED phase
      exit == End("rollback", "rollingBack", "error")
  IN
  /\ Same
  /\ \/ /\ at = "undo" /\ UNCHANGED <<driver, override, failures>>
        /\ CASE driver = "dpdk" -> exit
             [] driver = "ena"  -> go("undoUnbind")
             [] driver = "none" -> go("undoOverride")
     \/ /\ at = "undoUnbind"
        /\ Unbinds("ena") \/ Fails \/ Refused(driver = "ena")
        /\ go("undoOverride")
     \/ at = "undoOverride" /\ Overrides("dpdk") /\ go("undoBind")
     \/ at = "undoOverride" /\ Fails /\ exit
     \/ at = "undoBind" /\ Binds("dpdk") /\ go("undoClear")
     \/ at = "undoBind" /\ (Fails \/ Refused(CanBind("dpdk"))) /\ exit
     \/ at = "undoClear" /\ (Overrides("none") \/ Fails) /\ exit

-----------------------------------------------------------------------------
(* unbindInterfaceFromDPDK *)

\* captureInterfaceState finds the device: without a DPDK driver there is nothing to do.
\* Every round of a cleanup unbinds again.  Bound: a script whose stream broke has ended
\* before the next one of its kind starts.
Capture ==
  /\ phase \in {"idle", "error", "unbound"}
  /\ scripts["unbind"] = "none"
  /\ IF driver = "dpdk"
     THEN phase' = "unbinding" /\ Go("unbind", "verify")
     ELSE phase' = "unbound" /\ UNCHANGED scripts
  /\ UNCHANGED <<driver, override, claims, failures, lost>>

Rollback ==
  /\ phase = "failed" /\ scripts["rollback"] = "none"
  /\ phase' = "rollingBack"
  /\ Go("rollback", "undo")
  /\ UNCHANGED <<driver, override, claims, failures, lost>>

verifyDPDKUnbind ==
  /\ phase = "verifying"
  /\ phase' = IF driver = "ena" THEN "unbound" ELSE "error"
  /\ UNCHANGED <<driver, override, claims, scripts, failures, lost>>

AfterFailure == IF phase = "unbinding" THEN "failed" ELSE "error"

\* The pod, the API server or the connection is not there: the command does not start.
CommandFails ==
  /\ \/ phase = "unbinding" /\ scripts["unbind"] = "verify" /\ Go("unbind", "none")
     \/ phase = "rollingBack" /\ scripts["rollback"] = "undo" /\ Go("rollback", "none")
     \/ phase = "verifying" /\ UNCHANGED scripts
  /\ failures < MaxFailures /\ failures' = failures + 1
  /\ phase' = AfterFailure
  /\ UNCHANGED <<driver, override, claims, lost>>

\* The stream breaks and the script goes on.
StreamBreaks ==
  /\ phase \in {"unbinding", "rollingBack"}
  /\ lost' = TRUE
  /\ phase' = AfterFailure
  /\ UNCHANGED <<driver, override, claims, scripts, failures>>

Next ==
  \/ Capture \/ Rollback \/ verifyDPDKUnbind
  \/ CommandFails \/ StreamBreaks
  \/ UnbindScript \/ RollbackScript

Spec == Init /\ [][Next]_vars

-----------------------------------------------------------------------------
(* Properties *)

AtMostOneFailure == failures <= 1 /\ ~lost

\* One write or command that fails does not leave the device without a driver: the script's
\* own repair and the rollback make up for each other.  Nor does a script, before its
\* rollback either, leave an override of another driver than the device has, with which no
\* other could bind it.  With two failures, or when a script outlives its stream, both can
\* happen, and the next attempt reports success (Capture).
UnbindIsAtomic ==
  Quiet /\ AtMostOneFailure =>
    /\ phase \in {"unbound", "error"} => driver # "none"
    /\ override \in {"none", driver}

=============================================================================
