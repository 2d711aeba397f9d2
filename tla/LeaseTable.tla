----------------------------- MODULE LeaseTable -----------------------------
(***************************************************************************)
(* What the coordination manager promises: leases on resources.  A client  *)
(* works only with a lease on all it needs, but for those that ran out     *)
(* under it, and a lease is given up by its holder or runs out.  Nothing   *)
(* is said of tables, contexts, sweeps, or the order of requests.          *)
(***************************************************************************)
CONSTANTS
  Clients,
  Resources,
  Wants,    \* the resources a client works on
  Nobody

VARIABLES
  holder,    \* who has the lease on a resource
  working,   \* the clients at work
  forfeited  \* the leases that ran out under a client since it began

vars == <<holder, working, forfeited>>

Init ==
  /\ holder = [r \in Resources |-> Nobody]
  /\ working = {}
  /\ forfeited = [c \in Clients |-> {}]

Grant(c, r) ==
  /\ c \notin working /\ holder[r] = Nobody
  /\ holder' = [holder EXCEPT ![r] = c]
  /\ UNCHANGED <<working, forfeited>>

Work(c) ==
  /\ \A r \in Wants[c] : holder[r] = c \/ r \in forfeited[c]
  /\ working' = working \cup {c}
  /\ UNCHANGED <<holder, forfeited>>

Finish(c) ==
  /\ c \in working
  /\ working' = working \ {c}
  /\ UNCHANGED <<holder, forfeited>>

Release(c, r) ==
  /\ c \notin working /\ holder[r] = c
  /\ holder' = [holder EXCEPT ![r] = Nobody]
  /\ UNCHANGED <<working, forfeited>>

\* Several leases may run out at once, and each holder has lost its own.
RunOut(rs) ==
  /\ \A r \in rs : holder[r] # Nobody
  /\ holder' = [r \in Resources |-> IF r \in rs THEN Nobody ELSE holder[r]]
  /\ forfeited' = [c \in Clients |-> forfeited[c] \cup {r \in rs : holder[r] = c}]
  /\ UNCHANGED working

\* A client that is done keeps no lease.
Leave(c) ==
  /\ c \notin working /\ \A r \in Resources : holder[r] # c
  /\ forfeited' = [forfeited EXCEPT ![c] = {}]
  /\ UNCHANGED <<holder, working>>

Next ==
  \/ \E c \in Clients, r \in Resources : Grant(c, r) \/ Release(c, r)
  \/ \E c \in Clients : Work(c) \/ Finish(c) \/ Leave(c)
  \/ \E rs \in SUBSET Resources : RunOut(rs)

Spec == Init /\ [][Next]_vars

\* Two clients are at work on one resource only if the lease of one of them ran out under it.
Exclusive ==
  \A c, d \in working : c # d => Wants[c] \cap Wants[d] \subseteq forfeited[c] \cup forfeited[d]

=============================================================================
