-------------------------- MODULE CommandLifecycle --------------------------
(***************************************************************************)
(* What the Inter-Core Message Protocol promises the issuer of a command   *)
(* (include/lib/icmp.h, lib/icmp/Kconfig), with no queue, table or thread: *)
(* a command accepted by icmp_command is in flight until its response      *)
(* callback runs, once, or until it is dropped for its age; after either   *)
(* nothing more happens to it.  At most MAX_INFLIGHT are in flight.        *)
(***************************************************************************)
EXTENDS Naturals, FiniteSets

CONSTANTS Reqs,          \* the commands an application issues
          MAX_INFLIGHT   \* ICMP_MAX_INFLIGHT_MSGS

VARIABLE fate            \* what has become of each command

InFlight == {r \in Reqs : fate[r] = "inflight"}

Init == fate = [r \in Reqs |-> "unused"]

Accept(r) ==
    /\ fate[r] = "unused"
    /\ Cardinality(InFlight) < MAX_INFLIGHT
    /\ fate' = [fate EXCEPT ![r] = "inflight"]

Answer(r) ==
    /\ fate[r] = "inflight"
    /\ fate' = [fate EXCEPT ![r] = "answered"]

\* One scan of the table may drop several commands.
Expire(S) ==
    /\ S \subseteq InFlight
    /\ fate' = [r \in Reqs |-> IF r \in S THEN "dropped" ELSE fate[r]]

Next ==
    \/ \E r \in Reqs : Accept(r) \/ Answer(r)
    \/ \E S \in SUBSET Reqs : Expire(S)

Spec == Init /\ [][Next]_fate
=============================================================================
