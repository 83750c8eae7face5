----------------------------- MODULE CapacityLease -----------------------------
(***************************************************************************)
(* What Eviction Guard promises to the owner of a workload, without        *)
(* windows, reconciles or API calls: capacity is lent.  A field is raised  *)
(* only while a lease on it is on record; it goes down only to the value   *)
(* its owner had given it, in one step; a lease ends only when the field   *)
(* is back at that value.                                                  *)
(*                                                                         *)
(* WindowLifecycle and ScalePlan implement this specification: a lease is  *)
(* an action recorded in the window (Spec.Actions).                        *)
(***************************************************************************)
EXTENDS Naturals

CONSTANTS
  Fields,  \* integer fields whose capacity is lent
  User     \* the value their owner gave them

VARIABLES
  value,   \* the fields
  leased   \* the fields with a lease on record

vars == <<value, leased>>

Init == value = User /\ leased = {}

Lease(fs) ==
  /\ leased' = leased \cup fs
  /\ UNCHANGED value

Raise ==
  /\ \A f \in Fields : value'[f] # value[f] => f \in leased /\ value'[f] > value[f]
  /\ UNCHANGED leased

Restore ==
  /\ \A f \in Fields : value'[f] # value[f] => f \in leased /\ value'[f] = User[f]
  /\ UNCHANGED leased

Release(fs) ==
  /\ fs \subseteq leased /\ \A f \in fs : value[f] = User[f]
  /\ leased' = leased \ fs
  /\ UNCHANGED value

Next ==
  \/ Raise \/ Restore
  \/ \E fs \in SUBSET Fields : Lease(fs) \/ Release(fs)

Spec == Init /\ [][Next]_vars
=============================================================================
