------------------------------ MODULE PolicyMatch ------------------------------
(***************************************************************************)
(* Which nodes a policy watches, which of them it holds for vulnerable, and *)
(* which policy owns a Deployment: pkg/filters/nodefilter.go, pkg/signals   *)
(* (detector.go, custom.go) and pkg/policyown/own.go, as pure operators.    *)
(*                                                                         *)
(* A node carries marks, each in one place of the Node object: the         *)
(* unschedulable flag, its taints, its labels, its annotations.  A label   *)
(* with a value is one mark per value.  Policies are named by positive     *)
(* numbers, in the order of their names.                                   *)
(***************************************************************************)
EXTENDS Naturals

CONSTANTS
  Nodes,
  Policies,     \* policy names
  CustomMarks,  \* marks besides the ones the built-in signals know
  Place         \* where each mark is kept, a function on Marks

Places == {"unschedulable", "taint", "label", "annotation"}

BuiltInMarks ==
  {"unschedulable", "disrupted", "delete-at", "out-of-service",
   "spot-interrupt", "volatile"}

Marks == BuiltInMarks \cup CustomMarks

ASSUME MatchAssumption ==
  /\ Policies \subseteq Nat \ {0}
  /\ Place \in [Marks -> Places]

-------------------------------------------------------------------------------
(***************************************************************************)
(* pkg/signals                                                             *)
(***************************************************************************)

\* The registry: the marks each built-in detector looks for.
Detector ==
  [KarpenterDisrupted       |-> {"disrupted"},
   KarpenterDeleteRequested |-> {"delete-at"},
   OutOfService             |-> {"out-of-service"},
   SpotInterrupted          |-> {"out-of-service", "spot-interrupt", "volatile"},
   NodeCordoned             |-> {"unschedulable"}]

Signals == DOMAIN Detector

DefaultSignals ==
  {"KarpenterDisrupted", "KarpenterDeleteRequested", "OutOfService",
   "NodeCordoned"}

IsVulnerable(marks, wanted) ==
  \E s \in (IF wanted = {} THEN DefaultSignals ELSE wanted) :
    Detector[s] \cap marks # {}

MatchCustom(marks, custom) == custom \cap marks # {}

\* Vulnerable: a built-in or a custom signal of the policy fires on the node.
Vulnerable(marks, spec) ==
  IsVulnerable(marks, spec.signals) \/ MatchCustom(marks, spec.custom)

-------------------------------------------------------------------------------
(***************************************************************************)
(* pkg/filters.  include and exclude are the label selectors (exclude = {} *)
(* for none), names the nodes that Names and NamePattern admit, oneOf the  *)
(* lists of zones, instance types and capacity types that are not empty,   *)
(* taints the taint selector.                                              *)
(***************************************************************************)
NodeFilter ==
  [include: SUBSET Marks, exclude: SUBSET Marks, names: SUBSET Nodes,
   oneOf: SUBSET SUBSET Marks, taints: SUBSET Marks]

AnyNode ==
  [include |-> {}, exclude |-> {}, names |-> Nodes, oneOf |-> {}, taints |-> {}]

Matches(n, marks, filter) ==
  /\ filter.include \subseteq marks
  /\ ~(filter.exclude # {} /\ filter.exclude \subseteq marks)
  /\ n \in filter.names
  /\ \A list \in filter.oneOf : list \cap marks # {}
  /\ filter.taints \subseteq marks

-------------------------------------------------------------------------------
(***************************************************************************)
(* pkg/policyown.  A policy is [state, spec]; it takes part in ownership   *)
(* from its creation until its deletion timestamp is set.                  *)
(***************************************************************************)
NoPin == 0     \* no policy-pin annotation

PolicySpec ==
  [signals: SUBSET Signals, custom: SUBSET Marks, filter: NodeFilter,
   namespaceSelector: SUBSET STRING, workloadSelector: SUBSET STRING]

\* In all: the policy objects that exist and are not being deleted.
Present(all) == {p \in Policies : all[p].state \in {"new", "live"}}

SelectorMatch(spec, dep) ==
  /\ spec.namespaceSelector \subseteq dep.namespaceLabels
  /\ spec.workloadSelector \subseteq dep.labels

\* FirstByName, as a set of at most one policy.
FirstByName(dep, all) ==
  LET matching == {p \in Present(all) : SelectorMatch(all[p].spec, dep)}
  IN  {p \in matching : \A q \in matching : p <= q}

\* Mutant of Owns: a pin is honoured only if the selectors match as well.
OwnsPinnedSelected(p, mine, dep, all) ==
  /\ mine.state \in {"new", "live"}
  /\ SelectorMatch(mine.spec, dep)
  /\ IF dep.pin # NoPin THEN dep.pin = p ELSE p \in FirstByName(dep, all)

\* What the reconciler of policy p asks, with its own copy of p in hand.
Owns(p, mine, dep, all) ==
  /\ mine.state \in {"new", "live"}
  /\ IF dep.pin # NoPin THEN dep.pin = p
     ELSE SelectorMatch(mine.spec, dep) /\ p \in FirstByName(dep, all)

\* What the eviction gate asks: the owner, as a set of at most one policy.
ResolveOwner(dep, all) ==
  IF dep.pin # NoPin THEN {p \in Present(all) : p = dep.pin}
  ELSE FirstByName(dep, all)
=============================================================================
