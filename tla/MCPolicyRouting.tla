---------------------------- MODULE MCPolicyRouting ----------------------------
(***************************************************************************)
(* PolicyRouting for TLC.  Policy 1 takes every Deployment, or after an    *)
(* edit only the ones labelled "db"; policy 2 takes the ones labelled      *)
(* "app" and watches the nodes outside a pool.  The Deployment is labelled *)
(* "app", or pins policy 2.                                                *)
(***************************************************************************)
EXTENDS PolicyRouting

MCPlace ==
  [m \in Marks |->
     CASE m = "unschedulable" -> "unschedulable"
       [] m \in {"disrupted", "out-of-service"} -> "taint"
       [] m \in {"delete-at", "spot-interrupt"} -> "annotation"
       [] m \in {"volatile", "pool"} -> "label"]

Everything ==
  [signals |-> {}, custom |-> {}, filter |-> AnyNode,
   namespaceSelector |-> {}, workloadSelector |-> {}]
MCSpecs ==
  <<{Everything, [Everything EXCEPT !.workloadSelector = {"db"}]},
    {[Everything EXCEPT !.workloadSelector = {"app"}, !.filter.exclude = {"pool"}]}>>

MCDeployments ==
  {[found |-> TRUE, pin |-> NoPin, labels |-> {"app"}, namespaceLabels |-> {},
    optedIn |-> TRUE],
   [found |-> TRUE, pin |-> 2, labels |-> {}, namespaceLabels |-> {}, optedIn |-> TRUE]}

\* The same, and the pinned one before the caches have it.
MCDeploymentsLate ==
  MCDeployments \cup {[d EXCEPT !.found = FALSE] : d \in {e \in MCDeployments : e.pin # NoPin}}
=============================================================================
