------------------------------- MODULE EvictGate -------------------------------
(***************************************************************************)
(* The pods/eviction gate (pkg/evictgate/decide.go, called by              *)
(* internal/webhook/eviction.go) over the pods and nodes it protects.      *)
(*                                                                         *)
(* One opted-in Deployment with one owning policy whose nodeFilter matches *)
(* every node.  The two reconcilers appear as one atomic step each: what   *)
(* their interleaved API calls can do to the window is the subject of      *)
(* WindowLifecycle, here it matters what the gate makes of the result.     *)
(* The gate reads the window from its own informer copy, which lags; an    *)
(* admitted eviction marks the pod for deletion in the same request.       *)
(*                                                                         *)
(* The Deployment controller, the scheduler and the kubelet are external:  *)
(* pods are created off signalling nodes up to the desired number, removed *)
(* (not Ready ones first) down to it, and become Ready in their own time.  *)
(***************************************************************************)
EXTENDS WindowPhase, FiniteSets

CONSTANTS
  Nodes,
  PodNames,      \* a set of naturals: pod names in lexicographic order
  UserReplicas,  \* replicas of the Deployment before any disruption
  Hazards        \* what may happen besides one clean disruption at a time:
                 \* "late": a node starts to signal while a window exists or
                 \*   the Deployment still settles after one,
                 \* "unready": a Ready pod stops being Ready,
                 \* "free": evictions from nodes that do not signal

ASSUME GateAssumption ==
  /\ PodNames \subseteq Nat /\ IsFiniteSet(PodNames)
  /\ UserReplicas \in Nat
  /\ Hazards \subseteq {"late", "unready", "free"}

VARIABLES
  pods,       \* every pod name's state and node
  signalled,  \* nodes with a disruption signal
  desired,    \* the Deployment's spec.replicas
  win,        \* the window on the API server
  seen        \* the gate's informer copy of it

vars == <<pods, signalled, desired, win, seen>>

Pod == [state: {"none", "starting", "ready", "terminating"},
        node: Nodes \cup {"none"}]

NoPod == [state |-> "none", node |-> "none"]

\* nodes is Spec.VulnerableNodes; the other fields as in WindowPhase.
GateWindow ==
  [exists: BOOLEAN, phase: Phases, opened: Nat, forcedCool: BOOLEAN,
   until: Nat \cup {NoTime}, nodes: SUBSET Nodes, baseline: Nat,
   spareReady: BOOLEAN]

None ==
  [exists |-> FALSE, phase |-> "", opened |-> 0, forcedCool |-> FALSE,
   until |-> NoTime, nodes |-> {}, baseline |-> 0, spareReady |-> FALSE]

TypeOK ==
  /\ pods \in [PodNames -> Pod]
  /\ signalled \subseteq Nodes
  /\ desired \in Nat
  /\ win \in GateWindow /\ seen \in GateWindow

\* Pods that are not terminating, the Ready ones among them, and those that
\* sit on the nodes ns.
Live == {p \in PodNames : pods[p].state \in {"starting", "ready"}}
Ready == {p \in PodNames : pods[p].state = "ready"}
On(ns) == {p \in Live : pods[p].node \in ns}

Init ==
  /\ \E start \in [{p \in PodNames : p <= UserReplicas} -> Nodes] :
       pods = [p \in PodNames |->
                 IF p <= UserReplicas
                 THEN [state |-> "ready", node |-> start[p]] ELSE NoPod]
  /\ signalled = {} /\ desired = UserReplicas
  /\ win = None /\ seen = None

-------------------------------------------------------------------------------
(***************************************************************************)
(* The gate.                                                               *)
(***************************************************************************)

\* activeWindowFor: a Closed window counts only as a ForcedCool tombstone.
activeWindowFor(w) == w.exists /\ (IsActive(w) \/ w.forcedCool)

\* Mutant of nextAtRiskPod: any live pod on the given nodes.
nextAtRiskPodAny(ns) == On(ns)

\* The lexicographically first live pod on the given nodes, as a set of at
\* most one pod: empty if there is none.
nextAtRiskPod(ns) == {p \in On(ns) : \A q \in On(ns) : p <= q}

\* Mutant of Evaluate: force-cool does not fail open.
EvaluateNoFailOpen(p) ==
  \/ pods[p].node \notin signalled
  \/ activeWindowFor(seen) /\ seen.spareReady /\ p \in nextAtRiskPod(seen.nodes)

\* Evaluate allows the eviction of p.
Evaluate(p) ==
  LET active == activeWindowFor(seen)
      next == nextAtRiskPod(IF seen.nodes = {} THEN {pods[p].node} ELSE seen.nodes)
  IN  \/ pods[p].node \notin signalled
      \/ active /\ seen.forcedCool
      \/ active /\ seen.spareReady /\ (next = {} \/ p \in next)

\* An eviction request for p that the webhook lets through.
Evict(p) ==
  /\ p \in Live
  /\ "free" \in Hazards \/ pods[p].node \in signalled
  /\ Evaluate(p)
  /\ pods' = [pods EXCEPT ![p].state = "terminating"]
  /\ UNCHANGED <<signalled, desired, win, seen>>

-------------------------------------------------------------------------------
(***************************************************************************)
(* The reconcilers.                                                        *)
(***************************************************************************)

\* Mutant of nodeNames: the nodes of every pod, also of one that has none.
nodeNamesOfAll == {pods[p].node : p \in PodNames}

\* The nodes the policy reconciler records: those with a pod at risk.
nodeNames == {pods[p].node : p \in On(signalled)}

\* The policy reconciler.  raise = FALSE: the workload waits for a window
\* slot, or the capacity patch failed; the window is written all the same.
PolicyReconcile(raise) ==
  /\ IF On(signalled) = {}
     THEN \* syncClearedWindows
          /\ win.nodes \cap signalled = {}
          /\ win' = [win EXCEPT !.nodes = {}]
          /\ UNCHANGED desired
     ELSE \* ensureWindow, ensureDeferredWindow
          LET opened == IF win.exists THEN win
                        ELSE [None EXCEPT !.exists = TRUE, !.baseline = desired]
              target == TargetReplicas(opened.baseline, Cardinality(On(signalled)))
          IN  /\ ~(win.exists /\ holdMaxWindow(win))
              /\ win' = [opened EXCEPT !.nodes = nodeNames,
                                       !.until = NoTime, !.phase = "Open"]
              /\ desired' = IF raise /\ desired < target THEN target ELSE desired
  /\ UNCHANGED <<pods, signalled, seen>>

\* Mutant of SafeReady: pods on dying nodes count as spare.
SafeReadyEverywhere(w) == Cardinality(Ready)

\* spareCounts: Ready pods off the recorded nodes.
SafeReady(w) == Cardinality({p \in Ready : pods[p].node \notin w.nodes})

\* applySpareStatus: what the SpareReady flag and condition are set to.
SpareReady(w) == SafeReady(w) >= w.baseline

\* The recorded nodes that still signal.
stillVulnerable(w) == w.nodes \cap signalled

\* The window reconciler on a window that is not a tombstone.
DecideAndWrite ==
  LET forceCool == maxWindowExceeded(win)
      safe == SpareReady(win)
      step == decideWindowStep(win, Cardinality(On(signalled)), safe, forceCool)
      forced == win.forcedCool \/ forceCool
  IN  /\ win' = IF step = "Close" /\ ~forced THEN None
                ELSE [win EXCEPT
                        !.forcedCool = forced,
                        !.spareReady = safe,
                        !.until = CASE step = "StayOpen"       -> NoTime
                                    [] step = "BeginScaleBack" -> ScaleBackAfter
                                    [] OTHER                   -> @,
                        !.phase = CASE step = "StayOpen" -> "Open"
                                    [] step = "Close"    -> "Closed"
                                    [] OTHER             -> "Cooling"]
      /\ desired' = IF step = "BeginScaleBack" /\ desired > win.baseline
                    THEN win.baseline ELSE desired

WindowReconcile ==
  /\ win.exists
  /\ IF win.phase = "Closed" /\ win.forcedCool
     THEN /\ stillVulnerable(win) = {}
          /\ win' = None
          /\ UNCHANGED desired
     ELSE DecideAndWrite
  /\ UNCHANGED <<pods, signalled, seen>>

-------------------------------------------------------------------------------
(***************************************************************************)
(* Nodes, pods, clock and informer.                                        *)
(***************************************************************************)

\* The Deployment has the Ready pods it asks for and no others.
Settled == Live = Ready /\ Cardinality(Live) = desired

\* A node is cordoned, tainted or announced for deletion.
NodeSignals(n) ==
  /\ n \notin signalled
  /\ \/ "late" \in Hazards
     \/ ~win.exists /\ ~seen.exists /\ Settled
  /\ signalled' = signalled \cup {n}
  /\ UNCHANGED <<pods, desired, win, seen>>

\* The signal is taken back, or the node is replaced once it is empty.
NodeClears(n) ==
  /\ n \in signalled
  /\ signalled' = signalled \ {n}
  /\ UNCHANGED <<pods, desired, win, seen>>

PodCreated(p) ==
  /\ pods[p].state = "none" /\ Cardinality(Live) < desired
  /\ \E n \in Nodes \ signalled : pods' = [pods EXCEPT ![p] = [state |-> "starting", node |-> n]]
  /\ UNCHANGED <<signalled, desired, win, seen>>

\* Scale-down by the Deployment controller: pods that are not Ready go first.
PodRemoved(p) ==
  /\ Cardinality(Live) > desired
  /\ p \in IF Live = Ready THEN Live ELSE Live \ Ready
  /\ pods' = [pods EXCEPT ![p].state = "terminating"]
  /\ UNCHANGED <<signalled, desired, win, seen>>

PodBecomesReady(p) ==
  /\ pods[p].state = "starting"
  /\ pods' = [pods EXCEPT ![p].state = "ready"]
  /\ UNCHANGED <<signalled, desired, win, seen>>

PodUnready(p) ==
  /\ "unready" \in Hazards /\ pods[p].state = "ready"
  /\ pods' = [pods EXCEPT ![p].state = "starting"]
  /\ UNCHANGED <<signalled, desired, win, seen>>

PodGone(p) ==
  /\ pods[p].state = "terminating"
  /\ pods' = [pods EXCEPT ![p] = NoPod]
  /\ UNCHANGED <<signalled, desired, win, seen>>

Tick ==
  /\ win' = Age(win)
  /\ UNCHANGED <<pods, signalled, desired, seen>>

\* The watch delivers.  The gate reads neither the clocks nor the baseline.
CacheSync ==
  /\ seen' = [win EXCEPT !.opened = 0, !.until = NoTime, !.baseline = 0]
  /\ UNCHANGED <<pods, signalled, desired, win>>

-------------------------------------------------------------------------------
Reconcile == (\E raise \in BOOLEAN : PolicyReconcile(raise)) \/ WindowReconcile

Next ==
  \/ Reconcile
  \/ \E n \in Nodes : NodeSignals(n) \/ NodeClears(n)
  \/ \E p \in PodNames :
       \/ Evict(p)
       \/ PodCreated(p) \/ PodRemoved(p) \/ PodBecomesReady(p)
       \/ PodUnready(p) \/ PodGone(p)
  \/ Tick \/ CacheSync

Spec == Init /\ [][Next]_vars

\* A drain keeps asking: the pods of a signalling node are evicted as soon as
\* the gate lets them.
Drain(p) == pods[p].node \in signalled /\ Evict(p)

(***************************************************************************)
(* Fairness.  Node, pod and window events and the requeues of the code     *)
(* bring both reconcilers round again; time passes; watches deliver; a     *)
(* drain retries.  None on the Deployment controller or the kubelet: spare *)
(* capacity may never come up.                                             *)
(***************************************************************************)
FairSpec ==
  /\ Spec
  /\ WF_vars(\E raise \in BOOLEAN : PolicyReconcile(raise))
  /\ WF_vars(WindowReconcile)
  /\ WF_vars(Tick) /\ WF_vars(CacheSync)
  /\ \A p \in PodNames : WF_vars(Drain(p))

-------------------------------------------------------------------------------
(***************************************************************************)
(* Properties.                                                             *)
(***************************************************************************)

\* p is evicted from a signalling node while maxWindow has not failed open.
GatedEviction(p) ==
  /\ pods[p].node \in signalled /\ Evict(p)
  /\ ~seen.forcedCool /\ ~win.forcedCool

\* "Spare Ready before at-risk pod terminates": an eviction the gate allows on
\* the ground of SpareReady leaves at least the baseline of Ready pods, however
\* old its copy of the window and the SpareReady flag in it are.
SpareKeepsBaseline ==
  [][\A p \in PodNames :
       GatedEviction(p) => Cardinality(Ready') >= UserReplicas]_vars

\* "SpareReady: allow only the lexicographically first at-risk pod": nobody is
\* let go ahead of another live pod of the same signalling node.
OnlyFirstAtRisk ==
  [][\A p, q \in PodNames :
       GatedEviction(p) /\ q \in Live /\ pods[q].node = pods[p].node
         => p <= q]_vars

\* The gate never blocks a drain for ever: a pod of a node that keeps
\* signalling is let go, by spare capacity or by maxWindow.
DrainProgresses ==
  \A p \in PodNames :
    (p \in Live /\ pods[p].node \in signalled)
      ~> (p \notin Live \/ pods[p].node \notin signalled)
=============================================================================
