-------------------------- MODULE PolicyRoutingProofs --------------------------
(***************************************************************************)
(* Theorems about PolicyRouting, for every set of nodes, pods, policies,   *)
(* specs and Deployments, every number of changes and every configuration  *)
(* of the policies.                                                        *)
(***************************************************************************)
EXTENDS PolicyRouting, FiniteSetTheorems, TLAPS

USE PolicyAssumption, MatchAssumption, RoutingAssumption

-------------------------------------------------------------------------------
(***************************************************************************)
(* The inductive invariant.                                                *)
(***************************************************************************)

\* The policies the handler of e would queue now.
Woken(e) ==
  IF e.of = "node" THEN policiesForNodeUpdate(e)
  ELSE mapPodToPolicies(e.old) \cup mapPodToPolicies(e.new)

Pending(p) == p \in queue \/ \E e \in events : p \in Woken(e)

\* p was queued, will be, or is being reconciled.
Coming(p) == Pending(p) \/ busy.of = p

Dying(p) == {n \in Nodes : IsDying(n, policy[p].spec)}

\* A window records no less than the user's value; what was deleted is gone.
WindowsSound ==
  \A p \in Policies : /\ win[p].exists => win[p].action >= UserReplicas
                      /\ ~win[p].exists => win[p] = None

DataInv == TypeOK /\ NeverBelowUser /\ WindowsSound

\* While two windows exist, both are on record as shared.
SharedMarked ==
  \A p, q \in Policies : p # q /\ win[p].exists /\ win[q].exists => p \in shared

\* What the running reconcile read is current, or it will run again.
BusySound ==
  busy # Idle =>
    \/ Pending(busy.of)
    \/ /\ busy.mine = policy[busy.of] /\ busy.mine.state = "live"
       /\ busy.vulnerable = Dying(busy.of)

RiskAnswered ==
  \A p \in Policies \ handed : AtRisk(p) # {} => Coming(p) \/ Covered(p)

NodesAnswered ==
  \A p \in Policies :
    policy[p].state = "live" /\ win[p].nodes # {} /\ ~holdMaxWindow(win[p])
      => Coming(p) \/ StillDying(p, policy[p].spec) # {}

RoutingInv ==
  DataInv /\ SharedMarked /\ BusySound /\ RiskAnswered /\ NodesAnswered

-------------------------------------------------------------------------------
(***************************************************************************)
(* What the operators of the model return.                                 *)
(***************************************************************************)

\* The absent window is a window.
LEMMA NoneType == None \in RoutedWindow /\ ~None.exists /\ None.nodes = {}
  BY DEF None, RoutedWindow, NoTime, NoAction, Phases, Messages

\* With a policy there is a spec to choose, so NoPolicy is a policy object.
LEMMA NoPolicyType ==
  ASSUME Policies # {}
  PROVE  NoPolicy \in Policy /\ NoPolicy.state = "none"
<1>1. PICK p \in Policies : TRUE
  OBVIOUS
<1>2. Specs[p] # {}
  OBVIOUS
<1>3. PICK s : s \in Specs[p]
  BY <1>2
<1>4. s \in AllSpecs
  BY <1>1, <1>3 DEF AllSpecs
<1>5. (CHOOSE spec \in AllSpecs : TRUE) \in AllSpecs
  BY <1>4
<1>6. QED
  BY <1>5 DEF NoPolicy, Policy

\* The pods at risk are finitely many.
LEMMA RiskFinite ==
  ASSUME NEW p, NEW mine, NEW vulnerable
  PROVE  /\ collectWorkloads(p, mine, vulnerable) \subseteq Pods
         /\ Cardinality(collectWorkloads(p, mine, vulnerable)) \in Nat
<1>1. collectWorkloads(p, mine, vulnerable) \subseteq Pods
  BY DEF collectWorkloads, PodsOn
<1>2. IsFiniteSet(collectWorkloads(p, mine, vulnerable))
  BY <1>1, FS_Subset
<1>3. QED
  BY <1>1, <1>2, FS_CardinalityType

\* TargetReplicas is a number, not below the baseline.
LEMMA TargetType ==
  ASSUME NEW b \in Nat \cup {NoAction}, NEW r \in Nat
  PROVE  TargetReplicas(b, r) \in Nat /\ TargetReplicas(b, r) >= b
  BY DEF TargetReplicas, NoAction

\* A tick of the clock yields a window, moves nothing but its clocks, and
\* leaves a window past maxWindow past it.
LEMMA AgeFacts ==
  ASSUME NEW w \in RoutedWindow
  PROVE  /\ Age(w) \in RoutedWindow
         /\ Age(w).exists = w.exists /\ Age(w).action = w.action
         /\ Age(w).nodes = w.nodes /\ (~w.exists => Age(w) = w)
         /\ holdMaxWindow(w) => holdMaxWindow(Age(w))
<1> DEFINE o == IF w.opened < MaxWindow THEN w.opened + 1 ELSE w.opened
           u == IF w.until > 0 THEN w.until - 1 ELSE w.until
<1>1. w.opened \in Nat /\ w.until \in Nat \cup {NoTime}
  BY DEF RoutedWindow
<1>2. o \in Nat /\ u \in Nat \cup {NoTime} /\ (w.opened >= MaxWindow => o >= MaxWindow)
  BY <1>1 DEF NoTime
<1> HIDE DEF o, u
<1> DEFINE v == [w EXCEPT !.opened = o, !.until = u]
<1>3. /\ v \in RoutedWindow
      /\ v.exists = w.exists /\ v.action = w.action /\ v.nodes = w.nodes
      /\ v.phase = w.phase /\ v.forcedCool = w.forcedCool /\ v.opened = o
  BY <1>2 DEF RoutedWindow
<1>4. Age(w) = IF w.exists THEN v ELSE w
  BY DEF Age, o, u
<1> HIDE DEF v
<1>5. holdMaxWindow(w) => holdMaxWindow(v)
  BY <1>2, <1>3 DEF holdMaxWindow, maxWindowExceeded
<1>6. QED
  BY <1>3, <1>4, <1>5

\* policyown.Owns and policyown.ResolveOwner name the same owner, whatever the
\* Deployment and the policies are.
LEMMA OneOwner ==
  ASSUME NEW d, NEW all, NEW p \in Policies
  PROVE  Owns(p, all[p], d, all) <=> p \in ResolveOwner(d, all)
  BY DEF Owns, ResolveOwner, FirstByName, Present

-------------------------------------------------------------------------------
(***************************************************************************)
(* The kinds of step.                                                      *)
(***************************************************************************)

\* Every step is one of the controllers' or one change of one object.
LEMMA NextCases ==
  ASSUME TypeOK, Next
  PROVE  \/ \E e \in events : HandleEvent(e)
         \/ \E p \in Policies : ReconcileStart(p)
         \/ \E ok \in BOOLEAN : ReconcileFinish(ok)
         \/ \E p \in Policies : WindowReconcile(p)
         \/ Tick
         \/ \E n \in Nodes, new \in Node : NodeChanges(n, new)
         \/ \E q \in Pods, new \in Pod : PodChanges(q, new)
         \/ \E p \in Policies, new \in Policy : PolicyChanges(p, new)
         \/ \E d \in Deployments : DeploymentChanges(d)
         \/ SpareChanges \/ ReconcileFails \/ Restart
<1>1. CASE Controller
  BY <1>1 DEF Controller
<1>2. ASSUME NEW n \in Nodes, NodeDeleted(n)
      PROVE  \E new \in Node : NodeChanges(n, new)
  BY <1>2 DEF NodeDeleted, Node
<1>3. ASSUME NEW n \in Nodes, NEW m \in Toggled, MarkToggled(n, m)
      PROVE  \E new \in Node : NodeChanges(n, new)
  <2> DEFINE ms == IF m \in node[n].marks THEN node[n].marks \ {m} ELSE node[n].marks \cup {m}
             new == [node[n] EXCEPT !.marks = ms]
  <2>1. node[n] \in Node /\ node[n].marks \subseteq Marks
    BY DEF TypeOK, Node
  <2>2. ms \subseteq Marks
    BY <2>1
  <2>3. NodeChanges(n, new)
    BY <1>3 DEF MarkToggled
  <2> HIDE DEF ms
  <2>4. new \in Node
    BY <2>1, <2>2 DEF Node
  <2>5. QED
    BY <2>3, <2>4
<1>4. ASSUME NEW n \in Nodes, NEW marks \in SUBSET Toggled, NodeCreated(n, marks)
      PROVE  \E new \in Node : NodeChanges(n, new)
  BY <1>4 DEF NodeCreated, Node
<1>5. ASSUME NEW q \in Pods,
             \/ \E n \in Nodes \cup {Unbound} : PodCreated(q, n)
             \/ \E n \in Nodes : PodBound(q, n)
             \/ PodRelabelled(q) \/ PodTerminating(q) \/ PodGone(q)
      PROVE  \E new \in Pod : PodChanges(q, new)
  <2>1. pod[q] \in Pod
    BY DEF TypeOK
  <2>2. CASE \E n \in Nodes \cup {Unbound} : PodCreated(q, n)
    BY <2>1, <2>2 DEF PodCreated, Pod
  <2>3. CASE \E n \in Nodes : PodBound(q, n)
    BY <2>1, <2>3 DEF PodBound, Pod
  <2>4. CASE PodRelabelled(q)
    <3>1. [pod[q] EXCEPT !.optedIn = ~pod[q].optedIn] \in Pod
      BY <2>1 DEF Pod
    <3>2. QED
      BY <2>4, <3>1 DEF PodRelabelled
  <2>5. CASE PodTerminating(q)
    BY <2>1, <2>5 DEF PodTerminating, Pod
  <2>6. CASE PodGone(q)
    BY <2>1, <2>6 DEF PodGone, Pod
  <2>7. QED
    BY <1>5, <2>2, <2>3, <2>4, <2>5, <2>6
<1>6. ASSUME NEW p \in Policies,
             PolicyDeleted(p) \/ \E spec \in Specs[p] : PolicyCreated(p, spec) \/ PolicyEdited(p, spec)
      PROVE  \E new \in Policy : PolicyChanges(p, new)
  <2>1. policy[p] \in Policy /\ NoPolicy \in Policy
    BY NoPolicyType DEF TypeOK
  <2>2. CASE PolicyDeleted(p)
    <3>1. [policy[p] EXCEPT !.state = "deleting"] \in Policy
      BY <2>1 DEF Policy
    <3>2. QED
      BY <2>1, <2>2, <3>1 DEF PolicyDeleted
  <2>3. ASSUME NEW spec \in Specs[p], PolicyCreated(p, spec) \/ PolicyEdited(p, spec)
        PROVE  \E new \in Policy : PolicyChanges(p, new)
    <3>1. spec \in AllSpecs
      BY DEF AllSpecs
    <3>2. [policy[p] EXCEPT !.spec = spec] \in Policy /\ [state |-> "new", spec |-> spec] \in Policy
      BY <2>1, <3>1 DEF Policy
    <3>3. QED
      BY <2>3, <3>2 DEF PolicyCreated, PolicyEdited
  <2>4. QED
    BY <1>6, <2>2, <2>3
<1>7. CASE Environment
  BY <1>2, <1>3, <1>4, <1>5, <1>6, <1>7 DEF Environment
<1>8. QED
  BY <1>1, <1>7 DEF Next

\* What a policy reconcile may do to the windows and the capacity field: it
\* writes its own policy's window and never lowers the field.
LEMMA FinishFacts ==
  ASSUME DataInv, NEW ok \in BOOLEAN, ReconcileFinish(ok)
  PROVE  /\ busy.of \in Policies
         /\ win' \in [Policies -> RoutedWindow]
         /\ \A q \in Policies \ {busy.of} : win'[q] = win[q]
         /\ win[busy.of].exists => /\ win'[busy.of].exists
                                   /\ win'[busy.of].action = win[busy.of].action
         /\ win'[busy.of].exists => win'[busy.of].action >= UserReplicas
         /\ ~win'[busy.of].exists => win'[busy.of] = None
         /\ replicas' \in Nat /\ replicas' >= replicas
<1> DEFINE p == busy.of
           risky == collectWorkloads(p, busy.mine, busy.vulnerable)
           w == Opened(win[p])
           ns == {pod[q].node : q \in risky}
           m == IF ok THEN "scaledUp" ELSE "failed"
           v == [w EXCEPT !.nodes = ns, !.until = NoTime, !.phase = "Open", !.message = m]
           desired == TargetReplicas(w.action, Cardinality(risky))
<1>1. /\ p \in Policies /\ busy.vulnerable \subseteq Nodes
      /\ win[p] \in RoutedWindow /\ win \in [Policies -> RoutedWindow]
      /\ replicas \in Nat /\ replicas >= UserReplicas
      /\ win[p].exists => win[p].action >= UserReplicas
      /\ ~win[p].exists => win[p] = None
  BY DEF DataInv, TypeOK, ReconcileFinish, NeverBelowUser, WindowsSound
<1>2. /\ w \in RoutedWindow /\ w.exists /\ w.action >= UserReplicas
      /\ win[p].exists => w.action = win[p].action
  <2>1. CASE win[p].exists
    BY <1>1, <2>1 DEF Opened
  <2>2. CASE ~win[p].exists
    BY <1>1, <2>2, NoneType DEF Opened, None, RoutedWindow
  <2>3. QED
    BY <2>1, <2>2
<1>3. ns \subseteq Nodes
  BY <1>1 DEF collectWorkloads, PodsOn
<1>4. w.action \in Nat \cup {NoAction} /\ Cardinality(risky) \in Nat
  BY <1>2, RiskFinite DEF RoutedWindow
<1>5. desired \in Nat
  BY <1>4, TargetType
<1> HIDE DEF w, ns, desired, risky, p
<1>6. v \in RoutedWindow /\ v.exists /\ v.action = w.action
  BY <1>2, <1>3 DEF RoutedWindow, Phases, Messages
<1>7. \/ ensureWindow(p, risky, ok) \/ syncClearedWindows(p, busy.mine.spec)
  BY DEF ReconcileFinish, p, risky
<1>8. CASE ensureWindow(p, risky, ok)
  <2>1. \/ UNCHANGED <<win, replicas>>
        \/ /\ win' = [win EXCEPT ![p] = v]
           /\ replicas' = IF ok /\ replicas < desired THEN desired ELSE replicas
    BY <1>8 DEF ensureWindow, w, v, ns, desired
  <2>2. CASE UNCHANGED <<win, replicas>>
    BY <1>1, <2>2 DEF p
  <2>3. CASE /\ win' = [win EXCEPT ![p] = v]
             /\ replicas' = IF ok /\ replicas < desired THEN desired ELSE replicas
    <3> HIDE DEF v
    <3>1. replicas' \in Nat /\ replicas' >= replicas
      BY <1>1, <1>5, <2>3
    <3>2. QED
      BY <1>1, <1>2, <1>6, <2>3, <3>1 DEF p
  <2>4. QED
    BY <2>1, <2>2, <2>3
<1>9. CASE syncClearedWindows(p, busy.mine.spec)
  <2> DEFINE u == [win[p] EXCEPT !.nodes = {}]
  <2>1. u \in RoutedWindow /\ u.exists = win[p].exists /\ u.action = win[p].action
    BY <1>1 DEF RoutedWindow
  <2>2. replicas' = replicas /\ (win' = win \/ (win[p].exists /\ win' = [win EXCEPT ![p] = u]))
    BY <1>9 DEF syncClearedWindows
  <2> HIDE DEF u
  <2>3. QED
    BY <1>1, <2>1, <2>2 DEF p
<1>10. QED
  BY <1>7, <1>8, <1>9

\* What a window reconcile may do: it writes one window, lets go of it or
\* keeps its action, and does not lower the field below that.  If the window
\* is as before, so is the field.
LEMMA WindowFacts ==
  ASSUME DataInv, NEW p \in Policies, WindowReconcile(p)
  PROVE  /\ win[p].exists
         /\ win' \in [Policies -> RoutedWindow]
         /\ \A q \in Policies \ {p} : win'[q] = win[q]
         /\ win'[p].exists => win'[p].action = win[p].action
         /\ ~win'[p].exists => win'[p] = None
         /\ replicas' \in Nat /\ replicas' >= UserReplicas
         /\ win' = win => replicas' = replicas
<1> DEFINE w == win[p]
<1>1. /\ w \in RoutedWindow /\ win \in [Policies -> RoutedWindow]
      /\ w.exists /\ w.action \in Nat /\ w.action >= UserReplicas
      /\ replicas \in Nat /\ replicas >= UserReplicas
  BY DEF DataInv, TypeOK, WindowReconcile, NeverBelowUser, WindowsSound, RoutedWindow, NoAction
<1>2. Restored(w) \in Nat /\ Restored(w) >= UserReplicas
  BY <1>1 DEF Restored
<1>3. CASE win' = [win EXCEPT ![p] = None] /\ replicas' \in {replicas, Restored(w)}
  BY <1>1, <1>2, <1>3, NoneType
<1>4. CASE DecideAndWrite(p)
  <2> DEFINE forceCool == maxWindowExceeded(w)
             live == Cardinality(PodsOn({n \in Nodes : IsDying(n, policy[p].spec)}))
             step == decideWindowStep(w, live, spare, forceCool)
             forced == w.forcedCool \/ forceCool
             next == CASE step = "StayOpen" ->
                            [w EXCEPT !.until = NoTime, !.phase = "Open",
                                      !.message = IF live > 0 THEN "vulnerable" ELSE "waiting"]
                       [] step = "BeginScaleBack" ->
                            [w EXCEPT !.until = ScaleBackAfter, !.phase = "Cooling",
                                      !.message = "cooling"]
                       [] step = "StayCooling" ->
                            [w EXCEPT !.phase = "Cooling", !.message = "cooling"]
                       [] step = "Close" ->
                            [w EXCEPT !.phase = "Closed", !.message = "closed"]
             final == [next EXCEPT !.forcedCool = forced]
  <2>1. /\ win' = [win EXCEPT ![p] = IF step = "Close" /\ ~forced THEN None ELSE final]
        /\ replicas' = IF step = "BeginScaleBack" THEN Restored(w) ELSE replicas
    BY <1>4 DEF DecideAndWrite
  <2>2. step \in Steps /\ (step = "BeginScaleBack" => w.until = NoTime)
    BY DEF decideWindowStep, Steps
  <2>3. forced \in BOOLEAN
    BY <1>1 DEF RoutedWindow, maxWindowExceeded
  <2> HIDE DEF step, forced, live
  <2>4. /\ next \in RoutedWindow /\ next.exists /\ next.action = w.action
        /\ step = "BeginScaleBack" => next.until = ScaleBackAfter
    BY <1>1, <2>2 DEF RoutedWindow, Phases, Messages, Steps
  <2> HIDE DEF next
  <2>5. /\ final \in RoutedWindow /\ final.exists /\ final.action = w.action
        /\ final.until = next.until
    BY <2>3, <2>4 DEF RoutedWindow
  <2> HIDE DEF final
  <2>6. step = "BeginScaleBack" => win' # win
    BY <1>1, <2>1, <2>2, <2>4, <2>5 DEF NoTime
  <2>7. replicas' \in Nat /\ replicas' >= UserReplicas /\ (win' = win => replicas' = replicas)
    BY <1>1, <1>2, <2>1, <2>6
  <2> HIDE DEF w
  <2>8. /\ win' \in [Policies -> RoutedWindow]
        /\ \A q \in Policies \ {p} : win'[q] = win[q]
        /\ win'[p] = None \/ win'[p] = final
    BY <1>1, <2>1, <2>5, NoneType
  <2>9. QED
    BY <1>1, <2>5, <2>7, <2>8, NoneType DEF w
<1>5. QED
  BY <1>3, <1>4 DEF WindowReconcile

\* What the first part of a policy reconcile may do.
LEMMA StartFacts ==
  ASSUME DataInv, NEW p \in Policies, ReconcileStart(p)
  PROVE  /\ p \in queue
         /\ win' \in [Policies -> RoutedWindow] /\ policy' \in [Policies -> Policy]
         /\ \A q \in Policies \ {p} : win'[q] = win[q] /\ policy'[q] = policy[q]
         /\ win'[p].exists = win[p].exists /\ win'[p].action = win[p].action
         /\ ~win[p].exists => win' = win
         /\ win' # win => policy'[p].state = "deleting"
         /\ queue \subseteq queue' \cup {p} /\ queue' \subseteq queue
         /\ \/ policy'[p].state \in {"none", "deleting"}
               /\ policy[p].state \in {"none", "deleting"} /\ busy' = busy
            \/ policy[p].state = "new" /\ policy'[p] = [policy[p] EXCEPT !.state = "live"]
               /\ queue' = queue /\ busy' = busy
            \/ policy[p].state = "live" /\ policy' = policy
               /\ busy' = [of |-> p, mine |-> policy[p], vulnerable |-> Dying(p)]
<1>1. /\ policy[p] \in Policy /\ policy \in [Policies -> Policy]
      /\ win[p] \in RoutedWindow /\ win \in [Policies -> RoutedWindow]
      /\ NoPolicy \in Policy /\ NoPolicy.state = "none"
      /\ p \in queue
  BY NoPolicyType DEF DataInv, TypeOK, ReconcileStart
<1>2. policy[p].state \in {"none", "new", "live", "deleting"}
  BY <1>1 DEF Policy
<1>3. CASE policy[p].state = "none"
  BY <1>1, <1>3 DEF ReconcileStart
<1>4. CASE policy[p].state = "new"
  <2> DEFINE new == [policy[p] EXCEPT !.state = "live"]
  <2>1. new \in Policy /\ new.state = "live"
    BY <1>1 DEF Policy
  <2>2. policy' = [policy EXCEPT ![p] = new] /\ UNCHANGED <<queue, busy, win>>
    BY <1>4 DEF ReconcileStart
  <2>3. policy'[p] = [policy[p] EXCEPT !.state = "live"]
    BY <1>1, <2>2
  <2> HIDE DEF new
  <2>4. QED
    BY <1>1, <1>4, <2>1, <2>2, <2>3
<1>5. CASE policy[p].state = "deleting"
  <2>1. cleanup(p) /\ busy' = busy
    BY <1>5 DEF ReconcileStart
  <2>2. CASE win[p].exists
    <3> DEFINE new == [win[p] EXCEPT !.deleting = TRUE]
    <3>1. new \in RoutedWindow /\ new.exists = win[p].exists /\ new.action = win[p].action
      BY <1>1 DEF RoutedWindow
    <3>2. win' = [win EXCEPT ![p] = new] /\ UNCHANGED <<queue, policy>>
      BY <2>1, <2>2 DEF cleanup
    <3> HIDE DEF new
    <3>3. QED
      BY <1>1, <1>5, <2>1, <2>2, <3>1, <3>2
  <2>3. CASE ~win[p].exists
    BY <1>1, <1>5, <2>1, <2>3 DEF cleanup
  <2>4. QED
    BY <2>2, <2>3
<1>6. CASE policy[p].state = "live"
  BY <1>1, <1>6 DEF ReconcileStart, Dying
<1>7. QED
  BY <1>2, <1>3, <1>4, <1>5, <1>6

-------------------------------------------------------------------------------
(***************************************************************************)
(* Types, and the user's value.                                            *)
(***************************************************************************)

\* The initial states satisfy the data invariant.
LEMMA InitData == Init => DataInv
<1> SUFFICES ASSUME Init PROVE DataInv
  OBVIOUS
<1>1. node \in [Nodes -> Node]
  BY DEF Init, Node
<1>2. pod \in [Pods -> Pod]
  <2> DEFINE First == {[state |-> "alive", node |-> n, optedIn |-> TRUE] : n \in Nodes}
                      \cup {[state |-> "none", node |-> Unbound, optedIn |-> TRUE]}
  <2>1. pod \in [Pods -> First]
    BY DEF Init
  <2>2. First \subseteq Pod
    <3>1. ASSUME NEW n \in Nodes PROVE [state |-> "alive", node |-> n, optedIn |-> TRUE] \in Pod
      BY DEF Pod
    <3>2. [state |-> "none", node |-> Unbound, optedIn |-> TRUE] \in Pod
      BY DEF Pod
    <3>3. QED
      BY <3>1, <3>2
  <2> HIDE DEF First
  <2>3. QED
    BY <2>1, <2>2
<1>3. policy \in [Policies -> Policy]
  <2>1. policy \in [Policies -> {NoPolicy} \cup [state: {"live"}, spec: AllSpecs]]
    BY DEF Init
  <2>2. ASSUME NEW p \in Policies PROVE policy[p] \in Policy
    BY <2>1, NoPolicyType DEF Policy
  <2>3. QED
    BY <2>1, <2>2
<1>4. win \in [Policies -> RoutedWindow] /\ WindowsSound
  BY NoneType DEF Init, WindowsSound
<1>5. QED
  BY <1>1, <1>2, <1>3, <1>4 DEF Init, DataInv, TypeOK, NeverBelowUser

\* What the handlers, the reads and the arriving changes leave alone.
LEMMA ChangeType ==
  ASSUME changes \in Nat, Change
  PROVE  changes' \in Nat
  BY DEF Change

\* Every step keeps the data invariant.
LEMMA StepData == DataInv /\ [Next]_vars => DataInv'
<1> SUFFICES ASSUME DataInv, [Next]_vars PROVE DataInv'
  OBVIOUS
<1> USE DEF DataInv
<1>1. CASE UNCHANGED vars
  BY <1>1 DEF vars, caches, TypeOK, NeverBelowUser, WindowsSound
<1>2. ASSUME NEW e \in events, HandleEvent(e) PROVE DataInv'
  <2>1. queue' \subseteq Policies
    BY <1>2 DEF HandleEvent, TypeOK, policiesForNodeUpdate, mapPodToPolicies, policiesForNode
  <2>2. events' \subseteq Event /\ UNCHANGED <<caches, busy, win, replicas, spare, handed, changes, shared>>
    BY <1>2 DEF HandleEvent, TypeOK
  <2>3. QED
    BY <2>1, <2>2 DEF caches, TypeOK, NeverBelowUser, WindowsSound
<1>3. ASSUME NEW p \in Policies, ReconcileStart(p) PROVE DataInv'
  <2>1. UNCHANGED <<node, pod, dep, events, replicas, spare, handed, changes, shared>>
    BY <1>3 DEF ReconcileStart
  <2>2. Dying(p) \subseteq Nodes /\ policy[p] \in Policy
    BY DEF Dying, TypeOK
  <2>3. busy' = Idle \/ busy' \in [of: Policies, mine: Policy, vulnerable: SUBSET Nodes]
    <3>1. busy' = busy \/ busy' = [of |-> p, mine |-> policy[p], vulnerable |-> Dying(p)]
      BY <1>3, StartFacts
    <3>2. busy = Idle \/ busy \in [of: Policies, mine: Policy, vulnerable: SUBSET Nodes]
      BY DEF TypeOK
    <3>3. QED
      BY <2>2, <3>1, <3>2
  <2>4. queue' \subseteq Policies
    BY <1>3, StartFacts DEF TypeOK
  <2>5. TypeOK'
    BY <1>3, <2>1, <2>3, <2>4, StartFacts DEF TypeOK
  <2>6. WindowsSound'
    <3> SUFFICES ASSUME NEW q \in Policies
                 PROVE  /\ win'[q].exists => win'[q].action >= UserReplicas
                        /\ ~win'[q].exists => win'[q] = None
      BY DEF WindowsSound
    <3>1. CASE q = p
      BY <1>3, <3>1, StartFacts DEF WindowsSound
    <3>2. CASE q # p
      BY <1>3, <3>2, StartFacts DEF WindowsSound
    <3>3. QED
      BY <3>1, <3>2
  <2>7. QED
    BY <2>1, <2>5, <2>6 DEF NeverBelowUser
<1>4. ASSUME NEW ok \in BOOLEAN, ReconcileFinish(ok) PROVE DataInv'
  <2> DEFINE p == busy.of
  <2>1. UNCHANGED <<caches, events, spare>> /\ busy' = Idle
    BY <1>4 DEF ReconcileFinish
  <2>2. p \in Policies
    BY <1>4, FinishFacts
  <2>3. changes' \in Nat
    BY <1>4, ChangeType DEF ReconcileFinish, TypeOK
  <2>4. queue' \subseteq Policies /\ handed' \subseteq Policies
    BY <1>4, <2>2 DEF ReconcileFinish, TypeOK
  <2>5. shared' \subseteq Policies
    BY <1>4, <2>2 DEF ReconcileFinish, TypeOK
  <2>6. TypeOK'
    BY <1>4, <2>1, <2>3, <2>4, <2>5, FinishFacts DEF TypeOK, caches
  <2>7. WindowsSound'
    <3> SUFFICES ASSUME NEW q \in Policies
                 PROVE  /\ win'[q].exists => win'[q].action >= UserReplicas
                        /\ ~win'[q].exists => win'[q] = None
      BY DEF WindowsSound
    <3>1. CASE q = busy.of
      BY <1>4, <3>1, FinishFacts
    <3>2. CASE q # busy.of
      BY <1>4, <3>2, FinishFacts DEF WindowsSound
    <3>3. QED
      BY <3>1, <3>2
  <2>8. NeverBelowUser'
    BY <1>4, FinishFacts DEF NeverBelowUser, TypeOK
  <2>9. QED
    BY <2>6, <2>7, <2>8
<1>5. ASSUME NEW p \in Policies, WindowReconcile(p) PROVE DataInv'
  <2>1. UNCHANGED <<caches, events, busy, spare, handed, changes, shared>> /\ queue' \subseteq Policies
    BY <1>5 DEF WindowReconcile, TypeOK
  <2>2. TypeOK'
    BY <1>5, <2>1, WindowFacts DEF TypeOK, caches
  <2>3. WindowsSound'
    <3> SUFFICES ASSUME NEW q \in Policies
                 PROVE  /\ win'[q].exists => win'[q].action >= UserReplicas
                        /\ ~win'[q].exists => win'[q] = None
      BY DEF WindowsSound
    <3>1. CASE q = p
      BY <1>5, <3>1, WindowFacts DEF WindowsSound
    <3>2. CASE q # p
      BY <1>5, <3>2, WindowFacts DEF WindowsSound
    <3>3. QED
      BY <3>1, <3>2
  <2>4. NeverBelowUser'
    BY <1>5, WindowFacts DEF NeverBelowUser
  <2>5. QED
    BY <2>2, <2>3, <2>4
<1>6. CASE Tick
  <2>1. UNCHANGED <<caches, events, queue, busy, replicas, spare, handed, changes, shared>>
    BY <1>6 DEF Tick
  <2>2. win' = [p \in Policies |-> Age(win[p])]
    BY <1>6 DEF Tick
  <2>3. ASSUME NEW q \in Policies
        PROVE  /\ win'[q] \in RoutedWindow
               /\ win'[q].exists => win'[q].action >= UserReplicas
               /\ ~win'[q].exists => win'[q] = None
    <3>1. win[q] \in RoutedWindow /\ win'[q] = Age(win[q])
      BY <2>2 DEF TypeOK
    <3>2. QED
      BY <3>1, AgeFacts DEF WindowsSound
  <2>4. win' \in [Policies -> RoutedWindow]
    BY <2>2, <2>3
  <2>5. QED
    BY <2>1, <2>3, <2>4 DEF caches, TypeOK, NeverBelowUser, WindowsSound
<1>7. ASSUME NEW n \in Nodes, NEW new \in Node, NodeChanges(n, new) PROVE DataInv'
  <2> DEFINE e == [of |-> "node", name |-> n, old |-> node[n], new |-> new]
  <2>1. /\ node' = [node EXCEPT ![n] = new]
        /\ events' \in {events, events \cup {e}}
        /\ UNCHANGED <<pod, dep, policy, queue, busy, win, replicas, spare, handed, shared>>
    BY <1>7 DEF NodeChanges
  <2>2. changes' \in Nat
    BY <1>7, ChangeType DEF NodeChanges, TypeOK
  <2>3. e \in Event
    BY DEF Event, TypeOK
  <2> HIDE DEF e
  <2>4. node' \in [Nodes -> Node] /\ events' \subseteq Event
    BY <2>1, <2>3 DEF TypeOK
  <2>5. QED
    BY <2>1, <2>2, <2>4 DEF TypeOK, NeverBelowUser, WindowsSound
<1>8. ASSUME NEW q \in Pods, NEW new \in Pod, PodChanges(q, new) PROVE DataInv'
  <2> DEFINE e == [of |-> "pod", old |-> pod[q], new |-> new]
  <2>1. /\ pod' = [pod EXCEPT ![q] = new]
        /\ events' \in {events, events \cup {e}}
        /\ UNCHANGED <<node, dep, policy, queue, busy, win, replicas, spare, handed, shared>>
    BY <1>8 DEF PodChanges
  <2>2. changes' \in Nat
    BY <1>8, ChangeType DEF PodChanges, TypeOK
  <2>3. e \in Event
    BY DEF Event, TypeOK
  <2> HIDE DEF e
  <2>4. pod' \in [Pods -> Pod] /\ events' \subseteq Event
    BY <2>1, <2>3 DEF TypeOK
  <2>5. QED
    BY <2>1, <2>2, <2>4 DEF TypeOK, NeverBelowUser, WindowsSound
<1>9. ASSUME NEW p \in Policies, NEW new \in Policy, PolicyChanges(p, new) PROVE DataInv'
  <2>1. /\ policy' = [policy EXCEPT ![p] = new] /\ queue' = queue \cup {p}
        /\ UNCHANGED <<node, pod, dep, events, busy, win, replicas, spare, shared>>
    BY <1>9 DEF PolicyChanges
  <2>2. changes' \in Nat
    BY <1>9, ChangeType DEF PolicyChanges, TypeOK
  <2>3. handed' \subseteq Policies
    BY <1>9 DEF PolicyChanges, TypeOK, ResolveOwner, FirstByName, Present
  <2>4. QED
    BY <2>1, <2>2, <2>3 DEF TypeOK, NeverBelowUser, WindowsSound
<1>10. ASSUME NEW d \in Deployments, DeploymentChanges(d) PROVE DataInv'
  <2>1. /\ dep' = d
        /\ UNCHANGED <<node, pod, policy, events, queue, busy, win, replicas, spare, shared>>
    BY <1>10 DEF DeploymentChanges
  <2>2. changes' \in Nat
    BY <1>10, ChangeType DEF DeploymentChanges, TypeOK
  <2>3. handed' \subseteq Policies
    BY <1>10 DEF DeploymentChanges, TypeOK, ResolveOwner, FirstByName, Present
  <2>4. QED
    BY <2>1, <2>2, <2>3 DEF TypeOK, NeverBelowUser, WindowsSound
<1>11. CASE SpareChanges
  <2>1. changes' \in Nat
    BY <1>11, ChangeType DEF SpareChanges, TypeOK
  <2>2. spare' \in BOOLEAN
    BY <1>11 DEF SpareChanges, TypeOK
  <2>3. QED
    BY <1>11, <2>1, <2>2 DEF SpareChanges, caches, TypeOK, NeverBelowUser, WindowsSound
<1>12. CASE ReconcileFails
  <2>1. changes' \in Nat
    BY <1>12, ChangeType DEF ReconcileFails, TypeOK
  <2>2. queue' \subseteq Policies
    BY <1>12 DEF ReconcileFails, TypeOK
  <2>3. QED
    BY <1>12, <2>1, <2>2 DEF ReconcileFails, caches, TypeOK, NeverBelowUser, WindowsSound
<1>13. CASE Restart
  <2>1. changes' \in Nat
    BY <1>13, ChangeType DEF Restart, TypeOK
  <2>2. QED
    BY <1>13, <2>1 DEF Restart, caches, TypeOK, NeverBelowUser, WindowsSound
<1>14. QED
  BY <1>1, <1>2, <1>3, <1>4, <1>5, <1>6, <1>7, <1>8, <1>9, <1>10, <1>11,
     <1>12, <1>13, NextCases

\* The data invariant always holds.
LEMMA DataHolds == Spec => []DataInv
  BY InitData, StepData, PTL DEF Spec

\* Type correctness: whatever arrives in whatever order, every variable keeps
\* its type; in particular the capacity field stays a number although a
\* window's restore writes back what the window recorded.
THEOREM TypeCorrect == Spec => []TypeOK
<1>1. DataInv => TypeOK
  BY DEF DataInv
<1>2. QED
  BY <1>1, DataHolds, PTL

\* Several policies' windows on one capacity field, opened, restored and
\* deleted in any order, never take it below the user's value between them.
THEOREM NeverBelowUserHolds == Spec => []NeverBelowUser
<1>1. DataInv => NeverBelowUser
  BY DEF DataInv
<1>2. QED
  BY <1>1, DataHolds, PTL

\* In every state the reconcilers (policyown.Owns) and the eviction gate
\* (policyown.ResolveOwner) agree on the Deployment's owner.
THEOREM OwnersAgreeAlways == Spec => []OwnersAgree
<1>1. OwnersAgree
  BY OneOwner DEF OwnersAgree
<1>2. QED
  BY <1>1, PTL

-------------------------------------------------------------------------------
(***************************************************************************)
(* Windows on the same field.                                              *)
(***************************************************************************)

\* The histories of two windows that exist at once are kept.
LEMMA StepShared == DataInv /\ SharedMarked /\ [Next]_vars => SharedMarked'
<1> SUFFICES ASSUME DataInv, SharedMarked, [Next]_vars,
                    NEW p \in Policies, NEW q \in Policies, p # q,
                    win'[p].exists, win'[q].exists
             PROVE  p \in shared'
  BY DEF SharedMarked
<1>1. TypeOK
  BY DEF DataInv
<1>2. CASE UNCHANGED <<win, shared>>
  BY <1>2 DEF SharedMarked
<1>3. ASSUME NEW r \in Policies, ReconcileStart(r) PROVE p \in shared'
  <2>1. win[p].exists /\ win[q].exists
    BY <1>3, StartFacts
  <2>2. QED
    BY <1>3, <2>1 DEF SharedMarked, ReconcileStart
<1>4. ASSUME NEW ok \in BOOLEAN, ReconcileFinish(ok) PROVE p \in shared'
  <2> DEFINE r == busy.of
             others == {s \in Policies \ {r} : win[s].exists}
  <2>1. /\ r \in Policies
        /\ \A s \in Policies \ {r} : win'[s] = win[s]
        /\ win[r].exists => win'[r].exists
    BY <1>4, FinishFacts
  <2>2. shared' = IF win'[r].exists /\ ~win[r].exists
                  THEN IF others = {} THEN shared \ {r} ELSE shared \cup others \cup {r}
                  ELSE shared
    BY <1>4 DEF ReconcileFinish
  <2> HIDE DEF r
  <2>3. CASE ~(win'[r].exists /\ ~win[r].exists)
    <3>1. win[p].exists /\ win[q].exists
      BY <2>1, <2>3
    <3>2. QED
      BY <2>2, <2>3, <3>1 DEF SharedMarked
  <2>4. CASE win'[r].exists /\ ~win[r].exists
    <3>1. CASE p = r \/ q = r
      <4>1. (q # r => q \in others) /\ (p # r => p \in others)
        BY <2>1
      <4>2. others # {}
        BY <3>1, <4>1
      <4>3. shared' = shared \cup others \cup {r}
        BY <2>2, <2>4, <4>2
      <4>4. QED
        BY <4>1, <4>3
    <3>2. CASE p # r /\ q # r
      <4>1. win[p].exists /\ win[q].exists
        BY <2>1, <3>2
      <4>2. p \in shared
        BY <4>1 DEF SharedMarked
      <4>3. QED
        BY <2>2, <3>2, <4>2
    <3>3. QED
      BY <3>1, <3>2
  <2>5. QED
    BY <2>3, <2>4
<1>5. ASSUME NEW r \in Policies, WindowReconcile(r) PROVE p \in shared'
  <2>1. win[p].exists /\ win[q].exists
    BY <1>5, WindowFacts
  <2>2. QED
    BY <1>5, <2>1 DEF SharedMarked, WindowReconcile
<1>6. CASE Tick
  <2>1. win'[p] = Age(win[p]) /\ win'[q] = Age(win[q]) /\ win[p] \in RoutedWindow /\ win[q] \in RoutedWindow
    BY <1>1, <1>6 DEF Tick, TypeOK
  <2>2. win[p].exists /\ win[q].exists
    BY <2>1, AgeFacts
  <2>3. QED
    BY <1>6, <2>2 DEF SharedMarked, Tick
<1>7. CASE UNCHANGED vars
  BY <1>2, <1>7 DEF vars
<1>8. QED
  BY <1>1, <1>2, <1>3, <1>4, <1>5, <1>6, <1>7, NextCases
     DEF HandleEvent, NodeChanges, PodChanges, PolicyChanges, DeploymentChanges,
         SpareChanges, ReconcileFails, Restart

-------------------------------------------------------------------------------
(***************************************************************************)
(* Which changes wake a policy.                                            *)
(***************************************************************************)

\* A node event wakes the policies whose filter takes either version.
LEMMA WokenByNode ==
  ASSUME NEW p \in Policies, NEW e, e.of = "node"
  PROVE  p \in Woken(e)
           <=> /\ policy[p].state # "none"
               /\ \/ e.old.exists /\ Matches(e.name, e.old.marks, policy[p].spec.filter)
                  \/ e.new.exists /\ Matches(e.name, e.new.marks, policy[p].spec.filter)
  BY DEF Woken, policiesForNodeUpdate, policiesForNode

\* One version of a pod wakes the policies its node is dying for.
LEMMA WokenByPod ==
  ASSUME NEW p \in Policies, NEW v
  PROVE  p \in mapPodToPolicies(v)
           <=> /\ v.node # Unbound /\ v.state # "none"
               /\ policy[p].state # "none" /\ IsDying(v.node, policy[p].spec)
  BY DEF mapPodToPolicies, policiesForNode, IsDying

\* Every event is a node event or a pod event.
LEMMA EventKinds ==
  ASSUME TypeOK, NEW e \in events
  PROVE  \/ e.of = "node"
         \/ /\ e.of = "pod"
            /\ e.old.node \in Nodes \cup {Unbound} /\ e.new.node \in Nodes \cup {Unbound}
<1>1. e \in Event
  BY DEF TypeOK
<1>2. CASE e \in [of: {"node"}, name: Nodes, old: Node, new: Node]
  BY <1>2
<1>3. CASE e \in [of: {"pod"}, old: Pod, new: Pod]
  BY <1>3 DEF Pod
<1>4. QED
  BY <1>1, <1>2, <1>3 DEF Event

\* A policy that is not touched keeps what the events mean for it, and its
\* dying nodes, as long as the nodes stay.
LEMMA SameNodes ==
  ASSUME NEW p \in Policies, node' = node, policy'[p] = policy[p]
  PROVE  /\ Dying(p)' = Dying(p)
         /\ \A n : IsDying(n, policy[p].spec)' <=> IsDying(n, policy[p].spec)
         /\ \A e : p \in Woken(e) => (p \in Woken(e))'
<1>1. \A n : IsDying(n, policy[p].spec)' <=> IsDying(n, policy[p].spec)
  BY DEF IsDying
<1>2. Dying(p)' = Dying(p)
  BY <1>1 DEF Dying
<1>3. ASSUME NEW e, p \in Woken(e) PROVE (p \in Woken(e))'
  BY <1>3 DEF Woken, policiesForNodeUpdate, mapPodToPolicies, policiesForNode
<1>4. QED
  BY <1>1, <1>2, <1>3

\* A node that is written differently is an event, and the event wakes every
\* policy it is dying for, before or after.
LEMMA NodeWakes ==
  ASSUME TypeOK, NEW n \in Nodes, NEW new \in Node, NodeChanges(n, new),
         NEW p \in Policies, policy[p].state # "none", new # node[n],
         IsDying(n, policy[p].spec) \/ IsDying(n, policy[p].spec)'
  PROVE  Pending(p)'
<1>0. PICK e : e = [of |-> "node", name |-> n, old |-> node[n], new |-> new]
  OBVIOUS
<1>1. /\ node' = [node EXCEPT ![n] = new] /\ policy' = policy
      /\ events' = IF nodeDisruptionPredicate(e) THEN events \cup {e} ELSE events
  BY <1>0 DEF NodeChanges
<1>2. /\ e.of = "node" /\ e.name = n /\ e.old = node[n] /\ e.new = new
      /\ node'[n] = new /\ node[n] \in Node
  BY <1>0, <1>1 DEF TypeOK
<1>3. nodeDisruptionPredicate(e)
  <2> SUFFICES ASSUME node[n].exists, new.exists,
                      \A place \in Places : {m \in node[n].marks : Place[m] = place}
                                              = {m \in new.marks : Place[m] = place}
               PROVE  FALSE
    BY <1>2 DEF nodeDisruptionPredicate, taintsOrLabelsChanged
  <2>1. node[n].marks \subseteq Marks /\ new.marks \subseteq Marks
    BY <1>2 DEF Node
  <2>2. ASSUME NEW m \in Marks PROVE m \in node[n].marks <=> m \in new.marks
    <3>1. Place[m] \in Places
      OBVIOUS
    <3>2. {x \in node[n].marks : Place[x] = Place[m]} = {x \in new.marks : Place[x] = Place[m]}
      BY <3>1
    <3>3. QED
      BY <3>2
  <2>3. node[n].marks = new.marks
    BY <2>1, <2>2
  <2>4. QED
    BY <1>2, <2>3 DEF Node
<1>4. e \in events'
  BY <1>1, <1>3
<1>5. \/ node[n].exists /\ Matches(n, node[n].marks, policy[p].spec.filter)
      \/ new.exists /\ Matches(n, new.marks, policy[p].spec.filter)
  BY <1>1, <1>2 DEF IsDying
<1>6. p \in Woken(e)
  BY <1>2, <1>5, WokenByNode
<1>7. (p \in Woken(e))'
  BY <1>1, <1>2, <1>6 DEF Woken, policiesForNodeUpdate, policiesForNode
<1>8. QED
  BY <1>4, <1>7 DEF Pending

\* A pod that is written differently is an event, and the event wakes every
\* policy for which it lives on a dying node, before or after.
LEMMA PodWakes ==
  ASSUME TypeOK, NEW q \in Pods, NEW new \in Pod, PodChanges(q, new),
         NEW p \in Policies, policy[p].state # "none", new # pod[q],
         NEW v \in {pod[q], new}, v.state = "alive", v.node \in Dying(p)
  PROVE  Pending(p)'
<1>0. PICK e : e = [of |-> "pod", old |-> pod[q], new |-> new]
  OBVIOUS
<1>1. /\ node' = node /\ policy' = policy
      /\ events' = IF podPolicyPredicate(e) THEN events \cup {e} ELSE events
  BY <1>0 DEF PodChanges
<1>2. e.of = "pod" /\ e.old = pod[q] /\ e.new = new /\ pod[q] \in Pod
  BY <1>0 DEF TypeOK
<1>3. podPolicyPredicate(e)
  <2> SUFFICES ASSUME pod[q].state # "none", new.state # "none",
                      pod[q].node = new.node, pod[q].optedIn = new.optedIn,
                      (pod[q].state = "terminating") <=> (new.state = "terminating")
               PROVE  FALSE
    BY <1>2 DEF podPolicyPredicate, podMembershipChanged
  <2>1. pod[q].state = new.state
    BY <1>2 DEF Pod
  <2>2. QED
    BY <1>2, <2>1 DEF Pod
<1>4. e \in events'
  BY <1>1, <1>3
<1>5. v.node \in Nodes /\ v.node # Unbound /\ IsDying(v.node, policy[p].spec)
  BY DEF Dying, Unbound
<1>6. p \in mapPodToPolicies(v)
  BY <1>5, WokenByPod
<1>7. p \in Woken(e)
  BY <1>2, <1>6 DEF Woken
<1>8. (p \in Woken(e))'
  BY <1>1, <1>7, SameNodes
<1>9. QED
  BY <1>4, <1>8 DEF Pending

\* A policy that is to be reconciled stays so until its reconcile starts: no
\* later change makes a pending event forget it.
LEMMA PendingKept ==
  ASSUME TypeOK, Next, NEW p \in Policies, Pending(p)
  PROVE  \/ Pending(p)'
         \/ ReconcileStart(p)
         \/ Restart /\ policy[p].state = "none"
<1>1. CASE \E e \in events : HandleEvent(e)
  <2>1. PICK d \in events : HandleEvent(d)
    BY <1>1
  <2>2. queue' = queue \cup Woken(d) /\ events' = events \ {d} /\ UNCHANGED <<node, policy>>
    BY <2>1 DEF HandleEvent, Woken, caches
  <2>3. CASE p \in queue \cup Woken(d)
    BY <2>2, <2>3 DEF Pending
  <2>4. CASE p \notin queue \cup Woken(d)
    <3>1. PICK e \in events : p \in Woken(e)
      BY <2>4 DEF Pending
    <3>2. e \in events' /\ (p \in Woken(e))'
      BY <2>2, <2>4, <3>1, SameNodes
    <3>3. QED
      BY <3>2 DEF Pending
  <2>5. QED
    BY <2>3, <2>4
<1>2. ASSUME node' = node, policy'[p] = policy[p], events \subseteq events',
             p \in queue => p \in queue'
      PROVE  Pending(p)'
  BY <1>2, SameNodes DEF Pending
<1>3. ASSUME NEW n \in Nodes, NEW new \in Node, NodeChanges(n, new) PROVE Pending(p)'
  <2>1. /\ node' = [node EXCEPT ![n] = new] /\ policy' = policy /\ queue' = queue
        /\ events \subseteq events'
    BY <1>3 DEF NodeChanges
  <2>2. CASE p \in queue
    BY <2>1, <2>2 DEF Pending
  <2>3. CASE new = node[n]
    BY <1>2, <2>1, <2>3, SameNodes DEF TypeOK, Pending
  <2>4. ASSUME NEW e \in events, p \in Woken(e), new # node[n] PROVE Pending(p)'
    <3>1. CASE e.of = "node"
      <4>1. (p \in Woken(e))'
        BY <2>1, <2>4, <3>1 DEF Woken, policiesForNodeUpdate, policiesForNode
      <4>2. QED
        BY <2>1, <4>1 DEF Pending
    <3>2. CASE e.of # "node"
      <4>1. PICK v \in {e.old, e.new} : p \in mapPodToPolicies(v)
        BY <2>4, <3>2 DEF Woken
      <4>2. /\ v.node # Unbound /\ v.state # "none"
            /\ policy[p].state # "none" /\ IsDying(v.node, policy[p].spec)
        BY <4>1, WokenByPod
      <4>3. v.node \in Nodes
        BY <3>2, <4>2, EventKinds
      <4>4. CASE v.node = n
        BY <1>3, <2>4, <4>2, <4>4, NodeWakes
      <4>5. CASE v.node # n
        <5>1. node'[v.node] = node[v.node]
          BY <2>1, <4>3, <4>5 DEF TypeOK
        <5>2. IsDying(v.node, policy[p].spec)'
          BY <2>1, <4>2, <5>1 DEF IsDying
        <5>3. (p \in mapPodToPolicies(v))'
          BY <2>1, <4>2, <5>1 DEF mapPodToPolicies, policiesForNode, IsDying
        <5>4. (p \in Woken(e))'
          BY <3>2, <5>3 DEF Woken
        <5>5. QED
          BY <2>1, <5>4 DEF Pending
      <4>6. QED
        BY <4>4, <4>5
    <3>3. QED
      BY <3>1, <3>2
  <2>5. QED
    BY <2>2, <2>3, <2>4 DEF Pending
<1>4. ASSUME NEW r \in Policies, ReconcileStart(r), r # p PROVE Pending(p)'
  <2>1. node' = node /\ events' = events
    BY <1>4 DEF ReconcileStart
  <2>2. policy[r].state \in {"none", "new", "live", "deleting"} /\ policy \in [Policies -> Policy]
    BY DEF TypeOK, Policy
  <2>3. p \in queue => p \in queue'
    BY <1>4, <2>2 DEF ReconcileStart, cleanup
  <2>4. policy'[p] = policy[p]
    BY <1>4, <2>2 DEF ReconcileStart, cleanup
  <2>5. QED
    BY <1>2, <2>1, <2>3, <2>4
<1>5. ASSUME NEW r \in Policies, NEW new \in Policy, PolicyChanges(r, new) PROVE Pending(p)'
  <2>1. /\ node' = node /\ events' = events /\ queue' = queue \cup {r}
        /\ policy' = [policy EXCEPT ![r] = new]
    BY <1>5 DEF PolicyChanges
  <2>2. CASE r = p
    BY <2>1, <2>2 DEF Pending
  <2>3. CASE r # p
    <3>1. policy'[p] = policy[p]
      BY <2>1, <2>3 DEF TypeOK
    <3>2. QED
      BY <1>2, <2>1, <3>1
  <2>4. QED
    BY <2>2, <2>3
<1>6. CASE Restart
  BY <1>6 DEF Restart, Pending
<1>7. ASSUME NEW ok \in BOOLEAN, ReconcileFinish(ok) PROVE Pending(p)'
  <2>1. queue \subseteq queue' /\ UNCHANGED <<caches, events>>
    BY <1>7 DEF ReconcileFinish
  <2>2. QED
    BY <1>2, <2>1 DEF caches
<1>8. ASSUME NEW r \in Policies, WindowReconcile(r) PROVE Pending(p)'
  <2>1. queue \subseteq queue' /\ UNCHANGED <<caches, events>>
    BY <1>8 DEF WindowReconcile
  <2>2. QED
    BY <1>2, <2>1 DEF caches
<1>9. ASSUME NEW q \in Pods, NEW new \in Pod, PodChanges(q, new) PROVE Pending(p)'
  <2>1. queue' = queue /\ events \subseteq events' /\ UNCHANGED <<node, policy>>
    BY <1>9 DEF PodChanges
  <2>2. QED
    BY <1>2, <2>1
<1>10. CASE Tick \/ SpareChanges \/ ReconcileFails \/ \E d \in Deployments : DeploymentChanges(d)
  <2>1. queue \subseteq queue' /\ UNCHANGED <<node, policy, events>>
    BY <1>10 DEF Tick, SpareChanges, ReconcileFails, DeploymentChanges, caches
  <2>2. QED
    BY <1>2, <2>1
<1>11. QED
  BY <1>1, <1>3, <1>4, <1>5, <1>6, <1>7, <1>8, <1>9, <1>10, NextCases

-------------------------------------------------------------------------------
(***************************************************************************)
(* The running reconcile.                                                  *)
(***************************************************************************)

\* busy names a policy exactly while a reconcile runs.
LEMMA BusyNames ==
  ASSUME TypeOK
  PROVE  /\ Idle.of \notin Policies
         /\ busy # Idle <=> busy.of \in Policies
  BY DEF TypeOK, Idle

\* What a running reconcile has read is current, or its policy is pending.
LEMMA StepBusy == DataInv /\ DataInv' /\ BusySound /\ [Next]_vars => BusySound'
<1> SUFFICES ASSUME DataInv, DataInv', BusySound, [Next]_vars, busy' # Idle
             PROVE  BusySound'
  BY DEF BusySound
<1>0. TypeOK /\ TypeOK'
  BY DEF DataInv
<1>1. CASE UNCHANGED vars
  BY <1>1 DEF vars, caches, BusySound, Pending, Dying, IsDying, Woken, policiesForNodeUpdate,
              mapPodToPolicies, policiesForNode
<1>2. ASSUME NEW p \in Policies, ReconcileStart(p) PROVE BusySound'
  <2>1. busy = Idle /\ node' = node
    BY <1>2 DEF ReconcileStart
  <2>2. /\ policy[p].state = "live" /\ policy' = policy
        /\ busy' = [of |-> p, mine |-> policy[p], vulnerable |-> Dying(p)]
    BY <1>2, <2>1, StartFacts
  <2>3. Dying(p)' = Dying(p)
    BY <2>1, <2>2, SameNodes
  <2>4. busy'.of = p /\ busy'.mine = policy'[p] /\ busy'.mine.state = "live"
    BY <2>2
  <2>5. busy'.vulnerable = Dying(p)'
    BY <2>2, <2>3
  <2>6. QED
    BY <2>4, <2>5 DEF BusySound, Dying
<1>3. CASE Next /\ busy' = busy
  <2> DEFINE p == busy.of
  <2>1. p \in Policies /\ busy # Idle /\ busy' = busy
    BY <1>0, <1>3, BusyNames
  <2>2. PICK r : r = p
    OBVIOUS
  <2>3. ASSUME Pending(r)' PROVE BusySound'
    BY <2>1, <2>2, <2>3 DEF BusySound, Pending
  <2>4. CASE Pending(r)
    <3>1. ~ReconcileStart(r) /\ ~Restart
      BY <1>3, <2>1 DEF ReconcileStart, Restart
    <3>2. QED
      BY <1>0, <1>3, <2>1, <2>2, <2>3, <2>4, <3>1, PendingKept
  <2>5. CASE ~Pending(r)
    <3>1. busy.mine = policy[r] /\ busy.mine.state = "live" /\ busy.vulnerable = Dying(r)
      BY <2>1, <2>2, <2>5 DEF BusySound
    <3>2. ASSUME policy'[r] = policy[r], Dying(r)' = Dying(r) PROVE BusySound'
      BY <2>1, <2>2, <3>1, <3>2 DEF BusySound, Dying
    <3>3. CASE node' = node /\ policy'[r] = policy[r]
      BY <2>1, <2>2, <3>2, <3>3, SameNodes
    <3>4. ASSUME NEW n \in Nodes, NEW new \in Node, NodeChanges(n, new) PROVE BusySound'
      <4>1. node' = [node EXCEPT ![n] = new] /\ policy' = policy /\ node \in [Nodes -> Node]
        BY <1>0, <3>4 DEF NodeChanges, TypeOK
      <4>2. CASE new # node[n] /\ (IsDying(n, policy[r].spec) \/ IsDying(n, policy[r].spec)')
        BY <1>0, <2>1, <2>2, <2>3, <3>1, <3>4, <4>2, NodeWakes
      <4>3. CASE new = node[n]
        BY <3>3, <4>1, <4>3
      <4>4. CASE ~IsDying(n, policy[r].spec) /\ ~IsDying(n, policy[r].spec)'
        <5>1. ASSUME NEW k \in Nodes
              PROVE  IsDying(k, policy[r].spec) <=> IsDying(k, policy[r].spec)'
          <6>1. CASE k = n
            BY <4>4, <6>1
          <6>2. CASE k # n
            BY <4>1, <6>2 DEF IsDying
          <6>3. QED
            BY <6>1, <6>2
        <5>2. Dying(r)' = Dying(r)
          BY <5>1 DEF Dying
        <5>3. QED
          BY <3>2, <4>1, <5>2
      <4>5. QED
        BY <4>2, <4>3, <4>4
    <3>5. ASSUME NEW k \in Policies, NEW new \in Policy, PolicyChanges(k, new) PROVE BusySound'
      <4>1. policy' = [policy EXCEPT ![k] = new] /\ node' = node /\ queue' = queue \cup {k}
        BY <3>5 DEF PolicyChanges
      <4>2. CASE k = r
        BY <2>3, <4>1, <4>2 DEF Pending
      <4>3. CASE k # r
        BY <1>0, <2>1, <2>2, <3>3, <4>1, <4>3 DEF TypeOK
      <4>4. QED
        BY <4>2, <4>3
    <3>6. QED
      BY <1>0, <1>2, <1>3, <2>1, <3>3, <3>4, <3>5, NextCases
         DEF HandleEvent, ReconcileFinish, WindowReconcile, Tick, PodChanges,
             DeploymentChanges, SpareChanges, ReconcileFails, Restart, caches
  <2>6. QED
    BY <2>4, <2>5
<1>4. QED
  BY <1>0, <1>1, <1>2, <1>3, NextCases
     DEF HandleEvent, ReconcileFinish, WindowReconcile, Tick, NodeChanges, PodChanges,
         PolicyChanges, DeploymentChanges, SpareChanges, ReconcileFails, Restart

-------------------------------------------------------------------------------
(***************************************************************************)
(* Pods at risk.                                                           *)
(***************************************************************************)

\* The pods at risk, said with the owner the eviction gate would find.
LEMMA RiskIs ==
  ASSUME NEW p \in Policies
  PROVE  /\ AtRisk(p) = {q \in Pods : /\ pod[q].state = "alive" /\ pod[q].node \in Dying(p)
                                      /\ dep.found /\ pod[q].optedIn /\ dep.optedIn
                                      /\ p \in ResolveOwner(dep, policy)}
         /\ AtRisk(p) # {} => /\ policy[p].state \in {"new", "live"}
                              /\ p \in ResolveOwner(dep, policy)
         /\ AtRisk(p) = collectWorkloads(p, policy[p], Dying(p))
<1>1. AtRisk(p) = collectWorkloads(p, policy[p], Dying(p))
  BY DEF AtRisk, Dying
<1>2. Owns(p, policy[p], dep, policy) <=> p \in ResolveOwner(dep, policy)
  BY OneOwner
<1>3. Owns(p, policy[p], dep, policy) => policy[p].state \in {"new", "live"}
  BY DEF Owns
<1>4. AtRisk(p) = {q \in Pods : /\ pod[q].state = "alive" /\ pod[q].node \in Dying(p)
                                /\ dep.found /\ pod[q].optedIn /\ dep.optedIn
                                /\ Owns(p, policy[p], dep, policy)}
  BY <1>1 DEF collectWorkloads, PodsOn
<1>5. QED
  BY <1>1, <1>2, <1>3, <1>4

\* A covered policy stays covered while its pods at risk, its window and the
\* capacity field stay as they are; the field may rise, or be shared.
LEMMA CoveredKept ==
  ASSUME DataInv, DataInv', NEW p \in Policies, Covered(p),
         AtRisk(p)' = AtRisk(p),
         \A q \in AtRisk(p) : pod'[q].node = pod[q].node,
         win'[p].exists, win'[p].action = win[p].action, win'[p].nodes = win[p].nodes,
         holdMaxWindow(win[p]) => holdMaxWindow(win'[p]),
         p \in shared => p \in shared',
         p \in shared' \/ replicas' >= replicas
  PROVE  Covered(p)'
<1> DEFINE t == TargetReplicas(win[p].action, Cardinality(AtRisk(p)))
<1>1. win[p].action \in Nat \cup {NoAction} /\ replicas \in Nat /\ replicas' \in Nat
  BY DEF DataInv, TypeOK, RoutedWindow
<1>2. t \in Nat
  BY <1>1, TargetType, RiskIs, RiskFinite
<1>3. t' = t
  OBVIOUS
<1>4. {pod[q].node : q \in AtRisk(p)}' = {pod[q].node : q \in AtRisk(p)}
  OBVIOUS
<1>5. /\ holdMaxWindow(win[p])
         \/ (win[p].nodes = {pod[q].node : q \in AtRisk(p)} /\ (p \in shared \/ replicas >= t))
  BY DEF Covered
<1> HIDE DEF t
<1>6. p \in shared \/ replicas >= t => p \in shared' \/ replicas' >= t'
  BY <1>1, <1>2, <1>3
<1>7. \/ holdMaxWindow(win[p])'
      \/ (win[p].nodes = {pod[q].node : q \in AtRisk(p)})' /\ (p \in shared' \/ replicas' >= t')
  BY <1>4, <1>5, <1>6
<1>8. QED
  BY <1>7 DEF Covered, t

\* Nothing about a policy's pods changes while the caches stay.
LEMMA SameCaches ==
  ASSUME NEW p \in Policies, UNCHANGED caches
  PROVE  /\ AtRisk(p)' = AtRisk(p) /\ Dying(p)' = Dying(p)
         /\ \A n : IsDying(n, policy[p].spec)' <=> IsDying(n, policy[p].spec)
<1>1. UNCHANGED <<node, pod, dep, policy>>
  BY DEF caches
<1>2. /\ Dying(p)' = Dying(p)
      /\ \A n : IsDying(n, policy[p].spec)' <=> IsDying(n, policy[p].spec)
  BY <1>1, SameNodes
<1>3. AtRisk(p)' = collectWorkloads(p, policy[p], Dying(p))'
  BY DEF AtRisk, Dying
<1>4. collectWorkloads(p, policy[p], Dying(p))' = collectWorkloads(p, policy[p], Dying(p))
  BY <1>1, <1>2 DEF collectWorkloads, PodsOn
<1>5. QED
  BY <1>2, <1>3, <1>4, RiskIs

\* RiskIs, of the state after a step.
LEMMA RiskIsNext ==
  ASSUME NEW p \in Policies
  PROVE  /\ AtRisk(p)' = {q \in Pods : /\ pod'[q].state = "alive" /\ pod'[q].node \in Dying(p)'
                                       /\ dep'.found /\ pod'[q].optedIn /\ dep'.optedIn
                                       /\ p \in ResolveOwner(dep', policy')}
         /\ AtRisk(p)' # {} => /\ policy'[p].state \in {"new", "live"}
                               /\ p \in ResolveOwner(dep', policy')
<1>1. AtRisk(p)' = collectWorkloads(p, policy[p], Dying(p))'
  BY DEF AtRisk, Dying
<1>2. Owns(p, policy'[p], dep', policy') <=> p \in ResolveOwner(dep', policy')
  BY OneOwner
<1>3. Owns(p, policy'[p], dep', policy') => policy'[p].state \in {"new", "live"}
  BY DEF Owns
<1>4. AtRisk(p)' = {q \in Pods : /\ pod'[q].state = "alive" /\ pod'[q].node \in Dying(p)'
                                 /\ dep'.found /\ pod'[q].optedIn /\ dep'.optedIn
                                 /\ Owns(p, policy'[p], dep', policy')}
  BY <1>1 DEF collectWorkloads, PodsOn
<1>5. QED
  BY <1>2, <1>3, <1>4

\* The pods at risk stay if the dying nodes, the owner and the pods on the
\* dying nodes do.
LEMMA SameRisk ==
  ASSUME NEW p \in Policies, dep' = dep, Dying(p)' = Dying(p),
         p \in ResolveOwner(dep', policy') <=> p \in ResolveOwner(dep, policy),
         \A q \in Pods : pod'[q] = pod[q] \/ (q \notin AtRisk(p) /\ q \notin AtRisk(p)')
  PROVE  AtRisk(p)' = AtRisk(p)
<1> DEFINE In(q) == /\ pod[q].state = "alive" /\ pod[q].node \in Dying(p)
                    /\ dep.found /\ pod[q].optedIn /\ dep.optedIn
                    /\ p \in ResolveOwner(dep, policy)
           Out(q) == /\ pod'[q].state = "alive" /\ pod'[q].node \in Dying(p)'
                     /\ dep'.found /\ pod'[q].optedIn /\ dep'.optedIn
                     /\ p \in ResolveOwner(dep', policy')
<1>1. AtRisk(p) = {q \in Pods : In(q)}
  BY RiskIs
<1>2. AtRisk(p)' = {q \in Pods : Out(q)}
  BY RiskIsNext
<1>3. ASSUME NEW q \in Pods, pod'[q] = pod[q] PROVE In(q) <=> Out(q)
  BY <1>3
<1> HIDE DEF In, Out
<1>4. ASSUME NEW q \in Pods PROVE q \in AtRisk(p) <=> q \in AtRisk(p)'
  BY <1>1, <1>2, <1>3
<1>5. QED
  BY <1>1, <1>2, <1>4

\* Policies that do not take part in ownership may come and go, and one that
\* does may get its finalizer: the owner stays.
LEMMA SameOwner ==
  ASSUME NEW d, NEW a, NEW b,
         \A q \in Policies : \/ b[q].state \in {"new", "live"} /\ a[q].state \in {"new", "live"}
                                /\ b[q].spec = a[q].spec
                             \/ b[q].state \notin {"new", "live"} /\ a[q].state \notin {"new", "live"}
  PROVE  ResolveOwner(d, b) = ResolveOwner(d, a)
<1>1. Present(a) = Present(b) /\ \A q \in Present(a) : a[q].spec = b[q].spec
  BY DEF Present
<1>2. {p \in Present(a) : SelectorMatch(a[p].spec, d)}
        = {p \in Present(b) : SelectorMatch(b[p].spec, d)}
  BY <1>1
<1>3. FirstByName(d, a) = FirstByName(d, b)
  BY <1>2 DEF FirstByName
<1>4. QED
  BY <1>1, <1>3 DEF ResolveOwner

\* The pods at risk of a policy are covered, or its reconcile is coming: every
\* step keeps that.
LEMMA StepRisk == RoutingInv /\ DataInv' /\ [Next]_vars => RiskAnswered'
<1> SUFFICES ASSUME RoutingInv, DataInv', [Next]_vars,
                    NEW p \in Policies, p \notin handed', AtRisk(p)' # {}
             PROVE  Coming(p)' \/ Covered(p)'
  BY DEF RiskAnswered
<1> USE DEF RoutingInv
<1>0. TypeOK /\ TypeOK' /\ DataInv
  BY DEF DataInv
<1>1. policy'[p].state \in {"new", "live"} /\ p \in ResolveOwner(dep', policy')
  BY RiskIsNext
<1>2. CASE UNCHANGED vars
  <2>1. AtRisk(p)' = AtRisk(p) /\ UNCHANGED <<node, pod, policy, events, queue, busy, win, shared, replicas, handed>>
    BY <1>2, SameCaches DEF vars, caches
  <2>2. Coming(p) => Coming(p)'
    BY <2>1, SameNodes DEF Coming, Pending
  <2>3. Covered(p) => Covered(p)'
    BY <1>0, <2>1, CoveredKept DEF DataInv, TypeOK, Covered
  <2>4. QED
    BY <2>1, <2>2, <2>3 DEF RiskAnswered
<1> SUFFICES ASSUME Next PROVE Coming(p)' \/ Covered(p)'
  BY <1>2
\* What is pending stays so, unless this very policy's reconcile starts.
<1>3. Pending(p) => Pending(p)' \/ ReconcileStart(p)
  <2>1. Restart => policy' = policy
    BY DEF Restart, caches
  <2>2. QED
    BY <1>0, <1>1, <2>1, PendingKept
<1>4. ASSUME busy' = busy, ~ReconcileStart(p), p \notin handed, AtRisk(p) # {} PROVE Coming(p)' \/ Covered(p)
  BY <1>3, <1>4 DEF Coming, RiskAnswered
\* A step that leaves the caches alone and does not end a reconcile of p.
<1>5. ASSUME UNCHANGED caches, handed' = handed, busy' = busy, ~ReconcileStart(p)
      PROVE  (Coming(p)' \/ Covered(p)) /\ AtRisk(p)' = AtRisk(p) /\ pod' = pod
  BY <1>4, <1>5, SameCaches DEF caches
<1>6. ASSUME UNCHANGED <<caches, handed, busy, win, replicas, shared>>, ~ReconcileStart(p)
      PROVE  Coming(p)' \/ Covered(p)'
  BY <1>0, <1>5, <1>6, CoveredKept DEF Covered
<1>7. ASSUME NEW r \in Policies, ReconcileStart(r) PROVE Coming(p)' \/ Covered(p)'
  <2>1. UNCHANGED <<node, pod, dep, events, replicas, spare, handed, shared>> /\ busy = Idle
    BY <1>7 DEF ReconcileStart
  <2>2. CASE r = p
    <3>1. p \in queue' \/ busy' = [of |-> p, mine |-> policy[p], vulnerable |-> Dying(p)]
      BY <1>0, <1>1, <1>7, <2>2, StartFacts
    <3>2. QED
      BY <3>1 DEF Coming, Pending
  <2>3. CASE r # p
    <3>1. win'[p] = win[p] /\ policy'[p] = policy[p]
      BY <1>0, <1>7, <2>3, StartFacts
    <3>2. ResolveOwner(dep, policy') = ResolveOwner(dep, policy)
      <4>1. ASSUME NEW q \in Policies
            PROVE  \/ policy'[q].state \in {"new", "live"} /\ policy[q].state \in {"new", "live"}
                      /\ policy'[q].spec = policy[q].spec
                   \/ policy'[q].state \notin {"new", "live"} /\ policy[q].state \notin {"new", "live"}
        <5>1. policy[q] \in Policy
          BY <1>0 DEF TypeOK
        <5>2. CASE q # r
          BY <1>0, <1>7, <5>1, <5>2, StartFacts
        <5>3. CASE q = r
          <6>1. CASE policy'[r].state \in {"none", "deleting"} /\ policy[r].state \in {"none", "deleting"}
            BY <5>3, <6>1
          <6>2. CASE policy[r].state = "new" /\ policy'[r] = [policy[r] EXCEPT !.state = "live"]
            BY <5>1, <5>3, <6>2 DEF Policy
          <6>3. CASE policy[r].state = "live" /\ policy' = policy
            BY <5>3, <6>3
          <6>4. QED
            BY <1>0, <1>7, <6>1, <6>2, <6>3, StartFacts
        <5>4. QED
          BY <5>2, <5>3
      <4>2. QED
        BY <4>1, SameOwner
    <3>3. Dying(p)' = Dying(p)
      BY <2>1, <3>1, SameNodes
    <3>4. AtRisk(p)' = AtRisk(p)
      BY <2>1, <3>2, <3>3, SameRisk
    <3>5. Pending(p)' \/ Covered(p)
      <4>1. busy.of # p
        BY <1>0, <2>1, BusyNames
      <4>2. Pending(p) => Pending(p)'
        <5>1. \A e : p \in Woken(e) => (p \in Woken(e))'
          BY <2>1, <3>1, SameNodes
        <5>2. p \in queue => p \in queue'
          BY <1>0, <1>7, <2>3, StartFacts
        <5>3. QED
          BY <2>1, <5>1, <5>2 DEF Pending
      <4>3. QED
        BY <2>1, <3>4, <4>1, <4>2 DEF RiskAnswered, Coming
    <3>6. Covered(p) => Covered(p)'
      BY <1>0, <2>1, <3>1, <3>4, CoveredKept DEF Covered, DataInv, TypeOK
    <3>7. QED
      BY <3>5, <3>6 DEF Coming
  <2>4. QED
    BY <2>2, <2>3
<1>8. ASSUME NEW ok \in BOOLEAN, ReconcileFinish(ok) PROVE Coming(p)' \/ Covered(p)'
  <2> DEFINE r == busy.of
             risky == collectWorkloads(r, busy.mine, busy.vulnerable)
  <2>1. /\ UNCHANGED caches /\ busy # Idle /\ r \in Policies
        /\ handed' = handed \ {r} /\ queue \subseteq queue'
        /\ shared \subseteq shared' \cup {r}
    BY <1>0, <1>8, BusyNames DEF ReconcileFinish
  <2>2. AtRisk(p)' = AtRisk(p) /\ pod' = pod /\ ~ReconcileStart(p)
    BY <2>1, SameCaches DEF ReconcileStart, caches
  <2>3. CASE Pending(p)
    BY <1>3, <2>2, <2>3 DEF Coming
  <2>4. CASE ~Pending(p) /\ p # r
    <3>1. Covered(p)
      BY <2>1, <2>2, <2>4 DEF RiskAnswered, Coming
    <3>2. win'[p] = win[p] /\ replicas' >= replicas /\ (p \in shared => p \in shared')
      BY <1>0, <1>8, <2>1, <2>4, FinishFacts
    <3>3. QED
      BY <1>0, <2>2, <3>1, <3>2, CoveredKept DEF Covered
  <2>5. CASE ~Pending(p) /\ p = r
    <3>1. busy.mine = policy[p] /\ busy.vulnerable = Dying(p)
      BY <2>1, <2>5 DEF BusySound
    <3>2. risky = AtRisk(p)
      BY <2>5, <3>1, RiskIs
    <3>3. ensureWindow(p, AtRisk(p), ok)
      BY <1>8, <2>2, <2>5, <3>2 DEF ReconcileFinish
    <3>4. CASE ~ok \/ win' # win
      <4>1. queue' = queue \cup {p}
        BY <1>8, <2>5, <3>4 DEF ReconcileFinish
      <4>2. QED
        BY <4>1 DEF Coming, Pending
    <3>5. CASE ok /\ win' = win
      <4>1. CASE win[p].exists /\ holdMaxWindow(win[p])
        BY <3>5, <4>1 DEF Covered
      <4>2. CASE ~(win[p].exists /\ holdMaxWindow(win[p]))
        <5> DEFINE w == Opened(win[p])
                   ns == {pod[q].node : q \in AtRisk(p)}
                   m == IF ok THEN "scaledUp" ELSE "failed"
                   v == [w EXCEPT !.nodes = ns, !.until = NoTime, !.phase = "Open", !.message = m]
                   desired == TargetReplicas(w.action, Cardinality(AtRisk(p)))
        <5>1. /\ win' = [win EXCEPT ![p] = v]
              /\ replicas' = IF ok /\ replicas < desired THEN desired ELSE replicas
          BY <3>3, <4>2 DEF ensureWindow
        <5>2. win \in [Policies -> RoutedWindow] /\ win[p] \in RoutedWindow /\ replicas \in Nat
          BY <1>0 DEF TypeOK
        <5>3. w \in RoutedWindow /\ w.exists /\ (win[p].exists => w = win[p])
          <6>1. CASE win[p].exists
            BY <5>2, <6>1 DEF Opened
          <6>2. CASE ~win[p].exists
            BY <5>2, <6>2, NoneType DEF Opened, None, RoutedWindow
          <6>3. QED
            BY <6>1, <6>2
        <5>4. desired \in Nat
          <6>1. w.action \in Nat \cup {NoAction}
            BY <5>3 DEF RoutedWindow
          <6>2. Cardinality(AtRisk(p)) \in Nat
            BY RiskIs, RiskFinite
          <6>3. QED
            BY <6>1, <6>2, TargetType
        <5> HIDE DEF w, desired
        <5>5. v.exists /\ v.nodes = ns
          BY <5>3 DEF RoutedWindow
        <5> HIDE DEF v
        <5>6. win'[p] = v /\ win'[p] = win[p]
          BY <3>5, <5>1, <5>2
        <5>7. win[p].exists /\ w = win[p] /\ win[p].nodes = ns
          BY <5>3, <5>5, <5>6
        <5>8. replicas' >= desired
          BY <3>5, <5>1, <5>2, <5>4
        <5>9. desired = TargetReplicas(win[p].action, Cardinality(AtRisk(p)))
          BY <5>7 DEF desired
        <5>10. QED
          BY <2>2, <3>5, <5>7, <5>8, <5>9 DEF Covered
      <4>3. QED
        BY <4>1, <4>2
    <3>6. QED
      BY <3>4, <3>5
  <2>6. QED
    BY <2>3, <2>4, <2>5
<1>9. ASSUME NEW r \in Policies, WindowReconcile(r) PROVE Coming(p)' \/ Covered(p)'
  <2>1. /\ UNCHANGED <<caches, busy, handed, shared>>
        /\ queue' = IF win' = win THEN queue ELSE queue \cup {r}
    BY <1>9 DEF WindowReconcile
  <2>2. CASE r = p /\ win' # win
    BY <2>1, <2>2 DEF Coming, Pending
  <2>3. CASE win' = win
    <3>1. UNCHANGED <<caches, handed, busy, win, replicas, shared>>
      BY <1>0, <1>9, <2>1, <2>3, WindowFacts
    <3>2. CASE ReconcileStart(p)
      BY <1>7, <3>2
    <3>3. QED
      BY <1>6, <3>1, <3>2
  <2>4. CASE r # p
    <3>1. win'[p] = win[p] /\ win[r].exists
      BY <1>0, <1>9, <2>4, WindowFacts
    <3>2. CASE ReconcileStart(p)
      BY <1>7, <3>2
    <3>3. CASE Covered(p) /\ AtRisk(p)' = AtRisk(p) /\ pod' = pod
      <4>1. win[p].exists
        BY <3>3 DEF Covered
      <4>2. p \in shared
        BY <2>4, <3>1, <4>1 DEF SharedMarked
      <4>3. QED
        BY <1>0, <2>1, <3>1, <3>3, <4>1, <4>2, CoveredKept
    <3>4. QED
      BY <1>5, <2>1, <3>2, <3>3
  <2>5. QED
    BY <2>2, <2>3, <2>4
<1>10. CASE Tick
  <2>1. UNCHANGED <<caches, busy, handed, shared, replicas>> /\ win' = [k \in Policies |-> Age(win[k])]
    BY <1>10 DEF Tick
  <2>2. win'[p] = Age(win[p]) /\ win[p] \in RoutedWindow
    BY <1>0, <2>1 DEF TypeOK
  <2>3. CASE ReconcileStart(p)
    BY <1>7, <2>3
  <2>4. CASE Covered(p) /\ AtRisk(p)' = AtRisk(p) /\ pod' = pod
    <3>1. win[p].exists
      BY <2>4 DEF Covered
    <3>2. replicas' >= replicas
      BY <1>0, <2>1 DEF TypeOK
    <3>3. QED
      BY <1>0, <2>1, <2>2, <2>4, <3>1, <3>2, AgeFacts, CoveredKept
  <2>5. QED
    BY <1>5, <2>1, <2>3, <2>4
<1>11. ASSUME NEW n \in Nodes, NEW new \in Node, NodeChanges(n, new) PROVE Coming(p)' \/ Covered(p)'
  <2>1. /\ node' = [node EXCEPT ![n] = new] /\ node \in [Nodes -> Node]
        /\ UNCHANGED <<pod, dep, policy, busy, win, replicas, handed, shared>>
    BY <1>0, <1>11 DEF NodeChanges, TypeOK
  <2>2. CASE new # node[n] /\ (IsDying(n, policy[p].spec) \/ IsDying(n, policy[p].spec)')
    <3>1. policy[p].state # "none"
      BY <1>1, <2>1
    <3>2. QED
      BY <1>0, <1>11, <2>2, <3>1, NodeWakes DEF Coming
  <2>3. CASE \/ new = node[n]
             \/ ~IsDying(n, policy[p].spec) /\ ~IsDying(n, policy[p].spec)'
    <3>1. ASSUME NEW k \in Nodes
          PROVE  IsDying(k, policy[p].spec) <=> IsDying(k, policy[p].spec)'
      <4>1. CASE k = n /\ new # node[n]
        BY <2>3, <4>1
      <4>2. CASE k # n \/ new = node[n]
        BY <2>1, <4>2 DEF IsDying
      <4>3. QED
        BY <4>1, <4>2
    <3>2. Dying(p)' = Dying(p)
      BY <3>1 DEF Dying
    <3>3. AtRisk(p)' = AtRisk(p)
      BY <2>1, <3>2, SameRisk
    <3>4. CASE ReconcileStart(p)
      BY <1>7, <3>4
    <3>5. CASE Covered(p)
      BY <1>0, <2>1, <3>3, <3>5, CoveredKept DEF Covered, TypeOK
    <3>6. QED
      BY <1>4, <2>1, <3>3, <3>4, <3>5
  <2>4. QED
    BY <2>2, <2>3
<1>12. ASSUME NEW q \in Pods, NEW new \in Pod, PodChanges(q, new) PROVE Coming(p)' \/ Covered(p)'
  <2>1. /\ pod' = [pod EXCEPT ![q] = new] /\ pod \in [Pods -> Pod]
        /\ UNCHANGED <<node, dep, policy, busy, win, replicas, handed, shared>>
    BY <1>0, <1>12 DEF PodChanges, TypeOK
  <2>2. Dying(p)' = Dying(p) /\ policy[p].state # "none"
    BY <1>1, <2>1, SameNodes
  <2>3. ASSUME NEW v \in {pod[q], new}, v.state = "alive", v.node \in Dying(p), new # pod[q]
        PROVE  Coming(p)'
    BY <1>0, <1>12, <2>2, <2>3, PodWakes DEF Coming
  <2>4. CASE new # pod[q] /\ q \notin AtRisk(p) /\ q \notin AtRisk(p)'
    <3>1. ASSUME NEW k \in Pods, k # q PROVE pod'[k] = pod[k]
      BY <2>1, <3>1
    <3>2. AtRisk(p)' = AtRisk(p)
      BY <2>1, <2>2, <2>4, <3>1, SameRisk
    <3>3. \A k \in AtRisk(p) : pod'[k].node = pod[k].node
      BY <2>4, <3>1, RiskIs
    <3>4. CASE ReconcileStart(p)
      BY <1>7, <3>4
    <3>5. CASE Covered(p)
      BY <1>0, <2>1, <3>2, <3>3, <3>5, CoveredKept DEF Covered, TypeOK
    <3>6. QED
      BY <1>4, <2>1, <3>2, <3>4, <3>5
  <2>5. CASE new = pod[q]
    <3>1. pod' = pod
      BY <2>1, <2>5
    <3>2. UNCHANGED <<caches, handed, busy, win, replicas, shared>>
      BY <2>1, <3>1 DEF caches
    <3>3. CASE ReconcileStart(p)
      BY <1>7, <3>3
    <3>4. QED
      BY <1>6, <3>2, <3>3
  <2>6. CASE new # pod[q] /\ q \in AtRisk(p)
    <3>1. pod[q].state = "alive" /\ pod[q].node \in Dying(p)
      BY <2>6, RiskIs
    <3>2. QED
      BY <2>3, <2>6, <3>1
  <2>7. CASE new # pod[q] /\ q \in AtRisk(p)'
    <3>1. pod'[q].state = "alive" /\ pod'[q].node \in Dying(p)'
      BY <2>7, RiskIsNext
    <3>2. pod'[q] = new
      BY <2>1
    <3>3. QED
      BY <2>2, <2>3, <2>7, <3>1, <3>2
  <2>8. QED
    BY <2>4, <2>5, <2>6, <2>7
<1>13. ASSUME NEW r \in Policies, NEW new \in Policy, PolicyChanges(r, new) PROVE Coming(p)' \/ Covered(p)'
  <2>1. /\ policy' = [policy EXCEPT ![r] = new] /\ queue' = queue \cup {r}
        /\ handed' = handed \cup (ResolveOwner(dep, policy') \ (ResolveOwner(dep, policy) \cup {r}))
        /\ UNCHANGED <<node, pod, dep, busy, win, replicas, shared>>
    BY <1>13 DEF PolicyChanges
  <2>2. CASE r = p
    BY <2>1, <2>2 DEF Coming, Pending
  <2>3. CASE r # p
    <3>1. p \in ResolveOwner(dep, policy) /\ p \notin handed
      BY <1>1, <2>1, <2>3
    <3>2. policy'[p] = policy[p]
      BY <1>0, <2>1, <2>3 DEF TypeOK
    <3>3. Dying(p)' = Dying(p)
      BY <2>1, <3>2, SameNodes
    <3>4. AtRisk(p)' = AtRisk(p)
      BY <1>1, <2>1, <3>1, <3>3, SameRisk
    <3>5. CASE ReconcileStart(p)
      BY <1>7, <3>5
    <3>6. CASE Covered(p)
      BY <1>0, <2>1, <3>4, <3>6, CoveredKept DEF Covered, TypeOK
    <3>7. QED
      BY <1>4, <2>1, <3>1, <3>4, <3>5, <3>6
  <2>4. QED
    BY <2>2, <2>3
<1>14. ASSUME NEW d \in Deployments, DeploymentChanges(d) PROVE Coming(p)' \/ Covered(p)'
  BY <1>1, <1>14 DEF DeploymentChanges
<1>15. CASE \E e \in events : HandleEvent(e)
  <2>1. UNCHANGED <<caches, handed, busy, win, replicas, shared>>
    BY <1>15 DEF HandleEvent
  <2>2. CASE ReconcileStart(p)
    BY <1>7, <2>2
  <2>3. QED
    BY <1>6, <2>1, <2>2
<1>16. CASE SpareChanges
  <2>1. UNCHANGED <<caches, handed, busy, win, replicas, shared>>
    BY <1>16 DEF SpareChanges
  <2>2. CASE ReconcileStart(p)
    BY <1>7, <2>2
  <2>3. QED
    BY <1>6, <2>1, <2>2
<1>17. CASE ReconcileFails
  <2>1. UNCHANGED <<caches, handed, win, replicas, shared>> /\ queue' = queue \cup {busy.of}
    BY <1>17 DEF ReconcileFails
  <2>2. AtRisk(p)' = AtRisk(p) /\ pod' = pod
    BY <2>1, SameCaches DEF caches
  <2>3. CASE Pending(p)
    BY <1>3, <1>7, <2>3 DEF Coming
  <2>4. CASE busy.of = p
    BY <2>1, <2>4 DEF Coming, Pending
  <2>5. CASE Covered(p)
    BY <1>0, <2>1, <2>2, <2>5, CoveredKept DEF Covered, TypeOK
  <2>6. QED
    BY <2>1, <2>2, <2>3, <2>4, <2>5 DEF RiskAnswered, Coming
<1>18. CASE Restart
  BY <1>1, <1>18 DEF Restart, caches, Coming, Pending
<1>19. QED
  BY <1>0, <1>7, <1>8, <1>9, <1>10, <1>11, <1>12, <1>13, <1>14, <1>15, <1>16,
     <1>17, <1>18, NextCases

-------------------------------------------------------------------------------
(***************************************************************************)
(* Nodes that are well again.                                              *)
(***************************************************************************)

\* A window that lists nodes lists one that still signals, or a reconcile of
\* its policy is coming: every step keeps that.
LEMMA StepNodes == RoutingInv /\ DataInv' /\ [Next]_vars => NodesAnswered'
<1> SUFFICES ASSUME RoutingInv, DataInv', [Next]_vars, NEW p \in Policies,
                    policy'[p].state = "live", win'[p].nodes # {}, ~holdMaxWindow(win'[p])
             PROVE  Coming(p)' \/ StillDying(p, policy[p].spec)' # {}
  BY DEF NodesAnswered
<1> USE DEF RoutingInv
<1> DEFINE Goal == Coming(p)' \/ StillDying(p, policy[p].spec)' # {}
<1>0. TypeOK /\ TypeOK' /\ DataInv
  BY DEF DataInv
\* A step that may age p's window, and changes nothing else about p.
<1>1. ASSUME win'[p].nodes = win[p].nodes, holdMaxWindow(win[p]) => holdMaxWindow(win'[p]),
             node' = node, policy'[p] = policy[p], Coming(p) => Coming(p)'
      PROVE  Goal
  <2>1. \A n : IsDying(n, policy[p].spec)' <=> IsDying(n, policy[p].spec)
    BY <1>1, SameNodes
  <2>2. StillDying(p, policy[p].spec)' = StillDying(p, policy[p].spec)
    BY <1>1, <2>1 DEF StillDying
  <2>3. Coming(p) \/ StillDying(p, policy[p].spec) # {}
    BY <1>1 DEF NodesAnswered
  <2>4. QED
    BY <1>1, <2>2, <2>3
<1>2. CASE UNCHANGED vars
  <2>1. UNCHANGED <<node, policy, win, events, queue, busy>>
    BY <1>2 DEF vars, caches
  <2>2. Coming(p) => Coming(p)'
    BY <2>1, SameNodes DEF Coming, Pending
  <2>3. QED
    BY <1>1, <2>1, <2>2
<1> SUFFICES ASSUME Next PROVE Goal
  BY <1>2
<1>3. Pending(p) => Pending(p)' \/ ReconcileStart(p)
  <2>1. Restart => policy' = policy
    BY DEF Restart, caches
  <2>2. QED
    BY <1>0, <2>1, PendingKept
<1>4. ASSUME NEW r \in Policies, ReconcileStart(r) PROVE Goal
  <2>1. UNCHANGED <<node, events>> /\ busy = Idle
    BY <1>4 DEF ReconcileStart
  <2>2. CASE r = p
    <3>1. p \in queue' \/ busy' = [of |-> p, mine |-> policy[p], vulnerable |-> Dying(p)]
      BY <1>0, <1>4, <2>2, StartFacts
    <3>2. QED
      BY <3>1 DEF Coming, Pending
  <2>3. CASE r # p
    <3>0. p \in queue => p \in queue'
      BY <1>0, <1>4, <2>3, StartFacts
    <3>1. win'[p] = win[p] /\ policy'[p] = policy[p]
      <4>1. \A q \in Policies \ {r} : win'[q] = win[q] /\ policy'[q] = policy[q]
        BY <1>0, <1>4, StartFacts
      <4>2. QED
        BY <2>3, <4>1
    <3>2. Pending(p) => Pending(p)'
      <4>1. \A e : p \in Woken(e) => (p \in Woken(e))'
        BY <2>1, <3>1, SameNodes
      <4>2. QED
        BY <2>1, <3>0, <4>1 DEF Pending
    <3>3. busy.of # p
      BY <1>0, <2>1, BusyNames
    <3>4. QED
      BY <1>1, <2>1, <3>1, <3>2, <3>3 DEF Coming
  <2>4. QED
    BY <2>2, <2>3
<1>5. ASSUME busy' = busy, ~ReconcileStart(p) PROVE Coming(p) => Coming(p)'
  BY <1>3, <1>5 DEF Coming
<1>6. ASSUME UNCHANGED <<node, policy, busy, win>> PROVE Goal
  BY <1>1, <1>4, <1>5, <1>6
<1>7. ASSUME NEW ok \in BOOLEAN, ReconcileFinish(ok) PROVE Goal
  <2> DEFINE r == busy.of
             risky == collectWorkloads(r, busy.mine, busy.vulnerable)
  <2>1. UNCHANGED <<node, pod, dep, policy>> /\ busy # Idle /\ r \in Policies
    BY <1>0, <1>7, BusyNames DEF ReconcileFinish, caches
  <2>2. CASE Pending(p)
    BY <1>3, <1>4, <2>2 DEF Coming
  <2>3. CASE ~Pending(p) /\ p # r
    <3>1. win'[p] = win[p]
      BY <1>0, <1>7, <2>3, FinishFacts
    <3>2. QED
      BY <1>1, <2>1, <2>3, <3>1 DEF Coming
  <2>4. CASE ~Pending(p) /\ p = r
    <3>1. busy.mine = policy[p] /\ busy.vulnerable = Dying(p)
      BY <2>1, <2>4 DEF BusySound
    <3>2. CASE win' # win
      <4>1. queue' = queue \cup {p}
        BY <1>7, <2>4, <3>2 DEF ReconcileFinish
      <4>2. QED
        BY <4>1 DEF Coming, Pending
    <3>3. CASE win' = win
      <4>1. win \in [Policies -> RoutedWindow] /\ win[p] \in RoutedWindow
        BY <1>0 DEF TypeOK
      <4>2. win[p].exists
        <5>1. win[p].nodes # {}
          BY <3>3
        <5>2. QED
          BY <5>1, NoneType DEF DataInv, WindowsSound
      <4>3. \A n : IsDying(n, policy[p].spec)' <=> IsDying(n, policy[p].spec)
        BY <2>1, SameNodes
      <4>4. CASE risky # {}
        <5> DEFINE ns == {pod[q].node : q \in risky}
                   m == IF ok THEN "scaledUp" ELSE "failed"
                   v == [win[p] EXCEPT !.nodes = ns, !.until = NoTime, !.phase = "Open",
                                       !.message = m]
        <5>1. ensureWindow(p, risky, ok)
          BY <1>7, <2>4, <4>4 DEF ReconcileFinish
        <5>2. ~holdMaxWindow(win[p]) /\ Opened(win[p]) = win[p]
          BY <3>3, <4>2 DEF Opened
        <5>3. win' = [win EXCEPT ![p] = v]
          BY <5>1, <5>2 DEF ensureWindow
        <5>4. v.nodes = ns
          BY <4>1 DEF RoutedWindow
        <5> HIDE DEF v, risky
        <5>5. win'[p].nodes = ns
          BY <4>1, <5>3, <5>4
        <5>6. PICK q : q \in risky
          BY <4>4
        <5>7. pod[q].node \in ns /\ pod[q].node \in Dying(p)
          BY <2>4, <3>1, <5>6 DEF risky, collectWorkloads, PodsOn
        <5>8. IsDying(pod[q].node, policy[p].spec)
          BY <5>7 DEF Dying
        <5>9. pod[q].node \in StillDying(p, policy[p].spec)
          BY <3>3, <5>5, <5>7, <5>8 DEF StillDying
        <5>10. StillDying(p, policy[p].spec)' = StillDying(p, policy[p].spec)
          BY <2>1, <3>3, <4>3 DEF StillDying
        <5>11. QED
          BY <5>9, <5>10
      <4>5. CASE risky = {}
        <5>1. syncClearedWindows(p, policy[p].spec)
          BY <1>7, <2>4, <3>1, <4>5 DEF ReconcileFinish
        <5>2. StillDying(p, policy[p].spec) # {}
          <6> SUFFICES ASSUME StillDying(p, policy[p].spec) = {} PROVE FALSE
            OBVIOUS
          <6> DEFINE u == [win[p] EXCEPT !.nodes = {}]
          <6>1. win' = [win EXCEPT ![p] = u]
            BY <4>2, <5>1 DEF syncClearedWindows
          <6>2. u.nodes = {}
            BY <4>1 DEF RoutedWindow
          <6> HIDE DEF u
          <6>3. QED
            BY <4>1, <6>1, <6>2
        <5>3. StillDying(p, policy[p].spec)' = StillDying(p, policy[p].spec)
          BY <2>1, <3>3, <4>3 DEF StillDying
        <5>4. QED
          BY <5>2, <5>3
      <4>6. QED
        BY <4>4, <4>5
    <3>4. QED
      BY <3>2, <3>3
  <2>5. QED
    BY <2>2, <2>3, <2>4
<1>8. ASSUME NEW r \in Policies, WindowReconcile(r) PROVE Goal
  <2>1. /\ UNCHANGED <<node, policy, busy>>
        /\ queue' = IF win' = win THEN queue ELSE queue \cup {r}
    BY <1>8 DEF WindowReconcile, caches
  <2>2. CASE win' = win
    BY <1>6, <2>1, <2>2
  <2>3. CASE win' # win /\ r = p
    BY <2>1, <2>3 DEF Coming, Pending
  <2>4. CASE r # p
    <3>1. win'[p] = win[p]
      BY <1>0, <1>8, <2>4, WindowFacts
    <3>2. QED
      BY <1>1, <1>4, <1>5, <2>1, <3>1
  <2>5. QED
    BY <2>2, <2>3, <2>4
<1>9. CASE Tick
  <2>1. UNCHANGED <<node, policy, busy>> /\ win' = [k \in Policies |-> Age(win[k])]
    BY <1>9 DEF Tick, caches
  <2>2. win'[p] = Age(win[p]) /\ win[p] \in RoutedWindow
    BY <1>0, <2>1 DEF TypeOK
  <2>3. win'[p].nodes = win[p].nodes /\ (holdMaxWindow(win[p]) => holdMaxWindow(win'[p]))
    BY <2>2, AgeFacts
  <2>4. QED
    BY <1>1, <1>4, <1>5, <2>1, <2>3
<1>10. ASSUME NEW n \in Nodes, NEW new \in Node, NodeChanges(n, new) PROVE Goal
  <2>1. /\ node' = [node EXCEPT ![n] = new] /\ node \in [Nodes -> Node]
        /\ UNCHANGED <<policy, busy, win>>
    BY <1>0, <1>10 DEF NodeChanges, TypeOK
  <2>2. CASE new = node[n]
    BY <1>6, <2>1, <2>2
  <2>3. CASE new # node[n] /\ IsDying(n, policy[p].spec)
    BY <1>0, <1>10, <2>1, <2>3, NodeWakes DEF Coming
  <2>4. CASE ~IsDying(n, policy[p].spec)
    <3>1. ASSUME NEW k \in StillDying(p, policy[p].spec)
          PROVE  k \in StillDying(p, policy[p].spec)'
      <4>1. k \in win[p].nodes /\ IsDying(k, policy[p].spec) /\ k # n /\ k \in Nodes
        BY <1>0, <2>4 DEF StillDying, TypeOK, RoutedWindow
      <4>2. node'[k] = node[k]
        BY <2>1, <4>1
      <4>3. QED
        BY <2>1, <4>1, <4>2 DEF StillDying, IsDying
    <3>2. Coming(p) \/ StillDying(p, policy[p].spec) # {}
      BY <2>1 DEF NodesAnswered
    <3>3. QED
      BY <1>4, <1>5, <2>1, <3>1, <3>2
  <2>5. QED
    BY <2>2, <2>3, <2>4
<1>11. ASSUME NEW r \in Policies, NEW new \in Policy, PolicyChanges(r, new) PROVE Goal
  <2>1. /\ policy' = [policy EXCEPT ![r] = new] /\ queue' = queue \cup {r}
        /\ UNCHANGED <<node, busy, win>>
    BY <1>11 DEF PolicyChanges
  <2>2. CASE r = p
    BY <2>1, <2>2 DEF Coming, Pending
  <2>3. CASE r # p
    <3>1. policy'[p] = policy[p]
      BY <1>0, <2>1, <2>3 DEF TypeOK
    <3>2. QED
      BY <1>1, <1>4, <1>5, <2>1, <3>1
  <2>4. QED
    BY <2>2, <2>3
<1>12. CASE ReconcileFails
  <2>1. UNCHANGED <<node, policy, win>> /\ queue' = queue \cup {busy.of}
    BY <1>12 DEF ReconcileFails, caches
  <2>2. CASE busy.of = p
    BY <2>1, <2>2 DEF Coming, Pending
  <2>3. CASE busy.of # p
    BY <1>1, <1>3, <1>4, <2>1, <2>3 DEF Coming
  <2>4. QED
    BY <2>2, <2>3
<1>13. CASE Restart
  BY <1>13 DEF Restart, caches, Coming, Pending
<1>14. CASE \/ \E e \in events : HandleEvent(e)
            \/ \E q \in Pods, new \in Pod : PodChanges(q, new)
            \/ \E d \in Deployments : DeploymentChanges(d)
            \/ SpareChanges
  BY <1>6, <1>14 DEF HandleEvent, PodChanges, DeploymentChanges, SpareChanges, caches
<1>15. QED
  BY <1>0, <1>4, <1>7, <1>8, <1>9, <1>10, <1>11, <1>12, <1>13, <1>14, NextCases

-------------------------------------------------------------------------------
(***************************************************************************)
(* The quiet controller.                                                   *)
(***************************************************************************)

\* A quiet cluster needs no answer.
LEMMA InitRouting == Init => RoutingInv
<1> SUFFICES ASSUME Init PROVE RoutingInv
  OBVIOUS
<1>1. \A p \in Policies : win[p] = None
  BY DEF Init
<1>2. SharedMarked /\ BusySound /\ NodesAnswered
  BY <1>1, NoneType DEF Init, SharedMarked, BusySound, NodesAnswered
<1>3. ASSUME NEW p \in Policies PROVE AtRisk(p) = {}
  <2>1. ASSUME NEW n \in Nodes PROVE ~IsDying(n, policy[p].spec)
    BY DEF Init, IsDying, Vulnerable, IsVulnerable, MatchCustom
  <2>2. Dying(p) = {}
    BY <2>1 DEF Dying
  <2>3. QED
    BY <2>2, RiskIs
<1>4. QED
  BY <1>2, <1>3, InitData DEF RoutingInv, RiskAnswered

\* The invariant always holds.
LEMMA RoutingHolds == Spec => []RoutingInv
<1>1. RoutingInv /\ [Next]_vars => RoutingInv'
  BY StepData, StepShared, StepBusy, StepRisk, StepNodes DEF RoutingInv
<1>2. QED
  BY <1>1, InitRouting, PTL DEF Spec

\* In a quiet state no policy is queued, mapped to by an event or reconciled.
LEMMA NothingComes ==
  ASSUME TypeOK, Quiet, NEW p \in Policies
  PROVE  ~Coming(p)
  BY BusyNames DEF Quiet, Coming, Pending

\* No lost wake-up: whatever order nodes, pods, policies and Deployments reach
\* the caches in, whenever the handlers run, reconciles fail or the manager
\* restarts, the predicates (nodeDisruptionPredicate, podPolicyPredicate) and
\* the mappings of enqueue.go leave no pod at risk unanswered in a controller
\* that has nothing left to do.
THEOREM NoWakeUpIsLost == Spec => []NoLostWakeUp
<1>1. RoutingInv => NoLostWakeUp
  BY NothingComes DEF RoutingInv, DataInv, RiskAnswered, NoLostWakeUp
<1>2. QED
  BY <1>1, RoutingHolds, PTL

\* No window below maxWindow is left waiting for nodes that are all well again
\* (syncClearedWindows is reached), in a controller with nothing left to do.
THEOREM NoNodeIsStale == Spec => []StaleNodesCleared
<1>1. RoutingInv => StaleNodesCleared
  BY NothingComes DEF RoutingInv, DataInv, NodesAnswered, StaleNodesCleared
<1>2. QED
  BY <1>1, RoutingHolds, PTL
=============================================================================
