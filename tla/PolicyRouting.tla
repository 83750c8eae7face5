----------------------------- MODULE PolicyRouting -----------------------------
(***************************************************************************)
(* Which event wakes which policy: the watches of PolicyReconciler         *)
(* (SetupWithManager, the predicates, enqueue.go) around its Reconcile,    *)
(* with the window reconciler beside it, for one opted-in Deployment that  *)
(* several policies may come to own.                                       *)
(*                                                                         *)
(* Every informer has its own goroutine.  Nothing below reads a node, a    *)
(* pod, a Deployment or a policy except from its informer, so the          *)
(* variables ARE the informers' copies and an edit is the moment a change  *)
(* arrives in its cache; since the informers are not ordered among each    *)
(* other, a pod may be bound to a node that its cache does not have yet.   *)
(* The handler of an event runs some time after the cache was updated and  *)
(* reads the other caches as they are then.  One worker reconciles the     *)
(* queued policies: it first reads the policy and the nodes, later the     *)
(* pods, the Deployment and the other policies.                            *)
(*                                                                         *)
(* Windows and the capacity field are read as they are (WindowLifecycle    *)
(* has their stale copies); a reconcile's writes are one step.             *)
(***************************************************************************)
EXTENDS WindowPhase, PolicyMatch, FiniteSets

CONSTANTS
  Pods,
  Specs,         \* the specs each policy may be given, a function on Policies
  Deployments,   \* what the Deployment and its namespace may look like
  Toggled,       \* the marks that are put on nodes and taken off
  UserReplicas,  \* the capacity field before any disruption
  MaxChanges     \* bound: changes that arrive, failed reconciles and restarts
                 \* in a behaviour, together

ASSUME RoutingAssumption ==
  /\ Specs \in [Policies -> (SUBSET PolicySpec) \ {{}}]
  /\ Toggled \subseteq Marks
  /\ UserReplicas \in Nat /\ MaxChanges \in Nat
  /\ IsFiniteSet(Pods)
  /\ "unbound" \notin Nodes

VARIABLES
  node, pod, dep, policy,  \* the informers' copies
  events,    \* node and pod events whose handler has not run yet
  queue,     \* policies in the work queue
  busy,      \* the policy reconcile in progress, or Idle
  win,       \* each policy's window for the Deployment
  replicas,  \* the capacity field
  spare,     \* SafeReady >= Baseline would hold now
  handed,    \* history: policies that became the owner, or whose Deployment
             \* was found at last, and that were not reconciled since
  shared,    \* history: policies whose window was once not the only one
  changes    \* changes, failures and restarts left

caches == <<node, pod, dep, policy>>
vars == <<caches, events, queue, busy, win, replicas, spare, handed,
          shared, changes>>

-------------------------------------------------------------------------------
Node == [exists: BOOLEAN, marks: SUBSET Marks]

Unbound == "unbound"

Pod == [state: {"none", "alive", "terminating"}, node: Nodes \cup {Unbound},
        optedIn: BOOLEAN]

AllSpecs == UNION {Specs[p] : p \in Policies}

Policy == [state: {"none", "new", "live", "deleting"}, spec: AllSpecs]

NoPolicy == [state |-> "none", spec |-> CHOOSE spec \in AllSpecs : TRUE]

Event == [of: {"node"}, name: Nodes, old: Node, new: Node]
         \cup [of: {"pod"}, old: Pod, new: Pod]

Idle == [of |-> 0]

\* Status.Message.  "scaledUp" and "failed" are the texts of ensureWindow, the
\* others those of decideWindowStep; what a failed patch adds to the text of
\* an open window, and the two texts of a cooldown and of a close, always
\* change together with another field.
Messages == {"", "scaledUp", "failed", "vulnerable", "waiting", "cooling", "closed"}

\* The fields as in WindowPhase; nodes is Spec.VulnerableNodes.
RoutedWindow ==
  [exists: BOOLEAN, deleting: BOOLEAN, action: Nat \cup {NoAction},
   nodes: SUBSET Nodes, until: Nat \cup {NoTime}, phase: Phases, opened: Nat,
   forcedCool: BOOLEAN, message: Messages]

None ==
  [exists |-> FALSE, deleting |-> FALSE, action |-> NoAction, nodes |-> {},
   until |-> NoTime, phase |-> "", opened |-> 0, forcedCool |-> FALSE,
   message |-> ""]

TypeOK ==
  /\ node \in [Nodes -> Node] /\ pod \in [Pods -> Pod]
  /\ dep \in Deployments /\ policy \in [Policies -> Policy]
  /\ events \subseteq Event
  /\ queue \subseteq Policies
  /\ busy = Idle \/ busy \in [of: Policies, mine: Policy, vulnerable: SUBSET Nodes]
  /\ win \in [Policies -> RoutedWindow]
  /\ replicas \in Nat /\ spare \in BOOLEAN
  /\ handed \subseteq Policies /\ shared \subseteq Policies
  /\ changes \in Nat

\* A quiet cluster without disruption.
Init ==
  /\ node = [n \in Nodes |-> [exists |-> TRUE, marks |-> {}]]
  /\ pod \in [Pods -> {[state |-> "alive", node |-> n, optedIn |-> TRUE] : n \in Nodes}
                      \cup {[state |-> "none", node |-> Unbound, optedIn |-> TRUE]}]
  /\ dep \in Deployments
  /\ policy \in {all \in [Policies -> {NoPolicy} \cup [state: {"live"}, spec: AllSpecs]] :
                   \A p \in Policies : all[p] = NoPolicy \/ all[p].spec \in Specs[p]}
  /\ events = {} /\ queue = {} /\ busy = Idle
  /\ win = [p \in Policies |-> None]
  /\ replicas = UserReplicas /\ spare = TRUE
  /\ handed = {} /\ shared = {} /\ changes = MaxChanges

-------------------------------------------------------------------------------
(***************************************************************************)
(* What the informers say about a policy's nodes and pods.                 *)
(***************************************************************************)

\* The node is there, passes the filter and signals.
IsDying(n, spec) ==
  /\ node[n].exists
  /\ Matches(n, node[n].marks, spec.filter)
  /\ Vulnerable(node[n].marks, spec)

\* nodesStillVulnerable, stillVulnerable: the recorded nodes among them.
StillDying(p, spec) == {n \in win[p].nodes : IsDying(n, spec)}

\* The live pods on the nodes ns.
PodsOn(ns) == {q \in Pods : pod[q].state = "alive" /\ pod[q].node \in ns}

\* collectWorkloads, workloadProtected: the pods at risk that p answers for.
\* A pod whose ReplicaSet or Deployment the caches lack belongs to nobody.
collectWorkloads(p, mine, vulnerable) ==
  {q \in PodsOn(vulnerable) : /\ dep.found
                              /\ pod[q].optedIn /\ dep.optedIn
                              /\ Owns(p, mine, dep, policy)}

AtRisk(p) ==
  collectWorkloads(p, policy[p], {n \in Nodes : IsDying(n, policy[p].spec)})

\* evictgate.Evaluate up to activeWindowFor: the eviction of q is denied
\* because its owner has no window.
DeniedWithoutWindow(q) ==
  /\ pod[q].state = "alive" /\ pod[q].optedIn /\ pod[q].node # Unbound
  /\ dep.found /\ dep.optedIn
  /\ \E p \in ResolveOwner(dep, policy) :
       /\ IsDying(pod[q].node, policy[p].spec)
       /\ ~(win[p].exists /\ (IsActive(win[p]) \/ win[p].forcedCool))

-------------------------------------------------------------------------------
(***************************************************************************)
(* Events and their handlers.                                              *)
(***************************************************************************)

\* Mutant of taintsOrLabelsChanged: annotations are not compared.
taintsOrLabelsChangedNoAnnotations(a, b) ==
  \E place \in Places \ {"annotation"} :
    {m \in a.marks : Place[m] = place} # {m \in b.marks : Place[m] = place}

taintsOrLabelsChanged(a, b) ==
  \E place \in Places :
    {m \in a.marks : Place[m] = place} # {m \in b.marks : Place[m] = place}

nodeDisruptionPredicate(e) ==
  e.old.exists /\ e.new.exists => taintsOrLabelsChanged(e.old, e.new)

podMembershipChanged(a, b) ==
  \/ a.node # b.node
  \/ a.optedIn # b.optedIn
  \/ (a.state = "terminating") # (b.state = "terminating")

podPolicyPredicate(e) ==
  e.old.state # "none" /\ e.new.state # "none" => podMembershipChanged(e.old, e.new)

\* policiesForNode, of a node object: deleting policies are listed too.
policiesForNode(n, object, onlyVulnerable) ==
  {p \in Policies :
     /\ policy[p].state # "none" /\ object.exists
     /\ Matches(n, object.marks, policy[p].spec.filter)
     /\ onlyVulnerable => Vulnerable(object.marks, policy[p].spec)}

\* Mutant of policiesForNodeUpdate: only the new node counts.
policiesForNodeUpdateNewOnly(e) == policiesForNode(e.name, e.new, FALSE)

\* Also the handler of creation and deletion, where one of the two is absent.
policiesForNodeUpdate(e) ==
  policiesForNode(e.name, e.old, FALSE) \cup policiesForNode(e.name, e.new, FALSE)

\* mapPodToPolicies of one version of the pod, with the node as it is now.
mapPodToPolicies(q) ==
  IF q.node = Unbound \/ q.state = "none" THEN {}
  ELSE policiesForNode(q.node, node[q.node], TRUE)

\* EnqueueRequestsFromMapFunc maps both versions of an update.
HandleEvent(e) ==
  /\ e \in events
  /\ queue' = queue \cup (IF e.of = "node" THEN policiesForNodeUpdate(e)
                          ELSE mapPodToPolicies(e.old) \cup mapPodToPolicies(e.new))
  /\ events' = events \ {e}
  /\ UNCHANGED <<caches, busy, win, replicas, spare, handed, changes,
                 shared>>

\* Uses up one of the bounded changes.
Change == changes > 0 /\ changes' = changes - 1

-------------------------------------------------------------------------------
(***************************************************************************)
(* PolicyReconciler.Reconcile                                              *)
(***************************************************************************)

\* cleanup: delete the window and poll until it is gone, then drop the
\* finalizer.
cleanup(p) ==
  IF win[p].exists
  THEN /\ win' = [win EXCEPT ![p].deleting = TRUE]
       /\ UNCHANGED <<queue, policy>>
  ELSE /\ policy' = [policy EXCEPT ![p] = NoPolicy]
       /\ queue' = queue \ {p}
       /\ UNCHANGED win

\* Up to the list of nodes, or all of it if that is not reached.  Adding the
\* finalizer is an update of the policy, which queues it again.
ReconcileStart(p) ==
  /\ busy = Idle /\ p \in queue
  /\ CASE policy[p].state = "none" ->
            queue' = queue \ {p} /\ UNCHANGED <<policy, busy, win>>
       [] policy[p].state = "new" ->
            /\ policy' = [policy EXCEPT ![p].state = "live"]
            /\ UNCHANGED <<queue, busy, win>>
       [] policy[p].state = "deleting" -> cleanup(p) /\ UNCHANGED busy
       [] policy[p].state = "live" ->
            /\ busy' = [of |-> p, mine |-> policy[p],
                        vulnerable |-> {n \in Nodes : IsDying(n, policy[p].spec)}]
            /\ queue' = queue \ {p}
            /\ UNCHANGED <<policy, win>>
  /\ UNCHANGED <<node, pod, dep, events, replicas, spare, handed, changes,
                 shared>>

\* Mutant of Opened: a new window's baseline is left at zero.
OpenedWithoutBaseline(w) ==
  IF w.exists THEN w ELSE [None EXCEPT !.exists = TRUE, !.action = 0]

\* Mutant of Opened: a new window is created without its action.
OpenedWithoutAction(w) ==
  IF w.exists THEN w ELSE [None EXCEPT !.exists = TRUE]

\* buildPlan: the window as found, or a new one with the live value recorded.
Opened(w) ==
  IF w.exists THEN w ELSE [None EXCEPT !.exists = TRUE, !.action = replicas]

\* ensureWindow with the pods at risk; ok: the capacity patch went through.
\* The message is written whenever it is not the one of this reconcile, so
\* also over the one that the window reconciler has written since.
ensureWindow(p, risky, ok) ==
  LET w == Opened(win[p])
      desired == TargetReplicas(w.action, Cardinality(risky))
  IN  IF win[p].exists /\ holdMaxWindow(win[p])
      THEN UNCHANGED <<win, replicas>>
      ELSE /\ win' = [win EXCEPT
                        ![p] = [w EXCEPT !.nodes = {pod[q].node : q \in risky},
                                         !.until = NoTime, !.phase = "Open",
                                         !.message = IF ok THEN "scaledUp" ELSE "failed"]]
           /\ replicas' = IF ok /\ replicas < desired THEN desired ELSE replicas

\* syncClearedWindows: forget the nodes once none of them signals any more.
syncClearedWindows(p, spec) ==
  /\ win' = IF win[p].exists /\ StillDying(p, spec) = {}
            THEN [win EXCEPT ![p].nodes = {}] ELSE win
  /\ UNCHANGED replicas

\* The rest of Reconcile.  A failed scale-up requeues, and a window that
\* changed is an event for its policy.  So is a changed status (updateStatus),
\* which is left out: nothing reads it, and the properties do not count on
\* that extra wake-up of the same policy.
ReconcileFinish(ok) ==
  /\ busy # Idle
  /\ LET p == busy.of
         risky == collectWorkloads(p, busy.mine, busy.vulnerable)
     IN  /\ ok \/ risky # {}
         /\ IF risky # {} THEN ensureWindow(p, risky, ok)
            ELSE syncClearedWindows(p, busy.mine.spec)
         /\ queue' = IF ok /\ win' = win THEN queue ELSE queue \cup {p}
         /\ handed' = handed \ {p}
         /\ shared' = IF win'[p].exists /\ ~win[p].exists
                      THEN LET others == {q \in Policies \ {p} : win[q].exists}
                           IN  IF others = {} THEN shared \ {p} ELSE shared \cup others \cup {p}
                      ELSE shared
  /\ IF ok THEN UNCHANGED changes ELSE Change
  /\ busy' = Idle
  /\ UNCHANGED <<caches, events, spare>>

\* An API error ends the reconcile; the queue retries it.
ReconcileFails ==
  /\ Change
  /\ busy # Idle
  /\ queue' = queue \cup {busy.of}
  /\ busy' = Idle
  /\ UNCHANGED <<caches, events, win, replicas, spare, handed, shared>>

\* The manager restarts: the queue and the pending events are lost, the
\* informers list everything, so that every policy is created anew.
Restart ==
  /\ Change
  /\ queue' = {p \in Policies : policy[p].state # "none"}
  /\ events' = {} /\ busy' = Idle
  /\ UNCHANGED <<caches, win, replicas, spare, handed, shared>>

-------------------------------------------------------------------------------
(***************************************************************************)
(* WindowReconciler.Reconcile, which polls every window.                   *)
(***************************************************************************)

\* restoreActions
Restored(w) == IF replicas > w.action THEN w.action ELSE replicas

\* The window after the decided step, and the capacity field.  writeStatus
\* writes the step's message over that of ensureWindow.  It also writes when
\* the counts of ready pods have changed, which is left out: an extra wake-up
\* of the same policy, as long as pods come and go.
DecideAndWrite(p) ==
  LET w == win[p]
      forceCool == maxWindowExceeded(w)
      live == Cardinality(PodsOn({n \in Nodes : IsDying(n, policy[p].spec)}))
      step == decideWindowStep(w, live, spare, forceCool)
      forced == w.forcedCool \/ forceCool
      next == CASE step = "StayOpen" ->
                     [w EXCEPT !.until = NoTime, !.phase = "Open",
                               !.message = IF live > 0 THEN "vulnerable" ELSE "waiting"]
                [] step = "BeginScaleBack" ->
                     [w EXCEPT !.until = ScaleBackAfter, !.phase = "Cooling",
                               !.message = "cooling"]
                [] step = "StayCooling" ->
                     [w EXCEPT !.phase = "Cooling", !.message = "cooling"]
                [] step = "Close" ->
                     [w EXCEPT !.phase = "Closed", !.message = "closed"]
  IN  /\ win' = [win EXCEPT ![p] = IF step = "Close" /\ ~forced THEN None
                                   ELSE [next EXCEPT !.forcedCool = forced]]
      /\ replicas' = IF step = "BeginScaleBack" THEN Restored(w) ELSE replicas

\* A change of the window is an event for its policy.
WindowReconcile(p) ==
  /\ win[p].exists
  /\ CASE win[p].deleting -> /\ replicas' = Restored(win[p])
                             /\ win' = [win EXCEPT ![p] = None]
       [] ~win[p].deleting /\ win[p].phase = "Closed" /\ win[p].forcedCool ->
            /\ StillDying(p, policy[p].spec) = {}
            /\ win' = [win EXCEPT ![p] = None]
            /\ UNCHANGED replicas
       [] OTHER -> DecideAndWrite(p)
  /\ queue' = IF win' = win THEN queue ELSE queue \cup {p}
  /\ UNCHANGED <<caches, events, busy, spare, handed, changes, shared>>

Tick ==
  /\ win' = [p \in Policies |-> Age(win[p])]
  /\ UNCHANGED <<caches, events, queue, busy, replicas, spare, handed,
                 changes, shared>>

-------------------------------------------------------------------------------
(***************************************************************************)
(* Changes that arrive in the caches.                                      *)
(***************************************************************************)

NodeChanges(n, new) ==
  /\ Change
  /\ node' = [node EXCEPT ![n] = new]
  /\ LET e == [of |-> "node", name |-> n, old |-> node[n], new |-> new]
     IN  events' = IF nodeDisruptionPredicate(e) THEN events \cup {e} ELSE events
  /\ UNCHANGED <<pod, dep, policy, queue, busy, win, replicas, spare,
                 handed, shared>>

PodChanges(q, new) ==
  /\ Change
  /\ pod' = [pod EXCEPT ![q] = new]
  /\ LET e == [of |-> "pod", old |-> pod[q], new |-> new]
     IN  events' = IF podPolicyPredicate(e) THEN events \cup {e} ELSE events
  /\ UNCHANGED <<node, dep, policy, queue, busy, win, replicas, spare,
                 handed, shared>>

\* For(EvictionGuardPolicy): the policy itself is queued, and no other.
PolicyChanges(p, new) ==
  /\ Change
  /\ policy' = [policy EXCEPT ![p] = new]
  /\ queue' = queue \cup {p}
  /\ handed' = handed \cup (ResolveOwner(dep, [policy EXCEPT ![p] = new])
                            \ (ResolveOwner(dep, policy) \cup {p}))
  /\ UNCHANGED <<node, pod, dep, events, busy, win, replicas, spare,
                 shared>>

\* Nothing watches Deployments, ReplicaSets or Namespaces for the policies.
\* Once found the Deployment stays (WindowLifecycle has its deletion).
DeploymentChanges(new) ==
  /\ Change
  /\ dep.found => new.found
  /\ dep' = new
  /\ handed' = handed \cup ResolveOwner(new, policy)
  /\ UNCHANGED <<node, pod, policy, events, queue, busy, win, replicas,
                 spare, shared>>

SpareChanges ==
  /\ Change
  /\ spare' = ~spare
  /\ UNCHANGED <<caches, events, queue, busy, win, replicas, handed,
                 shared>>

MarkToggled(n, m) ==
  /\ node[n].exists
  /\ NodeChanges(n, [node[n] EXCEPT
                       !.marks = IF m \in @ THEN @ \ {m} ELSE @ \cup {m}])

NodeDeleted(n) ==
  /\ node[n].exists
  /\ NodeChanges(n, [exists |-> FALSE, marks |-> {}])

NodeCreated(n, marks) ==
  /\ ~node[n].exists
  /\ NodeChanges(n, [exists |-> TRUE, marks |-> marks])

PodCreated(q, n) ==
  /\ pod[q].state = "none"
  /\ PodChanges(q, [pod[q] EXCEPT !.state = "alive", !.node = n])

PodBound(q, n) ==
  /\ pod[q].state = "alive" /\ pod[q].node = Unbound
  /\ PodChanges(q, [pod[q] EXCEPT !.node = n])

PodRelabelled(q) ==
  /\ pod[q].state = "alive"
  /\ PodChanges(q, [pod[q] EXCEPT !.optedIn = ~@])

PodTerminating(q) ==
  /\ pod[q].state = "alive"
  /\ PodChanges(q, [pod[q] EXCEPT !.state = "terminating"])

PodGone(q) ==
  /\ pod[q].state \in {"alive", "terminating"}
  /\ PodChanges(q, [state |-> "none", node |-> Unbound, optedIn |-> TRUE])

PolicyCreated(p, spec) ==
  /\ policy[p].state = "none"
  /\ PolicyChanges(p, [state |-> "new", spec |-> spec])

PolicyEdited(p, spec) ==
  /\ policy[p].state # "none" /\ spec # policy[p].spec
  /\ PolicyChanges(p, [policy[p] EXCEPT !.spec = spec])

\* Without a finalizer the object goes at once.
PolicyDeleted(p) ==
  /\ policy[p].state \in {"new", "live"}
  /\ PolicyChanges(p, IF policy[p].state = "new" THEN NoPolicy
                      ELSE [policy[p] EXCEPT !.state = "deleting"])

Environment ==
  \/ \E n \in Nodes : \/ NodeDeleted(n)
                      \/ \E m \in Toggled : MarkToggled(n, m)
                      \/ \E marks \in SUBSET Toggled : NodeCreated(n, marks)
  \/ \E q \in Pods : \/ \E n \in Nodes \cup {Unbound} : PodCreated(q, n)
                     \/ \E n \in Nodes : PodBound(q, n)
                     \/ PodRelabelled(q) \/ PodTerminating(q) \/ PodGone(q)
  \/ \E p \in Policies : \/ PolicyDeleted(p)
                         \/ \E spec \in Specs[p] : PolicyCreated(p, spec) \/ PolicyEdited(p, spec)
  \/ \E d \in Deployments \ {dep} : DeploymentChanges(d)
  \/ SpareChanges
  \/ ReconcileFinish(FALSE) \/ ReconcileFails \/ Restart

Controller ==
  \/ \E e \in events : HandleEvent(e)
  \/ \E p \in Policies : ReconcileStart(p)
  \/ ReconcileFinish(TRUE)

Next ==
  \/ Controller
  \/ \E p \in Policies : WindowReconcile(p)
  \/ Tick
  \/ Environment

Spec == Init /\ [][Next]_vars

\* The work queue and the event handlers go on, and so does the window worker,
\* which polls every window; it is enough that one of them goes on with
\* something.  Time passes.  Nothing is assumed of changes and failures.
FairSpec ==
  /\ Spec
  /\ WF_vars(Controller \/ \E p \in Policies : WindowReconcile(p))
  /\ WF_vars(Tick)

-------------------------------------------------------------------------------
(***************************************************************************)
(* Properties.                                                             *)
(***************************************************************************)

\* The reconcilers and the eviction gate never disagree on the owner:
\* policyown.Owns of a policy holds exactly if ResolveOwner returns it.
OwnersAgree ==
  \A p \in Policies :
    Owns(p, policy[p], dep, policy) <=> p \in ResolveOwner(dep, policy)

\* Nothing is queued, running or still to be handled.
Quiet == queue = {} /\ events = {} /\ busy = Idle

\* p's window records where its pods are at risk, and the capacity they need
\* is there unless a second window wrote the same field.
Covered(p) ==
  /\ win[p].exists
  /\ \/ holdMaxWindow(win[p])
     \/ /\ win[p].nodes = {pod[q].node : q \in AtRisk(p)}
        /\ \/ p \in shared
           \/ replicas >= TargetReplicas(win[p].action, Cardinality(AtRisk(p)))

\* Whatever order the caches are updated in and the handlers run in, a quiet
\* controller has answered for every pod at risk of a policy that was
\* reconciled since it became the owner and the Deployment was found: no event
\* that matters is filtered out or mapped to nobody.
NoLostWakeUp == Quiet => \A p \in Policies \ handed : AtRisk(p) # {} => Covered(p)

\* "No window yet (usually a brief race before the policy opens a deferred or
\* scaling window ...)": a controller with nothing left to do leaves no pod
\* whose eviction the gate denies for want of a window.
CoveredWhenQuiet == Quiet => \A q \in Pods : ~DeniedWithoutWindow(q)

\* A quiet controller leaves no window waiting for nodes that are all well
\* again, also if they left the filter instead of losing their signal.  A
\* window past maxWindow is exempt: while pods are at risk on another node,
\* ensureWindow leaves its nodes alone, and only the window worker lets it go.
StaleNodesCleared ==
  Quiet => \A p \in Policies :
             policy[p].state = "live" /\ win[p].nodes # {} /\ ~holdMaxWindow(win[p])
               => StillDying(p, policy[p].spec) # {}

\* Two policies' windows on the same field, one after the other or both at
\* once, never take it below the user's value between them.
NeverBelowUser == replicas >= UserReplicas

\* Once changes stop arriving, everything is handled in the end and stays so.
\* While a pod is at risk the reconcilers keep waking each other, each with its
\* own text for Status.Message; it is holdMaxWindow that ends this once
\* maxWindow has run out, and with an unlimited maxWindow nothing does.
EventuallyQuiet == <>[]Quiet
=============================================================================
