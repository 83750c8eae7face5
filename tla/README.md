# Eviction Guard: TLA+ models, checks and proofs

Eviction Guard is a Kubernetes operator. When a node announces that it is going away, it
raises the capacity of the workloads that have pods there, holds voluntary evictions back
until spare pods are Ready elsewhere, and puts capacity back afterwards. This directory
holds TLA+ models of its control logic, TLC runs on small instances and theorems checked by
TLAPS. Paths below are relative to the repository root; `plan.go` and the like without a
directory are in `internal/controller/`.

## 1. The system

| Part | Code | State | Operations |
|---|---|---|---|
| Policy reconciler | `policy_controller.go` | none of its own; writes windows, capacity fields, the policy's finalizer and status | `Reconcile`: collect at-risk workloads, count slots, per workload `ensureWindow` or `ensureDeferredWindow`; `syncClearedWindows`; `cleanup` |
| Window reconciler | `window_controller.go`, `window_phase.go`, `maxwindow.go`, `spare.go` | none of its own; writes windows and capacity fields | `Reconcile`: finalizer, orphan and target checks, tombstone, ForcedCool stamp, `decideWindowStep`, `abortCooldown`, scale-back, `writeStatus`, `deleteClosedWindow`, `scaleBackAndUnfinalize` |
| Window object | `api/v1alpha1/evictionguardwindow_types.go` | spec: actions (each with its baseline), baseline, scaledTo, vulnerableNodes, windowUntil; status: phase, lastScaleTime, spareReady, forcedCool; deferred label, finalizer | |
| Capacity fan-out | `plan.go`, `scale_actions.go`, `pkg/backends`, `pkg/capacity` | integer fields and stamp annotations on any object | `buildPlan`, `apply`, `compensateApply`, `restoreActions`, `stampCooldown` |
| Eviction gate | `pkg/evictgate`, `internal/webhook/eviction.go` | none; reads informer caches | `Evaluate` |
| Slot accounting | `countActiveWindows` and the loop of the policy `Reconcile` | a local counter | |
| Ownership | `pkg/policyown` | none | `Owns`, `ResolveOwner` |
| Bindings and catalog | `pkg/backends/bindings.go`, `crd.go` | none; reads the scale-backend annotation and `spec.backends` | `ParseBindings`, `ResolveCatalog`, `Current` |
| Signals, filters | `pkg/signals`, `pkg/filters` | detector registry | `Vulnerable`, `Matches` |
| Watch mapping | `enqueue.go`, `indexes.go`, both `SetupWithManager` | work queues, field indexes | which events wake which reconcile |
| Validation, metrics, manager, chart | `internal/webhook/webhook.go`, `pkg/validate`, `pkg/metrics`, `cmd`, ... | | |

How the parts interact: the two reconcilers never call each other. They meet in the window
object, which both read from one informer cache and write to the API server, by merge patch
(no version check) and by status update (version checked), and in the capacity fields. The
webhook reads the same cache from its own goroutines. The policy reconciler creates, promotes,
refreshes and reopens; the window reconciler restores, cools down, closes and deletes; users
and the garbage collector delete either object; finalizers make both deletions go through a
restore.

What is hard here: the order of API calls of two goroutines on a stale cache; a crash or an
error between the window write and the capacity write; two clocks (maxWindow and the
cooldown) racing with new disruptions; a fan-out of several patches of which one fails; a
gate that trusts a stored verdict; a counter corrected by hand during a loop; informers that
are not ordered among each other, whose events are filtered and mapped before they wake anyone;
a Deployment that changes its owner in the middle of a disruption.

What makes it correct, per part:

- window lifecycle: capacity never below the user's value; what was raised is on record with
  the value to go back to; in the end it goes back; maxWindow always fails open, for good;
- fan-out: the same per path, through partial failure, compensation and re-binding;
- gate: an admitted eviction leaves the baseline Ready; one pod at a time; no drain is blocked
  for ever;
- slots: no more windows than the cap, nobody deferred without need, nobody forgotten;
- wake-ups and ownership: no event that matters is lost, the gate and the reconcilers agree on
  the owner, the two reconcilers come to rest once there is nothing left to answer for.

## 2. Modules

| Module | Models | Extends |
|---|---|---|
| `CapacityLease` | nothing of the code: the promise, capacity is lent | |
| `WindowPhase` | the pure parts of a window: `decideWindowStep`, the maxWindow clock, `holdMaxWindow`, `IsActive`, `TargetReplicas`, its shape | |
| `PolicyMatch` | the pure parts of a policy: signals, node filter, selectors, pins, owner | |
| `ScaleCatalog` | the pure parts of a binding: annotation, catalog, value of an unset path | |
| `WindowLifecycle` | both reconcilers on one window and one capacity field, one action per API call | `WindowPhase` |
| `WindowLifecycleProofs` | theorems about it, reconciles overlapping or not | `WindowLifecycle` |
| `WindowSerialProofs` | theorems about it with one reconcile at a time, and its refinement of `CapacityLease` | `WindowLifecycleProofs` |
| `EvictGate` | the gate over pods and nodes, each reconcile one step | `WindowPhase` |
| `EvictGateProofs` | theorems about it | `EvictGate` |
| `ScalePlan` | the fan-out over several fields and objects, one action per patch | `WindowPhase`, `ScaleCatalog` |
| `ScalePlanProofs` | theorems about it, and its refinement of `CapacityLease` | `ScalePlan` |
| `WindowSlots` | the slots of one policy over several workloads, one action per turn of the loop | `WindowPhase` |
| `WindowSlotsProofs` | theorems about it | `WindowSlots` |
| `PolicyRouting` | events, handlers and reconciles of several policies around one Deployment | `WindowPhase`, `PolicyMatch` |
| `PolicyRoutingProofs` | theorems about it | `PolicyRouting` |
| `MC...` | instances for TLC | the module |

The five state machines look at one system at five granularities and share the decisions of
the pure modules. What one treats as a single step or as an input, another opens up:
`WindowLifecycle` takes at-risk pods, Ready spare and a free slot as inputs of each reconcile;
`EvictGate` has the pods, `WindowSlots` the slots, `ScalePlan` the fields, `PolicyRouting` the
reason a reconcile happens at all. `WindowLifecycle` and `ScalePlan` both implement
`CapacityLease`.

### WindowPhase

Times are ages. `opened` is the time since `Status.LastScaleTime` (or creation, which the code
falls back to when the status write is missing; `scaled` tells the two apart) and stops at
`MaxWindow`; `until` is the time left to `Spec.WindowUntil`, `NoTime` when unset. Nothing in
the code depends on more than whether these clocks have run out. `MaxWindow = 0` switches
maxWindow off, as in the code. The two stay-open steps of `decideWindowStep` differ in their
message only and are one step here. Phase `Held` is never written by this code and is left out.

### WindowLifecycle

| Variables | Code |
|---|---|
| `win`, `cache`, `synced` | the window on the API server, the informer's copy, whether they are the same version |
| `replicas` | the field behind `backends.Current` and `PatchIntegers` |
| `policy`, `target` | the policy object, existence of the Deployment |
| `pPc pSnap pFresh pRisk pBase` | a policy reconcile in progress: next call, its copy, whether that is current, its at-risk count and baseline |
| `wPc wSnap wFresh wStep wUntil` | a window reconcile in progress |

Actions follow the calls in order. Policy side: `AddPolicyFinalizer`, `PolicyReconcile` (reads
up to the choice between ensure, defer and clear), `EnsureGet`, `BuildPlan`, `WriteWindow`
(Create or Patch, also the deferred variant), `Apply` or `ApplyFails`, `PolicyStatus`,
`ClearNodes`, `Cleanup`. Window side: `WindowReconcile` (reads up to the first write), then
`AddFinalizer`, `StampForcedCool`, `AbortCooldown`, `ScaleBack`, `ArmCooldown`, `WriteStatus`,
`CloseFinalizer`, `DeleteWindow`, `RestoreFinal`, `Unfinalize`. Environment: deletions, garbage
collection, `CacheSync`, `Tick`, a failing call, `Crash`.

- A merge patch sends the fields that differ from the copy read (`Merge`) and its response
  replaces the local copy, as in controller-runtime, so that a status update after it carries
  the new version. A status update is refused unless the copy is current.
- A `resourceVersion` is only ever compared with the live one, so a flag per copy is enough.
- The cache jumps to the live object; it never shows a version older than one it has shown.
  Skipped versions are seen by nobody.
- Reading the capacity field and patching it is one step. The client reads it as unstructured
  data, which bypasses the cache; the remaining race with other writers of the same field is
  outside the model, as users do not rescale during a window here.
- Spec.Actions is a list, which a merge patch sends whole. A refresh that keeps the baseline sends
  it only where ScaledTo, which is in it, changes with the at-risk count (`MayDiffer`).
- `stampCooldown` is left to `ScalePlan`.

### EvictGate

Pods have a state and a node, nodes signal or not; the Deployment controller creates pods off
signalling nodes and removes unready ones first. The two reconciles are atomic and read pods
and nodes live; what lags is the gate's copy of the window (`seen`). An admitted eviction marks
the pod in the same step. `PolicyReconcile(FALSE)` is a deferred workload or a refused capacity
patch. The Deployment is opted in and owned by one policy whose filter matches all nodes; the
early allows of `Evaluate` for other pods are in `PolicyRouting` (`DeniedWithoutWindow`).
`Hazards` chooses what may happen besides one clean disruption at a time.

### ScaleCatalog and ScalePlan

A field is a kind, a name and a path; `Unset` is a path its object does not have. An annotation
is a sequence of tokens, `Resolvable` tells which ones the code accepts and `ResolveCatalog`
gives the steps of an accepted one, in order. `Current` is the code's read of a field: the way
up passes the catalog's `defaultWhenUnset`, the way down does not (`ReadableUp`,
`ReadableDown`).

`actions`, `armed` are the window's Spec.Actions and whether WindowUntil is set; `value`,
`stamped`, `marked`, `exists` are the objects. Actions are identified by catalog key and field,
as `actionKey` does. A group is the run of consecutive paths on one object; its integer patch
and its annotation patch are separate actions that may each fail, with or without effect. `todo`
is what `apply`, `compensateApply`, `restoreActions` or `stampCooldown` has still to do.
Reconciles run one at a time. `closing` follows a deletion: a window marked for deletion in the
middle of a reconcile gets through that reconcile first, cooldown included, and is restored again
by the next one, which sees the mark; only then is it gone. `raised` and `last` are history for the properties. Annotation
values that a catalog entry lists as patches of its own are written and removed with the stamps
and are part of them here.

### PolicyMatch and PolicyRouting

A node is a set of marks, each in one place of the Node object (taint, label, annotation,
unschedulable), because the predicate on node updates compares place by place. A label with a
value is one mark per value, so that the lists of zones, instance and capacity types are sets of
marks. Policies are numbers in the order of their names.

| Variables | Code |
|---|---|
| `node`, `pod`, `dep`, `policy` | the informers' copies |
| `events` | node and pod events whose handler has not run |
| `queue`, `busy` | the policy work queue and the reconcile in progress: its policy, its copy of it, its list of vulnerable nodes |
| `win`, `replicas` | each policy's window for the Deployment, the capacity field |
| `spare` | whether `SafeReady >= Baseline` would hold now, an input |
| `handed`, `shared` | history: policies that became the owner, or whose Deployment was found at last, and were not reconciled since; policies whose window was not the only one |

- Nothing in this part of the code reads nodes, pods, Deployments or policies other than from
  the caches, so the model keeps the caches only and an edit is a change that arrives in one.
  The informers are independent: any order of arrivals is possible.
- An update of a cache and the predicate on its event are one step, the map function is a later
  one (`HandleEvent`) and reads the other caches as they are by then. A predicate reads nothing
  but its event. Events of policies and windows go to the queue directly: their handlers read
  nothing.
- A reconcile is two steps, since it lists the nodes first and the pods, the Deployment and the
  other policies later. Its writes are part of the second. `ensureWindow` here is the
  unthrottled case; deferral is in `WindowSlots`.
- A pod whose ReplicaSet or Deployment is not in the caches yet belongs to nobody (`dep.found`).
  They may arrive at any time, and no controller watches them for the policies.
- `Status.Message` is a small set of texts. It decides nothing, but both reconcilers write it, each
  its own text, and a write of the window wakes its policy.
- The window reconciler polls, so it needs no events.
- `updateStatus` changes the policy, which queues it once more. That wake-up is left out:
  nothing reads the status, and the safety properties must hold without it.

### WindowSlots

A turn of the loop (`Visit`) is one step, a window reconcile another; `active` is the loop's
counter, read from the cache at `StartReconcile`, and `taken` (history) what it should be. With
`"lag"` in `Events` the cache may be behind, and a patch then sends what differs from the copy it
was made from. A tombstone goes when the nodes it recorded are well, which is an input here: new
pods may be at risk on other nodes by then.

## 3. Runs

Passing runs:

| Run | Shows | Bounds |
|---|---|---|
| `LifecycleOverlap` | With both reconcilers interleaving on a lagging cache: `NeverBelowUser`; the ForcedCool stamp is never lost (`ForcedCoolSticky`); every window is in the end force-cooled, closed or gone (`MaxWindowFailsOpen`) | one at-risk pod, maxWindow one tick, a cooldown of zero length, deletion of the policy, no reconcile starts at the capacity bound |
| `LifecycleSerial` | One reconcile at a time on a synced cache, with a failing call or crash anywhere and deletions of all three objects: the baseline is the user's value, raised capacity is tracked by a window, nothing is raised again after ForcedCool, a recorded action survives, after the disruption the window goes away and capacity is back (`CalmRestores`), and the whole implements `CapacityLease` | up to two at-risk pods, so that a refresh changes ScaledTo, one fault, maxWindow two ticks so that it can be reached before, in and after a cooldown |
| `GateSpare` | An eviction allowed on SpareReady leaves the baseline of Ready pods, and pods of a node go in their order, however old the gate's copy | three nodes, four pod names, two replicas |
| `GateDrain` | No pod of a signalling node is held for ever, though `maxBuffer` caps the scale-up below the number of at-risk pods, spare may never come up, pods go unready and nodes signal at any time | two nodes, two pod names, a buffer of one |
| `PlanFanOut` | No path below its user value; every raised path on record; a restore that reports success and a compensation without errors are complete; a window being deleted gets through its restore; the whole implements `CapacityLease` | three paths on two objects, one of them unset and one up-only, three accepted annotations and three refused ones, two faults |
| `SlotsCap` | The cap holds for windows and for raised workloads | three workloads, two slots: two hold slots while a third is deferred and promoted |
| `SlotsEveryone` | Every at-risk workload gets a window, deferred or not, though patches fail and the cache lags | two workloads, one slot |
| `Routing` | When nothing is queued, running or unhandled, every pod at risk of a policy that was reconciled since it became the owner is answered for (`NoLostWakeUp`), and no window below maxWindow lists nodes that are all well again (`StaleNodesCleared`); the gate and the reconcilers agree on the owner; two windows on one field do not take it below the user's value; once changes stop arriving and the disruption is over or maxWindow has run out, the controllers come to rest (`EventuallyQuiet`); until then they overwrite each other's message | two policies that hand one Deployment to each other, one node with an annotation signal and a pool label, one pod, a Deployment that may be found late, maxWindow one tick, three changes, failures or restarts in any order |

The bounds: one fault is enough to stop a reconcile between any two of its calls, and its retry
starts from the state it left; two are needed in `ScalePlan` so that the compensation of a
failed apply can fail too. Capacity values matter only by their order relative to the user's
value, so one or two replicas above it are enough; in `ScalePlan` the primary paths of the
bindings differ in their user value, which gives a window targets that rise and fall.
`MaxReplicas` only keeps policy reconciles from starting at that capacity; it is reached in the
run that refutes `BaselineIsUserValue`, where the value climbs. Pod names, nodes and workloads
are as many as there are roles: an evicted pod, another at risk, a spare. In `Routing` a lost
wake-up takes at most three arrivals (a pod, its node, the mark that decides), each of which may
meet a running reconcile.

Deadlock is checked except in the two `ScalePlan` runs: when no binding can be resolved or read
any more and no fault is left the fan-out really has nothing to do.

Runs that refute a sentence of the repository (quoted with its line in `PROJECT.json`), each
with a short counterexample:

| Run | Property | What happens |
|---|---|---|
| `LifecycleBaselineRatchet` | `BaselineIsUserValue` | a plan made from a stale copy without action reads raised capacity as the baseline |
| `GateStaleSpare` | `SpareKeepsBaseline` | SpareReady of the previous set of nodes admits an eviction from a new one |
| `PlanUnset` | `DeletionCompletes` | a path that its object leaves unset is read with its default on the way up and without it on the way down: the restore of a kind other than Deployment and HPA fails for ever |
| `RoutingHandover` | `CoveredWhenQuiet` | a Deployment changes its owner on a dying node: the gate asks for the new owner's window and no event wakes that policy |

The limits of what passes can be seen by changing one constant of a run, or by adding a property
of the module to it:

| Run and change | Property then violated | What happens |
|---|---|---|
| `LifecycleSerial`, `Overlap = TRUE` | `RecordedActionSurvives` | a deferral on a stale copy patches the actions away (`policy_controller.go:397`) |
| `LifecycleSerial`, `Overlap = TRUE` | `NoOrphanedScaleUp` | `apply` after a scale-back and deletion that happened since the window write (`policy_controller.go:510`) |
| `LifecycleSerial` as it is | `ForcedCoolStartsCooldown` | a window cooling because its nodes cleared is stamped ForcedCool when maxWindow elapses (`window_controller.go:139`), against `evictionguardwindow_types.go:144` |
| `GateSpare`, `"late"` in `Hazards` | `OnlyFirstAtRisk` | a node the window does not list yet: no next pod, everybody may go (`decide.go:143`) |
| `LifecycleSerial`, `Overlap = TRUE` | `ImplementsLease` | the same deferral ends a lease on raised capacity |
| `LifecycleSerial` as it is | `TargetGoneCloses` | the window of a deleted Deployment loses its finalizer, is not deleted, and gets it back (`window_controller.go:99`) |
| `GateDrain`, `MaxWindow = 0` | `DrainProgresses` | nothing fails open without maxWindow; documented as unlimited |
| `PlanFanOut`, `Annotations <- MCAnnotationsExternal` | `RaisedHasAction` | re-binding to external entries only drops the actions of raised paths (`plan.go:281`) |
| `PlanFanOut`, `Annotations <- MCAnnotationsAlias` | `RestoreIsComplete` | a second catalog key for a raised path records the raised value as its baseline (`scale_actions.go:46`) |
| `PlanFanOut` as it is | `StampsGoWithWindow` | window-until is written after the restore removed the stamps, and stays (`window_controller.go:193`), against `evictionguardpolicy_types.go:137` |
| `SlotsCap`, two workloads, one slot | `DeferredOnlyWhenSaturated` | a tombstone that `ensureWindow` skips is counted as a slot (`policy_controller.go:175`); with `MaxWindow = 0` there are no tombstones and the property holds |
| `SlotsCap`, `Events = {"applyFails"}` | `CapRespected` | a window whose patch failed holds a slot the loop does not count (`policy_controller.go:173`) |
| `SlotsCap`, `Events = {"lag"}` | `CapRespected` | the count misses a window that the cache does not show yet (`policy_controller.go:139`) |
| `Routing`, `MaxWindow = 0` | `EventuallyQuiet` | while a pod stays at risk the two reconcilers overwrite each other's Status.Message (`policy_controller.go:531`, `window_controller.go:337`), and each write wakes the other, for ever; `requeue.go:14` has 15 s as the poll of a window that stays open |
| `RoutingHandover`, `Deployments <- MCDeploymentsLate` | `CoveredWhenQuiet` | a pod event answered before the Deployment is in the cache (`pkg/workload/owner.go:35`): its arrival wakes nobody |

So the baseline and the recorded action are safe when reconciles do not overlap and the cache
is current, and only then; the cap holds when patches succeed on a current cache. In `Routing`,
`NoLostWakeUp` exempts a policy that became the owner, or whose Deployment was found late, and was
not reconciled since (that is `RoutingHandover` and the last row), and does not ask for the capacity of a window that shared its field: the old
owner's window restores the field to its own baseline (`plan.go:371`) and nothing raises it again
before the next reconcile of the new owner.

### Refinement

`CapacityLease` has two variables, the fields and the set of fields with a lease on record, and
four steps: lease, raise, restore, release. A field is raised only under a lease, goes down in
one step and only to its owner's value, and a lease ends only when the field is back there.
`ImplementsLease` of `ScalePlan` maps a lease to an action in Spec.Actions and a field to its
effective value (an unset path stands for its default), without the up-only fields, which are
given and not lent; the fields of a deleted object count as returned. `ImplementsLease` of
`WindowLifecycle` does the same for its one field. The window write before the capacity patch,
the patch of several paths of a group at once, compensation, restore and the closing of the
window each map to one step of the lease; everything else is a stutter.

### Fairness

- `WindowLifecycle`: a started reconcile goes on (goroutines run); a window that exists is
  reconciled again (each return of `WindowReconciler.Reconcile` requeues, has just written the
  object it watches, or is an error and retried with back-off); a policy being deleted is
  requeued every 2 s; watches deliver; time passes; the garbage collector runs. No policy
  reconcile, user action, failure or crash is assumed to happen.
- `EvictGate`: node, pod and window events and the requeues bring both reconcilers round; a
  drain retries. Nothing is assumed of the Deployment controller, the scheduler or the kubelet.
- `EvictGate` also assumes that a plan can be built in the end: an annotation
  that names no catalog entry keeps the window from being written (`policy_controller.go:452`).
- `ScalePlan`: each step is weakly fair; a window with a deletion mark is retried until its
  restore is through, which is strong fairness on starting it, since other reconciles of the
  same window come in between.
- `WindowSlots`: the policy reconcile comes round (15 s requeue after a deferral or a failure,
  watches otherwise) and its loop ends; watches deliver.
- `PolicyRouting`: as long as the handlers, the policy worker or the window worker have something
  to do, one of them does something; time passes. Nothing on changes or failures.

## 4. Theorems

`WindowLifecycleProofs` proves, from `PolicyAssumption` and `LifecycleAssumption` (types of the
constants) alone:

- `TypeCorrect == Spec => []TypeOK`. `TypeOK` is inductive; the proof splits it into the parts
  owned by the API server, the two reconcilers and the environment, so that each action touches
  one or two of them.
- `CapacityFloor == Spec => []NeverBelowUser`. Not inductive by itself: a restore lowers the
  field to the action of a copy that may be old. `BaselinesSafe` adds that every baseline held
  anywhere (live window, cache, both local copies, the planned baseline) is at least the user's
  value. A new baseline is read from the field, which is at least that high by the invariant; all
  others are copied.
- `ForcedCoolIsFinal == Spec => ForcedCoolSticky`. A status write replaces the whole status, so
  the stamp would be lost to a writer with a copy from before it. `FreshCopies` says that a copy
  that counts as current agrees with the live window on the stamp; a status write is accepted
  from such a copy only.

They hold for any number of at-risk pods, any maxWindow and cooldown, any number of faults, and
with `Overlap` either way, so `CapacityFloor` covers the interleavings in which the baseline
ratchets: capacity may stay too high, it is never too low.

`WindowSerialProofs` adds what holds when reconciles do not overlap (`Overlap = FALSE`: one
reconcile at a time, each from a current copy), with faults, crashes and deletions anywhere. TLC
finds each of them violated in `LifecycleSerial` with `Overlap = TRUE`.

- `ForcedCoolNeverRaises`, `ActionIsKept`: `Spec => NoRaiseAfterForcedCool` and
  `Spec => RecordedActionSurvives`. The invariant is `SerialInv`: at most one reconcile is in
  progress; while a policy reconcile decides, the window on record is as it read it, or deleted
  (`ReadIsCurrent`); the window it writes and raises for is not held by maxWindow (`NotHeld`); a
  deferred window has no action (`DeferredIsEmpty`), so that deferring drops none.
- `BaselineHolds`, `RaisedAlwaysTracked`: `Spec => []BaselineIsUserValue` and
  `Spec => []RaisedIsTracked`, for a field that is not up-only (`SkipDownscaling = FALSE`; an
  up-only field stays raised by design). The invariant is `TrackInv`: a recorded action holds
  the user's value and raised capacity has an action, a policy reconcile that is about to raise
  has its action written (`Applying`), a window that is closing is restored before its finalizer
  goes (`UnfinalizedIsOver`, `ClosedIsRestored`), and what a window reconcile knows between two
  of its calls (`WindowAtWork`).
- `LeaseIsImplemented`: under the same hypotheses `Spec => ImplementsLease`, the refinement of
  `CapacityLease`. The initial state maps to no lease; each API call maps to one step of the
  lease or a stutter, by the two invariants above.

`WindowSlotsProofs`, for any number of workloads and slots, with `Events = {}` (patches succeed
and the cache is current; both are needed, see the limits table):

- `TypeCorrect`, `CapHolds`, `RaisedCapHolds`: `[]TypeOK`, `[]CapRespected`, `[]RaisedWithinCap`.
  The cap is not inductive: the loop does not look at the windows but at its own counter. `SlotsInv`
  adds that the counter covers every window that holds a slot (`CountCovers`), although windows
  close behind the loop's back; that a closed window is a tombstone (`OnlyTombstonesClosed`); and
  that a raised workload has a window that holds a slot and runs no cooldown (`RaisedHolds`).

`PolicyRoutingProofs`, for any number of policies, pods and nodes and any bound on changes:

- `TypeCorrect`, `NeverBelowUserHolds`: `[]TypeOK`, `[]NeverBelowUser`.
- `OwnersAgreeAlways`: `[]OwnersAgree`: the owner by `ResolveOwner` is the policy for which the
  reconciler's own test, `Owns`, holds.
- `NoWakeUpIsLost`: `[]NoLostWakeUp`. The property speaks of states at rest; the invariant says of
  every state that a pod at risk is answered for by a window, or that a reconcile of its policy is
  running or still to come, from the queue or from an event whose handler has not run
  (`RiskAnswered`). `BusySound`: what the running reconcile read is still current, or it will run
  again. `SharedMarked` keeps track of the windows that share the field.
- `NoNodeIsStale`: `[]StaleNodesCleared`, by the same kind of argument for a node that recovers
  (`NodesAnswered`).

`ScalePlanProofs`, for any catalog, fields and annotations, any number of failures, crashes and
deleted objects. Grouping, merging and walking the lists of actions are proved in lemmas of their
own (`GroupFacts`, `MergeFacts`, `SplitFacts`), so that no proof depends on how long a list is.

- `TypeCorrect`: `[]TypeOK`, from the types of the constants. `Shape` adds that a list in hand is
  not empty, which is what makes its leading group exist.
- `FloorHolds`: `[]NeverBelowUser`, where entries of the catalog that share a path agree on its
  default (`DefaultsAgree`; otherwise the value of an unset path is not one value). `FloorInv` adds
  that every action in the window, in a list being walked or in a group to compensate comes from
  a binding and has a baseline of at least the user's value.
- `RaisedIsOnRecord`, `RestoreCompletes`, `CompensationCompletes`: `[]RaisedHasAction`,
  `[]RestoreIsComplete`, `[]CompensationIsComplete`, where moreover no path is bound through two
  keys (`OneKeyPerPath`) and no annotation stands for external entries only (`NoneExternal`). The
  limits table shows that the code needs both. None of the three is inductive, and they need each
  other: a restore is complete because every raised path is in the list it walks, and a new
  baseline is the user's value because a path that is not on record is not raised. `LendInv` says
  that baselines are exact (`ExactBases`), that what a reconcile works on and what is stamped is
  in the window (`OnRecord`), that a restore leaves nothing raised or stamped behind it (`Walk`),
  that the groups to compensate cover what was raised, less what is back (`Backtrack`), and that
  nothing is raised during a cooldown (`Cold`, `Raising`).
- `LeaseIsImplemented`: under the same hypotheses `Spec => ImplementsLease`. `BuildPlan` maps to
  Lease, a patch on the way up to Raise, a patch on the way down and the deletion of an object to
  Restore, the end of the window to Release, everything else to a stutter.

`EvictGateProofs`, for any number of pods, nodes and replicas and every lag of the gate's copy:

- `TypeCorrect`: `[]TypeOK`, under every hazard.
- `FirstGoesFirst`: `Spec => OnlyFirstAtRisk` where no node starts to signal under a window
  (`"late" \notin Hazards`; the limits table shows what happens otherwise), pods going unready and
  evictions elsewhere included. The gate looks for the first pod on the nodes of its copy, the
  property at the node of the pod: `Covered` says that both the window and the gate's copy list
  the node of every pod at risk, since a disruption begins without a window, pods are only
  created off signalling nodes and a policy reconcile writes all of them.
- `SpareComesFirst`: `Spec => SpareKeepsBaseline` for one clean disruption at a time
  (`Hazards = {}`; `GateStaleSpare` refutes it with `"late"`, and the gate cannot count a pod that
  goes unready or is evicted elsewhere after the flag was written). The flag is computed from the
  pods once and used later, through an old copy. `FlagsHold` says that it stays true of the copy it
  is in: while a pod is at risk and maxWindow has not failed open, no Ready pod off the recorded
  nodes is lost. It could be lost to a scale-down; `NoneSurplus` excludes that, since desired only
  rises during a disruption. `Lending` says that desired is back at the user's number whenever a
  new window takes its baseline from it, so that the flag compares with the right number.

Each inductive invariant was first checked by TLC on the run's instance. The hypotheses hold of
the instances: the limits table leaves them by a change of `Annotations`, `Hazards`, `Events` or
`Overlap`.

Only model-checked: the liveness properties (fairness and `ENABLED` are out of TLAPS' reach). The
safety properties of all passing runs are proved. No module uses RECURSIVE operators;
`ScaleCatalog` uses folds, and `PlanAssumption` says what they compute (each step drives a path
of its catalog entry), so that proofs need not unfold them; TLC evaluates it on every run.

## 5. Not modelled

- Naming of windows and metric labels: a window is identified by policy and workload.
- `scale_error.go`, events, metrics, the policy's own status: no decision reads them.
- Validation webhooks: syntax of one object at admission; what they refuse can still be in the
  cluster, and `Resolvable` refuses it again where the reconcilers meet it.
- Manager set-up, chart and website. Leader election is a crash.
- Namespaces of bound objects (all in one), edits of the catalog during a window, a user who
  rescales the workload during a window.
- Decoding of the admission request. The policy reconciler counts as partly modelled for its
  status write and metrics only.
- A path that is bound through two catalog keys, and a re-binding to external entries only, are
  outside the runs' annotations; the limits table says what happens.

## 6. Plan

The system's control logic is modelled, and the safety properties of the passing runs are proved.
What is left is to weaken hypotheses and to prove what the limits table says holds elsewhere:

1. `WindowSlots`: `CapRespected` with a current cache and failing patches, counting the windows
   that hold a slot without having been raised.
2. `WindowSlots`: `DeferredOnlyWhenSaturated` where `MaxWindow = 0`.
3. `EvictGate`: what is left of `SpareKeepsBaseline` when pods go unready, as a bound on the pods
   that did.
