---------------------------- MODULE WindowLifecycle ----------------------------
(***************************************************************************)
(* One EvictionGuardWindow through its life, under the two reconcilers of  *)
(* internal/controller that write it, at the granularity of API calls.     *)
(*                                                                         *)
(* The policy reconciler (policy_controller.go, plan.go) opens the window  *)
(* and raises the capacity field; the window reconciler                    *)
(* (window_controller.go) restores it, cools down and closes.  Each runs   *)
(* in a goroutine of its own.  Both read the window from the informer      *)
(* cache, which lags behind the API server, and write it with              *)
(*   - Patch(MergeFrom): sends only the fields that differ from the copy   *)
(*     that was read, checks no resourceVersion, returns the new object;   *)
(*   - Status().Update: replaces the status, refused with a conflict       *)
(*     unless the copy carries the current resourceVersion.                *)
(* A resourceVersion is only ever compared with the live one, so it is     *)
(* kept as a flag per copy: synced, pFresh and wFresh say that the copy is *)
(* the live version.  The capacity field (backends.Current, PatchIntegers) *)
(* is read and written on the API server directly.                         *)
(*                                                                         *)
(* What the cluster looks like (at-risk pods, Ready spare, recorded nodes  *)
(* still signalling, a free maxConcurrentWindows slot) is an input of each *)
(* reconcile that reads it.                                                *)
(***************************************************************************)
EXTENDS WindowPhase

CONSTANTS
  UserReplicas,     \* the capacity field before Eviction Guard touches it
  SkipDownscaling,  \* the catalog entry's skipDownscaling
  Overlap,          \* TRUE: reconciles interleave and the cache may lag, as in
                    \* the program; FALSE: they run one at a time on a synced
                    \* cache, which is what the repository's tests exercise
  Events,           \* which of these may happen: "window", "policy" and
                    \* "target" (somebody deletes that object), "calm" (the
                    \* disruption ends for good)
  MaxAtRisk,        \* bound: at-risk pods a reconcile may see
  MaxReplicas,      \* bound: no policy reconcile starts at this capacity
  MaxFaults         \* bound: failed API calls and crashes in a behaviour

ASSUME LifecycleAssumption ==
  /\ UserReplicas \in Nat
  /\ SkipDownscaling \in BOOLEAN
  /\ Overlap \in BOOLEAN
  /\ Events \subseteq {"window", "policy", "target", "calm"}
  /\ MaxAtRisk \in Nat
  /\ MaxReplicas \in Nat
  /\ MaxFaults \in Nat

VARIABLES
  win,        \* the window on the API server
  cache,      \* the informer's copy
  synced,     \* the informer's copy is the live version
  replicas,   \* the capacity field on the API server
  policy,     \* the EvictionGuardPolicy object
  target,     \* the target Deployment exists
  pPc, pSnap, pFresh, pRisk, pBase,   \* policy reconcile in progress
  wPc, wSnap, wFresh, wStep, wUntil,  \* window reconcile in progress
  calm,       \* the disruption is over for good
  faults      \* failures left

apiVars == <<win, cache, synced>>
pVars   == <<pPc, pSnap, pFresh, pRisk, pBase>>
wVars   == <<wPc, wSnap, wFresh, wStep, wUntil>>
envVars == <<policy, target, calm, faults>>
vars    == <<apiVars, replicas, pVars, wVars, envVars>>

PolicyPcs == {"idle", "ensureGet", "plan", "write", "apply", "status",
              "deferGet", "deferWrite", "clear"}
WindowPcs == {"idle", "addFinalizer", "restoreFinal", "unfinalize", "stamp",
              "abort", "restore", "arm", "status", "closeFinalizer", "delete"}

TypeOK ==
  /\ win \in Window /\ cache \in Window
  /\ synced \in BOOLEAN
  /\ replicas \in Nat
  /\ policy \in {"new", "live", "deleting", "gone"}
  /\ target \in BOOLEAN
  /\ pPc \in PolicyPcs /\ pSnap \in Window /\ pFresh \in BOOLEAN
  /\ pRisk \in Nat /\ pBase \in Nat
  /\ wPc \in WindowPcs /\ wSnap \in Window /\ wFresh \in BOOLEAN
  /\ wStep \in Steps /\ wUntil \in Nat
  /\ calm \in BOOLEAN
  /\ faults \in Nat

Init ==
  /\ win = NoWindow /\ cache = NoWindow /\ synced = TRUE
  /\ replicas = UserReplicas
  /\ policy = "new" /\ target = TRUE
  /\ pPc = "idle" /\ pSnap = NoWindow /\ pFresh = FALSE
  /\ pRisk = 0 /\ pBase = 0
  /\ wPc = "idle" /\ wSnap = NoWindow /\ wFresh = FALSE
  /\ wStep = "StayOpen" /\ wUntil = 0
  /\ calm = FALSE /\ faults = MaxFaults

-------------------------------------------------------------------------------
(***************************************************************************)
(* The API server and the two ways of writing to it.                       *)
(***************************************************************************)

\* The live object becomes w; bumped says that its resourceVersion moved, so
\* that every copy but the writer's own is now an old version.
Store(w, bumped) ==
  /\ win' = w
  /\ synced' = (synced /\ ~bumped)
  /\ UNCHANGED cache

\* One field of a merge patch: sent only if it differs from the copy read.
Merge(read, new, live) == IF new = read THEN live ELSE new

\* Delete of an object: a finalizer turns it into a deletion mark.
Deleted(w) == IF w.finalizer THEN [w EXCEPT !.deleting = TRUE] ELSE NoWindow

\* Removal of the finalizer: a marked object goes away.
Unfinalized(w) == IF w.deleting THEN NoWindow ELSE [w EXCEPT !.finalizer = FALSE]

(***************************************************************************)
(* A reconcile's copy of the window keeps only what it still reads: the    *)
(* spec until it has been patched (of WindowUntil only whether it is set), *)
(* the status for a status write, the recorded action for a restore.  None *)
(* of that depends on the clock.                                           *)
(***************************************************************************)
SpecOf(w) ==
  [NoWindow EXCEPT !.exists = w.exists, !.deferred = w.deferred,
                   !.nodes = w.nodes, !.action = w.action,
                   !.until = IF w.until = NoTime THEN NoTime ELSE 0]

StatusOf(w) ==
  [NoWindow EXCEPT !.phase = w.phase, !.scaled = w.scaled,
                   !.forcedCool = w.forcedCool]

\* What the window reconcile keeps at pc.
Kept(pc, w) ==
  CASE pc = "stamp"        -> [StatusOf(w) EXCEPT !.action = w.action]
    [] pc = "restore"      -> [NoWindow EXCEPT !.action = w.action]
    [] pc = "restoreFinal" -> [NoWindow EXCEPT !.action = w.action,
                                               !.finalizer = w.finalizer]
    [] pc = "status"       -> StatusOf(w)
    [] OTHER               -> NoWindow

\* The window reconcile still makes a conditional write after pc.
NeedsVersion(pc) == pc \in {"stamp", "status"}

\* The policy reconcile returns; its locals are forgotten.
PolicyDone ==
  /\ pPc' = "idle" /\ pSnap' = NoWindow /\ pFresh' = FALSE
  /\ pRisk' = 0 /\ pBase' = 0

PolicyGoto(pc) == pPc' = pc /\ UNCHANGED <<pSnap, pFresh, pRisk, pBase>>

WindowDone ==
  /\ wPc' = "idle" /\ wSnap' = NoWindow /\ wFresh' = FALSE
  /\ wStep' = "StayOpen" /\ wUntil' = 0

\* The window reconcile goes on at pc with the copy w.
WindowGoto(pc, w, fresh) ==
  /\ wPc' = pc /\ wSnap' = Kept(pc, w)
  /\ wFresh' = (fresh /\ NeedsVersion(pc))

\* The policy reconcile writes w and goes on with the object returned.
PolicyWrites(w, bumped, pc) ==
  /\ Store(w, bumped)
  /\ pPc' = pc /\ pSnap' = StatusOf(w) /\ pFresh' = TRUE
  /\ wFresh' = (wFresh /\ ~bumped)
  /\ UNCHANGED <<pRisk, pBase, wPc, wSnap, wStep, wUntil>>

WindowWrites(w, bumped, pc) ==
  /\ Store(w, bumped)
  /\ WindowGoto(pc, w, TRUE)
  /\ pFresh' = (pFresh /\ ~bumped)
  /\ UNCHANGED <<wStep, wUntil, pPc, pSnap, pRisk, pBase>>

\* Somebody other than the two reconciles writes w.
OthersWrite(w) ==
  /\ Store(w, TRUE)
  /\ pFresh' = FALSE /\ wFresh' = FALSE
  /\ UNCHANGED <<pPc, pSnap, pRisk, pBase, wPc, wSnap, wStep, wUntil>>

\* Mutant of StatusAccepted: a status write that checks no resourceVersion.
StatusAcceptedAlways(fresh) == win.exists

\* Status().Update goes through: the object is there at the version read.
StatusAccepted(fresh) == win.exists /\ fresh

\* What it stores: the status of the copy s, all of it.  A LastScaleTime
\* set for the first time is now.
StatusReplaced(s) ==
  [win EXCEPT !.phase = s.phase, !.forcedCool = s.forcedCool,
              !.scaled = s.scaled,
              !.opened = IF s.scaled /\ ~win.scaled THEN 0 ELSE @]

\* A reconcile may start: always in the program; with Overlap = FALSE only
\* when the other one is idle and the cache has caught up.
MayStart(otherPc) == Overlap \/ (otherPc = "idle" /\ synced)

\* What a reconcile may find when it looks at the cluster.
AtRisk == IF calm THEN {0} ELSE 0 .. MaxAtRisk
StillDying == IF calm THEN {FALSE} ELSE BOOLEAN
SpareSafe == IF calm THEN {TRUE} ELSE BOOLEAN

-------------------------------------------------------------------------------
(***************************************************************************)
(* The policy reconciler, for the one workload of this model.              *)
(***************************************************************************)

AddPolicyFinalizer ==
  /\ pPc = "idle" /\ policy = "new"
  /\ policy' = "live"
  /\ UNCHANGED <<apiVars, replicas, pVars, wVars, target, calm, faults>>

\* Mutant of Waiting: every at-risk workload queues for a slot again, also
\* the one whose window already holds capacity.
WaitingAlways(w) == TRUE

\* Reconcile's "waiting": no active window yet, or only a deferred one.
Waiting(w) == ~(w.exists /\ IsActive(w)) \/ w.deferred

\* Reconcile up to getWindow: collect the workload, decide between
\* ensureWindow, ensureDeferredWindow and syncClearedWindows.
PolicyReconcile(atRisk, slotFree, dying) ==
  /\ pPc = "idle" /\ policy = "live" /\ MayStart(wPc)
  /\ \/ /\ atRisk > 0 /\ target /\ replicas < MaxReplicas
        /\ pPc' = IF Waiting(cache) /\ ~slotFree THEN "deferGet" ELSE "ensureGet"
        /\ pRisk' = atRisk
        /\ UNCHANGED <<pSnap, pFresh, pBase>>
     \/ /\ atRisk = 0 /\ cache.exists /\ cache.nodes /\ ~dying
        /\ PolicyGoto("clear")
  /\ UNCHANGED <<apiVars, replicas, wVars, envVars>>

\* ensureWindow and ensureDeferredWindow: Get, and give up on a held window.
EnsureGet(pc, next) ==
  /\ pPc = pc
  /\ IF cache.exists /\ holdMaxWindow(cache)
     THEN PolicyDone
     ELSE /\ pPc' = next /\ pSnap' = SpecOf(cache)
          /\ UNCHANGED <<pFresh, pRisk, pBase>>
  /\ UNCHANGED <<apiVars, replicas, wVars, envVars>>

\* Mutant of PlannedBaseline: the recorded action is not looked up.
PlannedBaselineNotSticky(w) == replicas

\* Mutant of PlannedBaseline: a window without a recorded action is not told
\* apart from one with.
PlannedBaselineUnchecked(w) == w.action

\* buildPlan: the baseline already recorded, else the live value.
PlannedBaseline(w) == IF w.action # NoAction THEN w.action ELSE replicas

BuildPlan ==
  /\ pPc = "plan"
  /\ IF target
     THEN /\ pPc' = "write" /\ pBase' = PlannedBaseline(pSnap)
          /\ UNCHANGED <<pSnap, pFresh, pRisk>>
     ELSE PolicyDone
  /\ UNCHANGED <<apiVars, replicas, wVars, envVars>>

\* The merge patch of ensureWindow (deferred = FALSE) and of
\* ensureDeferredWindow.  other: what differs from the copy read besides the
\* fields of the model, "nodes" for the names of the nodes (or a field that is
\* not modelled), "actions" for ScaledTo in the list of actions.  A list is
\* sent whole, so the baseline goes with it.
PatchedWindow(action, deferred, other) ==
  [win EXCEPT
     !.deferred = Merge(pSnap.deferred, deferred, @),
     !.nodes = IF "nodes" \in other THEN TRUE ELSE Merge(pSnap.nodes, TRUE, @),
     !.action = IF "actions" \in other THEN action ELSE Merge(pSnap.action, action, @),
     !.until = Merge(pSnap.until, NoTime, @)]

\* What else may differ: ScaledTo if another number of pods at risk, which the
\* reconcile before may have seen, leads to another target.
MayDiffer(action) ==
  {"nodes"} \cup
  IF action # NoAction /\ \E r \in 1 .. MaxAtRisk :
                            TargetReplicas(action, r) # TargetReplicas(action, pRisk)
  THEN {"actions"} ELSE {}

\* Create if the Get found nothing (refused if the object is there), else
\* Patch (refused if it is gone).
WriteWindow(pc, action, deferred, next) ==
  /\ pPc = pc
  /\ IF win.exists = pSnap.exists
     THEN \E other \in SUBSET MayDiffer(action) :
            LET w == IF pSnap.exists
                     THEN PatchedWindow(action, deferred, other)
                     ELSE NewWindow(action, deferred)
            IN  PolicyWrites(w, other # {} \/ w # win, next)
     ELSE PolicyDone /\ UNCHANGED <<apiVars, wVars>>
  /\ UNCHANGED <<replicas, envVars>>

\* plan.apply on one backend: raise, never lower.
Apply ==
  /\ pPc = "apply"
  /\ replicas' = LET desired == TargetReplicas(pBase, pRisk)
                 IN  IF target /\ replicas < desired THEN desired ELSE replicas
  /\ PolicyGoto("status")
  /\ UNCHANGED <<apiVars, wVars, envVars>>

\* apply fails: ensureWindow still writes its status.
ApplyFails ==
  /\ pPc = "apply" /\ faults > 0
  /\ faults' = faults - 1
  /\ PolicyGoto("status")
  /\ UNCHANGED <<apiVars, replicas, wVars, policy, target, calm>>

\* The status write that ends ensureWindow and ensureDeferredWindow.  other:
\* the message or the CapacityApplied condition changed.
PolicyStatus ==
  /\ pPc = "status"
  /\ \E other \in BOOLEAN :
       LET s == [pSnap EXCEPT !.phase = "Open", !.scaled = TRUE]
           dirty == other \/ s # pSnap
       IN  IF dirty /\ StatusAccepted(pFresh)
           THEN Store(StatusReplaced(s), TRUE) /\ wFresh' = FALSE
           ELSE UNCHANGED <<apiVars, wFresh>>
  /\ PolicyDone
  /\ UNCHANGED <<replicas, wPc, wSnap, wStep, wUntil, envVars>>

\* syncClearedWindows' patch, once no recorded node signals any more.
ClearNodes ==
  /\ pPc = "clear"
  /\ IF win.exists
     THEN LET w == [win EXCEPT !.nodes = FALSE]
          IN  /\ Store(w, w # win)
              /\ wFresh' = (wFresh /\ w = win)
     ELSE UNCHANGED <<apiVars, wFresh>>
  /\ PolicyDone
  /\ UNCHANGED <<replicas, wPc, wSnap, wStep, wUntil, envVars>>

\* cleanup of a policy being deleted: delete the windows the cache lists,
\* drop the policy's finalizer once it lists none.
Cleanup ==
  /\ pPc = "idle" /\ policy = "deleting" /\ MayStart(wPc)
  /\ \/ /\ cache.exists /\ win.exists /\ ~win.deleting
        /\ OthersWrite(Deleted(win))
        /\ UNCHANGED policy
     \/ /\ ~cache.exists
        /\ policy' = "gone"
        /\ UNCHANGED <<apiVars, pVars, wVars>>
  /\ UNCHANGED <<replicas, target, calm, faults>>

-------------------------------------------------------------------------------
(***************************************************************************)
(* The window reconciler.                                                  *)
(***************************************************************************)

\* Mutant of StepPc: the cooldown is armed without restoring first.
StepPcArmOnly(step, w) ==
  CASE step = "BeginScaleBack"                  -> "arm"
    [] step = "StayOpen" /\ w.until # NoTime    -> "abort"
    [] OTHER                                    -> "status"

\* Where a decided step begins.
StepPc(step, w) ==
  CASE step = "BeginScaleBack"                  -> "restore"
    [] step = "StayOpen" /\ w.until # NoTime    -> "abort"
    [] OTHER                                    -> "status"

\* The phase a step writes.
StepPhase(step) ==
  CASE step = "StayOpen" -> "Open"
    [] step = "Close"    -> "Closed"
    [] OTHER             -> "Cooling"

\* Reconcile up to its first API write.
WindowReconcile(atRisk, safe, dying) ==
  /\ wPc = "idle" /\ cache.exists /\ MayStart(pPc)
  /\ LET forceCool == maxWindowExceeded(cache)
         step == decideWindowStep(cache, atRisk, safe, forceCool)
     IN  \/ /\ cache.deleting \/ (cache.finalizer /\ (policy = "gone" \/ ~target))
            /\ WindowGoto("restoreFinal", cache, synced)
            /\ UNCHANGED <<wStep, wUntil>>
         \/ /\ ~cache.deleting /\ ~cache.finalizer
            /\ WindowGoto("addFinalizer", cache, synced)
            /\ UNCHANGED <<wStep, wUntil>>
         \/ /\ ~cache.deleting /\ cache.finalizer /\ policy # "gone" /\ target
            /\ IF cache.phase = "Closed" /\ cache.forcedCool
               THEN /\ ~(cache.nodes /\ dying)
                    /\ WindowGoto("closeFinalizer", cache, synced)
                    /\ UNCHANGED <<wStep, wUntil>>
               ELSE /\ WindowGoto(IF forceCool /\ ~cache.forcedCool
                                  THEN "stamp" ELSE StepPc(step, cache),
                                  cache, synced)
                    /\ wStep' = step
                    /\ wUntil' = IF step = "BeginScaleBack"
                                 THEN ScaleBackAfter ELSE 0
  /\ UNCHANGED <<apiVars, replicas, pVars, envVars>>

\* A patch of one field, or an error when the window is gone.
WindowPatches(w, pc) ==
  IF win.exists
  THEN WindowWrites(w, w # win, pc)
  ELSE WindowDone /\ UNCHANGED <<apiVars, pVars>>

AddFinalizer ==
  /\ wPc = "addFinalizer"
  /\ IF win.exists /\ ~win.deleting
     THEN LET w == [win EXCEPT !.finalizer = TRUE]
          IN  /\ Store(w, w # win)
              /\ pFresh' = (pFresh /\ w = win)
     ELSE UNCHANGED <<apiVars, pFresh>>
  /\ WindowDone
  /\ UNCHANGED <<replicas, pPc, pSnap, pRisk, pBase, envVars>>

\* The ForcedCool stamp, before the decided step runs.
StampForcedCool ==
  /\ wPc = "stamp"
  /\ IF StatusAccepted(wFresh)
     THEN LET w == StatusReplaced([wSnap EXCEPT !.forcedCool = TRUE])
          IN  WindowWrites(w, TRUE, StepPc(wStep, w))
     ELSE WindowDone /\ UNCHANGED <<apiVars, pVars>>
  /\ UNCHANGED <<replicas, envVars>>

AbortCooldown ==
  /\ wPc = "abort"
  /\ WindowPatches([win EXCEPT !.until = NoTime], "status")
  /\ UNCHANGED <<replicas, envVars>>

\* Mutant of Restored: an empty Spec.Actions restores to a zero Baseline.
RestoredZeroValue(w) ==
  IF replicas > w.action
  THEN IF w.action = NoAction THEN 0 ELSE w.action ELSE replicas

\* restoreActions: lower to the recorded baseline, never raise.
Restored(w) ==
  IF target /\ ~SkipDownscaling /\ w.action # NoAction /\ replicas > w.action
  THEN w.action ELSE replicas

\* scaleBackIfAllowed, then on to the WindowUntil patch.
ScaleBack ==
  /\ wPc = "restore"
  /\ replicas' = Restored(wSnap)
  /\ WindowGoto("arm", wSnap, FALSE) /\ UNCHANGED <<wStep, wUntil>>
  /\ UNCHANGED <<apiVars, pVars, envVars>>

\* WindowUntil = the start of this reconcile + scaleBackAfter.
ArmCooldown ==
  /\ wPc = "arm"
  /\ WindowPatches([win EXCEPT !.until = wUntil], "status")
  /\ UNCHANGED <<replicas, envVars>>

\* writeStatus, and what follows it.  other: the spare counts, the message or
\* the SpareReady condition changed.
WriteStatus ==
  /\ wPc = "status"
  /\ \E other \in BOOLEAN :
       LET s == [wSnap EXCEPT !.phase = StepPhase(wStep)]
           done == wStep # "Close" \/ s.forcedCool
       IN  IF ~other /\ s = wSnap
           THEN /\ UNCHANGED <<apiVars, pVars>>
                /\ IF done THEN WindowDone
                   ELSE /\ WindowGoto("closeFinalizer", wSnap, FALSE)
                        /\ UNCHANGED <<wStep, wUntil>>
           ELSE IF ~StatusAccepted(wFresh)
           THEN WindowDone /\ UNCHANGED <<apiVars, pVars>>
           ELSE IF done
           THEN /\ Store(StatusReplaced(s), TRUE)
                /\ WindowDone
                /\ pFresh' = FALSE /\ UNCHANGED <<pPc, pSnap, pRisk, pBase>>
           ELSE WindowWrites(StatusReplaced(s), TRUE, "closeFinalizer")
  /\ UNCHANGED <<replicas, envVars>>

\* deleteClosedWindow, first call: drop the finalizer.
CloseFinalizer ==
  /\ wPc = "closeFinalizer"
  /\ WindowPatches(Unfinalized(win), "delete")
  /\ UNCHANGED <<replicas, envVars>>

\* deleteClosedWindow, second call: delete by name, NotFound ignored.
DeleteWindow ==
  /\ wPc = "delete"
  /\ IF win.exists
     THEN Store(Deleted(win), TRUE) /\ pFresh' = FALSE
     ELSE UNCHANGED <<apiVars, pFresh>>
  /\ WindowDone
  /\ UNCHANGED <<replicas, pPc, pSnap, pRisk, pBase, envVars>>

\* scaleBackAndUnfinalize, first call.
RestoreFinal ==
  /\ wPc = "restoreFinal"
  /\ replicas' = Restored(wSnap)
  /\ IF wSnap.finalizer
     THEN /\ WindowGoto("unfinalize", wSnap, FALSE)
          /\ UNCHANGED <<wStep, wUntil>>
     ELSE WindowDone
  /\ UNCHANGED <<apiVars, pVars, envVars>>

\* scaleBackAndUnfinalize, second call.
Unfinalize ==
  /\ wPc = "unfinalize"
  /\ IF win.exists
     THEN LET w == Unfinalized(win)
          IN  /\ Store(w, w # win)
              /\ pFresh' = (pFresh /\ w = win)
     ELSE UNCHANGED <<apiVars, pFresh>>
  /\ WindowDone
  /\ UNCHANGED <<replicas, pPc, pSnap, pRisk, pBase, envVars>>

-------------------------------------------------------------------------------
(***************************************************************************)
(* The surroundings: clock, informer, users, garbage collector, failures.  *)
(***************************************************************************)

Tick ==
  /\ win' = Age(win) /\ cache' = Age(cache)
  /\ wUntil' = IF wUntil > 0 THEN wUntil - 1 ELSE wUntil
  /\ UNCHANGED <<synced, replicas, pVars, wPc, wSnap, wFresh, wStep, envVars>>

\* The watch delivers: the informer's copy becomes the live version.
CacheSync ==
  /\ ~synced
  /\ cache' = win /\ synced' = TRUE
  /\ UNCHANGED <<win, replicas, pVars, wVars, envVars>>

\* kubectl delete of the window.
UserDeletesWindow ==
  /\ "window" \in Events /\ win.exists /\ ~win.deleting
  /\ OthersWrite(Deleted(win))
  /\ UNCHANGED <<replicas, envVars>>

UserDeletesPolicy ==
  /\ "policy" \in Events /\ policy \in {"new", "live"}
  /\ policy' = IF policy = "new" THEN "gone" ELSE "deleting"
  /\ UNCHANGED <<apiVars, replicas, pVars, wVars, target, calm, faults>>

\* The window's owner reference is to the policy.
GarbageCollect ==
  /\ policy = "gone" /\ win.exists /\ ~win.deleting
  /\ OthersWrite(Deleted(win))
  /\ UNCHANGED <<replicas, envVars>>

TargetDeleted ==
  /\ "target" \in Events /\ target
  /\ target' = FALSE
  /\ UNCHANGED <<apiVars, replicas, pVars, wVars, policy, calm, faults>>

DisruptionEnds ==
  /\ "calm" \in Events /\ ~calm
  /\ calm' = TRUE
  /\ UNCHANGED <<apiVars, replicas, pVars, wVars, policy, target, faults>>

\* A call fails and the reconcile returns its error.  A call that took
\* effect but whose answer was lost is the same failure one step later.
PolicyCallFails ==
  /\ pPc \notin {"idle", "apply"} /\ faults > 0
  /\ faults' = faults - 1
  /\ PolicyDone
  /\ UNCHANGED <<apiVars, replicas, wVars, policy, target, calm>>

WindowCallFails ==
  /\ wPc # "idle" /\ faults > 0
  /\ faults' = faults - 1
  /\ WindowDone
  /\ UNCHANGED <<apiVars, replicas, pVars, policy, target, calm>>

\* The manager dies, or loses its lease, between two API calls; its successor
\* starts with a cache it has just listed.
Crash ==
  /\ pPc # "idle" \/ wPc # "idle"
  /\ faults > 0
  /\ faults' = faults - 1
  /\ PolicyDone /\ WindowDone
  /\ cache' = win /\ synced' = TRUE
  /\ UNCHANGED <<win, replicas, policy, target, calm>>

-------------------------------------------------------------------------------
PolicyStep ==
  \/ EnsureGet("ensureGet", "plan")
  \/ BuildPlan
  \/ WriteWindow("write", pBase, FALSE, "apply")
  \/ Apply
  \/ EnsureGet("deferGet", "deferWrite")
  \/ WriteWindow("deferWrite", NoAction, TRUE, "status")
  \/ PolicyStatus
  \/ ClearNodes

WindowStarts ==
  \E atRisk \in AtRisk, safe \in SpareSafe, dying \in StillDying :
    WindowReconcile(atRisk, safe, dying)

WindowStep ==
  \/ AddFinalizer \/ StampForcedCool \/ AbortCooldown
  \/ ScaleBack \/ ArmCooldown \/ WriteStatus
  \/ CloseFinalizer \/ DeleteWindow
  \/ RestoreFinal \/ Unfinalize

Environment ==
  \/ UserDeletesWindow \/ UserDeletesPolicy \/ TargetDeleted
  \/ DisruptionEnds
  \/ ApplyFails \/ PolicyCallFails \/ WindowCallFails \/ Crash

Next ==
  \/ AddPolicyFinalizer
  \/ \E atRisk \in AtRisk, slotFree \in BOOLEAN, dying \in StillDying :
       PolicyReconcile(atRisk, slotFree, dying)
  \/ PolicyStep
  \/ Cleanup
  \/ WindowStarts
  \/ WindowStep
  \/ Tick \/ CacheSync \/ GarbageCollect
  \/ Environment

Spec == Init /\ [][Next]_vars

(***************************************************************************)
(* Fairness.  A reconcile that started goes on; a window that exists is    *)
(* reconciled again (every branch of WindowReconciler.Reconcile requeues   *)
(* or writes the object it watches, errors are retried); a policy being    *)
(* deleted is requeued every 2s; watches deliver; time passes; the garbage *)
(* collector runs.  No fairness on users, failures or policy reconciles.   *)
(***************************************************************************)
Fairness ==
  /\ WF_vars(PolicyStep) /\ WF_vars(Cleanup)
  /\ WF_vars(WindowStarts) /\ WF_vars(WindowStep)
  /\ WF_vars(Tick) /\ WF_vars(CacheSync) /\ WF_vars(GarbageCollect)

FairSpec == Spec /\ Fairness

-------------------------------------------------------------------------------
(***************************************************************************)
(* Properties.                                                             *)
(***************************************************************************)

\* Whatever copies are stale and whatever calls fail, Eviction Guard never
\* leaves the capacity field below what the user had set: every restore goes
\* to a recorded baseline (plan.go, restoreOneAction), and every baseline
\* that is recorded anywhere was read when the field was at least that high.
NeverBelowUser == replicas >= UserReplicas

\* A window that maxWindow has force-cooled stays so until it is deleted: no
\* late status write of either reconciler (a copy read before the stamp)
\* takes the ForcedCool stamp off, so the webhook's fail-open is final.
ForcedCoolSticky ==
  [][win.exists /\ win.forcedCool /\ win'.exists => win'.forcedCool]_vars

\* The record of what was raised (Spec.Actions) is never dropped from a live
\* window: neither a promotion from a stale copy nor a deferral for want of
\* a maxConcurrentWindows slot erases the baseline that scale-back needs.
RecordedActionSurvives ==
  [][win.exists /\ win.action # NoAction /\ win'.exists
       => win'.action # NoAction]_vars

\* ScaleAction.Baseline is "this object's value before scale-up".
BaselineIsUserValue ==
  win.exists /\ win.action # NoAction => win.action = UserReplicas

\* Raised capacity always has a live window that will restore it: finalizer
\* on, the action recorded, and the cooldown not armed yet (a window whose
\* cooldown is armed is closed without a further restore).  Also across a
\* crash between any two API calls.
RaisedIsTracked ==
  target /\ replicas > UserReplicas =>
    /\ win.exists /\ win.finalizer
    /\ win.action # NoAction
    /\ win.until = NoTime

\* The window's life implements the capacity lease: the field is raised only
\* while the window records its action, goes down only to the user's value,
\* and neither a deferral, a close nor a deletion drops the action before.  A
\* Deployment that is gone counts as returned.
Lent == IF SkipDownscaling THEN {} ELSE {"replicas"}

Lease == INSTANCE CapacityLease WITH
           Fields <- Lent,
           User   <- [f \in Lent |-> UserReplicas],
           value  <- [f \in Lent |-> IF target THEN replicas ELSE UserReplicas],
           leased <- IF win.exists /\ win.action # NoAction THEN Lent ELSE {}

ImplementsLease == Lease!Spec

\* From the ForcedCool stamp on, the window's capacity is never raised again.
NoRaiseAfterForcedCool ==
  [][win.exists /\ win.forcedCool => replicas' <= replicas]_vars

\* No capacity is left raised once the window is gone and nobody is at work.
NoOrphanedScaleUp ==
  target /\ ~win.exists /\ pPc = "idle" /\ wPc = "idle" =>
    replicas = UserReplicas

\* Once the disruption is over, the window goes away and the capacity field
\* is back at the user's value, for good; unless somebody deletes the
\* Deployment, whose window is the subject of TargetGoneCloses.
CalmRestores ==
  <>~target \/ (calm ~> [](~win.exists /\ replicas = UserReplicas))

\* maxWindow is a fail-open: an existing window eventually is force-cooled,
\* closed or gone, whatever the cluster looks like in between.
MaxWindowFailsOpen ==
  win.exists ~> (~win.exists \/ win.forcedCool \/ win.phase = "Closed")

\* "ForcedCool is true when cooldown started because maxWindow elapsed, not
\* because nodes cleared": the stamp never lands on a window whose cooldown
\* is already armed.
ForcedCoolStartsCooldown ==
  [][win.exists /\ ~win.forcedCool /\ win'.exists /\ win'.forcedCool
       => win.until = NoTime]_vars

\* "Target Deployment deleted: restore remaining backends (e.g. HPA) and
\* close": the window of a deleted Deployment goes away.
TargetGoneCloses == ~target ~> ~win.exists
=============================================================================
