------------------------------ MODULE WindowSlots ------------------------------
(***************************************************************************)
(* maxConcurrentWindows: one policy, several at-risk workloads and the     *)
(* slots they share (PolicyReconciler.Reconcile and countActiveWindows in  *)
(* internal/controller/policy_controller.go).                              *)
(*                                                                         *)
(* A policy reconcile counts the windows that hold a slot, then visits the *)
(* at-risk workloads in key order and opens a scaling window or, when the  *)
(* slots are taken, a deferred one.  The count and every window it looks   *)
(* at come from the informer cache.  A visit is one step, and so is a      *)
(* window reconcile: WindowLifecycle has the calls inside them.            *)
(***************************************************************************)
EXTENDS WindowPhase, FiniteSets

CONSTANTS
  Workloads,  \* a set of naturals: workload keys in their sort order
  WindowCap,  \* spec.maxConcurrentWindows
  Events      \* which of these may happen: "lag" (the cache is behind),
              \* "applyFails" (a capacity patch is refused)

ASSUME SlotsAssumption ==
  /\ Workloads \subseteq Nat /\ IsFiniteSet(Workloads)
  /\ WindowCap \in Nat
  /\ Events \subseteq {"lag", "applyFails"}

VARIABLES
  win,      \* every workload's window on the API server
  cache,    \* the informer's copies
  atRisk,   \* workloads with pods on signalling nodes
  raised,   \* workloads whose capacity field is above its baseline
  running,  \* a policy reconcile is in progress
  todo,     \* workloads it has still to visit
  active,   \* its count of the slots taken
  taken     \* history: slots really taken, before it and by it

vars == <<win, cache, atRisk, raised, running, todo, active, taken>>

SlotWindow ==
  [exists: BOOLEAN, deferred: BOOLEAN, phase: Phases, opened: Nat,
   until: Nat \cup {NoTime}, forcedCool: BOOLEAN]

None ==
  [exists |-> FALSE, deferred |-> FALSE, phase |-> "", opened |-> 0,
   until |-> NoTime, forcedCool |-> FALSE]

TypeOK ==
  /\ win \in [Workloads -> SlotWindow] /\ cache \in [Workloads -> SlotWindow]
  /\ atRisk \subseteq Workloads /\ raised \subseteq Workloads
  /\ running \in BOOLEAN
  /\ todo \subseteq Workloads
  /\ active \in 0 .. 2 * Cardinality(Workloads) /\ taken \in Nat

Init ==
  /\ win = [w \in Workloads |-> None] /\ cache = win
  /\ atRisk = {} /\ raised = {}
  /\ running = FALSE /\ todo = {} /\ active = 0 /\ taken = 0

\* Mutant of HoldsSlot: a window that cools down gives its slot back.
HoldsSlotOpenOnly(w) == w.exists /\ w.phase \in {"", "Open"} /\ ~w.deferred

\* What countActiveWindows counts.
HoldsSlot(w) == w.exists /\ IsActive(w) /\ ~w.deferred

Slots(ws) == {k \in Workloads : HoldsSlot(ws[k])}

\* The cache follows the API server at once unless it may lag.
Write(ws) ==
  /\ win' = ws
  /\ cache' = IF "lag" \in Events THEN cache ELSE ws

-------------------------------------------------------------------------------
(***************************************************************************)
(* The policy reconciler.                                                  *)
(***************************************************************************)

\* Reconcile up to the loop: collectWorkloads, countActiveWindows.
StartReconcile ==
  /\ ~running
  /\ running' = TRUE /\ todo' = atRisk
  /\ active' = Cardinality(Slots(cache)) /\ taken' = Cardinality(Slots(win))
  /\ UNCHANGED <<win, cache, atRisk, raised>>

Waiting(k) == ~(cache[k].exists /\ IsActive(cache[k])) \/ cache[k].deferred

\* ensureWindow or ensureDeferredWindow gives up on the window of k.
Held(k) == cache[k].exists /\ holdMaxWindow(cache[k])

\* The window after a Create, or after a Patch, which sends what differs from
\* the cached copy only, and the status write.
Opened(k, deferred) ==
  IF win[k].exists
  THEN [win[k] EXCEPT
          !.deferred = IF cache[k].deferred # deferred THEN deferred ELSE @,
          !.until = IF cache[k].until # NoTime THEN NoTime ELSE @,
          !.phase = "Open"]
  ELSE [None EXCEPT !.exists = TRUE, !.deferred = deferred, !.phase = "Open"]

\* The Create finds an object, or the Patch finds none.
WriteRefused(k) == cache[k].exists # win[k].exists

\* ensureDeferredWindow.
Defer(k) ==
  /\ IF Held(k) \/ WriteRefused(k)
     THEN UNCHANGED <<win, cache>>
     ELSE Write([win EXCEPT ![k] = Opened(k, TRUE)])
  /\ UNCHANGED <<raised, active, taken>>

\* Mutant of CountAfter: a window that is held gives a slot back, also if it
\* had none.
CountAfterReleasing(k) ==
  IF Held(k) THEN active - 1 ELSE IF Waiting(k) THEN active + 1 ELSE active

\* Mutant of CountAfter: a workload that gets a slot is not counted.
CountAfterUncounted(k) == active

\* The count after ensureWindow returned without an error.
CountAfter(k) == IF Waiting(k) THEN active + 1 ELSE active

\* ensureWindow.  A refused capacity patch is returned as an error after the
\* window has been written.
Ensure(k) ==
  \/ /\ Held(k)
     /\ active' = CountAfter(k)
     /\ UNCHANGED <<win, cache, raised, taken>>
  \/ /\ ~Held(k) /\ WriteRefused(k)
     /\ UNCHANGED <<win, cache, raised, active, taken>>
  \/ /\ ~Held(k) /\ ~WriteRefused(k)
     /\ Write([win EXCEPT ![k] = Opened(k, FALSE)])
     /\ taken' = IF HoldsSlot(win[k]) THEN taken ELSE taken + 1
     /\ \/ raised' = raised \cup {k} /\ active' = CountAfter(k)
        \/ "applyFails" \in Events /\ UNCHANGED <<raised, active>>

\* Mutant of Remaining: a workload that could not be raised ends the loop.
RemainingUntilError(k) == IF k \in raised' THEN todo \ {k} ELSE {}

\* An error is noted and the loop goes on.
Remaining(k) == todo \ {k}

\* One turn of Reconcile's loop, in key order.
Visit(k) ==
  /\ running /\ k \in todo /\ \A j \in todo : k <= j
  /\ IF Waiting(k) /\ WindowCap > 0 /\ active >= WindowCap
     THEN Defer(k) ELSE Ensure(k)
  /\ todo' = Remaining(k)
  /\ UNCHANGED <<atRisk, running>>

EndReconcile ==
  /\ running /\ todo = {}
  /\ running' = FALSE /\ active' = 0 /\ taken' = 0
  /\ UNCHANGED <<win, cache, atRisk, raised, todo>>

-------------------------------------------------------------------------------
(***************************************************************************)
(* The window reconciler, the cluster, the clock and the informer.         *)
(***************************************************************************)

\* The window of k after a reconcile that decided on step.
Stepped(k, step) ==
  LET forced == win[k].forcedCool \/ maxWindowExceeded(win[k])
  IN  IF step = "Close" /\ ~forced THEN None
      ELSE [win[k] EXCEPT
              !.forcedCool = forced,
              !.until = CASE step = "StayOpen"       -> NoTime
                          [] step = "BeginScaleBack" -> ScaleBackAfter
                          [] OTHER                   -> @,
              !.phase = CASE step = "StayOpen" -> "Open"
                          [] step = "Close"    -> "Closed"
                          [] OTHER             -> "Cooling"]

\* A deferred window has no actions: its scale-back restores nothing.  A
\* tombstone goes when none of the nodes it has recorded signals any more,
\* which may be at any moment, whether or not k has pods at risk on others.
WindowReconcile(k, safe) ==
  /\ win[k].exists
  /\ IF win[k].phase = "Closed" /\ win[k].forcedCool
     THEN /\ Write([win EXCEPT ![k] = None])
          /\ UNCHANGED raised
     ELSE LET step == decideWindowStep(win[k], IF k \in atRisk THEN 1 ELSE 0, safe,
                                       maxWindowExceeded(win[k]))
          IN  /\ Write([win EXCEPT ![k] = Stepped(k, step)])
              /\ raised' = IF step = "BeginScaleBack" /\ ~win[k].deferred
                           THEN raised \ {k} ELSE raised
  /\ UNCHANGED <<atRisk, running, todo, active, taken>>

\* A workload's nodes start to signal, or it has no pods on them any more.
RiskChanges(k) ==
  /\ atRisk' = IF k \in atRisk THEN atRisk \ {k} ELSE atRisk \cup {k}
  /\ UNCHANGED <<win, cache, raised, running, todo, active, taken>>

Tick ==
  /\ win' = [k \in Workloads |-> Age(win[k])]
  /\ cache' = [k \in Workloads |-> Age(cache[k])]
  /\ UNCHANGED <<atRisk, raised, running, todo, active, taken>>

CacheSync(k) ==
  /\ cache[k] # win[k]
  /\ cache' = [cache EXCEPT ![k] = win[k]]
  /\ UNCHANGED <<win, atRisk, raised, running, todo, active, taken>>

-------------------------------------------------------------------------------
PolicyStep == StartReconcile \/ (\E k \in Workloads : Visit(k)) \/ EndReconcile

WindowStep(k) == \E safe \in BOOLEAN : WindowReconcile(k, safe)

Next ==
  \/ PolicyStep
  \/ \E k \in Workloads : WindowStep(k) \/ RiskChanges(k) \/ CacheSync(k)
  \/ Tick

Spec == Init /\ [][Next]_vars

\* Node, pod and window events, the 15s requeue of a reconcile that deferred
\* or failed and the error retries bring the policy reconcile round again;
\* its loop ends; watches deliver.
FairSpec ==
  /\ Spec
  /\ WF_vars(PolicyStep)
  /\ \A k \in Workloads : WF_vars(CacheSync(k))

-------------------------------------------------------------------------------
(***************************************************************************)
(* Properties.                                                             *)
(***************************************************************************)

\* "Cap non-deferred Open/Cooling windows": through promotions, demotions,
\* cooldowns and reopenings no more windows than maxConcurrentWindows hold a
\* slot, although the count is taken once, before the loop.
CapRespected == WindowCap > 0 => Cardinality(Slots(win)) <= WindowCap

\* What the cap is for: no more workloads than that have raised capacity.
RaisedWithinCap == WindowCap > 0 => Cardinality(raised) <= WindowCap

\* The deferred label is put on windows "opened while maxConcurrentWindows is
\* saturated": a workload is deferred only in a reconcile in which the slots
\* really were taken.
DeferredOnlyWhenSaturated ==
  [][\A k \in Workloads :
       ~win[k].deferred /\ win'[k].deferred => taken >= WindowCap]_vars

\* Every at-risk workload gets a window, and with it the maxWindow clock,
\* however often the patches of the workloads before it fail.
EveryWorkloadGetsWindow ==
  \A k \in Workloads : k \in atRisk ~> (win[k].exists \/ k \notin atRisk)
=============================================================================
