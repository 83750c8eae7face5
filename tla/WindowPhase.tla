------------------------------ MODULE WindowPhase ------------------------------
(***************************************************************************)
(* The EvictionGuardWindow object and the pure decisions taken on it:      *)
(* internal/controller/window_phase.go, internal/controller/maxwindow.go,  *)
(* pkg/capacity/replicas.go and IsActive of the API type.                  *)
(*                                                                         *)
(* Time.  The code only ever compares "timestamp + configured duration"    *)
(* with now, so a timestamp is kept as its distance from now: opened is    *)
(* the age of windowOpenedAt and saturates at MaxWindow, until is the time *)
(* left to WindowUntil and saturates at 0.  Age moves both by one tick.    *)
(* Nothing is lost and the clock needs no bound.                           *)
(***************************************************************************)
EXTENDS Integers

CONSTANTS
  MaxWindow,       \* policy.spec.maxWindow in ticks, 0 = unlimited
  ScaleBackAfter,  \* policy.spec.scaleBackAfter in ticks
  SpareReplicas,   \* policy.spec.spareReplicas
  MaxBuffer        \* policy.spec.maxBuffer, 0 = no cap

ASSUME PolicyAssumption ==
  /\ MaxWindow \in Nat
  /\ ScaleBackAfter \in Nat
  /\ SpareReplicas \in Nat
  /\ MaxBuffer \in Nat

NoTime == -1      \* a nil *metav1.Time
NoAction == -1    \* an empty Spec.Actions

Phases == {"", "Open", "Cooling", "Closed"}

(***************************************************************************)
(* One window object, or the absence of one.  action is the Baseline of    *)
(* the single ScaleAction in Spec.Actions, nodes says whether              *)
(* Spec.VulnerableNodes is non-empty, scaled whether Status.LastScaleTime  *)
(* is set.  opened is the age windowOpenedAt goes by: that of the creation *)
(* timestamp until LastScaleTime is first set, from then on that of        *)
(* LastScaleTime.                                                          *)
(***************************************************************************)
Window ==
  [exists: BOOLEAN, finalizer: BOOLEAN, deleting: BOOLEAN, deferred: BOOLEAN,
   action: Nat \cup {NoAction}, nodes: BOOLEAN, until: Nat \cup {NoTime},
   phase: Phases, opened: Nat, scaled: BOOLEAN, forcedCool: BOOLEAN]

NoWindow ==
  [exists |-> FALSE, finalizer |-> FALSE, deleting |-> FALSE,
   deferred |-> FALSE, action |-> NoAction, nodes |-> FALSE,
   until |-> NoTime, phase |-> "", opened |-> 0, scaled |-> FALSE,
   forcedCool |-> FALSE]

\* The object a Create sends: no status yet, created now, finalizer set.
NewWindow(action, deferred) ==
  [NoWindow EXCEPT !.exists = TRUE, !.finalizer = TRUE, !.nodes = TRUE,
                   !.action = action, !.deferred = deferred]

-------------------------------------------------------------------------------
\* The clock: one tick passes for a window.
Age(w) ==
  IF w.exists
  THEN [w EXCEPT !.opened = IF @ < MaxWindow THEN @ + 1 ELSE @,
                 !.until = IF @ > 0 THEN @ - 1 ELSE @]
  ELSE w

-------------------------------------------------------------------------------
IsActive(w) == w.phase \in {"", "Open", "Cooling"}

\* Mutant of maxWindowExceeded: the clock does not run before LastScaleTime
\* is set, so a window whose first status write was lost never expires.
maxWindowExceededNoFallback(w) ==
  MaxWindow > 0 /\ w.scaled /\ w.opened >= MaxWindow

maxWindowExceeded(w) == MaxWindow > 0 /\ w.opened >= MaxWindow

\* Mutant of holdMaxWindow: looks at Closed only, neither at the stamp nor at
\* the clock.
holdMaxWindowIgnoringStamp(w) == w.phase = "Closed"

holdMaxWindow(w) ==
  w.forcedCool \/ w.phase = "Closed" \/ maxWindowExceeded(w)

-------------------------------------------------------------------------------
\* Mutant of decideWindowStep: a cooldown that has run out starts over.
decideWindowStepRestart(w, liveAtRisk, safe, forceCool) ==
  IF ~forceCool /\ (liveAtRisk > 0 \/ ~safe) THEN "StayOpen"
  ELSE IF w.until > 0 THEN "StayCooling"
  ELSE "BeginScaleBack"

\* safe is SafeReady >= Baseline.  Both stay-open steps are one: they differ
\* in their message only.
decideWindowStep(w, liveAtRisk, safe, forceCool) ==
  IF ~forceCool /\ (liveAtRisk > 0 \/ ~safe) THEN "StayOpen"
  ELSE IF w.until = NoTime THEN "BeginScaleBack"
  ELSE IF w.until > 0 THEN "StayCooling"
  ELSE "Close"

Steps == {"StayOpen", "BeginScaleBack", "StayCooling", "Close"}

-------------------------------------------------------------------------------
\* Strategy A: baseline plus the larger of at-risk and spare, capped.
TargetReplicas(baseline, atRisk) ==
  LET floor == IF baseline < 0 THEN 0 ELSE baseline
      want  == IF SpareReplicas > atRisk THEN SpareReplicas ELSE atRisk
      extra == IF MaxBuffer > 0 /\ want > MaxBuffer THEN MaxBuffer ELSE want
  IN  floor + extra
=============================================================================
