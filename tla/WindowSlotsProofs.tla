--------------------------- MODULE WindowSlotsProofs ---------------------------
(***************************************************************************)
(* Theorems about WindowSlots, for every set of workloads, every cap and   *)
(* every maxWindow and cooldown.                                           *)
(***************************************************************************)
EXTENDS WindowSlots, FiniteSetTheorems, TLAPS

USE PolicyAssumption, SlotsAssumption

-------------------------------------------------------------------------------
(***************************************************************************)
(* What the helpers of the model return.                                   *)
(***************************************************************************)

\* The absent window is of the right type and holds no slot.
LEMMA NoneType == None \in SlotWindow /\ ~HoldsSlot(None)
  BY DEF None, SlotWindow, HoldsSlot, NoTime, Phases

\* A tick of the clock yields a window, and moves nothing but its clocks.
LEMMA AgeFacts ==
  ASSUME NEW w \in SlotWindow
  PROVE  /\ Age(w) \in SlotWindow
         /\ Age(w).exists = w.exists /\ Age(w).deferred = w.deferred
         /\ Age(w).phase = w.phase /\ Age(w).forcedCool = w.forcedCool
         /\ w.until = NoTime => Age(w).until = NoTime
<1> DEFINE o == IF w.opened < MaxWindow THEN w.opened + 1 ELSE w.opened
           u == IF w.until > 0 THEN w.until - 1 ELSE w.until
<1>1. w.opened \in Nat /\ w.until \in Nat \cup {NoTime}
  BY DEF SlotWindow
<1>2. o \in Nat /\ u \in Nat \cup {NoTime} /\ (w.until = NoTime => u = NoTime)
  BY <1>1 DEF NoTime
<1> HIDE DEF o, u
<1> DEFINE v == [w EXCEPT !.opened = o, !.until = u]
<1>3. /\ v \in SlotWindow
      /\ v.exists = w.exists /\ v.deferred = w.deferred
      /\ v.phase = w.phase /\ v.forcedCool = w.forcedCool /\ v.until = u
  BY <1>2 DEF SlotWindow
<1>4. Age(w) = IF w.exists THEN v ELSE w
  BY DEF Age, o, u
<1>5. QED
  BY <1>2, <1>3, <1>4

\* What ensureWindow and ensureDeferredWindow write: an open window, with the
\* label and without a cooldown as intended if the copy was current.
LEMMA OpenedFacts ==
  ASSUME win \in [Workloads -> SlotWindow], NEW k \in Workloads, NEW d \in BOOLEAN
  PROVE  /\ Opened(k, d) \in SlotWindow
         /\ Opened(k, d).exists /\ Opened(k, d).phase = "Open"
         /\ cache = win => Opened(k, d).deferred = d /\ Opened(k, d).until = NoTime
<1> DEFINE w == win[k]
           l == IF cache[k].deferred # d THEN d ELSE w.deferred
           u == IF cache[k].until # NoTime THEN NoTime ELSE w.until
<1>1. w \in SlotWindow
  OBVIOUS
<1>2. CASE w.exists
  <2>1. /\ l \in BOOLEAN /\ u \in Nat \cup {NoTime}
        /\ cache = win => l = d /\ u = NoTime
    BY <1>1 DEF SlotWindow
  <2>2. Opened(k, d) = [w EXCEPT !.deferred = l, !.until = u, !.phase = "Open"]
    BY <1>2 DEF Opened
  <2> HIDE DEF w, l, u
  <2>3. QED
    BY <1>1, <1>2, <2>1, <2>2 DEF SlotWindow, Phases
<1>3. CASE ~w.exists
  <2>1. Opened(k, d) = [None EXCEPT !.exists = TRUE, !.deferred = d, !.phase = "Open"]
    BY <1>3 DEF Opened
  <2>2. None \in SlotWindow /\ None.until = NoTime
    BY NoneType DEF None
  <2>3. QED
    BY <2>1, <2>2 DEF SlotWindow, Phases
<1>4. QED
  BY <1>2, <1>3

\* What a window reconcile writes: it never takes a slot that was not held.
LEMMA SteppedFacts ==
  ASSUME win \in [Workloads -> SlotWindow], NEW k \in Workloads, NEW step \in Steps
  PROVE  /\ Stepped(k, step) \in SlotWindow
         /\ Stepped(k, step).exists => /\ win[k].exists
                                       /\ Stepped(k, step).deferred = win[k].deferred
         /\ Stepped(k, step).exists /\ Stepped(k, step).phase = "Closed"
              => Stepped(k, step).forcedCool
         /\ step = "StayOpen" /\ win[k].exists
              => Stepped(k, step).exists /\ Stepped(k, step).phase = "Open"
                 /\ Stepped(k, step).until = NoTime
<1> DEFINE w == win[k]
           f == w.forcedCool \/ maxWindowExceeded(w)
           u == CASE step = "StayOpen"       -> NoTime
                  [] step = "BeginScaleBack" -> ScaleBackAfter
                  [] OTHER                   -> w.until
           p == CASE step = "StayOpen" -> "Open"
                  [] step = "Close"    -> "Closed"
                  [] OTHER             -> "Cooling"
           v == [w EXCEPT !.forcedCool = f, !.until = u, !.phase = p]
<1>1. w \in SlotWindow /\ w.forcedCool \in BOOLEAN /\ w.until \in Nat \cup {NoTime}
  BY DEF SlotWindow
<1>2. f \in BOOLEAN
  BY <1>1 DEF maxWindowExceeded
<1>3. u \in Nat \cup {NoTime} /\ (step = "StayOpen" => u = NoTime)
  BY <1>1
<1>4. /\ p \in Phases /\ (step = "StayOpen" => p = "Open")
      /\ p = "Closed" => step = "Close"
  BY DEF Phases
<1>5. Stepped(k, step) = IF step = "Close" /\ ~f THEN None ELSE v
  BY DEF Stepped
<1> HIDE DEF w, f, u, p
<1>6. /\ v \in SlotWindow /\ v.exists = w.exists /\ v.deferred = w.deferred
      /\ v.forcedCool = f /\ v.until = u /\ v.phase = p
  BY <1>1, <1>2, <1>3, <1>4 DEF SlotWindow
<1> HIDE DEF v
<1>7. ~None.exists
  BY DEF None
<1>8. QED
  BY <1>3, <1>4, <1>5, <1>6, <1>7, NoneType DEF w

\* decideWindowStep returns one of its steps; a window whose cooldown is not
\* armed stays open or begins its scale-back.
LEMMA DecideFacts ==
  ASSUME NEW w, NEW r, NEW safe, NEW forceCool
  PROVE  /\ decideWindowStep(w, r, safe, forceCool) \in Steps
         /\ w.until = NoTime => decideWindowStep(w, r, safe, forceCool)
                                  \in {"StayOpen", "BeginScaleBack"}
  BY DEF decideWindowStep, Steps

\* A set of workloads has a cardinality, at most the number of workloads.
LEMMA Counts ==
  ASSUME NEW S \in SUBSET Workloads
  PROVE  /\ IsFiniteSet(S) /\ Cardinality(S) \in Nat
         /\ Cardinality(Workloads) \in Nat /\ Cardinality(S) <= Cardinality(Workloads)
<1>1. IsFiniteSet(S) /\ Cardinality(S) <= Cardinality(Workloads)
  BY FS_Subset
<1>2. Cardinality(S) \in Nat /\ Cardinality(Workloads) \in Nat
  BY <1>1, FS_CardinalityType
<1>3. QED
  BY <1>1, <1>2

-------------------------------------------------------------------------------
(***************************************************************************)
(* Type correctness.  The bound on the counter needs to know how many      *)
(* workloads the loop has still to visit.                                  *)
(***************************************************************************)
Basic ==
  /\ win \in [Workloads -> SlotWindow] /\ cache \in [Workloads -> SlotWindow]
  /\ atRisk \subseteq Workloads /\ raised \subseteq Workloads
  /\ running \in BOOLEAN
  /\ todo \subseteq Workloads
  /\ active \in Nat /\ taken \in Nat

CountBounded == active + Cardinality(todo) <= 2 * Cardinality(Workloads)

LEMMA WriteType ==
  ASSUME Basic, NEW k \in Workloads, NEW w \in SlotWindow, Write([win EXCEPT ![k] = w])
  PROVE  win' \in [Workloads -> SlotWindow] /\ cache' \in [Workloads -> SlotWindow]
  BY DEF Basic, Write

\* One turn of the loop: types, and the counter goes up by one at most.
LEMMA VisitType ==
  ASSUME Basic, NEW k \in Workloads, Visit(k)
  PROVE  Basic' /\ active' \in {active, active + 1}
<1>1. Opened(k, TRUE) \in SlotWindow /\ Opened(k, FALSE) \in SlotWindow
  BY OpenedFacts DEF Basic
<1>2. todo' \subseteq Workloads /\ atRisk' \subseteq Workloads /\ running' \in BOOLEAN
  BY DEF Basic, Visit, Remaining
<1>3. CASE Defer(k)
  <2>1. win' \in [Workloads -> SlotWindow] /\ cache' \in [Workloads -> SlotWindow]
    <3>1. CASE Held(k) \/ WriteRefused(k)
      BY <1>3, <3>1 DEF Defer, Basic
    <3>2. CASE ~(Held(k) \/ WriteRefused(k))
      BY <1>1, <1>3, <3>2, WriteType DEF Defer
    <3>3. QED
      BY <3>1, <3>2
  <2>2. QED
    BY <1>2, <1>3, <2>1 DEF Defer, Basic
<1>4. CASE Ensure(k)
  <2>1. CountAfter(k) \in {active, active + 1}
    BY DEF CountAfter
  <2>2. win' \in [Workloads -> SlotWindow] /\ cache' \in [Workloads -> SlotWindow]
    <3>1. CASE UNCHANGED <<win, cache>>
      BY <3>1 DEF Basic
    <3>2. CASE Write([win EXCEPT ![k] = Opened(k, FALSE)])
      BY <1>1, <3>2, WriteType
    <3>3. QED
      BY <1>4, <3>1, <3>2 DEF Ensure
  <2>3. /\ active' \in {active, active + 1} /\ taken' \in {taken, taken + 1}
        /\ raised' \in {raised, raised \cup {k}}
    BY <1>4, <2>1 DEF Ensure
  <2>4. QED
    BY <1>2, <2>2, <2>3 DEF Basic
<1>5. QED
  BY <1>3, <1>4 DEF Visit

LEMMA WindowReconcileType ==
  ASSUME Basic, NEW k \in Workloads, NEW safe \in BOOLEAN, WindowReconcile(k, safe)
  PROVE  Basic'
<1> DEFINE step == decideWindowStep(win[k], IF k \in atRisk THEN 1 ELSE 0, safe,
                                    maxWindowExceeded(win[k]))
<1>1. step \in Steps
  BY DecideFacts
<1>2. Stepped(k, step) \in SlotWindow /\ None \in SlotWindow
  BY <1>1, SteppedFacts, NoneType DEF Basic
<1>3. /\ Write([win EXCEPT ![k] = None]) \/ Write([win EXCEPT ![k] = Stepped(k, step)])
      /\ raised' \in {raised, raised \ {k}}
  BY DEF WindowReconcile
<1> HIDE DEF step
<1>4. win' \in [Workloads -> SlotWindow] /\ cache' \in [Workloads -> SlotWindow]
  BY <1>2, <1>3, WriteType
<1>5. QED
  BY <1>3, <1>4 DEF Basic, WindowReconcile

\* Basic and CountBounded say what TypeOK says.
LEMMA BasicIsType == Basic /\ CountBounded => TypeOK
<1>1. Basic => Cardinality(Workloads) \in Nat /\ Cardinality(todo) \in Nat
  BY Counts DEF Basic
<1>2. QED
  BY <1>1 DEF Basic, CountBounded, TypeOK

\* The initial state is well typed.
LEMMA TypeInit == Init => Basic /\ CountBounded /\ TypeOK
<1> SUFFICES ASSUME Init PROVE Basic /\ CountBounded
  BY BasicIsType
<1>1. Cardinality({}) = 0 /\ Cardinality(Workloads) \in Nat
  BY FS_EmptySet, Counts
<1>2. win \in [Workloads -> SlotWindow] /\ cache = win
  BY NoneType DEF Init
<1>3. Basic
  BY <1>2 DEF Init, Basic
<1>4. CountBounded
  BY <1>1 DEF Init, CountBounded
<1>5. QED
  BY <1>3, <1>4

\* Every reachable state of the slot accounting is well typed; the counter of
\* a reconcile never exceeds twice the number of workloads.
THEOREM TypeCorrect == Spec => []TypeOK
<1>1. Basic /\ CountBounded /\ [Next]_vars => (Basic /\ CountBounded)'
  <2> SUFFICES ASSUME Basic, CountBounded, [Next]_vars
               PROVE  Basic' /\ CountBounded'
    OBVIOUS
  <2>1. Cardinality(Workloads) \in Nat /\ Cardinality(todo) \in Nat
    BY Counts DEF Basic
  <2>2. CASE StartReconcile
    <3>1. /\ Cardinality(Slots(cache)) \in Nat /\ Cardinality(Slots(win)) \in Nat
          /\ Cardinality(Slots(cache)) <= Cardinality(Workloads)
          /\ Cardinality(atRisk) \in Nat /\ Cardinality(atRisk) <= Cardinality(Workloads)
      BY Counts DEF Basic, Slots
    <3>2. QED
      BY <2>1, <2>2, <3>1 DEF StartReconcile, Basic, CountBounded
  <2>3. ASSUME NEW k \in Workloads, Visit(k)
        PROVE  Basic' /\ CountBounded'
    <3>1. Basic' /\ active' \in {active, active + 1}
      BY <2>3, VisitType
    <3>2. Cardinality(todo') = Cardinality(todo) - 1
      BY <2>3, Counts, FS_RemoveElement DEF Visit, Remaining, Basic
    <3>3. QED
      BY <2>1, <3>1, <3>2 DEF CountBounded, Basic
  <2>4. CASE EndReconcile
    <3>1. Basic'
      BY <2>4 DEF EndReconcile, Basic
    <3>2. active \in Nat /\ active' = 0 /\ todo' = todo
      BY <2>4 DEF EndReconcile, Basic
    <3>3. QED
      BY <2>1, <3>1, <3>2 DEF CountBounded
  <2>5. ASSUME NEW k \in Workloads, NEW safe \in BOOLEAN, WindowReconcile(k, safe)
        PROVE  Basic' /\ CountBounded'
    BY <2>5, WindowReconcileType DEF WindowReconcile, CountBounded
  <2>6. ASSUME NEW k \in Workloads, RiskChanges(k) \/ CacheSync(k)
        PROVE  Basic' /\ CountBounded'
    BY <2>6 DEF RiskChanges, CacheSync, Basic, CountBounded
  <2>7. CASE Tick
    BY <2>7, AgeFacts DEF Tick, Basic, CountBounded
  <2>8. CASE UNCHANGED vars
    BY <2>8 DEF vars, Basic, CountBounded
  <2>9. QED
    BY <2>2, <2>3, <2>4, <2>5, <2>6, <2>7, <2>8 DEF Next, PolicyStep, WindowStep
<1>2. QED
  BY <1>1, TypeInit, BasicIsType, PTL DEF Spec

-------------------------------------------------------------------------------
(***************************************************************************)
(* The cap, on a cache that is current and with patches that go through    *)
(* (Events = {}).  The loop's count is an upper bound of the slots taken   *)
(* at any moment of it: windows that close meanwhile only make it larger   *)
(* than it need be, and no window reconcile takes a slot, since the only   *)
(* inactive windows are tombstones, which are deleted and never reopened.  *)
(***************************************************************************)
OnlyTombstonesClosed ==
  \A k \in Workloads : win[k].exists /\ win[k].phase = "Closed" => win[k].forcedCool

CountCovers == running => Cardinality(Slots(win)) <= active

\* A workload is raised only while its window holds a slot and no cooldown of
\* it is armed.
RaisedHolds == \A k \in raised : HoldsSlot(win[k]) /\ win[k].until = NoTime

SlotsInv ==
  /\ TypeOK /\ cache = win
  /\ OnlyTombstonesClosed /\ CountCovers /\ RaisedHolds /\ CapRespected

\* Adding an element to a finite set, or taking one out.
LEMMA CountStep ==
  ASSUME NEW S, IsFiniteSet(S), NEW k
  PROVE  /\ Cardinality(S) \in Nat
         /\ Cardinality(S \cup {k}) <= Cardinality(S) + 1
         /\ k \in S => Cardinality(S \cup {k}) = Cardinality(S)
         /\ Cardinality(S \ {k}) <= Cardinality(S)
<1>1. Cardinality(S) \in Nat
  BY FS_CardinalityType
<1>2. Cardinality(S \cup {k}) = IF k \in S THEN Cardinality(S) ELSE Cardinality(S) + 1
  BY FS_AddElement
<1>3. Cardinality(S \ {k}) = IF k \in S THEN Cardinality(S) - 1 ELSE Cardinality(S)
  BY FS_RemoveElement
<1>4. QED
  BY <1>1, <1>2, <1>3

\* Replacing the window of one workload changes the count of slots by one at
\* most, in the direction in which that workload's own slot changes.
LEMMA SlotsAfterWrite ==
  ASSUME win \in [Workloads -> SlotWindow], NEW k \in Workloads, NEW w \in SlotWindow,
         win' = [win EXCEPT ![k] = w]
  PROVE  /\ Cardinality(Slots(win)) \in Nat /\ Cardinality(Slots(win')) \in Nat
         /\ Cardinality(Slots(win')) <= Cardinality(Slots(win)) + 1
         /\ (HoldsSlot(w) => HoldsSlot(win[k]))
              => Cardinality(Slots(win')) <= Cardinality(Slots(win))
<1> DEFINE S == Slots(win)
           T == Slots(win')
<1>1. IsFiniteSet(S) /\ Cardinality(S) \in Nat /\ Cardinality(T) \in Nat
  BY Counts DEF Slots
<1>2. HoldsSlot(w) => T = S \cup {k}
  BY DEF Slots
<1>3. ~HoldsSlot(w) => T = S \ {k}
  BY DEF Slots
<1>4. HoldsSlot(win[k]) => k \in S
  BY DEF Slots
<1> HIDE DEF S, T
<1>5. QED
  <2>1. CASE HoldsSlot(w)
    <3>1. T = S \cup {k}
      BY <1>2, <2>1
    <3>2. /\ Cardinality(T) <= Cardinality(S) + 1
          /\ k \in S => Cardinality(T) = Cardinality(S)
      BY <1>1, <3>1, CountStep
    <3>3. QED
      BY <1>1, <1>4, <2>1, <3>2 DEF S, T
  <2>2. CASE ~HoldsSlot(w)
    <3>1. Cardinality(T) <= Cardinality(S)
      BY <1>1, <1>3, <2>2, CountStep
    <3>2. QED
      BY <1>1, <3>1 DEF S, T
  <2>3. QED
    BY <2>1, <2>2

\* A turn of the loop keeps the invariant: a slot is given only below the cap,
\* and counted.
LEMMA VisitInv ==
  ASSUME Events = {}, SlotsInv, NEW k \in Workloads, Visit(k)
  PROVE  /\ cache' = win'
         /\ OnlyTombstonesClosed' /\ CountCovers' /\ RaisedHolds' /\ CapRespected'
<1>1. /\ win \in [Workloads -> SlotWindow] /\ cache = win /\ active \in Nat
      /\ raised \subseteq Workloads /\ running /\ running' = running
  BY DEF SlotsInv, TypeOK, Visit
<1>2. Waiting(k) <=> ~HoldsSlot(win[k])
  BY <1>1 DEF Waiting, HoldsSlot
<1>3. Cardinality(Slots(win)) \in Nat /\ Cardinality(Slots(win)) <= active
  BY <1>1, Counts DEF SlotsInv, CountCovers, Slots
<1>4. ASSUME UNCHANGED <<win, cache, raised>>, active' \in {active, active + 1}
      PROVE  /\ cache' = win'
             /\ OnlyTombstonesClosed' /\ CountCovers' /\ RaisedHolds' /\ CapRespected'
  <2>1. Slots(win') = Slots(win)
    BY <1>4
  <2>2. CountCovers'
    BY <1>1, <1>3, <1>4, <2>1 DEF CountCovers
  <2>3. QED
    BY <1>4, <2>1, <2>2
      DEF SlotsInv, OnlyTombstonesClosed, RaisedHolds, CapRespected
<1>5. ASSUME NEW d \in BOOLEAN, Write([win EXCEPT ![k] = Opened(k, d)])
      PROVE  /\ win' = [win EXCEPT ![k] = Opened(k, d)] /\ cache' = win'
             /\ Opened(k, d) \in SlotWindow
             /\ HoldsSlot(Opened(k, d)) <=> ~d
             /\ OnlyTombstonesClosed'
  <2>1. win' = [win EXCEPT ![k] = Opened(k, d)] /\ cache' = win'
    BY <1>5 DEF Write
  <2>2. /\ Opened(k, d) \in SlotWindow /\ Opened(k, d).phase = "Open"
        /\ HoldsSlot(Opened(k, d)) <=> ~d
    BY <1>1, OpenedFacts DEF HoldsSlot, IsActive
  <2>3. OnlyTombstonesClosed'
    BY <1>1, <2>1, <2>2 DEF SlotsInv, OnlyTombstonesClosed
  <2>4. QED
    BY <2>1, <2>2, <2>3
<1>6. CASE Waiting(k) /\ WindowCap > 0 /\ active >= WindowCap
  <2>1. Defer(k)
    BY <1>6 DEF Visit
  <2>2. CASE Held(k) \/ WriteRefused(k)
    BY <1>4, <2>1, <2>2 DEF Defer
  <2>3. CASE ~(Held(k) \/ WriteRefused(k))
    <3>1. Write([win EXCEPT ![k] = Opened(k, TRUE)]) /\ UNCHANGED <<raised, active>>
      BY <2>1, <2>3 DEF Defer
    <3>2. /\ win' = [win EXCEPT ![k] = Opened(k, TRUE)] /\ cache' = win'
          /\ Opened(k, TRUE) \in SlotWindow /\ ~HoldsSlot(Opened(k, TRUE))
          /\ OnlyTombstonesClosed'
      BY <1>5, <3>1
    <3>3. /\ Cardinality(Slots(win')) \in Nat
          /\ Cardinality(Slots(win')) <= Cardinality(Slots(win))
      BY <1>1, <3>2, SlotsAfterWrite
    <3>4. k \notin raised
      BY <1>2, <1>6 DEF SlotsInv, RaisedHolds
    <3>5. RaisedHolds'
      BY <1>1, <3>1, <3>2, <3>4 DEF SlotsInv, RaisedHolds
    <3>6. CountCovers' /\ CapRespected'
      BY <1>1, <1>3, <3>1, <3>3 DEF SlotsInv, CountCovers, CapRespected
    <3>7. QED
      BY <3>2, <3>5, <3>6
  <2>4. QED
    BY <2>2, <2>3
<1>7. CASE ~(Waiting(k) /\ WindowCap > 0 /\ active >= WindowCap)
  <2>1. Ensure(k)
    BY <1>7 DEF Visit
  <2>2. CountAfter(k) = IF HoldsSlot(win[k]) THEN active ELSE active + 1
    BY <1>2 DEF CountAfter
  <2>3. CASE UNCHANGED <<win, cache, raised>>
    BY <1>4, <2>1, <2>2, <2>3 DEF Ensure
  <2>4. CASE /\ Write([win EXCEPT ![k] = Opened(k, FALSE)])
             /\ raised' = raised \cup {k} /\ active' = CountAfter(k)
    <3>1. /\ win' = [win EXCEPT ![k] = Opened(k, FALSE)] /\ cache' = win'
          /\ Opened(k, FALSE) \in SlotWindow /\ HoldsSlot(Opened(k, FALSE))
          /\ Opened(k, FALSE).until = NoTime /\ OnlyTombstonesClosed'
      BY <1>1, <1>5, <2>4, OpenedFacts
    <3>2. RaisedHolds'
      BY <1>1, <2>4, <3>1 DEF SlotsInv, RaisedHolds
    <3>3. /\ Cardinality(Slots(win')) \in Nat
          /\ Cardinality(Slots(win')) <= Cardinality(Slots(win)) + 1
          /\ HoldsSlot(win[k]) => Cardinality(Slots(win')) <= Cardinality(Slots(win))
      BY <1>1, <3>1, SlotsAfterWrite
    <3>4. CountCovers'
      BY <1>1, <1>3, <2>2, <2>4, <3>3 DEF CountCovers
    <3>5. CapRespected'
      <4>1. CASE HoldsSlot(win[k])
        BY <1>3, <3>3, <4>1 DEF SlotsInv, CapRespected
      <4>2. CASE ~HoldsSlot(win[k])
        BY <1>1, <1>2, <1>3, <1>7, <3>3, <4>2 DEF CapRespected
      <4>3. QED
        BY <4>1, <4>2
    <3>6. QED
      BY <3>1, <3>2, <3>4, <3>5
  <2>5. QED
    BY <2>1, <2>3, <2>4 DEF Ensure
<1>8. QED
  BY <1>6, <1>7

\* A window reconcile keeps the invariant: it may give a slot back, and it
\* takes none.
LEMMA WindowReconcileInv ==
  ASSUME Events = {}, SlotsInv, NEW k \in Workloads, NEW safe \in BOOLEAN,
         WindowReconcile(k, safe)
  PROVE  /\ cache' = win'
         /\ OnlyTombstonesClosed' /\ CountCovers' /\ RaisedHolds' /\ CapRespected'
<1> DEFINE step == decideWindowStep(win[k], IF k \in atRisk THEN 1 ELSE 0, safe,
                                    maxWindowExceeded(win[k]))
<1>1. /\ win \in [Workloads -> SlotWindow] /\ cache = win /\ active \in Nat
      /\ raised \subseteq Workloads /\ win[k].exists
      /\ running' = running /\ active' = active
  BY DEF SlotsInv, TypeOK, WindowReconcile
<1>2. Cardinality(Slots(win)) \in Nat
  BY Counts DEF Slots
<1>3. ASSUME NEW w \in SlotWindow, Write([win EXCEPT ![k] = w]),
             HoldsSlot(w) => HoldsSlot(win[k]),
             w.exists /\ w.phase = "Closed" => w.forcedCool,
             raised' \subseteq raised,
             k \in raised' => HoldsSlot(w) /\ w.until = NoTime
      PROVE  /\ cache' = win'
             /\ OnlyTombstonesClosed' /\ CountCovers' /\ RaisedHolds' /\ CapRespected'
  <2>1. win' = [win EXCEPT ![k] = w] /\ cache' = win'
    BY <1>3 DEF Write
  <2>2. /\ Cardinality(Slots(win')) \in Nat
        /\ Cardinality(Slots(win')) <= Cardinality(Slots(win))
    BY <1>1, <1>3, <2>1, SlotsAfterWrite
  <2>3. OnlyTombstonesClosed' /\ RaisedHolds'
    BY <1>1, <1>3, <2>1 DEF SlotsInv, OnlyTombstonesClosed, RaisedHolds
  <2>4. CountCovers' /\ CapRespected'
    BY <1>1, <1>2, <2>2 DEF SlotsInv, CountCovers, CapRespected
  <2>5. QED
    BY <2>1, <2>3, <2>4
<1>4. k \in raised => HoldsSlot(win[k]) /\ win[k].until = NoTime
  BY DEF SlotsInv, RaisedHolds
<1>5. CASE win[k].phase = "Closed" /\ win[k].forcedCool
  <2>1. Write([win EXCEPT ![k] = None]) /\ raised' = raised
    BY <1>5 DEF WindowReconcile
  <2>2. ~HoldsSlot(win[k])
    BY <1>5 DEF HoldsSlot, IsActive
  <2>3. ~None.exists
    BY DEF None
  <2>4. QED
    BY <1>3, <1>4, <2>1, <2>2, <2>3, NoneType
<1>6. CASE ~(win[k].phase = "Closed" /\ win[k].forcedCool)
  <2>1. /\ Write([win EXCEPT ![k] = Stepped(k, step)])
        /\ raised' = IF step = "BeginScaleBack" /\ ~win[k].deferred
                     THEN raised \ {k} ELSE raised
    BY <1>6 DEF WindowReconcile
  <2>2. step \in Steps /\ (win[k].until = NoTime => step \in {"StayOpen", "BeginScaleBack"})
    BY DecideFacts
  <2> HIDE DEF step
  <2>3. win[k].phase # "Closed" /\ win[k].phase \in Phases
    BY <1>1, <1>6 DEF SlotsInv, OnlyTombstonesClosed, SlotWindow
  <2>4. HoldsSlot(win[k]) <=> ~win[k].deferred
    BY <1>1, <2>3 DEF HoldsSlot, IsActive, Phases
  <2>5. HoldsSlot(Stepped(k, step)) => HoldsSlot(win[k])
    BY <1>1, <2>2, <2>4, SteppedFacts DEF HoldsSlot
  <2>6. k \in raised' => HoldsSlot(Stepped(k, step)) /\ Stepped(k, step).until = NoTime
    <3>1. k \in raised' => k \in raised /\ step = "StayOpen"
      BY <1>4, <2>1, <2>2, <2>4
    <3>2. step = "StayOpen" => /\ Stepped(k, step).exists
                               /\ Stepped(k, step).phase = "Open"
                               /\ Stepped(k, step).until = NoTime
                               /\ Stepped(k, step).deferred = win[k].deferred
      BY <1>1, <2>2, SteppedFacts
    <3>3. QED
      BY <1>4, <2>4, <3>1, <3>2 DEF HoldsSlot, IsActive
  <2>7. /\ Stepped(k, step) \in SlotWindow
        /\ Stepped(k, step).exists /\ Stepped(k, step).phase = "Closed"
             => Stepped(k, step).forcedCool
    BY <1>1, <2>2, SteppedFacts
  <2>8. QED
    BY <1>3, <2>1, <2>5, <2>6, <2>7
<1>7. QED
  BY <1>5, <1>6

\* SlotsInv is inductive.
LEMMA SlotsInvariant ==
  ASSUME Events = {}
  PROVE  Spec => []SlotsInv
<1>1. Init => SlotsInv
  <2> SUFFICES ASSUME Init, TypeOK PROVE SlotsInv
    BY TypeInit
  <2>1. Slots(win) = {} /\ OnlyTombstonesClosed /\ RaisedHolds /\ cache = win
    BY NoneType DEF Init, Slots, OnlyTombstonesClosed, RaisedHolds, None
  <2>2. CountCovers /\ CapRespected
    <3>1. Cardinality(Slots(win)) = 0
      BY <2>1, FS_EmptySet
    <3>2. QED
      BY <3>1 DEF Init, CountCovers, CapRespected
  <2>3. QED
    BY <2>1, <2>2 DEF SlotsInv
<1>2. SlotsInv /\ TypeOK' /\ [Next]_vars => SlotsInv'
  <2> SUFFICES ASSUME SlotsInv, TypeOK', [Next]_vars
               PROVE  /\ cache' = win'
                      /\ OnlyTombstonesClosed' /\ CountCovers' /\ RaisedHolds' /\ CapRespected'
    BY DEF SlotsInv
  <2>0. /\ win \in [Workloads -> SlotWindow] /\ cache = win
    BY DEF SlotsInv, TypeOK
  <2>1. CASE StartReconcile
    <3>1. Slots(win') = Slots(win) /\ Slots(cache) = Slots(win)
      BY <2>0, <2>1 DEF StartReconcile
    <3>2. Cardinality(Slots(win)) \in Nat
      BY Counts DEF Slots
    <3>3. QED
      BY <2>0, <2>1, <3>1, <3>2 DEF StartReconcile, SlotsInv, OnlyTombstonesClosed,
         CountCovers, RaisedHolds, CapRespected
  <2>2. ASSUME NEW k \in Workloads, Visit(k)
        PROVE  /\ cache' = win'
               /\ OnlyTombstonesClosed' /\ CountCovers' /\ RaisedHolds' /\ CapRespected'
    BY <2>2, VisitInv
  <2>3. CASE EndReconcile
    BY <2>3 DEF EndReconcile, SlotsInv, OnlyTombstonesClosed, CountCovers, RaisedHolds,
       CapRespected, Slots
  <2>4. ASSUME NEW k \in Workloads, NEW safe \in BOOLEAN, WindowReconcile(k, safe)
        PROVE  /\ cache' = win'
               /\ OnlyTombstonesClosed' /\ CountCovers' /\ RaisedHolds' /\ CapRespected'
    BY <2>4, WindowReconcileInv
  <2>5. ASSUME NEW k \in Workloads, RiskChanges(k)
        PROVE  /\ cache' = win'
               /\ OnlyTombstonesClosed' /\ CountCovers' /\ RaisedHolds' /\ CapRespected'
    BY <2>5 DEF RiskChanges, SlotsInv, OnlyTombstonesClosed, CountCovers, RaisedHolds,
       CapRespected, Slots
  <2>6. ASSUME NEW k \in Workloads, CacheSync(k)
        PROVE  FALSE
    BY <2>0, <2>6 DEF CacheSync
  <2>7. CASE Tick
    <3>1. \A k \in Workloads :
            /\ win'[k] = Age(win[k])
            /\ Age(win[k]).exists = win[k].exists /\ Age(win[k]).deferred = win[k].deferred
            /\ Age(win[k]).phase = win[k].phase
            /\ Age(win[k]).forcedCool = win[k].forcedCool
            /\ win[k].until = NoTime => Age(win[k]).until = NoTime
      BY <2>0, <2>7, AgeFacts DEF Tick
    <3>2. \A k \in Workloads : HoldsSlot(win'[k]) <=> HoldsSlot(win[k])
      BY <3>1 DEF HoldsSlot, IsActive
    <3>3. Slots(win') = Slots(win)
      BY <3>2 DEF Slots
    <3>4. cache' = win' /\ raised' = raised /\ raised \subseteq Workloads
          /\ active' = active /\ running' = running
      BY <2>0, <2>7 DEF Tick, SlotsInv, TypeOK
    <3>5. OnlyTombstonesClosed' /\ RaisedHolds'
      BY <3>1, <3>2, <3>4 DEF SlotsInv, OnlyTombstonesClosed, RaisedHolds
    <3>6. QED
      BY <3>3, <3>4, <3>5 DEF SlotsInv, CountCovers, CapRespected
  <2>8. CASE UNCHANGED vars
    BY <2>8 DEF vars, SlotsInv, OnlyTombstonesClosed, CountCovers, RaisedHolds,
       CapRespected, Slots
  <2>9. QED
    BY <2>1, <2>2, <2>3, <2>4, <2>5, <2>6, <2>7, <2>8 DEF Next, PolicyStep, WindowStep
<1>3. QED
  BY <1>1, <1>2, TypeCorrect, PTL DEF Spec

\* On a current cache and with patches that go through, no interleaving of the
\* loop with window reconciles, new and ended disruptions and the clock lets
\* more windows hold a slot than maxConcurrentWindows, however many workloads
\* there are.
THEOREM CapHolds ==
  ASSUME Events = {}
  PROVE  Spec => []CapRespected
<1>1. SlotsInv => CapRespected
  BY DEF SlotsInv
<1>2. QED
  BY <1>1, SlotsInvariant, PTL

\* Under the same conditions no more workloads than that are raised: whoever
\* is raised holds a slot.
THEOREM RaisedCapHolds ==
  ASSUME Events = {}
  PROVE  Spec => []RaisedWithinCap
<1>1. SlotsInv => RaisedWithinCap
  <2> SUFFICES ASSUME SlotsInv, WindowCap > 0
               PROVE  Cardinality(raised) <= WindowCap
    BY DEF RaisedWithinCap
  <2>1. raised \subseteq Slots(win) /\ raised \subseteq Workloads
    BY DEF SlotsInv, TypeOK, RaisedHolds, Slots
  <2>2. IsFiniteSet(Slots(win)) /\ Cardinality(Slots(win)) \in Nat
    BY Counts DEF Slots
  <2>3. Cardinality(raised) \in Nat /\ Cardinality(raised) <= Cardinality(Slots(win))
    BY <2>1, <2>2, FS_Subset, Counts
  <2>4. QED
    BY <2>2, <2>3 DEF SlotsInv, CapRespected
<1>2. QED
  BY <1>1, SlotsInvariant, PTL
=============================================================================
