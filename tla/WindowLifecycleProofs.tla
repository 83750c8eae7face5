------------------------- MODULE WindowLifecycleProofs -------------------------
(***************************************************************************)
(* Theorems about WindowLifecycle, for every value of its constants.       *)
(***************************************************************************)
EXTENDS WindowLifecycle, TLAPS

USE PolicyAssumption, LifecycleAssumption

-------------------------------------------------------------------------------
(***************************************************************************)
(* What the helpers of the model return.                                   *)
(***************************************************************************)

\* The absent window is of the right type.
LEMMA NoWindowType == NoWindow \in Window
  BY DEF NoWindow, Window, NoTime, NoAction, Phases

\* A window just created is a window.
LEMMA NewWindowType ==
  ASSUME NEW action \in Nat \cup {NoAction}, NEW deferred \in BOOLEAN
  PROVE  NewWindow(action, deferred) \in Window
  BY DEF NewWindow, NoWindow, Window, NoTime, NoAction, Phases

\* A tick of the clock yields a window.
LEMMA AgeType ==
  ASSUME NEW w \in Window
  PROVE  Age(w) \in Window
<1> DEFINE o == IF w.opened < MaxWindow THEN w.opened + 1 ELSE w.opened
           u == IF w.until > 0 THEN w.until - 1 ELSE w.until
<1>1. w.opened \in Nat /\ w.until \in Nat \cup {NoTime}
  BY DEF Window
<1>2. o \in Nat /\ u \in Nat \cup {NoTime}
  BY <1>1 DEF NoTime
<1> HIDE DEF o, u
<1>3. [w EXCEPT !.opened = o, !.until = u] \in Window
  BY <1>2 DEF Window
<1>4. QED
  BY <1>3 DEF Age, o, u

\* The two kinds of partial copies are windows.
LEMMA CopyType ==
  ASSUME NEW w \in Window
  PROVE  SpecOf(w) \in Window /\ StatusOf(w) \in Window
<1> DEFINE u == IF w.until = NoTime THEN NoTime ELSE 0
<1>1. u \in Nat \cup {NoTime}
  OBVIOUS
<1> HIDE DEF u
<1>2. [NoWindow EXCEPT !.exists = w.exists, !.deferred = w.deferred,
                       !.nodes = w.nodes, !.action = w.action,
                       !.until = u] \in Window
  BY <1>1 DEF NoWindow, Window, Phases
<1>3. SpecOf(w) \in Window
  BY <1>2 DEF SpecOf, u
<1>4. StatusOf(w) \in Window
  BY DEF StatusOf, NoWindow, Window
<1>5. QED
  BY <1>3, <1>4

\* What the window reconcile keeps is a window.
LEMMA KeptType ==
  ASSUME NEW w \in Window, NEW pc
  PROVE  Kept(pc, w) \in Window
<1>1. StatusOf(w) \in Window /\ NoWindow \in Window
  BY CopyType, NoWindowType
<1>2. w.action \in Nat \cup {NoAction} /\ w.finalizer \in BOOLEAN
  BY DEF Window
<1>3. ASSUME NEW v \in Window
      PROVE  /\ [v EXCEPT !.action = w.action] \in Window
             /\ [v EXCEPT !.action = w.action, !.finalizer = w.finalizer] \in Window
  BY <1>2 DEF Window
<1>4. QED
  BY <1>1, <1>3 DEF Kept

\* Deleting and unfinalizing a window yields a window, possibly NoWindow.
LEMMA DeletedType ==
  ASSUME NEW w \in Window
  PROVE  Deleted(w) \in Window /\ Unfinalized(w) \in Window
  BY NoWindowType DEF Deleted, Unfinalized, NoWindow, Window, NoTime, NoAction, Phases

\* A status write stores a window.
LEMMA StatusReplacedType ==
  ASSUME win \in Window, NEW s \in Window
  PROVE  StatusReplaced(s) \in Window
  BY DEF StatusReplaced, Window, NoTime, NoAction, Phases

\* A merge patch of the policy reconcile stores a window.
LEMMA PatchedType ==
  ASSUME win \in Window, pSnap \in Window,
         NEW action \in Nat \cup {NoAction}, NEW deferred \in BOOLEAN,
         NEW other
  PROVE  PatchedWindow(action, deferred, other) \in Window
<1> DEFINE d == Merge(pSnap.deferred, deferred, win.deferred)
           n == IF "nodes" \in other THEN TRUE ELSE Merge(pSnap.nodes, TRUE, win.nodes)
           a == IF "actions" \in other THEN action ELSE Merge(pSnap.action, action, win.action)
           u == Merge(pSnap.until, NoTime, win.until)
<1>1. /\ win.deferred \in BOOLEAN /\ win.nodes \in BOOLEAN
      /\ win.action \in Nat \cup {NoAction} /\ win.until \in Nat \cup {NoTime}
  BY DEF Window
<1>2. /\ d \in BOOLEAN /\ n \in BOOLEAN
      /\ a \in Nat \cup {NoAction} /\ u \in Nat \cup {NoTime}
  BY <1>1 DEF Merge
<1> HIDE DEF d, n, a, u
<1>3. [win EXCEPT !.deferred = d, !.nodes = n, !.action = a, !.until = u]
        \in Window
  BY <1>2 DEF Window
<1>4. QED
  BY <1>3 DEF PatchedWindow, d, n, a, u

\* Strategy A yields a natural number.
LEMMA TargetReplicasType ==
  ASSUME NEW b \in Nat, NEW r \in Nat
  PROVE  TargetReplicas(b, r) \in Nat
  BY DEF TargetReplicas

-------------------------------------------------------------------------------
(***************************************************************************)
(* Type correctness, by parts: the API server, the two reconciles, the     *)
(* surroundings.                                                           *)
(***************************************************************************)
ApiType == win \in Window /\ cache \in Window /\ synced \in BOOLEAN

PolicyType ==
  /\ pPc \in PolicyPcs /\ pSnap \in Window /\ pFresh \in BOOLEAN
  /\ pRisk \in Nat /\ pBase \in Nat

WindowType ==
  /\ wPc \in WindowPcs /\ wSnap \in Window /\ wFresh \in BOOLEAN
  /\ wStep \in Steps /\ wUntil \in Nat

EnvType ==
  /\ policy \in {"new", "live", "deleting", "gone"}
  /\ target \in BOOLEAN /\ calm \in BOOLEAN /\ faults \in Nat

\* TypeOK is the conjunction of its parts, now and in the next state.
LEMMA TypeParts ==
  /\ TypeOK <=> ApiType /\ PolicyType /\ WindowType /\ EnvType /\ replicas \in Nat
  /\ TypeOK' <=> ApiType' /\ PolicyType' /\ WindowType' /\ EnvType' /\ replicas' \in Nat
  BY DEF TypeOK, ApiType, PolicyType, WindowType, EnvType

\* A step that leaves a part alone preserves its type.
LEMMA TypeFrame ==
  /\ ApiType /\ UNCHANGED apiVars => ApiType'
  /\ PolicyType /\ UNCHANGED pVars => PolicyType'
  /\ WindowType /\ UNCHANGED wVars => WindowType'
  /\ EnvType /\ UNCHANGED envVars => EnvType'
  BY DEF ApiType, PolicyType, WindowType, EnvType, apiVars, pVars, wVars, envVars

\* A reconcile that returns leaves typed locals.
LEMMA DoneType ==
  /\ PolicyDone => PolicyType'
  /\ WindowDone => WindowType'
<1>1. ASSUME PolicyDone PROVE PolicyType'
  <2>1. pSnap' \in Window /\ pFresh' \in BOOLEAN
    BY <1>1, NoWindowType DEF PolicyDone
  <2>2. pPc' \in PolicyPcs /\ pRisk' \in Nat /\ pBase' \in Nat
    BY <1>1 DEF PolicyDone, PolicyPcs
  <2>3. QED
    BY <2>1, <2>2 DEF PolicyType
<1>2. ASSUME WindowDone PROVE WindowType'
  <2>1. wSnap' \in Window /\ wFresh' \in BOOLEAN
    BY <1>2, NoWindowType DEF WindowDone
  <2>2. wPc' \in WindowPcs /\ wStep' \in Steps /\ wUntil' \in Nat
    BY <1>2 DEF WindowDone, WindowPcs, Steps
  <2>3. QED
    BY <2>1, <2>2 DEF WindowType
<1>3. QED
  BY <1>1, <1>2

\* Storing a window keeps the API server typed.
LEMMA StoreType ==
  ASSUME ApiType, NEW w \in Window, NEW b \in BOOLEAN, Store(w, b)
  PROVE  ApiType'
  BY DEF Store, ApiType

\* The window reconcile goes on with a typed copy.
LEMMA GotoType ==
  ASSUME NEW w \in Window, NEW fresh \in BOOLEAN, NEW pc \in WindowPcs,
         WindowGoto(pc, w, fresh), wStep' \in Steps, wUntil' \in Nat
  PROVE  WindowType'
  BY KeptType DEF WindowGoto, WindowType, NeedsVersion

\* A write of the policy reconcile preserves the types.
LEMMA PolicyWritesType ==
  ASSUME ApiType, PolicyType, WindowType,
         NEW w \in Window, NEW b \in BOOLEAN, NEW pc \in PolicyPcs,
         PolicyWrites(w, b, pc)
  PROVE  ApiType' /\ PolicyType' /\ WindowType'
  BY StoreType, CopyType DEF PolicyWrites, PolicyType, WindowType

\* A write of the window reconcile preserves the types.
LEMMA WindowWritesType ==
  ASSUME ApiType, PolicyType, WindowType,
         NEW w \in Window, NEW b \in BOOLEAN, NEW pc \in WindowPcs,
         WindowWrites(w, b, pc)
  PROVE  ApiType' /\ PolicyType' /\ WindowType'
<1>1. ApiType' /\ PolicyType'
  BY StoreType DEF WindowWrites, PolicyType
<1>2. WindowType'
  BY GotoType DEF WindowWrites, WindowType
<1>3. QED
  BY <1>1, <1>2

\* A patch of the window reconcile preserves the types.
LEMMA WindowPatchesType ==
  ASSUME ApiType, PolicyType, WindowType,
         NEW w \in Window, NEW pc \in WindowPcs, WindowPatches(w, pc)
  PROVE  ApiType' /\ PolicyType' /\ WindowType'
<1>1. CASE win.exists
  BY <1>1, WindowWritesType DEF WindowPatches
<1>2. CASE ~win.exists
  BY <1>2, DoneType, TypeFrame DEF WindowPatches
<1>3. QED
  BY <1>1, <1>2

\* A write of somebody else preserves the types.
LEMMA OthersWriteType ==
  ASSUME ApiType, PolicyType, WindowType, NEW w \in Window, OthersWrite(w)
  PROVE  ApiType' /\ PolicyType' /\ WindowType'
  BY StoreType DEF OthersWrite, PolicyType, WindowType

\* Every step of the program preserves the types.
LEMMA TypeStep == TypeOK /\ [Next]_vars => TypeOK'
<1> SUFFICES ASSUME TypeOK, [Next]_vars PROVE TypeOK'
  OBVIOUS
<1>0. ApiType /\ PolicyType /\ WindowType /\ EnvType /\ replicas \in Nat
  BY TypeParts
<1>1. CASE AddPolicyFinalizer
  BY <1>0, <1>1, TypeFrame, TypeParts DEF AddPolicyFinalizer, EnvType
<1>2. ASSUME NEW atRisk \in AtRisk, NEW slotFree \in BOOLEAN,
             NEW dying \in StillDying, PolicyReconcile(atRisk, slotFree, dying)
      PROVE  TypeOK'
  <2>1. atRisk \in Nat
    BY DEF AtRisk
  <2>2. PolicyType'
    BY <1>0, <1>2, <2>1 DEF PolicyReconcile, PolicyGoto, PolicyType, PolicyPcs
  <2>3. QED
    BY <1>0, <1>2, <2>2, TypeFrame, TypeParts DEF PolicyReconcile
<1>3. CASE PolicyStep
  <2>1. ASSUME NEW pc, NEW next \in PolicyPcs, EnsureGet(pc, next)
        PROVE  TypeOK'
    <3>1. PolicyType'
      BY <1>0, <2>1, CopyType, DoneType DEF EnsureGet, PolicyType, ApiType
    <3>2. QED
      BY <1>0, <2>1, <3>1, TypeFrame, TypeParts DEF EnsureGet
  <2>2. CASE BuildPlan
    <3>1. PlannedBaseline(pSnap) \in Nat
      BY <1>0 DEF PlannedBaseline, PolicyType, Window
    <3>2. PolicyType'
      BY <1>0, <2>2, <3>1, DoneType DEF BuildPlan, PolicyType, PolicyPcs
    <3>3. QED
      BY <1>0, <2>2, <3>2, TypeFrame, TypeParts DEF BuildPlan
  <2>3. ASSUME NEW pc, NEW action \in Nat \cup {NoAction},
               NEW deferred \in BOOLEAN, NEW next \in PolicyPcs,
               WriteWindow(pc, action, deferred, next)
        PROVE  TypeOK'
    <3>1. CASE win.exists = pSnap.exists
      <4>1. PICK other \in SUBSET MayDiffer(action) :
              LET w == IF pSnap.exists
                       THEN PatchedWindow(action, deferred, other)
                       ELSE NewWindow(action, deferred)
              IN  PolicyWrites(w, other # {} \/ w # win, next)
        BY <2>3, <3>1 DEF WriteWindow
      <4> DEFINE w == IF pSnap.exists
                      THEN PatchedWindow(action, deferred, other)
                      ELSE NewWindow(action, deferred)
      <4>2. w \in Window
        BY <1>0, PatchedType, NewWindowType DEF ApiType, PolicyType
      <4>3. PolicyWrites(w, other # {} \/ w # win, next)
        BY <4>1
      <4> HIDE DEF w
      <4>4. QED
        BY <1>0, <2>3, <4>2, <4>3, PolicyWritesType, TypeFrame, TypeParts
        DEF WriteWindow
    <3>2. CASE win.exists # pSnap.exists
      BY <1>0, <2>3, <3>2, DoneType, TypeFrame, TypeParts DEF WriteWindow
    <3>3. QED
      BY <3>1, <3>2
  <2>4. CASE Apply
    <3>1. TargetReplicas(pBase, pRisk) \in Nat
      BY <1>0, TargetReplicasType DEF PolicyType
    <3>2. replicas' \in Nat
      BY <1>0, <2>4, <3>1 DEF Apply
    <3>3. PolicyType'
      BY <1>0, <2>4 DEF Apply, PolicyGoto, PolicyType, PolicyPcs
    <3>4. QED
      BY <1>0, <2>4, <3>2, <3>3, TypeFrame, TypeParts DEF Apply
  <2>5. CASE PolicyStatus
    <3>1. PICK other \in BOOLEAN :
            LET s == [pSnap EXCEPT !.phase = "Open", !.scaled = TRUE]
                dirty == other \/ s # pSnap
            IN  IF dirty /\ StatusAccepted(pFresh)
                THEN Store(StatusReplaced(s), TRUE) /\ wFresh' = FALSE
                ELSE UNCHANGED <<apiVars, wFresh>>
      BY <2>5 DEF PolicyStatus
    <3> DEFINE s == [pSnap EXCEPT !.phase = "Open", !.scaled = TRUE]
    <3>2. s \in Window
      BY <1>0 DEF PolicyType, Window, Phases
    <3>3. StatusReplaced(s) \in Window
      BY <1>0, <3>2, StatusReplacedType DEF ApiType
    <3>4. \/ Store(StatusReplaced(s), TRUE) /\ wFresh' = FALSE
          \/ UNCHANGED <<apiVars, wFresh>>
      BY <3>1
    <3> HIDE DEF s
    <3>5. ApiType' /\ wFresh' \in BOOLEAN
      BY <1>0, <3>3, <3>4, StoreType, TypeFrame DEF WindowType
    <3>6. QED
      BY <1>0, <2>5, <3>5, DoneType, TypeFrame, TypeParts
      DEF PolicyStatus, WindowType
  <2>6. CASE ClearNodes
    <3>1. [win EXCEPT !.nodes = FALSE] \in Window
      BY <1>0 DEF ApiType, Window
    <3>2. ApiType' /\ wFresh' \in BOOLEAN
      BY <1>0, <2>6, <3>1, StoreType, TypeFrame DEF ClearNodes, WindowType
    <3>3. QED
      BY <1>0, <2>6, <3>2, DoneType, TypeFrame, TypeParts
      DEF ClearNodes, WindowType
  <2>7. QED
    BY <1>0, <1>3, <2>1, <2>2, <2>3, <2>4, <2>5, <2>6
    DEF PolicyStep, PolicyPcs, PolicyType
<1>4. CASE Cleanup
  <2>1. CASE OthersWrite(Deleted(win)) /\ UNCHANGED policy
    <3>1. Deleted(win) \in Window
      BY <1>0, DeletedType DEF ApiType
    <3>2. QED
      BY <1>0, <1>4, <2>1, <3>1, OthersWriteType, TypeParts DEF Cleanup, EnvType
  <2>2. CASE policy' = "gone" /\ UNCHANGED <<apiVars, pVars, wVars>>
    BY <1>0, <1>4, <2>2, TypeFrame, TypeParts DEF Cleanup, EnvType
  <2>3. QED
    BY <1>4, <2>1, <2>2 DEF Cleanup
<1>5. CASE WindowStarts
  <2>1. PICK atRisk \in AtRisk, safe \in SpareSafe, dying \in StillDying :
          WindowReconcile(atRisk, safe, dying)
    BY <1>5 DEF WindowStarts
  <2> DEFINE forceCool == maxWindowExceeded(cache)
             step == decideWindowStep(cache, atRisk, safe, forceCool)
  <2>2. step \in Steps
    BY DEF decideWindowStep, Steps
  <2> HIDE DEF step, forceCool
  <2>3. PICK pc \in WindowPcs : WindowGoto(pc, cache, synced)
    BY <2>1 DEF WindowReconcile, WindowPcs, StepPc
  <2>4. wStep' \in Steps /\ wUntil' \in Nat
    BY <1>0, <2>1, <2>2 DEF WindowReconcile, WindowType, step, forceCool
  <2>5. WindowType'
    BY <1>0, <2>3, <2>4, GotoType DEF ApiType
  <2>6. QED
    BY <1>0, <2>1, <2>5, TypeFrame, TypeParts DEF WindowReconcile
<1>6. CASE WindowStep
  <2>1. Deleted(win) \in Window /\ Unfinalized(win) \in Window
    BY <1>0, DeletedType DEF ApiType
  <2>2. CASE AddFinalizer
    <3>1. [win EXCEPT !.finalizer = TRUE] \in Window
      BY <1>0 DEF ApiType, Window
    <3>2. ApiType' /\ pFresh' \in BOOLEAN
      BY <1>0, <2>2, <3>1, StoreType, TypeFrame DEF AddFinalizer, PolicyType
    <3>3. QED
      BY <1>0, <2>2, <3>2, DoneType, TypeFrame, TypeParts
      DEF AddFinalizer, PolicyType
  <2>3. CASE StampForcedCool
    <3> DEFINE s == [wSnap EXCEPT !.forcedCool = TRUE]
               w == StatusReplaced(s)
    <3>1. w \in Window
      <4>1. s \in Window
        BY <1>0 DEF WindowType, Window
      <4>2. QED
        BY <1>0, <4>1, StatusReplacedType DEF ApiType
    <3>2. StepPc(wStep, w) \in WindowPcs
      BY DEF StepPc, WindowPcs
    <3>3. \/ WindowWrites(w, TRUE, StepPc(wStep, w))
          \/ WindowDone /\ UNCHANGED <<apiVars, pVars>>
      BY <2>3 DEF StampForcedCool
    <3> HIDE DEF s, w
    <3>4. ApiType' /\ PolicyType' /\ WindowType'
      BY <1>0, <3>1, <3>2, <3>3, WindowWritesType, DoneType, TypeFrame
    <3>5. QED
      BY <1>0, <2>3, <3>4, TypeFrame, TypeParts DEF StampForcedCool
  <2>4. CASE AbortCooldown
    <3>1. [win EXCEPT !.until = NoTime] \in Window
      BY <1>0 DEF ApiType, Window
    <3>2. ApiType' /\ PolicyType' /\ WindowType'
      BY <1>0, <2>4, <3>1, WindowPatchesType DEF AbortCooldown, WindowPcs
    <3>3. QED
      BY <1>0, <2>4, <3>2, TypeFrame, TypeParts DEF AbortCooldown
  <2>5. Restored(wSnap) \in Nat
    BY <1>0 DEF Restored, WindowType, Window, NoAction
  <2>6. CASE ScaleBack
    <3>1. WindowType'
      BY <1>0, <2>6, GotoType DEF ScaleBack, WindowType, WindowPcs
    <3>2. QED
      BY <1>0, <2>5, <2>6, <3>1, TypeFrame, TypeParts DEF ScaleBack
  <2>7. CASE ArmCooldown
    <3>1. [win EXCEPT !.until = wUntil] \in Window
      BY <1>0 DEF ApiType, WindowType, Window
    <3>2. ApiType' /\ PolicyType' /\ WindowType'
      BY <1>0, <2>7, <3>1, WindowPatchesType DEF ArmCooldown, WindowPcs
    <3>3. QED
      BY <1>0, <2>7, <3>2, TypeFrame, TypeParts DEF ArmCooldown
  <2>8. CASE WriteStatus
    <3> DEFINE s == [wSnap EXCEPT !.phase = StepPhase(wStep)]
               w == StatusReplaced(s)
    <3>1. w \in Window
      <4>1. StepPhase(wStep) \in Phases
        BY DEF StepPhase, Phases
      <4>2. s \in Window
        BY <1>0, <4>1 DEF WindowType, Window
      <4>3. QED
        BY <1>0, <4>2, StatusReplacedType DEF ApiType
    <3>2. \/ UNCHANGED <<apiVars, pVars>> /\ WindowDone
          \/ /\ UNCHANGED <<apiVars, pVars, wStep, wUntil>>
             /\ WindowGoto("closeFinalizer", wSnap, FALSE)
          \/ /\ Store(w, TRUE) /\ WindowDone
             /\ pFresh' = FALSE /\ UNCHANGED <<pPc, pSnap, pRisk, pBase>>
          \/ WindowWrites(w, TRUE, "closeFinalizer")
      BY <2>8 DEF WriteStatus
    <3> HIDE DEF s, w
    <3>3. ApiType' /\ PolicyType' /\ WindowType'
      <4>1. CASE UNCHANGED <<apiVars, pVars>> /\ WindowDone
        BY <1>0, <4>1, DoneType, TypeFrame
      <4>2. CASE /\ UNCHANGED <<apiVars, pVars, wStep, wUntil>>
                 /\ WindowGoto("closeFinalizer", wSnap, FALSE)
        BY <1>0, <4>2, GotoType, TypeFrame DEF WindowType, WindowPcs
      <4>3. CASE /\ Store(w, TRUE) /\ WindowDone
                 /\ pFresh' = FALSE /\ UNCHANGED <<pPc, pSnap, pRisk, pBase>>
        BY <1>0, <3>1, <4>3, StoreType, DoneType DEF PolicyType
      <4>4. CASE WindowWrites(w, TRUE, "closeFinalizer")
        BY <1>0, <3>1, <4>4, WindowWritesType DEF WindowPcs
      <4>5. QED
        BY <3>2, <4>1, <4>2, <4>3, <4>4
    <3>4. QED
      BY <1>0, <2>8, <3>3, TypeFrame, TypeParts DEF WriteStatus
  <2>9. CASE CloseFinalizer
    <3>1. ApiType' /\ PolicyType' /\ WindowType'
      BY <1>0, <2>1, <2>9, WindowPatchesType DEF CloseFinalizer, WindowPcs
    <3>2. QED
      BY <1>0, <2>9, <3>1, TypeFrame, TypeParts DEF CloseFinalizer
  <2>10. CASE DeleteWindow
    <3>1. ApiType' /\ pFresh' \in BOOLEAN
      BY <1>0, <2>1, <2>10, StoreType, TypeFrame DEF DeleteWindow, PolicyType
    <3>2. QED
      BY <1>0, <2>10, <3>1, DoneType, TypeFrame, TypeParts
      DEF DeleteWindow, PolicyType
  <2>11. CASE RestoreFinal
    <3>1. WindowType'
      BY <1>0, <2>11, GotoType, DoneType DEF RestoreFinal, WindowType, WindowPcs
    <3>2. QED
      BY <1>0, <2>5, <2>11, <3>1, TypeFrame, TypeParts DEF RestoreFinal
  <2>12. CASE Unfinalize
    <3>1. ApiType' /\ pFresh' \in BOOLEAN
      BY <1>0, <2>1, <2>12, StoreType, TypeFrame DEF Unfinalize, PolicyType
    <3>2. QED
      BY <1>0, <2>12, <3>1, DoneType, TypeFrame, TypeParts
      DEF Unfinalize, PolicyType
  <2>13. QED
    BY <1>6, <2>2, <2>3, <2>4, <2>6, <2>7, <2>8, <2>9, <2>10, <2>11, <2>12
    DEF WindowStep
<1>7. CASE Tick
  <2>1. ApiType'
    BY <1>0, <1>7, AgeType DEF Tick, ApiType
  <2>2. WindowType'
    BY <1>0, <1>7 DEF Tick, WindowType
  <2>3. QED
    BY <1>0, <1>7, <2>1, <2>2, TypeFrame, TypeParts DEF Tick
<1>8. CASE CacheSync
  BY <1>0, <1>8, TypeFrame, TypeParts DEF CacheSync, ApiType
<1>9. CASE GarbageCollect \/ UserDeletesWindow
  <2>1. Deleted(win) \in Window
    BY <1>0, DeletedType DEF ApiType
  <2>2. QED
    BY <1>0, <1>9, <2>1, OthersWriteType, TypeFrame, TypeParts
    DEF GarbageCollect, UserDeletesWindow
<1>10. CASE UserDeletesPolicy \/ TargetDeleted \/ DisruptionEnds
  BY <1>0, <1>10, TypeFrame, TypeParts
  DEF UserDeletesPolicy, TargetDeleted, DisruptionEnds, EnvType
<1>11. CASE ApplyFails
  BY <1>0, <1>11, TypeFrame, TypeParts
  DEF ApplyFails, PolicyGoto, PolicyType, PolicyPcs, EnvType
<1>12. CASE PolicyCallFails \/ WindowCallFails
  BY <1>0, <1>12, DoneType, TypeFrame, TypeParts
  DEF PolicyCallFails, WindowCallFails, EnvType
<1>13. CASE Crash
  BY <1>0, <1>13, DoneType, TypeParts DEF Crash, ApiType, EnvType
<1>14. CASE UNCHANGED vars
  BY <1>0, <1>14, TypeFrame, TypeParts DEF vars
<1>15. QED
  BY <1>1, <1>2, <1>3, <1>4, <1>5, <1>6, <1>7, <1>8, <1>9, <1>10, <1>11,
     <1>12, <1>13, <1>14
  DEF Next, Environment

\* The initial state has the right types.
LEMMA TypeInit == Init => TypeOK
<1> SUFFICES ASSUME Init PROVE TypeOK
  OBVIOUS
<1>1. ApiType
  BY NoWindowType DEF Init, ApiType
<1>2. PolicyType
  <2>1. pSnap \in Window /\ pFresh \in BOOLEAN
    BY NoWindowType DEF Init
  <2>2. pPc \in PolicyPcs /\ pRisk \in Nat /\ pBase \in Nat
    BY DEF Init, PolicyPcs
  <2>3. QED
    BY <2>1, <2>2 DEF PolicyType
<1>3. WindowType
  <2>1. wSnap \in Window /\ wFresh \in BOOLEAN
    BY NoWindowType DEF Init
  <2>2. wPc \in WindowPcs /\ wStep \in Steps /\ wUntil \in Nat
    BY DEF Init, WindowPcs, Steps
  <2>3. QED
    BY <2>1, <2>2 DEF WindowType
<1>4. EnvType /\ replicas \in Nat
  BY DEF Init, EnvType
<1>5. QED
  BY <1>1, <1>2, <1>3, <1>4, TypeParts

\* Every reachable state of the two reconcilers, the API server and the
\* informer is well typed: in particular a baseline is a replica count.
THEOREM TypeCorrect == Spec => []TypeOK
  BY TypeInit, TypeStep, PTL DEF Spec

-------------------------------------------------------------------------------
(***************************************************************************)
(* No restore goes below the user's value.  NeverBelowUser alone is not    *)
(* inductive: a restore lowers to the action of a copy, which may be old.  *)
(* The strengthening follows the baseline to every place it is kept.       *)
(***************************************************************************)
AtLeastUser(w) == w.action = NoAction \/ w.action >= UserReplicas

BaselinesSafe ==
  /\ replicas >= UserReplicas
  /\ AtLeastUser(win) /\ AtLeastUser(cache)
  /\ AtLeastUser(pSnap) /\ AtLeastUser(wSnap)
  /\ pPc = "write" => pBase >= UserReplicas

\* What the helpers do to the recorded action.
LEMMA ActionKept ==
  ASSUME NEW w \in Window, NEW pc
  PROVE  /\ Age(w).action = w.action
         /\ SpecOf(w).action = w.action
         /\ StatusOf(w).action = NoAction
         /\ Kept(pc, w).action \in {w.action, NoAction}
         /\ Deleted(w).action \in {w.action, NoAction}
         /\ Unfinalized(w).action \in {w.action, NoAction}
<1>1. Age(w).action = w.action
  BY DEF Age, Window
<1>2. SpecOf(w).action = w.action /\ StatusOf(w).action = NoAction
  BY DEF SpecOf, StatusOf, NoWindow
<1>3. Kept(pc, w).action \in {w.action, NoAction}
  BY DEF Kept, StatusOf, NoWindow
<1>4. /\ Deleted(w).action \in {w.action, NoAction}
      /\ Unfinalized(w).action \in {w.action, NoAction}
  BY DEF Deleted, Unfinalized, NoWindow, Window
<1>5. QED
  BY <1>1, <1>2, <1>3, <1>4

\* So none of them yields an action below the user's value.
LEMMA AtLeastUserKept ==
  ASSUME NEW w \in Window, NEW pc, AtLeastUser(w)
  PROVE  /\ AtLeastUser(Age(w)) /\ AtLeastUser(SpecOf(w))
         /\ AtLeastUser(StatusOf(w)) /\ AtLeastUser(Kept(pc, w))
         /\ AtLeastUser(Deleted(w)) /\ AtLeastUser(Unfinalized(w))
  BY ActionKept DEF AtLeastUser

\* A field write that leaves the action alone.
LEMMA AtLeastUserWin ==
  ASSUME win \in Window, AtLeastUser(win), NEW s, NEW t
  PROVE  /\ AtLeastUser(StatusReplaced(s))
         /\ AtLeastUser([win EXCEPT !.until = t])
         /\ AtLeastUser([win EXCEPT !.nodes = t])
         /\ AtLeastUser([win EXCEPT !.finalizer = t])
  BY DEF AtLeastUser, StatusReplaced, Window

\* The absent window records nothing.
LEMMA AtLeastUserNone == AtLeastUser(NoWindow)
  BY DEF AtLeastUser, NoWindow

\* A restore from a safe copy leaves at least the user's value.
LEMMA RestoredSafe ==
  ASSUME replicas \in Nat, replicas >= UserReplicas, NEW w, AtLeastUser(w)
  PROVE  Restored(w) >= UserReplicas
  BY DEF Restored, AtLeastUser

\* Every step keeps every recorded baseline at or above the user's value.
LEMMA BaselinesStep == TypeOK /\ BaselinesSafe /\ [Next]_vars => BaselinesSafe'
<1> SUFFICES ASSUME TypeOK, BaselinesSafe, [Next]_vars PROVE BaselinesSafe'
  OBVIOUS
<1>0. /\ win \in Window /\ cache \in Window /\ pSnap \in Window /\ wSnap \in Window
      /\ replicas \in Nat /\ pBase \in Nat
  BY DEF TypeOK
<1>1. /\ replicas >= UserReplicas
      /\ AtLeastUser(win) /\ AtLeastUser(cache)
      /\ AtLeastUser(pSnap) /\ AtLeastUser(wSnap)
      /\ pPc = "write" => pBase >= UserReplicas
  BY DEF BaselinesSafe
<1> USE AtLeastUserNone
<1>2. ASSUME NEW w, AtLeastUser(w), NEW b, Store(w, b)
      PROVE  AtLeastUser(win') /\ AtLeastUser(cache')
  BY <1>1, <1>2 DEF Store
<1>3. ASSUME NEW w \in Window, AtLeastUser(w), NEW pc, NEW f, WindowGoto(pc, w, f)
      PROVE  AtLeastUser(wSnap')
  BY <1>3, AtLeastUserKept DEF WindowGoto
<1>4. CASE AddPolicyFinalizer \/ UserDeletesPolicy \/ TargetDeleted \/ DisruptionEnds
  BY <1>1, <1>4
  DEF AddPolicyFinalizer, UserDeletesPolicy, TargetDeleted, DisruptionEnds,
      BaselinesSafe, apiVars, pVars, wVars
<1>5. ASSUME NEW atRisk, NEW slotFree, NEW dying,
             PolicyReconcile(atRisk, slotFree, dying)
      PROVE  BaselinesSafe'
  BY <1>1, <1>5 DEF PolicyReconcile, PolicyGoto, BaselinesSafe, apiVars, wVars
<1>6. CASE PolicyStep
  <2>1. ASSUME NEW pc, NEW next \in {"plan", "deferWrite"}, EnsureGet(pc, next)
        PROVE  BaselinesSafe'
    <3>1. AtLeastUser(pSnap') /\ pPc' # "write"
      BY <1>0, <1>1, <2>1, AtLeastUserKept DEF EnsureGet, PolicyDone
    <3>2. QED
      BY <1>1, <2>1, <3>1 DEF EnsureGet, BaselinesSafe, apiVars, wVars
  <2>2. CASE BuildPlan
    <3>1. PlannedBaseline(pSnap) >= UserReplicas
      BY <1>1 DEF PlannedBaseline, AtLeastUser
    <3>2. AtLeastUser(pSnap') /\ (pPc' = "write" => pBase' >= UserReplicas)
      BY <1>1, <2>2, <3>1 DEF BuildPlan, PolicyDone
    <3>3. QED
      BY <1>1, <2>2, <3>2 DEF BuildPlan, BaselinesSafe, apiVars, wVars
  <2>3. ASSUME NEW pc, NEW action, NEW deferred, NEW next \in {"apply", "status"},
               AtLeastUser([NoWindow EXCEPT !.action = action]),
               WriteWindow(pc, action, deferred, next)
        PROVE  BaselinesSafe'
    <3>1. action = NoAction \/ action >= UserReplicas
      BY <2>3 DEF AtLeastUser, NoWindow
    <3>2. CASE win.exists = pSnap.exists
      <4>1. PICK other \in SUBSET MayDiffer(action) :
              LET w == IF pSnap.exists
                       THEN PatchedWindow(action, deferred, other)
                       ELSE NewWindow(action, deferred)
              IN  PolicyWrites(w, other # {} \/ w # win, next)
        BY <2>3, <3>2 DEF WriteWindow
      <4> DEFINE w == IF pSnap.exists
                      THEN PatchedWindow(action, deferred, other)
                      ELSE NewWindow(action, deferred)
      <4>2. AtLeastUser(w)
        <5>1. AtLeastUser(NewWindow(action, deferred))
          BY <3>1 DEF AtLeastUser, NewWindow, NoWindow
        <5>2. AtLeastUser(PatchedWindow(action, deferred, other))
          BY <1>0, <1>1, <3>1 DEF AtLeastUser, PatchedWindow, Merge, Window
        <5>3. QED
          BY <5>1, <5>2
      <4>3. PolicyWrites(w, other # {} \/ w # win, next)
        BY <4>1
      <4> HIDE DEF w
      <4>4. AtLeastUser(win') /\ AtLeastUser(cache')
        BY <1>2, <4>2, <4>3 DEF PolicyWrites
      <4>5. AtLeastUser(pSnap') /\ pPc' # "write" /\ wSnap' = wSnap
        BY <4>3 DEF PolicyWrites, StatusOf, NoWindow, AtLeastUser
      <4>6. QED
        BY <1>1, <2>3, <4>4, <4>5 DEF WriteWindow, BaselinesSafe
    <3>3. CASE win.exists # pSnap.exists
      BY <1>1, <2>3, <3>3
      DEF WriteWindow, PolicyDone, BaselinesSafe, apiVars, wVars
    <3>4. QED
      BY <3>2, <3>3
  <2>4. CASE Apply
    <3>1. replicas' >= UserReplicas
      BY <1>0, <1>1, <2>4, TargetReplicasType DEF Apply, TypeOK
    <3>2. QED
      BY <1>1, <2>4, <3>1 DEF Apply, PolicyGoto, BaselinesSafe, apiVars, wVars
  <2>5. CASE PolicyStatus
    <3>1. AtLeastUser(win') /\ AtLeastUser(cache')
      BY <1>0, <1>1, <1>2, <2>5, AtLeastUserWin DEF PolicyStatus, apiVars
    <3>2. QED
      BY <1>1, <2>5, <3>1 DEF PolicyStatus, PolicyDone, BaselinesSafe
  <2>6. CASE ClearNodes
    <3>1. AtLeastUser(win') /\ AtLeastUser(cache')
      BY <1>0, <1>1, <1>2, <2>6, AtLeastUserWin DEF ClearNodes, apiVars
    <3>2. QED
      BY <1>1, <2>6, <3>1 DEF ClearNodes, PolicyDone, BaselinesSafe
  <2>7. ASSUME WriteWindow("write", pBase, FALSE, "apply")
        PROVE  BaselinesSafe'
    <3>1. AtLeastUser([NoWindow EXCEPT !.action = pBase])
      BY <1>1, <2>7 DEF WriteWindow, AtLeastUser, NoWindow
    <3>2. QED
      BY <2>3, <2>7, <3>1
  <2>8. ASSUME WriteWindow("deferWrite", NoAction, TRUE, "status")
        PROVE  BaselinesSafe'
    <3>1. AtLeastUser([NoWindow EXCEPT !.action = NoAction])
      BY DEF AtLeastUser, NoWindow
    <3>2. QED
      BY <2>3, <2>8, <3>1
  <2>9. QED
    BY <1>6, <2>1, <2>2, <2>4, <2>5, <2>6, <2>7, <2>8 DEF PolicyStep
<1>7. ASSUME NEW w \in Window, AtLeastUser(w), OthersWrite(w), replicas' = replicas
      PROVE  BaselinesSafe'
  BY <1>1, <1>2, <1>7 DEF OthersWrite, BaselinesSafe
<1>8. /\ Deleted(win) \in Window /\ AtLeastUser(Deleted(win))
      /\ Unfinalized(win) \in Window /\ AtLeastUser(Unfinalized(win))
  BY <1>0, <1>1, DeletedType, AtLeastUserKept
<1>9. CASE Cleanup
  BY <1>1, <1>7, <1>8, <1>9 DEF Cleanup, BaselinesSafe, apiVars, pVars, wVars
<1>10. CASE WindowStarts
  <2>1. PICK atRisk, safe, dying : WindowReconcile(atRisk, safe, dying)
    BY <1>10 DEF WindowStarts
  <2>2. PICK pc : WindowGoto(pc, cache, synced)
    BY <2>1 DEF WindowReconcile
  <2>3. AtLeastUser(wSnap')
    BY <1>0, <1>1, <1>3, <2>2
  <2>4. QED
    BY <1>1, <2>1, <2>3 DEF WindowReconcile, BaselinesSafe, apiVars, pVars
<1>11. ASSUME NEW w \in Window, AtLeastUser(w), NEW b, NEW pc, WindowWrites(w, b, pc)
       PROVE  /\ AtLeastUser(win') /\ AtLeastUser(cache') /\ AtLeastUser(wSnap')
              /\ pPc' = pPc /\ pSnap' = pSnap /\ pBase' = pBase
  BY <1>2, <1>3, <1>11 DEF WindowWrites
<1>12. ASSUME NEW w \in Window, AtLeastUser(w), NEW pc, WindowPatches(w, pc),
              replicas' = replicas
       PROVE  BaselinesSafe'
  BY <1>1, <1>11, <1>12
  DEF WindowPatches, WindowDone, BaselinesSafe, apiVars, pVars
<1>13. CASE WindowStep
  <2>1. CASE AddFinalizer
    <3>1. AtLeastUser(win') /\ AtLeastUser(cache')
      BY <1>0, <1>1, <1>2, <2>1, AtLeastUserWin DEF AddFinalizer, apiVars
    <3>2. QED
      BY <1>1, <2>1, <3>1 DEF AddFinalizer, WindowDone, BaselinesSafe
  <2>2. CASE StampForcedCool
    <3> DEFINE s == [wSnap EXCEPT !.forcedCool = TRUE]
               w == StatusReplaced(s)
    <3>1. w \in Window /\ AtLeastUser(w)
      <4>1. s \in Window
        BY <1>0 DEF Window
      <4>2. QED
        BY <1>0, <1>1, <4>1, StatusReplacedType, AtLeastUserWin
    <3>2. \/ WindowWrites(w, TRUE, StepPc(wStep, w))
          \/ WindowDone /\ UNCHANGED <<apiVars, pVars>>
      BY <2>2 DEF StampForcedCool
    <3> HIDE DEF s, w
    <3>3. QED
      BY <1>1, <1>11, <2>2, <3>1, <3>2
      DEF StampForcedCool, WindowDone, BaselinesSafe, apiVars, pVars
  <2>3. CASE AbortCooldown
    <3>1. [win EXCEPT !.until = NoTime] \in Window
      BY <1>0 DEF Window
    <3>2. QED
      BY <1>0, <1>1, <1>12, <2>3, <3>1, AtLeastUserWin DEF AbortCooldown
  <2>4. CASE ScaleBack
    <3>1. replicas' >= UserReplicas /\ AtLeastUser(wSnap')
      BY <1>0, <1>1, <1>3, <2>4, RestoredSafe DEF ScaleBack
    <3>2. QED
      BY <1>1, <2>4, <3>1 DEF ScaleBack, BaselinesSafe, apiVars, pVars
  <2>5. CASE ArmCooldown
    <3>1. [win EXCEPT !.until = wUntil] \in Window
      BY <1>0 DEF TypeOK, Window
    <3>2. QED
      BY <1>0, <1>1, <1>12, <2>5, <3>1, AtLeastUserWin DEF ArmCooldown
  <2>6. CASE WriteStatus
    <3> DEFINE s == [wSnap EXCEPT !.phase = StepPhase(wStep)]
               w == StatusReplaced(s)
    <3>1. w \in Window /\ AtLeastUser(w)
      <4>1. StepPhase(wStep) \in Phases
        BY DEF StepPhase, Phases
      <4>2. s \in Window
        BY <1>0, <4>1 DEF Window
      <4>3. QED
        BY <1>0, <1>1, <4>2, StatusReplacedType, AtLeastUserWin
    <3>2. \/ UNCHANGED <<apiVars, pVars>> /\ WindowDone
          \/ UNCHANGED <<apiVars, pVars>> /\ WindowGoto("closeFinalizer", wSnap, FALSE)
          \/ /\ Store(w, TRUE) /\ WindowDone
             /\ UNCHANGED <<pPc, pSnap, pRisk, pBase>>
          \/ WindowWrites(w, TRUE, "closeFinalizer")
      BY <2>6 DEF WriteStatus
    <3>3. replicas' = replicas
      BY <2>6 DEF WriteStatus
    <3> HIDE DEF s, w
    <3>4. QED
      BY <1>0, <1>1, <1>2, <1>3, <1>11, <3>1, <3>2, <3>3
      DEF WindowDone, BaselinesSafe, apiVars, pVars
  <2>7. CASE CloseFinalizer
    BY <1>8, <1>12, <2>7 DEF CloseFinalizer
  <2>8. CASE DeleteWindow \/ Unfinalize
    <3>1. AtLeastUser(win') /\ AtLeastUser(cache')
      BY <1>1, <1>2, <1>8, <2>8 DEF DeleteWindow, Unfinalize, apiVars
    <3>2. QED
      BY <1>1, <2>8, <3>1 DEF DeleteWindow, Unfinalize, WindowDone, BaselinesSafe
  <2>9. CASE RestoreFinal
    <3>1. replicas' >= UserReplicas /\ AtLeastUser(wSnap')
      BY <1>0, <1>1, <1>3, <2>9, RestoredSafe DEF RestoreFinal, WindowDone
    <3>2. QED
      BY <1>1, <2>9, <3>1 DEF RestoreFinal, BaselinesSafe, apiVars, pVars
  <2>10. QED
    BY <1>13, <2>1, <2>2, <2>3, <2>4, <2>5, <2>6, <2>7, <2>8, <2>9 DEF WindowStep
<1>14. CASE Tick
  BY <1>0, <1>1, <1>14, AtLeastUserKept DEF Tick, BaselinesSafe, pVars
<1>15. CASE CacheSync
  BY <1>1, <1>15 DEF CacheSync, BaselinesSafe, pVars, wVars
<1>16. CASE GarbageCollect \/ UserDeletesWindow
  BY <1>7, <1>8, <1>16 DEF GarbageCollect, UserDeletesWindow
<1>17. CASE ApplyFails
  BY <1>1, <1>17 DEF ApplyFails, PolicyGoto, BaselinesSafe, apiVars, wVars
<1>18. CASE PolicyCallFails \/ WindowCallFails
  BY <1>1, <1>18
  DEF PolicyCallFails, WindowCallFails, PolicyDone, WindowDone, BaselinesSafe,
      apiVars, pVars, wVars
<1>19. CASE Crash
  BY <1>1, <1>19 DEF Crash, PolicyDone, WindowDone, BaselinesSafe
<1>20. CASE UNCHANGED vars
  BY <1>1, <1>20 DEF vars, BaselinesSafe, apiVars, pVars, wVars
<1>21. QED
  BY <1>4, <1>5, <1>6, <1>9, <1>10, <1>13, <1>14, <1>15, <1>16, <1>17, <1>18,
     <1>19, <1>20
  DEF Next, Environment

\* Whatever copies are stale and whatever calls fail, the capacity field is
\* never left below the user's value (restoreOneAction, plan.go).
THEOREM CapacityFloor == Spec => []NeverBelowUser
<1>1. Init => BaselinesSafe
  BY AtLeastUserNone DEF Init, BaselinesSafe
<1>2. BaselinesSafe => NeverBelowUser
  BY DEF BaselinesSafe, NeverBelowUser
<1>3. QED
  BY <1>1, <1>2, BaselinesStep, TypeCorrect, PTL DEF Spec

-------------------------------------------------------------------------------
(***************************************************************************)
(* Why the ForcedCool stamp survives.  A status write replaces the whole   *)
(* status, so it must come from a copy that knows of the stamp: a copy     *)
(* that is still the live version agrees with it.                          *)
(***************************************************************************)
FreshCopies ==
  /\ synced => cache = win
  /\ pFresh => /\ pPc \in {"apply", "status"}
               /\ pSnap.forcedCool = win.forcedCool
  /\ wFresh => /\ wPc \in {"stamp", "status"}
               /\ wSnap.forcedCool = win.forcedCool

\* What the helpers do to the stamp.
LEMMA StampKept ==
  ASSUME NEW w \in Window, NEW pc
  PROVE  /\ Age(w).forcedCool = w.forcedCool
         /\ StatusOf(w).forcedCool = w.forcedCool
         /\ NeedsVersion(pc) => Kept(pc, w).forcedCool = w.forcedCool
         /\ Deleted(w).exists => Deleted(w).forcedCool = w.forcedCool
         /\ Unfinalized(w).exists => Unfinalized(w).forcedCool = w.forcedCool
<1>1. Age(w).forcedCool = w.forcedCool
  BY DEF Age, Window
<1>2. StatusOf(w).forcedCool = w.forcedCool
  BY DEF StatusOf, NoWindow
<1>3. NeedsVersion(pc) => Kept(pc, w).forcedCool = w.forcedCool
  BY DEF NeedsVersion, Kept, StatusOf, NoWindow
<1>4. /\ Deleted(w).exists => Deleted(w).forcedCool = w.forcedCool
      /\ Unfinalized(w).exists => Unfinalized(w).forcedCool = w.forcedCool
  BY DEF Deleted, Unfinalized, NoWindow, Window
<1>5. QED
  BY <1>1, <1>2, <1>3, <1>4

\* A status write stores the stamp of its copy, a spec write the live one.
LEMMA StampStored ==
  ASSUME win \in Window, NEW s, NEW t
  PROVE  /\ StatusReplaced(s).forcedCool = s.forcedCool
         /\ [win EXCEPT !.until = t].forcedCool = win.forcedCool
         /\ [win EXCEPT !.nodes = t].forcedCool = win.forcedCool
         /\ [win EXCEPT !.finalizer = t].forcedCool = win.forcedCool
  BY DEF StatusReplaced, Window

\* A write that moves no version moves nothing.
LEMMA StoreFresh ==
  ASSUME FreshCopies, NEW w, NEW b \in BOOLEAN, ~b => w = win, Store(w, b)
  PROVE  /\ synced' => cache' = win'
         /\ ~b => win' = win
  BY DEF Store, FreshCopies

\* Every step keeps the copies that count as current in agreement.
LEMMA FreshStep == TypeOK /\ FreshCopies /\ [Next]_vars => FreshCopies'
<1> SUFFICES ASSUME TypeOK, FreshCopies, [Next]_vars PROVE FreshCopies'
  OBVIOUS
<1>0. /\ win \in Window /\ cache \in Window /\ pSnap \in Window /\ wSnap \in Window
      /\ synced \in BOOLEAN /\ pFresh \in BOOLEAN /\ wFresh \in BOOLEAN
  BY DEF TypeOK
<1>1. /\ synced => cache = win
      /\ pFresh => pPc \in {"apply", "status"} /\ pSnap.forcedCool = win.forcedCool
      /\ wFresh => wPc \in {"stamp", "status"} /\ wSnap.forcedCool = win.forcedCool
  BY DEF FreshCopies
<1>2. CASE AddPolicyFinalizer \/ UserDeletesPolicy \/ TargetDeleted \/ DisruptionEnds
  BY <1>1, <1>2
  DEF AddPolicyFinalizer, UserDeletesPolicy, TargetDeleted, DisruptionEnds,
      FreshCopies, apiVars, pVars, wVars
<1>3. ASSUME NEW atRisk, NEW slotFree, NEW dying,
             PolicyReconcile(atRisk, slotFree, dying)
      PROVE  FreshCopies'
  BY <1>1, <1>3 DEF PolicyReconcile, PolicyGoto, FreshCopies, apiVars, wVars
\* The window reconcile goes on with the live version w.
<1>4. ASSUME NEW w \in Window, NEW pc, NEW f, WindowGoto(pc, w, f), f => win' = w
      PROVE  wFresh' => /\ wPc' \in {"stamp", "status"}
                        /\ wSnap'.forcedCool = win'.forcedCool
  BY <1>4, StampKept DEF WindowGoto, NeedsVersion
<1>5. ASSUME NEW w \in Window, NEW b \in BOOLEAN, ~b => w = win, NEW pc,
             WindowWrites(w, b, pc)
      PROVE  FreshCopies'
  <2>1. /\ synced' => cache' = win'
        /\ ~b => win' = win
    BY <1>5, StoreFresh DEF WindowWrites
  <2>2. wFresh' => wPc' \in {"stamp", "status"} /\ wSnap'.forcedCool = win'.forcedCool
    BY <1>4, <1>5 DEF WindowWrites, Store
  <2>3. pFresh' => pPc' \in {"apply", "status"} /\ pSnap'.forcedCool = win'.forcedCool
    BY <1>1, <1>5, <2>1 DEF WindowWrites
  <2>4. QED
    BY <2>1, <2>2, <2>3 DEF FreshCopies
<1>6. ASSUME NEW w \in Window, NEW pc, WindowPatches(w, pc)
      PROVE  FreshCopies'
  <2>1. CASE WindowWrites(w, w # win, pc)
    BY <1>5, <2>1
  <2>2. CASE WindowDone /\ UNCHANGED <<apiVars, pVars>>
    BY <1>1, <2>2 DEF WindowDone, FreshCopies, apiVars, pVars
  <2>3. QED
    BY <1>6, <2>1, <2>2 DEF WindowPatches
<1>7. ASSUME NEW w \in Window, OthersWrite(w)
      PROVE  FreshCopies'
  BY <1>7 DEF OthersWrite, Store, FreshCopies
\* A last write of the window reconcile, and one of the policy reconcile.
<1>8. ASSUME NEW w, NEW b \in BOOLEAN, ~b => w = win, Store(w, b), WindowDone,
             pFresh' => pFresh /\ ~b, UNCHANGED <<pPc, pSnap>>
      PROVE  FreshCopies'
  BY <1>1, <1>8, StoreFresh DEF WindowDone, FreshCopies
<1>9. ASSUME NEW w, NEW b \in BOOLEAN, ~b => w = win, Store(w, b), PolicyDone,
             wFresh' => wFresh /\ ~b, UNCHANGED <<wPc, wSnap>>
      PROVE  FreshCopies'
  BY <1>1, <1>9, StoreFresh DEF PolicyDone, FreshCopies
<1>10. CASE PolicyStep
  <2>1. ASSUME NEW pc \in {"ensureGet", "deferGet"}, NEW next, EnsureGet(pc, next)
        PROVE  FreshCopies'
    BY <1>1, <2>1 DEF EnsureGet, PolicyDone, FreshCopies, apiVars, wVars
  <2>2. CASE BuildPlan
    BY <1>1, <2>2 DEF BuildPlan, PolicyDone, FreshCopies, apiVars, wVars
  <2>3. ASSUME NEW pc, NEW action \in Nat \cup {NoAction},
               NEW deferred \in BOOLEAN, NEW next \in {"apply", "status"},
               WriteWindow(pc, action, deferred, next)
        PROVE  FreshCopies'
    <3>1. CASE win.exists = pSnap.exists
      <4>1. PICK other \in SUBSET MayDiffer(action) :
              LET w == IF pSnap.exists
                       THEN PatchedWindow(action, deferred, other)
                       ELSE NewWindow(action, deferred)
              IN  PolicyWrites(w, other # {} \/ w # win, next)
        BY <2>3, <3>1 DEF WriteWindow
      <4> DEFINE w == IF pSnap.exists
                      THEN PatchedWindow(action, deferred, other)
                      ELSE NewWindow(action, deferred)
                 b == other # {} \/ w # win
      <4>2. w \in Window /\ b \in BOOLEAN /\ (~b => w = win)
        BY <1>0, PatchedType, NewWindowType
      <4>3. PolicyWrites(w, b, next)
        BY <4>1
      <4> HIDE DEF w, b
      <4>4. /\ synced' => cache' = win'
            /\ ~b => win' = win
        BY <4>2, <4>3, StoreFresh DEF PolicyWrites
      <4>5. pPc' \in {"apply", "status"} /\ pSnap'.forcedCool = win'.forcedCool
        BY <4>2, <4>3, StampKept DEF PolicyWrites, Store
      <4>6. wFresh' => wPc' \in {"stamp", "status"} /\ wSnap'.forcedCool = win'.forcedCool
        BY <1>1, <4>3, <4>4 DEF PolicyWrites
      <4>7. QED
        BY <4>4, <4>5, <4>6 DEF FreshCopies
    <3>2. CASE win.exists # pSnap.exists
      BY <1>1, <2>3, <3>2
      DEF WriteWindow, PolicyDone, FreshCopies, apiVars, wVars
    <3>3. QED
      BY <3>1, <3>2
  <2>4. CASE Apply
    BY <1>1, <2>4 DEF Apply, PolicyGoto, FreshCopies, apiVars, wVars
  <2>5. CASE PolicyStatus
    <3>1. CASE UNCHANGED <<apiVars, wFresh>>
      BY <1>1, <2>5, <3>1 DEF PolicyStatus, PolicyDone, FreshCopies, apiVars
    <3>2. CASE \E w : Store(w, TRUE) /\ wFresh' = FALSE
      BY <1>9, <2>5, <3>2 DEF PolicyStatus
    <3>3. QED
      BY <2>5, <3>1, <3>2 DEF PolicyStatus
  <2>6. CASE ClearNodes
    <3> DEFINE w == [win EXCEPT !.nodes = FALSE]
    <3>1. CASE Store(w, w # win) /\ wFresh' = (wFresh /\ w = win)
      BY <1>0, <1>9, <2>6, <3>1 DEF ClearNodes
    <3>2. CASE UNCHANGED <<apiVars, wFresh>>
      BY <1>1, <2>6, <3>2 DEF ClearNodes, PolicyDone, FreshCopies, apiVars
    <3>3. QED
      BY <2>6, <3>1, <3>2 DEF ClearNodes
  <2>7. QED
    BY <1>10, <2>1, <2>2, <2>3, <2>4, <2>5, <2>6 DEF PolicyStep, TypeOK
<1>11. Deleted(win) \in Window /\ Unfinalized(win) \in Window
  BY <1>0, DeletedType
<1>12. CASE Cleanup
  BY <1>1, <1>7, <1>11, <1>12 DEF Cleanup, FreshCopies, apiVars, pVars, wVars
<1>13. CASE WindowStarts
  <2>1. PICK atRisk, safe, dying : WindowReconcile(atRisk, safe, dying)
    BY <1>13 DEF WindowStarts
  <2>2. PICK pc : WindowGoto(pc, cache, synced)
    BY <2>1 DEF WindowReconcile
  <2>3. win' = win /\ cache' = cache /\ synced' = synced
    BY <2>1 DEF WindowReconcile, apiVars
  <2>4. wFresh' => wPc' \in {"stamp", "status"} /\ wSnap'.forcedCool = win'.forcedCool
    BY <1>0, <1>1, <1>4, <2>2, <2>3
  <2>5. QED
    BY <1>1, <2>1, <2>3, <2>4 DEF WindowReconcile, FreshCopies, pVars
<1>14. CASE WindowStep
  <2>1. CASE AddFinalizer
    <3> DEFINE w == [win EXCEPT !.finalizer = TRUE]
    <3>1. CASE Store(w, w # win) /\ pFresh' = (pFresh /\ w = win)
      BY <1>0, <1>8, <2>1, <3>1 DEF AddFinalizer
    <3>2. CASE UNCHANGED <<apiVars, pFresh>>
      BY <1>1, <2>1, <3>2 DEF AddFinalizer, WindowDone, FreshCopies, apiVars
    <3>3. QED
      BY <2>1, <3>1, <3>2 DEF AddFinalizer
  <2>2. CASE StampForcedCool
    <3> DEFINE s == [wSnap EXCEPT !.forcedCool = TRUE]
               w == StatusReplaced(s)
    <3>1. w \in Window
      <4>1. s \in Window
        BY <1>0 DEF Window
      <4>2. QED
        BY <1>0, <4>1, StatusReplacedType
    <3>2. \/ WindowWrites(w, TRUE, StepPc(wStep, w))
          \/ WindowDone /\ UNCHANGED <<apiVars, pVars>>
      BY <2>2 DEF StampForcedCool
    <3> HIDE DEF s, w
    <3>3. CASE WindowWrites(w, TRUE, StepPc(wStep, w))
      BY <1>5, <3>1, <3>3
    <3>4. CASE WindowDone /\ UNCHANGED <<apiVars, pVars>>
      BY <1>1, <3>4 DEF WindowDone, FreshCopies, apiVars, pVars
    <3>5. QED
      BY <3>2, <3>3, <3>4
  <2>3. CASE AbortCooldown
    <3>1. [win EXCEPT !.until = NoTime] \in Window
      BY <1>0 DEF Window
    <3>2. QED
      BY <1>6, <2>3, <3>1 DEF AbortCooldown
  <2>4. CASE ScaleBack
    <3>1. wFresh' = FALSE
      BY <2>4 DEF ScaleBack, WindowGoto
    <3>2. QED
      BY <1>1, <2>4, <3>1 DEF ScaleBack, FreshCopies, apiVars, pVars
  <2>5. CASE ArmCooldown
    <3>1. [win EXCEPT !.until = wUntil] \in Window
      BY <1>0 DEF TypeOK, Window
    <3>2. QED
      BY <1>6, <2>5, <3>1 DEF ArmCooldown
  <2>6. CASE WriteStatus
    <3> DEFINE s == [wSnap EXCEPT !.phase = StepPhase(wStep)]
               w == StatusReplaced(s)
    <3>1. w \in Window
      <4>1. StepPhase(wStep) \in Phases
        BY DEF StepPhase, Phases
      <4>2. s \in Window
        BY <1>0, <4>1 DEF Window
      <4>3. QED
        BY <1>0, <4>2, StatusReplacedType
    <3>2. \/ UNCHANGED <<apiVars, pVars>> /\ WindowDone
          \/ UNCHANGED <<apiVars, pVars>> /\ WindowGoto("closeFinalizer", wSnap, FALSE)
          \/ /\ Store(w, TRUE) /\ WindowDone
             /\ pFresh' = FALSE /\ UNCHANGED <<pPc, pSnap, pRisk, pBase>>
          \/ WindowWrites(w, TRUE, "closeFinalizer")
      BY <2>6 DEF WriteStatus
    <3> HIDE DEF s, w
    <3>3. CASE UNCHANGED <<apiVars, pVars>> /\ WindowDone
      BY <1>1, <3>3 DEF WindowDone, FreshCopies, apiVars, pVars
    <3>4. CASE UNCHANGED <<apiVars, pVars>> /\ WindowGoto("closeFinalizer", wSnap, FALSE)
      BY <1>1, <3>4 DEF WindowGoto, FreshCopies, apiVars, pVars
    <3>5. CASE /\ Store(w, TRUE) /\ WindowDone
               /\ pFresh' = FALSE /\ UNCHANGED <<pPc, pSnap, pRisk, pBase>>
      BY <1>8, <3>5
    <3>6. CASE WindowWrites(w, TRUE, "closeFinalizer")
      BY <1>5, <3>1, <3>6
    <3>7. QED
      BY <3>2, <3>3, <3>4, <3>5, <3>6
  <2>7. CASE CloseFinalizer
    BY <1>6, <1>11, <2>7 DEF CloseFinalizer
  <2>8. CASE DeleteWindow
    <3>1. CASE Store(Deleted(win), TRUE) /\ pFresh' = FALSE
      BY <1>8, <2>8, <3>1 DEF DeleteWindow
    <3>2. CASE UNCHANGED <<apiVars, pFresh>>
      BY <1>1, <2>8, <3>2 DEF DeleteWindow, WindowDone, FreshCopies, apiVars
    <3>3. QED
      BY <2>8, <3>1, <3>2 DEF DeleteWindow
  <2>9. CASE RestoreFinal
    <3>1. wFresh' = FALSE
      BY <2>9 DEF RestoreFinal, WindowGoto, WindowDone
    <3>2. QED
      BY <1>1, <2>9, <3>1 DEF RestoreFinal, FreshCopies, apiVars, pVars
  <2>10. CASE Unfinalize
    <3> DEFINE w == Unfinalized(win)
    <3>1. CASE Store(w, w # win) /\ pFresh' = (pFresh /\ w = win)
      BY <1>0, <1>8, <2>10, <3>1 DEF Unfinalize
    <3>2. CASE UNCHANGED <<apiVars, pFresh>>
      BY <1>1, <2>10, <3>2 DEF Unfinalize, WindowDone, FreshCopies, apiVars
    <3>3. QED
      BY <2>10, <3>1, <3>2 DEF Unfinalize
  <2>11. QED
    BY <1>14, <2>1, <2>2, <2>3, <2>4, <2>5, <2>6, <2>7, <2>8, <2>9, <2>10
    DEF WindowStep
<1>15. CASE Tick
  BY <1>0, <1>1, <1>15, StampKept DEF Tick, FreshCopies, pVars
<1>16. CASE CacheSync
  BY <1>1, <1>16 DEF CacheSync, FreshCopies, pVars, wVars
<1>17. CASE GarbageCollect \/ UserDeletesWindow
  BY <1>7, <1>11, <1>17 DEF GarbageCollect, UserDeletesWindow
<1>18. CASE ApplyFails
  BY <1>1, <1>18 DEF ApplyFails, PolicyGoto, FreshCopies, apiVars, wVars
<1>19. CASE PolicyCallFails \/ WindowCallFails
  BY <1>1, <1>19
  DEF PolicyCallFails, WindowCallFails, PolicyDone, WindowDone, FreshCopies,
      apiVars, pVars, wVars
<1>20. CASE Crash
  BY <1>20 DEF Crash, PolicyDone, WindowDone, FreshCopies
<1>21. CASE UNCHANGED vars
  BY <1>1, <1>21 DEF vars, FreshCopies, apiVars, pVars, wVars
<1>22. QED
  BY <1>2, <1>3, <1>10, <1>12, <1>13, <1>14, <1>15, <1>16, <1>17, <1>18, <1>19,
     <1>20, <1>21
  DEF Next, Environment

ForcedCoolStays == win.exists /\ win.forcedCool /\ win'.exists => win'.forcedCool

\* No step takes the stamp off a window that lives on.
LEMMA StaysStep == TypeOK /\ FreshCopies /\ [Next]_vars => ForcedCoolStays
<1> SUFFICES ASSUME TypeOK, FreshCopies, [Next]_vars, win.exists, win.forcedCool,
                    win'.exists
             PROVE  win'.forcedCool
  BY DEF ForcedCoolStays
<1>0. win \in Window /\ pSnap \in Window /\ wSnap \in Window
  BY DEF TypeOK
<1>1. CASE win' = win
  BY <1>1
<1>2. CASE Tick
  BY <1>0, <1>2, StampKept DEF Tick
\* Deletions and the removal of the finalizer.
<1>3. CASE win' \in {Deleted(win), Unfinalized(win)}
  BY <1>0, <1>3, StampKept
\* Spec writes.
<1>4. ASSUME NEW t, win' \in {[win EXCEPT !.until = t], [win EXCEPT !.nodes = t],
                              [win EXCEPT !.finalizer = t]}
      PROVE  win'.forcedCool
  BY <1>0, <1>4, StampStored
<1>5. ASSUME NEW pc, NEW action, NEW deferred, NEW next,
             WriteWindow(pc, action, deferred, next)
      PROVE  win'.forcedCool
  <2>1. \/ win' = win
        \/ \E other \in SUBSET MayDiffer(action) : win' = PatchedWindow(action, deferred, other)
    BY <1>5 DEF WriteWindow, PolicyWrites, Store, apiVars
  <2>2. ASSUME NEW other
        PROVE  PatchedWindow(action, deferred, other).forcedCool = win.forcedCool
    BY <1>0 DEF PatchedWindow, Window
  <2>3. QED
    BY <2>1, <2>2
\* Status writes: refused unless their copy is current, so it has the stamp.
<1>6. CASE PolicyStatus
  <2> DEFINE s == [pSnap EXCEPT !.phase = "Open", !.scaled = TRUE]
  <2>1. win' = win \/ (pFresh /\ win' = StatusReplaced(s))
    BY <1>6 DEF PolicyStatus, StatusAccepted, Store, apiVars
  <2>2. s.forcedCool = pSnap.forcedCool
    BY <1>0 DEF Window
  <2>3. pFresh => pSnap.forcedCool = win.forcedCool
    BY DEF FreshCopies
  <2> HIDE DEF s
  <2>4. QED
    BY <1>0, <2>1, <2>2, <2>3, StampStored
<1>7. CASE WriteStatus
  <2> DEFINE s == [wSnap EXCEPT !.phase = StepPhase(wStep)]
  <2>1. win' = win \/ (wFresh /\ win' = StatusReplaced(s))
    BY <1>7 DEF WriteStatus, StatusAccepted, WindowWrites, Store, apiVars
  <2>2. s.forcedCool = wSnap.forcedCool
    BY <1>0 DEF Window
  <2>3. wFresh => wSnap.forcedCool = win.forcedCool
    BY DEF FreshCopies
  <2> HIDE DEF s
  <2>4. QED
    BY <1>0, <2>1, <2>2, <2>3, StampStored
<1>8. CASE StampForcedCool
  <2> DEFINE s == [wSnap EXCEPT !.forcedCool = TRUE]
  <2>1. win' = win \/ win' = StatusReplaced(s)
    BY <1>8 DEF StampForcedCool, WindowWrites, Store, apiVars
  <2>2. s.forcedCool
    BY <1>0 DEF Window
  <2> HIDE DEF s
  <2>3. QED
    BY <1>0, <2>1, <2>2, StampStored
<1>9. CASE PolicyStep
  <2>1. CASE \/ EnsureGet("ensureGet", "plan") \/ EnsureGet("deferGet", "deferWrite")
             \/ BuildPlan \/ Apply
    BY <1>1, <2>1 DEF EnsureGet, BuildPlan, Apply, apiVars
  <2>2. CASE ClearNodes
    BY <1>1, <1>4, <2>2 DEF ClearNodes, Store, apiVars
  <2>3. QED
    BY <1>5, <1>6, <1>9, <2>1, <2>2 DEF PolicyStep
<1>10. CASE WindowStep
  <2>1. CASE ScaleBack \/ RestoreFinal
    BY <1>1, <2>1 DEF ScaleBack, RestoreFinal, apiVars
  <2>2. CASE AddFinalizer
    BY <1>1, <1>4, <2>2 DEF AddFinalizer, Store, apiVars
  <2>3. CASE AbortCooldown
    BY <1>4, <2>3 DEF AbortCooldown, WindowPatches, WindowWrites, Store
  <2>4. CASE ArmCooldown
    BY <1>4, <2>4 DEF ArmCooldown, WindowPatches, WindowWrites, Store
  <2>5. CASE CloseFinalizer \/ DeleteWindow \/ Unfinalize
    BY <1>3, <2>5
    DEF CloseFinalizer, DeleteWindow, Unfinalize, WindowPatches, WindowWrites, Store
  <2>6. QED
    BY <1>7, <1>8, <1>10, <2>1, <2>2, <2>3, <2>4, <2>5 DEF WindowStep
<1>11. CASE Cleanup \/ GarbageCollect \/ UserDeletesWindow
  BY <1>1, <1>3, <1>11
  DEF Cleanup, GarbageCollect, UserDeletesWindow, OthersWrite, Store, apiVars
<1>12. CASE \/ AddPolicyFinalizer \/ WindowStarts \/ CacheSync
            \/ UserDeletesPolicy \/ TargetDeleted \/ DisruptionEnds
            \/ ApplyFails \/ PolicyCallFails \/ WindowCallFails \/ Crash
            \/ UNCHANGED vars
  BY <1>1, <1>12
  DEF AddPolicyFinalizer, WindowStarts, WindowReconcile, CacheSync,
      UserDeletesPolicy, TargetDeleted, DisruptionEnds, ApplyFails,
      PolicyCallFails, WindowCallFails, Crash, apiVars, vars
<1>13. ASSUME NEW atRisk, NEW slotFree, NEW dying,
              PolicyReconcile(atRisk, slotFree, dying)
       PROVE  win'.forcedCool
  BY <1>1, <1>13 DEF PolicyReconcile, apiVars
<1>14. QED
  BY <1>2, <1>9, <1>10, <1>11, <1>12, <1>13 DEF Next, Environment

\* Once maxWindow has force-cooled a window it stays force-cooled while it
\* exists, although both reconcilers replace the whole status from copies of
\* the informer cache: Status().Update's version check is what protects it.
THEOREM ForcedCoolIsFinal == Spec => ForcedCoolSticky
<1>1. Init => FreshCopies
  BY DEF Init, FreshCopies
<1>2. Spec => []FreshCopies
  BY <1>1, FreshStep, TypeCorrect, PTL DEF Spec
<1>3. TypeOK /\ FreshCopies /\ [Next]_vars => [ForcedCoolStays]_vars
  BY StaysStep
<1>4. Spec => [][ForcedCoolStays]_vars
  BY <1>2, <1>3, TypeCorrect, PTL DEF Spec
<1>5. QED
  BY <1>4 DEF ForcedCoolSticky, ForcedCoolStays
=============================================================================
