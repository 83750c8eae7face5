-------------------------- MODULE WindowSerialProofs --------------------------
(***************************************************************************)
(* Theorems about WindowLifecycle when the reconciles run one at a time on *)
(* a cache that has caught up (Overlap = FALSE), for every value of the    *)
(* other constants: whatever call fails, wherever the manager dies, and    *)
(* whoever deletes the window, the policy or the Deployment in between.    *)
(***************************************************************************)
EXTENDS WindowLifecycleProofs

USE PolicyAssumption, LifecycleAssumption

-------------------------------------------------------------------------------
(***************************************************************************)
(* The inductive invariants.  SerialInv says what a policy reconcile may   *)
(* rely on between its calls; TrackInv, for a field that is scaled back,   *)
(* where the raised capacity is on record.                                 *)
(***************************************************************************)
OneAtATime == pPc = "idle" \/ wPc = "idle"

SyncedIsLive == synced => cache = win

\* A policy is only gone once its reconcile is.
PolicyThere == pPc # "idle" => policy \in {"live", "deleting"}

\* c and w record the same, up to the clock, the nodes and the deletion mark.
SameRecord(c, w) ==
  /\ c.action = w.action /\ c.deferred = w.deferred
  /\ c.phase = w.phase /\ c.forcedCool = w.forcedCool
  /\ c.until = NoTime <=> w.until = NoTime

\* While a policy reconcile decides, others can only delete the window.
ReadIsCurrent ==
  /\ pPc \in {"ensureGet", "deferGet"} /\ win.exists
       => cache.exists /\ SameRecord(cache, win)
  /\ pPc \in {"plan", "write", "deferWrite"} /\ win.exists
       => /\ pSnap.exists /\ pSnap.action = win.action /\ pSnap.deferred = win.deferred
          /\ pSnap.until = NoTime <=> win.until = NoTime

\* The window a policy reconcile writes is not held by maxWindow.
NotHeld ==
  pPc \in {"plan", "write", "apply", "deferWrite", "status"} /\ win.exists
    => win.phase # "Closed" /\ ~win.forcedCool

\* A deferred window records no action, and only such a window is deferred.
DeferredIsEmpty ==
  /\ win.deferred => win.action = NoAction
  /\ pPc = "deferGet" /\ win.exists => Waiting(win)
  /\ pPc = "deferWrite" /\ win.exists => win.action = NoAction

SerialInv ==
  OneAtATime /\ SyncedIsLive /\ PolicyThere /\ ReadIsCurrent /\ NotHeld /\ DeferredIsEmpty

UsersActions == {NoAction, UserReplicas}

Returned == target => replicas = UserReplicas

ActionsAreUsers ==
  /\ win.action \in UsersActions /\ cache.action \in UsersActions
  /\ pSnap.action \in UsersActions /\ wSnap.action \in UsersActions
  /\ pPc \in {"write", "apply"} => pBase = UserReplicas

\* What plan.apply may count on.
Applying ==
  pPc = "apply" /\ target
    => win.exists /\ win.finalizer /\ win.action # NoAction /\ win.until = NoTime

\* The finalizer only goes at the end.
UnfinalizedIsOver ==
  win.exists /\ ~win.finalizer => win.phase = "Closed" \/ policy = "gone" \/ ~target

ClosedIsRestored == win.exists /\ win.phase = "Closed" => Returned

\* The window reconcile between its calls.
WindowAtWork ==
  /\ wPc \in {"stamp", "restore", "abort", "arm", "status", "closeFinalizer"} /\ win.exists
       => win.finalizer
  /\ wPc \in {"stamp", "status"} /\ win.exists => win.phase = wSnap.phase
  /\ wPc \in {"stamp", "abort", "status"} /\ wStep = "Close" => Returned
  /\ wPc \in {"arm", "closeFinalizer", "delete", "unfinalize"} => Returned
  /\ wPc \in {"closeFinalizer", "delete"} /\ win.exists => win.phase = "Closed"
  /\ wPc \in {"restoreFinal", "unfinalize"} /\ win.exists
       => win.deleting \/ policy = "gone" \/ ~target
  /\ wPc \in {"restore", "restoreFinal"} /\ win.exists => wSnap.action = win.action

TrackInv ==
  /\ NeverBelowUser /\ ActionsAreUsers /\ RaisedIsTracked /\ Applying
  /\ UnfinalizedIsOver /\ ClosedIsRestored /\ WindowAtWork

-------------------------------------------------------------------------------
(***************************************************************************)
(* What the helpers of the model do to the recorded fields.                *)
(***************************************************************************)

\* A window that is not there records nothing.
LEMMA NoWindowFacts ==
  /\ ~NoWindow.exists /\ NoWindow.action = NoAction /\ ~NoWindow.deferred
  /\ ~NoWindow.finalizer
  BY DEF NoWindow

\* The clock does not run into the nil time.
LEMMA AgeRecord ==
  ASSUME NEW w \in Window
  PROVE  /\ Age(w).exists = w.exists /\ SameRecord(Age(w), w)
         /\ Age(w).finalizer = w.finalizer /\ Age(w).deleting = w.deleting
<1> DEFINE o == IF w.opened < MaxWindow THEN w.opened + 1 ELSE w.opened
           u == IF w.until > 0 THEN w.until - 1 ELSE w.until
<1>1. w.until \in Nat \cup {NoTime}
  BY DEF Window
<1>2. u = NoTime <=> w.until = NoTime
  BY <1>1 DEF NoTime
<1> HIDE DEF o, u
<1> DEFINE v == [w EXCEPT !.opened = o, !.until = u]
<1>3. /\ v.exists = w.exists /\ v.finalizer = w.finalizer /\ v.deleting = w.deleting
      /\ SameRecord(v, w)
  BY <1>2 DEF Window, SameRecord
<1>4. Age(w) = IF w.exists THEN v ELSE w
  BY DEF Age, o, u
<1> HIDE DEF v
<1>5. QED
  BY <1>3, <1>4 DEF SameRecord

\* A finalizer turns a deletion into a mark.
LEMMA DeletedFacts ==
  ASSUME NEW w \in Window
  PROVE  /\ ~w.finalizer => Deleted(w) = NoWindow
         /\ w.finalizer => /\ Deleted(w).exists = w.exists /\ SameRecord(Deleted(w), w)
                           /\ Deleted(w).finalizer /\ Deleted(w).deleting
  BY DEF Deleted, SameRecord, Window

\* A marked object goes with its finalizer, another one only loses it.
LEMMA UnfinalizedFacts ==
  ASSUME NEW w \in Window
  PROVE  /\ w.deleting => Unfinalized(w) = NoWindow
         /\ ~w.deleting => /\ Unfinalized(w).exists = w.exists
                           /\ SameRecord(Unfinalized(w), w)
                           /\ ~Unfinalized(w).finalizer /\ ~Unfinalized(w).deleting
  BY DEF Unfinalized, SameRecord, Window

\* A status write leaves the spec and the metadata alone.
LEMMA StatusFacts ==
  ASSUME win \in Window, NEW s \in Window
  PROVE  LET w == StatusReplaced(s)
         IN  /\ w.exists = win.exists /\ w.finalizer = win.finalizer
             /\ w.deleting = win.deleting /\ w.deferred = win.deferred
             /\ w.action = win.action /\ w.until = win.until
             /\ w.phase = s.phase /\ w.forcedCool = s.forcedCool
<1> DEFINE o == IF s.scaled /\ ~win.scaled THEN 0 ELSE win.opened
<1>1. StatusReplaced(s) = [win EXCEPT !.phase = s.phase, !.forcedCool = s.forcedCool,
                                      !.scaled = s.scaled, !.opened = o]
  BY DEF StatusReplaced
<1> HIDE DEF o
<1>2. QED
  BY <1>1 DEF Window

\* A merge patch of the policy reconcile leaves status and metadata alone.
LEMMA PatchedFacts ==
  ASSUME win \in Window, NEW action, NEW deferred, NEW other,
         NEW w, w = PatchedWindow(action, deferred, other)
  PROVE  /\ w.exists = win.exists /\ w.finalizer = win.finalizer
         /\ w.phase = win.phase /\ w.forcedCool = win.forcedCool
         /\ w.deferred = Merge(pSnap.deferred, deferred, win.deferred)
         /\ w.action \in {action, Merge(pSnap.action, action, win.action)}
         /\ w.until = Merge(pSnap.until, NoTime, win.until)
  BY DEF PatchedWindow, Window

\* The copy a policy reconcile keeps has the spec of the object it read.
LEMMA SpecFacts ==
  ASSUME NEW w
  PROVE  /\ SpecOf(w).exists = w.exists /\ SpecOf(w).action = w.action
         /\ SpecOf(w).deferred = w.deferred
         /\ SpecOf(w).until = NoTime <=> w.until = NoTime
  BY DEF SpecOf, NoWindow, NoTime

\* The copy a window reconcile keeps has the fields it still reads.
LEMMA KeptFacts ==
  ASSUME NEW w, NEW pc
  PROVE  /\ Kept(pc, w).action \in {w.action, NoAction}
         /\ pc \in {"restore", "restoreFinal"} => Kept(pc, w).action = w.action
         /\ pc \in {"stamp", "status"} => Kept(pc, w).phase = w.phase
  BY DEF Kept, StatusOf, NoWindow

\* Writing one field leaves the others.
LEMMA FieldFacts ==
  ASSUME NEW w \in Window, NEW t
  PROVE  /\ /\ [w EXCEPT !.nodes = t].exists = w.exists
            /\ SameRecord([w EXCEPT !.nodes = t], w)
            /\ [w EXCEPT !.nodes = t].finalizer = w.finalizer
            /\ [w EXCEPT !.nodes = t].deleting = w.deleting
         /\ /\ [w EXCEPT !.finalizer = t].exists = w.exists
            /\ SameRecord([w EXCEPT !.finalizer = t], w)
            /\ [w EXCEPT !.finalizer = t].finalizer = t
            /\ [w EXCEPT !.finalizer = t].deleting = w.deleting
  BY DEF Window, SameRecord

\* So does a patch of WindowUntil.
LEMMA UntilFacts ==
  ASSUME NEW w \in Window, NEW t, NEW v, v = [w EXCEPT !.until = t]
  PROVE  /\ v.exists = w.exists /\ v.action = w.action /\ v.deferred = w.deferred
         /\ v.phase = w.phase /\ v.forcedCool = w.forcedCool
         /\ v.finalizer = w.finalizer /\ v.deleting = w.deleting /\ v.until = t
  BY DEF Window

-------------------------------------------------------------------------------
(***************************************************************************)
(* Steps at rest: no reconcile gets on, though it may end, and the window  *)
(* is at most aged, deleted, or given its finalizer.                       *)
(***************************************************************************)
PolicyRests == UNCHANGED <<pPc, pSnap, pBase>> \/ (pPc' = "idle" /\ pSnap' = NoWindow)

WindowRests == UNCHANGED <<wPc, wSnap, wStep>> \/ (wPc' = "idle" /\ wSnap' = NoWindow)

ObjectRests ==
  \/ win' = NoWindow /\ ~win.finalizer
  \/ /\ win'.exists = win.exists /\ SameRecord(win', win)
     /\ win.finalizer => win'.finalizer
     /\ win.deleting => win'.deleting

CopyRests == cache' = win' \/ (cache'.exists = cache.exists /\ SameRecord(cache', cache))

RestStep ==
  /\ PolicyRests /\ WindowRests /\ ObjectRests /\ CopyRests
  /\ replicas' = replicas /\ (target' => target)
  /\ policy = "gone" => policy' = "gone"
  /\ pPc' # "idle" => policy' \in {policy, "deleting"}

\* They keep the first invariant.
LEMMA RestSerial == SerialInv /\ RestStep /\ SyncedIsLive' => SerialInv'
<1> SUFFICES ASSUME SerialInv, RestStep, SyncedIsLive' PROVE SerialInv'
  OBVIOUS
<1> USE NoWindowFacts
<1>1. pPc' = "idle" \/ UNCHANGED <<pPc, pSnap, pBase>>
  BY DEF RestStep, PolicyRests
<1>2. OneAtATime'
  BY <1>1 DEF OneAtATime, RestStep, WindowRests, SerialInv
<1>3. PolicyThere'
  BY <1>1 DEF PolicyThere, RestStep, SerialInv
<1>4. win'.exists => win.exists /\ SameRecord(win', win)
  BY DEF RestStep, ObjectRests
<1>5. ReadIsCurrent'
  <2>1. ASSUME pPc' \in {"ensureGet", "deferGet"}, win'.exists
        PROVE  cache'.exists /\ SameRecord(cache', win')
    <3>1. cache.exists /\ SameRecord(cache, win)
      BY <1>1, <1>4, <2>1 DEF SerialInv, ReadIsCurrent
    <3>2. QED
      BY <1>4, <2>1, <3>1 DEF RestStep, CopyRests, SameRecord
  <2>2. ASSUME pPc' \in {"plan", "write", "deferWrite"}, win'.exists
        PROVE  /\ pSnap'.exists /\ pSnap'.action = win'.action /\ pSnap'.deferred = win'.deferred
               /\ pSnap'.until = NoTime <=> win'.until = NoTime
    BY <1>1, <1>4, <2>2 DEF SerialInv, ReadIsCurrent, SameRecord
  <2>3. QED
    BY <2>1, <2>2 DEF ReadIsCurrent
<1>6. NotHeld'
  BY <1>1, <1>4 DEF NotHeld, SerialInv, SameRecord
<1>7. DeferredIsEmpty'
  <2>1. win'.deferred => win'.action = NoAction
    BY DEF RestStep, ObjectRests, SameRecord, SerialInv, DeferredIsEmpty
  <2>2. pPc' = "deferGet" /\ win'.exists => Waiting(win')
    BY <1>1, <1>4 DEF SerialInv, DeferredIsEmpty, Waiting, IsActive, SameRecord
  <2>3. pPc' = "deferWrite" /\ win'.exists => win'.action = NoAction
    BY <1>1, <1>4 DEF SerialInv, DeferredIsEmpty, SameRecord
  <2>4. QED
    BY <2>1, <2>2, <2>3 DEF DeferredIsEmpty
<1>8. QED
  BY <1>2, <1>3, <1>5, <1>6, <1>7 DEF SerialInv

\* And the second.
LEMMA RestTrack == TrackInv /\ RestStep => TrackInv'
<1> SUFFICES ASSUME TrackInv, RestStep PROVE TrackInv'
  OBVIOUS
<1> USE NoWindowFacts
<1>1. /\ pPc' = "idle" \/ UNCHANGED <<pPc, pSnap, pBase>>
      /\ wPc' = "idle" \/ UNCHANGED <<wPc, wSnap, wStep>>
      /\ replicas' = replicas /\ (target' => target) /\ (policy = "gone" => policy' = "gone")
  BY DEF RestStep, PolicyRests, WindowRests
<1>2. win'.exists => /\ win.exists /\ SameRecord(win', win)
                     /\ (win.finalizer => win'.finalizer) /\ (win.deleting => win'.deleting)
  BY DEF RestStep, ObjectRests
<1>3. win.exists /\ win.finalizer => win'.exists
  BY DEF RestStep, ObjectRests
<1>4. Returned => Returned'
  BY <1>1 DEF Returned
<1>5. NeverBelowUser'
  BY <1>1 DEF TrackInv, NeverBelowUser
<1>6. ActionsAreUsers'
  <2>1. win'.action \in UsersActions
    BY DEF RestStep, ObjectRests, SameRecord, TrackInv, ActionsAreUsers, UsersActions
  <2>2. cache'.action \in UsersActions
    BY <2>1 DEF RestStep, CopyRests, SameRecord, TrackInv, ActionsAreUsers
  <2>3. pSnap'.action \in UsersActions /\ wSnap'.action \in UsersActions
    BY DEF RestStep, PolicyRests, WindowRests, TrackInv, ActionsAreUsers, UsersActions
  <2>4. pPc' \in {"write", "apply"} => pBase' = UserReplicas
    BY <1>1 DEF TrackInv, ActionsAreUsers
  <2>5. QED
    BY <2>1, <2>2, <2>3, <2>4 DEF ActionsAreUsers
<1>7. RaisedIsTracked'
  BY <1>1, <1>2, <1>3 DEF TrackInv, RaisedIsTracked, SameRecord
<1>8. Applying'
  BY <1>1, <1>2, <1>3 DEF TrackInv, Applying, SameRecord
<1>9. UnfinalizedIsOver'
  BY <1>1, <1>2 DEF TrackInv, UnfinalizedIsOver, SameRecord
<1>10. ClosedIsRestored'
  BY <1>2, <1>4 DEF TrackInv, ClosedIsRestored, SameRecord
<1>11. WindowAtWork'
  BY <1>1, <1>2, <1>4 DEF TrackInv, WindowAtWork, SameRecord
<1>12. QED
  BY <1>5, <1>6, <1>7, <1>8, <1>9, <1>10, <1>11 DEF TrackInv

\* A write bumps the version unless it changes nothing, so a synced copy is
\* the live object.
LEMMA StoreSynced ==
  ASSUME SyncedIsLive, NEW w, NEW b, b \/ w = win, Store(w, b)
  PROVE  SyncedIsLive'
  BY DEF Store, SyncedIsLive

\* No step leaves a synced copy that is not the live object.
LEMMA SyncedStep == SyncedIsLive /\ [Next]_vars => SyncedIsLive'
<1> SUFFICES ASSUME SyncedIsLive, [Next]_vars PROVE SyncedIsLive'
  OBVIOUS
<1>1. ASSUME UNCHANGED apiVars PROVE SyncedIsLive'
  BY <1>1 DEF apiVars, SyncedIsLive
<1>2. ASSUME NEW pc, NEW action, NEW deferred, NEW next, WriteWindow(pc, action, deferred, next)
      PROVE  SyncedIsLive'
  <2>1. CASE win.exists = pSnap.exists
    <3>1. PICK other \in SUBSET MayDiffer(action) :
            LET w == IF pSnap.exists THEN PatchedWindow(action, deferred, other)
                     ELSE NewWindow(action, deferred)
            IN  PolicyWrites(w, other # {} \/ w # win, next)
      BY <1>2, <2>1 DEF WriteWindow
    <3> DEFINE w == IF pSnap.exists THEN PatchedWindow(action, deferred, other)
                    ELSE NewWindow(action, deferred)
    <3>2. Store(w, other # {} \/ w # win)
      BY <3>1 DEF PolicyWrites
    <3> HIDE DEF w
    <3>3. QED
      BY <3>2, StoreSynced
  <2>2. QED
    BY <1>1, <1>2, <2>1 DEF WriteWindow
<1>3. CASE PolicyStatus \/ ClearNodes
  BY <1>1, <1>3, StoreSynced DEF PolicyStatus, ClearNodes
<1>4. CASE AddFinalizer \/ DeleteWindow \/ Unfinalize
  BY <1>1, <1>4, StoreSynced DEF AddFinalizer, DeleteWindow, Unfinalize
<1>5. ASSUME NEW w, NEW pc, WindowPatches(w, pc) PROVE SyncedIsLive'
  BY <1>1, <1>5, StoreSynced DEF WindowPatches, WindowWrites
<1>6. CASE StampForcedCool
  BY <1>1, <1>6, StoreSynced DEF StampForcedCool, WindowWrites
<1>7. CASE WriteStatus
  BY <1>1, <1>7, StoreSynced DEF WriteStatus, WindowWrites
<1>8. CASE AbortCooldown \/ ArmCooldown \/ CloseFinalizer
  BY <1>5, <1>8 DEF AbortCooldown, ArmCooldown, CloseFinalizer
<1>9. CASE Cleanup \/ UserDeletesWindow \/ GarbageCollect
  BY <1>1, <1>9, StoreSynced DEF Cleanup, UserDeletesWindow, GarbageCollect, OthersWrite
<1>10. CASE Tick
  BY <1>10 DEF Tick, SyncedIsLive
<1>11. CASE CacheSync \/ Crash
  BY <1>11 DEF CacheSync, Crash, SyncedIsLive
<1>12. CASE PolicyStep
  BY <1>1, <1>2, <1>3, <1>12 DEF PolicyStep, EnsureGet, BuildPlan, Apply
<1>13. CASE WindowStep
  BY <1>1, <1>4, <1>6, <1>7, <1>8, <1>13 DEF WindowStep, ScaleBack, RestoreFinal
<1>14. CASE Environment
  BY <1>1, <1>9, <1>11, <1>14
     DEF Environment, UserDeletesPolicy, TargetDeleted, DisruptionEnds, ApplyFails,
         PolicyCallFails, WindowCallFails
<1>15. QED
  BY <1>1, <1>9, <1>10, <1>11, <1>12, <1>13, <1>14
     DEF Next, vars, AddPolicyFinalizer, PolicyReconcile, WindowStarts, WindowReconcile

\* The steps of the surroundings, and calls that fail, are steps at rest.
LEMMA RestActions ==
  ASSUME TypeOK, PolicyThere,
         \/ UNCHANGED vars \/ AddPolicyFinalizer \/ ClearNodes \/ Cleanup \/ AddFinalizer
         \/ Tick \/ CacheSync \/ GarbageCollect \/ UserDeletesWindow \/ UserDeletesPolicy
         \/ TargetDeleted \/ DisruptionEnds
         \/ PolicyCallFails \/ WindowCallFails \/ Crash
  PROVE  RestStep
<1>0. win \in Window /\ cache \in Window
  BY DEF TypeOK
<1>1. /\ UNCHANGED pVars => PolicyRests
      /\ PolicyDone => PolicyRests
      /\ UNCHANGED wVars => WindowRests
      /\ WindowDone => WindowRests
  BY DEF PolicyRests, WindowRests, pVars, wVars, PolicyDone, WindowDone
<1>2. /\ win' = win => ObjectRests
      /\ cache' = cache => CopyRests
      /\ win' = Deleted(win) => ObjectRests
  BY <1>0, DeletedFacts DEF ObjectRests, CopyRests, SameRecord
<1>3. ASSUME NEW w, OthersWrite(w) PROVE PolicyRests /\ WindowRests /\ CopyRests /\ win' = w
  BY <1>2, <1>3 DEF OthersWrite, Store, PolicyRests, WindowRests
<1>4. CASE UNCHANGED vars
  BY <1>1, <1>2, <1>4 DEF vars, apiVars, envVars, RestStep
<1>5. CASE AddPolicyFinalizer
  BY <1>1, <1>2, <1>5 DEF AddPolicyFinalizer, apiVars, pVars, RestStep
<1>6. CASE ClearNodes
  <2>1. cache' = cache /\ (win' = win \/ win' = [win EXCEPT !.nodes = FALSE])
    BY <1>6 DEF ClearNodes, Store, apiVars
  <2>4. win' = [win EXCEPT !.nodes = FALSE] => ObjectRests
    <3>1. SUFFICES ASSUME win' = [win EXCEPT !.nodes = FALSE] PROVE ObjectRests
      OBVIOUS
    <3>2. QED
      BY <1>0, <3>1, FieldFacts DEF ObjectRests
  <2>2. WindowRests
    BY <1>6 DEF ClearNodes, WindowRests
  <2>3. QED
    BY <1>1, <1>2, <1>6, <2>1, <2>2, <2>4 DEF ClearNodes, PolicyDone, envVars, RestStep
<1>7. CASE Cleanup
  BY <1>1, <1>2, <1>3, <1>7 DEF Cleanup, OthersWrite, apiVars, pVars, RestStep
<1>8. CASE AddFinalizer
  <2>1. cache' = cache /\ (win' = win \/ win' = [win EXCEPT !.finalizer = TRUE])
    BY <1>8 DEF AddFinalizer, Store, apiVars
  <2>4. win' = [win EXCEPT !.finalizer = TRUE] => ObjectRests
    <3>1. SUFFICES ASSUME win' = [win EXCEPT !.finalizer = TRUE] PROVE ObjectRests
      OBVIOUS
    <3>2. QED
      BY <1>0, <3>1, FieldFacts DEF ObjectRests
  <2>2. PolicyRests
    BY <1>8 DEF AddFinalizer, PolicyRests
  <2>3. QED
    BY <1>1, <1>2, <1>8, <2>1, <2>2, <2>4 DEF AddFinalizer, envVars, RestStep
<1>9. CASE Tick
  <2>1. ObjectRests /\ CopyRests
    BY <1>0, <1>9, AgeRecord DEF Tick, ObjectRests, CopyRests
  <2>2. WindowRests
    BY <1>9 DEF Tick, WindowRests
  <2>3. QED
    BY <1>1, <1>9, <2>1, <2>2 DEF Tick, envVars, RestStep
<1>10. CASE CacheSync
  BY <1>1, <1>2, <1>10 DEF CacheSync, CopyRests, envVars, RestStep
<1>11. CASE GarbageCollect \/ UserDeletesWindow
  BY <1>2, <1>3, <1>11 DEF GarbageCollect, UserDeletesWindow, envVars, RestStep
<1>12. CASE UserDeletesPolicy
  BY <1>1, <1>2, <1>12 DEF UserDeletesPolicy, PolicyThere, apiVars, pVars, RestStep
<1>13. CASE TargetDeleted \/ DisruptionEnds
  BY <1>1, <1>2, <1>13 DEF TargetDeleted, DisruptionEnds, apiVars, RestStep
<1>14. CASE PolicyCallFails \/ WindowCallFails
  BY <1>1, <1>2, <1>14 DEF PolicyCallFails, WindowCallFails, apiVars, RestStep
<1>15. CASE Crash
  BY <1>1, <1>2, <1>15 DEF Crash, CopyRests, RestStep
<1>16. QED
  BY <1>4, <1>5, <1>6, <1>7, <1>8, <1>9, <1>10, <1>11, <1>12, <1>13, <1>14, <1>15

-------------------------------------------------------------------------------
(***************************************************************************)
(* What the steps of the two reconciles do.                                *)
(***************************************************************************)

\* The policy reconcile's calls, when they are not steps at rest.
Starts ==
  /\ pPc = "idle" /\ wPc = "idle" /\ synced /\ policy = "live"
  /\ pPc' \in {"ensureGet", "deferGet", "clear"}
  /\ pPc' = "deferGet" => Waiting(cache)
  /\ UNCHANGED <<win, cache, replicas, policy, target, pSnap, pBase, wPc, wSnap, wStep>>

Gets ==
  /\ \/ pPc = "ensureGet" /\ pPc' = "plan"
     \/ pPc = "deferGet" /\ pPc' = "deferWrite"
  /\ ~(cache.exists /\ holdMaxWindow(cache))
  /\ pSnap' = SpecOf(cache)
  /\ UNCHANGED <<win, cache, replicas, policy, target, pBase, wPc, wSnap, wStep>>

Plans ==
  /\ pPc = "plan" /\ pPc' = "write" /\ target
  /\ pBase' = PlannedBaseline(pSnap)
  /\ UNCHANGED <<win, cache, replicas, policy, target, pSnap, wPc, wSnap, wStep>>

\* The window is created, or patched as it was read.
Writes(action, deferred) ==
  /\ win.exists = pSnap.exists /\ win'.exists
  /\ \/ /\ pSnap.exists
        /\ win'.finalizer = win.finalizer
        /\ win'.phase = win.phase /\ win'.forcedCool = win.forcedCool
        /\ win'.deferred = Merge(pSnap.deferred, deferred, win.deferred)
        /\ win'.action \in {action, Merge(pSnap.action, action, win.action)}
        /\ win'.until = Merge(pSnap.until, NoTime, win.until)
     \/ /\ ~pSnap.exists
        /\ win'.finalizer /\ win'.phase = "" /\ ~win'.forcedCool
        /\ win'.deferred = deferred /\ win'.action = action /\ win'.until = NoTime
  /\ pSnap'.action = NoAction
  /\ UNCHANGED <<cache, replicas, policy, target, pBase, wPc, wSnap, wStep>>

Applies ==
  /\ pPc = "apply" /\ pPc' = "status"
  /\ replicas' \in Nat /\ replicas' >= replicas /\ (~target => replicas' = replicas)
  /\ UNCHANGED <<win, cache, policy, target, pSnap, pBase, wPc, wSnap, wStep>>

Reports ==
  /\ pPc = "status" /\ pPc' = "idle" /\ pSnap' = NoWindow
  /\ win'.exists = win.exists /\ win'.finalizer = win.finalizer
  /\ win'.deleting = win.deleting /\ win'.deferred = win.deferred
  /\ win'.action = win.action /\ win'.until = win.until /\ win'.phase = "Open"
  /\ UNCHANGED <<cache, replicas, policy, target, wPc, wSnap, wStep>>

\* Every step of the policy reconcile, a failed plan.apply included, is one
\* of these or a step at rest.
LEMMA PolicySteps ==
  ASSUME TypeOK, PolicyThere, Overlap = FALSE,
         \/ \E atRisk \in AtRisk, slotFree \in BOOLEAN, dying \in StillDying :
              PolicyReconcile(atRisk, slotFree, dying)
         \/ PolicyStep
         \/ ApplyFails
  PROVE  \/ RestStep \/ Starts \/ Gets \/ Plans \/ Applies \/ Reports
         \/ pPc = "write" /\ pPc' = "apply" /\ Writes(pBase, FALSE)
         \/ pPc = "deferWrite" /\ pPc' = "status" /\ Writes(NoAction, TRUE)
<1>0. win \in Window /\ cache \in Window /\ pSnap \in Window /\ replicas \in Nat
  BY DEF TypeOK
\* A reconcile that returns without a write.
<1>1. ASSUME PolicyDone, UNCHANGED <<win, cache, replicas, policy, target, wPc, wSnap, wStep>>
      PROVE  RestStep
  BY <1>1 DEF PolicyDone, RestStep, PolicyRests, WindowRests, ObjectRests, CopyRests, SameRecord
<1>2. ASSUME NEW atRisk, NEW slotFree, NEW dying, PolicyReconcile(atRisk, slotFree, dying)
      PROVE  Starts
  BY <1>2 DEF PolicyReconcile, MayStart, PolicyGoto, Starts, apiVars, wVars, envVars
<1>3. ASSUME NEW pc, NEW next, EnsureGet(pc, next),
             (pc = "ensureGet" /\ next = "plan") \/ (pc = "deferGet" /\ next = "deferWrite")
      PROVE  RestStep \/ Gets
  <2>1. CASE cache.exists /\ holdMaxWindow(cache)
    BY <1>1, <1>3, <2>1 DEF EnsureGet, apiVars, wVars, envVars
  <2>2. CASE ~(cache.exists /\ holdMaxWindow(cache))
    BY <1>3, <2>2 DEF EnsureGet, Gets, apiVars, wVars, envVars
  <2>3. QED
    BY <2>1, <2>2
<1>4. CASE BuildPlan
  BY <1>1, <1>4 DEF BuildPlan, Plans, apiVars, wVars, envVars
<1>5. ASSUME NEW pc, NEW action, NEW deferred, NEW next, WriteWindow(pc, action, deferred, next)
      PROVE  RestStep \/ (pPc = pc /\ pPc' = next /\ Writes(action, deferred))
  <2>1. CASE win.exists # pSnap.exists
    BY <1>1, <1>5, <2>1 DEF WriteWindow, apiVars, wVars, envVars
  <2>2. CASE win.exists = pSnap.exists
    <3>1. PICK other \in SUBSET MayDiffer(action) :
            LET w == IF pSnap.exists THEN PatchedWindow(action, deferred, other)
                     ELSE NewWindow(action, deferred)
            IN  PolicyWrites(w, other # {} \/ w # win, next)
      BY <1>5, <2>2 DEF WriteWindow
    <3> DEFINE w == IF pSnap.exists THEN PatchedWindow(action, deferred, other)
                    ELSE NewWindow(action, deferred)
    <3>2. /\ win' = w /\ pSnap' = StatusOf(w) /\ pPc' = next
          /\ UNCHANGED <<cache, pBase, wPc, wSnap, wStep>>
      BY <3>1 DEF PolicyWrites, Store
    <3>3. pPc = pc /\ UNCHANGED <<replicas, policy, target>>
      BY <1>5 DEF WriteWindow, envVars
    <3>4. pSnap'.action = NoAction
      BY <3>2 DEF StatusOf, NoWindow
    <3>5. CASE pSnap.exists
      <4>1. win' = PatchedWindow(action, deferred, other)
        BY <3>2, <3>5
      <4>2. /\ win'.exists = win.exists /\ win'.finalizer = win.finalizer
            /\ win'.phase = win.phase /\ win'.forcedCool = win.forcedCool
            /\ win'.deferred = Merge(pSnap.deferred, deferred, win.deferred)
            /\ win'.action \in {action, Merge(pSnap.action, action, win.action)}
            /\ win'.until = Merge(pSnap.until, NoTime, win.until)
        BY <1>0, <4>1, PatchedFacts
      <4> HIDE DEF w
      <4>3. QED
        BY <2>2, <3>2, <3>3, <3>4, <3>5, <4>2 DEF Writes
    <3>6. CASE ~pSnap.exists
      <4>1. win' = NewWindow(action, deferred)
        BY <3>2, <3>6
      <4>2. /\ win'.exists /\ win'.finalizer /\ win'.phase = "" /\ ~win'.forcedCool
            /\ win'.deferred = deferred /\ win'.action = action /\ win'.until = NoTime
        BY <4>1 DEF NewWindow, NoWindow
      <4> HIDE DEF w
      <4>3. QED
        BY <2>2, <3>2, <3>3, <3>4, <3>6, <4>2 DEF Writes
    <3>7. QED
      BY <3>5, <3>6
  <2>3. QED
    BY <2>1, <2>2
<1>6. CASE Apply
  <2>1. pBase \in Nat /\ pRisk \in Nat
    BY DEF TypeOK
  <2>2. TargetReplicas(pBase, pRisk) \in Nat
    BY <2>1, TargetReplicasType
  <2>3. replicas' \in Nat /\ replicas' >= replicas /\ (~target => replicas' = replicas)
    BY <1>0, <1>6, <2>2 DEF Apply
  <2>4. QED
    BY <1>6, <2>3 DEF Apply, PolicyGoto, Applies, apiVars, wVars, envVars
<1>7. CASE ApplyFails
  BY <1>0, <1>7 DEF ApplyFails, PolicyGoto, Applies, apiVars, wVars
<1>8. CASE PolicyStatus
  <2> DEFINE s == [pSnap EXCEPT !.phase = "Open", !.scaled = TRUE]
  <2>1. s \in Window /\ s.phase = "Open"
    BY <1>0 DEF Window, Phases
  <2>2. /\ pPc = "status" /\ PolicyDone
        /\ Store(StatusReplaced(s), TRUE) \/ UNCHANGED apiVars
        /\ UNCHANGED <<replicas, policy, target, wPc, wSnap, wStep>>
    BY <1>8 DEF PolicyStatus, envVars
  <2> HIDE DEF s
  <2>3. CASE UNCHANGED apiVars
    BY <1>1, <2>2, <2>3 DEF apiVars
  <2>4. CASE Store(StatusReplaced(s), TRUE)
    BY <1>0, <2>1, <2>2, <2>4, StatusFacts DEF Reports, Store, PolicyDone
  <2>5. QED
    BY <2>2, <2>3, <2>4
<1>9. CASE ClearNodes
  BY <1>9, RestActions
<1>10. CASE PolicyStep
  <2>1. CASE EnsureGet("ensureGet", "plan") \/ EnsureGet("deferGet", "deferWrite")
    BY <1>3, <2>1
  <2>2. CASE WriteWindow("write", pBase, FALSE, "apply")
    BY <1>5, <2>2
  <2>3. CASE WriteWindow("deferWrite", NoAction, TRUE, "status")
    BY <1>5, <2>3
  <2>4. QED
    BY <1>4, <1>6, <1>8, <1>9, <1>10, <2>1, <2>2, <2>3 DEF PolicyStep
<1>11. QED
  BY <1>2, <1>7, <1>10

\* The window reconcile's copy is of the live object, as far as it is kept.
Copied ==
  /\ wSnap'.action \in {win'.action, NoAction}
  /\ wPc' \in {"restore", "restoreFinal"} => wSnap'.action = win'.action
  /\ wPc' \in {"stamp", "status"} => wSnap'.phase = win'.phase

\* While it works, the policy reconcile is idle and nothing else moves.
Alone ==
  /\ pPc = "idle" /\ UNCHANGED <<cache, policy, target, pPc, pSnap, pBase>>
  /\ Copied

\* A write of the window reconcile leaves these fields alone.
SpecStays ==
  /\ win'.exists = win.exists /\ win'.finalizer = win.finalizer
  /\ win'.deleting = win.deleting /\ win'.deferred = win.deferred
  /\ win'.action = win.action

\* Its calls, when they are not steps at rest.
Begins ==
  /\ wPc = "idle" /\ win.exists
  /\ \/ wPc' = "restoreFinal" /\ (win.deleting \/ policy = "gone" \/ ~target)
     \/ wPc' = "addFinalizer"
     \/ wPc' = "closeFinalizer" /\ win.finalizer /\ win.phase = "Closed"
     \/ /\ wPc' \in {"stamp", "restore", "abort", "status"} /\ win.finalizer
        /\ wStep' = "Close" => win.until # NoTime
  /\ UNCHANGED <<win, replicas>>

Stamps ==
  /\ wPc = "stamp" /\ wPc' \in {"restore", "abort", "status"} /\ win.exists
  /\ SpecStays /\ win'.until = win.until /\ win'.phase = wSnap.phase
  /\ UNCHANGED <<wStep, replicas>>

Rearms ==
  /\ (wPc = "abort" /\ win'.until = NoTime) \/ wPc = "arm"
  /\ wPc' = "status" /\ win.exists
  /\ SpecStays /\ win'.phase = win.phase
  /\ UNCHANGED <<wStep, replicas>>

Restores ==
  /\ \/ wPc = "restore" /\ wPc' = "arm"
     \/ wPc = "restoreFinal" /\ wPc' \in {"unfinalize", "idle"}
  /\ replicas' = Restored(wSnap) /\ UNCHANGED win

Concludes ==
  /\ wPc = "status"
  /\ \/ win.exists /\ SpecStays /\ win'.until = win.until /\ win'.phase = StepPhase(wStep)
     \/ win' = win /\ wSnap.phase = StepPhase(wStep)
  /\ wPc' = "idle" \/ (wPc' = "closeFinalizer" /\ wStep = "Close")
  /\ UNCHANGED replicas

Unfinalizes ==
  /\ \/ wPc = "closeFinalizer" /\ wPc' = "delete"
     \/ wPc = "unfinalize" /\ wPc' = "idle"
  /\ win.exists /\ win' = Unfinalized(win)
  /\ UNCHANGED replicas

\* Every step of the window reconcile is one of these or a step at rest.
LEMMA WindowSteps ==
  ASSUME TypeOK, SerialInv, Overlap = FALSE, WindowStarts \/ WindowStep
  PROVE  \/ RestStep
         \/ /\ Alone
            /\ Begins \/ Stamps \/ Rearms \/ Restores \/ Concludes \/ Unfinalizes
<1> USE NoWindowFacts
<1>0. /\ win \in Window /\ cache \in Window /\ wSnap \in Window
      /\ wPc # "idle" => pPc = "idle"
      /\ synced => cache = win
      /\ PolicyThere
  BY DEF TypeOK, SerialInv, OneAtATime, SyncedIsLive
\* A reconcile that returns without a write.
<1>1. ASSUME WindowDone, UNCHANGED <<win, cache, replicas, policy, target, pPc, pSnap, pBase>>
      PROVE  RestStep
  BY <1>1 DEF WindowDone, RestStep, PolicyRests, WindowRests, ObjectRests, CopyRests, SameRecord
<1>2. ASSUME NEW pc, NEW w, NEW fresh, WindowGoto(pc, w, fresh)
      PROVE  wPc' = pc /\ (win' = w => Copied)
  BY <1>2, KeptFacts DEF WindowGoto, Copied
<1>2a. ASSUME NEW w, NEW fresh, NEW pc \in {"arm", "unfinalize", "closeFinalizer"},
              WindowGoto(pc, w, fresh)
       PROVE  wPc' = pc /\ Copied
  <2>1. wPc' = pc /\ wSnap' = NoWindow
    BY <1>2a DEF WindowGoto, Kept
  <2>2. QED
    BY <2>1 DEF Copied
<1>3. WindowDone => wPc' = "idle" /\ Copied
  BY DEF WindowDone, Copied
\* A patch: an error, or the reconcile goes on with what it wrote.
<1>4. ASSUME NEW w, NEW pc, WindowPatches(w, pc), UNCHANGED <<replicas, envVars>>, wPc # "idle"
      PROVE  \/ RestStep
             \/ Alone /\ win.exists /\ win' = w /\ wPc' = pc /\ wStep' = wStep
  <2>1. CASE ~win.exists
    BY <1>1, <1>4, <2>1 DEF WindowPatches, apiVars, pVars, envVars
  <2>2. CASE win.exists
    <3>1. WindowWrites(w, w # win, pc)
      BY <1>4, <2>2 DEF WindowPatches
    <3>2. WindowGoto(pc, w, TRUE) /\ win' = w
      BY <3>1 DEF WindowWrites, Store
    <3>3. wPc' = pc /\ Copied
      BY <1>2, <3>2
    <3>4. QED
      BY <1>0, <1>4, <2>2, <3>1, <3>2, <3>3 DEF WindowWrites, Store, Alone, envVars
  <2>3. QED
    BY <2>1, <2>2
<1>5. CASE WindowStarts
  <2>1. PICK atRisk \in AtRisk, safe \in SpareSafe, dying \in StillDying :
          WindowReconcile(atRisk, safe, dying)
    BY <1>5 DEF WindowStarts
  <2> DEFINE step == decideWindowStep(cache, atRisk, safe, maxWindowExceeded(cache))
  <2>2. step = "Close" => cache.until # NoTime
    BY DEF decideWindowStep
  <2>3. StepPc(step, cache) \in {"restore", "abort", "status"}
    BY DEF StepPc
  <2>4. /\ wPc = "idle" /\ pPc = "idle" /\ synced /\ cache.exists
        /\ UNCHANGED <<win, cache, replicas, policy, target, pPc, pSnap, pBase>>
    BY <2>1 DEF WindowReconcile, MayStart, apiVars, pVars, envVars
  <2>5. cache = win /\ win' = cache
    BY <1>0, <2>4
  <2>6. ASSUME NEW pc, WindowGoto(pc, cache, synced) PROVE Alone /\ wPc' = pc
    BY <1>2, <2>4, <2>5, <2>6 DEF Alone
  <2>7. CASE /\ cache.deleting \/ (cache.finalizer /\ (policy = "gone" \/ ~target))
             /\ WindowGoto("restoreFinal", cache, synced)
    BY <2>4, <2>5, <2>6, <2>7 DEF Begins
  <2>8. CASE WindowGoto("addFinalizer", cache, synced)
    BY <2>4, <2>5, <2>6, <2>8 DEF Begins
  <2>9. CASE /\ cache.finalizer /\ cache.phase = "Closed"
             /\ WindowGoto("closeFinalizer", cache, synced)
    BY <2>4, <2>5, <2>6, <2>9 DEF Begins
  <2>10. ASSUME cache.finalizer, wStep' = step,
                NEW pc, pc = "stamp" \/ pc = StepPc(step, cache), WindowGoto(pc, cache, synced)
         PROVE  Alone /\ Begins
    <3>1. pc \in {"stamp", "restore", "abort", "status"}
      BY <2>3, <2>10
    <3> HIDE DEF step
    <3>2. QED
      BY <2>2, <2>4, <2>5, <2>6, <2>10, <3>1 DEF Begins
  <2>11. \/ /\ cache.deleting \/ (cache.finalizer /\ (policy = "gone" \/ ~target))
            /\ WindowGoto("restoreFinal", cache, synced)
         \/ WindowGoto("addFinalizer", cache, synced)
         \/ /\ cache.finalizer /\ cache.phase = "Closed"
            /\ WindowGoto("closeFinalizer", cache, synced)
         \/ /\ cache.finalizer /\ wStep' = step
            /\ \/ WindowGoto("stamp", cache, synced)
               \/ WindowGoto(StepPc(step, cache), cache, synced)
    BY <2>1 DEF WindowReconcile
  <2> HIDE DEF step
  <2>12. QED
    BY <2>7, <2>8, <2>9, <2>10, <2>11
<1>6. CASE AddFinalizer
  BY <1>0, <1>6, RestActions
<1>7. CASE StampForcedCool
  <2> DEFINE s == [wSnap EXCEPT !.forcedCool = TRUE]
  <2>1. s \in Window /\ s.phase = wSnap.phase
    BY <1>0 DEF Window
  <2>2. CASE ~StatusAccepted(wFresh)
    BY <1>1, <1>7, <2>2 DEF StampForcedCool, apiVars, pVars, envVars
  <2>3. CASE StatusAccepted(wFresh)
    <3>1. WindowWrites(StatusReplaced(s), TRUE, StepPc(wStep, StatusReplaced(s)))
      BY <1>7, <2>3 DEF StampForcedCool
    <3> HIDE DEF s
    <3>2. /\ win' = StatusReplaced(s) /\ cache' = cache
          /\ WindowGoto(StepPc(wStep, StatusReplaced(s)), StatusReplaced(s), TRUE)
          /\ UNCHANGED <<wStep, pPc, pSnap, pBase>>
      BY <3>1 DEF WindowWrites, Store
    <3>3. StepPc(wStep, StatusReplaced(s)) \in {"restore", "abort", "status"}
      BY DEF StepPc
    <3>4. wPc' \in {"restore", "abort", "status"} /\ Copied
      BY <1>2, <3>2, <3>3
    <3>5. Alone /\ wPc = "stamp" /\ win.exists /\ replicas' = replicas
      BY <1>0, <1>7, <2>3, <3>2, <3>4 DEF StampForcedCool, StatusAccepted, Alone, envVars
    <3>6. SpecStays /\ win'.until = win.until /\ win'.phase = wSnap.phase
      BY <1>0, <2>1, <3>2, StatusFacts DEF SpecStays
    <3>7. QED
      BY <3>2, <3>4, <3>5, <3>6 DEF Stamps
  <2>4. QED
    BY <2>2, <2>3
<1>8. CASE AbortCooldown
  <2>1. wPc = "abort" /\ replicas' = replicas
    BY <1>8 DEF AbortCooldown
  <2>2. \/ RestStep
        \/ /\ Alone /\ win.exists /\ wPc' = "status" /\ wStep' = wStep
           /\ win' = [win EXCEPT !.until = NoTime]
    BY <1>4, <1>8 DEF AbortCooldown
  <2>3. win' = [win EXCEPT !.until = NoTime]
          => SpecStays /\ win'.phase = win.phase /\ win'.until = NoTime
    BY <1>0, UntilFacts DEF SpecStays
  <2>4. QED
    BY <2>1, <2>2, <2>3 DEF Rearms
<1>9. CASE ArmCooldown
  <2>1. wPc = "arm" /\ replicas' = replicas
    BY <1>9 DEF ArmCooldown
  <2>2. \/ RestStep
        \/ /\ Alone /\ win.exists /\ wPc' = "status" /\ wStep' = wStep
           /\ win' = [win EXCEPT !.until = wUntil]
    BY <1>4, <1>9 DEF ArmCooldown
  <2>3. win' = [win EXCEPT !.until = wUntil] => SpecStays /\ win'.phase = win.phase
    BY <1>0, UntilFacts DEF SpecStays
  <2>4. QED
    BY <2>1, <2>2, <2>3 DEF Rearms
<1>10. CASE ScaleBack
  <2>1. wPc' = "arm" /\ Copied
    BY <1>10, <1>2a DEF ScaleBack
  <2>2. QED
    BY <1>0, <1>10, <2>1 DEF ScaleBack, Restores, Alone, apiVars, pVars, envVars
<1>11. CASE RestoreFinal
  <2>1. wPc' \in {"unfinalize", "idle"} /\ Copied
    BY <1>3, <1>11, <1>2a DEF RestoreFinal
  <2>2. QED
    BY <1>0, <1>11, <2>1 DEF RestoreFinal, Restores, Alone, apiVars, pVars, envVars
<1>12. CASE WriteStatus
  <2> DEFINE s == [wSnap EXCEPT !.phase = StepPhase(wStep)]
  <2>1. s \in Window /\ s.phase = StepPhase(wStep)
    BY <1>0 DEF Window, StepPhase, Phases
  <2>2. \/ WindowDone /\ UNCHANGED <<apiVars, pVars>>
        \/ /\ s = wSnap /\ wStep = "Close" /\ WindowGoto("closeFinalizer", wSnap, FALSE)
           /\ UNCHANGED <<apiVars, pVars>>
        \/ /\ win.exists /\ Store(StatusReplaced(s), TRUE)
           /\ \/ WindowDone
              \/ WindowGoto("closeFinalizer", StatusReplaced(s), TRUE) /\ wStep = "Close"
           /\ UNCHANGED <<pPc, pSnap, pBase>>
    BY <1>12 DEF WriteStatus, StatusAccepted, WindowWrites
  <2>3. wPc = "status" /\ pPc = "idle" /\ UNCHANGED <<replicas, policy, target>>
    BY <1>0, <1>12 DEF WriteStatus, envVars
  <2> HIDE DEF s
  <2>4. CASE WindowDone /\ UNCHANGED <<apiVars, pVars>>
    BY <1>1, <2>3, <2>4 DEF apiVars, pVars
  <2>5. CASE /\ s = wSnap /\ wStep = "Close" /\ WindowGoto("closeFinalizer", wSnap, FALSE)
             /\ UNCHANGED <<apiVars, pVars>>
    <3>1. wPc' = "closeFinalizer" /\ Copied
      BY <1>2a, <2>5
    <3>2. QED
      BY <2>1, <2>3, <2>5, <3>1 DEF Concludes, Alone, apiVars, pVars
  <2>6. CASE /\ win.exists /\ Store(StatusReplaced(s), TRUE)
             /\ \/ WindowDone
                \/ WindowGoto("closeFinalizer", StatusReplaced(s), TRUE) /\ wStep = "Close"
             /\ UNCHANGED <<pPc, pSnap, pBase>>
    <3>1. win' = StatusReplaced(s) /\ cache' = cache
      BY <2>6 DEF Store
    <3>2. SpecStays /\ win'.until = win.until /\ win'.phase = StepPhase(wStep)
      BY <1>0, <2>1, <3>1, StatusFacts DEF SpecStays
    <3>3. Copied /\ (wPc' = "idle" \/ (wPc' = "closeFinalizer" /\ wStep = "Close"))
      BY <1>2, <1>3, <2>6, <3>1
    <3>4. QED
      BY <2>3, <2>6, <3>1, <3>2, <3>3 DEF Concludes, Alone
  <2>7. QED
    BY <2>2, <2>4, <2>5, <2>6
<1>13. CASE CloseFinalizer
  <2>1. \/ RestStep
        \/ Alone /\ win.exists /\ win' = Unfinalized(win) /\ wPc' = "delete"
    BY <1>4, <1>13 DEF CloseFinalizer
  <2>2. QED
    BY <1>13, <2>1 DEF CloseFinalizer, Unfinalizes
<1>14. CASE DeleteWindow
  <2>1. ObjectRests
    BY <1>0, <1>14, DeletedFacts DEF DeleteWindow, Store, apiVars, ObjectRests, SameRecord
  <2>2. CopyRests /\ PolicyRests /\ WindowRests
    BY <1>14 DEF DeleteWindow, WindowDone, Store, apiVars, CopyRests, SameRecord, PolicyRests,
                 WindowRests
  <2>3. QED
    BY <1>14, <2>1, <2>2 DEF DeleteWindow, RestStep, envVars
<1>15. CASE Unfinalize
  <2>1. CASE ~win.exists
    BY <1>1, <1>15, <2>1 DEF Unfinalize, apiVars, envVars
  <2>2. CASE win.exists
    <3>1. /\ wPc = "unfinalize" /\ win' = Unfinalized(win) /\ cache' = cache /\ WindowDone
          /\ UNCHANGED <<replicas, policy, target, pPc, pSnap, pBase>>
      BY <1>15, <2>2 DEF Unfinalize, Store, envVars
    <3>2. QED
      BY <1>0, <1>3, <2>2, <3>1 DEF Unfinalizes, Alone
  <2>3. QED
    BY <2>1, <2>2
<1>16. QED
  BY <1>5, <1>6, <1>7, <1>8, <1>9, <1>10, <1>11, <1>12, <1>13, <1>14, <1>15 DEF WindowStep

-------------------------------------------------------------------------------
(***************************************************************************)
(* What a policy reconcile relies on.                                      *)
(***************************************************************************)

\* A reconcile's patch of the window it read records what it meant to.
LEMMA WritesFacts ==
  ASSUME TypeOK, SerialInv, NEW action, NEW deferred, Writes(action, deferred),
         pPc \in {"write", "deferWrite"}
  PROVE  /\ win'.exists /\ win'.deferred = deferred
         /\ win'.action = action /\ win'.until = NoTime
         /\ win'.phase # "Closed" /\ ~win'.forcedCool
         /\ win.exists => win'.finalizer = win.finalizer
         /\ ~win.exists => win'.finalizer
<1>1. CASE pSnap.exists
  <2>1. win.exists
    BY <1>1 DEF Writes
  <2>2. /\ pSnap.action = win.action /\ pSnap.deferred = win.deferred
        /\ pSnap.until = NoTime <=> win.until = NoTime
    BY <2>1 DEF SerialInv, ReadIsCurrent
  <2>3. win.phase # "Closed" /\ ~win.forcedCool
    BY <2>1 DEF SerialInv, NotHeld
  <2>4. QED
    BY <1>1, <2>1, <2>2, <2>3 DEF Writes, Merge
<1>2. CASE ~pSnap.exists
  BY <1>2 DEF Writes
<1>3. QED
  BY <1>1, <1>2

\* The steps of a policy reconcile keep SerialInv.
LEMMA PolicySerial ==
  ASSUME TypeOK, SerialInv, SyncedIsLive',
         \/ Starts \/ Gets \/ Plans \/ Applies \/ Reports
         \/ pPc = "write" /\ pPc' = "apply" /\ Writes(pBase, FALSE)
         \/ pPc = "deferWrite" /\ pPc' = "status" /\ Writes(NoAction, TRUE)
  PROVE  SerialInv'
<1>0. wPc = "idle" /\ wPc' = wPc
  BY DEF SerialInv, OneAtATime, Starts, Gets, Plans, Applies, Reports, Writes
<1>1. OneAtATime'
  BY <1>0 DEF OneAtATime
<1>2. PolicyThere'
  BY DEF SerialInv, PolicyThere, Starts, Gets, Plans, Applies, Reports, Writes
<1>3. SUFFICES ReadIsCurrent' /\ NotHeld' /\ DeferredIsEmpty'
  BY <1>1, <1>2 DEF SerialInv
<1>4. CASE Starts
  <2>1. cache' = win' /\ win' = win /\ cache = win
    BY <1>4 DEF Starts, SerialInv, SyncedIsLive
  <2>2. ReadIsCurrent'
    BY <1>4, <2>1 DEF Starts, ReadIsCurrent, SameRecord
  <2>3. NotHeld'
    BY <1>4 DEF Starts, NotHeld
  <2>4. DeferredIsEmpty'
    BY <1>4, <2>1 DEF Starts, SerialInv, DeferredIsEmpty
  <2>5. QED
    BY <2>2, <2>3, <2>4
<1>5. CASE Gets
  <2>1. ASSUME win.exists
        PROVE  /\ cache.exists /\ SameRecord(cache, win)
               /\ win.phase # "Closed" /\ ~win.forcedCool
    <3>1. cache.exists /\ SameRecord(cache, win)
      BY <1>5, <2>1 DEF Gets, SerialInv, ReadIsCurrent
    <3>2. QED
      BY <1>5, <3>1 DEF Gets, holdMaxWindow, SameRecord
  <2>2. ReadIsCurrent'
    BY <1>5, <2>1, SpecFacts DEF Gets, ReadIsCurrent, SameRecord
  <2>3. NotHeld'
    BY <1>5, <2>1 DEF Gets, NotHeld
  <2>4. ASSUME pPc' = "deferWrite", win.exists PROVE win.action = NoAction
    <3>1. Waiting(win)
      BY <1>5, <2>4 DEF Gets, SerialInv, DeferredIsEmpty
    <3>2. IsActive(win)
      BY <2>1, <2>4 DEF IsActive, TypeOK, Window, Phases
    <3>3. QED
      BY <2>4, <3>1, <3>2 DEF Waiting, SerialInv, DeferredIsEmpty
  <2>5. DeferredIsEmpty'
    BY <1>5, <2>4 DEF Gets, SerialInv, DeferredIsEmpty
  <2>6. QED
    BY <2>2, <2>3, <2>5
<1>6. CASE Plans
  BY <1>6 DEF Plans, SerialInv, ReadIsCurrent, NotHeld, DeferredIsEmpty
<1>7. CASE Applies
  BY <1>7 DEF Applies, SerialInv, ReadIsCurrent, NotHeld, DeferredIsEmpty
<1>8. CASE Reports
  BY <1>8 DEF Reports, SerialInv, ReadIsCurrent, NotHeld, DeferredIsEmpty
<1>9. CASE pPc = "write" /\ pPc' = "apply" /\ Writes(pBase, FALSE)
  <2>1. ~win'.deferred /\ win'.phase # "Closed" /\ ~win'.forcedCool
    BY <1>9, WritesFacts
  <2>2. QED
    BY <1>9, <2>1 DEF ReadIsCurrent, NotHeld, DeferredIsEmpty
<1>10. CASE pPc = "deferWrite" /\ pPc' = "status" /\ Writes(NoAction, TRUE)
  <2>1. win'.action = NoAction /\ win'.phase # "Closed" /\ ~win'.forcedCool
    BY <1>10, WritesFacts
  <2>2. QED
    BY <1>10, <2>1 DEF ReadIsCurrent, NotHeld, DeferredIsEmpty
<1>11. QED
  BY <1>4, <1>5, <1>6, <1>7, <1>8, <1>9, <1>10

\* No step of the window reconcile touches what is recorded, unless the
\* window goes away.
LEMMA RecordStays ==
  ASSUME TypeOK, Begins \/ Stamps \/ Rearms \/ Restores \/ Concludes \/ Unfinalizes
  PROVE  win' = NoWindow \/ SpecStays \/ (win'.action = win.action /\ win'.deferred = win.deferred)
<1>1. win \in Window
  BY DEF TypeOK
<1>2. CASE Unfinalizes
  BY <1>1, <1>2, UnfinalizedFacts DEF Unfinalizes, SameRecord
<1>3. QED
  BY <1>2 DEF Begins, Stamps, Rearms, Restores, Concludes, SpecStays

\* Those of a window reconcile do, too.
LEMMA WindowSerial ==
  ASSUME TypeOK, SerialInv, SyncedIsLive', Alone,
         Begins \/ Stamps \/ Rearms \/ Restores \/ Concludes \/ Unfinalizes
  PROVE  SerialInv'
<1>1. pPc' = "idle"
  BY DEF Alone
<1>2. win'.deferred => win'.action = NoAction
  BY RecordStays, NoWindowFacts DEF SerialInv, DeferredIsEmpty, SpecStays
<1>3. QED
  BY <1>1, <1>2 DEF SerialInv, OneAtATime, PolicyThere, ReadIsCurrent, NotHeld, DeferredIsEmpty

\* Every step is of one of the three kinds.
LEMMA StepKinds ==
  ASSUME TypeOK, SerialInv, Overlap = FALSE, [Next]_vars
  PROVE  \/ RestStep
         \/ Starts \/ Gets \/ Plans \/ Applies \/ Reports
         \/ pPc = "write" /\ pPc' = "apply" /\ Writes(pBase, FALSE)
         \/ pPc = "deferWrite" /\ pPc' = "status" /\ Writes(NoAction, TRUE)
         \/ /\ Alone
            /\ Begins \/ Stamps \/ Rearms \/ Restores \/ Concludes \/ Unfinalizes
<1>1. PolicyThere
  BY DEF SerialInv
<1>2. CASE \/ \E atRisk \in AtRisk, slotFree \in BOOLEAN, dying \in StillDying :
                PolicyReconcile(atRisk, slotFree, dying)
           \/ PolicyStep
           \/ ApplyFails
  BY <1>1, <1>2, PolicySteps
<1>3. CASE WindowStarts \/ WindowStep
  BY <1>3, WindowSteps
<1>4. CASE \/ UNCHANGED vars \/ AddPolicyFinalizer \/ Cleanup
           \/ Tick \/ CacheSync \/ GarbageCollect \/ UserDeletesWindow \/ UserDeletesPolicy
           \/ TargetDeleted \/ DisruptionEnds
           \/ PolicyCallFails \/ WindowCallFails \/ Crash
  BY <1>1, <1>4, RestActions
<1>5. QED
  BY <1>2, <1>3, <1>4 DEF Next, Environment

\* SerialInv is inductive when the reconciles run one at a time.
LEMMA SerialStep ==
  ASSUME Overlap = FALSE
  PROVE  TypeOK /\ SerialInv /\ [Next]_vars => SerialInv'
<1> SUFFICES ASSUME TypeOK, SerialInv, [Next]_vars PROVE SerialInv'
  OBVIOUS
<1>1. SyncedIsLive'
  BY SyncedStep DEF SerialInv
<1>2. CASE RestStep
  BY <1>1, <1>2, RestSerial
<1>3. QED
  BY <1>1, <1>2, StepKinds, PolicySerial, WindowSerial

\* It holds before the first reconcile.
LEMMA SerialInit == Init => SerialInv
  BY NoWindowFacts DEF Init, SerialInv, OneAtATime, SyncedIsLive, PolicyThere, ReadIsCurrent,
                       NotHeld, DeferredIsEmpty

\* SerialInv holds in every reachable state.
LEMMA SerialAlways ==
  ASSUME Overlap = FALSE
  PROVE  Spec => [](TypeOK /\ SerialInv)
<1>1. TypeOK /\ SerialInv /\ [Next]_vars => (TypeOK /\ SerialInv)'
  BY TypeStep, SerialStep
<1>2. QED
  BY <1>1, TypeInit, SerialInit, PTL DEF Spec

\* restoreActions never raises, and never lowers below the recorded value.
LEMMA RestoredFacts ==
  ASSUME TypeOK
  PROVE  /\ Restored(wSnap) \in Nat /\ Restored(wSnap) <= replicas
         /\ ~target => Restored(wSnap) = replicas
         /\ wSnap.action = NoAction => Restored(wSnap) = replicas
         /\ ~SkipDownscaling /\ target /\ wSnap.action # NoAction /\ replicas >= wSnap.action
              => Restored(wSnap) = wSnap.action
<1>1. replicas \in Nat /\ wSnap.action \in Nat \cup {NoAction}
  BY DEF TypeOK, Window
<1>2. QED
  BY <1>1 DEF Restored, NoAction

\* From the ForcedCool stamp on the capacity field is never raised again,
\* whatever fails and whoever deletes what: a policy reconcile that has
\* passed the holdMaxWindow check of ensureWindow ends before the window
\* reconcile may stamp.  With overlapping reconciles this is violated.
THEOREM ForcedCoolNeverRaises ==
  ASSUME Overlap = FALSE
  PROVE  Spec => NoRaiseAfterForcedCool
<1>1. ASSUME TypeOK, SerialInv, [Next]_vars, win.exists, win.forcedCool
      PROVE  replicas' <= replicas
  <2>1. replicas \in Nat
    BY <1>1 DEF TypeOK
  <2>2. CASE Applies
    BY <1>1, <2>2 DEF Applies, SerialInv, NotHeld
  <2>3. CASE Restores
    BY <1>1, <2>3, RestoredFacts DEF Restores
  <2>4. CASE replicas' = replicas
    BY <2>1, <2>4
  <2>5. QED
    BY <1>1, <2>2, <2>3, <2>4, StepKinds
       DEF RestStep, Starts, Gets, Plans, Reports, Writes, Begins, Stamps, Rearms, Concludes,
           Unfinalizes
<1>2. TypeOK /\ SerialInv /\ [Next]_vars
        => [win.exists /\ win.forcedCool => replicas' <= replicas]_vars
  BY <1>1
<1>3. QED
  BY <1>2, SerialAlways, PTL DEF Spec, NoRaiseAfterForcedCool

\* The recorded action is never dropped from a live window: a promotion or a
\* deferral patches what is on the API server, since nobody has written the
\* window between the Get and the patch of a policy reconcile.
THEOREM ActionIsKept ==
  ASSUME Overlap = FALSE
  PROVE  Spec => RecordedActionSurvives
<1>1. ASSUME TypeOK, SerialInv, [Next]_vars, win.exists, win.action # NoAction, win'.exists
      PROVE  win'.action # NoAction
  <2>1. CASE RestStep
    BY <1>1, <2>1, NoWindowFacts DEF RestStep, ObjectRests, SameRecord
  <2>2. CASE Starts \/ Gets \/ Plans \/ Applies \/ Reports
    BY <1>1, <2>2 DEF Starts, Gets, Plans, Applies, Reports
  <2>3. CASE pPc = "write" /\ Writes(pBase, FALSE)
    <3>1. win'.action = pBase
      BY <1>1, <2>3, WritesFacts
    <3>2. pBase \in Nat
      BY <1>1 DEF TypeOK
    <3>3. QED
      BY <3>1, <3>2 DEF NoAction
  <2>4. CASE pPc = "deferWrite"
    BY <1>1, <2>4 DEF SerialInv, DeferredIsEmpty
  <2>5. CASE Begins \/ Stamps \/ Rearms \/ Restores \/ Concludes \/ Unfinalizes
    BY <1>1, <2>5, RecordStays, NoWindowFacts DEF SpecStays
  <2>6. QED
    BY <1>1, <2>1, <2>2, <2>3, <2>4, <2>5, StepKinds
<1>2. TypeOK /\ SerialInv /\ [Next]_vars
        => [win.exists /\ win.action # NoAction /\ win'.exists => win'.action # NoAction]_vars
  BY <1>1
<1>3. QED
  BY <1>2, SerialAlways, PTL DEF Spec, RecordedActionSurvives

-------------------------------------------------------------------------------
(***************************************************************************)
(* Where the raised capacity is on record.                                 *)
(***************************************************************************)

\* The steps of a policy reconcile keep TrackInv.
LEMMA PolicyTrack ==
  ASSUME TypeOK, SerialInv, TrackInv,
         \/ Starts \/ Gets \/ Plans \/ Applies \/ Reports
         \/ pPc = "write" /\ pPc' = "apply" /\ Writes(pBase, FALSE)
         \/ pPc = "deferWrite" /\ pPc' = "status" /\ Writes(NoAction, TRUE)
  PROVE  TrackInv'
<1>0. /\ replicas \in Nat /\ win \in Window /\ cache \in Window
      /\ wPc = "idle" /\ wPc' = wPc /\ wSnap' = wSnap
      /\ UNCHANGED <<target, policy, cache>>
  BY DEF TypeOK, SerialInv, OneAtATime, Starts, Gets, Plans, Applies, Reports, Writes
<1>1. WindowAtWork'
  BY <1>0 DEF WindowAtWork
<1>2. pPc # "idle" => policy # "gone"
  BY DEF SerialInv, PolicyThere
<1>3. CASE Starts
  BY <1>1, <1>3 DEF Starts, TrackInv, NeverBelowUser, ActionsAreUsers, RaisedIsTracked, Applying,
                    UnfinalizedIsOver, ClosedIsRestored, Returned
<1>4. CASE Gets
  <2>1. pSnap'.action \in UsersActions
    BY <1>4, SpecFacts DEF Gets, TrackInv, ActionsAreUsers
  <2>2. QED
    BY <1>0, <1>1, <1>4, <2>1
       DEF Gets, TrackInv, NeverBelowUser, ActionsAreUsers, RaisedIsTracked, Applying,
           UnfinalizedIsOver, ClosedIsRestored, Returned
\* An unrecorded baseline is read from the field itself, which nobody has
\* raised: RaisedIsTracked.
<1>5. CASE Plans
  <2>1. pBase' = UserReplicas
    <3>1. CASE pSnap.action # NoAction
      BY <1>5, <3>1 DEF Plans, PlannedBaseline, TrackInv, ActionsAreUsers, UsersActions
    <3>2. CASE pSnap.action = NoAction
      <4>1. win.exists => win.action = NoAction
        BY <1>5, <3>2 DEF Plans, SerialInv, ReadIsCurrent
      <4>2. replicas = UserReplicas
        BY <1>0, <1>5, <4>1 DEF Plans, TrackInv, RaisedIsTracked, NeverBelowUser
      <4>3. QED
        BY <1>5, <3>2, <4>2 DEF Plans, PlannedBaseline
    <3>3. QED
      BY <3>1, <3>2
  <2>2. QED
    BY <1>0, <1>1, <1>5, <2>1
       DEF Plans, TrackInv, NeverBelowUser, ActionsAreUsers, RaisedIsTracked, Applying,
           UnfinalizedIsOver, ClosedIsRestored, Returned
<1>6. CASE Applies
  <2>1. NeverBelowUser'
    BY <1>0, <1>6 DEF Applies, TrackInv, NeverBelowUser
  <2>2. RaisedIsTracked'
    BY <1>6 DEF Applies, TrackInv, Applying, RaisedIsTracked
  <2>3. win.exists => win.phase # "Closed"
    BY <1>6 DEF Applies, SerialInv, NotHeld
  <2>4. QED
    BY <1>0, <1>1, <1>6, <2>1, <2>2, <2>3
       DEF Applies, TrackInv, ActionsAreUsers, Applying, UnfinalizedIsOver, ClosedIsRestored
<1>7. CASE Reports
  <2>1. UnfinalizedIsOver'
    <3>1. win.exists => win.phase # "Closed"
      BY <1>7 DEF Reports, SerialInv, NotHeld
    <3>2. QED
      BY <1>0, <1>7, <3>1 DEF Reports, TrackInv, UnfinalizedIsOver
  <2>2. QED
    BY <1>0, <1>1, <1>7, <2>1, NoWindowFacts
       DEF Reports, TrackInv, NeverBelowUser, ActionsAreUsers, UsersActions, RaisedIsTracked,
           Applying, ClosedIsRestored
<1>8. ASSUME pPc \in {"write", "deferWrite"}, NEW action, NEW deferred, Writes(action, deferred)
      PROVE  /\ win'.exists /\ win'.action = action /\ win'.until = NoTime
             /\ win'.phase # "Closed" /\ (target => win'.finalizer)
             /\ replicas' = replicas /\ pSnap'.action = NoAction /\ pBase' = pBase
  <2>1. win.exists => win.phase # "Closed"
    BY <1>8 DEF SerialInv, NotHeld
  <2>2. win.exists /\ target => win.finalizer
    BY <1>2, <1>8, <2>1 DEF TrackInv, UnfinalizedIsOver
  <2>3. QED
    BY <1>8, <2>2, WritesFacts DEF Writes
<1>9. CASE pPc = "write" /\ pPc' = "apply" /\ Writes(pBase, FALSE)
  <2>1. /\ win'.exists /\ win'.action = UserReplicas /\ win'.until = NoTime
        /\ win'.phase # "Closed" /\ (target => win'.finalizer)
        /\ replicas' = replicas /\ pSnap'.action = NoAction /\ pBase' = UserReplicas
    BY <1>8, <1>9 DEF TrackInv, ActionsAreUsers
  <2>2. UserReplicas # NoAction
    BY DEF NoAction
  <2>3. QED
    BY <1>0, <1>1, <1>9, <2>1, <2>2
       DEF TrackInv, NeverBelowUser, ActionsAreUsers, UsersActions, RaisedIsTracked, Applying,
           UnfinalizedIsOver, ClosedIsRestored
<1>10. CASE pPc = "deferWrite" /\ pPc' = "status" /\ Writes(NoAction, TRUE)
  <2>1. /\ win'.exists /\ win'.action = NoAction /\ win'.until = NoTime
        /\ win'.phase # "Closed" /\ (target => win'.finalizer)
        /\ replicas' = replicas /\ pSnap'.action = NoAction
    BY <1>8, <1>10
  \* Nothing was on record, so nothing is raised.
  <2>2. target => replicas <= UserReplicas
    BY <1>0, <1>10 DEF TrackInv, RaisedIsTracked, SerialInv, DeferredIsEmpty
  <2>3. QED
    BY <1>0, <1>1, <1>10, <2>1, <2>2
       DEF TrackInv, NeverBelowUser, ActionsAreUsers, UsersActions, RaisedIsTracked, Applying,
           UnfinalizedIsOver, ClosedIsRestored
<1>11. QED
  BY <1>3, <1>4, <1>5, <1>6, <1>7, <1>9, <1>10

\* So do those of a window reconcile, for a field that is scaled back.
LEMMA WindowTrack ==
  ASSUME TypeOK, TrackInv, Alone, SkipDownscaling = FALSE,
         Begins \/ Stamps \/ Rearms \/ Restores \/ Concludes \/ Unfinalizes
  PROVE  TrackInv'
<1> USE NoWindowFacts
<1>0. /\ replicas \in Nat /\ win \in Window /\ UserReplicas # NoAction
      /\ pPc' = "idle" /\ UNCHANGED <<cache, policy, target, pSnap, pBase>> /\ Copied
  BY DEF TypeOK, Alone, NoAction
<1>1. ActionsAreUsers'
  <2>1. win'.action \in UsersActions
    BY RecordStays DEF SpecStays, TrackInv, ActionsAreUsers, UsersActions
  <2>2. wSnap'.action \in UsersActions
    BY <1>0, <2>1 DEF Copied, UsersActions
  <2>3. QED
    BY <1>0, <2>1, <2>2 DEF TrackInv, ActionsAreUsers
<1>2. Applying'
  BY <1>0 DEF Applying
\* A field that is not on record, or whose cooldown runs, is not raised.
<1>3. ~(win.exists /\ win.finalizer /\ win.action # NoAction /\ win.until = NoTime) => Returned
  BY <1>0 DEF TrackInv, RaisedIsTracked, NeverBelowUser, Returned
<1>4. Returned /\ replicas' = replicas => RaisedIsTracked' /\ Returned'
  BY <1>0 DEF Returned, RaisedIsTracked
<1>5. replicas' = replicas => NeverBelowUser'
  BY DEF TrackInv, NeverBelowUser
<1>6. CASE Begins
  <2>1. win' = win /\ replicas' = replicas
    BY <1>6 DEF Begins
  <2>2. win.phase = "Closed" => Returned
    BY <1>6 DEF Begins, TrackInv, ClosedIsRestored
  <2>3. RaisedIsTracked' /\ UnfinalizedIsOver' /\ ClosedIsRestored' /\ (Returned => Returned')
    BY <1>0, <2>1 DEF TrackInv, RaisedIsTracked, UnfinalizedIsOver, ClosedIsRestored, Returned
  <2>4. WindowAtWork'
    BY <1>0, <1>3, <1>6, <2>1, <2>2, <2>3 DEF Begins, WindowAtWork, Copied
  <2>5. QED
    BY <1>1, <1>2, <1>5, <2>1, <2>3, <2>4 DEF TrackInv
<1>7. CASE Stamps
  <2>1. /\ SpecStays /\ win.exists /\ win'.until = win.until /\ replicas' = replicas
        /\ wStep' = wStep /\ wPc = "stamp" /\ wPc' \in {"restore", "abort", "status"}
        /\ win'.phase = win.phase /\ win.finalizer
    BY <1>7 DEF Stamps, TrackInv, WindowAtWork
  <2>2. /\ RaisedIsTracked' /\ UnfinalizedIsOver' /\ ClosedIsRestored' /\ (Returned => Returned')
    BY <1>0, <2>1
       DEF SpecStays, TrackInv, RaisedIsTracked, UnfinalizedIsOver, ClosedIsRestored, Returned
  <2>3. WindowAtWork'
    BY <1>0, <2>1, <2>2 DEF SpecStays, TrackInv, WindowAtWork, Copied
  <2>4. QED
    BY <1>1, <1>2, <1>5, <2>1, <2>2, <2>3 DEF TrackInv
<1>8. CASE Rearms
  <2>1. /\ SpecStays /\ win.exists /\ replicas' = replicas /\ wStep' = wStep
        /\ wPc' = "status" /\ win'.phase = win.phase /\ win.finalizer
        /\ wPc = "arm" => Returned
        /\ wStep = "Close" => Returned
        /\ wPc # "arm" => win'.until = NoTime
    BY <1>8 DEF Rearms, TrackInv, WindowAtWork
  <2>2. RaisedIsTracked'
    <3>1. CASE wPc = "arm"
      BY <1>4, <2>1, <3>1
    <3>2. CASE wPc # "arm"
      BY <1>0, <2>1, <3>2 DEF SpecStays, TrackInv, RaisedIsTracked
    <3>3. QED
      BY <3>1, <3>2
  <2>3. UnfinalizedIsOver' /\ ClosedIsRestored'
    BY <1>0, <2>1 DEF SpecStays, TrackInv, UnfinalizedIsOver, ClosedIsRestored, Returned
  <2>4. WindowAtWork'
    BY <1>0, <1>4, <2>1 DEF SpecStays, WindowAtWork, Copied
  <2>5. QED
    BY <1>1, <1>2, <1>5, <2>1, <2>2, <2>3, <2>4 DEF TrackInv
\* The copy still holds the recorded action, so the field goes back to it.
<1>9. CASE Restores
  <2>1. /\ replicas' = Restored(wSnap) /\ win' = win
        /\ wPc \in {"restore", "restoreFinal"} /\ wPc' \in {"arm", "unfinalize", "idle"}
        /\ wPc' = "arm" => wPc = "restore"
        /\ wPc' = "unfinalize" => wPc = "restoreFinal"
    BY <1>9 DEF Restores
  <2>2. win.exists => wSnap.action = win.action
    BY <2>1 DEF TrackInv, WindowAtWork
  <2>3. target => Restored(wSnap) = UserReplicas
    <3>1. wSnap.action \in {NoAction, UserReplicas} /\ replicas >= UserReplicas
      BY DEF TrackInv, ActionsAreUsers, UsersActions, NeverBelowUser
    <3>2. CASE wSnap.action = UserReplicas
      BY <1>0, <3>1, <3>2, RestoredFacts
    <3>3. CASE wSnap.action = NoAction
      <4>1. Returned
        BY <1>3, <2>2, <3>3
      <4>2. QED
        BY <3>3, <4>1, RestoredFacts DEF Returned
    <3>4. QED
      BY <3>1, <3>2, <3>3
  <2>4. ~target => replicas' = replicas
    BY <2>1, RestoredFacts
  <2>5. Returned' /\ RaisedIsTracked' /\ NeverBelowUser'
    BY <1>0, <2>1, <2>3, <2>4 DEF Returned, RaisedIsTracked, TrackInv, NeverBelowUser
  <2>6. UnfinalizedIsOver' /\ ClosedIsRestored'
    BY <1>0, <2>1, <2>5 DEF TrackInv, UnfinalizedIsOver, ClosedIsRestored
  <2>7. WindowAtWork'
    BY <1>0, <2>1, <2>5 DEF TrackInv, WindowAtWork
  <2>8. QED
    BY <1>1, <1>2, <2>5, <2>6, <2>7 DEF TrackInv
<1>10. CASE Concludes
  <2>1. /\ replicas' = replicas /\ wPc = "status"
        /\ wPc' = "idle" \/ (wPc' = "closeFinalizer" /\ wStep = "Close")
        /\ win.exists => win.finalizer /\ win.phase = wSnap.phase
        /\ wStep = "Close" => Returned
    BY <1>10 DEF Concludes, TrackInv, WindowAtWork
  <2>2. /\ win'.exists = win.exists /\ win'.until = win.until /\ win'.action = win.action
        /\ win'.finalizer = win.finalizer
        /\ win'.exists => win'.phase = StepPhase(wStep)
    BY <1>10, <2>1 DEF Concludes, SpecStays
  <2>3. StepPhase(wStep) = "Closed" <=> wStep = "Close"
    BY DEF StepPhase
  <2>4. RaisedIsTracked' /\ UnfinalizedIsOver' /\ (Returned => Returned')
    BY <1>0, <2>1, <2>2 DEF TrackInv, RaisedIsTracked, UnfinalizedIsOver, Returned
  <2>5. ClosedIsRestored'
    BY <2>1, <2>2, <2>3, <2>4 DEF ClosedIsRestored
  <2>6. WindowAtWork'
    BY <2>1, <2>2, <2>3, <2>4 DEF WindowAtWork
  <2>7. QED
    BY <1>1, <1>2, <1>5, <2>1, <2>4, <2>5, <2>6 DEF TrackInv
<1>11. CASE Unfinalizes
  <2>1. /\ replicas' = replicas /\ win.exists /\ Returned
        /\ wPc' = "delete" \/ (wPc' = "idle" /\ wPc = "unfinalize")
        /\ wPc' = "delete" => wPc = "closeFinalizer" /\ win.phase = "Closed"
        /\ wPc = "unfinalize" => win.deleting \/ policy = "gone" \/ ~target
    BY <1>11 DEF Unfinalizes, TrackInv, WindowAtWork
  <2>2. win' = NoWindow \/ (~win.deleting /\ win'.phase = win.phase)
    BY <1>0, <1>11, UnfinalizedFacts DEF Unfinalizes, SameRecord
  <2>3. Returned' /\ RaisedIsTracked'
    BY <1>4, <2>1
  <2>4. UnfinalizedIsOver' /\ ClosedIsRestored'
    BY <1>0, <2>1, <2>2, <2>3 DEF UnfinalizedIsOver, ClosedIsRestored
  <2>5. WindowAtWork'
    BY <2>1, <2>2, <2>3 DEF WindowAtWork
  <2>6. QED
    BY <1>1, <1>2, <1>5, <2>1, <2>3, <2>4, <2>5 DEF TrackInv
<1>12. QED
  BY <1>6, <1>7, <1>8, <1>9, <1>10, <1>11

\* TrackInv is inductive.
LEMMA TrackStep ==
  ASSUME Overlap = FALSE, SkipDownscaling = FALSE
  PROVE  TypeOK /\ SerialInv /\ TrackInv /\ [Next]_vars => TrackInv'
<1> SUFFICES ASSUME TypeOK, SerialInv, TrackInv, [Next]_vars PROVE TrackInv'
  OBVIOUS
<1>1. CASE RestStep
  BY <1>1, RestTrack
<1>2. QED
  BY <1>1, StepKinds, PolicyTrack, WindowTrack

\* It holds before the first reconcile.
LEMMA TrackInit == Init => TrackInv
  BY NoWindowFacts
     DEF Init, TrackInv, NeverBelowUser, ActionsAreUsers, UsersActions, RaisedIsTracked, Applying,
         UnfinalizedIsOver, ClosedIsRestored, WindowAtWork

\* TrackInv holds in every reachable state.
LEMMA TrackAlways ==
  ASSUME Overlap = FALSE, SkipDownscaling = FALSE
  PROVE  Spec => [](TypeOK /\ SerialInv /\ TrackInv)
<1>1. TypeOK /\ SerialInv /\ TrackInv /\ [Next]_vars => (TypeOK /\ SerialInv /\ TrackInv)'
  BY TypeStep, SerialStep, TrackStep
<1>2. QED
  BY <1>1, TypeInit, SerialInit, TrackInit, PTL DEF Spec

\* The recorded baseline is the value the user had given the field: a
\* reconcile that finds no action on record finds the field as the user left
\* it.  With overlapping reconciles the baseline can ratchet up.
THEOREM BaselineHolds ==
  ASSUME Overlap = FALSE, SkipDownscaling = FALSE
  PROVE  Spec => []BaselineIsUserValue
<1>1. TrackInv => BaselineIsUserValue
  BY DEF TrackInv, ActionsAreUsers, UsersActions, BaselineIsUserValue
<1>2. QED
  BY <1>1, TrackAlways, PTL

\* Raised capacity always has a live window that will restore it, also
\* across a crash between any two API calls and a deletion of the window,
\* the policy or the Deployment at any moment.
THEOREM RaisedAlwaysTracked ==
  ASSUME Overlap = FALSE, SkipDownscaling = FALSE
  PROVE  Spec => []RaisedIsTracked
<1>1. TrackInv => RaisedIsTracked
  BY DEF TrackInv
<1>2. QED
  BY <1>1, TrackAlways, PTL

-------------------------------------------------------------------------------
(***************************************************************************)
(* The refinement.  Value and Leased are what the owner of the workload    *)
(* sees of a state; a step of the reconciles is a step of the lease or     *)
(* changes neither.                                                        *)
(***************************************************************************)
Value == IF target THEN replicas ELSE UserReplicas

Leased == win.exists /\ win.action # NoAction

\* Without a lease, or without the finalizer, the field is the user's.
LEMMA UnleasedIsUsers ==
  ASSUME TypeOK, TrackInv
  PROVE  /\ Value \in Nat
         /\ ~Leased \/ ~win.finalizer => Value = UserReplicas
<1>1. replicas \in Nat /\ replicas >= UserReplicas
  BY DEF TypeOK, TrackInv, NeverBelowUser
<1>2. QED
  BY <1>1 DEF Value, Leased, TrackInv, RaisedIsTracked

\* How a step moves the two.
LEMMA LeaseMoves ==
  ASSUME TypeOK, TypeOK', SerialInv, TrackInv, TrackInv', [Next]_vars,
         Overlap = FALSE, SkipDownscaling = FALSE
  PROVE  /\ ~Leased \/ ~Leased' => Value = UserReplicas /\ Value' = UserReplicas
         /\ Leased /\ Leased' /\ Value' # Value => Value' > Value \/ Value' = UserReplicas
<1> USE NoWindowFacts
<1>0. /\ Leased \in BOOLEAN /\ Leased' \in BOOLEAN /\ replicas \in Nat
      /\ replicas' \in Nat
  BY DEF Leased, TypeOK, Window
<1>1. /\ ~Leased \/ ~win.finalizer => Value = UserReplicas
      /\ ~Leased' => Value' = UserReplicas
  <2>1. replicas' >= UserReplicas
    BY DEF TrackInv, NeverBelowUser
  <2>2. ~Leased' => Value' = UserReplicas
    BY <1>0, <2>1 DEF Value, Leased, TrackInv, RaisedIsTracked
  <2>3. QED
    BY <2>2, UnleasedIsUsers
\* Where the field does not move there is nothing left to show.
<1>2. CASE Value' = Value
  BY <1>0, <1>1, <1>2
<1>3. CASE RestStep
  <2>1. Leased' => Leased
    BY <1>3 DEF RestStep, ObjectRests, SameRecord, Leased
  <2>2. Leased /\ ~Leased' => ~win.finalizer
    BY <1>3 DEF RestStep, ObjectRests, SameRecord, Leased
  <2>3. Value' # Value => Value' = UserReplicas
    BY <1>3 DEF RestStep, Value
  <2>4. QED
    BY <1>0, <1>1, <2>1, <2>2, <2>3
<1>4. CASE Applies
  <2>1. Leased' <=> Leased
    BY <1>4 DEF Applies, Leased
  <2>2. Value' # Value => Value' > Value
    BY <1>0, <1>4 DEF Applies, Value
  <2>3. QED
    BY <1>1, <2>1, <2>2
<1>5. CASE Restores /\ Alone
  <2>1. win' = win /\ target' = target /\ replicas' = Restored(wSnap)
    BY <1>5 DEF Restores, Alone
  <2>2. wSnap.action \in {NoAction, UserReplicas}
    BY DEF TrackInv, ActionsAreUsers, UsersActions
  <2>3. Restored(wSnap) # replicas => Restored(wSnap) = UserReplicas
    BY <2>2 DEF Restored
  <2>4. (Leased' <=> Leased) /\ (Value' # Value => Value' = UserReplicas)
    BY <2>1, <2>3 DEF Value, Leased
  <2>5. QED
    BY <1>1, <2>4
<1>6. CASE \/ Starts \/ Gets \/ Plans \/ Reports
           \/ Writes(pBase, FALSE) \/ Writes(NoAction, TRUE)
           \/ Alone /\ (Begins \/ Stamps \/ Rearms \/ Concludes \/ Unfinalizes)
  <2>1. replicas' = replicas /\ target' = target
    BY <1>6 DEF Starts, Gets, Plans, Reports, Writes, Alone, Begins, Stamps, Rearms, Concludes,
                Unfinalizes
  <2>2. QED
    BY <1>2, <2>1 DEF Value
<1>7. QED
  BY <1>3, <1>4, <1>5, <1>6, StepKinds

\* The window's life implements the capacity lease of CapacityLease: the
\* field is raised only under a lease, lowered only to the user's value and
\* released only when it is back there.
THEOREM LeaseIsImplemented ==
  ASSUME Overlap = FALSE, SkipDownscaling = FALSE
  PROVE  Spec => ImplementsLease
<1>1. Lent = {"replicas"}
  BY DEF Lent
<1>2. Init => Lease!Init
  BY <1>1, NoWindowFacts DEF Init, Lease!Init
<1>3. ASSUME TypeOK, TypeOK', SerialInv, TrackInv, TrackInv', [Next]_vars
      PROVE  [Lease!Next]_(Lease!vars)
  <2>1. /\ Leased \in BOOLEAN /\ Leased' \in BOOLEAN
        /\ ~Leased \/ ~Leased' => Value = UserReplicas /\ Value' = UserReplicas
        /\ Leased /\ Leased' /\ Value' # Value => Value' > Value \/ Value' = UserReplicas
    BY <1>3, LeaseMoves DEF Leased, TypeOK, Window
  <2>2. CASE Leased' = Leased /\ Value' = Value
    <3>1. UNCHANGED Lease!vars
      BY <2>2 DEF Lease!vars, Value, Leased
    <3>2. QED
      BY <3>1
  <2>3. CASE Leased /\ Leased' /\ Value' > Value
    <3>1. Lease!Raise
      BY <1>1, <2>3 DEF Lease!Raise, Value, Leased
    <3>2. QED
      BY <3>1 DEF Lease!Next
  <2>4. CASE Leased /\ Leased' /\ Value' = UserReplicas
    <3>1. Lease!Restore
      BY <1>1, <2>4 DEF Lease!Restore, Value, Leased
    <3>2. QED
      BY <3>1 DEF Lease!Next
  <2>5. CASE Leased /\ ~Leased'
    <3>1. Lease!Release(Lent)
      BY <1>1, <2>1, <2>5 DEF Lease!Release, Value, Leased
    <3>2. QED
      BY <3>1 DEF Lease!Next
  <2>6. CASE ~Leased /\ Leased'
    <3>1. Lease!Lease(Lent)
      BY <1>1, <2>1, <2>6 DEF Lease!Lease, Value, Leased
    <3>2. QED
      BY <3>1 DEF Lease!Next
  <2>7. QED
    BY <2>1, <2>2, <2>3, <2>4, <2>5, <2>6
<1>4. QED
  BY <1>2, <1>3, TrackAlways, PTL DEF Spec, ImplementsLease, Lease!Spec
=============================================================================
