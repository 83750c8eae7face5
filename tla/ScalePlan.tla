------------------------------- MODULE ScalePlan -------------------------------
(***************************************************************************)
(* The capacity fan-out of one window (internal/controller/plan.go,        *)
(* scale_actions.go): a list of integer fields on several objects, raised  *)
(* in catalog order, lowered again in the order of Spec.Actions.           *)
(*                                                                         *)
(* Consecutive fields of one object are a group: one integer patch and one *)
(* annotation patch.  Each of the two is an API call that may fail, with   *)
(* or without having taken effect, and the manager may crash between any   *)
(* two.  A failed apply compensates; a failed restore is retried by the    *)
(* next reconcile.  Reading a group's fields and patching them is one      *)
(* step; reconciles of one window run one at a time here (WindowLifecycle  *)
(* has their interleaving, for a single field).                            *)
(***************************************************************************)
EXTENDS WindowPhase, ScaleCatalog

CONSTANTS
  Fields,       \* the integer fields the bindings can reach
  User,         \* each field's value before any disruption, or Unset
  Annotations,  \* the values the scale-backend annotation may have
  Stamp,        \* spec.stamp.enabled
  MaxAtRisk,    \* bound: at-risk pods a reconcile may see
  MaxFaults     \* bound: failed calls and crashes in a behaviour

\* The steps every usable annotation stands for.
Resolved == [raw \in {r \in Annotations : Resolvable(r)} |-> ResolveCatalog(raw)]

\* A step drives a path of its entry, up-only if the entry is.
Driving ==
  {step \in [key: DOMAIN Catalog, field: Fields, skip: BOOLEAN] :
     Drives(step.key, step.field) /\ step.skip = Catalog[step.key].skip}

ASSUME PlanAssumption ==
  /\ User \in [Fields -> Nat \cup {Unset}]
  /\ \A raw \in DOMAIN Resolved : Resolved[raw] \in Seq(Driving)
  /\ Stamp \in BOOLEAN
  /\ MaxAtRisk \in Nat
  /\ MaxFaults \in Nat

VARIABLES
  value,    \* the fields, on the API server
  stamped,  \* objects that carry the scaled-to, baseline and active stamps
  marked,   \* objects that carry the window-until stamp
  exists,   \* objects that have not been deleted
  actions,  \* the window's Spec.Actions
  armed,    \* its Spec.WindowUntil is set
  pc,       \* where the reconcile in progress is
  todo,     \* actions it still has to process
  applied,  \* groups this apply has mutated, for the compensation
  mutated,  \* the group in hand was mutated
  desired,  \* the plan's target
  raised,   \* history: fields this apply has raised by calls that succeeded
  last,     \* history: how the last reconcile ended
  closing,  \* "marked": the window has its deletion mark, "seen": and the
            \* window reconciler has met it
  faults    \* failures left

store == <<value, stamped, marked>>
local == <<pc, todo, applied, mutated, desired>>
vars == <<store, exists, actions, armed, local, raised, last, closing, faults>>

Objects == {Object(f) : f \in Fields}
Action == [key: DOMAIN Catalog, field: Fields, skip: BOOLEAN, base: Nat]

TypeOK ==
  /\ value \in [Fields -> Nat \cup {Unset}]
  /\ stamped \subseteq Objects /\ marked \subseteq Objects
  /\ exists \subseteq Objects /\ armed \in BOOLEAN
  /\ actions \in Seq(Action) /\ todo \in Seq(Action)
  /\ applied \in Seq(Seq(Action))
  /\ pc \in {"idle", "apply", "stamp", "lower", "unstamp", "restore", "clean",
            "arm", "mark", "unmark"}
  /\ mutated \in BOOLEAN /\ desired \in Nat
  /\ raised \subseteq Fields
  /\ last \in {"", "applied", "compensated", "failed", "restored"}
  /\ closing \in {"no", "marked", "seen"} /\ faults \in Nat

Init ==
  /\ value = User /\ stamped = {} /\ marked = {} /\ exists = Objects
  /\ actions = <<>> /\ armed = FALSE
  /\ pc = "idle" /\ todo = <<>> /\ applied = <<>> /\ mutated = FALSE
  /\ desired = 0
  /\ raised = {} /\ last = "" /\ closing = "no" /\ faults = MaxFaults

-------------------------------------------------------------------------------
FieldsOf(as) == {as[i].field : i \in DOMAIN as}

\* The leading group of a list: its longest prefix on one object.
SameObject(as, n) ==
  \A i \in 1 .. n : Object(as[i].field) = Object(as[1].field)
GroupLen(as) ==
  CHOOSE n \in DOMAIN as : SameObject(as, n) /\ (n = Len(as) \/ ~SameObject(as, n + 1))
Group(as) == SubSeq(as, 1, GroupLen(as))
Rest(as) == SubSeq(as, GroupLen(as) + 1, Len(as))
ObjectOf(group) == Object(group[1].field)

\* actionKey, findAction: the recorded actions of a catalog key on a field.
Recorded(step) ==
  {i \in DOMAIN actions : actions[i].key = step.key /\ actions[i].field = step.field}

\* What buildPlan and apply read for a step: its target has the catalog's default.
Live(step) == Current(value[step.field], step.field, Catalog[step.key].default)

WithBase(step, base) ==
  [key |-> step.key, field |-> step.field, skip |-> step.skip, base |-> base]

\* Mutant of PlannedAction: always the live value.
PlannedActionNotSticky(step) == WithBase(step, Live(step))

\* Mutant of PlannedAction: the live value of a new path is not read.
PlannedActionUnread(step) ==
  WithBase(step, IF Recorded(step) = {} THEN NoAction
                 ELSE actions[CHOOSE i \in Recorded(step) : TRUE].base)

\* One step of buildPlan: the recorded baseline, else the live value.
PlannedAction(step) ==
  WithBase(step, IF Recorded(step) = {} THEN Live(step)
                 ELSE actions[CHOOSE i \in Recorded(step) : TRUE].base)

\* Mutant of mergeActions: an action that left the plan is forgotten.
mergeActionsDropping(existing, next) == next

\* mergeActions: the plan's actions, then the recorded ones it lacks.
mergeActions(existing, next) ==
  LET kept == {i \in DOMAIN existing : \A j \in DOMAIN next :
                 next[j].key # existing[i].key \/ next[j].field # existing[i].field}
      nth(n) == CHOOSE i \in kept : Cardinality({j \in kept : j <= i}) = n
  IN  next \o [n \in 1 .. Cardinality(kept) |-> existing[nth(n)]]

-------------------------------------------------------------------------------
(***************************************************************************)
(* Scale-up.                                                               *)
(***************************************************************************)

\* ensureWindow up to plan.apply: buildPlan, then write the window.  Where the
\* annotation cannot be resolved, or a path without a recorded baseline cannot
\* be read, nothing is written.
BuildPlan(raw, atRisk) ==
  /\ pc = "idle"
  /\ raw \in DOMAIN Resolved
  /\ \A i \in DOMAIN Resolved[raw] :
       LET step == Resolved[raw][i]
       IN  Recorded(step) # {} \/ (Object(step.field) \in exists /\ Live(step) # Unset)
  /\ LET steps == Resolved[raw]
         plan == [i \in DOMAIN steps |-> PlannedAction(steps[i])]
     IN  /\ actions' = IF plan = <<>> THEN <<>> ELSE mergeActions(actions, plan)
         /\ todo' = plan
         /\ desired' = IF plan = <<>> THEN 0 ELSE TargetReplicas(plan[1].base, atRisk)
         /\ pc' = IF plan = <<>> THEN "idle" ELSE "apply"
  /\ armed' = FALSE
  /\ applied' = <<>> /\ mutated' = FALSE /\ raised' = {} /\ last' = ""
  /\ UNCHANGED <<store, exists, closing, faults>>

\* The fields of the group that are below the target.
Below(group) ==
  {group[i].field : i \in {j \in DOMAIN group : Live(group[j]) < desired}}

\* Current succeeds for every field of the group.
ReadableUp(group) == \A i \in DOMAIN group : Live(group[i]) # Unset

RaisedTo(fs) == [f \in Fields |-> IF f \in fs THEN desired ELSE value[f]]

\* The integer patch of a group.
ApplyPatch ==
  /\ pc = "apply" /\ ObjectOf(todo) \in exists /\ ReadableUp(Group(todo))
  /\ LET fs == Below(Group(todo))
     IN  /\ value' = RaisedTo(fs)
         /\ mutated' = (fs # {})
         /\ raised' = raised \cup fs
  /\ pc' = "stamp"
  /\ UNCHANGED <<stamped, marked, exists, actions, armed, todo, applied, desired,
                 last, closing, faults>>

\* The annotations apply writes on object o: the scaled-to, baseline and active
\* stamps, and no window-until; nothing where the stamp is off.
StampValues(o) ==
  /\ stamped' = IF Stamp THEN stamped \cup {o} ELSE stamped
  /\ marked' = IF Stamp THEN marked \ {o} ELSE marked

\* The annotation patch of a group (it takes the window-until stamp off), and
\* on to the next group.
ApplyStamp ==
  /\ pc = "stamp" /\ (Stamp => ObjectOf(todo) \in exists)
  /\ StampValues(ObjectOf(todo))
  /\ applied' = IF Stamp \/ mutated THEN Append(applied, Group(todo)) ELSE applied
  /\ mutated' = FALSE
  /\ todo' = Rest(todo)
  /\ IF Rest(todo) = <<>>
     THEN pc' = "idle" /\ last' = "applied"
     ELSE pc' = "apply" /\ UNCHANGED last
  /\ UNCHANGED <<value, exists, actions, armed, desired, raised, closing, faults>>

\* Mutant of ToCompensate: the group whose annotation patch failed is left out.
ToCompensateWithoutLast == applied

\* The groups to compensate when a call on the group in hand fails.
ToCompensate ==
  IF pc = "stamp" /\ mutated THEN Append(applied, Group(todo)) ELSE applied

\* apply returns its error, after compensateApply if there is something to do.
Compensate ==
  /\ applied' = ToCompensate
  /\ pc' = IF ToCompensate = <<>> THEN "idle" ELSE "lower"
  /\ last' = IF ToCompensate = <<>> THEN "compensated" ELSE ""
  /\ todo' = <<>> /\ mutated' = FALSE

\* The object is gone, a path cannot be read, or the call fails; a failed call
\* may have taken effect.
ApplyFails ==
  /\ pc \in {"apply", "stamp"}
  /\ Compensate
  /\ \/ /\ \/ ObjectOf(todo) \notin exists /\ (pc = "apply" \/ Stamp)
           \/ pc = "apply" /\ ~ReadableUp(Group(todo))
        /\ UNCHANGED <<store, faults>>
     \/ /\ faults > 0 /\ faults' = faults - 1
        /\ UNCHANGED store
     \/ /\ faults > 0 /\ faults' = faults - 1 /\ ObjectOf(todo) \in exists
        /\ pc = "apply" /\ ReadableUp(Group(todo))
        /\ value' = RaisedTo(Below(Group(todo)))
        /\ UNCHANGED <<stamped, marked>>
     \/ /\ faults > 0 /\ faults' = faults - 1 /\ ObjectOf(todo) \in exists
        /\ pc = "stamp" /\ Stamp
        /\ StampValues(ObjectOf(todo))
        /\ UNCHANGED value
  /\ UNCHANGED <<exists, actions, armed, desired, raised, closing>>

-------------------------------------------------------------------------------
(***************************************************************************)
(* Scale-down.  restoreOneAction and restoreGroupedActions do the same two *)
(* calls; compensation (pc lower, unstamp) walks the applied groups        *)
(* backwards and goes on after an error, a restore (restore, clean) walks  *)
(* the actions forwards, skips objects that are gone and stops at an error.*)
(***************************************************************************)

\* What a restore reads: actionTarget has no DefaultWhenUnset.
Recovered(action) == Current(value[action.field], action.field, Unset)

\* Current succeeds for every field of the group that is to be lowered.
ReadableDown(group) ==
  \A i \in DOMAIN group : group[i].skip \/ Recovered(group[i]) # Unset

\* Mutant of Lowered: every path goes down to the window's primary baseline.
LoweredToPrimary(group) ==
  [f \in Fields |->
     IF \E i \in DOMAIN group : /\ group[i].field = f /\ ~group[i].skip
                               /\ Recovered(group[i]) > actions[1].base
     THEN actions[1].base ELSE value[f]]

\* Mutant of Lowered: all paths of the group go down to its highest baseline.
LoweredTogether(group) ==
  LET bases == {group[i].base : i \in DOMAIN group}
      top == CHOOSE b \in bases : \A c \in bases : c <= b
  IN  [f \in Fields |->
         IF \E i \in DOMAIN group : /\ group[i].field = f /\ ~group[i].skip
                                   /\ Recovered(group[i]) > top
         THEN top ELSE value[f]]

\* The fields after a group's restore patch: only ever lowered, to the baseline
\* of the last action that is above it.
Lowered(group) ==
  [f \in Fields |->
     LET above == {i \in DOMAIN group : /\ group[i].field = f /\ ~group[i].skip
                                        /\ Recovered(group[i]) > group[i].base}
     IN  IF above = {} THEN value[f]
         ELSE group[CHOOSE i \in above : \A j \in above : j <= i].base]

\* Compensation leaves the group in hand; ok: without an error.
NextApplied(ok) ==
  /\ applied' = Front(applied)
  /\ pc' = IF Len(applied) = 1 THEN "idle" ELSE "lower"
  /\ last' = IF last = "failed" \/ ~ok THEN "failed"
             ELSE IF Len(applied) = 1 THEN "compensated" ELSE last
  /\ UNCHANGED <<todo, mutated, desired>>

CompensateGroup ==
  /\ pc = "lower" /\ ObjectOf(Last(applied)) \in exists
  /\ ReadableDown(Last(applied))
  /\ value' = Lowered(Last(applied))
  /\ pc' = "unstamp"
  /\ UNCHANGED <<stamped, marked, exists, actions, armed, todo, applied, mutated,
                 desired, raised, last, closing, faults>>

\* Without stamps there is no call.
CompensateStamp ==
  /\ pc = "unstamp" /\ (Stamp => ObjectOf(Last(applied)) \in exists)
  /\ stamped' = stamped \ {ObjectOf(Last(applied))}
  /\ marked' = marked \ {ObjectOf(Last(applied))}
  /\ NextApplied(TRUE)
  /\ UNCHANGED <<value, exists, actions, armed, raised, closing, faults>>

CompensateFails ==
  /\ pc = "lower" \/ (pc = "unstamp" /\ Stamp)
  /\ \/ /\ \/ ObjectOf(Last(applied)) \notin exists
           \/ pc = "lower" /\ ~ReadableDown(Last(applied))
        /\ UNCHANGED faults
     \/ faults > 0 /\ faults' = faults - 1
  /\ NextApplied(FALSE)
  /\ UNCHANGED <<store, exists, actions, armed, raised, closing>>

\* Everything is restored.  final: the deleted window loses its finalizer and
\* goes away; otherwise the cooldown is armed, even if the window was marked
\* for deletion meanwhile.
Restored(final) ==
  /\ todo' = <<>> /\ last' = "restored"
  /\ pc' = IF final THEN "idle" ELSE "arm"
  /\ actions' = IF final THEN <<>> ELSE actions
  /\ armed' = (armed /\ ~final)
  /\ closing' = IF final THEN "no" ELSE closing

\* restoreActions starts: the window is being deleted, or scale-back begins
\* (only while no cooldown is armed).
StartRestore ==
  /\ pc = "idle" /\ (closing # "no" \/ (~armed /\ actions # <<>>))
  /\ IF actions # <<>>
     THEN /\ pc' = "restore" /\ todo' = actions /\ last' = ""
          /\ closing' = IF closing = "no" THEN "no" ELSE "seen"
          /\ UNCHANGED <<actions, armed>>
     ELSE Restored(TRUE)
  /\ UNCHANGED <<store, exists, applied, mutated, desired, raised, faults>>

\* On to the next group.
NextRestore ==
  IF Rest(todo) = <<>> THEN Restored(closing = "seen")
  ELSE todo' = Rest(todo) /\ pc' = "restore" /\ UNCHANGED <<actions, armed, last, closing>>

RestoreGroup ==
  /\ pc = "restore" /\ ObjectOf(todo) \in exists /\ ReadableDown(Group(todo))
  /\ value' = Lowered(Group(todo))
  /\ pc' = "clean"
  /\ UNCHANGED <<stamped, marked, exists, actions, armed, todo, applied, mutated,
                 desired, raised, last, closing, faults>>

RestoreStamp ==
  /\ pc = "clean" /\ ObjectOf(todo) \in exists
  /\ stamped' = stamped \ {ObjectOf(todo)} /\ marked' = marked \ {ObjectOf(todo)}
  /\ NextRestore
  /\ UNCHANGED <<value, exists, applied, mutated, desired, raised, faults>>

\* Mutant of SkipGone: NotFound ends the restore instead of the group.
SkipGoneStops ==
  /\ pc' = "idle" /\ todo' = <<>> /\ last' = "failed"
  /\ UNCHANGED <<actions, armed, closing>>

\* NotFound: go on with the next group.
SkipGone == NextRestore

RestoreSkips ==
  /\ pc \in {"restore", "clean"} /\ ObjectOf(todo) \notin exists
  /\ SkipGone
  /\ UNCHANGED <<store, exists, applied, mutated, desired, raised, faults>>

-------------------------------------------------------------------------------
(***************************************************************************)
(* Cooldown: WindowUntil and its stamp.                                    *)
(***************************************************************************)

\* stampCooldown walks the actions, or has nothing to do.
StampAll(goto) ==
  /\ todo' = IF Stamp THEN actions ELSE <<>>
  /\ pc' = IF Stamp /\ actions # <<>> THEN goto ELSE "idle"

\* The WindowUntil patch after a scale-back.
ArmCooldown ==
  /\ pc = "arm"
  /\ armed' = TRUE /\ last' = ""
  /\ StampAll("mark")
  /\ UNCHANGED <<store, exists, actions, applied, mutated, desired, raised, closing,
                 faults>>

\* abortCooldown: pods are at risk again.
AbortCooldown ==
  /\ pc = "idle" /\ armed /\ closing = "no"
  /\ armed' = FALSE /\ last' = ""
  /\ StampAll("unmark")
  /\ UNCHANGED <<store, exists, actions, applied, mutated, desired, raised, closing,
                 faults>>

\* One object of stampCooldown.
StampUntil ==
  /\ pc \in {"mark", "unmark"} /\ ObjectOf(todo) \in exists
  /\ marked' = IF pc = "mark" THEN marked \cup {ObjectOf(todo)}
               ELSE marked \ {ObjectOf(todo)}
  /\ todo' = Tail(todo)
  /\ pc' = IF Len(todo) = 1 THEN "idle" ELSE pc
  /\ UNCHANGED <<value, stamped, exists, actions, armed, applied, mutated, desired,
                 raised, last, closing, faults>>

\* deleteClosedWindow: the cooldown has run out.
CloseWindow ==
  /\ pc = "idle" /\ armed /\ closing = "no"
  /\ actions' = <<>> /\ armed' = FALSE /\ last' = ""
  /\ UNCHANGED <<store, exists, local, raised, closing, faults>>

\* A window reconcile ends with an error: a call failed, a path to restore
\* cannot be read, or stampCooldown met an object that is gone.
WindowFails ==
  /\ \/ pc \in {"restore", "clean", "arm", "mark", "unmark"} /\ faults > 0
        /\ faults' = faults - 1
     \/ pc = "restore" /\ ObjectOf(todo) \in exists /\ ~ReadableDown(Group(todo))
        /\ UNCHANGED faults
     \/ pc \in {"mark", "unmark"} /\ ObjectOf(todo) \notin exists
        /\ UNCHANGED faults
  /\ pc' = "idle" /\ todo' = <<>> /\ last' = "failed"
  /\ UNCHANGED <<store, exists, actions, armed, applied, mutated, desired, raised,
                 closing>>

-------------------------------------------------------------------------------
\* The window gets its deletion mark.
WindowDeleted ==
  /\ actions # <<>> /\ closing = "no"
  /\ closing' = "marked"
  /\ UNCHANGED <<store, exists, actions, armed, local, raised, last, faults>>

ObjectDeleted(o) ==
  /\ o \in exists
  /\ exists' = exists \ {o}
  /\ stamped' = stamped \ {o} /\ marked' = marked \ {o}
  /\ UNCHANGED <<value, actions, armed, local, raised, last, closing, faults>>

Crash ==
  /\ pc # "idle" /\ faults > 0
  /\ faults' = faults - 1
  /\ pc' = "idle" /\ todo' = <<>> /\ applied' = <<>> /\ mutated' = FALSE
  /\ last' = ""
  /\ UNCHANGED <<store, exists, actions, armed, desired, raised, closing>>

Step ==
  \/ ApplyPatch \/ ApplyStamp
  \/ CompensateGroup \/ CompensateStamp
  \/ RestoreGroup \/ RestoreStamp \/ RestoreSkips
  \/ ArmCooldown \/ StampUntil
  \/ ApplyFails \/ CompensateFails \/ WindowFails

Next ==
  \/ \E raw \in Annotations, atRisk \in 1 .. MaxAtRisk : BuildPlan(raw, atRisk)
  \/ StartRestore
  \/ Step
  \/ AbortCooldown \/ CloseWindow \/ Crash
  \/ WindowDeleted
  \/ \E o \in Objects : ObjectDeleted(o)

Spec == Init /\ [][Next]_vars

\* A reconcile that started goes on, and a deleted window is reconciled until
\* its finalizer is off.  The window controller has a worker of its own, so
\* that policy reconciles cannot keep it from running: strong fairness, where
\* this module runs the reconciles one at a time.
FairSpec ==
  /\ Spec
  /\ WF_vars(Step)
  /\ SF_vars(closing # "no" /\ StartRestore)

-------------------------------------------------------------------------------
\* The fields of skipDownscaling entries: they stay where they were raised to.
UpOnly == {f \in Fields : \E k \in DOMAIN Catalog : Catalog[k].skip /\ Drives(k, f)}

\* The fields of objects that exist whose capacity is lent, not given.
Lent == {f \in Fields \ UpOnly : Object(f) \in exists}

\* A field's effective value, now and before any disruption.
LevelNow(f) == Level(f, value[f])
UserLevels == [f \in Fields |-> Level(f, User[f])]

\* No path is ever taken below the value the user gave it, through partial
\* apply, compensation, restore, crash and re-apply (plan.go: every decrease
\* goes to that path's own recorded baseline).
NeverBelowUser == \A f \in Fields : LevelNow(f) >= UserLevels[f]

\* "revert what we raised": a path above its user value has its baseline
\* recorded in the window, also after the workload's scale-backend annotation
\* dropped it from the plan.
RaisedHasAction ==
  \A f \in Lent : LevelNow(f) > UserLevels[f] => f \in FieldsOf(actions)

\* A restore that reports success has put back every path and removed every
\* stamp, on every object that still exists; a deleted object does not keep
\* the others from being restored.
RestoreIsComplete ==
  last = "restored" =>
    /\ \A f \in Lent : LevelNow(f) = UserLevels[f]
    /\ stamped = {}

\* "window-until when cooldown starts, and removes all of them on scale-back":
\* no object keeps a stamp of a window that is gone.
StampsGoWithWindow == actions = <<>> => stamped = {} /\ marked = {}

\* "a mid-fan-out failure does not leave partial capacity": after a
\* compensation without errors, nothing this apply raised is still raised.
CompensationIsComplete ==
  last = "compensated" => \A f \in raised \cap Lent : LevelNow(f) = UserLevels[f]

\* The fan-out implements the capacity lease, path by path: whatever fails, a
\* path is raised only while its action is on record, goes down in one step
\* and only to its user value, and its action is dropped only after that.  The
\* paths of an object that is gone count as returned.
Lease == INSTANCE CapacityLease WITH
           Fields <- Fields \ UpOnly,
           User   <- [f \in Fields \ UpOnly |-> UserLevels[f]],
           value  <- [f \in Fields \ UpOnly |->
                        IF f \in Lent THEN LevelNow(f) ELSE UserLevels[f]],
           leased <- FieldsOf(actions) \ UpOnly

ImplementsLease == Lease!Spec

\* A window being deleted gets its capacity restored and goes away, however
\* many of its objects were deleted and calls failed on the way.
DeletionCompletes == closing # "no" ~> closing = "no"
=============================================================================
