---------------------------- MODULE EvictGateProofs ----------------------------
(***************************************************************************)
(* Theorems about EvictGate: the gate over any number of pods and nodes,   *)
(* for every lag of its copy of the window.                                *)
(***************************************************************************)
EXTENDS EvictGate, FiniteSetTheorems, WellFoundedInduction, TLAPS

-------------------------------------------------------------------------------
(***************************************************************************)
(* The inductive invariants.                                               *)
(***************************************************************************)

\* The live pods of signalling nodes.
AtRisk == On(signalled)

\* Every copy of a window lists the nodes of all pods at risk.
Covered ==
  \A w \in {win, seen} : w.exists => \A p \in AtRisk : pods[p].node \in w.nodes

\* Desired is the user's number but while a window is raised.
Lending ==
  /\ desired >= UserReplicas
  /\ ~win.exists => desired = UserReplicas
  /\ win.exists => win.baseline = UserReplicas
  /\ win.exists /\ win.until # NoTime => desired = UserReplicas
  /\ win.phase = "Closed" => win.until # NoTime /\ win.forcedCool

\* maxWindow has not failed open.
Unforced == ~(win.exists /\ win.forcedCool)

\* While a pod is at risk the Deployment has no pod to remove.
NoneSurplus == AtRisk # {} /\ Unforced => Cardinality(Live) <= desired

\* The Ready pods off the nodes ns.
Safe(ns) == {p \in Ready : pods[p].node \notin ns}

\* SpareReady is true of the copy it is in for as long as a pod is at risk.
FlagsHold ==
  \A w \in {win, seen} : AtRisk # {} /\ Unforced /\ w.exists /\ w.spareReady =>
    Cardinality(Safe(w.nodes)) >= UserReplicas

\* What every step of a clean disruption keeps.
GateInv == TypeOK /\ Covered /\ Lending /\ NoneSurplus /\ FlagsHold

-------------------------------------------------------------------------------
(***************************************************************************)
(* Pods and windows.                                                       *)
(***************************************************************************)

\* A set of pods that is not empty has a first one.
LEMMA FirstPod ==
  ASSUME NEW T, T \subseteq Nat, T # {}
  PROVE  \E x \in T : \A y \in T : x <= y
<1> DEFINE R == OpToRel(<, Nat)
<1>1. IsWellFoundedOn(R, Nat)
  BY NatLessThanWellFounded, Zenon
<1>2. \A x, y \in Nat : x < y => <<x, y>> \in R
  BY Zenon DEF OpToRel
<1> HIDE DEF R
<1>3. PICK x \in T : \A y \in T : ~(<<y, x>> \in R)
  BY <1>1, WFMin
<1>4. \A y \in T : ~(y < x)
  BY <1>2, <1>3
<1>5. QED
  BY <1>4

\* Sets of pods are finite, and can be counted.
LEMMA PodCount ==
  ASSUME NEW T, T \subseteq PodNames
  PROVE  /\ IsFiniteSet(T) /\ Cardinality(T) \in Nat
         /\ ~(Cardinality(T) > 0) => T = {}
         /\ \A U \in SUBSET T : Cardinality(U) <= Cardinality(T) /\ Cardinality(U) \in Nat
<1>1. IsFiniteSet(PodNames)
  BY GateAssumption
<1>2. IsFiniteSet(T)
  BY <1>1, FS_Subset
<1>3. Cardinality(T) \in Nat
  BY <1>2, FS_CardinalityType
<1>4. Cardinality(T) = 0 <=> T = {}
  BY <1>2, FS_EmptySet
<1>5. ASSUME NEW U \in SUBSET T
      PROVE  Cardinality(U) <= Cardinality(T) /\ Cardinality(U) \in Nat
  BY <1>2, FS_Subset, FS_CardinalityType
<1>6. QED
  BY <1>2, <1>3, <1>4, <1>5

\* The live pods at risk, and the Ready ones among the live.
LEMMA PodSets ==
  /\ Live \subseteq PodNames /\ Ready \subseteq Live /\ AtRisk \subseteq Live
  /\ \A ns : Safe(ns) \subseteq Ready
  BY DEF Live, Ready, AtRisk, On, Safe

\* The absence of a window is typed like one.
LEMMA NoneFacts ==
  /\ None \in GateWindow /\ None.exists = FALSE /\ None.nodes = {} /\ None.baseline = 0
  /\ None.spareReady = FALSE /\ None.forcedCool = FALSE /\ None.phase = ""
  BY DEF None, GateWindow, Phases, NoTime

\* Time touches the clocks only.
LEMMA AgeFacts ==
  ASSUME NEW w \in GateWindow
  PROVE  /\ Age(w) \in GateWindow /\ Age(w).exists = w.exists /\ Age(w).nodes = w.nodes
         /\ Age(w).baseline = w.baseline /\ Age(w).spareReady = w.spareReady
         /\ Age(w).forcedCool = w.forcedCool /\ Age(w).phase = w.phase
         /\ Age(w).until = NoTime <=> w.until = NoTime
<1>1. MaxWindow \in Nat /\ w.opened \in Nat /\ w.until \in Nat \cup {NoTime}
  BY PolicyAssumption DEF GateWindow
<1>2. CASE ~w.exists
  BY <1>2 DEF Age
<1>3. CASE w.exists
  <2> DEFINE o == IF w.opened < MaxWindow THEN w.opened + 1 ELSE w.opened
             u == IF w.until > 0 THEN w.until - 1 ELSE w.until
  <2>1. o \in Nat
    BY <1>1
  <2>2. u \in Nat \cup {NoTime} /\ (u = NoTime <=> w.until = NoTime)
    BY <1>1 DEF NoTime
  <2>3. Age(w) = [w EXCEPT !.opened = o, !.until = u]
    BY <1>3 DEF Age
  <2> HIDE DEF o, u
  <2>4. QED
    BY <2>1, <2>2, <2>3 DEF GateWindow
<1>4. QED
  BY <1>2, <1>3

\* The target is a number.
LEMMA TargetType ==
  ASSUME NEW b \in Nat, NEW r \in Nat
  PROVE  TargetReplicas(b, r) \in Nat
  BY PolicyAssumption DEF TargetReplicas

\* What the window reconciler makes of a window that is not a tombstone: it goes
\* away when no pod is at risk and maxWindow was never exceeded, else it keeps
\* its nodes and its baseline; the Deployment goes down to the baseline only
\* when no pod is at risk, or with the ForcedCool stamp.
LEMMA DecideFacts ==
  ASSUME TypeOK, win.exists, DecideAndWrite
  PROVE  \/ /\ win' = None /\ desired' = desired /\ AtRisk = {}
            /\ ~win.forcedCool /\ win.until # NoTime
         \/ /\ win' \in GateWindow /\ win'.exists /\ win'.nodes = win.nodes
            /\ win'.baseline = win.baseline /\ win'.spareReady = SpareReady(win)
            /\ win.forcedCool => win'.forcedCool
            /\ win'.phase = "Closed" => win'.until # NoTime /\ win'.forcedCool
            /\ \/ /\ desired' = desired
                  /\ win'.until # NoTime => win.until # NoTime
               \/ /\ desired' = IF desired > win.baseline THEN win.baseline ELSE desired
                  /\ win'.forcedCool \/ AtRisk = {}
<1> DEFINE force == maxWindowExceeded(win)
           safe == SpareReady(win)
           step == decideWindowStep(win, Cardinality(On(signalled)), safe, force)
           forced == win.forcedCool \/ force
<1>1. /\ win' = IF step = "Close" /\ ~forced THEN None
                ELSE [win EXCEPT
                        !.forcedCool = forced,
                        !.spareReady = safe,
                        !.until = CASE step = "StayOpen"       -> NoTime
                                    [] step = "BeginScaleBack" -> ScaleBackAfter
                                    [] OTHER                   -> @,
                        !.phase = CASE step = "StayOpen" -> "Open"
                                    [] step = "Close"    -> "Closed"
                                    [] OTHER             -> "Cooling"]
      /\ desired' = IF step = "BeginScaleBack" /\ desired > win.baseline
                    THEN win.baseline ELSE desired
  BY DEF DecideAndWrite
<1>2. win \in GateWindow
  BY DEF TypeOK
<1>3. safe \in BOOLEAN /\ force \in BOOLEAN /\ forced \in BOOLEAN
  <2>1. SafeReady(win) \in Nat
    BY PodSets, PodCount DEF SafeReady, Safe
  <2>2. win.baseline \in Nat /\ win.forcedCool \in BOOLEAN /\ win.opened \in Nat
    BY <1>2 DEF GateWindow
  <2>3. QED
    BY <2>1, <2>2, PolicyAssumption DEF SpareReady, maxWindowExceeded
<1>4. AtRisk = On(signalled) /\ AtRisk \subseteq PodNames
  BY PodSets DEF AtRisk
<1>5. ~(Cardinality(On(signalled)) > 0) => AtRisk = {}
  BY <1>4, PodCount
<1>6. /\ step \in Steps
      /\ step # "StayOpen" => force \/ AtRisk = {}
      /\ step \in {"StayCooling", "Close"} => win.until # NoTime
  BY <1>5 DEF decideWindowStep, Steps
<1>7. ScaleBackAfter \in Nat /\ ScaleBackAfter # NoTime
  BY PolicyAssumption DEF NoTime
<1> HIDE DEF step, safe, force
<1>8. CASE step = "Close" /\ ~forced
  BY <1>1, <1>6, <1>8
<1>9. CASE step = "Close" /\ forced
  <2>1. win' = [win EXCEPT !.forcedCool = TRUE, !.spareReady = safe, !.phase = "Closed"]
    BY <1>1, <1>2, <1>3, <1>9 DEF GateWindow
  <2>2. QED
    BY <1>1, <1>2, <1>3, <1>6, <1>9, <2>1 DEF GateWindow, Phases, safe
<1>10. CASE step = "StayOpen"
  <2>1. win' = [win EXCEPT !.forcedCool = forced, !.spareReady = safe, !.until = NoTime,
                           !.phase = "Open"]
    BY <1>1, <1>2, <1>10 DEF GateWindow
  <2>2. QED
    BY <1>1, <1>2, <1>3, <1>10, <2>1 DEF GateWindow, Phases, safe
<1>11. CASE step = "BeginScaleBack"
  <2>1. win' = [win EXCEPT !.forcedCool = forced, !.spareReady = safe,
                           !.until = ScaleBackAfter, !.phase = "Cooling"]
    BY <1>1, <1>2, <1>11 DEF GateWindow
  <2>2. QED
    BY <1>1, <1>2, <1>3, <1>6, <1>7, <1>11, <2>1 DEF GateWindow, Phases, safe
<1>12. CASE step = "StayCooling"
  <2>1. win' = [win EXCEPT !.forcedCool = forced, !.spareReady = safe, !.phase = "Cooling"]
    BY <1>1, <1>2, <1>12 DEF GateWindow
  <2>2. QED
    BY <1>1, <1>2, <1>3, <1>6, <1>12, <2>1 DEF GateWindow, Phases, safe
<1>13. QED
  BY <1>6, <1>8, <1>9, <1>10, <1>11, <1>12 DEF Steps

\* What the policy reconciler writes.
LEMMA PolicyFacts ==
  ASSUME TypeOK, NEW raise \in BOOLEAN, PolicyReconcile(raise)
  PROVE  /\ win' \in GateWindow /\ desired' \in Nat
         /\ pods' = pods /\ signalled' = signalled /\ seen' = seen
         /\ \/ /\ AtRisk = {} /\ win' = [win EXCEPT !.nodes = {}] /\ desired' = desired
            \/ /\ AtRisk # {} /\ win'.exists
               /\ win'.nodes = {pods[p].node : p \in AtRisk}
               /\ win'.until = NoTime /\ win'.phase = "Open"
               /\ desired' >= desired
               /\ win.exists => /\ win'.baseline = win.baseline
                                /\ win'.spareReady = win.spareReady
                                /\ win'.forcedCool = win.forcedCool
                                /\ ~win.forcedCool
               /\ ~win.exists => /\ win'.baseline = desired /\ win'.spareReady = FALSE
                                 /\ win'.forcedCool = FALSE
<1>1. win \in GateWindow /\ desired \in Nat /\ pods \in [PodNames -> Pod]
  BY DEF TypeOK
<1>2. pods' = pods /\ signalled' = signalled /\ seen' = seen
  BY DEF PolicyReconcile
<1>3. CASE AtRisk = {}
  <2>1. win' = [win EXCEPT !.nodes = {}] /\ desired' = desired
    BY <1>3 DEF PolicyReconcile, AtRisk
  <2>2. win' \in GateWindow
    BY <1>1, <2>1 DEF GateWindow
  <2>3. QED
    BY <1>1, <1>2, <1>3, <2>1, <2>2
<1>4. CASE AtRisk # {}
  <2> DEFINE opened == IF win.exists THEN win
                       ELSE [None EXCEPT !.exists = TRUE, !.baseline = desired]
             target == TargetReplicas(opened.baseline, Cardinality(AtRisk))
             nodes == {pods[p].node : p \in AtRisk}
  <2>1. /\ ~(win.exists /\ holdMaxWindow(win))
        /\ win' = [opened EXCEPT !.nodes = nodes, !.until = NoTime, !.phase = "Open"]
        /\ desired' = IF raise /\ desired < target THEN target ELSE desired
    BY <1>4 DEF PolicyReconcile, nodeNames, AtRisk
  <2>2. opened \in GateWindow /\ opened.exists
    BY <1>1, NoneFacts DEF GateWindow
  <2>3. opened.baseline \in Nat
    BY <2>2 DEF GateWindow
  <2>4. Cardinality(AtRisk) \in Nat
    BY PodSets, PodCount
  <2>5. target \in Nat
    BY <2>3, <2>4, TargetType
  <2>6. nodes \subseteq Nodes
    <3>1. AtRisk \subseteq PodNames /\ \A p \in AtRisk : pods[p].node \in signalled
      BY PodSets DEF AtRisk, On
    <3>2. signalled \subseteq Nodes
      BY DEF TypeOK
    <3>3. QED
      BY <3>1, <3>2
  <2>7. /\ win.exists => opened = win
        /\ ~win.exists => /\ opened.baseline = desired /\ opened.spareReady = FALSE
                          /\ opened.forcedCool = FALSE
    BY NoneFacts DEF GateWindow, None
  <2>9. win.exists => ~win.forcedCool
    BY <2>1 DEF holdMaxWindow
  <2> HIDE DEF opened, target, nodes
  <2>10. desired' \in Nat /\ desired' >= desired
    BY <1>1, <2>1, <2>5
  <2>11. /\ win' \in GateWindow /\ win'.exists /\ win'.nodes = nodes /\ win'.until = NoTime
         /\ win'.phase = "Open" /\ win'.baseline = opened.baseline
         /\ win'.spareReady = opened.spareReady /\ win'.forcedCool = opened.forcedCool
    BY <2>1, <2>2, <2>6 DEF GateWindow, Phases
  <2>12. QED
    BY <1>2, <1>4, <2>7, <2>9, <2>10, <2>11 DEF nodes
<1>5. QED
  BY <1>3, <1>4

-------------------------------------------------------------------------------
(***************************************************************************)
(* Types.                                                                  *)
(***************************************************************************)

\* What happens to a pod leaves everything but the pods alone.
PodStep(p) ==
  \/ Evict(p) \/ PodCreated(p) \/ PodRemoved(p) \/ PodBecomesReady(p)
  \/ PodUnready(p) \/ PodGone(p)

\* A pod step moves one pod: its state changes on the node where it is, or a
\* pod comes up on a node that does not signal.
LEMMA PodFacts ==
  ASSUME TypeOK, NEW p \in PodNames, PodStep(p)
  PROVE  /\ pods' \in [PodNames -> Pod]
         /\ signalled' = signalled /\ desired' = desired /\ win' = win /\ seen' = seen
         /\ \A q \in PodNames : q # p => pods'[q] = pods[q]
         /\ \/ pods'[p].state \in {"terminating", "none"}
            \/ pods'[p].node \notin signalled
            \/ pods'[p].node = pods[p].node /\ pods[p].state \in {"starting", "ready"}
<1>1. pods \in [PodNames -> Pod]
  BY DEF TypeOK
<1>2. pods[p].state \in {"none", "starting", "ready", "terminating"}
      /\ pods[p].node \in Nodes \cup {"none"}
  BY <1>1 DEF Pod
<1>3. CASE Evict(p) \/ PodRemoved(p)
  <2>1. pods' = [pods EXCEPT ![p].state = "terminating"]
    BY <1>3 DEF Evict, PodRemoved
  <2>2. pods'[p].state = "terminating"
    BY <1>1, <2>1 DEF Pod
  <2>3. pods' \in [PodNames -> Pod]
    BY <1>1, <2>1 DEF Pod
  <2>4. QED
    BY <1>1, <1>3, <2>1, <2>2, <2>3 DEF Evict, PodRemoved
<1>4. CASE PodCreated(p)
  <2>1. PICK n \in Nodes \ signalled :
             pods' = [pods EXCEPT ![p] = [state |-> "starting", node |-> n]]
    BY <1>4 DEF PodCreated
  <2>2. pods'[p].node = n /\ pods' \in [PodNames -> Pod]
    BY <1>1, <2>1 DEF Pod
  <2>3. QED
    BY <1>1, <1>4, <2>1, <2>2 DEF PodCreated
<1>5. CASE PodBecomesReady(p) \/ PodUnready(p)
  <2>1. PICK s \in {"starting", "ready"} : pods' = [pods EXCEPT ![p].state = s]
    BY <1>5 DEF PodBecomesReady, PodUnready
  <2>2. pods[p].state \in {"starting", "ready"}
    BY <1>5 DEF PodBecomesReady, PodUnready
  <2>3. pods'[p].node = pods[p].node /\ pods' \in [PodNames -> Pod]
    BY <1>1, <2>1 DEF Pod
  <2>4. QED
    BY <1>1, <1>5, <2>1, <2>2, <2>3 DEF PodBecomesReady, PodUnready
<1>6. CASE PodGone(p)
  <2>1. pods' = [pods EXCEPT ![p] = NoPod]
    BY <1>6 DEF PodGone
  <2>2. pods'[p].state = "none" /\ pods' \in [PodNames -> Pod]
    BY <1>1, <2>1 DEF Pod, NoPod
  <2>3. QED
    BY <1>1, <1>6, <2>1, <2>2 DEF PodGone
<1>7. QED
  BY <1>3, <1>4, <1>5, <1>6 DEF PodStep

\* The window reconciler: a tombstone goes when its nodes have cleared.
LEMMA WindowFacts ==
  ASSUME TypeOK, WindowReconcile
  PROVE  /\ pods' = pods /\ signalled' = signalled /\ seen' = seen /\ win.exists
         /\ \/ DecideAndWrite
            \/ /\ win.phase = "Closed" /\ stillVulnerable(win) = {} /\ win' = None
               /\ desired' = desired
  BY DEF WindowReconcile

\* The gate's copy has the window's nodes and flags.
LEMMA SyncFacts ==
  ASSUME TypeOK, CacheSync
  PROVE  /\ pods' = pods /\ signalled' = signalled /\ win' = win /\ desired' = desired
         /\ seen' \in GateWindow /\ seen'.exists = win.exists /\ seen'.nodes = win.nodes
         /\ seen'.spareReady = win.spareReady
<1>1. win \in GateWindow
  BY DEF TypeOK
<1>2. seen' = [win EXCEPT !.opened = 0, !.until = NoTime, !.baseline = 0]
  BY DEF CacheSync
<1>3. seen' \in GateWindow
  BY <1>1, <1>2 DEF GateWindow
<1>4. /\ seen'.exists = win.exists /\ seen'.nodes = win.nodes
      /\ seen'.spareReady = win.spareReady
  BY <1>1, <1>2 DEF GateWindow
<1>5. QED
  BY <1>3, <1>4 DEF CacheSync

\* The disjuncts of the next-state relation.
LEMMA StepCases ==
  ASSUME [Next]_vars
  PROVE  \/ \E raise \in BOOLEAN : PolicyReconcile(raise)
         \/ WindowReconcile
         \/ \E n \in Nodes : NodeSignals(n)
         \/ \E n \in Nodes : NodeClears(n)
         \/ \E p \in PodNames : PodStep(p)
         \/ Tick \/ CacheSync \/ UNCHANGED vars
  BY DEF Next, Reconcile, PodStep

\* Every step keeps the types.
LEMMA TypeStep == TypeOK /\ [Next]_vars => TypeOK'
<1>1. SUFFICES ASSUME TypeOK, [Next]_vars PROVE TypeOK'
  OBVIOUS
<1>2. CASE \E raise \in BOOLEAN : PolicyReconcile(raise)
  <2>1. PICK raise \in BOOLEAN : PolicyReconcile(raise)
    BY <1>2
  <2>2. win' \in GateWindow /\ desired' \in Nat
        /\ pods' = pods /\ signalled' = signalled /\ seen' = seen
    BY <1>1, <2>1, PolicyFacts
  <2>3. QED
    BY <1>1, <2>2 DEF TypeOK
<1>3. CASE WindowReconcile
  <2>1. pods' = pods /\ signalled' = signalled /\ seen' = seen
    BY <1>1, <1>3, WindowFacts
  <2>2. win' \in GateWindow /\ desired' \in Nat
    <3>1. desired \in Nat /\ win.baseline \in Nat
      BY <1>1 DEF TypeOK, GateWindow
    <3>2. CASE DecideAndWrite
      BY <1>1, <1>3, <3>1, <3>2, WindowFacts, DecideFacts, NoneFacts
    <3>3. CASE win' = None /\ desired' = desired
      BY <3>1, <3>3, NoneFacts
    <3>4. QED
      BY <1>1, <1>3, <3>2, <3>3, WindowFacts
  <2>3. QED
    BY <1>1, <2>1, <2>2 DEF TypeOK
<1>4. CASE \E n \in Nodes : NodeSignals(n) \/ NodeClears(n)
  BY <1>1, <1>4 DEF NodeSignals, NodeClears, TypeOK
<1>5. CASE \E p \in PodNames : PodStep(p)
  BY <1>1, <1>5, PodFacts DEF TypeOK
<1>6. CASE Tick
  BY <1>1, <1>6, AgeFacts DEF Tick, TypeOK
<1>7. CASE CacheSync
  BY <1>1, <1>7, SyncFacts DEF TypeOK
<1>8. CASE UNCHANGED vars
  BY <1>1, <1>8 DEF vars, TypeOK
<1>9. QED
  BY <1>1, <1>2, <1>3, <1>4, <1>5, <1>6, <1>7, <1>8, StepCases

\* The pods start on nodes, and without a window.
LEMMA TypeStart == Init => TypeOK
<1>1. SUFFICES ASSUME Init PROVE TypeOK
  OBVIOUS
<1>2. PICK start \in [{p \in PodNames : p <= UserReplicas} -> Nodes] :
        pods = [p \in PodNames |-> IF p <= UserReplicas
                                   THEN [state |-> "ready", node |-> start[p]] ELSE NoPod]
  BY <1>1 DEF Init
<1>3. pods \in [PodNames -> Pod]
  BY <1>2 DEF Pod, NoPod
<1>4. QED
  BY <1>1, <1>3, NoneFacts, GateAssumption DEF Init, TypeOK

\* Every reachable state is well typed: in particular a spare flag, a baseline
\* and a list of nodes are written together with their window.
THEOREM TypeCorrect == Spec => []TypeOK
  BY TypeStart, TypeStep, PTL DEF Spec

-------------------------------------------------------------------------------
(***************************************************************************)
(* The order of evictions.                                                 *)
(***************************************************************************)

\* Who is at risk: a live pod on a node that signals.
LEMMA RiskFacts ==
  AtRisk = {p \in PodNames : /\ pods[p].state \in {"starting", "ready"}
                             /\ pods[p].node \in signalled}
  BY DEF AtRisk, On, Live

\* No pod becomes at risk unless a node starts to signal.
LEMMA RiskStep ==
  ASSUME TypeOK, [Next]_vars, ~(\E n \in Nodes : NodeSignals(n))
  PROVE  AtRisk' \subseteq AtRisk /\ \A p \in AtRisk' : pods'[p].node = pods[p].node
<1>1. AtRisk' = {p \in PodNames : /\ pods'[p].state \in {"starting", "ready"}
                                  /\ pods'[p].node \in signalled'}
  BY RiskFacts DEF AtRisk, On, Live
<1>2. CASE pods' = pods /\ signalled' \subseteq signalled
  BY <1>1, <1>2, RiskFacts
<1>3. CASE \E p \in PodNames : PodStep(p)
  <2>1. PICK p \in PodNames : PodStep(p)
    BY <1>3
  <2>2. /\ signalled' = signalled
        /\ \A q \in PodNames : q # p => pods'[q] = pods[q]
        /\ \/ pods'[p].state \in {"terminating", "none"}
           \/ pods'[p].node \notin signalled
           \/ pods'[p].node = pods[p].node /\ pods[p].state \in {"starting", "ready"}
    BY <2>1, PodFacts
  <2>3. ASSUME NEW q \in AtRisk' PROVE q \in AtRisk /\ pods'[q].node = pods[q].node
    <3>1. CASE q # p
      BY <1>1, <2>2, <3>1, RiskFacts
    <3>2. CASE q = p
      BY <1>1, <2>2, <3>2, RiskFacts
    <3>3. QED
      BY <3>1, <3>2
  <2>4. QED
    BY <2>3
<1>4. CASE \E raise \in BOOLEAN : PolicyReconcile(raise)
  BY <1>2, <1>4 DEF PolicyReconcile
<1>5. CASE WindowReconcile \/ Tick \/ CacheSync \/ UNCHANGED vars
  BY <1>2, <1>5 DEF WindowReconcile, Tick, CacheSync, vars
<1>6. CASE \E n \in Nodes : NodeClears(n)
  BY <1>2, <1>6 DEF NodeClears
<1>7. QED
  BY <1>3, <1>4, <1>5, <1>6, StepCases

\* A window goes away only when no pod is at risk.
LEMMA WindowStep ==
  ASSUME TypeOK, Covered, WindowReconcile
  PROVE  \/ win' = None /\ AtRisk = {}
         \/ win'.exists /\ win'.nodes = win.nodes /\ (win.forcedCool => win'.forcedCool)
<1>1. win.exists
  BY WindowFacts
<1>2. CASE DecideAndWrite
  BY <1>1, <1>2, DecideFacts
<1>3. CASE win' = None /\ stillVulnerable(win) = {}
  <2>1. \A p \in AtRisk : pods[p].node \in win.nodes /\ pods[p].node \in signalled
    BY <1>1, RiskFacts DEF Covered
  <2>2. AtRisk = {}
    BY <1>3, <2>1 DEF stillVulnerable
  <2>3. QED
    BY <1>3, <2>2
<1>4. QED
  BY <1>2, <1>3, WindowFacts

\* A node that signals while there is a window would not be in it.
LEMMA CoveredStep ==
  ASSUME "late" \notin Hazards, TypeOK, Covered, [Next]_vars
  PROVE  Covered'
<1> DEFINE Covers(w) == w.exists => \A p \in AtRisk : pods[p].node \in w.nodes
           CoversNow(w) == w.exists => \A p \in AtRisk' : pods'[p].node \in w.nodes
<1>0. Covers(win) /\ Covers(seen)
  BY DEF Covered
<1>1. SUFFICES CoversNow(win') /\ CoversNow(seen')
  BY DEF Covered
<1>2. CASE \E n \in Nodes : NodeSignals(n)
  <2>1. win' = win /\ seen' = seen /\ ~win.exists /\ ~seen.exists
    BY <1>2 DEF NodeSignals
  <2>2. QED
    BY <2>1
<1>3. CASE ~(\E n \in Nodes : NodeSignals(n))
  <2>1. AtRisk' \subseteq AtRisk /\ \A p \in AtRisk' : pods'[p].node = pods[p].node
    BY <1>3, RiskStep
  <2>2. \A w : Covers(w) => CoversNow(w)
    BY <2>1
  <2>3. CoversNow(win) /\ CoversNow(seen)
    BY <1>0, <2>2
  <2>4. CASE \E raise \in BOOLEAN : PolicyReconcile(raise)
    <3>1. PICK raise \in BOOLEAN : PolicyReconcile(raise)
      BY <2>4
    <3>2. /\ seen' = seen
          /\ AtRisk = {} \/ win'.nodes = {pods[p].node : p \in AtRisk}
      BY <3>1, PolicyFacts
    <3>3. CoversNow(win')
      BY <2>1, <3>2
    <3>4. QED
      BY <2>3, <3>2, <3>3
  <2>5. CASE WindowReconcile
    <3>1. seen' = seen /\ win.exists
      BY <2>5, WindowFacts
    <3>2. \/ win' = None /\ AtRisk = {}
          \/ win'.exists /\ win'.nodes = win.nodes
      BY <2>5, WindowStep
    <3>3. CoversNow(win')
      BY <2>1, <2>3, <3>1, <3>2
    <3>4. QED
      BY <2>3, <3>1, <3>3
  <2>6. CASE Tick
    <3>1. win \in GateWindow /\ win' = Age(win) /\ seen' = seen
      BY <2>6 DEF Tick, TypeOK
    <3>2. win'.exists = win.exists /\ win'.nodes = win.nodes
      BY <3>1, AgeFacts
    <3>3. QED
      BY <2>3, <3>1, <3>2
  <2>7. CASE CacheSync
    <3>1. win' = win /\ seen'.exists = win.exists /\ seen'.nodes = win.nodes
      BY <2>7, SyncFacts
    <3>2. QED
      BY <2>3, <3>1
  <2>8. CASE (\E n \in Nodes : NodeClears(n)) \/ UNCHANGED vars
    BY <2>3, <2>8 DEF NodeClears, vars
  <2>9. CASE \E p \in PodNames : PodStep(p)
    <3>1. win' = win /\ seen' = seen
      BY <2>9, PodFacts
    <3>2. QED
      BY <2>3, <3>1
  <2>10. QED
    BY <1>3, <2>4, <2>5, <2>6, <2>7, <2>8, <2>9, StepCases
<1>4. QED
  BY <1>2, <1>3

\* An eviction that is gated goes by the copy's SpareReady, which covers p.
LEMMA GatedFacts ==
  ASSUME Covered, NEW p \in PodNames, GatedEviction(p)
  PROVE  /\ p \in AtRisk /\ seen.exists /\ seen.spareReady /\ pods[p].node \in seen.nodes
         /\ nextAtRiskPod(seen.nodes) = {} \/ p \in nextAtRiskPod(seen.nodes)
<1>1. /\ pods[p].node \in signalled /\ ~seen.forcedCool /\ p \in Live /\ Evaluate(p)
  BY DEF GatedEviction, Evict
<1>2. p \in AtRisk
  BY <1>1 DEF AtRisk, On
<1>3. seen.exists /\ seen.spareReady
  BY <1>1 DEF Evaluate, activeWindowFor
<1>4. pods[p].node \in seen.nodes
  BY <1>2, <1>3 DEF Covered
<1>5. nextAtRiskPod(seen.nodes) = {} \/ p \in nextAtRiskPod(seen.nodes)
  BY <1>1, <1>4 DEF Evaluate
<1>6. QED
  BY <1>2, <1>3, <1>4, <1>5

\* "SpareReady: allow only the lexicographically first at-risk pod": as long as
\* no node starts to signal under a window, whatever else happens and however
\* old the gate's copy is.
THEOREM FirstGoesFirst ==
  ASSUME "late" \notin Hazards
  PROVE  Spec => OnlyFirstAtRisk
<1>1. Init => TypeOK /\ Covered
  BY TypeStart, NoneFacts DEF Init, Covered
<1>2. TypeOK /\ Covered /\ [Next]_vars => (TypeOK /\ Covered)'
  BY TypeStep, CoveredStep
<1>3. ASSUME TypeOK, Covered, NEW p \in PodNames, NEW q \in PodNames,
             GatedEviction(p), q \in Live, pods[q].node = pods[p].node
      PROVE  p <= q
  <2>1. /\ pods[p].node \in seen.nodes /\ p \in AtRisk
        /\ nextAtRiskPod(seen.nodes) = {} \/ p \in nextAtRiskPod(seen.nodes)
    BY <1>3, GatedFacts
  <2>2. p \in On(seen.nodes) /\ q \in On(seen.nodes) /\ On(seen.nodes) \subseteq Nat
    BY <1>3, <2>1, PodSets, GateAssumption DEF On
  <2>3. \E x \in On(seen.nodes) : \A y \in On(seen.nodes) : x <= y
    BY <2>2, FirstPod
  <2>4. p \in nextAtRiskPod(seen.nodes)
    BY <2>1, <2>3 DEF nextAtRiskPod
  <2>5. QED
    BY <2>2, <2>4 DEF nextAtRiskPod
<1>4. TypeOK /\ Covered =>
        [\A p, q \in PodNames :
           GatedEviction(p) /\ q \in Live /\ pods[q].node = pods[p].node => p <= q]_vars
  BY <1>3
<1>5. QED
  BY <1>1, <1>2, <1>4, PTL DEF Spec, OnlyFirstAtRisk

-------------------------------------------------------------------------------
(***************************************************************************)
(* Spare capacity before an eviction.                                      *)
(***************************************************************************)

\* A window that closes has given back what it raised.
LEMMA LendingStep ==
  ASSUME TypeOK, Lending, [Next]_vars
  PROVE  Lending'
<1>0. UserReplicas \in Nat /\ desired \in Nat /\ win \in GateWindow
  BY GateAssumption DEF TypeOK
<1>1. /\ desired >= UserReplicas
      /\ ~win.exists => desired = UserReplicas
      /\ win.exists => win.baseline = UserReplicas
      /\ win.exists /\ win.until # NoTime => desired = UserReplicas
      /\ win.phase = "Closed" => win.until # NoTime /\ win.forcedCool
  BY DEF Lending
<1>2. CASE win' = win /\ desired' = desired
  BY <1>1, <1>2 DEF Lending
<1>3. CASE \E raise \in BOOLEAN : PolicyReconcile(raise)
  <2>1. PICK raise \in BOOLEAN : PolicyReconcile(raise)
    BY <1>3
  <2>2. CASE win' = [win EXCEPT !.nodes = {}] /\ desired' = desired
    <3>1. /\ win'.exists = win.exists /\ win'.baseline = win.baseline
          /\ win'.until = win.until /\ win'.phase = win.phase
          /\ win'.forcedCool = win.forcedCool
      BY <1>0, <2>2 DEF GateWindow
    <3>2. QED
      BY <1>1, <2>2, <3>1 DEF Lending
  <2>3. CASE /\ win'.exists /\ win'.until = NoTime /\ win'.phase = "Open" /\ desired' >= desired
             /\ win.exists => win'.baseline = win.baseline
             /\ ~win.exists => win'.baseline = desired
    <3>1. desired' \in Nat
      BY <2>1, PolicyFacts
    <3>2. desired' >= UserReplicas
      BY <1>0, <1>1, <2>3, <3>1
    <3>3. win'.baseline = UserReplicas
      BY <1>1, <2>3
    <3>4. QED
      BY <2>3, <3>2, <3>3 DEF Lending
  <2>4. QED
    BY <2>1, <2>2, <2>3, PolicyFacts
<1>4. CASE WindowReconcile
  <2>1. win.exists
    BY <1>4, WindowFacts
  <2>2. CASE win' = None /\ desired' = desired /\ win.until # NoTime
    BY <1>1, <2>1, <2>2, NoneFacts DEF Lending
  <2>3. CASE /\ win'.exists /\ win'.baseline = win.baseline
             /\ win'.phase = "Closed" => win'.until # NoTime /\ win'.forcedCool
             /\ \/ desired' = desired /\ (win'.until # NoTime => win.until # NoTime)
                \/ desired' = IF desired > win.baseline THEN win.baseline ELSE desired
    <3>1. desired' = desired \/ desired' = UserReplicas
      BY <1>0, <1>1, <2>1, <2>3
    <3>2. win'.until # NoTime => desired' = UserReplicas
      BY <1>0, <1>1, <2>1, <2>3
    <3>3. desired' >= UserReplicas
      BY <1>0, <1>1, <3>1
    <3>4. QED
      BY <1>1, <2>1, <2>3, <3>2, <3>3 DEF Lending
  <2>4. CASE DecideAndWrite
    BY <2>1, <2>2, <2>3, <2>4, DecideFacts
  <2>5. CASE win.phase = "Closed" /\ win' = None /\ desired' = desired
    BY <1>1, <2>2, <2>5
  <2>6. QED
    BY <1>4, <2>4, <2>5, WindowFacts
<1>5. CASE Tick
  <2>1. win' = Age(win) /\ desired' = desired
    BY <1>5 DEF Tick
  <2>2. QED
    BY <1>0, <1>1, <2>1, AgeFacts DEF Lending
<1>6. CASE (\E n \in Nodes : NodeSignals(n) \/ NodeClears(n)) \/ CacheSync \/ UNCHANGED vars
  BY <1>2, <1>6 DEF NodeSignals, NodeClears, CacheSync, vars
<1>7. CASE \E p \in PodNames : PodStep(p)
  BY <1>2, <1>7, PodFacts
<1>8. QED
  BY <1>3, <1>4, <1>5, <1>6, <1>7, StepCases

\* The ForcedCool stamp of a window outlives the pods at risk.
LEMMA UnforcedStep ==
  ASSUME TypeOK, Covered, [Next]_vars, AtRisk # {}, Unforced'
  PROVE  Unforced
<1>0. win \in GateWindow
  BY DEF TypeOK
<1>1. SUFFICES ASSUME win.exists, win.forcedCool PROVE win'.exists /\ win'.forcedCool
  BY DEF Unforced
<1>2. CASE win' = win
  BY <1>1, <1>2
<1>3. CASE \E raise \in BOOLEAN : PolicyReconcile(raise)
  BY <1>1, <1>3, PolicyFacts
<1>4. CASE WindowReconcile
  BY <1>1, <1>4, WindowStep
<1>5. CASE Tick
  BY <1>0, <1>1, <1>5, AgeFacts DEF Tick
<1>6. CASE (\E n \in Nodes : NodeSignals(n) \/ NodeClears(n)) \/ CacheSync \/ UNCHANGED vars
  BY <1>2, <1>6 DEF NodeSignals, NodeClears, CacheSync, vars
<1>7. CASE \E p \in PodNames : PodStep(p)
  BY <1>2, <1>7, PodFacts
<1>8. QED
  BY <1>3, <1>4, <1>5, <1>6, <1>7, StepCases

\* Only the Deployment controller adds a pod, and only a missing one.
LEMMA LiveStep ==
  ASSUME TypeOK, NEW p \in PodNames, PodStep(p)
  PROVE  Live' \subseteq Live \/ (Live' \subseteq Live \cup {p} /\ Cardinality(Live) < desired)
<1>1. pods \in [PodNames -> Pod]
  BY DEF TypeOK
<1>2. \A q \in PodNames : q # p => pods'[q] = pods[q]
  BY PodFacts
<1>3. Live' \subseteq Live \cup {p}
  BY <1>2 DEF Live
<1>4. CASE PodCreated(p)
  BY <1>3, <1>4 DEF PodCreated
<1>5. CASE PodBecomesReady(p) \/ PodUnready(p)
  <2>1. p \in Live
    BY <1>5 DEF PodBecomesReady, PodUnready, Live
  <2>2. QED
    BY <1>3, <2>1
<1>6. CASE Evict(p) \/ PodRemoved(p) \/ PodGone(p)
  <2>1. \/ pods' = [pods EXCEPT ![p].state = "terminating"]
        \/ pods' = [pods EXCEPT ![p] = NoPod]
    BY <1>6 DEF Evict, PodRemoved, PodGone
  <2>2. pods'[p].state \in {"terminating", "none"}
    BY <1>1, <2>1 DEF NoPod, Pod
  <2>3. p \notin Live'
    BY <2>2 DEF Live
  <2>4. QED
    BY <1>3, <2>3
<1>7. QED
  BY <1>4, <1>5, <1>6 DEF PodStep

\* A disruption begins with a settled Deployment, which is only raised from
\* then on.
LEMMA SurplusStep ==
  ASSUME "late" \notin Hazards, TypeOK, Covered, NoneSurplus, [Next]_vars
  PROVE  NoneSurplus'
<1>0. desired \in Nat /\ Live \subseteq PodNames /\ Live' \subseteq PodNames
  BY PodSets DEF TypeOK, Live
<1>1. SUFFICES ASSUME AtRisk' # {}, Unforced' PROVE Cardinality(Live') <= desired'
  BY DEF NoneSurplus
<1>2. Cardinality(Live) \in Nat /\ IsFiniteSet(Live)
  BY <1>0, PodCount
<1>3. pods' = pods => Live' = Live
  BY DEF Live
<1>4. CASE \E n \in Nodes : NodeSignals(n)
  <2>1. Settled /\ pods' = pods /\ desired' = desired
    BY <1>4 DEF NodeSignals
  <2>2. QED
    BY <1>0, <1>3, <2>1 DEF Settled
<1>5. CASE ~(\E n \in Nodes : NodeSignals(n))
  <2>1. AtRisk # {}
    BY <1>1, <1>5, RiskStep
  <2>2. Cardinality(Live) <= desired
    BY <1>1, <2>1, UnforcedStep DEF NoneSurplus
  <2>3. CASE pods' = pods /\ desired' = desired
    BY <1>3, <2>2, <2>3
  <2>4. CASE \E raise \in BOOLEAN : PolicyReconcile(raise)
    <3>1. pods' = pods /\ desired' \in Nat /\ desired' >= desired
      BY <1>0, <2>1, <2>4, PolicyFacts
    <3>2. QED
      BY <1>0, <1>2, <1>3, <2>2, <3>1
  <2>5. CASE WindowReconcile
    <3>1. win.exists /\ pods' = pods /\ win'.exists
      BY <2>1, <2>5, WindowFacts, WindowStep
    <3>2. ~win'.forcedCool
      BY <1>1, <3>1 DEF Unforced
    <3>3. CASE DecideAndWrite
      <4>1. desired' = desired
        BY <2>1, <3>1, <3>2, <3>3, DecideFacts
      <4>2. QED
        BY <2>3, <3>1, <4>1
    <3>4. QED
      BY <2>3, <2>5, <3>1, <3>3, WindowFacts
  <2>6. CASE Tick \/ CacheSync \/ (\E n \in Nodes : NodeClears(n)) \/ UNCHANGED vars
    BY <2>3, <2>6 DEF Tick, CacheSync, NodeClears, vars
  <2>7. CASE \E p \in PodNames : PodStep(p)
    <3>1. PICK p \in PodNames : PodStep(p)
      BY <2>7
    <3>2. desired' = desired
      BY <3>1, PodFacts
    <3>3. CASE Live' \subseteq Live
      <4>1. Cardinality(Live') <= Cardinality(Live) /\ Cardinality(Live') \in Nat
        BY <1>0, <3>3, PodCount
      <4>2. QED
        BY <1>0, <1>2, <2>2, <3>2, <4>1
    <3>4. CASE Live' \subseteq Live \cup {p} /\ Cardinality(Live) < desired
      <4>1. /\ Cardinality(Live \cup {p}) <= Cardinality(Live) + 1
            /\ Live \cup {p} \subseteq PodNames
        BY <1>0, <1>2, FS_AddElement
      <4>2. /\ Cardinality(Live') <= Cardinality(Live \cup {p}) /\ Cardinality(Live') \in Nat
            /\ Cardinality(Live \cup {p}) \in Nat
        BY <3>4, <4>1, PodCount
      <4>3. QED
        BY <1>0, <1>2, <3>2, <3>4, <4>1, <4>2
    <3>5. QED
      BY <3>1, <3>3, <3>4, LiveStep
  <2>8. QED
    BY <1>5, <2>4, <2>5, <2>6, <2>7, StepCases
<1>6. QED
  BY <1>4, <1>5

\* The pods that are Ready after the step, off the nodes ns.
SafeNow(ns) == {p \in PodNames : pods'[p].state = "ready" /\ pods'[p].node \notin ns}

\* A Ready pod off the nodes of a window stays Ready while a pod is at risk.
LEMMA SafeStep ==
  ASSUME Hazards = {}, TypeOK, NoneSurplus, [Next]_vars, AtRisk # {}, Unforced,
         NEW ns, \A p \in AtRisk : pods[p].node \in ns
  PROVE  Safe(ns) \subseteq SafeNow(ns)
<1>0. Safe(ns) = {p \in PodNames : pods[p].state = "ready" /\ pods[p].node \notin ns}
  BY DEF Safe, Ready
<1>1. SafeNow(ns) = {p \in PodNames : pods'[p].state = "ready" /\ pods'[p].node \notin ns}
  BY DEF SafeNow
<1>2. CASE pods' = pods
  BY <1>0, <1>1, <1>2
<1>3. CASE \E p \in PodNames : PodStep(p)
  <2>1. PICK p \in PodNames : PodStep(p)
    BY <1>3
  <2>2. \A q \in PodNames : q # p => pods'[q] = pods[q]
    BY <2>1, PodFacts
  <2>3. p \notin Safe(ns)
    <3>1. SUFFICES ASSUME p \in Safe(ns) PROVE FALSE
      OBVIOUS
    <3>2. pods[p].state = "ready" /\ pods[p].node \notin ns /\ p \in Live
      BY <1>0, <3>1 DEF Live
    <3>3. CASE Evict(p)
      <4>1. p \in AtRisk
        BY <3>2, <3>3 DEF Evict, AtRisk, On
      <4>2. QED
        BY <3>2, <4>1
    <3>4. CASE PodRemoved(p)
      <4>1. Cardinality(Live) > desired
        BY <3>4 DEF PodRemoved
      <4>2. Cardinality(Live) <= desired
        BY DEF NoneSurplus
      <4>3. Cardinality(Live) \in Nat /\ desired \in Nat
        BY PodSets, PodCount DEF TypeOK
      <4>4. QED
        BY <4>1, <4>2, <4>3
    <3>5. CASE PodCreated(p) \/ PodBecomesReady(p) \/ PodUnready(p) \/ PodGone(p)
      BY <3>2, <3>5 DEF PodCreated, PodBecomesReady, PodUnready, PodGone
    <3>6. QED
      BY <2>1, <3>3, <3>4, <3>5 DEF PodStep
  <2>4. QED
    BY <1>0, <1>1, <2>2, <2>3
<1>4. CASE \E raise \in BOOLEAN : PolicyReconcile(raise)
  BY <1>2, <1>4 DEF PolicyReconcile
<1>5. CASE \/ WindowReconcile \/ Tick \/ CacheSync \/ UNCHANGED vars
           \/ \E n \in Nodes : NodeSignals(n) \/ NodeClears(n)
  BY <1>2, <1>5 DEF WindowReconcile, Tick, CacheSync, NodeSignals, NodeClears, vars
<1>6. QED
  BY <1>3, <1>4, <1>5, StepCases

\* A flag that was true when it was written is true when it is read.
LEMMA FlagsStep ==
  ASSUME Hazards = {}, GateInv, [Next]_vars
  PROVE  FlagsHold'
<1>0. TypeOK /\ Covered /\ Lending /\ NoneSurplus /\ FlagsHold /\ win \in GateWindow
  BY DEF GateInv, TypeOK
<1> DEFINE Enough(w) == w.exists /\ w.spareReady => Cardinality(Safe(w.nodes)) >= UserReplicas
           EnoughNow(w) == w.exists /\ w.spareReady =>
                             Cardinality(SafeNow(w.nodes)) >= UserReplicas
<1>1. SUFFICES ASSUME AtRisk' # {}, Unforced' PROVE EnoughNow(win') /\ EnoughNow(seen')
  <2>1. \A ns : SafeNow(ns) = {p \in Ready' : pods'[p].node \notin ns}
    BY DEF SafeNow, Ready
  <2>2. SUFFICES ASSUME AtRisk' # {}, Unforced', NEW w \in {win', seen'}, w.exists, w.spareReady
                 PROVE  Cardinality({p \in Ready' : pods'[p].node \notin w.nodes}) >= UserReplicas
    BY DEF FlagsHold, Safe
  <2>3. EnoughNow(win') /\ EnoughNow(seen')
    BY <1>1, <2>2
  <2>4. Cardinality(SafeNow(w.nodes)) >= UserReplicas
    BY <2>2, <2>3
  <2>5. SafeNow(w.nodes) = {p \in Ready' : pods'[p].node \notin w.nodes}
    BY <2>1
  <2>6. QED
    BY <2>4, <2>5
<1>2. CASE \E n \in Nodes : NodeSignals(n)
  <2>1. win' = win /\ seen' = seen /\ ~win.exists /\ ~seen.exists
    BY <1>2 DEF NodeSignals
  <2>2. QED
    BY <2>1
<1>3. CASE ~(\E n \in Nodes : NodeSignals(n))
  <2>1. AtRisk # {}
    BY <1>0, <1>1, <1>3, RiskStep
  <2>2. Unforced
    BY <1>0, <1>1, <2>1, UnforcedStep
  <2>3. Enough(win) /\ Enough(seen)
    BY <1>0, <2>1, <2>2 DEF FlagsHold
  <2>4. /\ win.exists => \A p \in AtRisk : pods[p].node \in win.nodes
        /\ seen.exists => \A p \in AtRisk : pods[p].node \in seen.nodes
    BY <1>0 DEF Covered
  <2>5. ASSUME NEW ns, NEW ms, \A p \in AtRisk : pods[p].node \in ns, ns \subseteq ms,
               Cardinality(Safe(ms)) >= UserReplicas
        PROVE  Cardinality(SafeNow(ns)) >= UserReplicas
    <3>1. Safe(ns) \subseteq SafeNow(ns)
      BY <1>0, <2>1, <2>2, <2>5, SafeStep
    <3>2. Safe(ms) \subseteq Safe(ns)
      BY <2>5 DEF Safe
    <3>3. SafeNow(ns) \subseteq PodNames
      BY DEF SafeNow
    <3>4. /\ Cardinality(Safe(ms)) <= Cardinality(SafeNow(ns))
          /\ Cardinality(Safe(ms)) \in Nat /\ Cardinality(SafeNow(ns)) \in Nat
      BY <3>1, <3>2, <3>3, PodCount
    <3>5. QED
      BY <2>5, <3>4, GateAssumption
  <2>6. EnoughNow(win) /\ EnoughNow(seen)
    BY <2>3, <2>4, <2>5
  <2>7. CASE \E raise \in BOOLEAN : PolicyReconcile(raise)
    <3>1. PICK raise \in BOOLEAN : PolicyReconcile(raise)
      BY <2>7
    <3>2. /\ seen' = seen /\ win'.nodes = {pods[p].node : p \in AtRisk}
          /\ win.exists => win'.spareReady = win.spareReady
          /\ ~win.exists => win'.spareReady = FALSE
      BY <1>0, <2>1, <3>1, PolicyFacts
    <3>3. ASSUME win'.spareReady PROVE Cardinality(SafeNow(win'.nodes)) >= UserReplicas
      <4>1. win.exists /\ win.spareReady
        BY <3>2, <3>3
      <4>2. win'.nodes \subseteq win.nodes /\ \A p \in AtRisk : pods[p].node \in win'.nodes
        BY <2>4, <3>2, <4>1
      <4>3. QED
        BY <2>3, <2>5, <4>1, <4>2
    <3>4. QED
      BY <2>6, <3>2, <3>3
  <2>8. CASE WindowReconcile
    <3>1. seen' = seen /\ win.exists
      BY <1>0, <2>8, WindowFacts
    <3>2. win'.exists /\ win'.nodes = win.nodes
      BY <1>0, <2>1, <2>8, WindowStep
    <3>3. DecideAndWrite
      BY <1>0, <2>8, <3>2, WindowFacts, NoneFacts
    <3>4. win'.spareReady = SpareReady(win)
      BY <1>0, <2>1, <3>1, <3>3, DecideFacts
    <3>5. SpareReady(win) => Cardinality(Safe(win.nodes)) >= UserReplicas
      BY <1>0, <3>1 DEF SpareReady, SafeReady, Safe, Lending
    <3>6. win'.spareReady => Cardinality(SafeNow(win'.nodes)) >= UserReplicas
      BY <2>4, <2>5, <3>1, <3>2, <3>4, <3>5
    <3>7. QED
      BY <2>6, <3>1, <3>6
  <2>9. CASE Tick
    <3>1. win' = Age(win) /\ seen' = seen
      BY <2>9 DEF Tick
    <3>2. /\ win'.exists = win.exists /\ win'.nodes = win.nodes
          /\ win'.spareReady = win.spareReady
      BY <1>0, <3>1, AgeFacts
    <3>3. QED
      BY <2>6, <3>1, <3>2
  <2>10. CASE CacheSync
    <3>1. /\ win' = win /\ seen'.exists = win.exists /\ seen'.nodes = win.nodes
          /\ seen'.spareReady = win.spareReady
      BY <1>0, <2>10, SyncFacts
    <3>2. QED
      BY <2>6, <3>1
  <2>11. CASE win' = win /\ seen' = seen
    BY <2>6, <2>11
  <2>12. CASE (\E n \in Nodes : NodeClears(n)) \/ UNCHANGED vars
    BY <2>11, <2>12 DEF NodeClears, vars
  <2>13. CASE \E p \in PodNames : PodStep(p)
    BY <1>0, <2>11, <2>13, PodFacts
  <2>14. QED
    BY <1>3, <2>7, <2>8, <2>9, <2>10, <2>12, <2>13, StepCases
<1>4. QED
  BY <1>2, <1>3

\* Every step keeps the invariant.
LEMMA GateStep ==
  ASSUME Hazards = {}
  PROVE  GateInv /\ [Next]_vars => GateInv'
<1>1. SUFFICES ASSUME GateInv, [Next]_vars PROVE GateInv'
  OBVIOUS
<1>2. TypeOK /\ Covered /\ Lending /\ NoneSurplus
  BY <1>1 DEF GateInv
<1>3. TypeOK' /\ Covered' /\ Lending' /\ NoneSurplus' /\ FlagsHold'
  BY <1>1, <1>2, TypeStep, CoveredStep, LendingStep, SurplusStep, FlagsStep
<1>4. QED
  BY <1>3 DEF GateInv

\* There is no window, and no node signals.
LEMMA GateStart == Init => GateInv
<1>1. SUFFICES ASSUME Init PROVE GateInv
  OBVIOUS
<1>2. TypeOK
  BY <1>1, TypeStart
<1>3. /\ win = None /\ seen = None /\ desired = UserReplicas /\ signalled = {}
  BY <1>1 DEF Init
<1>4. AtRisk = {}
  BY <1>3 DEF AtRisk, On
<1>5. Lending
  <2>1. desired >= UserReplicas
    BY <1>3, GateAssumption
  <2>2. win.exists = FALSE /\ win.phase = ""
    BY <1>3, NoneFacts
  <2>3. QED
    BY <1>3, <2>1, <2>2 DEF Lending
<1>6. Covered /\ NoneSurplus /\ FlagsHold
  BY <1>4 DEF Covered, NoneSurplus, FlagsHold
<1>7. QED
  BY <1>2, <1>5, <1>6 DEF GateInv

\* "Spare Ready before at-risk pod terminates": in one clean disruption at a
\* time, an eviction that goes by SpareReady leaves the Deployment the Ready
\* pods its user asked for, however old the flag and the gate's copy are.
THEOREM SpareComesFirst ==
  ASSUME Hazards = {}
  PROVE  Spec => SpareKeepsBaseline
<1>1. GateInv /\ [Next]_vars => GateInv'
  BY GateStep
<1>2. ASSUME GateInv, NEW p \in PodNames, GatedEviction(p)
      PROVE  Cardinality(Ready') >= UserReplicas
  <2>1. TypeOK /\ Covered /\ FlagsHold
    BY <1>2 DEF GateInv
  <2>2. p \in AtRisk /\ seen.exists /\ seen.spareReady /\ pods[p].node \in seen.nodes
    BY <1>2, <2>1, GatedFacts
  <2>3. Unforced
    BY <1>2 DEF GatedEviction, Unforced
  <2>4. Cardinality(Safe(seen.nodes)) >= UserReplicas
    BY <2>1, <2>2, <2>3 DEF FlagsHold
  <2>5. Safe(seen.nodes) \subseteq Ready'
    <3>1. PodStep(p)
      BY <1>2 DEF GatedEviction, PodStep
    <3>2. \A q \in PodNames : q # p => pods'[q] = pods[q]
      BY <2>1, <3>1, PodFacts
    <3>3. p \notin Safe(seen.nodes)
      BY <2>2 DEF Safe
    <3>4. QED
      BY <3>2, <3>3 DEF Safe, Ready
  <2>6. Ready' \subseteq PodNames
    BY DEF Ready
  <2>7. /\ Cardinality(Safe(seen.nodes)) <= Cardinality(Ready')
        /\ Cardinality(Safe(seen.nodes)) \in Nat /\ Cardinality(Ready') \in Nat
    BY <2>5, <2>6, PodCount
  <2>8. QED
    BY <2>4, <2>7, GateAssumption
<1>3. GateInv =>
        [\A p \in PodNames : GatedEviction(p) => Cardinality(Ready') >= UserReplicas]_vars
  BY <1>2
<1>4. QED
  BY <1>1, <1>3, GateStart, PTL DEF Spec, SpareKeepsBaseline
=============================================================================
