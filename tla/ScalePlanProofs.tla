---------------------------- MODULE ScalePlanProofs ----------------------------
(***************************************************************************)
(* Theorems about ScalePlan: the capacity fan-out for every catalog, every *)
(* set of fields and annotations, and every number of failures.            *)
(*                                                                         *)
(* TypeInv carries the types, FloorInv that no path is below its user      *)
(* value, LendInv that whatever is above it will be put back; the last one *)
(* needs the first two.  The lists of actions come first: what grouping,   *)
(* merging and walking them keeps.                                         *)
(***************************************************************************)
EXTENDS ScalePlan, FiniteSetTheorems, SequenceTheorems, WellFoundedInduction, TLAPS

-------------------------------------------------------------------------------
(***************************************************************************)
(* What the theorems assume of the policy's catalog and the annotations,   *)
(* beyond the types.                                                       *)
(***************************************************************************)

\* The steps of all the usable annotations.
Bound == UNION {{Resolved[raw][i] : i \in DOMAIN Resolved[raw]} : raw \in DOMAIN Resolved}

\* Entries that have a path in common agree on what it is when unset.
DefaultsAgree ==
  \A f \in Fields : \A k, l \in DOMAIN Catalog :
    Drives(k, f) /\ Drives(l, f) => Catalog[k].default = Catalog[l].default

\* The workload is not bound to one path through two keys.
OneKeyPerPath == \A s, t \in Bound : s.field = t.field => s.key = t.key

\* No annotation stands for external entries only.
NoneExternal == \A raw \in DOMAIN Resolved : Resolved[raw] # <<>>

-------------------------------------------------------------------------------
(***************************************************************************)
(* The inductive invariants.                                               *)
(***************************************************************************)
Elems(as) == {as[i] : i \in DOMAIN as}

\* The actions held anywhere.
Held ==
  Elems(actions) \cup Elems(todo) \cup UNION {Elems(applied[i]) : i \in DOMAIN applied}

\* A reconcile in progress has something in hand.
Shape ==
  /\ pc \in {"apply", "stamp", "restore", "clean", "mark", "unmark"} => todo # <<>>
  /\ pc \in {"idle", "arm", "lower", "unstamp"} => todo = <<>>
  /\ pc \in {"lower", "unstamp"} => applied # <<>>
  /\ \A i \in DOMAIN applied : applied[i] # <<>>

\* a was planned from a binding.
Sound(a) ==
  \E step \in Bound : a.key = step.key /\ a.field = step.field /\ a.skip = step.skip

\* No path is below its user value, and nothing held could put it there.
FloorInv ==
  /\ NeverBelowUser
  /\ \A a \in Held : Sound(a) /\ a.base >= UserLevels[a.field]

\* f is where the user left it.
At(f) == LevelNow(f) = UserLevels[f]

\* A recorded baseline is the user's, except of a path that stays raised.
ExactBases == \A a \in Held : a.field \notin UpOnly => a.base = UserLevels[a.field]

\* A path that is set is never unset again.
KeepsUnset == \A f \in Fields : value[f] = Unset => User[f] = Unset

\* The paths of the groups this apply has mutated.
AppliedFields == UNION {FieldsOf(applied[i]) : i \in DOMAIN applied}

\* The objects a list of actions is about.
ObjectsOf(as) == {Object(f) : f \in FieldsOf(as)}

\* Whatever a reconcile works on is in the window.
OnRecord ==
  /\ FieldsOf(todo) \subseteq FieldsOf(actions)
  /\ pc \in {"apply", "stamp", "lower", "unstamp"} => AppliedFields \subseteq FieldsOf(actions)
  /\ stamped \subseteq ObjectsOf(actions) \cap exists

\* While something is being raised, no cooldown runs.
Raising == pc \in {"apply", "stamp"} => ~armed /\ last = ""

\* During a cooldown, and after a restore, nothing is raised or stamped.
Cold ==
  armed \/ pc = "arm" \/ last = "restored" => stamped = {} /\ \A f \in Lent : At(f)

\* A restore leaves nothing behind it.
Walk ==
  pc \in {"restore", "clean"} =>
    /\ stamped \subseteq ObjectsOf(todo)
    /\ \A f \in Lent : f \in FieldsOf(todo) \/ At(f)
    /\ pc = "clean" => \A f \in Lent \cap FieldsOf(Group(todo)) : At(f)

\* A compensation knows all that was raised, and leaves nothing behind it.
Backtrack ==
  /\ pc = "apply" => raised \subseteq AppliedFields
  /\ pc = "stamp" =>
       raised \subseteq AppliedFields \cup (IF mutated THEN FieldsOf(Group(todo)) ELSE {})
  /\ pc \in {"lower", "unstamp"} => last \in {"", "failed"}
  /\ pc \in {"lower", "unstamp"} /\ last = "" =>
       \A f \in raised \cap Lent :
         \/ At(f)
         \/ \E i \in DOMAIN applied : /\ f \in FieldsOf(applied[i])
                                      /\ pc = "unstamp" => i # Len(applied)

\* What makes capacity lent, not given.
LendInv ==
  /\ ExactBases /\ KeepsUnset /\ OnRecord /\ Raising /\ RaisedHasAction /\ Cold /\ Walk
  /\ Backtrack /\ CompensationIsComplete

-------------------------------------------------------------------------------
(***************************************************************************)
(* Numbers and lists.                                                      *)
(***************************************************************************)

\* A set of naturals has a least element.
LEMMA LeastNat ==
  ASSUME NEW T, T \subseteq Nat, T # {}
  PROVE  \E x \in T : \A y \in T : x <= y
<1> DEFINE R == OpToRel(<, Nat)
<1>1. IsWellFoundedOn(R, Nat)
  BY NatLessThanWellFounded, Zenon
<1>2. \A x, y \in Nat : x < y => <<x, y>> \in R
  BY Zenon DEF OpToRel
<1> HIDE DEF R
<1>3. PICK x \in T : \A y \in T : ~(<<y, x>> \in R)
  BY <1>1, WFMin
<1>4. \A y \in T : ~(y < x)
  BY <1>2, <1>3
<1>5. QED
  BY <1>4

\* A bounded one has a greatest.
LEMMA GreatestNat ==
  ASSUME NEW n \in Nat, NEW T, T \subseteq 1 .. n, T # {}
  PROVE  \E x \in T : \A y \in T : y <= x
<1> DEFINE R == {m \in Nat : n - m \in T}
<1>1. R \subseteq Nat /\ R # {}
  <2>1. PICK t \in T : t \in 1 .. n
    OBVIOUS
  <2>2. n - t \in Nat /\ n - (n - t) = t
    BY <2>1
  <2>3. QED
    BY <2>2
<1>2. PICK r \in R : \A q \in R : r <= q
  BY <1>1, LeastNat
<1>3. n - r \in T /\ r \in Nat
  OBVIOUS
<1>4. ASSUME NEW y \in T PROVE y <= n - r
  <2>1. y \in 1 .. n /\ n - y \in Nat /\ n - (n - y) = y
    OBVIOUS
  <2>2. n - y \in R
    BY <2>1
  <2>3. r <= n - y
    BY <1>2, <2>2
  <2>4. QED
    BY <1>3, <2>1, <2>3
<1>5. QED
  BY <1>3, <1>4

\* A list as a function.
LEMMA SeqFacts ==
  ASSUME NEW S, NEW s \in Seq(S)
  PROVE  /\ Len(s) \in Nat /\ DOMAIN s = 1 .. Len(s)
         /\ \A i \in 1 .. Len(s) : s[i] \in S
         /\ s # <<>> => 1 <= Len(s)
         /\ Elems(s) = {s[i] : i \in 1 .. Len(s)}
         /\ Elems(s) \subseteq S
<1>1. Len(s) \in Nat /\ DOMAIN s = 1 .. Len(s) /\ \A i \in 1 .. Len(s) : s[i] \in S
  BY LenProperties, ElementOfSeq
<1>2. s # <<>> => 1 <= Len(s)
  BY EmptySeq
<1>3. Elems(s) = {s[i] : i \in 1 .. Len(s)}
  BY <1>1 DEF Elems
<1>4. Elems(s) \subseteq S
  BY <1>1, <1>3
<1>5. QED
  BY <1>1, <1>2, <1>3, <1>4

\* The empty list has no elements; the others have a first one.
LEMMA EmptyFacts ==
  ASSUME NEW S, NEW s \in Seq(S)
  PROVE  /\ <<>> \in Seq(S) /\ Elems(<<>>) = {}
         /\ s = <<>> <=> Elems(s) = {}
         /\ s = <<>> <=> Len(s) = 0
         /\ s # <<>> => 1 \in DOMAIN s /\ s[1] \in Elems(s)
<1>1. Elems(<<>>) = {}
  BY DEF Elems
<1>2. <<>> \in Seq(S) /\ Len(<<>>) = 0
  BY EmptySeq
<1>3. s # <<>> => 1 \in 1 .. Len(s)
  BY SeqFacts
<1>4. s # <<>> => 1 \in DOMAIN s /\ s[1] \in Elems(s)
  BY <1>3, SeqFacts
<1>5. s # <<>> => Len(s) # 0
  BY SeqFacts
<1>6. QED
  BY <1>1, <1>2, <1>4, <1>5

\* A slice of a list.
LEMMA SliceFacts ==
  ASSUME NEW S, NEW s, NEW m \in Int, NEW n \in Int, m <= n + 1,
         \A i \in m .. n : s[i] \in S
  PROVE  /\ SubSeq(s, m, n) \in Seq(S) /\ Len(SubSeq(s, m, n)) = n - m + 1
         /\ \A i \in 1 .. n - m + 1 : SubSeq(s, m, n)[i] = s[m + i - 1]
  BY SubSeqProperties

\* The two parts of a list that is cut after g elements.
LEMMA CutFacts ==
  ASSUME NEW S, NEW s, NEW n \in Nat, \A i \in 1 .. n : s[i] \in S, NEW g \in 1 .. n
  PROVE  /\ SubSeq(s, 1, g) \in Seq(S) /\ Len(SubSeq(s, 1, g)) = g
         /\ \A i \in 1 .. g : SubSeq(s, 1, g)[i] = s[i]
         /\ SubSeq(s, g + 1, n) \in Seq(S) /\ Len(SubSeq(s, g + 1, n)) = n - g
         /\ \A i \in 1 .. n - g : SubSeq(s, g + 1, n)[i] = s[g + i]
<1> DEFINE m == 1
           k == g + 1
<1>2. m \in Int /\ g \in Int /\ m <= g + 1 /\ k \in Int /\ n \in Int /\ k <= n + 1
  OBVIOUS
<1> HIDE DEF m, k
<1>3. ASSUME NEW i \in m .. g PROVE s[i] \in S
  <2>1. i \in 1 .. n
    BY DEF m
  <2>2. QED
    BY <2>1
<1>4. ASSUME NEW i \in k .. n PROVE s[i] \in S
  <2>1. i \in 1 .. n
    BY DEF k
  <2>2. QED
    BY <2>1
<1>5. /\ SubSeq(s, m, g) \in Seq(S) /\ Len(SubSeq(s, m, g)) = g - m + 1
      /\ \A i \in 1 .. g - m + 1 : SubSeq(s, m, g)[i] = s[m + i - 1]
  BY <1>2, <1>3, SliceFacts
<1>6. /\ SubSeq(s, k, n) \in Seq(S) /\ Len(SubSeq(s, k, n)) = n - k + 1
      /\ \A i \in 1 .. n - k + 1 : SubSeq(s, k, n)[i] = s[k + i - 1]
  BY <1>2, <1>4, SliceFacts
<1>7. /\ SubSeq(s, 1, g) \in Seq(S) /\ Len(SubSeq(s, 1, g)) = g
      /\ \A i \in 1 .. g : SubSeq(s, 1, g)[i] = s[i]
  BY <1>5 DEF m
<1>8. n - k + 1 = n - g /\ \A i \in Int : k + i - 1 = g + i
  BY DEF k
<1>9. /\ SubSeq(s, k, n) \in Seq(S) /\ Len(SubSeq(s, k, n)) = n - g
      /\ \A i \in 1 .. n - g : SubSeq(s, k, n)[i] = s[g + i]
  BY <1>6, <1>8
<1>10. QED
  BY <1>7, <1>9 DEF k

\* The first g elements of a list.
LEMMA PrefixFacts ==
  ASSUME NEW S, NEW s \in Seq(S), NEW g \in 1 .. Len(s)
  PROVE  /\ SubSeq(s, 1, g) \in Seq(S) /\ Len(SubSeq(s, 1, g)) = g
         /\ \A i \in 1 .. g : SubSeq(s, 1, g)[i] = s[i]
  BY LenProperties, ElementOfSeq, CutFacts

\* What follows the first g elements of a list.
LEMMA SuffixFacts ==
  ASSUME NEW S, NEW s \in Seq(S), NEW g \in 1 .. Len(s)
  PROVE  /\ SubSeq(s, g + 1, Len(s)) \in Seq(S)
         /\ Len(SubSeq(s, g + 1, Len(s))) = Len(s) - g
         /\ \A i \in 1 .. Len(s) - g : SubSeq(s, g + 1, Len(s))[i] = s[g + i]
  BY LenProperties, ElementOfSeq, CutFacts

\* A list that is not empty has a leading group.
LEMMA GroupLenFacts ==
  ASSUME NEW S, NEW as \in Seq(S), as # <<>>
  PROVE  /\ GroupLen(as) \in 1 .. Len(as)
         /\ SameObject(as, GroupLen(as))
<1> DEFINE N == Len(as)
           Same == {n \in Nat : SameObject(as, n)}
           T == {n \in 1 .. N : n = N \/ n + 1 \notin Same}
<1>1. N \in Nat /\ N >= 1 /\ DOMAIN as = 1 .. N
  BY SeqFacts
<1> HIDE DEF N, Same
<1>2. T \subseteq Nat /\ N \in T
  BY <1>1
<1>3. PICK n \in T : \A m \in T : n <= m
  BY <1>2, LeastNat
<1>4. n \in Same
  <2>1. CASE n = 1
    <3>1. SameObject(as, 1)
      BY DEF SameObject
    <3>2. QED
      BY <2>1, <3>1 DEF Same
  <2>2. CASE n # 1
    <3>1. n \in 1 .. N /\ n - 1 \in 1 .. N /\ n - 1 # N /\ (n - 1) + 1 = n
      BY <1>1, <2>2
    <3>2. n - 1 \notin T
      BY <1>3, <3>1
    <3>3. QED
      BY <3>1, <3>2
  <2>3. QED
    BY <2>1, <2>2
<1>5. n \in DOMAIN as /\ SameObject(as, n) /\ (n = N \/ ~SameObject(as, n + 1))
  <2>1. n \in 1 .. N /\ n + 1 \in Nat /\ (n = N \/ n + 1 \notin Same)
    BY <1>1
  <2>2. QED
    BY <1>1, <1>4, <2>1 DEF Same
<1>6. GroupLen(as) \in DOMAIN as /\ SameObject(as, GroupLen(as))
  BY <1>5 DEF GroupLen, N
<1>7. QED
  BY <1>1, <1>6 DEF N

\* A group is on one object; the group and the rest are the list.
LEMMA GroupFacts ==
  ASSUME NEW S, NEW as \in Seq(S), as # <<>>
  PROVE  /\ Group(as) \in Seq(S) /\ Group(as) # <<>> /\ Rest(as) \in Seq(S)
         /\ Elems(as) = Elems(Group(as)) \cup Elems(Rest(as))
         /\ \A a \in Elems(Group(as)) : Object(a.field) = ObjectOf(as)
         /\ ObjectOf(Group(as)) = ObjectOf(as)
<1>1. PICK g \in 1 .. Len(as) : g = GroupLen(as)
  BY GroupLenFacts
<1>2. PICK N \in Nat : N = Len(as)
  BY SeqFacts
<1>0. g \in Nat /\ 1 <= g /\ g <= N
  <2>1. g \in 1 .. N
    BY <1>2
  <2>2. QED
    BY <2>1
<1> DEFINE G == Group(as)
           R == Rest(as)
<1>3. G = SubSeq(as, 1, g) /\ R = SubSeq(as, g + 1, Len(as))
  BY <1>1 DEF Group, Rest
<1>4. G \in Seq(S) /\ Len(G) = g /\ \A i \in 1 .. g : G[i] = as[i]
  <2>1. /\ SubSeq(as, 1, g) \in Seq(S) /\ Len(SubSeq(as, 1, g)) = g
        /\ \A i \in 1 .. g : SubSeq(as, 1, g)[i] = as[i]
    BY PrefixFacts
  <2>2. QED
    BY <1>3, <2>1
<1>5. R \in Seq(S) /\ Len(R) = N - g /\ \A i \in 1 .. N - g : R[i] = as[g + i]
  <2>1. /\ SubSeq(as, g + 1, Len(as)) \in Seq(S)
        /\ Len(SubSeq(as, g + 1, Len(as))) = Len(as) - g
        /\ \A i \in 1 .. Len(as) - g : SubSeq(as, g + 1, Len(as))[i] = as[g + i]
    BY SuffixFacts
  <2>2. QED
    BY <1>2, <1>3, <2>1
<1> HIDE DEF G, R
<1>6. Elems(G) = {as[i] : i \in 1 .. g}
  <2>1. Elems(G) = {G[i] : i \in 1 .. g}
    BY <1>4, SeqFacts
  <2>2. QED
    BY <1>4, <2>1
<1>7. Elems(R) = {as[g + i] : i \in 1 .. N - g}
  <2>1. Elems(R) = {R[i] : i \in 1 .. N - g}
    BY <1>5, SeqFacts
  <2>2. QED
    BY <1>5, <2>1
<1>8. Elems(as) = {as[i] : i \in 1 .. N}
  BY <1>2, SeqFacts
<1>9. \A i \in 1 .. N : i \in 1 .. g \/ (i - g \in 1 .. N - g /\ g + (i - g) = i)
  BY <1>0
<1>10. \A i \in 1 .. g : i \in 1 .. N
  BY <1>0
<1>11. \A i \in 1 .. N - g : g + i \in 1 .. N
  BY <1>0
<1>12. Elems(as) \subseteq Elems(G) \cup Elems(R)
  <2>1. SUFFICES ASSUME NEW i \in 1 .. N PROVE as[i] \in Elems(G) \cup Elems(R)
    BY <1>8
  <2>2. CASE i \in 1 .. g
    BY <1>6, <2>2
  <2>3. CASE i - g \in 1 .. N - g /\ g + (i - g) = i
    <3>1. as[g + (i - g)] \in Elems(R)
      BY <1>7, <2>3
    <3>2. QED
      BY <2>3, <3>1
  <2>4. QED
    BY <1>9, <2>2, <2>3
<1>13. Elems(G) \subseteq Elems(as) /\ Elems(R) \subseteq Elems(as)
  BY <1>6, <1>7, <1>8, <1>10, <1>11
<1>14. \A a \in Elems(G) : Object(a.field) = ObjectOf(as)
  <2>1. \A i \in 1 .. g : Object(as[i].field) = Object(as[1].field)
    BY <1>1, GroupLenFacts DEF SameObject
  <2>2. SUFFICES ASSUME NEW i \in 1 .. g PROVE Object(as[i].field) = ObjectOf(as)
    BY <1>6
  <2>3. QED
    BY <2>1 DEF ObjectOf
<1>15. 1 \in 1 .. g /\ 1 <= g
  BY <1>0
<1>16. ObjectOf(G) = ObjectOf(as)
  BY <1>4, <1>15 DEF ObjectOf
<1>17. G # <<>>
  BY <1>4, <1>15, EmptySeq
<1>18. QED
  BY <1>4, <1>5, <1>12, <1>13, <1>14, <1>16, <1>17 DEF G, R

\* The last element of a list and those before it.
LEMMA FrontFacts ==
  ASSUME NEW S, NEW s \in Seq(S), s # <<>>
  PROVE  /\ Len(s) \in 1 .. Len(s) /\ Last(s) = s[Len(s)] /\ Last(s) \in S
         /\ Front(s) \in Seq(S) /\ Len(Front(s)) = Len(s) - 1
         /\ \A i \in 1 .. Len(s) - 1 : Front(s)[i] = s[i]
<1> DEFINE n == Len(s)
<1>1. n \in Nat /\ n >= 1 /\ \A i \in 1 .. n : s[i] \in S
  BY SeqFacts
<1>2. Front(s) = SubSeq(s, 1, n - 1) /\ Last(s) = s[n]
  BY DEF Front, Last
<1> HIDE DEF n
<1>3. /\ n - 1 \in Int /\ (IF 1 <= n - 1 THEN (n - 1) - 1 + 1 ELSE 0) = n - 1
      /\ (n - 1) - 1 + 1 = n - 1 /\ \A i \in 1 .. n - 1 : 1 + i - 1 = i
      /\ \A i \in 1 .. n - 1 : s[i] \in S
  BY <1>1
<1>4. /\ SubSeq(s, 1, n - 1) \in Seq(S) /\ Len(SubSeq(s, 1, n - 1)) = n - 1
      /\ \A i \in 1 .. n - 1 : SubSeq(s, 1, n - 1)[i] = s[i]
  BY <1>3, SubSeqProperties
<1>5. n \in 1 .. n /\ s[n] \in S
  BY <1>1
<1>6. QED
  BY <1>2, <1>4, <1>5 DEF n

\* The tail of a list.
LEMMA TailFacts ==
  ASSUME NEW S, NEW s \in Seq(S), s # <<>>
  PROVE  /\ Tail(s) \in Seq(S) /\ Elems(Tail(s)) \subseteq Elems(s)
         /\ Tail(s) = <<>> <=> Len(s) = 1
<1> DEFINE n == Len(s)
           t == Tail(s)
<1>1. t \in Seq(S) /\ Len(t) = n - 1 /\ \A i \in 1 .. n - 1 : t[i] = s[i + 1]
  BY HeadTailProperties
<1>2. n \in Nat /\ n >= 1 /\ Elems(s) = {s[i] : i \in 1 .. n}
  BY SeqFacts
<1> HIDE DEF n, t
<1>3. Elems(t) = {t[i] : i \in 1 .. n - 1}
  BY <1>1, SeqFacts
<1>4. \A i \in 1 .. n - 1 : i + 1 \in 1 .. n
  BY <1>2
<1>5. Elems(t) \subseteq Elems(s)
  BY <1>1, <1>2, <1>3, <1>4
<1>6. t = <<>> <=> n - 1 = 0
  BY <1>1, EmptyFacts
<1>7. n - 1 = 0 <=> n = 1
  BY <1>2
<1>8. QED
  BY <1>1, <1>5, <1>6, <1>7 DEF n, t

\* Appending adds one element.
LEMMA AppendFacts ==
  ASSUME NEW S, NEW s \in Seq(S), NEW e \in S
  PROVE  /\ Append(s, e) \in Seq(S) /\ Append(s, e) # <<>>
         /\ DOMAIN Append(s, e) = 1 .. Len(s) + 1
         /\ \A i \in 1 .. Len(s) : Append(s, e)[i] = s[i]
         /\ Append(s, e)[Len(s) + 1] = e
<1>1. /\ Append(s, e) \in Seq(S) /\ Append(s, e) # <<>>
      /\ Len(Append(s, e)) = Len(s) + 1
      /\ \A i \in 1 .. Len(s) : Append(s, e)[i] = s[i]
      /\ Append(s, e)[Len(s) + 1] = e
  BY AppendProperties
<1>2. DOMAIN Append(s, e) = 1 .. Len(s) + 1
  BY <1>1, SeqFacts
<1>3. QED
  BY <1>1, <1>2

\* Each index in a set, with its place in it.
Rank(kept) == [i \in kept |-> Cardinality({j \in kept : j <= i})]

\* The indices are counted off one by one.
LEMMA RankFacts ==
  ASSUME NEW kept, IsFiniteSet(kept), kept \subseteq Nat
  PROVE  /\ Cardinality(kept) \in Nat
         /\ \A i \in kept : Rank(kept)[i] \in 1 .. Cardinality(kept)
         /\ \A i, k \in kept : Rank(kept)[i] = Rank(kept)[k] => i = k
         /\ \A n \in 1 .. Cardinality(kept) : \E i \in kept : Rank(kept)[i] = n
<1> DEFINE c == Cardinality(kept)
           Up(i) == {j \in kept : j <= i}
           rank == [i \in kept |-> Cardinality({j \in kept : j <= i})]
<1>1. IsFiniteSet(kept) /\ c \in Nat
  BY FS_CardinalityType
<1>2. ASSUME NEW i \in kept
      PROVE  /\ IsFiniteSet(Up(i)) /\ Cardinality(Up(i)) \in Nat /\ i \in Up(i)
             /\ Cardinality(Up(i)) <= c /\ Cardinality(Up(i)) # 0
  <2>1. Up(i) \in SUBSET kept /\ i \in Up(i)
    OBVIOUS
  <2> HIDE DEF Up
  <2>2. IsFiniteSet(Up(i)) /\ Cardinality(Up(i)) <= c
    BY <1>1, <2>1, FS_Subset
  <2>3. Cardinality(Up(i)) \in Nat
    BY <2>2, FS_CardinalityType
  <2>4. Cardinality(Up(i)) # 0
    BY <2>1, <2>2, FS_EmptySet
  <2>5. QED
    BY <2>1, <2>2, <2>3, <2>4
<1>3. \A i \in kept : rank[i] = Cardinality(Up(i))
  OBVIOUS
<1>4. \A i \in kept : rank[i] \in 1 .. c
  <2> HIDE DEF Up, c
  <2>1. QED
    BY <1>1, <1>2, <1>3
<1>5. ASSUME NEW i \in kept, NEW k \in kept, i < k PROVE rank[i] # rank[k]
  <2>1. Up(i) \in SUBSET Up(k)
    <3>1. \A j \in kept : j \in Int /\ i \in Int /\ k \in Int
      OBVIOUS
    <3>2. \A j \in kept : j <= i => j <= k
      BY <1>5, <3>1
    <3>3. QED
      BY <3>2, Zenon
  <2>2. k \in Up(k) /\ k \notin Up(i)
    BY <1>5
  <2> HIDE DEF Up
  <2>3. Cardinality(Up(i)) # Cardinality(Up(k))
    BY <1>2, <2>1, <2>2, FS_Subset
  <2>4. QED
    BY <1>3, <2>3
<1>6. \A i, k \in kept : rank[i] = rank[k] => i = k
  BY <1>5
<1>7. rank \in Injection(kept, 1 .. c)
  <2>1. rank \in [kept -> 1 .. c]
    BY <1>4
  <2> HIDE DEF c
  <2>2. QED
    BY <1>6, <2>1 DEF Injection, IsInjective
<1>8. IsFiniteSet(1 .. c) /\ Cardinality(1 .. c) = c
  <2> HIDE DEF c
  <2>1. QED
    BY <1>1, FS_Interval
<1>9. rank \in Surjection(kept, 1 .. c)
  BY <1>7, <1>8, FS_Injection
<1>10. \A n \in 1 .. c : \E i \in kept : rank[i] = n
  <2> HIDE DEF c
  <2>1. QED
    BY <1>9 DEF Surjection
<1>11. QED
  BY <1>1, <1>4, <1>6, <1>10 DEF Rank

\* The elements of a concatenation.
LEMMA ConcatFacts ==
  ASSUME NEW S, NEW s \in Seq(S), NEW t \in Seq(S)
  PROVE  s \o t \in Seq(S) /\ Elems(s \o t) = Elems(s) \cup Elems(t)
<1> DEFINE u == s \o t
           m == Len(s)
           n == Len(t)
<1>1. /\ u \in Seq(S) /\ Len(u) = m + n
      /\ \A i \in 1 .. m + n : u[i] = IF i <= m THEN s[i] ELSE t[i - m]
  BY ConcatProperties
<1>2. m \in Nat /\ n \in Nat
  BY SeqFacts
<1>3. Elems(s) = {s[i] : i \in 1 .. m} /\ Elems(t) = {t[i] : i \in 1 .. n}
  BY SeqFacts
<1> HIDE DEF u, m, n
<1>4. Elems(u) = {u[i] : i \in 1 .. m + n}
  BY <1>1, SeqFacts
<1>5. \A i \in 1 .. m : i \in 1 .. m + n /\ i <= m
  BY <1>2
<1>6. \A i \in 1 .. n : i + m \in 1 .. m + n /\ ~(i + m <= m) /\ (i + m) - m = i
  BY <1>2
<1>7. \A i \in 1 .. m + n : (i <= m => i \in 1 .. m) /\ (~(i <= m) => i - m \in 1 .. n)
  BY <1>2
<1>8. \A i \in 1 .. m : u[i] = s[i]
  BY <1>1, <1>5
<1>9. \A i \in 1 .. n : u[i + m] = t[i]
  BY <1>1, <1>6
<1>10. Elems(s) \cup Elems(t) \subseteq Elems(u)
  BY <1>3, <1>4, <1>5, <1>6, <1>8, <1>9
<1>11. ASSUME NEW i \in 1 .. m + n PROVE u[i] \in Elems(s) \cup Elems(t)
  <2>1. CASE i <= m
    BY <1>1, <1>3, <1>7, <2>1
  <2>2. CASE ~(i <= m)
    BY <1>1, <1>3, <1>7, <2>2
  <2>3. QED
    BY <2>1, <2>2
<1>12. QED
  BY <1>1, <1>4, <1>10, <1>11 DEF u

\* mergeActions keeps the plan and every recorded path.
LEMMA MergeFacts ==
  ASSUME NEW S, NEW es \in Seq(S), NEW ns \in Seq(S)
  PROVE  /\ mergeActions(es, ns) \in Seq(S)
         /\ Elems(ns) \subseteq Elems(mergeActions(es, ns))
         /\ Elems(mergeActions(es, ns)) \subseteq Elems(ns) \cup Elems(es)
         /\ FieldsOf(es) \subseteq FieldsOf(mergeActions(es, ns))
<1> DEFINE kept == {i \in DOMAIN es : \A j \in DOMAIN ns :
                      ns[j].key # es[i].key \/ ns[j].field # es[i].field}
           nth(n) == CHOOSE i \in kept : Cardinality({j \in kept : j <= i}) = n
           c == Cardinality(kept)
           rest == [n \in 1 .. c |-> es[nth(n)]]
<1>1. mergeActions(es, ns) = ns \o rest
  BY DEF mergeActions
<1>2. DOMAIN es = 1 .. Len(es) /\ Len(es) \in Nat /\ \A i \in DOMAIN es : es[i] \in S
  BY SeqFacts
<1>3. kept \subseteq 1 .. Len(es)
  BY <1>2
<1>4. \A i \in kept : i \in DOMAIN es /\ es[i] \in S
  BY <1>2
<1>5. \A i \in DOMAIN es \ kept : \E j \in DOMAIN ns : ns[j].field = es[i].field
  OBVIOUS
<1> HIDE DEF kept
<1> DEFINE rank == Rank(kept)
<1>6. /\ c \in Nat /\ \A i \in kept : rank[i] \in 1 .. c
      /\ \A i, k \in kept : rank[i] = rank[k] => i = k
      /\ \A n \in 1 .. c : \E i \in kept : rank[i] = n
  <2>1. IsFiniteSet(1 .. Len(es))
    BY <1>2, FS_Interval
  <2>2. IsFiniteSet(kept)
    BY <1>3, <2>1, FS_Subset
  <2>3. kept \subseteq Nat
    BY <1>2, <1>3
  <2>4. QED
    BY <2>2, <2>3, RankFacts
<1>7. \A i \in kept : rank[i] = Cardinality({j \in kept : j <= i})
  BY Zenon DEF Rank
<1> HIDE DEF rank, c
<1>8. ASSUME NEW n \in 1 .. c PROVE nth(n) \in kept /\ rank[nth(n)] = n
  <2>0. PICK i \in kept : rank[i] = n
    BY <1>6
  <2>1. Cardinality({j \in kept : j <= i}) = n
    BY <1>7, <2>0, Zenon
  <2>2. nth(n) \in kept /\ Cardinality({j \in kept : j <= nth(n)}) = n
    BY <2>1, Zenon
  <2>3. QED
    BY <1>7, <2>2
<1>9. \A i \in kept : nth(rank[i]) = i
  BY <1>6, <1>8
<1> HIDE DEF nth
<1>10. \A n \in 1 .. c : es[nth(n)] \in S
  BY <1>4, <1>8
<1>11. rest \in Seq(S) /\ Len(rest) = c
  BY <1>6, <1>10
<1>12. \A n \in 1 .. c : rest[n] = es[nth(n)]
  OBVIOUS
<1> HIDE DEF rest
<1>13. Elems(rest) = {rest[n] : n \in 1 .. c}
  BY <1>11, SeqFacts
<1>14. Elems(rest) \subseteq Elems(es)
  BY <1>4, <1>8, <1>12, <1>13 DEF Elems
<1>15. \A i \in kept : es[i] \in Elems(rest)
  BY <1>6, <1>9, <1>12, <1>13
<1>16. ns \o rest \in Seq(S) /\ Elems(ns \o rest) = Elems(ns) \cup Elems(rest)
  BY <1>11, ConcatFacts
<1>17. ASSUME NEW i \in DOMAIN es PROVE \E a \in Elems(ns \o rest) : a.field = es[i].field
  <2>1. CASE i \in kept
    BY <1>15, <1>16, <2>1
  <2>2. CASE i \notin kept
    BY <1>5, <1>16, <2>2 DEF Elems
  <2>3. QED
    BY <2>1, <2>2
<1>18. FieldsOf(es) \subseteq FieldsOf(ns \o rest)
  BY <1>17 DEF FieldsOf, Elems
<1>19. QED
  BY <1>1, <1>14, <1>16, <1>18

-------------------------------------------------------------------------------
(***************************************************************************)
(* Types.                                                                  *)
(***************************************************************************)
\* The inductive invariant of the types.
TypeInv == TypeOK /\ Shape

\* The paths a list of actions is about.
LEMMA FieldsFacts ==
  ASSUME NEW as
  PROVE  FieldsOf(as) = {a.field : a \in Elems(as)}
  BY DEF FieldsOf, Elems

\* Reading a field gives a number or nothing, and what is set if it is set.
LEMMA CurrentFacts ==
  ASSUME NEW v \in Nat \cup {Unset}, NEW f, NEW d \in Nat \cup {Unset}
  PROVE  /\ Current(v, f, d) \in Nat \cup {Unset}
         /\ v # Unset => Current(v, f, d) = v
  BY DEF Current

\* What an apply reads is a number or nothing.
LEMMA LiveType ==
  ASSUME TypeOK, NEW step, step.key \in DOMAIN Catalog, step.field \in Fields
  PROVE  Live(step) \in Nat \cup {Unset}
<1>1. value[step.field] \in Nat \cup {Unset} /\ Catalog[step.key].default \in Nat \cup {Unset}
  BY CatalogAssumption DEF TypeOK
<1>2. QED
  BY <1>1, CurrentFacts DEF Live

\* The target is a number, and the baseline or more.
LEMMA TargetFacts ==
  ASSUME NEW b \in Nat, NEW r \in Nat
  PROVE  TargetReplicas(b, r) \in Nat /\ TargetReplicas(b, r) >= b
  BY PolicyAssumption DEF TargetReplicas

\* What buildPlan makes of a step: the recorded baseline, else the live value.
LEMMA PlannedFacts ==
  ASSUME TypeOK, NEW step \in Driving,
         Recorded(step) # {} \/ (Object(step.field) \in exists /\ Live(step) # Unset),
         NEW a, a = PlannedAction(step)
  PROVE  /\ a \in Action
         /\ a.key = step.key /\ a.field = step.field /\ a.skip = step.skip
         /\ \/ \E b \in Elems(actions) : b.key = a.key /\ b.field = a.field /\ b.base = a.base
            \/ a.base = Live(step) /\ Recorded(step) = {} /\ Object(step.field) \in exists
<1>1. step.key \in DOMAIN Catalog /\ step.field \in Fields /\ step.skip \in BOOLEAN
  BY DEF Driving
<1>2. actions \in Seq(Action) /\ DOMAIN actions = 1 .. Len(actions)
      /\ \A i \in DOMAIN actions : actions[i] \in Action
  BY SeqFacts DEF TypeOK
<1>3. CASE Recorded(step) = {}
  <2>1. Live(step) \in Nat
    BY <1>1, <1>3, LiveType
  <2>2. a = [key |-> step.key, field |-> step.field, skip |-> step.skip, base |-> Live(step)]
    BY <1>3 DEF PlannedAction, WithBase
  <2>3. Object(step.field) \in exists
    BY <1>3
  <2>4. QED
    BY <1>1, <1>3, <2>1, <2>2, <2>3 DEF Action
<1>4. CASE Recorded(step) # {}
  <2>1. PICK i \in Recorded(step) : i = CHOOSE j \in Recorded(step) : TRUE
    BY <1>4
  <2>2. i \in DOMAIN actions /\ actions[i].key = step.key /\ actions[i].field = step.field
    BY DEF Recorded
  <2>3. a = [key |-> step.key, field |-> step.field, skip |-> step.skip,
             base |-> actions[i].base]
    BY <1>4, <2>1 DEF PlannedAction, WithBase
  <2>4. actions[i] \in Elems(actions) /\ actions[i].base \in Nat
    BY <1>2, <2>2 DEF Elems, Action
  <2>5. QED
    BY <1>1, <2>2, <2>3, <2>4 DEF Action
<1>5. QED
  BY <1>3, <1>4

\* BuildPlan: what it plans, and what it writes.
LEMMA BuildFacts ==
  ASSUME TypeOK, NEW raw, NEW atRisk \in Nat, BuildPlan(raw, atRisk)
  PROVE  /\ todo' \in Seq(Action) /\ actions' \in Seq(Action) /\ desired' \in Nat
         /\ \A a \in Elems(todo') : \E step \in Elems(Resolved[raw]) :
              /\ step \in Driving /\ step \in Bound
              /\ a.key = step.key /\ a.field = step.field /\ a.skip = step.skip
              /\ \/ \E b \in Elems(actions) :
                      b.key = a.key /\ b.field = a.field /\ b.base = a.base
                 \/ a.base = Live(step) /\ Recorded(step) = {} /\ Object(step.field) \in exists
         /\ Elems(todo') \subseteq Elems(actions')
         /\ Elems(actions') \subseteq Elems(todo') \cup Elems(actions)
         /\ todo' # <<>> => FieldsOf(actions) \subseteq FieldsOf(actions')
         /\ todo' = <<>> <=> Resolved[raw] = <<>>
         /\ todo' = <<>> => actions' = <<>>
         /\ pc' = IF todo' = <<>> THEN "idle" ELSE "apply"
<1> DEFINE steps == Resolved[raw]
           plan == [i \in DOMAIN steps |-> PlannedAction(steps[i])]
<1>1. /\ raw \in DOMAIN Resolved
      /\ \A i \in DOMAIN steps :
           Recorded(steps[i]) # {} \/ (Object(steps[i].field) \in exists /\ Live(steps[i]) # Unset)
      /\ actions' = IF plan = <<>> THEN <<>> ELSE mergeActions(actions, plan)
      /\ todo' = plan
      /\ desired' = IF plan = <<>> THEN 0 ELSE TargetReplicas(plan[1].base, atRisk)
      /\ pc' = IF plan = <<>> THEN "idle" ELSE "apply"
  BY DEF BuildPlan
<1>2. steps \in Seq(Driving)
  BY <1>1, PlanAssumption
<1>3. \A i \in DOMAIN steps : steps[i] \in Elems(steps) /\ steps[i] \in Bound
  BY <1>1 DEF Elems, Bound
<1> HIDE DEF steps
<1>4. /\ Len(steps) \in Nat /\ DOMAIN steps = 1 .. Len(steps)
      /\ \A i \in DOMAIN steps : steps[i] \in Driving
  BY <1>2, SeqFacts
<1>5. ASSUME NEW i \in DOMAIN steps
      PROVE  /\ plan[i] \in Action
             /\ plan[i].key = steps[i].key /\ plan[i].field = steps[i].field
             /\ plan[i].skip = steps[i].skip
             /\ \/ \E b \in Elems(actions) : b.key = plan[i].key /\ b.field = plan[i].field
                                             /\ b.base = plan[i].base
                \/ /\ plan[i].base = Live(steps[i]) /\ Recorded(steps[i]) = {}
                   /\ Object(steps[i].field) \in exists
  <2>1. plan[i] = PlannedAction(steps[i])
    OBVIOUS
  <2>2. /\ steps[i] \in Driving
        /\ Recorded(steps[i]) # {}
           \/ (Object(steps[i].field) \in exists /\ Live(steps[i]) # Unset)
    BY <1>1, <1>4
  <2> HIDE DEF plan
  <2>3. QED
    BY <2>1, <2>2, PlannedFacts
<1>6. DOMAIN plan = 1 .. Len(steps)
  BY <1>4
<1>7. plan \in Seq(Action) /\ Len(plan) = Len(steps)
  <2>1. plan \in [1 .. Len(steps) -> Action]
    BY <1>4, <1>5
  <2> HIDE DEF plan
  <2>2. QED
    BY <1>4, <2>1
<1> HIDE DEF plan
<1>8. Elems(plan) = {plan[i] : i \in DOMAIN steps}
  BY <1>4, <1>6 DEF Elems
<1>9. plan = <<>> <=> steps = <<>>
  BY <1>2, <1>7, EmptyFacts
<1>10. actions \in Seq(Action)
  BY DEF TypeOK
<1>11. /\ mergeActions(actions, plan) \in Seq(Action)
       /\ Elems(plan) \subseteq Elems(mergeActions(actions, plan))
       /\ Elems(mergeActions(actions, plan)) \subseteq Elems(plan) \cup Elems(actions)
       /\ FieldsOf(actions) \subseteq FieldsOf(mergeActions(actions, plan))
  BY <1>7, <1>10, MergeFacts
<1>12. plan # <<>> => plan[1] \in Action
  BY <1>7, EmptyFacts, SeqFacts
<1>13. desired' \in Nat
  <2>1. CASE plan = <<>>
    BY <1>1, <2>1
  <2>2. CASE plan # <<>>
    <3>1. plan[1].base \in Nat
      BY <1>12, <2>2 DEF Action
    <3>2. QED
      BY <1>1, <2>2, <3>1, TargetFacts
  <2>3. QED
    BY <2>1, <2>2
<1>14. <<>> \in Seq(Action) /\ Elems(<<>>) = {}
  BY <1>7, EmptyFacts
<1>15. \A a \in Elems(plan) : \E step \in Elems(steps) :
         /\ step \in Driving /\ step \in Bound
         /\ a.key = step.key /\ a.field = step.field /\ a.skip = step.skip
         /\ \/ \E b \in Elems(actions) :
                 b.key = a.key /\ b.field = a.field /\ b.base = a.base
            \/ a.base = Live(step) /\ Recorded(step) = {} /\ Object(step.field) \in exists
  BY <1>3, <1>4, <1>5, <1>8
<1>16. QED
  BY <1>1, <1>7, <1>9, <1>11, <1>13, <1>14, <1>15 DEF steps

\* What a restore patch leaves in a field: the baseline of an action that was
\* above it, or what was there where no action is.
LEMMA LoweredFacts ==
  ASSUME TypeOK, NEW g \in Seq(Action), NEW f \in Fields
  PROVE  \/ /\ Lowered(g)[f] = value[f]
            /\ \A a \in Elems(g) : a.field = f /\ ~a.skip => ~(Recovered(a) > a.base)
         \/ \E a \in Elems(g) : /\ a.field = f /\ ~a.skip /\ Recovered(a) > a.base
                                /\ Lowered(g)[f] = a.base
<1> DEFINE above == {i \in DOMAIN g : /\ g[i].field = f /\ ~g[i].skip
                                      /\ Recovered(g[i]) > g[i].base}
           top == CHOOSE i \in above : \A j \in above : j <= i
<1>1. Lowered(g)[f] = IF above = {} THEN value[f] ELSE g[top].base
  BY DEF Lowered
<1>2. Len(g) \in Nat /\ DOMAIN g = 1 .. Len(g)
  BY SeqFacts
<1>3. above \subseteq 1 .. Len(g)
  BY <1>2
<1>4. \A i \in above : /\ i \in DOMAIN g /\ g[i] \in Elems(g)
                       /\ g[i].field = f /\ ~g[i].skip /\ Recovered(g[i]) > g[i].base
  BY DEF Elems
<1>5. ASSUME NEW a \in Elems(g), a.field = f, ~a.skip, Recovered(a) > a.base
      PROVE  above # {}
  <2>1. PICK i \in DOMAIN g : a = g[i]
    BY DEF Elems
  <2>2. i \in above
    BY <1>5, <2>1
  <2>3. QED
    BY <2>2
<1> HIDE DEF above
<1>6. CASE above = {}
  BY <1>1, <1>5, <1>6
<1>7. CASE above # {}
  <2>1. \E i \in above : \A j \in above : j <= i
    BY <1>2, <1>3, <1>7, GreatestNat
  <2>2. top \in above
    BY <2>1
  <2> HIDE DEF top
  <2>3. QED
    BY <1>1, <1>4, <1>7, <2>2
<1>8. QED
  BY <1>6, <1>7

\* A restore patch keeps the fields' type.
LEMMA LoweredType ==
  ASSUME TypeOK, NEW g \in Seq(Action)
  PROVE  Lowered(g) \in [Fields -> Nat \cup {Unset}]
<1>1. \A f \in Fields : Lowered(g)[f] \in Nat \cup {Unset}
  <2>1. SUFFICES ASSUME NEW f \in Fields PROVE Lowered(g)[f] \in Nat \cup {Unset}
    OBVIOUS
  <2>2. value[f] \in Nat \cup {Unset}
    BY DEF TypeOK
  <2>3. \A a \in Elems(g) : a.base \in Nat
    <3>1. Elems(g) \subseteq Action
      BY SeqFacts
    <3>2. QED
      BY <3>1 DEF Action
  <2>4. QED
    BY <2>2, <2>3, LoweredFacts
<1>2. \E h : Lowered(g) = [f \in Fields |-> h[f]]
  <2>1. Lowered(g) = [f \in Fields |-> Lowered(g)[f]]
    BY DEF Lowered
  <2>2. QED
    BY <2>1
<1>3. QED
  BY <1>1, <1>2

\* The last group applied.
LEMMA AppliedFacts ==
  ASSUME TypeInv, applied # <<>>
  PROVE  /\ Len(applied) \in DOMAIN applied /\ Last(applied) = applied[Len(applied)]
         /\ Last(applied) \in Seq(Action) /\ Last(applied) # <<>>
         /\ ObjectOf(Last(applied)) \in Objects
         /\ \A a \in Elems(Last(applied)) : a \in Action
<1>1. /\ applied \in Seq(Seq(Action))
      /\ \A i \in DOMAIN applied : applied[i] # <<>>
  BY DEF TypeInv, TypeOK, Shape
<1>2. DOMAIN applied = 1 .. Len(applied)
  BY <1>1, SeqFacts
<1>3. /\ Len(applied) \in 1 .. Len(applied) /\ Last(applied) = applied[Len(applied)]
      /\ Last(applied) \in Seq(Action)
  BY <1>1, FrontFacts
<1>4. Last(applied) # <<>>
  BY <1>1, <1>2, <1>3
<1>5. Last(applied)[1] \in Action /\ \A a \in Elems(Last(applied)) : a \in Action
  BY <1>3, <1>4, EmptyFacts, SeqFacts
<1>6. ObjectOf(Last(applied)) \in Objects
  BY <1>5 DEF ObjectOf, Objects, Action
<1>7. QED
  BY <1>2, <1>3, <1>4, <1>5, <1>6

\* The group in hand.
LEMMA TodoFacts ==
  ASSUME TypeInv, todo # <<>>
  PROVE  /\ Group(todo) \in Seq(Action) /\ Group(todo) # <<>> /\ Rest(todo) \in Seq(Action)
         /\ Elems(todo) = Elems(Group(todo)) \cup Elems(Rest(todo))
         /\ \A a \in Elems(Group(todo)) : a \in Action /\ Object(a.field) = ObjectOf(todo)
         /\ ObjectOf(todo) \in Objects
         /\ FieldsOf(Group(todo)) \subseteq Fields
<1>1. todo \in Seq(Action)
  BY DEF TypeInv, TypeOK
<1>2. /\ Group(todo) \in Seq(Action) /\ Group(todo) # <<>> /\ Rest(todo) \in Seq(Action)
      /\ Elems(todo) = Elems(Group(todo)) \cup Elems(Rest(todo))
      /\ \A a \in Elems(Group(todo)) : Object(a.field) = ObjectOf(todo)
  BY <1>1, GroupFacts
<1>3. \A a \in Elems(Group(todo)) : a \in Action
  BY <1>2, SeqFacts
<1>4. todo[1] \in Action
  BY <1>1, EmptyFacts, SeqFacts
<1>5. ObjectOf(todo) \in Objects
  BY <1>4 DEF ObjectOf, Objects, Action
<1>6. FieldsOf(Group(todo)) \subseteq Fields
  BY <1>3, FieldsFacts DEF Action
<1>7. QED
  BY <1>2, <1>3, <1>5, <1>6

\* What is raised is a part of the group.
LEMMA BelowFacts ==
  ASSUME TypeInv, todo # <<>>
  PROVE  Below(Group(todo)) \subseteq FieldsOf(Group(todo)) /\ Below(Group(todo)) \subseteq Fields
<1>1. Below(Group(todo)) \subseteq FieldsOf(Group(todo))
  BY DEF Below, FieldsOf
<1>2. QED
  BY <1>1, TodoFacts

\* An apply patch keeps the fields' type.
LEMMA RaisedToType ==
  ASSUME TypeInv, NEW fs
  PROVE  RaisedTo(fs) \in [Fields -> Nat \cup {Unset}]
  BY DEF TypeInv, TypeOK, RaisedTo

\* Where the walk over the groups goes after this one.
LEMMA NextAppliedType ==
  ASSUME TypeInv, applied # <<>>, NEW ok \in BOOLEAN, NextApplied(ok)
  PROVE  /\ applied' \in Seq(Seq(Action))
         /\ applied' = <<>> <=> Len(applied) = 1
         /\ \A i \in DOMAIN applied' : i \in DOMAIN applied /\ i # Len(applied)
                                       /\ applied'[i] = applied[i]
         /\ \A i \in DOMAIN applied : i # Len(applied) => i \in DOMAIN applied'
         /\ last' \in {"", "applied", "compensated", "failed", "restored"}
<1> DEFINE n == Len(applied)
           front == Front(applied)
<1>1. applied \in Seq(Seq(Action)) /\ last \in {"", "applied", "compensated", "failed", "restored"}
  BY DEF TypeInv, TypeOK
<1>2. n \in Nat /\ DOMAIN applied = 1 .. n /\ n >= 1
  BY <1>1, SeqFacts
<1>3. /\ front \in Seq(Seq(Action)) /\ Len(front) = n - 1
      /\ \A i \in 1 .. n - 1 : front[i] = applied[i]
  BY <1>1, FrontFacts
<1> HIDE DEF front
<1>4. DOMAIN front = 1 .. n - 1 /\ (front = <<>> <=> n - 1 = 0)
  BY <1>3, SeqFacts, EmptyFacts
<1>5. applied' = front
  BY DEF NextApplied, front
<1>6. last' \in {"", "applied", "compensated", "failed", "restored"}
  BY <1>1 DEF NextApplied
<1> HIDE DEF n
<1>7. /\ front = <<>> <=> n = 1
      /\ \A i \in 1 .. n - 1 : i \in 1 .. n /\ i # n
      /\ \A i \in 1 .. n : i # n => i \in 1 .. n - 1
  BY <1>2, <1>4
<1>8. QED
  BY <1>2, <1>3, <1>4, <1>5, <1>6, <1>7 DEF n

\* What a compensation is given.
LEMMA ToCompensateFacts ==
  ASSUME TypeInv, pc \in {"apply", "stamp"}
  PROVE  /\ ToCompensate \in Seq(Seq(Action))
         /\ \A i \in DOMAIN ToCompensate : ToCompensate[i] # <<>>
         /\ \A i \in DOMAIN ToCompensate : \/ i \in DOMAIN applied /\ ToCompensate[i] = applied[i]
                                           \/ ToCompensate[i] = Group(todo)
         /\ \A i \in DOMAIN applied : i \in DOMAIN ToCompensate /\ ToCompensate[i] = applied[i]
         /\ pc = "stamp" /\ mutated =>
              \E i \in DOMAIN ToCompensate : ToCompensate[i] = Group(todo)
<1>1. /\ applied \in Seq(Seq(Action)) /\ \A i \in DOMAIN applied : applied[i] # <<>>
      /\ todo # <<>>
  BY DEF TypeInv, TypeOK, Shape
<1>2. Group(todo) \in Seq(Action) /\ Group(todo) # <<>>
  BY <1>1, TodoFacts
<1>3. CASE pc = "stamp" /\ mutated
  <2> DEFINE n == Len(applied)
             longer == Append(applied, Group(todo))
  <2>1. ToCompensate = longer
    BY <1>3 DEF ToCompensate
  <2>2. /\ longer \in Seq(Seq(Action)) /\ DOMAIN longer = 1 .. n + 1
        /\ \A i \in 1 .. n : longer[i] = applied[i]
        /\ longer[n + 1] = Group(todo)
    BY <1>1, <1>2, AppendFacts
  <2>3. n \in Nat /\ DOMAIN applied = 1 .. n
    BY <1>1, SeqFacts
  <2> HIDE DEF n, longer
  <2>4. /\ \A i \in 1 .. n + 1 : i \in 1 .. n \/ i = n + 1
        /\ \A i \in 1 .. n : i \in 1 .. n + 1
        /\ n + 1 \in 1 .. n + 1
    BY <2>3
  <2>5. QED
    BY <1>1, <1>2, <2>1, <2>2, <2>3, <2>4
<1>4. CASE ~(pc = "stamp" /\ mutated)
  <2>1. ToCompensate = applied
    BY <1>4 DEF ToCompensate
  <2>2. QED
    BY <1>1, <1>4, <2>1
<1>5. QED
  BY <1>3, <1>4

\* The list a step of a walk leaves.
LEMMA NextRestoreType ==
  ASSUME TypeInv, todo # <<>>, NextRestore
  PROVE  /\ todo' \in Seq(Action) /\ actions' \in Seq(Action) /\ armed' \in BOOLEAN
         /\ closing' \in {"no", "marked", "seen"}
         /\ last' \in {"", "applied", "compensated", "failed", "restored"}
         /\ \/ pc' = "restore" /\ todo' = Rest(todo) /\ todo' # <<>>
            \/ pc' \in {"idle", "arm"} /\ todo' = <<>>
<1>1. Rest(todo) \in Seq(Action) /\ <<>> \in Seq(Action)
  BY TodoFacts, EmptyFacts
<1>2. /\ actions \in Seq(Action) /\ armed \in BOOLEAN
      /\ closing \in {"no", "marked", "seen"}
      /\ last \in {"", "applied", "compensated", "failed", "restored"}
  BY DEF TypeInv, TypeOK
<1>3. CASE Rest(todo) = <<>>
  BY <1>1, <1>2, <1>3 DEF NextRestore, Restored
<1>4. CASE Rest(todo) # <<>>
  BY <1>1, <1>2, <1>4 DEF NextRestore
<1>5. QED
  BY <1>3, <1>4

\* Every step keeps the types and the shape.
LEMMA TypeStep == TypeInv /\ [Next]_vars => TypeInv'
<1> SUFFICES ASSUME TypeInv, [Next]_vars PROVE TypeInv'
  OBVIOUS
<1> USE DEF TypeInv, vars, store, local
<1>0. <<>> \in Seq(Action) /\ <<>> \in Seq(Seq(Action)) /\ DOMAIN (<<>>) = {}
  BY EmptySeq
<1>00. faults \in Nat /\ (faults > 0 => faults - 1 \in Nat)
  <2>1. faults \in Nat
    BY DEF TypeOK
  <2>2. QED
    BY <2>1
<1>1. ASSUME NEW raw \in Annotations, NEW atRisk \in 1 .. MaxAtRisk, BuildPlan(raw, atRisk)
      PROVE  TypeInv'
  <2>1. atRisk \in Nat
    BY PlanAssumption
  <2>2. /\ todo' \in Seq(Action) /\ actions' \in Seq(Action) /\ desired' \in Nat
        /\ pc' = IF todo' = <<>> THEN "idle" ELSE "apply"
    BY <1>1, <2>1, BuildFacts
  <2>3. /\ armed' = FALSE /\ applied' = <<>> /\ mutated' = FALSE /\ raised' = {} /\ last' = ""
        /\ UNCHANGED <<value, stamped, marked, exists, closing, faults>>
    BY <1>1 DEF BuildPlan
  <2>4. QED
    BY <1>0, <2>2, <2>3 DEF TypeOK, Shape
<1>2. CASE StartRestore
  <2>1. CASE actions # <<>>
    BY <1>2, <2>1 DEF StartRestore, TypeOK, Shape
  <2>2. CASE actions = <<>>
    BY <1>0, <1>2, <2>2 DEF StartRestore, Restored, TypeOK, Shape
  <2>3. QED
    BY <2>1, <2>2
<1>3. CASE ApplyPatch
  <2>1. todo # <<>>
    BY <1>3 DEF ApplyPatch, Shape
  <2>2. RaisedTo(Below(Group(todo))) \in [Fields -> Nat \cup {Unset}]
    BY RaisedToType
  <2>3. Below(Group(todo)) \subseteq Fields
    BY <2>1, BelowFacts
  <2>4. QED
    BY <1>3, <2>1, <2>2, <2>3 DEF ApplyPatch, TypeOK, Shape
<1>4. CASE ApplyStamp
  <2>1. todo # <<>>
    BY <1>4 DEF ApplyStamp, Shape
  <2>2. /\ Group(todo) \in Seq(Action) /\ Group(todo) # <<>> /\ Rest(todo) \in Seq(Action)
        /\ ObjectOf(todo) \in Objects
    BY <2>1, TodoFacts
  <2>3. /\ Append(applied, Group(todo)) \in Seq(Seq(Action))
        /\ \A i \in DOMAIN Append(applied, Group(todo)) : Append(applied, Group(todo))[i] # <<>>
    <3> DEFINE n == Len(applied)
               longer == Append(applied, Group(todo))
    <3>1. applied \in Seq(Seq(Action)) /\ \A i \in DOMAIN applied : applied[i] # <<>>
      BY DEF TypeOK, Shape
    <3>2. /\ longer \in Seq(Seq(Action)) /\ DOMAIN longer = 1 .. n + 1
          /\ \A i \in 1 .. n : longer[i] = applied[i]
          /\ longer[n + 1] = Group(todo)
      BY <2>2, <3>1, AppendFacts
    <3>3. n \in Nat /\ DOMAIN applied = 1 .. n
      BY <3>1, SeqFacts
    <3> HIDE DEF n, longer
    <3>4. \A i \in 1 .. n + 1 : i \in 1 .. n \/ i = n + 1
      BY <3>3
    <3>5. QED
      BY <2>2, <3>1, <3>2, <3>3, <3>4 DEF longer
  <2>4. applied' \in Seq(Seq(Action)) /\ \A i \in DOMAIN applied' : applied'[i] # <<>>
    BY <1>4, <2>3 DEF ApplyStamp, TypeOK, Shape
  <2>5. /\ stamped' \subseteq Objects /\ marked' \subseteq Objects
        /\ mutated' = FALSE /\ todo' = Rest(todo)
        /\ UNCHANGED <<value, exists, actions, armed, desired, raised, closing, faults>>
    BY <1>4, <2>2 DEF ApplyStamp, StampValues, TypeOK
  <2>6. \/ pc' = "idle" /\ last' = "applied" /\ todo' = <<>>
        \/ pc' = "apply" /\ last' = last /\ todo' # <<>>
    BY <1>4 DEF ApplyStamp
  <2>7. QED
    BY <2>2, <2>4, <2>5, <2>6 DEF TypeOK, Shape
<1>5. CASE ApplyFails
  <2>1. pc \in {"apply", "stamp"} /\ todo # <<>>
    BY <1>5 DEF ApplyFails, Shape
  <2>2. /\ ToCompensate \in Seq(Seq(Action))
        /\ \A i \in DOMAIN ToCompensate : ToCompensate[i] # <<>>
    BY <2>1, ToCompensateFacts
  <2>3. ObjectOf(todo) \in Objects
    BY <2>1, TodoFacts
  <2>4. RaisedTo(Below(Group(todo))) \in [Fields -> Nat \cup {Unset}]
    BY RaisedToType
  <2>8. value' \in [Fields -> Nat \cup {Unset}]
    BY <1>5, <2>4 DEF ApplyFails, TypeOK
  <2>9. stamped' \subseteq Objects /\ marked' \subseteq Objects
    BY <1>5, <2>3 DEF ApplyFails, StampValues, TypeOK
  <2>10. faults' \in Nat
    BY <1>00, <1>5 DEF ApplyFails
  <2>6. /\ applied' = ToCompensate
        /\ pc' = IF ToCompensate = <<>> THEN "idle" ELSE "lower"
        /\ last' = IF ToCompensate = <<>> THEN "compensated" ELSE ""
        /\ todo' = <<>> /\ mutated' = FALSE
        /\ UNCHANGED <<exists, actions, armed, desired, raised, closing>>
    BY <1>5 DEF ApplyFails, Compensate
  <2>7. QED
    BY <1>0, <2>2, <2>8, <2>9, <2>10, <2>6 DEF TypeOK, Shape
<1>6. CASE CompensateGroup
  <2>1. applied # <<>>
    BY <1>6 DEF CompensateGroup, Shape
  <2>2. Lowered(Last(applied)) \in [Fields -> Nat \cup {Unset}]
    BY <2>1, AppliedFacts, LoweredType
  <2>3. QED
    BY <1>6, <2>1, <2>2 DEF CompensateGroup, TypeOK, Shape
<1>7. CASE CompensateStamp \/ CompensateFails
  <2>1. applied # <<>> /\ pc \in {"lower", "unstamp"}
    BY <1>7 DEF CompensateStamp, CompensateFails, Shape
  <2>2. PICK ok \in BOOLEAN : NextApplied(ok)
    BY <1>7 DEF CompensateStamp, CompensateFails
  <2>3. /\ applied' \in Seq(Seq(Action)) /\ (applied' = <<>> <=> Len(applied) = 1)
        /\ \A i \in DOMAIN applied' : i \in DOMAIN applied /\ applied'[i] = applied[i]
        /\ last' \in {"", "applied", "compensated", "failed", "restored"}
    BY <2>1, <2>2, NextAppliedType
  <2>4. /\ pc' = IF Len(applied) = 1 THEN "idle" ELSE "lower"
        /\ UNCHANGED <<todo, mutated, desired>>
    BY <2>2 DEF NextApplied
  <2>5. /\ stamped' \subseteq Objects /\ marked' \subseteq Objects
        /\ UNCHANGED <<value, exists, actions, armed, raised, closing>>
    BY <1>7 DEF CompensateStamp, CompensateFails, TypeOK
  <2>8. faults' \in Nat
    BY <1>00, <1>7 DEF CompensateStamp, CompensateFails
  <2>6. todo' = <<>>
    BY <2>1, <2>4 DEF Shape
  <2>7. QED
    BY <2>3, <2>4, <2>5, <2>6, <2>8 DEF TypeOK, Shape
<1>8. CASE RestoreGroup
  <2>1. todo # <<>>
    BY <1>8 DEF RestoreGroup, Shape
  <2>2. Lowered(Group(todo)) \in [Fields -> Nat \cup {Unset}]
    BY <2>1, TodoFacts, LoweredType
  <2>3. QED
    BY <1>8, <2>1, <2>2 DEF RestoreGroup, TypeOK, Shape
<1>9. CASE RestoreStamp \/ RestoreSkips
  <2>1. todo # <<>>
    BY <1>9 DEF RestoreStamp, RestoreSkips, Shape
  <2>2. NextRestore
    BY <1>9 DEF RestoreStamp, RestoreSkips, SkipGone
  <2>3. /\ stamped' \subseteq Objects /\ marked' \subseteq Objects
        /\ UNCHANGED <<value, exists, applied, mutated, desired, raised, faults>>
    BY <1>9 DEF RestoreStamp, RestoreSkips, TypeOK
  <2>4. QED
    BY <2>1, <2>2, <2>3, NextRestoreType DEF TypeOK, Shape
<1>10. CASE ArmCooldown \/ AbortCooldown
  BY <1>0, <1>10 DEF ArmCooldown, AbortCooldown, StampAll, TypeOK, Shape
<1>11. CASE StampUntil
  <2>1. todo # <<>> /\ todo \in Seq(Action)
    BY <1>11 DEF StampUntil, TypeOK, Shape
  <2>2. ObjectOf(todo) \in Objects
    BY <2>1, TodoFacts
  <2>3. Tail(todo) \in Seq(Action) /\ (Tail(todo) = <<>> <=> Len(todo) = 1)
    BY <2>1, TailFacts
  <2>4. QED
    BY <1>11, <2>2, <2>3 DEF StampUntil, TypeOK, Shape
<1>12. CASE CloseWindow \/ WindowDeleted
  BY <1>0, <1>12 DEF CloseWindow, WindowDeleted, TypeOK, Shape
<1>13. CASE WindowFails
  <2>1. faults' \in Nat
    BY <1>00, <1>13 DEF WindowFails
  <2>2. QED
    BY <1>0, <1>13, <2>1 DEF WindowFails, TypeOK, Shape
<1>14. CASE \E o \in Objects : ObjectDeleted(o)
  BY <1>14 DEF ObjectDeleted, TypeOK, Shape
<1>15. CASE Crash
  BY <1>0, <1>00, <1>15 DEF Crash, TypeOK, Shape
<1>16. CASE UNCHANGED vars
  BY <1>16 DEF TypeOK, Shape
<1>17. QED
  BY <1>1, <1>2, <1>3, <1>4, <1>5, <1>6, <1>7, <1>8, <1>9, <1>10, <1>11, <1>12, <1>13,
     <1>14, <1>15, <1>16 DEF Next, Step

\* Before any disruption all is in order.
LEMMA TypeStart == Init => TypeInv
<1>1. <<>> \in Seq(Action) /\ <<>> \in Seq(Seq(Action)) /\ DOMAIN (<<>>) = {}
  BY EmptySeq
<1>2. User \in [Fields -> Nat \cup {Unset}] /\ MaxFaults \in Nat
  BY PlanAssumption
<1>3. Init => TypeOK
  <2> SUFFICES ASSUME Init PROVE TypeOK
    OBVIOUS
  <2>2. value \in [Fields -> Nat \cup {Unset}] /\ faults \in Nat
    BY <1>2 DEF Init
  <2>3. actions \in Seq(Action) /\ todo \in Seq(Action) /\ applied \in Seq(Seq(Action))
    BY <1>1 DEF Init
  <2>4. QED
    BY <2>2, <2>3 DEF Init, TypeOK
<1>4. Init => Shape
  BY <1>1 DEF Init, Shape
<1>5. QED
  BY <1>3, <1>4 DEF TypeInv

\* The fan-out keeps its data in shape: in particular a plan is only written
\* with a baseline that was read, and a list that is being walked is not empty.
THEOREM TypeCorrect == Spec => []TypeOK
<1>1. Spec => []TypeInv
  BY TypeStart, TypeStep, PTL DEF Spec
<1>2. TypeInv => TypeOK
  BY DEF TypeInv
<1>3. QED
  BY <1>1, <1>2, PTL

-------------------------------------------------------------------------------
(***************************************************************************)
(* What a step can do to the actions held anywhere, and to a field.        *)
(***************************************************************************)
\* A reconcile of the policy plans.
Builds == \E raw \in Annotations, atRisk \in 1 .. MaxAtRisk : BuildPlan(raw, atRisk)

\* The actions of the groups this apply has mutated.
AppliedElems == UNION {Elems(applied[i]) : i \in DOMAIN applied}

\* Only buildPlan makes actions; everything else passes them on or drops them.
LEMMA HeldStep ==
  ASSUME TypeInv, [Next]_vars, ~Builds
  PROVE  Held' \subseteq Held
<1> USE DEF vars, store, local
<1>0. Elems(<<>>) = {} /\ DOMAIN (<<>>) = {}
  BY DEF Elems
<1>1. Held = Elems(actions) \cup Elems(todo) \cup AppliedElems
  BY DEF Held, AppliedElems
<1>2. Held' = Elems(actions)' \cup Elems(todo)' \cup AppliedElems'
  BY DEF Held, AppliedElems
<1>3. SUFFICES /\ Elems(actions)' \subseteq Held
               /\ Elems(todo)' \subseteq Held
               /\ AppliedElems' \subseteq Held
  BY <1>2
<1>4. applied' = <<>> => AppliedElems' = {}
  BY <1>0 DEF AppliedElems
<1>5. applied' = applied => AppliedElems' = AppliedElems
  BY DEF AppliedElems
<1>6. \A i \in DOMAIN applied : Elems(applied[i]) \subseteq Held
  BY DEF Held
<1>7. \A as \in {actions, todo, <<>>} : Elems(as) \subseteq Held
  BY <1>0, <1>1
<1>8. CASE StartRestore \/ ArmCooldown \/ AbortCooldown \/ CloseWindow \/ WindowDeleted \/ Crash
           \/ WindowFails \/ (\E o \in Objects : ObjectDeleted(o)) \/ UNCHANGED vars
           \/ ApplyPatch \/ CompensateGroup \/ RestoreGroup
  <2>1. actions' \in {actions, <<>>} /\ todo' \in {actions, todo, <<>>}
        /\ applied' \in {applied, <<>>}
    BY <1>8 DEF StartRestore, Restored, ArmCooldown, AbortCooldown, StampAll, CloseWindow,
       WindowDeleted, Crash, WindowFails, ObjectDeleted, ApplyPatch, CompensateGroup, RestoreGroup
  <2>2. Elems(actions') \subseteq Held /\ Elems(todo') \subseteq Held
    BY <1>7, <2>1
  <2>3. AppliedElems' \subseteq Held
    BY <1>1, <1>4, <1>5, <2>1
  <2>4. QED
    BY <2>2, <2>3 DEF Elems
<1>9. CASE ApplyStamp \/ ApplyFails
  <2>1. pc \in {"apply", "stamp"} /\ todo # <<>> /\ actions' = actions
    BY <1>9 DEF ApplyStamp, ApplyFails, TypeInv, Shape
  <2>2. /\ Group(todo) \in Seq(Action)
        /\ Elems(todo) = Elems(Group(todo)) \cup Elems(Rest(todo))
    BY <2>1, TodoFacts
  <2>3. todo' \in {Rest(todo), <<>>}
    BY <1>9 DEF ApplyStamp, ApplyFails, Compensate
  <2>4. Elems(todo)' \subseteq Held
    BY <1>0, <1>1, <2>2, <2>3
  <2>5. ASSUME NEW i \in DOMAIN applied'
        PROVE  \/ i \in DOMAIN applied /\ applied'[i] = applied[i]
               \/ applied'[i] = Group(todo)
    <3>1. CASE applied' = applied
      BY <3>1
    <3>2. CASE applied' = Append(applied, Group(todo))
      <4>1. applied \in Seq(Seq(Action))
        BY DEF TypeInv, TypeOK
      <4>2. /\ DOMAIN applied' = 1 .. Len(applied) + 1
            /\ \A j \in 1 .. Len(applied) : applied'[j] = applied[j]
            /\ applied'[Len(applied) + 1] = Group(todo)
        BY <2>2, <3>2, <4>1, AppendFacts
      <4>3. DOMAIN applied = 1 .. Len(applied) /\ Len(applied) \in Nat
        BY <4>1, SeqFacts
      <4>4. i \in 1 .. Len(applied) \/ i = Len(applied) + 1
        BY <4>2, <4>3
      <4>5. QED
        BY <4>2, <4>3, <4>4
    <3>3. QED
      BY <1>9, <3>1, <3>2 DEF ApplyStamp, ApplyFails, Compensate, ToCompensate
  <2>6. Elems(Group(todo)) \subseteq Held
    BY <1>1, <2>2
  <2>7. AppliedElems' \subseteq Held
    BY <1>6, <2>5, <2>6 DEF AppliedElems
  <2>8. QED
    BY <1>1, <2>1, <2>4, <2>7
<1>10. CASE CompensateStamp \/ CompensateFails
  <2>1. applied # <<>> /\ \E ok \in BOOLEAN : NextApplied(ok)
    BY <1>10 DEF CompensateStamp, CompensateFails, TypeInv, Shape
  <2>2. \A i \in DOMAIN applied' : i \in DOMAIN applied /\ applied'[i] = applied[i]
    BY <2>1, NextAppliedType
  <2>3. AppliedElems' \subseteq Held
    BY <1>6, <2>2 DEF AppliedElems
  <2>4. actions' = actions /\ todo' = todo
    BY <1>10 DEF CompensateStamp, CompensateFails, NextApplied
  <2>5. QED
    BY <1>1, <2>3, <2>4
<1>11. CASE RestoreStamp \/ RestoreSkips
  <2>1. todo # <<>> /\ applied' = applied /\ NextRestore
    BY <1>11 DEF RestoreStamp, RestoreSkips, SkipGone, TypeInv, Shape
  <2>2. Elems(todo) = Elems(Group(todo)) \cup Elems(Rest(todo))
    BY <2>1, TodoFacts
  <2>3. actions' \in {actions, <<>>} /\ todo' \in {Rest(todo), <<>>}
    BY <2>1 DEF NextRestore, Restored
  <2>4. Elems(actions') \subseteq Held /\ Elems(todo') \subseteq Held
    BY <1>0, <1>1, <2>2, <2>3
  <2>5. QED
    BY <1>1, <1>5, <2>1, <2>4
<1>12. CASE StampUntil
  <2>1. todo # <<>> /\ todo \in Seq(Action) /\ applied' = applied /\ actions' = actions
        /\ todo' = Tail(todo)
    BY <1>12 DEF StampUntil, TypeInv, TypeOK, Shape
  <2>2. Elems(todo') \subseteq Elems(todo)
    BY <2>1, TailFacts
  <2>3. QED
    BY <1>1, <1>5, <2>1, <2>2
<1>13. QED
  BY <1>8, <1>9, <1>10, <1>11, <1>12 DEF Next, Step, Builds

\* A field changes only when a group is raised or lowered.
LEMMA ValueStep ==
  ASSUME TypeInv, [Next]_vars, NEW f \in Fields
  PROVE  \/ value'[f] = value[f]
         \/ /\ pc = "apply" /\ todo # <<>>
            /\ \E a \in Elems(Group(todo)) : a.field = f /\ Live(a) < desired /\ Live(a) # Unset
            /\ value'[f] = desired
         \/ \E a \in Held : /\ a.field = f /\ ~a.skip /\ Recovered(a) > a.base
                            /\ value'[f] = a.base
<1> USE DEF vars, store, local
<1>1. CASE value' = value
  BY <1>1
<1>2. CASE /\ pc = "apply" /\ ReadableUp(Group(todo))
           /\ value' = RaisedTo(Below(Group(todo)))
  <2>1. todo # <<>>
    BY <1>2 DEF TypeInv, Shape
  <2>2. value'[f] = IF f \in Below(Group(todo)) THEN desired ELSE value[f]
    BY <1>2 DEF RaisedTo
  <2>3. f \in Below(Group(todo)) => \E a \in Elems(Group(todo)) :
                                      a.field = f /\ Live(a) < desired /\ Live(a) # Unset
    BY <1>2 DEF Below, Elems, ReadableUp
  <2>4. QED
    BY <1>2, <2>1, <2>2, <2>3
<1>3. CASE CompensateGroup
  <2>1. applied # <<>> /\ value' = Lowered(Last(applied))
    BY <1>3 DEF CompensateGroup, TypeInv, Shape
  <2>2. /\ Last(applied) \in Seq(Action) /\ Len(applied) \in DOMAIN applied
        /\ Last(applied) = applied[Len(applied)]
    BY <2>1, AppliedFacts
  <2>3. Elems(Last(applied)) \subseteq Held
    BY <2>2 DEF Held
  <2>4. TypeOK
    BY DEF TypeInv
  <2>5. QED
    BY <2>1, <2>2, <2>3, <2>4, LoweredFacts
<1>4. CASE RestoreGroup
  <2>1. todo # <<>> /\ value' = Lowered(Group(todo))
    BY <1>4 DEF RestoreGroup, TypeInv, Shape
  <2>2. Group(todo) \in Seq(Action) /\ Elems(Group(todo)) \subseteq Elems(todo)
    BY <2>1, TodoFacts
  <2>3. Elems(Group(todo)) \subseteq Held
    BY <2>2 DEF Held
  <2>4. TypeOK
    BY DEF TypeInv
  <2>5. QED
    BY <2>1, <2>2, <2>3, <2>4, LoweredFacts
<1>5. \/ value' = value
      \/ /\ pc = "apply" /\ ReadableUp(Group(todo))
         /\ value' = RaisedTo(Below(Group(todo)))
      \/ CompensateGroup \/ RestoreGroup
  <2>1. CASE \E raw \in Annotations, atRisk \in 1 .. MaxAtRisk : BuildPlan(raw, atRisk)
    BY <2>1 DEF BuildPlan
  <2>2. CASE ApplyPatch \/ ApplyFails
    BY <2>2 DEF ApplyPatch, ApplyFails
  <2>3. CASE StartRestore \/ ArmCooldown \/ AbortCooldown \/ CloseWindow \/ WindowDeleted
             \/ Crash \/ WindowFails \/ (\E o \in Objects : ObjectDeleted(o)) \/ UNCHANGED vars
    BY <2>3 DEF StartRestore, ArmCooldown, AbortCooldown, CloseWindow, WindowDeleted, Crash,
       WindowFails, ObjectDeleted
  <2>4. CASE ApplyStamp \/ CompensateStamp \/ CompensateFails \/ RestoreStamp \/ RestoreSkips
             \/ StampUntil
    BY <2>4 DEF ApplyStamp, CompensateStamp, CompensateFails, RestoreStamp, RestoreSkips,
       StampUntil
  <2>5. QED
    BY <2>1, <2>2, <2>3, <2>4 DEF Next, Step
<1>6. QED
  BY <1>1, <1>2, <1>3, <1>4, <1>5

-------------------------------------------------------------------------------
(***************************************************************************)
(* No path below its user value.                                           *)
(***************************************************************************)

\* A bound step drives a path of its entry.
LEMMA BoundFacts ==
  ASSUME NEW step \in Bound
  PROVE  /\ step.key \in DOMAIN Catalog /\ step.field \in Fields
         /\ Drives(step.key, step.field) /\ step.skip = Catalog[step.key].skip
<1>1. PICK raw \in DOMAIN Resolved : \E i \in DOMAIN Resolved[raw] : step = Resolved[raw][i]
  BY DEF Bound
<1>2. Resolved[raw] \in Seq(Driving)
  BY PlanAssumption
<1>3. step \in Driving
  BY <1>1, <1>2, SeqFacts
<1>4. QED
  BY <1>3 DEF Driving

\* The value of an unset path is what any entry that drives it says.
LEMMA ImpliedFacts ==
  ASSUME DefaultsAgree, NEW f \in Fields, NEW k \in DOMAIN Catalog, Drives(k, f)
  PROVE  Implied(f) = Current(Unset, f, Catalog[k].default)
<1> DEFINE keys == {l \in DOMAIN Catalog : Drives(l, f)}
           l == CHOOSE m \in keys : TRUE
<1>1. k \in keys
  OBVIOUS
<1>2. l \in DOMAIN Catalog /\ Drives(l, f)
  BY <1>1
<1>3. Implied(f) = IF keys = {} THEN Unset ELSE Current(Unset, f, Catalog[l].default)
  BY DEF Implied
<1>4. Catalog[l].default = Catalog[k].default
  BY <1>2 DEF DefaultsAgree
<1> HIDE DEF l, keys
<1>5. QED
  BY <1>1, <1>3, <1>4

\* A level is a number or nothing.
LEMMA LevelType ==
  ASSUME NEW f, NEW v \in Nat \cup {Unset}
  PROVE  /\ Level(f, v) \in Nat \cup {Unset} /\ Level(f, v) \in Int
         /\ v # Unset => Level(f, v) = v
<1> DEFINE keys == {l \in DOMAIN Catalog : Drives(l, f)}
           l == CHOOSE m \in keys : TRUE
<1>1. Implied(f) = IF keys = {} THEN Unset ELSE Current(Unset, f, Catalog[l].default)
  BY DEF Implied
<1>2. keys # {} => l \in DOMAIN Catalog
  OBVIOUS
<1> HIDE DEF keys, l
<1>3. Implied(f) \in Nat \cup {Unset}
  <2>1. CASE keys = {}
    BY <1>1, <2>1
  <2>2. CASE keys # {}
    <3>1. Catalog[l].default \in Nat \cup {Unset}
      BY <1>2, <2>2, CatalogAssumption
    <3>2. PICK d \in Nat \cup {Unset} : d = Catalog[l].default
      BY <3>1
    <3>3. Implied(f) = Current(Unset, f, d)
      BY <1>1, <2>2, <3>2
    <3>4. PICK u \in Nat \cup {Unset} : u = Unset
      OBVIOUS
    <3>5. Current(u, f, d) \in Nat \cup {Unset}
      BY CurrentFacts
    <3>6. QED
      BY <3>3, <3>4, <3>5
  <2>3. QED
    BY <2>1, <2>2
<1>4. Level(f, v) \in Nat \cup {Unset} /\ (v # Unset => Level(f, v) = v)
  BY <1>3 DEF Level
<1>5. QED
  BY <1>4 DEF Unset

\* What apply and buildPlan read is the effective value.
LEMMA LiveIsLevel ==
  ASSUME TypeOK, DefaultsAgree, NEW a, a.key \in DOMAIN Catalog, a.field \in Fields,
         Drives(a.key, a.field)
  PROVE  Live(a) = LevelNow(a.field)
<1>1. /\ value[a.field] \in Nat \cup {Unset}
      /\ Catalog[a.key].default \in Nat \cup {Unset}
  BY CatalogAssumption DEF TypeOK
<1>2. CASE value[a.field] # Unset
  BY <1>1, <1>2, CurrentFacts DEF Live, LevelNow, Level
<1>3. CASE value[a.field] = Unset
  BY <1>3, ImpliedFacts DEF Live, LevelNow, Level
<1>4. QED
  BY <1>2, <1>3

\* An action drives a path of its entry, up-only if the entry is.
LEMMA SoundFacts ==
  ASSUME NEW a, Sound(a)
  PROVE  /\ a.key \in DOMAIN Catalog /\ a.field \in Fields
         /\ Drives(a.key, a.field) /\ a.skip = Catalog[a.key].skip
  BY BoundFacts DEF Sound

\* Levels can be compared, and a path that is set is at its value.
LEMMA LevelsFacts ==
  ASSUME TypeOK, NEW f \in Fields
  PROVE  /\ LevelNow(f) \in Int /\ UserLevels[f] \in Int
         /\ value[f] # Unset => LevelNow(f) = value[f]
<1>1. User[f] \in Nat \cup {Unset} /\ value[f] \in Nat \cup {Unset}
  BY PlanAssumption DEF TypeOK
<1>2. QED
  BY <1>1, LevelType DEF LevelNow, UserLevels

\* What was lowered to a held baseline, or raised, is not below the user's value.
LEMMA FloorStep ==
  ASSUME DefaultsAgree, TypeInv, TypeInv', FloorInv, [Next]_vars
  PROVE  FloorInv'
<1>0. TypeOK /\ TypeOK'
  BY DEF TypeInv
<1>1. \A a \in Held : Sound(a) /\ a.base >= UserLevels[a.field]
  BY DEF FloorInv
<1>2. \A a \in Held : Live(a) = LevelNow(a.field) /\ a \in Action
  <2>1. SUFFICES ASSUME NEW a \in Held PROVE Live(a) = LevelNow(a.field) /\ a \in Action
    OBVIOUS
  <2>2. Live(a) = LevelNow(a.field)
    BY <1>0, <1>1, SoundFacts, LiveIsLevel
  <2>3. Elems(actions) \subseteq Action /\ Elems(todo) \subseteq Action
    BY <1>0, SeqFacts DEF TypeOK
  <2>4. \A i \in DOMAIN applied : Elems(applied[i]) \subseteq Action
    <3>1. SUFFICES ASSUME NEW i \in DOMAIN applied PROVE Elems(applied[i]) \subseteq Action
      OBVIOUS
    <3>2. applied[i] \in Seq(Action)
      BY <1>0, SeqFacts DEF TypeOK
    <3>3. QED
      BY <3>2, SeqFacts
  <2>5. QED
    BY <2>2, <2>3, <2>4 DEF Held
<1>3. ASSUME NEW f \in Fields PROVE LevelNow(f)' >= UserLevels[f]
  <2>1. LevelNow(f) >= UserLevels[f] /\ LevelNow(f) \in Int /\ UserLevels[f] \in Int
    BY <1>0, LevelsFacts DEF FloorInv, NeverBelowUser
  <2>2. value'[f] = value[f] => LevelNow(f)' = LevelNow(f)
    BY DEF LevelNow
  <2>3. value'[f] # Unset /\ value'[f] \in Nat => LevelNow(f)' = value'[f]
    BY DEF LevelNow, Level
  <2>4. CASE value'[f] = value[f]
    BY <2>1, <2>2, <2>4
  <2>5. CASE /\ pc = "apply" /\ todo # <<>>
             /\ \E a \in Elems(Group(todo)) : a.field = f /\ Live(a) < desired /\ Live(a) # Unset
             /\ value'[f] = desired
    <3>1. PICK a \in Elems(Group(todo)) : a.field = f /\ Live(a) < desired
      BY <2>5
    <3>2. a \in Held
      BY <2>5, TodoFacts DEF Held
    <3>5. desired \in Nat
      BY <1>0 DEF TypeOK
    <3>3. LevelNow(f) < desired /\ desired \in Nat /\ desired # Unset
      BY <1>2, <3>1, <3>2, <3>5 DEF Unset
    <3>4. QED
      BY <2>1, <2>3, <2>5, <3>3
  <2>6. CASE \E a \in Held : a.field = f /\ value'[f] = a.base
    <3>1. PICK a \in Held : a.field = f /\ value'[f] = a.base
      BY <2>6
    <3>2. a.base \in Nat /\ a.base # Unset /\ a.base >= UserLevels[f]
      BY <1>1, <1>2, <3>1 DEF Action, Unset
    <3>3. QED
      BY <2>3, <3>1, <3>2
  <2>7. QED
    BY <2>4, <2>5, <2>6, ValueStep
<1>4. NeverBelowUser'
  BY <1>3 DEF NeverBelowUser, UserLevels
<1>5. ASSUME NEW a \in Held' PROVE Sound(a) /\ a.base >= UserLevels[a.field]
  <2>1. CASE a \in Held
    BY <1>1, <2>1
  <2>2. CASE a \notin Held
    <3>1. PICK raw \in Annotations, atRisk \in 1 .. MaxAtRisk : BuildPlan(raw, atRisk)
      BY <2>2, HeldStep DEF Builds
    <3>2. atRisk \in Nat
      BY PlanAssumption
    <3>3. Elems(actions') \subseteq Elems(todo') \cup Elems(actions)
      BY <1>0, <3>1, <3>2, BuildFacts
    <3>4. applied' = <<>>
      BY <3>1 DEF BuildPlan
    <3>5. a \in Elems(todo')
      BY <2>2, <3>3, <3>4 DEF Held, Elems
    <3>6. PICK step \in Elems(Resolved[raw]) :
            /\ step \in Bound
            /\ a.key = step.key /\ a.field = step.field /\ a.skip = step.skip
            /\ \/ \E b \in Elems(actions) : b.field = a.field /\ b.base = a.base
               \/ a.base = Live(step)
      BY <1>0, <3>1, <3>2, <3>5, BuildFacts
    <3>7. Sound(a)
      BY <3>6 DEF Sound
    <3>8. \A b \in Elems(actions) : b.base >= UserLevels[b.field]
      BY <1>1 DEF Held
    <3>9. Live(step) = LevelNow(a.field) /\ a.field \in Fields
      BY <1>0, <3>6, BoundFacts, LiveIsLevel
    <3>10. QED
      BY <3>6, <3>7, <3>8, <3>9 DEF FloorInv, NeverBelowUser
  <2>3. QED
    BY <2>1, <2>2
<1>6. QED
  BY <1>4, <1>5 DEF FloorInv, Sound, UserLevels

\* Before any disruption nothing is held and all is where the user left it.
LEMMA FloorStart == Init => FloorInv
<1>1. SUFFICES ASSUME Init PROVE FloorInv
  OBVIOUS
<1>0. Elems(<<>>) = {} /\ DOMAIN (<<>>) = {}
  BY DEF Elems
<1>2. value = User /\ Held = {}
  BY <1>0, <1>1 DEF Init, Held
<1>3. ASSUME NEW f \in Fields PROVE LevelNow(f) >= UserLevels[f]
  <2>1. LevelNow(f) = UserLevels[f]
    BY <1>2 DEF LevelNow, UserLevels
  <2>2. User[f] \in Nat \cup {Unset}
    BY PlanAssumption
  <2>3. UserLevels[f] \in Int
    BY <2>2, LevelType DEF UserLevels
  <2>4. QED
    BY <2>1, <2>3
<1>4. QED
  BY <1>2, <1>3 DEF FloorInv, NeverBelowUser

\* Where entries that share a path agree on its default, no path is ever below
\* its user value, through partial apply, compensation, restore, crash and
\* re-apply.
THEOREM FloorHolds ==
  ASSUME DefaultsAgree
  PROVE  Spec => []NeverBelowUser
<1>1. Init => TypeInv /\ FloorInv
  BY TypeStart, FloorStart
<1>2. TypeInv /\ FloorInv /\ [Next]_vars => (TypeInv /\ FloorInv)'
  BY TypeStep, FloorStep
<1>3. TypeInv /\ FloorInv => NeverBelowUser
  BY DEF FloorInv
<1>4. QED
  BY <1>1, <1>2, <1>3, PTL DEF Spec

-------------------------------------------------------------------------------
(***************************************************************************)
(* Capacity is lent.                                                       *)
(***************************************************************************)
\* The inductive invariant of the lease.
PlanInv == TypeInv /\ FloorInv /\ LendInv

\* An action on a path that is lent is not up-only and has the user's value.
LEMMA HeldFacts ==
  ASSUME PlanInv, NEW a \in Held
  PROVE  /\ a.field \in Fields /\ a.base \in Nat
         /\ a.field \notin UpOnly => ~a.skip /\ a.base = UserLevels[a.field]
<1>1. Sound(a)
  BY DEF PlanInv, FloorInv
<1>2. /\ a.key \in DOMAIN Catalog /\ a.field \in Fields
      /\ Drives(a.key, a.field) /\ a.skip = Catalog[a.key].skip
  BY <1>1, SoundFacts
<1>3. a.field \notin UpOnly => ~a.skip
  BY <1>2 DEF UpOnly
<1>4. a.field \notin UpOnly => a.base = UserLevels[a.field]
  BY DEF PlanInv, LendInv, ExactBases
<1>5. TypeOK
  BY DEF PlanInv, TypeInv
<1>6. Elems(actions) \subseteq Action /\ Elems(todo) \subseteq Action
  BY <1>5, SeqFacts DEF TypeOK
<1>7. \A i \in DOMAIN applied : Elems(applied[i]) \subseteq Action
  <2>1. SUFFICES ASSUME NEW i \in DOMAIN applied PROVE Elems(applied[i]) \subseteq Action
    OBVIOUS
  <2>2. applied[i] \in Seq(Action)
    BY <1>5, SeqFacts DEF TypeOK
  <2>3. QED
    BY <2>2, SeqFacts
<1>8. a \in Action
  BY <1>6, <1>7 DEF Held
<1>9. QED
  BY <1>2, <1>3, <1>4, <1>8 DEF Action

\* Above the user's value or there.
LEMMA AtOrAbove ==
  ASSUME PlanInv, NEW f \in Lent
  PROVE  /\ f \in Fields /\ f \notin UpOnly
         /\ At(f) \/ f \in FieldsOf(actions)
<1>1. f \in Fields /\ f \notin UpOnly
  BY DEF Lent
<1>2. LevelNow(f) >= UserLevels[f]
  BY <1>1 DEF PlanInv, FloorInv, NeverBelowUser
<1>3. LevelNow(f) \in Int /\ UserLevels[f] \in Int
  BY <1>1, LevelsFacts DEF PlanInv, TypeInv
<1>4. LevelNow(f) > UserLevels[f] => f \in FieldsOf(actions)
  BY DEF PlanInv, LendInv, RaisedHasAction
<1>5. QED
  BY <1>1, <1>2, <1>3, <1>4 DEF At

\* A path that is lent leaves its user value only when it is raised.
LEMMA AtStep ==
  ASSUME DefaultsAgree, PlanInv, [Next]_vars, NEW f \in Fields, f \notin UpOnly
  PROVE  \/ value'[f] = value[f] /\ (At(f)' <=> At(f))
         \/ At(f)'
         \/ /\ pc = "apply" /\ todo # <<>> /\ f \in FieldsOf(Group(todo))
            /\ value'[f] = desired /\ LevelNow(f) < desired /\ LevelNow(f)' = desired
<1>0. TypeInv /\ TypeOK
  BY DEF PlanInv, TypeInv
<1>1. value'[f] = value[f] => (At(f)' <=> At(f))
  BY DEF At, LevelNow, UserLevels
<1>2. \A n \in Nat : value'[f] = n => LevelNow(f)' = n
  BY DEF LevelNow, Level, Unset
<1>3. CASE \E a \in Held : a.field = f /\ value'[f] = a.base
  <2>1. PICK a \in Held : a.field = f /\ value'[f] = a.base
    BY <1>3
  <2>2. a.base \in Nat /\ a.base = UserLevels[f]
    BY <2>1, HeldFacts
  <2>3. LevelNow(f)' = UserLevels[f] /\ UserLevels' = UserLevels
    BY <1>2, <2>1, <2>2 DEF UserLevels
  <2>4. QED
    BY <2>3 DEF At
<1>4. CASE /\ pc = "apply" /\ todo # <<>>
           /\ \E a \in Elems(Group(todo)) : a.field = f /\ Live(a) < desired /\ Live(a) # Unset
           /\ value'[f] = desired
  <2>1. PICK a \in Elems(Group(todo)) : a.field = f /\ Live(a) < desired
    BY <1>4
  <2>2. a \in Held
    BY <1>0, <1>4, TodoFacts DEF Held
  <2>3. Sound(a)
    BY <2>2 DEF PlanInv, FloorInv
  <2>4. desired \in Nat
    BY <1>0 DEF TypeOK
  <2>5. f \in FieldsOf(Group(todo))
    BY <2>1, FieldsFacts
  <2>6. Live(a) = LevelNow(f)
    BY <1>0, <2>1, <2>3, SoundFacts, LiveIsLevel
  <2>7. QED
    BY <1>2, <1>4, <2>1, <2>4, <2>5, <2>6
<1>5. QED
  BY <1>0, <1>1, <1>3, <1>4, ValueStep

\* A restore patch that goes through puts its group back.
LEMMA GroupRestored ==
  ASSUME PlanInv, NEW g \in Seq(Action), Elems(g) \subseteq Held, ReadableDown(g),
         value' = Lowered(g), NEW f \in FieldsOf(g), f \notin UpOnly
  PROVE  At(f)'
<1>0. TypeOK
  BY DEF PlanInv, TypeInv
<1>1. PICK a \in Elems(g) : a.field = f
  BY FieldsFacts
<1>2. a \in Held /\ f \in Fields /\ ~a.skip /\ a.base = UserLevels[f]
  BY <1>1, HeldFacts
<1>3. Recovered(a) # Unset
  BY <1>1, <1>2 DEF ReadableDown, Elems
<1>4. UserLevels' = UserLevels
  BY DEF UserLevels
<1>5. CASE \E b \in Elems(g) : b.field = f /\ value'[f] = b.base
  <2>1. PICK b \in Elems(g) : b.field = f /\ value'[f] = b.base
    BY <1>5
  <2>2. b.base \in Nat /\ b.base = UserLevels[f]
    BY <2>1, HeldFacts
  <2>3. LevelNow(f)' = b.base
    BY <2>1, <2>2 DEF LevelNow, Level, Unset
  <2>4. QED
    BY <1>4, <2>2, <2>3 DEF At
<1>6. CASE value'[f] = value[f] /\ ~(Recovered(a) > a.base)
  <2>1. LevelNow(f)' = LevelNow(f)
    BY <1>6 DEF LevelNow
  <2>2. LevelNow(f) = UserLevels[f]
    <3>1. CASE value[f] = Unset
      <4>1. User[f] = Unset
        BY <1>2, <3>1 DEF PlanInv, LendInv, KeepsUnset
      <4>2. QED
        BY <1>2, <3>1, <4>1 DEF LevelNow, UserLevels
    <3>2. CASE value[f] # Unset
      <4>1. value[f] \in Nat
        BY <1>0, <1>2, <3>2 DEF TypeOK
      <4>2. Recovered(a) = value[f] /\ LevelNow(f) = value[f]
        BY <1>1, <3>2 DEF Recovered, Current, LevelNow, Level
      <4>3. LevelNow(f) >= UserLevels[f]
        BY <1>2 DEF PlanInv, FloorInv, NeverBelowUser
      <4>4. UserLevels[f] \in Int
        BY <1>0, <1>2, LevelsFacts
      <4>5. QED
        BY <1>2, <1>6, <4>1, <4>2, <4>3, <4>4
    <3>3. QED
      BY <3>1, <3>2
  <2>3. QED
    BY <1>4, <2>1, <2>2 DEF At
<1>7. QED
  BY <1>0, <1>1, <1>2, <1>5, <1>6, LoweredFacts

\* The objects and paths of a list are those of its group and of the rest.
LEMMA SplitFacts ==
  ASSUME PlanInv, todo # <<>>
  PROVE  /\ FieldsOf(todo) = FieldsOf(Group(todo)) \cup FieldsOf(Rest(todo))
         /\ ObjectsOf(todo) = {ObjectOf(todo)} \cup ObjectsOf(Rest(todo))
         /\ \A f \in FieldsOf(Group(todo)) : Object(f) = ObjectOf(todo)
<1>1. /\ Group(todo) \in Seq(Action) /\ Group(todo) # <<>>
      /\ Elems(todo) = Elems(Group(todo)) \cup Elems(Rest(todo))
      /\ \A a \in Elems(Group(todo)) : Object(a.field) = ObjectOf(todo)
  BY TodoFacts DEF PlanInv
<1>2. FieldsOf(todo) = FieldsOf(Group(todo)) \cup FieldsOf(Rest(todo))
  BY <1>1, FieldsFacts
<1>3. \A f \in FieldsOf(Group(todo)) : Object(f) = ObjectOf(todo)
  BY <1>1, FieldsFacts
<1>4. \E f : f \in FieldsOf(Group(todo))
  BY <1>1, EmptyFacts, FieldsFacts
<1>5. ObjectsOf(todo) = ObjectsOf(Group(todo)) \cup ObjectsOf(Rest(todo))
  BY <1>2 DEF ObjectsOf
<1>6. ObjectsOf(Group(todo)) = {ObjectOf(todo)}
  BY <1>3, <1>4 DEF ObjectsOf
<1>7. QED
  BY <1>2, <1>3, <1>5, <1>6

\* A walk that reaches its end leaves nothing raised and nothing stamped.
LEMMA EndFacts ==
  ASSUME PlanInv,
         \/ StartRestore /\ actions = <<>>
         \/ (RestoreStamp \/ RestoreSkips) /\ Rest(todo) = <<>>
  PROVE  /\ stamped' = {} /\ value' = value /\ exists' = exists
         /\ \A f \in Lent : At(f)
         /\ todo' = <<>> /\ last' = "restored" /\ pc' \in {"idle", "arm"} /\ applied' = applied
         /\ raised' = raised
         /\ actions' \in {actions, <<>>} /\ (actions' = <<>> \/ pc' = "arm")
<1>0. /\ stamped \subseteq ObjectsOf(actions) /\ stamped \subseteq exists
      /\ pc \in {"restore", "clean"} => stamped \subseteq ObjectsOf(todo)
      /\ pc \in {"restore", "clean"} => \A f \in Lent : f \in FieldsOf(todo) \/ At(f)
      /\ pc = "clean" => \A f \in Lent \cap FieldsOf(Group(todo)) : At(f)
  BY DEF PlanInv, LendInv, OnRecord, Walk
<1>1. FieldsOf(<<>>) = {} /\ ObjectsOf(<<>>) = {}
  BY DEF FieldsOf, ObjectsOf
<1>2. CASE StartRestore /\ actions = <<>>
  <2>1. stamped = {} /\ \A f \in Lent : At(f)
    BY <1>0, <1>1, <1>2, AtOrAbove
  <2>2. QED
    BY <1>2, <2>1 DEF StartRestore, Restored, store
<1>3. CASE (RestoreStamp \/ RestoreSkips) /\ Rest(todo) = <<>>
  <2>1. pc \in {"restore", "clean"} /\ todo # <<>>
    BY <1>3 DEF RestoreStamp, RestoreSkips, PlanInv, TypeInv, Shape
  <2>2. /\ FieldsOf(todo) = FieldsOf(Group(todo)) /\ ObjectsOf(todo) = {ObjectOf(todo)}
        /\ \A f \in FieldsOf(Group(todo)) : Object(f) = ObjectOf(todo)
    BY <1>1, <1>3, <2>1, SplitFacts
  <2>3. stamped \subseteq {ObjectOf(todo)}
    BY <1>0, <2>1, <2>2
  <2>4. CASE RestoreStamp
    <3>1. pc = "clean" /\ stamped' = stamped \ {ObjectOf(todo)}
      BY <2>4 DEF RestoreStamp
    <3>2. stamped' = {} /\ \A f \in Lent : At(f)
      BY <1>0, <2>1, <2>2, <2>3, <3>1
    <3>3. QED
      BY <1>3, <2>4, <3>2 DEF RestoreStamp, NextRestore, Restored
  <2>5. CASE RestoreSkips
    <3>1. ObjectOf(todo) \notin exists /\ stamped' = stamped
      BY <2>5 DEF RestoreSkips, store
    <3>2. stamped = {}
      BY <1>0, <2>3, <3>1
    <3>3. \A f \in Lent : Object(f) \in exists
      BY DEF Lent
    <3>4. \A f \in Lent : At(f)
      BY <1>0, <2>1, <2>2, <3>1, <3>3
    <3>5. QED
      BY <1>3, <2>5, <3>1, <3>2, <3>4 DEF RestoreSkips, SkipGone, NextRestore, Restored, store
  <2>6. QED
    BY <1>3, <2>4, <2>5
<1>4. QED
  BY <1>2, <1>3

\* Objects are deleted and never come back.
LEMMA ExistsStep ==
  ASSUME [Next]_vars
  PROVE  exists' \subseteq exists /\ Lent' \subseteq Lent
<1> USE DEF vars, store, local
<1>1. exists' \subseteq exists
  <2>1. CASE \E raw \in Annotations, atRisk \in 1 .. MaxAtRisk : BuildPlan(raw, atRisk)
    BY <2>1 DEF BuildPlan
  <2>2. CASE StartRestore \/ ArmCooldown \/ AbortCooldown \/ CloseWindow \/ WindowDeleted
             \/ Crash \/ WindowFails \/ (\E o \in Objects : ObjectDeleted(o)) \/ UNCHANGED vars
    BY <2>2 DEF StartRestore, ArmCooldown, AbortCooldown, CloseWindow, WindowDeleted, Crash,
       WindowFails, ObjectDeleted
  <2>3. CASE ApplyPatch \/ ApplyStamp \/ ApplyFails \/ CompensateGroup \/ CompensateStamp
             \/ CompensateFails \/ RestoreGroup \/ RestoreStamp \/ RestoreSkips \/ StampUntil
    BY <2>3 DEF ApplyPatch, ApplyStamp, ApplyFails, CompensateGroup, CompensateStamp,
       CompensateFails, RestoreGroup, RestoreStamp, RestoreSkips, StampUntil
  <2>4. QED
    BY <2>1, <2>2, <2>3 DEF Next, Step
<1>2. QED
  BY <1>1 DEF Lent, UpOnly

\* buildPlan of a workload that has a capacity path: what is on record stays so.
LEMMA BuildStep ==
  ASSUME NoneExternal, PlanInv, Builds
  PROVE  /\ pc = "idle" /\ todo' # <<>> /\ pc' = "apply"
         /\ FieldsOf(actions) \subseteq FieldsOf(actions')
         /\ FieldsOf(todo') \subseteq FieldsOf(actions')
         /\ armed' = FALSE /\ applied' = <<>> /\ mutated' = FALSE /\ raised' = {} /\ last' = ""
         /\ value' = value /\ stamped' = stamped /\ exists' = exists
<1>0. TypeOK
  BY DEF PlanInv, TypeInv
<1>1. PICK raw \in Annotations, atRisk \in 1 .. MaxAtRisk : BuildPlan(raw, atRisk)
  BY DEF Builds
<1>2. atRisk \in Nat
  BY PlanAssumption
<1>3. /\ Elems(todo') \subseteq Elems(actions')
      /\ todo' # <<>> => FieldsOf(actions) \subseteq FieldsOf(actions')
      /\ todo' = <<>> <=> Resolved[raw] = <<>>
      /\ pc' = IF todo' = <<>> THEN "idle" ELSE "apply"
  BY <1>0, <1>1, <1>2, BuildFacts
<1>4. raw \in DOMAIN Resolved
  BY <1>1 DEF BuildPlan
<1>5. Resolved[raw] # <<>>
  BY <1>4 DEF NoneExternal
<1>6. FieldsOf(todo') \subseteq FieldsOf(actions')
  BY <1>3, FieldsFacts
<1>7. /\ pc = "idle" /\ armed' = FALSE /\ applied' = <<>> /\ mutated' = FALSE /\ raised' = {}
      /\ last' = "" /\ value' = value /\ stamped' = stamped /\ exists' = exists
  BY <1>1 DEF BuildPlan, store
<1>8. QED
  BY <1>3, <1>5, <1>6, <1>7

\* The window is given up only when nothing is raised and nothing is stamped.
LEMMA DropFacts ==
  ASSUME PlanInv, [Next]_vars, ~Builds, actions' # actions
  PROVE  /\ actions' = <<>> /\ todo' = <<>> /\ pc' = "idle" /\ stamped' = {}
         /\ value' = value /\ exists' = exists /\ \A f \in Lent : At(f)
<1> USE DEF vars, store, local
<1>1. CASE CloseWindow
  <2>1. stamped = {} /\ \A f \in Lent : At(f)
    BY <1>1 DEF CloseWindow, PlanInv, LendInv, Cold
  <2>2. todo = <<>>
    BY <1>1 DEF CloseWindow, PlanInv, TypeInv, Shape
  <2>3. QED
    BY <1>1, <2>1, <2>2 DEF CloseWindow
<1>2. CASE RestoreStamp \/ RestoreSkips
  <2>1. NextRestore
    BY <1>2 DEF RestoreStamp, RestoreSkips, SkipGone
  <2>2. Rest(todo) = <<>> /\ Restored(closing = "seen")
    BY <2>1 DEF NextRestore
  <2>3. pc' = "idle" /\ actions' = <<>>
    BY <2>2 DEF Restored
  <2>4. QED
    BY <1>2, <2>2, <2>3, EndFacts
<1>3. CASE StartRestore \/ ArmCooldown \/ AbortCooldown \/ WindowDeleted
           \/ Crash \/ WindowFails \/ (\E o \in Objects : ObjectDeleted(o)) \/ UNCHANGED vars
  BY <1>3 DEF StartRestore, Restored, ArmCooldown, AbortCooldown, WindowDeleted, Crash,
     WindowFails, ObjectDeleted
<1>4. CASE ApplyPatch \/ ApplyStamp \/ ApplyFails \/ CompensateGroup \/ CompensateStamp
           \/ CompensateFails \/ RestoreGroup \/ StampUntil
  BY <1>4 DEF ApplyPatch, ApplyStamp, ApplyFails, CompensateGroup, CompensateStamp,
     CompensateFails, RestoreGroup, StampUntil
<1>5. QED
  BY <1>1, <1>2, <1>3, <1>4 DEF Next, Step, Builds

\* A baseline that is recorded now is the user's: the path is not yet raised.
LEMMA BasesStep ==
  ASSUME DefaultsAgree, OneKeyPerPath, PlanInv, [Next]_vars
  PROVE  ExactBases'
<1>0. TypeInv /\ TypeOK
  BY DEF PlanInv, TypeInv
<1>1. \A a \in Held : a.field \notin UpOnly => a.base = UserLevels[a.field]
  BY DEF PlanInv, LendInv, ExactBases
<1>2. ASSUME NEW a \in Held', a.field \notin UpOnly
      PROVE  a.base = UserLevels[a.field]
  <2>1. CASE a \in Held
    BY <1>1, <1>2, <2>1
  <2>2. CASE a \notin Held
    <3>1. PICK raw \in Annotations, atRisk \in 1 .. MaxAtRisk : BuildPlan(raw, atRisk)
      BY <1>0, <2>2, HeldStep DEF Builds
    <3>2. atRisk \in Nat
      BY PlanAssumption
    <3>3. Elems(actions') \subseteq Elems(todo') \cup Elems(actions)
      BY <1>0, <3>1, <3>2, BuildFacts
    <3>4. applied' = <<>>
      BY <3>1 DEF BuildPlan
    <3>5. a \in Elems(todo')
      BY <2>2, <3>3, <3>4 DEF Held, Elems
    <3>6. PICK step \in Elems(Resolved[raw]) :
            /\ step \in Bound
            /\ a.key = step.key /\ a.field = step.field
            /\ \/ \E b \in Elems(actions) : b.field = a.field /\ b.base = a.base
               \/ a.base = Live(step) /\ Recorded(step) = {} /\ Object(step.field) \in exists
      BY <1>0, <3>1, <3>2, <3>5, BuildFacts
    <3>7. CASE \E b \in Elems(actions) : b.field = a.field /\ b.base = a.base
      <4>1. PICK b \in Elems(actions) : b.field = a.field /\ b.base = a.base
        BY <3>7
      <4>2. b \in Held
        BY DEF Held
      <4>3. QED
        BY <1>1, <1>2, <4>1, <4>2
    <3>8. CASE a.base = Live(step) /\ Recorded(step) = {} /\ Object(step.field) \in exists
      <4>1. Live(step) = LevelNow(a.field) /\ a.field \in Fields
        BY <1>0, <3>6, BoundFacts, LiveIsLevel
      <4>2. a.field \in Lent
        BY <1>2, <3>6, <3>8, <4>1 DEF Lent
      <4>3. a.field \notin FieldsOf(actions)
        <5>1. SUFFICES ASSUME NEW i \in DOMAIN actions, actions[i].field = step.field
                       PROVE  FALSE
          BY <3>6 DEF FieldsOf
        <5>2. actions[i] \in Held
          BY DEF Held, Elems
        <5>3. PICK t \in Bound : actions[i].key = t.key /\ actions[i].field = t.field
          BY <5>2 DEF PlanInv, FloorInv, Sound
        <5>4. t.key = step.key
          BY <3>6, <5>1, <5>3 DEF OneKeyPerPath
        <5>5. i \in Recorded(step)
          BY <5>1, <5>3, <5>4 DEF Recorded
        <5>6. QED
          BY <3>8, <5>5
      <4>4. At(a.field)
        BY <4>2, <4>3, AtOrAbove
      <4>5. QED
        BY <3>8, <4>1, <4>4 DEF At
    <3>9. QED
      BY <3>6, <3>7, <3>8
  <2>3. QED
    BY <2>1, <2>2
<1>3. QED
  BY <1>2 DEF ExactBases, UpOnly, UserLevels

\* Only a number is ever written.
LEMMA UnsetStep ==
  ASSUME PlanInv, [Next]_vars
  PROVE  KeepsUnset'
<1>0. TypeInv /\ TypeOK
  BY DEF PlanInv, TypeInv
<1>1. SUFFICES ASSUME NEW f \in Fields, value'[f] = Unset PROVE User[f] = Unset
  BY DEF KeepsUnset
<1>2. desired \in Nat /\ \A a \in Held : a.base \in Nat
  BY <1>0, HeldFacts DEF TypeOK
<1>3. value'[f] = value[f]
  BY <1>0, <1>1, <1>2, ValueStep DEF Unset
<1>4. QED
  BY <1>1, <1>3 DEF PlanInv, LendInv, KeepsUnset

\* What is raised, or was, is on record.
LEMMA RaisedStep ==
  ASSUME DefaultsAgree, NoneExternal, PlanInv, TypeInv', [Next]_vars
  PROVE  RaisedHasAction'
<1>0. TypeInv /\ TypeOK /\ TypeOK'
  BY DEF PlanInv, TypeInv
<1>1. SUFFICES ASSUME NEW f \in Lent', ~At(f)' PROVE f \in FieldsOf(actions)'
  <2>1. SUFFICES ASSUME NEW f \in Lent', LevelNow(f)' > UserLevels'[f]
                 PROVE  f \in FieldsOf(actions)'
    BY DEF RaisedHasAction
  <2>2. f \in Fields
    BY DEF Lent
  <2>3. ~At(f)'
    <3>1. SUFFICES ASSUME LevelNow(f)' = UserLevels'[f] PROVE FALSE
      BY DEF At
    <3>2. UserLevels' = UserLevels /\ UserLevels[f] \in Int
      BY <1>0, <2>2, LevelsFacts DEF UserLevels
    <3>3. QED
      BY <2>1, <3>1, <3>2
  <2>4. QED
    BY <1>1, <2>3
<1>2. f \in Lent
  <2>1. exists' \subseteq exists
    BY ExistsStep
  <2>2. QED
    BY <2>1 DEF Lent, UpOnly
<1>3. f \in FieldsOf(actions)
  <2>1. f \in Fields /\ f \notin UpOnly /\ (At(f) \/ f \in FieldsOf(actions))
    BY <1>2, AtOrAbove
  <2>2. CASE value'[f] = value[f] /\ (At(f)' <=> At(f))
    BY <1>1, <2>1, <2>2
  <2>3. CASE todo # <<>> /\ f \in FieldsOf(Group(todo))
    <3>1. f \in FieldsOf(todo)
      BY <2>3, SplitFacts
    <3>2. QED
      BY <3>1 DEF PlanInv, LendInv, OnRecord
  <2>4. QED
    BY <1>1, <2>1, <2>2, <2>3, AtStep
<1>4. CASE Builds
  BY <1>3, <1>4, BuildStep DEF FieldsOf
<1>5. CASE ~Builds /\ actions' # actions
  <2>1. value' = value /\ At(f)
    BY <1>2, <1>5, DropFacts
  <2>2. At(f)'
    BY <2>1 DEF At, LevelNow, UserLevels
  <2>3. QED
    BY <1>1, <2>2
<1>6. CASE actions' = actions
  BY <1>3, <1>6
<1>7. QED
  BY <1>4, <1>5, <1>6

\* A deletion, of the window or of an object, does not touch the reconcile.
Quiet == WindowDeleted \/ (\E o \in Objects : ObjectDeleted(o)) \/ UNCHANGED vars

\* What such a step leaves alone.
LEMMA QuietFacts ==
  ASSUME Quiet
  PROVE  /\ pc' = pc /\ todo' = todo /\ applied' = applied /\ mutated' = mutated
         /\ value' = value /\ raised' = raised /\ last' = last /\ armed' = armed
         /\ actions' = actions /\ stamped' \subseteq stamped
  BY DEF Quiet, WindowDeleted, ObjectDeleted, vars, store, local

\* Where the program counter can come from.
LEMMA PcStep ==
  ASSUME [Next]_vars
  PROVE  /\ pc' = "apply" => Builds \/ ApplyStamp \/ Quiet
         /\ pc' = "stamp" => ApplyPatch \/ Quiet
         /\ pc' = "lower" => ApplyFails \/ CompensateStamp \/ CompensateFails \/ Quiet
         /\ pc' = "unstamp" => CompensateGroup \/ Quiet
         /\ pc' = "restore" => \/ StartRestore /\ actions # <<>>
                               \/ (RestoreStamp \/ RestoreSkips) /\ Rest(todo) # <<>>
                               \/ Quiet
         /\ pc' = "clean" => RestoreGroup \/ Quiet
<1> USE DEF vars, store, local
<1>1. CASE Builds
  BY <1>1 DEF Builds, BuildPlan
<1>2. CASE Quiet
  BY <1>2
<1>3. CASE StartRestore \/ ArmCooldown \/ AbortCooldown \/ CloseWindow \/ Crash \/ WindowFails
  BY <1>3 DEF StartRestore, Restored, ArmCooldown, AbortCooldown, StampAll, CloseWindow, Crash,
     WindowFails
<1>4. CASE ApplyPatch \/ ApplyStamp \/ ApplyFails
  BY <1>4 DEF ApplyPatch, ApplyStamp, ApplyFails, Compensate
<1>5. CASE CompensateGroup \/ CompensateStamp \/ CompensateFails
  BY <1>5 DEF CompensateGroup, CompensateStamp, CompensateFails, NextApplied
<1>6. CASE RestoreGroup \/ RestoreStamp \/ RestoreSkips
  BY <1>6 DEF RestoreGroup, RestoreStamp, RestoreSkips, SkipGone, NextRestore, Restored
<1>7. CASE StampUntil
  BY <1>7 DEF StampUntil
<1>8. QED
  BY <1>1, <1>2, <1>3, <1>4, <1>5, <1>6, <1>7 DEF Next, Step, Builds, Quiet

\* Only the annotation patch of an apply stamps, and only what exists.
LEMMA StampStep ==
  ASSUME TypeInv, [Next]_vars
  PROVE  /\ \/ stamped' \subseteq stamped
            \/ /\ stamped' \subseteq stamped \cup {ObjectOf(todo)}
               /\ ObjectOf(todo) \in exists /\ exists' = exists
               /\ pc = "stamp" /\ todo # <<>>
         /\ stamped \subseteq exists => stamped' \subseteq exists'
<1> USE DEF vars, store, local
<1>1. CASE Builds
  BY <1>1 DEF Builds, BuildPlan
<1>2. CASE Quiet
  BY <1>2 DEF Quiet, WindowDeleted, ObjectDeleted
<1>3. CASE StartRestore \/ ArmCooldown \/ AbortCooldown \/ CloseWindow \/ Crash \/ WindowFails
  BY <1>3 DEF StartRestore, ArmCooldown, AbortCooldown, CloseWindow, Crash, WindowFails
<1>4. CASE ApplyPatch \/ CompensateGroup \/ RestoreGroup \/ StampUntil
  BY <1>4 DEF ApplyPatch, CompensateGroup, RestoreGroup, StampUntil
<1>5. CASE ApplyStamp \/ ApplyFails
  <2>1. todo # <<>> /\ exists' = exists
    BY <1>5 DEF ApplyStamp, ApplyFails, TypeInv, Shape
  <2>2. \/ stamped' = stamped
        \/ /\ stamped' = stamped \cup {ObjectOf(todo)} /\ ObjectOf(todo) \in exists
           /\ pc = "stamp"
    BY <1>5 DEF ApplyStamp, ApplyFails, StampValues
  <2>3. QED
    BY <2>1, <2>2
<1>6. CASE CompensateStamp \/ CompensateFails \/ RestoreStamp \/ RestoreSkips
  BY <1>6 DEF CompensateStamp, CompensateFails, RestoreStamp, RestoreSkips
<1>7. QED
  BY <1>1, <1>2, <1>3, <1>4, <1>5, <1>6 DEF Next, Step, Builds, Quiet

\* A walk goes over the window's actions, or on with the list it has.
LEMMA TodoStep ==
  ASSUME PlanInv, [Next]_vars, ~Builds
  PROVE  FieldsOf(todo') \subseteq FieldsOf(todo) \cup FieldsOf(actions)
<1> USE DEF vars, store, local
<1>0. FieldsOf(<<>>) = {}
  BY DEF FieldsOf
<1>1. CASE Quiet \/ StartRestore \/ ArmCooldown \/ AbortCooldown \/ CloseWindow \/ Crash
           \/ WindowFails \/ ApplyPatch \/ CompensateGroup \/ RestoreGroup \/ CompensateStamp
           \/ CompensateFails \/ ApplyFails
  <2>1. todo' \in {todo, actions, <<>>}
    BY <1>1 DEF Quiet, WindowDeleted, ObjectDeleted, StartRestore, Restored, ArmCooldown,
       AbortCooldown, StampAll, CloseWindow, Crash, WindowFails, ApplyPatch, CompensateGroup,
       RestoreGroup, CompensateStamp, CompensateFails, NextApplied, ApplyFails, Compensate
  <2>2. QED
    BY <1>0, <2>1
<1>2. CASE ApplyStamp \/ RestoreStamp \/ RestoreSkips
  <2>1. todo # <<>> /\ todo' \in {Rest(todo), <<>>}
    BY <1>2 DEF ApplyStamp, RestoreStamp, RestoreSkips, SkipGone, NextRestore, Restored,
       PlanInv, TypeInv, Shape
  <2>2. QED
    BY <1>0, <2>1, SplitFacts
<1>3. CASE StampUntil
  <2>1. todo # <<>> /\ todo \in Seq(Action) /\ todo' = Tail(todo)
    BY <1>3 DEF StampUntil, PlanInv, TypeInv, TypeOK, Shape
  <2>2. Elems(todo') \subseteq Elems(todo)
    BY <2>1, TailFacts
  <2>3. QED
    BY <2>2, FieldsFacts
<1>4. QED
  BY <1>1, <1>2, <1>3 DEF Next, Step, Builds, Quiet

\* The groups of an apply: the ones it had, and the one in hand.
LEMMA AppliedStep ==
  ASSUME PlanInv, [Next]_vars, ~Builds, pc' \in {"apply", "stamp", "lower", "unstamp"}
  PROVE  /\ pc \in {"apply", "stamp", "lower", "unstamp"}
         /\ \A i \in DOMAIN applied' : \/ i \in DOMAIN applied /\ applied'[i] = applied[i]
                                       \/ todo # <<>> /\ applied'[i] = Group(todo)
<1>0. TypeInv
  BY DEF PlanInv
<1>1. CASE Quiet
  BY <1>1, QuietFacts
<1>2. CASE ApplyPatch \/ CompensateGroup
  BY <1>2 DEF ApplyPatch, CompensateGroup
<1>3. CASE CompensateStamp \/ CompensateFails
  <2>1. pc \in {"lower", "unstamp"} /\ applied # <<>>
    BY <1>0, <1>3 DEF CompensateStamp, CompensateFails, TypeInv, Shape
  <2>2. PICK ok \in BOOLEAN : NextApplied(ok)
    BY <1>3 DEF CompensateStamp, CompensateFails
  <2>3. \A i \in DOMAIN applied' : i \in DOMAIN applied /\ applied'[i] = applied[i]
    BY <1>0, <2>1, <2>2, NextAppliedType
  <2>4. QED
    BY <2>1, <2>3
<1>4. CASE ApplyFails
  <2>1. pc \in {"apply", "stamp"} /\ todo # <<>> /\ applied' = ToCompensate
    BY <1>0, <1>4 DEF ApplyFails, Compensate, TypeInv, Shape
  <2>2. \A i \in DOMAIN ToCompensate : \/ i \in DOMAIN applied /\ ToCompensate[i] = applied[i]
                                       \/ ToCompensate[i] = Group(todo)
    BY <1>0, <2>1, ToCompensateFacts
  <2>3. QED
    BY <2>1, <2>2
<1>5. CASE ApplyStamp
  <2>1. pc = "stamp" /\ todo # <<>>
    BY <1>0, <1>5 DEF ApplyStamp, TypeInv, Shape
  <2>2. CASE applied' = applied
    BY <2>1, <2>2
  <2>3. CASE applied' = Append(applied, Group(todo))
    <3>1. applied \in Seq(Seq(Action)) /\ Group(todo) \in Seq(Action)
      BY <1>0, <2>1, TodoFacts DEF TypeInv, TypeOK
    <3>2. /\ DOMAIN applied' = 1 .. Len(applied) + 1
          /\ \A j \in 1 .. Len(applied) : applied'[j] = applied[j]
          /\ applied'[Len(applied) + 1] = Group(todo)
      BY <2>3, <3>1, AppendFacts
    <3>3. DOMAIN applied = 1 .. Len(applied) /\ Len(applied) \in Nat
      BY <3>1, SeqFacts
    <3>4. \A i \in DOMAIN applied' : i \in 1 .. Len(applied) \/ i = Len(applied) + 1
      BY <3>2, <3>3
    <3>5. QED
      BY <2>1, <3>2, <3>3, <3>4
  <2>4. QED
    BY <1>5, <2>2, <2>3 DEF ApplyStamp
<1>6. QED
  BY <1>1, <1>2, <1>3, <1>4, <1>5, PcStep

\* Nothing is worked on, and nothing stamped, that is not on record.
LEMMA RecordStep ==
  ASSUME NoneExternal, PlanInv, [Next]_vars
  PROVE  OnRecord'
<1>0. /\ TypeInv
      /\ FieldsOf(todo) \subseteq FieldsOf(actions)
      /\ pc \in {"apply", "stamp", "lower", "unstamp"} => AppliedFields \subseteq FieldsOf(actions)
      /\ stamped \subseteq ObjectsOf(actions) /\ stamped \subseteq exists
  BY DEF PlanInv, LendInv, OnRecord
<1>1. FieldsOf(<<>>) = {} /\ DOMAIN (<<>>) = {}
  BY DEF FieldsOf
<1>2. FieldsOf(todo') \subseteq FieldsOf(actions')
  <2>1. CASE Builds
    BY <2>1, BuildStep
  <2>2. CASE ~Builds /\ actions' # actions
    BY <1>1, <2>2, DropFacts
  <2>3. CASE ~Builds /\ actions' = actions
    BY <1>0, <2>3, TodoStep
  <2>4. QED
    BY <2>1, <2>2, <2>3
<1>3. ASSUME pc' \in {"apply", "stamp", "lower", "unstamp"}
      PROVE  AppliedFields' \subseteq FieldsOf(actions')
  <2>1. CASE Builds
    BY <1>1, <2>1, BuildStep DEF AppliedFields
  <2>2. CASE ~Builds
    <3>1. actions' = actions
      BY <1>3, <2>2, DropFacts
    <3>2. /\ pc \in {"apply", "stamp", "lower", "unstamp"}
          /\ \A i \in DOMAIN applied' : \/ i \in DOMAIN applied /\ applied'[i] = applied[i]
                                        \/ todo # <<>> /\ applied'[i] = Group(todo)
      BY <1>3, <2>2, AppliedStep
    <3>3. \A i \in DOMAIN applied : FieldsOf(applied[i]) \subseteq FieldsOf(actions)
      BY <1>0, <3>2 DEF AppliedFields
    <3>4. todo # <<>> => FieldsOf(Group(todo)) \subseteq FieldsOf(actions)
      BY <1>0, SplitFacts
    <3>5. \A i \in DOMAIN applied' : FieldsOf(applied'[i]) \subseteq FieldsOf(actions)
      BY <3>2, <3>3, <3>4
    <3>6. QED
      BY <3>1, <3>5 DEF AppliedFields
  <2>3. QED
    BY <2>1, <2>2
<1>4. stamped' \subseteq ObjectsOf(actions') /\ stamped' \subseteq exists'
  <2>1. stamped' \subseteq exists'
    BY <1>0, StampStep
  <2>2. stamped' \subseteq ObjectsOf(actions)
    <3>1. CASE stamped' \subseteq stamped
      BY <1>0, <3>1
    <3>2. CASE stamped' \subseteq stamped \cup {ObjectOf(todo)} /\ todo # <<>>
      <4>1. ObjectOf(todo) \in ObjectsOf(todo)
        BY <3>2, SplitFacts
      <4>2. ObjectsOf(todo) \subseteq ObjectsOf(actions)
        BY <1>0 DEF ObjectsOf
      <4>3. QED
        BY <1>0, <3>2, <4>1, <4>2
    <3>3. QED
      BY <1>0, <3>1, <3>2, StampStep
  <2>3. CASE Builds
    <3>1. FieldsOf(actions) \subseteq FieldsOf(actions')
      BY <2>3, BuildStep
    <3>2. ObjectsOf(actions) \subseteq ObjectsOf(actions')
      BY <3>1 DEF ObjectsOf
    <3>3. QED
      BY <2>1, <2>2, <3>2
  <2>4. CASE ~Builds /\ actions' # actions
    BY <2>1, <2>4, DropFacts
  <2>5. CASE actions' = actions
    BY <2>1, <2>2, <2>5
  <2>6. QED
    BY <2>3, <2>4, <2>5
<1>5. /\ FieldsOf(todo)' = FieldsOf(todo') /\ FieldsOf(actions)' = FieldsOf(actions')
      /\ ObjectsOf(actions)' = ObjectsOf(actions')
  BY DEF FieldsOf, ObjectsOf
<1>6. QED
  BY <1>2, <1>3, <1>4, <1>5 DEF OnRecord

\* An apply starts without a cooldown, and nothing arms one on the way.
LEMMA RaisingStep ==
  ASSUME NoneExternal, PlanInv, [Next]_vars
  PROVE  Raising'
<1>1. SUFFICES ASSUME pc' \in {"apply", "stamp"} PROVE ~armed' /\ last' = ""
  BY DEF Raising
<1>0. pc \in {"apply", "stamp"} => ~armed /\ last = ""
  BY DEF PlanInv, LendInv, Raising
<1>2. CASE Builds
  BY <1>2, BuildStep
<1>3. CASE Quiet
  <2>1. pc' = pc /\ last' = last /\ armed' = armed
    BY <1>3, QuietFacts
  <2>2. QED
    BY <1>0, <1>1, <2>1
<1>4. CASE ApplyPatch \/ ApplyStamp
  <2>1. pc \in {"apply", "stamp"} /\ armed' = armed
    BY <1>4 DEF ApplyPatch, ApplyStamp
  <2>2. last' = last
    BY <1>1, <1>4 DEF ApplyPatch, ApplyStamp
  <2>3. QED
    BY <1>0, <2>1, <2>2
<1>5. QED
  BY <1>1, <1>2, <1>3, <1>4, PcStep

\* A cooldown starts when everything is back, and ends before anything is raised.
LEMMA ColdStep ==
  ASSUME DefaultsAgree, NoneExternal, PlanInv, [Next]_vars
  PROVE  Cold'
<1> USE DEF vars, store, local
<1>0. TypeInv
  BY DEF PlanInv
<1>1. SUFFICES ASSUME armed' \/ pc' = "arm" \/ last' = "restored"
               PROVE  stamped' = {} /\ \A f \in Lent' : At(f)'
  BY DEF Cold
<1>2. CASE \/ StartRestore /\ actions = <<>>
           \/ (RestoreStamp \/ RestoreSkips) /\ Rest(todo) = <<>>
  <2>1. stamped' = {} /\ value' = value /\ exists' = exists /\ \A f \in Lent : At(f)
    BY <1>2, EndFacts
  <2>2. QED
    BY <2>1, ExistsStep DEF At, LevelNow, UserLevels
<1>3. CASE armed \/ pc = "arm" \/ last = "restored"
  <2>1. stamped = {} /\ \A f \in Lent : At(f)
    BY <1>3 DEF PlanInv, LendInv, Cold
  <2>2. pc # "apply" /\ pc # "stamp"
    BY <1>3 DEF PlanInv, LendInv, Raising
  <2>3. stamped' = {}
    BY <1>0, <2>1, <2>2, StampStep
  <2>4. ASSUME NEW f \in Lent' PROVE At(f)'
    <3>1. f \in Lent /\ f \in Fields /\ f \notin UpOnly
      BY ExistsStep DEF Lent
    <3>2. QED
      BY <2>1, <2>2, <3>1, AtStep
  <2>5. QED
    BY <2>3, <2>4
<1>4. \/ StartRestore /\ actions = <<>>
      \/ (RestoreStamp \/ RestoreSkips) /\ Rest(todo) = <<>>
      \/ armed \/ pc = "arm" \/ last = "restored"
  <2>1. CASE Builds
    BY <1>1, <2>1, BuildStep
  <2>2. CASE Quiet
    BY <1>1, <2>2, QuietFacts
  <2>3. CASE StartRestore \/ ArmCooldown \/ AbortCooldown \/ CloseWindow \/ Crash \/ WindowFails
    BY <1>1, <2>3 DEF StartRestore, ArmCooldown, AbortCooldown, StampAll, CloseWindow, Crash,
       WindowFails
  <2>4. CASE ApplyPatch \/ ApplyStamp \/ ApplyFails \/ CompensateGroup \/ StampUntil
    <3>1. armed' = armed /\ pc' # "arm"
      BY <2>4 DEF ApplyPatch, ApplyStamp, ApplyFails, Compensate, CompensateGroup, StampUntil
    <3>2. last' \in {last, "applied", "compensated", ""}
      BY <2>4 DEF ApplyPatch, ApplyStamp, ApplyFails, Compensate, CompensateGroup, StampUntil
    <3>3. QED
      BY <1>1, <3>1, <3>2
  <2>5. CASE CompensateStamp \/ CompensateFails
    BY <1>1, <2>5 DEF CompensateStamp, CompensateFails, NextApplied
  <2>6. CASE RestoreGroup \/ RestoreStamp \/ RestoreSkips
    BY <1>1, <2>6 DEF RestoreGroup, RestoreStamp, RestoreSkips, SkipGone, NextRestore
  <2>7. QED
    BY <2>1, <2>2, <2>3, <2>4, <2>5, <2>6 DEF Next, Step, Builds, Quiet
<1>5. QED
  BY <1>2, <1>3, <1>4

\* A group of the walk is left when it is back and its stamps are off.
LEMMA WalkStep ==
  ASSUME DefaultsAgree, PlanInv, [Next]_vars
  PROVE  Walk'
<1> USE DEF vars, store, local
<1>0. /\ TypeInv /\ stamped \subseteq ObjectsOf(actions) /\ stamped \subseteq exists
      /\ pc \in {"restore", "clean"} =>
           /\ todo # <<>> /\ stamped \subseteq ObjectsOf(todo)
           /\ \A f \in Lent : f \in FieldsOf(todo) \/ At(f)
      /\ pc = "clean" => \A f \in Lent \cap FieldsOf(Group(todo)) : At(f)
  BY DEF PlanInv, LendInv, OnRecord, Walk, TypeInv, Shape
<1>00. \A f : value' = value => (At(f)' <=> At(f))
  BY DEF At, LevelNow, UserLevels
<1>1. SUFFICES ASSUME pc' \in {"restore", "clean"}
               PROVE  /\ stamped' \subseteq ObjectsOf(todo')
                      /\ \A f \in Lent' : f \in FieldsOf(todo') \/ At(f)'
                      /\ pc' = "clean" => \A f \in Lent' \cap FieldsOf(Group(todo')) : At(f)'
  <2>1. /\ ObjectsOf(todo)' = ObjectsOf(todo') /\ FieldsOf(todo)' = FieldsOf(todo')
        /\ FieldsOf(Group(todo))' = FieldsOf(Group(todo'))
    BY DEF ObjectsOf, FieldsOf, Group, GroupLen, SameObject
  <2>2. QED
    BY <1>1, <2>1 DEF Walk
<1>2. CASE Quiet
  <2>1. pc' = pc /\ todo' = todo /\ value' = value /\ stamped' \subseteq stamped
    BY <1>2, QuietFacts
  <2>2. QED
    BY <1>0, <1>00, <1>1, <2>1, ExistsStep
<1>3. CASE StartRestore /\ actions # <<>>
  <2>1. /\ todo' = actions /\ pc' = "restore" /\ value' = value /\ stamped' = stamped
    BY <1>3 DEF StartRestore
  <2>2. QED
    BY <1>0, <1>00, <2>1, ExistsStep, AtOrAbove
<1>4. CASE RestoreGroup
  <2>1. /\ pc = "restore" /\ ReadableDown(Group(todo)) /\ value' = Lowered(Group(todo))
        /\ todo' = todo /\ stamped' = stamped /\ todo # <<>>
    BY <1>0, <1>4 DEF RestoreGroup
  <2>2. /\ Group(todo) \in Seq(Action)
        /\ Elems(todo) = Elems(Group(todo)) \cup Elems(Rest(todo))
    BY <1>0, <2>1, TodoFacts
  <2>3. Elems(Group(todo)) \subseteq Held
    BY <2>2 DEF Held
  <2>4. ASSUME NEW f \in Lent' PROVE f \in Lent /\ f \in Fields /\ f \notin UpOnly
    BY ExistsStep DEF Lent
  <2>5. ASSUME NEW f \in Lent' PROVE f \in FieldsOf(todo') \/ At(f)'
    <3>1. f \in FieldsOf(todo) \/ At(f)
      BY <1>0, <2>1, <2>4
    <3>2. At(f) => At(f)'
      BY <2>1, <2>4, AtStep
    <3>3. QED
      BY <2>1, <3>1, <3>2
  <2>6. ASSUME NEW f \in Lent', f \in FieldsOf(Group(todo)) PROVE At(f)'
    BY <2>1, <2>2, <2>3, <2>4, <2>6, GroupRestored
  <2>7. QED
    BY <1>0, <2>1, <2>5, <2>6
<1>5. CASE (RestoreStamp \/ RestoreSkips) /\ Rest(todo) # <<>>
  <2>1. /\ pc \in {"restore", "clean"} /\ todo # <<>> /\ value' = value /\ exists' = exists
        /\ todo' = Rest(todo) /\ pc' = "restore"
    BY <1>0, <1>5 DEF RestoreStamp, RestoreSkips, SkipGone, NextRestore
  <2>2. /\ FieldsOf(todo) = FieldsOf(Group(todo)) \cup FieldsOf(Rest(todo))
        /\ ObjectsOf(todo) = {ObjectOf(todo)} \cup ObjectsOf(Rest(todo))
        /\ \A f \in FieldsOf(Group(todo)) : Object(f) = ObjectOf(todo)
    BY <2>1, SplitFacts
  <2>3. \/ pc = "clean" /\ stamped' = stamped \ {ObjectOf(todo)}
        \/ ObjectOf(todo) \notin exists /\ stamped' = stamped
    BY <1>5 DEF RestoreStamp, RestoreSkips
  <2>4. stamped' \subseteq ObjectsOf(todo')
    BY <1>0, <2>1, <2>2, <2>3
  <2>5. ASSUME NEW f \in Lent' PROVE f \in FieldsOf(todo') \/ At(f)'
    <3>1. f \in Lent /\ Object(f) \in exists
      BY ExistsStep DEF Lent
    <3>2. f \in FieldsOf(Group(todo)) => At(f)
      BY <1>0, <2>2, <2>3, <3>1
    <3>3. QED
      BY <1>0, <1>00, <2>1, <2>2, <3>1, <3>2
  <2>6. QED
    BY <2>1, <2>4, <2>5
<1>6. QED
  BY <1>1, <1>2, <1>3, <1>4, <1>5, PcStep

\* What an apply has raised is in its groups, and a compensation takes it back.
LEMMA BacktrackStep ==
  ASSUME DefaultsAgree, NoneExternal, PlanInv, [Next]_vars
  PROVE  Backtrack'
<1> USE DEF vars, store, local
<1> DEFINE Left(f) == \E i \in DOMAIN applied : /\ f \in FieldsOf(applied[i])
                                                /\ pc = "unstamp" => i # Len(applied)
<1>0. /\ TypeInv
      /\ pc = "apply" => raised \subseteq AppliedFields
      /\ pc = "stamp" =>
           raised \subseteq AppliedFields \cup (IF mutated THEN FieldsOf(Group(todo)) ELSE {})
      /\ pc \in {"lower", "unstamp"} => last \in {"", "failed"}
      /\ pc \in {"lower", "unstamp"} /\ last = "" => \A f \in raised \cap Lent : At(f) \/ Left(f)
  BY DEF PlanInv, LendInv, Backtrack
<1>00. \A f : value' = value => (At(f)' <=> At(f))
  BY DEF At, LevelNow, UserLevels
<1>1. ASSUME pc' = "apply" PROVE raised' \subseteq AppliedFields'
  <2>1. CASE Builds
    BY <2>1, BuildStep
  <2>2. CASE Quiet
    BY <1>0, <1>1, <2>2, QuietFacts DEF AppliedFields
  <2>3. CASE ApplyStamp
    <3>1. /\ pc = "stamp" /\ todo # <<>> /\ raised' = raised
          /\ applied' = IF Stamp \/ mutated THEN Append(applied, Group(todo)) ELSE applied
      BY <1>0, <2>3 DEF ApplyStamp, TypeInv, Shape
    <3>2. applied \in Seq(Seq(Action)) /\ Group(todo) \in Seq(Action)
      BY <1>0, <3>1, TodoFacts DEF TypeInv, TypeOK
    <3>3. CASE applied' = Append(applied, Group(todo))
      <4>1. /\ DOMAIN applied' = 1 .. Len(applied) + 1
            /\ \A j \in 1 .. Len(applied) : applied'[j] = applied[j]
            /\ applied'[Len(applied) + 1] = Group(todo)
        BY <3>2, <3>3, AppendFacts
      <4>2. DOMAIN applied = 1 .. Len(applied) /\ Len(applied) \in Nat
        BY <3>2, SeqFacts
      <4>3. 1 .. Len(applied) \subseteq DOMAIN applied' /\ Len(applied) + 1 \in DOMAIN applied'
        BY <4>1, <4>2
      <4>4. /\ \A i \in DOMAIN applied : FieldsOf(applied[i]) \subseteq AppliedFields'
            /\ FieldsOf(Group(todo)) \subseteq AppliedFields'
        <5>1. \A i \in DOMAIN applied' : FieldsOf(applied'[i]) \subseteq AppliedFields'
          BY DEF AppliedFields, FieldsOf
        <5>2. QED
          BY <4>1, <4>2, <4>3, <5>1
      <4>5. AppliedFields \subseteq AppliedFields'
        BY <4>4 DEF AppliedFields
      <4>6. QED
        BY <1>0, <3>1, <4>4, <4>5
    <3>4. CASE applied' = applied /\ ~mutated
      BY <1>0, <3>1, <3>4 DEF AppliedFields
    <3>5. QED
      BY <3>1, <3>3, <3>4
  <2>4. QED
    BY <1>1, <2>1, <2>2, <2>3, PcStep
<1>2. ASSUME pc' = "stamp"
      PROVE  raised' \subseteq AppliedFields'
                      \cup (IF mutated' THEN FieldsOf(Group(todo')) ELSE {})
  <2>1. CASE Quiet
    <3>1. /\ pc' = pc /\ todo' = todo /\ applied' = applied /\ mutated' = mutated
          /\ raised' = raised
      BY <2>1, QuietFacts
    <3>2. AppliedFields' = AppliedFields
      BY <3>1 DEF AppliedFields
    <3>3. QED
      BY <1>0, <1>2, <3>1, <3>2
  <2>2. CASE ApplyPatch
    <3>1. /\ pc = "apply" /\ todo # <<>> /\ applied' = applied /\ todo' = todo
          /\ mutated' = (Below(Group(todo)) # {})
          /\ raised' = raised \cup Below(Group(todo))
      BY <1>0, <2>2 DEF ApplyPatch, TypeInv, Shape
    <3>2. Below(Group(todo)) \subseteq FieldsOf(Group(todo))
      BY <1>0, <3>1, BelowFacts
    <3>3. AppliedFields' = AppliedFields
      BY <3>1 DEF AppliedFields
    <3>4. CASE Below(Group(todo)) = {}
      BY <1>0, <3>1, <3>3, <3>4
    <3>5. CASE Below(Group(todo)) # {}
      <4>1. mutated' = TRUE
        BY <3>1, <3>5
      <4>2. QED
        BY <1>0, <3>1, <3>2, <3>3, <4>1
    <3>6. QED
      BY <3>4, <3>5
  <2>3. QED
    BY <1>2, <2>1, <2>2, PcStep
<1>3. ASSUME pc' \in {"lower", "unstamp"} PROVE last' \in {"", "failed"}
  <2>1. CASE Quiet
    BY <1>0, <1>3, <2>1, QuietFacts
  <2>2. CASE ApplyFails
    BY <1>3, <2>2 DEF ApplyFails, Compensate
  <2>3. CASE CompensateStamp \/ CompensateFails
    <3>1. pc \in {"lower", "unstamp"} /\ \E ok \in BOOLEAN : NextApplied(ok)
      BY <2>3 DEF CompensateStamp, CompensateFails
    <3>2. QED
      BY <1>0, <1>3, <3>1 DEF NextApplied
  <2>4. CASE CompensateGroup
    BY <1>0, <2>4 DEF CompensateGroup
  <2>5. QED
    BY <1>3, <2>1, <2>2, <2>3, <2>4, PcStep
<1>4. ASSUME pc' \in {"lower", "unstamp"}, last' = "", NEW f \in raised' \cap Lent'
      PROVE  \/ At(f)'
             \/ \E i \in DOMAIN applied' : /\ f \in FieldsOf(applied'[i])
                                           /\ pc' = "unstamp" => i # Len(applied')
  <2>0. f \in Lent /\ f \in Fields /\ f \notin UpOnly
    BY <1>4, ExistsStep DEF Lent
  <2>1. CASE Quiet
    <3>1. /\ pc' = pc /\ last' = last /\ applied' = applied /\ raised' = raised /\ value' = value
      BY <2>1, QuietFacts
    <3>2. QED
      BY <1>0, <1>00, <1>4, <2>0, <3>1
  <2>2. CASE ApplyFails
    <3>1. pc \in {"apply", "stamp"} /\ applied' = ToCompensate /\ pc' # "unstamp" /\ f \in raised
      BY <1>4, <2>2 DEF ApplyFails, Compensate
    <3>2. /\ \A i \in DOMAIN applied : i \in DOMAIN ToCompensate /\ ToCompensate[i] = applied[i]
          /\ pc = "stamp" /\ mutated =>
               \E i \in DOMAIN ToCompensate : ToCompensate[i] = Group(todo)
      BY <1>0, <3>1, ToCompensateFacts
    <3>3. f \in AppliedFields \/ (pc = "stamp" /\ mutated /\ f \in FieldsOf(Group(todo)))
      BY <1>0, <3>1
    <3>4. f \in AppliedFields => \E i \in DOMAIN applied : f \in FieldsOf(applied[i])
      BY DEF AppliedFields
    <3>5. \E i \in DOMAIN ToCompensate : f \in FieldsOf(ToCompensate[i])
      BY <3>2, <3>3, <3>4
    <3>6. QED
      BY <3>1, <3>5
  <2>3. CASE CompensateGroup
    <3>1. /\ pc = "lower" /\ applied # <<>> /\ ReadableDown(Last(applied)) /\ last = ""
          /\ value' = Lowered(Last(applied)) /\ applied' = applied /\ f \in raised
      BY <1>0, <1>4, <2>3 DEF CompensateGroup, TypeInv, Shape
    <3>2. /\ Len(applied) \in DOMAIN applied /\ Last(applied) = applied[Len(applied)]
          /\ Last(applied) \in Seq(Action)
      BY <1>0, <3>1, AppliedFacts
    <3>3. Elems(Last(applied)) \subseteq Held
      BY <3>2 DEF Held
    <3>4. CASE At(f)
      BY <2>0, <3>1, <3>4, AtStep
    <3>5. CASE f \in FieldsOf(Last(applied))
      BY <2>0, <3>1, <3>2, <3>3, <3>5, GroupRestored
    <3>6. CASE \E i \in DOMAIN applied : i # Len(applied) /\ f \in FieldsOf(applied[i])
      BY <3>1, <3>6
    <3>7. QED
      BY <1>0, <2>0, <3>1, <3>2, <3>4, <3>5, <3>6
  <2>4. CASE CompensateStamp
    <3>1. /\ pc = "unstamp" /\ applied # <<>> /\ NextApplied(TRUE) /\ value' = value
          /\ f \in raised
      BY <1>0, <1>4, <2>4 DEF CompensateStamp, TypeInv, Shape
    <3>2. last = "" /\ pc' = "lower"
      BY <1>0, <1>4, <3>1 DEF NextApplied
    <3>3. /\ \A i \in DOMAIN applied' : applied'[i] = applied[i]
          /\ \A i \in DOMAIN applied : i # Len(applied) => i \in DOMAIN applied'
      BY <1>0, <3>1, NextAppliedType
    <3>4. QED
      BY <1>0, <1>00, <2>0, <3>1, <3>2, <3>3
  <2>5. CASE CompensateFails
    <3>1. NextApplied(FALSE)
      BY <2>5 DEF CompensateFails
    <3>2. last' = "failed"
      BY <3>1 DEF NextApplied
    <3>3. QED
      BY <1>4, <3>2
  <2>6. QED
    BY <1>4, <2>1, <2>2, <2>3, <2>4, <2>5, PcStep
<1>5. /\ FieldsOf(Group(todo))' = FieldsOf(Group(todo'))
      /\ \A i : FieldsOf(applied[i])' = FieldsOf(applied'[i])
  BY DEF FieldsOf, Group, GroupLen, SameObject
<1>6. QED
  BY <1>1, <1>2, <1>3, <1>4, <1>5 DEF Backtrack

\* A compensation that reports no error has taken back all that was raised.
LEMMA CompensatedStep ==
  ASSUME DefaultsAgree, NoneExternal, PlanInv, [Next]_vars
  PROVE  CompensationIsComplete'
<1> USE DEF vars, store, local
<1>0. /\ TypeInv
      /\ pc = "apply" => raised \subseteq AppliedFields
      /\ pc = "stamp" =>
           raised \subseteq AppliedFields \cup (IF mutated THEN FieldsOf(Group(todo)) ELSE {})
      /\ pc \in {"lower", "unstamp"} => last \in {"", "failed"}
      /\ pc = "unstamp" /\ last = "" =>
           \A f \in raised \cap Lent :
             At(f) \/ \E i \in DOMAIN applied : i # Len(applied)
  BY DEF PlanInv, LendInv, Backtrack
<1>00. \A f : value' = value => (At(f)' <=> At(f))
  BY DEF At, LevelNow, UserLevels
<1>1. SUFFICES ASSUME last' = "compensated", NEW f \in raised' \cap Lent' PROVE At(f)'
  BY DEF CompensationIsComplete, At
<1>2. f \in Lent /\ f \in Fields /\ f \notin UpOnly
  BY <1>1, ExistsStep DEF Lent
<1>3. CASE last = "compensated" /\ raised' = raised
  <2>1. At(f)
    BY <1>1, <1>2, <1>3 DEF PlanInv, LendInv, CompensationIsComplete, At
  <2>2. pc # "apply"
    BY <1>3 DEF PlanInv, LendInv, Raising
  <2>3. QED
    BY <1>2, <2>1, <2>2, AtStep
<1>4. CASE ApplyFails
  <2>1. pc \in {"apply", "stamp"} /\ ToCompensate = <<>> /\ f \in raised
    BY <1>1, <1>4 DEF ApplyFails, Compensate
  <2>2. /\ \A i \in DOMAIN applied : i \in DOMAIN ToCompensate
        /\ pc = "stamp" /\ mutated => \E i \in DOMAIN ToCompensate : TRUE
    BY <1>0, <2>1, ToCompensateFacts
  <2>3. DOMAIN ToCompensate = {}
    BY <2>1
  <2>4. AppliedFields = {} /\ ~(pc = "stamp" /\ mutated)
    BY <2>2, <2>3 DEF AppliedFields
  <2>5. QED
    BY <1>0, <2>1, <2>4
<1>5. CASE CompensateStamp
  <2>1. /\ pc = "unstamp" /\ applied # <<>> /\ NextApplied(TRUE) /\ value' = value
        /\ f \in raised /\ last \in {"", "failed"}
    BY <1>0, <1>1, <1>5 DEF CompensateStamp, TypeInv, Shape
  <2>2. last = "" /\ Len(applied) = 1
    BY <1>1, <2>1 DEF NextApplied
  <2>3. DOMAIN applied = 1 .. 1
    <3>1. applied \in Seq(Seq(Action))
      BY <1>0 DEF TypeInv, TypeOK
    <3>2. QED
      BY <2>2, <3>1, SeqFacts
  <2>6. f \in raised \cap Lent
    BY <1>2, <2>1
  <2>7. At(f) \/ \E i \in DOMAIN applied : i # Len(applied)
    BY <1>0, <2>1, <2>2, <2>6
  <2>8. \A i \in 1 .. 1 : i = 1
    OBVIOUS
  <2>4. At(f)
    BY <2>2, <2>3, <2>7, <2>8
  <2>5. QED
    BY <1>00, <2>1, <2>4
<1>6. \/ last = "compensated" /\ raised' = raised
      \/ ApplyFails \/ CompensateStamp
  <2>1. CASE Builds
    BY <1>1, <2>1, BuildStep
  <2>2. CASE Quiet
    BY <1>1, <2>2, QuietFacts
  <2>3. CASE StartRestore \/ ArmCooldown \/ AbortCooldown \/ CloseWindow \/ Crash \/ WindowFails
    BY <1>1, <2>3 DEF StartRestore, Restored, ArmCooldown, AbortCooldown, CloseWindow, Crash,
       WindowFails
  <2>4. CASE ApplyPatch
    <3>1. last = "" /\ last' = last
      BY <2>4 DEF ApplyPatch, PlanInv, LendInv, Raising
    <3>2. QED
      BY <1>1, <3>1
  <2>5. CASE CompensateFails
    <3>1. NextApplied(FALSE)
      BY <2>5 DEF CompensateFails
    <3>2. QED
      BY <1>1, <3>1 DEF NextApplied
  <2>6. CASE ApplyStamp \/ CompensateGroup \/ RestoreGroup \/ StampUntil
    BY <1>1, <2>6 DEF ApplyStamp, CompensateGroup, RestoreGroup, StampUntil
  <2>7. CASE RestoreStamp \/ RestoreSkips
    BY <1>1, <2>7 DEF RestoreStamp, RestoreSkips, SkipGone, NextRestore, Restored
  <2>8. CASE ApplyFails \/ CompensateStamp
    BY <2>8
  <2>9. QED
    BY <2>1, <2>2, <2>3, <2>4, <2>5, <2>6, <2>7, <2>8 DEF Next, Step, Builds, Quiet
<1>7. QED
  BY <1>3, <1>4, <1>5, <1>6

\* Every step keeps what a lease promises.
LEMMA LendStep ==
  ASSUME DefaultsAgree, OneKeyPerPath, NoneExternal
  PROVE  PlanInv /\ [Next]_vars => PlanInv'
<1>1. SUFFICES ASSUME PlanInv, [Next]_vars PROVE PlanInv'
  OBVIOUS
<1>2. TypeInv'
  BY <1>1, TypeStep DEF PlanInv
<1>3. FloorInv'
  BY <1>1, <1>2, FloorStep DEF PlanInv
<1>4. ExactBases' /\ KeepsUnset' /\ RaisedHasAction'
  BY <1>1, <1>2, BasesStep, UnsetStep, RaisedStep
<1>5. OnRecord' /\ Raising' /\ Cold'
  BY <1>1, RecordStep, RaisingStep, ColdStep
<1>6. Walk' /\ Backtrack' /\ CompensationIsComplete'
  BY <1>1, WalkStep, BacktrackStep, CompensatedStep
<1>7. QED
  BY <1>2, <1>3, <1>4, <1>5, <1>6 DEF PlanInv, LendInv

\* Before any disruption nothing is lent.
LEMMA LendStart == Init => PlanInv
<1>1. SUFFICES ASSUME Init PROVE PlanInv
  OBVIOUS
<1>2. TypeInv /\ FloorInv
  BY <1>1, TypeStart, FloorStart
<1>3. Elems(<<>>) = {} /\ DOMAIN (<<>>) = {} /\ FieldsOf(<<>>) = {}
  BY DEF Elems, FieldsOf
<1>4. /\ Held = {} /\ value = User /\ stamped = {} /\ FieldsOf(todo) = {}
      /\ pc = "idle" /\ last = "" /\ armed = FALSE
  BY <1>1, <1>3 DEF Init, Held
<1>5. \A f \in Fields : LevelNow(f) = UserLevels[f] /\ UserLevels[f] \in Int
  <2>1. ASSUME NEW f \in Fields PROVE LevelNow(f) = UserLevels[f] /\ UserLevels[f] \in Int
    BY <1>2, <1>4, LevelsFacts DEF LevelNow, UserLevels, TypeInv
  <2>2. QED
    BY <2>1
<1>6. RaisedHasAction
  BY <1>5 DEF RaisedHasAction, Lent
<1>7. ExactBases /\ KeepsUnset /\ OnRecord
  BY <1>4 DEF ExactBases, KeepsUnset, OnRecord
<1>8. Raising /\ Cold /\ Walk /\ Backtrack /\ CompensationIsComplete
  BY <1>4 DEF Raising, Cold, Walk, Backtrack, CompensationIsComplete
<1>9. QED
  BY <1>2, <1>6, <1>7, <1>8 DEF PlanInv, LendInv

\* The invariant the theorems about lent capacity rest on.
LEMMA LendAlways ==
  ASSUME DefaultsAgree, OneKeyPerPath, NoneExternal
  PROVE  Spec => []PlanInv
<1>1. PlanInv /\ [Next]_vars => PlanInv'
  BY LendStep
<1>2. QED
  BY <1>1, LendStart, PTL DEF Spec

\* "revert what we raised": a path of an object that exists is above its user
\* value only while the window has an action for it, whatever the annotation
\* says by now.
THEOREM RaisedIsOnRecord ==
  ASSUME DefaultsAgree, OneKeyPerPath, NoneExternal
  PROVE  Spec => []RaisedHasAction
<1>1. Spec => []PlanInv
  BY LendAlways
<1>2. PlanInv => RaisedHasAction
  BY DEF PlanInv, LendInv
<1>3. QED
  BY <1>1, <1>2, PTL

\* A restore that reports success has put back every path and taken off every
\* stamp, whichever objects were deleted under it.
THEOREM RestoreCompletes ==
  ASSUME DefaultsAgree, OneKeyPerPath, NoneExternal
  PROVE  Spec => []RestoreIsComplete
<1>1. Spec => []PlanInv
  BY LendAlways
<1>2. PlanInv => RestoreIsComplete
  BY DEF PlanInv, LendInv, Cold, RestoreIsComplete, At
<1>3. QED
  BY <1>1, <1>2, PTL

\* "a mid-fan-out failure does not leave partial capacity": a compensation
\* without errors leaves nothing raised that its apply had raised.
THEOREM CompensationCompletes ==
  ASSUME DefaultsAgree, OneKeyPerPath, NoneExternal
  PROVE  Spec => []CompensationIsComplete
<1>1. Spec => []PlanInv
  BY LendAlways
<1>2. PlanInv => CompensationIsComplete
  BY DEF PlanInv, LendInv
<1>3. QED
  BY <1>1, <1>2, PTL

-------------------------------------------------------------------------------
(***************************************************************************)
(* The fan-out implements the capacity lease.                              *)
(***************************************************************************)

\* The paths whose capacity is lent, and what the lease shows of one.
Paths == Fields \ UpOnly
Shown(f) == IF f \in Lent THEN LevelNow(f) ELSE UserLevels[f]

\* A step that changes fields raises the group in hand or lowers one, and does
\* nothing else to the lease.
LEMMA ValueKinds ==
  ASSUME [Next]_vars
  PROVE  \/ value' = value
         \/ /\ pc = "apply" /\ value' = RaisedTo(Below(Group(todo)))
            /\ exists' = exists /\ actions' = actions
         \/ pc # "apply" /\ exists' = exists /\ actions' = actions
<1> USE DEF vars, store, local
<1>1. CASE Builds
  BY <1>1 DEF Builds, BuildPlan
<1>2. CASE Quiet
  BY <1>2, QuietFacts
<1>3. CASE StartRestore \/ ArmCooldown \/ AbortCooldown \/ CloseWindow \/ Crash \/ WindowFails
  BY <1>3 DEF StartRestore, ArmCooldown, AbortCooldown, CloseWindow, Crash, WindowFails
<1>4. CASE ApplyPatch \/ ApplyFails
  BY <1>4 DEF ApplyPatch, ApplyFails
<1>5. CASE CompensateGroup \/ RestoreGroup
  BY <1>5 DEF CompensateGroup, RestoreGroup
<1>6. CASE ApplyStamp \/ CompensateStamp \/ CompensateFails \/ RestoreStamp \/ RestoreSkips
           \/ StampUntil
  BY <1>6 DEF ApplyStamp, CompensateStamp, CompensateFails, RestoreStamp, RestoreSkips,
     StampUntil
<1>7. QED
  BY <1>1, <1>2, <1>3, <1>4, <1>5, <1>6 DEF Next, Step, Builds, Quiet

\* What is raised was below, and is on record.
LEMMA RaiseFacts ==
  ASSUME DefaultsAgree, PlanInv, pc = "apply", value' = RaisedTo(Below(Group(todo))),
         exists' = exists, NEW f \in Paths, Shown(f)' # Shown(f)
  PROVE  f \in FieldsOf(actions) /\ Shown(f)' > Shown(f)
<1>0. TypeInv /\ TypeOK /\ todo # <<>>
  BY DEF PlanInv, TypeInv, Shape
<1>1. f \in Fields /\ f \notin UpOnly
  BY DEF Paths
<1>2. Lent' = Lent /\ UserLevels' = UserLevels
  BY DEF Lent, UpOnly, UserLevels
<1>3. f \in Lent /\ Shown(f) = LevelNow(f) /\ Shown(f)' = LevelNow(f)'
  BY <1>2 DEF Shown
<1>4. value'[f] = IF f \in Below(Group(todo)) THEN desired ELSE value[f]
  BY <1>1 DEF RaisedTo
<1>5. value'[f] = value[f] => LevelNow(f)' = LevelNow(f)
  BY DEF LevelNow
<1>6. f \in Below(Group(todo)) /\ value'[f] = desired
  BY <1>3, <1>4, <1>5
<1>7. PICK a \in Elems(Group(todo)) : a.field = f /\ Live(a) < desired
  BY <1>6 DEF Below, Elems
<1>8. a \in Held
  BY <1>0, TodoFacts DEF Held
<1>9. Sound(a)
  BY <1>8 DEF PlanInv, FloorInv
<1>10. Live(a) = LevelNow(f)
  BY <1>0, <1>7, <1>9, SoundFacts, LiveIsLevel
<1>11. desired \in Nat
  BY <1>0 DEF TypeOK
<1>12. LevelNow(f)' = desired
  BY <1>6, <1>11 DEF LevelNow, Level, Unset
<1>13. LevelNow(f) \in Int
  BY <1>0, <1>1, LevelsFacts
<1>14. LevelNow(f)' > LevelNow(f)
  BY <1>7, <1>10, <1>11, <1>12, <1>13
<1>15. f \in FieldsOf(Group(todo))
  BY <1>7, FieldsFacts
<1>16. f \in FieldsOf(actions)
  BY <1>0, <1>15, SplitFacts DEF PlanInv, LendInv, OnRecord
<1>17. QED
  BY <1>3, <1>14, <1>16

\* Everything else that changes goes to the user's value, also when its object
\* is deleted.
LEMMA RestoreFacts ==
  ASSUME DefaultsAgree, PlanInv, [Next]_vars, pc # "apply" \/ value' = value,
         NEW f \in Paths, Shown(f)' # Shown(f)
  PROVE  f \in FieldsOf(actions) /\ Shown(f)' = UserLevels[f]
<1>1. f \in Fields /\ f \notin UpOnly
  BY DEF Paths
<1>2. Lent' \subseteq Lent /\ UserLevels' = UserLevels
  BY ExistsStep DEF UserLevels
<1>3. /\ Shown(f) = IF f \in Lent THEN LevelNow(f) ELSE UserLevels[f]
      /\ Shown(f)' = IF f \in Lent' THEN LevelNow(f)' ELSE UserLevels[f]
  BY <1>2 DEF Shown
<1>4. f \in Lent
  BY <1>2, <1>3
<1>5. value'[f] = value[f] => LevelNow(f)' = LevelNow(f)
  BY DEF LevelNow
<1>6. CASE f \notin Lent'
  <2>1. Shown(f)' = UserLevels[f] /\ ~At(f)
    BY <1>3, <1>4, <1>6 DEF At
  <2>2. QED
    BY <1>4, <2>1, AtOrAbove
<1>7. CASE f \in Lent'
  <2>1. value'[f] # value[f] /\ pc # "apply"
    BY <1>3, <1>4, <1>5, <1>7
  <2>2. At(f)'
    BY <1>1, <2>1, AtStep
  <2>3. LevelNow(f)' = UserLevels[f]
    BY <1>2, <2>2 DEF At
  <2>4. ~At(f)
    BY <1>3, <1>4, <1>7, <2>3 DEF At
  <2>5. QED
    BY <1>3, <1>4, <1>7, <2>3, <2>4, AtOrAbove
<1>8. QED
  BY <1>6, <1>7

\* The fan-out implements the capacity lease, path by path: a path is raised
\* only while its action is on record, goes down in one step and only to its
\* user value, and its action is dropped only after that.
THEOREM LeaseIsImplemented ==
  ASSUME DefaultsAgree, OneKeyPerPath, NoneExternal
  PROVE  Spec => ImplementsLease
<1> DEFINE Value == [f \in Fields \ UpOnly |->
                       IF f \in Lent THEN LevelNow(f) ELSE UserLevels[f]]
           Leased == FieldsOf(actions) \ UpOnly
<1>1. Init => Lease!Init
  <2>1. SUFFICES ASSUME Init PROVE Lease!Init
    OBVIOUS
  <2>6. FieldsOf(<<>>) = {}
    BY DEF FieldsOf
  <2>2. value = User /\ FieldsOf(actions) = {}
    BY <2>1, <2>6 DEF Init
  <2>3. \A f \in Fields : LevelNow(f) = UserLevels[f]
    BY <2>2 DEF LevelNow, UserLevels
  <2>4. Value = [f \in Fields \ UpOnly |-> UserLevels[f]]
    BY <2>3
  <2>5. QED
    BY <2>2, <2>4 DEF Lease!Init
<1>2. ASSUME PlanInv, PlanInv', [Next]_vars
      PROVE  [Lease!Next]_(Lease!vars)
  <2>0. UpOnly' = UpOnly /\ UserLevels' = UserLevels
    BY DEF UpOnly, UserLevels
  <2>1. /\ Value = [f \in Paths |-> Shown(f)]
        /\ Value' = [f \in Paths |-> Shown(f)']
        /\ Leased' = FieldsOf(actions') \ UpOnly
    BY <2>0 DEF Paths, Shown, FieldsOf
  <2>2. /\ FieldsOf(actions) \subseteq Fields /\ FieldsOf(actions') \subseteq Fields
    <3>1. actions \in Seq(Action) /\ actions' \in Seq(Action)
      BY <1>2 DEF PlanInv, TypeInv, TypeOK
    <3>2. Elems(actions) \subseteq Action /\ Elems(actions') \subseteq Action
      BY <3>1, SeqFacts
    <3>3. \A a \in Action : a.field \in Fields
      BY DEF Action
    <3>4. QED
      BY <3>2, <3>3, FieldsFacts
  <2>3. value' = value /\ exists' = exists => Value' = Value
    <3>1. SUFFICES ASSUME value' = value, exists' = exists PROVE Value' = Value
      OBVIOUS
    <3>2. \A f : Shown(f)' = Shown(f)
      BY <2>0, <3>1 DEF Shown, LevelNow, Lent
    <3>3. QED
      BY <2>1, <3>2
  <2>4. \A f \in Paths : Value[f] = Shown(f) /\ Value'[f] = Shown(f)'
    BY <2>1
  <2>5. CASE Builds
    <3>1. FieldsOf(actions) \subseteq FieldsOf(actions') /\ Value' = Value
      BY <1>2, <2>3, <2>5, BuildStep
    <3>2. PICK fs \in SUBSET (Fields \ UpOnly) : fs = FieldsOf(actions') \ UpOnly
      BY <2>2
    <3>3. Leased' = Leased \cup fs
      BY <2>1, <3>1, <3>2
    <3> HIDE DEF Value, Leased
    <3>4. Lease!Lease(fs)
      BY <3>1, <3>3 DEF Lease!Lease, Value, Leased
    <3>5. QED
      BY <3>2, <3>4 DEF Lease!Next
  <2>6. CASE ~Builds /\ actions' # actions
    <3>1. /\ actions' = <<>> /\ value' = value /\ exists' = exists
          /\ \A f \in Lent : At(f)
      BY <1>2, <2>6, DropFacts
    <3>2. PICK fs \in SUBSET (Fields \ UpOnly) : fs = FieldsOf(actions) \ UpOnly
      BY <2>2
    <3>3. Value' = Value /\ FieldsOf(actions') = {}
      BY <2>3, <3>1 DEF FieldsOf
    <3>4. Leased' = Leased \ fs /\ fs \subseteq Leased
      BY <2>1, <3>2, <3>3
    <3>5. \A f \in fs : Value[f] = [g \in Fields \ UpOnly |-> UserLevels[g]][f]
      BY <3>1, <3>2 DEF At
    <3>6. Lease!Release(fs)
      BY <3>3, <3>4, <3>5 DEF Lease!Release
    <3>7. QED
      BY <3>2, <3>6 DEF Lease!Next
  <2>7. CASE actions' = actions /\ pc = "apply" /\ value' # value
    <3>1. \A f \in Paths : Shown(f)' # Shown(f) =>
            f \in FieldsOf(actions) /\ Shown(f)' > Shown(f)
      BY <1>2, <2>7, ValueKinds, RaiseFacts
    <3>2. \A f \in Fields \ UpOnly : Value'[f] # Value[f] => f \in Leased /\ Value'[f] > Value[f]
      BY <2>4, <3>1 DEF Paths
    <3>3. Leased' = Leased
      BY <2>1, <2>7
    <3>4. Lease!Raise
      BY <3>2, <3>3 DEF Lease!Raise
    <3>5. QED
      BY <3>4 DEF Lease!Next
  <2>8. CASE actions' = actions /\ (pc # "apply" \/ value' = value)
    <3>1. \A f \in Paths : Shown(f)' # Shown(f) =>
            f \in FieldsOf(actions) /\ Shown(f)' = UserLevels[f]
      BY <1>2, <2>8, RestoreFacts
    <3>2. \A f \in Fields \ UpOnly : Value'[f] # Value[f] =>
            f \in Leased /\ Value'[f] = [g \in Fields \ UpOnly |-> UserLevels[g]][f]
      BY <2>4, <3>1 DEF Paths
    <3>3. Leased' = Leased
      BY <2>1, <2>8
    <3>4. Lease!Restore
      BY <3>2, <3>3 DEF Lease!Restore
    <3>5. QED
      BY <3>4 DEF Lease!Next
  <2>9. QED
    BY <2>5, <2>6, <2>7, <2>8
<1>3. Spec => []PlanInv
  BY LendAlways
<1>4. QED
  BY <1>1, <1>2, <1>3, PTL DEF Spec, ImplementsLease, Lease!Spec
=============================================================================
