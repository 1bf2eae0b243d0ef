----------------------------- MODULE Mounts_proofs -----------------------------
(* Nothing that is mounted is hidden by a later mount: for every plan, every    *)
(* order of failures and any number of boots, when the plan is orderly.        *)
EXTENDS Mounts, FiniteSetTheorems, WellFoundedInduction, TLAPS

\* What is mounted later is neither at nor above what was mounted before.
InOrder == \A i, j \in 1 .. Len(mounts) : i < j => mounts[j].at \notin Upto(mounts[i].at)

\* Stage 1: what is below the new root comes after all that is above it.
Stage1Order ==
  /\ Sortable(Stage1) /\ todo \subseteq Stage1
  /\ \A i \in 1 .. Len(mounts) : mounts[i].at \in Stage1 \ todo /\ ~Outside(mounts[i].at)
  /\ \A p \in Stage1 \ todo : \A q \in Above[p] \cap todo : ~Outside(p) => Outside(q)

\* Stage 2: the same; what stage 1 has mounted may still have to be passed over.
Stage2Order ==
  /\ todo \subseteq Stage2
  /\ \A i \in 1 .. Len(mounts) : /\ mounts[i].at \in Stage2
                                 /\ plan[mounts[i].at].stage1 \/ mounts[i].at \notin todo
  /\ \A p \in Stage2 \ todo : Above[p] \cap todo = {}

\* The inductive invariant.
IInv ==
  /\ plan \in Plans /\ Orderly
  /\ \E S : mounts \in Seq(S)
  /\ InOrder
  /\ pc = "off" => mounts = <<>>
  /\ pc = "stage1" => Stage1Order
  /\ pc = "stage2" => Stage2Order

\* Where nothing later hides a mount, its own mount point leads to it.
LEMMA CoverIs ==
  ASSUME NEW S, mounts \in Seq(S), InOrder, NEW i \in 1 .. Len(mounts)
  PROVE  Cover(mounts[i].at) = i
<1> DEFINE p == mounts[i].at
           Last(k) == /\ k # 0 => mounts[k].at \in Upto(p)
                      /\ \A j \in k + 1 .. Len(mounts) : mounts[j].at \notin Upto(p)
<1>1. i \in 0 .. Len(mounts) /\ Last(i)
  BY DEF InOrder, Upto
<1>2. ASSUME NEW k \in 0 .. Len(mounts), Last(k) PROVE k = i
  <2>1. ~(k < i)
    BY <1>2 DEF Upto
  <2>2. ~(i < k)
    BY <1>2 DEF InOrder
  <2> QED
    BY <2>1, <2>2
<1> HIDE DEF Last
<1>3. (CHOOSE k \in 0 .. Len(mounts) : Last(k)) = i
  BY <1>1, <1>2
<1> QED
  BY <1>3 DEF Cover, Last

LEMMA InvShadow == IInv => NothingShadowed
  BY CoverIs DEF IInv, NothingShadowed

\* One more mount comes after the others.
LEMMA Added ==
  ASSUME NEW S, mounts \in Seq(S), NEW m, mounts' = Append(mounts, m)
  PROVE  /\ \E T : mounts' \in Seq(T)
         /\ Len(mounts') = Len(mounts) + 1
         /\ \A i \in 1 .. Len(mounts) : mounts'[i] = mounts[i]
         /\ mounts'[Len(mounts) + 1] = m
<1>1. mounts \in Seq(S \cup {m})
  OBVIOUS
<1> QED
  BY <1>1

\* An entry of a plan has the fields of an entry.
LEMMA EntryShape ==
  ASSUME plan \in Plans, NEW p \in Entries
  PROVE  /\ p \in Paths /\ plan[p] \in Entry /\ Outside(p) \in BOOLEAN
         /\ Above[p] \subseteq Paths /\ Depth[p] \in Nat
         /\ \A q \in Above[p] : Depth[q] \in Nat /\ Depth[q] < Depth[p] /\ q # p
<1>1. p \in Paths /\ plan[p] \in Entry
  BY PlanAssumption DEF Entries
<1>2. Outside(p) \in BOOLEAN
  BY <1>1 DEF Entry, Outside
<1>3. Above[p] \subseteq Paths /\ Depth[p] \in Nat /\ \A q \in Above[p] : Depth[q] \in Nat
  BY <1>1, PathAssumption
<1>4. \A q \in Above[p] : Depth[q] < Depth[p]
  BY <1>1, PathAssumption
<1> QED
  BY <1>1, <1>2, <1>3, <1>4

\* When an entry below the new root comes next in stage 1, what is still to come is
\* not above it: the scaffolding is done, and what is above would come first.
LEMMA NextOfStage1 ==
  ASSUME plan \in Plans, Orderly, pc = "stage1", Stage1Order,
         NEW p \in Paths, Turn(p), ~Outside(p)
  PROVE  Above[p] \cap todo = {}
<1> DEFINE O == {x \in todo : Outside(x)}
<1>1. p \in todo /\ todo \subseteq Entries
  BY DEF Turn, Ready, Stage1Order, Stage1
<1>2. O = {}
  <2> SUFFICES ASSUME O # {} PROVE FALSE
    OBVIOUS
  <2>1. O \in SUBSET Stage1
    BY DEF Stage1Order
  <2>2. PICK r \in O : plan[r].requires \cap O = {}
    <3> HIDE DEF O
    <3> QED
      BY <2>1 DEF Stage1Order, Sortable
  <2>3. r \in Entries /\ r \in todo /\ Outside(r)
    BY <1>1
  <2>4. plan[r].requires \cap todo = {}
    BY <2>2, <2>3 DEF Orderly
  <2>5. Ready(r) /\ r # p
    BY <2>3, <2>4 DEF Ready, Requires
  <2>6. Before(p, r)
    BY <2>3, <2>5 DEF Turn
  <2> QED
    BY <2>3, <2>6 DEF Before
<1>3. ASSUME NEW q \in Above[p] \cap todo PROVE FALSE
  <2>1. q \in Entries /\ ~Outside(q)
    BY <1>1, <1>2
  <2>2. plan[q].requires \cap todo = {}
    BY <1>2, <2>1 DEF Orderly
  <2>3. Ready(q)
    BY <2>2 DEF Ready, Requires
  <2>4. q # p /\ Depth[q] < Depth[p] /\ Depth[q] \in Nat /\ Depth[p] \in Nat
    BY <1>1, EntryShape
  <2>5. Before(p, q)
    BY <2>3, <2>4 DEF Turn
  <2> QED
    BY <2>1, <2>4, <2>5 DEF Before
<1> QED
  BY <1>3

\* The same in stage 2, which has no requirements.
LEMMA NextOfStage2 ==
  ASSUME plan \in Plans, pc = "stage2", Stage2Order, NEW p \in Paths, Turn(p)
  PROVE  Above[p] \cap todo = {}
<1>1. p \in todo /\ todo \subseteq Entries /\ \A x \in todo : ~Outside(x)
  BY DEF Turn, Ready, Stage2Order, Stage2
<1>2. ASSUME NEW q \in Above[p] \cap todo PROVE FALSE
  <2>1. Ready(q)
    BY <1>2 DEF Ready, Requires
  <2>2. q # p /\ Depth[q] < Depth[p] /\ Depth[q] \in Nat /\ Depth[p] \in Nat
    BY <1>1, EntryShape
  <2>3. Before(p, q)
    BY <2>1, <2>2 DEF Turn
  <2> QED
    BY <1>1, <2>2, <2>3 DEF Before
<1> QED
  BY <1>2

\* What is mounted after a step was mounted before or is entry p.
MountsPlus(p) == \A i \in 1 .. Len(mounts') :
                   \/ mounts'[i].at = p /\ ~Outside(p)
                   \/ \E k \in 1 .. Len(mounts) : mounts'[i].at = mounts[k].at

\* An entry that is dealt with keeps the order of its stage, whatever became of it.
LEMMA Dealt1 ==
  ASSUME plan \in Plans, Orderly, pc = "stage1", Stage1Order,
         NEW p \in Paths, Turn(p), Applied(p), plan' = plan, MountsPlus(p)
  PROVE  Stage1Order'
<1>1. p \in todo /\ todo' = todo \ {p} /\ Stage1' = Stage1
  BY DEF Turn, Ready, Applied, Stage1, Entries
<1>2. Sortable(Stage1)'
  BY <1>1 DEF Stage1Order, Sortable
<1>3. todo' \subseteq Stage1'
  BY <1>1 DEF Stage1Order
<1>4. ASSUME NEW i \in 1 .. Len(mounts')
      PROVE  mounts'[i].at \in Stage1' \ todo' /\ ~plan'[mounts'[i].at].outside
  <2>1. CASE mounts'[i].at = p /\ ~Outside(p)
    BY <1>1, <2>1 DEF Stage1Order, Outside
  <2>2. ASSUME NEW k \in 1 .. Len(mounts), mounts'[i].at = mounts[k].at
        PROVE  mounts'[i].at \in Stage1' \ todo' /\ ~plan'[mounts'[i].at].outside
    BY <1>1, <2>2 DEF Stage1Order, Outside
  <2> QED
    BY <2>1, <2>2 DEF MountsPlus
<1>5. ASSUME NEW x \in Stage1 \ todo', NEW q \in Above[x] \cap todo', ~Outside(x)
      PROVE  Outside(q)
  <2>1. CASE x = p
    BY <1>1, <1>5, <2>1, NextOfStage1
  <2>2. CASE x # p
    BY <1>1, <1>5, <2>2 DEF Stage1Order
  <2> QED
    BY <2>1, <2>2
<1>6. \A x \in Stage1' \ todo' : \A q \in Above[x] \cap todo' :
        ~plan'[x].outside => plan'[q].outside
  BY <1>1, <1>5 DEF Outside
<1> QED
  BY <1>2, <1>3, <1>4, <1>6 DEF Stage1Order, Outside

LEMMA Dealt2 ==
  ASSUME plan \in Plans, pc = "stage2", Stage2Order,
         NEW p \in Paths, Turn(p), Applied(p), plan' = plan, MountsPlus(p)
  PROVE  Stage2Order'
<1>1. p \in todo /\ todo' = todo \ {p} /\ Stage2' = Stage2 /\ p \in Stage2
  BY DEF Turn, Ready, Applied, Stage2, Entries, Outside, Stage2Order
<1>2. todo' \subseteq Stage2'
  BY <1>1 DEF Stage2Order
<1>3. ASSUME NEW i \in 1 .. Len(mounts')
      PROVE  /\ mounts'[i].at \in Stage2'
             /\ plan'[mounts'[i].at].stage1 \/ mounts'[i].at \notin todo'
  <2>1. CASE mounts'[i].at = p
    BY <1>1, <2>1
  <2>2. ASSUME NEW k \in 1 .. Len(mounts), mounts'[i].at = mounts[k].at
        PROVE  /\ mounts'[i].at \in Stage2'
               /\ plan'[mounts'[i].at].stage1 \/ mounts'[i].at \notin todo'
    BY <1>1, <2>2 DEF Stage2Order
  <2> QED
    BY <2>1, <2>2 DEF MountsPlus
<1>4. \A x \in Stage2 \ todo' : Above[x] \cap todo' = {}
  BY <1>1, NextOfStage2 DEF Stage2Order
<1> QED
  BY <1>1, <1>2, <1>3, <1>4 DEF Stage2Order

\* What comes next hides nothing that is there.
LEMMA NextHidesNothing ==
  ASSUME IInv, NEW p \in Paths, Turn(p), ~Outside(p), pc = "stage2" => ~plan[p].stage1,
         NEW i \in 1 .. Len(mounts)
  PROVE  p \notin Upto(mounts[i].at)
<1> DEFINE m == mounts[i].at
<1>1. p \in todo /\ pc \in {"stage1", "stage2"}
  BY DEF Turn, Ready
<1>2. CASE pc = "stage1"
  <2>1. m \in Stage1 \ todo /\ ~Outside(m)
    BY <1>2 DEF IInv, Stage1Order
  <2>2. p \notin Above[m]
    BY <1>1, <1>2, <2>1 DEF IInv, Stage1Order
  <2> QED
    BY <1>1, <2>1, <2>2 DEF Upto
<1>3. CASE pc = "stage2"
  <2>1. p \in Stage2 /\ ~plan[p].stage1 /\ m \in Stage2
    BY <1>1, <1>3 DEF IInv, Stage2Order
  <2>2. plan[m].stage1 \/ m \notin todo
    BY <1>3 DEF IInv, Stage2Order
  <2>3. p # m
    BY <1>1, <2>1, <2>2
  <2>4. CASE m \notin todo
    BY <1>1, <1>3, <2>1, <2>3, <2>4 DEF IInv, Stage2Order, Upto
  <2>5. CASE plan[m].stage1
    <3>1. m \in Stage1 \cup Api /\ ~Outside(m)
      BY <2>1, <2>5 DEF Stage1, Stage2
    <3>2. Above[m] \cap Stage2 \subseteq Stage1
      BY <3>1 DEF IInv, Orderly
    <3> QED
      BY <2>1, <2>3, <3>2 DEF Upto, Stage1
  <2> QED
    BY <2>2, <2>4, <2>5
<1> QED
  BY <1>1, <1>2, <1>3

LEMMA AddedInOrder ==
  ASSUME IInv, NEW p \in Paths, Turn(p), ~Outside(p), pc = "stage2" => ~plan[p].stage1,
         NEW m, m.at = p, mounts' = Append(mounts, m)
  PROVE  (\E S : mounts' \in Seq(S)) /\ InOrder' /\ MountsPlus(p)
<1>1. PICK S : mounts \in Seq(S)
  BY DEF IInv
<1>2. /\ \E T : mounts' \in Seq(T)
      /\ Len(mounts') = Len(mounts) + 1 /\ Len(mounts) \in Nat
      /\ \A i \in 1 .. Len(mounts) : mounts'[i] = mounts[i]
      /\ mounts'[Len(mounts) + 1] = m
  BY <1>1, Added
<1>3. ASSUME NEW i \in 1 .. Len(mounts'), NEW j \in 1 .. Len(mounts'), i < j
      PROVE  mounts'[j].at \notin Upto(mounts'[i].at)
  <2>1. CASE j = Len(mounts) + 1
    BY <1>2, <1>3, <2>1, NextHidesNothing
  <2>2. CASE j # Len(mounts) + 1
    BY <1>2, <1>3, <2>2 DEF IInv, InOrder
  <2> QED
    BY <2>1, <2>2
<1>4. InOrder'
  BY <1>3 DEF InOrder, Upto
<1>5. MountsPlus(p)
  BY <1>2 DEF MountsPlus
<1> QED
  BY <1>2, <1>4, <1>5

\* What is moved into the new root hides nothing either: it does not lie above what
\* stage 1 has mounted.
LEMMA InvSwitch == IInv /\ SwitchRoot => IInv'
<1> SUFFICES ASSUME IInv, SwitchRoot PROVE IInv'
  OBVIOUS
<1> DEFINE n == Len(mounts)
           c == Cardinality(Api)
<1>1. PICK S : mounts \in Seq(S)
  BY DEF IInv
<1>2. n \in Nat /\ c \in Nat
  BY <1>1, FS_CardinalityType, ApiAssumption
<1>3. PICK moved \in [1 .. c -> Api] :
        /\ \A i, j \in DOMAIN moved : i < j => Rank[moved[i]] < Rank[moved[j]]
        /\ mounts' = mounts \o [i \in DOMAIN moved |->
                                 [at |-> moved[i], fs |-> moved[i], source |-> 0]]
  BY DEF SwitchRoot
<1> DEFINE apis == [i \in 1 .. c |-> [at |-> moved[i], fs |-> moved[i], source |-> 0]]
           T == [at : Api, fs : Api, source : {0}]
<1>4. apis \in Seq(T) /\ Len(apis) = c
  <2>1. \A i \in 1 .. c : [at |-> moved[i], fs |-> moved[i], source |-> 0] \in T
    BY <1>3
  <2>2. apis \in [1 .. c -> T]
    BY <2>1
  <2> HIDE DEF apis, T
  <2> QED
    BY <1>2, <2>2
<1>5. mounts' = mounts \o apis
  BY <1>3
<1>6. \A i \in 1 .. c : apis[i].at = moved[i] /\ moved[i] \in Api
  BY <1>3
<1>7. /\ mounts' \in Seq(S \cup T)
      /\ Len(mounts') = n + c
      /\ \A i \in 1 .. n : mounts'[i] = mounts[i]
      /\ \A i \in 1 .. c : mounts'[n + i] = apis[i]
  <2> HIDE DEF apis, T
  <2>1. mounts \in Seq(S \cup T) /\ apis \in Seq(S \cup T)
    BY <1>1, <1>4
  <2> QED
    BY <2>1, <1>4, <1>5
<1> HIDE DEF apis, T
<1>8. /\ pc = "stage1" /\ pc' = "stage2" /\ todo = {} /\ todo' = Stage2 /\ plan' = plan
      /\ Stage2' = Stage2 /\ plan \in Plans /\ Orderly /\ Stage1Order /\ InOrder
  BY DEF SwitchRoot, IInv, Stage2, Entries, Outside
<1>9. \A i \in 1 .. n : mounts[i].at \in Stage1 /\ ~Outside(mounts[i].at)
  BY <1>8 DEF Stage1Order
<1>10. \A p \in Api : p \in Paths /\ p \in Stage2 /\ plan[p].stage1 /\ p \notin Stage1
  BY <1>8, PathAssumption, PlanAssumption DEF Stage1, Stage2, Entries, Outside
<1>11. \A i \in 1 .. n + c : \/ i \in 1 .. n /\ mounts'[i] = mounts[i]
                            \/ \E k \in 1 .. c : i = n + k /\ mounts'[i].at = moved[k]
  <2> SUFFICES ASSUME NEW i \in 1 .. n + c, i \notin 1 .. n
               PROVE  \E k \in 1 .. c : i = n + k /\ mounts'[i].at = moved[k]
    BY <1>7
  <2>1. i - n \in 1 .. c /\ i = n + (i - n)
    BY <1>2
  <2> QED
    BY <2>1, <1>6, <1>7
<1>12. ASSUME NEW i \in 1 .. n + c, NEW j \in 1 .. n + c, i < j
       PROVE  mounts'[j].at \notin Upto(mounts'[i].at)
  <2>1. CASE j \in 1 .. n
    <3>1. i \in 1 .. n /\ mounts'[i] = mounts[i] /\ mounts'[j] = mounts[j]
      BY <1>2, <1>7, <1>12, <2>1
    <3> QED
      BY <1>8, <1>12, <2>1, <3>1 DEF InOrder
  <2>2. ASSUME NEW k \in 1 .. c, j = n + k, mounts'[j].at = moved[k], i \in 1 .. n
        PROVE  mounts'[j].at \notin Upto(mounts'[i].at)
    <3> DEFINE m == mounts[i].at
    <3>1. m \in Stage1 /\ ~Outside(m) /\ moved[k] \in Api /\ mounts'[i].at = m
      BY <1>6, <1>7, <1>9, <2>2
    <3>2. Above[m] \cap Stage2 \subseteq Stage1
      BY <1>8, <3>1 DEF Orderly
    <3> QED
      BY <1>10, <2>2, <3>1, <3>2 DEF Upto
  <2>3. ASSUME NEW k \in 1 .. c, j = n + k, mounts'[j].at = moved[k],
               NEW l \in 1 .. c, i = n + l, mounts'[i].at = moved[l]
        PROVE  mounts'[j].at \notin Upto(mounts'[i].at)
    <3>1. l < k
      BY <1>2, <1>12, <2>3
    <3>2. Rank[moved[l]] < Rank[moved[k]] /\ moved[l] \in Api /\ moved[k] \in Api
      BY <1>3, <3>1
    <3>3. moved[k] # moved[l]
      BY <3>2, <1>10, PathAssumption
    <3>4. moved[k] \notin Above[moved[l]]
      BY <3>2, ApiAssumption
    <3> QED
      BY <2>3, <3>3, <3>4 DEF Upto
  <2> QED
    BY <1>11, <2>1, <2>2, <2>3
<1>13. InOrder'
  BY <1>7, <1>12 DEF InOrder, Upto
<1>14. ASSUME NEW i \in 1 .. n + c
       PROVE  mounts'[i].at \in Stage2 /\ plan[mounts'[i].at].stage1
  <2>1. CASE i \in 1 .. n /\ mounts'[i] = mounts[i]
    BY <1>9, <2>1 DEF Stage1, Stage2
  <2>2. ASSUME NEW k \in 1 .. c, i = n + k, mounts'[i].at = moved[k]
        PROVE  mounts'[i].at \in Stage2 /\ plan[mounts'[i].at].stage1
    BY <1>6, <1>10, <2>2
  <2> QED
    BY <1>11, <2>1, <2>2
<1>15. Stage2Order'
  BY <1>7, <1>8, <1>14 DEF Stage2Order
<1>16. Orderly'
  BY <1>8 DEF Orderly, Stage1, Stage2, Entries, Outside
<1> QED
  BY <1>7, <1>8, <1>13, <1>15, <1>16 DEF IInv

\* What does not touch the mounts and ends the stage keeps the invariant.
LEMMA InvQuiet ==
  ASSUME IInv, plan' = plan, mounts' = mounts, pc' \in {"rescue", "panic", "up"}
  PROVE  IInv'
<1>1. Orderly'
  BY DEF IInv, Orderly, Stage1, Stage2, Entries, Outside
<1>2. InOrder'
  BY DEF IInv, InOrder, Upto
<1> QED
  BY <1>1, <1>2 DEF IInv

\* Every step of an entry keeps the invariant.
LEMMA InvEntry ==
  ASSUME IInv, NEW p \in Paths, EntryStep(p)
  PROVE  IInv'
<1>1. Turn(p) /\ Applied(p) /\ plan' = plan /\ pc \in {"stage1", "stage2"}
  BY DEF EntryStep, MountFails, MountScaffold, MountFs, MountBind, SkipMounted, Turn, Ready
<1>2. Orderly'
  BY <1>1 DEF IInv, Orderly, Stage1, Stage2, Entries, Outside
<1>3. ASSUME pc' = pc, \E S : mounts' \in Seq(S), InOrder', MountsPlus(p) PROVE IInv'
  <2>1. CASE pc = "stage1"
    <3>1. Stage1Order'
      BY <1>1, <1>3, <2>1, Dealt1 DEF IInv
    <3> QED
      BY <1>1, <1>2, <1>3, <2>1, <3>1 DEF IInv
  <2>2. CASE pc = "stage2"
    <3>1. Stage2Order'
      BY <1>1, <1>3, <2>2, Dealt2 DEF IInv
    <3> QED
      BY <1>1, <1>2, <1>3, <2>2, <3>1 DEF IInv
  <2> QED
    BY <1>1, <2>1, <2>2
<1>4. ASSUME pc' = pc, mounts' = mounts PROVE IInv'
  <2>1. \E S : mounts' \in Seq(S)
    BY <1>4 DEF IInv
  <2>2. InOrder'
    BY <1>4 DEF IInv, InOrder, Upto
  <2>3. MountsPlus(p)
    BY <1>4 DEF MountsPlus
  <2> QED
    BY <1>3, <1>4, <2>1, <2>2, <2>3
<1>5. ASSUME NEW m, pc' = pc, m.at = p, mounts' = Append(mounts, m), ~Outside(p),
             pc = "stage2" => ~plan[p].stage1
      PROVE  IInv'
  BY <1>1, <1>3, <1>5, AddedInOrder
<1>6. CASE MountFails(p)
  <2>1. mounts' = mounts /\ pc' \in {pc, "rescue", "panic"}
    BY <1>6 DEF MountFails
  <2> QED
    BY <1>1, <1>4, <2>1, InvQuiet
<1>7. CASE MountScaffold(p)
  BY <1>4, <1>7 DEF MountScaffold
<1>8. CASE MountFs(p)
  BY <1>5, <1>8 DEF MountFs, Mount
<1>9. CASE MountBind(p)
  BY <1>5, <1>9 DEF MountBind, Mount
<1>10. CASE SkipMounted(p)
  BY <1>4, <1>10 DEF SkipMounted
<1> QED
  BY <1>6, <1>7, <1>8, <1>9, <1>10 DEF EntryStep

LEMMA PlanStays == [Next]_vars => plan' = plan /\ Orderly' = Orderly
<1> SUFFICES ASSUME [Next]_vars PROVE plan' = plan
  BY DEF Orderly, Stage1, Stage2, Entries, Outside
<1> QED
  BY DEF Next, BootStep, EntryStep, Boot, MountFails, MountScaffold, MountFs, MountBind,
         SkipMounted, SwitchRoot, NoRoot, Up, Write, Off, vars

LEMMA InvInit == Init => (Orderly => IInv)
<1> SUFFICES ASSUME Init, Orderly PROVE IInv
  OBVIOUS
<1>1. plan \in Plans /\ mounts = <<>> /\ pc = "off"
  BY DEF Init
<1>2. mounts \in Seq({})
  BY <1>1
<1> QED
  BY <1>1, <1>2 DEF IInv, InOrder

\* Every step of a machine keeps the invariant.
LEMMA InvNext == IInv /\ [Next]_vars => IInv'
<1> SUFFICES ASSUME IInv, [Next]_vars PROVE IInv'
  OBVIOUS
<1>1. plan' = plan /\ Orderly'
  BY PlanStays DEF IInv
<1>2. ASSUME mounts' = mounts PROVE InOrder' /\ \E S : mounts' \in Seq(S)
  BY <1>2 DEF IInv, InOrder, Upto
<1>3. CASE Boot
  <2>1. /\ mounts' = mounts /\ mounts = <<>> /\ todo' = Stage1 /\ Stage1' = Stage1
        /\ pc' \in {"stage1", "rescue"} /\ (pc' = "stage1" => Sortable(Stage1))
    BY <1>1, <1>3 DEF Boot, IInv, Stage1, Entries
  <2>2. pc' = "stage1" => Sortable(Stage1)'
    BY <1>1, <2>1 DEF Sortable
  <2>3. pc' = "stage1" => Stage1Order'
    BY <2>1, <2>2 DEF Stage1Order
  <2> QED
    BY <1>1, <1>2, <2>1, <2>3 DEF IInv
<1>4. CASE NoRoot \/ Up
  BY <1>4, InvQuiet DEF NoRoot, Up
<1>5. CASE Off
  <2>1. mounts' = <<>> /\ pc' = "off"
    BY <1>5 DEF Off
  <2>2. mounts' \in Seq({})
    BY <2>1
  <2> QED
    BY <1>1, <2>1, <2>2 DEF IInv, InOrder
<1>6. ASSUME NEW d \in Paths, Write(d) PROVE IInv'
  BY <1>1, <1>2, <1>6 DEF Write, IInv
<1>7. CASE UNCHANGED vars
  <2>1. pc' = pc /\ mounts' = mounts /\ todo' = todo /\ plan' = plan
    BY <1>7 DEF vars
  <2>2. (Stage1Order => Stage1Order') /\ (Stage2Order => Stage2Order')
    BY <2>1 DEF Stage1Order, Stage2Order, Stage1, Stage2, Entries, Outside, Sortable
  <2> QED
    BY <1>1, <1>2, <2>1, <2>2 DEF IInv
<1> QED
  BY <1>3, <1>4, <1>5, <1>6, <1>7, InvSwitch, InvEntry DEF Next, BootStep

\* With an orderly plan the mounts of a machine are in order at every moment.
THEOREM MountsInvariant == Spec => [](Orderly => IInv)
<1>1. (Orderly => IInv) /\ [Next]_vars => (Orderly => IInv)'
  BY PlanStays, InvNext
<1> QED
  BY <1>1, InvInit, PTL DEF Spec

\* Whatever was mounted is found at its mount point, in both stages, for every
\* orderly plan and whatever fails in whatever boot. Of a plan that is not orderly (an
\* entry that requires one below the root, plan.rs:96; a mount of stage 2 above one of
\* stage 1, default.nix:102) nothing is said: there the code does hide mounts.
THEOREM MountsStayVisible == Spec => []NothingShadowed
<1>1. (Orderly => IInv) => NothingShadowed
  BY InvShadow DEF NothingShadowed
<1> QED
  BY <1>1, MountsInvariant, PTL
-----------------------------------------------------------------------------
(* Types.                                                                   *)

\* The last of the mounts ms that lies in T, and 0 if none does.
LastIn(ms, T) == CHOOSE i \in 0 .. Len(ms) :
                   /\ i # 0 => ms[i].at \in T
                   /\ \A j \in i + 1 .. Len(ms) : ms[j].at \notin T

\* A set of numbers that is not empty has a least element.
LEMMA Least ==
  ASSUME NEW T \in SUBSET Nat, T # {}
  PROVE  \E m \in T : \A k \in T : m <= k
<1> DEFINE R == {p \in Nat \X Nat : p[1] < p[2]}
<1>1. IsWellFoundedOn(R, Nat)
  BY NatLessThanWellFounded DEF OpToRel
<1>2. PICK m \in T : \A k \in T : ~ (<<k, m>> \in R)
  BY <1>1, WFMin
<1>3. ASSUME NEW k \in T PROVE m <= k
  <2>1. m \in Nat /\ k \in Nat /\ ~ (<<k, m>> \in R)
    BY <1>2
  <2> QED
    BY <2>1
<1> QED
  BY <1>3

\* There is such a mount, or 0, ...
LEMMA LastExists ==
  ASSUME NEW S, NEW ms \in Seq(S), NEW T
  PROVE  /\ LastIn(ms, T) \in 0 .. Len(ms)
         /\ LastIn(ms, T) # 0 => ms[LastIn(ms, T)].at \in T
         /\ \A j \in LastIn(ms, T) + 1 .. Len(ms) : ms[j].at \notin T
<1> DEFINE P(i) == /\ i # 0 => ms[i].at \in T
                   /\ \A j \in i + 1 .. Len(ms) : ms[j].at \notin T
           N == {k \in 0 .. Len(ms) : \A j \in k + 1 .. Len(ms) : ms[j].at \notin T}
<1>1. N \in SUBSET Nat /\ Len(ms) \in N
  OBVIOUS
<1>2. PICK k \in N : \A l \in N : k <= l
  <2> HIDE DEF N
  <2> QED
    BY <1>1, Least
<1>3. P(k)
  <2> SUFFICES ASSUME k # 0, ms[k].at \notin T PROVE FALSE
    BY <1>2
  <2>1. k - 1 \in 0 .. Len(ms) /\ ~(k <= k - 1)
    BY <1>2
  <2>2. \A j \in (k - 1) + 1 .. Len(ms) : j = k \/ j \in k + 1 .. Len(ms)
    BY <2>1
  <2>3. k - 1 \in N
    BY <1>2, <2>1, <2>2
  <2> QED
    BY <1>2, <2>1, <2>3
<1>4. k \in 0 .. Len(ms)
  BY <1>2
<1> HIDE DEF P, N
<1>5. P(CHOOSE i \in 0 .. Len(ms) : P(i)) /\ (CHOOSE i \in 0 .. Len(ms) : P(i)) \in 0 .. Len(ms)
  BY <1>3, <1>4
<1> QED
  BY <1>5 DEF P, LastIn

\* ... and only one.
LEMMA LastUnique ==
  ASSUME NEW S, NEW ms \in Seq(S), NEW T, NEW i \in 0 .. Len(ms), i # 0 => ms[i].at \in T,
         \A j \in i + 1 .. Len(ms) : ms[j].at \notin T
  PROVE  LastIn(ms, T) = i
<1> DEFINE l == LastIn(ms, T)
<1>1. /\ l \in 0 .. Len(ms) /\ (l # 0 => ms[l].at \in T)
      /\ \A j \in l + 1 .. Len(ms) : ms[j].at \notin T
  BY LastExists
<1> HIDE DEF l
<1>2. ~(l < i)
  BY <1>1
<1>3. ~(i < l)
  BY <1>1
<1> QED
  BY <1>1, <1>2, <1>3 DEF l

\* One more mount elsewhere changes nothing.
LEMMA LastStays ==
  ASSUME NEW S, NEW ms \in Seq(S), NEW m \in S, NEW T, m.at \notin T
  PROVE  LastIn(Append(ms, m), T) = LastIn(ms, T)
<1> DEFINE l == LastIn(ms, T)
           ns == Append(ms, m)
<1>1. /\ l \in 0 .. Len(ms) /\ (l # 0 => ms[l].at \in T)
      /\ \A j \in l + 1 .. Len(ms) : ms[j].at \notin T
  BY LastExists
<1>2. /\ ns \in Seq(S) /\ Len(ns) = Len(ms) + 1 /\ ns[Len(ms) + 1] = m
      /\ \A j \in 1 .. Len(ms) : ns[j] = ms[j]
  OBVIOUS
<1> HIDE DEF l, ns
<1>3. l \in 0 .. Len(ns) /\ (l # 0 => ns[l].at \in T)
  BY <1>1, <1>2
<1>4. \A j \in l + 1 .. Len(ns) : ns[j].at \notin T
  BY <1>1, <1>2
<1>5. LastIn(ns, T) = l
  BY <1>2, <1>3, <1>4, LastUnique
<1> QED
  BY <1>5 DEF l, ns

LEMMA CoverIsLast == \A p : Cover(p) = LastIn(mounts, Upto(p))
  BY DEF Cover, LastIn

\* Types, and where the entries of the present plan come from.
TInv ==
  /\ TypeOK /\ todo \subseteq Entries
  /\ pc = "stage1" => todo \subseteq Stage1 /\ Sortable(Stage1)
  /\ pc = "stage2" => todo \subseteq Stage2

\* What stage 1 moves into the new root.
Moves == [at : Api, fs : Api, source : {0}]

\* The move leaves the mounts as they are and adds the API file systems.
LEMMA SwitchAdds ==
  ASSUME NEW S, mounts \in Seq(S), SwitchRoot
  PROVE  /\ mounts' \in Seq(S \cup Moves)
         /\ Len(mounts) \in Nat /\ Len(mounts') \in Nat /\ Len(mounts) <= Len(mounts')
         /\ \A i \in 1 .. Len(mounts) : mounts'[i] = mounts[i]
         /\ \A i \in 1 .. Len(mounts') : i \in 1 .. Len(mounts) \/ mounts'[i] \in Moves
<1> DEFINE n == Len(mounts)
           c == Cardinality(Api)
<1>1. n \in Nat /\ c \in Nat
  BY FS_CardinalityType, ApiAssumption
<1>2. PICK moved \in [1 .. c -> Api] :
        mounts' = mounts \o [i \in DOMAIN moved |-> [at |-> moved[i], fs |-> moved[i], source |-> 0]]
  BY DEF SwitchRoot
<1> DEFINE apis == [i \in 1 .. c |-> [at |-> moved[i], fs |-> moved[i], source |-> 0]]
<1>3. apis \in Seq(Moves) /\ Len(apis) = c /\ mounts' = mounts \o apis
  <2>1. \A i \in 1 .. c : [at |-> moved[i], fs |-> moved[i], source |-> 0] \in Moves
    BY <1>2 DEF Moves
  <2>2. apis \in [1 .. c -> Moves] /\ mounts' = mounts \o apis
    BY <1>2, <2>1
  <2> HIDE DEF apis
  <2> QED
    BY <1>1, <2>2
<1> HIDE DEF apis, c
<1>4. mounts \in Seq(S \cup Moves) /\ apis \in Seq(S \cup Moves)
  BY <1>3
<1>5. /\ mounts' \in Seq(S \cup Moves) /\ Len(mounts') = n + c
      /\ \A i \in 1 .. n : mounts'[i] = mounts[i]
      /\ \A i \in 1 .. c : mounts'[n + i] = apis[i] /\ apis[i] \in Moves
  BY <1>3, <1>4
<1>6. ASSUME NEW i \in 1 .. n + c, i \notin 1 .. n PROVE mounts'[i] \in Moves
  <2>1. i - n \in 1 .. c /\ i = n + (i - n)
    BY <1>1, <1>6
  <2> QED
    BY <1>5, <2>1
<1> QED
  BY <1>1, <1>5, <1>6

\* One more mount below the new root has its type like the others.
LEMMA TypedMount ==
  ASSUME TypeOK, plan' = plan, NEW m \in Mounted, mounts' = Append(mounts, m),
         m.at \in Entries, ~Outside(m.at)
  PROVE  /\ mounts' \in Seq(Mounted)
         /\ \A i \in 1 .. Len(mounts') : plan'[mounts'[i].at] # None /\ ~plan'[mounts'[i].at].outside
<1>1. /\ mounts' \in Seq(Mounted) /\ Len(mounts') = Len(mounts) + 1 /\ Len(mounts) \in Nat
      /\ mounts'[Len(mounts) + 1] = m
      /\ \A i \in 1 .. Len(mounts) : mounts'[i] = mounts[i]
  BY DEF TypeOK
<1>2. plan[m.at] # None /\ ~plan[m.at].outside
  BY DEF Entries, Outside
<1>3. \A i \in 1 .. Len(mounts) : plan[mounts[i].at] # None /\ ~plan[mounts[i].at].outside
  BY DEF TypeOK
<1>4. ASSUME NEW i \in 1 .. Len(mounts')
      PROVE  plan'[mounts'[i].at] # None /\ ~plan'[mounts'[i].at].outside
  <2>1. CASE i = Len(mounts) + 1
    BY <1>1, <1>2, <2>1
  <2>2. CASE i # Len(mounts) + 1
    <3>1. i \in 1 .. Len(mounts)
      BY <1>1, <2>2
    <3> QED
      BY <1>1, <1>3, <3>1
  <2> QED
    BY <2>1, <2>2
<1> QED
  BY <1>1, <1>4

\* What a path shows is an entry's file system, or nothing that was mounted.
LEMMA FsAtType == TypeOK => \A p : Cover(p) \in Nat /\ FsAt(p) \in Paths \cup {None}
<1> SUFFICES ASSUME TypeOK, NEW p PROVE Cover(p) \in Nat /\ FsAt(p) \in Paths \cup {None}
  OBVIOUS
<1>1. mounts \in Seq(Mounted)
  BY DEF TypeOK
<1>2. Cover(p) \in 0 .. Len(mounts)
  BY <1>1, CoverIsLast, LastExists
<1>3. Cover(p) # 0 => mounts[Cover(p)] \in Mounted
  BY <1>1, <1>2
<1> QED
  BY <1>1, <1>2, <1>3 DEF FsAt, Mounted

LEMMA TypeEntry ==
  ASSUME TInv, NEW p \in Paths, EntryStep(p)
  PROVE  TInv'
<1>1. /\ p \in todo /\ p \in Entries /\ todo' = todo \ {p} /\ plan' = plan /\ broken' = broken
      /\ pc \in {"stage1", "stage2"} /\ pc' \in {pc, "rescue", "panic"} /\ written' = written
  BY DEF EntryStep, MountFails, MountScaffold, MountFs, MountBind, SkipMounted, Turn, Ready,
         Applied, TInv
<1>2. Entries' = Entries /\ Stage1' = Stage1 /\ Stage2' = Stage2 /\ Sortable(Stage1)' = Sortable(Stage1)
  BY <1>1 DEF Entries, Stage1, Stage2, Outside, Sortable
<1>3. kept' \subseteq kept
  BY DEF EntryStep, MountFails, MountScaffold, MountFs, MountBind, SkipMounted, Reset
<1>4. \A q \in scaffold' : plan'[q] # None /\ plan'[q].outside
  <2>1. scaffold' = scaffold \/ (scaffold' = scaffold \cup {p} /\ Outside(p))
    BY DEF EntryStep, MountFails, MountScaffold, MountFs, MountBind, SkipMounted
  <2> QED
    BY <1>1, <2>1 DEF TInv, TypeOK, Entries, Outside
<1>5. /\ mounts' \in Seq(Mounted)
      /\ \A i \in 1 .. Len(mounts') : plan'[mounts'[i].at] # None /\ ~plan'[mounts'[i].at].outside
  <2>1. CASE mounts' = mounts
    BY <1>1, <2>1 DEF TInv, TypeOK
  <2>2. CASE MountFs(p)
    <3>1. [at |-> p, fs |-> p, source |-> 0] \in Mounted
      BY DEF Mounted
    <3> QED
      BY <1>1, <2>2, <3>1, TypedMount DEF MountFs, Mount, TInv
  <2>3. CASE MountBind(p)
    <3> DEFINE x == plan[p].from
    <3>1. Cover(x) \in Nat /\ FsAt(x) \in Paths \cup {None}
      BY FsAtType DEF TInv
    <3>2. [at |-> p, fs |-> FsAt(x), source |-> Cover(x)] \in Mounted
      BY <3>1 DEF Mounted
    <3> QED
      BY <1>1, <2>3, <3>2, TypedMount DEF MountBind, Mount, TInv
  <2> QED
    BY <2>1, <2>2, <2>3 DEF EntryStep, MountFails, MountScaffold, SkipMounted
<1>6. TypeOK'
  BY <1>1, <1>3, <1>4, <1>5 DEF TInv, TypeOK
<1> QED
  BY <1>1, <1>2, <1>6 DEF TInv

LEMMA TypeSwitch == TInv /\ SwitchRoot => TInv'
<1> SUFFICES ASSUME TInv, SwitchRoot PROVE TInv'
  OBVIOUS
<1>1. /\ pc' = "stage2" /\ todo' = Stage2 /\ plan' = plan /\ plan \in Plans
      /\ mounts \in Seq(Mounted)
      /\ UNCHANGED <<broken, scaffold, kept, written>>
  BY DEF SwitchRoot, TInv, TypeOK
<1>2. Stage2' = Stage2 /\ Stage2 \subseteq Entries /\ Entries' = Entries /\ Entries \subseteq Paths
  BY <1>1 DEF Stage2, Entries, Outside
<1>3. \A p \in Api : p \in Paths /\ plan[p] # None /\ ~plan[p].outside
  BY <1>1, PathAssumption, PlanAssumption
<1>4. Moves \subseteq Mounted
  BY <1>3 DEF Moves, Mounted
<1>5. Mounted \cup Moves = Mounted
  BY <1>4
<1>6. mounts' \in Seq(Mounted)
  BY <1>1, <1>5, SwitchAdds
<1>7. ASSUME NEW i \in 1 .. Len(mounts')
      PROVE  plan'[mounts'[i].at] # None /\ ~plan'[mounts'[i].at].outside
  <2>1. CASE i \in 1 .. Len(mounts)
    BY <1>1, <2>1, SwitchAdds DEF TInv, TypeOK
  <2>2. CASE mounts'[i] \in Moves
    BY <1>1, <1>3, <2>2 DEF Moves
  <2> QED
    BY <1>1, <2>1, <2>2, SwitchAdds
<1>8. TypeOK'
  BY <1>1, <1>2, <1>6, <1>7 DEF TInv, TypeOK
<1> QED
  BY <1>1, <1>2, <1>8 DEF TInv

LEMMA TypeInit == Init => TInv
<1> SUFFICES ASSUME Init PROVE TInv
  OBVIOUS
<1>1. mounts = <<>> /\ <<>> \in Seq(Mounted) /\ Len(<<>>) = 0
  BY DEF Init
<1> QED
  BY <1>1 DEF Init, TInv, TypeOK

LEMMA TypeNext == TInv /\ [Next]_vars => TInv'
<1> SUFFICES ASSUME TInv, [Next]_vars PROVE TInv'
  OBVIOUS
<1>1. plan' = plan
  BY PlanStays
<1>2. /\ Entries' = Entries /\ Stage1' = Stage1 /\ Stage2' = Stage2
      /\ Sortable(Stage1)' = Sortable(Stage1) /\ Stage1 \subseteq Entries /\ Entries \subseteq Paths
  BY <1>1 DEF Entries, Stage1, Stage2, Outside, Sortable
<1>3. CASE Boot
  BY <1>1, <1>2, <1>3 DEF Boot, TInv, TypeOK
<1>4. CASE NoRoot \/ Up
  BY <1>1, <1>2, <1>4 DEF NoRoot, Up, TInv, TypeOK
<1>5. CASE Off
  <2>1. mounts' = <<>> /\ <<>> \in Seq(Mounted) /\ Len(<<>>) = 0
    BY <1>5 DEF Off
  <2> QED
    BY <1>1, <1>2, <1>5, <2>1 DEF Off, TInv, TypeOK
<1>6. ASSUME NEW d \in Paths, Write(d) PROVE TInv'
  <2>1. <<d, FsAt(d)>> \in Paths \X (Paths \cup {None})
    BY FsAtType DEF TInv
  <2> QED
    BY <1>1, <1>2, <1>6, <2>1 DEF Write, TInv, TypeOK
<1>7. CASE UNCHANGED vars
  BY <1>1, <1>2, <1>7 DEF vars, TInv, TypeOK
<1> QED
  BY <1>3, <1>4, <1>5, <1>6, <1>7, TypeEntry, TypeSwitch DEF Next, BootStep

LEMMA TypeHolds == Spec => []TInv
  BY TypeInit, TypeNext, PTL DEF Spec

\* Every variable keeps its type, and scaffolding is only ever mounted in the initrd,
\* everything else below the new root, for all plans.
THEOREM MountsTypeCorrect == Spec => []TypeOK
<1>1. TInv => TypeOK
  BY DEF TInv
<1> QED
  BY <1>1, TypeHolds, PTL

-----------------------------------------------------------------------------
(* A boot in which nothing fails.                                           *)

\* p is mounted, and shows its own file system unless it is a bind.
Found(p) == \E i \in 1 .. Len(mounts) :
              mounts[i].at = p /\ (plan[p].kind # "bind" => mounts[i].fs = p)

\* Stage 1 goes on only after a mount that did not fail: what it is done with is
\* there, and stays there as long as the machine runs.
EarlyMounted ==
  pc \in {"stage1", "stage2", "up"} =>
    \A p \in Stage1 : (pc = "stage1" => p \notin todo) =>
      (Outside(p) => p \in scaffold) /\ (~Outside(p) => Found(p))

\* Plans whose overlays are made of scaffolding that stage 1 mounts (installer.nix:44),
\* whose `requires` orders scaffolding, and whose root is not scaffolding.
Layered ==
  /\ \A p \in Entries :
       /\ plan[p].requires \subseteq {q \in Entries : Outside(q)}
       /\ plan[p].layers \subseteq {q \in Stage1 : Outside(q)}
       /\ Outside(p) => plan[p].layers = {}
  /\ Root \in Entries => ~Outside(Root)

\* Mounts that are there stay while others are added.
LEMMA FoundStays ==
  ASSUME plan' = plan, NEW p, Found(p), Len(mounts) \in Nat, Len(mounts') \in Nat,
         Len(mounts) <= Len(mounts'),
         \A i \in 1 .. Len(mounts) : mounts'[i] = mounts[i]
  PROVE  Found(p)'
<1>1. PICK i \in 1 .. Len(mounts) :
        mounts[i].at = p /\ (plan[p].kind # "bind" => mounts[i].fs = p)
  BY DEF Found
<1>2. i \in 1 .. Len(mounts') /\ mounts'[i] = mounts[i]
  BY <1>1
<1> QED
  BY <1>1, <1>2 DEF Found

\* What a step of an entry does to the mounts and the scaffolding.
LEMMA EntryAdds ==
  ASSUME TInv, NEW p \in Paths, EntryStep(p)
  PROVE  /\ p \in todo /\ p \in Entries /\ todo' = todo \ {p} /\ plan' = plan /\ Turn(p)
         /\ pc \in {"stage1", "stage2"} /\ pc' \in {pc, "rescue", "panic"}
         /\ Len(mounts) \in Nat /\ Len(mounts') \in Nat /\ Len(mounts) <= Len(mounts')
         /\ \A i \in 1 .. Len(mounts) : mounts'[i] = mounts[i]
         /\ scaffold \subseteq scaffold'
         /\ pc = "stage1" => \/ MountFails(p) /\ pc' = "rescue"
                             \/ Outside(p) /\ p \in scaffold'
                             \/ ~Outside(p) /\ Found(p)'
<1>1. /\ p \in todo /\ p \in Entries /\ todo' = todo \ {p} /\ plan' = plan /\ Turn(p)
      /\ pc \in {"stage1", "stage2"} /\ pc' \in {pc, "rescue", "panic"}
      /\ mounts \in Seq(Mounted)
  BY DEF EntryStep, MountFails, MountScaffold, MountFs, MountBind, SkipMounted, Turn, Ready,
         Applied, TInv, TypeOK
<1>2. CASE mounts' = mounts
  <2>1. scaffold \subseteq scaffold'
    BY DEF EntryStep, MountFails, MountScaffold, MountFs, MountBind, SkipMounted
  <2>2. CASE MountFails(p)
    <3>1. pc = "stage1" => pc' = "rescue"
      BY <2>2 DEF MountFails, Fatal
    <3> QED
      BY <1>1, <1>2, <2>1, <2>2, <3>1
  <2>3. CASE MountScaffold(p)
    BY <1>1, <1>2, <2>1, <2>3 DEF MountScaffold
  <2>4. CASE SkipMounted(p)
    BY <1>1, <1>2, <2>1, <2>4 DEF SkipMounted
  <2>5. mounts' # mounts \/ ~(MountFs(p) \/ MountBind(p))
    <3> SUFFICES ASSUME NEW m, mounts' = Append(mounts, m) PROVE mounts' # mounts
      BY DEF MountFs, MountBind, Mount
    <3>1. Len(mounts') = Len(mounts) + 1 /\ Len(mounts) \in Nat
      BY <1>1
    <3> QED
      BY <3>1
  <2> QED
    BY <1>2, <2>2, <2>3, <2>4, <2>5 DEF EntryStep
<1>3. ASSUME NEW m, mounts' = Append(mounts, m), m.at = p, plan[p].kind # "bind" => m.fs = p,
             ~Outside(p), scaffold' = scaffold
      PROVE  /\ Len(mounts) \in Nat /\ Len(mounts') \in Nat /\ Len(mounts) <= Len(mounts')
             /\ \A i \in 1 .. Len(mounts) : mounts'[i] = mounts[i]
             /\ Found(p)'
  <2>1. /\ Len(mounts') = Len(mounts) + 1 /\ Len(mounts) \in Nat
        /\ \A i \in 1 .. Len(mounts) : mounts'[i] = mounts[i]
        /\ mounts'[Len(mounts) + 1] = m
    BY <1>1, <1>3, Added
  <2> QED
    BY <1>1, <1>3, <2>1 DEF Found
<1>4. CASE MountFs(p)
  <2> DEFINE m == [at |-> p, fs |-> p, source |-> 0]
  <2>1. mounts' = Append(mounts, m) /\ m.at = p /\ m.fs = p /\ ~Outside(p) /\ scaffold' = scaffold
    BY <1>4 DEF MountFs, Mount
  <2> HIDE DEF m
  <2> QED
    BY <1>1, <1>3, <2>1
<1>5. CASE MountBind(p)
  <2> DEFINE m == [at |-> p, fs |-> FsAt(plan[p].from), source |-> Cover(plan[p].from)]
  <2>1. /\ mounts' = Append(mounts, m) /\ m.at = p /\ plan[p].kind = "bind" /\ ~Outside(p)
        /\ scaffold' = scaffold
    BY <1>5 DEF MountBind, Mount
  <2> HIDE DEF m
  <2> QED
    BY <1>1, <1>3, <2>1
<1>6. mounts' = mounts \/ MountFs(p) \/ MountBind(p)
  BY DEF EntryStep, MountFails, MountScaffold, SkipMounted
<1> QED
  BY <1>2, <1>4, <1>5, <1>6

LEMMA EarlyNext == TInv /\ EarlyMounted /\ [Next]_vars => EarlyMounted'
<1> SUFFICES ASSUME TInv, EarlyMounted, [Next]_vars, pc' \in {"stage1", "stage2", "up"},
                    NEW p \in Stage1', pc' = "stage1" => p \notin todo'
             PROVE  (Outside(p)' => p \in scaffold') /\ (~Outside(p)' => Found(p)')
  BY DEF EarlyMounted
<1>1. plan' = plan
  BY PlanStays
<1>2. p \in Stage1 /\ Outside(p)' = Outside(p)
  BY <1>1 DEF Stage1, Entries, Outside
<1>3. CASE Boot
  BY <1>2, <1>3 DEF Boot
<1>4. ASSUME NEW q \in Paths, EntryStep(q) PROVE (Outside(p) => p \in scaffold') /\ (~Outside(p) => Found(p)')
  <2>1. /\ todo' = todo \ {q} /\ pc' = pc /\ scaffold \subseteq scaffold'
        /\ Found(p) => Found(p)'
    BY <1>4, EntryAdds, FoundStays
  <2>2. CASE pc = "stage1" /\ q = p
    BY <1>4, <2>1, <2>2, EntryAdds
  <2>3. CASE pc = "stage1" => q # p
    <3>1. pc = "stage1" => p \notin todo
      BY <2>1, <2>3
    <3>2. pc \in {"stage1", "stage2", "up"}
      BY <2>1
    <3> QED
      BY <1>2, <2>1, <3>1, <3>2 DEF EarlyMounted
  <2> QED
    BY <2>2, <2>3
<1>5. CASE SwitchRoot
  <2>1. pc = "stage1" /\ todo = {} /\ scaffold' = scaffold /\ mounts \in Seq(Mounted)
    BY <1>5 DEF SwitchRoot, TInv, TypeOK
  <2>2. Found(p) => Found(p)'
    BY <1>1, <1>5, <2>1, SwitchAdds, FoundStays
  <2> QED
    BY <1>2, <2>1, <2>2 DEF EarlyMounted
<1>6. CASE Up \/ (\E d \in Paths : Write(d)) \/ UNCHANGED vars
  <2>1. /\ mounts' = mounts /\ scaffold' = scaffold /\ pc \in {"stage1", "stage2", "up"}
        /\ pc = "stage1" => p \notin todo
    BY <1>6 DEF Up, Write, vars
  <2>2. Found(p)' = Found(p)
    BY <1>1, <2>1 DEF Found
  <2> QED
    BY <1>2, <2>1, <2>2 DEF EarlyMounted
<1>7. ~NoRoot /\ ~Off
  BY DEF NoRoot, Off
<1> QED
  BY <1>2, <1>3, <1>4, <1>5, <1>6, <1>7 DEF Next, BootStep

\* The scaffolding comes first: when something below the new root comes next in stage
\* 1, no scaffolding is left.
LEMMA ScaffoldingFirst ==
  ASSUME TInv, Layered, pc = "stage1", NEW p \in Paths, Turn(p), ~Outside(p)
  PROVE  \A q \in todo : ~Outside(q)
<1> DEFINE O == {x \in todo : Outside(x)}
<1> SUFFICES ASSUME O # {} PROVE FALSE
  OBVIOUS
<1>1. O \in SUBSET Stage1
  BY DEF TInv
<1>2. PICK r \in O : plan[r].requires \cap O = {}
  <2> HIDE DEF O
  <2> QED
    BY <1>1 DEF TInv, Sortable
<1>3. r \in Entries /\ r \in todo /\ Outside(r)
  BY DEF TInv
<1>4. plan[r].requires \cap todo = {}
  BY <1>2, <1>3 DEF Layered
<1>5. Ready(r) /\ r # p
  BY <1>3, <1>4 DEF Ready, Requires
<1>6. Before(p, r)
  BY <1>3, <1>5 DEF Turn
<1> QED
  BY <1>3, <1>6 DEF Before

\* When the turn of an entry comes, what it is made of is there.
LEMMA LayersThere ==
  ASSUME TInv, EarlyMounted, Layered, NEW p \in Paths, Turn(p)
  PROVE  plan[p].layers \subseteq scaffold
<1>1. p \in Entries /\ pc \in {"stage1", "stage2"}
  BY DEF Turn, Ready, TInv
<1>2. CASE Outside(p)
  BY <1>1, <1>2 DEF Layered
<1>3. ASSUME ~Outside(p), NEW q \in plan[p].layers PROVE q \in scaffold
  <2>1. q \in Stage1 /\ Outside(q)
    BY <1>1, <1>3 DEF Layered
  <2>2. pc = "stage1" => q \notin todo
    BY <1>3, <2>1, ScaffoldingFirst
  <2> QED
    BY <1>1, <2>1, <2>2 DEF EarlyMounted
<1> QED
  BY <1>2, <1>3

LEMMA SoundNext ==
  TInv /\ EarlyMounted /\ (Layered => SoundPlansBoot) /\ [Next]_vars => (Layered => SoundPlansBoot)'
<1> SUFFICES ASSUME TInv, EarlyMounted, Layered => SoundPlansBoot, [Next]_vars,
                    Layered', broken' = {}, Sortable(Stage1)', Root \in Stage1'
             PROVE  pc' \notin {"rescue", "panic"}
  BY DEF SoundPlansBoot
<1>1. plan' = plan
  BY PlanStays
<1>2. Layered /\ Sortable(Stage1) /\ Root \in Stage1
  BY <1>1 DEF Layered, Sortable, Stage1, Entries, Outside
<1>3. CASE Boot
  BY <1>2, <1>3 DEF Boot
<1>4. CASE Off
  BY <1>4 DEF Off
<1>5. CASE ~Boot /\ ~Off
  <2>1. broken = {}
    BY <1>5 DEF Next, BootStep, EntryStep, MountFails, MountScaffold, MountFs, MountBind,
                SkipMounted, SwitchRoot, NoRoot, Up, Write, vars
  <2>2. pc \notin {"rescue", "panic"}
    BY <1>2, <2>1 DEF SoundPlansBoot
  <2>3. ASSUME NEW p \in Paths, MountFails(p) PROVE FALSE
    <3>1. Turn(p) /\ Fails(p)
      BY <2>3 DEF MountFails
    <3> QED
      BY <1>2, <2>1, <3>1, LayersThere DEF Fails
  <2>4. ~NoRoot
    <3> SUFFICES ASSUME NoRoot PROVE FALSE
      OBVIOUS
    <3>1. pc = "stage1" /\ todo = {} /\ Root \in Entries
      BY <1>2 DEF NoRoot, Stage1
    <3>2. Found(Root)
      BY <1>2, <3>1 DEF EarlyMounted, Layered
    <3> QED
      BY <3>2 DEF NoRoot, Found
  <2> QED
    BY <1>5, <2>2, <2>3, <2>4 DEF Next, BootStep, EntryStep, MountScaffold, MountFs, MountBind,
                SkipMounted, SwitchRoot, Up, Write, vars
<1> QED
  BY <1>3, <1>4, <1>5

LEMMA EarlyHolds == Spec => []EarlyMounted
<1>1. Init => EarlyMounted
  BY DEF Init, EarlyMounted
<1> QED
  BY <1>1, TypeHolds, EarlyNext, PTL DEF Spec

\* A configuration that passes the checks, whose root is needed for boot and whose
\* overlays are made of scaffolding, comes up when nothing fails: stage1-mount and
\* neet-activate never look for a layer before it is mounted.
THEOREM SoundConfigurationsBoot == Spec => [](Layered => SoundPlansBoot)
<1>1. Init => (Layered => SoundPlansBoot)
  BY DEF Init, SoundPlansBoot
<1> QED
  BY <1>1, TypeHolds, EarlyHolds, SoundNext, PTL DEF Spec

-----------------------------------------------------------------------------
(* Directories that are kept.                                               *)

\* Plans as impermanence makes them (impermanence.nix:87): a bind is left to stage 2, and
\* what is at or above its source is not.
KeptEarly ==
  \A d \in Dirs : /\ d \in Stage2 /\ ~plan[d].stage1
                  /\ \A q \in Upto(plan[d].from) \cap Stage2 : plan[q].stage1

\* x lies on the storage of e, which stage 1 mounts and no boot clears, and nothing
\* else is mounted between the two.
Lasting(x, e) ==
  /\ e \in Upto(x) \cap Stage1 /\ ~Outside(e)
  /\ plan[e].kind \in {"btrfs", "disk", "loop"} /\ ~plan[e].reset
  /\ \A q \in Upto(x) \cap Stage2 : q \in Upto(e)

\* The source of every bind lies on such a storage.
Stored == \A d \in Dirs : \E e : Lasting(plan[d].from, e)

\* A bind that stage 2 is done with is there, and was made of its source.
Bound ==
  pc \in {"stage2", "up"} =>
    \A d \in Dirs : (pc = "stage2" => d \notin todo) =>
      \E i \in 1 .. Len(mounts) :
        /\ mounts[i].at = d /\ mounts[i].source = Cover(plan[d].from)
        /\ \A e : Lasting(plan[d].from, e) => mounts[i].fs = e

\* What was written lies on the storage of the source.
Remains == \A d \in written : d \in Dirs /\ \A e : Lasting(plan[d].from, e) => <<d, e>> \in kept

\* A path on the storage of e shows the file system of e from the end of stage 1 on.
LEMMA ShowsStorage ==
  ASSUME TInv, EarlyMounted, InOrder, pc \in {"stage2", "up"}, NEW x, NEW e, Lasting(x, e)
  PROVE  FsAt(x) = e /\ Cover(x) # 0
<1>1. mounts \in Seq(Mounted) /\ e \in Stage1 /\ ~Outside(e) /\ plan[e].kind # "bind"
  BY DEF Lasting, TInv, TypeOK
<1>2. Found(e)
  BY <1>1 DEF EarlyMounted
<1>3. PICK i \in 1 .. Len(mounts) : mounts[i].at = e /\ mounts[i].fs = e
  BY <1>1, <1>2 DEF Found
<1>4. mounts[i].at \in Upto(x)
  BY <1>3 DEF Lasting
<1>5. ASSUME NEW j \in i + 1 .. Len(mounts), mounts[j].at \in Upto(x) PROVE FALSE
  <2>1. j \in 1 .. Len(mounts) /\ i < j
    OBVIOUS
  <2>2. mounts[j].at \in Stage2
    <3>1. mounts[j] \in Mounted
      BY <1>1, <2>1
    <3> QED
      BY <2>1, <3>1 DEF TInv, TypeOK, Mounted, Stage2, Entries, Outside
  <2>3. mounts[j].at \in Upto(e)
    BY <1>5, <2>2 DEF Lasting
  <2> QED
    BY <1>3, <2>1, <2>3 DEF InOrder
<1>6. LastIn(mounts, Upto(x)) = i
  BY <1>1, <1>4, <1>5, LastUnique
<1>7. Cover(x) = i /\ i # 0
  BY <1>6, CoverIsLast
<1> QED
  BY <1>3, <1>7 DEF FsAt

\* What is mounted in stage 2 is not above the source of a bind, which stays where it is.
LEMMA SourceStays ==
  ASSUME TInv, KeptEarly, pc = "stage2", NEW p \in Paths, EntryStep(p), NEW d \in Dirs
  PROVE  Cover(plan[d].from)' = Cover(plan[d].from)
<1> DEFINE x == plan[d].from
<1>1. plan' = plan /\ mounts \in Seq(Mounted) /\ p \in Stage2 /\ p \in Entries
  BY EntryAdds DEF TInv, TypeOK
<1>2. Cover(plan[d].from)' = LastIn(mounts', Upto(x))
  BY <1>1 DEF Cover, LastIn, Upto
<1>3. ASSUME NEW m \in Mounted, m.at = p, mounts' = Append(mounts, m), ~plan[p].stage1
      PROVE  LastIn(mounts', Upto(x)) = LastIn(mounts, Upto(x))
  <2>1. p \notin Upto(x)
    BY <1>1, <1>3 DEF KeptEarly
  <2> QED
    BY <1>1, <1>3, <2>1, LastStays
<1>4. CASE mounts' = mounts
  BY <1>2, <1>4, CoverIsLast
<1>5. CASE MountFs(p)
  <2>1. [at |-> p, fs |-> p, source |-> 0] \in Mounted
    BY DEF Mounted
  <2>2. mounts' = Append(mounts, [at |-> p, fs |-> p, source |-> 0]) /\ ~plan[p].stage1
    BY <1>5 DEF MountFs, Mount
  <2> QED
    BY <1>2, <1>3, <2>1, <2>2, CoverIsLast
<1>6. CASE MountBind(p)
  <2> DEFINE m == [at |-> p, fs |-> FsAt(plan[p].from), source |-> Cover(plan[p].from)]
  <2>1. m \in Mounted
    BY FsAtType DEF Mounted, TInv
  <2>2. m.at = p /\ mounts' = Append(mounts, m) /\ ~plan[p].stage1
    BY <1>6 DEF MountBind, Mount
  <2> HIDE DEF m
  <2> QED
    BY <1>2, <1>3, <2>1, <2>2, CoverIsLast
<1> QED
  BY <1>4, <1>5, <1>6 DEF EntryStep, MountFails, MountScaffold, SkipMounted

\* The definitions that speak of the plan only.
LEMMA PlanOnly ==
  ASSUME plan' = plan
  PROVE  /\ KeptEarly' = KeptEarly /\ Stored' = Stored /\ Dirs' = Dirs /\ Stage2' = Stage2
         /\ Orderly' = Orderly
         /\ \A x, e : Lasting(x, e)' = Lasting(x, e)
  BY DEF KeptEarly, Stored, Dirs, Stage2, Stage1, Entries, Outside, Orderly, Lasting, Upto

\* A bind that stage 2 has dealt with was mounted: had it failed, init would have too.
LEMMA BindAdded ==
  ASSUME TInv, EarlyMounted, InOrder, KeptEarly, pc = "stage2", pc' \in {"stage2", "up"},
         NEW d \in Dirs, EntryStep(d)
  PROVE  \E i \in 1 .. Len(mounts') :
           /\ mounts'[i].at = d /\ mounts'[i].source = Cover(plan[d].from)
           /\ \A e : Lasting(plan[d].from, e) => mounts'[i].fs = e
<1> DEFINE x == plan[d].from
           m == [at |-> d, fs |-> FsAt(x), source |-> Cover(x)]
<1>1. plan[d].kind = "bind" /\ ~Outside(d) /\ ~plan[d].stage1
  BY DEF Dirs, KeptEarly, Stage2
<1>2. ~MountFails(d)
  BY <1>1 DEF MountFails, Fatal
<1>3. MountBind(d)
  BY <1>1, <1>2 DEF EntryStep, MountScaffold, MountFs, SkipMounted
<1>4. mounts' = Append(mounts, m) /\ mounts \in Seq(Mounted)
  BY <1>3 DEF MountBind, Mount, TInv, TypeOK
<1>5. m.at = d /\ m.source = Cover(x) /\ m.fs = FsAt(x)
  OBVIOUS
<1> HIDE DEF m
<1>6. Len(mounts') = Len(mounts) + 1 /\ Len(mounts) \in Nat /\ mounts'[Len(mounts) + 1] = m
  BY <1>4, Added
<1>7. \A e : Lasting(x, e) => FsAt(x) = e
  BY ShowsStorage
<1> QED
  BY <1>5, <1>6, <1>7

LEMMA BoundNext ==
  ASSUME TInv, EarlyMounted, InOrder, KeptEarly, Bound, [Next]_vars
  PROVE  Bound'
<1> SUFFICES ASSUME pc' \in {"stage2", "up"}, NEW d \in Dirs', pc' = "stage2" => d \notin todo'
             PROVE  (\E i \in 1 .. Len(mounts) :
                      /\ mounts[i].at = d /\ mounts[i].source = Cover(plan[d].from)
                      /\ \A e : Lasting(plan[d].from, e) => mounts[i].fs = e)'
  BY DEF Bound
<1>1. plan' = plan
  BY PlanStays
<1>2. d \in Dirs /\ d \in Stage2 /\ Stage2' = Stage2 /\ \A x, e : Lasting(x, e)' = Lasting(x, e)
  BY <1>1, PlanOnly DEF KeptEarly
<1>3. ~Boot /\ ~NoRoot /\ ~Off
  BY DEF Boot, NoRoot, Off
<1>4. ~SwitchRoot
  BY <1>2 DEF SwitchRoot
<1>5. CASE Up \/ (\E y \in Paths : Write(y)) \/ UNCHANGED vars
  <2>1. mounts' = mounts /\ pc \in {"stage2", "up"} /\ (pc = "stage2" => d \notin todo)
    BY <1>5 DEF Up, Write, vars
  <2>2. Cover(plan[d].from)' = Cover(plan[d].from)
    BY <1>1, <2>1 DEF Cover, Upto
  <2>3. PICK i \in 1 .. Len(mounts) :
          /\ mounts[i].at = d /\ mounts[i].source = Cover(plan[d].from)
          /\ \A e : Lasting(plan[d].from, e) => mounts[i].fs = e
    BY <1>2, <2>1 DEF Bound
  <2> QED
    BY <1>1, <1>2, <2>1, <2>2, <2>3
<1>6. ASSUME NEW p \in Paths, EntryStep(p)
      PROVE  (\E i \in 1 .. Len(mounts) :
               /\ mounts[i].at = d /\ mounts[i].source = Cover(plan[d].from)
               /\ \A e : Lasting(plan[d].from, e) => mounts[i].fs = e)'
  <2>1. /\ pc = "stage2" /\ todo' = todo \ {p}
        /\ Len(mounts) \in Nat /\ Len(mounts') \in Nat /\ Len(mounts) <= Len(mounts')
        /\ \A i \in 1 .. Len(mounts) : mounts'[i] = mounts[i]
    <3>1. pc \in {"stage1", "stage2"} /\ pc' \in {pc, "rescue", "panic"}
      BY <1>6, EntryAdds
    <3>2. pc' # "up" => pc = "stage2"
      BY <3>1
    <3> QED
      BY <1>6, <3>1, <3>2, EntryAdds
  <2>2. Cover(plan[d].from)' = Cover(plan[d].from)
    BY <1>2, <1>6, <2>1, SourceStays
  <2>3. CASE p = d
    <3>1. PICK i \in 1 .. Len(mounts') :
            /\ mounts'[i].at = d /\ mounts'[i].source = Cover(plan[d].from)
            /\ \A e : Lasting(plan[d].from, e) => mounts'[i].fs = e
      BY <1>2, <1>6, <2>1, <2>3, BindAdded
    <3> QED
      BY <1>1, <1>2, <2>2, <3>1
  <2>4. CASE p # d
    <3>1. d \notin todo
      <4>1. pc' = "stage2"
        BY <1>6, <2>1, EntryAdds
      <4> QED
        BY <2>1, <2>4, <4>1
    <3>2. PICK i \in 1 .. Len(mounts) :
            /\ mounts[i].at = d /\ mounts[i].source = Cover(plan[d].from)
            /\ \A e : Lasting(plan[d].from, e) => mounts[i].fs = e
      BY <1>2, <2>1, <3>1 DEF Bound
    <3>3. i \in 1 .. Len(mounts') /\ mounts'[i] = mounts[i]
      BY <2>1, <3>2
    <3> QED
      BY <1>1, <1>2, <2>2, <3>2, <3>3
  <2> QED
    BY <2>3, <2>4
<1> QED
  BY <1>3, <1>4, <1>5, <1>6 DEF Next, BootStep

\* On a machine that is up a directory that is to be kept shows what its bind is of.
LEMMA KeptShows ==
  ASSUME TInv, InOrder, Bound, pc = "up", NEW d \in Dirs
  PROVE  /\ Cover(d) # 0 /\ mounts[Cover(d)].source = Cover(plan[d].from)
         /\ \A e : Lasting(plan[d].from, e) => FsAt(d) = e
<1>1. PICK i \in 1 .. Len(mounts) :
        /\ mounts[i].at = d /\ mounts[i].source = Cover(plan[d].from)
        /\ \A e : Lasting(plan[d].from, e) => mounts[i].fs = e
  BY DEF Bound
<1>2. mounts \in Seq(Mounted)
  BY DEF TInv, TypeOK
<1>3. Cover(d) = i /\ i # 0
  BY <1>1, <1>2, CoverIs
<1> QED
  BY <1>1, <1>3 DEF FsAt

\* What a step keeps: all that lies on a storage no boot clears.
LEMMA KeptStays ==
  ASSUME TInv, [Next]_vars, NEW d, NEW x, NEW e, Lasting(x, e), <<d, e>> \in kept
  PROVE  <<d, e>> \in kept'
<1>1. /\ plan[e].kind \in {"btrfs", "disk", "loop"} /\ ~plan[e].reset /\ e \in Paths
      /\ <<d, e>>[2] = e
  BY DEF Lasting, Stage1, Entries
<1>2. ASSUME NEW p \in Paths PROVE <<d, e>> \in Reset(p)
  BY <1>1 DEF Reset
<1>3. e # None
  BY <1>1, PathAssumption
<1>4. ~Volatile(e)
  BY <1>1, <1>3 DEF Volatile
<1>5. CASE Off
  BY <1>1, <1>4, <1>5 DEF Off
<1>6. ASSUME NEW p \in Paths, EntryStep(p) PROVE <<d, e>> \in kept'
  BY <1>2, <1>6 DEF EntryStep, MountFails, MountScaffold, MountFs, MountBind, SkipMounted
<1>7. CASE ~Off /\ ~\E p \in Paths : EntryStep(p)
  BY <1>7 DEF Next, BootStep, Boot, SwitchRoot, NoRoot, Up, Write, vars
<1> QED
  BY <1>5, <1>6, <1>7

LEMMA RemainsNext ==
  ASSUME TInv, InOrder, Bound, Remains, [Next]_vars
  PROVE  Remains'
<1>1. plan' = plan
  BY PlanStays
<1>2. Dirs' = Dirs /\ \A x, e : Lasting(x, e)' = Lasting(x, e)
  BY <1>1, PlanOnly
<1> SUFFICES ASSUME NEW d \in written'
             PROVE  d \in Dirs /\ \A e : Lasting(plan[d].from, e) => <<d, e>> \in kept'
  BY <1>1, <1>2 DEF Remains
<1>3. CASE d \in written
  BY <1>3, KeptStays DEF Remains
<1>4. CASE Write(d) /\ d \in Paths
  <2>1. pc = "up" /\ d \in Dirs /\ kept' = kept \cup {<<d, FsAt(d)>>}
    BY <1>4 DEF Write
  <2>2. \A e : Lasting(plan[d].from, e) => FsAt(d) = e
    BY <2>1, KeptShows
  <2> QED
    BY <2>1, <2>2
<1>5. d \in written \/ (Write(d) /\ d \in Paths)
  BY DEF Next, BootStep, EntryStep, Boot, MountFails, MountScaffold, MountFs, MountBind,
         SkipMounted, SwitchRoot, NoRoot, Up, Off, Write, vars
<1> QED
  BY <1>3, <1>4, <1>5

\* Binds are made of their sources, in every boot.
LEMMA BoundHolds == Spec => [](Orderly /\ KeptEarly => Bound)
<1>1. Init => Bound
  BY DEF Init, Bound
<1>2. TInv /\ EarlyMounted /\ (Orderly => IInv) /\ (Orderly /\ KeptEarly => Bound) /\ [Next]_vars
        => (Orderly /\ KeptEarly => Bound)'
  <2> SUFFICES ASSUME TInv, EarlyMounted, Orderly => IInv, Orderly /\ KeptEarly => Bound,
                      [Next]_vars, Orderly', KeptEarly'
               PROVE  Bound'
    OBVIOUS
  <2>1. Orderly /\ KeptEarly
    BY PlanStays, PlanOnly
  <2> QED
    BY <2>1, BoundNext DEF IInv
<1> QED
  BY <1>1, <1>2, TypeHolds, EarlyHolds, MountsInvariant, PTL DEF Spec

\* Each directory that impermanence keeps shows its source on the persistent storage
\* whenever the machine is up: neither a failing mount nor the order of the plans leaves
\* a directory of the volatile root in its place.
THEOREM BindsShowTheirSource == Spec => [](Orderly /\ KeptEarly => BindsReachTheirSource)
<1>1. TInv /\ (Orderly => IInv) /\ (Orderly /\ KeptEarly => Bound)
        => (Orderly /\ KeptEarly => BindsReachTheirSource)
  BY KeptShows DEF IInv, BindsReachTheirSource
<1> QED
  BY <1>1, TypeHolds, MountsInvariant, BoundHolds, PTL

\* With the sources on storage that no boot clears, what was written to a kept directory
\* is there whenever the machine is up again, after any number of boots that failed, were
\* cut short or came up without some of their file systems.
THEOREM KeptDataPersists == Spec => [](Orderly /\ KeptEarly /\ Stored => DataPersists)
<1>1. Init => Remains
  BY DEF Init, Remains
<1>2. TInv /\ (Orderly => IInv) /\ (Orderly /\ KeptEarly => Bound)
        /\ (Orderly /\ KeptEarly => Remains) /\ [Next]_vars
        => (Orderly /\ KeptEarly => Remains)'
  <2> SUFFICES ASSUME TInv, Orderly => IInv, Orderly /\ KeptEarly => Bound,
                      Orderly /\ KeptEarly => Remains, [Next]_vars, Orderly', KeptEarly'
               PROVE  Remains'
    OBVIOUS
  <2>1. Orderly /\ KeptEarly
    BY PlanStays, PlanOnly
  <2> QED
    BY <2>1, RemainsNext DEF IInv
<1>3. TInv /\ (Orderly => IInv) /\ (Orderly /\ KeptEarly => Bound) /\ (Orderly /\ KeptEarly => Remains)
        => (Orderly /\ KeptEarly /\ Stored => DataPersists)
  <2> SUFFICES ASSUME TInv, IInv, Bound, Remains, Stored, pc = "up", NEW d \in written
               PROVE  <<d, FsAt(d)>> \in kept
    BY DEF DataPersists
  <2>1. d \in Dirs
    BY DEF Remains
  <2>2. PICK e : Lasting(plan[d].from, e)
    BY <2>1 DEF Stored
  <2>3. FsAt(d) = e
    BY <2>1, <2>2, KeptShows DEF IInv
  <2> QED
    BY <2>2, <2>3 DEF Remains
<1> QED
  BY <1>1, <1>2, <1>3, TypeHolds, MountsInvariant, BoundHolds, PTL DEF Spec

=============================================================================
