--------------------------- MODULE RootReset_proofs ---------------------------
(* Theorems about RootReset for every number of subvolumes, every keepOldRoots  *)
(* and any number of boots, failures and outages.                              *)
EXTENDS RootReset, FiniteSetTheorems, WellFoundedInduction, TLAPS

\* Only a subvolume being reset has steps of its own, and only old roots that are
\* there are being deleted.
Busy == /\ pc \in {"create", "prune"} => cur \in Subvols
        /\ pc = "prune" => doomed \subseteq Generations(StoreOf[cur])

\* One number of one store is written, and nothing else.
LEMMA OneNumber ==
  ASSUME TypeOK, NEW st \in Stores, NEW s \in Seqs, NEW root \in OldRoot \cup {None},
         old' = [old EXCEPT ![st][s] = root]
  PROVE  /\ old' \in [Stores -> [Seqs -> OldRoot \cup {None}]]
         /\ old'[st][s] = root
         /\ \A x \in Seqs : x # s => old'[st][x] = old[st][x]
         /\ \A t \in Stores : t # st => old'[t] = old[t]
  BY DEF TypeOK

\* Every boot leaves places, stores and counters what they are meant to be.
LEMMA TypeStep == TypeOK /\ Busy /\ [Next]_vars => TypeOK' /\ Busy'
<1> SUFFICES ASSUME TypeOK, Busy, [Next]_vars PROVE TypeOK' /\ Busy'
  OBVIOUS
<1> USE ResetAssumption DEF TypeOK, Busy
<1>1. CASE Boot
  BY <1>1 DEF Boot
<1>2. CASE Create
  <2>1. doomed' \subseteq Seqs
    BY <1>2 DEF Create, PruneCandidates, Generations
  <2>2. doomed' \subseteq Generations(StoreOf[cur])'
    BY <1>2 DEF Create, PruneCandidates, Generations
  <2> QED
    BY <1>2, <2>1, <2>2 DEF Create, Places
<1>3. CASE DeleteNested
  <2> DEFINE st == StoreOf[cur]
  <2>0. PICK s \in Seqs :
        s \in doomed /\ old' = [old EXCEPT ![st][s] = [old[st][s] EXCEPT !.whole = FALSE]]
    BY <1>3 DEF DeleteNested
  <2>1. st \in Stores /\ old[st][s] \in OldRoot
    BY <1>3, <2>0 DEF DeleteNested, Generations
  <2> DEFINE root == [old[st][s] EXCEPT !.whole = FALSE]
  <2>2. root \in OldRoot /\ root # None
    BY <2>1, RootAssumption DEF OldRoot
  <2>3. old' = [old EXCEPT ![st][s] = root]
    BY <2>0
  <2>4. /\ old' \in [Stores -> [Seqs -> OldRoot \cup {None}]]
        /\ \A x \in Seqs : old[st][x] # None => old'[st][x] # None
    <3> HIDE DEF st, root, TypeOK, Busy
    <3>1. /\ old' \in [Stores -> [Seqs -> OldRoot \cup {None}]] /\ old'[st][s] = root
          /\ \A x \in Seqs : x # s => old'[st][x] = old[st][x]
      BY <2>1, <2>2, <2>3, OneNumber
    <3> QED
      BY <3>1, <2>2
  <2> QED
    BY <1>3, <2>4 DEF DeleteNested, Generations
<1>4. CASE DeleteRoot
  <2> DEFINE st == StoreOf[cur]
  <2> PICK s \in Seqs : doomed' = doomed \ {s} /\ old' = [old EXCEPT ![st][s] = None]
    BY <1>4 DEF DeleteRoot
  <2>1. st \in Stores
    BY <1>4 DEF DeleteRoot
  <2> HIDE DEF st
  <2>2. /\ old' \in [Stores -> [Seqs -> OldRoot \cup {None}]]
        /\ \A x \in Seqs : x # s => old'[st][x] = old[st][x]
    <3> HIDE DEF TypeOK, Busy
    <3> QED
      BY <2>1, OneNumber
  <2> QED
    BY <1>4, <2>2 DEF DeleteRoot, Generations, st
<1>5. CASE DeleteFails
  BY <1>5 DEF DeleteFails, Generations
<1>6. CASE Mount
  BY <1>6 DEF Mount
<1>7. CASE Up
  BY <1>7 DEF Up, Places
<1>8. CASE StageFails
  BY <1>8 DEF StageFails
<1>9. CASE Off
  BY <1>9 DEF Off
<1>10. ASSUME NEW v \in Subvols, Refuse(v) PROVE TypeOK' /\ Busy'
  BY <1>10 DEF Refuse
<1>11. ASSUME NEW v \in Subvols, Rotate(v) PROVE TypeOK' /\ Busy'
  <2> DEFINE st == StoreOf[v]
             seq == NextSeq(Generations(st))
             root == [of |-> v, nth |-> moved[v] + 1, whole |-> TRUE]
  <2>1. /\ st \in Stores /\ seq \in Seqs /\ moved[v] + 1 \in 1 .. MaxSeq
        /\ old' = [old EXCEPT ![st][seq] = root]
    BY <1>11 DEF Rotate
  <2>2. root \in OldRoot
    BY <2>1 DEF OldRoot
  <2>3. old' \in [Stores -> [Seqs -> OldRoot \cup {None}]]
    <3> HIDE DEF st, seq, root, TypeOK, Busy
    <3> QED
      BY <2>1, <2>2, OneNumber
  <2> HIDE DEF st, seq, root
  <2> QED
    BY <1>11, <2>1, <2>3 DEF Rotate, Places
<1>12. ASSUME NEW v \in Subvols, NothingToMove(v) PROVE TypeOK' /\ Busy'
  BY <1>12 DEF NothingToMove
<1>13. CASE UNCHANGED vars
  BY <1>13 DEF vars, Generations
<1> HIDE DEF TypeOK, Busy
<1>14. CASE Next
  BY <1>14, <1>1, <1>2, <1>3, <1>4, <1>5, <1>6, <1>7, <1>8, <1>9, <1>10, <1>11, <1>12 DEF Next
<1> QED
  BY <1>13, <1>14

LEMMA TypeInit == Init => TypeOK /\ Busy
<1> SUFFICES ASSUME Init PROVE TypeOK /\ Busy
  OBVIOUS
<1>1. moved \in [Subvols -> 0 .. MaxSeq]
  BY ResetAssumption DEF Init
<1>2. old \in [Stores -> [Seqs -> OldRoot \cup {None}]]
  BY DEF Init
<1>3. /\ place \in [Subvols -> Places] /\ pc = "off" /\ todo = {} /\ cur = None
      /\ doomed = {} /\ fresh = {} /\ spared = FALSE
  BY DEF Init
<1> QED
  BY <1>1, <1>2, <1>3 DEF TypeOK, Busy

\* The variables of the reset keep their types.
THEOREM ResetTypeCorrect == Spec => [](TypeOK /\ Busy)
<1>1. Init => TypeOK /\ Busy
  BY TypeInit
<1>2. TypeOK /\ Busy /\ [Next]_vars => (TypeOK /\ Busy)'
  BY TypeStep
<1> QED
  BY <1>1, <1>2, PTL DEF Spec

-----------------------------------------------------------------------------
(* The recent old roots.                                                      *)

\* No two subvolumes share a store: none of their paths differ in "/" and "_" only.
OwnStore == \A v, w \in Subvols : StoreOf[v] = StoreOf[w] => v = w

At(v, s) == old[StoreOf[v]][s]
Recent(v, s) == moved[v] - s < Keep[v]

\* Where at least one old root is kept, the newest always is: so the numbers count
\* the moves. Where none is kept nothing is promised.
Numbered(v) == Keep[v] > 0 => \A s \in Seqs :
                 At(v, s) # None => /\ s <= moved[v]
                                    /\ At(v, s).nth = s /\ At(v, s).of = v
Held(v) == \A s \in 1 .. moved[v] : Recent(v, s) => At(v, s) # None /\ At(v, s).whole
Sparing == pc = "prune" /\ Keep[cur] > 0 => \A s \in doomed : ~Recent(cur, s)

RInv == TypeOK /\ Busy /\ Sparing /\ \A v \in Subvols : Numbered(v) /\ Held(v)

\* The next number of a store is the next move.
LEMMA NextCounts ==
  ASSUME RInv, NEW v \in Subvols, Keep[v] > 0
  PROVE  NextSeq(Generations(StoreOf[v])) = moved[v] + 1
<1> DEFINE S == Generations(StoreOf[v])
<1>1. /\ moved[v] \in 0 .. MaxSeq /\ MaxSeq \in Nat /\ Keep[v] \in Nat
      /\ S \subseteq Seqs /\ \A s \in S : s <= moved[v]
  BY ResetAssumption DEF RInv, TypeOK, Generations, Numbered, At
<1>2. CASE moved[v] = 0
  <2>1. S = {}
    BY <1>1, <1>2 DEF Seqs
  <2> QED
    BY <2>1, <1>2 DEF NextSeq
<1>3. CASE moved[v] # 0
  <2>1. moved[v] \in 1 .. moved[v] /\ moved[v] \in Seqs /\ Recent(v, moved[v])
    BY <1>1, <1>3 DEF Seqs, Recent
  <2>2. moved[v] \in S
    BY <2>1 DEF RInv, Held, Generations, At
  <2>3. \A m \in S : (\A s \in S : s <= m) => m = moved[v]
    BY <1>1, <2>2 DEF Seqs
  <2> QED
    BY <1>1, <2>2, <2>3 DEF NextSeq
<1> QED
  BY <1>2, <1>3

\* Of numbers up to m, one with at least k greater ones is at least k below m.
LEMMA PruneIsOld ==
  ASSUME NEW m \in Nat, NEW k \in Nat, NEW S \in SUBSET (1 .. m), NEW s \in PruneCandidates(S, k)
  PROVE  m - s >= k
<1> DEFINE T == {t \in S : t > s}
<1>0. s \in 1 .. m /\ Cardinality(T) >= k
  BY DEF PruneCandidates
<1>1. ASSUME NEW t \in T PROVE t \in s + 1 .. m
  <2>1. t \in 1 .. m /\ t > s
    OBVIOUS
  <2> QED
    BY <2>1, <1>0
<1>2. IsFiniteSet(s + 1 .. m) /\ Cardinality(s + 1 .. m) = m - s
  BY <1>0, FS_Interval
<1>3. IsFiniteSet(T) /\ Cardinality(T) <= m - s
  BY <1>1, <1>2, FS_Subset
<1>4. Cardinality(T) \in Nat
  BY <1>3, FS_CardinalityType
<1> QED
  BY <1>0, <1>3, <1>4

\* What does not touch old roots and counters keeps what is known of them.
LEMMA SameRoots ==
  ASSUME RInv, TypeOK', Busy', Sparing', UNCHANGED <<old, moved>> PROVE RInv'
  BY DEF RInv, Numbered, Held, At, Recent

LEMMA RotateKeeps ==
  ASSUME OwnStore, RInv, TypeOK', Busy', NEW v \in Subvols, Rotate(v) PROVE RInv'
<1> DEFINE st == StoreOf[v]
           seq == NextSeq(Generations(st))
           root == [of |-> v, nth |-> moved[v] + 1, whole |-> TRUE]
<1>1. /\ st \in Stores /\ seq \in Seqs /\ place[v] = "plain" /\ moved[v] < MaxSeq
      /\ old' = [old EXCEPT ![st][seq] = root] /\ moved' = [moved EXCEPT ![v] = @ + 1]
  BY ResetAssumption DEF Rotate
<1>2. moved[v] \in 0 .. MaxSeq /\ MaxSeq \in Nat /\ Keep[v] \in Nat /\ TypeOK
  BY ResetAssumption DEF RInv, TypeOK
<1>3. root \in OldRoot
  <2>1. moved[v] + 1 \in 1 .. MaxSeq /\ place[v] \in Places
    BY <1>1, <1>2 DEF Places
  <2> QED
    BY <2>1 DEF OldRoot
<1>4. root.of = v /\ root.nth = moved[v] + 1 /\ root.whole
  BY <1>1
<1>5. moved'[v] = moved[v] + 1 /\ \A w \in Subvols : w # v => moved'[w] = moved[w]
  BY <1>1, <1>2 DEF TypeOK
<1>6. /\ old'[st][seq] = root
      /\ \A x \in Seqs : x # seq => old'[st][x] = old[st][x]
      /\ \A t \in Stores : t # st => old'[t] = old[t]
  <2> HIDE DEF st, seq, root
  <2> QED
    BY <1>1, <1>2, <1>3, OneNumber
<1>7. Sparing'
  BY DEF Rotate, Sparing
<1>8. ASSUME NEW w \in Subvols PROVE (Numbered(w) /\ Held(w))'
  <2>1. CASE w # v
    <3>1. StoreOf[w] # st /\ StoreOf[w] \in Stores
      BY <2>1, ResetAssumption DEF OwnStore
    <3>2. old'[StoreOf[w]] = old[StoreOf[w]] /\ moved'[w] = moved[w]
      BY <2>1, <3>1, <1>5, <1>6
    <3> QED
      BY <3>2 DEF RInv, Numbered, Held, At, Recent
  <2>2. CASE w = v /\ Keep[v] > 0
    <3>1. seq = moved[v] + 1
      BY <2>2, NextCounts
    <3> HIDE DEF seq, root
    <3>2. Numbered(v)'
      BY <3>1, <2>2, <1>2, <1>4, <1>5, <1>6 DEF RInv, Numbered, At, Seqs
    <3>3. ASSUME NEW s \in 1 .. moved'[v], Recent(v, s)' PROVE At(v, s)' # None /\ At(v, s)'.whole
      <4>1. CASE s = seq
        BY <4>1, <1>3, <1>4, <1>6, RootAssumption DEF At
      <4>2. CASE s # seq
        <5>1. s \in 1 .. moved[v] /\ s \in Seqs /\ Recent(v, s)
          BY <4>2, <3>1, <3>3, <1>1, <1>2, <1>5 DEF Recent, Seqs
        <5> QED
          BY <5>1, <4>2, <1>6 DEF RInv, Held, At
      <4> QED
        BY <4>1, <4>2
    <3> QED
      BY <3>2, <3>3, <2>2 DEF Held
  <2>3. CASE w = v /\ ~(Keep[v] > 0)
    BY <2>3, <1>2, <1>5 DEF Numbered, Held, Recent
  <2> QED
    BY <2>1, <2>2, <2>3
<1> QED
  BY <1>7, <1>8 DEF RInv

LEMMA CreateKeeps ==
  ASSUME RInv, TypeOK', Busy', Create PROVE RInv'
<1>1. /\ cur \in Subvols /\ cur' = cur /\ UNCHANGED <<old, moved>>
      /\ doomed' = PruneCandidates(Generations(StoreOf[cur]), Keep[cur])
  BY DEF Create, RInv, Busy
<1> DEFINE S == Generations(StoreOf[cur])
<1>2. moved[cur] \in Nat /\ Keep[cur] \in Nat
  BY <1>1, ResetAssumption DEF RInv, TypeOK
<1>3. CASE Keep[cur] > 0
  <2>1. S \subseteq 1 .. moved[cur]
    BY <1>1, <1>2, <1>3 DEF RInv, Numbered, At, Generations, Seqs
  <2>2. \A s \in PruneCandidates(S, Keep[cur]) : s \in Int /\ moved[cur] - s >= Keep[cur]
    BY <2>1, <1>2, PruneIsOld DEF PruneCandidates
  <2>3. Sparing'
    BY <1>1, <1>2, <2>2 DEF Sparing, Recent
  <2> QED
    BY <1>1, <2>3, SameRoots
<1>4. CASE ~(Keep[cur] > 0)
  <2>1. Sparing'
    BY <1>1, <1>4 DEF Sparing
  <2> QED
    BY <1>1, <2>1, SameRoots
<1> QED
  BY <1>3, <1>4

LEMMA DeleteNestedKeeps ==
  ASSUME OwnStore, RInv, TypeOK', Busy', DeleteNested PROVE RInv'
<1> DEFINE st == StoreOf[cur]
<1>1. PICK s \in Seqs : /\ s \in doomed
                        /\ old' = [old EXCEPT ![st][s] = [old[st][s] EXCEPT !.whole = FALSE]]
  BY DEF DeleteNested, RInv, TypeOK
<1>2. /\ cur \in Subvols /\ st \in Stores /\ old[st][s] \in OldRoot /\ TypeOK
      /\ UNCHANGED <<doomed, cur, moved, pc>> /\ pc = "prune"
  BY <1>1, ResetAssumption DEF DeleteNested, RInv, TypeOK, Busy, Generations
<1> DEFINE root == [old[st][s] EXCEPT !.whole = FALSE]
<1>3. /\ root \in OldRoot /\ root # None
      /\ root.nth = old[st][s].nth /\ root.of = old[st][s].of
  BY <1>2, RootAssumption DEF OldRoot
<1>4. old' = [old EXCEPT ![st][s] = root]
  BY <1>1
<1>5. /\ old'[st][s] = root
      /\ \A x \in Seqs : x # s => old'[st][x] = old[st][x]
      /\ \A t \in Stores : t # st => old'[t] = old[t]
  <2> HIDE DEF st, root
  <2> QED
    BY <1>2, <1>3, <1>4, OneNumber
<1>6. Sparing'
  BY <1>2 DEF RInv, Sparing, Recent
<1>7. ASSUME NEW w \in Subvols PROVE (Numbered(w) /\ Held(w))'
  <2>1. CASE w # cur
    <3>1. StoreOf[w] # st /\ StoreOf[w] \in Stores
      BY <2>1, <1>2, ResetAssumption DEF OwnStore
    <3>2. old'[StoreOf[w]] = old[StoreOf[w]] /\ moved'[w] = moved[w]
      BY <3>1, <1>2, <1>5
    <3> QED
      BY <3>2 DEF RInv, Numbered, Held, At, Recent
  <2>2. CASE w = cur
    <3> HIDE DEF root
    <3>1. Numbered(w)'
      BY <2>2, <1>1, <1>2, <1>3, <1>5 DEF RInv, Numbered, At, Generations, Busy
    <3>2. moved[w] \in 0 .. MaxSeq /\ MaxSeq \in Nat /\ Keep[w] \in Nat
      BY ResetAssumption DEF RInv, TypeOK
    <3>3. ASSUME NEW x \in 1 .. moved[w], Recent(w, x) PROVE At(w, x)' # None /\ At(w, x)'.whole
      <4>1. Keep[w] > 0 /\ x \in Seqs
        BY <3>2, <3>3 DEF Recent, Seqs
      <4>2. x # s
        BY <4>1, <3>3, <2>2, <1>1, <1>2 DEF RInv, Sparing
      <4> QED
        BY <4>1, <4>2, <3>3, <2>2, <1>5 DEF RInv, Held, At
    <3> QED
      BY <3>1, <3>3, <1>2 DEF Held, Recent
  <2> QED
    BY <2>1, <2>2
<1> QED
  BY <1>6, <1>7 DEF RInv

LEMMA DeleteRootKeeps ==
  ASSUME OwnStore, RInv, TypeOK', Busy', DeleteRoot PROVE RInv'
<1> DEFINE st == StoreOf[cur]
<1>1. PICK s \in Seqs : /\ s \in doomed /\ doomed' = doomed \ {s}
                        /\ old' = [old EXCEPT ![st][s] = None]
  BY DEF DeleteRoot, RInv, TypeOK
<1>2. /\ cur \in Subvols /\ st \in Stores /\ TypeOK
      /\ UNCHANGED <<cur, moved, pc>> /\ pc = "prune"
  BY ResetAssumption DEF DeleteRoot, RInv, Busy
<1>3. /\ old'[st][s] = None
      /\ \A x \in Seqs : x # s => old'[st][x] = old[st][x]
      /\ \A t \in Stores : t # st => old'[t] = old[t]
  <2> HIDE DEF st
  <2> QED
    BY <1>1, <1>2, OneNumber
<1>4. Sparing'
  BY <1>1, <1>2 DEF RInv, Sparing, Recent
<1>5. ASSUME NEW w \in Subvols PROVE (Numbered(w) /\ Held(w))'
  <2>1. CASE w # cur
    <3>1. StoreOf[w] # st /\ StoreOf[w] \in Stores
      BY <2>1, <1>2, ResetAssumption DEF OwnStore
    <3>2. old'[StoreOf[w]] = old[StoreOf[w]] /\ moved'[w] = moved[w]
      BY <3>1, <1>2, <1>3
    <3> QED
      BY <3>2 DEF RInv, Numbered, Held, At, Recent
  <2>2. CASE w = cur
    <3>1. Numbered(w)'
      BY <2>2, <1>2, <1>3 DEF RInv, Numbered, At
    <3>2. moved[w] \in 0 .. MaxSeq /\ MaxSeq \in Nat /\ Keep[w] \in Nat
      BY ResetAssumption DEF RInv, TypeOK
    <3>3. ASSUME NEW x \in 1 .. moved[w], Recent(w, x) PROVE At(w, x)' # None /\ At(w, x)'.whole
      <4>1. Keep[w] > 0 /\ x \in Seqs
        BY <3>2, <3>3 DEF Recent, Seqs
      <4>2. x # s
        BY <4>1, <3>3, <2>2, <1>1, <1>2 DEF RInv, Sparing
      <4> QED
        BY <4>1, <4>2, <3>3, <2>2, <1>3 DEF RInv, Held, At
    <3> QED
      BY <3>1, <3>3, <1>2 DEF Held, Recent
  <2> QED
    BY <2>1, <2>2
<1> QED
  BY <1>4, <1>5 DEF RInv

LEMMA RStep == OwnStore /\ RInv /\ [Next]_vars => RInv'
<1> SUFFICES ASSUME OwnStore, RInv, [Next]_vars PROVE RInv'
  OBVIOUS
<1>1. TypeOK' /\ Busy'
  BY TypeStep DEF RInv
<1>2. CASE Boot \/ Mount \/ Up \/ StageFails \/ Off
  <2>1. Sparing' /\ UNCHANGED <<old, moved>>
    BY <1>2 DEF Boot, Mount, Up, StageFails, Off, Sparing
  <2> QED
    BY <2>1, <1>1, SameRoots
<1>3. CASE DeleteFails
  <2>1. Sparing' /\ UNCHANGED <<old, moved>>
    BY <1>3 DEF DeleteFails, RInv, Sparing, Recent
  <2> QED
    BY <2>1, <1>1, SameRoots
<1>4. CASE \E v \in Subvols : Refuse(v) \/ NothingToMove(v)
  <2>1. Sparing' /\ UNCHANGED <<old, moved>>
    BY <1>4 DEF Refuse, NothingToMove, Sparing
  <2> QED
    BY <2>1, <1>1, SameRoots
<1>5. CASE UNCHANGED vars
  <2>1. Sparing' /\ UNCHANGED <<old, moved>>
    BY <1>5 DEF vars, RInv, Sparing, Recent
  <2> QED
    BY <2>1, <1>1, SameRoots
<1> QED
  BY <1>1, <1>2, <1>3, <1>4, <1>5, RotateKeeps, CreateKeeps, DeleteNestedKeeps, DeleteRootKeeps
     DEF Next

LEMMA RInit == Init => RInv
<1> SUFFICES ASSUME Init PROVE RInv
  OBVIOUS
<1>1. TypeOK /\ Busy
  BY TypeInit
<1>2. Sparing
  BY DEF Init, Sparing
<1>3. \A v \in Subvols : Numbered(v) /\ Held(v)
  BY ResetAssumption DEF Init, Numbered, Held, At
<1> QED
  BY <1>1, <1>2, <1>3 DEF RInv

\* Numbers count moves, and what is being deleted is never recent.
THEOREM ResetInvariant == ASSUME OwnStore PROVE Spec => []RInv
<1>1. RInv /\ [Next]_vars => RInv'
  BY RStep
<1> QED
  BY <1>1, RInit, PTL DEF Spec

\* The last keepOldRoots old roots of every subvolume are whole, through any number
\* of failing, interrupted and completed boots.
THEOREM RecentRootsSurvive == ASSUME OwnStore PROVE Spec => []RecentRootsKept
<1>1. RInv => RecentRootsKept
  <2> SUFFICES ASSUME RInv, NEW v \in Subvols, NEW n \in 1 .. moved[v], moved[v] - n < Keep[v]
               PROVE  \E s \in Seqs : old[StoreOf[v]][s]
                        = [of |-> v, nth |-> n, whole |-> TRUE]
    BY DEF RecentRootsKept
  <2>1. moved[v] \in 0 .. MaxSeq /\ MaxSeq \in Nat /\ Keep[v] \in Nat /\ StoreOf[v] \in Stores
    BY ResetAssumption DEF RInv, TypeOK
  <2>2. n \in Seqs /\ Keep[v] > 0 /\ Recent(v, n)
    BY <2>1 DEF Seqs, Recent
  <2>3. At(v, n) # None /\ At(v, n).whole
    BY <2>2 DEF RInv, Held
  <2>4. At(v, n).nth = n /\ At(v, n).of = v
    BY <2>2, <2>3 DEF RInv, Numbered
  <2>5. At(v, n) \in OldRoot
    BY <2>1, <2>2, <2>3 DEF RInv, TypeOK, At
  <2>6. At(v, n) = [of |-> v, nth |-> n, whole |-> TRUE]
    BY <2>3, <2>4, <2>5 DEF OldRoot
  <2> QED
    BY <2>2, <2>6 DEF At
<1> QED
  BY <1>1, ResetInvariant, PTL

-----------------------------------------------------------------------------
(* Pruning, and what a machine comes up on.                                   *)

\* A set of numbers has a least one.
LEMMA Least ==
  ASSUME NEW T \in SUBSET Nat, T # {}
  PROVE  \E m \in T : \A k \in T : m <= k
<1> DEFINE R == {p \in Nat \X Nat : p[1] < p[2]}
<1>1. IsWellFoundedOn(R, Nat)
  BY NatLessThanWellFounded DEF OpToRel
<1>2. PICK m \in T : \A k \in T : ~ (<<k, m>> \in R)
  BY <1>1, WFMin
<1>3. \A k \in T : m <= k
  <2> SUFFICES ASSUME NEW k \in T PROVE m <= k
    OBVIOUS
  <2>1. m \in Nat /\ k \in Nat /\ ~ (<<k, m>> \in R)
    BY <1>2
  <2> QED
    BY <2>1
<1> QED
  BY <1>3

\* What the pruning leaves of a store is no more than it was told to keep: the
\* least number that stays has fewer than that above it.
LEMMA PruneLeaves ==
  ASSUME NEW S \in SUBSET Seqs, NEW k \in Nat
  PROVE  Cardinality(S \ PruneCandidates(S, k)) <= k
<1> DEFINE L == S \ PruneCandidates(S, k)
           Above(s) == {t \in S : t > s}
<1>0. IsFiniteSet(S) /\ S \subseteq Nat /\ IsFiniteSet(L)
  <2>1. IsFiniteSet(Seqs)
    BY ResetAssumption, FS_Interval DEF Seqs
  <2>2. IsFiniteSet(S)
    BY <2>1, FS_Subset
  <2>3. IsFiniteSet(L)
    BY <2>2, FS_Subset
  <2> QED
    BY <2>2, <2>3, ResetAssumption DEF Seqs
<1>1. CASE L = {}
  BY <1>1, FS_EmptySet
<1>2. CASE L # {}
  <2>1. PICK m \in L : \A s \in L : m <= s
    BY <1>0, <1>2, Least
  <2>2. IsFiniteSet(Above(m)) /\ Cardinality(Above(m)) \in Nat
    BY <1>0, FS_Subset, FS_CardinalityType
  <2>3. Cardinality(Above(m)) < k
    BY <2>1, <2>2 DEF PruneCandidates
  <2>4. L \subseteq Above(m) \cup {m}
    <3> SUFFICES ASSUME NEW s \in L PROVE s = m \/ s > m
      OBVIOUS
    <3> QED
      BY <1>0, <2>1
  <2>5. IsFiniteSet(Above(m) \cup {m}) /\ Cardinality(Above(m) \cup {m}) <= k
    BY <2>2, <2>3, FS_AddElement
  <2>6. Cardinality(L) <= Cardinality(Above(m) \cup {m})
    BY <2>4, <2>5, FS_Subset
  <2>7. Cardinality(L) \in Nat /\ Cardinality(Above(m) \cup {m}) \in Nat
    BY <1>0, <2>5, FS_CardinalityType
  <2> QED
    BY <2>5, <2>6, <2>7
<1> QED
  BY <1>1, <1>2

\* A boot in stage 1, or one that has come up.
OnItsWay == pc \in {"reset", "create", "prune", "up"}

\* The subvolumes a boot is through with were made in this boot.
Made(v) == v \in fresh /\ place[v] # "missing"

Fresh == /\ OnItsWay => \A v \in Subvols \ todo : Made(v)
         /\ pc = "prune" => Made(cur)
         /\ pc = "up" => todo = {}

LEMMA FreshStep == TypeOK /\ Busy /\ Fresh /\ [Next]_vars => Fresh'
<1> SUFFICES ASSUME TypeOK, Busy, Fresh, [Next]_vars PROVE Fresh'
  OBVIOUS
<1> USE DEF Fresh, OnItsWay, Made
<1>1. CASE Boot \/ StageFails \/ Off
  BY <1>1 DEF Boot, StageFails, Off
<1>2. CASE Create
  BY <1>2 DEF Create, TypeOK, Busy
<1>3. CASE DeleteNested \/ DeleteRoot \/ DeleteFails
  BY <1>3 DEF DeleteNested, DeleteRoot, DeleteFails
<1>4. CASE Mount
  BY <1>4 DEF Mount
<1>5. CASE Up
  BY <1>5, ResetAssumption DEF Up, TypeOK
<1>6. ASSUME NEW v \in Subvols, Refuse(v) \/ Rotate(v) \/ NothingToMove(v) PROVE Fresh'
  BY <1>6 DEF Refuse, Rotate, NothingToMove, TypeOK
<1>7. CASE UNCHANGED vars
  BY <1>7 DEF vars
<1> QED
  BY <1>1, <1>2, <1>3, <1>4, <1>5, <1>6, <1>7 DEF Next

\* A machine that has come up runs on subvolumes made in this very boot, after any
\* number of boots that failed or were cut short. Stores may be shared here.
THEOREM ComesUpOnFreshRoots == Spec => []ComesUpFresh
<1>1. Init => Fresh
  BY DEF Init, Fresh, OnItsWay
<1>2. (TypeOK /\ Busy) /\ Fresh /\ [Next]_vars => Fresh'
  BY FreshStep
<1>3. TypeOK /\ Busy /\ Fresh => ComesUpFresh
  BY DEF Fresh, OnItsWay, Made, ComesUpFresh, TypeOK
<1> QED
  BY <1>1, <1>2, <1>3, ResetTypeCorrect, PTL DEF Spec

\* What a boot is through with is within its bound, and what is left of the store
\* that is being pruned will be, as long as no deletion has failed.
Kept(v) == Generations(StoreOf[v])

Bounded ==
  /\ OnItsWay /\ ~spared => \A v \in Subvols \ todo : Cardinality(Kept(v)) <= Keep[v]
  /\ pc = "prune" /\ ~spared => Cardinality(Kept(cur) \ doomed) <= Keep[cur]
  /\ pc = "up" => todo = {}
  /\ pc \in {"create", "prune"} => cur \in todo

\* The stores of other subvolumes stay as they are.
LEMMA OthersKept ==
  ASSUME OwnStore, TypeOK, NEW v \in Subvols, NEW s \in Seqs, NEW root \in OldRoot \cup {None},
         old' = [old EXCEPT ![StoreOf[v]][s] = root]
  PROVE  \A w \in Subvols \ {v} : Kept(w)' = Kept(w)
<1>1. \A w \in Subvols \ {v} : StoreOf[w] # StoreOf[v] /\ StoreOf[w] \in Stores
  BY ResetAssumption DEF OwnStore
<1>2. \A t \in Stores : t # StoreOf[v] => old'[t] = old[t]
  BY ResetAssumption, OneNumber
<1> QED
  BY <1>1, <1>2 DEF Kept, Generations

LEMMA BoundedStep == OwnStore /\ TypeOK /\ Busy /\ Bounded /\ [Next]_vars => Bounded'
<1> SUFFICES ASSUME OwnStore, TypeOK, Busy, Bounded, [Next]_vars PROVE Bounded'
  OBVIOUS
<1>1. CASE Boot \/ StageFails \/ Off \/ Up
  BY <1>1 DEF Boot, StageFails, Off, Up, TypeOK, Bounded, OnItsWay, Kept, Generations
<1>2. CASE Create
  <2>1. /\ UNCHANGED <<old, todo, cur, spared>> /\ pc = "create" /\ pc' = "prune"
        /\ doomed' = PruneCandidates(Kept(cur), Keep[cur])
    BY <1>2 DEF Create, Kept
  <2>2. cur \in Subvols /\ Kept(cur) \in SUBSET Seqs /\ Keep[cur] \in Nat
    BY <2>1, ResetAssumption DEF Busy, Kept, Generations
  <2>3. Cardinality(Kept(cur) \ doomed') <= Keep[cur]
    BY <2>1, <2>2, PruneLeaves
  <2> QED
    BY <2>1, <2>3 DEF Bounded, OnItsWay, Kept, Generations
<1>3. CASE DeleteNested
  <2> DEFINE st == StoreOf[cur]
  <2>1. PICK s \in Seqs : /\ s \in doomed
                          /\ old' = [old EXCEPT ![st][s] = [old[st][s] EXCEPT !.whole = FALSE]]
    BY <1>3 DEF DeleteNested, TypeOK
  <2>2. /\ UNCHANGED <<pc, todo, cur, doomed, spared>> /\ pc = "prune" /\ cur \in Subvols
        /\ s \in Kept(cur) /\ st \in Stores /\ old[st][s] \in OldRoot
    BY <1>3, <2>1, ResetAssumption DEF DeleteNested, Busy, TypeOK, Kept, Generations
  <2> DEFINE root == [old[st][s] EXCEPT !.whole = FALSE]
  <2>3. root \in OldRoot /\ root # None
    BY <2>2, RootAssumption DEF OldRoot
  <2>4. old' = [old EXCEPT ![st][s] = root]
    BY <2>1
  <2> HIDE DEF root
  <2>5. \A w \in Subvols \ {cur} : Kept(w)' = Kept(w)
    BY <2>2, <2>3, <2>4, OthersKept
  <2> HIDE DEF st
  <2>6. /\ old'[st][s] = root
        /\ \A x \in Seqs : x # s => old'[st][x] = old[st][x]
    BY <2>2, <2>3, <2>4, OneNumber
  <2>7. Kept(cur)' = Kept(cur)
    BY <2>2, <2>3, <2>6 DEF Kept, Generations, st
  <2> QED
    BY <2>2, <2>5, <2>7 DEF Bounded, OnItsWay
<1>4. CASE DeleteRoot
  <2> DEFINE st == StoreOf[cur]
  <2>1. PICK s \in Seqs : /\ s \in doomed /\ doomed' = doomed \ {s}
                          /\ old' = [old EXCEPT ![st][s] = None]
    BY <1>4 DEF DeleteRoot, TypeOK
  <2>2. /\ UNCHANGED <<pc, todo, cur, spared>> /\ pc = "prune" /\ cur \in Subvols /\ st \in Stores
    BY <1>4, ResetAssumption DEF DeleteRoot, Busy
  <2>3. \A w \in Subvols \ {cur} : Kept(w)' = Kept(w)
    BY <2>1, <2>2, OthersKept
  <2> HIDE DEF st
  <2>4. /\ old'[st][s] = None
        /\ \A x \in Seqs : x # s => old'[st][x] = old[st][x]
    BY <2>1, <2>2, OneNumber
  <2>5. Kept(cur)' = Kept(cur) \ {s}
    BY <2>2, <2>4 DEF Kept, Generations, st
  <2>6. (Kept(cur) \ doomed)' = Kept(cur) \ doomed
    BY <2>1, <2>5
  <2> QED
    BY <2>2, <2>3, <2>6 DEF Bounded, OnItsWay
<1>5. CASE DeleteFails
  BY <1>5 DEF DeleteFails, Bounded, OnItsWay
<1>6. CASE Mount
  <2>1. /\ UNCHANGED <<old, spared>> /\ pc = "prune" /\ pc' = "reset" /\ doomed = {}
        /\ todo' = todo \ {cur} /\ cur \in Subvols
    BY <1>6 DEF Mount, Busy
  <2>2. ~spared => Cardinality(Kept(cur)) <= Keep[cur]
    BY <2>1 DEF Bounded
  <2> QED
    BY <2>1, <2>2 DEF Bounded, OnItsWay, Kept, Generations
<1>7. ASSUME NEW v \in Subvols, Rotate(v) PROVE Bounded'
  <2> DEFINE seq == NextSeq(Generations(StoreOf[v]))
             root == [of |-> v, nth |-> moved[v] + 1, whole |-> TRUE]
  <2>1. /\ pc = "reset" /\ pc' = "create" /\ v \in todo /\ cur' = v /\ UNCHANGED <<todo, spared>>
        /\ seq \in Seqs /\ moved[v] < MaxSeq /\ old' = [old EXCEPT ![StoreOf[v]][seq] = root]
    BY <1>7 DEF Rotate
  <2>2. root \in OldRoot
    BY <2>1, ResetAssumption DEF OldRoot, TypeOK
  <2> HIDE DEF seq, root
  <2>3. \A w \in Subvols \ {v} : Kept(w)' = Kept(w)
    BY <2>1, <2>2, OthersKept
  <2> QED
    BY <2>1, <2>3 DEF Bounded, OnItsWay
<1>8. ASSUME NEW v \in Subvols, Refuse(v) \/ NothingToMove(v) PROVE Bounded'
  BY <1>8 DEF Refuse, NothingToMove, Bounded, OnItsWay, Kept, Generations
<1>9. CASE UNCHANGED vars
  BY <1>9 DEF vars, Bounded, OnItsWay, Kept, Generations
<1> QED
  BY <1>1, <1>2, <1>3, <1>4, <1>5, <1>6, <1>7, <1>8, <1>9 DEF Next

\* A machine that is up, no deletion of this boot having failed, has no more old roots
\* than it was told to keep, whatever earlier boots had left behind. Nothing is said of
\* one on its way up, nor after a deletion that failed.
THEOREM OldRootsAreBounded == ASSUME OwnStore PROVE Spec => []StoreIsBounded
<1>1. Init => Bounded
  BY DEF Init, Bounded, OnItsWay
<1>2. (TypeOK /\ Busy) /\ Bounded /\ [Next]_vars => Bounded'
  BY BoundedStep
<1>3. (TypeOK /\ Busy) /\ Bounded => StoreIsBounded
  BY DEF Bounded, OnItsWay, StoreIsBounded, Kept
<1> QED
  BY <1>1, <1>2, <1>3, ResetTypeCorrect, PTL DEF Spec

=============================================================================
