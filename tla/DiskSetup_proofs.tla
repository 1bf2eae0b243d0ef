-------------------------- MODULE DiskSetup_proofs ---------------------------
(* Formatting and images, for all plans and trees and any history of runs.   *)
EXTENDS DiskSetup, FiniteSetTheorems, WellFoundedInduction, TLAPS

-----------------------------------------------------------------------------
(* Sequences of sequences.                                                 *)

\* Induction by the least counterexample.
LEMMA Least ==
  ASSUME NEW T \in SUBSET Nat, T # {}
  PROVE  \E m \in T : \A k \in T : m <= k
<1> DEFINE R == {p \in Nat \X Nat : p[1] < p[2]}
<1>1. IsWellFoundedOn(R, Nat)
  BY NatLessThanWellFounded DEF OpToRel
<1>2. PICK m \in T : \A k \in T : ~ (<<k, m>> \in R)
  BY <1>1, WFMin
<1>3. \A k \in T : m <= k
  <2> SUFFICES ASSUME NEW k \in T PROVE m <= k
    OBVIOUS
  <2>1. m \in Nat /\ k \in Nat /\ ~ (<<k, m>> \in R)
    BY <1>2
  <2> QED
    BY <2>1
<1> QED
  BY <1>3

\* The equation FlattenSeq is defined by.
Flattens(f, ss, n) == f = [i \in 1..n |-> IF i = 1 THEN ss[i] ELSE f[i - 1] \o ss[i]]

LEMMA FlattenExists ==
  ASSUME NEW S, NEW ss \in Seq(Seq(S)), NEW n \in 1..Len(ss)
  PROVE  \E f : Flattens(f, ss, n)
<1> DEFINE T == {k \in Nat : k \in 1..Len(ss) /\ ~ \E f : Flattens(f, ss, k)}
<1> SUFFICES ASSUME T # {} PROVE FALSE
  OBVIOUS
<1>1. PICK m \in T : \A k \in T : m <= k
  BY Least
<1>2. CASE m = 1
  <2> DEFINE f == [i \in 1..1 |-> ss[i]]
  <2>1. Flattens(f, ss, 1)
    BY DEF Flattens
  <2> QED
    BY <1>1, <1>2, <2>1
<1>3. CASE m # 1
  <2>0. m \in 1..Len(ss) /\ m \in Nat /\ Len(ss) \in Nat
    BY <1>1
  <2>1. m - 1 \in Nat /\ m - 1 \in 1..Len(ss) /\ ~ (m <= m - 1)
    BY <1>3, <2>0
  <2>a. m - 1 \notin T
    BY <1>1, <2>1
  <2>2. PICK g : Flattens(g, ss, m - 1)
    BY <2>1, <2>a
  <2> DEFINE f == [i \in 1..m |-> IF i = m THEN g[m - 1] \o ss[m] ELSE g[i]]
  <2>3. ASSUME NEW i \in 1..m
        PROVE  f[i] = IF i = 1 THEN ss[i] ELSE f[i - 1] \o ss[i]
    <3>1. CASE i = m
      <4>1. m - 1 \in 1..m /\ m - 1 # m
        BY <1>3, <2>0
      <4> QED
        BY <1>3, <3>1, <4>1
    <3>2. CASE i # m
      <4>1. i \in 1..(m - 1)
        BY <3>2
      <4>2. g[i] = IF i = 1 THEN ss[i] ELSE g[i - 1] \o ss[i]
        BY <2>2, <4>1 DEF Flattens
      <4>3. i # 1 => i - 1 \in 1..m /\ i - 1 # m
        BY <4>1
      <4> QED
        BY <3>2, <4>2, <4>3
    <3> QED
      BY <3>1, <3>2
  <2>4. f = [i \in 1..m |-> IF i = 1 THEN ss[i] ELSE f[i - 1] \o ss[i]]
    BY <2>3
  <2>5. Flattens(f, ss, m)
    BY <2>4 DEF Flattens
  <2> QED
    BY <1>1, <2>5
<1> QED
  BY <1>2, <1>3

LEMMA FlattenIs ==
  ASSUME NEW S, NEW ss \in Seq(Seq(S)), Len(ss) # 0
  PROVE  \E f : Flattens(f, ss, Len(ss)) /\ FlattenSeq(ss) = f[Len(ss)]
<1> DEFINE F == CHOOSE f : f = [i \in 1..Len(ss) |-> IF i = 1 THEN ss[i] ELSE f[i - 1] \o ss[i]]
<1>1. Len(ss) \in 1..Len(ss)
  OBVIOUS
<1>2. \E f : f = [i \in 1..Len(ss) |-> IF i = 1 THEN ss[i] ELSE f[i - 1] \o ss[i]]
  BY <1>1, FlattenExists DEF Flattens
<1>3. F = [i \in 1..Len(ss) |-> IF i = 1 THEN ss[i] ELSE F[i - 1] \o ss[i]]
  BY <1>2
<1>4. FlattenSeq(ss) = F[Len(ss)]
  BY DEF FlattenSeq
<1> QED
  BY <1>3, <1>4 DEF Flattens
\* Element q of flat is element col[q] of row[q] of the first n sequences of ss, in
\* their order, and every element is there.
Laid(flat, ss, n, row, col) ==
  /\ row \in [1..Len(flat) -> 1..n] /\ col \in [1..Len(flat) -> Nat]
  /\ \A q \in 1..Len(flat) : col[q] \in 1..Len(ss[row[q]]) /\ flat[q] = ss[row[q]][col[q]]
  /\ \A q, r \in 1..Len(flat) : q < r => row[q] < row[r] \/ (row[q] = row[r] /\ col[q] < col[r])
  /\ \A i \in 1..n : \A j \in 1..Len(ss[i]) : \E q \in 1..Len(flat) : row[q] = i /\ col[q] = j

\* One more sequence behind the others.
LEMMA OneMoreRow ==
  ASSUME NEW S, NEW ss \in Seq(Seq(S)), NEW n \in Nat, n + 1 \in 1..Len(ss),
         NEW flat \in Seq(S), NEW row, NEW col, Laid(flat, ss, n, row, col)
  PROVE  \E r, c : Laid(flat \o ss[n + 1], ss, n + 1, r, c)
<1> DEFINE more == flat \o ss[n + 1]
           L == Len(flat)
           M == Len(ss[n + 1])
           r == [q \in 1..Len(more) |-> IF q <= L THEN row[q] ELSE n + 1]
           c == [q \in 1..Len(more) |-> IF q <= L THEN col[q] ELSE q - L]
<1>1. ss[n + 1] \in Seq(S) /\ L \in Nat /\ M \in Nat
  OBVIOUS
<1>2. /\ Len(more) = L + M
      /\ \A q \in 1..(L + M) : more[q] = IF q <= L THEN flat[q] ELSE ss[n + 1][q - L]
  BY <1>1
<1>3. \A q \in 1..(L + M) : q \in 1..L \/ (q > L /\ q - L \in 1..M)
  BY <1>1
<1>4. /\ \A q \in 1..L : row[q] \in 1..n /\ col[q] \in Nat
      /\ \A q \in 1..L : col[q] \in 1..Len(ss[row[q]]) /\ flat[q] = ss[row[q]][col[q]]
  BY DEF Laid
<1>a. r = [q \in 1..(L + M) |-> IF q <= L THEN row[q] ELSE n + 1]
      /\ c = [q \in 1..(L + M) |-> IF q <= L THEN col[q] ELSE q - L]
  BY <1>2
<1> HIDE DEF more, r, c
<1>5. r \in [1..(L + M) -> 1..(n + 1)] /\ c \in [1..(L + M) -> Nat]
  BY <1>1, <1>a, <1>3, <1>4
<1>6. \A q \in 1..(L + M) : c[q] \in 1..Len(ss[r[q]]) /\ more[q] = ss[r[q]][c[q]]
  <2> SUFFICES ASSUME NEW q \in 1..(L + M) PROVE c[q] \in 1..Len(ss[r[q]]) /\ more[q] = ss[r[q]][c[q]]
    OBVIOUS
  <2>1. CASE q \in 1..L
    BY <1>1, <1>2, <1>4, <1>a, <2>1
  <2>2. CASE q > L /\ q - L \in 1..M
    <3>1. r[q] = n + 1 /\ c[q] = q - L /\ more[q] = ss[n + 1][q - L]
      BY <1>1, <1>2, <1>a, <2>2
    <3> QED
      BY <2>2, <3>1
  <2> QED
    BY <1>3, <2>1, <2>2
<1>7. \A q, p \in 1..(L + M) : q < p => r[q] < r[p] \/ (r[q] = r[p] /\ c[q] < c[p])
  <2> SUFFICES ASSUME NEW q \in 1..(L + M), NEW p \in 1..(L + M), q < p
               PROVE  r[q] < r[p] \/ (r[q] = r[p] /\ c[q] < c[p])
    OBVIOUS
  <2>1. CASE p \in 1..L
    <3>1. q \in 1..L /\ r[q] = row[q] /\ r[p] = row[p] /\ c[q] = col[q] /\ c[p] = col[p]
      BY <1>1, <1>a, <2>1
    <3> QED
      BY <2>1, <3>1 DEF Laid
  <2>2. CASE q \in 1..L /\ p > L
    <3>1. r[q] = row[q] /\ r[p] = n + 1
      BY <1>1, <1>a, <2>2
    <3>2. row[q] \in 1..n
      BY <1>4, <2>2
    <3> QED
      BY <3>1, <3>2
  <2>3. CASE q > L /\ p > L
    <3>1. r[q] = n + 1 /\ r[p] = n + 1 /\ c[q] = q - L /\ c[p] = p - L
      BY <1>1, <1>a, <2>3
    <3> QED
      BY <1>1, <3>1
  <2> QED
    BY <1>3, <2>1, <2>2, <2>3
<1>8. \A i \in 1..(n + 1) : \A j \in 1..Len(ss[i]) : \E q \in 1..(L + M) : r[q] = i /\ c[q] = j
  <2> SUFFICES ASSUME NEW i \in 1..(n + 1), NEW j \in 1..Len(ss[i])
               PROVE  \E q \in 1..(L + M) : r[q] = i /\ c[q] = j
    OBVIOUS
  <2>1. CASE i \in 1..n
    <3>1. PICK q \in 1..L : row[q] = i /\ col[q] = j
      BY <2>1 DEF Laid
    <3>2. q \in 1..(L + M) /\ r[q] = i /\ c[q] = j
      BY <1>1, <1>a, <3>1
    <3> QED
      BY <3>2
  <2>2. CASE i = n + 1
    <3>1. L + j \in 1..(L + M) /\ ~ (L + j <= L) /\ (L + j) - L = j
      BY <1>1, <2>2
    <3>2. r[L + j] = i /\ c[L + j] = j
      BY <1>a, <2>2, <3>1
    <3> QED
      BY <3>1, <3>2
  <2> QED
    BY <2>1, <2>2
<1>9. Laid(more, ss, n + 1, r, c)
  BY <1>2, <1>5, <1>6, <1>7, <1>8 DEF Laid
<1> QED
  BY <1>9 DEF more

\* FlattenSeq lays all its sequences one behind the other.
LEMMA FlattenLays ==
  ASSUME NEW S, NEW ss \in Seq(Seq(S))
  PROVE  FlattenSeq(ss) \in Seq(S) /\ \E row, col : Laid(FlattenSeq(ss), ss, Len(ss), row, col)
<1>1. CASE Len(ss) = 0
  <2>1. FlattenSeq(ss) = <<>> /\ ss = <<>>
    BY <1>1 DEF FlattenSeq
  <2>2. Laid(<<>>, ss, 0, <<>>, <<>>)
    BY <2>1 DEF Laid
  <2> QED
    BY <1>1, <2>1, <2>2
<1>2. CASE Len(ss) # 0
  <2>1. PICK f : Flattens(f, ss, Len(ss)) /\ FlattenSeq(ss) = f[Len(ss)]
    BY <1>2, FlattenIs
  <2>2. \A i \in 1..Len(ss) : f[i] = IF i = 1 THEN ss[i] ELSE f[i - 1] \o ss[i]
    BY <2>1 DEF Flattens
  <2> DEFINE Good(k) == f[k] \in Seq(S) /\ \E row, col : Laid(f[k], ss, k, row, col)
             T == {k \in Nat : k \in 1..Len(ss) /\ ~ Good(k)}
  <2>3. T = {}
    <3> SUFFICES ASSUME T # {} PROVE FALSE
      OBVIOUS
    <3>1. PICK m \in T : \A k \in T : m <= k
      BY Least
    <3>2. m \in 1..Len(ss) /\ m \in Nat /\ Len(ss) \in Nat /\ ~ Good(m)
      BY <3>1
    <3>3. CASE m = 1
      <4>1. f[1] = <<>> \o ss[0 + 1] /\ f[1] = ss[1]
        BY <2>2, <3>2, <3>3
      <4>2. Laid(<<>>, ss, 0, <<>>, <<>>) /\ <<>> \in Seq(S)
        BY DEF Laid
      <4>a. 0 \in Nat /\ 0 + 1 \in 1..Len(ss)
        BY <3>2, <3>3
      <4>3. \E r, c : Laid(<<>> \o ss[0 + 1], ss, 0 + 1, r, c)
        BY <4>2, <4>a, OneMoreRow
      <4>4. f[1] \in Seq(S)
        BY <3>2, <3>3, <4>1
      <4> QED
        BY <3>2, <3>3, <4>1, <4>3, <4>4
    <3>4. CASE m # 1
      <4>1. m - 1 \in Nat /\ m - 1 \in 1..Len(ss) /\ ~ (m <= m - 1) /\ (m - 1) + 1 = m
        BY <3>2, <3>4
      <4>2. Good(m - 1)
        BY <3>1, <4>1
      <4>3. f[m] = f[m - 1] \o ss[m]
        BY <2>2, <3>2, <3>4
      <4>4. \E r, c : Laid(f[m - 1] \o ss[(m - 1) + 1], ss, (m - 1) + 1, r, c)
        BY <3>2, <4>1, <4>2, OneMoreRow
      <4>5. f[m] \in Seq(S)
        BY <3>2, <4>2, <4>3
      <4> QED
        BY <3>2, <4>1, <4>3, <4>4, <4>5
    <3> QED
      BY <3>3, <3>4
  <2>4. Good(Len(ss))
    BY <1>2, <2>3
  <2> QED
    BY <2>1, <2>4
<1> QED
  BY <1>1, <1>2

-----------------------------------------------------------------------------
(* The commands of a format.                                               *)

Ops == {"zap", "new", "reread", "wait", "wipefs", "luksFormat", "open", "mkfs"}

Commands == [op : Ops, part : Nat]

\* The command that leaves on partition i what the plan has there.
LastWrite(i) == IF Parts[i].kind = "none" THEN Cmd("wipefs", i) ELSE Cmd("mkfs", i)

IsSeq(s) == \E S : s \in Seq(S)

LEMMA Behind ==
  ASSUME NEW S, NEW h \in Seq(S), NEW t \in Seq(S)
  PROVE  /\ h \o t \in Seq(S) /\ Len(h \o t) = Len(h) + Len(t) /\ Len(h) \in Nat /\ Len(t) \in Nat
         /\ \A j \in 1..Len(h) : (h \o t)[j] = h[j]
         /\ \A j \in (Len(h) + 1)..(Len(h) + Len(t)) : j - Len(h) \in 1..Len(t) /\ (h \o t)[j] = t[j - Len(h)]
  OBVIOUS

LEMMA FsCmdsAre ==
  ASSUME NEW i \in Nat
  PROVE  /\ FsCmds(i) \in Seq(Commands) /\ Len(FsCmds(i)) \in Nat \ {0}
         /\ \A j \in 1..Len(FsCmds(i)) :
              /\ FsCmds(i)[j].part = i /\ FsCmds(i)[j].op \in {"wipefs", "luksFormat", "open", "mkfs"}
              /\ FsCmds(i)[j] = LastWrite(i) => j = Len(FsCmds(i))
              /\ FsCmds(i)[j].op = "open" =>
                   Parts[i].kind = "luks" /\ \A k \in 1..Len(FsCmds(i)) : k > j => FsCmds(i)[k].op = "mkfs"
         /\ FsCmds(i)[Len(FsCmds(i))] = LastWrite(i)
<1>1. /\ Cmd("wipefs", i) \in Commands /\ Cmd("luksFormat", i) \in Commands
      /\ Cmd("open", i) \in Commands /\ Cmd("mkfs", i) \in Commands
  BY DEF Cmd, Commands, Ops
<1> DEFINE rest == CASE Parts[i].kind = "none" -> <<>>
                     [] Parts[i].kind = "luks" -> <<Cmd("luksFormat", i), Cmd("open", i), Cmd("mkfs", i)>>
                     [] OTHER                  -> <<Cmd("mkfs", i)>>
           f == FsCmds(i)
<1>2. f = <<Cmd("wipefs", i)>> \o rest
  BY DEF FsCmds
<1>3. /\ Parts[i].kind = "none" => rest = <<>>
      /\ Parts[i].kind = "luks" => rest = <<Cmd("luksFormat", i), Cmd("open", i), Cmd("mkfs", i)>>
      /\ Parts[i].kind # "none" /\ Parts[i].kind # "luks" => rest = <<Cmd("mkfs", i)>>
  OBVIOUS
<1>4. /\ Parts[i].kind = "none" => LastWrite(i) = Cmd("wipefs", i)
      /\ Parts[i].kind # "none" => LastWrite(i) = Cmd("mkfs", i)
  BY DEF LastWrite
<1> HIDE DEF rest, f
<1>5. CASE Parts[i].kind = "none"
  <2>1. f \in Seq(Commands) /\ Len(f) = 1 /\ f[1] = Cmd("wipefs", i)
    BY <1>1, <1>2, <1>3, <1>5
  <2> QED
    BY <1>4, <1>5, <2>1 DEF Cmd, f
<1>6. CASE Parts[i].kind = "luks"
  <2>1. rest \in Seq(Commands) /\ Len(rest) = 3 /\ rest[1] = Cmd("luksFormat", i)
        /\ rest[2] = Cmd("open", i) /\ rest[3] = Cmd("mkfs", i)
    BY <1>1, <1>3, <1>6
  <2>2. f \in Seq(Commands) /\ Len(f) = 4 /\ f[1] = Cmd("wipefs", i)
        /\ \A j \in 2..4 : f[j] = rest[j - 1]
    <3> DEFINE h == <<Cmd("wipefs", i)>>
    <3>1. h \in Seq(Commands) /\ Len(h) = 1 /\ h[1] = Cmd("wipefs", i) /\ f = h \o rest
      BY <1>1, <1>2
    <3> HIDE DEF h
    <3>2. /\ f \in Seq(Commands) /\ Len(f) = 1 + 3
          /\ \A j \in 1..1 : f[j] = h[j]
          /\ \A j \in (1 + 1)..(1 + 3) : f[j] = rest[j - 1]
      <4>1. /\ f \in Seq(Commands) /\ Len(f) = Len(h) + Len(rest)
            /\ \A j \in 1..Len(h) : f[j] = h[j]
            /\ \A j \in (Len(h) + 1)..(Len(h) + Len(rest)) : f[j] = rest[j - Len(h)]
        BY <2>1, <3>1, Behind
      <4> QED
        BY <2>1, <3>1, <4>1
    <3> QED
      BY <3>1, <3>2
  <2>3. f[2] = Cmd("luksFormat", i) /\ f[3] = Cmd("open", i) /\ f[4] = Cmd("mkfs", i)
    BY <2>1, <2>2
  <2>4. \A j \in 1..4 : j = 1 \/ j = 2 \/ j = 3 \/ j = 4
    OBVIOUS
  <2>5. \A j \in 1..4 :
          /\ f[j].part = i /\ f[j].op \in {"wipefs", "luksFormat", "open", "mkfs"}
          /\ f[j] = LastWrite(i) => j = 4
          /\ f[j].op = "open" => \A k \in 1..4 : k > j => f[k].op = "mkfs"
    BY <1>4, <1>6, <2>2, <2>3, <2>4 DEF Cmd
  <2>6. f[Len(f)] = LastWrite(i)
    BY <1>4, <1>6, <2>2, <2>3
  <2> QED
    BY <1>6, <2>2, <2>5, <2>6 DEF f
<1>7. CASE Parts[i].kind # "none" /\ Parts[i].kind # "luks"
  <2>0. rest = <<Cmd("mkfs", i)>>
    BY <1>3, <1>7
  <2>1. rest \in Seq(Commands) /\ Len(rest) = 1 /\ rest[1] = Cmd("mkfs", i)
    BY <1>1, <2>0
  <2>2. f \in Seq(Commands) /\ Len(f) = 2 /\ f[1] = Cmd("wipefs", i) /\ f[2] = Cmd("mkfs", i)
    <3>1. <<Cmd("wipefs", i)>> \in Seq(Commands) /\ Len(<<Cmd("wipefs", i)>>) = 1
      BY <1>1
    <3> QED
      BY <1>2, <2>1, <3>1, Behind
  <2>3. \A j \in 1..2 : j = 1 \/ j = 2
    OBVIOUS
  <2> QED
    BY <1>4, <1>7, <2>2, <2>3 DEF Cmd, f
<1> QED
  BY <1>5, <1>6, <1>7

\* The table first, made anew and taken over, then the partitions one by one: what a
\* partition is left with is written last, and its mapping is opened in between.
Orderly(c) ==
  /\ c \in Seq(Commands) /\ Len(c) \in Nat /\ Len(c) >= 4
  /\ c[1].op = "zap" /\ c[2].op = "new" /\ c[3].op = "reread" /\ c[4].op = "wait"
  /\ \A q \in 5..Len(c) :
       c[q].part \in 1..Len(Parts) /\ c[q].op \in {"wipefs", "luksFormat", "open", "mkfs"}
  /\ \A i \in 1..Len(Parts) : \E q \in 5..Len(c) : c[q] = LastWrite(i)
  /\ \A i \in 1..Len(Parts) : \A q, r \in 5..Len(c) : q < r /\ c[q] = LastWrite(i) => c[r].part # i
  /\ \A q \in 5..Len(c) : c[q].op = "open" =>
       /\ Parts[c[q].part].kind = "luks"
       /\ \A r \in 5..Len(c) : q < r /\ c[r].part = c[q].part => c[r].op = "mkfs"

LEMMA FormatIsOrderly ==
  ASSUME IsSeq(Parts)
  PROVE  Orderly(FormatCmds)
<1> DEFINE n == Len(Parts)
           ss == [i \in 1..n |-> FsCmds(i)]
           flat == FlattenSeq(ss)
           head == <<Cmd("zap", 0), Cmd("new", 0), Cmd("reread", 0), Cmd("wait", 0)>>
           c == head \o flat
<1>1. n \in Nat
  BY DEF IsSeq
<1>5. FormatCmds = c
  BY DEF FormatCmds
<1>6. /\ head \in Seq(Commands) /\ Len(head) = 4
      /\ head[1].op = "zap" /\ head[2].op = "new" /\ head[3].op = "reread" /\ head[4].op = "wait"
  BY DEF Cmd, Commands, Ops
<1> HIDE DEF head, n
<1>2. ss \in Seq(Seq(Commands)) /\ Len(ss) = n /\ \A i \in 1..n : ss[i] = FsCmds(i)
  <2>1. \A i \in 1..n : FsCmds(i) \in Seq(Commands)
    BY <1>1, FsCmdsAre
  <2> QED
    BY <1>1, <2>1
<1> HIDE DEF ss
<1>3. flat \in Seq(Commands) /\ \E row, col : Laid(flat, ss, n, row, col)
  BY <1>2, FlattenLays
<1>4. PICK row, col : Laid(flat, ss, n, row, col)
  BY <1>3
<1> HIDE DEF flat
<1>7. /\ c \in Seq(Commands) /\ Len(c) = 4 + Len(flat) /\ Len(flat) \in Nat
      /\ \A q \in 1..4 : c[q] = head[q]
      /\ \A q \in 5..Len(c) : q - 4 \in 1..Len(flat) /\ c[q] = flat[q - 4]
  <2>1. /\ c \in Seq(Commands) /\ Len(c) = 4 + Len(flat) /\ Len(flat) \in Nat
        /\ \A q \in 1..4 : c[q] = head[q]
        /\ \A q \in (4 + 1)..(4 + Len(flat)) : q - 4 \in 1..Len(flat) /\ c[q] = flat[q - 4]
    <3>1. head \in Seq(Commands) /\ flat \in Seq(Commands)
      BY <1>3, <1>6
    <3>2. /\ c \in Seq(Commands) /\ Len(c) = Len(head) + Len(flat) /\ Len(flat) \in Nat
          /\ \A q \in 1..Len(head) : c[q] = head[q]
          /\ \A q \in (Len(head) + 1)..(Len(head) + Len(flat)) :
               q - Len(head) \in 1..Len(flat) /\ c[q] = flat[q - Len(head)]
      BY <3>1, Behind
    <3> QED
      BY <1>6, <3>2
  <2> QED
    BY <2>1
<1> HIDE DEF c
<1>8. \A q \in 1..Len(flat) : q + 4 \in 5..Len(c) /\ c[q + 4] = flat[q]
  BY <1>7
<1>9. \A q \in 1..Len(flat) : row[q] \in 1..n /\ row[q] \in Nat /\ col[q] \in Nat
        /\ col[q] \in 1..Len(FsCmds(row[q])) /\ flat[q] = FsCmds(row[q])[col[q]]
  <2> SUFFICES ASSUME NEW q \in 1..Len(flat)
               PROVE  /\ row[q] \in 1..n /\ row[q] \in Nat /\ col[q] \in Nat
                      /\ col[q] \in 1..Len(FsCmds(row[q])) /\ flat[q] = FsCmds(row[q])[col[q]]
    OBVIOUS
  <2>1. row[q] \in 1..n /\ col[q] \in Nat /\ col[q] \in 1..Len(ss[row[q]]) /\ flat[q] = ss[row[q]][col[q]]
    BY <1>4 DEF Laid
  <2>2. ss[row[q]] = FsCmds(row[q]) /\ row[q] \in Nat
    BY <1>1, <1>2, <2>1
  <2> QED
    BY <2>1, <2>2
<1>a. \A q \in 1..Len(flat) : flat[q].part = row[q] /\ flat[q].op \in {"wipefs", "luksFormat", "open", "mkfs"}
  <2> SUFFICES ASSUME NEW q \in 1..Len(flat)
               PROVE  flat[q].part = row[q] /\ flat[q].op \in {"wipefs", "luksFormat", "open", "mkfs"}
    OBVIOUS
  <2>1. /\ row[q] \in Nat /\ col[q] \in 1..Len(FsCmds(row[q])) /\ flat[q] = FsCmds(row[q])[col[q]]
    BY <1>9
  <2>2. /\ FsCmds(row[q])[col[q]].part = row[q]
        /\ FsCmds(row[q])[col[q]].op \in {"wipefs", "luksFormat", "open", "mkfs"}
    BY <2>1, FsCmdsAre
  <2> QED
    BY <2>1, <2>2
<1>b. \A i \in 1..n : \E q \in 5..Len(c) : c[q] = LastWrite(i)
  <2> SUFFICES ASSUME NEW i \in 1..n PROVE \E q \in 5..Len(c) : c[q] = LastWrite(i)
    OBVIOUS
  <2>0. i \in Nat
    BY <1>1
  <2>1. Len(FsCmds(i)) \in 1..Len(ss[i]) /\ FsCmds(i)[Len(FsCmds(i))] = LastWrite(i)
    <3>1. Len(FsCmds(i)) \in Nat \ {0} /\ FsCmds(i)[Len(FsCmds(i))] = LastWrite(i)
      BY <2>0, FsCmdsAre
    <3>2. ss[i] = FsCmds(i)
      BY <1>2
    <3> QED
      BY <3>1, <3>2
  <2>2. PICK q \in 1..Len(flat) : row[q] = i /\ col[q] = Len(FsCmds(i))
    BY <1>4, <2>1 DEF Laid
  <2>3. c[q + 4] = LastWrite(i) /\ q + 4 \in 5..Len(c)
    BY <1>8, <1>9, <2>1, <2>2
  <2> QED
    BY <2>3
<1>c. ASSUME NEW i \in 1..n, NEW q \in 5..Len(c), NEW r \in 5..Len(c), q < r, c[q] = LastWrite(i)
      PROVE  c[r].part # i
  <2>1. q - 4 \in 1..Len(flat) /\ r - 4 \in 1..Len(flat) /\ q - 4 < r - 4
    BY <1>7, <1>c
  <2>2. row[q - 4] = i
    <3>1. c[q].part = i
      BY <1>c DEF LastWrite, Cmd
    <3> QED
      BY <1>7, <1>a, <2>1, <3>1
  <2>3. i \in Nat /\ col[q - 4] = Len(FsCmds(i))
    <3>1. i \in Nat /\ c[q] = flat[q - 4]
      BY <1>1, <1>7
    <3>2. col[q - 4] \in 1..Len(FsCmds(i)) /\ FsCmds(i)[col[q - 4]] = LastWrite(i)
      BY <1>9, <1>c, <2>1, <2>2, <3>1
    <3> QED
      BY <3>1, <3>2, FsCmdsAre
  <2>4. row[q - 4] < row[r - 4] \/ (row[q - 4] = row[r - 4] /\ col[q - 4] < col[r - 4])
    BY <1>4, <2>1 DEF Laid
  <2>5. row[r - 4] = i => col[r - 4] \in 1..Len(FsCmds(i)) /\ Len(FsCmds(i)) \in Nat
    BY <1>9, <2>1, <2>3, FsCmdsAre
  <2>6. row[r - 4] # i
    BY <2>2, <2>3, <2>4, <2>5
  <2> QED
    BY <1>7, <1>a, <2>1, <2>6
<1>d. ASSUME NEW q \in 5..Len(c), c[q].op = "open"
      PROVE  /\ Parts[c[q].part].kind = "luks"
             /\ \A r \in 5..Len(c) : q < r /\ c[r].part = c[q].part => c[r].op = "mkfs"
  <2>1. q - 4 \in 1..Len(flat) /\ c[q] = flat[q - 4] /\ row[q - 4] \in Nat
    BY <1>1, <1>7, <1>9
  <2>2. c[q].part = row[q - 4] /\ Parts[c[q].part].kind = "luks"
    <3>1. /\ col[q - 4] \in 1..Len(FsCmds(row[q - 4])) /\ flat[q - 4] = FsCmds(row[q - 4])[col[q - 4]]
          /\ flat[q - 4].part = row[q - 4]
      BY <1>9, <1>a, <2>1
    <3>2. FsCmds(row[q - 4])[col[q - 4]].op = "open"
      BY <1>d, <2>1, <3>1
    <3>3. Parts[row[q - 4]].kind = "luks"
      BY <2>1, <3>1, <3>2, FsCmdsAre
    <3> QED
      BY <2>1, <3>1, <3>3
  <2>3. ASSUME NEW r \in 5..Len(c), q < r, c[r].part = c[q].part PROVE c[r].op = "mkfs"
    <3>1. r - 4 \in 1..Len(flat) /\ c[r] = flat[r - 4] /\ q - 4 < r - 4
      BY <1>7, <2>3
    <3>2. row[r - 4] = row[q - 4]
      BY <1>a, <2>1, <2>2, <2>3, <3>1
    <3>3. col[q - 4] < col[r - 4]
      <4>1. row[q - 4] < row[r - 4] \/ (row[q - 4] = row[r - 4] /\ col[q - 4] < col[r - 4])
        BY <1>4, <2>1, <3>1 DEF Laid
      <4> QED
        BY <2>1, <3>2, <4>1
    <3>4. /\ col[r - 4] \in 1..Len(FsCmds(row[q - 4])) /\ col[q - 4] \in 1..Len(FsCmds(row[q - 4]))
          /\ c[r] = FsCmds(row[q - 4])[col[r - 4]] /\ c[q] = FsCmds(row[q - 4])[col[q - 4]]
      BY <1>9, <2>1, <3>1, <3>2
    <3> QED
      <4> DEFINE f == FsCmds(row[q - 4])
      <4>1. \A j, k \in 1..Len(f) : f[j].op = "open" /\ k > j => f[k].op = "mkfs"
        BY <2>1, FsCmdsAre
      <4>2. col[r - 4] > col[q - 4] /\ f[col[q - 4]].op = "open"
        BY <1>9, <1>d, <2>1, <3>1, <3>3, <3>4
      <4> HIDE DEF f
      <4>3. c[r] = f[col[r - 4]] /\ col[r - 4] \in 1..Len(f) /\ col[q - 4] \in 1..Len(f)
        BY <3>4 DEF f
      <4> QED
        BY <4>1, <4>2, <4>3
  <2> QED
    BY <2>2, <2>3
<1>e. \A q \in 5..Len(c) : c[q].part \in 1..n /\ c[q].op \in {"wipefs", "luksFormat", "open", "mkfs"}
  <2> SUFFICES ASSUME NEW q \in 5..Len(c)
               PROVE  c[q].part \in 1..n /\ c[q].op \in {"wipefs", "luksFormat", "open", "mkfs"}
    OBVIOUS
  <2>1. q - 4 \in 1..Len(flat) /\ c[q] = flat[q - 4]
    BY <1>7
  <2> QED
    BY <1>9, <1>a, <2>1
<1>f. c[1].op = "zap" /\ c[2].op = "new" /\ c[3].op = "reread" /\ c[4].op = "wait"
  BY <1>6, <1>7
<1>g. c \in Seq(Commands) /\ Len(c) \in Nat /\ Len(c) >= 4
  BY <1>7
<1> QED
  BY <1>5, <1>b, <1>c, <1>d, <1>e, <1>f, <1>g DEF Orderly, n

-----------------------------------------------------------------------------
(* The plans.                                                              *)

\* There are finitely many plans, and their partitions are lists.
SoundPlans == IsFiniteSet(Plans) /\ \A pl \in Plans : IsSeq(pl.parts)

\* One LUKS container in each, as there is one mapping in the model.
OneLuks ==
  \A pl \in Plans : \A i, j \in 1..Len(pl.parts) :
    pl.parts[i].kind = "luks" /\ pl.parts[j].kind = "luks" => i = j

LEMMA FiniteHasMax ==
  ASSUME NEW S \in SUBSET Nat, IsFiniteSet(S), S # {}
  PROVE  \E m \in S : \A x \in S : m >= x
<1> DEFINE NoMax(Q) == Q # {} /\ ~ \E m \in Q : \A x \in Q : m >= x
           T == {k \in Nat : \E Q \in SUBSET Nat : IsFiniteSet(Q) /\ Cardinality(Q) = k /\ NoMax(Q)}
<1> SUFFICES ASSUME NoMax(S) PROVE FALSE
  OBVIOUS
<1>1. Cardinality(S) \in T
  BY FS_CardinalityType
<1>2. T \in SUBSET Nat /\ T # {}
  BY <1>1
<1>3. PICK k \in T : \A l \in T : k <= l
  BY <1>2, Least
<1>4. PICK Q \in SUBSET Nat : IsFiniteSet(Q) /\ Cardinality(Q) = k /\ NoMax(Q)
  BY <1>3
<1>5. PICK x \in Q : TRUE
  BY <1>4
<1> DEFINE P == Q \ {x}
<1>6. IsFiniteSet(P) /\ Cardinality(P) = k - 1 /\ P \in SUBSET Nat
  BY <1>4, <1>5, FS_RemoveElement
<1>7. k - 1 \in Nat /\ k \in Nat
  BY <1>2, <1>3, <1>6, FS_CardinalityType
<1>8. ~ NoMax(P)
  <2>1. k - 1 \notin T
    BY <1>3, <1>7
  <2> QED
    BY <1>6, <1>7, <2>1
<1>9. CASE P = {}
  <2>1. Q = {x} /\ x \in Nat
    BY <1>5, <1>9
  <2> QED
    BY <1>4, <2>1
<1>10. CASE P # {}
  <2>1. PICK m \in P : \A y \in P : m >= y
    BY <1>8, <1>10
  <2>2. m \in Nat /\ x \in Nat /\ m \in Q /\ \A y \in Q : y \in Nat /\ (y = x \/ m >= y)
    BY <1>5, <2>1
  <2>3. CASE m >= x
    BY <1>4, <2>2, <2>3
  <2>4. CASE x >= m
    <3>1. \A y \in Q : x >= y
      BY <2>2, <2>4
    <3> QED
      BY <1>4, <1>5, <3>1
  <2> QED
    BY <2>2, <2>3, <2>4
<1> QED
  BY <1>9, <1>10

LEMMA PlansFit ==
  ASSUME SoundPlans
  PROVE  \A pl \in Plans : Len(pl.parts) \in Nat /\ Len(pl.parts) <= MaxParts /\ MaxParts \in Nat
<1> SUFFICES ASSUME NEW pl \in Plans
             PROVE  Len(pl.parts) \in Nat /\ Len(pl.parts) <= MaxParts /\ MaxParts \in Nat
  OBVIOUS
<1> DEFINE S == {Len(q.parts) : q \in Plans}
<1>1. \A q \in Plans : Len(q.parts) \in Nat
  BY DEF SoundPlans, IsSeq
<1>2. IsFiniteSet(S)
  <2> DEFINE f == [q \in Plans |-> Len(q.parts)]
  <2>1. f \in Surjection(Plans, S)
    BY DEF Surjection
  <2> QED
    BY <2>1, FS_Surjection DEF SoundPlans
<1>3. S \in SUBSET Nat /\ S # {} /\ Len(pl.parts) \in S
  BY <1>1
<1>4. MaxParts = Max(S)
  BY DEF MaxParts
<1> HIDE DEF S
<1>5. \E m \in S : \A x \in S : m >= x
  BY <1>2, <1>3, FiniteHasMax
<1>6. Max(S) \in S /\ \A x \in S : Max(S) >= x
  BY <1>5 DEF Max
<1> QED
  BY <1>3, <1>4, <1>6

-----------------------------------------------------------------------------
(* The inductive invariant.                                                *)

Final(i) ==
  [at |-> extents[i], what |-> CASE Parts[i].kind = "none" -> "blank"
                                 [] Parts[i].kind = "luks" -> Parts[i].inner
                                 [] OTHER                  -> Parts[i].kind]

\* The first p commands of the format have run and the others are to come.
Ran(p) ==
  /\ IsSeq(todo) /\ p + Len(todo) = Len(FormatCmds)
  /\ \A k \in 1..Len(todo) : todo[k] = FormatCmds[p + k]

\* What they have left, if nothing was in use.
Left(p) ==
  /\ p = 1 => table = <<>>
  /\ p >= 2 => table = extents
  /\ p >= 3 => nodes = extents
  /\ mapped # 0 => \E q \in 5..p : FormatCmds[q].op = "open" /\ FormatCmds[q].part = mapped
  /\ \A i \in 1..Len(Parts) : (\E q \in 5..p : FormatCmds[q] = LastWrite(i)) => data[i] = Final(i)

Planned == plan \in Plans /\ Len(disk.sizes) = Len(Parts)

Laying ==
  /\ IsSeq(extents) /\ Len(extents) <= Len(Parts)
  /\ verdict \in {"ok", "done"} => Len(extents) = Len(Parts)
  /\ verdict # "done" => todo = <<>>

Formatting ==
  /\ ~held => mounted = {} /\ (verdict # "done" => mapped = 0)
  /\ verdict = "done" => \E p \in 0..Len(FormatCmds) : Ran(p) /\ (~held => Left(p))

FInv ==
  /\ DOMAIN data = 1..MaxParts
  /\ program = "format" /\ outcome = "running" => Planned /\ Laying /\ Formatting
  /\ FormattedAsPlanned /\ (OneLuks => RetrySucceeds)

LEMMA SameCmds ==
  ASSUME plan' = plan
  PROVE  FormatCmds' = FormatCmds /\ Parts' = Parts /\ \A i : LastWrite(i)' = LastWrite(i)
<1>1. Parts' = Parts
  BY DEF Parts
<1>2. \A i : FsCmds(i)' = FsCmds(i)
  BY <1>1 DEF FsCmds
<1>3. [i \in 1..Len(Parts) |-> FsCmds(i)]' = [i \in 1..Len(Parts) |-> FsCmds(i)]
  BY <1>1, <1>2
<1>4. FormatCmds' = FormatCmds
  BY <1>3 DEF FormatCmds
<1> QED
  BY <1>1, <1>4 DEF LastWrite

LEMMA Positions ==
  ASSUME NEW c, Orderly(c), NEW q \in 1..Len(c)
  PROVE  /\ c[q].op = "zap" => q = 1
         /\ c[q].op = "new" => q = 2
         /\ c[q].op = "reread" => q = 3
         /\ c[q].op = "wait" => q = 4
         /\ c[q].op \in {"wipefs", "luksFormat", "open", "mkfs"} => q \in 5..Len(c)
         /\ c[q].op # "fill"
<1>1. q = 1 \/ q = 2 \/ q = 3 \/ q = 4 \/ q \in 5..Len(c)
  BY DEF Orderly
<1> QED
  BY <1>1 DEF Orderly

\* The next command is the one after those that have run, and then one more has.
LEMMA Advance ==
  ASSUME NEW p \in Nat, Ran(p), todo # <<>>, todo' = Tail(todo), plan' = plan
  PROVE  /\ Head(todo) = FormatCmds[p + 1] /\ p + 1 \in 1..Len(FormatCmds)
         /\ Ran(p + 1)'
<1>1. PICK S : todo \in Seq(S)
  BY DEF Ran, IsSeq
<1>2. Len(todo) \in Nat \ {0} /\ Head(todo) = todo[1]
  BY <1>1
<1>3. /\ Tail(todo) \in Seq(S) /\ Len(Tail(todo)) = Len(todo) - 1
      /\ \A k \in 1..Len(Tail(todo)) : k + 1 \in 1..Len(todo) /\ Tail(todo)[k] = todo[k + 1]
  BY <1>1
<1>4. FormatCmds' = FormatCmds
  BY SameCmds
<1>5. p + Len(todo) = Len(FormatCmds) /\ \A k \in 1..Len(todo) : todo[k] = FormatCmds[p + k]
  BY DEF Ran
<1>6. Head(todo) = FormatCmds[p + 1] /\ p + 1 \in 1..Len(FormatCmds)
  BY <1>2, <1>5
<1>7. (p + 1) + Len(todo') = Len(FormatCmds)
  BY <1>2, <1>3, <1>5
<1>8. \A k \in 1..Len(todo') : todo'[k] = FormatCmds[(p + 1) + k]
  <2> SUFFICES ASSUME NEW k \in 1..Len(Tail(todo)) PROVE Tail(todo)[k] = FormatCmds[(p + 1) + k]
    OBVIOUS
  <2>1. k + 1 \in 1..Len(todo) /\ Tail(todo)[k] = todo[k + 1]
    BY <1>3
  <2>2. todo[k + 1] = FormatCmds[p + (k + 1)]
    BY <1>5, <2>1
  <2>3. p + (k + 1) = (p + 1) + k
    BY <1>3
  <2> QED
    BY <2>1, <2>2, <2>3
<1>9. IsSeq(todo')
  BY <1>3 DEF IsSeq
<1> QED
  BY <1>4, <1>6, <1>7, <1>8, <1>9 DEF Ran, IsSeq

LEMMA PlanIs ==
  ASSUME SoundPlans, plan \in Plans
  PROVE  /\ IsSeq(Parts) /\ Len(Parts) \in Nat /\ Len(Parts) <= MaxParts /\ MaxParts \in Nat
         /\ Orderly(FormatCmds)
<1>1. IsSeq(Parts)
  BY DEF SoundPlans, Parts
<1>2. Len(Parts) \in Nat /\ Len(Parts) <= MaxParts /\ MaxParts \in Nat
  BY PlansFit DEF Parts
<1> QED
  BY <1>1, <1>2, FormatIsOrderly

\* One command more: what it leaves is what the commands so far leave.
LEMMA LeavesMore ==
  ASSUME SoundPlans, ~RereadFails, DOMAIN data = 1..MaxParts, plan \in Plans, program = "format",
         mounted = {}, Step, NEW p \in Nat, Ran(p), Left(p)
  PROVE  Left(p + 1)' /\ UNCHANGED mounted
<1>1. /\ todo # <<>> /\ todo' = Tail(todo) /\ plan' = plan /\ extents' = extents
      /\ program' = program /\ mounted' = mounted
  BY DEF Step, Zap, NewTable, Reread, WaitFor, Wipefs, LuksFormat, LuksOpen, Mkfs, ZapImage, NewImage, Fill,
         Does, Now, layoutVars, runVars, NoDisk, diskVars
<1> DEFINE c == FormatCmds
           at == c[p + 1]
<1>2. Head(todo) = at /\ p + 1 \in 1..Len(c)
  BY <1>1, Advance
<1>3. Orderly(c) /\ Len(Parts) \in Nat /\ Len(Parts) <= MaxParts /\ MaxParts \in Nat
  BY PlanIs
<1>4. c' = c /\ Parts' = Parts /\ (\A i : LastWrite(i)' = LastWrite(i))
  BY <1>1, SameCmds
<1>5. \A i \in 1..Len(Parts) : Final(i)' = Final(i)
  BY <1>1, <1>4 DEF Final
<1>6. Len(c) \in Nat /\ p + 1 <= Len(c)
  BY <1>2, <1>3 DEF Orderly
<1> HIDE DEF c
<1>7. /\ p = 1 => table = <<>>
      /\ p >= 2 => table = extents
      /\ p >= 3 => nodes = extents
      /\ mapped # 0 => \E q \in 5..p : c[q].op = "open" /\ c[q].part = mapped
      /\ \A i \in 1..Len(Parts) : (\E q \in 5..p : c[q] = LastWrite(i)) => data[i] = Final(i)
  BY DEF Left, c
<1> SUFFICES
      /\ p + 1 = 1 => table' = <<>>
      /\ p + 1 >= 2 => table' = extents
      /\ p + 1 >= 3 => nodes' = extents
      /\ mapped' # 0 => \E q \in 5..(p + 1) : c[q].op = "open" /\ c[q].part = mapped'
      /\ \A i \in 1..Len(Parts) : (\E q \in 5..(p + 1) : c[q] = LastWrite(i)) => data'[i] = Final(i)
  BY <1>1, <1>4, <1>5 DEF Left, c
<1>a. CASE Zap
  <2>1. p + 1 = 1 /\ table' = <<>> /\ data' = data /\ mapped' = mapped
    BY <1>2, <1>3, <1>a, Positions DEF Zap, Now
  <2> QED
    BY <1>7, <2>1
<1>b. CASE NewTable
  <2>1. p + 1 = 2 /\ table' = extents /\ data' = data /\ mapped' = mapped
    BY <1>2, <1>3, <1>b, Positions DEF NewTable, Now
  <2> QED
    BY <1>7, <2>1
<1>c. CASE Reread
  <2>1. p + 1 = 3 /\ table' = table /\ data' = data /\ mapped' = mapped
    BY <1>2, <1>3, <1>c, Positions DEF Reread, Now
  <2>2. mapped = 0
    BY <1>7, <2>1
  <2>3. nodes' = table
    BY <1>c, <2>2 DEF Reread, Busy
  <2> QED
    BY <1>7, <2>1, <2>3
<1>d. CASE WaitFor
  <2>1. p + 1 = 4 /\ table' = table /\ nodes' = nodes /\ data' = data /\ mapped' = mapped
    BY <1>2, <1>3, <1>d, Positions DEF WaitFor, Now, NoDisk, diskVars
  <2> QED
    BY <1>7, <2>1
<1>e. CASE LuksOpen
  <2>1. p + 1 \in 5..Len(c) /\ table' = table /\ nodes' = nodes /\ data' = data /\ mapped' = at.part
        /\ at.op = "open"
    BY <1>2, <1>3, <1>e, Positions DEF LuksOpen, Now, Part
  <2>2. \A i \in 1..Len(Parts) : at # LastWrite(i)
    BY <2>1 DEF LastWrite, Cmd
  <2>3. p + 1 \in 5..(p + 1) /\ p >= 4 /\ \A q \in 5..(p + 1) : q \in 5..p \/ q = p + 1
    BY <2>1
  <2> QED
    BY <1>7, <2>1, <2>2, <2>3
<1>f. CASE Wipefs \/ LuksFormat \/ Mkfs
  <2> DEFINE what == IF at.op = "wipefs" THEN "blank"
                     ELSE IF at.op = "luksFormat" THEN "luks"
                     ELSE IF Parts[at.part].kind = "luks" THEN Parts[at.part].inner ELSE Parts[at.part].kind
  <2>1. /\ p + 1 \in 5..Len(c) /\ at.op \in {"wipefs", "luksFormat", "mkfs"}
        /\ table' = table /\ nodes' = nodes /\ mapped' = mapped
    BY <1>2, <1>3, <1>f, Positions DEF Wipefs, LuksFormat, Mkfs, Now
  <2>2. data' = [data EXCEPT ![at.part] = [at |-> nodes[at.part], what |-> what]]
    BY <1>2, <1>f DEF Wipefs, LuksFormat, Mkfs, Now, Written, Part
  <2>3. at.part \in 1..Len(Parts)
    BY <1>3, <2>1 DEF Orderly
  <2>4. nodes = extents /\ p >= 4 /\ p + 1 \in 5..(p + 1) /\ \A q \in 5..(p + 1) : q \in 5..p \/ q = p + 1
    BY <1>7, <2>1
  <2>5. /\ data'[at.part] = [at |-> extents[at.part], what |-> what]
        /\ \A i \in 1..Len(Parts) : i # at.part => data'[i] = data[i]
    BY <1>3, <2>2, <2>3, <2>4
  <2> HIDE DEF what
  <2>6. ASSUME NEW i \in 1..Len(Parts), NEW q \in 5..(p + 1), c[q] = LastWrite(i)
        PROVE  data'[i] = Final(i)
    <3>1. CASE q = p + 1
      <4>1. at.part = i /\ at = LastWrite(i)
        BY <2>6, <3>1 DEF LastWrite, Cmd
      <4>2. data'[i] = [at |-> extents[i], what |-> what]
        BY <2>5, <4>1
      <4>3. what = CASE Parts[i].kind = "none" -> "blank"
                     [] Parts[i].kind = "luks" -> Parts[i].inner
                     [] OTHER                  -> Parts[i].kind
        <5>1. Parts[i].kind = "none" => at.op = "wipefs"
          BY <4>1 DEF LastWrite, Cmd
        <5>2. Parts[i].kind # "none" => at.op = "mkfs"
          BY <4>1 DEF LastWrite, Cmd
        <5> QED
          BY <4>1, <5>1, <5>2 DEF what
      <4> QED
        BY <4>2, <4>3 DEF Final
    <3>2. CASE q \in 5..p
      <4>1. q \in 5..Len(c) /\ p + 1 \in 5..Len(c) /\ q < p + 1
        BY <1>6, <2>1, <3>2
      <4>2. at.part # i
        BY <1>3, <2>6, <4>1 DEF Orderly
      <4> QED
        BY <1>7, <2>5, <2>6, <3>2, <4>2
    <3> QED
      BY <2>4, <3>1, <3>2
  <2>7. mapped' # 0 => \E q \in 5..(p + 1) : c[q].op = "open" /\ c[q].part = mapped'
    BY <1>7, <2>1
  <2> QED
    BY <1>7, <2>1, <2>4, <2>6, <2>7
<1>g. CASE ZapImage \/ NewImage \/ Fill
  BY <1>2, <1>3, <1>g, Positions DEF ZapImage, NewImage, Fill, Now
<1> QED
  BY <1>1, <1>a, <1>b, <1>c, <1>d, <1>e, <1>f, <1>g DEF Step

\* Nothing is in the way of the next command.
LEMMA NothingInTheWay ==
  ASSUME SoundPlans, OneLuks, plan \in Plans, Len(extents) = Len(Parts), todo # <<>>,
         NEW p \in Nat, Ran(p), Left(p)
  PROVE  Able
<1> DEFINE c == FormatCmds
           at == c[p + 1]
<1>1. Head(todo) = at /\ p + 1 \in 1..Len(c)
  <2>1. PICK S : todo \in Seq(S)
    BY DEF Ran, IsSeq
  <2>2. Len(todo) \in Nat \ {0} /\ Head(todo) = todo[1]
    BY <2>1
  <2> QED
    BY <2>2 DEF Ran
<1>2. Orderly(c) /\ Len(Parts) \in Nat
  BY PlanIs
<1>3. Len(c) \in Nat /\ p + 1 <= Len(c)
  BY <1>1, <1>2 DEF Orderly
<1> HIDE DEF c
<1>4. /\ p = 1 => table = <<>>
      /\ p >= 3 => nodes = extents
      /\ mapped # 0 => \E q \in 5..p : c[q].op = "open" /\ c[q].part = mapped
  BY DEF Left, c
<1>5. at.op = "new" => table = <<>>
  BY <1>1, <1>2, <1>4, Positions
<1>6. at.op = "wait" => Len(nodes) >= Len(Parts)
  <2>1. at.op = "wait" => p + 1 = 4
    BY <1>1, <1>2, Positions
  <2> QED
    BY <1>2, <1>4, <2>1
<1>7. at.op \in {"wipefs", "luksFormat"} => mapped # at.part
  <2> SUFFICES ASSUME at.op \in {"wipefs", "luksFormat"}, mapped = at.part PROVE FALSE
    OBVIOUS
  <2>1. p + 1 \in 5..Len(c)
    BY <1>1, <1>2, Positions
  <2>2. at.part \in 1..Len(Parts)
    BY <1>2, <2>1 DEF Orderly
  <2>3. mapped # 0
    BY <1>2, <2>2
  <2>4. PICK q \in 5..p : c[q].op = "open" /\ c[q].part = mapped
    BY <1>4, <2>3
  <2>5. q \in 5..Len(c) /\ q < p + 1
    BY <1>3, <2>4
  <2> QED
    BY <1>2, <2>1, <2>4, <2>5 DEF Orderly
<1>8. at.op = "open" => mapped = 0
  <2> SUFFICES ASSUME at.op = "open", mapped # 0 PROVE FALSE
    OBVIOUS
  <2>1. p + 1 \in 5..Len(c)
    BY <1>1, <1>2, Positions
  <2>2. PICK q \in 5..p : c[q].op = "open" /\ c[q].part = mapped
    BY <1>4
  <2>3. q \in 5..Len(c) /\ q < p + 1
    BY <1>3, <2>2
  <2>4. /\ at.part \in 1..Len(Parts) /\ c[q].part \in 1..Len(Parts)
        /\ Parts[at.part].kind = "luks" /\ Parts[c[q].part].kind = "luks"
    BY <1>2, <2>1, <2>2, <2>3 DEF Orderly
  <2>5. at.part = c[q].part
    BY <2>4 DEF OneLuks, Parts
  <2>6. at.op = "mkfs"
    BY <1>2, <2>1, <2>2, <2>3, <2>5 DEF Orderly
  <2> QED
    BY <2>6
<1> QED
  BY <1>1, <1>5, <1>6, <1>7, <1>8 DEF Able, Part

LEMMA InitFInv == Init => FInv
<1> SUFFICES ASSUME Init PROVE FInv
  OBVIOUS
<1> QED
  BY DEF Init, FInv, FormattedAsPlanned, RetrySucceeds

\* A refused reread leaves the kernel with partitions of an older table.
Hypotheses == SoundPlans /\ ~RereadFails

\* What stays when neither the run nor the disk moves.
LEMMA SameOutcome ==
  ASSUME FInv, UNCHANGED <<program, plan, outcome, fault, held, table, nodes, data, extents>>,
         verdict' = verdict \/ outcome # "failed"
  PROVE  FormattedAsPlanned' /\ (OneLuks => RetrySucceeds')
<1>1. OneLuks => RetrySucceeds'
  BY DEF FInv, RetrySucceeds
<1>2. Parts' = Parts
  BY DEF Parts
<1> QED
  BY <1>1, <1>2 DEF FInv, FormattedAsPlanned

LEMMA StartFInv ==
  ASSUME SoundPlans, FInv, NEW prog, NEW pl, NEW f, NEW total, NEW sector,
         Start(prog, pl, f, total, sector), prog = "format" => pl \in Plans
  PROVE  FInv'
<1>1. /\ program' = prog /\ plan' = pl /\ held' = Busy /\ todo' = <<>> /\ data' = data
      /\ mapped' = mapped /\ mounted' = mounted
  BY DEF Start, diskVars
<1>2. CASE outcome' = "refused"
  BY <1>1, <1>2 DEF FInv, FormattedAsPlanned, RetrySucceeds, MaxParts
<1>3. CASE outcome' = "running" /\ Request(total, sector, [i \in 1..Len(pl.parts) |-> pl.parts[i].size])
  <2>1. verdict' = "new" /\ extents' = <<>>
    BY <1>3 DEF Request
  <2>2. prog = "format" => Planned'
    <3>1. pl \in Plans => Len(pl.parts) \in Nat
      BY PlansFit
    <3>2. disk'.sizes = [i \in 1..Len(pl.parts) |-> pl.parts[i].size]
      BY <1>3 DEF Request
    <3>3. pl \in Plans => Len(disk'.sizes) = Len(pl.parts)
      BY <3>1, <3>2
    <3> QED
      BY <1>1, <3>3 DEF Planned, Parts
  <2>3. prog = "format" => Laying'
    <3>1. pl \in Plans => Len(pl.parts) \in Nat
      BY PlansFit
    <3>2. <<>> \in Seq({}) /\ Len(<<>>) = 0
      OBVIOUS
    <3>3. IsSeq(extents')
      BY <2>1, <3>2 DEF IsSeq
    <3> QED
      BY <1>1, <2>1, <3>1, <3>2, <3>3 DEF Laying, Parts
  <2>4. Formatting'
    BY <1>1, <2>1 DEF Formatting, Busy
  <2> QED
    BY <1>1, <1>3, <2>2, <2>3, <2>4 DEF FInv, FormattedAsPlanned, RetrySucceeds, MaxParts
<1> QED
  BY <1>2, <1>3 DEF Start

\* A format that runs, with what FInv says of it.
LEMMA LayOutFInv == SoundPlans /\ FInv /\ LayOut => FInv'
<1> SUFFICES ASSUME SoundPlans, FInv, LayOut PROVE FInv'
  OBVIOUS
<1>1. /\ outcome = "running" /\ outcome' = "running" /\ todo' = todo /\ data' = data
      /\ program' = program /\ plan' = plan /\ held' = held /\ mapped' = mapped /\ mounted' = mounted
      /\ disk' = disk /\ verdict \in {"new", "placing"}
  BY DEF LayOut, runVars, NoDisk, diskVars, Layout, OpenDisk, PlacePartition, LayoutDone
<1> SUFFICES ASSUME program = "format" PROVE Planned' /\ Laying' /\ Formatting'
  BY <1>1 DEF FInv, FormattedAsPlanned, RetrySucceeds, MaxParts
<1>2. Planned /\ Laying /\ Formatting
  BY <1>1 DEF FInv
<1>3. Parts' = Parts /\ Planned' /\ Len(Parts) \in Nat
  <2>1. Len(Parts) \in Nat
    BY <1>2, PlanIs DEF Planned
  <2> QED
    BY <1>1, <1>2, <2>1 DEF Planned, Parts
<1>4. verdict' \in {"new", "placing", "ok", "error"} /\ verdict' # "done"
  BY <1>1 DEF LayOut, Layout, OpenDisk, PlacePartition, LayoutDone
<1>5. IsSeq(extents) /\ Len(extents) \in Nat /\ Len(extents) <= Len(Parts) /\ todo = <<>>
  <2>1. IsSeq(extents) /\ Len(extents) <= Len(Parts) /\ todo = <<>>
    BY <1>1, <1>2 DEF Laying
  <2> QED
    BY <2>1 DEF IsSeq
<1>6. Formatting'
  BY <1>1, <1>2, <1>4 DEF Formatting
<1>7. CASE OpenDisk \/ LayoutDone
  <2>1. extents' = extents
    BY <1>7 DEF OpenDisk, LayoutDone
  <2>2. verdict' = "ok" => Len(extents) = Len(Parts)
    BY <1>2, <1>3, <1>5, <1>7 DEF OpenDisk, LayoutDone, Number, Planned
  <2> QED
    BY <1>1, <1>3, <1>4, <1>5, <1>6, <2>1, <2>2 DEF Laying
<1>8. CASE PlacePartition
  <2>1. verdict' \in {"placing", "error"} /\ Len(extents) + 1 <= Len(Parts)
    BY <1>2, <1>8 DEF PlacePartition, Number, Planned
  <2>2. extents' = extents \/ \E e : extents' = Append(extents, e)
    BY <1>8 DEF PlacePartition
  <2>3. ASSUME NEW e, extents' = Append(extents, e)
        PROVE  IsSeq(extents') /\ Len(extents') = Len(extents) + 1
    <3>1. PICK S : extents \in Seq(S)
      BY <1>5 DEF IsSeq
    <3> DEFINE U == S \cup {e}
    <3>2. extents \in Seq(U) /\ e \in U
      BY <3>1
    <3> HIDE DEF U
    <3>3. Append(extents, e) \in Seq(U) /\ Len(Append(extents, e)) = Len(extents) + 1
      BY <3>2
    <3> QED
      BY <2>3, <3>3 DEF IsSeq
  <2>4. IsSeq(extents)' /\ Len(extents') <= Len(Parts)
    BY <1>3, <1>5, <2>1, <2>2, <2>3 DEF IsSeq
  <2> QED
    BY <1>1, <1>3, <1>5, <1>6, <2>1, <2>4 DEF Laying
<1> QED
  BY <1>7, <1>8 DEF LayOut, Layout

LEMMA PrepareFInv == SoundPlans /\ FInv /\ Prepare => FInv'
<1> SUFFICES ASSUME SoundPlans, FInv, Prepare PROVE FInv'
  OBVIOUS
<1>1. /\ outcome = "running" /\ verdict = "ok" /\ verdict' = "done" /\ data' = data
      /\ program' = program /\ plan' = plan /\ held' = held /\ mapped' = mapped /\ mounted' = mounted
      /\ disk' = disk /\ extents' = extents /\ outcome' \in {"running", "refused"}
      /\ program = "format" /\ outcome' = "running" => todo' = FormatCmds
  BY DEF Prepare, runVars, NoDisk, diskVars
<1>2. ASSUME program = "format", outcome' = "running" PROVE Planned' /\ Laying' /\ Formatting'
  <2>1. Planned /\ Laying /\ Formatting
    BY <1>1, <1>2 DEF FInv
  <2>2. Parts' = Parts /\ FormatCmds' = FormatCmds
    BY <1>1, SameCmds
  <2>3. Planned' /\ Laying'
    BY <1>1, <2>1, <2>2 DEF Planned, Laying, IsSeq
  <2>4. Orderly(FormatCmds)
    BY <2>1, PlanIs DEF Planned
  <2>5. Len(FormatCmds) \in Nat /\ FormatCmds \in Seq(Commands) /\ 0 \in 0..Len(FormatCmds)
    BY <2>4 DEF Orderly
  <2>6. Ran(0)'
    <3>1. todo' = FormatCmds
      BY <1>1, <1>2
    <3>2. \A k \in 1..Len(FormatCmds) : 0 + k = k
      BY <2>5
    <3> QED
      BY <2>2, <2>5, <3>1, <3>2 DEF Ran, IsSeq
  <2>7. ~held => Left(0)'
    <3>1. ~held => mapped = 0
      BY <1>1, <2>1 DEF Formatting
    <3>2. 5..0 = {}
      OBVIOUS
    <3> QED
      BY <1>1, <3>1, <3>2 DEF Left
  <2> QED
    BY <1>1, <2>1, <2>2, <2>3, <2>5, <2>6, <2>7 DEF Formatting
<1> QED
  BY <1>1, <1>2 DEF FInv, FormattedAsPlanned, RetrySucceeds, MaxParts

LEMMA StepFInv == Hypotheses /\ FInv /\ Step => FInv'
<1> SUFFICES ASSUME Hypotheses, FInv, Step PROVE FInv'
  OBVIOUS
<1>1. /\ todo # <<>> /\ todo' = Tail(todo) /\ UNCHANGED <<layoutVars, runVars>>
      /\ outcome = "running" /\ outcome' = "running"
  BY DEF Step, Zap, NewTable, Reread, WaitFor, Wipefs, LuksFormat, LuksOpen, Mkfs, ZapImage, NewImage, Fill,
         Does, Now
<1>2. DOMAIN data' = DOMAIN data
  BY DEF Step, Zap, NewTable, Reread, WaitFor, Wipefs, LuksFormat, LuksOpen, Mkfs, ZapImage, NewImage, Fill,
         Written, NoDisk, diskVars
<1>3. UNCHANGED <<disk, extents, verdict, program, plan, held>>
  BY <1>1 DEF layoutVars, runVars
<1>4. ASSUME program = "format" PROVE Planned' /\ Laying' /\ Formatting'
  <2>1. Planned /\ Laying /\ Formatting /\ verdict = "done"
    BY <1>1, <1>4 DEF FInv, Laying
  <2>2. Parts' = Parts /\ FormatCmds' = FormatCmds
    BY <1>3, SameCmds
  <2>3. Planned' /\ Laying'
    BY <1>3, <2>1, <2>2 DEF Planned, Laying, IsSeq
  <2>4. PICK p \in 0..Len(FormatCmds) : Ran(p) /\ (~held => Left(p))
    BY <2>1 DEF Formatting
  <2>5. p \in Nat /\ Len(FormatCmds) \in Nat
    BY <2>1, <2>4, PlanIs DEF Orderly, Planned, Hypotheses
  <2>6. p + 1 \in 1..Len(FormatCmds) /\ Ran(p + 1)'
    BY <1>1, <1>3, <2>4, <2>5, Advance
  <2>7. ~held => Left(p + 1)' /\ mounted' = {}
    <3> SUFFICES ASSUME ~held PROVE Left(p + 1)' /\ mounted' = {}
      OBVIOUS
    <3>1. mounted = {}
      BY <2>1 DEF Formatting
    <3> QED
      BY <1>4, <2>1, <2>4, <2>5, <3>1, LeavesMore DEF FInv, Planned, Hypotheses
  <2>8. p + 1 \in 0..Len(FormatCmds)
    BY <2>5, <2>6
  <2> QED
    BY <1>3, <2>1, <2>2, <2>3, <2>6, <2>7, <2>8 DEF Formatting
<1> QED
  BY <1>1, <1>2, <1>3, <1>4 DEF FInv, FormattedAsPlanned, RetrySucceeds, MaxParts

LEMMA CannotFInv == Hypotheses /\ FInv /\ Cannot => FInv'
<1> SUFFICES ASSUME Hypotheses, FInv, Cannot PROVE FInv'
  OBVIOUS
<1>1. /\ outcome = "running" /\ outcome' = "failed" /\ todo # <<>> /\ ~Able
      /\ UNCHANGED <<program, fault, held, verdict, data>>
  BY DEF Cannot, layoutVars, runVars, NoDisk, diskVars
<1>2. OneLuks /\ program = "format" => held
  <2> SUFFICES ASSUME OneLuks, program = "format", ~held PROVE FALSE
    OBVIOUS
  <2>1. Planned /\ Laying /\ Formatting /\ verdict = "done"
    BY <1>1 DEF FInv, Laying
  <2>2. PICK p \in 0..Len(FormatCmds) : Ran(p) /\ Left(p)
    BY <2>1 DEF Formatting
  <2>3. p \in Nat
    BY <2>1, <2>2, PlanIs DEF Orderly, Planned, Hypotheses
  <2>4. Able
    BY <1>1, <2>1, <2>2, <2>3, NothingInTheWay DEF Planned, Laying, Hypotheses
  <2> QED
    BY <1>1, <2>4
<1> QED
  BY <1>1, <1>2 DEF FInv, FormattedAsPlanned, RetrySucceeds, MaxParts

LEMMA FinishFInv == Hypotheses /\ FInv /\ Finish => FInv'
<1> SUFFICES ASSUME Hypotheses, FInv, Finish PROVE FInv'
  OBVIOUS
<1>1. /\ outcome = "running" /\ outcome' = "ok" /\ todo = <<>> /\ verdict = "done"
      /\ UNCHANGED <<program, plan, fault, held, verdict, data, table, nodes, extents>>
  BY DEF Finish, layoutVars, runVars, NoDisk, diskVars
<1>2. ASSUME program = "format", ~held
      PROVE  table = extents /\ nodes = extents /\ \A i \in 1..Len(Parts) : data[i] = Final(i)
  <2>1. Planned /\ Laying /\ Formatting
    BY <1>1, <1>2 DEF FInv
  <2>2. PICK p \in 0..Len(FormatCmds) : Ran(p) /\ Left(p)
    BY <1>1, <1>2, <2>1 DEF Formatting
  <2>3. Orderly(FormatCmds)
    BY <2>1, PlanIs DEF Planned, Hypotheses
  <2>4. p = Len(FormatCmds) /\ p >= 4 /\ p \in Nat
    BY <1>1, <2>2, <2>3 DEF Ran, Orderly
  <2>5. table = extents /\ nodes = extents
    BY <2>2, <2>4 DEF Left
  <2>6. \A i \in 1..Len(Parts) : \E q \in 5..p : FormatCmds[q] = LastWrite(i)
    BY <2>3, <2>4 DEF Orderly
  <2> QED
    BY <2>2, <2>5, <2>6 DEF Left
<1>3. Parts' = Parts
  BY <1>1 DEF Parts
<1>4. FormattedAsPlanned'
  BY <1>1, <1>2, <1>3 DEF FormattedAsPlanned, Final
<1> QED
  BY <1>1, <1>4 DEF FInv, RetrySucceeds, MaxParts

LEMMA NextFInv == Hypotheses /\ FInv /\ [Next]_vars => FInv'
<1> SUFFICES ASSUME Hypotheses, FInv, [Next]_vars PROVE FInv'
  OBVIOUS
<1>1. CASE \E pl \in Plans, f \in BOOLEAN : Format(pl, f)
  BY <1>1, StartFInv DEF Format, Hypotheses
<1>2. CASE \E pl \in ImagePlans, size \in ImageSizes, ts \in Trees : BuildImage(pl, size, ts)
  BY <1>2, StartFInv DEF BuildImage, Hypotheses
<1>3. CASE \E r \in DryRuns : DryRun(r)
  <2>1. PICK pl, total, sector : Start("dry", pl, FALSE, total, sector)
    BY <1>3 DEF DryRun
  <2>2. "dry" # "format"
    OBVIOUS
  <2> QED
    BY <2>1, <2>2, StartFInv DEF Hypotheses
<1>4. CASE LayOut
  BY <1>4, LayOutFInv DEF Hypotheses
<1>5. CASE Prepare
  BY <1>5, PrepareFInv DEF Hypotheses
<1>6. CASE DoesNotFit
  BY <1>6 DEF DoesNotFit, layoutVars, runVars, NoDisk, diskVars, FInv, FormattedAsPlanned, RetrySucceeds, MaxParts
<1>7. CASE Step
  BY <1>7, StepFInv
<1>8. CASE Cannot
  BY <1>8, CannotFInv
<1>9. CASE Fails
  BY <1>9 DEF Fails, NoDisk, diskVars, FInv, FormattedAsPlanned, RetrySucceeds, MaxParts
<1>a. CASE Finish
  BY <1>a, FinishFInv
<1>b. CASE Mount \/ Release
  <2>1. /\ outcome # "running" /\ outcome' = outcome
        /\ UNCHANGED <<program, plan, fault, held, table, nodes, data, extents, verdict>>
    BY <1>b DEF Mount, Release, Idle, layoutVars, runVars
  <2>2. FormattedAsPlanned' /\ (OneLuks => RetrySucceeds')
    BY <2>1, SameOutcome
  <2> QED
    BY <2>1, <2>2 DEF FInv, MaxParts
<1>c. CASE Reboot
  BY <1>c DEF Reboot, FInv, FormattedAsPlanned, RetrySucceeds, MaxParts
<1>d. CASE UNCHANGED vars
  <2>1. UNCHANGED <<program, plan, outcome, fault, held, table, nodes, data, extents, verdict, disk,
                    todo, mapped, mounted>>
    BY <1>d DEF vars, layoutVars, diskVars, runVars
  <2>2. FormattedAsPlanned' /\ (OneLuks => RetrySucceeds')
    BY <2>1, SameOutcome
  <2>3. Parts' = Parts /\ FormatCmds' = FormatCmds /\ \A i : LastWrite(i)' = LastWrite(i)
    BY <2>1, SameCmds
  <2>4. \A i : Final(i)' = Final(i)
    BY <2>1, <2>3 DEF Final
  <2>5. \A p : Ran(p)' = Ran(p) /\ Left(p)' = Left(p)
    BY <2>1, <2>3, <2>4 DEF Ran, Left, IsSeq
  <2>6. program = "format" /\ outcome = "running" => Planned' /\ Laying' /\ Formatting'
    BY <2>1, <2>3, <2>5 DEF FInv, Planned, Laying, Formatting, IsSeq
  <2> QED
    BY <2>1, <2>2, <2>6 DEF FInv, MaxParts
<1> QED
  BY <1>1, <1>2, <1>3, <1>4, <1>5, <1>6, <1>7, <1>8, <1>9, <1>a, <1>b, <1>c, <1>d DEF Next

\* A format that says it was successful has left the table and on every partition
\* what the plan says, whatever earlier runs, failures and reboots have left
\* (exec.rs:192).  It takes that the kernel takes over a table that nobody uses.
THEOREM FormatIsAsPlanned ==
  ASSUME Hypotheses
  PROVE  Spec => []FormattedAsPlanned
<1>1. FInv => FormattedAsPlanned
  BY DEF FInv
<1> QED
  BY <1>1, InitFInv, NextFInv, PTL DEF Spec

\* A format that failed can be tried again: with nothing in use no command is ever
\* in the way of another, whatever the runs before have left (exec.rs:170).
THEOREM RetryWorks ==
  ASSUME Hypotheses, OneLuks
  PROVE  Spec => []RetrySucceeds
<1>1. FInv => RetrySucceeds
  BY DEF FInv
<1> QED
  BY <1>1, InitFInv, NextFInv, PTL DEF Spec

-----------------------------------------------------------------------------
(* Paths.                                                                  *)

LEMMA Cut ==
  ASSUME NEW N, NEW p \in Seq(N), NEW k \in 0..Len(p)
  PROVE  /\ SubSeq(p, 1, k) \in Seq(N) /\ Len(SubSeq(p, 1, k)) = k /\ k \in Nat
         /\ \A i \in 1..k : SubSeq(p, 1, k)[i] = p[i]
  OBVIOUS

\* One path is above another when it is shorter and the other begins with it.
LEMMA AboveIs ==
  ASSUME NEW N, NEW p \in Seq(N), NEW q \in Seq(N)
  PROVE  Above(p, q) <=> Len(p) < Len(q) /\ \A i \in 1..Len(p) : p[i] = q[i]
<1>0. Len(p) \in Nat /\ Len(q) \in Nat
  OBVIOUS
<1>1. Above(p, q) <=> /\ Len(p) <= Len(q) /\ SubSeq(p, 1, Len(p)) = SubSeq(q, 1, Len(p))
                      /\ p # q
  BY DEF Above, IsStrictPrefix, IsPrefix
<1>2. ASSUME Len(p) <= Len(q)
      PROVE  SubSeq(p, 1, Len(p)) = SubSeq(q, 1, Len(p)) <=> \A i \in 1..Len(p) : p[i] = q[i]
  <2> DEFINE a == SubSeq(p, 1, Len(p))
             b == SubSeq(q, 1, Len(p))
  <2>1. Len(p) \in 0..Len(p) /\ Len(p) \in 0..Len(q)
    BY <1>0, <1>2
  <2>2. /\ a \in Seq(N) /\ Len(a) = Len(p) /\ \A i \in 1..Len(p) : a[i] = p[i]
        /\ b \in Seq(N) /\ Len(b) = Len(p) /\ \A i \in 1..Len(p) : b[i] = q[i]
    BY <2>1, Cut
  <2> HIDE DEF a, b
  <2>3. (\A i \in 1..Len(p) : a[i] = b[i]) => a = b
    BY <1>0, <2>2
  <2> QED
    BY <2>2, <2>3 DEF a, b
<1>3. Len(p) = Len(q) /\ (\A i \in 1..Len(p) : p[i] = q[i]) => p = q
  OBVIOUS
<1> QED
  BY <1>0, <1>1, <1>2, <1>3

\* The first k names of a path below d make a path below d, or d itself, and the child
\* of d on the way.
LEMMA OnTheWay ==
  ASSUME NEW N, NEW d \in Seq(N), NEW f \in Seq(N), Above(d, f), NEW c, c = SubSeq(f, 1, Len(d) + 1)
  PROVE  /\ c \in Seq(N) /\ Len(c) = Len(d) + 1 /\ Above(d, c) /\ (c = f \/ Above(c, f))
         /\ \A i \in 1..Len(c) : c[i] = f[i]
<1>0. Len(d) \in Nat /\ Len(f) \in Nat /\ Len(d) < Len(f) /\ \A i \in 1..Len(d) : d[i] = f[i]
  BY AboveIs
<1>1. Len(d) + 1 \in 0..Len(f)
  BY <1>0
<1>2. c \in Seq(N) /\ Len(c) = Len(d) + 1 /\ \A i \in 1..Len(c) : c[i] = f[i]
  BY <1>1, Cut
<1>3. Above(d, c)
  <2>1. Len(d) < Len(c) /\ \A i \in 1..Len(d) : d[i] = c[i]
    BY <1>0, <1>2
  <2> QED
    BY <1>2, <2>1, AboveIs
<1>4. c = f \/ Above(c, f)
  <2>1. CASE Len(f) = Len(d) + 1
    BY <1>2, <2>1
  <2>2. CASE Len(f) # Len(d) + 1
    <3>1. Len(c) < Len(f)
      BY <1>0, <1>2, <2>2
    <3> QED
      BY <1>2, <3>1, AboveIs
  <2> QED
    BY <2>1, <2>2
<1> QED
  BY <1>2, <1>3, <1>4

LEMMA AboveTrans ==
  ASSUME NEW N, NEW p \in Seq(N), NEW q \in Seq(N), NEW r \in Seq(N), Above(p, q), Above(q, r)
  PROVE  Above(p, r)
<1>1. /\ Len(p) < Len(q) /\ Len(q) < Len(r) /\ Len(p) \in Nat /\ Len(q) \in Nat /\ Len(r) \in Nat
      /\ \A i \in 1..Len(p) : p[i] = q[i]
      /\ \A i \in 1..Len(q) : q[i] = r[i]
  BY AboveIs
<1>2. \A i \in 1..Len(p) : p[i] = r[i]
  BY <1>1
<1> QED
  BY <1>1, <1>2, AboveIs

\* Of two paths above a third the longer lies below the shorter.
LEMMA AboveBoth ==
  ASSUME NEW N, NEW p \in Seq(N), NEW q \in Seq(N), NEW r \in Seq(N), Len(p) < Len(q),
         Above(p, r), q = r \/ Above(q, r)
  PROVE  Above(p, q)
<1>1. /\ Len(p) \in Nat /\ Len(q) \in Nat
      /\ \A i \in 1..Len(p) : p[i] = r[i]
      /\ \A i \in 1..Len(q) : q[i] = r[i]
  BY AboveIs
<1>2. \A i \in 1..Len(p) : p[i] = q[i]
  BY <1>1
<1> QED
  BY <1>2, AboveIs

-----------------------------------------------------------------------------
(* What a file system gets.                                                *)

\* Mount points and what is above them are directories, not files.
NoFileAt(points) == \A f \in AllFiles, m \in points : f # m /\ ~Above(f, m)

\* The files that the directory d of a file system gets: those below it that no mount
\* point in between takes.
Down(d, nested) ==
  {<<f, LastTree(f)>> : f \in {g \in AllFiles :
     Above(d, g) /\ \A n \in nested : Above(d, n) => ~Above(n, g)}}

\* What a child of d contributes.
Share(c, nested, below) == IF \E n \in nested : Above(c, n) THEN below ELSE Copied(c)

LEMMA DownSplits ==
  ASSUME NEW N, AllFiles \in SUBSET Seq(N), NEW nested \in SUBSET Seq(N), NoFileAt(nested),
         NEW d \in Seq(N)
  PROVE  Down(d, nested) = UNION {Share(c, nested, Down(c, nested)) : c \in Children(d, nested) \ nested}
<1> DEFINE kids == Children(d, nested) \ nested
<1>1. ASSUME NEW f \in AllFiles, Above(d, f), \A n \in nested : Above(d, n) => ~Above(n, f)
      PROVE  \E c \in kids : <<f, LastTree(f)>> \in Share(c, nested, Down(c, nested))
  <2>1. PICK c : c = SubSeq(f, 1, Len(d) + 1)
    OBVIOUS
  <2>2. c \in Seq(N) /\ Above(d, c) /\ (c = f \/ Above(c, f))
    <3>1. f \in Seq(N) /\ Above(d, f)
      BY <1>1
    <3> QED
      BY <2>1, <3>1, OnTheWay
  <2>3. c \in Children(d, nested)
    BY <1>1, <2>1 DEF Children
  <2>4. c \notin nested
    BY <1>1, <2>2 DEF NoFileAt
  <2>5. CASE \E n \in nested : Above(c, n)
    <3>1. c # f
      BY <2>5 DEF NoFileAt
    <3>2. \A n \in nested : Above(c, n) => Above(d, n)
      BY <2>2, AboveTrans
    <3>3. <<f, LastTree(f)>> \in Down(c, nested)
      BY <1>1, <2>2, <3>1, <3>2 DEF Down
    <3> QED
      BY <2>3, <2>4, <2>5, <3>3 DEF Share
  <2>6. CASE ~ \E n \in nested : Above(c, n)
    <3>1. <<f, LastTree(f)>> \in Copied(c)
      BY <2>2 DEF Copied
    <3> QED
      BY <2>3, <2>4, <2>6, <3>1 DEF Share
  <2> QED
    BY <2>5, <2>6
<1>2. ASSUME NEW c \in kids, NEW e \in Share(c, nested, Down(c, nested))
      PROVE  e \in Down(d, nested)
  <2>1. PICK x \in AllFiles \cup nested : Above(d, x) /\ c = SubSeq(x, 1, Len(d) + 1)
    BY DEF Children
  <2>2. c \in Seq(N) /\ Len(c) = Len(d) + 1 /\ Above(d, c) /\ Len(d) \in Nat
    <3>1. x \in Seq(N) /\ Len(d) \in Nat
      OBVIOUS
    <3> QED
      BY <2>1, <3>1, OnTheWay
  <2>3. PICK f \in AllFiles : /\ e = <<f, LastTree(f)>> /\ (c = f \/ Above(c, f))
                              /\ \A n \in nested : Above(c, n) => ~Above(n, f)
    <3>1. CASE \E n \in nested : Above(c, n)
      <4>1. e \in Down(c, nested)
        BY <3>1 DEF Share
      <4> QED
        BY <4>1 DEF Down
    <3>2. CASE ~ \E n \in nested : Above(c, n)
      <4>1. e \in Copied(c)
        BY <3>2 DEF Share
      <4> QED
        BY <3>2, <4>1 DEF Copied
    <3> QED
      BY <3>1, <3>2
  <2>4. f \in Seq(N) /\ Above(d, f)
    BY <2>2, <2>3, AboveTrans
  <2>5. ASSUME NEW n \in nested, Above(d, n), Above(n, f) PROVE FALSE
    <3>1. n \in Seq(N) /\ Len(n) \in Nat /\ Len(d) < Len(n) /\ n # c /\ ~Above(c, n)
      BY <2>2, <2>3, <2>5, AboveIs
    <3>2. CASE Len(n) = Len(c)
      <4>1. \A i \in 1..Len(n) : n[i] = f[i]
        BY <2>4, <2>5, <3>1, AboveIs
      <4>2. \A i \in 1..Len(c) : c[i] = f[i]
        BY <2>2, <2>3, <2>4, AboveIs
      <4>3. \A i \in 1..Len(c) : c[i] = n[i]
        BY <3>2, <4>1, <4>2
      <4> QED
        BY <2>2, <3>1, <3>2, <4>3
    <3>3. CASE Len(n) # Len(c)
      <4>1. Len(c) < Len(n)
        BY <2>2, <3>1, <3>3
      <4>2. CASE Above(c, f)
        BY <2>2, <2>4, <2>5, <3>1, <4>1, <4>2, AboveBoth
      <4>3. CASE c = f
        <5>1. Len(n) < Len(f)
          BY <2>4, <2>5, <3>1, AboveIs
        <5> QED
          BY <2>2, <3>1, <4>1, <4>3, <5>1
      <4> QED
        BY <2>3, <4>2, <4>3
    <3> QED
      BY <3>2, <3>3
  <2> QED
    BY <2>3, <2>4, <2>5 DEF Down
<1>3. ASSUME NEW e \in Down(d, nested)
      PROVE  \E c \in kids : e \in Share(c, nested, Down(c, nested))
  <2>1. PICK f \in AllFiles : /\ e = <<f, LastTree(f)>> /\ Above(d, f)
                              /\ \A n \in nested : Above(d, n) => ~Above(n, f)
    BY DEF Down
  <2> QED
    BY <1>1, <2>1
<1> QED
  BY <1>2, <1>3

\* Lengths of finitely many paths are bounded.
LEMMA LengthsBounded ==
  ASSUME NEW N, NEW S \in SUBSET Seq(N), IsFiniteSet(S), S # {}
  PROVE  \E b \in Nat : \A s \in S : Len(s) <= b
<1> DEFINE L == {Len(s) : s \in S}
<1>0. \A s \in S : Len(s) \in Nat
  OBVIOUS
<1>1. L \in SUBSET Nat /\ L # {}
  BY <1>0
<1>2. IsFiniteSet(L)
  <2> DEFINE f == [s \in S |-> Len(s)]
  <2>1. f \in Surjection(S, L)
    BY DEF Surjection
  <2> QED
    BY <2>1, FS_Surjection
<1> HIDE DEF L
<1>3. PICK m \in L : \A x \in L : m >= x
  BY <1>1, <1>2, FiniteHasMax
<1> QED
  BY <1>1, <1>3 DEF L

\* The equation that build_dir recurs by.
Walks(build, dirs, nested) ==
  build = [d \in dirs |->
             UNION {Share(c, nested, build[c]) : c \in Children(d, nested) \ nested}]

\* The directories that build_dir walks through.
Dirs(mp, nested) == {mp} \cup UNION {Prefixes(n) : n \in nested}

LEMMA DirsAre ==
  ASSUME NEW N, NEW mp \in Seq(N), NEW nested \in SUBSET Seq(N)
  PROVE  /\ Dirs(mp, nested) \in SUBSET Seq(N)
         /\ \A c \in Seq(N), n \in nested : Above(c, n) => c \in Dirs(mp, nested)
         /\ \A d \in Dirs(mp, nested) : d = mp \/ \E n \in nested : Len(d) <= Len(n)
<1>1. ASSUME NEW n \in nested, NEW p \in Prefixes(n)
      PROVE  p \in Seq(N) /\ Len(p) <= Len(n)
  <2>1. PICK l \in 0..Len(n) : p = SubSeq(n, 1, l)
    BY DEF Prefixes
  <2>2. n \in Seq(N) /\ Len(n) \in Nat
    OBVIOUS
  <2> QED
    BY <2>1, <2>2, Cut
<1>2. ASSUME NEW c \in Seq(N), NEW n \in nested, Above(c, n) PROVE c \in Prefixes(n)
  <2>1. n \in Seq(N) /\ Len(c) \in Nat /\ Len(n) \in Nat
    OBVIOUS
  <2>2. Len(c) < Len(n) /\ \A i \in 1..Len(c) : c[i] = n[i]
    BY <1>2, <2>1, AboveIs
  <2>3. Len(c) \in 0..Len(n)
    BY <2>1, <2>2
  <2> DEFINE p == SubSeq(n, 1, Len(c))
  <2>4. p \in Seq(N) /\ Len(p) = Len(c) /\ \A i \in 1..Len(c) : p[i] = n[i]
    BY <2>1, <2>3, Cut
  <2> HIDE DEF p
  <2>5. p = c
    BY <2>1, <2>2, <2>4
  <2> QED
    BY <2>3, <2>5 DEF Prefixes, p
<1> QED
  BY <1>1, <1>2 DEF Dirs

\* The recursion has one solution, and it is Down.
LEMMA WalkIs ==
  ASSUME NEW N, AllFiles \in SUBSET Seq(N), NEW nested \in SUBSET Seq(N), IsFiniteSet(nested),
         NoFileAt(nested), NEW mp \in Seq(N), NEW build, Walks(build, Dirs(mp, nested), nested)
  PROVE  build[mp] = Down(mp, nested)
<1> DEFINE dirs == Dirs(mp, nested)
<1>1. /\ dirs \in SUBSET Seq(N) /\ mp \in dirs
      /\ \A c \in Seq(N), n \in nested : Above(c, n) => c \in dirs
      /\ \A d \in dirs : d = mp \/ \E n \in nested : Len(d) <= Len(n)
  BY DirsAre DEF Dirs
<1>2. \A d \in dirs : build[d] = UNION {Share(c, nested, build[c]) : c \in Children(d, nested) \ nested}
  BY DEF Walks
<1> HIDE DEF dirs
<1>3. PICK b \in Nat : \A s \in nested \cup {mp} : Len(s) <= b
  <2>1. IsFiniteSet(nested \cup {mp})
    BY FS_AddElement
  <2> QED
    BY <2>1, LengthsBounded
<1>4. \A d \in dirs : Len(d) \in Nat /\ Len(d) <= b
  <2> SUFFICES ASSUME NEW d \in dirs PROVE Len(d) \in Nat /\ Len(d) <= b
    OBVIOUS
  <2>1. Len(d) \in Nat
    BY <1>1
  <2>2. CASE d = mp
    BY <1>3, <2>1, <2>2
  <2>3. CASE \E n \in nested : Len(d) <= Len(n)
    <3>1. PICK n \in nested : Len(d) <= Len(n)
      BY <2>3
    <3>2. Len(n) <= b /\ Len(n) \in Nat
      BY <1>3
    <3> QED
      BY <2>1, <3>1, <3>2
  <2> QED
    BY <1>1, <2>2, <2>3
<1> DEFINE Bad == {d \in dirs : build[d] # Down(d, nested)}
           T   == {b - Len(d) : d \in Bad}
<1> SUFFICES ASSUME mp \in Bad PROVE FALSE
  BY <1>1
<1>5. T \in SUBSET Nat /\ T # {}
  BY <1>4
<1>6. PICK m \in T : \A k \in T : m <= k
  BY <1>5, Least
<1>7. PICK d \in Bad : m = b - Len(d)
  BY <1>6
<1>8. ASSUME NEW c \in Seq(N), Len(c) = Len(d) + 1 PROVE c \notin Bad
  <2> SUFFICES ASSUME c \in Bad PROVE FALSE
    OBVIOUS
  <2>1. b - Len(c) \in T
    OBVIOUS
  <2>2. b - Len(d) <= b - Len(c)
    BY <1>6, <1>7, <2>1
  <2>3. Len(d) \in Nat
    BY <1>4
  <2> QED
    BY <1>8, <2>2, <2>3
<1>9. ASSUME NEW c \in Children(d, nested) \ nested
      PROVE  Share(c, nested, build[c]) = Share(c, nested, Down(c, nested))
  <2>1. PICK x \in AllFiles \cup nested : Above(d, x) /\ c = SubSeq(x, 1, Len(d) + 1)
    BY DEF Children
  <2>2. x \in Seq(N) /\ d \in Seq(N)
    BY <1>1
  <2>3. c \in Seq(N) /\ Len(c) = Len(d) + 1
    BY <2>1, <2>2, OnTheWay
  <2>4. c \notin Bad
    BY <1>8, <2>3
  <2>5. (\E n \in nested : Above(c, n)) => build[c] = Down(c, nested)
    BY <1>1, <2>3, <2>4
  <2> QED
    BY <2>5 DEF Share
<1>10. d \in dirs /\ d \in Seq(N)
  BY <1>1
<1>11. build[d] = UNION {Share(c, nested, build[c]) : c \in Children(d, nested) \ nested}
  BY <1>2, <1>10
<1>12. UNION {Share(c, nested, build[c]) : c \in Children(d, nested) \ nested}
         = UNION {Share(c, nested, Down(c, nested)) : c \in Children(d, nested) \ nested}
  BY <1>9
<1>13. build[d] = Down(d, nested)
  BY <1>10, <1>11, <1>12, DownSplits
<1> QED
  BY <1>13

\* And Down is one.
LEMMA WalkExists ==
  ASSUME NEW N, AllFiles \in SUBSET Seq(N), NEW nested \in SUBSET Seq(N), NoFileAt(nested),
         NEW mp \in Seq(N)
  PROVE  \E build : Walks(build, Dirs(mp, nested), nested)
<1> DEFINE dirs == Dirs(mp, nested)
           build == [d \in dirs |-> Down(d, nested)]
<1>1. /\ dirs \in SUBSET Seq(N)
      /\ \A c \in Seq(N), n \in nested : Above(c, n) => c \in dirs
  BY DirsAre
<1> HIDE DEF dirs
<1>2. ASSUME NEW d \in dirs
      PROVE  build[d] = UNION {Share(c, nested, build[c]) : c \in Children(d, nested) \ nested}
  <2>1. d \in Seq(N)
    BY <1>1
  <2>2. ASSUME NEW c \in Children(d, nested) \ nested
        PROVE  Share(c, nested, build[c]) = Share(c, nested, Down(c, nested))
    <3>1. PICK x \in AllFiles \cup nested : Above(d, x) /\ c = SubSeq(x, 1, Len(d) + 1)
      BY DEF Children
    <3>2. x \in Seq(N) /\ d \in Seq(N)
      BY <1>1
    <3>3. c \in Seq(N)
      BY <3>1, <3>2, OnTheWay
    <3>4. (\E n \in nested : Above(c, n)) => build[c] = Down(c, nested)
      BY <1>1, <3>3
    <3> QED
      BY <3>4 DEF Share
  <2>3. UNION {Share(c, nested, build[c]) : c \in Children(d, nested) \ nested}
          = UNION {Share(c, nested, Down(c, nested)) : c \in Children(d, nested) \ nested}
    BY <2>2
  <2>4. Down(d, nested) = UNION {Share(c, nested, Down(c, nested)) : c \in Children(d, nested) \ nested}
    BY <2>1, DownSplits
  <2>5. build[d] = Down(d, nested)
    OBVIOUS
  <2> QED
    BY <2>3, <2>4, <2>5
<1>3. build = [d \in dirs |->
                 UNION {Share(c, nested, build[c]) : c \in Children(d, nested) \ nested}]
  <2> HIDE DEF build
  <2>1. build = [d \in dirs |-> build[d]]
    BY DEF build
  <2> QED
    BY <1>2, <2>1
<1>4. Walks(build, dirs, nested)
  BY <1>3 DEF Walks
<1> QED
  BY <1>4 DEF dirs

\* What build_dir puts into a file system: all that is below its mount point and below
\* no mount point further down.
LEMMA CarveIs ==
  ASSUME NEW N, AllFiles \in SUBSET Seq(N), AllMountPoints(plan) \in SUBSET Seq(N),
         IsFiniteSet(AllMountPoints(plan)), NoFileAt(AllMountPoints(plan)), NEW mp \in Seq(N)
  PROVE  Carve(mp) = Down(mp, Nested(mp))
<1> DEFINE nested == Nested(mp)
           W(build) == Walks(build, Dirs(mp, nested), nested)
<1>1. /\ nested \in SUBSET Seq(N) /\ nested \subseteq AllMountPoints(plan)
      /\ NoFileAt(nested)
  BY DEF Nested, NoFileAt
<1>2. IsFiniteSet(nested)
  BY <1>1, FS_Subset
<1>3. Carve(mp) = (CHOOSE build : W(build))[mp]
  BY DEF Carve, Walks, Dirs, Share
<1> HIDE DEF nested
<1>4. W(CHOOSE build : W(build))
  <2>1. \E build : W(build)
    BY <1>1, WalkExists
  <2> HIDE DEF W
  <2> QED
    BY <2>1
<1>5. (CHOOSE build : W(build))[mp] = Down(mp, nested)
  <2> DEFINE build == CHOOSE build : W(build)
  <2>1. Walks(build, Dirs(mp, nested), nested)
    BY <1>4
  <2> HIDE DEF build
  <2>2. build[mp] = Down(mp, nested)
    BY <1>1, <1>2, <2>1, WalkIs
  <2> QED
    BY <2>2 DEF build
<1> QED
  BY <1>3, <1>5 DEF nested

\* The plans images are made of: they have finitely many mount points, no tree has a
\* file where a directory must be, at or above one of them, and nothing is mounted from
\* a LUKS container, which an image leaves empty.
SoundImages ==
  \A pl \in ImagePlans :
    /\ IsSeq(pl.parts) /\ IsFiniteSet(AllMountPoints(pl))
    /\ \A i \in 1..Len(pl.parts) : pl.parts[i].kind \in {"luks", "none"} => pl.parts[i].mounts = {}
    /\ \A ts \in Trees : \E N :
         /\ AllMountPoints(pl) \in SUBSET Seq(N)
         /\ \A t \in DOMAIN ts : ts[t] \in SUBSET Seq(N)
         /\ \A t \in DOMAIN ts : \A f \in ts[t], m \in AllMountPoints(pl) : f # m /\ ~Above(f, m)

\* What the file systems of partition i should get.
Deepest(i) ==
  {y \in MountsOf(Parts[i]) \X AllFiles :
     /\ Above(y[1], y[2])
     /\ \A m \in AllMountPoints(plan) : Above(m, y[2]) => Len(m) <= Len(y[1])}

Lands(i) == {<<x[1], <<x[2], LastTree(x[2])>>>> : x \in Deepest(i)}

LEMMA ContentLands ==
  ASSUME SoundImages, plan \in ImagePlans, trees \in Trees, NEW i \in 1..Len(Parts)
  PROVE  Content(Parts[i]) = Lands(i)
<1> DEFINE points == AllMountPoints(plan)
<1>1. PICK N : /\ points \in SUBSET Seq(N)
               /\ \A t \in DOMAIN trees : trees[t] \in SUBSET Seq(N)
               /\ \A t \in DOMAIN trees : \A f \in trees[t], m \in points : f # m /\ ~Above(f, m)
  BY DEF SoundImages
<1>2. IsFiniteSet(points) /\ IsSeq(plan.parts)
  BY DEF SoundImages
<1>3. AllFiles \in SUBSET Seq(N) /\ NoFileAt(points)
  BY <1>1 DEF AllFiles, NoFileAt
<1>4. MountsOf(Parts[i]) \subseteq points
  <2>1. i \in DOMAIN plan.parts
    BY <1>2 DEF IsSeq, Parts
  <2> QED
    BY <2>1 DEF AllMountPoints, Parts
<1> HIDE DEF points
<1>5. Content(Parts[i]) = UNION {{mp} \X Carve(mp) : mp \in MountsOf(Parts[i])}
  <2>1. Parts[i].kind \in {"luks", "none"} => Parts[i].mounts = {}
    BY DEF SoundImages, Parts
  <2> QED
    BY <2>1 DEF Content, MountsOf
<1>6. ASSUME NEW mp \in MountsOf(Parts[i])
      PROVE  Carve(mp) = Down(mp, Nested(mp))
  BY <1>1, <1>2, <1>3, <1>4, CarveIs DEF points
<1>7. ASSUME NEW mp \in MountsOf(Parts[i]), NEW f \in AllFiles
      PROVE  <<mp, f>> \in Deepest(i)
               <=> Above(mp, f) /\ \A n \in Nested(mp) : Above(mp, n) => ~Above(n, f)
  <2>1. mp \in Seq(N) /\ f \in Seq(N) /\ Len(mp) \in Nat /\ mp \in points
    BY <1>1, <1>3, <1>4
  <2>2. ASSUME Above(mp, f), NEW m \in points, Above(m, f)
        PROVE  Len(m) <= Len(mp) <=> ~Above(mp, m)
    <3>1. m \in Seq(N) /\ Len(m) \in Nat
      BY <1>1
    <3>2. Above(mp, m) => Len(mp) < Len(m)
      BY <2>1, <3>1, AboveIs
    <3>3. Len(mp) < Len(m) => Above(mp, m)
      BY <2>1, <2>2, <3>1, AboveBoth
    <3> QED
      BY <2>1, <3>1, <3>2, <3>3
  <2>3. \A n : n \in Nested(mp) <=> n \in points /\ Above(mp, n)
    BY DEF Nested, points
  <2>4. <<mp, f>> \in Deepest(i)
          <=> Above(mp, f) /\ \A m \in points : Above(m, f) => Len(m) <= Len(mp)
    BY DEF Deepest, points
  <2> QED
    BY <2>2, <2>3, <2>4
<1>8. ASSUME NEW mp \in MountsOf(Parts[i]), NEW e \in Carve(mp) PROVE <<mp, e>> \in Lands(i)
  <2>1. PICK f \in AllFiles : /\ e = <<f, LastTree(f)>> /\ Above(mp, f)
                              /\ \A n \in Nested(mp) : Above(mp, n) => ~Above(n, f)
    BY <1>6 DEF Down
  <2>2. <<mp, f>> \in Deepest(i)
    BY <1>7, <2>1
  <2> QED
    BY <2>1, <2>2 DEF Lands
<1>9. ASSUME NEW x \in Deepest(i)
      PROVE  /\ x[1] \in MountsOf(Parts[i])
             /\ <<x[2], LastTree(x[2])>> \in Carve(x[1])
  <2>1. x[1] \in MountsOf(Parts[i]) /\ x[2] \in AllFiles /\ x = <<x[1], x[2]>>
    BY DEF Deepest
  <2>2. Above(x[1], x[2]) /\ \A n \in Nested(x[1]) : Above(x[1], n) => ~Above(n, x[2])
    BY <1>7, <2>1
  <2>3. <<x[2], LastTree(x[2])>> \in Down(x[1], Nested(x[1]))
    BY <2>1, <2>2 DEF Down
  <2> QED
    BY <1>6, <2>1, <2>3
<1>10. Lands(i) \subseteq UNION {{mp} \X Carve(mp) : mp \in MountsOf(Parts[i])}
  BY <1>9 DEF Lands
<1>11. UNION {{mp} \X Carve(mp) : mp \in MountsOf(Parts[i])} \subseteq Lands(i)
  BY <1>8
<1> QED
  BY <1>5, <1>10, <1>11

LEMMA SameLands ==
  ASSUME plan' = plan, trees' = trees
  PROVE  Parts' = Parts /\ \A i : Lands(i)' = Lands(i)
<1>1. Parts' = Parts /\ AllFiles' = AllFiles /\ AllMountPoints(plan)' = AllMountPoints(plan)
  BY DEF Parts, AllFiles, AllMountPoints
<1>2. \A f : LastTree(f)' = LastTree(f)
  BY DEF LastTree
<1>3. \A i : Deepest(i)' = Deepest(i)
  BY <1>1 DEF Deepest
<1> QED
  BY <1>1, <1>2, <1>3 DEF Lands

-----------------------------------------------------------------------------
(* The run of an image.                                                    *)

\* The commands of an image in their order.
Nth(j) == IF j = 1 THEN Cmd("zap", 0) ELSE IF j = 2 THEN Cmd("new", 0) ELSE Cmd("fill", j - 2)

\* The first k commands have run, and the others are to come.
ToFill(k) ==
  /\ IsSeq(todo) /\ k + Len(todo) = Len(Parts) + 2
  /\ \A j \in 1..Len(todo) : todo[j] = Nth(k + j)

\* What they have left: the table, and the file systems filled so far.
FilledTo(k) ==
  k >= 2 => /\ image = [table |-> extents, files |-> image.files]
            /\ DOMAIN image.files = 1..Len(Parts)
            /\ \A i \in 1..(k - 2) : image.files[i] = Lands(i)

Filling ==
  /\ verdict # "done" => todo = <<>>
  /\ verdict = "done" => \E k \in 0..(Len(Parts) + 2) : ToFill(k) /\ FilledTo(k)

ImageInv ==
  program = "image" =>
    /\ plan \in ImagePlans /\ trees \in Trees
    /\ outcome = "running" => Filling
    /\ outcome = "ok" => image.table = extents /\ \A i \in 1..Len(Parts) : image.files[i] = Lands(i)

LEMMA ImagePartsAre ==
  ASSUME SoundImages, plan \in ImagePlans
  PROVE  IsSeq(Parts) /\ Len(Parts) \in Nat
<1>1. IsSeq(Parts)
  BY DEF SoundImages, Parts
<1> QED
  BY <1>1 DEF IsSeq

LEMMA PrepareImage ==
  ASSUME SoundImages, ImageInv, Prepare, program = "image"
  PROVE  ImageInv'
<1>1. /\ outcome = "running" /\ outcome' = "running" /\ verdict' = "done" /\ todo' = ImageCmds
      /\ UNCHANGED <<program, plan, trees>>
  BY DEF Prepare, runVars
<1>2. plan \in ImagePlans /\ trees \in Trees /\ Parts' = Parts /\ Len(Parts) \in Nat
  BY <1>1, ImagePartsAre DEF ImageInv, Parts
<1> DEFINE n == Len(Parts)
           C == {Cmd("zap", 0), Cmd("new", 0)} \cup {Cmd("fill", i) : i \in 1..n}
           fills == [i \in 1..n |-> Cmd("fill", i)]
<1>3. fills \in Seq(C) /\ Len(fills) = n /\ <<Cmd("zap", 0), Cmd("new", 0)>> \in Seq(C) /\ n \in Nat
  BY <1>2
<1>4. \A i \in 1..n : fills[i] = Cmd("fill", i)
  OBVIOUS
<1>5. ImageCmds = <<Cmd("zap", 0), Cmd("new", 0)>> \o fills
  BY DEF ImageCmds
<1> HIDE DEF fills, C, n
<1>6. /\ ImageCmds \in Seq(C) /\ Len(ImageCmds) = n + 2
      /\ ImageCmds[1] = Cmd("zap", 0) /\ ImageCmds[2] = Cmd("new", 0)
      /\ \A j \in 3..(n + 2) : ImageCmds[j] = fills[j - 2]
  BY <1>3, <1>5
<1>7. ToFill(0)'
  <2>1. IsSeq(todo')
    BY <1>1, <1>6 DEF IsSeq
  <2>2. 0 + Len(todo') = n + 2
    BY <1>1, <1>3, <1>6
  <2>3. ASSUME NEW j \in 1..Len(ImageCmds)
        PROVE  ImageCmds[j] = Nth(0 + j)
    <3>0. j \in Nat /\ 0 + j = j
      OBVIOUS
    <3>1. CASE j = 1 \/ j = 2
      BY <1>6, <3>0, <3>1 DEF Nth
    <3>2. CASE j # 1 /\ j # 2
      <4>1. j \in 3..(n + 2) /\ j - 2 \in 1..n
        BY <1>3, <1>6, <3>2
      <4> QED
        BY <1>4, <1>6, <3>0, <3>2, <4>1 DEF Nth
    <3> QED
      BY <3>1, <3>2
  <2> QED
    BY <1>1, <1>2, <2>1, <2>2, <2>3 DEF ToFill, IsSeq, n
<1>8. FilledTo(0)' /\ 0 \in 0..(n + 2)
  BY <1>3 DEF FilledTo
<1> QED
  BY <1>1, <1>2, <1>7, <1>8 DEF ImageInv, Filling, n

LEMMA StepImage ==
  ASSUME SoundImages, ImageInv, Step, program = "image"
  PROVE  ImageInv'
<1>1. /\ todo # <<>> /\ todo' = Tail(todo) /\ UNCHANGED <<layoutVars, runVars>>
      /\ outcome = "running" /\ outcome' = "running"
  BY DEF Step, Zap, NewTable, Reread, WaitFor, Wipefs, LuksFormat, LuksOpen, Mkfs, ZapImage, NewImage, Fill,
         Does, Now
<1>2. UNCHANGED <<extents, verdict, program, plan, trees>>
  BY <1>1 DEF layoutVars, runVars
<1>3. plan \in ImagePlans /\ trees \in Trees /\ Filling /\ verdict = "done" /\ Len(Parts) \in Nat
  BY <1>1, ImagePartsAre DEF ImageInv, Filling
<1>4. Parts' = Parts /\ \A i : Lands(i)' = Lands(i)
  BY <1>2, SameLands
<1>5. PICK k \in 0..(Len(Parts) + 2) : ToFill(k) /\ FilledTo(k)
  BY <1>3 DEF Filling
<1>6. PICK S : todo \in Seq(S)
  BY <1>5 DEF ToFill, IsSeq
<1>7. /\ Head(todo) = todo[1] /\ Len(todo) \in Nat \ {0}
      /\ Tail(todo) \in Seq(S) /\ Len(Tail(todo)) = Len(todo) - 1
      /\ \A j \in 1..Len(Tail(todo)) : j + 1 \in 1..Len(todo) /\ Tail(todo)[j] = todo[j + 1]
  BY <1>1, <1>6
<1>8. /\ k \in Nat /\ k \in 0..(Len(Parts) + 1) /\ k + 1 \in 0..(Len(Parts) + 2)
      /\ k + Len(todo) = Len(Parts) + 2
      /\ \A j \in 1..Len(todo) : todo[j] = Nth(k + j)
  BY <1>3, <1>5, <1>7 DEF ToFill
<1>9. ToFill(k + 1)'
  <2>1. IsSeq(todo')
    BY <1>1, <1>7 DEF IsSeq
  <2>2. (k + 1) + Len(todo') = Len(Parts) + 2
    BY <1>1, <1>3, <1>7, <1>8
  <2>3. ASSUME NEW j \in 1..Len(Tail(todo))
        PROVE  Tail(todo)[j] = Nth((k + 1) + j)
    <3>1. /\ j + 1 \in 1..Len(todo) /\ Tail(todo)[j] = todo[j + 1]
          /\ k + (j + 1) = (k + 1) + j
      BY <1>7, <1>8
    <3> QED
      BY <1>8, <3>1
  <2> QED
    BY <1>1, <1>4, <2>1, <2>2, <2>3 DEF ToFill, IsSeq
<1>10. Head(todo) = Nth(k + 1)
  BY <1>7, <1>8
<1>11. FilledTo(k + 1)'
  <2>0. CASE k = 0
    BY <2>0 DEF FilledTo
  <2>1. CASE k = 1
    <3>1. Head(todo).op = "new"
      BY <1>10, <2>1 DEF Cmd, Nth
    <3>2. NewImage
      BY <3>1 DEF Step, Zap, NewTable, Reread, WaitFor, Wipefs, LuksFormat, LuksOpen, Mkfs, ZapImage, Fill, Now
    <3>3. image' = [table |-> extents, files |-> [i \in 1..Len(Parts) |-> {}]]
      BY <3>2 DEF NewImage
    <3>4. 1..((1 + 1) - 2) = {}
      OBVIOUS
    <3> QED
      BY <1>2, <1>4, <2>1, <3>3, <3>4 DEF FilledTo
  <2>2. CASE k # 0 /\ k # 1
    <3>0. PICK m \in 1..Len(Parts) : /\ m = k - 1 /\ (k + 1) - 2 = m /\ k - 2 = m - 1
                                     /\ k + 1 # 1 /\ k + 1 # 2
      BY <1>3, <1>8, <2>2
    <3>1. Head(todo) = Cmd("fill", m) /\ Head(todo).op = "fill" /\ Part = m
      BY <1>10, <3>0 DEF Cmd, Part, Nth
    <3>2. Fill
      BY <3>1 DEF Step, Zap, NewTable, Reread, WaitFor, Wipefs, LuksFormat, LuksOpen, Mkfs, ZapImage, NewImage, Now
    <3>3. /\ image = [table |-> extents, files |-> image.files]
          /\ DOMAIN image.files = 1..Len(Parts)
          /\ \A i \in 1..(m - 1) : image.files[i] = Lands(i)
      BY <1>5, <1>8, <2>2, <3>0 DEF FilledTo
    <3>4. image' = [image EXCEPT !.files[m] = Content(Parts[m])]
      BY <3>1, <3>2 DEF Fill
    <3>6. Content(Parts[m]) = Lands(m)
      BY <1>3, <3>0, ContentLands
    <3>7. image' = [table |-> extents, files |-> [image.files EXCEPT ![m] = Lands(m)]]
      BY <3>3, <3>4, <3>6
    <3>8. /\ image'.files = [image.files EXCEPT ![m] = Lands(m)]
          /\ image' = [table |-> extents, files |-> image'.files]
      BY <3>7
    <3>9. ASSUME NEW i \in 1..((k + 1) - 2) PROVE image'.files[i] = Lands(i)
      <4>1. i \in 1..Len(Parts) /\ (i = m \/ i \in 1..(m - 1))
        BY <1>8, <3>0
      <4> QED
        BY <3>3, <3>8, <4>1
    <3>10. DOMAIN image'.files = 1..Len(Parts)
      BY <3>3, <3>8
    <3> QED
      BY <1>2, <1>4, <3>8, <3>9, <3>10 DEF FilledTo
  <2> QED
    BY <2>0, <2>1, <2>2
<1> QED
  BY <1>1, <1>2, <1>3, <1>4, <1>8, <1>9, <1>11 DEF ImageInv, Filling

LEMMA FinishImage ==
  ASSUME SoundImages, ImageInv, Finish, program = "image"
  PROVE  ImageInv'
<1>1. /\ outcome = "running" /\ outcome' = "ok" /\ todo = <<>> /\ verdict = "done"
      /\ UNCHANGED <<program, plan, trees, extents, image>>
  BY DEF Finish, layoutVars, runVars, NoDisk
<1>2. plan \in ImagePlans /\ trees \in Trees /\ Filling /\ Len(Parts) \in Nat
  BY <1>1, ImagePartsAre DEF ImageInv
<1>3. PICK k \in 0..(Len(Parts) + 2) : ToFill(k) /\ FilledTo(k)
  BY <1>1, <1>2 DEF Filling
<1>4. k = Len(Parts) + 2 /\ k >= 2 /\ k - 2 = Len(Parts)
  BY <1>1, <1>2, <1>3 DEF ToFill
<1>5. image.table = extents /\ \A i \in 1..Len(Parts) : image.files[i] = Lands(i)
  BY <1>3, <1>4 DEF FilledTo
<1>6. Parts' = Parts /\ \A i : Lands(i)' = Lands(i)
  BY <1>1, SameLands
<1> QED
  BY <1>1, <1>2, <1>5, <1>6 DEF ImageInv

\* What stays when the run does not move.
LEMMA SameImage ==
  ASSUME ImageInv, UNCHANGED <<program, plan, trees, extents, image>>,
         outcome' = outcome \/ outcome' \in {"none", "failed", "refused"},
         outcome = "running" /\ outcome' = "running" =>
           UNCHANGED <<verdict, todo>> \/ (verdict # "done" /\ verdict' # "done" /\ todo' = todo)
  PROVE  ImageInv'
<1>1. Parts' = Parts /\ \A i : Lands(i)' = Lands(i)
  BY SameLands
<1>2. \A k : FilledTo(k)' = FilledTo(k)
  BY <1>1 DEF FilledTo
<1>3. todo' = todo => \A k : ToFill(k)' = ToFill(k)
  BY <1>1 DEF ToFill, IsSeq
<1>4. program = "image" /\ outcome = "running" /\ outcome' = "running" => Filling'
  BY <1>1, <1>2, <1>3 DEF ImageInv, Filling
<1> QED
  BY <1>1, <1>4 DEF ImageInv

LEMMA NextImage == SoundImages /\ ImageInv /\ [Next]_vars => ImageInv'
<1> SUFFICES ASSUME SoundImages, ImageInv, [Next]_vars PROVE ImageInv'
  OBVIOUS
<1>1. CASE \E pl \in Plans, f \in BOOLEAN : Format(pl, f)
  BY <1>1 DEF Format, Start, ImageInv
<1>2. CASE \E pl \in ImagePlans, size \in ImageSizes, ts \in Trees : BuildImage(pl, size, ts)
  BY <1>2 DEF BuildImage, Start, Request, ImageInv, Filling
<1>3. CASE \E r \in DryRuns : DryRun(r)
  BY <1>3 DEF DryRun, Start, ImageInv
<1>4. CASE LayOut
  <2> SUFFICES ASSUME program = "image" PROVE ImageInv'
    BY <1>4 DEF LayOut, runVars, ImageInv
  <2>1. /\ outcome = "running" /\ outcome' = "running" /\ todo' = todo
        /\ UNCHANGED <<program, plan, trees>> /\ verdict \in {"new", "placing"}
        /\ verdict' \in {"placing", "ok", "error"}
    BY <1>4 DEF LayOut, runVars, Layout, OpenDisk, PlacePartition, LayoutDone
  <2> QED
    BY <2>1 DEF ImageInv, Filling
<1>5. CASE Prepare
  <2>1. CASE program = "image"
    BY <1>5, <2>1, PrepareImage
  <2>2. CASE program # "image"
    BY <1>5, <2>2 DEF Prepare, runVars, ImageInv
  <2> QED
    BY <2>1, <2>2
<1>6. CASE DoesNotFit \/ Cannot \/ Fails
  <2>1. outcome' = "failed" /\ UNCHANGED <<program, plan, trees, extents, image>>
    BY <1>6 DEF DoesNotFit, Cannot, Fails, layoutVars, runVars, NoDisk
  <2> QED
    BY <2>1, SameImage
<1>7. CASE Step
  <2>1. CASE program = "image"
    BY <1>7, <2>1, StepImage
  <2>2. CASE program # "image"
    <3>1. program' = program
      BY <1>7 DEF Step, Zap, NewTable, Reread, WaitFor, Wipefs, LuksFormat, LuksOpen, Mkfs, ZapImage, NewImage,
                  Fill, Does, runVars
    <3> QED
      BY <2>2, <3>1 DEF ImageInv
  <2> QED
    BY <2>1, <2>2
<1>8. CASE Finish
  <2>1. CASE program = "image"
    BY <1>8, <2>1, FinishImage
  <2>2. CASE program # "image"
    BY <1>8, <2>2 DEF Finish, runVars, ImageInv
  <2> QED
    BY <2>1, <2>2
<1>9. CASE Mount \/ Release
  <2>1. outcome' = outcome /\ UNCHANGED <<program, plan, trees, extents, image, verdict, todo>>
    BY <1>9 DEF Mount, Release, layoutVars, runVars
  <2> QED
    BY <2>1, SameImage
<1>a. CASE Reboot
  <2>1. outcome' = "none" /\ UNCHANGED <<program, plan, trees, extents, image>>
    BY <1>a DEF Reboot, layoutVars, runVars
  <2> QED
    BY <2>1, SameImage
<1>b. CASE UNCHANGED vars
  <2>1. outcome' = outcome /\ UNCHANGED <<program, plan, trees, extents, image, verdict, todo>>
    BY <1>b DEF vars, layoutVars, runVars
  <2> QED
    BY <2>1, SameImage
<1> QED
  BY <1>1, <1>2, <1>3, <1>4, <1>5, <1>6, <1>7, <1>8, <1>9, <1>a, <1>b DEF Next

\* An image that says it was built holds every file of its trees in the file system of
\* the deepest mount point above it, in the version of the last tree that has it, and
\* nowhere else (image.rs:92-166), however mount points and trees are nested.
THEOREM EveryFileIsInPlace ==
  ASSUME SoundImages
  PROVE  Spec => []EveryFileLands
<1>1. Init => ImageInv
  BY DEF Init, ImageInv
<1>2. ImageInv => EveryFileLands
  BY DEF ImageInv, EveryFileLands, Lands, Deepest
<1> QED
  BY <1>1, <1>2, NextImage, PTL DEF Spec
=============================================================================
