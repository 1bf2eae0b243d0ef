--------------------------- MODULE Placement_proofs ---------------------------
(* Both programs that lay out ranges implement Placement, whose ranges are       *)
(* disjoint: compute_layout for every alignment, every disk and every list of    *)
(* sizes, numbers that wrap around included, where each partition gets what was  *)
(* asked for or the plan is refused rightly; and neet-uki for every stub and all *)
(* payloads below 4 GiB, where every header says where its payload lies.         *)
EXTENDS DiskLayout, UkiLayout, Placement, WellFoundedInduction, TLAPS

-----------------------------------------------------------------------------
(* Division.                                                               *)

LEMMA DivMod ==
  ASSUME NEW n \in Int, NEW a \in Nat \ {0}
  PROVE  n \div a \in Int /\ n % a \in 0..(a - 1) /\ n = a * (n \div a) + (n % a)
  OBVIOUS

LEMMA DivNat ==
  ASSUME NEW n \in Nat, NEW a \in Nat \ {0}
  PROVE  n \div a \in Nat /\ (n \div a) * a \in Nat /\ (n \div a) * a <= n
<1>1. n \div a \in Nat
  OBVIOUS
<1> QED
  BY <1>1, DivMod

LEMMA MulMod ==
  ASSUME NEW k \in Int, NEW a \in Nat \ {0}
  PROVE  (k * a) % a = 0 /\ (k * a) \div a = k
  OBVIOUS

LEMMA Multiple ==
  ASSUME NEW n \in Int, NEW a \in Nat \ {0}, n % a = 0
  PROVE  \E k \in Int : n = k * a
<1>1. n = (n \div a) * a /\ n \div a \in Int
  BY DivMod
<1> QED
  BY <1>1

LEMMA ModTrans ==
  ASSUME NEW n \in Int, NEW a \in Nat \ {0}, NEW s \in Nat \ {0}, n % a = 0, a % s = 0
  PROVE  n % s = 0
<1>1. PICK k \in Int : n = k * a
  BY Multiple
<1>2. PICK l \in Int : a = l * s
  BY Multiple
<1>3. n = (k * l) * s /\ k * l \in Int
  BY <1>1, <1>2
<1> QED
  BY <1>3, MulMod

LEMMA ModWrap ==
  ASSUME NEW n \in Int, NEW a \in Nat \ {0}, NEW w \in Nat \ {0}, n % a = 0, w % a = 0
  PROVE  (n % w) % a = 0
<1>1. PICK k \in Int : n = k * a
  BY Multiple
<1>2. PICK l \in Int : w = l * a
  BY Multiple
<1>3. n = w * (n \div w) + (n % w) /\ n \div w \in Int
  BY DivMod
<1>4. n % w = (k - l * (n \div w)) * a /\ k - l * (n \div w) \in Int
  BY <1>1, <1>2, <1>3
<1> QED
  BY <1>4, MulMod

LEMMA ModSum ==
  ASSUME NEW m \in Int, NEW n \in Int, NEW a \in Nat \ {0}, m % a = 0, n % a = 0
  PROVE  (m + n) % a = 0
<1>1. PICK k \in Int : m = k * a
  BY Multiple
<1>2. PICK l \in Int : n = l * a
  BY Multiple
<1>3. m + n = (k + l) * a /\ k + l \in Int
  BY <1>1, <1>2
<1> QED
  BY <1>3, MulMod

LEMMA DivMono ==
  ASSUME NEW m \in Int, NEW n \in Int, NEW s \in Nat \ {0}
  PROVE  /\ m <= n => m \div s <= n \div s
         /\ m < n /\ n % s = 0 => m \div s < n \div s
  OBVIOUS

\* A number below the modulus stays, and one below twice the modulus loses it once.
LEMMA WrapOnce ==
  ASSUME NEW n \in Nat, NEW w \in Nat \ {0}, n < 2 * w
  PROVE  n % w = IF n < w THEN n ELSE n - w
  OBVIOUS

-----------------------------------------------------------------------------
(* The arithmetic of the layout.                                           *)

SizeSpec == [rest : BOOLEAN, bytes : 1..(Wide - 1)]

Asked == [total : 0..(Wide - 1), sector : Nat, sizes : Seq(SizeSpec)]

LEMMA LimitIs ==
  ASSUME disk \in Asked, Supported, LargeEnough
  PROVE  Limit \in Nat /\ Limit % Align = 0 /\ Limit < Wide
<1>1. disk.sector \in Nat \ {0} /\ disk.total \in 0..(Wide - 1)
  BY DEF Asked, Supported
<1>2. TotalSectors \in Nat /\ TotalSectors * disk.sector <= disk.total
  BY <1>1, DivNat DEF TotalSectors
<1>3. (2 * Align) \div disk.sector \in Nat
  BY <1>1, LayoutAssumption
<1> DEFINE usable == TotalSectors - GptTail
<1>4. usable \in Nat /\ usable <= TotalSectors
  BY <1>2, <1>3, LayoutAssumption DEF LargeEnough
<1>5. usable * disk.sector \in Nat /\ usable * disk.sector <= TotalSectors * disk.sector
  BY <1>1, <1>2, <1>4
<1> DEFINE bytes == usable * disk.sector
<1>6. bytes \in Nat /\ bytes < Wide
  BY <1>1, <1>2, <1>5, LayoutAssumption
<1>7. Limit = (bytes \div Align) * Align
  BY DEF Limit
<1> HIDE DEF bytes
<1>8. bytes \div Align \in Nat /\ (bytes \div Align) * Align <= bytes
  BY <1>6, DivNat, LayoutAssumption
<1>9. (bytes \div Align) * Align \in Nat /\ ((bytes \div Align) * Align) % Align = 0
  BY <1>8, MulMod, LayoutAssumption
<1> QED
  BY <1>6, <1>7, <1>8, <1>9, LayoutAssumption

\* Rounding up wraps to 0 or does not wrap.
LEMMA RoundUpIs ==
  ASSUME NEW n \in 1..(Wide - 1)
  PROVE  /\ RoundUp(n) \in 0..(Wide - 1) /\ RoundUp(n) % Align = 0
         /\ RoundUp(n) = 0 \/ RoundUp(n) = ((n + Align - 1) \div Align) * Align
<1>1. n \in Nat /\ n < Wide /\ Align \in Nat \ {0} /\ Align < Wide /\ Wide \in Nat \ {0}
  BY LayoutAssumption
<1> DEFINE m == n + Align - 1
           k == m \div Align
           up == k * Align
<1>2. m \in Nat /\ m < Wide + Align
  BY <1>1
<1> HIDE DEF m
<1>3. k \in Nat /\ up \in Nat /\ up <= m
  BY <1>1, <1>2, DivNat
<1>31. RoundUp(n) = up % Wide
  BY DEF RoundUp, m
<1> HIDE DEF k
<1>32. k \in Int /\ Align \in Nat \ {0} /\ Wide \in Int /\ Wide % Align = 0
  BY <1>1, <1>3, LayoutAssumption
<1>4. up % Align = 0
  BY <1>32, MulMod
<1>5. PICK w \in Int : Wide = w * Align
  BY <1>32, Multiple
<1>6. k <= w
  <2> DEFINE top == (w + 1) * Align
  <2>1. top = Wide + Align /\ w + 1 \in Int
    BY <1>1, <1>5
  <2>2. top % Align = 0 /\ top \div Align = w + 1
    BY <1>32, <2>1, MulMod
  <2>3. top \in Int /\ m \in Int /\ m < top
    BY <1>1, <1>2, <2>1
  <2> HIDE DEF top
  <2>4. m \div Align < top \div Align
    BY <1>32, <2>2, <2>3, DivMono
  <2> QED
    BY <1>3, <1>5, <2>2, <2>4 DEF k
<1>7. up <= Wide
  BY <1>1, <1>3, <1>5, <1>6
<1> HIDE DEF up
<1>8. up \in Nat /\ up \in Int /\ Wide \in Nat \ {0} /\ up < 2 * Wide
  BY <1>1, <1>3, <1>7
<1>9. up % Wide = IF up < Wide THEN up ELSE up - Wide
  BY <1>8, WrapOnce
<1>10. (up % Wide) % Align = 0
  BY <1>32, <1>8, <1>4, ModWrap
<1>11. RoundUp(n) \in 0..(Wide - 1) /\ (RoundUp(n) = 0 \/ RoundUp(n) = up)
  BY <1>1, <1>31, <1>7, <1>8, <1>9
<1> QED
  BY <1>31, <1>10, <1>11 DEF up, k, m

-----------------------------------------------------------------------------
(* The inductive invariant.                                                *)

Extents == [start_sector : Nat, end_sector : Nat]

Typed ==
  /\ disk \in Asked /\ extents \in Seq(Extents)
  /\ verdict \in {"new", "placing", "ok", "error"}
  /\ verdict = "new" => extents = <<>>

\* Where the next partition begins is where the last one ends.
Front ==
  verdict = "placing" =>
    /\ Supported /\ LargeEnough
    /\ cur \in Nat /\ cur % Align = 0 /\ cur < Wide
    /\ Len(extents) <= Len(disk.sizes)
    /\ extents = <<>> => cur = Align
    /\ extents # <<>> => extents[Len(extents)].end_sector + 1 = cur \div disk.sector

AsAsked(i) ==
  IF disk.sizes[i].rest
  THEN extents[i].end_sector + 1 = Limit \div disk.sector
  ELSE (extents[i].end_sector - extents[i].start_sector + 1) * disk.sector = Needs(disk.sizes[i])

Exact == verdict \in {"placing", "ok"} => \A i \in 1..Len(extents) : AsAsked(i)

IInv == Typed /\ Front /\ Exact

\* A multiple of Align is a whole number of sectors.
LEMMA WholeSectors ==
  ASSUME disk \in Asked, Supported, NEW n \in Nat, n % Align = 0
  PROVE  n % disk.sector = 0 /\ n \div disk.sector \in Nat /\ n = (n \div disk.sector) * disk.sector
<1>1. disk.sector \in Nat \ {0} /\ Align \in Nat \ {0} /\ Align % disk.sector = 0 /\ n \in Int
  BY LayoutAssumption DEF Asked, Supported
<1>2. n % disk.sector = 0
  BY <1>1, ModTrans
<1>3. n \div disk.sector \in Nat
  BY <1>1, DivNat
<1>4. n = disk.sector * (n \div disk.sector) + (n % disk.sector)
  BY <1>1, DivMod
<1> QED
  BY <1>1, <1>2, <1>3, <1>4

\* What Fits establishes, although the sum may have wrapped around.
LEMMA NextEnd ==
  ASSUME IInv, verdict = "placing", Number <= Len(disk.sizes), Fits
  PROVE  /\ Number \in 1..Len(disk.sizes)
         /\ End \in Nat /\ End % Align = 0 /\ cur < End /\ End <= Limit /\ End < Wide
         /\ IF Size.rest THEN End = Limit ELSE End - cur = Needs(Size)
<1>1. disk \in Asked /\ extents \in Seq(Extents) /\ Supported /\ LargeEnough
  BY DEF IInv, Typed, Front
<1>2. cur \in Nat /\ cur % Align = 0 /\ cur < Wide
  BY DEF IInv, Front
<1>3. Limit \in Nat /\ Limit % Align = 0 /\ Limit < Wide
  BY <1>1, LimitIs
<1>4. Number \in 1..Len(disk.sizes)
  BY <1>1 DEF Number, Asked
<1>5. Size \in SizeSpec
  BY <1>1, <1>4 DEF Size, Asked
<1>6. cur < End /\ End <= Limit
  BY DEF Fits
<1>7. CASE Size.rest
  BY <1>3, <1>4, <1>6, <1>7 DEF End
<1>8. CASE ~Size.rest
  <2> DEFINE up == RoundUp(Size.bytes)
  <2>1. Size.bytes \in 1..(Wide - 1)
    BY <1>5 DEF SizeSpec
  <2>2. /\ up \in 0..(Wide - 1) /\ up % Align = 0
        /\ up = 0 \/ up = Needs(Size)
    BY <1>8, <2>1, RoundUpIs DEF Needs
  <2>3. End = (cur + up) % Wide
    BY <1>8 DEF End
  <2> HIDE DEF up
  <2>4. Wide \in Nat \ {0} /\ cur + up \in Nat /\ cur + up \in Int /\ cur + up < 2 * Wide
    BY <1>2, <2>2, LayoutAssumption
  <2>5. (cur + up) % Wide = IF cur + up < Wide THEN cur + up ELSE (cur + up) - Wide
    BY <2>4, WrapOnce
  <2>6. End = cur + up /\ up # 0
    BY <1>2, <1>6, <2>2, <2>3, <2>4, <2>5
  <2>7. (cur + up) % Align = 0
    <3>1. cur \in Int /\ up \in Int /\ Align \in Nat \ {0}
      BY <1>2, <2>2, LayoutAssumption
    <3> QED
      BY <1>2, <2>2, <3>1, ModSum
  <2>8. End - cur = Needs(Size)
    BY <1>2, <2>2, <2>6
  <2> QED
    BY <1>3, <1>4, <1>6, <1>8, <2>4, <2>6, <2>7, <2>8
<1> QED
  BY <1>7, <1>8

\* The extent of the next partition, in sectors.
LEMMA NextExtent ==
  ASSUME IInv, verdict = "placing", Number <= Len(disk.sizes), Fits
  PROVE  LET s == disk.sector
         IN  /\ cur \div s \in Nat /\ End \div s \in Nat /\ cur \div s < End \div s
             /\ End \div s <= Limit \div s
             /\ (End \div s - cur \div s) * s = End - cur
<1>1. disk \in Asked /\ Supported /\ LargeEnough /\ cur \in Nat /\ cur % Align = 0
  BY DEF IInv, Typed, Front
<1>2. End \in Nat /\ End % Align = 0 /\ cur < End /\ End <= Limit
  BY NextEnd
<1>3. disk.sector \in Nat \ {0}
  BY <1>1 DEF Asked, Supported
<1>4. Limit \in Nat
  BY <1>1, LimitIs
<1>5. /\ cur \div disk.sector \in Nat /\ cur = (cur \div disk.sector) * disk.sector
      /\ End % disk.sector = 0
      /\ End \div disk.sector \in Nat /\ End = (End \div disk.sector) * disk.sector
  BY <1>1, <1>2, WholeSectors
<1>6. cur \in Int /\ End \in Int /\ Limit \in Int
  BY <1>1, <1>2, <1>4
<1>7. cur \div disk.sector < End \div disk.sector /\ End \div disk.sector <= Limit \div disk.sector
  BY <1>2, <1>3, <1>5, <1>6, DivMono
<1>8. ASSUME NEW a \in Nat, NEW b \in Nat, NEW s \in Nat PROVE (b - a) * s = b * s - a * s
  OBVIOUS
<1>9. (End \div disk.sector - cur \div disk.sector) * disk.sector
        = (End \div disk.sector) * disk.sector - (cur \div disk.sector) * disk.sector
  BY <1>3, <1>5, <1>8
<1> QED
  BY <1>5, <1>7, <1>9

LayoutNext == Layout \/ AnyRequest

LEMMA LayoutInit == LayoutIdle => IInv
<1> SUFFICES ASSUME LayoutIdle PROVE IInv
  OBVIOUS
<1>1. disk \in Asked
  <2>1. 0 \in 0..(Wide - 1)
    BY LayoutAssumption
  <2> QED
    BY <2>1 DEF LayoutIdle, Asked
<1> QED
  BY <1>1 DEF LayoutIdle, IInv, Typed, Front, Exact

LEMMA PlaceInv == IInv /\ PlacePartition => IInv'
<1> SUFFICES ASSUME IInv, PlacePartition PROVE IInv'
  OBVIOUS
<1>1. /\ disk \in Asked /\ extents \in Seq(Extents) /\ Supported /\ LargeEnough
      /\ verdict = "placing" /\ Number <= Len(disk.sizes) /\ disk' = disk
  BY DEF IInv, Typed, Front, PlacePartition
<1>2. Supported' /\ LargeEnough' /\ Limit' = Limit
  BY <1>1 DEF Supported, LargeEnough, Limit, TotalSectors
<1>3. CASE ~Fits
  BY <1>1, <1>3 DEF PlacePartition, IInv, Typed, Front, Exact
<1>4. CASE Fits
  <2> DEFINE new == [start_sector |-> cur \div disk.sector, end_sector |-> End \div disk.sector - 1]
  <2>1. extents' = Append(extents, new) /\ cur' = End /\ verdict' = verdict
    BY <1>4 DEF PlacePartition
  <2>2. /\ cur \div disk.sector \in Nat /\ End \div disk.sector \in Nat
        /\ cur \div disk.sector < End \div disk.sector
        /\ (End \div disk.sector - cur \div disk.sector) * disk.sector = End - cur
    BY <1>1, <1>4, NextExtent
  <2>3. /\ Number \in 1..Len(disk.sizes)
        /\ End \in Nat /\ End % Align = 0 /\ End < Wide
        /\ IF Size.rest THEN End = Limit ELSE End - cur = Needs(Size)
    BY <1>1, <1>4, NextEnd
  <2>4. new \in Extents
    BY <2>2 DEF Extents
  <2>5. new.start_sector = cur \div disk.sector /\ new.end_sector = End \div disk.sector - 1
    OBVIOUS
  <2> HIDE DEF new
  <2>6. /\ extents' \in Seq(Extents) /\ Len(extents') = Number /\ extents' # <<>>
        /\ extents'[Number] = new /\ \A i \in 1..Len(extents) : extents'[i] = extents[i]
    BY <1>1, <2>1, <2>4 DEF Number
  <2>7. Typed'
    BY <1>1, <2>1, <2>6 DEF Typed, Asked
  <2>8. Front'
    <3>1. extents'[Len(extents')].end_sector + 1 = End \div disk.sector
      BY <2>2, <2>5, <2>6
    <3> QED
      BY <1>1, <1>2, <2>1, <2>3, <2>6, <3>1 DEF Front
  <2>9. Exact'
    <3>1. ASSUME NEW i \in 1..Len(extents) PROVE AsAsked(i)'
      <4>1. extents'[i] = extents[i] /\ AsAsked(i)
        BY <1>1, <2>6 DEF IInv, Exact
      <4> QED
        BY <1>1, <1>2, <4>1 DEF AsAsked, Needs
    <3>2. ASSUME NEW i \in 1..Len(extents'), i = Number PROVE AsAsked(i)'
      <4>1. new.end_sector + 1 = End \div disk.sector
        BY <2>2, <2>5
      <4>2. (new.end_sector - new.start_sector + 1) = End \div disk.sector - cur \div disk.sector
        BY <2>2, <2>5
      <4>3. IF disk.sizes[i].rest
            THEN extents'[i].end_sector + 1 = Limit \div disk.sector
            ELSE (extents'[i].end_sector - extents'[i].start_sector + 1) * disk.sector
                   = Needs(disk.sizes[i])
        BY <2>2, <2>3, <2>6, <3>2, <4>1, <4>2 DEF Size
      <4> QED
        BY <1>1, <1>2, <4>3 DEF AsAsked, Needs
    <3> QED
      BY <1>1, <2>6, <3>1, <3>2 DEF Exact, Number
  <2> QED
    BY <2>7, <2>8, <2>9 DEF IInv
<1> QED
  BY <1>3, <1>4

LEMMA StepInv == IInv /\ [LayoutNext]_layoutVars => IInv'
<1> SUFFICES ASSUME IInv, [LayoutNext]_layoutVars PROVE IInv'
  OBVIOUS
<1>1. CASE OpenDisk
  <2>1. /\ disk \in Asked /\ extents = <<>> /\ UNCHANGED <<disk, extents>> /\ cur' = Align
        /\ verdict' = "error" \/ (verdict' = "placing" /\ Supported /\ LargeEnough)
    BY <1>1 DEF OpenDisk, IInv, Typed
  <2>2. Supported' = Supported /\ LargeEnough' = LargeEnough
    BY <2>1 DEF Supported, LargeEnough, TotalSectors
  <2>3. Align \in Nat /\ Align < Wide /\ Align % Align = 0
    BY LayoutAssumption
  <2>4. Typed' /\ Exact'
    BY <2>1 DEF Typed, Exact
  <2>5. Len(extents') = 0 /\ Len(disk'.sizes) \in Nat
    BY <2>1 DEF Asked
  <2>6. Front'
    BY <2>1, <2>2, <2>3, <2>5 DEF Front
  <2> QED
    BY <2>4, <2>6 DEF IInv
<1>2. CASE PlacePartition
  BY <1>2, PlaceInv
<1>3. CASE LayoutDone
  <2>1. verdict = "placing" /\ verdict' = "ok" /\ UNCHANGED <<disk, cur, extents>>
    BY <1>3 DEF LayoutDone
  <2>2. Typed' /\ Front'
    BY <2>1 DEF IInv, Typed, Front
  <2>3. Exact'
    BY <2>1 DEF IInv, Exact, AsAsked, Limit, TotalSectors, Needs
  <2> QED
    BY <2>2, <2>3 DEF IInv
<1>4. CASE AnyRequest
  <2>1. PICK total \in Nat, sector \in Nat, sizes \in Seq(SizeSpec) :
          total < Wide /\ Request(total, sector, sizes)
    BY <1>4 DEF AnyRequest, SizeSpec
  <2>2. disk' \in Asked
    BY <2>1, LayoutAssumption DEF Request, Asked
  <2>3. extents' = <<>> /\ verdict' = "new"
    BY <2>1 DEF Request
  <2> QED
    BY <2>2, <2>3 DEF IInv, Typed, Front, Exact
<1>5. CASE UNCHANGED layoutVars
  BY <1>5 DEF layoutVars, IInv, Typed, Front, Exact, AsAsked, Supported, LargeEnough, Limit,
              TotalSectors, Needs
<1> QED
  BY <1>1, <1>2, <1>3, <1>4, <1>5 DEF LayoutNext, Layout

\* The inductive invariant: as long as partitions are placed, the next begins
\* where the last one ends, at a multiple of Align below the modulus, and each
\* has its size.  Without it a sum that wraps around could not be told from one
\* that does not (layout.rs:70-90).
THEOREM LayoutInvariant == LayoutSpec => []IInv
<1>1. LayoutSpec => LayoutIdle /\ [][LayoutNext]_layoutVars
  BY DEF LayoutSpec, LayoutNext
<1> QED
  BY <1>1, LayoutInit, StepInv, PTL

\* Every partition of an accepted plan has the size that was asked for.
THEOREM SizesAreExact == LayoutSpec => []SizesAsAsked
<1>1. IInv => SizesAsAsked
  BY DEF IInv, Exact, AsAsked, SizesAsAsked
<1> QED
  BY <1>1, LayoutInvariant, PTL

-----------------------------------------------------------------------------
(* What is refused does not fit.                                           *)

\* Induction by the least counterexample.
LEMMA LeastElement ==
  ASSUME NEW T \in SUBSET Nat, T # {}
  PROVE  \E m \in T : \A k \in T : m <= k
<1> DEFINE R == {p \in Nat \X Nat : p[1] < p[2]}
<1>1. IsWellFoundedOn(R, Nat)
  BY NatLessThanWellFounded DEF OpToRel
<1>2. PICK m \in T : \A k \in T : ~ (<<k, m>> \in R)
  BY <1>1, WFMin
<1>3. \A k \in T : m <= k
  <2> SUFFICES ASSUME NEW k \in T PROVE m <= k
    OBVIOUS
  <2>1. m \in Nat /\ k \in Nat /\ ~ (<<k, m>> \in R)
    BY <1>2
  <2> QED
    BY <2>1
<1> QED
  BY <1>3

\* g[i] is what the first i of the numbers d[1], d[2], ... add to z.
Sums(g, z, d, n) ==
  /\ g \in [0..n -> Nat] /\ g[0] = z
  /\ \A i \in 1..n : g[i] = g[i - 1] + d[i]

\* The equation by which a sum is defined.
Adds(f, z, d, k) == f = [i \in 0..k |-> IF i = 0 THEN z ELSE f[i - 1] + d[i]]

LEMMA SumsExist ==
  ASSUME NEW z \in Nat, NEW n \in Nat, NEW d \in [1..n -> Nat]
  PROVE  \E g : Sums(g, z, d, n)
<1> DEFINE T == {k \in Nat : k <= n /\ ~ \E g : Sums(g, z, d, k)}
<1> SUFFICES ASSUME T # {} PROVE FALSE
  <2>1. n <= n
    OBVIOUS
  <2> QED
    BY <2>1
<1>1. PICK m \in T : \A k \in T : m <= k
  BY LeastElement
<1>2. m \in Nat /\ m <= n
  BY <1>1
<1>3. CASE m = 0
  <2> DEFINE g == [i \in 0..0 |-> z]
  <2>1. Sums(g, z, d, 0)
    BY DEF Sums
  <2> QED
    BY <1>1, <1>3, <2>1
<1>4. CASE m # 0
  <2>1. m - 1 \in Nat /\ m - 1 <= n /\ ~ (m <= m - 1) /\ m \in 1..n
    BY <1>2, <1>4
  <2>2. PICK g : Sums(g, z, d, m - 1)
    BY <1>1, <2>1
  <2> DEFINE h == [i \in 0..m |-> IF i = m THEN g[m - 1] + d[m] ELSE g[i]]
  <2>3. \A i \in 0..(m - 1) : g[i] \in Nat /\ h[i] = g[i]
    BY <2>1, <2>2 DEF Sums
  <2>4. h[m] = g[m - 1] + d[m] /\ h[m] \in Nat
    <3>1. m \in 0..m /\ m - 1 \in 0..(m - 1) /\ d[m] \in Nat
      BY <2>1
    <3>2. g[m - 1] \in Nat
      BY <2>3, <3>1
    <3>3. h[m] = g[m - 1] + d[m]
      BY <3>1
    <3> QED
      BY <3>1, <3>2, <3>3
  <2>5. \A i \in 0..m : i \in 0..(m - 1) \/ i = m
    BY <2>1
  <2>6. h \in [0..m -> Nat]
    BY <2>3, <2>4, <2>5
  <2>7. h[0] = z
    BY <2>1, <2>2, <2>3 DEF Sums
  <2>8. ASSUME NEW i \in 1..m PROVE h[i] = h[i - 1] + d[i]
    <3>1. i - 1 \in 0..(m - 1)
      BY <2>1
    <3>2. CASE i = m
      BY <2>3, <2>4, <3>1, <3>2
    <3>3. CASE i # m
      <4>1. i \in 1..(m - 1) /\ i \in 0..(m - 1)
        BY <2>1, <3>3
      <4>2. g[i] = g[i - 1] + d[i]
        BY <2>2, <4>1 DEF Sums
      <4> QED
        BY <2>3, <3>1, <4>1, <4>2
    <3> QED
      BY <3>2, <3>3
  <2> HIDE DEF h
  <2>9. Sums(h, z, d, m)
    BY <2>6, <2>7, <2>8 DEF Sums
  <2> QED
    BY <1>1, <2>9
<1> QED
  BY <1>3, <1>4

LEMMA SumsGrow ==
  ASSUME NEW z \in Nat, NEW n \in Nat, NEW d \in [1..n -> Nat], NEW g, Sums(g, z, d, n),
         NEW i \in 0..n, NEW j \in 0..n, i <= j
  PROVE  g[i] <= g[j]
<1> DEFINE T == {k \in Nat : k \in i..n /\ ~ (g[i] <= g[k])}
<1> SUFFICES ASSUME T # {} PROVE FALSE
  OBVIOUS
<1>1. PICK m \in T : \A k \in T : m <= k
  BY LeastElement
<1>2. m \in Nat /\ m \in i..n /\ ~ (g[i] <= g[m]) /\ i \in Nat
  BY <1>1
<1>3. \A k \in 0..n : g[k] \in Nat
  BY DEF Sums
<1>4. m # i
  BY <1>2, <1>3
<1>5. m - 1 \in Nat /\ m - 1 \in i..n /\ m - 1 \in 0..n /\ m \in 1..n /\ ~ (m <= m - 1)
  BY <1>2, <1>4
<1>6. g[i] <= g[m - 1]
  BY <1>1, <1>5
<1>7. g[m] = g[m - 1] + d[m] /\ d[m] \in Nat
  BY <1>5 DEF Sums
<1> QED
  BY <1>2, <1>3, <1>5, <1>6, <1>7

\* A function defined by the recursion has these values.
LEMMA SumsUnique ==
  ASSUME NEW z \in Nat, NEW n \in Nat, NEW d \in [1..n -> Nat], NEW g, Sums(g, z, d, n),
         NEW k \in 0..n, NEW f, Adds(f, z, d, k)
  PROVE  f[k] = g[k]
<1> DEFINE T == {i \in Nat : i \in 0..k /\ f[i] # g[i]}
<1> SUFFICES ASSUME T # {} PROVE FALSE
  <2>1. k \in Nat /\ k \in 0..k
    OBVIOUS
  <2> QED
    BY <2>1
<1>1. PICK m \in T : \A i \in T : m <= i
  BY LeastElement
<1>2. m \in Nat /\ m \in 0..k /\ f[m] # g[m]
  BY <1>1
<1>3. f[m] = IF m = 0 THEN z ELSE f[m - 1] + d[m]
  BY <1>2 DEF Adds
<1>4. m # 0
  BY <1>2, <1>3 DEF Sums
<1>5. m - 1 \in Nat /\ m - 1 \in 0..k /\ m \in 1..n /\ ~ (m <= m - 1)
  BY <1>2, <1>4
<1>6. f[m - 1] = g[m - 1]
  BY <1>1, <1>5
<1> QED
  BY <1>2, <1>3, <1>4, <1>5, <1>6 DEF Sums

LEMMA SumsFix ==
  ASSUME NEW z \in Nat, NEW n \in Nat, NEW d \in [1..n -> Nat], NEW g, Sums(g, z, d, n), NEW k \in 0..n
  PROVE  \E f : Adds(f, z, d, k)
<1> DEFINE f == [i \in 0..k |-> g[i]]
<1>1. ASSUME NEW i \in 0..k PROVE f[i] = IF i = 0 THEN z ELSE f[i - 1] + d[i]
  <2>1. CASE i = 0
    BY <2>1 DEF Sums
  <2>2. CASE i # 0
    <3>1. i \in 1..n /\ i - 1 \in 0..k
      BY <2>2
    <3> QED
      BY <2>2, <3>1 DEF Sums
  <2> QED
    BY <2>1, <2>2
<1>2. Adds(f, z, d, k)
  BY <1>1 DEF Adds
<1> QED
  BY <1>2

\* What the sizes asked for need, partition by partition.
Takes == [i \in 1..Len(disk.sizes) |-> Needs(disk.sizes[i])]

LEMMA NeedsIs ==
  ASSUME NEW size \in SizeSpec
  PROVE  /\ Needs(size) \in Nat
         /\ size.rest => Needs(size) >= 1
         /\ ~size.rest => Needs(size) >= size.bytes
<1>1. Align \in Nat \ {0} /\ size.bytes \in Nat \ {0}
  BY LayoutAssumption DEF SizeSpec
<1> DEFINE m == size.bytes + Align - 1
           k == m \div Align
<1>2. m \in Nat /\ m \in Int
  BY <1>1
<1>3. k \in Nat /\ k * Align \in Nat
  BY <1>1, <1>2, DivNat
<1>4. m = Align * k + (m % Align) /\ m % Align \in 0..(Align - 1)
  BY <1>1, <1>2, DivMod
<1>5. Needs(size) = IF size.rest THEN Align ELSE k * Align
  BY DEF Needs
<1>6. m = size.bytes + Align - 1
  OBVIOUS
<1> HIDE DEF m, k
<1>7. k * Align >= size.bytes
  BY <1>1, <1>2, <1>3, <1>4, <1>6
<1> QED
  BY <1>1, <1>3, <1>5, <1>7

LEMMA SumToIs ==
  ASSUME disk \in Asked
  PROVE  \E g : /\ Sums(g, Align, Takes, Len(disk.sizes))
                /\ \A k \in 0..Len(disk.sizes) : SumTo(k) = g[k]
<1> DEFINE n == Len(disk.sizes)
<1>1. n \in Nat /\ Align \in Nat
  BY LayoutAssumption DEF Asked
<1>2. Takes \in [1..n -> Nat]
  <2>1. \A i \in 1..n : disk.sizes[i] \in SizeSpec
    BY DEF Asked
  <2>2. \A i \in 1..n : Needs(disk.sizes[i]) \in Nat
    BY <2>1, NeedsIs
  <2> QED
    BY <2>2 DEF Takes
<1>3. PICK g : Sums(g, Align, Takes, n)
  BY <1>1, <1>2, SumsExist
<1>4. ASSUME NEW k \in 0..n PROVE SumTo(k) = g[k]
  <2> DEFINE F == CHOOSE f : f = [i \in 0..k |-> IF i = 0 THEN Align ELSE f[i - 1] + Needs(disk.sizes[i])]
  <2>1. \A f : [i \in 0..k |-> IF i = 0 THEN Align ELSE f[i - 1] + Needs(disk.sizes[i])]
               = [i \in 0..k |-> IF i = 0 THEN Align ELSE f[i - 1] + Takes[i]]
    <3>1. \A i \in 0..k : i # 0 => Takes[i] = Needs(disk.sizes[i])
      <4>1. \A i \in 0..k : i # 0 => i \in 1..n
        BY <1>1
      <4> QED
        BY <4>1 DEF Takes
    <3> QED
      BY <3>1
  <2>2. \E f : Adds(f, Align, Takes, k)
    BY <1>1, <1>2, <1>3, <1>4, SumsFix
  <2>3. \E f : f = [i \in 0..k |-> IF i = 0 THEN Align ELSE f[i - 1] + Needs(disk.sizes[i])]
    BY <2>1, <2>2 DEF Adds
  <2>4. F = [i \in 0..k |-> IF i = 0 THEN Align ELSE F[i - 1] + Needs(disk.sizes[i])]
    BY <2>3
  <2>5. SumTo(k) = F[k]
    BY DEF SumTo
  <2> HIDE DEF F
  <2>6. Adds(F, Align, Takes, k)
    BY <2>1, <2>4 DEF Adds
  <2>7. F[k] = g[k]
    BY <1>1, <1>2, <1>3, <1>4, <2>6, SumsUnique
  <2> QED
    BY <2>5, <2>7, Zenon
<1> QED
  BY <1>3, <1>4

\* The next partition begins behind all that those before it need, as long as none
\* of them takes the rest.
Filled ==
  verdict = "placing" /\ Len(extents) < Len(disk.sizes) => cur = SumTo(Len(extents))

\* A partition that is refused would not fit if numbers had no bound.
LEMMA RefusedDoesNotFit ==
  ASSUME IInv, Filled, verdict = "placing", Number <= Len(disk.sizes), ~Fits
  PROVE  \/ \E i \in 1..(Len(disk.sizes) - 1) : disk.sizes[i].rest
         \/ SumTo(Len(disk.sizes)) > Limit
<1> DEFINE n == Len(disk.sizes)
           k == Len(extents)
<1>1. disk \in Asked /\ Supported /\ LargeEnough /\ cur \in Nat /\ cur < Wide
  BY DEF IInv, Typed, Front
<1>2. n \in Nat /\ k \in Nat /\ k + 1 <= n /\ Number = k + 1
  BY <1>1 DEF IInv, Typed, Number, Asked
<1>3. Limit \in Nat /\ Limit < Wide
  BY <1>1, LimitIs
<1>4. PICK g : Sums(g, Align, Takes, n) /\ \A i \in 0..n : SumTo(i) = g[i]
  BY <1>1, SumToIs
<1>5. Takes \in [1..n -> Nat] /\ Takes[k + 1] = Needs(Size) /\ Size \in SizeSpec
  <2>1. \A i \in 1..n : disk.sizes[i] \in SizeSpec
    BY <1>1 DEF Asked
  <2>2. \A i \in 1..n : Needs(disk.sizes[i]) \in Nat
    BY <2>1, NeedsIs
  <2>3. k + 1 \in 1..n
    BY <1>2
  <2> QED
    BY <1>2, <2>1, <2>2, <2>3 DEF Takes, Size
<1>6. cur = g[k]
  <2>1. k < n /\ k \in 0..n
    BY <1>2
  <2> QED
    BY <1>4, <2>1 DEF Filled
<1>7. g[k + 1] = cur + Needs(Size) /\ g[k + 1] <= g[n] /\ g[n] \in Nat /\ SumTo(n) = g[n]
  <2>1. k + 1 \in 1..n /\ k + 1 \in 0..n /\ n \in 0..n /\ (k + 1) - 1 = k
    BY <1>2
  <2>2. g[k + 1] = g[k] + Takes[k + 1] /\ g[n] \in Nat /\ SumTo(n) = g[n]
    BY <1>4, <2>1 DEF Sums
  <2>3. g[k + 1] <= g[n]
    <3>1. Align \in Nat /\ k + 1 <= n
      BY <1>2, LayoutAssumption
    <3> QED
      BY <1>2, <1>4, <1>5, <2>1, <3>1, SumsGrow
  <2> QED
    BY <1>5, <1>6, <2>2, <2>3
<1>8. Needs(Size) \in Nat /\ (Size.rest => Needs(Size) >= 1) /\ (~Size.rest => Needs(Size) >= Size.bytes)
  BY <1>5, NeedsIs
<1> HIDE DEF n, k
<1>9. CASE Size.rest /\ Number # n
  <2>1. Number \in 1..(n - 1)
    BY <1>2, <1>9
  <2> QED
    BY <1>9, <2>1 DEF Size, n
<1>10. CASE Size.rest /\ Number = n
  <2>1. End = Limit
    BY <1>10 DEF End
  <2>2. ~ (Limit > cur)
    BY <1>3, <1>10, <2>1 DEF Fits, n
  <2> QED
    BY <1>1, <1>3, <1>7, <1>8, <1>10, <2>2 DEF n
<1>11. CASE ~Size.rest
  <2> SUFFICES ASSUME ~ (g[n] > Limit) PROVE FALSE
    BY <1>7 DEF n
  <2>1. cur + Needs(Size) <= Limit /\ Needs(Size) < Wide
    BY <1>1, <1>3, <1>7, <1>8, LayoutAssumption
  <2>2. Size.bytes \in 1..(Wide - 1)
    BY <1>5 DEF SizeSpec
  <2>3. RoundUp(Size.bytes) = Needs(Size) % Wide
    BY <1>11 DEF RoundUp, Needs
  <2>4. RoundUp(Size.bytes) = Needs(Size)
    BY <1>8, <2>1, <2>3, LayoutAssumption
  <2>5. End = (cur + Needs(Size)) % Wide
    BY <1>11, <2>4 DEF End
  <2>6. End = cur + Needs(Size)
    <3>1. cur + Needs(Size) \in Nat /\ cur + Needs(Size) < Wide /\ Wide \in Nat \ {0}
      BY <1>1, <1>3, <1>8, <2>1, LayoutAssumption
    <3>2. cur + Needs(Size) < 2 * Wide
      BY <3>1
    <3> QED
      BY <2>5, <3>1, <3>2, WrapOnce
  <2>7. Fits
    BY <1>1, <1>8, <1>11, <2>1, <2>2, <2>6 DEF Fits
  <2> QED
    BY <2>7
<1> QED
  BY <1>9, <1>10, <1>11

LEMMA FilledNext ==
  ASSUME IInv, Filled, PlacePartition
  PROVE  Filled'
<1>1. /\ disk \in Asked /\ extents \in Seq(Extents) /\ disk' = disk
      /\ verdict = "placing" /\ Number <= Len(disk.sizes)
  BY DEF IInv, Typed, PlacePartition
<1>2. Len(disk.sizes) \in Nat /\ Len(extents) \in Nat /\ Number = Len(extents) + 1
  BY <1>1 DEF Asked, Number
<1> SUFFICES ASSUME verdict' = "placing", Len(extents') < Len(disk.sizes)
             PROVE  cur' = SumTo(Len(extents'))
  BY <1>1 DEF Filled, SumTo, Needs
<1>3. Fits /\ cur' = End
  BY DEF PlacePartition
<1>4. Len(extents') = Number
  BY <1>1, <1>2, <1>3 DEF PlacePartition
<1>5. ~Size.rest
  BY <1>1, <1>2, <1>3, <1>4 DEF Fits
<1>6. End - cur = Needs(Size) /\ End \in Nat /\ cur \in Nat
  BY <1>1, <1>3, <1>5, NextEnd DEF IInv, Front
<1>7. PICK g : Sums(g, Align, Takes, Len(disk.sizes)) /\ \A i \in 0..Len(disk.sizes) : SumTo(i) = g[i]
  BY <1>1, SumToIs
<1>8. Number \in 1..Len(disk.sizes) /\ Number - 1 = Len(extents) /\ Len(extents) \in 0..Len(disk.sizes)
      /\ Number \in 0..Len(disk.sizes) /\ Len(extents) < Len(disk.sizes)
  BY <1>1, <1>2
<1>9. g[Number] = g[Len(extents)] + Takes[Number] /\ Takes[Number] = Needs(Size)
  BY <1>7, <1>8 DEF Sums, Takes, Size
<1>10. cur = g[Len(extents)]
  BY <1>1, <1>7, <1>8 DEF Filled
<1>11. Needs(Size) \in Nat
  <2>1. Size \in SizeSpec
    BY <1>1, <1>8 DEF Size, Asked
  <2> QED
    BY <2>1, NeedsIs
<1>12. SumTo(Number) = End
  <2>1. SumTo(Number) = g[Number]
    BY <1>7, <1>8, Zenon
  <2>2. g[Number] = cur + Needs(Size)
    BY <1>9, <1>10, Zenon
  <2>3. cur + Needs(Size) = End
    BY <1>6, <1>11
  <2> QED
    BY <2>1, <2>2, <2>3, Zenon
<1> QED
  BY <1>3, <1>4, <1>12

Reasoned == Filled /\ RefusedWithReason

LEMMA ReasonedStep ==
  ASSUME IInv, Reasoned, [LayoutNext]_layoutVars
  PROVE  Reasoned'
<1>1. CASE OpenDisk
  <2>1. /\ disk \in Asked /\ extents = <<>> /\ UNCHANGED <<disk, extents>> /\ cur' = Align
        /\ verdict' = "error" => ~(Supported /\ LargeEnough)
    BY <1>1 DEF OpenDisk, IInv, Typed
  <2>2. Supported' = Supported /\ LargeEnough' = LargeEnough
    BY <2>1 DEF Supported, LargeEnough, TotalSectors
  <2>3. SumTo(0) = Align
    <3>1. PICK g : Sums(g, Align, Takes, Len(disk.sizes)) /\ \A i \in 0..Len(disk.sizes) : SumTo(i) = g[i]
      BY <2>1, SumToIs
    <3>2. 0 \in 0..Len(disk.sizes)
      BY <2>1 DEF Asked
    <3> QED
      BY <3>1, <3>2 DEF Sums
  <2>4. SumTo(0)' = SumTo(0) /\ Len(extents') = 0
    BY <2>1 DEF SumTo, Needs
  <2>5. Filled'
    BY <2>1, <2>3, <2>4 DEF Filled
  <2> QED
    BY <2>1, <2>2, <2>5 DEF Reasoned, RefusedWithReason
<1>2. CASE PlacePartition
  <2>1. /\ disk' = disk /\ Filled' /\ verdict = "placing" /\ Number <= Len(disk.sizes)
        /\ verdict' = "error" => ~Fits
    BY <1>2, FilledNext DEF Reasoned, PlacePartition
  <2>2. Limit' = Limit /\ SumTo(Len(disk.sizes))' = SumTo(Len(disk.sizes))
    BY <2>1 DEF SumTo, Needs, Limit, TotalSectors
  <2>3. RefusedWithReason'
    BY <2>1, <2>2, RefusedDoesNotFit DEF Reasoned, RefusedWithReason
  <2> QED
    BY <2>1, <2>3 DEF Reasoned
<1>3. CASE LayoutDone
  BY <1>3 DEF LayoutDone, Reasoned, Filled, RefusedWithReason
<1>4. CASE AnyRequest
  BY <1>4 DEF AnyRequest, Request, Reasoned, Filled, RefusedWithReason
<1>5. CASE UNCHANGED layoutVars
  BY <1>5 DEF layoutVars, Reasoned, Filled, RefusedWithReason, SumTo, Needs, Limit, TotalSectors,
              Supported, LargeEnough
<1> QED
  BY <1>1, <1>2, <1>3, <1>4, <1>5 DEF LayoutNext, Layout

\* A plan is refused only if it does not fit: a partition that is not the last
\* takes the rest, or what the sizes need, counted without a bound, exceeds the
\* disk.  Whatever wraps around is refused rightly, and nothing else is
\* (layout.rs:70-90).
THEOREM SizesOrReason == LayoutSpec => []GetsItsSize
<1>1. LayoutSpec => LayoutIdle /\ [][LayoutNext]_layoutVars
  BY DEF LayoutSpec, LayoutNext
<1>2. LayoutIdle => Reasoned
  BY DEF LayoutIdle, Reasoned, Filled, RefusedWithReason, Supported
<1>3. LayoutSpec => []Reasoned
  BY <1>1, <1>2, LayoutInvariant, ReasonedStep, PTL
<1>4. Reasoned => RefusedWithReason
  BY DEF Reasoned
<1> QED
  BY <1>3, <1>4, SizesAreExact, PTL DEF GetsItsSize

-----------------------------------------------------------------------------
(* The refinement.                                                         *)

\* A sequence of extents as a sequence of ranges.
Ranges(e) == [i \in 1..Len(e) |-> [lo |-> e[i].start_sector, hi |-> e[i].end_sector + 1]]

Range1 == [lo : Int, hi : Int]

LEMMA RangesAre ==
  ASSUME NEW e \in Seq(Extents)
  PROVE  /\ Ranges(e) \in Seq(Range1) /\ Len(Ranges(e)) = Len(e)
         /\ \A i \in 1..Len(e) : Ranges(e)[i] = [lo |-> e[i].start_sector, hi |-> e[i].end_sector + 1]
         /\ Ranges(e) = <<>> <=> e = <<>>
<1>1. Len(e) \in Nat /\ \A i \in 1..Len(e) : e[i].start_sector \in Int /\ e[i].end_sector + 1 \in Int
  <2>1. Len(e) \in Nat /\ \A i \in 1..Len(e) : e[i] \in Extents
    OBVIOUS
  <2> QED
    BY <2>1 DEF Extents
<1>2. Ranges(e) \in [1..Len(e) -> Range1]
  BY <1>1 DEF Ranges, Range1
<1>3. Ranges(e) \in Seq(Range1)
  BY <1>1, <1>2
<1>4. DOMAIN Ranges(e) = 1..Len(e)
  BY <1>2
<1>5. Len(Ranges(e)) = Len(e)
  BY <1>1, <1>3, <1>4
<1>6. Ranges(e) = <<>> <=> e = <<>>
  <2>1. ASSUME NEW S, NEW s \in Seq(S) PROVE s = <<>> <=> Len(s) = 0
    OBVIOUS
  <2> QED
    BY <1>3, <1>5, <2>1
<1> QED
  BY <1>3, <1>5, <1>6 DEF Ranges

LEMMA RangeAt ==
  ASSUME NEW e \in Seq(Extents), NEW i \in 1..Len(e)
  PROVE  Ranges(e)[i] = [lo |-> e[i].start_sector, hi |-> e[i].end_sector + 1]
  BY RangesAre

LEMMA RangesOfNone == Ranges(<<>>) = <<>>
<1>1. <<>> \in Seq(Extents)
  OBVIOUS
<1> QED
  BY <1>1, RangesAre

SectorArena == [base  |-> IF Supported THEN Align \div disk.sector ELSE 0,
                limit |-> IF Supported THEN Limit \div disk.sector ELSE 0]

LEMMA ArenaIs ==
  ASSUME disk \in Asked
  PROVE  SectorArena \in [base : Int, limit : Int]
<1>1. CASE Supported
  <2>1. disk.sector \in Nat \ {0} /\ disk.total \in Int /\ Align \in Nat \ {0} /\ GptTail \in Int
    BY <1>1, LayoutAssumption DEF Asked, Supported
  <2>2. TotalSectors \in Int
    BY <2>1 DEF TotalSectors
  <2>3. (TotalSectors - GptTail) * disk.sector \in Int
    BY <2>1, <2>2
  <2>4. ((TotalSectors - GptTail) * disk.sector) \div Align \in Int
    BY <2>1, <2>3, DivMod
  <2>5. Limit \in Int
    BY <2>1, <2>4 DEF Limit
  <2>6. Align \div disk.sector \in Int /\ Limit \div disk.sector \in Int
    <3>1. ASSUME NEW n \in Int, NEW s \in Nat \ {0} PROVE n \div s \in Int
      BY DivMod
    <3> QED
      BY <2>1, <2>5, <3>1
  <2> QED
    BY <1>1, <2>6 DEF SectorArena
<1>2. CASE ~Supported
  BY <1>2 DEF SectorArena
<1> QED
  BY <1>1, <1>2

LEMMA ArenaPrimed ==
  ASSUME disk' \in Asked
  PROVE  SectorArena' \in [base : Int, limit : Int]
<1>1. (disk \in Asked => SectorArena \in [base : Int, limit : Int])'
  BY ArenaIs, PTL
<1> QED
  BY <1>1 DEF Asked, SizeSpec

\* The first partition begins at Align, every other where the one before ends.
LEMMA FreeIsCur ==
  ASSUME IInv, verdict = "placing"
  PROVE  (IF Ranges(extents) = <<>> THEN SectorArena.base
          ELSE Ranges(extents)[Len(Ranges(extents))].hi) = cur \div disk.sector
<1>1. extents \in Seq(Extents) /\ Supported
  BY DEF IInv, Typed, Front
<1>2. Len(Ranges(extents)) = Len(extents) /\ (Ranges(extents) = <<>> <=> extents = <<>>)
  BY <1>1, RangesAre
<1>3. CASE extents = <<>>
  BY <1>1, <1>2, <1>3 DEF IInv, Front, SectorArena
<1>4. CASE extents # <<>>
  <2>1. Len(extents) \in 1..Len(extents)
    BY <1>1, <1>4
  <2>2. Ranges(extents)[Len(extents)].hi = extents[Len(extents)].end_sector + 1
    <3>1. Ranges(extents)[Len(extents)]
            = [lo |-> extents[Len(extents)].start_sector, hi |-> extents[Len(extents)].end_sector + 1]
      BY <1>1, <2>1, RangeAt
    <3> QED
      BY <3>1
  <2> QED
    BY <1>2, <1>4, <2>2 DEF IInv, Front
<1> QED
  BY <1>3, <1>4

\* Every step places one more range, begins another layout, or changes neither.
LEMMA StepPlaces ==
  IInv /\ IInv' /\ [LayoutNext]_layoutVars => [Sectors!Place \/ Sectors!Clear]_(Sectors!placementVars)
<1> SUFFICES ASSUME IInv, IInv', [LayoutNext]_layoutVars
             PROVE  \/ Sectors!Place \/ Sectors!Clear
                    \/ UNCHANGED <<SectorArena, Ranges(extents)>>
  BY DEF Sectors!placementVars, SectorArena, Ranges
<1>1. ASSUME UNCHANGED <<disk, extents>> PROVE UNCHANGED <<SectorArena, Ranges(extents)>>
  BY <1>1 DEF SectorArena, Ranges, Supported, Limit, TotalSectors
<1>2. CASE PlacePartition /\ Fits
  <2> DEFINE r == Ranges(extents)
             t == Ranges(extents')
             new == [start_sector |-> cur \div disk.sector, end_sector |-> End \div disk.sector - 1]
             n == Len(extents)
  <2>1. /\ verdict = "placing" /\ Number <= Len(disk.sizes) /\ disk' = disk
        /\ extents' = Append(extents, new) /\ extents \in Seq(Extents) /\ extents' \in Seq(Extents)
    BY <1>2 DEF PlacePartition, IInv, Typed
  <2>2. /\ cur \div disk.sector \in Nat /\ End \div disk.sector \in Nat
        /\ cur \div disk.sector < End \div disk.sector
        /\ End \div disk.sector <= Limit \div disk.sector
    BY <1>2, <2>1, NextExtent
  <2>3. n \in Nat /\ Len(extents') = n + 1 /\ extents'[n + 1] = new
        /\ \A i \in 1..n : extents'[i] = extents[i]
    BY <2>1
  <2>4. new.start_sector = cur \div disk.sector /\ new.end_sector + 1 = End \div disk.sector
    BY <2>2
  <2> HIDE DEF new
  <2>5. Len(r) = n /\ Len(t) = n + 1
        /\ t[n + 1] = [lo |-> new.start_sector, hi |-> new.end_sector + 1]
        /\ \A i \in 1..n : t[i] = r[i]
    <3>1. Len(r) = n /\ Len(t) = n + 1
      BY <2>1, <2>3, RangesAre
    <3>2. ASSUME NEW i \in 1..n PROVE t[i] = r[i]
      <4>1. i \in 1..Len(extents) /\ i \in 1..Len(extents')
        BY <2>3
      <4>2. r[i] = [lo |-> extents[i].start_sector, hi |-> extents[i].end_sector + 1]
        BY <2>1, <4>1, RangeAt
      <4>3. t[i] = [lo |-> extents'[i].start_sector, hi |-> extents'[i].end_sector + 1]
        BY <2>1, <4>1, RangeAt
      <4> QED
        BY <2>3, <4>2, <4>3
    <3>3. t[n + 1] = [lo |-> extents'[n + 1].start_sector, hi |-> extents'[n + 1].end_sector + 1]
      <4>1. n + 1 \in 1..Len(extents')
        BY <2>3
      <4> QED
        BY <2>1, <4>1, RangeAt
    <3> QED
      BY <2>3, <3>1, <3>2, <3>3
  <2>6. (IF r = <<>> THEN SectorArena.base ELSE r[Len(r)].hi) = cur \div disk.sector
    BY <2>1, FreeIsCur
  <2>7. SectorArena' = SectorArena /\ SectorArena.limit = Limit \div disk.sector
    BY <2>1 DEF SectorArena, Supported, Limit, TotalSectors, IInv, Front
  <2>8. /\ t[n + 1] \in [lo : Int, hi : Int]
        /\ t[n + 1].lo = cur \div disk.sector /\ t[n + 1].hi = End \div disk.sector
    BY <2>2, <2>4, <2>5
  <2> HIDE DEF n
  <2>9. /\ Len(t) = Len(r) + 1
        /\ \A i \in 1..Len(r) : t[i] = r[i]
        /\ t[Len(r) + 1] \in [lo : Int, hi : Int]
        /\ (IF r = <<>> THEN SectorArena.base ELSE r[Len(r)].hi) <= t[Len(r) + 1].lo
        /\ t[Len(r) + 1].lo + 1 <= t[Len(r) + 1].hi
        /\ t[Len(r) + 1].hi <= SectorArena.limit
        /\ SectorArena' = SectorArena
    BY <2>2, <2>5, <2>6, <2>7, <2>8
  <2>10. Sectors!Place
    BY <2>9 DEF Sectors!Place, Sectors!Free, Ranges, SectorArena
  <2> QED
    BY <2>10
<1>3. CASE AnyRequest
  <2>1. extents' = <<>> /\ disk' \in Asked
    BY <1>3 DEF AnyRequest, Request, IInv, Typed
  <2>2. Ranges(extents') = <<>>
    BY <2>1, RangesOfNone
  <2>3. SectorArena' \in [base : Int, limit : Int]
    BY <2>1, ArenaPrimed
  <2> QED
    BY <2>2, <2>3 DEF Sectors!Clear, Sectors!Arena, Ranges, SectorArena
<1>4. CASE OpenDisk \/ LayoutDone \/ UNCHANGED layoutVars
  BY <1>1, <1>4 DEF OpenDisk, LayoutDone, layoutVars
<1>5. CASE PlacePartition /\ ~Fits
  BY <1>1, <1>5 DEF PlacePartition
<1> QED
  BY <1>2, <1>3, <1>4, <1>5 DEF LayoutNext, Layout

LEMMA InitPlaces == LayoutIdle => Sectors!Spec!1
<1> SUFFICES ASSUME LayoutIdle PROVE Sectors!Spec!1
  OBVIOUS
<1>1. extents = <<>> /\ disk \in Asked
  BY LayoutInit DEF LayoutIdle, IInv, Typed
<1>2. Ranges(extents) = <<>> /\ SectorArena \in [base : Int, limit : Int]
  BY <1>1, RangesOfNone, ArenaIs
<1> QED
  BY <1>2 DEF Sectors!Spec, Sectors!Arena, Ranges, SectorArena

\* compute_layout implements Placement: whatever is asked for, sizes whose sum
\* wraps around included, the partitions lie one behind the other, none is empty
\* and none reaches into the tail (layout.rs:54-94).
THEOREM LayoutRefines == LayoutSpec => LayoutPlaces
<1>1. LayoutSpec => LayoutIdle /\ [][LayoutNext]_layoutVars
  BY DEF LayoutSpec, LayoutNext
<1>2. LayoutIdle => Sectors!Spec!1
  BY InitPlaces
<1> QED
  BY <1>1, <1>2, LayoutInvariant, StepPlaces, PTL DEF LayoutPlaces, Sectors!Spec

-----------------------------------------------------------------------------
(* What Placement promises.                                                *)

PlacedInv ==
  /\ arena \in Arena /\ Len(placed) \in Nat
  /\ placed = <<>> <=> Len(placed) = 0
  /\ \A i \in 1..Len(placed) :
       /\ placed[i].lo \in Int /\ placed[i].hi \in Int /\ placed[i].lo <= placed[i].hi
       /\ arena.base <= placed[i].lo /\ placed[i].hi <= arena.limit
  /\ \A i, j \in 1..Len(placed) : i < j => placed[i].hi <= placed[j].lo

LEMMA PlacedStep ==
  ASSUME Least \in Nat, PlacedInv, [Place \/ Clear]_placementVars
  PROVE  PlacedInv'
<1>1. CASE Clear
  BY <1>1 DEF Clear, PlacedInv
<1>2. CASE UNCHANGED placementVars
  BY <1>2 DEF placementVars, PlacedInv
<1>3. CASE Place
  <2> DEFINE n == Len(placed)
             new == placed'[n + 1]
  <2>1. /\ n \in Nat /\ Len(placed') = n + 1 /\ arena' = arena /\ arena \in Arena
        /\ \A i \in 1..n : placed'[i] = placed[i]
        /\ new.lo \in Int /\ new.hi \in Int
        /\ Free <= new.lo /\ new.lo <= new.hi /\ new.hi <= arena.limit
    BY <1>3 DEF Place, PlacedInv
  <2>2. arena.base \in Int /\ arena.limit \in Int
    BY <2>1 DEF Arena
  <2>3. arena.base <= new.lo /\ \A i \in 1..n : placed[i].hi <= new.lo
    <3>1. CASE n = 0
      BY <2>1, <3>1 DEF Free, PlacedInv
    <3>2. CASE n # 0
      <4>1. n \in 1..n /\ Free = placed[n].hi
        BY <2>1, <3>2 DEF Free, PlacedInv
      <4>2. /\ placed[n].lo \in Int /\ placed[n].hi \in Int /\ placed[n].lo <= placed[n].hi
            /\ arena.base <= placed[n].lo
        BY <4>1 DEF PlacedInv
      <4>3. ASSUME NEW i \in 1..n PROVE placed[i].hi \in Int /\ placed[i].hi <= placed[n].hi
        <5>1. placed[i].hi \in Int
          BY DEF PlacedInv
        <5>2. CASE i < n
          <6>1. placed[i].hi <= placed[n].lo
            BY <4>1, <5>2 DEF PlacedInv
          <6> QED
            BY <4>2, <5>1, <6>1
        <5>3. CASE i = n
          BY <4>2, <5>3
        <5> QED
          BY <2>1, <5>1, <5>2, <5>3
      <4> QED
        BY <2>1, <2>2, <4>1, <4>2, <4>3
    <3> QED
      BY <3>1, <3>2
  <2>4. \A i \in 1..Len(placed') : i \in 1..n \/ i = n + 1
    BY <2>1
  <2>5. ASSUME NEW i \in 1..Len(placed')
        PROVE  /\ placed'[i].lo \in Int /\ placed'[i].hi \in Int /\ placed'[i].lo <= placed'[i].hi
               /\ arena'.base <= placed'[i].lo /\ placed'[i].hi <= arena'.limit
    BY <2>1, <2>3, <2>4 DEF PlacedInv
  <2>6. ASSUME NEW i \in 1..Len(placed'), NEW j \in 1..Len(placed'), i < j
        PROVE  placed'[i].hi <= placed'[j].lo
    <3>1. i \in 1..n
      BY <2>1, <2>6
    <3>2. CASE j \in 1..n
      BY <2>1, <2>6, <3>1, <3>2 DEF PlacedInv
    <3>3. CASE j = n + 1
      BY <2>1, <2>3, <3>1, <3>3
    <3> QED
      BY <2>4, <3>2, <3>3
  <2>7. Len(placed') \in Nat /\ (placed' = <<>> <=> Len(placed') = 0) /\ arena' \in Arena
    <3>1. placed' = <<>> => Len(placed') = 0
      OBVIOUS
    <3> QED
      BY <2>1, <3>1
  <2> QED
    BY <2>5, <2>6, <2>7 DEF PlacedInv
<1> QED
  BY <1>1, <1>2, <1>3

\* Ranges placed one behind the other are disjoint and within the arena, for
\* every arena and any number of ranges: what the refinement is good for.
THEOREM PlacementIsDisjoint ==
  ASSUME Least \in Nat
  PROVE  Spec => []Disjoint
<1>1. placed = <<>> /\ arena \in Arena => PlacedInv
  BY DEF PlacedInv
<1>2. PlacedInv => Disjoint
  BY DEF PlacedInv, Disjoint
<1>3. PlacedInv /\ [Place \/ Clear]_placementVars => PlacedInv'
  BY PlacedStep
<1> QED
  BY <1>1, <1>2, <1>3, PTL DEF Spec

-----------------------------------------------------------------------------
(* The arithmetic of neet-uki.                                             *)

LEMMA DivShift ==
  ASSUME NEW k \in Int, NEW m \in Int, NEW a \in Nat \ {0}
  PROVE  (k * a + m) \div a = k + (m \div a)
<1>1. m = a * (m \div a) + (m % a) /\ m \div a \in Int /\ m % a \in 0..(a - 1)
  BY DivMod
<1> DEFINE q == (k * a + m) \div a
           e == k + (m \div a) - q
<1>2. k * a + m = a * q + ((k * a + m) % a) /\ q \in Int /\ (k * a + m) % a \in 0..(a - 1)
  <2>1. k * a + m \in Int
    OBVIOUS
  <2> HIDE DEF q
  <2> QED
    BY <2>1, DivMod DEF q
<1> HIDE DEF q
<1>3. a * e = ((k * a + m) % a) - (m % a) /\ e \in Int
  BY <1>1, <1>2
<1>4. a * e < a /\ a * e > 0 - a
  BY <1>1, <1>2, <1>3
<1>5. e = 0
  <2> HIDE DEF e
  <2>1. ~ (e >= 1)
    BY <1>3, <1>4
  <2>2. ~ (e <= 0 - 1)
    BY <1>3, <1>4
  <2> QED
    BY <1>3, <2>1, <2>2
<1> QED
  BY <1>1, <1>2, <1>5 DEF q

LEMMA RoundedIs ==
  ASSUME NEW n \in Nat, NEW a \in Nat \ {0}
  PROVE  /\ Rounded(n, a) \in Nat /\ n <= Rounded(n, a) /\ Rounded(n, a) < n + a
         /\ Rounded(n, a) % a = 0
<1> DEFINE m == n + a - 1
           k == m \div a
<1>1. m \in Nat /\ m \in Int /\ m = n + a - 1
  OBVIOUS
<1> HIDE DEF m
<1>2. k \in Nat /\ k * a \in Nat
  BY <1>1, DivNat
<1>3. m = a * k + (m % a) /\ m % a \in 0..(a - 1)
  BY <1>1, DivMod
<1>4. Rounded(n, a) = k * a
  BY DEF Rounded, m
<1> HIDE DEF k
<1>5. n <= k * a /\ k * a < n + a
  BY <1>1, <1>2, <1>3
<1>6. (k * a) % a = 0
  BY <1>2, MulMod
<1> QED
  BY <1>2, <1>4, <1>5, <1>6

\* A multiple of the alignment is added before or after.
LEMMA RoundedShift ==
  ASSUME NEW v \in Nat, NEW n \in Nat, NEW a \in Nat \ {0}, v % a = 0
  PROVE  Rounded(v + n, a) = v + Rounded(n, a)
<1>1. PICK k \in Int : v = k * a
  BY Multiple
<1> DEFINE m == n + a - 1
<1>2. m \in Int /\ v + n + a - 1 = k * a + m
  BY <1>1
<1>3. Rounded(v + n, a) = ((k * a + m) \div a) * a
  BY <1>2 DEF Rounded
<1>4. (k * a + m) \div a = k + (m \div a)
  BY <1>2, DivShift
<1>5. Rounded(n, a) = (m \div a) * a /\ m \div a \in Int
  BY <1>2, DivMod DEF Rounded
<1> HIDE DEF m
<1>6. (k + (m \div a)) * a = k * a + (m \div a) * a
  BY <1>5
<1> QED
  BY <1>1, <1>3, <1>4, <1>5, <1>6

LEMMA RoundedSame ==
  ASSUME NEW v \in Nat, NEW a \in Nat \ {0}, v % a = 0
  PROVE  Rounded(v, a) = v
<1>1. Rounded(0, a) = 0
  <2>1. 0 \in Nat /\ 0 % a = 0
    OBVIOUS
  <2>2. Rounded(0, a) \in Nat /\ Rounded(0, a) < 0 + a /\ Rounded(0, a) % a = 0
    BY <2>1, RoundedIs
  <2> QED
    BY <2>2
<1>2. Rounded(v + 0, a) = v + Rounded(0, a)
  BY RoundedShift
<1> QED
  BY <1>1, <1>2

\* What does not reach the modulus does not wrap.
LEMMA AlignUpIs ==
  ASSUME NEW n \in Nat, NEW a \in 1..Word, Word \in Nat, Word % a = 0, Rounded(n, a) < Word
  PROVE  AlignUp(n, a) = Rounded(n, a)
<1>1. a \in Nat \ {0} /\ Word \in Nat \ {0}
  OBVIOUS
<1>2. Rounded(n, a) \in Nat /\ n <= Rounded(n, a) /\ Rounded(n, a) % a = 0 /\ Rounded(n, a) \in Int
  BY <1>1, RoundedIs
<1>3. PICK k \in Int : Rounded(n, a) = k * a
  BY <1>1, <1>2, Multiple
<1>4. PICK w \in Int : Word = w * a
  BY <1>1, Multiple
<1>5. k < w
  BY <1>1, <1>3, <1>4
<1>6. (k + 1) * a <= w * a /\ (k + 1) * a = k * a + a
  BY <1>1, <1>5
<1>7. n + a - 1 < Word /\ n + a - 1 \in Nat
  BY <1>1, <1>2, <1>3, <1>4, <1>6
<1>8. (n + a - 1) % Word = n + a - 1
  <2>1. n + a - 1 < 2 * Word
    BY <1>1, <1>7
  <2> QED
    BY <1>1, <1>7, <2>1, WrapOnce
<1> QED
  BY <1>8 DEF AlignUp, Rounded

-----------------------------------------------------------------------------
(* The inductive invariant of neet-uki.                                    *)

Section == [v_addr : Nat, v_size : Nat, raw_ptr : Nat, raw_size : Nat]

\* What UkiAssumption says of every stub, and what holds without one.
Readable ==
  /\ Word \in Nat \ {0}
  /\ stub.align \in 1..Word /\ stub.file_align \in 1..Word
  /\ Word % stub.align = 0 /\ Word % stub.file_align = 0
  /\ stub.len \in 0..(Word - 1) /\ stub.sections \in Seq(Section)
  /\ \A i \in 1..Len(stub.sections) : stub.sections[i].v_addr + stub.sections[i].v_size < Word
  /\ payload \in Seq(Nat)

\* Where a section of the stub ends in memory.
SectionEnd(i) == Rounded(stub.sections[i].v_addr + stub.sections[i].v_size, stub.align)

\* vma is the largest end of the sections looked at, whatever their order.
Highest ==
  /\ vma \in Nat
  /\ vma = 0 \/ \E i \in 1..scanned : vma = SectionEnd(i)
  /\ \A i \in 1..scanned : SectionEnd(i) <= vma

Scanning ==
  phase = "scan" =>
    /\ scanned \in 0..Len(stub.sections) /\ out = stub.len
    /\ InBounds => Highest

Rounds(align) == [i \in 1..Len(payload) |-> Rounded(payload[i], align)]

\* Both addresses are what the payloads added need, counted without a bound.
Counted(k) ==
  /\ \E g : Sums(g, 0, Rounds(stub.align), Len(payload)) /\ vma = MemoryEnd + g[k]
  /\ \E h : Sums(h, 0, Rounds(stub.file_align), Len(payload))
              /\ raw = Rounded(stub.len, stub.file_align) + h[k]

\* Section i of those added holds payload i.
Holds(i) ==
  /\ chunks[i] = [lo |-> added[i].raw_ptr, hi |-> added[i].raw_ptr + payload[i]]
  /\ added[i].v_addr \in Nat /\ added[i].raw_ptr \in Nat /\ added[i].raw_size \in Nat
  /\ added[i].v_size = payload[i] /\ added[i].raw_size >= payload[i]
  /\ added[i].v_addr % stub.align = 0 /\ added[i].raw_ptr % stub.file_align = 0
  /\ added[i].raw_ptr + added[i].raw_size <= raw
  /\ added[i].v_addr + added[i].v_size <= vma

\* The next one begins behind all of them.
Adding ==
  phase \in {"add", "done"} =>
    /\ Len(added) \in 0..Len(payload)
    /\ InBounds =>
         /\ vma \in Nat /\ raw \in Nat /\ out = raw
         /\ vma % stub.align = 0 /\ raw % stub.file_align = 0
         /\ Counted(Len(added)) /\ \A i \in 1..Len(added) : Holds(i)
         /\ phase = "done" => Len(added) = Len(payload) /\ image_size = vma

IsSeq(s) == \E S : s \in Seq(S)

UkiInv ==
  /\ Readable /\ Scanning /\ Adding
  /\ IsSeq(added) /\ IsSeq(chunks) /\ Len(chunks) = Len(added)
  /\ phase \notin {"add", "done"} => added = <<>>

LEMMA AppendIs ==
  ASSUME NEW s, IsSeq(s), NEW e
  PROVE  /\ IsSeq(Append(s, e)) /\ Len(s) \in Nat /\ Len(Append(s, e)) = Len(s) + 1
         /\ Append(s, e)[Len(s) + 1] = e /\ \A i \in 1..Len(s) : Append(s, e)[i] = s[i]
<1>1. PICK S : s \in Seq(S)
  BY DEF IsSeq
<1> DEFINE U == S \cup {e}
<1>2. s \in Seq(U) /\ e \in U
  BY <1>1
<1> HIDE DEF U
<1> QED
  BY <1>2 DEF IsSeq

LEMMA SameStub ==
  ASSUME stub' = stub, payload' = payload
  PROVE  /\ MemoryEnd' = MemoryEnd /\ InBounds' = InBounds /\ Readable' = Readable
         /\ \A i : SectionEnd(i)' = SectionEnd(i)
         /\ \A a : Rounds(a)' = Rounds(a)
<1>1. MemoryEnd' = MemoryEnd
  BY DEF MemoryEnd
<1>2. Sum(stub.align)' = Sum(stub.align) /\ Sum(stub.file_align)' = Sum(stub.file_align)
  BY DEF Sum
<1>3. InBounds' = InBounds
  BY <1>1, <1>2 DEF InBounds
<1> QED
  BY <1>1, <1>3 DEF Readable, SectionEnd, Rounds

LEMMA SectionEndIs ==
  ASSUME Readable, NEW i \in 1..Len(stub.sections)
  PROVE  /\ SectionEnd(i) \in Nat /\ SectionEnd(i) % stub.align = 0
         /\ stub.sections[i].v_addr + stub.sections[i].v_size \in Nat
<1>1. stub.sections[i] \in Section
  BY DEF Readable
<1>2. stub.sections[i].v_addr + stub.sections[i].v_size \in Nat /\ stub.align \in Nat \ {0}
  <2>1. stub.sections[i].v_addr \in Nat /\ stub.sections[i].v_size \in Nat
    BY <1>1 DEF Section
  <2>2. stub.align \in Nat \ {0}
    BY DEF Readable
  <2> QED
    BY <2>1, <2>2
<1> QED
  BY <1>2, RoundedIs DEF SectionEnd

Top(m, k) ==
  /\ m \in Nat /\ (m = 0 \/ \E i \in 1..k : m = SectionEnd(i))
  /\ \A i \in 1..k : SectionEnd(i) <= m

LEMMA TopExists ==
  ASSUME Readable
  PROVE  \E m : Top(m, Len(stub.sections))
<1> DEFINE n == Len(stub.sections)
           T == {k \in Nat : k <= n /\ ~ \E m : Top(m, k)}
<1>0. n \in Nat
  BY DEF Readable
<1> SUFFICES ASSUME T # {} PROVE FALSE
  <2>1. n <= n
    BY <1>0
  <2> QED
    BY <1>0, <2>1
<1>1. PICK k \in T : \A l \in T : k <= l
  BY LeastElement
<1>2. k \in Nat /\ k <= n /\ ~ \E m : Top(m, k)
  BY <1>1
<1>3. CASE k = 0
  BY <1>2, <1>3 DEF Top
<1>4. CASE k # 0
  <2>1. k - 1 \in Nat /\ k - 1 <= n /\ ~ (k <= k - 1) /\ k \in 1..n
    BY <1>0, <1>2, <1>4
  <2>2. PICK m : Top(m, k - 1)
    BY <1>1, <2>1
  <2>3. SectionEnd(k) \in Nat
    BY <2>1, SectionEndIs
  <2>4. \A i \in 1..k : i \in 1..(k - 1) \/ i = k
    BY <2>1
  <2>5. \A i \in 1..(k - 1) : i \in 1..k /\ SectionEnd(i) \in Nat
    <3>1. \A i \in 1..(k - 1) : i \in 1..k /\ i \in 1..n
      BY <1>0, <2>1
    <3> QED
      BY <3>1, SectionEndIs
  <2>6. CASE SectionEnd(k) <= m
    <3>1. Top(m, k)
      BY <2>2, <2>4, <2>5, <2>6 DEF Top
    <3> QED
      BY <1>2, <3>1
  <2>7. CASE m <= SectionEnd(k)
    <3>1. k \in 1..k
      BY <2>1
    <3>2. Top(SectionEnd(k), k)
      BY <2>2, <2>3, <2>4, <2>5, <2>7, <3>1 DEF Top
    <3> QED
      BY <1>2, <3>2
  <2> QED
    BY <2>2, <2>3, <2>6, <2>7 DEF Top
<1> QED
  BY <1>3, <1>4

LEMMA TopIs ==
  ASSUME Readable, NEW m, Top(m, Len(stub.sections))
  PROVE  m = MemoryEnd
<1> DEFINE n == Len(stub.sections)
           S == {0} \cup {SectionEnd(i) : i \in 1..n}
<1>1. MemoryEnd = Max(S)
  BY DEF MemoryEnd, SectionEnd
<1>2. \A x \in S : x \in Nat
  BY SectionEndIs
<1>3. m \in S /\ \A x \in S : m >= x
  BY DEF Top
<1> HIDE DEF S
<1>4. Max(S) \in S /\ \A x \in S : Max(S) >= x
  BY <1>3 DEF Max
<1>5. Max(S) \in Nat /\ m \in Nat /\ Max(S) >= m /\ m >= Max(S)
  BY <1>2, <1>3, <1>4
<1> QED
  BY <1>1, <1>5

LEMMA MemoryEndIs ==
  ASSUME Readable
  PROVE  /\ Top(MemoryEnd, Len(stub.sections)) /\ MemoryEnd \in Nat
         /\ MemoryEnd % stub.align = 0
<1>1. Top(MemoryEnd, Len(stub.sections)) /\ MemoryEnd \in Nat
  BY TopExists, TopIs DEF Top
<1>2. stub.align \in Nat \ {0}
  BY DEF Readable
<1>3. 0 % stub.align = 0
  BY <1>2
<1> QED
  BY <1>1, <1>3, SectionEndIs DEF Top

\* What the payloads need is the last of the partial sums.
LEMMA RoundsAre ==
  ASSUME Readable, NEW a \in Nat \ {0}
  PROVE  /\ Rounds(a) \in [1..Len(payload) -> Nat] /\ Len(payload) \in Nat
         /\ \A i \in 1..Len(payload) : /\ payload[i] \in Nat
                                       /\ Rounds(a)[i] = Rounded(payload[i], a)
                                       /\ payload[i] <= Rounds(a)[i] /\ Rounds(a)[i] % a = 0
<1>1. Len(payload) \in Nat /\ \A i \in 1..Len(payload) : payload[i] \in Nat
  BY DEF Readable
<1>2. \A i \in 1..Len(payload) : Rounds(a)[i] = Rounded(payload[i], a)
  BY DEF Rounds
<1>3. \A i \in 1..Len(payload) : /\ Rounded(payload[i], a) \in Nat /\ payload[i] <= Rounded(payload[i], a)
                                 /\ Rounded(payload[i], a) % a = 0
  BY <1>1, RoundedIs
<1>4. Rounds(a) \in [1..Len(payload) -> Nat]
  BY <1>3 DEF Rounds
<1> QED
  BY <1>1, <1>2, <1>3, <1>4

LEMMA SumIs ==
  ASSUME Readable, NEW a \in Nat \ {0}, NEW g, Sums(g, 0, Rounds(a), Len(payload))
  PROVE  Sum(a) = g[Len(payload)]
<1> DEFINE n == Len(payload)
           F == CHOOSE f : f = [i \in 0..n |-> IF i = 0 THEN 0 ELSE f[i - 1] + Rounded(payload[i], a)]
<1>1. n \in Nat /\ Rounds(a) \in [1..n -> Nat] /\ \A i \in 1..n : Rounds(a)[i] = Rounded(payload[i], a)
  BY RoundsAre
<1>2. \A f : [i \in 0..n |-> IF i = 0 THEN 0 ELSE f[i - 1] + Rounded(payload[i], a)]
             = [i \in 0..n |-> IF i = 0 THEN 0 ELSE f[i - 1] + Rounds(a)[i]]
  <2>1. \A i \in 0..n : i # 0 => i \in 1..n
    BY <1>1
  <2> QED
    BY <1>1, <2>1
<1>3. n \in 0..n /\ 0 \in Nat
  BY <1>1
<1>4. \E f : Adds(f, 0, Rounds(a), n)
  BY <1>1, <1>3, SumsFix
<1>5. \E f : f = [i \in 0..n |-> IF i = 0 THEN 0 ELSE f[i - 1] + Rounded(payload[i], a)]
  <2>1. PICK f : Adds(f, 0, Rounds(a), n)
    BY <1>4
  <2>2. f = [i \in 0..n |-> IF i = 0 THEN 0 ELSE f[i - 1] + Rounds(a)[i]]
    BY <2>1 DEF Adds
  <2>3. f = [i \in 0..n |-> IF i = 0 THEN 0 ELSE f[i - 1] + Rounded(payload[i], a)]
    BY <1>2, <2>2
  <2> QED
    BY <2>3
<1>6. F = [i \in 0..n |-> IF i = 0 THEN 0 ELSE F[i - 1] + Rounded(payload[i], a)]
  BY <1>5
<1>7. Sum(a) = F[n]
  BY DEF Sum
<1> HIDE DEF F
<1>8. Adds(F, 0, Rounds(a), n)
  BY <1>2, <1>6 DEF Adds
<1> QED
  BY <1>1, <1>3, <1>7, <1>8, SumsUnique

\* One payload more stays below all of them.
LEMMA SumsNext ==
  ASSUME Readable, NEW a \in Nat \ {0}, NEW g, Sums(g, 0, Rounds(a), Len(payload)),
         NEW k \in Nat, k < Len(payload)
  PROVE  /\ g[k] \in Nat /\ g[k + 1] = g[k] + Rounded(payload[k + 1], a)
         /\ g[k + 1] <= Sum(a) /\ Sum(a) \in Nat
<1> DEFINE n == Len(payload)
<1>1. n \in Nat /\ Rounds(a) \in [1..n -> Nat] /\ \A i \in 1..n : Rounds(a)[i] = Rounded(payload[i], a)
  BY RoundsAre
<1>2. k \in 0..n /\ k + 1 \in 1..n /\ k + 1 \in 0..n /\ n \in 0..n /\ k + 1 <= n /\ (k + 1) - 1 = k
  BY <1>1
<1>3. Sum(a) = g[n]
  BY SumIs
<1>4. g[k] \in Nat /\ g[n] \in Nat /\ g[k + 1] = g[k] + Rounds(a)[k + 1]
  BY <1>2 DEF Sums
<1>5. 0 \in Nat
  OBVIOUS
<1>6. g[k + 1] <= g[n]
  BY <1>1, <1>2, <1>5, SumsGrow
<1> QED
  BY <1>1, <1>2, <1>3, <1>4, <1>6

\* What is promised about fits.
LEMMA BoundsAre ==
  ASSUME Readable, InBounds
  PROVE  /\ MemoryEnd + Sum(stub.align) < Word
         /\ Rounded(stub.len, stub.file_align) + Sum(stub.file_align) < Word
         /\ stub.align \in Nat \ {0} /\ stub.file_align \in Nat \ {0} /\ Word \in Nat \ {0}
         /\ MemoryEnd \in Nat /\ Sum(stub.align) \in Nat /\ Sum(stub.file_align) \in Nat
         /\ Rounded(stub.len, stub.file_align) \in Nat
         /\ Rounded(stub.len, stub.file_align) % stub.file_align = 0
         /\ stub.len <= Rounded(stub.len, stub.file_align)
<1>1. stub.align \in Nat \ {0} /\ stub.file_align \in Nat \ {0} /\ Word \in Nat \ {0} /\ stub.len \in Nat
  BY DEF Readable
<1>2. ASSUME NEW a \in Nat \ {0} PROVE Sum(a) \in Nat
  <2>1. Rounds(a) \in [1..Len(payload) -> Nat] /\ Len(payload) \in Nat /\ 0 \in Nat
    BY RoundsAre
  <2>2. PICK g : Sums(g, 0, Rounds(a), Len(payload))
    BY <2>1, SumsExist
  <2>3. Len(payload) \in 0..Len(payload)
    BY <2>1
  <2>4. Sum(a) = g[Len(payload)]
    BY <2>2, SumIs
  <2> QED
    BY <2>2, <2>3, <2>4 DEF Sums
<1> QED
  BY <1>1, <1>2, MemoryEndIs, RoundedIs DEF InBounds

LEMMA UkiInitInv == UkiInit => UkiInv
<1> SUFFICES ASSUME UkiInit PROVE UkiInv
  OBVIOUS
<1>1. stub = NoStub /\ payload = <<>> /\ phase = "none" /\ added = <<>> /\ chunks = <<>>
  BY DEF UkiInit
<1>2. <<>> \in Seq(Section) /\ <<>> \in Seq(Nat) /\ Len(<<>>) = 0
  OBVIOUS
<1>3. Word \in Nat \ {0} /\ 1 \in 1..Word /\ 0 \in 0..(Word - 1) /\ Word % 1 = 0
  BY UkiAssumption
<1>4. /\ stub.align = 1 /\ stub.file_align = 1 /\ stub.len = 0 /\ stub.sections = <<>>
  BY <1>1 DEF NoStub
<1>5. Readable
  BY <1>1, <1>2, <1>3, <1>4 DEF Readable
<1>6. IsSeq(<<>>)
  BY <1>2 DEF IsSeq
<1> QED
  BY <1>1, <1>5, <1>6 DEF UkiInv, Scanning, Adding

LEMMA ReadInv ==
  ASSUME UkiInv, NEW s \in Stubs, NEW lengths \in Payloads, Read(s, lengths)
  PROVE  UkiInv'
<1>1. /\ stub' = s /\ payload' = lengths /\ phase' \in {"scan", "error"} /\ scanned' = 0 /\ vma' = 0
      /\ added' = <<>> /\ chunks' = <<>> /\ out' = s.len
  BY DEF Read
<1>2. /\ s.align \in 1..Word /\ s.file_align \in 1..Word /\ s.len \in 0..(Word - 1)
      /\ s.sections \in Seq(Section)
  BY UkiAssumption DEF Section
<1>3. /\ Word % s.align = 0 /\ Word % s.file_align = 0
      /\ \A i \in 1..Len(s.sections) : s.sections[i].v_addr + s.sections[i].v_size < Word
      /\ lengths \in Seq(Nat) /\ Word \in Nat \ {0}
  BY UkiAssumption
<1>4. Readable'
  BY <1>1, <1>2, <1>3 DEF Readable
<1>5. Len(s.sections) \in Nat
  BY <1>2
<1>6. Scanning'
  BY <1>1, <1>5 DEF Scanning, Highest
<1>7. IsSeq(<<>>) /\ Len(<<>>) = 0
  <2>1. <<>> \in Seq({})
    OBVIOUS
  <2> QED
    BY <2>1 DEF IsSeq
<1> QED
  BY <1>1, <1>4, <1>6, <1>7 DEF UkiInv, Adding, IsSeq

LEMMA ScanInv == UkiInv /\ Scan => UkiInv'
<1> SUFFICES ASSUME UkiInv, Scan PROVE UkiInv'
  OBVIOUS
<1>1. /\ phase = "scan" /\ phase' = phase /\ stub' = stub /\ payload' = payload /\ added' = added
      /\ chunks' = chunks /\ out' = out /\ scanned < Len(stub.sections) /\ scanned' = scanned + 1
  BY DEF Scan
<1>2. /\ MemoryEnd' = MemoryEnd /\ InBounds' = InBounds /\ Readable'
      /\ \A i : SectionEnd(i)' = SectionEnd(i)
  BY <1>1, SameStub DEF UkiInv
<1>3. Readable /\ scanned \in Nat /\ Len(stub.sections) \in Nat /\ out = stub.len
  BY <1>1 DEF UkiInv, Scanning, Readable
<1>4. InBounds => Highest'
  <2> SUFFICES ASSUME InBounds PROVE Highest'
    OBVIOUS
  <2>1. Highest
    BY <1>1 DEF UkiInv, Scanning
  <2> DEFINE k == scanned + 1
  <2>2. k \in 1..Len(stub.sections) /\ k \in 1..k /\ \A i \in 1..k : i \in 1..scanned \/ i = k
    BY <1>1, <1>3
  <2>a. \A i \in 1..scanned : i \in 1..k
    BY <1>3
  <2>3. SectionEnd(k) \in Nat /\ stub.sections[k].v_addr + stub.sections[k].v_size \in Nat
    BY <1>3, <2>2, SectionEndIs
  <2>4. ExistingEnd = SectionEnd(k)
    <3> DEFINE n == stub.sections[k].v_addr + stub.sections[k].v_size
    <3>1. n \in Nat /\ n < Word /\ Word \in Nat \ {0}
      BY <1>3, <2>2, <2>3 DEF Readable
    <3>2. n % Word = n
      BY <3>1
    <3>3. SectionEnd(k) <= MemoryEnd /\ MemoryEnd < Word
      <4>1. MemoryEnd + Sum(stub.align) < Word /\ MemoryEnd \in Nat /\ Sum(stub.align) \in Nat
        BY <1>3, BoundsAre
      <4>2. Top(MemoryEnd, Len(stub.sections))
        BY <1>3, MemoryEndIs
      <4>3. SectionEnd(k) <= MemoryEnd
        BY <2>2, <4>2 DEF Top
      <4> QED
        BY <3>1, <4>1, <4>3
    <3>4. Rounded(n, stub.align) = SectionEnd(k)
      BY DEF SectionEnd
    <3>5. ExistingEnd = AlignUp(n % Word, stub.align)
      BY DEF ExistingEnd, Existing
    <3> HIDE DEF n
    <3>6. Rounded(n, stub.align) < Word /\ stub.align \in 1..Word /\ Word % stub.align = 0 /\ Word \in Nat
      <4>1. MemoryEnd \in Nat
        BY <1>3, MemoryEndIs
      <4> QED
        BY <1>3, <2>3, <3>1, <3>3, <3>4, <4>1 DEF Readable
    <3>7. AlignUp(n, stub.align) = Rounded(n, stub.align)
      BY <3>1, <3>6, AlignUpIs
    <3> QED
      BY <3>2, <3>4, <3>5, <3>7
  <2>5. vma' = IF SectionEnd(k) > vma THEN SectionEnd(k) ELSE vma
    BY <2>4 DEF Scan
  <2>6. \A i \in 1..scanned : SectionEnd(i) \in Nat
    <3>1. \A i \in 1..scanned : i \in 1..Len(stub.sections)
      BY <1>1, <1>3
    <3> QED
      BY <1>3, <3>1, SectionEndIs
  <2> HIDE DEF k
  <2>7. vma' \in Nat /\ (vma' = 0 \/ \E i \in 1..k : vma' = SectionEnd(i))
    BY <2>1, <2>2, <2>a, <2>3, <2>5 DEF Highest
  <2>8. \A i \in 1..k : SectionEnd(i) <= vma'
    BY <2>1, <2>2, <2>3, <2>5, <2>6 DEF Highest
  <2>9. scanned' = k
    BY <1>1 DEF k
  <2> QED
    BY <1>2, <2>7, <2>8, <2>9 DEF Highest
<1>5. Scanning'
  BY <1>1, <1>2, <1>3, <1>4 DEF Scanning
<1> QED
  BY <1>1, <1>2, <1>5 DEF UkiInv, Adding, IsSeq

LEMMA PadInv == UkiInv /\ Pad => UkiInv'
<1> SUFFICES ASSUME UkiInv, Pad PROVE UkiInv'
  OBVIOUS
<1>1. /\ phase = "scan" /\ phase' = "add" /\ stub' = stub /\ payload' = payload /\ added' = added
      /\ chunks' = chunks /\ scanned = Len(stub.sections) /\ vma' = vma
      /\ out' = AlignUp(out, stub.file_align) /\ raw' = out'
  BY DEF Pad
<1>2. /\ MemoryEnd' = MemoryEnd /\ InBounds' = InBounds /\ Readable'
      /\ \A a : Rounds(a)' = Rounds(a)
  BY <1>1, SameStub DEF UkiInv
<1>3. Readable /\ added = <<>> /\ out = stub.len /\ Len(payload) \in Nat /\ Len(added) = 0
  BY <1>1 DEF UkiInv, Scanning, Readable
<1>4. ASSUME InBounds
      PROVE  /\ vma' \in Nat /\ raw' \in Nat
             /\ vma' % stub.align = 0 /\ raw' % stub.file_align = 0
             /\ Counted(0)'
  <2>1. vma = MemoryEnd /\ vma % stub.align = 0
    <3>1. Highest
      BY <1>1, <1>4 DEF UkiInv, Scanning
    <3>2. Top(vma, Len(stub.sections))
      BY <1>1, <3>1 DEF Highest, Top
    <3> QED
      BY <1>3, <3>2, TopIs, MemoryEndIs
  <2>2. /\ Rounded(stub.len, stub.file_align) \in Nat /\ Rounded(stub.len, stub.file_align) < Word
        /\ Rounded(stub.len, stub.file_align) % stub.file_align = 0
        /\ stub.align \in Nat \ {0} /\ stub.file_align \in Nat \ {0} /\ MemoryEnd \in Nat
    <3>1. /\ Rounded(stub.len, stub.file_align) + Sum(stub.file_align) < Word
          /\ Rounded(stub.len, stub.file_align) \in Nat /\ Sum(stub.file_align) \in Nat /\ Word \in Nat
          /\ Rounded(stub.len, stub.file_align) % stub.file_align = 0
          /\ stub.align \in Nat \ {0} /\ stub.file_align \in Nat \ {0} /\ MemoryEnd \in Nat
      BY <1>3, <1>4, BoundsAre
    <3> QED
      BY <3>1
  <2>3. raw' = Rounded(stub.len, stub.file_align)
    <3>1. stub.len \in Nat /\ stub.file_align \in 1..Word /\ Word \in Nat /\ Word % stub.file_align = 0
      BY <1>3 DEF Readable
    <3> QED
      BY <1>1, <1>3, <2>2, <3>1, AlignUpIs
  <2>4. ASSUME NEW a \in Nat \ {0}
        PROVE  \E g : Sums(g, 0, Rounds(a), Len(payload)) /\ g[0] = 0
    <3>1. Rounds(a) \in [1..Len(payload) -> Nat] /\ 0 \in Nat
      BY <1>3, RoundsAre
    <3>2. PICK g : Sums(g, 0, Rounds(a), Len(payload))
      BY <1>3, <3>1, SumsExist
    <3> QED
      BY <3>2 DEF Sums
  <2>5. PICK g : Sums(g, 0, Rounds(stub.align), Len(payload)) /\ g[0] = 0
    BY <2>2, <2>4
  <2>6. PICK h : Sums(h, 0, Rounds(stub.file_align), Len(payload)) /\ h[0] = 0
    BY <2>2, <2>4
  <2>7. vma' = MemoryEnd + g[0] /\ raw' = Rounded(stub.len, stub.file_align) + h[0]
    BY <1>1, <2>1, <2>2, <2>3, <2>5, <2>6
  <2>8. Counted(0)'
    BY <1>1, <1>2, <2>5, <2>6, <2>7 DEF Counted
  <2> QED
    BY <1>1, <2>1, <2>2, <2>3, <2>8
<1>5. Adding'
  <2>1. Len(added') = 0 /\ 1..0 = {} /\ 0 \in 0..Len(payload)
    BY <1>1, <1>3
  <2> QED
    BY <1>1, <1>2, <1>4, <2>1 DEF Adding
<1> QED
  BY <1>1, <1>2, <1>5 DEF UkiInv, Scanning, IsSeq

LEMMA Small ==
  ASSUME NEW n \in Nat, NEW w \in Nat, n < w
  PROVE  n % w = n
  OBVIOUS

\* Where the payloads are in bounds, adding one wraps around nowhere.
LEMMA AddIs ==
  ASSUME UkiInv, InBounds, Add, NEW k \in Nat, k = Len(added)
  PROVE  LET at == stub.headers + (Len(stub.sections) + k) * HeaderBytes
             bytes == payload[k + 1]
             size == Rounded(bytes, stub.file_align)
         IN  /\ k < Len(payload) /\ Len(payload) \in Nat
             /\ bytes \in Nat /\ size \in Nat /\ bytes <= size
             /\ added' = Append(added, [at |-> at, v_addr |-> vma, v_size |-> bytes, raw_ptr |-> raw, raw_size |-> size])
             /\ chunks' = Append(chunks, [lo |-> raw, hi |-> raw + bytes])
             /\ vma \in Nat /\ raw \in Nat /\ vma' \in Nat
             /\ vma + bytes <= vma' /\ raw' = raw + size /\ out' = raw'
             /\ vma' % stub.align = 0 /\ raw' % stub.file_align = 0
             /\ MemoryEnd <= vma /\ stub.len <= raw /\ vma' < Word /\ raw' < Word
             /\ Counted(k + 1)'
<1> DEFINE n == Len(payload)
           at == stub.headers + (Len(stub.sections) + k) * HeaderBytes
           bytes == payload[k + 1]
           size == Rounded(bytes, stub.file_align)
           up == Rounded(bytes, stub.align)
           base == Rounded(stub.len, stub.file_align)
<1>1. /\ phase = "add" /\ phase' = phase /\ stub' = stub /\ payload' = payload /\ k < n
      /\ added' = Append(added, Header)
      /\ chunks' = Append(chunks, [lo |-> out, hi |-> out + Bytes])
      /\ out' = out + Bytes + ((Header.raw_size - Header.v_size) % Word)
      /\ vma' = AlignUp((vma + Header.v_size) % Word, stub.align)
      /\ raw' = (raw + Header.raw_size) % Word
  BY DEF Add
<1>2. /\ Readable /\ k \in 0..n
      /\ vma \in Nat /\ raw \in Nat /\ out = raw
      /\ vma % stub.align = 0 /\ raw % stub.file_align = 0
      /\ Counted(k)
  BY <1>1 DEF UkiInv, Adding
<1>3. n \in Nat /\ k + 1 \in 1..n
  <2>1. n \in Nat
    BY <1>2 DEF Readable
  <2> QED
    BY <1>1, <2>1
<1>4. /\ MemoryEnd + Sum(stub.align) < Word
      /\ base + Sum(stub.file_align) < Word
      /\ stub.align \in Nat \ {0} /\ stub.file_align \in Nat \ {0} /\ Word \in Nat \ {0}
      /\ MemoryEnd \in Nat /\ Sum(stub.align) \in Nat /\ Sum(stub.file_align) \in Nat
      /\ base \in Nat /\ stub.len <= base /\ stub.len \in Nat
  BY <1>2, BoundsAre DEF Readable
<1>5. /\ stub.align \in 1..Word /\ stub.file_align \in 1..Word
      /\ Word % stub.align = 0 /\ Word % stub.file_align = 0
  BY <1>2 DEF Readable
<1>6. bytes \in Nat
  BY <1>2, <1>3, <1>4, RoundsAre
<1>7. size \in Nat /\ bytes <= size /\ up \in Nat /\ bytes <= up
  BY <1>4, <1>6, RoundedIs
<1>a. size % stub.file_align = 0 /\ up % stub.align = 0
  BY <1>4, <1>6, RoundedIs
<1>8. PICK g : Sums(g, 0, Rounds(stub.align), n) /\ vma = MemoryEnd + g[k]
  BY <1>2 DEF Counted
<1>9. PICK h : Sums(h, 0, Rounds(stub.file_align), n) /\ raw = base + h[k]
  BY <1>2 DEF Counted
<1>10. g[k] \in Nat /\ g[k + 1] = g[k] + up /\ g[k + 1] <= Sum(stub.align)
  BY <1>1, <1>2, <1>3, <1>4, <1>8, SumsNext
<1>11. h[k] \in Nat /\ h[k + 1] = h[k] + size /\ h[k + 1] <= Sum(stub.file_align)
  BY <1>1, <1>2, <1>3, <1>4, <1>9, SumsNext
<1> HIDE DEF size, up, base, bytes, n, at
<1>b. vma + up = MemoryEnd + g[k + 1] /\ raw + size = base + h[k + 1]
  <2>1. \A x, y, z, t, u \in Nat : x = y + z /\ u = z + t => x + t = y + u
    OBVIOUS
  <2>2. g[k + 1] \in Nat /\ h[k + 1] \in Nat
    BY <1>7, <1>10, <1>11
  <2>3. vma \in Nat /\ MemoryEnd \in Nat /\ g[k] \in Nat /\ up \in Nat
    BY <1>2, <1>4, <1>7, <1>10
  <2>4. raw \in Nat /\ base \in Nat /\ h[k] \in Nat /\ size \in Nat
    BY <1>2, <1>4, <1>7, <1>11
  <2>5. vma + up = MemoryEnd + g[k + 1]
    BY <1>8, <1>10, <2>1, <2>2, <2>3
  <2>6. raw + size = base + h[k + 1]
    BY <1>9, <1>11, <2>1, <2>2, <2>4
  <2> QED
    BY <2>5, <2>6
<1>12. vma + up < Word /\ raw + size < Word /\ bytes < Word /\ size < Word
  <2>1. g[k + 1] \in Nat /\ h[k + 1] \in Nat
    BY <1>7, <1>10, <1>11
  <2>2. vma + up < Word /\ raw + size < Word
    <3>1. \A x, y, t, u \in Nat : x + y < t /\ u <= y => x + u < t
      OBVIOUS
    <3>2. MemoryEnd + g[k + 1] < Word
      BY <1>4, <1>10, <2>1, <3>1
    <3>3. base + h[k + 1] < Word
      BY <1>4, <1>11, <2>1, <3>1
    <3> QED
      BY <1>b, <3>2, <3>3
  <2>3. vma \in Nat /\ raw \in Nat
    BY <1>2
  <2> QED
    BY <1>4, <1>6, <1>7, <2>2, <2>3
<1>13. bytes % Word = bytes
  BY <1>4, <1>6, <1>12, Small
<1>14. AlignUp(bytes, stub.file_align) = size
  BY <1>4, <1>5, <1>6, <1>12, AlignUpIs DEF size
<1>15. Header = [at |-> at, v_addr |-> vma, v_size |-> bytes, raw_ptr |-> raw, raw_size |-> size] /\ Bytes = bytes
  <2>1. Bytes = bytes
    BY DEF Bytes, bytes
  <2>2. stub.headers + (Len(stub.sections) + Len(added)) * HeaderBytes = at
    BY DEF at
  <2> QED
    BY <1>13, <1>14, <2>1, <2>2 DEF Header
<1>16. Header.v_size = bytes /\ Header.raw_size = size
  BY <1>15
<1>17. out' = raw + size
  <2>1. size - bytes \in Nat /\ size - bytes < Word
    BY <1>4, <1>6, <1>7, <1>12
  <2>2. (size - bytes) % Word = size - bytes
    BY <1>4, <2>1, Small
  <2> QED
    BY <1>1, <1>2, <1>6, <1>7, <1>15, <1>16, <2>2
<1>18. raw' = raw + size
  <2>1. raw + size \in Nat /\ raw + size < Word
    BY <1>2, <1>7, <1>12
  <2>2. (raw + size) % Word = raw + size
    BY <1>4, <2>1, Small
  <2> QED
    BY <1>1, <1>16, <2>2
<1>19. vma' = vma + up
  <2>1. vma + bytes \in Nat /\ vma + bytes < Word
    <3>1. vma \in Nat /\ Word \in Nat
      BY <1>2, <1>4
    <3> QED
      BY <1>6, <1>7, <1>12, <3>1
  <2>2. (vma + bytes) % Word = vma + bytes
    BY <1>4, <2>1, Small
  <2>3. Rounded(vma + bytes, stub.align) = vma + up
    <3>1. vma \in Nat /\ bytes \in Nat /\ stub.align \in Nat \ {0} /\ vma % stub.align = 0
      BY <1>2, <1>4, <1>6
    <3> QED
      BY <3>1, RoundedShift DEF up
  <2>4. AlignUp(vma + bytes, stub.align) = vma + up
    BY <1>4, <1>5, <1>12, <2>1, <2>3, AlignUpIs
  <2> QED
    BY <1>1, <1>16, <2>2, <2>4
<1>20. vma' % stub.align = 0 /\ raw' % stub.file_align = 0
  <2>1. vma \in Int /\ raw \in Int /\ up \in Int /\ size \in Int
    BY <1>2, <1>7
  <2> QED
    BY <1>2, <1>4, <1>a, <1>18, <1>19, <2>1, ModSum
<1>21. Counted(k + 1)'
  <2>1. MemoryEnd' = MemoryEnd /\ (\A a : Rounds(a)' = Rounds(a))
    BY <1>1, SameStub
  <2>2. vma' = MemoryEnd + g[k + 1] /\ raw' = base + h[k + 1]
    BY <1>b, <1>18, <1>19
  <2>3. /\ \E f : Sums(f, 0, Rounds(stub.align), Len(payload)) /\ vma' = MemoryEnd + f[k + 1]
        /\ \E f : Sums(f, 0, Rounds(stub.file_align), Len(payload))
                    /\ raw' = Rounded(stub.len, stub.file_align) + f[k + 1]
    BY <1>8, <1>9, <2>2 DEF n, base
  <2> QED
    BY <1>1, <2>1, <2>3 DEF Counted
<1>22. MemoryEnd <= vma /\ stub.len <= raw
  <2>1. \A x, y, z \in Nat : x = y + z => y <= x
    OBVIOUS
  <2>2. MemoryEnd <= vma /\ base <= raw
    BY <1>2, <1>4, <1>8, <1>9, <1>10, <1>11, <2>1
  <2> QED
    BY <1>2, <1>4, <2>2
<1>23. chunks' = Append(chunks, [lo |-> raw, hi |-> raw + bytes])
  BY <1>1, <1>2, <1>15
<1>24. vma + bytes <= vma' /\ vma' \in Nat /\ vma' < Word /\ raw' < Word /\ out' = raw'
  BY <1>2, <1>6, <1>7, <1>12, <1>17, <1>18, <1>19
<1>25. added' = Append(added, [at |-> at, v_addr |-> vma, v_size |-> bytes, raw_ptr |-> raw, raw_size |-> size])
  BY <1>1, <1>15
<1> QED
  BY <1>1, <1>2, <1>3, <1>6, <1>7, <1>18, <1>20, <1>21, <1>22, <1>23, <1>24, <1>25
     DEF n, at, bytes, size

LEMMA AddInv == UkiInv /\ Add => UkiInv'
<1> SUFFICES ASSUME UkiInv, Add PROVE UkiInv'
  OBVIOUS
<1>0. PICK k \in Nat : k = Len(added)
  BY AppendIs DEF UkiInv
<1>1. /\ phase = "add" /\ phase' = phase /\ stub' = stub /\ payload' = payload /\ k < Len(payload)
      /\ \E e : added' = Append(added, e)
      /\ \E e : chunks' = Append(chunks, e)
  BY <1>0 DEF Add
<1>2. /\ MemoryEnd' = MemoryEnd /\ InBounds' = InBounds /\ Readable'
  BY <1>1, SameStub DEF UkiInv
<1>3. IsSeq(added) /\ IsSeq(chunks) /\ Len(added) = k /\ Len(chunks) = k /\ Len(payload) \in Nat
  BY <1>0 DEF UkiInv, Readable
<1>4. /\ IsSeq(added') /\ IsSeq(chunks') /\ Len(added') = k + 1 /\ Len(chunks') = k + 1 /\ k \in Nat
      /\ \A i \in 1..k : added'[i] = added[i] /\ chunks'[i] = chunks[i]
  BY <1>1, <1>3, AppendIs
<1>5. ASSUME InBounds
      PROVE  /\ vma' \in Nat /\ raw' \in Nat /\ out' = raw'
             /\ vma' % stub.align = 0 /\ raw' % stub.file_align = 0
             /\ Counted(k + 1)' /\ \A i \in 1..(k + 1) : Holds(i)'
  <2> DEFINE at == stub.headers + (Len(stub.sections) + k) * HeaderBytes
             bytes == payload[k + 1]
             size == Rounded(bytes, stub.file_align)
             new == [at |-> at, v_addr |-> vma, v_size |-> bytes, raw_ptr |-> raw, raw_size |-> size]
             part == [lo |-> raw, hi |-> raw + bytes]
  <2>1. /\ bytes \in Nat /\ size \in Nat /\ bytes <= size
        /\ added' = Append(added, new)
        /\ chunks' = Append(chunks, part)
        /\ vma \in Nat /\ raw \in Nat /\ vma' \in Nat
        /\ vma + bytes <= vma' /\ raw' = raw + size /\ out' = raw'
        /\ vma' % stub.align = 0 /\ raw' % stub.file_align = 0
        /\ Counted(k + 1)'
    BY <1>0, <1>5, AddIs
  <2>2. vma % stub.align = 0 /\ raw % stub.file_align = 0 /\ \A i \in 1..k : Holds(i)
    BY <1>0, <1>1, <1>5 DEF UkiInv, Adding
  <2>3. new.v_addr = vma /\ new.v_size = bytes /\ new.raw_ptr = raw /\ new.raw_size = size
    OBVIOUS
  <2>4. added'[k + 1] = new /\ chunks'[k + 1] = part
    BY <1>3, <2>1, AppendIs
  <2>5. part = [lo |-> raw, hi |-> raw + bytes]
    OBVIOUS
  <2> HIDE DEF new, size, part
  <2>6. Holds(k + 1)'
    <3>1. payload'[k + 1] = bytes
      BY <1>1
    <3> HIDE DEF bytes
    <3>2. /\ chunks'[k + 1] = [lo |-> added'[k + 1].raw_ptr, hi |-> added'[k + 1].raw_ptr + payload'[k + 1]]
          /\ added'[k + 1].v_addr \in Nat /\ added'[k + 1].raw_ptr \in Nat /\ added'[k + 1].raw_size \in Nat
          /\ added'[k + 1].v_size = payload'[k + 1] /\ added'[k + 1].raw_size >= payload'[k + 1]
      BY <2>1, <2>3, <2>4, <2>5, <3>1
    <3>a. added'[k + 1].v_addr % stub'.align = 0 /\ added'[k + 1].raw_ptr % stub'.file_align = 0
      BY <1>1, <2>2, <2>3, <2>4, Zenon
    <3>b. raw' = raw + size /\ vma + bytes <= vma'
      BY <2>1, Zenon
    <3>c. raw' \in Nat
      BY <2>1, <3>b
    <3>d. /\ added'[k + 1].raw_ptr + added'[k + 1].raw_size = raw'
          /\ added'[k + 1].v_addr + added'[k + 1].v_size <= vma'
      BY <2>3, <2>4, <3>b
    <3>3. /\ added'[k + 1].v_addr % stub'.align = 0 /\ added'[k + 1].raw_ptr % stub'.file_align = 0
          /\ added'[k + 1].raw_ptr + added'[k + 1].raw_size <= raw'
          /\ added'[k + 1].v_addr + added'[k + 1].v_size <= vma'
      BY <3>a, <3>c, <3>d
    <3> QED
      BY <3>2, <3>3 DEF Holds
  <2>7. ASSUME NEW i \in 1..k PROVE Holds(i)'
    <3>1. Holds(i) /\ added'[i] = added[i] /\ chunks'[i] = chunks[i]
      BY <1>4, <2>2
    <3>2. i \in 1..Len(payload) /\ payload[i] \in Nat
      <4>1. i \in 1..Len(payload)
        BY <1>1, <1>3, <1>4
      <4> QED
        BY <4>1 DEF UkiInv, Readable
    <3>3. raw <= raw' /\ vma <= vma'
      BY <2>1
    <3>4. added[i].raw_ptr + added[i].raw_size <= raw' /\ added[i].v_addr + added[i].v_size <= vma'
      <4>0. /\ added[i].v_addr \in Nat /\ added[i].raw_ptr \in Nat /\ added[i].raw_size \in Nat
            /\ added[i].v_size = payload[i]
            /\ added[i].raw_ptr + added[i].raw_size <= raw /\ added[i].v_addr + added[i].v_size <= vma
        BY <3>1, Zenon DEF Holds
      <4>1. /\ added[i].raw_ptr + added[i].raw_size \in Nat /\ added[i].v_addr + added[i].v_size \in Nat
            /\ added[i].raw_ptr + added[i].raw_size <= raw /\ added[i].v_addr + added[i].v_size <= vma
        BY <3>2, <4>0
      <4>2. raw \in Nat /\ vma \in Nat /\ raw' \in Nat /\ vma' \in Nat
        BY <2>1
      <4> QED
        BY <3>3, <4>1, <4>2
    <3> QED
      BY <1>1, <3>1, <3>4 DEF Holds
  <2>8. \A i \in 1..(k + 1) : i \in 1..k \/ i = k + 1
    BY <1>4
  <2>9. raw' \in Nat
    BY <2>1
  <2> QED
    BY <2>1, <2>6, <2>7, <2>8, <2>9
<1>6. Adding'
  <2>1. Len(added') \in 0..Len(payload)
    BY <1>1, <1>3, <1>4
  <2>2. Counted(k + 1)' <=> Counted(Len(added))'
    BY <1>4 DEF Counted
  <2> QED
    BY <1>1, <1>2, <1>4, <1>5, <2>1, <2>2 DEF Adding
<1> QED
  BY <1>1, <1>2, <1>3, <1>4, <1>6 DEF UkiInv, Scanning, IsSeq

LEMMA WriteInv == UkiInv /\ Write => UkiInv'
<1> SUFFICES ASSUME UkiInv, Write PROVE UkiInv'
  OBVIOUS
<1>1. /\ phase = "add" /\ phase' = "done" /\ Len(added) = Len(payload)
      /\ UNCHANGED <<stub, payload, added, chunks, out, raw, vma>>
      /\ image_size' = AlignUp(vma, stub.align)
  BY DEF Write
<1>2. /\ MemoryEnd' = MemoryEnd /\ InBounds' = InBounds /\ Readable'
      /\ \A a : Rounds(a)' = Rounds(a)
  BY <1>1, SameStub DEF UkiInv
<1>3. ASSUME InBounds
      PROVE  /\ vma \in Nat /\ raw \in Nat /\ out = raw
             /\ vma % stub.align = 0 /\ raw % stub.file_align = 0
             /\ Counted(Len(added)) /\ \A i \in 1..Len(added) : Holds(i)
  BY <1>1, <1>3 DEF UkiInv, Adding
<1>4. ASSUME InBounds PROVE image_size' = vma
  <2>1. Readable
    BY DEF UkiInv
  <2>2. PICK g : Sums(g, 0, Rounds(stub.align), Len(payload)) /\ vma = MemoryEnd + g[Len(payload)]
    BY <1>1, <1>3, <1>4 DEF Counted
  <2>3. stub.align \in Nat \ {0} /\ stub.align \in 1..Word /\ Word \in Nat /\ Word % stub.align = 0
    BY <2>1 DEF Readable
  <2>4. vma = MemoryEnd + Sum(stub.align)
    BY <2>1, <2>2, <2>3, SumIs
  <2>5. vma < Word
    BY <1>4, <2>1, <2>4, BoundsAre
  <2>6. Rounded(vma, stub.align) = vma
    BY <1>3, <1>4, <2>3, RoundedSame
  <2>7. AlignUp(vma, stub.align) = vma
    BY <1>3, <1>4, <2>3, <2>5, <2>6, AlignUpIs
  <2> QED
    BY <1>1, <2>7
<1>5. Len(added) \in 0..Len(payload)
  BY <1>1 DEF UkiInv, Adding
<1>6. InBounds => Counted(Len(added))'
  BY <1>1, <1>2, <1>3 DEF Counted
<1>7. InBounds => \A i \in 1..Len(added) : Holds(i)'
  BY <1>1, <1>3 DEF Holds
<1>8. Adding'
  BY <1>1, <1>2, <1>3, <1>4, <1>5, <1>6, <1>7 DEF Adding
<1> QED
  BY <1>1, <1>2, <1>8 DEF UkiInv, Scanning, IsSeq

LEMMA UkiStepInv == UkiInv /\ [UkiNext]_ukiVars => UkiInv'
<1> SUFFICES ASSUME UkiInv, [UkiNext]_ukiVars PROVE UkiInv'
  OBVIOUS
<1>1. CASE \E s \in Stubs, lengths \in Payloads : Read(s, lengths)
  BY <1>1, ReadInv
<1>2. CASE Scan
  BY <1>2, ScanInv
<1>3. CASE Pad
  BY <1>3, PadInv
<1>4. CASE Add
  BY <1>4, AddInv
<1>5. CASE Write
  BY <1>5, WriteInv
<1>6. CASE NoRoom
  <2>1. /\ phase = "scan" /\ phase' = "error" /\ UNCHANGED <<stub, payload, added, chunks>>
    BY <1>6 DEF NoRoom
  <2>2. Readable'
    BY <2>1, SameStub DEF UkiInv
  <2> QED
    BY <2>1, <2>2 DEF UkiInv, Scanning, Adding, IsSeq
<1>7. CASE UNCHANGED ukiVars
  <2>1. UNCHANGED <<stub, payload, phase, scanned, vma, raw, added, out, chunks, image_size>>
    BY <1>7 DEF ukiVars
  <2>2. /\ MemoryEnd' = MemoryEnd /\ InBounds' = InBounds /\ Readable'
        /\ (\A i : SectionEnd(i)' = SectionEnd(i)) /\ \A a : Rounds(a)' = Rounds(a)
    BY <2>1, SameStub DEF UkiInv
  <2>3. Scanning'
    BY <2>1, <2>2 DEF UkiInv, Scanning, Highest
  <2>4. Adding'
    BY <2>1, <2>2 DEF UkiInv, Adding, Counted, Holds
  <2> QED
    BY <2>1, <2>2, <2>3, <2>4 DEF UkiInv, IsSeq
<1> QED
  BY <1>1, <1>2, <1>3, <1>4, <1>5, <1>6, <1>7 DEF UkiNext

\* The inductive invariant: while sections are looked at, vma is the largest end so
\* far; while they are added, both addresses are what the payloads need, counted
\* without a bound, so that below 4 GiB nothing has wrapped around (main.rs:197-276).
THEOREM UkiInvariant == UkiSpec => []UkiInv
  BY UkiInitInv, UkiStepInv, PTL DEF UkiSpec

\* Every header of a finished image says where its payload lies, in memory and in
\* the file, and SizeOfImage covers all of them, for every stub and all payloads
\* that stay below 4 GiB.
THEOREM UkiHeaders == UkiSpec => []HeadersPointAtData
<1>1. UkiInv => HeadersPointAtData
  <2> SUFFICES ASSUME UkiInv, phase = "done", InBounds PROVE HeadersPointAtData
    BY DEF HeadersPointAtData
  <2>1. /\ Readable /\ out = raw /\ vma % stub.align = 0 /\ vma \in Nat
        /\ Counted(Len(added)) /\ \A i \in 1..Len(added) : Holds(i)
        /\ Len(added) = Len(payload) /\ image_size = vma
    BY DEF UkiInv, Adding
  <2>2. PICK g : Sums(g, 0, Rounds(stub.align), Len(payload)) /\ vma = MemoryEnd + g[Len(payload)]
    BY <2>1 DEF Counted
  <2>3. stub.align \in Nat \ {0}
    BY <2>1 DEF Readable
  <2>4. vma = MemoryEnd + Sum(stub.align)
    BY <2>1, <2>2, <2>3, SumIs
  <2>5. MemoryEnd <= vma
    BY <2>1, <2>4, BoundsAre
  <2> QED
    BY <2>1, <2>5 DEF HeadersPointAtData, Holds
<1> QED
  BY <1>1, UkiInvariant, PTL

-----------------------------------------------------------------------------
(* Where the headers are written.                                          *)

\* Where header i of those added begins.
HeaderPlace(i) == stub.headers + (Len(stub.sections) + (i - 1)) * HeaderBytes

HeadInv ==
  /\ stub.headers \in Nat /\ stub.room \in Nat /\ HeaderBytes \in Nat
  /\ stub.len \in Nat /\ stub.room <= stub.len
  /\ \A k \in 1..Len(stub.sections) :
       /\ stub.sections[k].raw_ptr \in Nat
       /\ stub.sections[k].raw_size > 0 => stub.room <= stub.sections[k].raw_ptr
  /\ phase \in {"add", "done"} => HasRoom
  /\ InBounds => \A j \in 1..Len(chunks) : chunks[j].lo \in Nat /\ stub.len <= chunks[j].lo
  /\ \A i \in 1..Len(added) : added[i].at = HeaderPlace(i)

LEMMA HeadInit == UkiInit => HeadInv
  BY UkiAssumption DEF UkiInit, NoStub, HeadInv

LEMMA HeadStep ==
  ASSUME UkiInv, UkiInv', HeadInv, [UkiNext]_ukiVars
  PROVE  HeadInv'
<1>1. ASSUME UNCHANGED <<stub, payload, added, chunks>>, phase' \in {"add", "done"} => HasRoom
      PROVE  HeadInv'
  <2>1. InBounds' = InBounds
    BY <1>1, SameStub
  <2>2. HasRoom' = HasRoom
    BY <1>1 DEF HasRoom
  <2> QED
    BY <1>1, <2>1, <2>2 DEF HeadInv, HeaderPlace
<1>2. ASSUME NEW s \in Stubs, NEW lengths \in Payloads, Read(s, lengths) PROVE HeadInv'
  <2>1. /\ stub' = s /\ added' = <<>> /\ chunks' = <<>> /\ phase' \in {"scan", "error"}
    BY <1>2 DEF Read
  <2>2. /\ s.headers \in Nat /\ s.room \in Nat /\ s.len \in Nat /\ s.room <= s.len
        /\ HeaderBytes \in Nat
        /\ s.sections \in Seq([v_addr : Nat, v_size : Nat, raw_ptr : Nat, raw_size : Nat])
        /\ \A k \in 1..Len(s.sections) : s.sections[k].raw_size > 0 => s.room <= s.sections[k].raw_ptr
    BY UkiAssumption
  <2>3. ASSUME NEW k \in 1..Len(s.sections) PROVE s.sections[k].raw_ptr \in Nat
    <3>1. \A S : \A q \in Seq(S) : \A l \in 1..Len(q) : q[l] \in S
      OBVIOUS
    <3>2. s.sections \in Seq(Section)
      BY <2>2 DEF Section
    <3>3. s.sections[k] \in Section
      BY <3>1, <3>2
    <3> QED
      BY <3>3 DEF Section
  <2> QED
    BY <2>1, <2>2, <2>3 DEF HeadInv
<1>3. CASE Pad
  BY <1>1, <1>3 DEF Pad
<1>4. CASE Write
  BY <1>1, <1>4 DEF Write, HeadInv
<1>5. CASE Scan
  BY <1>1, <1>5 DEF Scan
<1>6. CASE NoRoom
  BY <1>1, <1>6 DEF NoRoom
<1>7. CASE UNCHANGED ukiVars
  BY <1>1, <1>7 DEF ukiVars, HeadInv
<1>8. CASE Add
  <2>0. PICK k \in Nat : k = Len(added)
    BY AppendIs DEF UkiInv
  <2>1. /\ phase = "add" /\ UNCHANGED <<stub, payload, phase>> /\ added' = Append(added, Header)
        /\ chunks' = Append(chunks, [lo |-> out, hi |-> out + Bytes])
    BY <1>8 DEF Add
  <2>2. /\ Len(added') = k + 1 /\ added'[k + 1] = Header /\ \A i \in 1..k : added'[i] = added[i]
        /\ Len(chunks) = k /\ Len(chunks') = k + 1
        /\ \A i \in 1..k : chunks'[i] = chunks[i]
        /\ chunks'[k + 1] = [lo |-> out, hi |-> out + Bytes]
    BY <2>0, <2>1, AppendIs DEF UkiInv
  <2>3. \A i \in 1..(k + 1) : i \in 1..k \/ i = k + 1
    BY <2>0
  <2>4. InBounds' = InBounds /\ HasRoom' = HasRoom
    BY <2>1, SameStub DEF HasRoom
  <2>5. added'[k + 1].at = HeaderPlace(k + 1)'
    <3>1. (k + 1) - 1 = k
      BY <2>0
    <3>2. Header.at = stub.headers + (Len(stub.sections) + k) * HeaderBytes
      BY <2>0 DEF Header
    <3> QED
      BY <2>1, <2>2, <3>1, <3>2 DEF HeaderPlace
  <2>6. \A i \in 1..Len(added') : added'[i].at = HeaderPlace(i)'
    BY <2>0, <2>1, <2>2, <2>3, <2>5 DEF HeadInv, HeaderPlace
  <2>7. InBounds => out \in Nat /\ stub.len <= out
    BY <1>8, <2>0, <2>1, AddIs DEF UkiInv, Adding
  <2>8. InBounds => \A j \in 1..Len(chunks') : chunks'[j].lo \in Nat /\ stub.len <= chunks'[j].lo
    BY <2>2, <2>3, <2>7 DEF HeadInv
  <2> QED
    BY <2>1, <2>4, <2>6, <2>8 DEF HeadInv
<1> QED
  BY <1>2, <1>3, <1>4, <1>5, <1>6, <1>7, <1>8 DEF UkiNext

LEMMA TimesGrow ==
  ASSUME NEW a \in Nat, NEW b \in Nat, NEW c \in Nat, a <= b
  PROVE  a * c <= b * c
<1>1. b = a + (b - a) /\ b - a \in Nat
  OBVIOUS
<1>2. (a + (b - a)) * c = a * c + (b - a) * c /\ (b - a) * c \in Nat /\ a * c \in Nat
  BY <1>1
<1> QED
  BY <1>1, <1>2

\* No header that is added is written over another, over the data of a section of
\* the stub or over a payload, for every stub and all payloads: neet-uki has seen
\* that there is room for all of them before the first (main.rs:217-225).
THEOREM UkiOverwritesNothing == UkiSpec => []NothingOverwritten
<1>1. UkiInv /\ HeadInv => NothingOverwritten
  <2> SUFFICES ASSUME UkiInv, HeadInv, NEW i \in 1..Len(added)
               PROVE  /\ stub.headers + Len(stub.sections) * HeaderBytes <= added[i].at
                      /\ \A j \in 1..(i - 1) : added[j].at + HeaderBytes <= added[i].at
                      /\ \A k \in 1..Len(stub.sections) : stub.sections[k].raw_size > 0 =>
                           added[i].at + HeaderBytes <= stub.sections[k].raw_ptr
                      /\ InBounds => \A j \in 1..Len(chunks) : added[i].at + HeaderBytes <= chunks[j].lo
    BY DEF NothingOverwritten
  <2> DEFINE n == Len(stub.sections)
  <2>1. /\ Len(added) \in Nat /\ Len(payload) \in Nat /\ n \in Nat
    BY AppendIs DEF UkiInv, Readable
  <2>2. i \in Nat \ {0} /\ i <= Len(added)
    BY <2>1
  <2>3. phase \in {"add", "done"}
    <3>1. CASE phase \notin {"add", "done"}
      <4>1. added = <<>> /\ Len(<<>>) = 0
        BY <3>1 DEF UkiInv
      <4> QED
        BY <2>2, <4>1
    <3> QED
      BY <3>1
  <2>4. Len(added) <= Len(payload) /\ HasRoom
    BY <2>1, <2>3 DEF UkiInv, Adding, HeadInv
  <2>5. stub.headers \in Nat /\ HeaderBytes \in Nat /\ stub.room \in Nat /\ stub.len \in Nat
    BY DEF HeadInv
  <2>6. \A j \in 1..Len(added) : added[j].at = stub.headers + (n + (j - 1)) * HeaderBytes
    BY DEF HeadInv, HeaderPlace
  <2> HIDE DEF n
  <2>7. ASSUME NEW j \in 1..Len(added)
        PROVE  /\ (n + (j - 1)) * HeaderBytes \in Nat
               /\ added[j].at + HeaderBytes = stub.headers + (n + j) * HeaderBytes
    <3>1. j \in Nat \ {0} /\ n + (j - 1) \in Nat /\ n + j = (n + (j - 1)) + 1
      BY <2>1
    <3>2. ((n + (j - 1)) + 1) * HeaderBytes = (n + (j - 1)) * HeaderBytes + HeaderBytes
      BY <2>5, <3>1
    <3>3. (n + (j - 1)) * HeaderBytes \in Nat
      BY <2>5, <3>1
    <3> DEFINE m == (n + (j - 1)) * HeaderBytes
    <3>4. added[j].at = stub.headers + m /\ (n + j) * HeaderBytes = m + HeaderBytes /\ m \in Nat
      BY <2>6, <3>1, <3>2, <3>3
    <3> HIDE DEF m
    <3>5. added[j].at + HeaderBytes = stub.headers + (m + HeaderBytes)
      BY <2>5, <3>4
    <3> QED
      BY <3>3, <3>4, <3>5
  <2>8. stub.headers + n * HeaderBytes <= added[i].at
    <3>1. n * HeaderBytes <= (n + (i - 1)) * HeaderBytes /\ n * HeaderBytes \in Nat
      BY <2>1, <2>2, <2>5, TimesGrow
    <3> QED
      BY <2>5, <2>6, <2>7, <3>1
  <2>9. ASSUME NEW j \in 1..(i - 1) PROVE added[j].at + HeaderBytes <= added[i].at
    <3>1. j \in 1..Len(added) /\ n + j \in Nat /\ n + (i - 1) \in Nat /\ n + j <= n + (i - 1)
      BY <2>1, <2>2
    <3>2. (n + j) * HeaderBytes <= (n + (i - 1)) * HeaderBytes /\ (n + j) * HeaderBytes \in Nat
      BY <2>5, <3>1, TimesGrow
    <3> QED
      BY <2>5, <2>6, <2>7, <3>1, <3>2
  <2>10. added[i].at + HeaderBytes <= stub.room /\ added[i].at + HeaderBytes \in Nat
    <3>1. n + i \in Nat /\ n + Len(payload) \in Nat /\ n + i <= n + Len(payload)
      BY <2>1, <2>2, <2>4
    <3>2. (n + i) * HeaderBytes <= (n + Len(payload)) * HeaderBytes /\ (n + i) * HeaderBytes \in Nat
          /\ (n + Len(payload)) * HeaderBytes \in Nat
      BY <2>5, <3>1, TimesGrow
    <3>3. stub.headers + (n + Len(payload)) * HeaderBytes <= stub.room
      BY <2>4 DEF HasRoom, n
    <3>4. added[i].at + HeaderBytes = stub.headers + (n + i) * HeaderBytes
      BY <2>7
    <3> QED
      BY <2>5, <3>2, <3>3, <3>4
  <2>11. ASSUME NEW k \in 1..n, stub.sections[k].raw_size > 0
         PROVE  added[i].at + HeaderBytes <= stub.sections[k].raw_ptr
    <3>1. stub.room <= stub.sections[k].raw_ptr /\ stub.sections[k].raw_ptr \in Nat
      BY <2>11 DEF HeadInv, n
    <3> QED
      BY <2>5, <2>10, <3>1
  <2>12. ASSUME InBounds, NEW j \in 1..Len(chunks) PROVE added[i].at + HeaderBytes <= chunks[j].lo
    <3>1. stub.len <= chunks[j].lo /\ chunks[j].lo \in Nat /\ stub.room <= stub.len
      BY <2>12 DEF HeadInv
    <3> QED
      BY <2>5, <2>10, <3>1
  <2> QED
    BY <2>8, <2>9, <2>11, <2>12 DEF n
<1>2. UkiInv /\ UkiInv' /\ HeadInv /\ [UkiNext]_ukiVars => HeadInv'
  BY HeadStep
<1> QED
  BY <1>1, <1>2, HeadInit, UkiInvariant, PTL DEF UkiSpec

-----------------------------------------------------------------------------
(* The refinement by neet-uki.                                             *)

LEMMA SeqOfFun ==
  ASSUME NEW n \in Nat, NEW f, f = [i \in 1..n |-> f[i]]
  PROVE  Len(f) = n /\ (f = <<>> <=> n = 0)
<1> DEFINE U == {f[i] : i \in 1..n}
<1>1. f \in [1..n -> U]
  OBVIOUS
<1> HIDE DEF U
<1>2. f \in Seq(U)
  BY <1>1
<1>3. DOMAIN f = 1..n
  BY <1>1
<1>4. Len(f) = n
  BY <1>2, <1>3
<1>5. ASSUME NEW S, NEW s \in Seq(S) PROVE s = <<>> <=> Len(s) = 0
  OBVIOUS
<1> QED
  BY <1>2, <1>4, <1>5

MemRanges(a, n) == [i \in 1..n |-> [lo |-> a[i].v_addr, hi |-> a[i].v_addr + a[i].v_size]]

FileRanges(a, n) == [i \in 1..n |-> [lo |-> a[i].raw_ptr, hi |-> a[i].raw_ptr + a[i].raw_size]]

LEMMA RangesHave ==
  ASSUME NEW a, NEW n \in Nat
  PROVE  /\ Len(MemRanges(a, n)) = n /\ (MemRanges(a, n) = <<>> <=> n = 0)
         /\ Len(FileRanges(a, n)) = n /\ (FileRanges(a, n) = <<>> <=> n = 0)
         /\ \A i \in 1..n :
              /\ MemRanges(a, n)[i] = [lo |-> a[i].v_addr, hi |-> a[i].v_addr + a[i].v_size]
              /\ FileRanges(a, n)[i] = [lo |-> a[i].raw_ptr, hi |-> a[i].raw_ptr + a[i].raw_size]
<1>1. MemRanges(a, n) = [i \in 1..n |-> MemRanges(a, n)[i]]
  BY DEF MemRanges
<1>2. FileRanges(a, n) = [i \in 1..n |-> FileRanges(a, n)[i]]
  BY DEF FileRanges
<1> QED
  BY <1>1, <1>2, SeqOfFun DEF MemRanges, FileRanges

MemArena == [base |-> MemoryEnd, limit |-> Word]

FileArena == [base |-> stub.len, limit |-> Word]

LEMMA ArenasAre ==
  ASSUME Readable
  PROVE  MemArena \in [base : Int, limit : Int] /\ FileArena \in [base : Int, limit : Int]
<1>1. MemoryEnd \in Int /\ Word \in Int /\ stub.len \in Int
  BY MemoryEndIs DEF Readable
<1> QED
  BY <1>1 DEF MemArena, FileArena

\* Every step adds one more range, begins another layout, or changes neither.
LEMMA UkiStepPlaces ==
  ASSUME UkiInv, UkiInv', [UkiNext]_ukiVars
  PROVE  /\ [InMemory!Place \/ InMemory!Clear]_(InMemory!placementVars)
         /\ [InFile!Place \/ InFile!Clear]_(InFile!placementVars)
<1> DEFINE m == MemRanges(added, Kept)
           f == FileRanges(added, Kept)
<1> SUFFICES
      /\ InMemory!Place \/ InMemory!Clear \/ UNCHANGED <<MemArena, m>>
      /\ InFile!Place \/ InFile!Clear \/ UNCHANGED <<FileArena, f>>
  BY DEF InMemory!placementVars, InFile!placementVars, MemArena, FileArena, MemRanges, FileRanges
<1>1. ASSUME UNCHANGED <<stub, payload, added>>
      PROVE  UNCHANGED <<MemArena, m>> /\ UNCHANGED <<FileArena, f>>
  <2>1. MemoryEnd' = MemoryEnd /\ InBounds' = InBounds
    BY <1>1, SameStub
  <2>2. Kept' = Kept
    BY <1>1, <2>1 DEF Kept
  <2> QED
    BY <1>1, <2>1, <2>2 DEF MemArena, FileArena, MemRanges, FileRanges
<1>2. ASSUME NEW s \in Stubs, NEW lengths \in Payloads, Read(s, lengths)
      PROVE  InMemory!Clear /\ InFile!Clear
  <2>1. added' = <<>> /\ Len(<<>>) = 0
    BY <1>2 DEF Read
  <2>2. Kept' = 0
    BY <2>1 DEF Kept
  <2>3. m' = <<>> /\ f' = <<>>
    <3>1. MemRanges(added', 0) = <<>> /\ FileRanges(added', 0) = <<>>
      BY RangesHave
    <3> QED
      BY <2>2, <3>1
  <2>4. (MemArena \in [base : Int, limit : Int])' /\ (FileArena \in [base : Int, limit : Int])'
    BY ArenasAre, PTL DEF UkiInv
  <2> QED
    BY <2>3, <2>4 DEF InMemory!Clear, InFile!Clear, InMemory!Arena, InFile!Arena, MemArena, FileArena,
                      MemRanges, FileRanges
<1>3. ASSUME Add, InBounds
      PROVE  InMemory!Place /\ InFile!Place
  <2>0. PICK k \in Nat : k = Len(added)
    BY AppendIs DEF UkiInv
  <2> DEFINE at == stub.headers + (Len(stub.sections) + k) * HeaderBytes
             bytes == payload[k + 1]
             size == Rounded(bytes, stub.file_align)
             new == [at |-> at, v_addr |-> vma, v_size |-> bytes, raw_ptr |-> raw, raw_size |-> size]
  <2>1. /\ bytes \in Nat /\ size \in Nat /\ bytes <= size
        /\ added' = Append(added, new)
        /\ vma \in Nat /\ raw \in Nat /\ vma' \in Nat
        /\ vma + bytes <= vma' /\ raw' = raw + size
        /\ MemoryEnd <= vma /\ stub.len <= raw /\ vma' < Word /\ raw' < Word
    BY <1>3, <2>0, AddIs
  <2>2. new.v_addr = vma /\ new.v_size = bytes /\ new.raw_ptr = raw /\ new.raw_size = size
    OBVIOUS
  <2>3. stub' = stub /\ payload' = payload /\ phase = "add"
    BY <1>3 DEF Add
  <2> HIDE DEF new, size, bytes
  <2>4. Len(added') = k + 1 /\ added'[k + 1] = new /\ \A i \in 1..k : added'[i] = added[i]
    BY <2>0, <2>1, AppendIs DEF UkiInv
  <2>5. MemoryEnd' = MemoryEnd /\ InBounds'
    BY <1>3, <2>3, SameStub
  <2>6. Kept = k /\ Kept' = k + 1
    BY <1>3, <2>0, <2>4, <2>5 DEF Kept
  <2>7. MemArena' = MemArena /\ FileArena' = FileArena
    BY <2>3, <2>5 DEF MemArena, FileArena
  <2>8. Word \in Nat /\ MemoryEnd \in Nat /\ stub.len \in Nat /\ \A i \in 1..k : Holds(i)
    BY <1>3, <2>0, <2>3, MemoryEndIs DEF UkiInv, Readable, Adding
  <2> DEFINE t == MemRanges(added', k + 1)
             r == MemRanges(added, k)
             u == FileRanges(added', k + 1)
             q == FileRanges(added, k)
  <2>9. /\ Len(r) = k /\ Len(t) = k + 1 /\ (r = <<>> <=> k = 0)
        /\ Len(q) = k /\ Len(u) = k + 1 /\ (q = <<>> <=> k = 0)
        /\ \A i \in 1..k : r[i] = [lo |-> added[i].v_addr, hi |-> added[i].v_addr + added[i].v_size]
        /\ \A i \in 1..k : q[i] = [lo |-> added[i].raw_ptr, hi |-> added[i].raw_ptr + added[i].raw_size]
    <3>1. k \in Nat /\ k + 1 \in Nat
      BY <2>0
    <3>2. Len(t) = k + 1 /\ Len(u) = k + 1
      BY <3>1, RangesHave
    <3>3. /\ Len(r) = k /\ (r = <<>> <=> k = 0) /\ Len(q) = k /\ (q = <<>> <=> k = 0)
          /\ \A i \in 1..k : r[i] = [lo |-> added[i].v_addr, hi |-> added[i].v_addr + added[i].v_size]
          /\ \A i \in 1..k : q[i] = [lo |-> added[i].raw_ptr, hi |-> added[i].raw_ptr + added[i].raw_size]
      BY <3>1, RangesHave
    <3> QED
      BY <3>2, <3>3
  <2>10. \A i \in 1..(k + 1) :
           /\ t[i] = [lo |-> added'[i].v_addr, hi |-> added'[i].v_addr + added'[i].v_size]
           /\ u[i] = [lo |-> added'[i].raw_ptr, hi |-> added'[i].raw_ptr + added'[i].raw_size]
    <3>1. k + 1 \in Nat
      BY <2>0
    <3> QED
      BY <3>1, RangesHave
  <2>11. \A i \in 1..k : t[i] = r[i] /\ u[i] = q[i]
    <3>1. \A i \in 1..k : i \in 1..(k + 1)
      BY <2>0
    <3> QED
      BY <2>4, <2>9, <2>10, <3>1
  <2>12. t[k + 1] = [lo |-> vma, hi |-> vma + bytes] /\ u[k + 1] = [lo |-> raw, hi |-> raw + size]
    <3>1. k + 1 \in 1..(k + 1)
      BY <2>0
    <3> QED
      BY <2>2, <2>4, <2>10, <3>1
  <2>13. (k # 0 => r[k].hi <= vma) /\ (k # 0 => q[k].hi <= raw)
    <3> SUFFICES ASSUME k # 0 PROVE r[k].hi <= vma /\ q[k].hi <= raw
      OBVIOUS
    <3>1. k \in 1..k
      BY <2>0
    <3>2. /\ added[k].v_addr + added[k].v_size <= vma
          /\ added[k].raw_ptr + added[k].raw_size <= raw
      BY <2>8, <3>1 DEF Holds
    <3> QED
      BY <2>9, <3>1, <3>2
  <2> HIDE DEF t, r, u, q
  <2>14. /\ Len(t) = Len(r) + 1 /\ \A i \in 1..Len(r) : t[i] = r[i]
         /\ t[Len(r) + 1] \in [lo : Int, hi : Int]
         /\ (IF r = <<>> THEN MemArena.base ELSE r[Len(r)].hi) <= t[Len(r) + 1].lo
         /\ t[Len(r) + 1].lo + 0 <= t[Len(r) + 1].hi /\ t[Len(r) + 1].hi <= MemArena.limit
    <3>1. MemArena.base = MemoryEnd /\ MemArena.limit = Word
      BY DEF MemArena
    <3>2. vma + bytes <= Word /\ vma + 0 <= vma + bytes /\ vma \in Int /\ vma + bytes \in Int
      BY <2>1, <2>8
    <3>3. t[k + 1].lo = vma /\ t[k + 1].hi = vma + bytes /\ t[k + 1] \in [lo : Int, hi : Int]
      BY <2>12, <3>2
    <3>4. (IF r = <<>> THEN MemArena.base ELSE r[Len(r)].hi) <= vma
      BY <2>1, <2>9, <2>13, <3>1
    <3> QED
      BY <2>9, <2>11, <3>1, <3>2, <3>3, <3>4
  <2>15. /\ Len(u) = Len(q) + 1 /\ \A i \in 1..Len(q) : u[i] = q[i]
         /\ u[Len(q) + 1] \in [lo : Int, hi : Int]
         /\ (IF q = <<>> THEN FileArena.base ELSE q[Len(q)].hi) <= u[Len(q) + 1].lo
         /\ u[Len(q) + 1].lo + 0 <= u[Len(q) + 1].hi /\ u[Len(q) + 1].hi <= FileArena.limit
    <3>1. FileArena.base = stub.len /\ FileArena.limit = Word
      BY DEF FileArena
    <3>2. raw + size <= Word /\ raw + 0 <= raw + size /\ raw \in Int /\ raw + size \in Int
      BY <2>1, <2>8
    <3>3. u[k + 1].lo = raw /\ u[k + 1].hi = raw + size /\ u[k + 1] \in [lo : Int, hi : Int]
      BY <2>12, <3>2
    <3>4. (IF q = <<>> THEN FileArena.base ELSE q[Len(q)].hi) <= raw
      BY <2>1, <2>9, <2>13, <3>1
    <3> QED
      BY <2>9, <2>11, <3>1, <3>2, <3>3, <3>4
  <2>16. r = m /\ t = m' /\ q = f /\ u = f'
    BY <2>6 DEF r, t, q, u
  <2>17. InMemory!Place
    BY <2>7, <2>14, <2>16 DEF InMemory!Place, InMemory!Free, MemArena, MemRanges
  <2>18. InFile!Place
    BY <2>7, <2>15, <2>16 DEF InFile!Place, InFile!Free, FileArena, FileRanges
  <2> QED
    BY <2>17, <2>18
<1>4. ASSUME Add, ~InBounds PROVE UNCHANGED <<MemArena, m>> /\ UNCHANGED <<FileArena, f>>
  <2>1. stub' = stub /\ payload' = payload
    BY <1>4 DEF Add
  <2>2. MemoryEnd' = MemoryEnd /\ ~InBounds'
    BY <1>4, <2>1, SameStub
  <2>3. Kept = 0 /\ Kept' = 0
    BY <1>4, <2>2 DEF Kept
  <2>4. \A a : MemRanges(a, 0) = <<>> /\ FileRanges(a, 0) = <<>>
    BY RangesHave
  <2> QED
    BY <2>1, <2>2, <2>3, <2>4 DEF MemArena, FileArena
<1> QED
  BY <1>1, <1>2, <1>3, <1>4 DEF UkiNext, ukiVars, Scan, NoRoom, Pad, Write

LEMMA UkiInitPlaces == UkiInit => InMemory!Spec!1 /\ InFile!Spec!1
<1> SUFFICES ASSUME UkiInit PROVE InMemory!Spec!1 /\ InFile!Spec!1
  OBVIOUS
<1>1. UkiInv /\ added = <<>> /\ Len(<<>>) = 0
  BY UkiInitInv DEF UkiInit
<1>2. Kept = 0
  BY <1>1 DEF Kept
<1>3. MemRanges(added, Kept) = <<>> /\ FileRanges(added, Kept) = <<>>
  BY <1>2, RangesHave
<1>4. MemArena \in [base : Int, limit : Int] /\ FileArena \in [base : Int, limit : Int]
  BY <1>1, ArenasAre DEF UkiInv
<1> QED
  BY <1>3, <1>4 DEF InMemory!Spec, InFile!Spec, InMemory!Arena, InFile!Arena, MemArena, FileArena,
                    MemRanges, FileRanges

\* neet-uki implements Placement twice: below 4 GiB the sections added lie one behind
\* the other, in memory behind every section of the stub, in whatever order it has
\* them, and in the file behind all of it (main.rs:197-276).
THEOREM UkiRefines == UkiSpec => UkiPlaces
<1>1. UkiInit => InMemory!Spec!1 /\ InFile!Spec!1
  BY UkiInitPlaces
<1>2. UkiInv /\ UkiInv' /\ [UkiNext]_ukiVars =>
        /\ [InMemory!Place \/ InMemory!Clear]_(InMemory!placementVars)
        /\ [InFile!Place \/ InFile!Clear]_(InFile!placementVars)
  BY UkiStepPlaces
<1> QED
  BY <1>1, <1>2, UkiInvariant, PTL DEF UkiSpec, UkiPlaces, InMemory!Spec, InFile!Spec

=============================================================================
