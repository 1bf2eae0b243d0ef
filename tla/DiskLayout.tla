----------------------------- MODULE DiskLayout -----------------------------
(***************************************************************************)
(* compute_layout of disk-setup: where the partitions of a disk lie.       *)
(*                                                                         *)
(* Sizes are rounded up to Align and laid one after the other, in u64      *)
(* arithmetic that wraps at Wide.  A size is [rest, bytes]; parse_size has *)
(* turned "4G" into bytes and "100%" into rest.                            *)
(***************************************************************************)
EXTENDS Integers, Sequences

CONSTANTS
  Align,       \* ALIGN, 1 MiB
  GptTail,     \* GPT_TAIL_SECTORS
  Wide         \* u64 arithmetic is modulo Wide

ASSUME LayoutAssumption ==
  /\ Wide \in Nat \ {0} /\ GptTail \in Nat
  /\ Align \in 1..(Wide - 1) /\ Wide % Align = 0

VARIABLES
  disk,        \* the request: [total, sector, sizes]
  cur,         \* where the next partition begins, in bytes
  extents,     \* the partitions so far: [start_sector, end_sector], inclusive
  verdict      \* "new", "placing", "ok" or "error"

layoutVars == <<disk, cur, extents, verdict>>

RoundUp(n) == (((n + Align - 1) \div Align) * Align) % Wide

Supported == disk.sector # 0 /\ Align % disk.sector = 0

TotalSectors == disk.total \div disk.sector

LargeEnough == TotalSectors > GptTail + (2 * Align) \div disk.sector

(* The first byte behind what may be used. *)
Limit == (((TotalSectors - GptTail) * disk.sector) \div Align) * Align

OpenDisk ==
  /\ verdict = "new"
  /\ IF Supported /\ LargeEnough THEN verdict' = "placing" ELSE verdict' = "error"
  /\ cur' = Align
  /\ UNCHANGED <<disk, extents>>

Number == Len(extents) + 1

Size == disk.sizes[Number]

End == IF Size.rest THEN Limit ELSE (cur + RoundUp(Size.bytes)) % Wide

(* Mutant: the check on the limit alone. *)
FitsBelow == (Size.rest => Number = Len(disk.sizes)) /\ End <= Limit

Fits ==
  /\ Size.rest => Number = Len(disk.sizes)
  /\ End <= Limit /\ End > cur

(* Mutant: takes the end for inclusive. *)
PlaceInclusive ==
  /\ verdict = "placing" /\ Number <= Len(disk.sizes)
  /\ IF Fits
     THEN /\ extents' = Append(extents, [start_sector |-> cur \div disk.sector,
                                         end_sector |-> End \div disk.sector])
          /\ cur' = End
          /\ UNCHANGED verdict
     ELSE verdict' = "error" /\ UNCHANGED <<extents, cur>>
  /\ UNCHANGED disk

PlacePartition ==
  /\ verdict = "placing" /\ Number <= Len(disk.sizes)
  /\ IF Fits
     THEN /\ extents' = Append(extents, [start_sector |-> cur \div disk.sector,
                                         end_sector |-> End \div disk.sector - 1])
          /\ cur' = End
          /\ UNCHANGED verdict
     ELSE verdict' = "error" /\ UNCHANGED <<extents, cur>>
  /\ UNCHANGED disk

LayoutDone ==
  /\ verdict = "placing" /\ Number > Len(disk.sizes)
  /\ verdict' = "ok"
  /\ UNCHANGED <<disk, cur, extents>>

(* The program runs for a plan and a disk. *)
Request(total, sector, sizes) ==
  /\ disk' = [total |-> total, sector |-> sector, sizes |-> sizes]
  /\ cur' = 0 /\ extents' = <<>> /\ verdict' = "new"

Layout == OpenDisk \/ PlacePartition \/ LayoutDone

LayoutIdle ==
  /\ disk = [total |-> 0, sector |-> 0, sizes |-> <<>>]
  /\ cur = 0 /\ extents = <<>> /\ verdict = "error"

AnyRequest ==
  \E total, sector \in Nat : \E sizes \in Seq([rest : BOOLEAN, bytes : 1..(Wide - 1)]) :
    total < Wide /\ Request(total, sector, sizes)

LayoutSpec == LayoutIdle /\ [][Layout \/ AnyRequest]_layoutVars

-----------------------------------------------------------------------------
(* compute_layout implements Placement, in sectors. *)
Sectors == INSTANCE Placement WITH
  Least  <- 1,
  arena  <- [base  |-> IF Supported THEN Align \div disk.sector ELSE 0,
             limit |-> IF Supported THEN Limit \div disk.sector ELSE 0],
  placed <- [i \in 1..Len(extents) |-> [lo |-> extents[i].start_sector,
                                        hi |-> extents[i].end_sector + 1]]

(* The partitions lie in order on the disk, none is empty and none reaches
   into another or into the tail, whatever was asked for: sizes that wrap
   around as well (layout.rs:81). *)
LayoutPlaces == Sectors!Spec

(* What a size takes when numbers have no bound; rest takes something. *)
Needs(size) == IF size.rest THEN Align ELSE ((size.bytes + Align - 1) \div Align) * Align

SumTo(n) ==
  LET sum[i \in 0..n] == IF i = 0 THEN Align ELSE sum[i - 1] + Needs(disk.sizes[i])
  IN  sum[n]

SizesAsAsked ==
  verdict = "ok" => \A i \in 1..Len(extents) :
    LET bytes == (extents[i].end_sector - extents[i].start_sector + 1) * disk.sector
    IN  IF disk.sizes[i].rest THEN extents[i].end_sector + 1 = Limit \div disk.sector
                              ELSE bytes = Needs(disk.sizes[i])

RefusedWithReason ==
  verdict = "error" /\ Supported /\ LargeEnough =>
    \/ \E i \in 1..(Len(disk.sizes) - 1) : disk.sizes[i].rest
    \/ SumTo(Len(disk.sizes)) > Limit

(* A plan is accepted if it fits and refused if it does not, and each partition
   has the size that was asked for, rounded up (layout.rs:70-90). *)
GetsItsSize == SizesAsAsked /\ RefusedWithReason
=============================================================================
