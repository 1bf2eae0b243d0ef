----------------------------- MODULE Placement ------------------------------
(***************************************************************************)
(* What a program promises that lays out one range after another in an     *)
(* arena: each begins at or after the end of the one before, has at least  *)
(* the least size, and ends within the arena.  DiskLayout (partitions on a *)
(* disk, none empty) and UkiLayout (sections in memory and in the file)    *)
(* implement it.                                                           *)
(***************************************************************************)
EXTENDS Integers, Sequences

CONSTANT Least   \* the least size of a range

VARIABLES
  arena,       \* [base, limit]: the first place, and the first after the last
  placed       \* the sequence of ranges [lo, hi), hi excluded

placementVars == <<arena, placed>>

Arena == [base : Int, limit : Int]

Free == IF placed = <<>> THEN arena.base ELSE placed[Len(placed)].hi

(* One more range comes behind the others. *)
Place ==
  /\ Len(placed') = Len(placed) + 1
  /\ \A i \in 1..Len(placed) : placed'[i] = placed[i]
  /\ LET new == placed'[Len(placed) + 1]
     IN  /\ new \in [lo : Int, hi : Int]
         /\ Free <= new.lo /\ new.lo + Least <= new.hi /\ new.hi <= arena.limit
  /\ arena' = arena

(* Another layout begins, perhaps in another arena. *)
Clear == placed' = <<>> /\ arena' \in Arena

Spec == (placed = <<>> /\ arena \in Arena) /\ [][Place \/ Clear]_placementVars

-----------------------------------------------------------------------------
(* What follows from it: ranges are disjoint, in order and within. *)
Disjoint ==
  /\ \A i, j \in 1..Len(placed) : i < j => placed[i].hi <= placed[j].lo
  /\ \A i \in 1..Len(placed) : arena.base <= placed[i].lo /\ placed[i].hi <= arena.limit
=============================================================================
