------------------------------- MODULE RootReset -------------------------------
(***************************************************************************)
(* resetOnBoot: what stage 1 does, at every boot, to the btrfs subvolumes  *)
(* that have to come up empty.                                             *)
(*                                                                         *)
(* Before it mounts such a subvolume neet-mount moves it to old_roots,     *)
(* under the next number, creates an empty one in its place and deletes    *)
(* the oldest of the moved ones until keepOldRoots are left. A subvolume   *)
(* in which nix/store is found is not touched and the boot ends in the     *)
(* rescue shell. The machine may go down between any two steps; it then    *)
(* boots again and starts over with what it finds.                         *)
(***************************************************************************)
EXTENDS Integers, FiniteSets

CONSTANTS
  Subvols,   \* the subvolumes with resetOnBoot = true
  Root,      \* the one that is mounted at /
  Stores,    \* the directories under old_roots
  StoreOf,   \* the one a subvolume is moved to: its path with "/" turned into "_"
  Keep,      \* keepOldRoots of each subvolume
  NixMount,  \* where the plan mounts the Nix store: "/nix", "/nix/store" or nowhere ("none")
  Faults,    \* a btrfs command, a rename or a mount may fail
  MaxSeq,    \* BOUND on the numbers in a store, and on how often a subvolume is moved
  None

ASSUME ResetAssumption ==
  /\ Root \in Subvols
  /\ StoreOf \in [Subvols -> Stores]
  /\ Keep \in [Subvols -> Nat]
  /\ NixMount \in {"/nix", "/nix/store", "none"}
  /\ Faults \in BOOLEAN
  /\ MaxSeq \in Nat

VARIABLES
  place,    \* what is at a subvolume's path
  old,      \* old_roots/<store>/<number>
  pc,       \* where the boot is
  todo,     \* the subvolumes this boot still has to reset and mount
  cur,      \* the subvolume being reset
  doomed,   \* the numbers the present pruning still has to delete
  moved,    \* history: how often each subvolume has been moved away
  fresh,    \* history: the subvolumes created in this boot
  spared    \* history: a deletion of this boot failed

vars == <<place, old, pc, todo, cur, doomed, moved, fresh, spared>>

Seqs == 1 .. MaxSeq

\* What a path holds: no subvolume, one without nix/store, one with an empty
\* nix/store made as a mount point, or one with the Nix store itself in it.
Places == {"missing", "plain", "mountpoint", "store"}

\* A subvolume that was moved away: whose it was, the how-manieth, whether all of
\* it is still there.
OldRoot == [of : Subvols, nth : 1 .. MaxSeq, whole : BOOLEAN]
ASSUME RootAssumption == \A o \in OldRoot : o # None

TypeOK ==
  /\ place \in [Subvols -> Places]
  /\ old \in [Stores -> [Seqs -> OldRoot \cup {None}]]
  /\ pc \in {"off", "reset", "create", "prune", "up", "rescue"}
  /\ todo \subseteq Subvols
  /\ cur \in Subvols \cup {None}
  /\ doomed \subseteq Seqs
  /\ moved \in [Subvols -> 0 .. MaxSeq]
  /\ fresh \subseteq Subvols
  /\ spared \in BOOLEAN

-----------------------------------------------------------------------------
Generations(st) == {s \in Seqs : old[st][s] # None}

\* A plausible bug: counting the old roots instead of going on from the newest.
NextSeqByCount(S) == Cardinality(S) + 1
NextSeq(S) == IF S = {} THEN 1 ELSE 1 + (CHOOSE m \in S : \A s \in S : s <= m)

\* A plausible bug: one too many is left.
PruneOneLess(S, keep) == {s \in S : Cardinality({t \in S : t > s}) > keep}
\* A plausible bug: the newest go instead of the oldest.
PruneNewest(S, keep) == {s \in S : Cardinality({t \in S : t < s}) >= keep}
\* A plausible bug: the number keep behind the newest, whether there is one or not.
PruneByNumber(S, keep) == {NextSeq(S) - 1 - keep}
PruneCandidates(S, keep) == {s \in S : Cardinality({t \in S : t > s}) >= keep}

Oldest(s) == s \in doomed /\ \A t \in doomed : s <= t

-----------------------------------------------------------------------------
Boot ==
  /\ pc = "off" /\ pc' = "reset"
  /\ todo' = Subvols /\ fresh' = {} /\ spared' = FALSE
  /\ UNCHANGED <<place, old, cur, doomed, moved>>

\* guard_and_rotate: nix/store is there, whatever it is.
Refuse(v) ==
  /\ pc = "reset" /\ v \in todo /\ pc' = "rescue"
  /\ place[v] \in {"mountpoint", "store"}
  /\ UNCHANGED <<place, old, todo, cur, doomed, moved, fresh, spared>>

\* rotate_and_recreate: the subvolume becomes the newest of its store ...
Rotate(v) ==
  /\ pc = "reset" /\ v \in todo /\ pc' = "create" /\ cur' = v
  /\ place[v] = "plain"
  /\ LET st == StoreOf[v]
         seq == NextSeq(Generations(st))
     IN /\ seq \in Seqs /\ moved[v] < MaxSeq
        /\ old' = [old EXCEPT ![st][seq] = [of |-> v, nth |-> moved[v] + 1, whole |-> TRUE]]
  /\ place' = [place EXCEPT ![v] = "missing"]
  /\ moved' = [moved EXCEPT ![v] = @ + 1]
  /\ UNCHANGED <<todo, doomed, fresh, spared>>

\* ... unless an earlier boot was cut short after that.
NothingToMove(v) ==
  /\ pc = "reset" /\ v \in todo /\ pc' = "create" /\ cur' = v
  /\ place[v] = "missing"
  /\ UNCHANGED <<place, old, todo, doomed, moved, fresh, spared>>

\* btrfs subvolume create. Only then is anything deleted.
Create ==
  /\ pc = "create" /\ pc' = "prune"
  /\ place' = [place EXCEPT ![cur] = "plain"]
  /\ fresh' = fresh \cup {cur}
  /\ doomed' = PruneCandidates(Generations(StoreOf[cur]), Keep[cur])
  /\ UNCHANGED <<old, todo, cur, moved, spared>>

\* delete_subvolume_recursive: the subvolumes inside it first ...
DeleteNested ==
  /\ pc = "prune"
  /\ \E s \in doomed : /\ Oldest(s)
                       /\ old[StoreOf[cur]][s].whole
                       /\ old' = [old EXCEPT ![StoreOf[cur]][s].whole = FALSE]
  /\ UNCHANGED <<place, pc, todo, cur, doomed, moved, fresh, spared>>

\* ... and then the root itself.
DeleteRoot ==
  /\ pc = "prune"
  /\ \E s \in doomed : /\ Oldest(s)
                       /\ old' = [old EXCEPT ![StoreOf[cur]][s] = None]
                       /\ doomed' = doomed \ {s}
  /\ UNCHANGED <<place, pc, todo, cur, moved, fresh, spared>>

\* A failed deletion is a warning: the boot goes on.
DeleteFails ==
  /\ Faults /\ pc = "prune"
  /\ \E s \in doomed : Oldest(s) /\ doomed' = doomed \ {s}
  /\ spared' = TRUE
  /\ UNCHANGED <<place, old, pc, todo, cur, moved, fresh>>

\* apply_plan mounts the subvolume and goes on with the next entry.
Mount ==
  /\ pc = "prune" /\ doomed = {} /\ pc' = "reset"
  /\ todo' = todo \ {cur} /\ cur' = None
  /\ UNCHANGED <<place, old, doomed, moved, fresh, spared>>

\* The rest of the plan is mounted. The mount point of the Nix store is made in
\* the new root when the plan mounts nothing at /nix.
Up ==
  /\ pc = "reset" /\ todo = {} /\ pc' = "up"
  /\ place' = IF NixMount = "/nix/store" THEN [place EXCEPT ![Root] = "mountpoint"] ELSE place
  /\ UNCHANGED <<old, todo, cur, doomed, moved, fresh, spared>>

\* A plausible bug: a subvolume that cannot be made is left out with a warning.
CreateSkipped ==
  /\ Faults /\ pc = "create" /\ pc' = "reset"
  /\ todo' = todo \ {cur} /\ cur' = None
  /\ UNCHANGED <<place, old, doomed, moved, fresh, spared>>

\* Everything else that fails in stage 1 is fatal.
StageFails ==
  /\ Faults /\ pc \in {"reset", "create", "prune"} /\ pc' = "rescue"
  /\ doomed' = {} /\ cur' = None
  /\ UNCHANGED <<place, old, todo, moved, fresh, spared>>

\* A shutdown, a reboot from the rescue shell, or an outage in the middle of a boot.
Off ==
  /\ pc # "off" /\ pc' = "off"
  /\ todo' = {} /\ doomed' = {} /\ cur' = None
  /\ UNCHANGED <<place, old, moved, fresh, spared>>

\* As the installation leaves the disk: it mounts the same plan, and so makes the
\* mount point of the Nix store, unless the subvolume was made by hand. Or as an
\* earlier configuration left it: with the store itself in the root.
Init ==
  /\ place \in [Subvols -> Places]
  /\ \A v \in Subvols : v # Root => place[v] = "plain"
  /\ place[Root] \in IF NixMount = "none" THEN {"store"} ELSE {"plain", "mountpoint", "store"}
  /\ old = [st \in Stores |-> [s \in Seqs |-> None]]
  /\ pc = "off" /\ todo = {} /\ cur = None /\ doomed = {}
  /\ moved = [v \in Subvols |-> 0]
  /\ fresh = {} /\ spared = FALSE

Next == \/ Boot \/ Create \/ DeleteNested \/ DeleteRoot \/ DeleteFails
        \/ Mount \/ Up \/ StageFails \/ Off
        \/ \E v \in Subvols : Refuse(v) \/ Rotate(v) \/ NothingToMove(v)

Spec == Init /\ [][Next]_vars

-----------------------------------------------------------------------------
(* Properties.                                                              *)

\* The last keepOldRoots subvolumes that were moved away are all there, with
\* everything in them, at every moment: a boot that is cut short or fails, however
\* often, deletes none of them.
RecentRootsKept ==
  \A v \in Subvols : \A n \in 1 .. moved[v] :
    moved[v] - n < Keep[v] =>
      \E s \in Seqs : old[StoreOf[v]][s] = [of |-> v, nth |-> n, whole |-> TRUE]

\* A machine that has come up, no deletion having failed on the way, keeps no more
\* old roots than it was told to, whatever earlier boots had left behind.
StoreIsBounded ==
  pc = "up" /\ ~spared => \A v \in Subvols : Cardinality(Generations(StoreOf[v])) <= Keep[v]

\* A machine that has come up runs on subvolumes made in this very boot: no file
\* of an earlier one is left in them, not after a failure either.
ComesUpFresh ==
  pc = "up" => fresh = Subvols /\ \A v \in Subvols : place[v] # "missing"

\* Nothing but a failure, or the Nix store in the root, sends a boot to the rescue shell.
BootsComeUp == ~Faults /\ place[Root] # "store" => pc # "rescue"
=============================================================================
