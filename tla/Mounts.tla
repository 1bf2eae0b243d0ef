-------------------------------- MODULE Mounts --------------------------------
(***************************************************************************)
(* How a machine comes by its file systems: the mount plan of stage 1      *)
(* (stage1-mount, in the initrd), the move into the new root, and the plan *)
(* of stage 2 (neet-activate).                                             *)
(*                                                                         *)
(* Both plans come from one configuration. Each is sorted (scaffolding     *)
(* first, then by depth and name, then so that `requires` is satisfied)    *)
(* and applied entry by entry. In stage 1 a mount that fails ends the boot *)
(* in the rescue shell; in stage 2 it is a warning, unless it is a bind    *)
(* mount or the loop device or the directories of an overlay could not be  *)
(* made: then init fails. Impermanence keeps directories of a volatile     *)
(* root by binding them from the persistent storage.                       *)
(***************************************************************************)
EXTENDS Integers, FiniteSets, Sequences

CONSTANTS
  Paths,     \* the paths the plans speak of
  Root,      \* "/"
  Persist,   \* impermanence.persistPath
  Nix,       \* "/nix" and "/nix/store"
  Api,       \* /proc, /sys and /dev, which stage 1 moves into the new root
  Above,     \* Above[p]: the paths p lies below
  Depth,     \* the number of components of a path
  Rank,      \* the place of a path in alphabetical order
  Plans,     \* the configurations
  None

Kinds == {"btrfs", "disk", "loop", "tmpfs", "overlay", "bind", "api"}

\* One entry of boot.fileSystems or boot.virtualFileSystems.
Entry == [kind     : Kinds,
          stage1   : BOOLEAN,             \* neededForBoot
          outside  : BOOLEAN,             \* initrdOnly: scaffolding, not below the new root
          reset    : BOOLEAN,             \* resetOnBoot
          requires : SUBSET Paths,
          from     : Paths \cup {None},   \* the source of a bind
          layers   : SUBSET Paths]        \* the scaffolding an overlay is made of

ASSUME PathAssumption ==
  /\ {Root, Persist} \cup Nix \cup Api \subseteq Paths
  /\ Above \in [Paths -> SUBSET Paths]
  /\ Depth \in [Paths -> Nat] /\ Rank \in [Paths -> Nat]
  /\ \A p \in Paths : /\ p # Root => Root \in Above[p]
                      /\ \A q \in Above[p] : Above[q] \subseteq Above[p] /\ Depth[q] < Depth[p]
                      /\ \A q \in Paths : Rank[p] = Rank[q] => p = q
  /\ None \notin Paths
ASSUME ApiAssumption == IsFiniteSet(Api) /\ \A p \in Api : Above[p] \cap Api = {}
ASSUME PlanAssumption ==
  /\ Plans \subseteq [Paths -> Entry \cup {None}] /\ None \notin Entry
  /\ \A q \in Plans, p \in Api : q[p] # None /\ q[p].stage1 /\ ~q[p].outside

VARIABLES
  plan,      \* the configuration: what is to be mounted at each path
  pc,        \* where the boot is
  todo,      \* the entries of the present plan that are still to come
  broken,    \* the entries whose mount fails in this boot
  scaffold,  \* the scaffolding that is mounted
  mounts,    \* what was mounted below the new root, in this order
  kept,      \* <<d, f>>: the data of directory d lies on the file system of entry f
  written    \* history: the directories that were ever written to

vars == <<plan, pc, todo, broken, scaffold, mounts, kept, written>>

\* A mounted file system: the entry its storage belongs to and, for a bind, the
\* mount in which its source was found.
Mounted == [at : Paths, fs : Paths \cup {None}, source : Nat]

\* Every variable has its type; what is scaffolding is mounted in the initrd and the
\* rest below the new root.
TypeOK ==
  /\ plan \in Plans
  /\ pc \in {"off", "stage1", "stage2", "up", "rescue", "panic"}
  /\ todo \subseteq Paths /\ broken \subseteq Paths
  /\ mounts \in Seq(Mounted)
  /\ \A i \in 1 .. Len(mounts) : plan[mounts[i].at] # None /\ ~plan[mounts[i].at].outside
  /\ \A p \in scaffold : plan[p] # None /\ plan[p].outside
  /\ kept \subseteq Paths \X (Paths \cup {None})
  /\ written \subseteq Paths

-----------------------------------------------------------------------------
(* The configuration.                                                       *)

Entries == {p \in Paths : plan[p] # None}
Dirs == {p \in Entries : plan[p].kind = "bind" /\ plan[p].from # None}
\* A plausible bug: outsideRoot is lost, as it is in the plan of stage 2.
OutsideLost(p) == FALSE
Outside(p) == plan[p].outside

\* stage1-mount-plan.json holds what is needed for boot, mount-plan.json all that is
\* not scaffolding. /proc, /sys and /dev are in the second only.
Stage1 == {p \in Entries : plan[p].stage1} \ Api
Stage2 == {p \in Entries : ~Outside(p)}

\* The assertions a configuration with impermanence has to satisfy.
Accepted(q) ==
  LET on(p) == q[p] # None IN
  /\ on(Root) /\ q[Root].kind \in {"tmpfs", "btrfs"}
  /\ q[Root].kind = "btrfs" => q[Root].reset
  /\ on(Persist) => ~q[Persist].reset /\ q[Persist].stage1
  /\ q[Root].kind = "tmpfs" => on(Persist)
  /\ \A p \in Paths : on(p) /\ q[p].kind = "bind" => p # Persist /\ Persist \notin Above[p]
  /\ q[Root].reset => \E p \in Nix : on(p)
  /\ \A p \in Nix : on(p) => ~q[p].reset
  /\ \A p \in Paths : on(p) /\ q[p].reset => q[p].stage1
Impermanent(q) == \E p \in Paths : q[p] # None /\ q[p].kind = "bind"

-----------------------------------------------------------------------------
(* The order of a plan.                                                     *)

\* `requires` is not part of the second plan.
Requires(p) == IF pc = "stage1" THEN plan[p].requires ELSE {}

\* A plausible bug: only unknown names are reported.
SortableIfKnown(S) == \A p \in S : plan[p].requires \subseteq S
\* Every requirement is in the plan and none goes round in a circle.
Sortable(S) ==
  /\ \A p \in S : plan[p].requires \subseteq S
  /\ ~\E T \in SUBSET S : T # {} /\ \A p \in T : plan[p].requires \cap T # {}

\* A plausible bug: the scaffolding is not put first.
BeforeByDepth(p, q) == Depth[p] < Depth[q] \/ (Depth[p] = Depth[q] /\ Rank[p] < Rank[q])
\* A plausible bug: the deepest first.
BeforeDeepest(p, q) == Depth[q] < Depth[p] \/ (Depth[p] = Depth[q] /\ Rank[p] < Rank[q])
Before(p, q) ==
  \/ Outside(p) /\ ~Outside(q)
  \/ Outside(p) = Outside(q) /\ Depth[p] < Depth[q]
  \/ Outside(p) = Outside(q) /\ Depth[p] = Depth[q] /\ Rank[p] < Rank[q]

Ready(p) == pc \in {"stage1", "stage2"} /\ p \in todo /\ Requires(p) \cap todo = {}
\* The entry that comes next.
Turn(p) == Ready(p) /\ \A q \in todo : Ready(q) /\ q # p => Before(p, q)

-----------------------------------------------------------------------------
(* The tree of mounts.                                                      *)

Upto(p) == Above[p] \cup {p}

\* The mount in which path p is found: the last one at p or above it, which hides
\* all that was mounted below it before. 0: none, p is in the initrd.
Cover(p) == CHOOSE i \in 0 .. Len(mounts) :
              /\ i # 0 => mounts[i].at \in Upto(p)
              /\ \A j \in i + 1 .. Len(mounts) : mounts[j].at \notin Upto(p)
FsAt(p) == IF Cover(p) = 0 THEN None ELSE mounts[Cover(p)].fs

Mount(at, fs, source) == Append(mounts, [at |-> at, fs |-> fs, source |-> source])
Volatile(p) == p = None \/ plan[p].kind \in {"tmpfs", "overlay", "api"}

-----------------------------------------------------------------------------
(* The boot.                                                                *)

\* load_plan sorts the whole plan before anything is mounted.
Boot ==
  /\ pc = "off" /\ pc' = IF Sortable(Stage1) THEN "stage1" ELSE "rescue"
  /\ broken' \in SUBSET (Entries \ Api)
  /\ todo' = Stage1
  /\ UNCHANGED <<plan, scaffold, mounts, kept, written>>

\* A plausible bug: both stages are lenient, as stage 2 has to be.
FatalBind(p) == plan[p].kind = "bind"
\* A plausible bug: a failing bind is as bad or good as any other mount.
FatalEarly(p) == pc = "stage1"
Fatal(p) == pc = "stage1" \/ plan[p].kind = "bind"

Fails(p) == p \in broken \/ ~(plan[p].layers \subseteq scaffold)
Applied(p) == todo' = todo \ {p}

\* A btrfs subvolume is reset right before it is mounted; resetOnBoot is in the plan
\* of stage 1 only.
Reset(p) == IF pc = "stage1" /\ plan[p].kind = "btrfs" /\ plan[p].reset
            THEN {k \in kept : k[2] # p} ELSE kept

MountFails(p) ==
  /\ Turn(p) /\ Fails(p) /\ ~(pc = "stage2" /\ plan[p].stage1) /\ Applied(p)
  /\ \/ ~Fatal(p) /\ pc' = pc
     \/ Fatal(p) /\ pc' = IF pc = "stage1" THEN "rescue" ELSE "panic"
     \/ pc = "stage2" /\ plan[p].kind \in {"loop", "overlay"} /\ pc' = "panic"
  /\ kept' \in {kept, Reset(p)}
  /\ UNCHANGED <<plan, broken, scaffold, mounts, written>>

MountScaffold(p) ==
  /\ Turn(p) /\ ~Fails(p) /\ Outside(p) /\ Applied(p)
  /\ scaffold' = scaffold \cup {p}
  /\ UNCHANGED <<plan, pc, broken, mounts, kept, written>>

MountFs(p) ==
  /\ Turn(p) /\ ~Fails(p) /\ ~Outside(p) /\ Applied(p)
  /\ pc = "stage2" => ~plan[p].stage1
  /\ plan[p].kind \in Kinds \ {"bind", "api"}
  /\ mounts' = Mount(p, p, 0)
  /\ kept' = Reset(p)
  /\ UNCHANGED <<plan, pc, broken, scaffold, written>>

\* The source of a bind is made where it is missing: it always is somewhere.
MountBind(p) ==
  /\ Turn(p) /\ ~Fails(p) /\ ~Outside(p) /\ Applied(p)
  /\ pc = "stage2" => ~plan[p].stage1
  /\ plan[p].kind = "bind"
  /\ mounts' = Mount(p, FsAt(plan[p].from), Cover(plan[p].from))
  /\ UNCHANGED <<plan, pc, broken, scaffold, kept, written>>

\* A plausible bug: what is mounted already is mounted again.
MountAgain(p) ==
  /\ Turn(p) /\ pc = "stage2" /\ plan[p].stage1 /\ Applied(p)
  /\ mounts' = Mount(p, p, 0)
  /\ UNCHANGED <<plan, pc, broken, scaffold, kept, written>>
\* alreadyMounted.
SkipMounted(p) ==
  /\ Turn(p) /\ pc = "stage2" /\ plan[p].stage1 /\ Applied(p)
  /\ UNCHANGED <<plan, pc, broken, scaffold, mounts, kept, written>>

\* stage1.sh: the root has to be there (one that cannot be written to counts as broken); /proc, /sys and /dev are moved into it.
SwitchRoot ==
  /\ pc = "stage1" /\ todo = {}
  /\ \E i \in 1 .. Len(mounts) : mounts[i].at = Root
  /\ pc' = "stage2" /\ todo' = Stage2
  /\ \E moved \in [1 .. Cardinality(Api) -> Api] :
       /\ \A i, j \in DOMAIN moved : i < j => Rank[moved[i]] < Rank[moved[j]]
       /\ mounts' = mounts \o [i \in DOMAIN moved |-> [at |-> moved[i], fs |-> moved[i], source |-> 0]]
  /\ UNCHANGED <<plan, broken, scaffold, kept, written>>

NoRoot ==
  /\ pc = "stage1" /\ todo = {} /\ pc' = "rescue"
  /\ \A i \in 1 .. Len(mounts) : mounts[i].at # Root
  /\ UNCHANGED <<plan, todo, broken, scaffold, mounts, kept, written>>

Up ==
  /\ pc = "stage2" /\ todo = {} /\ pc' = "up"
  /\ UNCHANGED <<plan, todo, broken, scaffold, mounts, kept, written>>

\* A service writes to a directory that is to be kept.
Write(d) ==
  /\ pc = "up" /\ d \in Dirs
  /\ kept' = kept \cup {<<d, FsAt(d)>>}
  /\ written' = written \cup {d}
  /\ UNCHANGED <<plan, pc, todo, broken, scaffold, mounts>>

\* A shutdown, an outage, a reboot from the rescue shell.
Off ==
  /\ pc # "off" /\ pc' = "off"
  /\ todo' = {} /\ broken' = {} /\ scaffold' = {} /\ mounts' = <<>>
  /\ kept' = {k \in kept : ~Volatile(k[2])}
  /\ UNCHANGED <<plan, written>>

Init ==
  /\ plan \in {q \in Plans : Impermanent(q) => Accepted(q)}
  /\ pc = "off" /\ todo = {} /\ broken = {} /\ scaffold = {} /\ mounts = <<>>
  /\ kept = {} /\ written = {}

EntryStep(p) == MountFails(p) \/ MountScaffold(p) \/ MountFs(p) \/ MountBind(p) \/ SkipMounted(p)
BootStep == SwitchRoot \/ NoRoot \/ Up \/ \E p \in Paths : EntryStep(p)
Next == Boot \/ BootStep \/ Off \/ \E d \in Paths : Write(d)

\* stage 1 and stage 2 are programs that run on while they can.
Spec == Init /\ [][Next]_vars /\ WF_vars(BootStep)

-----------------------------------------------------------------------------
(* Properties.                                                              *)

\* The plans the options are documented for (options.nix:50): `requires` orders
\* scaffolding; and what stage 1 mounts does not lie below something that comes later.
Orderly ==
  /\ \A p \in Entries : plan[p].requires \subseteq {q \in Entries : Outside(q)}
  /\ \A p \in Stage1 \cup Api : ~Outside(p) => Above[p] \cap Stage2 \subseteq Stage1

\* Whatever was mounted is found at its mount point: nothing that is mounted later
\* hides it, in neither stage.
NothingShadowed ==
  Orderly => \A i \in 1 .. Len(mounts) : Cover(mounts[i].at) = i

\* On a machine that is up each directory that is to be kept shows what lies at its
\* source on the persistent storage, and not something else of that name.
BindsReachTheirSource ==
  pc = "up" => \A d \in Dirs : Cover(d) # 0 /\ mounts[Cover(d)].source = Cover(plan[d].from)

\* What was written to a directory that is to be kept is there whenever the machine
\* is up again, however many boots failed or were cut short in between.
DataPersists ==
  pc = "up" => \A d \in written : <<d, FsAt(d)>> \in kept

\* A configuration that passes the checks and has its root in stage 1 boots when
\* nothing fails.
SoundPlansBoot ==
  broken = {} /\ Sortable(Stage1) /\ Root \in Stage1 => pc \notin {"rescue", "panic"}

\* A boot comes to an end: no entry waits for another one for ever.
BootEnds == (pc = "stage1") ~> (pc \in {"up", "rescue", "panic", "off"})
=============================================================================
