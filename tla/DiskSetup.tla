----------------------------- MODULE DiskSetup ------------------------------
(***************************************************************************)
(* disk-setup: format (a disk of this machine), mount, and image (a file). *)
(*                                                                         *)
(* A run lays the partitions out (DiskLayout) and then works through a     *)
(* list of commands, of which any may fail and end it; people run it again *)
(* with the same plan or another one.  What outlasts a run is the table on *)
(* the disk, the partitions that the kernel knows (they need not be those  *)
(* of the table), what was written through them, and an open LUKS mapping. *)
(*                                                                         *)
(* A partition is [size, kind, inner, mounts]: inner is what a LUKS        *)
(* container holds, mounts the mount points of the file system or of its   *)
(* subvolumes.  Labels, UUIDs, options, the temporary directories of btrfs *)
(* and the uevents are left out.  The disk of a plan is the one selected.  *)
(***************************************************************************)
EXTENDS DiskLayout, FiniteSetsExt, SequencesExt

CONSTANTS
  Device,        \* [total, sector] of the disk
  Plans,         \* plans: [parts, elsewhere], the latter the mount points of
                 \* the other disks of the plan
  ImagePlans,    \* those of which images are made
  DryRuns,       \* what else may be laid out: [total, sector, sizes]
  ImageSizes,    \* what --size-m asks for, in bytes
  ImageSector,   \* SECTOR of image.rs
  Trees,         \* what --tree may name: sequences of sets of files
  RereadFails    \* the kernel may refuse to read a table that nobody uses

VARIABLES
  program,       \* what runs or ran last: "format", "image", "dry" or "none"
  plan,          \* its plan
  force,         \* --force
  todo,          \* the commands still to come: [op, part]
  outcome,       \* "none", "running", "ok", "refused" or "failed"
  fault,         \* a command of this run has failed of itself
  held,          \* something was open or mounted when it began
  table,         \* the partition table on the disk
  nodes,         \* the partitions the kernel knows
  data,          \* data[i]: what was last written through node i, and where
  mapped,        \* the partition behind the open LUKS mapping, or 0
  mounted,       \* the partitions that are mounted
  trees,         \* the trees an image is made of
  image          \* the image: a table and files

diskVars == <<table, nodes, data, mapped, mounted>>
runVars == <<program, plan, force, fault, held, trees>>
vars == <<layoutVars, diskVars, runVars, todo, outcome, image>>

Parts == plan.parts

(* Content::mounts *)
MountsOf(p) == IF p.kind = "swap" THEN {} ELSE p.mounts

AllMountPoints(pl) == UNION {MountsOf(pl.parts[i]) : i \in DOMAIN pl.parts} \cup pl.elsewhere

(* Plan::validate *)
Valid(pl) ==
  /\ \A i \in DOMAIN pl.parts : pl.parts[i].size.rest => i = Len(pl.parts)
  /\ \A i, j \in DOMAIN pl.parts : i # j => MountsOf(pl.parts[i]) \cap MountsOf(pl.parts[j]) = {}
  /\ \A i \in DOMAIN pl.parts : MountsOf(pl.parts[i]) \cap pl.elsewhere = {}

-----------------------------------------------------------------------------
(* The commands.                                                           *)

Cmd(op, part) == [op |-> op, part |-> part]

FsCmds(i) ==
  <<Cmd("wipefs", i)>> \o
    CASE Parts[i].kind = "none" -> <<>>
      [] Parts[i].kind = "luks" -> <<Cmd("luksFormat", i), Cmd("open", i), Cmd("mkfs", i)>>
      [] OTHER                  -> <<Cmd("mkfs", i)>>

(* Mutant: writes the new table over the old one. *)
FormatCmdsOver ==
  <<Cmd("new", 0), Cmd("reread", 0), Cmd("wait", 0)>>
    \o FlattenSeq([i \in 1..Len(Parts) |-> FsCmds(i)])

FormatCmds ==
  <<Cmd("zap", 0), Cmd("new", 0), Cmd("reread", 0), Cmd("wait", 0)>>
    \o FlattenSeq([i \in 1..Len(Parts) |-> FsCmds(i)])

ImageCmds ==
  <<Cmd("zap", 0), Cmd("new", 0)>> \o [i \in 1..Len(Parts) |-> Cmd("fill", i)]

Part == Head(todo).part

(* What a command finds in its way: a number that exists cannot be made, any
   node of the name will do, and none writes to a node that something else has
   in use. *)
Able ==
  LET op == Head(todo).op
  IN  /\ op = "new" /\ program = "format" => table = <<>>
      /\ op = "wait" => Len(nodes) >= Len(Parts)
      /\ op \in {"wipefs", "luksFormat"} => mapped # Part
      /\ op = "open" => mapped = 0

Now(op) == outcome = "running" /\ todo # <<>> /\ Head(todo).op = op /\ Able

Does == todo' = Tail(todo) /\ UNCHANGED <<layoutVars, runVars, outcome>>

NoDisk == UNCHANGED <<diskVars, image>>

Busy == mapped # 0 \/ mounted # {}

(* The kernel takes over a table unless one of its partitions is in use.
   sgdisk asks for it as well when it ends, and ignores the answer. *)
TakesOver(t) == nodes' \in {nodes} \cup (IF Busy THEN {} ELSE {t})

Zap ==
  /\ program = "format" /\ Now("zap")
  /\ table' = <<>> /\ TakesOver(<<>>)
  /\ Does /\ UNCHANGED <<data, mapped, mounted, image>>

NewTable ==
  /\ program = "format" /\ Now("new")
  /\ table' = extents /\ TakesOver(extents)
  /\ Does /\ UNCHANGED <<data, mapped, mounted, image>>

(* Mutant: the kernel is not asked. *)
RereadNot == Now("reread") /\ Does /\ NoDisk

Reread ==
  /\ Now("reread")
  /\ IF Busy \/ RereadFails THEN TakesOver(table) ELSE nodes' = table
  /\ Does /\ UNCHANGED <<table, data, mapped, mounted, image>>

WaitFor ==
  /\ Now("wait")
  /\ Does /\ NoDisk

Written(what) == data' = [data EXCEPT ![Part] = [at |-> nodes[Part], what |-> what]]

Wipefs ==
  /\ Now("wipefs")
  /\ Written("blank")
  /\ Does /\ UNCHANGED <<table, nodes, mapped, mounted, image>>

LuksFormat ==
  /\ Now("luksFormat")
  /\ Written("luks")
  /\ Does /\ UNCHANGED <<table, nodes, mapped, mounted, image>>

LuksOpen ==
  /\ Now("open")
  /\ mapped' = Part
  /\ Does /\ UNCHANGED <<table, nodes, data, mounted, image>>

(* Inside of LUKS through the mapping. *)
Mkfs ==
  /\ Now("mkfs")
  /\ Written(IF Parts[Part].kind = "luks" THEN Parts[Part].inner ELSE Parts[Part].kind)
  /\ Does /\ UNCHANGED <<table, nodes, mapped, mounted, image>>

-----------------------------------------------------------------------------
(* The image.  A tree is the set of its files; paths are sequences of names. *)

Above(p, q) == IsStrictPrefix(p, q)

Nested(mp) == {m \in AllMountPoints(plan) : Above(mp, m)}

LastTree(f) == CHOOSE t \in DOMAIN trees : f \in trees[t] /\ \A u \in DOMAIN trees : u > t => f \notin trees[u]

AllFiles == UNION {trees[t] : t \in DOMAIN trees}

(* cp -a of every tree in turn. *)
Copied(c) == {<<f, LastTree(f)>> : f \in {g \in AllFiles : c = g \/ Above(c, g)}}

Children(d, nested) == {SubSeq(x, 1, Len(d) + 1) : x \in {y \in AllFiles \cup nested : Above(d, y)}}

(* Mutant: descends no further than to a mount point right below. *)
CarveShallow(mp) ==
  UNION {IF c \in Nested(mp) THEN {} ELSE Copied(c) : c \in Children(mp, Nested(mp))}

(* What build_dir puts into the file system mounted at mp.  A mount point
   below becomes an empty directory, what lies above one is walked through,
   and the rest is copied whole. *)
Carve(mp) ==
  LET nested == Nested(mp)
      dirs   == {mp} \cup UNION {Prefixes(n) : n \in nested}
      build[d \in dirs] ==
        UNION {IF \E n \in nested : Above(c, n) THEN build[c] ELSE Copied(c) :
                 c \in Children(d, nested) \ nested}
  IN  build[mp]

(* stage_content, and mkfs_cmds, which has no command for LUKS. *)
Content(p) ==
  IF p.kind \in {"swap", "luks", "none"} THEN {} ELSE UNION {{mp} \X Carve(mp) : mp \in p.mounts}

(* The image of an earlier run is another file, and forgotten. *)
NoImage == image' = [table |-> <<>>, files |-> <<>>]

ZapImage ==
  /\ program = "image" /\ Now("zap")
  /\ NoImage
  /\ Does /\ UNCHANGED diskVars

NewImage ==
  /\ program = "image" /\ Now("new")
  /\ image' = [table |-> extents, files |-> [i \in 1..Len(Parts) |-> {}]]
  /\ Does /\ UNCHANGED diskVars

Fill ==
  /\ Now("fill")
  /\ image' = [image EXCEPT !.files[Part] = Content(Parts[Part])]
  /\ Does /\ UNCHANGED diskVars

-----------------------------------------------------------------------------
(* A run.                                                                  *)

Idle == outcome # "running"

(* mounted_from: what is mounted through the mapping is not found. *)
Refused == \E i \in mounted : i # mapped

Start(prog, pl, f, total, sector) ==
  /\ Idle
  /\ program' = prog /\ plan' = pl /\ force' = f
  /\ fault' = FALSE /\ held' = Busy /\ todo' = <<>>
  /\ IF Valid(pl) /\ (prog # "image" => ~Refused)
     THEN /\ outcome' = "running"
          /\ Request(total, sector, [i \in 1..Len(pl.parts) |-> pl.parts[i].size])
     ELSE outcome' = "refused" /\ Request(0, 0, <<>>)
  /\ UNCHANGED diskVars

Format(pl, f) ==
  Start("format", pl, f, Device.total, Device.sector) /\ trees' = <<>> /\ NoImage

(* An image and a run without --yes change nothing on the disk, so that it is
   enough to try them first. *)
BuildImage(pl, size, ts) ==
  /\ program \in {"none", "image"}
  /\ Start("image", pl, FALSE, size, ImageSector) /\ trees' = ts /\ NoImage

DryRun(r) ==
  /\ program = "none"
  /\ LET parts == [i \in 1..Len(r.sizes) |->
                     [size |-> r.sizes[i], kind |-> "none", inner |-> "none", mounts |-> {}]]
     IN  Start("dry", [parts |-> parts, elsewhere |-> {}], FALSE, r.total, r.sector)
  /\ UNCHANGED <<trees, image>>

LayOut ==
  /\ outcome = "running" /\ Layout
  /\ UNCHANGED <<runVars, todo, outcome>> /\ NoDisk

(* Signatures are refused without --force; a plan that does not fit fails. *)
Prepare ==
  /\ outcome = "running" /\ verdict = "ok" /\ todo = <<>>
  /\ IF program = "format" /\ table # <<>> /\ ~force
     THEN outcome' = "refused" /\ UNCHANGED todo
     ELSE UNCHANGED outcome /\ todo' = CASE program = "format" -> FormatCmds
                                          [] program = "image"  -> ImageCmds
                                          [] program = "dry"    -> <<>>
  /\ verdict' = "done" /\ UNCHANGED <<disk, cur, extents, runVars>> /\ NoDisk

DoesNotFit ==
  /\ outcome = "running" /\ verdict = "error"
  /\ outcome' = "failed"
  /\ UNCHANGED <<layoutVars, runVars, todo>> /\ NoDisk

Finish ==
  /\ outcome = "running" /\ verdict = "done" /\ todo = <<>>
  /\ outcome' = "ok"
  /\ UNCHANGED <<layoutVars, runVars, todo>> /\ NoDisk

Step == Zap \/ NewTable \/ Reread \/ WaitFor \/ Wipefs \/ LuksFormat \/ LuksOpen \/ Mkfs
          \/ ZapImage \/ NewImage \/ Fill

(* A command ends the run when it cannot do its work, and when something else
   goes wrong. *)
Cannot ==
  /\ outcome = "running" /\ todo # <<>> /\ ~Able
  /\ outcome' = "failed" /\ todo' = <<>>
  /\ UNCHANGED <<layoutVars, runVars>> /\ NoDisk

Fails ==
  /\ outcome = "running" /\ todo # <<>> /\ ~Now("reread")
  /\ outcome' = "failed" /\ todo' = <<>> /\ fault' = TRUE
  /\ UNCHANGED <<layoutVars, program, plan, force, held, trees>> /\ NoDisk

(* mount_plan: opens LUKS if nothing of the name is open. *)
Mount ==
  /\ Idle /\ program = "format" /\ outcome = "ok" /\ mounted = {}
  /\ mounted' = {i \in 1..Len(Parts) : MountsOf(Parts[i]) # {}}
  /\ \/ mapped # 0 /\ UNCHANGED mapped
     \/ mapped = 0 /\ \E i \in 1..Len(Parts) : Parts[i].kind = "luks" /\ mapped' = i
     \/ (\A i \in 1..Len(Parts) : Parts[i].kind # "luks") /\ UNCHANGED mapped
  /\ UNCHANGED <<layoutVars, runVars, todo, outcome, table, nodes, data, image>>

(* The user unmounts and closes, or starts the machine again. *)
Release ==
  /\ Idle
  /\ mounted' = {} /\ mapped' \in {0, mapped}
  /\ UNCHANGED <<layoutVars, runVars, todo, outcome, table, nodes, data, image>>

Reboot ==
  /\ mounted' = {} /\ mapped' = 0 /\ nodes' = table
  /\ todo' = <<>> /\ outcome' = "none"
  /\ UNCHANGED <<layoutVars, runVars, table, data, image>>

-----------------------------------------------------------------------------
NoPlan == [parts |-> <<>>, elsewhere |-> {}]

MaxParts == Max({Len(pl.parts) : pl \in Plans})

(* A disk with nothing on it. *)
Init ==
  /\ LayoutIdle
  /\ program = "none" /\ plan = NoPlan /\ force = FALSE /\ fault = FALSE /\ held = FALSE
  /\ todo = <<>> /\ outcome = "none" /\ trees = <<>>
  /\ table = <<>> /\ nodes = <<>> /\ mapped = 0 /\ mounted = {}
  /\ data = [i \in 1..MaxParts |-> [at |-> <<>>, what |-> "blank"]]
  /\ image = [table |-> <<>>, files |-> <<>>]

Next ==
  \/ \E pl \in Plans, f \in BOOLEAN : Format(pl, f)
  \/ \E pl \in ImagePlans, size \in ImageSizes, ts \in Trees : BuildImage(pl, size, ts)
  \/ \E r \in DryRuns : DryRun(r)
  \/ LayOut \/ Prepare \/ DoesNotFit \/ Step \/ Cannot \/ Fails \/ Finish
  \/ Mount \/ Release \/ Reboot

Spec == Init /\ [][Next]_vars

-----------------------------------------------------------------------------
(* A format that says it was successful has left what the plan says, where the
   plan says it, whatever earlier runs with this plan or another one have left
   on the disk and in the kernel (exec.rs:192).  Nothing was open at first. *)
FormattedAsPlanned ==
  program = "format" /\ outcome = "ok" /\ ~held =>
    /\ table = extents /\ nodes = extents
    /\ \A i \in 1..Len(Parts) : data[i] =
         [at |-> extents[i], what |-> CASE Parts[i].kind = "none" -> "blank"
                                        [] Parts[i].kind = "luks" -> Parts[i].inner
                                        [] OTHER                  -> Parts[i].kind]

(* A run that failed can be tried again: with --force a plan that fits fails
   only when a command fails of itself or something was open (exec.rs:170). *)
RetrySucceeds ==
  program = "format" /\ outcome = "failed" => fault \/ held \/ verdict = "error"

(* Every file of the trees lands in the file system of its deepest mount
   point, in the version of the last tree that has it, and nowhere else; if
   that file system is on another disk it is in none (image.rs:92-166). *)
EveryFileLands ==
  program = "image" /\ outcome = "ok" =>
    /\ image.table = extents
    /\ \A i \in 1..Len(Parts) : image.files[i] =
         {<<x[1], <<x[2], LastTree(x[2])>>>> : x \in
            {y \in MountsOf(Parts[i]) \X AllFiles :
               /\ Above(y[1], y[2])
               /\ \A m \in AllMountPoints(plan) : Above(m, y[2]) => Len(m) <= Len(y[1])}}
=============================================================================
