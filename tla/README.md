# A verification of how NEET-OS boots, rebuilds and keeps its state

NEET-OS is a Linux distribution made of Nix modules (`src/modules`) and a set of
Rust programs (`src/pkgs/inieet`). What can go wrong in it that a unit test hardly
reaches lies in the programs that change a machine step by step, without a
transaction, while they may fail, be interrupted or meet one another: the boot
loader's synchronisation, the activation of `/etc`, the reset of volatile
subvolumes, the mounts of the two boot stages, the activation of a whole system, the
deployment of secrets, the preparation of disks, and the building of a boot image.
These are modelled here in TLA+, checked with TLC on small instances, and the
properties that matter most are proved with TLAPS for every value of the constants.

## 1. Inventory

| Component | Source | State it keeps | Operations |
|---|---|---|---|
| System profile, `neet-rebuild`, `neet-gc` | `modules/system/rebuild.sh`, `gc.sh`, `install.sh`; `neet-core/src/generation.rs` | `/nix/var/nix/profiles/system*`, the store | build, `nix-env --set`, delete generations, collect, install-bootloader |
| `esp-sync` | `esp-sync/src/main.rs`, `neet-core/src/{atomic,secureboot,cleanup}.rs` | `EFI/Linux/*.efi`, `*.efi.hash`, `kernels/*` | list, copy or sign each generation's payload, delete stale files |
| `efistub-sync` | `efistub-sync/src/main.rs`, `neet-core/src/uefi.rs` | NVRAM entries `BootXXXX` | list, create what is missing, delete what is stale |
| `limine-install` | `limine-install/src/main.rs` | `limine.conf`, `BOOTX64.EFI` | install the loader, rewrite the configuration |
| `/etc` of `neet-activate` | `neet-activate/src/etc_syncer/*` | `/etc`, `/etc/static`, `/etc/.clean` | swap `static`, clean links, copy, link, remove stale copies |
| The rest of `neet-activate` | `neet-activate/src/*.rs`, `rebuild.sh`, `security/shadow.nix` | `/run/current-system`, `booted-system`, wrappers, `/bin`, state directories, modules, `/etc/shadow` | check, boot and switch, step by step; s6-rc-update |
| `resetOnBoot` | `neet-mount/src/btrfs_reset.rs` | btrfs subvolumes, `old_roots/*/N` | guard, move away, create, prune |
| Mount plan | `neet-mount/src/{plan,mount}.rs`, `modules/filesystems/default.nix` | mounts | sort, mount, bind, in stage 1 and 2 |
| Impermanence | `modules/filesystems/impermanence.nix` | what lies on the persistent storage | binds and assertions |
| `neet-secret` | `neet-secret/src/*` | `/run/secrets-tmp`, `secrets-current`, `/run/secrets`, files with a path of their own | decrypt, remove, rename, link |
| `disk-setup` | `disk-setup/src/*` | partition tables, partitions the kernel knows, file systems, LUKS mappings | validate, lay out, format, mount, build an image |
| `neet-uki` | `neet-uki/src/main.rs` | one PE image | place sections |
| LUKS in the initrd | `modules/filesystems/luks.nix` | mapped devices | wait, unlock with token or passphrase |
| s6, stage 2 | `modules/init/*` | the service tree | start, wait for readiness |
| Nix option modules, images, CI | the rest of `src/modules`, `src/nix` | none at run time | evaluated by Nix |

How they interact. `neet-rebuild` and `neet-gc` change the profile and call
`install-bootloader`, which runs `esp-sync` and then `efistub-sync` or
`limine-install`; the only thing these share is the file system, and nothing locks
one script against the other. `neet-rebuild switch` and every boot run
`neet-activate`, which syncs `/etc` and (at boot) applies the second mount plan.
Stage 1 applies the first, which resets subvolumes, and moves `/proc`, `/sys` and
`/dev` into the new root. Once s6-rc is up, a oneshot runs `neet-secret decrypt` on the
manifest that the activation has put into `/etc`, and another one copies password hashes
from `/run/secrets` into `/etc/shadow`. `neet-uki` builds what `esp-sync` installs;
`disk-setup` makes the file systems that the mount plan names.

What is hard. Interleaving: two scripts on one profile and one ESP; generations that
vanish between two listings; an administrator who writes into `/etc`. Interruption:
every program may die between any two system calls, and some writes are not synced.
Partial failure: some errors end a program and others are warnings. Stale state: hash
files, NVRAM labels, `/etc/.clean`, the kernel's idea of a partition table and the
file `booted-system/neet.json` are believed by later runs. Ordering: mounts hide one
another. Numbers: sizes and addresses in `u64` and `u32` wrap in a release build.
`PROJECT.json` lists the hazards at their lines.

What makes each part right:

- *Boot loader*: a generation the profile retains never stops being bootable (but for the
  time in which new keys make its image be signed anew, section 6), and what an entry with
  its number boots is that generation; a finished script leaves the menu
  and the ESP equal to the profile.
- *`/etc`*: what both systems have is never missing in between; when the activation has
  finished, `/etc` is what the system says and nothing of an earlier system is left;
  the administrator's files stay.
- *`resetOnBoot`*: the last `keepOldRoots` roots survive every sequence of failures and
  outages, a machine that comes up does so on fresh subvolumes, and has pruned the old
  roots, unless a deletion failed.
- *Mounts*: nothing mounted is hidden by a later mount, kept directories show the
  persistent storage and keep what was written, a sound plan boots.
- *Activation*: after a switch that reports success everything the system provides is in
  use from it; the running kernel never meets another kernel's modules or services.
- *Secrets*: what is served is one whole generation, and none is withdrawn before its
  successor is complete.
- *Disks*: a format that reports success left what the plan says, one that failed can be
  tried again, partitions do not overlap and have the size asked for, every file of an
  image is in the file system where it will be looked for.
- *Boot image*: added sections overlap nothing in memory or in the file, their headers
  point at their data, and no header is written over data.

## 2. Modules

| Module | Lines of the code | Role |
|---|---|---|
| `BootSync` | the scripts, `esp-sync`, `efistub-sync`, `limine-install`, `neet-core` | profile, ESP and menu |
| `BootSync_proofs` | | type correctness; the inductive invariants and safety |
| `EtcSync`, `EtcSync_proofs` | `neet-activate/src/etc_syncer` | `/etc` |
| `RootReset`, `RootReset_proofs` | `btrfs_reset.rs`, `stage1-mount` | volatile subvolumes |
| `Mounts`, `Mounts_proofs` | `plan.rs`, `mount.rs`, `default.nix`, `impermanence.nix`, `stage1.sh` | the two mount plans |
| `Activation`, `Activation_proofs` | `neet-activate/src/*.rs`, `rebuild.sh`, `shadow.nix`, `stage2.execline` | a machine from boot to boot |
| `SecretDeploy`, `SecretDeploy_proofs` | `neet-secret/src/decrypt.rs`, `secrets.nix` | `/run/secrets` |
| `Placement`, `Placement_proofs` | | abstract: ranges laid out one behind the other in an arena; theorems of it and of both layouts |
| `DiskLayout` | `disk-setup/src/layout.rs` | where partitions lie; implements `Placement` |
| `DiskSetup`, `DiskSetup_proofs` | `disk-setup/src/{plan,steps,exec,image,main}.rs` | extends `DiskLayout`: format, mount, image |
| `UkiLayout` | `neet-uki/src/main.rs` | sections of a boot image; implements `Placement` twice |
| `MC*` | | constants for TLC |

`PROJECT.json` maps every definition to its lines.

**BootSync.** Variables: the profile (`profile`, `current`), the store, the ESP (one
variable per kind of file, indexed by generation), the menu (`nvram`, `conf`, `confTmp`),
and per script a program counter and the locals of the tool that runs. An action is one
system call that others can see, or one decision of the code: `Build`, `ProfileReuse` and
`ProfileAppend` (the two outcomes of `nix-env --set`), `DeleteGenerations`, `CollectStore`,
`EspList`, `UkiCached`, `UkiStale`, `UkiCopy`, `UkiSign`, `UkiSigned`, `WriteCache`,
`CopyKernel`, `CopyInitrd`, `EspScan`, `Remove*`, `Nv*`, `Lim*`, `Fail` (`set -e` and `?`)
and `Outage`. The loops over generations are sets of numbers still to visit, the newest
first (`Visiting`). Contents of files are the toplevel they belong to, or `Torn`. `token` is
what `sign_token` (`secureboot.rs:52-60`) would be at the moment: the certificate that is
there, or `NoKey` where key or certificate is missing. `ChangeKeys` is the administrator (or
a configuration) that brings another one: with `Rekeying = "fresh"` always one that never
was in force, with `"any"` an earlier one or none as well. An image has a `signature`, a
hash file holds source and token, and `CacheMatches` compares both, so that a new
certificate sends every retained image through `UkiStale`, `UkiSign` (in place) and
`UkiSigned` again; keys may change between any of these. A reboot goes through `Outage`: it
needs an entry that brings up a system of the store.

**EtcSync.** `etc[n]` is what lies at a name; `static` is where `/etc/static` leads;
`manifest` is `/etc/.clean`. Names are flat or one directory deep, which is where links
behind linked directories come from (`InStore`). An activation is `Start`, the loops
`CleanEntry`, the entries of `Syncing` (a link is removed by `Unlink` and made by
`MakeLink`, two system calls), `RemoveStale`, `WriteManifest`. `Abort` ends it anywhere.
With `Faults`, each unlink, link and copy may fail and is then passed over, as the code
does.

**RootReset.** `place[v]` is what is at the path of a subvolume, `old[store][n]` is
`old_roots/<store>/n`. A boot takes the subvolumes one after the other: `Refuse` or
`Rotate` or `NothingToMove`, then `Create`, then `DeleteNested` and `DeleteRoot` for each
number above `keepOldRoots`, then `Mount`; `Off` happens anywhere.

**Mounts.** `plan` is one of a few configurations; `todo` are the entries of the present
plan still to come, of which `Turn` takes the one `sort_entries` would have put next (the
whole order is determined by it, so the sorting is not a step of its own). `mounts` is
the sequence of mounts, and `Cover(p)` the mount in which a path is found: the last one
at or above it. A mount point that answers EBUSY counts as mounted, and a root that is
read-only counts as one that failed. `kept` holds which directory's data lies on which
file system.

**Activation.** A file or link is the system it comes from. `plan` is the sequence of steps
still to come, `BootPlan` (`main.rs` `run`) or `SwitchPlan` (the check of `rebuild.sh`, then
`run_switch`, then `s6-rc-update`); each step is an action of its own that reads its
manifest from `/etc` or from the system as the code does (`MakeDir` and `Wrap` read `/etc`,
`LinkCommand` the system's `bin`), and the loops take one round per action. `FailSwitch`
ends an activation at any point, `WrappersFail` is the error the code turns into a warning.
`InitServices` and `UpdateServices` do something only where s6-rc runs and the system has a
database for it (`Databases`, `rebuild.sh:69`); the scripts report success either way.
Around it: `Rebuild` (`boot` and `switch`), `CollectGarbage`, the oneshots `Secrets` and
`ApplyShadow`, `Boot` and `Off`. What `EtcSync`, `Mounts` and `SecretDeploy` do step by step
is one step here, and one `neet-rebuild` runs at a time.

**SecretDeploy.** `tmp` and `live` are the sets of files in `secrets-tmp` and
`secrets-current`, `own[n]` what lies at a path of its own. `Begin`, `Truncate` and
`Deploy` for each secret, `Sweep` (one file of the old generation at a time), `Swept`,
`Rename`, `Link`; `GiveUp` is every `?` and every kill. The variable `torn` records that a
run was killed between the first removal and the rename: until the next run is through,
less than a generation is served, and the property says so.

**DiskLayout** and **DiskSetup.** `DiskLayout` is `compute_layout`: a request, then one
`PlacePartition` per size, with sums modulo `Wide`. `DiskSetup` extends it. `format` is a
list of commands (`FormatCmds`: zap, new table, reread, wait, and for each partition
wipefs, LUKS, mkfs; `ImageCmds`: zap, new table, and for each partition its content), of
which `Able` says what stands in the way of the next, and any may
fail. What outlasts a run is `table` (on the disk), `nodes` (what the kernel takes for the
table), `data` (what was last written through a node, with the extent it had at that
time), the open mapping and the mounts. `Carve` is the recursion of `carve` and
`build_dir` over layered trees and nested mount points.

**UkiLayout.** `Scan` goes over the sections of the stub in their order, `Pad` aligns the
copy, `Add` appends one payload and its header, all modulo `Word`; `chunks` is where the
payload really lies, which the code does not record, and `added[i].at` where its header was
written. A payload may be empty (`.initrd`, `.osrel`, `.linux`), only the command line never
is. That the data of a stub's sections lies behind the room for headers (`SizeOfHeaders`) is
assumed of the stub, as the PE format has it.

**Placement** is what both layouts promise: `Place` puts one more range behind the others
and within the arena, of at least the size `Least` (1 for partitions, 0 for sections).
`DiskLayout!LayoutPlaces` maps partitions to it in
sectors; `UkiLayout!UkiPlaces` maps the added sections to it twice, by address and by
position in the file.

## 3. Runs

| Run | What it asks | Bounds |
|---|---|---|
| `BootSync_efistub` | One script at a time, EFI stub, UKIs and kernel systems mixed, unsigned at first, then new keys at any time: only the signing with a new certificate interrupts what a retained generation boots, the end state is in sync, hash files do not lie, the inductive invariant `IInv` holds | 3 systems, 3 generations, 2 certificates |
| `BootSync_powerloss` | No keys, an outage loses unsynced writes: retained generations stay bootable, the end state is in sync | 3 systems, 3 generations |
| `BootSync_pair` | Two scripts at once, no keys: entries still boot their own generation | 2 systems, 2 generations |
| `BootSync_moved` | Limine, no keys, profile moved back and numbers reused: configuration whole, generations bootable | 3 systems, 2 generations |
| `EtcSync_crash` | Activations cut short anywhere, an administrator's files | 3 systems, 5 names |
| `EtcSync_faults` | Failing calls; names that change kind | 3 systems, 5 names |
| `RootReset_kept` | Two subvolumes, failing commands, outages | numbers up to `MaxSeq` |
| `Mounts_boots` | Seven configurations, every set of failing mounts, any number of boots | 12 paths |
| `Activation_machine` | Boots, switches, failures, collections and the services of secrets in any order | 4 systems, three of one kernel, one without services |
| `SecretDeploy_serve` | Runs that fail or are killed anywhere, manifests that change | 3 systems, 4 secrets |
| `DiskSetup_disks` | Formats, retries, reboots, mounts, images and layouts | 5 plans of up to 3 partitions, 4 lists of trees, 2,190 layouts, `Wide` = 64 |
| `UkiLayout_image` | Images from stubs and payloads of many shapes | 4 section tables, both alignments, 18 lists of payloads, `Word` = 64 |

Why the bounds are enough. A generation matters to another only as older, newer or current,
and as one that is being deleted, added or retained: three numbers hold all of these, and
two systems plus a third distinguish "same", "different" and "back again". Two certificates
after none give an image that is unsigned, signed with what is in force, and with what was.
`MaxNum` (the BootXXXX numbers) is larger than the number of entries one script at a time
can leave, so no creation fails for want of a number. Three systems of `/etc` let an entry
be in the old tree only, the new only, both, and come back. In `RootReset`, keep values 2
and 1 with at least two more moves than that let every rule of the pruning apply more than
once. The plans of `Mounts` hold one example of each kind of entry, and the theorems cover
all other plans. In `Activation` three systems with one kernel and a fourth with another
make each check answer both ways, and each kind of thing (commands, wrappers, modules,
firmware, a service database) is in some systems and not in others. The secrets of
`SecretDeploy` are one of each kind: plain, with a variable, with a path of its own, with
both. The plans of `DiskSetup` have each kind of content once and are formatted over one
another in every order; a small `Wide` makes sums wrap that 64 bits would need absurd sizes
for, and alignment 4 with sectors of 0 to 8 bytes gives every outcome of the checks. Images
and dry runs change nothing on the disk, so they are tried before the first format only; the
directory an image is built in is taken to be new, as `build-disk-image.sh:68` makes it.
`UkiLayout` does the same with 6 bits in place of 32, with stubs that have room for all
headers and stubs that have not. The theorems make the bounds of the other modules
unimportant for what they state.

`CHECK_DEADLOCK FALSE` stands in the configurations of `BootSync`, where a machine may idle
for good (no script running and `MaxGen` reached), and in that of `UkiLayout`, where the
program builds one image and ends; nowhere else.

## 4. Properties

- `RetainedStaysBootable` (an action property): no step takes from a generation the
  profile retains its way to boot. Reinstalling, deleting stale files, cleaning the NVRAM,
  failing in the middle: all of them. The runs check it where there are no keys. With keys
  that may change it is false of the code (section 6); there `OnlyResigningInterrupts` says
  that `sbsign`, writing over an image whose hash file tells of an earlier certificate, is
  the only step that does it.
- `EntriesAreCurrent`, `SyncedMenu`, `ConfIsWhole`, `SkippedImagesAreCurrent`: entries boot
  their own generation; a finished script leaves all in sync; `limine.conf` is never cut
  short; a hash file that matches vouches for the right image, of the right system and
  signed with the certificate in force.
- `LinksStay`, `CopiesStay`: what the old and the new system both have in `/etc` is at no
  moment missing. `Installed`, `NothingLeft`, `CopiesAreListed`: the finished activation is
  complete, and a copy that exists is known to the next one. `LocalFilesSurvive`: what the
  administrator put there stays.
- `RecentRootsKept`: the last `keepOldRoots` roots are whole at every moment.
  `StoreIsBounded`: a machine that is up, no deletion of this boot having failed, has no more
  than these. `ComesUpFresh`: it runs on subvolumes made in this boot.
- `SwitchedWhole`: after a success everything the system provides is in use from it, whatever
  half-done switch came before: `/etc`, the current system, directories, each of its commands
  and (but for a warning) wrappers, its services where s6-rc runs and it has a database, its
  firmware, and nobody's firmware if it has none and the switch was not forced. Commands and
  wrappers that it does *not* provide are not in question: those of earlier systems stay
  (section 6). `KernelMatches`: no history of rebuilds, skipped switches, collections and
  boots brings modules, firmware, drivers or services of another kernel to the running one.
- `ServedIsWhole`, `WithdrawnOnlyWhenReady`: a secret that fails to decrypt costs none that
  was served, and leftovers of a failed run never get into a generation.
- `FormattedAsPlanned`, `RetrySucceeds`: what success and failure of a format mean, over
  whatever earlier runs left on the disk and in the kernel. `EveryFileLands`: each file is
  in the file system of its deepest mount point, in the version of the last tree.
- `GetsItsSize`, `LayoutPlaces`: sizes as asked, refusal only with a reason, and the
  refinement of `Placement` in spite of arithmetic that wraps.
- `UkiPlaces`, `HeadersPointAtData`, `NothingOverwritten`: the same for a boot image, that
  each header tells where its payload is, and that no header reaches another one or any data.
  They hold while everything fits below 4 GiB (`InBounds`); beyond, the program goes on with
  truncated numbers.
- `NothingShadowed` (for orderly plans, section 5), `BindsReachTheirSource`, `DataPersists`,
  `SoundPlansBoot`, `BootEnds`.

Each property of a passing run has a mutant in `PROJECT.json`: a plausible bug in the code
(it stands, commented, before the definition it replaces) under which TLC finds the
property violated.

Fairness. Only `Mounts` states some, `WF_vars(BootStep)`, for `BootEnds`: stage 1 and
`neet-activate` are sequential programs which run on while they can (the wait for a
device ends after 15 s, `mount.rs:15`). `Off` needs no fairness. The other modules make
no liveness claim: their programs may be killed at any point and nobody is obliged to
start them again. That a retry leads somewhere is stated as safety (`RetrySucceeds`).

## 5. Theorems

All theorems are proved by TLAPS, for every value of the constants that satisfies the
named assumptions. Nothing is assumed about the number of systems, generations, names,
secrets, partitions or mounts.

**BootSync** (`BootSync_proofs`). All hold for any numbers of systems, generations, NVRAM
numbers and any capacity; `TypeCorrect` needs nothing else. Three invariants carry the rest,
each with the hypotheses it needs.

*One script at a time* (`Invariant`, and from it `OnlyNewKeysInterrupt`, `MenuIsSynced`,
`SkippedImagesCurrent` and, if the keys do not change, `RetainedGenerationsBoot`), for both
loaders, with and without signing, under

    Assumed == /\ Alone /\ ~Rollback /\ Rekeying # "any"
               /\ PowerLoss => Fixed /\ FirstToken = NoKey /\ Loader = "efistub"

where `Alone` says that there is one script and `Fixed` that the keys never change. An
outage may then take no more than the hash files of unsigned images, which the next sync
makes again: those images are fsynced, signed ones and `limine.conf` are not. The inductive
invariant `IInv` strengthens the properties by what the tools know in between: which payloads
are whole while the script is at a given stage, that what it listed is the profile, that a
hash file which matches source and certificate vouches for the image beside it
(`HashesTrue`), and that an entry of the menu whose number is in the profile finds there the
hash file of its system (`Placed`).

New certificates make this delicate. A retained image is signed again while an entry leads
to it, so `Placed` promises the image itself only if the keys are `Fixed`. Tokens are
numbered as they come and no hash file is ahead of `token` (`Issued`): a certificate that
comes while an image is signed is not the one its hash file will tell of, and so an image
whose hash file was written in between does not pass for one of the new certificate. This is
what fails when an earlier certificate comes back (section 6).

- `OnlyNewKeysInterrupt` (`OnlyResigningInterrupts`): under `Assumed` alone. The image being
  signed has, if an entry leads to it, the hash file of its system by `Placed`, which does not
  match; so it tells of another certificate.
- `RetainedGenerationsBoot` (`RetainedStaysBootable`): under `Assumed` and `Fixed`. Then no
  entry leads to an image while it is signed (`ImageValid`), since its hash file would match.

*Any number of scripts, any loss* (`NumbersUsedOnce`), under `~Rollback` alone: there is one
history that gives each number its system, and the profile, the lists of all scripts, the
files on the ESP and the entries of both menus agree with it (`OneHistory`), however old
what a script has read is. So no entry boots the generation of another (`EntriesCurrent`)
and, under `Keyless` (no key, now or ever), images are never torn (`UnsignedImagesWhole`) and
a hash file and the image beside it are of one system (`UnsignedImagesCurrent`).

*Numbers used again* (`UnsignedGenerationsBoot`), under
`Unsigned == Alone /\ Keyless /\ (PowerLoss => Loader = "efistub")`: `RetainedStaysBootable`
also when the profile is moved back. `EntriesAreCurrent` and `SyncedMenu` fail then
(section 6), but what boots a generation is its own entry and its own files
(`BootsByItself`), and no step writes anything but these in their place (`PayloadStays`,
`OfferStays`).

`ConfNeverTorn` (`ConfIsWhole`) asks for `Alone` and no lost write-back: what is renamed over
`limine.conf` is a temporary file that the same script has finished, and a torn temporary
file is written again before the next rename.

The hypotheses are needed: TLC finds `RetainedStaysBootable` violated with two scripts
(section 6), with changing keys (section 6), with lost writes and signing, with lost writes
and limine, and with rollbacks and signing (`MCBootSync_powerloss.cfg` with these constants
changed, signing being `FirstToken = 1` and `MaxToken = 1`, without its invariants); and
`SkippedImagesAreCurrent` with two scripts that sign (`MCBootSync_pair.cfg` likewise). Signing
with keys that stay, which `RetainedGenerationsBoot` covers, is `MCBootSync_efistub.cfg` with
`FirstToken = 1`, `MaxToken = 1`, `Rekeying = "never"` and `PROPERTY RetainedStaysBootable`;
TLC finds no error.

**EtcSync** (`EtcSync_proofs`). `EtcTypeCorrect`; `ShapeHolds`, the inductive invariant
(`Shape`: `/etc` is a tree of directories, the place of a half-made link is free, only
managed copies are marked for removal); from it `LinksNeverMissing`, `CopiesNeverMissing`,
`CopiesListed` and `LocalFilesStay`, for all systems, trees and names, the first and the
last whatever fails. What a finished activation leaves needs more of the systems, and the
findings of section 6 show that it does:

- `OneWay`: a name is provided in one way by all systems that have it, and no administrator
  puts a file where a system has a directory. Then no activation writes into the store
  (`TreesStay`), and, if no call fails, everything is in place at the end
  (`EverythingInstalled`), from whatever an activation cut short anywhere has left.
  Invariant: what is in `/etc` tells how some system provides the name (`Told`), and what
  the loop has dealt with is in place and stays so (`Landed`).
- `DirectStays`: a link past `/etc/static` is one in every system, since the code removes
  none. Then nothing of older systems is left (`NothingIsLeft`).

**RootReset** (`RootReset_proofs`). `ResetTypeCorrect`; `ResetInvariant` (old roots lie in
the order in which they were moved, and what is doomed is older than the last
`keepOldRoots`), under `OwnStore`: no two subvolumes share a directory of `old_roots`. From
it `RecentRootsSurvive`. `OldRootsAreBounded` (under `OwnStore`): a machine that is up, no
deletion of this boot having failed, has at most `keepOldRoots` old roots of each subvolume,
whatever the boots before it had left; it says nothing of a machine on its way up, where the
root just moved away comes on top, nor after a failed deletion, where what was not deleted
stays until a later boot. Invariant: what a boot is through with is within its bound, and
while a store is pruned what is not doomed is. `ComesUpOnFreshRoots` holds without any
assumption.

**Mounts** (`Mounts_proofs`). `MountsInvariant`: with an orderly plan, mounts are in order
in both stages, and nothing that is still to come is at or above what is done. `Orderly`
says of a plan what the options are documented for: `requires` orders scaffolding
(`options.nix:50`), and nothing of stage 1 lies below something of stage 2. The argument:
an entry that comes next is the least of those that are ready; all scaffolding is done by
then, because the first of it would come before; so whatever is above the entry is ready
too and would come before it. For stage 2 the mounts of stage 1 are carried along as
entries that are passed over. `MountsStayVisible` follows: `NothingShadowed`, for every
orderly plan. Of other plans nothing is claimed: an entry that requires one below the root
may be overtaken by what lies below it (`plan.rs:96`), a mount of stage 2 may lie above one of
stage 1 (`default.nix:102`), the options accept both, and the code then hides mounts.
`MountsTypeCorrect` is about all plans. The others are about plans of which a hypothesis is
true, and each names what the modules of the repository give:

- `SoundConfigurationsBoot`, under `Layered`: overlays are made of scaffolding of stage 1
  (`installer.nix:44`), `requires` orders scaffolding (`options.nix:50`), and the root is
  not scaffolding. Invariant `EarlyMounted`: stage 1 has mounted what it is done with.
- `BindsShowTheirSource`, under `Orderly` and `KeptEarly`: binds are left to stage 2
  (`impermanence.nix:87`) and nothing that stage 2 mounts is at or above their sources.
  Then the mount a source was found in when the bind was made is the one it is found in
  for good (`Bound`).
- `KeptDataPersists`, under these and `Stored`: the source of every bind is on storage that
  stage 1 mounts and no boot clears, and nothing else is mounted in between.

The two configurations of section 6 that lose their data are those that the options admit
and `KeptEarly` and `Stored` do not.

**Activation** (`Activation_proofs`). `ActivationInvariant`, and from it
`KernelAlwaysMatches`. The property alone is not inductive: that the modules linked at boot
are the kernel's relies on the boot plan running in its order to its end. The invariant says
of a boot (`Booting`) that its activation is for the kernel that was started, and that the
link to the booted system and the kernel's modules are there or still in the plan, behind
the mount of a new `/run`, with the services at the end; and of a running machine
(`Switching`) that they are there, and that a plan whose check is behind it is for a system
with the same kernel files, unless forced. The check asks for `booted-system`, so the
invariant ties that link to the kernel. `SuccessIsWhole` (`SwitchedWhole`) has an invariant
of its own. The plan of a run is the rest of one of three courses, in which no step comes
twice, `/etc` comes before the steps that read it and services come last; so each step that
is no longer in the plan has been taken in this run, and what it made is of the system that
is activated, whatever earlier runs had left half done (`Progress`). Firmware needs more: a
switch that was not forced is to a system with the booted one's kernel files, so the
firmware in use, if any, is of such a system, and by `ActivationAssumption` these have
firmware all or none (`system/default.nix:14-24`: what `neet.json` says of the boot names
both). What earlier systems provided beyond that, in `/bin` and among the wrappers, the
theorem leaves open.

**SecretDeploy** (`SecretDeploy_proofs`). `SecretInvariant`: in the loop `secrets-tmp` holds
exactly the files of the secrets dealt with, so that behind it it holds a whole generation;
what is served is part of one generation, and all of it but for a removal. From it
`ServedGenerationIsWhole` and `FailureCostsNothing`.

**DiskSetup** (`DiskSetup_proofs`). Three theorems, for any set of plans (finite, as
`MaxParts` asks) and any history of formats, images, dry runs, mounts, failures and reboots.

- `FormatIsAsPlanned`, provided that the kernel takes over a table that nobody uses
  (`Hypotheses`; section 6 has what happens otherwise). The list of commands has any length,
  so the invariant is about its prefixes: the first `p` commands of `FormatCmds` have run,
  and each partition whose last command is among them holds what the plan says, at the
  extent it has now. `FormatIsOrderly` says of the flattened list what the proof needs of it:
  the four commands of the table, then for each partition exactly one last write, with
  nothing written to that partition after it.
- `RetryWorks`: in this state no command finds anything in its way. It needs that a plan has
  one LUKS partition at most (`OneLuks`), as there is one mapping in the model.
- `EveryFileIsInPlace`, under `SoundImages`: trees have no file where a directory must be,
  at or above a mount point, and nothing is mounted from LUKS (section 6). `build_dir` is a
  recursion over paths; `DownSplits` gives a closed form that satisfies its equation at
  every directory, and `WalkIs` shows that nothing else does, by the longest path at which
  another solution would differ. `CarveIs` puts the two together, `ContentLands` compares
  with what the property says, and `ImageInv` is an invariant over prefixes again.

**Placement** (`Placement_proofs`), for both programs that lay out ranges.
`PlacementIsDisjoint` says what the refinements are good for, once for every implementation:
ranges do not overlap and stay in the arena, whatever `Least` is.

*DiskLayout*, under `LayoutAssumption`: the alignment divides the modulus, as 1 MiB divides
2^64. `LayoutInvariant`: the next partition begins where the last ends, at a multiple of
`Align`, and every extent placed is as long as its rounded size. Its core is arithmetic:
`End > cur`, the only test the code makes against a wrapped sum, is enough, because a sum of
two numbers below the modulus that wraps is below both, and a size whose rounding wraps
comes to nothing. From it `SizesAreExact`; `SizesOrReason` (`GetsItsSize`), which adds that
a plan is refused only when a size left open is not the last or the sizes exceed the disk in
numbers without a bound: up to the refusal `cur` is equal to their sum; and `LayoutRefines`:
every step of `compute_layout`, called with any arguments, is a `Place`, a `Clear` or a
stutter of `Placement`.

*UkiLayout*, under `UkiAssumption` (alignments divide 2^32, sections of the stub end below it,
their data lies in the file behind the room for headers).
`UkiInvariant`: after the scan `vma` is the end of the section that ends last, in whatever order
they are; then address and position are what the payloads so far need, counted without a bound,
and each header holds its payload. From it `UkiHeaders` (`HeadersPointAtData`) and `UkiRefines`
(`UkiPlaces`): each payload added is one `Place` in memory and one in the file.
`UkiOverwritesNothing` (`NothingOverwritten`) has an invariant of its own, of where headers lie:
the check of `main.rs:217-225` was for all of them, so each one ends within the room.

Recursive functions over data (sums, `FlattenSeq`, `build_dir`, the maximum of a finite set)
are dealt with by the least counterexample (lemma `LeastElement`, which rests on the
well-foundedness of the natural numbers): if a claim failed somewhere it would fail at a
first place, and there the equation of the function contradicts it. No module uses a
RECURSIVE operator.

What stays with TLC: `BootEnds`, which is liveness under fairness. Every other invariant and
action property of section 4 has a theorem, under the hypotheses named above. The
configurations of section 3 satisfy them, except that `RootLate` of `Mounts_boots` (a root
that is not needed for boot) is not `Orderly`.

## 6. Findings

Each can be reproduced by changing a configuration of section 3 as told; `PROJECT.json` has
the lines of the code and of the text it disagrees with.

- *A full ESP cannot be freed*: `neet-gc` deletes generations, but `esp-sync` installs before
  it deletes, and fails. `MCBootSync_moved.cfg` with `UkiSystems = {A}`, `MaxGen = 3`,
  `Capacity = 2`, `Rollback = FALSE` violates the invariant `GcMakesRoom`.
- *Two scripts delete each other's payload*: `MCBootSync_moved.cfg` with `Systems = {A, B}`,
  `UkiSystems = {A}`, `Scripts = {p1, p2}`, `MaxGen = 3`, `Rollback = FALSE` violates
  `RetainedStaysBootable`.
- *What was a copy and becomes a link is removed as obsolete*: `MCEtcSync_faults.cfg` with
  `Etc <- CopyToLinkEtc`, `Aborts = FALSE`, `Faults = FALSE`, `Admin = {}` violates
  `RemovesOnlyObsolete`.
- *A plan that mounts only `/nix/store` boots once*: `MCRootReset_kept.cfg` with
  `NixMount = "/nix/store"`, `Faults = FALSE` violates `BootsComeUp`.
- *A live switch locks the accounts whose password comes from a secret*: `/etc/shadow` is
  copied again, and the oneshot that fills it in does not run again.
  `MCActivation_machine.cfg` with the property `PasswordsStay` in place of its invariants.
- *A table the kernel does not take over*: the result of `blockdev --rereadpt` is ignored.
  `MCDiskSetup_disks.cfg` with `RereadFails = TRUE` violates `FormattedAsPlanned` (and, since
  a retry may be stuck behind the old nodes, `RetrySucceeds`).
- *An image leaves a LUKS partition empty*, without a message: `MCDiskSetup_disks.cfg` with
  `ImagePlans <- MCPlans` violates `EveryFileLands`.
- *New keys put every generation at risk at once*: with a new certificate, or Secure Boot newly
  enabled, the next sync signs the image of every retained generation again, in place
  (`secureboot.rs:84`); an interruption leaves a torn one on the menu, be it of the running
  system. `MCBootSync_efistub.cfg` with `PROPERTY RetainedStaysBootable` in place of its
  properties.
- *Reused numbers keep their NVRAM entry*: `MCBootSync_efistub.cfg` with `Rollback = TRUE`
  violates `SyncedMenu`.
- *The hash file of an interrupted sync vouches for another image*: of another system with
  `Rollback = TRUE` as above, and, without any rollback, signed with another certificate or
  torn when keys are taken back: `MCBootSync_efistub.cfg` with `Rekeying = "any"`,
  `MaxToken = 1`. Both violate `SkippedImagesAreCurrent`, the latter `SyncedMenu` as well.
- *What an earlier system had in `/bin` stays there*, although `main.rs:101` says that the links
  are brought up to date with the new generation, and so do wrappers until the next boot.
  `MCActivation_machine.cfg` with the invariant `OnlyItsOwn` in place of its own.
- *Two `limine-install` share one temporary file*: `MCBootSync_moved.cfg` with
  `Scripts = {p1, p2}` violates `ConfIsWhole`.
- *A linked directory of `/etc` that becomes a directory of entries*: the entries are
  replaced by links to themselves in the store. `MCEtcSync_faults.cfg` with
  `Etc <- SplitDirEtc` violates the invariant `TreesAreKept`.
- *A btrfs root without a file system at `/persist` passes the assertions*:
  `MCMounts_boots.cfg` with `Plans <- WithoutPersist` violates `DataPersists`.
- *A kept directory whose source is a disk of its own that comes after it*: with
  `Plans <- WithLateHome`, `BindsReachTheirSource` is violated; the bind is at depth 2 and
  its source below `/persist` at depth 3. No document says anything about it.
- `keepOldRoots = 0` moves and then deletes, where `plan.rs:29` says it deletes at once.

## 7. What is not modelled, and why

- External programs are modelled by what the code relies on: `nix-env` (numbers, links),
  `nix-store --gc` (removes what no generation needs), `efibootmgr`, `sbsign`, `mount`,
  `btrfs`, `sgdisk`, `cryptsetup`, `mkfs`, `s6-rc`. Their entries in the map are marked
  external.
- Data the properties do not tell apart: owners and modes of copies and secrets, mount
  options, labels, bytes of PE images, messages, UUIDs.
- `limine-install`'s installation of `BOOTX64.EFI`: one copy and one `sbsign` in place. If it
  is interrupted nothing boots by limine, and no later state of the program depends on it.
- The unlocking of LUKS in the initrd (`luks.nix`): a shell function that asks `cryptsetup`
  and the user in turn; all it waits for is outside. `mount.rs`'s wait for a device is a
  mount that fails or does not.
- The readiness pipe of `s6-svscan` in stage 2, and the order in which `s6-rc` starts
  services: both are of the external supervision suite.
- Of `neet-activate`: bringing interfaces up, the list of modules, shutdown (sync, remount,
  reboot), and links that lead to the same place in every system.
- `neet-secret`'s encryption, enrolment with a TPM and printing: one external call each.
- Loop devices and overlay directories of `neet-mount`; the mount points below which
  `disk-setup` mounts a plan; `btrfs` temporary directories.
- Two `neet-activate` at once, and one program of this repository under another's feet across
  modules: `Activation` takes `/etc`, the mounts and the secrets as single steps.
- Keys: a certificate is a number, and key and certificate come and go together; a script has
  at each of its steps those of the moment. Keys that are taken back, two scripts that sign
  and signed images with lost writes are in no passing run (sections 5 and 6).
- Known gaps without a property: a link of `/etc` past `/etc/static` whose entry is dropped
  stays there (`DirectStays` in section 5), a temporary file of a copy cut short stays on the
  ESP (`atomic.rs:8`), swap and LVM that hold a disk are not noticed before formatting
  (`exec.rs:49`).
- Nix option modules, image builders and CI have no state at run time.

## 8. What could come next

1. A boot that composes stage 1, `RootReset`, `Mounts` and `Activation`, and a switch that
   composes `EtcSync` with `Activation`, so that a failed copy of a manifest is seen by the
   steps that read it.
2. Abstract specifications of the two oldest modules: a profile whose generations boot,
   implemented by `BootSync`; an `/etc` that changes at once, implemented by `EtcSync`.
3. Proofs: what two scripts at once cannot break beyond `NumbersUsedOnce`, and what a sync
   repairs after an outage that tore `limine.conf` or a signed image.
4. The loader binary of limine and the unlocking of LUKS.
