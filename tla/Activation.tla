----------------------------- MODULE Activation -----------------------------
(***************************************************************************)
(* A machine from boot to boot: neet-activate in stage 2 and under         *)
(* neet-rebuild switch, the services that supply secrets and password      *)
(* hashes, and neet-gc, which may run at any time.                         *)
(*                                                                         *)
(* How /etc, the mounts and /run/secrets get there step by step is the     *)
(* matter of EtcSync, Mounts and SecretDeploy; here each is one step.      *)
(*                                                                         *)
(* One neet-rebuild runs at a time.  A file or link is the system it comes *)
(* from.  Links that lead to the same place in every system (/var/run,     *)
(* /run/opengl-driver), network interfaces and loaded modules are left     *)
(* out.                                                                    *)
(***************************************************************************)
EXTENDS Naturals, Sequences

CONSTANTS
  Systems,
  BootedFiles,   \* BootedFiles[s]: the neet.json of s, which stands for its
                 \* kernel, modules, firmware and graphics drivers
  Databases,     \* the systems with an s6-rc database
  Modules,       \* the systems whose modules/ has lib/modules
  Firmware,      \* those whose firmware/ has lib/firmware
  StateDirs,     \* StateDirs[s]: the directories s declares
  Volatile,      \* those that lie in /run
  WrapperDir,    \* /run/wrappers/bin
  Wrappers,      \* Wrappers[s]: the programs in its wrappers.json
  Commands,      \* Commands[s]: the names in its system-path/bin
  PasswordFrom,  \* PasswordFrom[s]: the secret with the hash of a user, or None
  ByName,        \* ByName[s]: the secrets of s below /run/secrets/by-name
  Forced,         \* neet-rebuild is run with FORCE=1
  None

(* Two systems with the same neet.json have the same modules and firmware: it
   names them. *)
ASSUME ActivationAssumption ==
  /\ None \notin Systems /\ Firmware \subseteq Systems
  /\ \A s, t \in Systems : BootedFiles[s] = BootedFiles[t] =>
       (s \in Modules <=> t \in Modules) /\ (s \in Firmware <=> t \in Firmware)

VARIABLES
  etc,           \* the system whose tree is in /etc
  on,            \* "off", "stage2" or "up"
  kernel,        \* the system that the boot menu has started
  store,         \* the systems in the store
  profile,       \* /nix/var/nix/profiles/system
  sys,           \* the system an activation is for; plan says whether one runs
  plan,          \* its steps still to come
  done,          \* what the step at hand has dealt with
  outcome,       \* of the last activation
  run,           \* what is in /run: current, booted, wrappers, services,
                 \* secrets, and the firmware path of the kernel
  disk,          \* what is elsewhere: dirs, bin, modules, shadow
  oneshot        \* the services secrets and apply-shadow-secrets

vars == <<etc, on, kernel, store, profile, sys, plan, done, outcome, run, disk, oneshot>>

Programs == UNION {Wrappers[s] : s \in Systems}

AllDirs == UNION {StateDirs[s] : s \in Systems}

AllCommands == UNION {Commands[s] : s \in Systems}

EmptyRun == [current  |-> None, booted |-> None, services |-> None, firmware |-> None,
             secrets |-> None, wrappers |-> [p \in Programs |-> None]]

(* run, before s6-rc-init; run_switch, between the check of neet-rebuild and
   s6-rc-update. *)
BootPlan == <<"etc", "mounts", "current", "booted", "dirs", "wrappers", "modules",
              "firmware", "bin", "services">>

SwitchPlan == <<"check", "etc", "current", "dirs", "wrappers", "bin", "firmware", "services">>

Step(name) == plan # <<>> /\ Head(plan) = name

Finish == plan' = Tail(plan) /\ done' = {}

Idle == UNCHANGED <<on, kernel, store, profile, sys>>

-----------------------------------------------------------------------------
(* The steps.                                                              *)

(* Mutant: a file that is missing raises no objection. *)
NeedsRebootIfThere == run.booted \in store /\ BootedFiles[run.booted] # BootedFiles[sys]

(* booted-system/neet.json is compared with that of the new system; it is
   missing once the booted system has been collected. *)
NeedsReboot == run.booted \notin store \/ BootedFiles[run.booted] # BootedFiles[sys]

Check ==
  /\ Step("check")
  /\ NeedsReboot => Forced
  /\ Finish
  /\ Idle /\ UNCHANGED <<etc, outcome, run, disk, oneshot>>

SkipSwitch ==
  /\ Step("check") /\ NeedsReboot /\ ~Forced
  /\ plan' = <<>> /\ outcome' = "skipped"
  /\ Idle /\ UNCHANGED <<etc, done, run, disk, oneshot>>

(* The whole of setup_etc.  /etc/shadow is a managed copy and is copied again,
   with the passwords of such users locked. *)
SyncEtc ==
  /\ Step("etc")
  /\ etc' = sys /\ disk' = [disk EXCEPT !.shadow = "locked"]
  /\ Finish
  /\ Idle /\ UNCHANGED <<outcome, run, oneshot>>

SetRun(field) == run' = [run EXCEPT ![field] = sys]

(* A new /run hides what was in it. *)
MountFs ==
  /\ Step("mounts")
  /\ run' = EmptyRun
  /\ Finish
  /\ Idle /\ UNCHANGED <<etc, outcome, disk, oneshot>>

LinkSystem(field) ==
  /\ Step(field)
  /\ SetRun(field)
  /\ Finish
  /\ Idle /\ UNCHANGED <<etc, outcome, disk, oneshot>>

(* Without modules or firmware of its own a system leaves what is there. *)
SetFirmware ==
  /\ Step("firmware")
  /\ IF sys \in Firmware THEN SetRun("firmware") ELSE UNCHANGED run
  /\ Finish
  /\ Idle /\ UNCHANGED <<etc, outcome, disk, oneshot>>

LinkModules ==
  /\ Step("modules")
  /\ disk' = [disk EXCEPT !.modules = IF sys \in Modules THEN sys ELSE @]
  /\ Finish
  /\ Idle /\ UNCHANGED <<etc, outcome, run, oneshot>>

(* The rest are loops over what a manifest in /etc or a directory of the system
   lists, a round each. *)
MakeDir(x) ==
  /\ Step("dirs") /\ x \in StateDirs[etc] \ done
  /\ disk' = [disk EXCEPT !.dirs = @ \cup {x}]
  /\ done' = done \cup {x}
  /\ Idle /\ UNCHANGED <<etc, plan, outcome, run, oneshot>>

Wrap(x) ==
  /\ Step("wrappers") /\ WrapperDir \in disk.dirs /\ x \in Wrappers[etc] \ done
  /\ run' = [run EXCEPT !.wrappers[x] = etc]
  /\ done' = done \cup {x}
  /\ Idle /\ UNCHANGED <<etc, plan, outcome, disk, oneshot>>

(* Nothing is linked when the system is not in the store any more. *)
ToLink == IF sys \in store THEN Commands[sys] ELSE {}

(* Mutant: a command that is there already is passed over. *)
LinkIfNew(x) ==
  /\ Step("bin") /\ x \in ToLink \ done
  /\ disk' = [disk EXCEPT !.bin[x] = IF @ = None THEN sys ELSE @]
  /\ done' = done \cup {x}
  /\ Idle /\ UNCHANGED <<etc, plan, outcome, run, oneshot>>

LinkCommand(x) ==
  /\ Step("bin") /\ x \in ToLink \ done
  /\ disk' = [disk EXCEPT !.bin[x] = sys]
  /\ done' = done \cup {x}
  /\ Idle /\ UNCHANGED <<etc, plan, outcome, run, oneshot>>

LoopDone ==
  /\ \/ Step("dirs") /\ StateDirs[etc] \subseteq done
     \/ Step("wrappers") /\ WrapperDir \in disk.dirs /\ Wrappers[etc] \subseteq done
     \/ Step("bin") /\ ToLink \subseteq done
  /\ Finish
  /\ Idle /\ UNCHANGED <<etc, outcome, run, disk, oneshot>>

(* An error of the wrappers is a warning, and the later ones stay as they
   were; so is a missing directory. *)
WrappersFail ==
  /\ Step("wrappers")
  /\ Finish
  /\ outcome' = "warning"
  /\ Idle /\ UNCHANGED <<etc, run, disk, oneshot>>

Said == IF outcome = "warning" THEN "warned" ELSE "ok"

(* s6-rc-init and the change to top, which brings up the oneshots.  Without a
   database s6-rc-init fails, and the machine is up with no service. *)
InitServices ==
  /\ Step("services") /\ on = "stage2" /\ on' = "up"
  /\ \/ sys \in Databases /\ SetRun("services") /\ oneshot' = "secrets"
     \/ sys \notin Databases /\ UNCHANGED <<run, oneshot>>
  /\ Finish /\ outcome' = Said
  /\ UNCHANGED <<etc, kernel, store, profile, sys, disk>>

(* s6-rc-update, if services run (/run/s6-rc) and the new system has a database:
   a oneshot that is up is not run again.  neet-rebuild reports success either
   way. *)
UpdateServices ==
  /\ Step("services") /\ on = "up"
  /\ \/ run.services # None /\ sys \in Databases /\ SetRun("services")
     \/ (run.services = None \/ sys \notin Databases) /\ UNCHANGED run
  /\ Finish /\ outcome' = Said
  /\ Idle /\ UNCHANGED <<etc, disk, oneshot>>

(* Any other error, and a kill, ends the activation where it is. *)
FailSwitch ==
  /\ on = "up" /\ plan # <<>>
  /\ plan' = <<>> /\ done' = {} /\ outcome' = "failed"
  /\ Idle /\ UNCHANGED <<etc, run, disk, oneshot>>

-----------------------------------------------------------------------------
(* The services.                                                           *)

(* neet-secret ends well for the manifest in /etc, or fails, and then what
   depends on its service is not started; without a host key the service is up
   and has done nothing.  It can also be run by hand. *)
Secrets ==
  /\ on = "up" /\ oneshot = "secrets"
  /\ \/ oneshot' = "shadow" /\ run' = [run EXCEPT !.secrets = etc]
     \/ oneshot' \in {"shadow", "done"} /\ UNCHANGED run
  /\ Idle /\ UNCHANGED <<etc, plan, done, outcome, disk>>

SecretsByHand ==
  /\ on = "up" /\ oneshot \in {"none", "done"}
  /\ run' = [run EXCEPT !.secrets = etc]
  /\ Idle /\ UNCHANGED <<etc, plan, done, outcome, disk, oneshot>>

(* The password of a user is replaced if the file with its hash is there.  The
   script is the one of the database that was brought up at the boot. *)
HasHash == run.secrets # None /\ PasswordFrom[kernel] \in ByName[run.secrets]

ApplyShadow ==
  /\ on = "up" /\ oneshot = "shadow"
  /\ oneshot' = "done"
  /\ disk' = [disk EXCEPT !.shadow = IF HasHash THEN "set" ELSE @]
  /\ Idle /\ UNCHANGED <<etc, plan, done, outcome, run>>

-----------------------------------------------------------------------------
(* What people do.                                                         *)

(* neet-rebuild boot ends with the profile; switch goes on. *)
Rebuild(s, next) ==
  /\ on = "up" /\ plan = <<>>
  /\ store' = store \cup {s} /\ profile' = s
  /\ plan' = next /\ done' = {}
  /\ IF next = <<>> THEN UNCHANGED <<sys, outcome>> ELSE sys' = s /\ outcome' = "running"
  /\ UNCHANGED <<etc, on, kernel, run, disk, oneshot>>

(* The profile is the only root: what runs and what was booted are none. *)
CollectGarbage ==
  /\ on = "up"
  /\ \E kept \in SUBSET store : profile \in kept /\ store' = kept
  /\ UNCHANGED <<etc, on, kernel, profile, sys, plan, done, outcome, run, disk, oneshot>>

Boot(s) ==
  /\ on = "off" /\ s \in store
  /\ on' = "stage2" /\ kernel' = s /\ sys' = s
  /\ plan' = BootPlan /\ done' = {} /\ outcome' = "running"
  /\ UNCHANGED <<etc, store, profile, run, disk, oneshot>>

(* Off is also where a boot ends whose activation fails: stage 2 exits. *)
Off ==
  /\ on # "off"
  /\ on' = "off"
  /\ plan' = <<>> /\ done' = {} /\ outcome' = "none" /\ oneshot' = "none"
  /\ run' = EmptyRun
  /\ disk' = [disk EXCEPT !.dirs = @ \ Volatile]
  /\ UNCHANGED <<etc, kernel, store, profile, sys>>

-----------------------------------------------------------------------------
(* An installed machine that was never booted. *)
Init ==
  /\ etc = None
  /\ on = "off" /\ kernel = None
  /\ store \in {{s} : s \in Systems} /\ profile \in store /\ sys = None
  /\ plan = <<>> /\ done = {} /\ outcome = "none"
  /\ run = EmptyRun /\ oneshot = "none"
  /\ disk = [dirs |-> {}, bin |-> [c \in AllCommands |-> None], modules |-> None, shadow |-> "none"]

ActivateStep ==
  \/ Check \/ SkipSwitch \/ SyncEtc \/ MountFs \/ SetFirmware \/ LinkModules
  \/ \E field \in {"current", "booted"} : LinkSystem(field)
  \/ \E d \in AllDirs : MakeDir(d)
  \/ \E p \in Programs : Wrap(p)
  \/ \E c \in AllCommands : LinkCommand(c)
  \/ LoopDone \/ WrappersFail
  \/ InitServices \/ UpdateServices \/ FailSwitch

Next ==
  \/ ActivateStep \/ Secrets \/ SecretsByHand \/ ApplyShadow
  \/ \E s \in Systems : Boot(s) \/ \E next \in {<<>>, SwitchPlan} : Rebuild(s, next)
  \/ CollectGarbage \/ Off

Spec == Init /\ [][Next]_vars

-----------------------------------------------------------------------------
(* After a boot or a switch that has said it was successful, everything the
   system at hand provides is in use from that system and no other: /etc, the
   current system, its directories, each of its commands, its firmware, its
   services where services run, and each of its wrappers unless there was a
   warning (main.rs:97).  An earlier switch that failed half way, or was
   skipped, leaves nothing of these which the next one does not put right.  And
   where it has no firmware, there is none of another system unless the user
   forced the switch (rebuild.sh:52).  What only another system provides is not
   in question here: see OnlyItsOwn. *)
SwitchedWhole ==
  outcome \in {"ok", "warned"} =>
    /\ etc = sys /\ run.current = sys
    /\ run.services # None /\ sys \in Databases => run.services = sys
    /\ StateDirs[sys] \subseteq disk.dirs
    /\ \A c \in Commands[sys] : disk.bin[c] = sys
    /\ outcome = "ok" => \A p \in Wrappers[sys] : run.wrappers[p] = sys
    /\ IF sys \in Firmware THEN run.firmware = sys ELSE ~Forced => run.firmware = None

(* After a successful boot or switch the commands and wrappers are those of the
   system at hand only.  They are not: see the findings. *)
OnlyItsOwn ==
  outcome = "ok" =>
    /\ \A c \in AllCommands : disk.bin[c] \in {None, sys}
    /\ \A p \in Programs : run.wrappers[p] \in {None, sys}

(* The running kernel never has to do with modules, firmware or drivers of a
   system built for another one, whatever was rebuilt, skipped, collected and
   switched since the boot, unless the user forces it (rebuild.sh:47). *)
KernelMatches ==
  /\ on = "up" /\ kernel \in Modules => disk.modules = kernel
  /\ ~Forced => \A field \in {"current", "services", "firmware"} :
       run[field] # None => BootedFiles[run[field]] = BootedFiles[kernel]

(* A password that was supplied from a secret stays until the next boot.  It
   does not: see the findings. *)
PasswordsStay == [][disk.shadow = "set" => disk'.shadow = "set" \/ on # "up"]_vars
=============================================================================
