-------------------------- MODULE Activation_proofs --------------------------
(* For all systems and any history of rebuilds, failed switches, collections of  *)
(* the store and boots: the kernel that runs never meets modules, firmware,      *)
(* drivers or services of a system built for another one, and after an           *)
(* activation that says it was successful everything its system provides is in   *)
(* use from that system.                                                         *)
EXTENDS Activation, Integers, TLAPS

Fields == {"current", "services", "firmware"}

StepNames == {"etc", "mounts", "current", "booted", "dirs", "wrappers", "modules", "firmware",
              "bin", "services", "check"}

Shape ==
  /\ {"current", "booted", "services", "firmware", "secrets", "wrappers"} \subseteq DOMAIN run
  /\ {"dirs", "bin", "modules", "shadow"} \subseteq DOMAIN disk
  /\ plan \in Seq(StepNames)
  /\ on \in {"off", "stage2", "up"}

Has(name) == \E i \in 1..Len(plan) : plan[i] = name

\* What is still to come of a boot: it ends with the services, and what must be
\* there by then is there or still to come.
Booting ==
  /\ sys = kernel
  /\ ~Has("check")
  /\ \A i \in 1..Len(plan) : plan[i] = "services" => i = Len(plan)
  /\ \A i \in 1..Len(plan) : plan[i] = "mounts" => \E j \in (i + 1)..Len(plan) : plan[j] = "booted"
  /\ run.booted = kernel \/ Has("booted")
  /\ kernel \in Modules => disk.modules = kernel \/ Has("modules")

\* What is still to come of a switch: nothing that only a boot does, and the
\* check, unless it was passed.
Switching ==
  /\ run.booted = kernel
  /\ kernel \in Modules => disk.modules = kernel
  /\ ~Has("mounts") /\ ~Has("booted") /\ ~Has("modules")
  /\ \A i \in 1..Len(plan) : plan[i] = "check" => i = 1
  /\ plan # <<>> /\ plan[1] # "check" => Forced \/ BootedFiles[sys] = BootedFiles[kernel]

Matches ==
  ~Forced => \A f \in Fields : run[f] # None => BootedFiles[run[f]] = BootedFiles[kernel]

IInv ==
  /\ Shape
  /\ on = "off" => run = EmptyRun /\ plan = <<>>
  /\ on = "stage2" => Booting
  /\ on = "up" => Switching
  /\ Matches

-----------------------------------------------------------------------------
LEMMA EmptyRunIs ==
  /\ {"current", "booted", "services", "firmware", "secrets", "wrappers"} \subseteq DOMAIN EmptyRun
  /\ \A f \in Fields : EmptyRun[f] = None
  BY DEF EmptyRun, Fields

LEMMA PlansAre ==
  /\ BootPlan \in Seq(StepNames) /\ Len(BootPlan) = 10
  /\ SwitchPlan \in Seq(StepNames) /\ Len(SwitchPlan) = 8
<1>1. BootPlan \in Seq(StepNames)
  BY DEF BootPlan, StepNames
<1>2. Len(BootPlan) = 10
  BY DEF BootPlan
<1>3. SwitchPlan \in Seq(StepNames)
  BY DEF SwitchPlan, StepNames
<1>4. Len(SwitchPlan) = 8
  BY DEF SwitchPlan
<1> QED
  BY <1>1, <1>2, <1>3, <1>4

LEMMA InitInv == Init => IInv
<1> SUFFICES ASSUME Init PROVE IInv
  OBVIOUS
<1>1. Shape
  BY EmptyRunIs DEF Init, Shape
<1>2. Matches
  BY EmptyRunIs DEF Init, Matches
<1> QED
  BY <1>1, <1>2 DEF Init, IInv

\* The steps left after the one at hand.
LEMMA TailIs ==
  ASSUME plan \in Seq(StepNames), plan # <<>>, plan' = Tail(plan)
  PROVE  /\ plan' \in Seq(StepNames) /\ Len(plan) \in Nat \ {0} /\ Len(plan') = Len(plan) - 1
         /\ \A i \in 1..Len(plan') : plan'[i] = plan[i + 1] /\ i + 1 \in 1..Len(plan)
         /\ Head(plan) = plan[1]
  OBVIOUS

\* A step of a boot that is not the last keeps what is still to come, when it has
\* done what it stands for.
LEMMA BootGoesOn ==
  ASSUME Shape, Booting, plan # <<>>, plan' = Tail(plan), UNCHANGED <<sys, kernel>>,
         plan[1] # "mounts" => run'.booted = run.booted \/ run'.booted = kernel,
         plan[1] = "booted" => run'.booted = kernel,
         plan[1] # "modules" => disk'.modules = disk.modules,
         plan[1] = "modules" /\ kernel \in Modules => disk'.modules = kernel
  PROVE  Booting'
<1>1. /\ plan \in Seq(StepNames) /\ Len(plan) \in Nat \ {0} /\ Len(plan') = Len(plan) - 1
      /\ \A i \in 1..Len(plan') : plan'[i] = plan[i + 1] /\ i + 1 \in 1..Len(plan)
  BY TailIs DEF Shape
<1>2. \A i \in 2..Len(plan) : i - 1 \in 1..Len(plan') /\ plan'[i - 1] = plan[i]
  BY <1>1
<1>3. ASSUME NEW i \in 1..Len(plan), i # 1 PROVE i - 1 \in 1..Len(plan') /\ plan'[i - 1] = plan[i]
  BY <1>1, <1>2, <1>3
<1>4. sys' = kernel' /\ ~Has("check")'
  BY <1>1 DEF Booting, Has
<1>5. ASSUME NEW i \in 1..Len(plan'), plan'[i] = "services" PROVE i = Len(plan')
  <2>1. i + 1 \in 1..Len(plan) /\ plan[i + 1] = "services"
    BY <1>1, <1>5
  <2>2. i + 1 = Len(plan)
    BY <2>1 DEF Booting
  <2>3. Len(plan) \in Nat /\ Len(plan') = Len(plan) - 1 /\ i \in Int
    BY <1>1
  <2> QED
    BY <2>2, <2>3
<1>6. ASSUME NEW i \in 1..Len(plan'), plan'[i] = "mounts"
      PROVE  \E j \in (i + 1)..Len(plan') : plan'[j] = "booted"
  <2>1. i + 1 \in 1..Len(plan) /\ plan[i + 1] = "mounts"
    BY <1>1, <1>6
  <2>2. PICK j \in (i + 1 + 1)..Len(plan) : plan[j] = "booted"
    BY <2>1 DEF Booting
  <2>3. j - 1 \in (i + 1)..Len(plan') /\ plan'[j - 1] = "booted"
    BY <1>1, <1>3, <2>2
  <2> QED
    BY <2>3
<1>7. run'.booted = kernel' \/ Has("booted")'
  <2>1. CASE plan[1] = "mounts"
    <3>0. 1 \in 1..Len(plan)
      BY <1>1
    <3>1. PICK j \in (1 + 1)..Len(plan) : plan[j] = "booted"
      BY <2>1, <3>0 DEF Booting
    <3>2. j - 1 \in 1..Len(plan') /\ plan'[j - 1] = "booted"
      BY <1>2, <3>1
    <3> QED
      BY <3>2 DEF Has
  <2>2. CASE plan[1] = "booted"
    BY <2>2
  <2>3. CASE plan[1] # "mounts" /\ plan[1] # "booted" /\ Has("booted")
    <3>1. PICK j \in 1..Len(plan) : plan[j] = "booted"
      BY <2>3 DEF Has
    <3>2. j - 1 \in 1..Len(plan') /\ plan'[j - 1] = "booted"
      BY <1>3, <2>3, <3>1
    <3> QED
      BY <3>2 DEF Has
  <2> QED
    BY <2>1, <2>2, <2>3 DEF Booting
<1>8. kernel' \in Modules => disk'.modules = kernel' \/ Has("modules")'
  <2>1. CASE plan[1] = "modules"
    BY <2>1
  <2>2. CASE plan[1] # "modules" /\ Has("modules")
    <3>1. PICK j \in 1..Len(plan) : plan[j] = "modules"
      BY <2>2 DEF Has
    <3>2. j - 1 \in 1..Len(plan') /\ plan'[j - 1] = "modules"
      BY <1>3, <2>2, <3>1
    <3> QED
      BY <3>2 DEF Has
  <2> QED
    BY <2>1, <2>2 DEF Booting
<1> QED
  BY <1>4, <1>5, <1>6, <1>7, <1>8 DEF Booting

\* A step of a switch.
LEMMA SwitchGoesOn ==
  ASSUME Shape, Switching, plan # <<>>, plan' = Tail(plan), UNCHANGED <<sys, kernel>>,
         run'.booted = run.booted, disk'.modules = disk.modules,
         plan[1] = "check" => Forced \/ BootedFiles[sys] = BootedFiles[kernel]
  PROVE  Switching'
<1>1. /\ plan \in Seq(StepNames) /\ Len(plan) \in Nat \ {0} /\ Len(plan') = Len(plan) - 1
      /\ \A i \in 1..Len(plan') : plan'[i] = plan[i + 1] /\ i + 1 \in 1..Len(plan)
  BY TailIs DEF Shape
<1>2. ~Has("mounts")' /\ ~Has("booted")' /\ ~Has("modules")'
  BY <1>1 DEF Switching, Has
<1>3. \A i \in 1..Len(plan') : plan'[i] # "check"
  BY <1>1 DEF Switching
<1>4. Forced \/ BootedFiles[sys] = BootedFiles[kernel]
  BY DEF Switching
<1> QED
  BY <1>2, <1>3, <1>4 DEF Switching

-----------------------------------------------------------------------------
(* The steps of an activation.  Each keeps what it does not do.            *)

\* What a step may change without touching what matters here.
LEMMA StepKeeps ==
  ASSUME IInv, on # "off", plan # <<>>, plan' = Tail(plan), UNCHANGED <<on, kernel, sys>>,
         DOMAIN run' = DOMAIN run, DOMAIN disk' = DOMAIN disk,
         \A f \in Fields : run'[f] = run[f] \/ run'[f] = sys,
         plan[1] # "booted" => run'.booted = run.booted,
         plan[1] = "booted" => run'.booted = kernel,
         plan[1] # "modules" => disk'.modules = disk.modules,
         plan[1] = "modules" /\ kernel \in Modules => disk'.modules = kernel,
         plan[1] = "check" => UNCHANGED run /\ (Forced \/ BootedFiles[sys] = BootedFiles[kernel]),
         plan[1] # "mounts"
  PROVE  IInv'
<1>1. Shape'
  BY TailIs DEF IInv, Shape
<1>2. Matches'
  <2>1. CASE on = "stage2"
    BY <2>1 DEF IInv, Booting, Matches
  <2>2. CASE on = "up"
    BY <2>2 DEF IInv, Switching, Matches
  <2> QED
    BY <2>1, <2>2 DEF IInv, Shape
<1>3. CASE on = "stage2"
  <2>1. Booting'
    BY <1>3, BootGoesOn DEF IInv
  <2> QED
    BY <1>1, <1>2, <1>3, <2>1 DEF IInv
<1>4. CASE on = "up"
  <2>1. 1 \in 1..Len(plan)
    BY TailIs DEF IInv, Shape
  <2>2. plan[1] # "booted" /\ plan[1] # "modules"
    BY <1>4, <2>1 DEF IInv, Switching, Has
  <2>3. Switching'
    BY <1>4, <2>2, SwitchGoesOn DEF IInv
  <2> QED
    BY <1>1, <1>2, <1>4, <2>3 DEF IInv
<1> QED
  BY <1>3, <1>4 DEF IInv, Shape

\* A step that changes neither the plan nor anything a boot or a switch relies on.
LEMMA NothingChanges ==
  ASSUME IInv, UNCHANGED <<on, kernel, sys, plan>>,
         DOMAIN run' = DOMAIN run, DOMAIN disk' = DOMAIN disk,
         \A f \in Fields : run'[f] = run[f], run'.booted = run.booted,
         on = "off" => UNCHANGED run,
         disk'.modules = disk.modules
  PROVE  IInv'
<1>1. Shape'
  BY DEF IInv, Shape
<1>2. Matches'
  BY DEF IInv, Matches
<1>3. on' = "off" => run' = EmptyRun' /\ plan' = <<>>
  BY DEF IInv, EmptyRun, Programs
<1>4. on' = "stage2" => Booting'
  BY DEF IInv, Booting, Has
<1>5. on' = "up" => Switching'
  BY DEF IInv, Switching, Has
<1> QED
  BY <1>1, <1>2, <1>3, <1>4, <1>5 DEF IInv

\* A switch that ends.
LEMMA Stops ==
  ASSUME IInv, on = "up", plan' = <<>>, UNCHANGED <<on, kernel, run, disk>>
  PROVE  IInv'
<1>1. Shape'
  BY DEF IInv, Shape
<1>2. Matches'
  BY DEF IInv, Matches
<1>3. Switching'
  BY DEF IInv, Switching, Has
<1> QED
  BY <1>1, <1>2, <1>3 DEF IInv

\* Step(name) says that name is the first of the steps.
LEMMA FirstStep ==
  ASSUME Shape, NEW name, Step(name)
  PROVE  plan # <<>> /\ plan[1] = name
  BY TailIs DEF Shape, Step

LEMMA CheckInv == ASSUME IInv, Check PROVE IInv'
<1>1. plan # <<>> /\ plan[1] = "check" /\ 1 \in 1..Len(plan)
  BY FirstStep DEF IInv, Check, Shape
<1>2. on = "up"
  <2>1. on # "off"
    BY <1>1 DEF IInv, Shape
  <2> QED
    BY <1>1 DEF IInv, Shape, Booting, Has
<1>3. run.booted = kernel
  BY <1>2 DEF IInv, Switching
<1>4. Forced \/ BootedFiles[sys] = BootedFiles[kernel]
  BY <1>3 DEF Check, NeedsReboot
<1>5. plan' = Tail(plan) /\ UNCHANGED <<on, kernel, sys, run, disk>>
  BY DEF Check, Finish, Idle
<1> QED
  BY <1>1, <1>2, <1>4, <1>5, StepKeeps

LEMMA SkipSwitchInv == ASSUME IInv, SkipSwitch PROVE IInv'
<1>1. plan # <<>> /\ plan[1] = "check" /\ 1 \in 1..Len(plan)
  BY FirstStep DEF IInv, SkipSwitch, Shape
<1>2. on = "up"
  BY <1>1 DEF IInv, Shape, Booting, Has
<1>3. plan' = <<>> /\ UNCHANGED <<on, kernel, run, disk>>
  BY DEF SkipSwitch, Idle
<1> QED
  BY <1>2, <1>3, Stops

LEMMA SyncEtcInv == ASSUME IInv, SyncEtc PROVE IInv'
<1>1. plan # <<>> /\ plan[1] = "etc" /\ on # "off"
  BY FirstStep DEF IInv, SyncEtc, Shape
<1>2. plan' = Tail(plan) /\ UNCHANGED <<on, kernel, sys, run>> /\ disk' = [disk EXCEPT !.shadow = "locked"]
  BY DEF SyncEtc, Finish, Idle
<1>3. DOMAIN disk' = DOMAIN disk /\ disk'.modules = disk.modules
  BY <1>2
<1> QED
  BY <1>1, <1>2, <1>3, StepKeeps

LEMMA LoopDoneInv == ASSUME IInv, LoopDone PROVE IInv'
<1>1. plan # <<>> /\ plan[1] \in {"dirs", "wrappers", "bin"} /\ on # "off"
  BY FirstStep DEF IInv, LoopDone, Shape
<1>2. plan' = Tail(plan) /\ UNCHANGED <<on, kernel, sys, run, disk>>
  BY DEF LoopDone, Finish, Idle
<1> QED
  BY <1>1, <1>2, StepKeeps

LEMMA WrappersFailInv == ASSUME IInv, WrappersFail PROVE IInv'
<1>1. plan # <<>> /\ plan[1] = "wrappers" /\ on # "off"
  BY FirstStep DEF IInv, WrappersFail, Shape
<1>2. plan' = Tail(plan) /\ UNCHANGED <<on, kernel, sys, run, disk>>
  BY DEF WrappersFail, Finish, Idle
<1> QED
  BY <1>1, <1>2, StepKeeps

LEMMA UpdateServicesInv == ASSUME IInv, UpdateServices PROVE IInv'
<1>1. plan # <<>> /\ plan[1] = "services" /\ on = "up"
  BY FirstStep DEF IInv, UpdateServices, Shape
<1>2. /\ plan' = Tail(plan) /\ UNCHANGED <<on, kernel, sys, disk>>
      /\ run' = [run EXCEPT !["services"] = sys] \/ run' = run
  BY DEF UpdateServices, Finish, Idle, SetRun
<1>3. /\ DOMAIN run' = DOMAIN run /\ run'.booted = run.booted
      /\ \A f \in Fields : run'[f] = run[f] \/ run'[f] = sys
  BY <1>2 DEF Fields, IInv, Shape
<1> QED
  BY <1>1, <1>2, <1>3, StepKeeps

\* A step that sets a field of /run.
LEMMA SetRunKeeps ==
  ASSUME IInv, NEW field \in {"current", "booted", "firmware"}, plan # <<>>, plan[1] = field,
         plan' = Tail(plan), UNCHANGED <<on, kernel, sys, disk>>, SetRun(field)
  PROVE  IInv'
<1>1. on # "off"
  BY DEF IInv, Shape
<1>2. run' = [run EXCEPT ![field] = sys]
  BY DEF SetRun
<1>3. /\ DOMAIN run' = DOMAIN run
      /\ \A f \in Fields : run'[f] = run[f] \/ run'[f] = sys
      /\ field # "booted" => run'.booted = run.booted
      /\ field = "booted" => run'.booted = sys
  BY <1>2 DEF Fields, IInv, Shape
<1>4. field = "booted" => on = "stage2"
  BY <1>1 DEF IInv, Shape, Switching, Has
<1>5. field = "booted" => sys = kernel
  BY <1>4 DEF IInv, Booting
<1> QED
  BY <1>1, <1>3, <1>5, StepKeeps

LEMMA MountFsInv == ASSUME IInv, MountFs PROVE IInv'
<1>1. plan # <<>> /\ plan[1] = "mounts" /\ 1 \in 1..Len(plan)
  BY FirstStep DEF IInv, MountFs, Shape
<1>2. on = "stage2"
  BY <1>1 DEF IInv, Shape, Switching, Has
<1>3. plan' = Tail(plan) /\ run' = EmptyRun /\ UNCHANGED <<on, kernel, sys, disk>>
  BY DEF MountFs, Finish, Idle
<1>4. Booting'
  BY <1>1, <1>2, <1>3, BootGoesOn DEF IInv
<1>5. Shape'
  BY <1>1, <1>3, EmptyRunIs, TailIs DEF IInv, Shape
<1>6. Matches'
  BY <1>3, EmptyRunIs DEF Matches
<1> QED
  BY <1>2, <1>3, <1>4, <1>5, <1>6 DEF IInv

LEMMA LinkSystemInv == ASSUME IInv, NEW field \in {"current", "booted"}, LinkSystem(field) PROVE IInv'
<1>1. plan # <<>> /\ plan[1] = field
  BY FirstStep DEF IInv, LinkSystem
<1>2. plan' = Tail(plan) /\ UNCHANGED <<on, kernel, sys, disk>> /\ SetRun(field)
  BY DEF LinkSystem, Finish, Idle
<1> QED
  BY <1>1, <1>2, SetRunKeeps

LEMMA SetFirmwareInv == ASSUME IInv, SetFirmware PROVE IInv'
<1>1. plan # <<>> /\ plan[1] = "firmware" /\ on # "off"
  BY FirstStep DEF IInv, SetFirmware, Shape
<1>2. plan' = Tail(plan) /\ UNCHANGED <<on, kernel, sys, disk>>
  BY DEF SetFirmware, Finish, Idle
<1>3. SetRun("firmware") \/ UNCHANGED run
  BY DEF SetFirmware
<1>4. CASE SetRun("firmware")
  BY <1>1, <1>2, <1>4, SetRunKeeps
<1>5. CASE UNCHANGED run
  BY <1>1, <1>2, <1>5, StepKeeps
<1> QED
  BY <1>3, <1>4, <1>5

LEMMA LinkModulesInv == ASSUME IInv, LinkModules PROVE IInv'
<1>1. plan # <<>> /\ plan[1] = "modules" /\ 1 \in 1..Len(plan)
  BY FirstStep DEF IInv, LinkModules, Shape
<1>2. on = "stage2" /\ sys = kernel
  BY <1>1 DEF IInv, Shape, Switching, Booting, Has
<1>3. plan' = Tail(plan) /\ UNCHANGED <<on, kernel, sys, run>>
  BY DEF LinkModules, Finish, Idle
<1>4. disk' = [disk EXCEPT !.modules = IF sys \in Modules THEN sys ELSE disk.modules]
  BY DEF LinkModules
<1>5. DOMAIN disk' = DOMAIN disk /\ (kernel \in Modules => disk'.modules = kernel)
  BY <1>2, <1>4 DEF IInv, Shape
<1> QED
  BY <1>1, <1>2, <1>3, <1>5, StepKeeps

LEMMA MakeDirInv == ASSUME IInv, NEW x, MakeDir(x) PROVE IInv'
<1>1. UNCHANGED <<on, kernel, sys, plan, run>>
  BY DEF MakeDir, Idle
<1>2. disk' = [disk EXCEPT !.dirs = disk.dirs \cup {x}]
  BY DEF MakeDir
<1>3. DOMAIN disk' = DOMAIN disk /\ disk'.modules = disk.modules
  BY <1>2
<1> QED
  BY <1>1, <1>3, NothingChanges

LEMMA WrapInv == ASSUME IInv, NEW x, Wrap(x) PROVE IInv'
<1>1. UNCHANGED <<on, kernel, sys, plan, disk>> /\ on # "off"
  BY DEF Wrap, Idle, IInv, Step
<1>2. run' = [run EXCEPT !.wrappers[x] = etc]
  BY DEF Wrap
<1>3. /\ DOMAIN run' = DOMAIN run /\ run'.booted = run.booted
      /\ \A f \in Fields : run'[f] = run[f]
  BY <1>2 DEF IInv, Shape, Fields
<1> QED
  BY <1>1, <1>3, NothingChanges

LEMMA LinkCommandInv == ASSUME IInv, NEW x, LinkCommand(x) PROVE IInv'
<1>1. UNCHANGED <<on, kernel, sys, plan, run>>
  BY DEF LinkCommand, Idle
<1>2. disk' = [disk EXCEPT !.bin[x] = sys]
  BY DEF LinkCommand
<1>3. DOMAIN disk' = DOMAIN disk /\ disk'.modules = disk.modules
  BY <1>2
<1> QED
  BY <1>1, <1>3, NothingChanges

LEMMA InitServicesInv == ASSUME IInv, InitServices PROVE IInv'
<1>1. plan # <<>> /\ plan[1] = "services" /\ on = "stage2" /\ plan \in Seq(StepNames) /\ 1 \in 1..Len(plan)
  BY FirstStep DEF IInv, InitServices, Shape
<1>2. Booting /\ Len(plan) = 1
  BY <1>1 DEF IInv, Booting
<1>3. /\ plan' = Tail(plan) /\ on' = "up" /\ UNCHANGED <<kernel, sys, disk>>
      /\ run' = [run EXCEPT !["services"] = sys] \/ run' = run
  BY DEF InitServices, Finish, SetRun
<1>4. plan' = <<>>
  BY <1>1, <1>2, <1>3, TailIs
<1>5. /\ DOMAIN run' = DOMAIN run /\ run'.booted = run.booted
      /\ \A f \in Fields : run'[f] = run[f] \/ run'[f] = sys
  BY <1>3 DEF Fields, IInv, Shape
<1>6. run.booted = kernel /\ sys = kernel /\ (kernel \in Modules => disk.modules = kernel)
  BY <1>1, <1>2 DEF Booting, Has
<1>a. on' = "up" /\ UNCHANGED <<kernel, sys, disk>>
  BY <1>3
<1>b. plan' \in Seq(StepNames) /\ Len(plan') = 0
  BY <1>4
<1>7. Shape'
  BY <1>a, <1>b, <1>5 DEF IInv, Shape
<1>8. Matches'
  BY <1>a, <1>5, <1>6 DEF IInv, Matches
<1>9. Switching'
  BY <1>a, <1>b, <1>4, <1>5, <1>6 DEF Switching, Has
<1> QED
  BY <1>a, <1>7, <1>8, <1>9 DEF IInv

LEMMA FailSwitchInv == ASSUME IInv, FailSwitch PROVE IInv'
  BY Stops DEF FailSwitch, Idle

-----------------------------------------------------------------------------
(* The services, and what people do.                                       *)

LEMMA SecretsInv == ASSUME IInv, Secrets \/ SecretsByHand PROVE IInv'
<1>1. UNCHANGED <<on, kernel, sys, plan, disk>> /\ on = "up"
  BY DEF Secrets, SecretsByHand, Idle
<1>2. run' = [run EXCEPT !.secrets = etc] \/ UNCHANGED run
  BY DEF Secrets, SecretsByHand
<1>3. /\ DOMAIN run' = DOMAIN run /\ run'.booted = run.booted
      /\ \A f \in Fields : run'[f] = run[f]
  BY <1>2 DEF IInv, Shape, Fields
<1> QED
  BY <1>1, <1>3, NothingChanges

LEMMA ApplyShadowInv == ASSUME IInv, ApplyShadow PROVE IInv'
<1>1. UNCHANGED <<on, kernel, sys, plan, run>>
  BY DEF ApplyShadow, Idle
<1>2. disk' = [disk EXCEPT !.shadow = IF HasHash THEN "set" ELSE disk.shadow]
  BY DEF ApplyShadow
<1>3. DOMAIN disk' = DOMAIN disk /\ disk'.modules = disk.modules
  BY <1>2
<1> QED
  BY <1>1, <1>3, NothingChanges

\* A rebuild begins a switch with its check.
LEMMA RebuildInv == ASSUME IInv, NEW s, NEW next \in {<<>>, SwitchPlan}, Rebuild(s, next) PROVE IInv'
<1>1. on = "up" /\ plan = <<>> /\ plan' = next /\ UNCHANGED <<on, kernel, run, disk>>
  BY DEF Rebuild
<1>2. CASE next = <<>>
  BY <1>1, <1>2, Stops
<1>3. CASE next = SwitchPlan
  <2>1. Shape'
    BY <1>1, <1>3, PlansAre DEF IInv, Shape
  <2>2. Matches'
    BY <1>1 DEF IInv, Matches
  <2>3. /\ Len(SwitchPlan) = 8 /\ SwitchPlan[1] = "check"
        /\ \A i \in 1..8 : SwitchPlan[i] \notin {"mounts", "booted", "modules"}
        /\ \A i \in 1..8 : SwitchPlan[i] = "check" => i = 1
    BY DEF SwitchPlan
  <2>4. Switching'
    BY <1>1, <1>3, <2>3 DEF IInv, Switching, Has
  <2> QED
    BY <1>1, <2>1, <2>2, <2>4 DEF IInv
<1> QED
  BY <1>2, <1>3

LEMMA CollectGarbageInv == ASSUME IInv, CollectGarbage PROVE IInv'
  BY NothingChanges DEF CollectGarbage

LEMMA BootInv == ASSUME IInv, NEW s, Boot(s) PROVE IInv'
<1>1. /\ on = "off" /\ on' = "stage2" /\ kernel' = s /\ sys' = s
      /\ plan' = BootPlan /\ UNCHANGED <<run, disk>>
  BY DEF Boot
<1>2. run = EmptyRun
  BY <1>1 DEF IInv
<1>3. Shape'
  BY <1>1, PlansAre DEF IInv, Shape
<1>4. Matches'
  BY <1>1, <1>2, EmptyRunIs DEF Matches
<1>5. /\ Len(BootPlan) = 10 /\ BootPlan[4] = "booted" /\ BootPlan[7] = "modules"
      /\ \A i \in 1..10 : BootPlan[i] # "check"
      /\ \A i \in 1..10 : BootPlan[i] = "services" => i = 10
      /\ \A i \in 1..10 : BootPlan[i] = "mounts" => i = 2
  BY DEF BootPlan
<1>6. Has("booted")' /\ Has("modules")'
  BY <1>1, <1>5 DEF Has
<1>7. \A i \in 1..Len(plan') : plan'[i] = "mounts" => \E j \in (i + 1)..Len(plan') : plan'[j] = "booted"
  <2>1. 4 \in (2 + 1)..Len(plan')
    BY <1>1, <1>5
  <2> QED
    BY <1>1, <1>5, <2>1
<1>8. ~Has("check")' /\ \A i \in 1..Len(plan') : plan'[i] = "services" => i = Len(plan')
  BY <1>1, <1>5 DEF Has
<1>9. Booting'
  BY <1>1, <1>6, <1>7, <1>8 DEF Booting
<1> QED
  BY <1>1, <1>3, <1>4, <1>9 DEF IInv

LEMMA OffInv == ASSUME IInv, Off PROVE IInv'
<1>1. on' = "off" /\ plan' = <<>> /\ run' = EmptyRun
  BY DEF Off
<1>2. disk' = [disk EXCEPT !.dirs = disk.dirs \ Volatile]
  BY DEF Off
<1>3. DOMAIN disk' = DOMAIN disk
  BY <1>2
<1>4. Shape'
  BY <1>1, <1>3, EmptyRunIs DEF IInv, Shape
<1>5. Matches'
  BY <1>1, EmptyRunIs DEF Matches
<1> QED
  BY <1>1, <1>4, <1>5 DEF IInv

LEMMA NextInv == ASSUME IInv, [Next]_vars PROVE IInv'
<1>1. CASE ActivateStep
  BY <1>1, CheckInv, SkipSwitchInv, SyncEtcInv, MountFsInv, LinkSystemInv, SetFirmwareInv,
     LinkModulesInv, MakeDirInv, WrapInv, LinkCommandInv, LoopDoneInv, WrappersFailInv, InitServicesInv,
     UpdateServicesInv, FailSwitchInv DEF ActivateStep
<1>2. CASE Secrets \/ SecretsByHand
  BY <1>2, SecretsInv
<1>3. CASE ApplyShadow
  BY <1>3, ApplyShadowInv
<1>4. CASE \E s \in Systems : Boot(s)
  BY <1>4, BootInv
<1>5. CASE \E s \in Systems : \E next \in {<<>>, SwitchPlan} : Rebuild(s, next)
  BY <1>5, RebuildInv
<1>6. CASE CollectGarbage
  BY <1>6, CollectGarbageInv
<1>7. CASE Off
  BY <1>7, OffInv
<1>8. CASE UNCHANGED vars
  BY <1>8, NothingChanges DEF vars
<1> QED
  BY <1>1, <1>2, <1>3, <1>4, <1>5, <1>6, <1>7, <1>8 DEF Next

\* While a machine boots, what the activation of the kernel's own system still has
\* to do is in its plan; once it is up, a switch has passed its check before it
\* changes anything (main.rs:79-145, rebuild.sh:47-61).
THEOREM ActivationInvariant == Spec => []IInv
<1>1. Init => IInv
  BY InitInv
<1>2. IInv /\ [Next]_vars => IInv'
  BY NextInv
<1> QED
  BY <1>1, <1>2, PTL DEF Spec

\* For all systems, and any history of rebuilds, switches that are skipped or fail,
\* collections of the store and boots: the running kernel never has to do with
\* modules, firmware, drivers or services of a system built for another one,
\* unless the user forces it (rebuild.sh:47).
THEOREM KernelAlwaysMatches == Spec => []KernelMatches
<1>1. IInv => KernelMatches
  BY DEF IInv, Switching, Matches, Fields, KernelMatches
<1> QED
  BY <1>1, ActivationInvariant, PTL

-----------------------------------------------------------------------------
(* An activation that says it was successful.                              *)

Courses == {BootPlan, SwitchPlan}

\* p is what is left of a course.
Follows(p, course) ==
  /\ Len(p) <= Len(course)
  /\ \A i \in 1..Len(p) : p[i] = course[Len(course) - Len(p) + i]

\* Each part is the new system's, or its step is still to come; a round of a loop
\* that was made stays made.
Progress ==
  /\ etc = sys \/ Has("etc")
  /\ run.current = sys \/ Has("current")
  /\ StateDirs[sys] \subseteq disk.dirs \/ Has("dirs")
  /\ outcome = "warning" \/ (\A p \in Wrappers[sys] : run.wrappers[p] = sys) \/ Has("wrappers")
  /\ (\A c \in Commands[sys] : disk.bin[c] = sys) \/ Has("bin")
  /\ (sys \in Firmware => run.firmware = sys) \/ Has("firmware")
  /\ plan[1] = "dirs" => done \subseteq disk.dirs
  /\ plan[1] = "wrappers" => \A p \in done : run.wrappers[p] = etc
  /\ plan[1] = "bin" => \A c \in done : disk.bin[c] = sys
  /\ plan[1] \notin {"dirs", "wrappers", "bin"} => done = {}

Tables == DOMAIN run.wrappers = Programs /\ DOMAIN disk.bin = AllCommands

\* The systems that are built, started and have firmware in use.
Known ==
  /\ store \subseteq Systems
  /\ on # "off" => kernel \in Systems
  /\ run.firmware \in Firmware \cup {None}

\* The system at hand is in the store: it was when its boot began, when nothing is
\* collected, and while it is switched to it is the profile.
Underway ==
  /\ on # "off" /\ outcome \in {"running", "warning"}
  /\ sys \in store /\ (on = "up" => sys = profile)
  /\ \E course \in Courses : Follows(plan, course)
  /\ Progress

SInv ==
  /\ Tables /\ Known
  /\ profile \in store
  /\ plan # <<>> => Underway
  /\ outcome \in {"ok", "warned"} => plan = <<>>
  /\ SwitchedWhole

\* No step comes twice, /etc comes before what reads it, the new /run before what
\* is put there, and the services come last.
LEMMA CourseIs ==
  ASSUME NEW course \in Courses
  PROVE  /\ course \in Seq(StepNames) /\ course # <<>>
         /\ \A i, j \in 1..Len(course) : course[i] = course[j] => i = j
         /\ \A i, j \in 1..Len(course) :
              course[i] = "etc" /\ course[j] \in {"dirs", "wrappers", "bin", "services"} => i < j
         /\ \A i \in 1..Len(course) : course[i] = "mounts" =>
              \E j, k, l \in (i + 1)..Len(course) :
                course[j] = "current" /\ course[k] = "wrappers" /\ course[l] = "firmware"
         /\ \A i \in 1..Len(course) : course[i] = "services" => i = Len(course)
<1>1. CASE course = BootPlan
  <2>1. /\ Len(course) = 10 /\ course[1] = "etc" /\ course[2] = "mounts" /\ course[3] = "current"
        /\ course[4] = "booted" /\ course[5] = "dirs" /\ course[6] = "wrappers" /\ course[7] = "modules"
        /\ course[8] = "firmware" /\ course[9] = "bin" /\ course[10] = "services"
    BY <1>1 DEF BootPlan
  <2>2. \A i \in 1..10 : i \in {1, 2, 3, 4, 5, 6, 7, 8, 9, 10}
    OBVIOUS
  <2>3. \A i, j \in 1..10 : course[i] = course[j] => i = j
    BY <2>1, <2>2
  <2>4. \A i \in 1..10 : course[i] = "mounts" => i = 2
    BY <2>1, <2>2
  <2>5. \A i \in 1..10 : course[i] = "mounts" =>
          \E j, k, l \in (i + 1)..10 :
            course[j] = "current" /\ course[k] = "wrappers" /\ course[l] = "firmware"
    <3>1. 3 \in (2 + 1)..10 /\ 6 \in (2 + 1)..10 /\ 8 \in (2 + 1)..10
      OBVIOUS
    <3> QED
      BY <2>1, <2>4, <3>1
  <2>6. \A i, j \in 1..10 : course[i] = "etc" /\ course[j] \in {"dirs", "wrappers", "bin", "services"} => i < j
    BY <2>1, <2>2
  <2>7. \A i \in 1..10 : course[i] = "services" => i = 10
    BY <2>1, <2>2
  <2>8. course \in Seq(StepNames) /\ Len(course) = 10
    BY <1>1, PlansAre
  <2>9. course # <<>>
    BY <2>8
  <2> QED
    BY <2>3, <2>5, <2>6, <2>7, <2>8, <2>9
<1>2. CASE course = SwitchPlan
  <2>1. /\ Len(course) = 8 /\ course[1] = "check" /\ course[2] = "etc" /\ course[3] = "current"
        /\ course[4] = "dirs" /\ course[5] = "wrappers" /\ course[6] = "bin"
        /\ course[7] = "firmware" /\ course[8] = "services"
    BY <1>2 DEF SwitchPlan
  <2>2. \A i \in 1..8 : i \in {1, 2, 3, 4, 5, 6, 7, 8}
    OBVIOUS
  <2>3. \A i, j \in 1..8 : course[i] = course[j] => i = j
    BY <2>1, <2>2
  <2>4. \A i \in 1..8 : course[i] # "mounts"
    BY <2>1, <2>2
  <2>5. \A i, j \in 1..8 : course[i] = "etc" /\ course[j] \in {"dirs", "wrappers", "bin", "services"} => i < j
    BY <2>1, <2>2
  <2>6. \A i \in 1..8 : course[i] = "services" => i = 8
    BY <2>1, <2>2
  <2>7. course \in Seq(StepNames) /\ Len(course) = 8
    BY <1>2, PlansAre
  <2>8. Len(course) = 8 /\ \A i \in 1..Len(course) : course[i] # "mounts"
    BY <2>4, <2>7
  <2> QED
    BY <2>3, <2>5, <2>6, <2>7, <2>8
<1> QED
  BY <1>1, <1>2 DEF Courses

\* What a step leaves still to come.
LEMMA Ahead ==
  ASSUME plan \in Seq(StepNames), plan # <<>>, plan' = Tail(plan),
         NEW course \in Courses, Follows(plan, course)
  PROVE  /\ Follows(plan', course)
         /\ \A name : Has(name)' <=> Has(name) /\ name # plan[1]
         /\ plan[1] \in {"dirs", "wrappers", "bin", "services"} => ~Has("etc")
         /\ plan[1] = "mounts" => Has("current")' /\ Has("wrappers")' /\ Has("firmware")'
         /\ plan[1] = "services" => plan' = <<>>
<1> DEFINE n == Len(course)
           m == Len(plan)
<1>1. /\ m \in Nat \ {0} /\ Len(plan') = m - 1 /\ plan' \in Seq(StepNames)
      /\ \A i \in 1..Len(plan') : plan'[i] = plan[i + 1] /\ i + 1 \in 1..m
  BY TailIs
<1>2. n \in Nat /\ m <= n /\ \A i \in 1..m : plan[i] = course[n - m + i] /\ n - m + i \in 1..n
  BY <1>1, CourseIs DEF Follows
<1>3. Follows(plan', course)
  <2>1. \A i \in 1..(m - 1) : plan'[i] = course[n - m + (i + 1)]
    BY <1>1, <1>2
  <2>2. \A i \in 1..(m - 1) : n - m + (i + 1) = n - (m - 1) + i
    BY <1>1, <1>2
  <2> QED
    BY <1>1, <1>2, <2>1, <2>2 DEF Follows
<1>4. \A i, j \in 1..m : plan[i] = plan[j] => i = j
  <2> SUFFICES ASSUME NEW i \in 1..m, NEW j \in 1..m, plan[i] = plan[j] PROVE i = j
    OBVIOUS
  <2>0. \A a, b \in 1..n : course[a] = course[b] => a = b
    BY CourseIs
  <2>1. n - m + i = n - m + j
    BY <1>2, <2>0
  <2> QED
    BY <1>1, <1>2, <2>1
<1>5. ASSUME NEW name PROVE Has(name)' <=> Has(name) /\ name # plan[1]
  <2>1. ASSUME Has(name)' PROVE Has(name) /\ name # plan[1]
    <3>1. PICK i \in 1..Len(plan') : plan'[i] = name
      BY <2>1 DEF Has
    <3>2. i + 1 \in 1..m /\ plan[i + 1] = name /\ 1 \in 1..m /\ i + 1 # 1
      BY <1>1, <3>1
    <3> QED
      BY <1>4, <3>2 DEF Has
  <2>2. ASSUME Has(name), name # plan[1] PROVE Has(name)'
    <3>1. PICK i \in 1..m : plan[i] = name
      BY <2>2 DEF Has
    <3>2. i - 1 \in 1..Len(plan') /\ (i - 1) + 1 = i
      BY <1>1, <2>2, <3>1
    <3>3. plan'[i - 1] = name
      BY <1>1, <3>1, <3>2
    <3> QED
      BY <3>2, <3>3 DEF Has
  <2> QED
    BY <2>1, <2>2
<1>6. ASSUME plan[1] \in {"dirs", "wrappers", "bin", "services"}, Has("etc") PROVE FALSE
  <2>1. PICK i \in 1..m : plan[i] = "etc"
    BY <1>6 DEF Has
  <2>2. /\ course[n - m + i] = "etc" /\ n - m + i \in 1..n /\ n - m + 1 \in 1..n
        /\ course[n - m + 1] \in {"dirs", "wrappers", "bin", "services"}
    BY <1>1, <1>2, <1>6, <2>1
  <2>3. n - m + i < n - m + 1
    BY <2>2, CourseIs
  <2> QED
    BY <1>1, <1>2, <2>1, <2>3
<1>7. ASSUME plan[1] = "mounts" PROVE Has("current")' /\ Has("wrappers")' /\ Has("firmware")'
  <2>0. course[n - m + 1] = "mounts" /\ n - m + 1 \in 1..n
    BY <1>1, <1>2, <1>7
  <2>1. PICK j, k, l \in (n - m + 1 + 1)..n :
          course[j] = "current" /\ course[k] = "wrappers" /\ course[l] = "firmware"
    BY <2>0, CourseIs
  <2>2. /\ j - (n - m) \in 1..m /\ plan[j - (n - m)] = "current"
        /\ k - (n - m) \in 1..m /\ plan[k - (n - m)] = "wrappers"
        /\ l - (n - m) \in 1..m /\ plan[l - (n - m)] = "firmware"
    BY <1>1, <1>2, <2>1
  <2>3. Has("current") /\ Has("wrappers") /\ Has("firmware")
    BY <2>2 DEF Has
  <2> QED
    BY <1>5, <1>7, <2>3
<1>8. ASSUME plan[1] = "services" PROVE plan' = <<>>
  <2>1. n - m + 1 = n
    BY <1>1, <1>2, <1>8, CourseIs
  <2> QED
    BY <1>1, <1>2, <2>1
<1> QED
  BY <1>3, <1>5, <1>6, <1>7, <1>8

\* The step at hand ends, and it has done its part; the services are for later.
LEMMA PartDone ==
  ASSUME IInv, SInv, plan # <<>>, plan[1] # "services", plan' = Tail(plan), done' = {},
         UNCHANGED <<on, kernel, store, profile, sys>>,
         outcome' = outcome \/ outcome' = "warning",
         etc' = IF plan[1] = "etc" THEN sys ELSE etc,
         plan[1] # "mounts" => run'.wrappers = run.wrappers,
         plan[1] \notin {"current", "mounts"} => run'.current = run.current,
         plan[1] = "current" => run'.current = sys,
         plan[1] \notin {"firmware", "mounts"} => run'.firmware = run.firmware,
         plan[1] = "firmware" /\ sys \in Firmware => run'.firmware = sys,
         run'.firmware \in Firmware \cup {None},
         disk'.dirs = disk.dirs, disk'.bin = disk.bin, DOMAIN run'.wrappers = Programs,
         plan[1] = "dirs" => StateDirs[sys] \subseteq disk.dirs,
         plan[1] = "wrappers" => outcome' = "warning" \/ \A p \in Wrappers[sys] : run.wrappers[p] = sys,
         plan[1] = "bin" => \A c \in Commands[sys] : disk.bin[c] = sys
  PROVE  SInv'
<1>1. Underway /\ Tables /\ profile \in store
  BY DEF SInv
<1>2. PICK course \in Courses : Follows(plan, course)
  BY <1>1 DEF Underway
<1>3. /\ Follows(plan', course)
      /\ \A name : Has(name)' <=> Has(name) /\ name # plan[1]
      /\ plan[1] = "mounts" => Has("current")' /\ Has("wrappers")' /\ Has("firmware")'
  BY <1>2, Ahead DEF IInv, Shape
<1>4. Tables' /\ Known'
  BY <1>1 DEF SInv, Tables, Known, Programs, AllCommands
<1>5. outcome' \in {"running", "warning"} /\ (outcome = "warning" => outcome' = "warning")
  BY <1>1 DEF Underway
<1>6. Progress'
  <2>1. etc' = sys' \/ Has("etc")'
    BY <1>1, <1>3 DEF Underway, Progress
  <2>2. run'.current = sys' \/ Has("current")'
    BY <1>1, <1>3 DEF Underway, Progress
  <2>3. StateDirs[sys]' \subseteq disk'.dirs \/ Has("dirs")'
    BY <1>1, <1>3 DEF Underway, Progress
  <2>4. outcome' = "warning" \/ (\A p \in Wrappers[sys]' : run'.wrappers[p] = sys') \/ Has("wrappers")'
    BY <1>1, <1>3, <1>5 DEF Underway, Progress
  <2>5. (\A c \in Commands[sys]' : disk'.bin[c] = sys') \/ Has("bin")'
    BY <1>1, <1>3 DEF Underway, Progress
  <2>6. (sys' \in Firmware => run'.firmware = sys') \/ Has("firmware")'
    BY <1>1, <1>3 DEF Underway, Progress
  <2> QED
    BY <2>1, <2>2, <2>3, <2>4, <2>5, <2>6 DEF Progress
<1>7. Underway'
  BY <1>1, <1>3, <1>5, <1>6 DEF Underway
<1> QED
  BY <1>1, <1>4, <1>5, <1>7 DEF SInv, SwitchedWhole

\* A round of a loop.
LEMMA RoundMade ==
  ASSUME SInv, plan # <<>>, UNCHANGED <<etc, on, kernel, store, profile, sys, plan, outcome>>,
         run'.current = run.current, run'.firmware = run.firmware,
         disk.dirs \subseteq disk'.dirs,
         plan[1] # "wrappers" => run'.wrappers = run.wrappers,
         plan[1] # "bin" => disk'.bin = disk.bin,
         Tables', plan[1] \in {"dirs", "wrappers", "bin"},
         plan[1] = "dirs" => done' \subseteq disk'.dirs,
         plan[1] = "wrappers" => \A p \in done' : run'.wrappers[p] = etc,
         plan[1] = "bin" => \A c \in done' : disk'.bin[c] = sys,
         plan \in Seq(StepNames)
  PROVE  SInv'
<1>1. Underway /\ profile \in store /\ outcome \notin {"ok", "warned"}
  BY DEF SInv
<1>2. Has(plan[1])
  <2>1. 1 \in 1..Len(plan)
    OBVIOUS
  <2> QED
    BY <2>1 DEF Has
<1>3. \A name : Has(name)' <=> Has(name)
  BY DEF Has
<1>4. Progress'
  <2>1. (\A p \in Wrappers[sys]' : run'.wrappers[p] = sys') \/ Has("wrappers")' \/ outcome' = "warning"
    BY <1>1, <1>2, <1>3 DEF Underway, Progress
  <2>2. (\A c \in Commands[sys]' : disk'.bin[c] = sys') \/ Has("bin")'
    BY <1>1, <1>2, <1>3 DEF Underway, Progress
  <2>3. StateDirs[sys]' \subseteq disk'.dirs \/ Has("dirs")'
    BY <1>1, <1>3 DEF Underway, Progress
  <2>4. /\ etc' = sys' \/ Has("etc")'
        /\ run'.current = sys' \/ Has("current")'
        /\ (sys' \in Firmware => run'.firmware = sys') \/ Has("firmware")'
    BY <1>1, <1>3 DEF Underway, Progress
  <2>5. /\ plan'[1] = "dirs" => done' \subseteq disk'.dirs
        /\ plan'[1] = "wrappers" => \A p \in done' : run'.wrappers[p] = etc'
        /\ plan'[1] = "bin" => \A c \in done' : disk'.bin[c] = sys'
        /\ plan'[1] \in {"dirs", "wrappers", "bin"}
    OBVIOUS
  <2> QED
    BY <2>1, <2>2, <2>3, <2>4, <2>5 DEF Progress
<1>5. Underway'
  BY <1>1, <1>4 DEF Underway
<1>6. Known'
  BY DEF SInv, Known
<1> QED
  BY <1>1, <1>5, <1>6 DEF SInv, SwitchedWhole

\* Nothing of a system changes; what is collected is not the profile.
LEMMA NothingSwitched ==
  ASSUME SInv, UNCHANGED <<etc, on, kernel, profile, sys, plan, done, outcome>>,
         run'.current = run.current, run'.services = run.services, run'.wrappers = run.wrappers,
         run'.firmware = run.firmware, disk'.dirs = disk.dirs, disk'.bin = disk.bin,
         profile \in store', on # "up" => store' = store, store' \subseteq store
  PROVE  SInv'
<1>1. Tables' /\ SwitchedWhole' /\ Known'
  BY DEF SInv, Tables, SwitchedWhole, Known, Programs, AllCommands
<1>2. ASSUME plan # <<>> PROVE Underway'
  <2>1. Underway
    BY <1>2 DEF SInv
  <2>2. Progress'
    BY <2>1 DEF Underway, Progress, Has
  <2>3. sys' \in store'
    BY <2>1 DEF Underway
  <2> QED
    BY <2>1, <2>2, <2>3 DEF Underway
<1> QED
  BY <1>1, <1>2 DEF SInv

\* An activation ends short of its services, or the machine goes off.
LEMMA NotSwitched ==
  ASSUME SInv, plan' = <<>>, outcome' \notin {"ok", "warned"}, UNCHANGED <<store, profile>>,
         kernel' = kernel, on' # "off" => on # "off",
         DOMAIN run'.wrappers = Programs, run'.firmware \in Firmware \cup {None}, disk'.bin = disk.bin
  PROVE  SInv'
  BY DEF SInv, Tables, Known, SwitchedWhole, Programs, AllCommands

\* Whoever begins an activation has all of it before him.
LEMMA Begins ==
  ASSUME NEW course \in Courses, plan' = course, done' = {}, outcome' = "running",
         SInv, UNCHANGED <<run, disk>>, on' # "off", sys' \in store', profile' \in store',
         on' = "up" => sys' = profile', store' \subseteq Systems, kernel' \in Systems
  PROVE  SInv'
<1>1. /\ Has("etc")' /\ Has("current")' /\ Has("dirs")' /\ Has("wrappers")' /\ Has("bin")'
      /\ Has("firmware")'
  <2>1. CASE course = BootPlan
    <3>1. /\ Len(plan') = 10 /\ plan'[1] = "etc" /\ plan'[3] = "current" /\ plan'[5] = "dirs"
          /\ plan'[6] = "wrappers" /\ plan'[8] = "firmware" /\ plan'[9] = "bin"
      BY <2>1 DEF BootPlan
    <3> QED
      BY <3>1 DEF Has
  <2>2. CASE course = SwitchPlan
    <3>1. /\ Len(plan') = 8 /\ plan'[2] = "etc" /\ plan'[3] = "current" /\ plan'[4] = "dirs"
          /\ plan'[5] = "wrappers" /\ plan'[6] = "bin" /\ plan'[7] = "firmware"
      BY <2>2 DEF SwitchPlan
    <3> QED
      BY <3>1 DEF Has
  <2> QED
    BY <2>1, <2>2 DEF Courses
<1>2. Progress'
  BY <1>1 DEF Progress
<1>3. Follows(plan', course)
  BY CourseIs DEF Follows
<1>4. Underway'
  BY <1>2, <1>3 DEF Underway
<1>5. Tables' /\ Known'
  BY DEF SInv, Tables, Known, Programs, AllCommands
<1> QED
  BY <1>4, <1>5 DEF SInv, SwitchedWhole

\* What there is to know of the step at hand.
LEMMA AtHand ==
  ASSUME IInv, SInv, NEW name, Step(name)
  PROVE  /\ plan # <<>> /\ plan[1] = name /\ plan \in Seq(StepNames) /\ Underway
         /\ name \in {"dirs", "wrappers", "bin", "services"} => etc = sys
         /\ DOMAIN run.wrappers = Programs
         /\ run.firmware \in Firmware \cup {None} /\ sys \in Systems /\ kernel \in Systems
<1>1. plan # <<>> /\ plan[1] = name /\ plan \in Seq(StepNames)
  BY FirstStep DEF IInv, Shape
<1>2. Underway /\ Tables /\ Known
  BY <1>1 DEF SInv
<1>3. PICK course \in Courses : Follows(plan, course)
  BY <1>2 DEF Underway
<1>4. plan[1] \in {"dirs", "wrappers", "bin", "services"} => ~Has("etc")
  <2> DEFINE rest == Tail(plan)
  <2>1. \A i \in 1..Len(plan) : plan[i] = course[Len(course) - Len(plan) + i]
    BY <1>3 DEF Follows
  <2>2. /\ Len(plan) \in Nat \ {0} /\ Len(course) \in Nat /\ Len(plan) <= Len(course)
    BY <1>1, <1>3, CourseIs DEF Follows
  <2>3. ASSUME plan[1] \in {"dirs", "wrappers", "bin", "services"}, NEW i \in 1..Len(plan), plan[i] = "etc"
        PROVE  FALSE
    <3>1. /\ Len(course) - Len(plan) + i \in 1..Len(course) /\ course[Len(course) - Len(plan) + i] = "etc"
          /\ Len(course) - Len(plan) + 1 \in 1..Len(course)
          /\ course[Len(course) - Len(plan) + 1] \in {"dirs", "wrappers", "bin", "services"}
      BY <2>1, <2>2, <2>3
    <3>2. Len(course) - Len(plan) + i < Len(course) - Len(plan) + 1
      BY <3>1, CourseIs
    <3> QED
      BY <2>2, <3>2
  <2> QED
    BY <2>3 DEF Has
<1> QED
  BY <1>1, <1>2, <1>4 DEF Underway, Progress, Tables, Known

LEMMA EndOfPartSwitch ==
  ASSUME IInv, SInv, Check \/ SyncEtc \/ MountFs \/ SetFirmware \/ LinkModules \/ WrappersFail
  PROVE  SInv'
<1>1. CASE Check
  <2>1. /\ plan # <<>> /\ plan[1] = "check" /\ DOMAIN run.wrappers = Programs
        /\ run.firmware \in Firmware \cup {None}
    BY <1>1, AtHand DEF Check
  <2>2. plan' = Tail(plan) /\ done' = {} /\ UNCHANGED <<on, kernel, store, profile, sys, etc, outcome, run, disk>>
    BY <1>1 DEF Check, Finish, Idle
  <2> QED
    BY <2>1, <2>2, PartDone
<1>2. CASE SyncEtc
  <2>1. /\ plan # <<>> /\ plan[1] = "etc" /\ DOMAIN run.wrappers = Programs
        /\ run.firmware \in Firmware \cup {None}
    BY <1>2, AtHand DEF SyncEtc
  <2>2. /\ plan' = Tail(plan) /\ done' = {} /\ UNCHANGED <<on, kernel, store, profile, sys, outcome, run>> /\ etc' = sys
        /\ disk' = [disk EXCEPT !.shadow = "locked"]
    BY <1>2 DEF SyncEtc, Finish, Idle
  <2>3. disk'.dirs = disk.dirs /\ disk'.bin = disk.bin
    BY <2>2 DEF IInv, Shape
  <2> QED
    BY <2>1, <2>2, <2>3, PartDone
<1>3. CASE MountFs
  <2>1. plan # <<>> /\ plan[1] = "mounts"
    BY <1>3, AtHand DEF MountFs
  <2>2. /\ plan' = Tail(plan) /\ done' = {} /\ UNCHANGED <<on, kernel, store, profile, sys, etc, outcome, disk>>
        /\ run' = EmptyRun
    BY <1>3 DEF MountFs, Finish, Idle
  <2>3. DOMAIN run'.wrappers = Programs /\ run'.firmware = None
    BY <2>2 DEF EmptyRun
  <2> QED
    BY <2>1, <2>2, <2>3, PartDone
<1>4. CASE SetFirmware
  <2>1. /\ plan # <<>> /\ plan[1] = "firmware" /\ DOMAIN run.wrappers = Programs
        /\ run.firmware \in Firmware \cup {None}
    BY <1>4, AtHand DEF SetFirmware
  <2>2. /\ plan' = Tail(plan) /\ done' = {} /\ UNCHANGED <<on, kernel, store, profile, sys, etc, outcome, disk>>
        /\ IF sys \in Firmware THEN run' = [run EXCEPT !["firmware"] = sys] ELSE run' = run
    BY <1>4 DEF SetFirmware, SetRun, Finish, Idle
  <2>3. /\ run'.wrappers = run.wrappers /\ run'.current = run.current
        /\ run'.firmware = IF sys \in Firmware THEN sys ELSE run.firmware
    BY <2>2 DEF IInv, Shape
  <2> QED
    BY <2>1, <2>2, <2>3, PartDone
<1>5. CASE LinkModules
  <2>1. /\ plan # <<>> /\ plan[1] = "modules" /\ DOMAIN run.wrappers = Programs
        /\ run.firmware \in Firmware \cup {None}
    BY <1>5, AtHand DEF LinkModules
  <2>2. /\ plan' = Tail(plan) /\ done' = {} /\ UNCHANGED <<on, kernel, store, profile, sys, etc, outcome, run>>
        /\ disk' = [disk EXCEPT !.modules = IF sys \in Modules THEN sys ELSE disk.modules]
    BY <1>5 DEF LinkModules, Finish, Idle
  <2>3. disk'.dirs = disk.dirs /\ disk'.bin = disk.bin
    BY <2>2 DEF IInv, Shape
  <2> QED
    BY <2>1, <2>2, <2>3, PartDone
<1>6. CASE WrappersFail
  <2>1. /\ plan # <<>> /\ plan[1] = "wrappers" /\ DOMAIN run.wrappers = Programs
        /\ run.firmware \in Firmware \cup {None}
    BY <1>6, AtHand DEF WrappersFail
  <2>2. /\ plan' = Tail(plan) /\ done' = {} /\ UNCHANGED <<on, kernel, store, profile, sys, etc, run, disk>>
        /\ outcome' = "warning"
    BY <1>6 DEF WrappersFail, Finish, Idle
  <2> QED
    BY <2>1, <2>2, PartDone
<1> QED
  BY <1>1, <1>2, <1>3, <1>4, <1>5, <1>6

LEMMA LinkSystemSwitch ==
  ASSUME IInv, SInv, NEW field \in {"current", "booted"}, LinkSystem(field) PROVE SInv'
<1>1. /\ plan # <<>> /\ plan[1] = field /\ DOMAIN run.wrappers = Programs
      /\ run.firmware \in Firmware \cup {None}
  BY AtHand DEF LinkSystem
<1>2. /\ plan' = Tail(plan) /\ done' = {} /\ UNCHANGED <<on, kernel, store, profile, sys, etc, outcome, disk>>
      /\ run' = [run EXCEPT ![field] = sys]
  BY DEF LinkSystem, SetRun, Finish, Idle
<1>3. run'.wrappers = run.wrappers /\ (field = "current" => run'.current = sys)
      /\ (field # "current" => run'.current = run.current) /\ run'.firmware = run.firmware
  BY <1>2 DEF IInv, Shape
<1> QED
  BY <1>1, <1>2, <1>3, PartDone

\* A loop ends when everything on its list was dealt with; what it lists is the new
\* system's, and that is in the store.
LEMMA LoopDoneSwitch == ASSUME IInv, SInv, LoopDone PROVE SInv'
<1>1. /\ plan' = Tail(plan) /\ done' = {} /\ UNCHANGED <<on, kernel, store, profile, sys, etc, outcome, run, disk>>
  BY DEF LoopDone, Finish, Idle
<1>2. PICK name \in {"dirs", "wrappers", "bin"} :
        /\ Step(name)
        /\ name = "dirs" => StateDirs[etc] \subseteq done
        /\ name = "wrappers" => Wrappers[etc] \subseteq done
        /\ name = "bin" => ToLink \subseteq done
  <2>1. CASE Step("dirs") /\ StateDirs[etc] \subseteq done
    BY <2>1
  <2>2. CASE Step("wrappers") /\ Wrappers[etc] \subseteq done
    BY <2>2
  <2>3. CASE Step("bin") /\ ToLink \subseteq done
    BY <2>3
  <2> QED
    BY <2>1, <2>2, <2>3 DEF LoopDone
<1>3. /\ plan # <<>> /\ plan[1] = name /\ Underway /\ etc = sys /\ DOMAIN run.wrappers = Programs
      /\ run.firmware \in Firmware \cup {None}
  BY <1>2, AtHand
<1>4. Progress /\ sys \in store
  BY <1>3 DEF Underway
<1>5. name = "dirs" => StateDirs[sys] \subseteq disk.dirs
  BY <1>2, <1>3, <1>4 DEF Progress
<1>6. name = "wrappers" => \A p \in Wrappers[sys] : run.wrappers[p] = sys
  BY <1>2, <1>3, <1>4 DEF Progress
<1>7. name = "bin" => \A c \in Commands[sys] : disk.bin[c] = sys
  BY <1>2, <1>3, <1>4 DEF Progress, ToLink
<1> QED
  BY <1>1, <1>3, <1>5, <1>6, <1>7, PartDone

LEMMA MakeDirSwitch == ASSUME IInv, SInv, NEW x, MakeDir(x) PROVE SInv'
<1>1. plan # <<>> /\ plan[1] = "dirs" /\ Underway /\ plan \in Seq(StepNames)
  BY AtHand DEF MakeDir
<1>2. /\ UNCHANGED <<etc, on, kernel, store, profile, sys, plan, outcome, run>> /\ done' = done \cup {x}
      /\ disk' = [disk EXCEPT !.dirs = disk.dirs \cup {x}]
  BY DEF MakeDir, Idle
<1>3. disk'.dirs = disk.dirs \cup {x} /\ disk'.bin = disk.bin
  BY <1>2 DEF IInv, Shape
<1>4. done' \subseteq disk'.dirs
  BY <1>1, <1>2, <1>3 DEF Underway, Progress
<1>5. Tables'
  BY <1>2, <1>3 DEF SInv, Tables, Programs, AllCommands
<1> QED
  BY <1>1, <1>2, <1>3, <1>4, <1>5, RoundMade

LEMMA WrapSwitch == ASSUME IInv, SInv, NEW x \in Programs, Wrap(x) PROVE SInv'
<1>1. plan # <<>> /\ plan[1] = "wrappers" /\ Underway /\ plan \in Seq(StepNames)
  BY AtHand DEF Wrap
<1>2. /\ UNCHANGED <<etc, on, kernel, store, profile, sys, plan, outcome, disk>> /\ done' = done \cup {x}
      /\ run' = [run EXCEPT !.wrappers[x] = etc]
  BY DEF Wrap, Idle
<1>3. /\ run'.wrappers = [run.wrappers EXCEPT ![x] = etc] /\ run'.current = run.current
      /\ run'.firmware = run.firmware
  BY <1>2 DEF IInv, Shape
<1>4. Tables'
  BY <1>2, <1>3 DEF SInv, Tables, Programs, AllCommands
<1>5. \A p \in done : run.wrappers[p] = etc
  BY <1>1 DEF Underway, Progress
<1>6. \A p \in done' : run'.wrappers[p] = etc
  BY <1>2, <1>3, <1>5 DEF SInv, Tables
<1> QED
  BY <1>1, <1>2, <1>3, <1>4, <1>6, RoundMade

LEMMA LinkCommandSwitch == ASSUME IInv, SInv, NEW x \in AllCommands, LinkCommand(x) PROVE SInv'
<1>1. plan # <<>> /\ plan[1] = "bin" /\ Underway /\ plan \in Seq(StepNames)
  BY AtHand DEF LinkCommand
<1>2. /\ UNCHANGED <<etc, on, kernel, store, profile, sys, plan, outcome, run>> /\ done' = done \cup {x}
      /\ disk' = [disk EXCEPT !.bin[x] = sys]
  BY DEF LinkCommand, Idle
<1>3. disk'.bin = [disk.bin EXCEPT ![x] = sys] /\ disk'.dirs = disk.dirs
  BY <1>2 DEF IInv, Shape
<1>4. Tables'
  BY <1>2, <1>3 DEF SInv, Tables, Programs, AllCommands
<1>5. \A c \in done : disk.bin[c] = sys
  BY <1>1 DEF Underway, Progress
<1>6. \A c \in done' : disk'.bin[c] = sys
  BY <1>2, <1>3, <1>5 DEF SInv, Tables
<1> QED
  BY <1>1, <1>2, <1>3, <1>4, <1>6, RoundMade

\* The services come last: by then every part is the new system's.
LEMMA ServicesSwitch == ASSUME IInv, SInv, InitServices \/ UpdateServices PROVE SInv'
<1>1. Step("services")
  BY DEF InitServices, UpdateServices
<1>2. /\ plan # <<>> /\ plan[1] = "services" /\ plan \in Seq(StepNames) /\ Underway /\ etc = sys
      /\ sys \in Systems /\ kernel \in Systems /\ run.firmware \in Firmware \cup {None} /\ on # "off"
  BY <1>1, AtHand DEF Underway
<1>3. /\ plan' = Tail(plan) /\ done' = {} /\ UNCHANGED <<kernel, store, profile, sys, etc, disk>>
      /\ \/ run' = [run EXCEPT !["services"] = sys]
         \/ run' = run /\ (run.services = None \/ sys \notin Databases)
      /\ outcome' = Said
  BY DEF InitServices, UpdateServices, SetRun, Finish, Idle
<1>4. /\ run'.wrappers = run.wrappers /\ run'.current = run.current /\ run'.firmware = run.firmware
      /\ run'.services # None /\ sys \in Databases => run'.services = sys
  BY <1>3 DEF IInv, Shape
<1>5. PICK course \in Courses : Follows(plan, course)
  BY <1>2 DEF Underway
<1>6. plan' = <<>> /\ \A name : Has(name)' <=> Has(name) /\ name # "services"
  BY <1>2, <1>3, <1>5, Ahead
<1>7. \A name : name # "services" => ~Has(name)
  BY <1>6 DEF Has
<1>a. IF sys \in Firmware THEN run.firmware = sys ELSE ~Forced => run.firmware = None
  <2>1. sys \in Firmware => run.firmware = sys
    BY <1>2, <1>7 DEF Underway, Progress
  <2>2. ASSUME sys \notin Firmware, ~Forced, run.firmware # None PROVE FALSE
    <3>1. BootedFiles[sys] = BootedFiles[kernel]
      BY <1>2, <2>2 DEF IInv, Shape, Booting, Switching
    <3>2. BootedFiles[run.firmware] = BootedFiles[kernel]
      BY <2>2 DEF IInv, Matches, Fields
    <3> QED
      BY <1>2, <2>2, <3>1, <3>2, ActivationAssumption
  <2> QED
    BY <2>1, <2>2
<1>8. SwitchedWhole'
  BY <1>2, <1>3, <1>4, <1>7, <1>a DEF Underway, Progress, SwitchedWhole, Said
<1>9. Tables' /\ Known'
  BY <1>2, <1>3, <1>4 DEF SInv, Tables, Known, Programs, AllCommands
<1> QED
  BY <1>3, <1>6, <1>8, <1>9 DEF SInv

LEMMA EndsShortSwitch == ASSUME IInv, SInv, SkipSwitch \/ FailSwitch \/ Off PROVE SInv'
<1>1. plan' = <<>> /\ outcome' \in {"skipped", "failed", "none"} /\ UNCHANGED <<store, profile>>
  BY DEF SkipSwitch, FailSwitch, Off, Idle
<1>2. run' = run \/ run' = EmptyRun
  BY DEF SkipSwitch, FailSwitch, Off
<1>3. disk' = disk \/ disk' = [disk EXCEPT !.dirs = disk.dirs \ Volatile]
  BY DEF SkipSwitch, FailSwitch, Off
<1>4. DOMAIN run'.wrappers = Programs /\ run'.firmware \in Firmware \cup {None}
  BY <1>2 DEF SInv, Tables, Known, EmptyRun
<1>5. disk'.bin = disk.bin
  BY <1>3 DEF IInv, Shape
<1>6. kernel' = kernel /\ (on' # "off" => on # "off")
  BY DEF SkipSwitch, FailSwitch, Off, Idle
<1> QED
  BY <1>1, <1>4, <1>5, <1>6, NotSwitched

LEMMA ServicesRunSwitch == ASSUME IInv, SInv, Secrets \/ SecretsByHand \/ ApplyShadow \/ CollectGarbage PROVE SInv'
<1>1. /\ UNCHANGED <<etc, on, kernel, profile, sys, plan, done, outcome>> /\ on = "up"
  BY DEF Secrets, SecretsByHand, ApplyShadow, CollectGarbage, Idle
<1>2. run' = run \/ run' = [run EXCEPT !.secrets = etc]
  BY DEF Secrets, SecretsByHand, ApplyShadow, CollectGarbage
<1>3. disk' = disk \/ disk' = [disk EXCEPT !.shadow = IF HasHash THEN "set" ELSE disk.shadow]
  BY DEF Secrets, SecretsByHand, ApplyShadow, CollectGarbage
<1>4. /\ run'.current = run.current /\ run'.services = run.services /\ run'.wrappers = run.wrappers
      /\ run'.firmware = run.firmware
  BY <1>2 DEF IInv, Shape
<1>5. disk'.dirs = disk.dirs /\ disk'.bin = disk.bin
  BY <1>3 DEF IInv, Shape
<1>6. profile \in store' /\ store' \subseteq store
  BY DEF Secrets, SecretsByHand, ApplyShadow, CollectGarbage, Idle, SInv
<1> QED
  BY <1>1, <1>4, <1>5, <1>6, NothingSwitched

LEMMA RebuildSwitch ==
  ASSUME IInv, SInv, NEW s \in Systems, NEW next \in {<<>>, SwitchPlan}, Rebuild(s, next) PROVE SInv'
<1>1. /\ on = "up" /\ store' = store \cup {s} /\ profile' = s /\ plan' = next /\ done' = {}
      /\ UNCHANGED <<etc, on, kernel, run, disk>>
      /\ next # <<>> => sys' = s /\ outcome' = "running"
      /\ next = <<>> => UNCHANGED <<sys, outcome>>
  BY DEF Rebuild
<1>2. CASE next = SwitchPlan
  <2>1. next # <<>>
    BY <1>2 DEF SwitchPlan
  <2>2. store' \subseteq Systems /\ kernel' \in Systems
    BY <1>1 DEF SInv, Known
  <2> QED
    BY <1>1, <1>2, <2>1, <2>2, Begins DEF Courses
<1>3. CASE next = <<>>
  BY <1>1, <1>3 DEF SInv, SwitchedWhole, Tables, Known, Programs, AllCommands
<1> QED
  BY <1>2, <1>3

LEMMA BootSwitch == ASSUME IInv, SInv, NEW s \in Systems, Boot(s) PROVE SInv'
  BY Begins DEF Boot, Courses, SInv, Known

LEMMA NextSwitch == ASSUME IInv, SInv, [Next]_vars PROVE SInv'
<1>1. CASE ActivateStep
  BY <1>1, EndOfPartSwitch, EndsShortSwitch, LinkSystemSwitch, MakeDirSwitch, WrapSwitch, LinkCommandSwitch,
     LoopDoneSwitch, ServicesSwitch DEF ActivateStep
<1>2. CASE Secrets \/ SecretsByHand \/ ApplyShadow \/ CollectGarbage
  BY <1>2, ServicesRunSwitch
<1>3. CASE \E s \in Systems : Boot(s)
  BY <1>3, BootSwitch
<1>4. CASE \E s \in Systems : \E next \in {<<>>, SwitchPlan} : Rebuild(s, next)
  BY <1>4, RebuildSwitch
<1>5. CASE Off
  BY <1>5, EndsShortSwitch
<1>6. CASE UNCHANGED vars
  BY <1>6, NothingSwitched DEF vars, SInv
<1> QED
  BY <1>1, <1>2, <1>3, <1>4, <1>5, <1>6 DEF Next

\* After a boot or switch that has said it was successful, and whatever earlier
\* activations left half done, skipped or collected: /etc, the current system, its
\* directories, all its commands and its firmware are the system's own, so are the
\* services if services run, and its wrappers unless there was a warning; and one
\* without firmware does not run with another system's, unless the switch was forced
\* (main.rs:79-145, rebuild.sh:47-74).  Commands and wrappers that it does not have
\* may be those of others.
THEOREM SuccessIsWhole == Spec => []SwitchedWhole
<1>1. Init => SInv
  <2> SUFFICES ASSUME Init PROVE SInv
    OBVIOUS
  <2>1. Tables /\ Known
    BY DEF Init, Tables, Known, EmptyRun
  <2> QED
    BY <2>1 DEF Init, SInv, SwitchedWhole
<1>2. IInv /\ SInv /\ [Next]_vars => SInv'
  BY NextSwitch
<1>3. SInv => SwitchedWhole
  BY DEF SInv
<1> QED
  BY <1>1, <1>2, <1>3, ActivationInvariant, PTL DEF Spec

=============================================================================
