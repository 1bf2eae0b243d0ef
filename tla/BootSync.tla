------------------------------- MODULE BootSync -------------------------------
(***************************************************************************)
(* What neet-rebuild and neet-gc do to the machine's ability to boot.      *)
(*                                                                         *)
(* Both scripts change the system profile with nix-env and then run        *)
(* install-bootloader: esp-sync copies (or signs) the boot payload of      *)
(* every generation to the EFI system partition and deletes the files of   *)
(* generations the profile no longer has; then efistub-sync brings the     *)
(* NVRAM entries into line, or limine-install rewrites limine.conf.        *)
(* Nothing locks one script against the other, every step may fail (set    *)
(* -e and `?` abort the script), and the machine may go down between any   *)
(* two steps.                                                              *)
(***************************************************************************)
EXTENDS Integers, FiniteSets

CONSTANTS
  Systems,     \* the toplevels a build may produce
  UkiSystems,  \* those whose boot.json has a "uki"; the others boot kernel + initrd
  First,       \* the system install.sh installed as generation 1
  Scripts,     \* the neet-rebuild / neet-gc processes
  Gens,        \* the generation numbers, 1 .. MaxGen in the runs
  MaxGen,      \* BOUND on the number of generations a profile ever gets
  MaxNum,      \* BOUND on the BootXXXX numbers
  Capacity,    \* payload files the ESP has room for
  Loader,      \* "efistub" or "limine": which installer the system carries
  FirstToken,  \* what install.sh's images were signed with; NoKey: unsigned
  MaxToken,    \* BOUND on the certificates the machine ever has
  Rekeying,    \* "never"; "fresh": new certificates come; "any": earlier ones and NoKey, too
  PowerLoss,   \* an outage may lose what was written without fsync
  Rollback,    \* somebody runs nix-env --rollback / --switch-generation
  None, Torn   \* no value; a file whose content is cut short

ASSUME GensAssumption == Gens = 1 .. MaxGen /\ MaxGen \in Nat \ {0}
ASSUME SystemsAssumption ==
  /\ First \in Systems
  /\ UkiSystems \subseteq Systems
  /\ None \notin Systems /\ Torn \notin Systems /\ None # Torn
ASSUME SwitchAssumption ==
  /\ Loader \in {"efistub", "limine"}
  /\ {PowerLoss, Rollback} \subseteq BOOLEAN
  /\ Rekeying \in {"never", "fresh", "any"}
ASSUME BoundAssumption == MaxNum \in Nat \ {0} /\ Capacity \in Nat
ASSUME TokenAssumption == MaxToken \in Nat /\ FirstToken \in 0 .. MaxToken

VARIABLES
  profile,   \* generation number -> the toplevel of its system-N-link, or None
  current,   \* the generation the "system" link points at
  store,     \* the toplevels in /nix/store
  uki,       \* EFI/Linux/neet-gen-N.efi: the system it was made from
  signature, \* the certificate that image is signed with
  cache,     \* EFI/Linux/neet-gen-N.efi.hash
  kernel,    \* kernels/neet-gen-N-vmlinuz
  initrd,    \* kernels/neet-gen-N-initrd
  nvram,     \* the NVRAM entries, each with its BootXXXX number
  conf,      \* the entries of limine.conf, or TornConf
  confTmp,   \* limine.conf.tmp, or None
  dirty,     \* what was written and not yet reached the disk
  up,        \* the machine runs; FALSE: nothing on its menu boots any more
  token,     \* what the key and the certificate that esp-sync is given amount to
  pc,        \* where each script is
  target,    \* the toplevel a rebuild built
  list,      \* the generations a tool listed
  todo,      \* the listed generations its loop still has to visit
  labels,    \* the generations efistub-sync found an entry for
  victims,   \* the BootXXXX numbers efistub-sync is deleting
  signToken, \* sign_token of the image esp-sync is at
  signer     \* the certificate sbsign has read

profileVars == <<profile, current, store>>
espVars     == <<uki, signature, cache, kernel, initrd>>
menuVars    == <<nvram, conf, confTmp>>
hostVars    == <<up, token>>
signVars    == <<signToken, signer>>
localVars   == <<target, list, todo, labels, victims, signVars>>
vars == <<profileVars, espVars, menuVars, dirty, hostVars, pc, localVars>>

Content == Systems \cup {None, Torn}

\* A certificate is known by a number, in the order in which they come; sign_token is
\* the hash of the certificate, or "unsigned" where key or certificate is missing.
NoKey  == 0
Tokens == 0 .. MaxToken
\* What a hash file says: the image was made from this and with that.
Hash(s, t) == [src |-> s, token |-> t]
HashFile   == [src : Systems \cup {None}, token : Tokens]
ASSUME HashAssumption == \A h \in HashFile : h # None /\ h # Torn

Entry   == [gen : Gens, kind : {"uki", "kernel"}, init : Systems \cup {None}]
Nvram   == [num : 1 .. MaxNum, entry : Entry]
ASSUME TornAssumption == \A e \in Entry : e # Torn
TornConf == {Torn}
PayloadFile == {"uki", "cache"} \X Gens
Conf    == <<"conf", 0>>

Stages == {"idle", "set", "collect",
           "esp.list", "esp.install", "esp.place", "esp.sign", "esp.cache", "esp.initrd", "esp.gc",
           "nv.list", "nv.create", "nv.gc",
           "lim.list", "lim.write", "lim.fill", "lim.rename", "done"}

TypeOK ==
  /\ profile \in [Gens -> Systems \cup {None}]
  /\ current \in Gens
  /\ store \subseteq Systems
  /\ uki \in [Gens -> Content] /\ signature \in [Gens -> Tokens]
  /\ cache \in [Gens -> HashFile \cup {None, Torn}]
  /\ kernel \in [Gens -> Systems \cup {None}]
  /\ initrd \in [Gens -> Systems \cup {None}]
  /\ nvram \subseteq Nvram
  /\ conf \in (SUBSET Entry) \cup {TornConf}
  /\ confTmp \in (SUBSET Entry) \cup {TornConf, None}
  /\ dirty \subseteq PayloadFile \cup {Conf}
  /\ up \in BOOLEAN /\ token \in Tokens
  /\ pc \in [Scripts -> Stages]
  /\ target \in [Scripts -> Systems \cup {None}]
  /\ list \in [Scripts -> [Gens -> Systems \cup {None}]]
  /\ todo \in [Scripts -> SUBSET Gens]
  /\ labels \in [Scripts -> SUBSET Gens]
  /\ victims \in [Scripts -> SUBSET (1 .. MaxNum)]
  /\ signToken \in [Scripts -> Tokens] /\ signer \in [Scripts -> Tokens]

-----------------------------------------------------------------------------
(* What the firmware or limine would boot.                                  *)

\* A plausible bug: the init of the running system instead of the generation's.
EntryForCurrent(g, s) == [gen |-> g, kind |-> IF s \in UkiSystems THEN "uki" ELSE "kernel",
                          init |-> IF s \in UkiSystems THEN None ELSE profile[current]]
\* A UKI carries its own command line; a kernel entry passes init= and initrd=.
EntryFor(g, s) == [gen |-> g, kind |-> IF s \in UkiSystems THEN "uki" ELSE "kernel",
                   init |-> IF s \in UkiSystems THEN None ELSE s]

Menu == IF Loader = "efistub" THEN {n.entry : n \in nvram}
        ELSE IF conf = TornConf THEN {} ELSE conf

\* Choosing entry e brings up system s: its payload is whole, belongs to s, and
\* the init it names is still in the store.
Brings(e, s) ==
  /\ s \in store
  /\ e.kind = "uki" => uki[e.gen] = s
  /\ e.kind = "kernel" => e.init = s /\ kernel[e.gen] = s /\ initrd[e.gen] = s

\* The menu offers generation g, and what it boots is the g of the profile.
Bootable(g) == /\ profile[g] # None
               /\ \E e \in Menu : e.gen = g /\ Brings(e, profile[g])

Numbers == {g \in Gens : profile[g] # None}
Newest(S, g) == g \in S /\ \A h \in S : h <= g

-----------------------------------------------------------------------------
(* The scripts' locals and control.                                         *)

Goto(p, stage) == pc' = [pc EXCEPT ![p] = stage]
At(p, stage) == up /\ pc[p] = stage

NoList == [g \in Gens |-> None]

ResetLocals(P) ==
  /\ target'  = [p \in Scripts |-> IF p \in P THEN None ELSE target[p]]
  /\ list'    = [p \in Scripts |-> IF p \in P THEN NoList ELSE list[p]]
  /\ todo'    = [p \in Scripts |-> IF p \in P THEN {} ELSE todo[p]]
  /\ labels'  = [p \in Scripts |-> IF p \in P THEN {} ELSE labels[p]]
  /\ victims' = [p \in Scripts |-> IF p \in P THEN {} ELSE victims[p]]
  /\ signToken' = [p \in Scripts |-> IF p \in P THEN NoKey ELSE signToken[p]]
  /\ signer'    = [p \in Scripts |-> IF p \in P THEN NoKey ELSE signer[p]]

Visited(p, g) == todo' = [todo EXCEPT ![p] = @ \ {g}]

\* A write without fsync: an outage may cut it short.
Unsynced(f) == dirty' = IF PowerLoss THEN dirty \cup {f} ELSE dirty

-----------------------------------------------------------------------------
(* neet-rebuild boot|switch and neet-gc, up to install-bootloader.          *)

Build(p) ==
  /\ At(p, "idle") /\ Goto(p, "set")
  /\ \E s \in Systems : /\ store' = store \cup {s}
                        /\ target' = [target EXCEPT ![p] = s]
  /\ UNCHANGED <<profile, current, espVars, menuVars, dirty, hostVars, list, todo, labels, victims, signVars>>

\* nix-env --set reuses the newest generation when it already is the target ...
ProfileReuse(p) ==
  /\ At(p, "set") /\ Goto(p, "esp.list")
  /\ target[p] \in store
  /\ \E g \in Gens : Newest(Numbers, g) /\ profile[g] = target[p] /\ current' = g
  /\ UNCHANGED <<profile, store, espVars, menuVars, dirty, hostVars, localVars>>

NextNumber(newest) == newest + 1

\* ... and otherwise appends the generation after the newest.
ProfileAppend(p) ==
  /\ At(p, "set") /\ Goto(p, "esp.list")
  /\ target[p] \in store
  /\ \E g \in Gens : /\ Newest(Numbers, g) /\ profile[g] # target[p] /\ g < MaxGen
                     /\ profile' = [profile EXCEPT ![NextNumber(g)] = target[p]]
                     /\ current' = NextNumber(g)
  /\ UNCHANGED <<store, espVars, menuVars, dirty, hostVars, localVars>>

\* nix-env --delete-generations: any of them but the current one.
DeleteGenerations(p) ==
  /\ At(p, "idle") /\ Goto(p, "collect")
  /\ \E D \in SUBSET (Numbers \ {current}) :
        profile' = [g \in Gens |-> IF g \in D THEN None ELSE profile[g]]
  /\ UNCHANGED <<current, store, espVars, menuVars, dirty, hostVars, localVars>>

\* nix-store --gc: the profile's generations are its only roots.
CollectStore(p) ==
  /\ At(p, "collect") /\ Goto(p, "esp.list")
  /\ store' = {profile[g] : g \in Numbers}
  /\ UNCHANGED <<profile, current, espVars, menuVars, dirty, hostVars, localVars>>

-----------------------------------------------------------------------------
(* esp-sync.                                                                *)

\* generation::list: the links of the profile that lead to a toplevel.
Listing == [g \in Gens |-> IF profile[g] \in store THEN profile[g] ELSE None]

EspList(p) ==
  /\ At(p, "esp.list") /\ Goto(p, "esp.install")
  /\ list' = [list EXCEPT ![p] = Listing]
  /\ todo' = [todo EXCEPT ![p] = {g \in Gens : Listing[g] # None}]
  /\ UNCHANGED <<profileVars, espVars, menuVars, dirty, hostVars, target, labels, victims, signVars>>

\* The generation the loop visits next: the newest one left.
Visiting(p, stage, g) == At(p, stage) /\ Newest(todo[p], g)

Used == Cardinality({g \in Gens : uki[g] # None}) + Cardinality({g \in Gens : kernel[g] # None})
        + Cardinality({g \in Gens : initrd[g] # None})
Room == Used < Capacity

\* The toplevel is gone: boot.json is not found and the generation is skipped.
EspSkip(p) ==
  /\ \E g \in Gens : /\ Visiting(p, "esp.install", g)
                     /\ list[p][g] \notin store
                     /\ Visited(p, g)
  /\ UNCHANGED <<profileVars, espVars, menuVars, dirty, hostVars, pc, target, list, labels, victims, signVars>>

\* A plausible bug: the hash of the source alone is compared.
CacheMatchesSource(g, s) == uki[g] # None /\ \E t \in Tokens : cache[g] = Hash(s, t)
\* Source and certificate have to be what the hash file says; the image is not looked at.
CacheMatches(g, s) == uki[g] # None /\ cache[g] = Hash(s, token)

UkiCached(p) ==
  /\ \E g \in Gens : /\ Visiting(p, "esp.install", g)
                     /\ list[p][g] \in store \cap UkiSystems
                     /\ CacheMatches(g, list[p][g])
                     /\ Visited(p, g)
  /\ UNCHANGED <<profileVars, espVars, menuVars, dirty, hostVars, pc, target, list, labels, victims, signVars>>

\* A plausible bug: the hash file is written first.
UkiStaleHashed(p) ==
  /\ \E g \in Gens : /\ Visiting(p, "esp.install", g)
                     /\ list[p][g] \in store \cap UkiSystems
                     /\ ~CacheMatches(g, list[p][g])
                     /\ cache' = [cache EXCEPT ![g] = Hash(list[p][g], token)]
  /\ signToken' = [signToken EXCEPT ![p] = token]
  /\ Goto(p, "esp.place")
  /\ UNCHANGED <<profileVars, uki, signature, kernel, initrd, menuVars, dirty, hostVars,
                 target, list, todo, labels, victims, signer>>

\* The image or its hash file is not what it should be; sign_token is kept for the hash
\* file. Nothing stands still until the image is written: another script, or other keys,
\* may come in between.
UkiStale(p) ==
  /\ \E g \in Gens : /\ Visiting(p, "esp.install", g)
                     /\ list[p][g] \in store \cap UkiSystems
                     /\ ~CacheMatches(g, list[p][g])
  /\ signToken' = [signToken EXCEPT ![p] = token]
  /\ Goto(p, "esp.place")
  /\ UNCHANGED <<profileVars, espVars, menuVars, dirty, hostVars,
                 target, list, todo, labels, victims, signer>>

\* Unsigned: written beside the target, fsynced and renamed; nothing to do, and
\* no room needed, when the content is already there.
UkiCopy(p) ==
  /\ signToken[p] = NoKey
  /\ \E g \in Gens : /\ Visiting(p, "esp.place", g)
                     /\ list[p][g] \in store
                     /\ (uki[g] = list[p][g] /\ signature[g] = NoKey) \/ Room
                     /\ uki' = [uki EXCEPT ![g] = list[p][g]]
                     /\ signature' = [signature EXCEPT ![g] = NoKey]
  /\ Goto(p, "esp.cache")
  /\ UNCHANGED <<profileVars, cache, kernel, initrd, menuVars, dirty, hostVars, localVars>>

\* Signed: sbsign reads key and certificate and truncates the target itself ...
UkiSign(p) ==
  /\ signToken[p] # NoKey /\ token # NoKey
  /\ \E g \in Gens : /\ Visiting(p, "esp.place", g)
                     /\ list[p][g] \in store
                     /\ uki[g] # None \/ Room
                     /\ uki' = [uki EXCEPT ![g] = Torn]
  /\ signer' = [signer EXCEPT ![p] = token]
  /\ Goto(p, "esp.sign")
  /\ UNCHANGED <<profileVars, signature, cache, kernel, initrd, menuVars, dirty, hostVars,
                 target, list, todo, labels, victims, signToken>>

\* ... and fills it in.
UkiSigned(p) ==
  /\ \E g \in Gens : /\ Visiting(p, "esp.sign", g)
                     /\ uki' = [uki EXCEPT ![g] = list[p][g]]
                     /\ signature' = [signature EXCEPT ![g] = signer[p]]
                     /\ Unsynced(<<"uki", g>>)
  /\ Goto(p, "esp.cache")
  /\ UNCHANGED <<profileVars, cache, kernel, initrd, menuVars, hostVars, localVars>>

WriteCache(p) ==
  /\ \E g \in Gens : /\ Visiting(p, "esp.cache", g)
                     /\ cache' = [cache EXCEPT ![g] = Hash(list[p][g], signToken[p])]
                     /\ Unsynced(<<"cache", g>>)
                     /\ Visited(p, g)
  /\ signToken' = [signToken EXCEPT ![p] = NoKey] /\ signer' = [signer EXCEPT ![p] = NoKey]
  /\ Goto(p, "esp.install")
  /\ UNCHANGED <<profileVars, uki, signature, kernel, initrd, menuVars, hostVars, target, list, labels, victims>>

CopyKernel(p) ==
  /\ \E g \in Gens : /\ Visiting(p, "esp.install", g)
                     /\ list[p][g] \in store \ UkiSystems
                     /\ kernel[g] = list[p][g] \/ Room
                     /\ kernel' = [kernel EXCEPT ![g] = list[p][g]]
  /\ Goto(p, "esp.initrd")
  /\ UNCHANGED <<profileVars, uki, signature, cache, initrd, menuVars, dirty, hostVars, localVars>>

CopyInitrd(p) ==
  /\ \E g \in Gens : /\ Visiting(p, "esp.initrd", g)
                     /\ list[p][g] \in store
                     /\ initrd[g] = list[p][g] \/ Room
                     /\ initrd' = [initrd EXCEPT ![g] = list[p][g]]
                     /\ Visited(p, g)
  /\ Goto(p, "esp.install")
  /\ UNCHANGED <<profileVars, uki, signature, cache, kernel, menuVars, dirty, hostVars, target, list, labels, victims, signVars>>

EspScan(p) ==
  /\ At(p, "esp.install") /\ todo[p] = {} /\ Goto(p, "esp.gc")
  /\ UNCHANGED <<profileVars, espVars, menuVars, dirty, hostVars, localVars>>

\* A plausible bug: the last generation of the loop is forgotten.
ActiveButOldest(p) == {g \in Gens : list[p][g] # None /\ \E h \in Gens : h < g /\ list[p][h] # None}
\* The generations whose files survive: every one that was listed.
Active(p) == {g \in Gens : list[p][g] # None}

\* A plausible bug: only the images are looked for.
StaleImages(p)  == {g \in Gens \ Active(p) : uki[g] # None}
StaleLinux(p)   == {g \in Gens \ Active(p) : uki[g] # None \/ cache[g] # None}
StaleKernels(p) == {g \in Gens \ Active(p) : kernel[g] # None \/ initrd[g] # None}

RemoveLinux(p) ==
  /\ At(p, "esp.gc")
  /\ \E g \in StaleLinux(p) :
       \/ /\ uki[g] # None
          /\ uki' = [uki EXCEPT ![g] = None] /\ signature' = [signature EXCEPT ![g] = NoKey]
          /\ UNCHANGED cache
       \/ /\ cache[g] # None
          /\ cache' = [cache EXCEPT ![g] = None]
          /\ UNCHANGED <<uki, signature>>
  /\ UNCHANGED <<profileVars, kernel, initrd, menuVars, dirty, hostVars, pc, localVars>>

RemoveKernels(p) ==
  /\ At(p, "esp.gc") /\ StaleLinux(p) = {}
  /\ \E g \in StaleKernels(p) :
       \/ kernel[g] # None /\ kernel' = [kernel EXCEPT ![g] = None] /\ UNCHANGED initrd
       \/ initrd[g] # None /\ initrd' = [initrd EXCEPT ![g] = None] /\ UNCHANGED kernel
  /\ UNCHANGED <<profileVars, uki, signature, cache, menuVars, dirty, hostVars, pc, localVars>>

EspDone(p) ==
  /\ At(p, "esp.gc") /\ StaleLinux(p) = {} /\ StaleKernels(p) = {}
  /\ Goto(p, IF Loader = "efistub" THEN "nv.list" ELSE "lim.list")
  /\ UNCHANGED <<profileVars, espVars, menuVars, dirty, hostVars, localVars>>

-----------------------------------------------------------------------------
(* efistub-sync.                                                            *)

NvList(p) ==
  /\ At(p, "nv.list") /\ Goto(p, "nv.create")
  /\ list' = [list EXCEPT ![p] = Listing]
  /\ todo' = [todo EXCEPT ![p] = {g \in Gens : Listing[g] # None}]
  /\ labels' = [labels EXCEPT ![p] = {n.entry.gen : n \in nvram}]
  /\ UNCHANGED <<profileVars, espVars, menuVars, dirty, hostVars, target, victims, signVars>>

\* boot.json is gone, or an entry already bears the generation's label.
NvKeep(p) ==
  /\ \E g \in Gens : /\ Visiting(p, "nv.create", g)
                     /\ list[p][g] \notin store \/ g \in labels[p]
                     /\ Visited(p, g)
  /\ UNCHANGED <<profileVars, espVars, menuVars, dirty, hostVars, pc, target, list, labels, victims, signVars>>

FreeNums == 1 .. MaxNum \ {n.num : n \in nvram}

\* efibootmgr --create takes the lowest free BootXXXX number.
NvCreate(p) ==
  /\ \E g \in Gens : /\ Visiting(p, "nv.create", g)
                     /\ list[p][g] \in store /\ g \notin labels[p]
                     /\ \E k \in FreeNums :
                          /\ \A j \in FreeNums : k <= j
                          /\ nvram' = nvram \cup {[num |-> k, entry |-> EntryFor(g, list[p][g])]}
                     /\ Visited(p, g)
  /\ UNCHANGED <<profileVars, espVars, conf, confTmp, dirty, hostVars, pc, target, list, labels, victims, signVars>>

\* The second listing is a map from label to number: of several entries with one
\* label it keeps one.
NvScan(p) ==
  /\ At(p, "nv.create") /\ todo[p] = {} /\ Goto(p, "nv.gc")
  /\ \E V \in SUBSET {n \in nvram : n.entry.gen \notin Active(p)} :
       /\ \A n \in nvram : n.entry.gen \notin Active(p) =>
             \E m \in V : m.entry.gen = n.entry.gen
       /\ \A m, n \in V : m.entry.gen = n.entry.gen => m = n
       /\ victims' = [victims EXCEPT ![p] = {n.num : n \in V}]
  /\ UNCHANGED <<profileVars, espVars, menuVars, dirty, hostVars, target, list, todo, labels, signVars>>

NvDelete(p) ==
  /\ At(p, "nv.gc")
  /\ \E n \in nvram : /\ n.num \in victims[p]
                      /\ nvram' = nvram \ {n}
                      /\ victims' = [victims EXCEPT ![p] = @ \ {n.num}]
  /\ UNCHANGED <<profileVars, espVars, conf, confTmp, dirty, hostVars, pc, target, list, todo, labels, signVars>>

NvDone(p) ==
  /\ At(p, "nv.gc") /\ victims[p] = {} /\ Goto(p, "done")
  /\ UNCHANGED <<profileVars, espVars, menuVars, dirty, hostVars, localVars>>

-----------------------------------------------------------------------------
(* limine-install.                                                          *)

LimList(p) ==
  /\ At(p, "lim.list") /\ Goto(p, "lim.write")
  /\ list' = [list EXCEPT ![p] = Listing]
  /\ UNCHANGED <<profileVars, espVars, menuVars, dirty, hostVars, target, todo, labels, victims, signVars>>

\* A generation whose boot.json is gone gets no entry.
Readable(p) == [g \in Gens |-> IF list[p][g] \in store THEN list[p][g] ELSE None]

\* A plausible bug: limine.conf itself is truncated and filled.
LimWriteInPlace(p) ==
  /\ At(p, "lim.write") /\ Goto(p, "lim.fill")
  /\ list' = [list EXCEPT ![p] = Readable(p)]
  /\ conf' = TornConf
  /\ UNCHANGED <<profileVars, espVars, nvram, confTmp, dirty, hostVars, target, todo, labels, victims, signVars>>

\* The entries are put together from what boot.json of each generation says now;
\* then fs::write(limine.conf.tmp): truncated ...
LimWrite(p) ==
  /\ At(p, "lim.write") /\ Goto(p, "lim.fill")
  /\ list' = [list EXCEPT ![p] = Readable(p)]
  /\ confTmp' = TornConf
  /\ UNCHANGED <<profileVars, espVars, nvram, conf, dirty, hostVars, target, todo, labels, victims, signVars>>

\* ... and filled.
LimFill(p) ==
  /\ At(p, "lim.fill") /\ Goto(p, "lim.rename")
  /\ confTmp' = {EntryFor(g, list[p][g]) : g \in Active(p)}
  /\ UNCHANGED <<profileVars, espVars, nvram, conf, dirty, hostVars, localVars>>

\* The rename publishes whatever limine.conf.tmp holds, and is not fsynced.
LimRename(p) ==
  /\ At(p, "lim.rename") /\ Goto(p, "done")
  /\ confTmp # None
  /\ conf' = confTmp /\ confTmp' = None
  /\ Unsynced(Conf)
  /\ UNCHANGED <<profileVars, espVars, nvram, hostVars, localVars>>

-----------------------------------------------------------------------------
(* The end of a script, failures and outages.                               *)

Exit(p) ==
  /\ At(p, "done") /\ Goto(p, "idle")
  /\ ResetLocals({p})
  /\ UNCHANGED <<profileVars, espVars, menuVars, dirty, hostVars>>

\* An I/O error, a failing tool or a signal: set -e ends the script where it is.
Fail(p) ==
  /\ up /\ pc[p] \notin {"idle", "done"} /\ Goto(p, "idle")
  /\ ResetLocals({p})
  /\ UNCHANGED <<profileVars, espVars, menuVars, dirty, hostVars>>

\* The machine goes down and comes up with an entry that still boots something,
\* if there is one; of the unsynced files any may be cut short, and any may have
\* reached the disk in time.
Outage ==
  /\ up
  /\ \E L \in SUBSET dirty :
       /\ uki'   = [g \in Gens |-> IF <<"uki", g>> \in L /\ uki[g] # None THEN Torn ELSE uki[g]]
       /\ cache' = [g \in Gens |-> IF <<"cache", g>> \in L /\ cache[g] # None THEN Torn ELSE cache[g]]
       /\ conf'  = IF Conf \in L THEN TornConf ELSE conf
  /\ dirty' = {}
  /\ UNCHANGED <<profileVars, signature, kernel, initrd, nvram, confTmp, token>>
  /\ up' = (\E e \in Menu, s \in Systems : Brings(e, s))'
  /\ pc' = [p \in Scripts |-> "idle"]
  /\ ResetLocals(Scripts)

\* Nothing in the repository moves the profile back; the administrator may.
SwitchGeneration ==
  /\ Rollback /\ up /\ current' \in Numbers
  /\ UNCHANGED <<profile, store, espVars, menuVars, dirty, hostVars, pc, localVars>>

\* The administrator makes new keys, or what is built enables or disables signing: from
\* now on another token is compared. Nothing else happens.
ChangeKeys ==
  /\ Rekeying # "never" /\ up
  /\ token' \in Tokens \ {token}
  /\ Rekeying = "fresh" => token' > token
  /\ UNCHANGED <<profileVars, espVars, menuVars, dirty, up, pc, localVars>>

-----------------------------------------------------------------------------
\* The machine as install.sh leaves it: one generation, installed and synced.
Init ==
  /\ profile = [g \in Gens |-> IF g = 1 THEN First ELSE None]
  /\ current = 1
  /\ store = {First}
  /\ uki    = [g \in Gens |-> IF g = 1 /\ First \in UkiSystems THEN First ELSE None]
  /\ signature = [g \in Gens |-> IF g = 1 /\ First \in UkiSystems THEN FirstToken ELSE NoKey]
  /\ cache  = [g \in Gens |-> IF g = 1 /\ First \in UkiSystems THEN Hash(First, FirstToken) ELSE None]
  /\ kernel = [g \in Gens |-> IF g = 1 /\ First \notin UkiSystems THEN First ELSE None]
  /\ initrd = [g \in Gens |-> IF g = 1 /\ First \notin UkiSystems THEN First ELSE None]
  /\ nvram = IF Loader = "efistub" THEN {[num |-> 1, entry |-> EntryFor(1, First)]} ELSE {}
  /\ conf = IF Loader = "limine" THEN {EntryFor(1, First)} ELSE {}
  /\ confTmp = None
  /\ dirty = {}
  /\ up = TRUE /\ token = FirstToken
  /\ pc = [p \in Scripts |-> "idle"]
  /\ target = [p \in Scripts |-> None]
  /\ list = [p \in Scripts |-> NoList]
  /\ todo = [p \in Scripts |-> {}]
  /\ labels = [p \in Scripts |-> {}]
  /\ victims = [p \in Scripts |-> {}]
  /\ signToken = [p \in Scripts |-> NoKey] /\ signer = [p \in Scripts |-> NoKey]

ProfileStep(p) == \/ Build(p) \/ ProfileReuse(p) \/ ProfileAppend(p)
                  \/ DeleteGenerations(p) \/ CollectStore(p)
EspStep(p) == \/ EspList(p) \/ EspSkip(p) \/ UkiCached(p) \/ UkiStale(p) \/ UkiCopy(p) \/ UkiSign(p)
              \/ UkiSigned(p) \/ WriteCache(p) \/ CopyKernel(p) \/ CopyInitrd(p)
              \/ EspScan(p) \/ RemoveLinux(p) \/ RemoveKernels(p) \/ EspDone(p)
EfistubStep(p) == \/ NvList(p) \/ NvKeep(p) \/ NvCreate(p) \/ NvScan(p)
                  \/ NvDelete(p) \/ NvDone(p)
LimineStep(p) == LimList(p) \/ LimWrite(p) \/ LimFill(p) \/ LimRename(p)

ScriptStep(p) == \/ ProfileStep(p) \/ EspStep(p) \/ EfistubStep(p) \/ LimineStep(p)
                 \/ Exit(p)

Next == \/ \E p \in Scripts : ScriptStep(p) \/ Fail(p)
        \/ Outage \/ SwitchGeneration \/ ChangeKeys

Spec == Init /\ [][Next]_vars

-----------------------------------------------------------------------------
(* Properties.                                                              *)

\* A generation that stays in the profile and that the menu can boot stays
\* bootable through every single step of a rebuild, a gc, a failure or an outage:
\* this is what makes an interrupted neet-rebuild harmless. Other keys take this
\* away (see OnlyResigningInterrupts).
RetainedStaysBootable ==
  [][\A g \in Gens : Bootable(g) /\ profile'[g] = profile[g] => Bootable(g)']_vars

\* sbsign truncates the image of a retained generation, whose hash file tells of
\* another certificate than the one that is now in force.
Resigning(g) == /\ uki'[g] = Torn
                /\ \E t \in Tokens \ {token} : cache[g] = Hash(profile[g], t)

\* Where new keys may come at any time, one thing alone takes from a retained
\* generation its way to boot: that its image is being signed anew because of them,
\* in place. Until the first new key nothing does.
OnlyResigningInterrupts ==
  [][\A g \in Gens : Bootable(g) /\ profile'[g] = profile[g] => Bootable(g)' \/ Resigning(g)]_vars

\* When a script has finished, the boot menu is the profile: every generation is
\* offered and boots the system it names, and neither the menu nor the ESP holds
\* anything of a generation that is gone.
SyncedMenu ==
  \A p \in Scripts : pc[p] = "done" =>
    /\ \A g \in Gens : profile[g] # None => Bootable(g)
    /\ \A e \in Menu : \E g \in Numbers : e = EntryFor(g, profile[g])
    /\ \A g \in Gens : profile[g] = None => 
         uki[g] = None /\ cache[g] = None /\ kernel[g] = None /\ initrd[g] = None

\* If an entry of the menu bears the number of a generation of the profile, it
\* is that generation's entry and not one of an earlier use of the number.
EntriesAreCurrent ==
  \A e \in Menu : profile[e.gen] # None => e = EntryFor(e.gen, profile[e.gen])

\* esp-sync passes over an image only when the image is the one it would have
\* written, of this system and signed with the certificate in force: a hash file
\* that matches must vouch for what is really there.
SkippedImagesAreCurrent ==
  [][\A p \in Scripts, g \in Gens :
       (/\ pc[p] = "esp.install" /\ pc'[p] = "esp.install"
        /\ g \in todo[p] \ todo'[p] /\ list[p][g] \in store \cap UkiSystems)
       => uki[g] = list[p][g] /\ signature[g] = token]_vars

\* A sync is never stopped by a full ESP while files of deleted generations are
\* what fills it.
GcMakesRoom ==
  \A p \in Scripts, g \in Gens :
    (Visiting(p, "esp.install", g) /\ ~Room) =>
       \/ StaleLinux(p) \cup StaleKernels(p) = {}
       \/ list[p][g] \in UkiSystems /\ uki[g] = list[p][g]
       \/ list[p][g] \notin UkiSystems /\ kernel[g] = list[p][g]

\* limine.conf is one generation of the menu or another, never a part of one.
ConfIsWhole == conf # TornConf

-----------------------------------------------------------------------------
(* Why these hold when one script runs at a time, the profile is not moved  *)
(* back, keys are not taken back and an outage loses nothing but hash files *)
(* of unsigned images.                                                      *)

Installing == {"esp.install", "esp.place", "esp.sign", "esp.cache", "esp.initrd"}
Linking    == {"nv.list", "nv.create", "nv.gc", "lim.list", "lim.write", "lim.fill", "lim.rename"}
Syncing    == Installing \cup {"esp.gc"} \cup Linking \cup {"done"}

\* The keys never change.
Fixed == Rekeying = "never"

\* The hash file of generation g tells of its system. Where an outage may tear it nothing
\* depends on it, since what is unsigned is copied anew and renamed into place.
HashKept(g) == ~PowerLoss => \E t \in Tokens : cache[g] = Hash(profile[g], t)

\* The payload of generation g is complete.
Whole(g) == IF profile[g] \in UkiSystems
            THEN uki[g] = profile[g] /\ HashKept(g)
            ELSE kernel[g] = profile[g] /\ initrd[g] = profile[g]

\* What an entry may rely on at any time: new keys tear the image, and only they do.
Placed(g) == IF profile[g] \in UkiSystems
             THEN (Fixed => uki[g] = profile[g]) /\ HashKept(g)
             ELSE kernel[g] = profile[g] /\ initrd[g] = profile[g]

NoFiles(g) == uki[g] = None /\ cache[g] = None /\ kernel[g] = None /\ initrd[g] = None

Unused(g) == /\ profile[g] = None /\ NoFiles(g)
             /\ \A n \in nvram : n.entry.gen # g
             /\ conf # TornConf /\ \A e \in conf : e.gen # g

\* The current generation is the newest: a number is never used twice.
Numbering == /\ profile[current] # None
             /\ \A g \in Gens : g > current => Unused(g)

Rooted == \A g \in Gens : profile[g] # None => profile[g] \in store

\* An entry for a generation of the profile names it and finds its payload in place.
EntryGood(e) == profile[e.gen] # None => e = EntryFor(e.gen, profile[e.gen]) /\ Placed(e.gen)
EntriesGood == /\ \A n \in nvram : EntryGood(n.entry)
               /\ conf # TornConf /\ \A e \in conf : EntryGood(e)

HasEntry(g) == \E n \in nvram : n.entry.gen = g
NoEntry(g) == ~HasEntry(g) /\ (\A e \in conf : e.gen # g)

\* A hash file that matches vouches for the image beside it.
HashesTrue == \A g \in Gens : profile[g] # None /\ cache[g] = Hash(profile[g], token) =>
                uki[g] = profile[g] /\ signature[g] = token

\* A hash file tells of a certificate that is or was in force.
Issued == /\ FirstToken <= token /\ (Fixed => token = FirstToken)
          /\ \A g \in Gens, h \in HashFile : cache[g] = h => FirstToken <= h.token /\ h.token <= token

\* efistub-sync finds each entry by its label and deletes it by its number.
EntriesUnique == \A m, n \in nvram : m.num = n.num \/ m.entry.gen = n.entry.gen => m = n

\* What each script knows where it is.
ListValid(p) == pc[p] \in Syncing => list[p] = profile
TodoValid(p) ==
  /\ pc[p] \in Installing => \A g \in Gens : profile[g] # None /\ g \notin todo[p] => Whole(g)
  /\ pc[p] \in Syncing \ Installing => \A g \in Gens : profile[g] # None => Whole(g)
  /\ pc[p] = "esp.initrd" =>
       \A g \in Gens : Newest(todo[p], g) => profile[g] \notin UkiSystems /\ kernel[g] = profile[g]
\* The image it is at: its hash file does not match until it is written, and unless keys
\* change in between the image is signed with what sign_token says.
ImageValid(p) ==
  /\ pc[p] \in {"esp.place", "esp.sign", "esp.cache"} =>
       /\ FirstToken <= signToken[p] /\ signToken[p] <= token
       /\ \A g \in Gens : Newest(todo[p], g) =>
            profile[g] \in UkiSystems /\ (Fixed /\ ~PowerLoss => NoEntry(g))
  /\ pc[p] \in {"esp.place", "esp.sign"} =>
       \A g \in Gens : Newest(todo[p], g) => cache[g] # Hash(profile[g], token)
  /\ pc[p] = "esp.sign" => signToken[p] # NoKey /\ (signToken[p] = token => signer[p] = token)
  /\ pc[p] = "esp.cache" => \A g \in Gens : Newest(todo[p], g) =>
       uki[g] = profile[g] /\ (signToken[p] = token => signature[g] = token)
CleanValid(p) == pc[p] \in Linking \cup {"done"} =>
                   \A g \in Gens : profile[g] = None => NoFiles(g)
NvramValid(p) ==
  /\ pc[p] \in {"nv.list", "nv.create", "nv.gc"} => Loader = "efistub"
  /\ pc[p] = "nv.create" => \A g \in Gens :
       /\ g \in todo[p] => (g \in labels[p] <=> HasEntry(g))
       /\ g \notin todo[p] /\ profile[g] # None => HasEntry(g)
  /\ pc[p] = "nv.gc" \/ (pc[p] = "done" /\ Loader = "efistub") =>
       /\ \A g \in Gens : profile[g] # None => HasEntry(g)
       /\ \A n \in nvram : profile[n.entry.gen] = None <=> n.num \in victims[p]
  /\ pc[p] = "done" /\ Loader = "efistub" => victims[p] = {}
FullMenu == {EntryFor(g, profile[g]) : g \in Numbers}
ConfValid(p) ==
  /\ pc[p] \in {"lim.list", "lim.write", "lim.fill", "lim.rename"} => Loader = "limine"
  /\ pc[p] = "lim.rename" => confTmp = FullMenu
  /\ pc[p] = "done" /\ Loader = "limine" => conf = FullMenu

Knows(p) == /\ ListValid(p) /\ TodoValid(p) /\ ImageValid(p)
            /\ CleanValid(p) /\ NvramValid(p) /\ ConfValid(p)

\* All that an outage may take, and nothing where it takes nothing.
HashesOnly == dirty \subseteq {"cache"} \X Gens /\ (~PowerLoss => dirty = {})

IInv == /\ TypeOK /\ HashesOnly
        /\ Numbering /\ Rooted /\ EntriesGood /\ EntriesUnique /\ HashesTrue /\ Issued
        /\ \A p \in Scripts : Knows(p)
=============================================================================
