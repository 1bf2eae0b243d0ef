---------------------------- MODULE BootSync_proofs ----------------------------
(* Theorems about BootSync for every number of generations and every set of *)
(* systems, when neet-rebuild and neet-gc run one at a time.                 *)
EXTENDS BootSync, TLAPS

\* At most one script exists.
Alone == \A p, q \in Scripts : p = q

LEMMA EntryType ==
  ASSUME NEW g \in Gens, NEW s \in Systems PROVE EntryFor(g, s) \in Entry
  BY DEF EntryFor, Entry

LEMMA TypeInit == Init => TypeOK
<1> SUFFICES ASSUME Init PROVE TypeOK
  OBVIOUS
<1> USE GensAssumption, SystemsAssumption, SwitchAssumption, BoundAssumption, TokenAssumption DEF Init
<1>1. 1 \in Gens /\ 1 \in 1 .. MaxNum /\ EntryFor(1, First) \in Entry
  BY EntryType
<1>2. profile \in [Gens -> Systems \cup {None}] /\ current \in Gens /\ store \subseteq Systems
  BY <1>1
<1>3. /\ uki \in [Gens -> Content] /\ signature \in [Gens -> Tokens]
      /\ cache \in [Gens -> HashFile \cup {None, Torn}]
  BY DEF Content, Tokens, NoKey, Hash, HashFile
<1>4. kernel \in [Gens -> Systems \cup {None}] /\ initrd \in [Gens -> Systems \cup {None}]
  OBVIOUS
<1>5. nvram \subseteq Nvram
  BY <1>1 DEF Nvram
<1>6. conf \in (SUBSET Entry) \cup {TornConf} /\ confTmp \in (SUBSET Entry) \cup {TornConf, None}
  BY <1>1
<1>7. /\ pc \in [Scripts -> Stages] /\ target \in [Scripts -> Systems \cup {None}]
      /\ todo \in [Scripts -> SUBSET Gens] /\ labels \in [Scripts -> SUBSET Gens]
      /\ victims \in [Scripts -> SUBSET (1 .. MaxNum)]
  BY DEF Stages
<1>8. list \in [Scripts -> [Gens -> Systems \cup {None}]]
  BY DEF NoList
<1>9. /\ dirty \subseteq PayloadFile \cup {Conf} /\ up \in BOOLEAN /\ token \in Tokens
      /\ signToken \in [Scripts -> Tokens] /\ signer \in [Scripts -> Tokens]
  BY DEF Tokens, NoKey
<1> HIDE DEF Init
<1> QED
  BY <1>2, <1>3, <1>4, <1>5, <1>6, <1>7, <1>8, <1>9 DEF TypeOK

\* The last step of a script, a failure and an outage forget what it knew.
LEMMA ResetType ==
  ASSUME TypeOK, NEW P \in SUBSET Scripts, ResetLocals(P)
  PROVE  /\ target' \in [Scripts -> Systems \cup {None}]
         /\ list' \in [Scripts -> [Gens -> Systems \cup {None}]]
         /\ todo' \in [Scripts -> SUBSET Gens] /\ labels' \in [Scripts -> SUBSET Gens]
         /\ victims' \in [Scripts -> SUBSET (1 .. MaxNum)]
         /\ signToken' \in [Scripts -> Tokens] /\ signer' \in [Scripts -> Tokens]
<1>1. NoKey \in Tokens
  BY TokenAssumption DEF NoKey, Tokens
<1> QED
  BY <1>1 DEF ResetLocals, TypeOK, NoList

LEMMA ProfileType ==
  ASSUME TypeOK, NEW p \in Scripts, ProfileStep(p) PROVE TypeOK'
<1> USE DEF TypeOK, profileVars, espVars, menuVars, hostVars, localVars, signVars, Goto, Stages, Numbers, Newest
<1>1. CASE Build(p)
  BY <1>1 DEF Build
<1>2. CASE ProfileReuse(p)
  BY <1>2 DEF ProfileReuse
<1>3. CASE ProfileAppend(p)
  BY <1>3, GensAssumption, SystemsAssumption DEF ProfileAppend, NextNumber
<1>4. CASE DeleteGenerations(p)
  BY <1>4 DEF DeleteGenerations
<1>5. CASE CollectStore(p)
  BY <1>5 DEF CollectStore
<1> QED
  BY <1>1, <1>2, <1>3, <1>4, <1>5 DEF ProfileStep

LEMMA EspType ==
  ASSUME TypeOK, NEW p \in Scripts, EspStep(p) PROVE TypeOK'
<1> USE DEF TypeOK, profileVars, espVars, menuVars, hostVars, localVars, signVars, Goto, Stages, Newest, Visiting, Visited
<1>1. CASE EspList(p)
  BY <1>1 DEF EspList, Listing
<1>2. CASE EspSkip(p) \/ UkiCached(p)
  BY <1>2 DEF EspSkip, UkiCached
<1>3. CASE UkiStale(p) \/ EspScan(p) \/ EspDone(p)
  <2>1. CASE UkiStale(p)
    <3>1. signToken' \in [Scripts -> Tokens]
      BY <2>1 DEF UkiStale
    <3> QED
      BY <2>1, <3>1 DEF UkiStale
  <2>2. CASE EspScan(p) \/ EspDone(p)
    BY <2>2 DEF EspScan, EspDone
  <2> QED
    BY <1>3, <2>1, <2>2
<1>0. NoKey \in Tokens /\ \A s \in Systems \cup {None}, t \in Tokens : Hash(s, t) \in HashFile
  BY TokenAssumption DEF NoKey, Tokens, Hash, HashFile
<1>4. CASE UkiCopy(p) \/ UkiSign(p)
  <2>1. CASE UkiCopy(p)
    BY <1>0, <2>1 DEF UkiCopy, Content
  <2>2. CASE UkiSign(p)
    BY <2>2 DEF UkiSign, Content
  <2> QED
    BY <1>4, <2>1, <2>2
<1>5. CASE UkiSigned(p)
  BY <1>5 DEF UkiSigned, Unsynced, PayloadFile, Content
<1>6. CASE WriteCache(p)
  <2>1. PICK g \in Gens : /\ cache' = [cache EXCEPT ![g] = Hash(list[p][g], signToken[p])]
                          /\ Unsynced(<<"cache", g>>) /\ Visited(p, g)
    BY <1>6 DEF WriteCache
  <2>2. cache' \in [Gens -> HashFile \cup {None, Torn}]
    BY <1>0, <2>1
  <2> QED
    BY <1>0, <1>6, <2>1, <2>2 DEF WriteCache, Unsynced, PayloadFile
<1>7. CASE CopyKernel(p) \/ CopyInitrd(p)
  <2>1. CASE CopyKernel(p)
    BY <2>1 DEF CopyKernel
  <2>2. CASE CopyInitrd(p)
    BY <2>2 DEF CopyInitrd
  <2> QED
    BY <1>7, <2>1, <2>2
<1>8. CASE RemoveLinux(p)
  <2>1. /\ \E g \in Gens : uki' = uki \/ uki' = [uki EXCEPT ![g] = None]
        /\ \E g \in Gens : signature' = signature \/ signature' = [signature EXCEPT ![g] = NoKey]
    BY <1>8 DEF RemoveLinux, StaleLinux
  <2>3. uki' \in [Gens -> Content] /\ signature' \in [Gens -> Tokens]
    BY <1>0, <2>1 DEF Content
  <2>2. cache' \in [Gens -> HashFile \cup {None, Torn}]
    BY <1>8 DEF RemoveLinux, StaleLinux
  <2> QED
    BY <1>8, <2>2, <2>3 DEF RemoveLinux
<1>9. CASE RemoveKernels(p)
  BY <1>9 DEF RemoveKernels, StaleKernels
<1> QED
  BY <1>1, <1>2, <1>3, <1>4, <1>5, <1>6, <1>7, <1>8, <1>9 DEF EspStep

LEMMA EfistubType ==
  ASSUME TypeOK, NEW p \in Scripts, EfistubStep(p) PROVE TypeOK'
<1> USE DEF TypeOK, profileVars, espVars, menuVars, hostVars, localVars, signVars, Goto, Stages, Newest, Visiting, Visited
<1>1. CASE NvList(p)
  BY <1>1 DEF NvList, Listing, Nvram, Entry
<1>2. CASE NvKeep(p)
  BY <1>2 DEF NvKeep
<1>3. CASE NvCreate(p)
  <2>1. PICK g \in Gens, k \in FreeNums :
          /\ list[p][g] \in store
          /\ nvram' = nvram \cup {[num |-> k, entry |-> EntryFor(g, list[p][g])]}
    BY <1>3 DEF NvCreate
  <2>2. EntryFor(g, list[p][g]) \in Entry
    BY <2>1, EntryType
  <2>3. nvram' \subseteq Nvram
    BY <2>1, <2>2 DEF Nvram, FreeNums
  <2> QED
    BY <1>3, <2>3 DEF NvCreate
<1>4. CASE NvScan(p)
  BY <1>4 DEF NvScan, Nvram
<1>5. CASE NvDelete(p)
  BY <1>5 DEF NvDelete
<1>6. CASE NvDone(p)
  BY <1>6 DEF NvDone
<1> QED
  BY <1>1, <1>2, <1>3, <1>4, <1>5, <1>6 DEF EfistubStep

LEMMA LimineType ==
  ASSUME TypeOK, NEW p \in Scripts, LimineStep(p) PROVE TypeOK'
<1> USE DEF TypeOK, profileVars, espVars, menuVars, hostVars, localVars, signVars, Goto, Stages
<1>1. CASE LimList(p)
  BY <1>1 DEF LimList, Listing
<1>2. CASE LimWrite(p)
  BY <1>2 DEF LimWrite, Readable
<1>3. CASE LimFill(p)
  <2>1. \A g \in Active(p) : EntryFor(g, list[p][g]) \in Entry
    BY EntryType DEF Active
  <2>2. confTmp' \in SUBSET Entry
    BY <1>3, <2>1 DEF LimFill
  <2> QED
    BY <1>3, <2>2 DEF LimFill
<1>4. CASE LimRename(p)
  BY <1>4 DEF LimRename, Unsynced
<1> QED
  BY <1>1, <1>2, <1>3, <1>4 DEF LimineStep

LEMMA TypeStep ==
  ASSUME TypeOK, [Next]_vars PROVE TypeOK'
<1> USE DEF profileVars, espVars, menuVars, hostVars, localVars, signVars
<1>1. ASSUME NEW p \in Scripts, Exit(p) \/ Fail(p) PROVE TypeOK'
  <2>1. ResetLocals({p})
    BY <1>1 DEF Exit, Fail
  <2> QED
    BY <1>1, <2>1, ResetType DEF Exit, Fail, TypeOK, Goto, Stages
<1>3. CASE Outage
  <2>1. ResetLocals(Scripts)
    BY <1>3 DEF Outage
  <2> QED
    BY <1>3, <2>1, ResetType DEF Outage, TypeOK, Stages, Content
<1>4. CASE SwitchGeneration
  BY <1>4 DEF SwitchGeneration, TypeOK, Numbers
<1>6. CASE ChangeKeys
  BY <1>6 DEF ChangeKeys, TypeOK
<1>5. CASE UNCHANGED vars
  BY <1>5 DEF vars, TypeOK
<1> QED
  BY <1>1, <1>3, <1>4, <1>5, <1>6, ProfileType, EspType, EfistubType, LimineType
  DEF Next, ScriptStep

\* Every variable keeps its type, whatever the scripts do and however many run.
THEOREM TypeCorrect == Spec => []TypeOK
<1>1. Init => TypeOK
  BY TypeInit
<1>2. TypeOK /\ [Next]_vars => TypeOK'
  BY TypeStep
<1> QED
  BY <1>1, <1>2, PTL DEF Spec

-----------------------------------------------------------------------------
(* Safety: an interrupted neet-rebuild or neet-gc leaves the machine         *)
(* bootable, and a finished one leaves the menu equal to the profile, when   *)
(* the scripts run one at a time, nobody moves the profile back or takes     *)
(* back a key, and no image and no limine.conf can be lost to an outage:     *)
(* nothing is, or the images are unsigned for good, and so fsynced, and the  *)
(* menu is the NVRAM. New keys may come at any time (RetainedGenerationsBoot *)
(* alone excludes them).                                                     *)
Assumed == /\ Alone /\ ~Rollback /\ Rekeying # "any"
           /\ PowerLoss => Fixed /\ FirstToken = NoKey /\ Loader = "efistub"

\* The part of the invariant that is about the machine and not about a script.
Safe == Numbering /\ Rooted /\ EntriesGood /\ EntriesUnique /\ HashesTrue /\ Issued

-----------------------------------------------------------------------------
(* The initial state.                                                       *)

LEMMA SafeInit == Init => IInv
<1> SUFFICES ASSUME Init PROVE IInv
  OBVIOUS
<1> USE GensAssumption, SystemsAssumption, SwitchAssumption, TornAssumption, TokenAssumption DEF Init
<1>1. TypeOK
  BY TypeInit
<1>2. EntryFor(1, First) \in Entry /\ EntryFor(1, First).gen = 1
  BY EntryType DEF EntryFor
<1>3. conf # TornConf
  BY <1>2 DEF TornConf
<1>4. Numbering
  BY <1>2, <1>3 DEF Numbering, Unused, NoFiles
<1>5. Rooted
  BY DEF Rooted
<1>6. Placed(1) /\ profile[1] = First
  BY DEF Placed, HashKept, Tokens
<1>7. EntriesGood
  BY <1>2, <1>3, <1>6 DEF EntriesGood, EntryGood
<1>8. EntriesUnique
  BY DEF EntriesUnique
<1>10. HashesTrue
  <2>1. Hash(First, FirstToken) \in HashFile
    BY DEF Hash, HashFile, Tokens
  <2> QED
    BY <2>1, HashAssumption DEF HashesTrue
<1>11. HashesOnly
  BY DEF HashesOnly
<1>12. Issued
  <2>1. ASSUME NEW g \in Gens, NEW h \in HashFile, cache[g] = h PROVE h.token = FirstToken
    BY <2>1, HashAssumption DEF Hash
  <2>2. FirstToken <= FirstToken
    BY DEF Tokens
  <2> QED
    BY <2>1, <2>2 DEF Issued
<1>9. ASSUME NEW p \in Scripts PROVE Knows(p)
  BY DEF Knows, ListValid, TodoValid, ImageValid, CleanValid, NvramValid, ConfValid, Syncing, Installing, Linking
<1> QED
  BY <1>1, <1>4, <1>5, <1>7, <1>8, <1>9, <1>10, <1>11, <1>12 DEF IInv

-----------------------------------------------------------------------------
(* Steps that leave profile, ESP and menu alone keep Safe.                  *)

LEMMA SafeFrame ==
  ASSUME Safe, UNCHANGED <<profileVars, espVars, nvram, conf, token>> PROVE Safe'
  BY DEF Safe, Numbering, Unused, NoFiles, Rooted, EntriesGood, EntryGood, EntriesUnique, Placed,
         HashKept, HashesTrue, Issued, profileVars, espVars, EntryFor

\* A script that is idle, or has not listed the profile yet, claims nothing.
LEMMA KnowsNothing ==
  ASSUME NEW p, pc'[p] \in {"idle", "set", "collect", "esp.list"} PROVE Knows(p)'
  BY DEF Knows, ListValid, TodoValid, ImageValid, CleanValid, NvramValid, ConfValid, Syncing, Installing, Linking

\* What the numbering says of the newest generation.
LEMMA CurrentIsNewest ==
  ASSUME TypeOK, Numbering
  PROVE  Newest(Numbers, current) /\ \A g \in Gens : Newest(Numbers, g) => g = current
<1>1. current \in Numbers /\ \A h \in Numbers : h <= current
  BY GensAssumption DEF TypeOK, Numbering, Unused, Numbers
<1> QED
  BY <1>1, GensAssumption DEF Newest, Numbers

-----------------------------------------------------------------------------
(* Each step of a script keeps Safe and what the script knows.              *)

LEMMA ProfileSafe ==
  ASSUME IInv, Assumed, NEW p \in Scripts, ProfileStep(p) PROVE Safe' /\ Knows(p)'
<1> USE DEF TypeOK, profileVars, espVars, menuVars, hostVars, localVars, Goto
<1>1. /\ TypeOK /\ Numbering /\ Rooted /\ EntriesGood /\ EntriesUnique /\ HashesTrue /\ Issued
      /\ Safe
  BY DEF IInv, Safe
<1>2. Knows(p)'
  <2>1. pc'[p] \in {"set", "collect", "esp.list"}
    BY <1>1 DEF ProfileStep, Build, ProfileReuse, ProfileAppend, DeleteGenerations, CollectStore
  <2> QED
    BY <2>1, KnowsNothing
<1>3. CASE Build(p)
  <2>1. Rooted'
    BY <1>1, <1>3 DEF Build, Rooted
  <2>2. UNCHANGED <<profile, current, espVars, nvram, conf, token>>
    BY <1>3 DEF Build
  <2>3. Numbering' /\ EntriesGood' /\ EntriesUnique' /\ HashesTrue' /\ Issued'
    BY <1>1, <2>2 DEF Numbering, Unused, NoFiles, HashesTrue, EntriesGood, EntryGood, EntriesUnique,
       Placed, HashKept, EntryFor, Issued
  <2> QED
    BY <1>2, <2>1, <2>3 DEF Safe
<1>4. CASE ProfileReuse(p)
  <2>1. current' = current
    BY <1>1, <1>4, CurrentIsNewest DEF ProfileReuse
  <2> QED
    BY <1>1, <1>2, <1>4, <2>1, SafeFrame DEF ProfileReuse
<1>5. CASE ProfileAppend(p)
  <2>1. /\ current < MaxGen /\ current' = current + 1 /\ current' \in Gens
        /\ profile' = [profile EXCEPT ![current + 1] = target[p]]
        /\ target[p] \in store /\ target[p] # None
    <3>1. PICK g \in Gens : /\ Newest(Numbers, g) /\ g < MaxGen
                            /\ profile' = [profile EXCEPT ![g + 1] = target[p]] /\ current' = g + 1
      BY <1>5 DEF ProfileAppend, NextNumber
    <3>2. g = current
      BY <1>1, <3>1, CurrentIsNewest
    <3>3. g + 1 \in Gens
      BY <3>1, GensAssumption
    <3>4. target[p] \in store /\ target[p] # None
      BY <1>1, <1>5, SystemsAssumption DEF ProfileAppend
    <3> QED
      BY <3>1, <3>2, <3>3, <3>4
  <2>2. UNCHANGED <<store, espVars, nvram, conf, token>>
    BY <1>5 DEF ProfileAppend
  <2>3. Unused(current + 1)
    BY <1>1, <2>1, GensAssumption DEF Numbering
  <2>4. Numbering'
    BY <1>1, <2>1, <2>2, GensAssumption DEF Numbering, Unused, NoFiles
  <2>5. Rooted'
    BY <1>1, <2>1, <2>2 DEF Rooted
  <2>6. \A n \in nvram : n.entry.gen # current + 1 /\ n.entry.gen \in Gens
    BY <1>1, <2>3 DEF Unused, Nvram, Entry
  <2>7. \A e \in conf : e.gen # current + 1 /\ e.gen \in Gens
    BY <1>1, <2>3 DEF Unused, Entry
  <2>8. \A g \in Gens \ {current + 1} : profile'[g] = profile[g] /\ (Placed(g) => Placed(g)')
    BY <1>1, <2>1, <2>2 DEF Placed, HashKept
  <2>9. EntriesGood'
    BY <1>1, <2>2, <2>6, <2>7, <2>8 DEF EntriesGood, EntryGood, EntryFor
  <2>10. EntriesUnique'
    BY <1>1, <2>2 DEF EntriesUnique
  <2>11. HashesTrue'
    <3>1. cache'[current + 1] = None
      BY <2>2, <2>3 DEF Unused, NoFiles
    <3>2. Hash(target[p], token) # None
      BY <1>1, <2>1, HashAssumption DEF Hash, HashFile
    <3>3. profile'[current + 1] = target[p] /\ \A g \in Gens \ {current + 1} : profile'[g] = profile[g]
      BY <1>1, <2>1
    <3> QED
      BY <1>1, <2>2, <3>1, <3>2, <3>3 DEF HashesTrue
  <2>12. Issued'
    BY <1>1, <2>2 DEF Issued
  <2> QED
    BY <1>2, <2>4, <2>5, <2>9, <2>10, <2>11, <2>12 DEF Safe
<1>6. CASE DeleteGenerations(p)
  <2>1. /\ current' = current /\ profile'[current] = profile[current]
        /\ \A g \in Gens : profile'[g] = profile[g] \/ profile'[g] = None
    BY <1>1, <1>6 DEF DeleteGenerations, Numbers
  <2>2. UNCHANGED <<store, espVars, nvram, conf, token>>
    BY <1>6 DEF DeleteGenerations
  <2>3. Numbering' /\ Rooted' /\ EntriesUnique' /\ HashesTrue' /\ Issued'
    BY <1>1, <2>1, <2>2 DEF Numbering, Unused, NoFiles, Rooted, EntriesUnique, HashesTrue, Issued
  <2>4. (\A n \in nvram : n.entry.gen \in Gens) /\ (\A e \in conf : conf # TornConf => e.gen \in Gens)
    BY <1>1 DEF Nvram, Entry
  <2>5. EntriesGood'
    BY <1>1, <2>1, <2>2, <2>4 DEF EntriesGood, EntryGood, EntryFor, Placed, HashKept
  <2> QED
    BY <1>2, <2>3, <2>5 DEF Safe
<1>7. CASE CollectStore(p)
  <2>1. Rooted'
    BY <1>7 DEF CollectStore, Rooted, Numbers
  <2>2. UNCHANGED <<profile, current, espVars, nvram, conf, token>>
    BY <1>7 DEF CollectStore
  <2>3. Numbering' /\ EntriesGood' /\ EntriesUnique' /\ HashesTrue' /\ Issued'
    BY <1>1, <2>2 DEF Numbering, Unused, NoFiles, HashesTrue, EntriesGood, EntryGood, EntriesUnique,
       Placed, HashKept, EntryFor, Issued
  <2> QED
    BY <1>2, <2>1, <2>3 DEF Safe
<1> QED
  BY <1>3, <1>4, <1>5, <1>6, <1>7, <1>2 DEF ProfileStep

\* While esp-sync runs, the listing is the profile and whatever it lists is stored.
LEMMA Listed ==
  ASSUME IInv, NEW p \in Scripts, pc[p] \in Syncing
  PROVE  /\ list[p] = profile
         /\ \A g \in Gens : profile[g] # None <=> list[p][g] \in store
         /\ Active(p) = Numbers
<1>1. list[p] = profile
  BY DEF IInv, Knows, ListValid
<1>2. \A g \in Gens : profile[g] # None <=> profile[g] \in store
  BY SystemsAssumption DEF IInv, TypeOK, Rooted
<1> QED
  BY <1>1, <1>2 DEF Active, Numbers

\* Every link of the profile leads to a toplevel.
LEMMA ListingIsProfile ==
  ASSUME TypeOK, Rooted PROVE Listing = profile /\ {g \in Gens : Listing[g] # None} = Numbers
<1>1. \A g \in Gens : Listing[g] = profile[g]
  BY DEF Listing, Rooted
<1> QED
  BY <1>1 DEF Listing, TypeOK, Numbers

\* Steps of the loop that write nothing.
LEMMA EspPassSafe ==
  ASSUME IInv, NEW p \in Scripts,
         EspList(p) \/ EspSkip(p) \/ UkiCached(p) \/ UkiStale(p) \/ EspScan(p) \/ EspDone(p)
  PROVE  Safe' /\ Knows(p)'
<1>1. /\ TypeOK /\ Safe /\ TodoValid(p) /\ ListValid(p)
  BY DEF IInv, Safe, Knows
<1>2. Safe'
  BY <1>1, SafeFrame DEF EspList, EspSkip, UkiCached, UkiStale, EspScan, EspDone, profileVars, espVars, menuVars,
     hostVars
<1> USE DEF Goto, At, profileVars, espVars, menuVars, hostVars, localVars, Syncing, Installing, Linking
<1>3. CASE EspList(p)
  <2>1. pc'[p] = "esp.install" /\ list'[p] = profile /\ todo'[p] = Numbers /\ profile' = profile
    BY <1>1, <1>3, ListingIsProfile DEF TypeOK, EspList, Safe
  <2> QED
    BY <1>2, <2>1 DEF Knows, ListValid, TodoValid, ImageValid, CleanValid, NvramValid, ConfValid, Numbers
<1>4. CASE EspSkip(p) \/ UkiCached(p)
  <2>1. PICK g \in Gens : /\ Visited(p, g) /\ pc[p] = "esp.install"
                          /\ \/ list[p][g] \notin store
                             \/ list[p][g] \in UkiSystems /\ CacheMatches(g, list[p][g])
    BY <1>4 DEF EspSkip, UkiCached, Visiting
  <2>2. profile[g] # None => Whole(g)
    <3>1. list[p] = profile /\ (profile[g] # None => list[p][g] \in store)
      BY <2>1, Listed
    <3>2. token \in Tokens
      BY <1>1 DEF TypeOK
    <3> QED
      BY <1>1, <2>1, <3>1, <3>2 DEF CacheMatches, Whole, HashKept, Safe, HashesTrue
  <2>3. todo'[p] = todo[p] \ {g} /\ UNCHANGED <<profileVars, espVars, menuVars, pc, list>>
    BY <1>1, <1>4, <2>1 DEF EspSkip, UkiCached, Visited, TypeOK
  <2>4. \A h \in Gens : profile[h] # None /\ h \notin todo'[p] => Whole(h)
    BY <1>1, <2>1, <2>2, <2>3 DEF TodoValid
  <2>5. TodoValid(p)'
    BY <2>1, <2>3, <2>4 DEF TodoValid, Whole, HashKept
  <2> QED
    BY <1>1, <1>2, <2>1, <2>3, <2>5 DEF Knows, ListValid, ImageValid, CleanValid, NvramValid, ConfValid
<1>5. CASE UkiStale(p)
  <2>1. PICK g \in Gens : /\ Newest(todo[p], g) /\ pc[p] = "esp.install" /\ profile[g] \in UkiSystems
                          /\ cache[g] # Hash(profile[g], token)
    <3>1. PICK g \in Gens : /\ Newest(todo[p], g) /\ pc[p] = "esp.install"
                            /\ list[p][g] \in UkiSystems /\ ~CacheMatches(g, list[p][g])
      BY <1>5 DEF UkiStale, Visiting
    <3>2. list[p] = profile
      BY <1>1, <3>1 DEF ListValid
    <3>3. profile[g] # None
      BY <3>1, <3>2, SystemsAssumption
    <3>4. cache[g] # Hash(profile[g], token)
      BY <1>1, <3>1, <3>2, <3>3 DEF CacheMatches, Safe, HashesTrue
    <3> QED
      BY <3>1, <3>2, <3>4
  <2>2. \A h \in Gens : Newest(todo[p], h) => h = g
    BY <2>1, GensAssumption DEF Newest
  <2>3. profile[g] # None
    BY <2>1, SystemsAssumption
  <2>4. Fixed /\ ~PowerLoss => NoEntry(g)
    <3>1. SUFFICES ASSUME Fixed, ~PowerLoss PROVE ~Placed(g)
      BY <1>1, <2>3, <3>1 DEF Safe, EntriesGood, EntryGood, NoEntry, HasEntry
    <3>2. ASSUME NEW t \in Tokens, cache[g] = Hash(profile[g], t) PROVE FALSE
      <4>1. Hash(profile[g], t) \in HashFile /\ Hash(profile[g], t).token = t
        BY <1>1 DEF Hash, HashFile, TypeOK
      <4>2. FirstToken <= t /\ t <= token /\ token = FirstToken
        BY <1>1, <3>1, <3>2, <4>1 DEF Safe, Issued
      <4>3. t = token
        BY <4>2, TokenAssumption DEF Tokens
      <4> QED
        BY <2>1, <3>2, <4>3
    <3> QED
      BY <2>1, <3>1, <3>2 DEF Placed, HashKept
  <2>5. /\ pc'[p] = "esp.place" /\ UNCHANGED <<profileVars, espVars, menuVars, token, list, todo>>
        /\ signToken'[p] = token
    BY <1>1, <1>5 DEF UkiStale, TypeOK
  <2>6. TodoValid(p)'
    <3>1. \A h \in Gens : profile[h] # None /\ h \notin todo[p] => Whole(h)
      BY <1>1, <2>1 DEF TodoValid
    <3>2. \A h \in Gens : profile[h] # None /\ h \notin todo'[p] => Whole(h)'
      BY <3>1, <2>5 DEF Whole, HashKept
    <3> QED
      BY <2>5, <3>2 DEF TodoValid
  <2>7. ImageValid(p)'
    <3>1. FirstToken <= token /\ token <= token
      BY <1>1 DEF Safe, Issued, TypeOK, Tokens
    <3>2. \A h \in Gens : Newest(todo[p], h) =>
                            /\ profile[h] \in UkiSystems /\ (Fixed /\ ~PowerLoss => NoEntry(h))
                            /\ cache[h] # Hash(profile[h], token)
      BY <2>1, <2>2, <2>4
    <3>3. \A h \in Gens : Newest(todo'[p], h) =>
                            /\ profile'[h] \in UkiSystems /\ (Fixed /\ ~PowerLoss => NoEntry(h)')
                            /\ cache'[h] # Hash(profile'[h], token')
      BY <3>2, <2>5 DEF NoEntry, HasEntry, Newest
    <3> QED
      BY <2>5, <3>1, <3>3 DEF ImageValid
  <2> QED
    BY <1>1, <1>2, <2>1, <2>5, <2>6, <2>7 DEF Knows, ListValid, CleanValid, NvramValid, ConfValid
<1>6. CASE EspScan(p)
  <2>1. pc[p] = "esp.install" /\ todo[p] = {}
        /\ pc'[p] = "esp.gc" /\ UNCHANGED <<profileVars, espVars, menuVars, localVars>>
    BY <1>1, <1>6 DEF EspScan, TypeOK
  <2>2. TodoValid(p)'
    BY <1>1, <2>1 DEF TodoValid, Whole, HashKept
  <2> QED
    BY <1>1, <1>2, <2>1, <2>2 DEF Knows, ListValid, ImageValid, CleanValid, NvramValid, ConfValid
<1>7. CASE EspDone(p)
  <2>1. /\ pc[p] = "esp.gc" /\ UNCHANGED <<profileVars, espVars, menuVars, localVars>>
        /\ StaleLinux(p) = {} /\ StaleKernels(p) = {}
        /\ pc'[p] = IF Loader = "efistub" THEN "nv.list" ELSE "lim.list"
    BY <1>1, <1>7 DEF EspDone, TypeOK
  <2>2. TodoValid(p)'
    BY <1>1, <2>1 DEF TodoValid, Whole, HashKept
  <2>3. \A g \in Gens : profile[g] = None => NoFiles(g)
    BY <2>1, Listed DEF StaleLinux, StaleKernels, NoFiles, Numbers
  <2>4. CleanValid(p)'
    BY <2>1, <2>3 DEF CleanValid, NoFiles
  <2>5. NvramValid(p)' /\ ConfValid(p)' /\ ImageValid(p)'
    BY <2>1, SwitchAssumption DEF NvramValid, ConfValid, ImageValid
  <2> QED
    BY <1>1, <1>2, <2>1, <2>2, <2>4, <2>5 DEF Knows, ListValid
<1> QED
  BY <1>3, <1>4, <1>5, <1>6, <1>7

SameFiles(g) == /\ uki'[g] = uki[g] /\ signature'[g] = signature[g] /\ cache'[g] = cache[g]
                /\ kernel'[g] = kernel[g] /\ initrd'[g] = initrd[g]

\* Writing a file of generation g is safe while no entry boots g, or if it leaves in place
\* what an entry relies on.
LEMMA WriteSafe ==
  ASSUME TypeOK, Safe, UNCHANGED <<profileVars, nvram, conf, token>>,
         NEW g \in Gens, profile[g] # None,
         \A h \in Gens \ {g} : SameFiles(h),
         NoEntry(g) \/ (Placed(g) => Placed(g)'),
         cache'[g] = Hash(profile[g], token) => uki'[g] = profile[g] /\ signature'[g] = token,
         \A h \in HashFile : cache'[g] = h => FirstToken <= h.token /\ h.token <= token
  PROVE  Safe' /\ \A h \in Gens \ {g} : Whole(h) => Whole(h)'
<1> USE DEF profileVars, Safe
<1>1. \A h \in Gens \ {g} : (Whole(h) => Whole(h)') /\ (Placed(h) => Placed(h)')
  BY DEF Whole, Placed, HashKept, SameFiles
<1>2. Rooted' /\ EntriesUnique'
  BY DEF Rooted, EntriesUnique
<1>3. HashesTrue' /\ Issued'
  BY DEF HashesTrue, Issued, SameFiles
<1>4. Numbering'
  BY DEF Numbering, Unused, NoFiles, SameFiles
<1>5. /\ conf # TornConf
      /\ \A n \in nvram : n.entry.gen \in Gens /\ (n.entry.gen = g => ~NoEntry(g))
      /\ \A e \in conf : e.gen \in Gens /\ (e.gen = g => ~NoEntry(g))
  BY DEF TypeOK, EntriesGood, Nvram, Entry, NoEntry, HasEntry
<1>6. EntriesGood'
  BY <1>1, <1>5 DEF EntriesGood, EntryGood, EntryFor
<1> QED
  BY <1>1, <1>2, <1>3, <1>4, <1>6

\* Steps of the loop that write a file.
LEMMA EspWriteSafe ==
  ASSUME Assumed, IInv, NEW p \in Scripts,
         \/ UkiCopy(p) \/ UkiSign(p) \/ UkiSigned(p) \/ WriteCache(p)
         \/ CopyKernel(p) \/ CopyInitrd(p)
  PROVE  Safe' /\ Knows(p)'
<1>1. /\ TypeOK /\ Safe /\ TodoValid(p) /\ ImageValid(p)
  BY DEF IInv, Safe, Knows
<1>2. PICK g \in Gens : Newest(todo[p], g) /\ pc[p] \in Installing
  BY DEF UkiCopy, UkiSign, UkiSigned, WriteCache, CopyKernel, CopyInitrd, Visiting, At, Installing
<1>3. list[p] = profile
  BY <1>2, Listed DEF Syncing
<1>4. \A h \in Gens : Newest(todo[p], h) => h = g
  BY <1>2, GensAssumption DEF Newest
<1>5. /\ UNCHANGED <<profileVars, menuVars, token, list>>
      /\ pc'[p] \in Installing
      /\ todo'[p] \in {todo[p], todo[p] \ {g}}
      /\ \A h \in Gens \ {g} : SameFiles(h)
  <2> USE <1>1, <1>2, <1>4 DEF Visiting, Visited, TypeOK, localVars, hostVars, Goto, Installing, SameFiles
  <2>1. CASE UkiCopy(p)
    BY <2>1 DEF UkiCopy
  <2>2. CASE UkiSign(p)
    BY <2>2 DEF UkiSign
  <2>3. CASE UkiSigned(p)
    BY <2>3 DEF UkiSigned
  <2>4. CASE WriteCache(p)
    BY <2>4 DEF WriteCache
  <2>5. CASE CopyKernel(p)
    BY <2>5 DEF CopyKernel
  <2>6. CASE CopyInitrd(p)
    BY <2>6 DEF CopyInitrd
  <2> HIDE <1>1, <1>2, <1>4
  <2> QED
    BY <2>1, <2>2, <2>3, <2>4, <2>5, <2>6
<1>6. \A h \in Gens : profile[h] # None /\ h \notin todo[p] => Whole(h)
  BY <1>1, <1>2 DEF TodoValid
<1>14. token \in Tokens /\ Tokens \subseteq Nat /\ NoKey = 0 /\ signToken[p] \in Tokens /\ FirstToken \in Nat
  BY <1>1, TokenAssumption DEF TypeOK, Tokens, NoKey
\* What is left to show, once for each step.
<1>7. ASSUME profile[g] # None, NoEntry(g) \/ (Placed(g) => Placed(g)'),
             cache'[g] = Hash(profile[g], token) => uki'[g] = profile[g] /\ signature'[g] = token,
             \A h \in HashFile : cache'[g] = h => FirstToken <= h.token /\ h.token <= token,
             todo'[p] = todo[p] \/ Whole(g)',
             pc'[p] \in {"esp.place", "esp.sign", "esp.cache"} =>
               /\ signToken'[p] = signToken[p] /\ FirstToken <= signToken[p] /\ signToken[p] <= token
               /\ profile[g] \in UkiSystems /\ (Fixed /\ ~PowerLoss => NoEntry(g)),
             pc'[p] = "esp.sign" => signToken[p] # NoKey /\ (signToken[p] = token => signer'[p] = token),
             pc'[p] \in {"esp.place", "esp.sign"} => cache'[g] # Hash(profile[g], token),
             pc'[p] = "esp.cache" => uki'[g] = profile[g] /\ (signToken[p] = token => signature'[g] = token),
             pc'[p] = "esp.initrd" => profile[g] \notin UkiSystems /\ kernel'[g] = profile[g],
             pc'[p] # "esp.install" => todo'[p] = todo[p]
      PROVE  Safe' /\ Knows(p)'
  <2>1. Safe' /\ \A h \in Gens \ {g} : Whole(h) => Whole(h)'
    BY <1>1, <1>5, <1>7, WriteSafe DEF menuVars
  <2>2. \A h \in Gens : profile'[h] # None /\ h \notin todo'[p] => Whole(h)'
    BY <1>2, <1>5, <1>6, <1>7, <2>1 DEF profileVars, Newest
  <2>3. NoEntry(g)' <=> NoEntry(g)
    BY <1>5 DEF NoEntry, HasEntry, menuVars
  <2>4. todo'[p] = todo[p] => \A h \in Gens : Newest(todo'[p], h) => h = g
    BY <1>4
  <2>5. TodoValid(p)'
    BY <1>5, <1>7, <2>2, <2>4 DEF TodoValid, Installing, profileVars
  <2>6. pc'[p] \in Syncing /\ pc'[p] \notin Linking \cup {"done", "nv.list", "nv.create", "nv.gc"}
    BY <1>5 DEF Syncing, Installing, Linking
  <2>7. ListValid(p)'
    BY <1>3, <1>5 DEF ListValid, profileVars
  <2>8. ImageValid(p)'
    BY <1>5, <1>7, <2>3, <2>4 DEF ImageValid, profileVars
  <2> QED
    BY <2>1, <2>5, <2>6, <2>7, <2>8 DEF Knows, CleanValid, NvramValid, ConfValid, Linking
<1> USE DEF Goto, At, Visiting
<1>15. \A h \in HashFile : cache[g] = h => FirstToken <= h.token /\ h.token <= token
  BY <1>1 DEF Safe, Issued
<1>8. CASE UkiCopy(p)
  <2>1. /\ pc[p] = "esp.place" /\ pc'[p] = "esp.cache" /\ todo'[p] = todo[p] /\ signToken[p] = NoKey
        /\ uki'[g] = list[p][g] /\ signature'[g] = NoKey /\ list[p][g] \in store
        /\ UNCHANGED <<cache, signToken>>
    BY <1>1, <1>2, <1>4, <1>8 DEF UkiCopy, TypeOK, localVars, signVars
  <2>2. /\ profile[g] \in UkiSystems /\ (Fixed /\ ~PowerLoss => NoEntry(g))
        /\ FirstToken <= signToken[p] /\ signToken[p] <= token /\ cache[g] # Hash(profile[g], token)
    BY <1>1, <1>2, <1>3, <2>1 DEF ImageValid
  <2>3. profile[g] # None
    BY <2>2, SystemsAssumption
  <2>4. Placed(g) => Placed(g)'
    BY <1>3, <1>5, <2>1, <2>2 DEF Placed, HashKept, profileVars
  <2> QED
    BY <1>3, <1>7, <1>15, <2>1, <2>2, <2>3, <2>4
<1>9. CASE UkiSign(p)
  <2>1. /\ pc[p] = "esp.place" /\ pc'[p] = "esp.sign" /\ todo'[p] = todo[p] /\ cache' = cache
        /\ list[p][g] \in store /\ signToken[p] # NoKey /\ token # NoKey /\ signToken' = signToken
        /\ signer'[p] = token
    BY <1>1, <1>2, <1>4, <1>9 DEF UkiSign, TypeOK, localVars
  <2>2. /\ profile[g] \in UkiSystems /\ (Fixed /\ ~PowerLoss => NoEntry(g))
        /\ FirstToken <= signToken[p] /\ signToken[p] <= token /\ cache[g] # Hash(profile[g], token)
    BY <1>1, <1>2, <2>1 DEF ImageValid
  <2>3. profile[g] # None
    BY <2>2, SystemsAssumption
  <2>4. ~PowerLoss
    BY <1>1, <2>1 DEF Assumed, Safe, Issued
  <2>5. NoEntry(g) \/ (Placed(g) => Placed(g)')
    BY <1>5, <2>1, <2>2, <2>4 DEF Placed, HashKept, profileVars
  <2> QED
    BY <1>7, <1>15, <2>1, <2>2, <2>3, <2>5
<1>10. CASE UkiSigned(p)
  <2>1. /\ pc[p] = "esp.sign" /\ pc'[p] = "esp.cache" /\ todo'[p] = todo[p] /\ uki'[g] = list[p][g]
        /\ signature'[g] = signer[p] /\ UNCHANGED <<cache, signToken>>
    BY <1>1, <1>2, <1>4, <1>10 DEF UkiSigned, TypeOK, localVars, signVars
  <2>2. /\ profile[g] \in UkiSystems /\ (Fixed /\ ~PowerLoss => NoEntry(g))
        /\ FirstToken <= signToken[p] /\ signToken[p] <= token /\ cache[g] # Hash(profile[g], token)
        /\ signToken[p] = token => signer[p] = token
    BY <1>1, <1>2, <2>1 DEF ImageValid
  <2>3. profile[g] # None
    BY <2>2, SystemsAssumption
  <2>4. Placed(g) => Placed(g)'
    BY <1>3, <1>5, <2>1, <2>2 DEF Placed, HashKept, profileVars
  <2> QED
    BY <1>3, <1>7, <1>15, <2>1, <2>2, <2>3, <2>4
<1>11. CASE WriteCache(p)
  <2>1. /\ pc[p] = "esp.cache" /\ pc'[p] = "esp.install" /\ UNCHANGED <<uki, signature>>
        /\ cache'[g] = Hash(profile[g], signToken[p])
    BY <1>1, <1>2, <1>3, <1>4, <1>11 DEF WriteCache, TypeOK
  <2>2. /\ profile[g] \in UkiSystems /\ (Fixed /\ ~PowerLoss => NoEntry(g)) /\ uki[g] = profile[g]
        /\ FirstToken <= signToken[p] /\ signToken[p] <= token
        /\ signToken[p] = token => signature[g] = token
    BY <1>1, <1>2, <2>1 DEF ImageValid
  <2>3. profile[g] # None
    BY <2>2, SystemsAssumption
  <2>4. Whole(g)' /\ Placed(g)'
    BY <1>5, <1>14, <2>1, <2>2 DEF Whole, Placed, HashKept, profileVars
  <2>5. cache'[g] = Hash(profile[g], token) => signToken[p] = token
    BY <2>1 DEF Hash
  <2>6. \A h \in HashFile : cache'[g] = h => h.token = signToken[p]
    BY <2>1 DEF Hash
  <2> QED
    BY <1>7, <2>1, <2>2, <2>3, <2>4, <2>5, <2>6
<1>12. CASE CopyKernel(p)
  <2>1. /\ pc'[p] = "esp.initrd" /\ todo'[p] = todo[p] /\ UNCHANGED <<uki, signature, cache, initrd>>
        /\ kernel'[g] = list[p][g] /\ list[p][g] \in store \ UkiSystems
    BY <1>1, <1>2, <1>4, <1>12 DEF CopyKernel, TypeOK, localVars
  <2>2. profile[g] # None /\ profile[g] \notin UkiSystems
    BY <1>1, <1>3, <2>1, SystemsAssumption DEF TypeOK
  <2>3. /\ Placed(g) => Placed(g)'
        /\ cache'[g] = Hash(profile[g], token) => uki'[g] = profile[g] /\ signature'[g] = token
    BY <1>1, <1>3, <1>5, <2>1, <2>2 DEF Placed, profileVars, Safe, HashesTrue
  <2> QED
    BY <1>3, <1>7, <1>15, <2>1, <2>2, <2>3
<1>13. CASE CopyInitrd(p)
  <2>1. /\ pc[p] = "esp.initrd" /\ pc'[p] = "esp.install" /\ UNCHANGED <<uki, signature, cache, kernel>>
        /\ initrd'[g] = list[p][g] /\ list[p][g] \in store
    BY <1>1, <1>2, <1>4, <1>13 DEF CopyInitrd, TypeOK
  <2>2. profile[g] # None /\ profile[g] \notin UkiSystems /\ kernel[g] = profile[g]
    BY <1>1, <1>2, <1>3, <2>1, SystemsAssumption DEF TodoValid, TypeOK
  <2>3. /\ Whole(g)' /\ Placed(g)'
        /\ cache'[g] = Hash(profile[g], token) => uki'[g] = profile[g] /\ signature'[g] = token
    BY <1>1, <1>3, <1>5, <2>1, <2>2 DEF Whole, Placed, profileVars, Safe, HashesTrue
  <2> QED
    BY <1>7, <1>15, <2>1, <2>2, <2>3
<1> QED
  BY <1>8, <1>9, <1>10, <1>11, <1>12, <1>13

\* esp-sync deletes files of generations the profile no longer has.
LEMMA EspRemoveSafe ==
  ASSUME IInv, NEW p \in Scripts, RemoveLinux(p) \/ RemoveKernels(p)
  PROVE  Safe' /\ Knows(p)'
<1>1. TypeOK /\ Safe /\ Knows(p)
  BY DEF IInv, Safe
<1>2. pc[p] = "esp.gc" /\ UNCHANGED <<profileVars, menuVars, token, pc, localVars>>
  BY DEF RemoveLinux, RemoveKernels, At, hostVars
<1>3. Active(p) = Numbers
  BY <1>2, Listed DEF Syncing
<1>4. /\ \A g \in Gens : profile[g] # None => SameFiles(g)
      /\ \A g \in Gens : NoFiles(g) => NoFiles(g)'
  BY <1>1, <1>3 DEF RemoveLinux, RemoveKernels, StaleLinux, StaleKernels, Numbers, SameFiles, NoFiles, TypeOK
<1>5. \A g \in Gens : profile[g] # None => (Whole(g) => Whole(g)') /\ (Placed(g) => Placed(g)')
  BY <1>2, <1>4 DEF Whole, Placed, HashKept, SameFiles, profileVars
<1> USE DEF profileVars, menuVars, localVars
<1>6. /\ conf # TornConf
      /\ \A n \in nvram : n.entry.gen \in Gens /\ EntryGood(n.entry)
      /\ \A e \in conf : e.gen \in Gens /\ EntryGood(e)
  BY <1>1 DEF TypeOK, Safe, EntriesGood, Nvram, Entry
<1>7. EntriesGood'
  BY <1>2, <1>5, <1>6 DEF EntriesGood, EntryGood, EntryFor
<1>8. Numbering' /\ Rooted' /\ EntriesUnique' /\ HashesTrue'
  BY <1>1, <1>2, <1>4 DEF Safe, Numbering, Unused, Rooted, EntriesUnique, HashesTrue, SameFiles
<1>9. TodoValid(p)'
  BY <1>1, <1>2, <1>5 DEF Knows, TodoValid, Installing, Syncing
<1>10. Issued'
  <2>1. \A g \in Gens : cache'[g] \in {cache[g], None}
    BY <1>1 DEF RemoveLinux, RemoveKernels, TypeOK
  <2> QED
    BY <1>1, <1>2, <2>1, HashAssumption DEF Safe, Issued
<1> QED
  BY <1>1, <1>2, <1>7, <1>8, <1>9, <1>10
  DEF Safe, Knows, ListValid, ImageValid, CleanValid, NvramValid, ConfValid, Linking, Syncing

\* efistub-sync keeps the payloads, so what its loop found whole stays whole.
LEMMA LinkFrame ==
  ASSUME NEW p \in Scripts, TodoValid(p), CleanValid(p), ListValid(p),
         pc[p] \in Linking, pc'[p] \in Linking \cup {"done"},
         UNCHANGED <<profileVars, espVars>>, list'[p] = profile
  PROVE  TodoValid(p)' /\ ImageValid(p)' /\ CleanValid(p)' /\ ListValid(p)'
  BY DEF TodoValid, ImageValid, CleanValid, ListValid, Linking, Syncing, Installing, Whole, HashKept, NoFiles,
         profileVars, espVars

LEMMA EfistubSafe ==
  ASSUME IInv, NEW p \in Scripts, EfistubStep(p) PROVE Safe' /\ Knows(p)'
<1>1. /\ TypeOK /\ Safe /\ TodoValid(p) /\ CleanValid(p) /\ ListValid(p) /\ NvramValid(p)
  BY DEF IInv, Safe, Knows
<1>2. /\ pc[p] \in {"nv.list", "nv.create", "nv.gc"} /\ Loader = "efistub"
      /\ pc'[p] \in {"nv.create", "nv.gc", "done"}
      /\ UNCHANGED <<profileVars, espVars, conf, token>> /\ list'[p] \in {list[p], profile}
  BY <1>1, ListingIsProfile DEF Safe, TypeOK, NvramValid, EfistubStep, NvList, NvKeep, NvCreate, NvScan, NvDelete, NvDone, Visiting, At,
              Goto, menuVars, hostVars, localVars
<1>3. list[p] = profile /\ list'[p] = profile
  BY <1>1, <1>2 DEF ListValid, Syncing, Linking
<1>4. TodoValid(p)' /\ ImageValid(p)' /\ CleanValid(p)' /\ ListValid(p)' /\ ConfValid(p)'
  <2>1. ConfValid(p)'
    BY <1>2 DEF ConfValid
  <2> QED
    BY <1>1, <1>2, <1>3, <2>1, LinkFrame DEF Linking
<1>5. \A g \in Gens : profile[g] # None => Placed(g) /\ Placed(g)'
  BY <1>1, <1>2 DEF TodoValid, Linking, Syncing, Installing, Whole, Placed, HashKept, profileVars, espVars
<1>6. \A n \in nvram : n.entry.gen \in Gens
  BY <1>1 DEF TypeOK, Nvram, Entry
<1>7. ASSUME nvram' = nvram PROVE Safe'
  BY <1>1, <1>2, <1>7, SafeFrame
<1> USE DEF Goto, At, Visiting, profileVars, espVars, menuVars, localVars
<1>8. CASE NvList(p)
  <2>1. /\ pc'[p] = "nv.create" /\ nvram' = nvram /\ todo'[p] = Numbers
        /\ labels'[p] = {n.entry.gen : n \in nvram}
    BY <1>1, <1>8, ListingIsProfile DEF NvList, TypeOK, Safe
  <2>2. NvramValid(p)'
    BY <1>2, <2>1 DEF NvramValid, Numbers, HasEntry
  <2> QED
    BY <1>4, <1>7, <2>1, <2>2 DEF Knows
<1>9. CASE NvKeep(p)
  <2>1. PICK g \in Gens : /\ Newest(todo[p], g) /\ (profile[g] \notin store \/ g \in labels[p])
                          /\ Visited(p, g)
    BY <1>3, <1>9 DEF NvKeep
  <2>2. /\ pc[p] = "nv.create" /\ pc'[p] = "nv.create" /\ UNCHANGED <<nvram, labels>>
        /\ todo'[p] = todo[p] \ {g} /\ g \in todo[p]
    BY <1>1, <1>9, <2>1 DEF NvKeep, Visited, TypeOK, Newest
  <2>3. profile[g] # None => HasEntry(g)
    BY <1>1, <2>1, <2>2 DEF NvramValid, Safe, Rooted
  <2>4. NvramValid(p)'
    BY <1>1, <1>2, <2>2, <2>3 DEF NvramValid, HasEntry
  <2> QED
    BY <1>4, <1>7, <2>2, <2>4 DEF Knows
<1>10. CASE NvCreate(p)
  <2>1. PICK g \in Gens, k \in FreeNums :
          /\ Newest(todo[p], g) /\ profile[g] \in store /\ g \notin labels[p] /\ Visited(p, g)
          /\ nvram' = nvram \cup {[num |-> k, entry |-> EntryFor(g, profile[g])]}
    BY <1>3, <1>10 DEF NvCreate
  <2>2. /\ pc[p] = "nv.create" /\ pc'[p] = "nv.create" /\ UNCHANGED labels
        /\ todo'[p] = todo[p] \ {g} /\ g \in todo[p] /\ profile[g] # None
    BY <1>1, <1>10, <2>1, SystemsAssumption DEF NvCreate, Visited, TypeOK, Newest
  <2> DEFINE new == [num |-> k, entry |-> EntryFor(g, profile[g])]
  <2>3. new.entry = EntryFor(g, profile[g]) /\ new.entry.gen = g /\ new.num = k
    BY DEF EntryFor
  <2>4. ~HasEntry(g)
    BY <1>1, <2>1, <2>2 DEF NvramValid
  <2>5. EntriesUnique'
    BY <1>1, <2>1, <2>3, <2>4 DEF EntriesUnique, Safe, HasEntry, FreeNums
  <2>6. EntriesGood'
    <3>1. EntryGood(new.entry)'
      BY <1>2, <1>5, <2>2, <2>3 DEF EntryGood, EntryFor
    <3>2. \A n \in nvram : EntryGood(n.entry)'
      BY <1>1, <1>2, <1>5, <1>6 DEF EntryGood, EntriesGood, Safe, EntryFor
    <3>3. conf # TornConf /\ \A e \in conf : EntryGood(e)'
      BY <1>1, <1>2 DEF EntryGood, EntriesGood, Safe, EntryFor, Placed, HashKept
    <3> QED
      BY <1>2, <2>1, <3>1, <3>2, <3>3 DEF EntriesGood
  <2>7. Numbering'
    <3>1. \A h \in Gens : h > current => h # g
      BY <1>1, <2>2 DEF Safe, Numbering, Unused
    <3> QED
      BY <1>1, <1>2, <2>1, <2>3, <3>1 DEF Safe, Numbering, Unused, NoFiles
  <2>8. Rooted' /\ HashesTrue' /\ Issued'
    BY <1>1, <1>2 DEF Safe, Rooted, HashesTrue, Issued
  <2>9. NvramValid(p)'
    <3>1. HasEntry(g)' /\ \A h \in Gens \ {g} : HasEntry(h)' <=> HasEntry(h)
      BY <2>1, <2>3 DEF HasEntry
    <3> QED
      BY <1>1, <1>2, <2>2, <3>1 DEF NvramValid
  <2> QED
    BY <1>4, <2>5, <2>6, <2>7, <2>8, <2>9 DEF Knows, Safe
<1>11. CASE NvScan(p)
  <2>1. /\ pc[p] = "nv.create" /\ todo[p] = {} /\ pc'[p] = "nv.gc" /\ UNCHANGED <<nvram>>
    BY <1>1, <1>11 DEF NvScan, TypeOK
  <2>2. Active(p) = Numbers
    BY <1>3 DEF Active, Numbers
  <2>3. PICK V \in SUBSET {n \in nvram : n.entry.gen \notin Numbers} :
          /\ \A n \in nvram : n.entry.gen \notin Numbers => \E m \in V : m.entry.gen = n.entry.gen
          /\ victims'[p] = {n.num : n \in V}
    <3>1. PICK V \in SUBSET {n \in nvram : n.entry.gen \notin Active(p)} :
            /\ \A n \in nvram : n.entry.gen \notin Active(p) => \E m \in V : m.entry.gen = n.entry.gen
            /\ victims' = [victims EXCEPT ![p] = {n.num : n \in V}]
      BY <1>11 DEF NvScan
    <3>2. victims'[p] = {n.num : n \in V}
      BY <1>1, <3>1 DEF TypeOK
    <3> QED
      BY <2>2, <3>1, <3>2
  <2>4. \A n \in nvram : profile[n.entry.gen] = None <=> n.num \in victims'[p]
    BY <1>1, <1>6, <2>3 DEF Safe, EntriesUnique, Numbers
  <2>5. NvramValid(p)'
    BY <1>1, <1>2, <2>1, <2>4 DEF NvramValid, HasEntry
  <2> QED
    BY <1>4, <1>7, <2>1, <2>5 DEF Knows
<1>12. CASE NvDelete(p)
  <2>1. PICK n \in nvram : n.num \in victims[p] /\ nvram' = nvram \ {n} /\ victims'[p] = victims[p] \ {n.num}
    BY <1>1, <1>12 DEF NvDelete, TypeOK
  <2>2. pc[p] = "nv.gc" /\ pc'[p] = "nv.gc"
    BY <1>1, <1>12 DEF NvDelete, TypeOK
  <2>3. profile[n.entry.gen] = None
    BY <1>1, <2>1, <2>2 DEF NvramValid
  <2>4. Numbering' /\ Rooted' /\ EntriesUnique' /\ HashesTrue' /\ Issued'
    BY <1>1, <1>2, <2>1 DEF Safe, Numbering, Unused, NoFiles, Rooted, EntriesUnique, HashesTrue, Issued
  <2>5. EntriesGood'
    BY <1>1, <1>2, <2>1 DEF Safe, EntriesGood, EntryGood, EntryFor, Placed, HashKept
  <2>6. NvramValid(p)'
    <3>1. \A g \in Gens : profile[g] # None => HasEntry(g)'
      BY <1>1, <2>1, <2>2, <2>3 DEF NvramValid, HasEntry
    <3>2. \A m \in nvram' : profile[m.entry.gen] = None <=> m.num \in victims'[p]
      BY <1>1, <2>1, <2>2 DEF NvramValid, Safe, EntriesUnique
    <3> QED
      BY <1>2, <2>2, <3>1, <3>2 DEF NvramValid
  <2> QED
    BY <1>4, <2>4, <2>5, <2>6 DEF Knows, Safe
<1>13. CASE NvDone(p)
  <2>1. pc[p] = "nv.gc" /\ victims[p] = {} /\ pc'[p] = "done" /\ UNCHANGED <<nvram, victims>>
    BY <1>1, <1>13 DEF NvDone, TypeOK
  <2>2. NvramValid(p)'
    BY <1>1, <1>2, <2>1 DEF NvramValid, HasEntry
  <2> QED
    BY <1>4, <1>7, <2>1, <2>2 DEF Knows
<1> QED
  BY <1>8, <1>9, <1>10, <1>11, <1>12, <1>13 DEF EfistubStep

\* The entries of a whole limine.conf.
LEMMA FullMenuType ==
  ASSUME TypeOK
  PROVE  /\ FullMenu # TornConf
         /\ \A e \in FullMenu : e.gen \in Numbers /\ e = EntryFor(e.gen, profile[e.gen])
<1>1. \A g \in Numbers : EntryFor(g, profile[g]) \in Entry /\ EntryFor(g, profile[g]).gen = g
  BY EntryType DEF Numbers, TypeOK, EntryFor
<1> QED
  BY <1>1, TornAssumption DEF FullMenu, TornConf

LEMMA LimineSafe ==
  ASSUME IInv, NEW p \in Scripts, LimineStep(p) PROVE Safe' /\ Knows(p)'
<1>1. /\ TypeOK /\ Safe /\ TodoValid(p) /\ CleanValid(p) /\ ListValid(p) /\ NvramValid(p) /\ ConfValid(p)
  BY DEF IInv, Safe, Knows
<1>2. /\ pc[p] \in {"lim.list", "lim.write", "lim.fill", "lim.rename"} /\ Loader = "limine"
      /\ pc'[p] \in {"lim.write", "lim.fill", "lim.rename", "done"}
      /\ UNCHANGED <<profileVars, espVars, nvram, token, todo, victims>>
  BY <1>1 DEF TypeOK, ConfValid, LimineStep, LimList, LimWrite, LimFill, LimRename, At,
              Goto, menuVars, hostVars, localVars
<1>3. list[p] = profile
  BY <1>1, <1>2 DEF ListValid, Syncing, Linking
<1>4. list'[p] = profile
  <2>1. CASE LimList(p)
    BY <1>1, <2>1, ListingIsProfile DEF LimList, TypeOK, Safe
  <2>2. CASE LimWrite(p)
    <3>1. list'[p] = [g \in Gens |-> IF profile[g] \in store THEN profile[g] ELSE None]
      BY <1>1, <1>3, <2>2 DEF LimWrite, Readable, TypeOK
    <3>2. \A g \in Gens : (IF profile[g] \in store THEN profile[g] ELSE None) = profile[g]
      BY <1>1 DEF Safe, Rooted
    <3>3. profile = [g \in Gens |-> profile[g]]
      BY <1>1 DEF TypeOK
    <3> QED
      BY <3>1, <3>2, <3>3
  <2>3. CASE LimFill(p) \/ LimRename(p)
    BY <1>3, <2>3 DEF LimFill, LimRename, localVars
  <2> QED
    BY <2>1, <2>2, <2>3 DEF LimineStep
<1>6. TodoValid(p)' /\ ImageValid(p)' /\ CleanValid(p)' /\ ListValid(p)'
  BY <1>1, <1>2, <1>4, LinkFrame DEF Linking
<1>7. \A g \in Gens : profile[g] # None => Placed(g) /\ Placed(g)'
  BY <1>1, <1>2 DEF TodoValid, Linking, Syncing, Installing, Whole, Placed, HashKept, profileVars, espVars
<1>8. FullMenu' = FullMenu /\ FullMenu = {EntryFor(g, list[p][g]) : g \in Active(p)}
  BY <1>2, <1>3 DEF FullMenu, Numbers, Active, profileVars, EntryFor
<1> USE DEF Goto, At, menuVars, localVars
<1>9. CASE LimList(p) \/ LimWrite(p)
  <2>1. pc'[p] \in {"lim.write", "lim.fill"} /\ conf' = conf
    BY <1>1, <1>9 DEF LimList, LimWrite, TypeOK
  <2> QED
    BY <1>1, <1>2, <1>6, <2>1, SafeFrame DEF Knows, NvramValid, ConfValid
<1>10. CASE LimFill(p)
  <2>1. pc'[p] = "lim.rename" /\ conf' = conf /\ confTmp' = FullMenu
    BY <1>1, <1>8, <1>10 DEF LimFill, TypeOK
  <2> QED
    BY <1>1, <1>2, <1>6, <1>8, <2>1, SafeFrame DEF Knows, NvramValid, ConfValid
<1>11. CASE LimRename(p)
  <2>1. pc[p] = "lim.rename" /\ pc'[p] = "done" /\ conf' = FullMenu
    BY <1>1, <1>11 DEF LimRename, TypeOK, ConfValid
  <2>2. EntriesGood'
    <3>1. \A n \in nvram : n.entry.gen \in Gens
      BY <1>1 DEF TypeOK, Nvram, Entry
    <3>2. \A n \in nvram : EntryGood(n.entry)'
      BY <1>1, <1>2, <1>7, <3>1 DEF EntryGood, EntriesGood, Safe, EntryFor, profileVars
    <3>3. \A e \in FullMenu : EntryGood(e)'
      BY <1>1, <1>2, <1>7, FullMenuType DEF EntryGood, EntryFor, profileVars, Numbers
    <3> QED
      BY <1>1, <1>2, <2>1, <3>2, <3>3, FullMenuType DEF EntriesGood
  <2>3. Numbering'
    BY <1>1, <1>2, <2>1, FullMenuType DEF Safe, Numbering, Unused, NoFiles, Numbers, profileVars, espVars
  <2>4. Rooted' /\ EntriesUnique' /\ HashesTrue' /\ Issued'
    BY <1>1, <1>2 DEF Safe, Rooted, EntriesUnique, HashesTrue, Issued, profileVars, espVars
  <2>5. NvramValid(p)' /\ ConfValid(p)'
    BY <1>1, <1>2, <1>8, <2>1 DEF NvramValid, ConfValid
  <2> QED
    BY <1>6, <2>2, <2>3, <2>4, <2>5 DEF Safe, Knows
<1> QED
  BY <1>9, <1>10, <1>11 DEF LimineStep

LEMMA EndSafe ==
  ASSUME IInv, NEW p \in Scripts, Exit(p) \/ Fail(p) PROVE Safe' /\ Knows(p)'
<1>1. Safe /\ pc'[p] = "idle"
  BY DEF IInv, Safe, TypeOK, Exit, Fail, Goto
<1>2. UNCHANGED <<profileVars, espVars, nvram, conf, token>>
  BY DEF Exit, Fail, menuVars, hostVars
<1> QED
  BY <1>1, <1>2, SafeFrame, KnowsNothing

LEMMA OutageSafe ==
  ASSUME IInv, Outage PROVE Safe' /\ (\A p \in Scripts : Knows(p)') /\ dirty' = {}
<1>1. TypeOK /\ Safe /\ HashesOnly
  BY DEF IInv, Safe
<1>2. UNCHANGED <<profileVars, signature, kernel, initrd, nvram, token>> /\ uki' = uki /\ conf' = conf
  BY <1>1 DEF Outage, TypeOK, HashesOnly, Conf
<1>3. \A g \in Gens : cache'[g] # cache[g] => PowerLoss /\ cache[g] # None /\ cache'[g] = Torn
  <2>1. PICK L \in SUBSET dirty :
          cache' = [g \in Gens |-> IF <<"cache", g>> \in L /\ cache[g] # None THEN Torn ELSE cache[g]]
    BY DEF Outage
  <2>2. L # {} => PowerLoss
    BY <1>1 DEF HashesOnly
  <2>3. ASSUME NEW g \in Gens, cache'[g] # cache[g]
        PROVE  L # {} /\ cache[g] # None /\ cache'[g] = Torn
    BY <2>1, <2>3
  <2> QED
    BY <2>2, <2>3
<1>4. Safe'
  <2>1. Numbering' /\ Rooted' /\ EntriesUnique'
    BY <1>1, <1>2, <1>3 DEF Safe, Numbering, Unused, NoFiles, Rooted, EntriesUnique, profileVars
  <2>2. \A g \in Gens : Placed(g) => Placed(g)'
    BY <1>2, <1>3 DEF Placed, HashKept, profileVars
  <2>3. (\A n \in nvram : n.entry.gen \in Gens) /\ (conf # TornConf => \A e \in conf : e.gen \in Gens)
    BY <1>1 DEF TypeOK, Nvram, Entry
  <2>4. EntriesGood'
    BY <1>1, <1>2, <2>2, <2>3 DEF Safe, EntriesGood, EntryGood, EntryFor, profileVars
  <2>5. \A g \in Gens, h \in HashFile : cache'[g] = h => cache[g] = h
    BY <1>3, HashAssumption
  <2>6. HashesTrue'
    <3>1. \A g \in Gens : Hash(profile[g], token) \in HashFile
      BY <1>1 DEF TypeOK, Hash, HashFile
    <3> QED
      BY <1>1, <1>2, <2>5, <3>1 DEF Safe, HashesTrue, profileVars
  <2>7. Issued'
    BY <1>1, <1>2, <2>5 DEF Safe, Issued
  <2> QED
    BY <2>1, <2>4, <2>6, <2>7 DEF Safe
<1>5. (\A p \in Scripts : pc'[p] = "idle") /\ dirty' = {}
  BY DEF Outage
<1> QED
  BY <1>4, <1>5, KnowsNothing

\* No hash file tells of a new certificate, so none vouches for an image any more, and
\* none that is yet to be written will.
LEMMA RekeySafe ==
  ASSUME Assumed, IInv, ChangeKeys PROVE Safe' /\ (\A p \in Scripts : Knows(p)')
<1>1. TypeOK /\ Safe /\ \A p \in Scripts : Knows(p)
  BY DEF IInv, Safe
<1>2. UNCHANGED <<profileVars, espVars, menuVars, pc, localVars>>
  BY DEF ChangeKeys
<1>3. ~Fixed /\ token \in Nat /\ token' \in Tokens /\ token' > token /\ FirstToken <= token
  BY <1>1, SwitchAssumption, TokenAssumption DEF ChangeKeys, Assumed, Fixed, TypeOK, Tokens, Safe, Issued
<1>4. token' \in Nat /\ FirstToken \in Nat
  BY <1>3, TokenAssumption DEF Tokens
<1>5. \A g \in Gens : cache[g] # Hash(profile[g], token')
  <2>1. SUFFICES ASSUME NEW g \in Gens, cache[g] = Hash(profile[g], token') PROVE FALSE
    OBVIOUS
  <2>2. Hash(profile[g], token') \in HashFile /\ Hash(profile[g], token').token = token'
    BY <1>1, <1>3 DEF TypeOK, Hash, HashFile
  <2>3. token' <= token
    BY <1>1, <2>1, <2>2 DEF Safe, Issued
  <2> QED
    BY <1>3, <1>4, <2>3
<1>6. Safe'
  <2>1. Numbering' /\ Rooted' /\ EntriesUnique'
    BY <1>1, <1>2 DEF Safe, Numbering, Unused, NoFiles, Rooted, EntriesUnique, profileVars, espVars, menuVars
  <2>2. EntriesGood'
    BY <1>1, <1>2 DEF Safe, EntriesGood, EntryGood, EntryFor, Placed, HashKept, profileVars, espVars, menuVars
  <2>3. HashesTrue'
    BY <1>2, <1>5 DEF HashesTrue, profileVars, espVars
  <2>4. Issued'
    <3>1. \A h \in HashFile : h.token \in Nat
      BY TokenAssumption DEF HashFile, Tokens
    <3>2. UNCHANGED cache
      BY <1>2 DEF espVars
    <3>3. \A g \in Gens, h \in HashFile : cache[g] = h => FirstToken <= h.token /\ h.token <= token'
      BY <1>1, <1>3, <1>4, <3>1 DEF Safe, Issued
    <3> QED
      BY <1>3, <1>4, <3>2, <3>3 DEF Issued
  <2> QED
    BY <2>1, <2>2, <2>3, <2>4 DEF Safe
<1>7. ASSUME NEW p \in Scripts PROVE Knows(p)'
  <2>1. ListValid(p)' /\ TodoValid(p)'
    BY <1>1, <1>2 DEF Knows, ListValid, TodoValid, Whole, HashKept, Newest, profileVars, espVars, localVars
  <2>2. CleanValid(p)' /\ NvramValid(p)' /\ ConfValid(p)'
    BY <1>1, <1>2 DEF Knows, CleanValid, NvramValid, ConfValid, NoFiles, HasEntry, FullMenu, Numbers, EntryFor,
       profileVars, espVars, menuVars, localVars
  <2>3. ImageValid(p)'
    <3>1. signToken[p] \in Nat
      BY <1>1, TokenAssumption DEF TypeOK, Tokens
    <3>2. /\ UNCHANGED <<profile, uki, signature, cache, pc, todo, signToken, signer>>
          /\ \A g \in Gens : NoEntry(g)' <=> NoEntry(g)
      BY <1>2 DEF profileVars, espVars, menuVars, localVars, signVars, NoEntry, HasEntry
    <3>3. pc[p] \in {"esp.place", "esp.sign", "esp.cache"} =>
            FirstToken <= signToken[p] /\ signToken[p] <= token' /\ signToken[p] # token'
      BY <1>1, <1>3, <1>4, <3>1 DEF Knows, ImageValid
    <3>4. /\ pc[p] \in {"esp.place", "esp.sign", "esp.cache"} =>
               \A g \in Gens : Newest(todo[p], g) => profile[g] \in UkiSystems
          /\ pc[p] = "esp.sign" => signToken[p] # NoKey
          /\ pc[p] = "esp.cache" => \A g \in Gens : Newest(todo[p], g) => uki[g] = profile[g]
      BY <1>1 DEF Knows, ImageValid
    <3> QED
      BY <1>3, <1>5, <3>2, <3>3, <3>4 DEF ImageValid, Newest
  <2> QED
    BY <2>1, <2>2, <2>3 DEF Knows
<1> QED
  BY <1>6, <1>7

\* A script's step leaves nothing unsynced but hash files, and not those of signed images.
LEMMA OnlyHashesDirty ==
  ASSUME Assumed, IInv, NEW p \in Scripts, ScriptStep(p) \/ Fail(p) PROVE HashesOnly'
<1>0. HashesOnly
  BY DEF IInv
<1>1. CASE dirty' = dirty
  BY <1>0, <1>1 DEF HashesOnly
<1>2. CASE ProfileStep(p) \/ Exit(p) \/ Fail(p) \/ EfistubStep(p)
  <2>1. dirty' = dirty
    BY <1>2 DEF ProfileStep, Build, ProfileReuse, ProfileAppend, DeleteGenerations, CollectStore, Exit, Fail,
       EfistubStep, NvList, NvKeep, NvCreate, NvScan, NvDelete, NvDone
  <2> QED
    BY <1>1, <2>1
<1>3. CASE UkiSigned(p)
  <2>1. pc[p] = "esp.sign"
    BY <1>3 DEF UkiSigned, Visiting, At
  <2>2. signToken[p] # NoKey /\ signToken[p] <= token /\ signToken[p] \in Nat
    BY <2>1, TokenAssumption DEF IInv, Knows, ImageValid, TypeOK, Tokens
  <2>3. PowerLoss => token = NoKey
    BY DEF Assumed, IInv, Issued
  <2>4. ~PowerLoss
    BY <2>2, <2>3 DEF NoKey
  <2> QED
    BY <1>1, <1>3, <2>4 DEF UkiSigned, Unsynced
<1>4. CASE WriteCache(p)
  <2>1. CASE PowerLoss
    BY <1>0, <1>4, <2>1 DEF WriteCache, Unsynced, Assumed, HashesOnly
  <2>2. CASE ~PowerLoss
    BY <1>1, <1>4, <2>2 DEF WriteCache, Unsynced
  <2> QED
    BY <2>1, <2>2
<1>5. CASE LimRename(p)
  <2>1. Loader = "limine"
    BY <1>5 DEF LimRename, At, IInv, Knows, ConfValid
  <2> QED
    BY <1>1, <1>5, <2>1 DEF LimRename, Unsynced, Assumed
<1>6. CASE EspStep(p) /\ ~UkiSigned(p) /\ ~WriteCache(p)
  <2>1. dirty' = dirty
    BY <1>6 DEF EspStep, EspList, EspSkip, UkiCached, UkiStale, UkiCopy, UkiSign, CopyKernel, CopyInitrd,
       EspScan, RemoveLinux, RemoveKernels, EspDone
  <2> QED
    BY <1>1, <2>1
<1>7. CASE LimList(p) \/ LimWrite(p) \/ LimFill(p)
  <2>1. dirty' = dirty
    BY <1>7 DEF LimList, LimWrite, LimFill
  <2> QED
    BY <1>1, <2>1
<1> QED
  BY <1>2, <1>3, <1>4, <1>5, <1>6, <1>7 DEF ScriptStep, LimineStep

LEMMA InvStep ==
  ASSUME Assumed, IInv, [Next]_vars PROVE IInv'
<1>1. TypeOK'
  BY TypeStep DEF IInv
<1>2. ASSUME NEW p \in Scripts, ScriptStep(p) \/ Fail(p) PROVE IInv'
  <2>1. Safe' /\ Knows(p)'
    BY <1>2, ProfileSafe, EspPassSafe, EspWriteSafe, EspRemoveSafe, EfistubSafe, LimineSafe, EndSafe
    DEF ScriptStep, EspStep
  <2>2. \A q \in Scripts : Knows(q)'
    BY <2>1 DEF Assumed, Alone
  <2>3. HashesOnly'
    BY <1>2, OnlyHashesDirty
  <2> QED
    BY <1>1, <2>1, <2>2, <2>3 DEF IInv, Safe
<1>4. CASE Outage
  BY <1>1, <1>4, OutageSafe DEF IInv, Safe, HashesOnly
<1>5. CASE SwitchGeneration
  BY <1>5 DEF SwitchGeneration, Assumed
<1>7. CASE ChangeKeys
  <2>1. dirty' = dirty
    BY <1>7 DEF ChangeKeys
  <2> QED
    BY <1>1, <1>7, <2>1, RekeySafe DEF IInv, Safe, HashesOnly
<1>6. CASE UNCHANGED vars
  <2>1. Safe'
    BY <1>6, SafeFrame DEF IInv, Safe, vars, menuVars, hostVars
  <2>2. \A p \in Scripts : ListValid(p)' /\ TodoValid(p)' /\ CleanValid(p)' /\ NvramValid(p)' /\ ConfValid(p)'
    BY <1>6 DEF IInv, vars, profileVars, espVars, menuVars, localVars, Knows, ListValid, TodoValid, CleanValid,
       NvramValid, ConfValid, Whole, HashKept, Newest, HasEntry, NoFiles, FullMenu, Numbers, EntryFor
  <2>4. \A p \in Scripts : ImageValid(p)'
    BY <1>6 DEF IInv, vars, profileVars, espVars, menuVars, hostVars, localVars, signVars, Knows, ImageValid,
       Newest, NoEntry, HasEntry
  <2>3. \A p \in Scripts : Knows(p)'
    BY <2>2, <2>4 DEF Knows
  <2> QED
    BY <1>1, <1>6, <2>1, <2>3 DEF vars, IInv, Safe, HashesOnly
<1> QED
  BY <1>2, <1>4, <1>5, <1>6, <1>7 DEF Next

-----------------------------------------------------------------------------
(* What follows from the invariant.                                         *)

\* The invariant holds in every reachable state, under what is assumed above.
THEOREM Invariant == ASSUME Assumed PROVE Spec => []IInv
<1>1. Init => IInv
  BY SafeInit
<1>2. IInv /\ [Next]_vars => IInv'
  BY InvStep
<1> QED
  BY <1>1, <1>2, PTL DEF Spec

\* An entry for a generation of the profile is that generation's entry.
LEMMA EntryNames ==
  ASSUME IInv, NEW e \in Menu, e.gen \in Gens, profile[e.gen] # None
  PROVE  e = EntryFor(e.gen, profile[e.gen]) /\ Placed(e.gen) /\ profile[e.gen] \in store
<1>1. EntryGood(e)
  BY DEF Menu, IInv, EntriesGood
<1> QED
  BY <1>1 DEF EntryGood, IInv, Rooted

\* With its payload complete it boots it.
LEMMA EntryBoots ==
  ASSUME IInv, NEW e \in Menu, e.gen \in Gens, profile[e.gen] # None, Whole(e.gen)
  PROVE  Bootable(e.gen)
<1>1. e = EntryFor(e.gen, profile[e.gen]) /\ profile[e.gen] \in store
  BY EntryNames
<1>2. Brings(e, profile[e.gen])
  BY <1>1 DEF Brings, Whole, EntryFor
<1> QED
  BY <1>2 DEF Bootable

\* The menu's entries are of generations of the type.
LEMMA MenuType ==
  ASSUME IInv PROVE \A e \in Menu : e.gen \in Gens
  BY DEF Menu, IInv, TypeOK, Nvram, Entry, EntriesGood

\* What may become of the image of a generation that stays and that the menu offers:
\* only sbsign, with a new certificate, writes over it.
LEMMA ImageStays ==
  ASSUME Assumed, IInv, [Next]_vars, NEW g \in Gens, profile[g] \in UkiSystems, profile'[g] = profile[g],
         Placed(g), uki[g] = profile[g]
  PROVE  uki'[g] = profile[g] \/ Resigning(g)
<1>1. TypeOK /\ (\A p \in Scripts : Knows(p)) /\ HashesOnly /\ Issued /\ profile[g] # None
  BY SystemsAssumption DEF IInv
<1>2. CASE UNCHANGED uki
  BY <1>2
<1>3. ASSUME NEW p \in Scripts, EspStep(p) PROVE uki'[g] = profile[g] \/ Resigning(g)
  <2> USE DEF espVars, Visiting, At
  <2>1. CASE UkiCopy(p) \/ UkiSigned(p)
    <3>1. PICK h \in Gens : uki' = [uki EXCEPT ![h] = list[p][h]]
      BY <2>1 DEF UkiCopy, UkiSigned
    <3>2. list[p] = profile
      BY <2>1, Listed DEF UkiCopy, UkiSigned, Syncing, Installing
    <3> QED
      BY <1>1, <3>1, <3>2 DEF TypeOK
  <2>2. CASE UkiSign(p)
    <3>1. PICK h \in Gens : uki' = [uki EXCEPT ![h] = Torn] /\ Newest(todo[p], h) /\ pc[p] = "esp.place"
      BY <2>2 DEF UkiSign
    <3>2. CASE h # g
      BY <1>1, <3>1, <3>2 DEF TypeOK
    <3>3. CASE h = g
      <4>1. uki'[g] = Torn /\ cache[g] # Hash(profile[g], token)
        BY <1>1, <3>1, <3>3 DEF TypeOK, Knows, ImageValid
      <4>2. ~PowerLoss
        BY <1>1, <2>2 DEF UkiSign, Assumed, Issued
      <4>3. PICK t \in Tokens : cache[g] = Hash(profile[g], t)
        BY <4>2 DEF Placed, HashKept
      <4> QED
        BY <4>1, <4>3 DEF Resigning
    <3> QED
      BY <3>2, <3>3
  <2>3. CASE RemoveLinux(p)
    <3>1. Active(p) = Numbers
      BY <2>3, Listed DEF RemoveLinux, Syncing
    <3>2. g \notin StaleLinux(p)
      BY <1>1, <3>1 DEF StaleLinux, Numbers
    <3> QED
      BY <1>1, <2>3, <3>2 DEF RemoveLinux, TypeOK
  <2>4. CASE EspList(p) \/ EspSkip(p) \/ UkiCached(p) \/ UkiStale(p) \/ WriteCache(p) \/ CopyKernel(p)
             \/ CopyInitrd(p) \/ EspScan(p) \/ RemoveKernels(p) \/ EspDone(p)
    BY <1>2, <2>4 DEF EspList, EspSkip, UkiCached, UkiStale, WriteCache, CopyKernel, CopyInitrd, EspScan,
       RemoveKernels, EspDone
  <2> QED
    BY <1>3, <2>1, <2>2, <2>3, <2>4 DEF EspStep
<1>4. ASSUME NEW p \in Scripts, ScriptStep(p) \/ Fail(p) PROVE UNCHANGED uki \/ EspStep(p)
  <2> USE DEF espVars
  <2>1. CASE ProfileStep(p) \/ Exit(p) \/ Fail(p)
    BY <2>1 DEF ProfileStep, Build, ProfileReuse, ProfileAppend, DeleteGenerations, CollectStore, Exit, Fail
  <2>2. CASE EfistubStep(p)
    BY <2>2 DEF EfistubStep, NvList, NvKeep, NvCreate, NvScan, NvDelete, NvDone
  <2>3. CASE LimineStep(p)
    BY <2>3 DEF LimineStep, LimList, LimWrite, LimFill, LimRename
  <2> QED
    BY <1>4, <2>1, <2>2, <2>3 DEF ScriptStep
<1>5. CASE Outage
  <2>1. uki'[g] = uki[g]
    BY <1>1, <1>5 DEF Outage, HashesOnly
  <2> QED
    BY <2>1
<1>6. CASE SwitchGeneration \/ ChangeKeys \/ UNCHANGED vars
  BY <1>2, <1>6 DEF SwitchGeneration, ChangeKeys, vars, espVars
<1> QED
  BY <1>2, <1>3, <1>4, <1>5, <1>6 DEF Next

\* No single step of a rebuild, a gc, a failure or an outage takes a retained
\* generation's way to boot away, but for sbsign with a new certificate.
LEMMA KeepsBooting ==
  ASSUME Assumed, IInv, IInv', [Next]_vars, NEW g \in Gens, Bootable(g), profile'[g] = profile[g]
  PROVE  Bootable(g)' \/ Resigning(g)
<1>1. PICK e \in Menu : e.gen = g /\ Brings(e, profile[g])
  BY DEF Bootable
<1>2. profile[g] # None
  BY DEF Bootable
<1>3. e = EntryFor(g, profile[g]) /\ Placed(g)
  BY <1>1, <1>2, EntryNames
<1>4. e \in Menu'
  <2>1. ASSUME NEW p \in Scripts, ScriptStep(p) \/ Fail(p) PROVE e \in Menu'
    <3>1. CASE nvram' = nvram /\ conf' = conf
      BY <3>1 DEF Menu
    <3>2. CASE NvCreate(p)
      BY <3>2 DEF NvCreate, Menu
    <3>3. CASE NvDelete(p)
      <4>1. PICK n \in nvram : n.num \in victims[p] /\ nvram' = nvram \ {n}
        BY <3>3 DEF NvDelete
      <4>2. profile[n.entry.gen] = None
        BY <3>3, <4>1 DEF IInv, Knows, NvramValid, NvDelete, At
      <4>3. n.entry # e
        BY <1>1, <1>2, <4>2
      <4> QED
        BY <3>3, <4>1, <4>3 DEF Menu, NvDelete
    <3>4. CASE LimRename(p)
      <4>1. /\ conf' = FullMenu /\ Loader = "limine" /\ FullMenu # TornConf
        BY <3>4, FullMenuType DEF LimRename, IInv, Knows, ConfValid, At
      <4>2. e \in FullMenu
        BY <1>2, <1>3 DEF FullMenu, Numbers
      <4> QED
        BY <4>1, <4>2 DEF Menu
    <3>5. \/ nvram' = nvram /\ conf' = conf
          \/ NvCreate(p) \/ NvDelete(p) \/ LimRename(p)
      <4> USE DEF menuVars
      <4>1. CASE ProfileStep(p) \/ Exit(p) \/ Fail(p)
        BY <4>1 DEF ProfileStep, Build, ProfileReuse, ProfileAppend, DeleteGenerations, CollectStore, Exit, Fail
      <4>2. CASE EspStep(p)
        BY <4>2 DEF EspStep, EspList, EspSkip, UkiCached, UkiStale, UkiCopy, UkiSign, UkiSigned, WriteCache,
           CopyKernel, CopyInitrd, EspScan, RemoveLinux, RemoveKernels, EspDone
      <4>3. CASE EfistubStep(p)
        BY <4>3 DEF EfistubStep, NvList, NvKeep, NvScan, NvDone
      <4>4. CASE LimineStep(p)
        BY <4>4 DEF LimineStep, LimList, LimWrite, LimFill
      <4> QED
        BY <2>1, <4>1, <4>2, <4>3, <4>4 DEF ScriptStep
    <3> QED
      BY <3>1, <3>2, <3>3, <3>4, <3>5
  <2>2. CASE Outage
    <3>1. nvram' = nvram /\ conf' = conf
      BY <2>2 DEF Outage, IInv, HashesOnly, Conf
    <3> QED
      BY <3>1 DEF Menu
  <2>3. CASE SwitchGeneration \/ ChangeKeys \/ UNCHANGED vars
    BY <2>3 DEF SwitchGeneration, ChangeKeys, vars, menuVars, Menu
  <2> QED
    BY <2>1, <2>2, <2>3 DEF Next
<1>5. Placed(g)' /\ (profile[g] \in store)'
  <2>1. EntryGood(e)'
    BY <1>4 DEF Menu, IInv, EntriesGood
  <2> QED
    BY <1>1, <1>2, <2>1 DEF EntryGood, IInv, Rooted
<1>6. CASE profile[g] \notin UkiSystems
  BY <1>1, <1>2, <1>3, <1>4, <1>5, <1>6 DEF Bootable, Brings, EntryFor, Placed
<1>7. CASE profile[g] \in UkiSystems
  <2>1. uki[g] = profile[g]
    BY <1>1, <1>3, <1>7 DEF Brings, EntryFor
  <2>2. uki'[g] = profile[g] \/ Resigning(g)
    BY <1>3, <1>7, <2>1, ImageStays
  <2> QED
    BY <1>1, <1>2, <1>3, <1>4, <1>5, <1>7, <2>2 DEF Bootable, Brings, EntryFor
<1> QED
  BY <1>6, <1>7

\* With new keys at any time, nothing but sbsign, truncating an image that still bears an
\* earlier certificate, takes a retained generation's way to boot away.
THEOREM OnlyNewKeysInterrupt == ASSUME Assumed PROVE Spec => OnlyResigningInterrupts
<1>1. IInv /\ IInv' /\ [Next]_vars =>
        [\A g \in Gens : Bootable(g) /\ profile'[g] = profile[g] => Bootable(g)' \/ Resigning(g)]_vars
  BY KeepsBooting
<1> QED
  BY <1>1, Invariant, PTL DEF Spec, OnlyResigningInterrupts

\* As long as the keys stay what they are, no single step takes it away: every hash file
\* tells of the one certificate there is.
THEOREM RetainedGenerationsBoot == ASSUME Assumed, Fixed PROVE Spec => RetainedStaysBootable
<1>1. ASSUME IInv, IInv', [Next]_vars, NEW g \in Gens, Bootable(g), profile'[g] = profile[g]
      PROVE  Bootable(g)'
  <2>1. ASSUME Resigning(g) PROVE FALSE
    <3>1. PICK t \in Tokens \ {token} : cache[g] = Hash(profile[g], t)
      BY <2>1 DEF Resigning
    <3>2. Hash(profile[g], t) \in HashFile /\ Hash(profile[g], t).token = t
      BY <1>1 DEF IInv, TypeOK, Hash, HashFile
    <3>3. FirstToken <= t /\ t <= token /\ token = FirstToken
      BY <1>1, <3>1, <3>2 DEF IInv, Issued
    <3> QED
      BY <3>1, <3>3, TokenAssumption DEF Tokens
  <2> QED
    BY <1>1, <2>1, KeepsBooting
<1>2. IInv /\ IInv' /\ [Next]_vars =>
        [\A g \in Gens : Bootable(g) /\ profile'[g] = profile[g] => Bootable(g)']_vars
  BY <1>1
<1> QED
  BY <1>2, Invariant, PTL DEF Spec, RetainedStaysBootable

\* A finished script leaves the menu and the ESP equal to the profile.
THEOREM MenuIsSynced == ASSUME Assumed PROVE Spec => []SyncedMenu
<1>1. ASSUME IInv, NEW p \in Scripts, pc[p] = "done"
      PROVE  /\ \A g \in Gens : profile[g] # None => Bootable(g)
             /\ \A e \in Menu : \E g \in Numbers : e = EntryFor(g, profile[g])
             /\ \A g \in Gens : profile[g] = None =>
                  uki[g] = None /\ cache[g] = None /\ kernel[g] = None /\ initrd[g] = None
  <2>1. TypeOK /\ CleanValid(p) /\ NvramValid(p) /\ ConfValid(p)
    BY <1>1 DEF IInv, Knows
  <2>2. \A g \in Gens : profile[g] # None => \E e \in Menu : e.gen = g
    <3>1. CASE Loader = "efistub"
      BY <1>1, <2>1, <3>1 DEF NvramValid, HasEntry, Menu
    <3>2. CASE Loader = "limine"
      <4>1. conf = FullMenu /\ Menu = FullMenu
        BY <1>1, <2>1, <3>2, FullMenuType DEF ConfValid, Menu
      <4>2. \A g \in Numbers : EntryFor(g, profile[g]) \in FullMenu /\ EntryFor(g, profile[g]).gen = g
        BY DEF FullMenu, EntryFor
      <4> QED
        BY <4>1, <4>2 DEF Numbers
    <3> QED
      BY <3>1, <3>2, SwitchAssumption
  <2>3. \A e \in Menu : e.gen \in Numbers
    <3>1. CASE Loader = "efistub"
      BY <1>1, <2>1, <3>1, MenuType DEF NvramValid, Menu, Numbers
    <3>2. CASE Loader = "limine"
      BY <1>1, <2>1, <3>2, FullMenuType DEF ConfValid, Menu
    <3> QED
      BY <3>1, <3>2, SwitchAssumption
  <2>4. \A e \in Menu : \E g \in Numbers : e = EntryFor(g, profile[g])
    BY <1>1, <2>3, EntryNames DEF Numbers
  <2>6. \A g \in Gens : profile[g] # None => Whole(g)
    BY <1>1 DEF IInv, Knows, TodoValid, Syncing, Installing
  <2>5. \A g \in Gens : profile[g] # None => Bootable(g)
    BY <1>1, <2>2, <2>6, EntryBoots
  <2> QED
    BY <1>1, <2>1, <2>4, <2>5 DEF CleanValid, NoFiles
<1>2. IInv => SyncedMenu
  BY <1>1 DEF SyncedMenu
<1> QED
  BY <1>2, Invariant, PTL

\* A generation leaves the loop of esp.install unwritten when it is gone from the store or
\* when its hash file matches.
LEMMA PassesOver ==
  ASSUME TypeOK, [Next]_vars, NEW p \in Scripts, NEW g \in Gens,
         pc[p] = "esp.install", pc'[p] = "esp.install", g \in todo[p] \ todo'[p],
         list[p][g] \in store
  PROVE  CacheMatches(g, list[p][g])
<1>1. pc \in [Scripts -> Stages] /\ todo \in [Scripts -> SUBSET Gens]
  BY DEF TypeOK
<1>2. PICK q \in Scripts : ScriptStep(q) \/ Fail(q)
  <2>1. ~SwitchGeneration /\ ~ChangeKeys /\ ~UNCHANGED vars
    BY DEF SwitchGeneration, ChangeKeys, vars, localVars
  <2>2. ~Outage
    BY DEF Outage
  <2> QED
    BY <2>1, <2>2 DEF Next
<1> USE DEF At, Goto, Visiting, Visited
<1>3. ~Exit(q) /\ ~Fail(q)
  BY <1>1 DEF Exit, Fail, ResetLocals
<1>4. ~ProfileStep(q)
  BY <1>1 DEF ProfileStep, Build, ProfileReuse, ProfileAppend, DeleteGenerations, CollectStore, localVars
<1>5. ~EfistubStep(q)
  BY <1>1 DEF EfistubStep, NvList, NvKeep, NvCreate, NvScan, NvDelete, NvDone, localVars
<1>6. ~LimineStep(q)
  BY <1>1 DEF LimineStep, LimList, LimWrite, LimFill, LimRename, localVars
<1>7. CASE EspStep(q)
  <2>1. EspSkip(q) \/ UkiCached(q)
    BY <1>1, <1>7 DEF EspStep, EspList, UkiStale, UkiCopy, UkiSign, UkiSigned, WriteCache,
       CopyKernel, CopyInitrd, EspScan, RemoveLinux, RemoveKernels, EspDone, localVars
  <2>2. PICK h \in Gens : /\ todo' = [todo EXCEPT ![q] = @ \ {h}]
                          /\ list[q][h] \notin store \/ CacheMatches(h, list[q][h])
    BY <2>1 DEF UkiCached, EspSkip
  <2>3. q = p /\ h = g
    BY <1>1, <2>2
  <2> QED
    BY <2>2, <2>3
<1> QED
  BY <1>2, <1>3, <1>4, <1>5, <1>6, <1>7 DEF ScriptStep

\* An image that esp-sync passes over because of its hash file is the image it
\* would have written.
THEOREM SkippedImagesCurrent == ASSUME Assumed PROVE Spec => SkippedImagesAreCurrent
<1>1. ASSUME IInv, [Next]_vars, NEW p \in Scripts, NEW g \in Gens,
             pc[p] = "esp.install", pc'[p] = "esp.install", g \in todo[p] \ todo'[p],
             list[p][g] \in store \cap UkiSystems
      PROVE  uki[g] = list[p][g] /\ signature[g] = token
  <2>1. list[p] = profile /\ profile[g] # None /\ HashesTrue
    BY <1>1, Listed DEF Syncing, Installing, IInv
  <2>2. CacheMatches(g, list[p][g])
    BY <1>1, PassesOver DEF IInv
  <2> QED
    BY <2>1, <2>2 DEF CacheMatches, HashesTrue
<1>2. IInv /\ [Next]_vars =>
        [\A p \in Scripts, g \in Gens :
           (/\ pc[p] = "esp.install" /\ pc'[p] = "esp.install"
            /\ g \in todo[p] \ todo'[p] /\ list[p][g] \in store \cap UkiSystems)
           => uki[g] = list[p][g] /\ signature[g] = token]_vars
  BY <1>1
<1> QED
  BY <1>2, Invariant, PTL DEF Spec, SkippedImagesAreCurrent

-----------------------------------------------------------------------------
(* limine.conf, also when the profile is moved back.                        *)

\* What is renamed over limine.conf is complete.
ConfInv == /\ TypeOK /\ dirty = {} /\ conf # TornConf
           /\ \A p \in Scripts : pc[p] = "lim.rename" => confTmp # TornConf

\* Entries put together from a listing are never a torn file.
LEMMA FilledIsWhole ==
  ASSUME TypeOK, NEW p \in Scripts
  PROVE  {EntryFor(g, list[p][g]) : g \in Active(p)} # TornConf
<1>1. \A g \in Active(p) : EntryFor(g, list[p][g]) \in Entry
  BY EntryType DEF Active, TypeOK
<1> QED
  BY <1>1, TornAssumption DEF TornConf

LEMMA ConfStep ==
  ASSUME Alone, ~PowerLoss, ConfInv, [Next]_vars PROVE ConfInv'
<1>1. TypeOK'
  BY TypeStep DEF ConfInv
<1>2. ASSUME NEW p \in Scripts, pc' = [pc EXCEPT ![p] = pc'[p]], conf' = conf, dirty' = {},
             pc'[p] # "lim.rename"
      PROVE  ConfInv'
  BY <1>1, <1>2 DEF ConfInv, Alone
<1>3. ASSUME NEW p \in Scripts, ScriptStep(p) \/ Fail(p) PROVE ConfInv'
  <2> USE DEF Goto, At, Visiting
  <2>1. pc \in [Scripts -> Stages] /\ dirty = {}
    BY DEF ConfInv, TypeOK
  <2>2. CASE ProfileStep(p) \/ Exit(p) \/ Fail(p)
    BY <1>2, <2>1, <2>2 DEF ProfileStep, Build, ProfileReuse, ProfileAppend, DeleteGenerations,
       CollectStore, Exit, Fail, menuVars
  <2>3. CASE EspStep(p)
    BY <1>2, <2>1, <2>3 DEF EspStep, EspList, EspSkip, UkiCached, UkiStale, UkiCopy, UkiSign,
       UkiSigned, WriteCache, CopyKernel, CopyInitrd, EspScan, RemoveLinux, RemoveKernels, EspDone,
       Unsynced, menuVars
  <2>4. CASE EfistubStep(p)
    BY <1>2, <2>1, <2>4 DEF EfistubStep, NvList, NvKeep, NvCreate, NvScan, NvDelete, NvDone, menuVars
  <2>5. CASE LimList(p) \/ LimWrite(p)
    BY <1>2, <2>1, <2>5 DEF LimList, LimWrite, menuVars
  <2>6. CASE LimFill(p)
    <3>1. confTmp' # TornConf
      BY <2>6, FilledIsWhole DEF LimFill, ConfInv
    <3>2. conf' = conf /\ dirty' = {}
      BY <2>1, <2>6 DEF LimFill
    <3> QED
      BY <1>1, <3>1, <3>2 DEF ConfInv
  <2>7. CASE LimRename(p)
    <3>1. conf' # TornConf
      BY <2>7 DEF LimRename, ConfInv
    <3>2. dirty' = {} /\ \A q \in Scripts : pc'[q] = "done"
      BY <2>1, <2>7 DEF LimRename, Unsynced, Alone
    <3> QED
      BY <1>1, <3>1, <3>2 DEF ConfInv
  <2> QED
    BY <1>3, <2>2, <2>3, <2>4, <2>5, <2>6, <2>7 DEF ScriptStep, LimineStep
<1>4. CASE Outage
  <2>1. conf' = conf /\ dirty' = {} /\ \A p \in Scripts : pc'[p] = "idle"
    BY <1>4 DEF Outage, ConfInv
  <2> QED
    BY <1>1, <2>1 DEF ConfInv
<1>5. CASE SwitchGeneration \/ ChangeKeys \/ UNCHANGED vars
  BY <1>1, <1>5 DEF SwitchGeneration, ChangeKeys, vars, menuVars, ConfInv
<1> QED
  BY <1>3, <1>4, <1>5 DEF Next

\* Where one limine-install runs at a time and nothing written is lost, limine.conf is
\* always a whole menu: the rename publishes what the same run has filled, whatever failed
\* before and wherever the profile was moved.
THEOREM ConfNeverTorn == ASSUME Alone, ~PowerLoss PROVE Spec => []ConfIsWhole
<1>1. Init => ConfInv
  <2> SUFFICES ASSUME Init PROVE ConfInv
    OBVIOUS
  <2>1. 1 \in Gens /\ First \in Systems
    BY GensAssumption, SystemsAssumption
  <2>2. EntryFor(1, First) \in Entry
    BY <2>1, EntryType
  <2>3. conf # TornConf
    BY <2>2, TornAssumption DEF Init, TornConf
  <2> QED
    BY <2>3, TypeInit DEF Init, ConfInv
<1>2. ConfInv /\ [Next]_vars => ConfInv'
  BY ConfStep
<1>3. ConfInv => ConfIsWhole
  BY DEF ConfInv, ConfIsWhole
<1> QED
  BY <1>1, <1>2, <1>3, PTL DEF Spec

-----------------------------------------------------------------------------
(* Numbers are used once, however many scripts run: there is one history H,  *)
(* the system each generation was made for, and whatever bears a number of   *)
(* it belongs to that system.                                                *)

Named(H, g, s) == g <= current /\ H[g] = s
Recalls(H, e) == \E s \in Systems : e = EntryFor(e.gen, s) /\ Named(H, e.gen, s)

InProfile(H) == profile[current] # None /\ \A g \in Gens, s \in Systems : profile[g] = s => Named(H, g, s)
InLists(H) == \A p \in Scripts, g \in Gens, s \in Systems : list[p][g] = s => Named(H, g, s)
OnEsp(H) == \A g \in Gens, s \in Systems :
              (\/ s \in {uki[g], kernel[g], initrd[g]}
               \/ \E t \in Tokens : cache[g] = Hash(s, t)) => Named(H, g, s)
InMenus(H) ==
  /\ \A e \in Entry : (\E n \in nvram : n.entry = e) => Recalls(H, e)
  /\ \A e \in Entry : conf # TornConf /\ e \in conf => Recalls(H, e)
  /\ \A e \in Entry : confTmp \notin {TornConf, None} /\ e \in confTmp => Recalls(H, e)
Remembers(H) == InProfile(H) /\ InLists(H) /\ OnEsp(H) /\ InMenus(H)

\* The profile names each number once: H2 is H, and the new generation if there is one.
LEMMA CountsOn ==
  ASSUME TypeOK, NEW H \in [Gens -> Systems], InProfile(H), ~Rollback, [Next]_vars
  PROVE  \E H2 \in [Gens -> Systems] :
           InProfile(H2)' /\ \A g \in Gens, s \in Systems : Named(H, g, s) => Named(H2, g, s)'
<1> USE DEF TypeOK, profileVars
<1>1. CASE UNCHANGED <<profile, current>>
  BY <1>1 DEF InProfile, Named
<1>0. current \in Numbers /\ \A h \in Numbers : h <= current
  BY DEF InProfile, Named, Numbers
<1>2. ASSUME NEW p \in Scripts, ProfileReuse(p) PROVE UNCHANGED <<profile, current>>
  <2>1. PICK g \in Gens : Newest(Numbers, g) /\ current' = g
    BY <1>2 DEF ProfileReuse
  <2>2. g = current
    BY <2>1, <1>0, GensAssumption DEF Newest, Numbers
  <2> QED
    BY <1>2, <2>1, <2>2 DEF ProfileReuse
<1>3. ASSUME NEW p \in Scripts, ProfileAppend(p)
      PROVE  \E H2 \in [Gens -> Systems] :
               InProfile(H2)' /\ \A g \in Gens, s \in Systems : Named(H, g, s) => Named(H2, g, s)'
  <2>1. PICK g \in Gens : /\ Newest(Numbers, g) /\ g < MaxGen /\ target[p] \in store
                          /\ profile' = [profile EXCEPT ![g + 1] = target[p]] /\ current' = g + 1
    BY <1>3 DEF ProfileAppend, NextNumber
  <2>2. g = current
    BY <2>1, <1>0, GensAssumption DEF Newest, Numbers
  <2>3. PICK t \in Systems : t = target[p] /\ t # None
    BY <2>1, SystemsAssumption
  <2>4. g + 1 \in Gens /\ ~(g + 1 <= g)
    BY <2>1, GensAssumption
  <2>5. (\A h \in Gens : h # g + 1 => profile'[h] = profile[h]) /\ profile'[g + 1] = t
    BY <2>1, <2>3, <2>4
  <2>6. PICK H2 \in [Gens -> Systems] : H2 = [H EXCEPT ![g + 1] = t]
    BY <2>3, <2>4
  <2>7. H2[g + 1] = t /\ \A h \in Gens : h # g + 1 => H2[h] = H[h]
    BY <2>4, <2>6
  <2>8. \A h \in Gens, s \in Systems : Named(H, h, s) => Named(H2, h, s)'
    BY <2>1, <2>2, <2>4, <2>7, GensAssumption DEF Named
  <2>9. InProfile(H2)'
    BY <2>1, <2>3, <2>4, <2>5, <2>7, <2>8, GensAssumption DEF InProfile, Named
  <2> QED
    BY <2>8, <2>9
<1>4. ASSUME NEW p \in Scripts, DeleteGenerations(p)
      PROVE  InProfile(H)' /\ \A g \in Gens, s \in Systems : Named(H, g, s) => Named(H, g, s)'
  <2>1. /\ current' = current /\ profile'[current] = profile[current]
        /\ \A g \in Gens : profile'[g] = profile[g] \/ profile'[g] = None
    BY <1>4 DEF DeleteGenerations, Numbers
  <2>2. \A g \in Gens, s \in Systems : profile'[g] = s => profile[g] = s
    BY <2>1, SystemsAssumption
  <2> HIDE DEF TypeOK
  <2> QED
    BY <2>1, <2>2 DEF InProfile, Named
<1>5. ASSUME NEW p \in Scripts, ScriptStep(p) \/ Fail(p)
      PROVE  \/ UNCHANGED <<profile, current>> \/ ProfileReuse(p) \/ ProfileAppend(p)
             \/ DeleteGenerations(p)
  <2>1. CASE ProfileStep(p) \/ Exit(p) \/ Fail(p)
    BY <2>1 DEF ProfileStep, Build, CollectStore, Exit, Fail
  <2>2. CASE EspStep(p)
    BY <2>2 DEF EspStep, EspList, EspSkip, UkiCached, UkiStale, UkiCopy, UkiSign, UkiSigned,
       WriteCache, CopyKernel, CopyInitrd, EspScan, RemoveLinux, RemoveKernels, EspDone
  <2>3. CASE EfistubStep(p)
    BY <2>3 DEF EfistubStep, NvList, NvKeep, NvCreate, NvScan, NvDelete, NvDone
  <2>4. CASE LimineStep(p)
    BY <2>4 DEF LimineStep, LimList, LimWrite, LimFill, LimRename
  <2> QED
    BY <1>5, <2>1, <2>2, <2>3, <2>4 DEF ScriptStep
<1>6. CASE Outage \/ ChangeKeys \/ UNCHANGED vars
  BY <1>1, <1>6 DEF Outage, ChangeKeys, vars
<1> QED
  BY <1>1, <1>2, <1>3, <1>4, <1>5, <1>6 DEF Next, SwitchGeneration

\* What a script lists comes out of the profile.
LEMMA ListsRemember ==
  ASSUME TypeOK, NEW H \in [Gens -> Systems], Remembers(H), [Next]_vars, NEW H2 \in [Gens -> Systems],
         \A g \in Gens, s \in Systems : Named(H, g, s) => Named(H2, g, s)'
  PROVE  InLists(H2)'
<1>1. /\ \A p \in Scripts, g \in Gens, s \in Systems : list[p][g] = s => Named(H2, g, s)'
      /\ \A g \in Gens, s \in Systems : Listing[g] = s => Named(H2, g, s)'
  BY SystemsAssumption DEF Remembers, InLists, InProfile, Listing, TypeOK
<1>2. list \in [Scripts -> [Gens -> Systems \cup {None}]] /\ store \subseteq Systems
  BY DEF TypeOK
<1>3. CASE list' = list \/ \A q \in Scripts : list'[q] = list[q] \/ list'[q] = NoList
  BY <1>1, <1>3, SystemsAssumption DEF InLists, NoList
<1>4. ASSUME NEW p \in Scripts, ScriptStep(p) \/ Fail(p) PROVE InLists(H2)'
  <2> USE DEF localVars
  <2>1. CASE ProfileStep(p)
    BY <1>3, <2>1 DEF ProfileStep, Build, ProfileReuse, ProfileAppend, DeleteGenerations, CollectStore
  <2>2. CASE Exit(p) \/ Fail(p)
    BY <1>3, <2>2 DEF Exit, Fail, ResetLocals
  <2>3. CASE EspList(p) \/ NvList(p) \/ LimList(p)
    <3>1. list' = [list EXCEPT ![p] = Listing]
      BY <2>3 DEF EspList, NvList, LimList
    <3> QED
      BY <1>1, <1>2, <3>1 DEF InLists
  <2>4. CASE EspStep(p) /\ ~EspList(p)
    BY <1>3, <2>4 DEF EspStep, EspSkip, UkiCached, UkiStale, UkiCopy, UkiSign, UkiSigned, WriteCache,
       CopyKernel, CopyInitrd, EspScan, RemoveLinux, RemoveKernels, EspDone
  <2>5. CASE EfistubStep(p) /\ ~NvList(p)
    BY <1>3, <2>5 DEF EfistubStep, NvKeep, NvCreate, NvScan, NvDelete, NvDone
  <2>6. CASE LimWrite(p)
    <3>1. list' = [list EXCEPT ![p] = Readable(p)]
      BY <2>6 DEF LimWrite
    <3>2. \A g \in Gens : Readable(p)[g] = list[p][g] \/ Readable(p)[g] = None
      BY DEF Readable
    <3> QED
      BY <1>1, <1>2, <3>1, <3>2, SystemsAssumption DEF InLists
  <2>7. CASE LimFill(p) \/ LimRename(p)
    BY <1>3, <2>7 DEF LimFill, LimRename
  <2> QED
    BY <1>4, <2>1, <2>2, <2>3, <2>4, <2>5, <2>6, <2>7 DEF ScriptStep, EspStep, EfistubStep, LimineStep
<1>5. CASE Outage
  BY <1>3, <1>5 DEF Outage, ResetLocals
<1>6. CASE SwitchGeneration \/ ChangeKeys \/ UNCHANGED vars
  BY <1>3, <1>6 DEF SwitchGeneration, ChangeKeys, vars, localVars
<1> QED
  BY <1>4, <1>5, <1>6 DEF Next

\* What is written to a generation's files is what some script listed for it.
LEMMA EspRemembers ==
  ASSUME TypeOK, NEW H \in [Gens -> Systems], Remembers(H), [Next]_vars, NEW H2 \in [Gens -> Systems],
         \A g \in Gens, s \in Systems : Named(H, g, s) => Named(H2, g, s)'
  PROVE  OnEsp(H2)'
<1> DEFINE From(new, old, g) == \/ new \in {old, None, Torn}
                                \/ \E p \in Scripts : new = list[p][g]
           HashFrom(new, old, g) == \/ new \in {old, None, Torn}
                                    \/ \E p \in Scripts, t \in Tokens : new = Hash(list[p][g], t)
<1>1. SUFFICES \A g \in Gens : /\ From(uki'[g], uki[g], g) /\ HashFrom(cache'[g], cache[g], g)
                               /\ From(kernel'[g], kernel[g], g) /\ From(initrd'[g], initrd[g], g)
  <2>1. SUFFICES ASSUME NEW g \in Gens, NEW s \in Systems
                 PROVE  /\ s \in {uki'[g], kernel'[g], initrd'[g]} => Named(H, g, s)
                        /\ \A t \in Tokens : cache'[g] = Hash(s, t) => Named(H, g, s)
    BY <2>1 DEF OnEsp
  <2>2. /\ s \in {uki[g], kernel[g], initrd[g]} => Named(H, g, s)
        /\ \A t \in Tokens : cache[g] = Hash(s, t) => Named(H, g, s)
        /\ \A p \in Scripts : list[p][g] = s => Named(H, g, s)
    BY DEF Remembers, InLists, OnEsp
  <2>3. s \in {uki'[g], kernel'[g], initrd'[g]} => Named(H, g, s)
    BY <1>1, <2>2, SystemsAssumption
  <2>4. ASSUME NEW t \in Tokens, cache'[g] = Hash(s, t) PROVE Named(H, g, s)
    <3>1. cache'[g] \notin {None, Torn}
      BY <2>4, HashAssumption DEF Hash, HashFile
    <3>2. CASE cache'[g] = cache[g]
      BY <2>2, <2>4, <3>2
    <3>3. CASE \E p \in Scripts, u \in Tokens : cache'[g] = Hash(list[p][g], u)
      BY <2>2, <2>4, <3>3 DEF Hash
    <3> QED
      BY <1>1, <3>1, <3>2, <3>3
  <2> QED
    BY <2>3, <2>4
<1>2. CASE UNCHANGED espVars
  BY <1>2 DEF espVars
<1> USE DEF TypeOK
<1>3. ASSUME NEW p \in Scripts, ScriptStep(p) \/ Fail(p)
      PROVE  \A g \in Gens : /\ From(uki'[g], uki[g], g) /\ HashFrom(cache'[g], cache[g], g)
                             /\ From(kernel'[g], kernel[g], g) /\ From(initrd'[g], initrd[g], g)
  <2>1. CASE ProfileStep(p) \/ Exit(p) \/ Fail(p)
    BY <1>2, <2>1 DEF ProfileStep, Build, ProfileReuse, ProfileAppend, DeleteGenerations, CollectStore, Exit, Fail
  <2>2. CASE EfistubStep(p) \/ LimineStep(p)
    BY <1>2, <2>2 DEF EfistubStep, NvList, NvKeep, NvCreate, NvScan, NvDelete, NvDone, LimineStep, LimList,
       LimWrite, LimFill, LimRename
  <2>3. CASE EspList(p) \/ EspSkip(p) \/ UkiCached(p) \/ UkiStale(p) \/ EspScan(p) \/ EspDone(p)
    BY <1>2, <2>3 DEF EspList, EspSkip, UkiCached, UkiStale, EspScan, EspDone
  <2>4. CASE UkiCopy(p) \/ UkiSign(p) \/ UkiSigned(p)
    <3>1. UNCHANGED <<cache, kernel, initrd>> /\ \E h \in Gens : \/ uki' = [uki EXCEPT ![h] = list[p][h]]
                                                                \/ uki' = [uki EXCEPT ![h] = Torn]
      BY <2>4 DEF UkiCopy, UkiSign, UkiSigned
    <3> QED
      BY <3>1
  <2>5. CASE WriteCache(p)
    <3>1. /\ UNCHANGED <<uki, kernel, initrd>> /\ signToken[p] \in Tokens
          /\ \E h \in Gens : cache' = [cache EXCEPT ![h] = Hash(list[p][h], signToken[p])]
      BY <2>5 DEF WriteCache
    <3> QED
      BY <3>1
  <2>6. CASE CopyKernel(p) \/ CopyInitrd(p)
    <3>1. /\ UNCHANGED <<uki, cache>>
          /\ \E h \in Gens : \/ kernel' = [kernel EXCEPT ![h] = list[p][h]] /\ initrd' = initrd
                             \/ initrd' = [initrd EXCEPT ![h] = list[p][h]] /\ kernel' = kernel
      BY <2>6 DEF CopyKernel, CopyInitrd
    <3> QED
      BY <3>1
  <2>7. CASE RemoveLinux(p)
    <3>1. /\ UNCHANGED <<kernel, initrd>>
          /\ \E h \in Gens : \/ uki' = [uki EXCEPT ![h] = None] /\ cache' = cache
                             \/ cache' = [cache EXCEPT ![h] = None] /\ uki' = uki
      BY <2>7 DEF RemoveLinux, StaleLinux
    <3> QED
      BY <3>1
  <2>8. CASE RemoveKernels(p)
    <3>1. /\ UNCHANGED <<uki, cache>>
          /\ \E h \in Gens : \/ kernel' = [kernel EXCEPT ![h] = None] /\ initrd' = initrd
                             \/ initrd' = [initrd EXCEPT ![h] = None] /\ kernel' = kernel
      BY <2>8 DEF RemoveKernels, StaleKernels
    <3> QED
      BY <3>1
  <2> QED
    BY <1>3, <2>1, <2>2, <2>3, <2>4, <2>5, <2>6, <2>7, <2>8 DEF ScriptStep, EspStep
<1>4. CASE Outage
  <2>1. /\ UNCHANGED <<kernel, initrd>>
        /\ \A g \in Gens : uki'[g] \in {uki[g], Torn} /\ cache'[g] \in {cache[g], Torn}
    BY <1>4 DEF Outage
  <2> QED
    BY <2>1
<1>5. CASE SwitchGeneration \/ ChangeKeys \/ UNCHANGED vars
  BY <1>2, <1>5 DEF SwitchGeneration, ChangeKeys, vars
<1> QED
  BY <1>3, <1>4, <1>5 DEF Next

\* An entry is made of what the script listed.
LEMMA MenusRemember ==
  ASSUME TypeOK, NEW H \in [Gens -> Systems], Remembers(H), [Next]_vars, NEW H2 \in [Gens -> Systems],
         \A g \in Gens, s \in Systems : Named(H, g, s) => Named(H2, g, s)'
  PROVE  InMenus(H2)'
<1>1. \A e \in Entry : Recalls(H, e) => Recalls(H2, e)'
  BY DEF Recalls, EntryFor, Entry
<1>2. /\ \A e \in Entry : (\E n \in nvram : n.entry = e) => Recalls(H2, e)'
      /\ \A e \in Entry : conf # TornConf /\ e \in conf => Recalls(H2, e)'
      /\ \A e \in Entry : confTmp \notin {TornConf, None} /\ e \in confTmp => Recalls(H2, e)'
  BY <1>1 DEF Remembers, InMenus
<1>3. \A p \in Scripts, g \in Gens, s \in Systems, e \in Entry :
        list[p][g] = s /\ e = EntryFor(g, s) => Recalls(H2, e)'
  BY DEF Recalls, EntryFor, Remembers, InLists
<1>4. list \in [Scripts -> [Gens -> Systems \cup {None}]] /\ store \subseteq Systems
  BY DEF TypeOK
<1>5. CASE UNCHANGED <<nvram, conf, confTmp>>
  BY <1>2, <1>5 DEF InMenus
<1>6. ASSUME NEW p \in Scripts, ScriptStep(p) \/ Fail(p) PROVE InMenus(H2)'
  <2> USE DEF menuVars
  <2>1. CASE ProfileStep(p) \/ Exit(p) \/ Fail(p)
    BY <1>5, <2>1 DEF ProfileStep, Build, ProfileReuse, ProfileAppend, DeleteGenerations, CollectStore, Exit, Fail
  <2>2. CASE EspStep(p)
    BY <1>5, <2>2 DEF EspStep, EspList, EspSkip, UkiCached, UkiStale, UkiCopy, UkiSign, UkiSigned, WriteCache,
       CopyKernel, CopyInitrd, EspScan, RemoveLinux, RemoveKernels, EspDone
  <2>3. CASE NvList(p) \/ NvKeep(p) \/ NvScan(p) \/ NvDone(p) \/ LimList(p)
    BY <1>5, <2>3 DEF NvList, NvKeep, NvScan, NvDone, LimList
  <2>4. CASE NvCreate(p)
    <3>1. PICK g \in Gens, k \in FreeNums :
            /\ list[p][g] \in store /\ UNCHANGED <<conf, confTmp>>
            /\ nvram' = nvram \cup {[num |-> k, entry |-> EntryFor(g, list[p][g])]}
      BY <2>4 DEF NvCreate
    <3>2. list[p][g] \in Systems
      BY <1>4, <3>1
    <3> QED
      BY <1>2, <1>3, <3>1, <3>2 DEF InMenus
  <2>5. CASE NvDelete(p)
    <3>1. nvram' \subseteq nvram /\ UNCHANGED <<conf, confTmp>>
      BY <2>5 DEF NvDelete
    <3> QED
      BY <1>2, <3>1 DEF InMenus
  <2>6. CASE LimWrite(p)
    <3>1. UNCHANGED <<nvram, conf>> /\ confTmp' = TornConf
      BY <2>6 DEF LimWrite
    <3> QED
      BY <1>2, <3>1 DEF InMenus
  <2>7. CASE LimFill(p)
    <3>1. UNCHANGED <<nvram, conf>> /\ confTmp' = {EntryFor(g, list[p][g]) : g \in Active(p)}
      BY <2>7 DEF LimFill
    <3>2. \A g \in Active(p) : list[p][g] \in Systems
      BY <1>4 DEF Active
    <3>3. ASSUME NEW e \in Entry, e \in confTmp' PROVE Recalls(H2, e)'
      BY <1>3, <3>1, <3>2, <3>3 DEF Active
    <3> QED
      BY <1>2, <3>1, <3>3 DEF InMenus
  <2>8. CASE LimRename(p)
    <3>1. nvram' = nvram /\ confTmp # None /\ conf' = confTmp /\ confTmp' = None
      BY <2>8 DEF LimRename
    <3> QED
      BY <1>2, <3>1 DEF InMenus
  <2> QED
    BY <1>6, <2>1, <2>2, <2>3, <2>4, <2>5, <2>6, <2>7, <2>8 DEF ScriptStep, EfistubStep, LimineStep
<1>7. CASE Outage
  <2>1. UNCHANGED <<nvram, confTmp>> /\ conf' \in {conf, TornConf}
    BY <1>7 DEF Outage
  <2> QED
    BY <1>2, <2>1 DEF InMenus
<1>8. CASE SwitchGeneration \/ ChangeKeys \/ UNCHANGED vars
  BY <1>5, <1>8 DEF SwitchGeneration, ChangeKeys, vars, menuVars
<1> QED
  BY <1>6, <1>7, <1>8 DEF Next

\* There is a history.
OneHistory == TypeOK /\ \E H \in [Gens -> Systems] : Remembers(H)

THEOREM NumbersUsedOnce == ASSUME ~Rollback PROVE Spec => []OneHistory
<1>1. Init => OneHistory
  <2> SUFFICES ASSUME Init PROVE \E H \in [Gens -> Systems] : Remembers(H)
    BY TypeInit DEF OneHistory
  <2>1. PICK H \in [Gens -> Systems] : H = [g \in Gens |-> First]
    BY SystemsAssumption
  <2>2. 1 \in Gens /\ Named(H, 1, First)
    BY <2>1, GensAssumption DEF Init, Named
  <2>3. Recalls(H, EntryFor(1, First))
    BY <2>2, SystemsAssumption DEF Recalls, EntryFor
  <2>4. InProfile(H) /\ InLists(H)
    BY <2>2, SystemsAssumption DEF Init, InProfile, InLists, NoList
  <2>6. OnEsp(H)
    <3>1. ASSUME NEW g \in Gens, NEW s \in Systems, NEW t \in Tokens, cache[g] = Hash(s, t)
          PROVE  g = 1 /\ s = First
      <4>1. Hash(s, t) \in HashFile
        BY DEF Hash, HashFile
      <4> QED
        BY <3>1, <4>1, HashAssumption DEF Init, Hash
    <3> QED
      BY <2>2, <3>1, SystemsAssumption DEF Init, OnEsp
  <2>5. InMenus(H)
    BY <2>3 DEF Init, InMenus
  <2> QED
    BY <2>4, <2>5, <2>6 DEF Remembers
<1>2. OneHistory /\ [Next]_vars => OneHistory'
  <2> SUFFICES ASSUME OneHistory, [Next]_vars PROVE OneHistory'
    OBVIOUS
  <2>1. TypeOK /\ TypeOK'
    BY TypeStep DEF OneHistory
  <2>2. PICK H \in [Gens -> Systems] : Remembers(H)
    BY DEF OneHistory
  <2>3. PICK H2 \in [Gens -> Systems] :
          InProfile(H2)' /\ \A g \in Gens, s \in Systems : Named(H, g, s) => Named(H2, g, s)'
    BY <2>1, <2>2, CountsOn DEF Remembers
  <2>4. InLists(H2)' /\ OnEsp(H2)' /\ InMenus(H2)'
    BY <2>1, <2>2, <2>3, ListsRemember, EspRemembers, MenusRemember
  <2> QED
    BY <2>1, <2>3, <2>4 DEF OneHistory, Remembers
<1> QED
  BY <1>1, <1>2, PTL DEF Spec

\* Every entry that bears a retained generation's number is that generation's entry, with
\* any number of scripts at a time, failures and lost writes, when the profile is never
\* moved back: what a script read long ago is still so or deleted.
THEOREM EntriesCurrent == ASSUME ~Rollback PROVE Spec => []EntriesAreCurrent
<1>1. OneHistory => EntriesAreCurrent
  <2> SUFFICES ASSUME OneHistory, NEW e \in Menu, profile[e.gen] # None
               PROVE  e = EntryFor(e.gen, profile[e.gen])
    BY DEF EntriesAreCurrent
  <2>1. PICK H \in [Gens -> Systems] : Remembers(H)
    BY DEF OneHistory
  <2>2. TypeOK /\ e \in Entry /\ e.gen \in Gens
    BY DEF Menu, OneHistory, TypeOK, Nvram, Entry
  <2>3. Recalls(H, e)
    BY <2>1, <2>2 DEF Menu, Remembers, InMenus
  <2>4. profile[e.gen] \in Systems /\ Named(H, e.gen, profile[e.gen])
    BY <2>1, <2>2 DEF TypeOK, Remembers, InProfile
  <2> QED
    BY <2>3, <2>4 DEF Recalls, Named
<1> QED
  BY <1>1, NumbersUsedOnce, PTL

\* There is no key and none ever comes.
Keyless == Fixed /\ FirstToken = NoKey

\* Without a key no image is ever written in place, nor lost.
UkisWhole == /\ TypeOK /\ token = NoKey
             /\ \A g \in Gens : uki[g] # Torn /\ signature[g] = NoKey /\ <<"uki", g>> \notin dirty
             /\ \A p \in Scripts : pc[p] # "esp.sign" /\ signToken[p] = NoKey

LEMMA UkisWholeStep ==
  ASSUME Keyless, UkisWhole, [Next]_vars PROVE UkisWhole'
<1>1. TypeOK'
  BY TypeStep DEF UkisWhole
<1>2. TypeOK /\ (\A p \in Scripts, g \in Gens : list[p][g] # Torn) /\ None # Torn
  BY SystemsAssumption DEF UkisWhole, TypeOK
<1>8. token' = NoKey
  <2>1. UNCHANGED token
    <3> USE DEF hostVars
    <3>1. ~ChangeKeys
      BY DEF ChangeKeys, Keyless, Fixed
    <3>2. ASSUME NEW p \in Scripts, ScriptStep(p) \/ Fail(p) PROVE UNCHANGED token
      <4>1. CASE ProfileStep(p) \/ Exit(p) \/ Fail(p)
        BY <4>1 DEF ProfileStep, Build, ProfileReuse, ProfileAppend, DeleteGenerations, CollectStore, Exit, Fail
      <4>2. CASE EspStep(p)
        BY <4>2 DEF EspStep, EspList, EspSkip, UkiCached, UkiStale, UkiCopy, UkiSign, UkiSigned, WriteCache,
           CopyKernel, CopyInitrd, EspScan, RemoveLinux, RemoveKernels, EspDone
      <4>3. CASE EfistubStep(p)
        BY <4>3 DEF EfistubStep, NvList, NvKeep, NvCreate, NvScan, NvDelete, NvDone
      <4>4. CASE LimineStep(p)
        BY <4>4 DEF LimineStep, LimList, LimWrite, LimFill, LimRename
      <4> QED
        BY <3>2, <4>1, <4>2, <4>3, <4>4 DEF ScriptStep
    <3>3. CASE Outage \/ SwitchGeneration \/ UNCHANGED vars
      BY <3>3 DEF Outage, SwitchGeneration, vars
    <3> QED
      BY <3>1, <3>2, <3>3 DEF Next
  <2> QED
    BY <2>1 DEF UkisWhole
\* A step that leaves the images alone, and one that does nothing but that.
<1>3. ASSUME UNCHANGED <<uki, signature, dirty>>, NEW p \in Scripts, Goto(p, pc'[p]), pc'[p] # "esp.sign",
             \A q \in Scripts : signToken'[q] \in {signToken[q], NoKey}
      PROVE  UkisWhole'
  BY <1>1, <1>2, <1>3, <1>8 DEF UkisWhole, Goto, TypeOK
<1>4. CASE UNCHANGED <<uki, signature, dirty, pc, signToken>>
  BY <1>1, <1>4, <1>8 DEF UkisWhole
<1>5. ASSUME NEW p \in Scripts, ScriptStep(p) \/ Fail(p) PROVE UkisWhole'
  <2>0. pc \in [Scripts -> Stages] /\ signToken \in [Scripts -> Tokens] /\ token = NoKey
    BY <1>2 DEF TypeOK, UkisWhole
  <2> USE DEF espVars, localVars, signVars, Goto
  <2>1. CASE ProfileStep(p)
    BY <1>3, <2>0, <2>1 DEF ProfileStep, Build, ProfileReuse, ProfileAppend, DeleteGenerations, CollectStore
  <2>11. CASE Exit(p) \/ Fail(p)
    BY <1>3, <2>0, <2>11 DEF Exit, Fail, ResetLocals
  <2>2. CASE EspSkip(p) \/ UkiCached(p)
    BY <1>4, <2>2 DEF EspSkip, UkiCached
  <2>3. CASE EspList(p) \/ UkiStale(p) \/ CopyKernel(p) \/ CopyInitrd(p) \/ EspScan(p) \/ EspDone(p)
    BY <1>3, <2>0, <2>3 DEF EspList, UkiStale, CopyKernel, CopyInitrd, EspScan, EspDone
  <2>4. CASE UkiCopy(p)
    <3>1. /\ dirty' = dirty /\ pc' = [pc EXCEPT ![p] = "esp.cache"] /\ signToken' = signToken
          /\ \E g \in Gens : /\ uki' = [uki EXCEPT ![g] = list[p][g]]
                              /\ signature' = [signature EXCEPT ![g] = NoKey]
      BY <2>4 DEF UkiCopy
    <3> QED
      BY <1>1, <1>2, <1>8, <2>0, <3>1 DEF UkisWhole, TypeOK
  <2>5. ~UkiSign(p) /\ ~UkiSigned(p)
    BY DEF UkiSign, UkiSigned, Visiting, At, UkisWhole
  <2>6. CASE WriteCache(p)
    <3>1. /\ UNCHANGED <<uki, signature>> /\ pc' = [pc EXCEPT ![p] = "esp.install"]
          /\ signToken' = [signToken EXCEPT ![p] = NoKey]
          /\ \E g \in Gens : dirty' = dirty \/ dirty' = dirty \cup {<<"cache", g>>}
      BY <2>6 DEF WriteCache, Unsynced
    <3> QED
      BY <1>1, <1>8, <2>0, <3>1 DEF UkisWhole
  <2>7. CASE RemoveLinux(p) \/ RemoveKernels(p)
    <3>1. /\ UNCHANGED <<dirty, pc, signToken>>
          /\ \E g \in Gens : \/ UNCHANGED <<uki, signature>>
                             \/ /\ uki' = [uki EXCEPT ![g] = None]
                                /\ signature' = [signature EXCEPT ![g] = NoKey]
      BY <2>7, GensAssumption DEF RemoveLinux, RemoveKernels, StaleLinux, StaleKernels
    <3> QED
      BY <1>1, <1>2, <1>8, <3>1 DEF UkisWhole, TypeOK
  <2>8. CASE EfistubStep(p)
    BY <1>3, <1>4, <2>0, <2>8 DEF EfistubStep, NvList, NvKeep, NvCreate, NvScan, NvDelete, NvDone
  <2>9. CASE LimList(p) \/ LimWrite(p) \/ LimFill(p)
    BY <1>3, <2>0, <2>9 DEF LimList, LimWrite, LimFill
  <2>10. CASE LimRename(p)
    <3>1. /\ UNCHANGED <<uki, signature, signToken>> /\ pc' = [pc EXCEPT ![p] = "done"]
          /\ dirty' = dirty \/ dirty' = dirty \cup {<<"conf", 0>>}
      BY <2>10 DEF LimRename, Unsynced, Conf
    <3> QED
      BY <1>1, <1>8, <2>0, <3>1 DEF UkisWhole
  <2> QED
    BY <1>5, <2>1, <2>2, <2>3, <2>4, <2>5, <2>6, <2>7, <2>8, <2>9, <2>10, <2>11 DEF ScriptStep, EspStep, LimineStep
<1>6. CASE Outage
  <2>1. /\ dirty' = {} /\ signature' = signature
        /\ \A p \in Scripts : pc'[p] = "idle" /\ signToken'[p] = NoKey
        /\ \A g \in Gens : uki'[g] = uki[g]
    BY <1>6 DEF Outage, UkisWhole, ResetLocals
  <2> QED
    BY <1>1, <1>8, <2>1 DEF UkisWhole
<1>7. CASE SwitchGeneration \/ UNCHANGED vars
  BY <1>4, <1>7 DEF SwitchGeneration, vars, espVars, localVars, signVars
<1>9. ~ChangeKeys
  BY DEF ChangeKeys, Keyless, Fixed
<1> QED
  BY <1>5, <1>6, <1>7, <1>9 DEF Next

THEOREM UnsignedImagesWhole == ASSUME Keyless PROVE Spec => []UkisWhole
<1>1. Init => UkisWhole
  BY TypeInit, SystemsAssumption DEF Init, UkisWhole, Keyless
<1>2. UkisWhole /\ [Next]_vars => UkisWhole'
  BY UkisWholeStep
<1> QED
  BY <1>1, <1>2, PTL DEF Spec

\* An image that esp-sync passes over because of its hash file is the image it would have
\* written: also with several scripts at a time and lost writes, where images are unsigned
\* and the profile is never moved back. Image and hash file both belong to the one system
\* that the number was made for.
THEOREM UnsignedImagesCurrent ==
  ASSUME Keyless, ~Rollback PROVE Spec => SkippedImagesAreCurrent
<1>1. ASSUME OneHistory, UkisWhole, [Next]_vars, NEW p \in Scripts, NEW g \in Gens,
             pc[p] = "esp.install", pc'[p] = "esp.install", g \in todo[p] \ todo'[p],
             list[p][g] \in store \cap UkiSystems
      PROVE  uki[g] = list[p][g] /\ signature[g] = token
  <2>1. CacheMatches(g, list[p][g])
    BY <1>1, PassesOver DEF OneHistory
  <2>2. PICK H \in [Gens -> Systems] : Remembers(H)
    BY <1>1 DEF OneHistory
  <2>3. uki[g] \in Systems
    BY <1>1, <2>1 DEF CacheMatches, UkisWhole, TypeOK, Content
  <2>4. list[p][g] \in Systems /\ cache[g] = Hash(list[p][g], token) /\ token \in Tokens
    BY <1>1, <2>1 DEF CacheMatches, OneHistory, TypeOK
  <2>5. signature[g] = token
    BY <1>1 DEF UkisWhole
  <2> QED
    BY <2>2, <2>3, <2>4, <2>5 DEF Remembers, OnEsp, Named
<1>2. OneHistory /\ UkisWhole /\ [Next]_vars =>
        [\A p \in Scripts, g \in Gens :
           (/\ pc[p] = "esp.install" /\ pc'[p] = "esp.install"
            /\ g \in todo[p] \ todo'[p] /\ list[p][g] \in store \cap UkiSystems)
           => uki[g] = list[p][g] /\ signature[g] = token]_vars
  BY <1>1
<1> QED
  BY <1>2, NumbersUsedOnce, UnsignedImagesWhole, PTL DEF Spec, SkippedImagesAreCurrent

-----------------------------------------------------------------------------
(* Without a key, also when the profile is moved back and numbers are used   *)
(* again: nothing that boots is ever written over with anything else.        *)

Unsigned == Alone /\ Keyless /\ (PowerLoss => Loader = "efistub")

\* Every entry is one that some system has.
Genuine(e) == \E s \in Systems : e = EntryFor(e.gen, s)
MenusGenuine == /\ \A n \in nvram : Genuine(n.entry)
                /\ conf # TornConf => \A e \in conf : Genuine(e)

NumsUnique == \A m, n \in nvram : m.num = n.num => m = n
UkisOnly == \A g \in Gens : uki[g] \in UkiSystems \cup {None}
ConfSynced == Conf \notin dirty

Machine == Rooted /\ MenusGenuine /\ NumsUnique /\ UkisOnly /\ ConfSynced

\* What the one script knows.
Aware(p) ==
  /\ pc[p] \in Syncing => list[p] = profile
  /\ pc[p] = "esp.place" => \A g \in Gens : Newest(todo[p], g) => list[p][g] \in UkiSystems
  /\ pc[p] = "nv.gc" => \A n \in nvram : n.num \in victims[p] => profile[n.entry.gen] = None
  /\ pc[p] \in {"lim.list", "lim.write", "lim.fill", "lim.rename"} => Loader = "limine"
  /\ pc[p] = "lim.rename" => confTmp = FullMenu

UInv == UkisWhole /\ Machine /\ \A p \in Scripts : Aware(p)

LEMMA MachineFrame ==
  ASSUME Machine, UNCHANGED <<profile, store, nvram, conf, uki, dirty>> PROVE Machine'
  BY DEF Machine, Rooted, MenusGenuine, Genuine, EntryFor, NumsUnique, UkisOnly, ConfSynced

LEMMA UnawareYet ==
  ASSUME NEW p, pc'[p] \in {"idle", "set", "collect", "esp.list"} PROVE Aware(p)'
  BY DEF Aware, Syncing, Installing, Linking

LEMMA UProfile ==
  ASSUME UInv, NEW p \in Scripts, ProfileStep(p) \/ Exit(p) \/ Fail(p) PROVE Machine' /\ Aware(p)'
<1>1. TypeOK /\ Machine
  BY DEF UInv, UkisWhole
<1> USE DEF Goto, profileVars, espVars, menuVars
<1>2. Aware(p)'
  <2>1. pc'[p] \in {"idle", "set", "collect", "esp.list"}
    BY <1>1 DEF TypeOK, ProfileStep, Build, ProfileReuse, ProfileAppend, DeleteGenerations, CollectStore, Exit, Fail
  <2> QED
    BY <2>1, UnawareYet
<1>3. UNCHANGED <<nvram, conf, uki, dirty>>
  BY DEF ProfileStep, Build, ProfileReuse, ProfileAppend, DeleteGenerations, CollectStore, Exit, Fail
<1>4. Rooted'
  <2>1. CASE Build(p) \/ ProfileReuse(p) \/ Exit(p) \/ Fail(p)
    BY <1>1, <2>1 DEF Machine, Rooted, Build, ProfileReuse, Exit, Fail
  <2>2. CASE ProfileAppend(p)
    <3>1. store' = store /\ \E h : profile' = [profile EXCEPT ![h] = target[p]] /\ target[p] \in store
      BY <2>2 DEF ProfileAppend
    <3> QED
      BY <1>1, <3>1 DEF Machine, Rooted, TypeOK
  <2>3. CASE DeleteGenerations(p)
    <3>1. store' = store /\ \A h \in Gens : profile'[h] \in {profile[h], None}
      BY <2>3 DEF DeleteGenerations
    <3> QED
      BY <1>1, <3>1 DEF Machine, Rooted
  <2>4. CASE CollectStore(p)
    BY <2>4 DEF CollectStore, Rooted, Numbers
  <2> QED
    BY <2>1, <2>2, <2>3, <2>4 DEF ProfileStep
<1> QED
  BY <1>1, <1>2, <1>3, <1>4 DEF Machine, MenusGenuine, Genuine, EntryFor, NumsUnique, UkisOnly, ConfSynced

LEMMA UEsp ==
  ASSUME Keyless, UInv, NEW p \in Scripts, EspStep(p) PROVE Machine' /\ Aware(p)'
<1>1. TypeOK /\ Machine /\ Aware(p)
  BY DEF UInv, UkisWhole
<1> USE DEF Goto, At, Visiting, Visited, profileVars, espVars, menuVars, localVars
<1>2. CASE EspList(p)
  <2>1. list'[p] = profile' /\ pc'[p] = "esp.install"
    BY <1>1, <1>2, ListingIsProfile DEF EspList, TypeOK, Machine
  <2>2. Machine'
    BY <1>1, <1>2, MachineFrame DEF EspList
  <2> QED
    BY <2>1, <2>2 DEF Aware
\* The other steps keep what was listed and do not move the profile.
<1>3. ASSUME UNCHANGED <<profile, list>>, pc[p] \in Syncing,
             pc'[p] \in {"esp.install", "esp.cache", "esp.initrd", "esp.gc", "nv.list"}
      PROVE  Aware(p)'
  BY <1>1, <1>3 DEF Aware
<1>4. CASE EspSkip(p) \/ UkiCached(p) \/ EspScan(p)
  <2>1. UNCHANGED <<profile, list>> /\ pc[p] \in Syncing /\ pc'[p] \in {"esp.install", "esp.gc"}
    BY <1>1, <1>4 DEF EspSkip, UkiCached, EspScan, TypeOK, Syncing, Installing
  <2>2. Machine'
    BY <1>1, <1>4, MachineFrame DEF EspSkip, UkiCached, EspScan
  <2> QED
    BY <1>3, <2>1, <2>2
<1>5. CASE UkiStale(p)
  <2>1. PICK g \in Gens : Newest(todo[p], g) /\ list[p][g] \in UkiSystems
    BY <1>5 DEF UkiStale
  <2>2. \A h \in Gens : Newest(todo[p], h) => h = g
    BY <2>1, GensAssumption DEF Newest
  <2>3. UNCHANGED <<profile, list, todo>> /\ pc[p] = "esp.install" /\ pc'[p] = "esp.place"
    BY <1>1, <1>5 DEF UkiStale, TypeOK
  <2>4. Machine'
    BY <1>1, <1>5, MachineFrame DEF UkiStale
  <2> QED
    BY <1>1, <2>1, <2>2, <2>3, <2>4 DEF Aware, Syncing, Installing
<1>6. CASE UkiCopy(p)
  <2>1. PICK g \in Gens : /\ uki' = [uki EXCEPT ![g] = list[p][g]]
                          /\ Newest(todo[p], g) /\ pc[p] = "esp.place"
    BY <1>6 DEF UkiCopy
  <2>2. UNCHANGED <<profile, store, nvram, conf, dirty, list>> /\ pc'[p] = "esp.cache"
    BY <1>1, <1>6 DEF UkiCopy, TypeOK
  <2>3. list[p][g] \in UkiSystems
    BY <1>1, <2>1 DEF Aware
  <2>4. UkisOnly'
    BY <1>1, <2>1, <2>3 DEF Machine, UkisOnly, TypeOK
  <2>5. Machine'
    BY <1>1, <2>2, <2>4 DEF Machine, Rooted, MenusGenuine, Genuine, EntryFor, NumsUnique, ConfSynced
  <2> QED
    BY <1>3, <2>1, <2>2, <2>5 DEF Syncing, Installing
<1>7. ~UkiSign(p) /\ ~UkiSigned(p)
  BY DEF UkiSign, UkiSigned, UInv, UkisWhole
<1>8. CASE WriteCache(p)
  <2>1. /\ UNCHANGED <<profile, store, nvram, conf, uki, list>> /\ pc[p] \in Syncing /\ pc'[p] = "esp.install"
        /\ \E g \in Gens : dirty' = dirty \/ dirty' = dirty \cup {<<"cache", g>>}
    BY <1>1, <1>8 DEF WriteCache, TypeOK, Unsynced, Syncing, Installing
  <2>2. Machine'
    BY <1>1, <2>1 DEF Machine, Rooted, MenusGenuine, Genuine, EntryFor, NumsUnique, UkisOnly, ConfSynced, Conf
  <2> QED
    BY <1>3, <2>1, <2>2
<1>9. CASE CopyKernel(p) \/ CopyInitrd(p)
  <2>1. UNCHANGED <<profile, list>> /\ pc[p] \in Syncing /\ pc'[p] \in {"esp.install", "esp.initrd"}
    BY <1>1, <1>9 DEF CopyKernel, CopyInitrd, TypeOK, Syncing, Installing
  <2>2. Machine'
    BY <1>1, <1>9, MachineFrame DEF CopyKernel, CopyInitrd
  <2> QED
    BY <1>3, <2>1, <2>2
<1>10. CASE RemoveLinux(p) \/ RemoveKernels(p)
  <2>1. /\ UNCHANGED <<profile, store, nvram, conf, dirty, list, pc>> /\ pc[p] = "esp.gc"
        /\ \A g \in Gens : uki'[g] \in {uki[g], None}
    BY <1>1, <1>10 DEF RemoveLinux, RemoveKernels, StaleLinux, TypeOK
  <2>2. UkisOnly'
    BY <1>1, <2>1 DEF Machine, UkisOnly
  <2>3. Machine'
    BY <1>1, <2>1, <2>2 DEF Machine, Rooted, MenusGenuine, Genuine, EntryFor, NumsUnique, ConfSynced
  <2> QED
    BY <1>3, <2>1, <2>3 DEF Syncing
<1>11. CASE EspDone(p)
  <2>1. /\ UNCHANGED <<profile, list>> /\ pc[p] \in Syncing
        /\ pc'[p] = IF Loader = "efistub" THEN "nv.list" ELSE "lim.list"
    BY <1>1, <1>11 DEF EspDone, TypeOK, Syncing
  <2>2. Machine'
    BY <1>1, <1>11, MachineFrame DEF EspDone
  <2> QED
    BY <1>1, <2>1, <2>2, SwitchAssumption DEF Aware
<1> QED
  BY <1>2, <1>4, <1>5, <1>6, <1>7, <1>8, <1>9, <1>10, <1>11 DEF EspStep

LEMMA UEfistub ==
  ASSUME UInv, NEW p \in Scripts, EfistubStep(p) PROVE Machine' /\ Aware(p)'
<1>1. TypeOK /\ Machine /\ Aware(p)
  BY DEF UInv, UkisWhole
<1> USE DEF Goto, At, Visiting, Visited, profileVars, espVars, menuVars, localVars
<1>2. CASE NvList(p)
  <2>1. list'[p] = profile' /\ pc'[p] = "nv.create"
    BY <1>1, <1>2, ListingIsProfile DEF NvList, TypeOK, Machine
  <2>2. Machine'
    BY <1>1, <1>2, MachineFrame DEF NvList
  <2> QED
    BY <2>1, <2>2 DEF Aware
<1>3. CASE NvKeep(p)
  <2>1. UNCHANGED <<profile, list, pc>> /\ pc[p] = "nv.create"
    BY <1>3 DEF NvKeep
  <2>2. Machine'
    BY <1>1, <1>3, MachineFrame DEF NvKeep
  <2> QED
    BY <1>1, <2>1, <2>2 DEF Aware
<1>4. CASE NvCreate(p)
  <2>1. PICK g \in Gens, k \in FreeNums :
          /\ list[p][g] \in store /\ pc[p] = "nv.create"
          /\ nvram' = nvram \cup {[num |-> k, entry |-> EntryFor(g, list[p][g])]}
    BY <1>4 DEF NvCreate
  <2>2. UNCHANGED <<profile, store, conf, uki, dirty, list, pc>>
    BY <1>4 DEF NvCreate
  <2>3. \A n \in nvram : n.num # k
    BY <2>1 DEF FreeNums
  <2>4. NumsUnique'
    BY <1>1, <2>1, <2>3 DEF Machine, NumsUnique
  <2>5. Genuine(EntryFor(g, list[p][g]))
    <3>1. EntryFor(g, list[p][g]).gen = g /\ list[p][g] \in Systems
      BY <1>1, <2>1 DEF EntryFor, TypeOK
    <3> QED
      BY <3>1 DEF Genuine
  <2>6. MenusGenuine'
    BY <1>1, <2>1, <2>2, <2>5 DEF Machine, MenusGenuine, Genuine, EntryFor
  <2>7. Aware(p)'
    BY <1>1, <2>1, <2>2 DEF Aware
  <2> QED
    BY <1>1, <2>2, <2>4, <2>6, <2>7 DEF Machine, Rooted, UkisOnly, ConfSynced
<1>5. CASE NvScan(p)
  <2>1. PICK V \in SUBSET {n \in nvram : n.entry.gen \notin Active(p)} :
          victims' = [victims EXCEPT ![p] = {n.num : n \in V}]
    BY <1>5 DEF NvScan
  <2>2. UNCHANGED <<profile, list, nvram>> /\ pc[p] = "nv.create" /\ pc'[p] = "nv.gc"
    BY <1>1, <1>5 DEF NvScan, TypeOK
  <2>3. list[p] = profile
    BY <1>1, <2>2 DEF Aware, Syncing, Linking
  <2>4. ASSUME NEW n \in nvram, n.num \in victims'[p] PROVE profile[n.entry.gen] = None
    <3>1. victims'[p] = {m.num : m \in V}
      BY <1>1, <2>1 DEF TypeOK
    <3>2. n \in V
      BY <1>1, <2>4, <3>1 DEF Machine, NumsUnique
    <3>3. n.entry.gen \in Gens
      BY <1>1 DEF TypeOK, Nvram, Entry
    <3> QED
      BY <2>3, <3>2, <3>3 DEF Active
  <2>5. Machine'
    BY <1>1, <1>5, MachineFrame DEF NvScan
  <2> QED
    BY <2>2, <2>3, <2>4, <2>5 DEF Aware
<1>6. CASE NvDelete(p)
  <2>1. PICK n \in nvram : nvram' = nvram \ {n} /\ victims' = [victims EXCEPT ![p] = @ \ {n.num}]
    BY <1>6 DEF NvDelete
  <2>2. UNCHANGED <<profile, store, conf, uki, dirty, list, pc>> /\ pc[p] = "nv.gc"
    BY <1>6 DEF NvDelete
  <2>3. victims'[p] \subseteq victims[p]
    BY <1>1, <2>1 DEF TypeOK
  <2>4. Aware(p)'
    BY <1>1, <2>1, <2>2, <2>3 DEF Aware
  <2> QED
    BY <1>1, <2>1, <2>2, <2>4 DEF Machine, Rooted, MenusGenuine, Genuine, EntryFor, NumsUnique, UkisOnly, ConfSynced
<1>7. CASE NvDone(p)
  <2>1. UNCHANGED <<profile, list>> /\ pc[p] = "nv.gc" /\ pc'[p] = "done"
    BY <1>1, <1>7 DEF NvDone, TypeOK
  <2>2. Machine'
    BY <1>1, <1>7, MachineFrame DEF NvDone
  <2> QED
    BY <1>1, <2>1, <2>2 DEF Aware, Syncing, Linking
<1> QED
  BY <1>2, <1>3, <1>4, <1>5, <1>6, <1>7 DEF EfistubStep

LEMMA ULimine ==
  ASSUME PowerLoss => Loader = "efistub", UInv, NEW p \in Scripts, LimineStep(p) PROVE Machine' /\ Aware(p)'
<1>1. TypeOK /\ Machine /\ Aware(p)
  BY DEF UInv, UkisWhole
<1> USE DEF Goto, At, profileVars, espVars, menuVars, localVars
<1>2. CASE LimList(p)
  <2>1. list'[p] = profile' /\ pc[p] = "lim.list" /\ pc'[p] = "lim.write"
    BY <1>1, <1>2, ListingIsProfile DEF LimList, TypeOK, Machine
  <2>2. Machine'
    BY <1>1, <1>2, MachineFrame DEF LimList
  <2> QED
    BY <1>1, <2>1, <2>2 DEF Aware
<1>3. CASE LimWrite(p)
  <2>1. /\ list' = [list EXCEPT ![p] = Readable(p)] /\ profile' = profile
        /\ pc[p] = "lim.write" /\ pc'[p] = "lim.fill"
    BY <1>1, <1>3 DEF LimWrite, TypeOK
  <2>2. list[p] = profile
    BY <1>1, <2>1 DEF Aware, Syncing, Linking
  <2>3. Readable(p) = profile
    BY <1>1, <2>2 DEF Readable, Machine, Rooted, TypeOK
  <2>4. Machine'
    BY <1>1, <1>3, MachineFrame DEF LimWrite
  <2> QED
    BY <1>1, <2>1, <2>3, <2>4 DEF Aware, TypeOK
<1>4. CASE LimFill(p)
  <2>1. /\ UNCHANGED <<profile, list>> /\ pc[p] = "lim.fill" /\ pc'[p] = "lim.rename"
        /\ confTmp' = {EntryFor(g, list[p][g]) : g \in Active(p)}
    BY <1>1, <1>4 DEF LimFill, TypeOK
  <2>2. list[p] = profile
    BY <1>1, <2>1 DEF Aware, Syncing, Linking
  <2>3. confTmp' = FullMenu'
    BY <2>1, <2>2 DEF FullMenu, Active, Numbers, EntryFor
  <2>4. Machine'
    BY <1>1, <1>4, MachineFrame DEF LimFill
  <2> QED
    BY <1>1, <2>1, <2>2, <2>3, <2>4 DEF Aware
<1>5. CASE LimRename(p)
  <2>1. /\ UNCHANGED <<profile, store, nvram, uki, list>> /\ pc[p] = "lim.rename" /\ pc'[p] = "done"
        /\ conf' = confTmp
    BY <1>1, <1>5 DEF LimRename, TypeOK
  <2>2. confTmp = FullMenu /\ Loader = "limine"
    BY <1>1, <2>1 DEF Aware
  <2>3. dirty' = dirty
    BY <1>5, <2>2 DEF LimRename, Unsynced
  <2>4. \A e \in FullMenu : Genuine(e)
    BY <1>1 DEF FullMenu, Genuine, Numbers, EntryFor, TypeOK
  <2>5. Machine'
    BY <1>1, <2>1, <2>2, <2>3, <2>4 DEF Machine, Rooted, MenusGenuine, Genuine, EntryFor, NumsUnique, UkisOnly, ConfSynced
  <2>6. Aware(p)'
    BY <1>1, <2>1 DEF Aware, Syncing, Linking
  <2> QED
    BY <2>5, <2>6
<1> QED
  BY <1>2, <1>3, <1>4, <1>5 DEF LimineStep

LEMMA UStep ==
  ASSUME Unsigned, UInv, [Next]_vars PROVE UInv'
<1>1. UkisWhole'
  BY UkisWholeStep DEF UInv, Unsigned
<1>2. ASSUME NEW p \in Scripts, ScriptStep(p) \/ Fail(p) PROVE UInv'
  <2>1. Machine' /\ Aware(p)'
    BY <1>2, UProfile, UEsp, UEfistub, ULimine DEF ScriptStep, Unsigned
  <2>2. \A q \in Scripts : Aware(q)'
    BY <2>1 DEF Unsigned, Alone
  <2> QED
    BY <1>1, <2>1, <2>2 DEF UInv
<1>3. CASE Outage
  <2>1. /\ UNCHANGED <<profile, store, nvram, conf>> /\ dirty' = {} /\ \A p \in Scripts : pc'[p] = "idle"
        /\ \A g \in Gens : uki'[g] = uki[g]
    BY <1>3 DEF Outage, profileVars, UInv, UkisWhole, Machine, ConfSynced
  <2>2. Machine'
    BY <2>1 DEF UInv, Machine, Rooted, MenusGenuine, Genuine, EntryFor, NumsUnique, UkisOnly, ConfSynced
  <2> QED
    BY <1>1, <2>1, <2>2, UnawareYet DEF UInv
<1>4. CASE SwitchGeneration \/ UNCHANGED vars
  <2>1. UNCHANGED <<profile, store, nvram, conf, confTmp, uki, dirty, pc, list, todo, victims>>
    BY <1>4 DEF SwitchGeneration, vars, profileVars, espVars, menuVars, localVars
  <2>2. Machine'
    BY <2>1, MachineFrame DEF UInv
  <2>3. \A p \in Scripts : Aware(p)'
    BY <2>1 DEF UInv, Aware, Newest, FullMenu, Numbers, EntryFor
  <2> QED
    BY <1>1, <2>2, <2>3 DEF UInv
<1>5. ~ChangeKeys
  BY DEF ChangeKeys, Unsigned, Keyless, Fixed
<1> QED
  BY <1>2, <1>3, <1>4, <1>5 DEF Next

\* What boots generation g: its own entry and its own files.
LEMMA BootsByItself ==
  ASSUME UInv, NEW g \in Gens
  PROVE  Bootable(g) <=> /\ profile[g] # None /\ EntryFor(g, profile[g]) \in Menu
                         /\ profile[g] \in UkiSystems => uki[g] = profile[g]
                         /\ profile[g] \notin UkiSystems => kernel[g] = profile[g] /\ initrd[g] = profile[g]
<1>1. TypeOK /\ Machine
  BY DEF UInv, UkisWhole
<1>2. ASSUME Bootable(g)
      PROVE  /\ profile[g] # None /\ EntryFor(g, profile[g]) \in Menu
             /\ profile[g] \in UkiSystems => uki[g] = profile[g]
             /\ profile[g] \notin UkiSystems => kernel[g] = profile[g] /\ initrd[g] = profile[g]
  <2>1. PICK e \in Menu : e.gen = g /\ Brings(e, profile[g])
    BY <1>2 DEF Bootable
  <2>2. PICK s \in Systems : e = EntryFor(g, s)
    BY <1>1, <2>1 DEF Menu, Machine, MenusGenuine, Genuine
  <2>3. CASE s \in UkiSystems
    <3>1. uki[g] = profile[g] /\ profile[g] # None
      BY <1>2, <2>1, <2>2, <2>3 DEF Brings, EntryFor, Bootable
    <3>2. profile[g] \in UkiSystems
      BY <1>1, <3>1 DEF Machine, UkisOnly
    <3>3. EntryFor(g, profile[g]) = e
      BY <2>2, <2>3, <3>2 DEF EntryFor
    <3> QED
      BY <2>1, <3>1, <3>2, <3>3
  <2>4. CASE s \notin UkiSystems
    <3>1. s = profile[g] /\ kernel[g] = profile[g] /\ initrd[g] = profile[g]
      BY <2>1, <2>2, <2>4 DEF Brings, EntryFor
    <3> QED
      BY <1>2, <2>1, <2>2, <2>4, <3>1 DEF Bootable
  <2> QED
    BY <2>3, <2>4
<1>3. ASSUME profile[g] # None, EntryFor(g, profile[g]) \in Menu,
             profile[g] \in UkiSystems => uki[g] = profile[g],
             profile[g] \notin UkiSystems => kernel[g] = profile[g] /\ initrd[g] = profile[g]
      PROVE  Bootable(g)
  <2>1. profile[g] \in store
    BY <1>1, <1>3 DEF Machine, Rooted
  <2> QED
    BY <1>3, <2>1 DEF Bootable, Brings, EntryFor
<1> QED
  BY <1>2, <1>3

\* No step writes over the files of a generation that stays, with anything but them.
LEMMA PayloadStays ==
  ASSUME Keyless, UInv, [Next]_vars, NEW g \in Gens, profile[g] # None
  PROVE  /\ uki[g] = profile[g] => uki'[g] = profile[g]
         /\ kernel[g] = profile[g] => kernel'[g] = profile[g]
         /\ initrd[g] = profile[g] => initrd'[g] = profile[g]
<1>1. TypeOK /\ UkisWhole /\ \A p \in Scripts : pc[p] \in Syncing => list[p] = profile
  BY DEF UInv, UkisWhole, Aware
<1>2. CASE UNCHANGED <<uki, kernel, initrd>>
  BY <1>2
<1>3. ASSUME NEW p \in Scripts, EspStep(p)
      PROVE  /\ uki'[g] # uki[g] => uki'[g] = profile[g]
             /\ kernel'[g] # kernel[g] => kernel'[g] = profile[g]
             /\ initrd'[g] # initrd[g] => initrd'[g] = profile[g]
  <2> USE DEF TypeOK, At, Visiting, espVars, Syncing, Installing
  <2>1. CASE EspList(p) \/ EspSkip(p) \/ UkiCached(p) \/ UkiStale(p) \/ WriteCache(p) \/ EspScan(p) \/ EspDone(p)
    BY <2>1 DEF EspList, EspSkip, UkiCached, UkiStale, WriteCache, EspScan, EspDone
  <2>2. CASE UkiCopy(p)
    <3>1. PICK h \in Gens : uki' = [uki EXCEPT ![h] = list[p][h]]
      BY <2>2 DEF UkiCopy
    <3>2. UNCHANGED <<kernel, initrd>> /\ list[p] = profile
      BY <1>1, <2>2 DEF UkiCopy
    <3> QED
      BY <1>1, <3>1, <3>2
  <2>3. ~UkiSign(p) /\ ~UkiSigned(p)
    BY <1>1 DEF UkiSign, UkiSigned, UkisWhole
  <2>4. CASE CopyKernel(p) \/ CopyInitrd(p)
    <3>1. \E h \in Gens : \/ kernel' = [kernel EXCEPT ![h] = list[p][h]] /\ initrd' = initrd
                          \/ initrd' = [initrd EXCEPT ![h] = list[p][h]] /\ kernel' = kernel
      BY <2>4 DEF CopyKernel, CopyInitrd
    <3>2. uki' = uki /\ list[p] = profile
      BY <1>1, <2>4 DEF CopyKernel, CopyInitrd
    <3> QED
      BY <1>1, <3>1, <3>2
  <2>5. CASE RemoveLinux(p) \/ RemoveKernels(p)
    <3>1. pc[p] = "esp.gc" /\ \A h \in Gens : h \in Active(p) =>
            uki'[h] = uki[h] /\ kernel'[h] = kernel[h] /\ initrd'[h] = initrd[h]
      BY <1>1, <2>5 DEF RemoveLinux, RemoveKernels, StaleLinux, StaleKernels
    <3>2. list[p] = profile
      BY <1>1, <3>1
    <3>3. g \in Active(p)
      BY <3>2 DEF Active
    <3> QED
      BY <3>1, <3>3
  <2> QED
    BY <1>3, <2>1, <2>2, <2>3, <2>4, <2>5 DEF EspStep
<1>4. ASSUME NEW p \in Scripts, ScriptStep(p) \/ Fail(p)
      PROVE  UNCHANGED <<uki, kernel, initrd>> \/ EspStep(p)
  <2> USE DEF espVars
  <2>1. CASE ProfileStep(p) \/ Exit(p) \/ Fail(p)
    BY <2>1 DEF ProfileStep, Build, ProfileReuse, ProfileAppend, DeleteGenerations, CollectStore, Exit, Fail
  <2>2. CASE EfistubStep(p)
    BY <2>2 DEF EfistubStep, NvList, NvKeep, NvCreate, NvScan, NvDelete, NvDone
  <2>3. CASE LimineStep(p)
    BY <2>3 DEF LimineStep, LimList, LimWrite, LimFill, LimRename
  <2> QED
    BY <1>4, <2>1, <2>2, <2>3 DEF ScriptStep
<1>5. CASE Outage
  <2>1. UNCHANGED <<kernel, initrd>> /\ uki'[g] = uki[g]
    BY <1>1, <1>5 DEF Outage, UkisWhole
  <2> QED
    BY <2>1
<1>6. CASE SwitchGeneration \/ ChangeKeys \/ UNCHANGED vars
  BY <1>2, <1>6 DEF SwitchGeneration, ChangeKeys, vars, espVars
<1> QED
  BY <1>2, <1>3, <1>4, <1>5, <1>6 DEF Next

\* No step takes the entry of a generation that stays off the menu.
LEMMA OfferStays ==
  ASSUME UInv, [Next]_vars, NEW g \in Gens, profile[g] # None, EntryFor(g, profile[g]) \in Menu
  PROVE  EntryFor(g, profile[g]) \in Menu'
<1>1. TypeOK /\ Machine /\ \A p \in Scripts : Aware(p)
  BY DEF UInv, UkisWhole
<1>2. CASE UNCHANGED <<nvram, conf>>
  BY <1>2 DEF Menu
<1>3. ASSUME NEW p \in Scripts, ScriptStep(p) \/ Fail(p) PROVE EntryFor(g, profile[g]) \in Menu'
  <2> USE DEF menuVars
  <2>1. CASE ProfileStep(p) \/ Exit(p) \/ Fail(p)
    BY <1>2, <2>1 DEF ProfileStep, Build, ProfileReuse, ProfileAppend, DeleteGenerations, CollectStore, Exit, Fail
  <2>2. CASE EspStep(p)
    BY <1>2, <2>2 DEF EspStep, EspList, EspSkip, UkiCached, UkiStale, UkiCopy, UkiSign, UkiSigned, WriteCache,
       CopyKernel, CopyInitrd, EspScan, RemoveLinux, RemoveKernels, EspDone
  <2>3. CASE NvList(p) \/ NvKeep(p) \/ NvScan(p) \/ NvDone(p) \/ LimList(p) \/ LimWrite(p) \/ LimFill(p)
    BY <1>2, <2>3 DEF NvList, NvKeep, NvScan, NvDone, LimList, LimWrite, LimFill
  <2>4. CASE NvCreate(p)
    <3>1. conf' = conf /\ nvram \subseteq nvram'
      BY <2>4 DEF NvCreate
    <3> QED
      BY <3>1 DEF Menu
  <2>5. CASE NvDelete(p)
    <3>1. PICK n \in nvram : pc[p] = "nv.gc" /\ n.num \in victims[p] /\ nvram' = nvram \ {n} /\ conf' = conf
      BY <2>5 DEF NvDelete, At
    <3>2. profile[n.entry.gen] = None
      BY <1>1, <3>1 DEF Aware
    <3>3. n.entry # EntryFor(g, profile[g])
      BY <3>2 DEF EntryFor
    <3> QED
      BY <3>1, <3>3 DEF Menu
  <2>6. CASE LimRename(p)
    <3>1. pc[p] = "lim.rename" /\ conf' = confTmp /\ nvram' = nvram
      BY <2>6 DEF LimRename, At
    <3>2. conf' = FullMenu /\ Loader = "limine" /\ FullMenu # TornConf
      BY <1>1, <3>1, FullMenuType DEF Aware
    <3>3. EntryFor(g, profile[g]) \in FullMenu
      BY DEF FullMenu, Numbers
    <3> QED
      BY <3>2, <3>3 DEF Menu
  <2> QED
    BY <1>3, <2>1, <2>2, <2>3, <2>4, <2>5, <2>6 DEF ScriptStep, EfistubStep, LimineStep
<1>4. CASE Outage
  <2>1. nvram' = nvram /\ conf' = conf
    BY <1>1, <1>4 DEF Outage, Machine, ConfSynced
  <2> QED
    BY <1>2, <2>1
<1>5. CASE SwitchGeneration \/ ChangeKeys \/ UNCHANGED vars
  BY <1>2, <1>5 DEF SwitchGeneration, ChangeKeys, vars, menuVars
<1> QED
  BY <1>3, <1>4, <1>5 DEF Next

\* Without a key, a generation that stays keeps booting through every step of one script
\* at a time, failures and outages, also when the profile is moved back and a later
\* generation gets the number of an earlier one. With limine nothing written may be lost.
THEOREM UnsignedGenerationsBoot == ASSUME Unsigned PROVE Spec => RetainedStaysBootable
<1>1. Init => UInv
  <2> SUFFICES ASSUME Init PROVE UInv
    OBVIOUS
  <2>1. UkisWhole
    BY TypeInit, SystemsAssumption DEF Init, UkisWhole, Unsigned, Keyless
  <2>2. Genuine(EntryFor(1, First))
    BY SystemsAssumption DEF Genuine, EntryFor
  <2>3. Machine
    BY <2>2, SystemsAssumption DEF Init, Machine, Rooted, MenusGenuine, NumsUnique, UkisOnly, ConfSynced
  <2>4. \A p \in Scripts : Aware(p)
    BY DEF Init, Aware, Syncing, Installing, Linking
  <2> QED
    BY <2>1, <2>3, <2>4 DEF UInv
<1>2. UInv /\ [Next]_vars => UInv'
  BY UStep
<1>3. ASSUME UInv, UInv', [Next]_vars, NEW g \in Gens, Bootable(g), profile'[g] = profile[g]
      PROVE  Bootable(g)'
  <2>1. /\ profile[g] # None /\ EntryFor(g, profile[g]) \in Menu
        /\ profile[g] \in UkiSystems => uki[g] = profile[g]
        /\ profile[g] \notin UkiSystems => kernel[g] = profile[g] /\ initrd[g] = profile[g]
    BY <1>3, BootsByItself
  <2>2. EntryFor(g, profile[g]) \in Menu'
    BY <1>3, <2>1, OfferStays
  <2>3. /\ profile[g] \in UkiSystems => uki'[g] = profile[g]
        /\ profile[g] \notin UkiSystems => kernel'[g] = profile[g] /\ initrd'[g] = profile[g]
    BY <1>3, <2>1, PayloadStays DEF Unsigned
  <2>4. profile'[g] \in store'
    BY <1>3, <2>1 DEF UInv, Machine, Rooted
  <2> QED
    BY <1>3, <2>1, <2>2, <2>3, <2>4 DEF Bootable, Brings, EntryFor
<1>4. UInv /\ UInv' /\ [Next]_vars =>
        [\A g \in Gens : Bootable(g) /\ profile'[g] = profile[g] => Bootable(g)']_vars
  BY <1>3
<1> QED
  BY <1>1, <1>2, <1>4, PTL DEF Spec, RetainedStaysBootable
=============================================================================
