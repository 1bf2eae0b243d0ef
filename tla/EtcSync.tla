-------------------------------- MODULE EtcSync --------------------------------
(***************************************************************************)
(* How neet-activate brings /etc into line with a system, at every boot    *)
(* and at every neet-rebuild switch.                                       *)
(*                                                                         *)
(* A system carries a tree of /etc entries in the store. Most of them      *)
(* become symlinks through /etc/static, which leads to that tree; those    *)
(* with a mode become copies, and /etc/.clean remembers the copies of the  *)
(* last activation; those marked direct-symlink point at their source. The *)
(* steps are separate system calls: the machine may go down between any    *)
(* two of them, and a failed one is a warning and not the end.             *)
(***************************************************************************)
EXTENDS FiniteSets

CONSTANTS
  Systems,   \* the systems that may be activated
  Names,     \* paths relative to /etc
  Parent,    \* the directory a name lies in, or None for /etc itself
  Etc,       \* Etc[s][n]: what the tree of system s has at n
  Aborts,    \* an activation may end anywhere: the machine goes down
  Faults,    \* an unlink, a link or a copy may fail
  Admin,     \* the names at which somebody puts files of his own between activations
  None

Modes == {"none", "dir", "copy", "direct", "link"}

ASSUME SwitchAssumption == {Aborts, Faults} \subseteq BOOLEAN /\ Admin \subseteq Names
ASSUME TreeAssumption ==
  /\ None \notin Names /\ None \notin Systems
  /\ Parent \in [Names -> Names \cup {None}]
  /\ \A n \in Names : Parent[n] # None => Parent[Parent[n]] = None
  /\ Etc \in [Systems -> [Names -> Modes]]
  /\ \A s \in Systems, n \in Names : 
       /\ Etc[s][n] # "none" /\ Parent[n] # None => Etc[s][Parent[n]] = "dir"
       /\ (\E m \in Names : Parent[m] = n) => Etc[s][n] \in {"none", "dir", "link"}

VARIABLES
  etc,       \* what lies at each name of /etc
  static,    \* the system whose tree /etc/static leads to
  damaged,   \* <<s, n>>: entry n of the tree of s, overwritten in the store
  manifest,  \* /etc/.clean: the names of the managed copies
  pc,        \* where the activation is
  todo,      \* the names the present loop still has to visit
  created,   \* the copies this activation made
  half,      \* the name whose link is removed and not yet made again
  cut        \* history: an activation was cut short

vars == <<etc, static, damaged, manifest, pc, todo, created, half, cut>>

File(kind, of) == [kind |-> kind, of |-> of]
Absent    == File("absent", None)
Dir       == File("dir", None)
Local     == File("local", None)     \* nothing the activation put there
Link      == File("link", None)      \* to /etc/static/<name>
Copy(s)   == File("copy", s)
Direct(s) == File("direct", s)

TypeOK ==
  /\ etc \in [Names -> {Absent, Dir, Local, Link} \cup {Copy(s) : s \in Systems}
                       \cup {Direct(s) : s \in Systems}]
  /\ static \in Systems
  /\ damaged \subseteq Systems \X Names
  /\ manifest \subseteq Names /\ created \subseteq Names /\ todo \subseteq Names
  /\ pc \in {"idle", "clean", "sync", "stale", "done"}
  /\ half \in Names \cup {None}
  /\ cut \in BOOLEAN

-----------------------------------------------------------------------------
(* The paths.                                                               *)

In(n, kinds) == Parent[n] # None /\ etc[Parent[n]].kind \in kinds

\* The directory of n is itself a link through /etc/static: what is done to
\* /etc/n is done to the tree in the store.
InStore(n) == In(n, {"link"})
\* ... or is a file: nothing can be done at /etc/n.
Blocked(n) == In(n, {"copy", "local", "direct"})

\* create_dir_all of the directory n lies in.
WithParent(n) == IF In(n, {"absent"}) THEN [etc EXCEPT ![Parent[n]] = Dir] ELSE etc

\* An entry that was replaced by a link to itself.
Looped(s, n) == <<s, n>> \in damaged /\ Etc[s][n] = "link"
Resolves(n) == Etc[static][n] # "none" /\ ~Looped(static, n)

Provided(s) == {n \in Names : Etc[s][n] \in {"copy", "direct", "link"}}
\* A plausible bug: a link to the entry of this tree, past /etc/static.
WantedInTree(n) == File("link", static)
Wanted(n) == IF Etc[static][n] = "link" THEN Link ELSE Direct(static)

\* A plausible bug: relink does not look first.
NeverRight(n) == FALSE
\* A plausible bug: any link will do.
AnyLink(n) == etc[n].kind \in {"link", "direct"}
Right(n) == etc[n] = Wanted(n)

Visited(n) == todo' = todo \ {n}

-----------------------------------------------------------------------------
(* setup_etc.                                                               *)

\* A plausible bug: every entry that does not resolve is cleaned, link or not.
AllEntries == {n \in Names : etc[n].kind # "dir" /\ ~InStore(n)}
ManagedLinks == {n \in Names : etc[n] = Link /\ ~InStore(n)}

\* /etc/static is replaced in one rename, before anything else.
Start(s) ==
  /\ pc \in {"idle", "done"} /\ pc' = "clean"
  /\ static' = s
  /\ todo' = ManagedLinks
  /\ created' = {}
  /\ UNCHANGED <<etc, damaged, manifest, half, cut>>

\* clean_dangling_symlinks: links through /etc/static that lead nowhere now.
CleanEntry(n) ==
  /\ pc = "clean" /\ n \in todo /\ Visited(n)
  /\ \/ Resolves(n) /\ UNCHANGED etc
     \/ ~Resolves(n) /\ etc' = [etc EXCEPT ![n] = Absent]
     \/ ~Resolves(n) /\ Faults /\ UNCHANGED etc
  /\ UNCHANGED <<static, damaged, manifest, pc, created, half, cut>>

EndClean ==
  /\ pc = "clean" /\ todo = {} /\ pc' = "sync"
  /\ todo' = Provided(static)
  /\ UNCHANGED <<etc, static, damaged, manifest, created, half, cut>>

Syncing(n, modes) ==
  pc = "sync" /\ half = None /\ n \in todo /\ Etc[static][n] \in modes

\* copy_managed_file: written beside the target and renamed over it.
InstallCopy(n) ==
  /\ Syncing(n, {"copy"}) /\ Visited(n)
  /\ ~InStore(n) /\ ~Blocked(n) /\ etc[n].kind # "dir"
  /\ etc' = [WithParent(n) EXCEPT ![n] = Copy(static)]
  /\ created' = created \cup {n}
  /\ UNCHANGED <<static, damaged, manifest, pc, half, cut>>

CopyIntoStore(n) ==
  /\ Syncing(n, {"copy"}) /\ Visited(n)
  /\ InStore(n)
  /\ damaged' = damaged \cup {<<static, n>>}
  /\ created' = created \cup {n}
  /\ UNCHANGED <<etc, static, manifest, pc, half, cut>>

CopyFails(n) ==
  /\ Syncing(n, {"copy"}) /\ Visited(n)
  /\ Faults \/ Blocked(n) \/ etc[n].kind = "dir"
  /\ etc' = WithParent(n)
  /\ UNCHANGED <<static, damaged, manifest, pc, created, half, cut>>

\* relink, link_direct_symlink: nothing to do when the link is the right one.
KeepLink(n) ==
  /\ Syncing(n, {"link", "direct"}) /\ Visited(n)
  /\ \/ ~InStore(n) /\ Right(n)
     \/ InStore(n) /\ (Etc[static][n] = "direct" \/ Looped(static, n))
  /\ UNCHANGED <<etc, static, damaged, manifest, pc, created, half, cut>>

\* What is there is removed first ...
Unlink(n) ==
  /\ Syncing(n, {"link", "direct"})
  /\ ~InStore(n) /\ ~Blocked(n) /\ etc[n].kind # "dir" /\ ~Right(n)
  /\ etc' = [WithParent(n) EXCEPT ![n] = Absent]
  /\ half' = n
  /\ UNCHANGED <<static, damaged, manifest, pc, todo, created, cut>>

\* ... and then the link is made.
MakeLink ==
  /\ pc = "sync" /\ half # None
  /\ \/ etc' = [etc EXCEPT ![half] = Wanted(half)]
     \/ Faults /\ UNCHANGED etc
  /\ Visited(half) /\ half' = None
  /\ UNCHANGED <<static, damaged, manifest, pc, created, cut>>

\* A directory does not give way to a link, nor a file to a directory.
LinkRefused(n) ==
  /\ Syncing(n, {"link", "direct"}) /\ Visited(n)
  /\ Blocked(n) \/ (~InStore(n) /\ etc[n].kind = "dir")
  /\ UNCHANGED <<etc, static, damaged, manifest, pc, created, half, cut>>

\* Behind a linked directory the entry of the tree is replaced by a link to itself.
LinkIntoStore(n) ==
  /\ Syncing(n, {"link"}) /\ Visited(n)
  /\ InStore(n) /\ ~Looped(static, n)
  /\ damaged' = damaged \cup {<<static, n>>}
  /\ UNCHANGED <<etc, static, manifest, pc, created, half, cut>>

\* A plausible bug: only names of the present tree are looked at.
StaleProvided == {n \in manifest \ created : Etc[static][n] # "none"}
\* A plausible bug: every copy of the last activation goes, made again or not.
StaleAll == manifest
Stale == manifest \ created

EndSync ==
  /\ pc = "sync" /\ todo = {} /\ pc' = "stale"
  /\ todo' = Stale
  /\ UNCHANGED <<etc, static, damaged, manifest, created, half, cut>>

RemoveStale(n) ==
  /\ pc = "stale" /\ n \in todo /\ Visited(n)
  /\ \/ ~InStore(n) /\ ~Blocked(n) /\ etc[n].kind # "dir"
        /\ etc' = [etc EXCEPT ![n] = Absent] /\ UNCHANGED damaged
     \/ InStore(n) /\ Etc[static][n] # "none"
        /\ damaged' = damaged \cup {<<static, n>>} /\ UNCHANGED etc
     \/ (Faults \/ Blocked(n) \/ etc[n].kind = "dir" \/ (InStore(n) /\ Etc[static][n] = "none"))
        /\ UNCHANGED <<etc, damaged>>
  /\ UNCHANGED <<static, manifest, pc, created, half, cut>>

\* A plausible bug: only the copies that are new are written down.
RememberedNew == created \ manifest
Remembered == created

WriteManifest ==
  /\ pc = "stale" /\ todo = {} /\ pc' = "done"
  /\ manifest' = Remembered
  /\ UNCHANGED <<etc, static, damaged, todo, created, half, cut>>

-----------------------------------------------------------------------------
Abort ==
  /\ Aborts /\ pc \notin {"idle", "done"} /\ pc' = "idle"
  /\ todo' = {} /\ created' = {} /\ half' = None
  /\ cut' = TRUE
  /\ UNCHANGED <<etc, static, damaged, manifest>>

AdminWrite(n) ==
  /\ n \in Admin /\ pc \in {"idle", "done"} /\ pc' = "idle"
  /\ ~InStore(n) /\ ~Blocked(n) /\ ~In(n, {"absent"}) /\ etc[n].kind # "dir"
  /\ etc' = [etc EXCEPT ![n] = Local]
  /\ UNCHANGED <<static, damaged, manifest, todo, created, half, cut>>

\* The first boot: an empty /etc; /etc/static is about to be made.
Init ==
  /\ etc = [n \in Names |-> Absent]
  /\ static \in Systems
  /\ damaged = {} /\ manifest = {}
  /\ pc = "idle" /\ todo = {} /\ created = {} /\ half = None
  /\ cut = FALSE

EntryStep(n) ==
  \/ CleanEntry(n) \/ InstallCopy(n) \/ CopyIntoStore(n) \/ CopyFails(n) \/ KeepLink(n)
  \/ Unlink(n) \/ LinkRefused(n) \/ LinkIntoStore(n) \/ RemoveStale(n)

Next == \/ \E s \in Systems : Start(s)
        \/ \E n \in Names : EntryStep(n) \/ AdminWrite(n)
        \/ EndClean \/ MakeLink \/ EndSync \/ WriteManifest \/ Abort

Spec == Init /\ [][Next]_vars

-----------------------------------------------------------------------------
(* Properties.                                                              *)

\* When an activation has finished, every entry of the system is in place in
\* /etc, whatever earlier activations, complete or cut short, had left there.
Installed ==
  pc = "done" => \A n \in Provided(static) :
    /\ ~InStore(n)
    /\ etc[n] = IF Etc[static][n] = "copy" THEN Copy(static) ELSE Wanted(n)

\* When an activation has finished, nothing is left of what only earlier systems
\* had: their dropped links are cleaned and their dropped copies removed. An earlier
\* activation that was cut short may have left a copy that no list names.
NothingLeft ==
  pc = "done" /\ ~cut => \A n \in Names :
    Etc[static][n] = "none" => etc[n].kind \notin {"copy", "direct", "link"}

\* A copy (sudoers, shadow, doas.conf) that the activated system has again is
\* never missing from /etc, not for a moment and not after a crash.
CopiesStay ==
  [][\A n \in Names : etc[n].kind = "copy" /\ Etc[static'][n] = "copy"
       => etc'[n].kind \in {"copy", "local"}]_vars

\* A link that leads somewhere, and that the activated system has again, is never
\* missing: it leads into the old tree and then, by one rename, into the new one.
\* (Where a managed copy was before, see RemovesOnlyObsolete.)
LinksStay ==
  [][\A n \in Names : etc[n] = Link /\ Resolves(n) /\ Etc[static'][n] = "link"
                      /\ ~Looped(static', n) /\ n \notin manifest
       => etc'[n] \in {Link, Local}]_vars

\* A file somebody put into /etc stays when the system has nothing of that name
\* and no earlier system had a copy there.
LocalFilesSurvive ==
  [][\A n \in Names : etc[n] = Local /\ n \notin manifest /\ Etc[static'][n] = "none"
       => etc'[n] = Local]_vars

\* While activations finish, every managed copy is on the list of /etc/.clean between
\* them, so that a later system which drops it can find it.
CopiesAreListed ==
  pc \in {"idle", "done"} /\ ~cut => \A n \in Names : etc[n].kind = "copy" => n \in manifest

\* What is removed as an obsolete file is nothing the activated system provides.
RemovesOnlyObsolete ==
  [][\A n \in Names : pc = "stale" /\ etc[n] # Absent /\ etc'[n] = Absent
       => n \notin Provided(static)]_vars

\* An activation changes /etc and never a tree in the store, which is read-only by
\* everybody's understanding and mounted writable.
TreesAreKept == damaged = {}
=============================================================================
