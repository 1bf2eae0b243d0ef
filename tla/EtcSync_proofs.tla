----------------------------- MODULE EtcSync_proofs -----------------------------
(***************************************************************************)
(* Proofs about EtcSync, for every set of systems, trees and names:        *)
(*   - its type invariant;                                                 *)
(*   - a link both trees have never goes missing, whatever fails;          *)
(*   - a copy both trees have never goes missing, unless copying fails;    *)
(*   - when activations finish, every copy is on the list;                 *)
(*   - a file of the administrator's own stays, whatever fails;            *)
(*   - an activation that has finished has put every entry in its place    *)
(*     and left nothing of the systems before, if calls do not fail and    *)
(*     every name is provided in one way.                                  *)
(***************************************************************************)
EXTENDS EtcSync, TLAPS

Files == {Absent, Dir, Local, Link} \cup {Copy(s) : s \in Systems} \cup {Direct(s) : s \in Systems}

\* One kind of file never is another.
LEMMA FileKinds ==
  ASSUME NEW x \in Files
  PROVE  /\ x.kind \in {"absent", "dir", "local", "link", "copy", "direct"}
         /\ x.kind = "link" <=> x = Link
         /\ x.kind = "absent" <=> x = Absent
         /\ x.kind = "dir" <=> x = Dir
         /\ x.kind = "local" <=> x = Local
BY DEF Files, Absent, Dir, Local, Link, Copy, Direct, File

LEMMA FileTypes ==
  /\ {Absent, Dir, Local, Link} \subseteq Files
  /\ \A s \in Systems : Copy(s) \in Files /\ Direct(s) \in Files
  /\ \A s \in Systems : Copy(s).kind = "copy" /\ Direct(s).kind = "direct"
  /\ Absent.kind = "absent" /\ Dir.kind = "dir" /\ Local.kind = "local" /\ Link.kind = "link"
BY DEF Files, Absent, Dir, Local, Link, Copy, Direct, File

\* What an activation puts at a name is a file, and so is what it leaves.
LEMMA WantedType ==
  ASSUME TypeOK, NEW n \in Names
  PROVE  Wanted(n) \in Files /\ Wanted(n).kind \in {"link", "direct"}
BY FileTypes DEF TypeOK, Wanted

LEMMA WithParentType ==
  ASSUME TypeOK, NEW n \in Names
  PROVE  /\ WithParent(n) \in [Names -> Files]
         /\ \A m \in Names : WithParent(n)[m] # etc[m] =>
              etc[m] = Absent /\ WithParent(n)[m] = Dir /\ m = Parent[n]
<1>1. etc \in [Names -> Files] BY DEF TypeOK, Files
<1>2. CASE ~In(n, {"absent"}) BY <1>1, <1>2 DEF WithParent
<1>3. CASE In(n, {"absent"})
  <2>1. Parent[n] \in Names BY <1>3, TreeAssumption DEF In
  <2>2. etc[Parent[n]] = Absent BY <1>1, <1>3, <2>1, FileKinds DEF In
  <2>3. WithParent(n) = [etc EXCEPT ![Parent[n]] = Dir] BY <1>3 DEF WithParent
  <2>. QED BY <1>1, <2>1, <2>2, <2>3, FileTypes
<1>. QED BY <1>2, <1>3

\* TypeOK in the words of this module.
LEMMA TypeFiles ==
  TypeOK <=> /\ etc \in [Names -> Files]
             /\ static \in Systems
             /\ damaged \subseteq Systems \X Names
             /\ manifest \subseteq Names /\ created \subseteq Names /\ todo \subseteq Names
             /\ pc \in {"idle", "clean", "sync", "stale", "done"}
             /\ half \in Names \cup {None}
             /\ cut \in BOOLEAN
BY DEF TypeOK, Files

LEMMA TypeStep == TypeOK /\ [Next]_vars => TypeOK'
<1>. SUFFICES ASSUME TypeOK, [Next]_vars PROVE TypeOK'
  OBVIOUS
<1>. USE DEF Visited
<1>0. /\ etc \in [Names -> Files]
      /\ static \in Systems
      /\ damaged \subseteq Systems \X Names
      /\ manifest \subseteq Names /\ created \subseteq Names /\ todo \subseteq Names
      /\ pc \in {"idle", "clean", "sync", "stale", "done"}
      /\ half \in Names \cup {None}
      /\ cut \in BOOLEAN
  BY TypeFiles
<1>1. ASSUME NEW s \in Systems, Start(s) PROVE TypeOK'
  BY <1>0, <1>1 DEF Start, ManagedLinks, TypeOK, Files
<1>2. ASSUME NEW n \in Names, EntryStep(n) PROVE TypeOK'
  <2>1. CASE CleanEntry(n)
    BY <1>0, <2>1, FileTypes DEF CleanEntry, TypeOK, Files
  <2>2. CASE InstallCopy(n)
    <3>1. etc' \in [Names -> Files] BY <1>0, <2>2, FileTypes, WithParentType DEF InstallCopy
    <3>. QED BY <1>0, <2>2, <3>1 DEF InstallCopy, TypeOK, Files
  <2>3. CASE CopyIntoStore(n) BY <1>0, <2>3 DEF CopyIntoStore, TypeOK, Files
  <2>4. CASE CopyFails(n)
    <3>1. etc' \in [Names -> Files] BY <1>0, <2>4, WithParentType DEF CopyFails
    <3>. QED BY <1>0, <2>4, <3>1 DEF CopyFails, TypeOK, Files
  <2>5. CASE KeepLink(n) BY <1>0, <2>5 DEF KeepLink, TypeOK, Files
  <2>6. CASE Unlink(n)
    <3>1. etc' \in [Names -> Files] BY <1>0, <2>6, FileTypes, WithParentType DEF Unlink
    <3>. QED BY <1>0, <2>6, <3>1 DEF Unlink, TypeOK, Files
  <2>7. CASE LinkRefused(n) BY <1>0, <2>7 DEF LinkRefused, TypeOK, Files
  <2>8. CASE LinkIntoStore(n) BY <1>0, <2>8 DEF LinkIntoStore, TypeOK, Files
  <2>9. CASE RemoveStale(n)
    <3>1. etc' \in [Names -> Files] BY <1>0, <2>9, FileTypes DEF RemoveStale
    <3>2. damaged' \subseteq Systems \X Names BY <1>0, <2>9 DEF RemoveStale
    <3>. QED BY <1>0, <2>9, <3>1, <3>2 DEF RemoveStale, TypeOK, Files
  <2>. QED BY <1>2, <2>1, <2>2, <2>3, <2>4, <2>5, <2>6, <2>7, <2>8, <2>9 DEF EntryStep
<1>3. ASSUME NEW n \in Names, AdminWrite(n) PROVE TypeOK'
  BY <1>0, <1>3, FileTypes DEF AdminWrite, TypeOK, Files
<1>4. CASE EndClean BY <1>0, <1>4 DEF EndClean, Provided, TypeOK, Files
<1>5. CASE MakeLink
  <2>1. half \in Names BY <1>0, <1>5 DEF MakeLink
  <2>2. etc' \in [Names -> Files] BY <1>0, <1>5, <2>1, WantedType DEF MakeLink
  <2>. QED BY <1>0, <1>5, <2>2 DEF MakeLink, TypeOK, Files
<1>6. CASE EndSync BY <1>0, <1>6 DEF EndSync, Stale, TypeOK, Files
<1>7. CASE WriteManifest BY <1>0, <1>7 DEF WriteManifest, Remembered, TypeOK, Files
<1>8. CASE Abort BY <1>0, <1>8 DEF Abort, TypeOK, Files
<1>9. CASE UNCHANGED vars BY <1>0, <1>9 DEF vars, TypeOK, Files
<1>. QED BY <1>1, <1>2, <1>3, <1>4, <1>5, <1>6, <1>7, <1>8, <1>9 DEF Next

\* Every value stays in its type, for every set of systems and trees.
THEOREM EtcTypeCorrect == Spec => []TypeOK
<1>1. Init => TypeOK
  BY FileTypes DEF Init, TypeOK
<1>. QED BY <1>1, TypeStep, PTL DEF Spec

-----------------------------------------------------------------------------
(* What holds whatever fails.                                               *)

\* Only a real directory has anything in it: behind a link lies the store.
Nested == \A n \in Names : Parent[n] # None /\ etc[n] # Absent => etc[Parent[n]] = Dir

\* The link that is being made: its place is free.
HalfMade == half # None => /\ pc = "sync" /\ half \in todo /\ etc[half] = Absent
                           /\ Etc[static][half] \in {"link", "direct"}
                           /\ Parent[half] # None => etc[Parent[half]] = Dir

\* What the two removing loops still have to visit.
Doomed == /\ pc = "clean" => \A n \in todo : etc[n] = Link
          /\ pc = "stale" => todo \subseteq manifest

Shape == TypeOK /\ Nested /\ HalfMade /\ Doomed

\* A file put where the code may put one keeps /etc a tree.
LEMMA NestedPlace ==
  ASSUME TypeOK, Nested, NEW n \in Names, NEW x \in Files,
         ~InStore(n), ~Blocked(n), etc[n].kind # "dir",
         etc' = [WithParent(n) EXCEPT ![n] = x]
  PROVE  Nested' /\ (Parent[n] # None => etc'[Parent[n]] = Dir)
<1>1. etc \in [Names -> Files] /\ Parent \in [Names -> Names \cup {None}] /\ None \notin Names
  BY TypeFiles, TreeAssumption
<1>2. Parent[n] # None => /\ Parent[n] \in Names /\ Parent[n] # n /\ Parent[Parent[n]] = None
                          /\ WithParent(n)[Parent[n]] = Dir
  <2>1. SUFFICES ASSUME Parent[n] # None PROVE /\ Parent[n] \in Names /\ Parent[n] # n
                          /\ Parent[Parent[n]] = None /\ WithParent(n)[Parent[n]] = Dir
    OBVIOUS
  <2>2. Parent[n] \in Names /\ Parent[n] # n /\ Parent[Parent[n]] = None BY <1>1, <2>1, TreeAssumption
  <2>3. etc[Parent[n]].kind \in {"absent", "dir"}
    BY <1>1, <2>1, <2>2, FileKinds DEF InStore, Blocked, In
  <2>4. CASE etc[Parent[n]].kind = "absent"
    BY <1>1, <2>1, <2>2, <2>4 DEF WithParent, In
  <2>5. CASE etc[Parent[n]].kind = "dir"
    <3>1. etc[Parent[n]] = Dir BY <1>1, <2>2, <2>5, FileKinds
    <3>. QED BY <1>1, <2>2, <2>5, <3>1, WithParentType, FileTypes
  <2>. QED BY <2>2, <2>3, <2>4, <2>5
<1>3. WithParent(n) \in [Names -> Files] /\
      \A m \in Names : WithParent(n)[m] # etc[m] => etc[m] = Absent /\ WithParent(n)[m] = Dir /\ m = Parent[n]
  BY WithParentType
<1>4. \A m \in Names : etc'[m] = IF m = n THEN x ELSE WithParent(n)[m]
  BY <1>3
<1>5. \A m \in Names : Parent[m] = n => etc[m] = Absent /\ m # Parent[n] /\ m # n
  <2>1. \A m \in Names : Parent[m] = n => etc[m] = Absent BY <1>1, FileTypes DEF Nested
  <2>. QED BY <1>1, <1>2, <2>1, TreeAssumption
<1>6. ASSUME NEW m \in Names, Parent[m] # None, etc'[m] # Absent PROVE etc'[Parent[m]] = Dir
  <2>0. Parent[m] \in Names BY <1>1, <1>6
  <2>1. CASE m = n BY <1>2, <1>4, <2>1, <1>6
  <2>2. CASE m # n
    <3>1. m # Parent[n] BY <1>1, <1>2, <1>6
    <3>2. etc[m] # Absent BY <1>3, <1>4, <1>6, <2>2, <3>1
    <3>3. etc[Parent[m]] = Dir BY <1>6, <3>2 DEF Nested
    <3>4. Parent[m] # n BY <1>5, <3>2
    <3>. QED BY <1>3, <1>4, <2>0, <3>3, <3>4, FileTypes
  <2>. QED BY <2>1, <2>2
<1>. QED BY <1>2, <1>4, <1>6 DEF Nested

\* So does taking away what is no directory.
LEMMA NestedRemove ==
  ASSUME TypeOK, Nested, NEW n \in Names, etc[n].kind # "dir", etc' = [etc EXCEPT ![n] = Absent]
  PROVE  Nested'
BY TypeFiles, FileTypes, TreeAssumption DEF Nested

LEMMA ShapeStep == Shape /\ [Next]_vars => Shape'
<1>. SUFFICES ASSUME Shape, [Next]_vars PROVE Nested' /\ HalfMade' /\ Doomed'
  BY TypeStep DEF Shape
<1>. USE DEF Visited
<1>0. /\ TypeOK /\ Nested /\ HalfMade /\ Doomed
      /\ etc \in [Names -> Files] /\ None \notin Names
      /\ half \in Names \cup {None} /\ todo \subseteq Names
  BY TypeFiles, TreeAssumption DEF Shape
<1>1. ASSUME NEW s \in Systems, Start(s) PROVE Nested' /\ HalfMade' /\ Doomed'
  BY <1>0, <1>1 DEF Start, ManagedLinks, Nested, HalfMade, Doomed
<1>2. ASSUME NEW n \in Names, EntryStep(n) PROVE Nested' /\ HalfMade' /\ Doomed'
  <2>1. CASE CleanEntry(n)
    <3>1. etc[n] = Link BY <1>0, <2>1 DEF CleanEntry, Doomed
    <3>2. Nested'
      <4>1. CASE UNCHANGED etc BY <1>0, <4>1 DEF Nested
      <4>2. CASE etc' = [etc EXCEPT ![n] = Absent]
        BY <1>0, <3>1, <4>2, NestedRemove, FileTypes
      <4>. QED BY <2>1, <4>1, <4>2 DEF CleanEntry
    <3>3. HalfMade' BY <1>0, <2>1 DEF CleanEntry, HalfMade
    <3>4. Doomed' BY <1>0, <2>1 DEF CleanEntry, Doomed
    <3>. QED BY <3>2, <3>3, <3>4
  <2>2. CASE InstallCopy(n)
    <3>1. Nested' BY <1>0, <2>2, NestedPlace, FileTypes, TypeFiles DEF InstallCopy
    <3>2. HalfMade' BY <2>2 DEF InstallCopy, HalfMade, Syncing
    <3>3. Doomed' BY <2>2 DEF InstallCopy, Doomed, Syncing
    <3>. QED BY <3>1, <3>2, <3>3
  <2>3. CASE CopyIntoStore(n)
    BY <1>0, <2>3 DEF CopyIntoStore, Nested, HalfMade, Doomed, Syncing
  <2>4. CASE CopyFails(n)
    <3>1. Nested'
      <4>1. Parent \in [Names -> Names \cup {None}] BY TreeAssumption
      <4>2. \A m \in Names : etc'[m] # etc[m] => etc[m] = Absent /\ etc'[m] = Dir /\ m = Parent[n]
        BY <2>4, <1>0, WithParentType DEF CopyFails
      <4>3. \A m \in Names : Parent[m] # None => m # Parent[n] BY <4>1, <1>0, TreeAssumption
      <4>4. ASSUME NEW m \in Names, Parent[m] # None, etc'[m] # Absent PROVE etc'[Parent[m]] = Dir
        <5>1. etc'[m] = etc[m] BY <4>2, <4>3, <4>4
        <5>2. etc[Parent[m]] = Dir /\ Parent[m] \in Names BY <1>0, <4>1, <4>4, <5>1 DEF Nested
        <5>. QED BY <4>2, <5>2
      <4>. QED BY <4>4 DEF Nested
    <3>2. HalfMade' BY <2>4 DEF CopyFails, HalfMade, Syncing
    <3>3. Doomed' BY <2>4 DEF CopyFails, Doomed, Syncing
    <3>. QED BY <3>1, <3>2, <3>3
  <2>5. CASE KeepLink(n)
    BY <1>0, <2>5 DEF KeepLink, Nested, HalfMade, Doomed, Syncing
  <2>6. CASE Unlink(n)
    <3>1. Nested' /\ (Parent[n] # None => etc'[Parent[n]] = Dir)
      BY <1>0, <2>6, NestedPlace, FileTypes DEF Unlink
    <3>2. etc'[n] = Absent BY <1>0, <2>6, WithParentType DEF Unlink
    <3>3. HalfMade' BY <2>6, <3>1, <3>2 DEF Unlink, HalfMade, Syncing
    <3>4. Doomed' BY <2>6 DEF Unlink, Doomed, Syncing
    <3>. QED BY <3>1, <3>3, <3>4
  <2>7. CASE LinkRefused(n)
    BY <1>0, <2>7 DEF LinkRefused, Nested, HalfMade, Doomed, Syncing
  <2>8. CASE LinkIntoStore(n)
    BY <1>0, <2>8 DEF LinkIntoStore, Nested, HalfMade, Doomed, Syncing
  <2>9. CASE RemoveStale(n)
    <3>1. Nested'
      <4>1. CASE etc[n].kind # "dir" /\ etc' = [etc EXCEPT ![n] = Absent]
        BY <1>0, <4>1, NestedRemove
      <4>2. CASE UNCHANGED etc BY <1>0, <4>2 DEF Nested
      <4>. QED BY <2>9, <4>1, <4>2 DEF RemoveStale
    <3>2. HalfMade' BY <1>0, <2>9 DEF RemoveStale, HalfMade
    <3>3. Doomed' BY <1>0, <2>9 DEF RemoveStale, Doomed
    <3>. QED BY <3>1, <3>2, <3>3
  <2>. QED BY <1>2, <2>1, <2>2, <2>3, <2>4, <2>5, <2>6, <2>7, <2>8, <2>9 DEF EntryStep
<1>3. ASSUME NEW n \in Names, AdminWrite(n) PROVE Nested' /\ HalfMade' /\ Doomed'
  <2>1. WithParent(n) = etc BY <1>3 DEF AdminWrite, WithParent
  <2>2. Nested' BY <1>0, <1>3, <2>1, NestedPlace, FileTypes DEF AdminWrite
  <2>3. HalfMade' BY <1>0, <1>3 DEF AdminWrite, HalfMade
  <2>4. Doomed' BY <1>3 DEF AdminWrite, Doomed
  <2>. QED BY <2>2, <2>3, <2>4
<1>4. CASE EndClean BY <1>0, <1>4 DEF EndClean, Nested, HalfMade, Doomed
<1>5. CASE MakeLink
  <2>1. half \in Names BY <1>0, <1>5 DEF MakeLink
  <2>2. etc[half] = Absent /\ (Parent[half] # None => etc[Parent[half]] = Dir)
    BY <1>0, <1>5 DEF MakeLink, HalfMade
  <2>3. Nested'
    <3>1. CASE UNCHANGED etc BY <1>0, <3>1 DEF Nested
    <3>2. CASE etc' = [etc EXCEPT ![half] = Wanted(half)]
      <4>1. WithParent(half) = etc BY <2>2, FileTypes DEF WithParent, In
      <4>2. ~InStore(half) /\ ~Blocked(half) BY <2>2, FileTypes DEF InStore, Blocked, In
      <4>3. Wanted(half) \in Files BY <1>0, <2>1, WantedType
      <4>. QED BY <1>0, <2>1, <2>2, <3>2, <4>1, <4>2, <4>3, NestedPlace, FileTypes
    <3>. QED BY <1>5, <3>1, <3>2 DEF MakeLink
  <2>4. HalfMade' BY <1>5 DEF MakeLink, HalfMade
  <2>5. Doomed' BY <1>5 DEF MakeLink, Doomed
  <2>. QED BY <2>3, <2>4, <2>5
<1>6. CASE EndSync
  <2>1. todo' \subseteq manifest' BY <1>6 DEF EndSync, Stale
  <2>2. half = None BY <1>0, <1>6, TypeFiles DEF EndSync, HalfMade
  <2>. QED BY <1>0, <1>6, <2>1, <2>2 DEF EndSync, Nested, HalfMade, Doomed
<1>7. CASE WriteManifest BY <1>0, <1>7 DEF WriteManifest, Nested, HalfMade, Doomed
<1>8. CASE Abort BY <1>0, <1>8 DEF Abort, Nested, HalfMade, Doomed
<1>9. CASE UNCHANGED vars BY <1>0, <1>9 DEF vars, Nested, HalfMade, Doomed
<1>. QED BY <1>1, <1>2, <1>3, <1>4, <1>5, <1>6, <1>7, <1>8, <1>9 DEF Next

THEOREM ShapeHolds == Spec => []Shape
<1>1. ASSUME Init PROVE Shape
  <2>1. TypeOK BY <1>1, FileTypes DEF Init, TypeOK, Absent, File
  <2>2. Nested
    <3>. SUFFICES ASSUME NEW n \in Names, Parent[n] # None, etc[n] # Absent PROVE FALSE
      BY DEF Nested
    <3>. QED BY <1>1 DEF Init
  <2>3. HalfMade /\ Doomed BY <1>1 DEF Init, HalfMade, Doomed
  <2>. QED BY <2>1, <2>2, <2>3 DEF Shape
<1>. QED BY <1>1, ShapeStep, PTL DEF Spec

\* A link that leads somewhere and that the activated system has again is never
\* missing, whatever fails and wherever an activation ends.
THEOREM LinksNeverMissing == Spec => LinksStay
<1>1. Shape /\ Shape' /\ [Next]_vars =>
        [\A n \in Names : etc[n] = Link /\ Resolves(n) /\ Etc[static'][n] = "link"
                          /\ ~Looped(static', n) /\ n \notin manifest
           => etc'[n] \in {Link, Local}]_vars
  <2>. SUFFICES ASSUME Shape, Shape', Next, NEW n \in Names,
                       etc[n] = Link, Resolves(n), Etc[static'][n] = "link", n \notin manifest
                PROVE  etc'[n] \in {Link, Local}
    OBVIOUS
  <2>0. etc \in [Names -> Files] /\ HalfMade /\ Doomed /\ TypeOK BY TypeFiles DEF Shape
  <2>1. ASSUME NEW s \in Systems, Start(s) PROVE etc'[n] = Link BY <2>1 DEF Start
  <2>2. ASSUME NEW m \in Names, EntryStep(m) PROVE etc'[n] = Link
    <3>1. CASE CleanEntry(m) BY <2>0, <3>1 DEF CleanEntry
    <3>2. CASE InstallCopy(m)
      <4>1. n # m BY <3>2 DEF InstallCopy, Syncing
      <4>. QED BY <2>0, <3>2, <4>1, WithParentType, FileTypes DEF InstallCopy
    <3>3. CASE CopyIntoStore(m) \/ KeepLink(m) \/ LinkRefused(m) \/ LinkIntoStore(m)
      BY <3>3 DEF CopyIntoStore, KeepLink, LinkRefused, LinkIntoStore
    <3>4. CASE CopyFails(m) BY <2>0, <3>4, WithParentType, FileTypes DEF CopyFails
    <3>5. CASE Unlink(m)
      <4>1. n # m BY <3>5 DEF Unlink, Syncing, Right, Wanted
      <4>. QED BY <2>0, <3>5, <4>1, WithParentType, FileTypes DEF Unlink
    <3>6. CASE RemoveStale(m)
      <4>1. n # m BY <2>0, <3>6 DEF RemoveStale, Doomed
      <4>. QED BY <2>0, <3>6, <4>1 DEF RemoveStale
    <3>. QED BY <2>2, <3>1, <3>2, <3>3, <3>4, <3>5, <3>6 DEF EntryStep
  <2>3. ASSUME NEW m \in Names, AdminWrite(m) PROVE etc'[n] \in {Link, Local}
    BY <2>0, <2>3 DEF AdminWrite
  <2>4. CASE EndClean \/ EndSync \/ WriteManifest \/ Abort
    BY <2>4 DEF EndClean, EndSync, WriteManifest, Abort
  <2>5. CASE MakeLink
    <3>1. n # half BY <2>0, <2>5, FileTypes DEF MakeLink, HalfMade
    <3>2. half \in Names BY <2>0, <2>5 DEF MakeLink, TypeOK
    <3>. QED BY <2>0, <2>5, <3>1, <3>2 DEF MakeLink
  <2>. QED BY <2>1, <2>2, <2>3, <2>4, <2>5 DEF Next
<1>. QED BY <1>1, ShapeHolds, PTL DEF Spec, LinksStay

-----------------------------------------------------------------------------
(* Copies, when copying does not fail.                                      *)

\* A copy the system has again is made again before anything is removed.
CopiesMade ==
  /\ pc = "sync" => \A n \in Names :
       Etc[static][n] = "copy" /\ etc[n].kind = "copy" /\ n \notin todo => n \in created
  /\ pc = "stale" => \A n \in Names :
       Etc[static][n] = "copy" /\ etc[n].kind = "copy" => n \notin todo

LEMMA CopiesMadeStep == ~Faults /\ Shape /\ CopiesMade /\ [Next]_vars => CopiesMade'
<1>. SUFFICES ASSUME ~Faults, Shape, CopiesMade, [Next]_vars PROVE CopiesMade'
  OBVIOUS
<1>. USE DEF Visited
<1>0. TypeOK /\ Nested /\ HalfMade /\ Doomed /\ etc \in [Names -> Files]
      /\ todo \subseteq Names /\ static \in Systems
  BY TypeFiles DEF Shape
<1>1. ASSUME NEW s \in Systems, Start(s) PROVE CopiesMade' BY <1>1 DEF Start, CopiesMade
<1>2. ASSUME NEW n \in Names, EntryStep(n) PROVE CopiesMade'
  <2>1. CASE CleanEntry(n) BY <2>1 DEF CleanEntry, CopiesMade
  <2>2. CASE InstallCopy(n)
    <3>1. \A m \in Names : m # n /\ etc'[m].kind = "copy" => etc[m].kind = "copy"
      BY <1>0, <2>2, WithParentType, FileTypes DEF InstallCopy
    <3>. QED BY <2>2, <3>1 DEF InstallCopy, Syncing, CopiesMade
  <2>3. CASE CopyIntoStore(n) BY <2>3 DEF CopyIntoStore, Syncing, CopiesMade
  <2>4. CASE CopyFails(n)
    <3>1. \A m \in Names : etc'[m].kind = "copy" => etc[m].kind = "copy"
      BY <1>0, <2>4, WithParentType, FileTypes DEF CopyFails
    <3>2. etc[n].kind # "copy"
      <4>1. CASE etc[n].kind = "dir" BY <4>1
      <4>2. CASE Blocked(n)
        <5>1. etc[Parent[n]] # Dir /\ Parent[n] # None BY <4>2, FileTypes DEF Blocked, In
        <5>. QED BY <1>0, <5>1, FileTypes DEF Nested
      <4>. QED BY <2>4, <4>1, <4>2 DEF CopyFails
    <3>. QED BY <2>4, <3>1, <3>2 DEF CopyFails, Syncing, CopiesMade
  <2>5. CASE KeepLink(n) BY <2>5 DEF KeepLink, Syncing, CopiesMade
  <2>6. CASE Unlink(n)
    <3>1. \A m \in Names : etc'[m].kind = "copy" => etc[m].kind = "copy"
      BY <1>0, <2>6, WithParentType, FileTypes DEF Unlink
    <3>. QED BY <2>6, <3>1 DEF Unlink, Syncing, CopiesMade
  <2>7. CASE LinkRefused(n) BY <2>7 DEF LinkRefused, Syncing, CopiesMade
  <2>8. CASE LinkIntoStore(n) BY <2>8 DEF LinkIntoStore, Syncing, CopiesMade
  <2>9. CASE RemoveStale(n)
    <3>1. \A m \in Names : etc'[m].kind = "copy" => etc[m].kind = "copy"
      BY <1>0, <2>9, FileTypes DEF RemoveStale
    <3>. QED BY <2>9, <3>1 DEF RemoveStale, CopiesMade
  <2>. QED BY <1>2, <2>1, <2>2, <2>3, <2>4, <2>5, <2>6, <2>7, <2>8, <2>9 DEF EntryStep
<1>3. ASSUME NEW n \in Names, AdminWrite(n) PROVE CopiesMade' BY <1>3 DEF AdminWrite, CopiesMade
<1>4. CASE EndClean BY <1>4 DEF EndClean, Provided, CopiesMade
<1>5. CASE MakeLink
  <2>1. Etc[static][half] # "copy" BY <1>0, <1>5 DEF MakeLink, HalfMade
  <2>2. \A m \in Names : m # half => etc'[m] = etc[m] BY <1>0, <1>5 DEF MakeLink
  <2>. QED BY <1>5, <2>1, <2>2 DEF MakeLink, CopiesMade
<1>6. CASE EndSync BY <1>6 DEF EndSync, Stale, CopiesMade
<1>7. CASE WriteManifest BY <1>7 DEF WriteManifest, CopiesMade
<1>8. CASE Abort BY <1>8 DEF Abort, CopiesMade
<1>9. CASE UNCHANGED vars BY <1>9 DEF vars, CopiesMade
<1>. QED BY <1>1, <1>2, <1>3, <1>4, <1>5, <1>6, <1>7, <1>8, <1>9 DEF Next

\* While copying does not fail, a copy the activated system has again is never
\* missing from /etc, wherever an activation ends.
THEOREM CopiesNeverMissing == ASSUME ~Faults PROVE Spec => CopiesStay
<1>1. Init => CopiesMade BY DEF Init, CopiesMade
<1>2. Shape /\ CopiesMade /\ [Next]_vars => CopiesMade' BY CopiesMadeStep
<1>3. Shape /\ CopiesMade /\ [Next]_vars =>
        [\A n \in Names : etc[n].kind = "copy" /\ Etc[static'][n] = "copy"
           => etc'[n].kind \in {"copy", "local"}]_vars
  <2>. SUFFICES ASSUME Shape, CopiesMade, Next, NEW n \in Names,
                       etc[n].kind = "copy", Etc[static'][n] = "copy"
                PROVE  etc'[n].kind \in {"copy", "local"}
    OBVIOUS
  <2>0. etc \in [Names -> Files] /\ HalfMade /\ Doomed /\ TypeOK BY TypeFiles DEF Shape
  <2>1. ASSUME NEW s \in Systems, Start(s) PROVE etc'[n].kind = "copy" BY <2>1 DEF Start
  <2>2. ASSUME NEW m \in Names, EntryStep(m) PROVE etc'[n].kind = "copy"
    <3>1. CASE CleanEntry(m)
      <4>1. n # m BY <2>0, <3>1, FileTypes DEF CleanEntry, Doomed
      <4>. QED BY <2>0, <3>1, <4>1 DEF CleanEntry
    <3>2. CASE InstallCopy(m)
      <4>1. static \in Systems BY <2>0 DEF TypeOK
      <4>. QED BY <2>0, <3>2, <4>1, WithParentType, FileTypes DEF InstallCopy
    <3>3. CASE CopyIntoStore(m) \/ KeepLink(m) \/ LinkRefused(m) \/ LinkIntoStore(m)
      BY <3>3 DEF CopyIntoStore, KeepLink, LinkRefused, LinkIntoStore
    <3>4. CASE CopyFails(m) BY <2>0, <3>4, WithParentType, FileTypes DEF CopyFails
    <3>5. CASE Unlink(m)
      <4>1. n # m BY <3>5 DEF Unlink, Syncing
      <4>. QED BY <2>0, <3>5, <4>1, WithParentType, FileTypes DEF Unlink
    <3>6. CASE RemoveStale(m)
      <4>1. n # m BY <3>6 DEF RemoveStale, CopiesMade
      <4>. QED BY <2>0, <3>6, <4>1 DEF RemoveStale
    <3>. QED BY <2>2, <3>1, <3>2, <3>3, <3>4, <3>5, <3>6 DEF EntryStep
  <2>3. ASSUME NEW m \in Names, AdminWrite(m) PROVE etc'[n].kind \in {"copy", "local"}
    BY <2>0, <2>3, FileTypes DEF AdminWrite
  <2>4. CASE EndClean \/ EndSync \/ WriteManifest \/ Abort
    BY <2>4 DEF EndClean, EndSync, WriteManifest, Abort
  <2>5. CASE MakeLink
    <3>1. n # half BY <2>0, <2>5, FileTypes DEF MakeLink, HalfMade
    <3>2. half \in Names BY <2>0, <2>5 DEF MakeLink, TypeOK
    <3>. QED BY <2>0, <2>5, <3>1, <3>2 DEF MakeLink
  <2>. QED BY <2>1, <2>2, <2>3, <2>4, <2>5 DEF Next
<1>. QED BY <1>1, <1>2, <1>3, ShapeHolds, PTL DEF Spec, CopiesStay

\* Where each copy is remembered while the list is being made anew.
CopiesKnown == ~cut =>
  /\ pc \in {"idle", "clean", "done"} => \A n \in Names : etc[n].kind = "copy" => n \in manifest
  /\ pc = "sync" => \A n \in Names : etc[n].kind = "copy" => n \in manifest \cup created
  /\ pc = "stale" => \A n \in Names : etc[n].kind = "copy" => n \in todo \cup created

LEMMA CopiesKnownStep == ~Faults /\ Shape /\ CopiesKnown /\ [Next]_vars => CopiesKnown'
<1>. SUFFICES ASSUME ~Faults, Shape, CopiesKnown, [Next]_vars PROVE CopiesKnown'
  OBVIOUS
<1>. USE DEF Visited
<1>0. TypeOK /\ Nested /\ HalfMade /\ Doomed /\ etc \in [Names -> Files]
      /\ todo \subseteq Names /\ static \in Systems /\ half \in Names \cup {None}
  BY TypeFiles DEF Shape
<1>1. ASSUME NEW s \in Systems, Start(s) PROVE CopiesKnown' BY <1>1 DEF Start, CopiesKnown
<1>2. ASSUME NEW n \in Names, EntryStep(n) PROVE CopiesKnown'
  <2>1. CASE CleanEntry(n)
    <3>1. \A m \in Names : etc'[m].kind = "copy" => etc[m].kind = "copy"
      BY <1>0, <2>1, FileTypes DEF CleanEntry
    <3>. QED BY <2>1, <3>1 DEF CleanEntry, CopiesKnown
  <2>2. CASE InstallCopy(n)
    <3>1. \A m \in Names : m # n /\ etc'[m].kind = "copy" => etc[m].kind = "copy"
      BY <1>0, <2>2, WithParentType, FileTypes DEF InstallCopy
    <3>. QED BY <2>2, <3>1 DEF InstallCopy, Syncing, CopiesKnown
  <2>3. CASE CopyIntoStore(n) BY <2>3 DEF CopyIntoStore, Syncing, CopiesKnown
  <2>4. CASE CopyFails(n)
    <3>1. \A m \in Names : etc'[m].kind = "copy" => etc[m].kind = "copy"
      BY <1>0, <2>4, WithParentType, FileTypes DEF CopyFails
    <3>. QED BY <2>4, <3>1 DEF CopyFails, Syncing, CopiesKnown
  <2>5. CASE KeepLink(n) BY <2>5 DEF KeepLink, Syncing, CopiesKnown
  <2>6. CASE Unlink(n)
    <3>1. \A m \in Names : etc'[m].kind = "copy" => etc[m].kind = "copy"
      BY <1>0, <2>6, WithParentType, FileTypes DEF Unlink
    <3>. QED BY <2>6, <3>1 DEF Unlink, Syncing, CopiesKnown
  <2>7. CASE LinkRefused(n) BY <2>7 DEF LinkRefused, Syncing, CopiesKnown
  <2>8. CASE LinkIntoStore(n) BY <2>8 DEF LinkIntoStore, Syncing, CopiesKnown
  <2>9. CASE RemoveStale(n)
    <3>1. \A m \in Names : etc'[m].kind = "copy" => etc[m].kind = "copy"
      BY <1>0, <2>9, FileTypes DEF RemoveStale
    <3>2. etc'[n].kind # "copy"
      <4>1. CASE etc' = [etc EXCEPT ![n] = Absent] BY <1>0, <4>1, FileTypes
      <4>2. CASE UNCHANGED etc /\ (etc[n].kind = "dir" \/ InStore(n) \/ Blocked(n))
        <5>1. CASE etc[n].kind = "dir" BY <4>2, <5>1
        <5>2. CASE InStore(n) \/ Blocked(n)
          <6>1. etc[Parent[n]] # Dir /\ Parent[n] # None
            BY <5>2, FileTypes DEF InStore, Blocked, In
          <6>. QED BY <1>0, <4>2, <6>1, FileTypes DEF Nested
        <5>. QED BY <4>2, <5>1, <5>2
      <4>. QED BY <2>9, <4>1, <4>2 DEF RemoveStale
    <3>. QED BY <2>9, <3>1, <3>2 DEF RemoveStale, CopiesKnown
  <2>. QED BY <1>2, <2>1, <2>2, <2>3, <2>4, <2>5, <2>6, <2>7, <2>8, <2>9 DEF EntryStep
<1>3. ASSUME NEW n \in Names, AdminWrite(n) PROVE CopiesKnown'
  <2>1. \A m \in Names : etc'[m].kind = "copy" => etc[m].kind = "copy"
    BY <1>0, <1>3, FileTypes DEF AdminWrite
  <2>. QED BY <1>3, <2>1 DEF AdminWrite, CopiesKnown
<1>4. CASE EndClean BY <1>4 DEF EndClean, CopiesKnown
<1>5. CASE MakeLink
  <2>1. half \in Names BY <1>0, <1>5 DEF MakeLink
  <2>2. \A m \in Names : etc'[m].kind = "copy" => etc[m].kind = "copy"
    BY <1>0, <1>5, <2>1, WantedType DEF MakeLink
  <2>. QED BY <1>5, <2>2 DEF MakeLink, CopiesKnown
<1>6. CASE EndSync BY <1>6 DEF EndSync, Stale, CopiesKnown
<1>7. CASE WriteManifest BY <1>7 DEF WriteManifest, Remembered, CopiesKnown
<1>8. CASE Abort BY <1>8 DEF Abort, CopiesKnown
<1>9. CASE UNCHANGED vars BY <1>9 DEF vars, CopiesKnown
<1>. QED BY <1>1, <1>2, <1>3, <1>4, <1>5, <1>6, <1>7, <1>8, <1>9 DEF Next

\* While activations finish and copying does not fail, every managed copy is on the
\* list of /etc/.clean between activations.
THEOREM CopiesListed == ASSUME ~Faults PROVE Spec => []CopiesAreListed
<1>1. Init => CopiesKnown BY FileTypes DEF Init, CopiesKnown
<1>2. Shape /\ CopiesKnown /\ [Next]_vars => CopiesKnown' BY CopiesKnownStep
<1>3. CopiesKnown => CopiesAreListed BY DEF CopiesKnown, CopiesAreListed
<1>. QED BY <1>1, <1>2, <1>3, ShapeHolds, PTL DEF Spec
\* A file somebody put into /etc is never touched when the system has nothing of that
\* name and no list names it, whatever fails and wherever an activation ends.
THEOREM LocalFilesStay == Spec => LocalFilesSurvive
<1>1. Shape /\ [Next]_vars =>
        [\A n \in Names : etc[n] = Local /\ n \notin manifest /\ Etc[static'][n] = "none"
           => etc'[n] = Local]_vars
  <2>. SUFFICES ASSUME Shape, Next, NEW n \in Names,
                       etc[n] = Local, n \notin manifest, Etc[static'][n] = "none"
                PROVE  etc'[n] = Local
    OBVIOUS
  <2>0. /\ etc \in [Names -> Files] /\ HalfMade /\ Doomed /\ TypeOK
        /\ Local # Link /\ Local # Absent
    BY TypeFiles, FileTypes DEF Shape, Local, Link, Absent, File
  <2>1. ASSUME NEW m \in Names, EntryStep(m) PROVE etc'[n] = Local
    <3>1. CASE CleanEntry(m) BY <2>0, <3>1 DEF CleanEntry, Doomed
    <3>2. CASE InstallCopy(m)
      <4>1. n # m BY <3>2 DEF InstallCopy, Syncing
      <4>. QED BY <2>0, <3>2, <4>1, WithParentType DEF InstallCopy
    <3>3. CASE CopyIntoStore(m) \/ KeepLink(m) \/ LinkRefused(m) \/ LinkIntoStore(m)
      BY <3>3 DEF CopyIntoStore, KeepLink, LinkRefused, LinkIntoStore
    <3>4. CASE CopyFails(m) BY <2>0, <3>4, WithParentType DEF CopyFails
    <3>5. CASE Unlink(m)
      <4>1. n # m BY <3>5 DEF Unlink, Syncing
      <4>. QED BY <2>0, <3>5, <4>1, WithParentType DEF Unlink
    <3>6. CASE RemoveStale(m)
      <4>1. n # m BY <2>0, <3>6 DEF RemoveStale, Doomed
      <4>. QED BY <2>0, <3>6, <4>1 DEF RemoveStale
    <3>. QED BY <2>1, <3>1, <3>2, <3>3, <3>4, <3>5, <3>6 DEF EntryStep
  <2>2. ASSUME NEW m \in Names, AdminWrite(m) PROVE etc'[n] = Local
    BY <2>0, <2>2 DEF AdminWrite
  <2>3. CASE EndClean \/ EndSync \/ WriteManifest \/ Abort \/ \E s \in Systems : Start(s)
    BY <2>3 DEF EndClean, EndSync, WriteManifest, Abort, Start
  <2>4. CASE MakeLink BY <2>0, <2>4 DEF MakeLink, HalfMade, TypeOK
  <2>. QED BY <2>1, <2>2, <2>3, <2>4 DEF Next
<1>. QED BY <1>1, ShapeHolds, PTL DEF Spec, LocalFilesSurvive

-----------------------------------------------------------------------------
(* What an activation that has finished leaves behind.                      *)

\* Every name is provided in one way, though not by every system, and nobody puts a
\* file where a system has a directory.
OneWay ==
  /\ \A s, t \in Systems, n \in Names :
       Etc[s][n] # "none" /\ Etc[t][n] # "none" => Etc[s][n] = Etc[t][n]
  /\ \A s \in Systems, n \in Admin : Etc[s][n] # "dir"

\* Some system provides n in this way.
Ever(n, mode) == \E s \in Systems : Etc[s][n] = mode

\* What each kind of file in /etc tells of the systems there are.
Told ==
  /\ damaged = {}
  /\ \A n \in Names : Ever(n, "dir") => etc[n] \in {Absent, Dir}
  /\ \A n \in Names : etc[n] = Dir => Ever(n, "dir")
  /\ \A n \in Names : etc[n].kind = "direct" => Ever(n, "direct")
  /\ \A n \in manifest : Ever(n, "copy")
  /\ \A n \in created : Etc[static][n] = "copy"

\* Where a system has an entry, a link or a copy can be put.
LEMMA PlaceIsFree ==
  ASSUME OneWay, Shape, Told, NEW n \in Names, Etc[static][n] # "none"
  PROVE  /\ ~InStore(n) /\ ~Blocked(n)
         /\ Etc[static][n] # "dir" => etc[n].kind # "dir" /\ ~Ever(n, "dir")
         /\ Parent[n] # None => Parent[n] \in Names /\ Ever(Parent[n], "dir")
<1>1. static \in Systems /\ Parent \in [Names -> Names \cup {None}] /\ etc \in [Names -> Files]
  BY TypeFiles, TreeAssumption DEF Shape
<1>2. Parent[n] # None => Parent[n] \in Names /\ Ever(Parent[n], "dir")
  BY <1>1, TreeAssumption DEF Ever
<1>3. Parent[n] # None => etc[Parent[n]] \in {Absent, Dir}
  BY <1>2 DEF Told
<1>4. ~InStore(n) /\ ~Blocked(n)
  BY <1>3, FileTypes DEF InStore, Blocked, In
<1>5. Etc[static][n] # "dir" => ~Ever(n, "dir")
  BY <1>1 DEF OneWay, Ever
<1>6. Etc[static][n] # "dir" => etc[n].kind # "dir"
  BY <1>1, <1>5, FileKinds DEF Told
<1>. QED BY <1>2, <1>4, <1>5, <1>6

LEMMA ToldPlace ==
  ASSUME OneWay, Shape, Told, NEW n \in Names, NEW x \in Files,
         Etc[static][n] \notin {"none", "dir"}, x # Dir,
         x.kind = "direct" => Etc[static][n] = "direct",
         etc' = [WithParent(n) EXCEPT ![n] = x]
  PROVE  /\ \A m \in Names : Ever(m, "dir") => etc'[m] \in {Absent, Dir}
         /\ \A m \in Names : etc'[m] = Dir => Ever(m, "dir")
         /\ \A m \in Names : etc'[m].kind = "direct" => Ever(m, "direct")
<1>1. TypeOK /\ static \in Systems /\ etc \in [Names -> Files] BY TypeFiles DEF Shape
<1>2. ~Ever(n, "dir") /\ (Parent[n] # None => Parent[n] \in Names /\ Ever(Parent[n], "dir"))
  BY PlaceIsFree
<1>3. /\ WithParent(n) \in [Names -> Files]
      /\ \A m \in Names : WithParent(n)[m] # etc[m] =>
           etc[m] = Absent /\ WithParent(n)[m] = Dir /\ m = Parent[n]
  BY <1>1, WithParentType
<1>4. None \notin Names BY TreeAssumption
<1>. QED BY <1>1, <1>2, <1>3, <1>4, FileTypes DEF Told, Ever

LEMMA ToldStep == OneWay /\ Shape /\ Told /\ [Next]_vars => Told'
<1>. SUFFICES ASSUME OneWay, Shape, Told, [Next]_vars PROVE Told'
  OBVIOUS
<1>0. /\ TypeOK /\ Nested /\ HalfMade /\ Doomed /\ etc \in [Names -> Files]
      /\ todo \subseteq Names /\ static \in Systems /\ half \in Names \cup {None}
  BY TypeFiles DEF Shape
<1>1. ASSUME NEW s \in Systems, Start(s) PROVE Told' BY <1>1 DEF Start, Told, Ever
<1>2. ASSUME NEW n \in Names, EntryStep(n) PROVE Told'
  <2>1. CASE CleanEntry(n) BY <1>0, <2>1, FileTypes DEF CleanEntry, Told, Ever
  <2>2. CASE InstallCopy(n)
    <3>1. Copy(static) # Dir /\ Copy(static) \in Files /\ Copy(static).kind = "copy"
      BY <1>0, FileTypes DEF Copy, Dir, File
    <3>2. /\ Etc[static][n] = "copy" /\ etc' = [WithParent(n) EXCEPT ![n] = Copy(static)]
          /\ created' = created \cup {n} /\ UNCHANGED <<static, damaged, manifest>>
      BY <2>2 DEF InstallCopy, Syncing
    <3>3. /\ \A m \in Names : Ever(m, "dir") => etc'[m] \in {Absent, Dir}
          /\ \A m \in Names : etc'[m] = Dir => Ever(m, "dir")
          /\ \A m \in Names : etc'[m].kind = "direct" => Ever(m, "direct")
      BY <3>1, <3>2, ToldPlace
    <3>. QED BY <3>2, <3>3 DEF Told, Ever, Absent, Dir
  <2>3. CASE CopyIntoStore(n) BY <2>3, PlaceIsFree DEF CopyIntoStore, Syncing
  <2>4. CASE CopyFails(n)
    <3>1. Etc[static][n] = "copy" /\ etc' = WithParent(n) /\ UNCHANGED <<static, damaged, manifest, created>>
      BY <2>4 DEF CopyFails, Syncing
    <3>2. \A m \in Names : etc'[m] # etc[m] => etc[m] = Absent /\ etc'[m] = Dir /\ m = Parent[n]
      BY <1>0, <3>1, WithParentType
    <3>3. Parent[n] \in Names => Ever(Parent[n], "dir")
      BY <3>1, PlaceIsFree, TreeAssumption
    <3>. QED BY <3>1, <3>2, <3>3, FileTypes DEF Told, Ever, Absent, Dir
  <2>5. CASE KeepLink(n) BY <2>5 DEF KeepLink, Told, Ever
  <2>6. CASE Unlink(n)
    <3>1. Absent # Dir /\ Absent \in Files /\ Absent.kind # "direct"
      BY FileTypes DEF Absent, Dir, File
    <3>2. /\ Etc[static][n] \in {"link", "direct"} /\ etc' = [WithParent(n) EXCEPT ![n] = Absent]
          /\ UNCHANGED <<created, static, damaged, manifest>>
      BY <2>6 DEF Unlink, Syncing
    <3>3. /\ \A m \in Names : Ever(m, "dir") => etc'[m] \in {Absent, Dir}
          /\ \A m \in Names : etc'[m] = Dir => Ever(m, "dir")
          /\ \A m \in Names : etc'[m].kind = "direct" => Ever(m, "direct")
      BY <3>1, <3>2, ToldPlace
    <3>. QED BY <3>2, <3>3 DEF Told, Ever, Absent, Dir
  <2>7. CASE LinkRefused(n) BY <2>7 DEF LinkRefused, Told, Ever
  <2>8. CASE LinkIntoStore(n) BY <2>8, PlaceIsFree DEF LinkIntoStore, Syncing
  <2>9. CASE RemoveStale(n)
    <3>1. UNCHANGED <<static, manifest, created>> BY <2>9 DEF RemoveStale
    <3>2. UNCHANGED damaged BY <2>9, PlaceIsFree DEF RemoveStale
    <3>3. UNCHANGED etc \/ etc' = [etc EXCEPT ![n] = Absent] BY <2>9 DEF RemoveStale
    <3>. QED BY <1>0, <3>1, <3>2, <3>3, FileTypes DEF Told, Ever, Absent, Dir
  <2>. QED BY <1>2, <2>1, <2>2, <2>3, <2>4, <2>5, <2>6, <2>7, <2>8, <2>9 DEF EntryStep
<1>3. ASSUME NEW n \in Names, AdminWrite(n) PROVE Told'
  <2>1. ~Ever(n, "dir") BY <1>3 DEF AdminWrite, OneWay, Ever
  <2>2. etc' = [etc EXCEPT ![n] = Local] /\ UNCHANGED <<static, damaged, manifest, created>>
    BY <1>3 DEF AdminWrite
  <2>3. Local # Dir /\ Local.kind = "local" BY FileTypes DEF Local, Dir, File
  <2>. QED BY <1>0, <2>1, <2>2, <2>3 DEF Told, Ever, Absent, Dir
<1>4. CASE EndClean BY <1>4 DEF EndClean, Told, Ever
<1>5. CASE MakeLink
  <2>1. half \in Names /\ Etc[static][half] \in {"link", "direct"} /\ etc[half] = Absent
    BY <1>0, <1>5 DEF MakeLink, HalfMade
  <2>2. UNCHANGED <<static, damaged, manifest, created>> BY <1>5 DEF MakeLink
  <2>3. UNCHANGED etc \/ etc' = [etc EXCEPT ![half] = Wanted(half)] BY <1>5 DEF MakeLink
  <2>4. ~Ever(half, "dir") BY <2>1, PlaceIsFree
  <2>5. /\ Wanted(half).kind \in {"link", "direct"} /\ Wanted(half) # Dir
        /\ Wanted(half).kind = "direct" => Etc[static][half] = "direct"
    BY <1>0, <2>1, WantedType, FileTypes DEF Wanted
  <2>. QED BY <1>0, <2>1, <2>2, <2>3, <2>4, <2>5 DEF Told, Ever, Absent, Dir
<1>6. CASE EndSync BY <1>6 DEF EndSync, Told, Ever
<1>7. CASE WriteManifest BY <1>0, <1>7 DEF WriteManifest, Remembered, Told, Ever
<1>8. CASE Abort BY <1>8 DEF Abort, Told, Ever
<1>9. CASE UNCHANGED vars BY <1>9 DEF vars, Told, Ever
<1>. QED BY <1>1, <1>2, <1>3, <1>4, <1>5, <1>6, <1>7, <1>8, <1>9 DEF Next

LEMMA ToldFirst == Init => Shape /\ Told
<1>1. ASSUME Init PROVE Shape
  <2>1. TypeOK BY <1>1, FileTypes DEF Init, TypeOK, Absent, File
  <2>2. Nested /\ HalfMade /\ Doomed BY <1>1 DEF Init, Nested, HalfMade, Doomed
  <2>. QED BY <2>1, <2>2 DEF Shape
<1>2. ASSUME Init PROVE Told
  <2>1. Absent # Dir /\ Absent.kind # "direct" BY FileTypes DEF Absent, Dir, File
  <2>. QED BY <1>2, <2>1 DEF Init, Told
<1>. QED BY <1>1, <1>2

\* An entry that was synchronised is what the system has there; the list of copies is
\* the one of this activation.
InPlace(n) == IF Etc[static][n] = "copy" THEN etc[n] = Copy(static) /\ n \in created
                                         ELSE etc[n] = Wanted(n)

Landed ==
  /\ pc = "sync" => \A n \in Provided(static) \ todo : InPlace(n)
  /\ pc \in {"stale", "done"} => \A n \in Provided(static) : InPlace(n)
  /\ pc = "stale" => todo \cap created = {}
  /\ pc = "done" => manifest = created

\* No step at one name moves what is in place at another.
LEMMA OthersInPlace ==
  ASSUME TypeOK, UNCHANGED static, created \subseteq created', NEW n \in Names,
         NEW m \in Names, m # n, InPlace(m),
         \A k \in Names \ {n} : etc'[k] # etc[k] => etc[k] = Absent
  PROVE  InPlace(m)'
<1>1. etc[m] # Absent
  BY FileTypes, WantedType DEF TypeOK, InPlace
<1>. QED BY <1>1 DEF InPlace, Wanted

LEMMA LandedStep == ~Faults /\ OneWay /\ Shape /\ Told /\ Landed /\ [Next]_vars => Landed'
<1>. SUFFICES ASSUME ~Faults, OneWay, Shape, Told, Landed, [Next]_vars PROVE Landed'
  OBVIOUS
<1>. USE DEF Visited
<1>0. /\ TypeOK /\ Nested /\ HalfMade /\ Doomed /\ etc \in [Names -> Files]
      /\ todo \subseteq Names /\ static \in Systems /\ half \in Names \cup {None}
      /\ Provided(static) \subseteq Names
  BY TypeFiles DEF Shape, Provided
<1>1. CASE \E s \in Systems : Start(s) BY <1>1 DEF Start, Landed
<1>2. ASSUME NEW n \in Names, EntryStep(n) PROVE Landed'
  <2>1. CASE CleanEntry(n) BY <2>1 DEF CleanEntry, Landed
  <2>2. CASE InstallCopy(n)
    <3>1. /\ pc = "sync" /\ Etc[static][n] = "copy" /\ etc' = [WithParent(n) EXCEPT ![n] = Copy(static)]
          /\ created' = created \cup {n} /\ todo' = todo \ {n} /\ UNCHANGED <<static, pc, manifest>>
      BY <2>2 DEF InstallCopy, Syncing
    <3>2. \A k \in Names \ {n} : etc'[k] # etc[k] => etc[k] = Absent
      BY <1>0, <3>1, WithParentType
    <3>3. InPlace(n)' BY <1>0, <3>1, WithParentType DEF InPlace
    <3>4. \A m \in Provided(static) \ todo : m # n => InPlace(m)'
      BY <1>0, <3>1, <3>2, OthersInPlace DEF Landed
    <3>. QED BY <3>1, <3>3, <3>4 DEF Landed, Provided
  <2>3. CASE CopyIntoStore(n) \/ LinkIntoStore(n)
    BY <2>3, PlaceIsFree DEF CopyIntoStore, LinkIntoStore, Syncing
  <2>4. CASE CopyFails(n) BY <2>4, PlaceIsFree DEF CopyFails, Syncing
  <2>5. CASE KeepLink(n)
    <3>1. /\ pc = "sync" /\ Etc[static][n] \in {"link", "direct"} /\ todo' = todo \ {n}
          /\ UNCHANGED <<etc, static, pc, created, manifest>>
      BY <2>5 DEF KeepLink, Syncing
    <3>2. etc[n] = Wanted(n) BY <2>5, <3>1, PlaceIsFree DEF KeepLink, Right
    <3>. QED BY <3>1, <3>2 DEF Landed, Provided, InPlace, Wanted
  <2>6. CASE Unlink(n)
    <3>1. /\ pc = "sync" /\ n \in todo /\ etc' = [WithParent(n) EXCEPT ![n] = Absent]
          /\ UNCHANGED <<static, pc, created, todo, manifest>>
      BY <2>6 DEF Unlink, Syncing
    <3>2. \A k \in Names \ {n} : etc'[k] # etc[k] => etc[k] = Absent
      BY <1>0, <3>1, WithParentType
    <3>3. \A m \in Provided(static) \ todo : InPlace(m)'
      BY <1>0, <3>1, <3>2, OthersInPlace DEF Landed
    <3>. QED BY <3>1, <3>3 DEF Landed, Provided
  <2>7. CASE LinkRefused(n)
    BY <2>7, PlaceIsFree, FileTypes DEF LinkRefused, Syncing
  <2>8. CASE RemoveStale(n)
    <3>1. /\ pc = "stale" /\ n \in todo /\ todo' = todo \ {n} /\ UNCHANGED <<static, pc, created, manifest>>
          /\ UNCHANGED etc \/ etc' = [etc EXCEPT ![n] = Absent]
      BY <2>8 DEF RemoveStale
    <3>2. n \notin Provided(static)
      <4>1. n \in manifest /\ n \notin created BY <1>0, <3>1 DEF Doomed, Landed
      <4>2. Ever(n, "copy") BY <4>1 DEF Told
      <4>3. ASSUME n \in Provided(static) PROVE Etc[static][n] = "copy"
        BY <1>0, <4>2, <4>3 DEF Ever, OneWay, Provided
      <4>4. ASSUME n \in Provided(static) PROVE FALSE
        BY <3>1, <4>1, <4>3, <4>4 DEF Landed, InPlace
      <4>. QED BY <4>4
    <3>3. \A k \in Names \ {n} : etc'[k] = etc[k] BY <1>0, <3>1
    <3>4. \A m \in Provided(static) : InPlace(m)'
      BY <1>0, <3>1, <3>2, <3>3, OthersInPlace DEF Landed
    <3>. QED BY <3>1, <3>4 DEF Landed, Provided
  <2>. QED BY <1>2, <2>1, <2>2, <2>3, <2>4, <2>5, <2>6, <2>7, <2>8 DEF EntryStep
<1>3. CASE \E n \in Names : AdminWrite(n) BY <1>3 DEF AdminWrite, Landed
<1>4. CASE EndClean BY <1>4 DEF EndClean, Landed, Provided
<1>5. CASE MakeLink
  <2>1. PICK n \in Names : n = half /\ Etc[static][n] \in {"link", "direct"} /\ pc = "sync"
    BY <1>0, <1>5 DEF MakeLink, HalfMade
  <2>2. /\ etc' = [etc EXCEPT ![n] = Wanted(n)] /\ todo' = todo \ {n}
        /\ UNCHANGED <<static, pc, created, manifest>>
    BY <1>5, <2>1 DEF MakeLink
  <2>3. InPlace(n)' BY <1>0, <2>1, <2>2 DEF InPlace, Wanted
  <2>4. \A m \in Provided(static) \ todo : m # n => InPlace(m)'
    BY <1>0, <2>1, <2>2, OthersInPlace DEF Landed
  <2>. QED BY <2>1, <2>2, <2>3, <2>4 DEF Landed, Provided
<1>6. CASE EndSync BY <1>6 DEF EndSync, Stale, Landed, Provided, InPlace, Wanted
<1>7. CASE WriteManifest BY <1>7 DEF WriteManifest, Remembered, Landed, Provided, InPlace, Wanted
<1>8. CASE Abort BY <1>8 DEF Abort, Landed
<1>9. CASE UNCHANGED vars BY <1>9 DEF vars, Landed, Provided, InPlace, Wanted
<1>. QED BY <1>1, <1>2, <1>3, <1>4, <1>5, <1>6, <1>7, <1>8, <1>9 DEF Next

\* Where every name is provided in one way, an activation never changes a tree in the
\* store, whatever fails and wherever it ends (etc_syncer writes through the paths it
\* finds in /etc).
THEOREM TreesStay == ASSUME OneWay PROVE Spec => []TreesAreKept
<1>1. Told => TreesAreKept BY DEF Told, TreesAreKept
<1>. QED BY <1>1, ToldFirst, ToldStep, ShapeHolds, PTL DEF Spec

\* When an activation has finished, every entry of the system is in place, whatever
\* earlier activations, complete or cut short anywhere, had left in /etc; no call
\* failing, and every name provided in one way.
THEOREM EverythingInstalled == ASSUME ~Faults, OneWay PROVE Spec => []Installed
<1>1. Init => Landed BY DEF Init, Landed
<1>2. Shape /\ Told /\ Landed /\ [Next]_vars => Landed' BY LandedStep
<1>3. Shape /\ Told /\ Landed => Installed
  <2>. SUFFICES ASSUME Shape, Told, Landed, pc = "done", NEW n \in Provided(static)
                PROVE  ~InStore(n) /\ etc[n] = IF Etc[static][n] = "copy" THEN Copy(static) ELSE Wanted(n)
    BY DEF Installed
  <2>1. n \in Names /\ Etc[static][n] # "none" BY DEF Provided
  <2>2. InPlace(n) BY DEF Landed
  <2>. QED BY <2>1, <2>2, PlaceIsFree DEF InPlace
<1>. QED BY <1>1, <1>2, <1>3, ToldFirst, ToldStep, ShapeHolds, PTL DEF Spec

\* A managed link whose entry is gone is cleaned, and none is made.
LinksGone ==
  /\ pc = "clean" => \A n \in Names : etc[n] = Link /\ Etc[static][n] = "none" => n \in todo
  /\ pc \in {"sync", "stale", "done"} => \A n \in Names : etc[n] = Link => Etc[static][n] # "none"

LEMMA LinksGoneStep == ~Faults /\ OneWay /\ Shape /\ Told /\ LinksGone /\ [Next]_vars => LinksGone'
<1>. SUFFICES ASSUME ~Faults, OneWay, Shape, Told, LinksGone, [Next]_vars PROVE LinksGone'
  OBVIOUS
<1>. USE DEF Visited
<1>0. /\ TypeOK /\ Nested /\ HalfMade /\ Doomed /\ etc \in [Names -> Files]
      /\ todo \subseteq Names /\ static \in Systems /\ half \in Names \cup {None}
      /\ Absent # Link /\ Dir # Link /\ Local # Link /\ Copy(static) # Link
  BY TypeFiles DEF Shape, Absent, Dir, Local, Link, Copy, File
<1>1. ASSUME NEW s \in Systems, Start(s) PROVE LinksGone'
  <2>1. \A n \in Names : etc[n] = Link => ~InStore(n)
    BY <1>0, FileTypes DEF Nested, InStore, In
  <2>. QED BY <1>1, <2>1 DEF Start, ManagedLinks, LinksGone
<1>2. ASSUME NEW n \in Names, EntryStep(n) PROVE LinksGone'
  <2>1. CASE CleanEntry(n) BY <1>0, <2>1 DEF CleanEntry, Resolves, LinksGone
  <2>2. CASE InstallCopy(n)
    <3>1. \A m \in Names : etc'[m] = Link => etc[m] = Link BY <1>0, <2>2, WithParentType DEF InstallCopy
    <3>. QED BY <2>2, <3>1 DEF InstallCopy, Syncing, LinksGone
  <2>3. CASE CopyFails(n)
    <3>1. \A m \in Names : etc'[m] = Link => etc[m] = Link BY <1>0, <2>3, WithParentType DEF CopyFails
    <3>. QED BY <2>3, <3>1 DEF CopyFails, Syncing, LinksGone
  <2>4. CASE CopyIntoStore(n) \/ KeepLink(n) \/ LinkRefused(n) \/ LinkIntoStore(n)
    BY <2>4 DEF CopyIntoStore, KeepLink, LinkRefused, LinkIntoStore, Syncing, LinksGone
  <2>5. CASE Unlink(n)
    <3>1. \A m \in Names : etc'[m] = Link => etc[m] = Link BY <1>0, <2>5, WithParentType DEF Unlink
    <3>. QED BY <2>5, <3>1 DEF Unlink, Syncing, LinksGone
  <2>6. CASE RemoveStale(n)
    <3>1. \A m \in Names : etc'[m] = Link => etc[m] = Link BY <1>0, <2>6 DEF RemoveStale
    <3>. QED BY <2>6, <3>1 DEF RemoveStale, LinksGone
  <2>. QED BY <1>2, <2>1, <2>2, <2>3, <2>4, <2>5, <2>6 DEF EntryStep
<1>3. CASE \E n \in Names : AdminWrite(n) BY <1>3 DEF AdminWrite, LinksGone
<1>4. CASE EndClean BY <1>4 DEF EndClean, LinksGone
<1>5. CASE MakeLink
  <2>1. half \in Names /\ Etc[static][half] # "none" /\ pc = "sync" BY <1>0, <1>5 DEF MakeLink, HalfMade
  <2>. QED BY <1>0, <1>5, <2>1 DEF MakeLink, LinksGone
<1>6. CASE EndSync \/ WriteManifest \/ Abort BY <1>6 DEF EndSync, WriteManifest, Abort, LinksGone
<1>7. CASE UNCHANGED vars BY <1>7 DEF vars, LinksGone
<1>. QED BY <1>1, <1>2, <1>3, <1>4, <1>5, <1>6, <1>7 DEF Next

\* The code removes no direct link whose entry is dropped: an entry that is one
\* somewhere is one everywhere.
DirectStays == \A s, t \in Systems, n \in Names : Etc[s][n] = "direct" => Etc[t][n] = "direct"

\* When an activation has finished, nothing is left of what only earlier systems had;
\* no call failing, every name provided in one way and no direct link ever dropped.
THEOREM NothingIsLeft == ASSUME ~Faults, OneWay, DirectStays PROVE Spec => []NothingLeft
<1>1. Init => Landed /\ LinksGone /\ CopiesKnown
  BY FileTypes DEF Init, Landed, LinksGone, CopiesKnown
<1>2. Shape /\ Told /\ Landed /\ [Next]_vars => Landed' BY LandedStep
<1>3. Shape /\ Told /\ LinksGone /\ [Next]_vars => LinksGone' BY LinksGoneStep
<1>4. Shape /\ CopiesKnown /\ [Next]_vars => CopiesKnown' BY CopiesKnownStep
<1>5. Shape /\ Told /\ Landed /\ LinksGone /\ CopiesKnown => NothingLeft
  <2>. SUFFICES ASSUME Shape, Told, Landed, LinksGone, CopiesKnown, pc = "done", ~cut,
                       NEW n \in Names, Etc[static][n] = "none"
                PROVE  etc[n].kind \notin {"copy", "direct", "link"}
    BY DEF NothingLeft
  <2>1. static \in Systems /\ etc[n] \in Files BY TypeFiles DEF Shape
  <2>2. etc[n].kind # "copy"
    <3>1. etc[n].kind = "copy" => n \in created BY DEF CopiesKnown, Landed
    <3>. QED BY <3>1 DEF Told
  <2>3. etc[n].kind # "direct" BY <2>1 DEF Told, Ever, DirectStays
  <2>4. etc[n].kind # "link" BY <2>1, FileKinds DEF LinksGone
  <2>. QED BY <2>2, <2>3, <2>4
<1>. QED BY <1>1, <1>2, <1>3, <1>4, <1>5, ToldFirst, ToldStep, ShapeHolds, PTL DEF Spec

=============================================================================
