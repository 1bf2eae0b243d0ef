------------------------------- MODULE MCMounts -------------------------------
(* Mounts with a few configurations, given as tables. *)
EXTENDS Mounts, TLC

CONSTANTS root, boot, dev, home, nix, persist, run, varlog, phome, pvarlog, upper, squash

MCPaths == {root, boot, dev, home, nix, persist, run, varlog, phome, pvarlog, upper, squash}
MCApi == {dev}
MCNix == {nix}
MCDepth == root :> 1 @@ boot :> 2 @@ dev :> 2 @@ home :> 2 @@ nix :> 2 @@ persist :> 2 @@ run :> 2
           @@ varlog :> 3 @@ phome :> 3 @@ pvarlog :> 4 @@ upper :> 4 @@ squash :> 4
MCAbove == [p \in MCPaths |-> CASE p = root -> {}
                                [] p \in {phome, pvarlog} -> {root, persist}
                                [] p \in {upper, squash} -> {root, run}
                                [] OTHER -> {root}]
MCRank == root :> 1 @@ boot :> 2 @@ dev :> 3 @@ home :> 4 @@ nix :> 5 @@ persist :> 6 @@ phome :> 7
          @@ pvarlog :> 8 @@ run :> 9 @@ upper :> 10 @@ squash :> 11 @@ varlog :> 12

E(kind) == [kind |-> kind, stage1 |-> FALSE, outside |-> FALSE, reset |-> FALSE,
            requires |-> {}, from |-> None, layers |-> {}]
Early(e) == [e EXCEPT !.stage1 = TRUE]
BindOf(p) == [E("bind") EXCEPT !.from = p]
Scaffold(e, S) == [e EXCEPT !.stage1 = TRUE, !.outside = TRUE, !.requires = S]

Nothing == [p \in MCPaths |-> None]
Virtual == dev :> Early(E("api")) @@ run :> E("tmpfs") @@ Nothing

\* The live system: an overlay over scaffolding, with and without `requires`.
Live(S) == root :> [Early(E("overlay")) EXCEPT !.layers = {upper, squash}, !.requires = S]
           @@ upper :> Scaffold(E("tmpfs"), {}) @@ squash :> Scaffold(E("loop"), {})
           @@ boot :> E("disk") @@ home :> E("loop") @@ Virtual

\* Impermanence on a tmpfs and on a btrfs root that is reset.
Kept == home :> BindOf(phome) @@ varlog :> BindOf(pvarlog)
TmpfsRoot == root :> Early(E("tmpfs")) @@ nix :> Early(E("disk")) @@ persist :> Early(E("disk"))
             @@ Kept @@ Virtual
BtrfsRoot == root :> [Early(E("btrfs")) EXCEPT !.reset = TRUE] @@ nix :> Early(E("btrfs"))
             @@ persist :> Early(E("btrfs")) @@ Kept @@ Virtual
\* The same with the home directories on a disk of their own.
HomeDisk == phome :> Early(E("disk")) @@ TmpfsRoot
HomeDiskLate == phome :> E("disk") @@ TmpfsRoot
\* The persistent storage left out.
NoPersist == persist :> None @@ BtrfsRoot

\* Scaffolding that requires itself in a circle.
Circle == upper :> Scaffold(E("tmpfs"), {squash}) @@ squash :> Scaffold(E("loop"), {upper})
          @@ Live({upper, squash})

\* A root that is not needed for boot.
RootLate == root :> E("disk") @@ Virtual

SoundPlans == {Live({}), Live({upper, squash}), TmpfsRoot, BtrfsRoot, HomeDisk, Circle, RootLate}
WithLateHome == {HomeDiskLate}
WithoutPersist == {NoPersist}
=============================================================================
