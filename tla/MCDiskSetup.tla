---------------------------- MODULE MCDiskSetup -----------------------------
(* A small u64: alignment to 4 bytes, numbers below 64. *)
EXTENDS DiskSetup

Bytes(n) == [rest |-> FALSE, bytes |-> n]
Rest == [rest |-> TRUE, bytes |-> 1]

Root == <<>>
Boot == <<"boot">>
Nix == <<"nix">>
Log == <<"var", "log">>

P(size, kind, mounts) == [size |-> size, kind |-> kind, inner |-> "none", mounts |-> mounts]
Luks(size, kind, mounts) == [size |-> size, kind |-> "luks", inner |-> kind, mounts |-> mounts]

Plain == [parts |-> <<P(Bytes(5), "vfat", {Boot}), P(Rest, "btrfs", {Root, Nix})>>,
          elsewhere |-> {Log}]
Crypt == [parts |-> <<P(Bytes(8), "vfat", {Boot}), Luks(Bytes(12), "btrfs", {Root, Nix, Log}),
                      P(Rest, "swap", {})>>,
          elsewhere |-> {}]
Deep == [parts |-> <<P(Bytes(4), "none", {}), P(Bytes(8), "ext4", {Log}), P(Rest, "ext4", {Root})>>,
         elsewhere |-> {}]
Large == [parts |-> <<P(Bytes(61), "ext4", {Root}), P(Rest, "ext4", {Boot})>>, elsewhere |-> {}]
Twice == [parts |-> <<P(Bytes(4), "ext4", {Root}), P(Rest, "ext4", {Root})>>, elsewhere |-> {}]

MCDevice == [total |-> 43, sector |-> 2]
MCPlans == {Plain, Crypt, Deep, Large, Twice}
MCImagePlans == {Plain, Deep, Large}
MCImageSizes == {16, 40}

Old == {<<"boot", "kernel">>, <<"nix", "a">>, <<"etc", "x">>, <<"var", "log", "m">>, <<"var", "lib", "d">>}
New == {<<"boot", "kernel">>, <<"nix", "b">>, <<"etc", "y">>, <<"var", "log", "m">>}
MCTrees == {<<Old>>, <<New>>, <<Old, New>>, <<New, Old>>}

MCSizes == {Bytes(n) : n \in {1, 4, 5, 57, 60, 61, 63}} \cup {Rest}
MCDryRuns == [total : {0, 15, 20, 41, 63}, sector : {0, 1, 2, 3, 4, 8},
              sizes : UNION {[1..n -> MCSizes] : n \in 0..2}]
=============================================================================
