------------------------------- MODULE MCEtcSync -------------------------------
(* Trees of /etc for TLC: a row per system, a column per name.              *)
EXTENDS EtcSync, TLC

CONSTANTS a, b, c, d, f, s1, s2, s3

Flat == [n \in Names |-> IF n = f THEN d ELSE None]

Tree(va, vb, vc, vd, vf) ==
  [n \in Names |-> CASE n = a -> va [] n = b -> vb [] n = c -> vc [] n = d -> vd [] n = f -> vf]

\* Every name is provided in one way only, but not by every system.
StableEtc == s1 :> Tree("copy", "link", "direct", "dir", "link")
          @@ s2 :> Tree("copy", "none", "direct", "none", "none")
          @@ s3 :> Tree("none", "link", "direct", "dir", "link")

\* A copy becomes a link, a linked directory a directory of entries, and back.
ChangingEtc == s1 :> Tree("copy", "link", "none", "link", "none")
            @@ s2 :> Tree("link", "copy", "direct", "dir", "link")
            @@ s3 :> Tree("none", "direct", "none", "dir", "copy")

\* A copy becomes a link, as when an entry loses its mode.
CopyToLinkEtc == s1 :> Tree("copy", "copy", "none", "none", "none")
              @@ s2 :> Tree("link", "copy", "none", "none", "none")
              @@ s3 :> Tree("none", "copy", "none", "none", "none")

\* A linked directory (dbus-1, udev/rules.d) becomes a directory of entries.
SplitDirEtc == s1 :> Tree("copy", "link", "none", "link", "none")
            @@ s2 :> Tree("copy", "link", "none", "dir", "link")
            @@ s3 :> Tree("copy", "none", "none", "dir", "link")
=============================================================================
