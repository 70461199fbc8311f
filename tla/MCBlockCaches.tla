--------------------------- MODULE MCBlockCaches ---------------------------
(***************************************************************************)
(* Instances of the two block caches for TLC, the client's WTinyLFUCache   *)
(* and the server's L3SsdCache.  Nothing connects them in the repository,  *)
(* so a behaviour exercises one of them.                                   *)
(***************************************************************************)
EXTENDS WTinyLFUCache, L3SsdCache

CONSTANTS k1, k2, k3, v1, v2

MCKeys == {k1, k2, k3}
MCVersions == {v1, v2}
\* The versions are told apart, never compared.
MCSymmetry == Permutations(MCVersions)
MCSizes == {0, 1, 2}
\* Two rows in which different pairs of keys collide.
MCHash == <<[k \in MCKeys |-> IF k = k1 THEN 1 ELSE 2],
            [k \in MCKeys |-> IF k = k3 THEN 1 ELSE 2]>>
\* Blocks of which none, some and, larger than the watermark, not even one fit.
MCBlocks == [size : {0, 1, 3, 6}, version : MCVersions]

VARIABLE level

MCInit == Init /\ L3Init /\ level \in {"L1", "L3"}
MCNext ==
  \/ level = "L1" /\ Next /\ UNCHANGED <<l3vars, level>>
  \/ level = "L3" /\ L3Next /\ UNCHANGED <<vars, level>>
MCSpec == MCInit /\ [][MCNext]_<<vars, l3vars, level>>
=============================================================================
