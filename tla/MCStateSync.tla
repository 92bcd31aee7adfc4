----------------------------- MODULE MCStateSync -----------------------------
(***************************************************************************)
(* A chain whose header at height h commits to h + 1 outputs and kernels;  *)
(* the output tree comes in two segments, the others in one.               *)
(***************************************************************************)
EXTENDS StateSync
MCLeaves(kind, h) == h + 1
MCSegmentLeaves(kind) == IF kind \in {"Output", "Bitmap"} THEN 4 ELSE 8
MCTops == {5, 7}
AllPeersLost == {"all peers lost"}
ArchiveLate == {"archive late"}
=============================================================================
