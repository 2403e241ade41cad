------------------------------ MODULE MCOverlay ------------------------------
(***************************************************************************)
(* Instances of Overlay for TLC.                                           *)
(***************************************************************************)
EXTENDS Overlay

(* One pipe of each type and a second RGB pipe.                            *)
MCPipeTypes == [p \in 0..3 |-> <<"RGB", "RGB", "VG", "DMA">>[p + 1]]

(* The primary is a high-res panel, the other display has one mixer.       *)
MCMixers == [d \in 0..1 |-> IF d = 0 THEN 2 ELSE 1]
=============================================================================
