------------------------------ MODULE MCVbdRing ------------------------------
(* Instances of VbdRing, whose SRBs are some of: two writes w, u and a read r of two
   blocks each that overlap, a REQUEST_SENSE q, another command o, a flush f, a reset x. *)
EXTENDS VbdRing

CONSTANTS w, r, u, q, o, f, x

MCKind == [s \in Srbs |-> CASE s \in {w, u} -> "write" [] s = r -> "read" [] s = q -> "sense"
                            [] s = o -> "other" [] s = f -> "flush" [] OTHER -> "reset"]
MCStart == [s \in Srbs |-> IF s \in {r, u} THEN 1 ELSE 0]
MCBlocks == [s \in Srbs |-> IF s \in {w, r, u} THEN 2 ELSE 0]
=============================================================================
