----------------------------- MODULE MCSpiFlash -----------------------------
(* Instances of SpiFlash: the two instructions that are answered and one   *)
(* that is not; selections of up to six bytes, one more than the flash     *)
(* tells apart.                                                            *)
EXTENDS SpiFlash

MCInstructions == {Hex(n) : n \in {\h9F, \hAB, \h05}}
=============================================================================
