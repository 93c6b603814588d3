---------------------------- MODULE MCGmiiTxMac ----------------------------
(* Instances of GmiiTxMac, with the counter of the code: packets much      *)
(* shorter than 64 bytes, just shorter and just as long; for the other run *)
(* one byte longer.                                                        *)
EXTENDS GmiiTxMac
=============================================================================
