---------------------------- MODULE MCGmiiRxMac ----------------------------
(***************************************************************************)
(* The instances of GmiiRxMac that TLC checks: words of three lanes with   *)
(* frames that do and do not fill their last word, and the frames of two   *)
(* bytes, in words of four, that show how the next one is packed.          *)
(***************************************************************************)
EXTENDS GmiiRxMac
=============================================================================
