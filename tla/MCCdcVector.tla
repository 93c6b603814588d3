---------------------------- MODULE MCCdcVector ----------------------------
(***************************************************************************)
(* The instance of CdcVector that TLC checks: three words, and the two     *)
(* flip-flops that every cdc_vector of the repository is built with.       *)
(***************************************************************************)
EXTENDS CdcVector

CONSTANTS v1, v2, v3
=============================================================================
