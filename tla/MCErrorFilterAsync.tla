------------------------- MODULE MCErrorFilterAsync -------------------------
(***************************************************************************)
(* The instances of ErrorFilterAsync that TLC checks: with packets that    *)
(* fit the FIFO's RAM, and with packets one word longer.                   *)
(***************************************************************************)
EXTENDS ErrorFilterAsync
=============================================================================
