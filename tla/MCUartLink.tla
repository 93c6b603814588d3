----------------------------- MODULE MCUartLink -----------------------------
(* Instances of UartLink: bit intervals next to the length of a bit, which *)
(* is 22 evaluations here, and bytes that tell every shift of a bit.       *)
EXTENDS UartLink

MCByte == {{0, 2, 3, 7}, {1, 4, 5, 6}}

MCQuotas == {[down |-> 2, up |-> 0], [down |-> 0, up |-> 2], [down |-> 1, up |-> 1]}
=============================================================================
