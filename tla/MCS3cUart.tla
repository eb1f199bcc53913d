----------------------------- MODULE MCS3cUart -----------------------------
(* Boards for the UART: one with the default source, one with two.         *)
EXTENDS S3cUart

MCRate == [pclk |-> 33000000, uclk |-> 3686400]
MCConfigs == {<<>>, <<[name |-> "pclk", divisor |-> 1], [name |-> "uclk", divisor |-> 1]>>}

(* 115200 is reached from both, 230400 from uclk; 921600 divides uclk by 0. *)
MCBauds == {115200, 921600}

=============================================================================
