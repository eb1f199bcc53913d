--------------------------- MODULE MCS3cI2cClock ---------------------------
(* Input rates around the places where the divisors change, for TLC. *)
EXTENDS S3cI2cControl

\* In tenths of a kHz, for TLC's integers; some are not whole kHz.
MCRates == {16000, 16015, 64000, 256009, 257000, 332500, 500000, 665005, 1000008}
MCTargets == {0, 130, 505, 4008}

=============================================================================
