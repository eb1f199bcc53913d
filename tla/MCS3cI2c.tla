------------------------------ MODULE MCS3cI2c ------------------------------
(* The arrays that the clients of S3cI2cClients pass, for TLC. *)
EXTENDS S3cI2cClients

(* Those of the touch screen, a read of two bytes, an empty probe, a write *)
(* in two parts of which the second has no START, and a read without       *)
(* acknowledges.                                                           *)
MCMsgLists ==
  TouchScreenLists \cup
  { <<WriteMsg(1), ReadMsg(2)>>, <<WriteMsg(0)>>,
    <<WriteMsg(1), [WriteMsg(1) EXCEPT !.nostart = TRUE]>>,
    <<[ReadMsg(1) EXCEPT !.ignoreNak = TRUE]>> }

=============================================================================
