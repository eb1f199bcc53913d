---------------------------- MODULE MCS3cI2cAny ----------------------------
(* Arrays that master_xfer accepts, those of this repository's clients and  *)
(* others: a read that is not the last message, a read that asks for no     *)
(* START of its own.                                                        *)
EXTENDS S3cI2c

Wr(n) == [rd |-> FALSE, len |-> n, nostart |-> FALSE, ignoreNak |-> FALSE]
Rd(n) == [rd |-> TRUE, len |-> n, nostart |-> FALSE, ignoreNak |-> FALSE]

ClientLists == { <<Wr(2)>>, <<Wr(1), Rd(2)>>, <<Wr(0)>>,
                 <<Wr(1), [Wr(1) EXCEPT !.nostart = TRUE]>> }
ReadFirst == { <<Rd(1), Wr(1)>>, <<Rd(1), Rd(1)>>, <<Rd(1), Wr(0)>> }
ReadNoStart == { <<Wr(1), [Rd(1) EXCEPT !.nostart = TRUE]>> }
AnyLists == ClientLists \cup ReadFirst \cup ReadNoStart

=============================================================================
