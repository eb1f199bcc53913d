--------------------------- MODULE MCSimpBlkdev ---------------------------
(* A disk of three segments of two pages, the last one not full.           *)
EXTENDS SimpBlkdev

(* 9 sectors once rounded up; none, as the unit shifts it out; without     *)
(* unit; zero.                                                             *)
MCParams == {[n |-> 17, shift |-> 0], [n |-> 1, shift |-> 16], [n |-> 3, shift |-> NONE], [n |-> 0, shift |-> 1]}

(* The last sector of a segment, the first of the next, and the last one   *)
(* before the segment that is not full.                                    *)
MCStarts == {3, 4, 7}

(* One piece of two sectors: from 3 and from 7 it crosses a segment.  Two  *)
(* pieces: from 4 the second crosses the pages of one segment, from 7 it   *)
(* ends beyond the disk.                                                   *)
MCVecs == {<<2>>, <<1, 3>>}

=============================================================================
