----------------------------- MODULE FlatDisk -----------------------------
(***************************************************************************)
(* What simp_blkdev promises the block layer: an array of sectors, zero    *)
(* when the disk is loaded.  A request moves its sectors from the first to *)
(* the last, some at a time, each time reading or writing the array as it  *)
(* then is; it succeeds when all are moved, and ends with an error at any  *)
(* time when memory runs out.  A request that is not within the disk ends  *)
(* with an error and changes nothing.                                      *)
(***************************************************************************)
EXTENDS Integers, Sequences

CONSTANTS Requesters, Idle,   \* who makes requests; the record of one that does not
          MayFail             \* memory may run out

VARIABLES disk,   \* the sectors, none while the disk is not loaded
          req,    \* the request of each requester
          result  \* how its last one ended: [status, pos, len]

vars == <<disk, req, result>>

Slots(pos, n) == pos..(pos + n - 1)
Unknown == [status |-> "none", pos |-> 0, len |-> 0]

Init == disk = <<>> /\ req = [r \in Requesters |-> Idle] /\ result = [r \in Requesters |-> Unknown]

(* A disk of zeros, or of no sectors at all. *)
Load == disk = <<>> /\ (\A k \in DOMAIN disk' : disk'[k] = 0) /\ UNCHANGED <<req, result>>
Unload == disk' = <<>> /\ req = [r \in Requesters |-> Idle] /\ UNCHANGED <<req, result>>

Submit(r) ==
  /\ req[r] = Idle
  /\ LET q == req'[r] IN
       /\ q.done = 0 /\ q.len > 0 /\ Slots(q.pos, q.len) \subseteq DOMAIN disk
       /\ q.dir = "read" => q.data = <<>>
       /\ q.dir = "write" => Len(q.data) = q.len
       /\ req' = [req EXCEPT ![r] = q]
  /\ result' = [result EXCEPT ![r] = Unknown] /\ UNCHANGED disk

(* A request that is not within the disk. *)
Refuse(r) ==
  /\ req[r] = Idle
  /\ LET o == result'[r] IN
       /\ o.status = "error" /\ ~(Slots(o.pos, o.len) \subseteq DOMAIN disk)
       /\ result' = [result EXCEPT ![r] = o]
  /\ UNCHANGED <<disk, req>>

(* The next n sectors of a request. *)
Move(r) ==
  LET q == req[r] IN
  /\ \E n \in 1..(q.len - q.done) :
       LET at == q.pos + q.done IN
       \/ /\ q.dir = "write" /\ req' = [req EXCEPT ![r].done = @ + n]
          /\ disk' = [k \in DOMAIN disk |->
                        IF k \in Slots(at, n) THEN q.data[k - q.pos + 1] ELSE disk[k]]
       \/ /\ q.dir = "read"
          /\ req' = [req EXCEPT ![r].done = @ + n,
                                ![r].data = @ \o [k \in 1..n |-> disk[at + k - 1]]]
          /\ UNCHANGED disk
  /\ UNCHANGED result

End(r, status) ==
  /\ result' = [result EXCEPT ![r] = [status |-> status, pos |-> req[r].pos, len |-> req[r].len]]
  /\ req' = [req EXCEPT ![r] = Idle] /\ UNCHANGED disk

Succeed(r)  == req[r].done = req[r].len /\ End(r, "ok")
GiveUp(r)   == MayFail /\ End(r, "error")
Running(r)  == req[r] # Idle /\ (Move(r) \/ Succeed(r) \/ GiveUp(r))

Next == Load \/ Unload \/ \E r \in Requesters : Submit(r) \/ Refuse(r) \/ Running(r)

Spec == Init /\ [][Next]_vars

=============================================================================
