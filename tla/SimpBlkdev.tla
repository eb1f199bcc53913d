---------------------------- MODULE SimpBlkdev ----------------------------
(***************************************************************************)
(* The block device of my_linux_driver_codes/写一个块设备驱动.c: a disk in   *)
(* memory whose segments are allocated when they are first written.        *)
(*                                                                         *)
(* Requests of several tasks run beside each other.  Each is cut into the  *)
(* pieces of its pages (bio_vec), these at the segments of the disk, and   *)
(* these at the pages of a segment; simp_blkdev_datalock is held for the   *)
(* part of a piece within one segment.  Addresses count sectors; a sector  *)
(* is a value.                                                             *)
(***************************************************************************)
EXTENDS Integers, Sequences, FiniteSets

CONSTANTS NONE,
          Requesters,             \* the tasks that make requests
          Params,                 \* the sizes the module is loaded with: [n, shift], shift NONE for no unit
          SectorSize,             \* SIMP_BLKDEV_SECTORSIZE, in bytes
          PageSectors, SegPages,  \* sectors of a page, pages of a segment
          Gang,                   \* segments one lookup returns: 64 in the code
          SectorRange, LongRange, \* values of sector_t and of unsigned long long
          Starts, Vecs,           \* the first sectors of requests, and where their pieces end
          Fails,                  \* what may fail: "alloc", "insert", "kmap"
          MaxRequests             \* bound: requests made

(* Of a request of n pieces in memory, the i-th ends after v[i] sectors:   *)
(* the sum of the lengths (bv_len) so far.                                 *)
Ended(v, i) == IF i = 1 THEN 0 ELSE v[i - 1]
Total(v)    == Ended(v, Len(v) + 1)

ASSUME BlkdevAssumption ==
  /\ IsFiniteSet(Requesters) /\ NONE \notin Requesters
  /\ {SectorSize, SectorRange, LongRange, PageSectors, SegPages, Gang} \subseteq Nat \ {0}
  /\ MaxRequests \in Nat
  /\ Vecs \subseteq Seq(Nat) \ {<<>>}
  /\ \A v \in Vecs : \A i \in 1..Len(v) :
       v[i] - Ended(v, i) \in 1..PageSectors /\ \A j \in 1..i : v[j] <= v[i]
  /\ Params \subseteq [n : Nat, shift : Nat \cup {NONE}]
  /\ Starts \subseteq Nat /\ Fails \subseteq {"alloc", "insert", "kmap"}

VARIABLES
  loaded, bytes,   \* the life of the module; simp_blkdev_bytes
  tree,            \* simp_blkdev_data: the pages of each segment present
  pages,           \* observation: segments allocated and not freed
  lock,            \* who holds simp_blkdev_datalock
  bio,             \* the request of each task
  result,          \* how the last request of each task ended: what bio_endio says
  kmaps,           \* observation: pages of requests mapped
  next_seg,        \* local of free_diskmem
  nreq             \* bound: requests so far

vars == <<loaded, bytes, tree, pages, lock, bio, result, kmaps, next_seg, nreq>>

SegSectors == PageSectors * SegPages
Least(a, b) == IF a < b THEN a ELSE b
Free == [pc |-> "idle", dir |-> "read", start |-> 0, vecs |-> <<>>, mem |-> <<>>,
         i |-> 0, off |-> 0, done |-> 0, this_off |-> 0, this_cnt |-> 0, copied |-> 0]
Outcome(status, start, len) == [status |-> status, pos |-> start, len |-> len]
Unknown == Outcome("none", 0, 0)

Init ==
  /\ loaded = "new" /\ bytes = 0 /\ tree = <<>> /\ pages = 0 /\ lock = NONE
  /\ bio = [r \in Requesters |-> Free] /\ result = [r \in Requesters |-> Unknown]
  /\ kmaps = 0 /\ next_seg = 0 /\ nreq = 0

-----------------------------------------------------------------------------
(* getparam: the size in bytes, rounded up to a sector.  It is refused when *)
(* it has no unit or is zero; one that becomes zero with its unit is not.  *)
getparam(par) ==
  LET size == (par.n * 2^par.shift) % LongRange
  IN  (((size + SectorSize - 1) % LongRange) \div SectorSize) * SectorSize

Load ==
  /\ loaded = "new"
  /\ \E par \in Params :
       \/ (par.shift = NONE \/ par.n = 0) /\ loaded' = "gone" /\ UNCHANGED bytes
       \/ par.shift # NONE /\ par.n # 0 /\ loaded' = "yes" /\ bytes' = getparam(par)
  /\ UNCHANGED <<tree, pages, lock, bio, result, kmaps, next_seg, nreq>>

(* make_request: a request that ends beyond the disk is refused.  The      *)
(* addresses are computed in the width of sector_t.                        *)
Address(s)    == (s * SectorSize) % SectorRange
EndsAt(s, v)  == (Address(s) + Total(v) * SectorSize) % SectorRange
New(dir, s, v) ==
  [Free EXCEPT !.pc = "iovec", !.dir = dir, !.start = s, !.vecs = v, !.i = 1,
     !.off = Address(s) \div SectorSize,
     !.mem = [k \in 1..Total(v) |-> IF dir = "write" THEN k ELSE NONE]]

Submit(r) ==
  /\ loaded = "yes" /\ bio[r] = Free /\ nreq < MaxRequests /\ nreq' = nreq + 1
  /\ \E dir \in {"read", "write"}, s \in Starts, v \in Vecs :
       \/ /\ EndsAt(s, v) > bytes /\ UNCHANGED bio
          /\ result' = [result EXCEPT ![r] = Outcome("error", s, Total(v))]
       \/ /\ EndsAt(s, v) <= bytes /\ bio' = [bio EXCEPT ![r] = New(dir, s, v)]
          /\ result' = [result EXCEPT ![r] = Unknown]
  /\ UNCHANGED <<loaded, bytes, tree, pages, lock, kmaps, next_seg>>

bio_endio(r, status) ==
  /\ bio' = [bio EXCEPT ![r] = Free]
  /\ result' = [result EXCEPT ![r] = Outcome(status, bio[r].start, Len(bio[r].mem))]

(* Mutant: a request that fails ends like one that is done.                *)
FailUnnoticed(r) == bio_endio(r, "ok") /\ UNCHANGED kmaps

(* bio_err: the page of the request stays mapped. *)
Fail(r) == bio_endio(r, "error") /\ UNCHANGED kmaps

(* The next piece of the request is mapped, or all are moved. *)
NextVec(r) ==
  LET b == bio[r] IN
  /\ b.pc = "iovec"
  /\ \/ b.i > Len(b.vecs) /\ bio_endio(r, "ok") /\ UNCHANGED kmaps
     \/ b.i <= Len(b.vecs) /\ kmaps' = kmaps + 1 /\ UNCHANGED result
        /\ bio' = [bio EXCEPT ![r].pc = "trans", ![r].done = 0]
     \/ b.i <= Len(b.vecs) /\ "kmap" \in Fails /\ Fail(r)
  /\ UNCHANGED <<loaded, bytes, tree, pages, lock, next_seg, nreq>>

-----------------------------------------------------------------------------
(* trans: the part of the piece that lies in one segment. *)
VecLen(b) == b.vecs[b.i] - Ended(b.vecs, b.i)
Seg(b)  == (b.off + b.done) \div SegSectors
Part(b) == LET o == (b.off + b.done) % SegSectors
           IN  [off |-> o, cnt |-> Least(VecLen(b) - b.done, SegSectors - o)]
(* Where the next sector of the request lies in its memory. *)
Base(b) == Ended(b.vecs, b.i) + b.done

VecDone(r) ==
  LET b == bio[r] IN
  /\ b.pc = "trans" /\ b.done = VecLen(b) /\ kmaps' = kmaps - 1
  /\ bio' = [bio EXCEPT ![r].pc = "iovec", ![r].i = @ + 1, ![r].off = @ + b.done, ![r].done = 0]
  /\ UNCHANGED <<result, loaded, bytes, tree, pages, lock, next_seg, nreq>>

ToSegment(r, s) ==
  /\ lock' = r
  /\ bio' = [bio EXCEPT ![r].pc = "oneseg", ![r].this_off = Part(bio[r]).off,
                        ![r].this_cnt = Part(bio[r]).cnt, ![r].copied = 0]
  /\ UNCHANGED <<kmaps, result>>

AtPart(r) == bio[r].pc = "trans" /\ bio[r].done < VecLen(bio[r]) /\ lock = NONE

Present(r) ==
  /\ AtPart(r) /\ Seg(bio[r]) \in DOMAIN tree /\ ToSegment(r, Seg(bio[r]))
  /\ UNCHANGED <<loaded, bytes, tree, pages, next_seg, nreq>>

(* Mutant: the whole of the piece is zeroed, not the part in the segment.  *)
ReadAbsentWhole(r) ==
  LET b == bio[r]
      cnt == VecLen(b) - b.done
  IN
  /\ AtPart(r) /\ Seg(b) \notin DOMAIN tree /\ b.dir = "read"
  /\ bio' = [bio EXCEPT ![r].done = @ + cnt,
               ![r].mem = [k \in DOMAIN @ |-> IF k - Base(b) \in 1..cnt THEN 0 ELSE @[k]]]
  /\ UNCHANGED <<result, loaded, bytes, tree, pages, lock, kmaps, next_seg, nreq>>

(* A read of a segment that was never written. *)
ReadAbsent(r) ==
  LET b == bio[r]
      cnt == Part(b).cnt
  IN
  /\ AtPart(r) /\ Seg(b) \notin DOMAIN tree /\ b.dir = "read"
  /\ bio' = [bio EXCEPT ![r].done = @ + cnt,
               ![r].mem = [k \in DOMAIN @ |-> IF k - Base(b) \in 1..cnt THEN 0 ELSE @[k]]]
  /\ UNCHANGED <<result, loaded, bytes, tree, pages, lock, kmaps, next_seg, nreq>>

ZeroSegment == [pg \in 0..SegPages - 1 |-> [s \in 0..PageSectors - 1 |-> 0]]

AddSegment(seg) == tree' = [s \in DOMAIN tree \cup {seg} |-> IF s = seg THEN ZeroSegment ELSE tree[s]]

(* Mutant: the segment that cannot be inserted is kept. *)
WriteAbsentLeaks(r) ==
  /\ AtPart(r) /\ Seg(bio[r]) \notin DOMAIN tree /\ bio[r].dir = "write"
  /\ \/ AddSegment(Seg(bio[r])) /\ pages' = pages + 1 /\ ToSegment(r, Seg(bio[r]))
     \/ "alloc" \in Fails /\ Fail(r) /\ UNCHANGED <<tree, pages, lock>>
     \/ "insert" \in Fails /\ Fail(r) /\ pages' = pages + 1 /\ UNCHANGED <<tree, lock>>
  /\ UNCHANGED <<loaded, bytes, next_seg, nreq>>

(* The first write to a segment allocates it and inserts it into the tree; *)
(* a segment that cannot be inserted is freed.                             *)
WriteAbsent(r) ==
  /\ AtPart(r) /\ Seg(bio[r]) \notin DOMAIN tree /\ bio[r].dir = "write"
  /\ \/ AddSegment(Seg(bio[r])) /\ pages' = pages + 1 /\ ToSegment(r, Seg(bio[r]))
     \/ Fails \cap {"alloc", "insert"} # {} /\ Fail(r) /\ UNCHANGED <<tree, pages, lock>>
  /\ UNCHANGED <<loaded, bytes, next_seg, nreq>>

-----------------------------------------------------------------------------
(* trans_oneseg: the page of the segment, the sector in the page, and how  *)
(* much of the part lies in the page.                                      *)
PageNo(b)  == (b.this_off + b.copied) \div PageSectors
PageOff(b) == (b.this_off + b.copied) % PageSectors

(* Mutant: the part is not cut at the end of the page.                     *)
PageCntUncut(b) == b.this_cnt - b.copied

PageCnt(b) == Least(b.this_cnt - b.copied, PageSectors - PageOff(b))

(* What the loop copies from or to one page of the segment.                *)
CopyPage(r) ==
  LET b   == bio[r]
      pg  == PageNo(b)
      po  == PageOff(b)
      cnt == PageCnt(b)
      to  == Base(b) + b.copied
      seg == Seg(b)
  IN
  /\ b.pc = "oneseg" /\ b.copied < b.this_cnt
  /\ IF b.dir = "write"
     THEN /\ tree' = [tree EXCEPT ![seg][pg] =
                        [s \in DOMAIN @ |-> IF s - po \in 0..cnt - 1 THEN b.mem[to + 1 + s - po] ELSE @[s]]]
          /\ bio' = [bio EXCEPT ![r].copied = @ + cnt]
     ELSE /\ bio' = [bio EXCEPT ![r].copied = @ + cnt,
                       ![r].mem = [k \in DOMAIN @ |-> IF k - to \in 1..cnt
                                                      THEN tree[seg][pg][po + k - to - 1] ELSE @[k]]]
          /\ UNCHANGED tree
  /\ UNCHANGED <<result, loaded, bytes, pages, lock, kmaps, next_seg, nreq>>

(* Mutant: a page of the segment cannot be mapped, and the lock is kept.   *)
CopyFailsLocked(r) ==
  /\ bio[r].pc = "oneseg" /\ bio[r].copied < bio[r].this_cnt /\ "kmap" \in Fails
  /\ Fail(r) /\ UNCHANGED <<loaded, bytes, tree, pages, lock, next_seg, nreq>>

CopyFails(r) ==
  /\ bio[r].pc = "oneseg" /\ bio[r].copied < bio[r].this_cnt /\ "kmap" \in Fails
  /\ Fail(r) /\ lock' = NONE /\ UNCHANGED <<loaded, bytes, tree, pages, next_seg, nreq>>

PartDone(r) ==
  /\ bio[r].pc = "oneseg" /\ bio[r].copied = bio[r].this_cnt /\ lock' = NONE
  /\ bio' = [bio EXCEPT ![r].pc = "trans", ![r].done = @ + bio[r].copied, ![r].copied = 0,
                        ![r].this_off = 0, ![r].this_cnt = 0]
  /\ UNCHANGED <<result, loaded, bytes, tree, pages, kmaps, next_seg, nreq>>

-----------------------------------------------------------------------------
(* The module is unloaded when nobody uses the disk. *)
Exit ==
  /\ loaded = "yes" /\ \A r \in Requesters : bio[r] = Free
  /\ loaded' = "freeing" /\ next_seg' = 0
  /\ UNCHANGED <<result, bytes, tree, pages, lock, bio, kmaps, nreq>>

(* One round of free_diskmem: up to Gang segments from next_seg on. *)
FreeRound ==
  LET found == {s \in DOMAIN tree : s >= next_seg}
      list  == {s \in found : Cardinality({t \in found : t < s}) < Gang}
  IN
  /\ loaded = "freeing"
  /\ tree' = [s \in DOMAIN tree \ list |-> tree[s]] /\ pages' = pages - Cardinality(list)
  /\ next_seg' = 1 + (IF list = {} THEN next_seg ELSE CHOOSE s \in list : \A t \in list : t <= s)
  /\ loaded' = IF Cardinality(list) = Gang THEN "freeing" ELSE "gone"
  /\ UNCHANGED <<result, bytes, lock, bio, kmaps, nreq>>

-----------------------------------------------------------------------------
Request(r) == NextVec(r) \/ VecDone(r) \/ Present(r) \/ ReadAbsent(r) \/ WriteAbsent(r)
              \/ CopyPage(r) \/ CopyFails(r) \/ PartDone(r)
Next == Load \/ Exit \/ FreeRound \/ \E r \in Requesters : Submit(r) \/ Request(r)

(* A request runs on, and a mutex that is released again and again is      *)
(* given to each task that waits for it.                                   *)
Spec == Init /\ [][Next]_vars /\ \A r \in Requesters : SF_vars(Request(r))

-----------------------------------------------------------------------------
(* Properties. *)

(* The requests see a flat disk: whatever the cuts and whoever else reads  *)
(* and writes, each sector moved is the right one, and reads zero if it    *)
(* was never written; and a request ends as bio_endio says: well when all  *)
(* is moved, with an error when it is beyond the disk or memory ran out.   *)
done_of(b) == b.off - b.start + b.done + b.copied
disk_of ==
  IF loaded # "yes" THEN <<>>
  ELSE [k \in 0..bytes \div SectorSize - 1 |->
          LET s == k \div SegSectors IN
          IF s \in DOMAIN tree
          THEN tree[s][(k % SegSectors) \div PageSectors][k % PageSectors] ELSE 0]
IdleReq == [dir |-> "none", pos |-> 0, len |-> 0, done |-> 0, data |-> <<>>]
req_of(b) ==
  IF b = Free THEN IdleReq
  ELSE [dir |-> b.dir, pos |-> b.start, len |-> Len(b.mem), done |-> done_of(b),
        data |-> IF b.dir = "write" THEN b.mem ELSE SubSeq(b.mem, 1, done_of(b))]

Flat == INSTANCE FlatDisk WITH
          Requesters <- Requesters, Idle <- IdleReq, MayFail <- (Fails # {}),
          disk <- disk_of, req <- [r \in Requesters |-> req_of(bio[r])], result <- result
IsFlatDisk == Flat!Spec

(* Every segment allocated is in the tree, also after a failed insertion,  *)
(* and the unloaded module has freed them all.                             *)
SegmentsFreed == pages = Cardinality(DOMAIN tree) /\ (loaded = "gone" => pages = 0)

(* Every request ends, whoever else fails in the middle of one. *)
RequestsEnd == \A r \in Requesters : bio[r] # Free ~> bio[r] = Free

(* The pages of the requests that have ended are not mapped any more.      *)
MapsReturned == (\A r \in Requesters : bio[r] = Free) => kmaps = 0

=============================================================================
