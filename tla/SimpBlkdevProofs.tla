------------------------- MODULE SimpBlkdevProofs -------------------------
(***************************************************************************)
(* Proofs about the block device.  First: every segment that is allocated  *)
(* is in the tree or given back, and free_diskmem empties the tree,        *)
(* however many segments it holds and however many one lookup returns.     *)
(* Then: the block device implements FlatDisk; whatever the pieces of a    *)
(* request, the segments and the pages are, and whoever else reads and     *)
(* writes, each step moves the sectors of a flat array, or is not seen     *)
(* there.                                                                  *)
(***************************************************************************)
EXTENDS SimpBlkdev, FiniteSetTheorems, SequenceTheorems, WellFoundedInduction, TLAPS

-----------------------------------------------------------------------------
(* Sets of numbers. *)

BoundedSet(S) == S \subseteq Nat /\ \E m \in Nat : \A s \in S : s <= m
Below(S, s) == {t \in S : t < s}

(* A bounded set is finite, and so are its parts. *)
LEMMA BoundedFinite ==
  ASSUME NEW S, BoundedSet(S)
  PROVE  IsFiniteSet(S)
BY FS_BoundedSetOfNaturals DEF BoundedSet

(* What is below a member is smaller than what is below a larger one.      *)
LEMMA BelowGrows ==
  ASSUME NEW S, S \subseteq Nat, NEW s \in S, NEW t \in S, t < s
  PROVE  /\ <<Below(S, t), Below(S, s)>> \in StrictSubsetOrdering(Nat)
         /\ Below(S, t) \cup {t} \subseteq Below(S, s)
<1>1. t \in Below(S, s) /\ t \notin Below(S, t)
  BY DEF Below
<1>2. Below(S, t) \subseteq Below(S, s) /\ Below(S, s) \subseteq Nat
  <2>1. \A u \in S : u \in Nat
    OBVIOUS
  <2>2. ASSUME NEW u \in Below(S, t) PROVE u \in Below(S, s)
    BY <2>1, <2>2 DEF Below
  <2>3. QED
    BY <2>2 DEF Below
<1>3. QED
  BY <1>1, <1>2 DEF StrictSubsetOrdering

(* A set of numbers that is not empty has a least one. *)
LEMMA LeastExists ==
  ASSUME NEW S, S \subseteq Nat, S # {}
  PROVE  \E s \in S : \A t \in S : s <= t
<1> DEFINE T == {Below(S, s) : s \in S}
<1>1. T \subseteq FiniteSubsetsOf(Nat) /\ T # {}
  <2>1. ASSUME NEW s \in S PROVE Below(S, s) \in SUBSET Nat /\ IsFiniteSet(Below(S, s))
    <3>1. BoundedSet(Below(S, s))
      <4>1. Below(S, s) \subseteq Nat
        BY DEF Below
      <4>2. s \in Nat
        OBVIOUS
      <4>3. \A t \in Below(S, s) : t <= s
        BY <4>1, <4>2 DEF Below
      <4>4. QED
        BY <4>1, <4>2, <4>3 DEF BoundedSet
    <3>2. QED
      BY <3>1, BoundedFinite DEF BoundedSet
  <2>2. QED
    BY <2>1 DEF FiniteSubsetsOf
<1>2. PICK x \in T : \A y \in T : <<y, x>> \notin StrictSubsetOrdering(Nat)
  BY <1>1, FS_StrictSubsetOrderingWellFounded, WFMin
<1>3. PICK s \in S : x = Below(S, s)
  BY <1>2
<1>4. ASSUME NEW t \in S, t < s PROVE FALSE
  <2>1. <<Below(S, t), Below(S, s)>> \in StrictSubsetOrdering(Nat)
    BY <1>4, BelowGrows
  <2>2. Below(S, t) \in T
    OBVIOUS
  <2>3. QED
    BY <1>2, <1>3, <2>1, <2>2
<1>5. \A t \in S : t \in Nat
  OBVIOUS
<1>6. QED
  BY <1>3, <1>4, <1>5

(* A bounded set of numbers that is not empty has a greatest one.          *)
LEMMA GreatestExists ==
  ASSUME NEW S, BoundedSet(S), S # {}
  PROVE  \E s \in S : \A t \in S : t <= s
<1> DEFINE U == {u \in Nat : \A t \in S : t <= u}
<1>1. PICK u \in U : \A v \in U : u <= v
  <2>1. U \subseteq Nat /\ U # {}
    BY DEF BoundedSet
  <2>2. QED
    BY <2>1, LeastExists
<1>2. u \in Nat /\ \A t \in S : t \in Nat /\ t <= u
  BY <1>1 DEF BoundedSet
<1>3. ASSUME u \notin S PROVE FALSE
  <2>1. PICK t \in S : t \in Nat
    BY <1>2
  <2>2. t <= u /\ t # u
    BY <2>1, <1>2, <1>3
  <2>3. u - 1 \in Nat
    BY <2>1, <2>2, <1>2
  <2>4. \A v \in S : v <= u - 1
    BY <1>2, <1>3
  <2>5. u - 1 \in U
    BY <2>3, <2>4
  <2>6. QED
    BY <1>1, <1>2, <2>5
<1>4. QED
  BY <1>2, <1>3

-----------------------------------------------------------------------------
(* One round of free_diskmem. *)

Found(S, n)    == {s \in S : s >= n}
Gangful(S)     == {s \in S : Cardinality(Below(S, s)) < Gang}

(* A lookup returns a beginning of what is there: all of it if it is less  *)
(* than what fits, and what remains lies behind.                           *)
LEMMA GangfulFacts ==
  ASSUME NEW S, BoundedSet(S)
  PROVE  /\ Gangful(S) \subseteq S /\ IsFiniteSet(Gangful(S))
         /\ Cardinality(Gangful(S)) # Gang => Gangful(S) = S
         /\ \A s \in S \ Gangful(S), t \in Gangful(S) : t < s
<1> DEFINE G == Gangful(S)
<1>1. S \subseteq Nat /\ IsFiniteSet(S) /\ Gang \in Nat /\ Gang > 0 /\ \A s \in S : s \in Nat
  <2>1. Gang \in Nat \ {0}
    BY BlkdevAssumption
  <2>2. S \subseteq Nat /\ \A s \in S : s \in Nat
    BY DEF BoundedSet
  <2>3. IsFiniteSet(S)
    BY BoundedFinite
  <2>4. Gang > 0
    BY <2>1
  <2>5. QED
    BY <2>1, <2>2, <2>3, <2>4
<1>2. G \subseteq S /\ IsFiniteSet(G) /\ BoundedSet(G)
  BY <1>1, FS_Subset DEF Gangful, BoundedSet
<1>3. ASSUME NEW s \in S PROVE IsFiniteSet(Below(S, s)) /\ Cardinality(Below(S, s)) \in Nat
  <2>1. Below(S, s) \in SUBSET S
    BY DEF Below
  <2>2. QED
    BY <1>1, <2>1, FS_Subset, FS_CardinalityType
<1>4. ASSUME NEW s \in S \ G, NEW t \in G PROVE t < s
  <2>1. Cardinality(Below(S, s)) >= Gang /\ Cardinality(Below(S, t)) < Gang
    BY <1>1, <1>2, <1>3 DEF Gangful
  <2>2. ASSUME s < t PROVE FALSE
    <3>1. Below(S, s) \in SUBSET Below(S, t)
      BY <1>2, <1>1, <2>2, BelowGrows
    <3>2. Cardinality(Below(S, s)) <= Cardinality(Below(S, t))
      BY <1>2, <1>3, <3>1, FS_Subset
    <3>3. s \in S /\ t \in S
      BY <1>2
    <3>4. QED
      BY <1>1, <1>3, <2>1, <3>2, <3>3
  <2>3. s \in Nat /\ t \in Nat /\ s # t
    BY <1>1, <1>2
  <2>4. QED
    BY <2>2, <2>3
<1>5. Cardinality(G) <= Gang
  <2>1. CASE G = {}
    BY <1>1, <2>1, FS_EmptySet
  <2>2. CASE G # {}
    <3>1. PICK g \in G : \A t \in G : t <= g
      BY <1>2, <2>2, GreatestExists
    <3>2. G \ {g} \in SUBSET Below(S, g)
      <4>1. ASSUME NEW t \in G \ {g} PROVE t \in S /\ t \in Nat /\ g \in Nat /\ t <= g /\ t # g
        BY <1>1, <1>2, <3>1
      <4>2. QED
        BY <4>1 DEF Below
    <3>3. Cardinality(G \ {g}) <= Cardinality(Below(S, g))
      BY <1>2, <1>3, <3>1, <3>2, FS_Subset
    <3>4. Cardinality(Below(S, g)) < Gang
      BY <3>1 DEF Gangful
    <3>5. Cardinality(G \ {g}) = Cardinality(G) - 1 /\ Cardinality(G) \in Nat
      BY <1>2, <3>1, FS_RemoveElement, FS_CardinalityType
    <3>6. QED
      <4>1. Cardinality(Below(S, g)) \in Nat
        BY <1>2, <1>3
      <4>2. QED
        BY <1>1, <3>3, <3>4, <3>5, <4>1
  <2>3. QED
    BY <2>1, <2>2
<1>6. ASSUME S # G PROVE Cardinality(G) >= Gang
  <2>1. PICK s \in S \ G : TRUE
    BY <1>2, <1>6
  <2>2. PICK l \in S \ G : \A t \in S \ G : l <= t
    <3>1. S \ G \subseteq Nat /\ S \ G # {}
      BY <1>1, <2>1
    <3>2. QED
      BY <3>1, LeastExists
  <2>3. Below(S, l) \in SUBSET G
    <3>1. ASSUME NEW t \in Below(S, l), t \notin G PROVE FALSE
      <4>1. t \in S \ G /\ t < l /\ t \in Nat /\ l \in Nat
        BY <1>1, <2>2, <3>1 DEF Below
      <4>2. l <= t
        BY <2>2, <4>1
      <4>3. QED
        BY <4>1, <4>2
    <3>2. QED
      BY <3>1
  <2>4. Cardinality(Below(S, l)) <= Cardinality(G)
    BY <1>2, <2>3, FS_Subset
  <2>5. Cardinality(Below(S, l)) >= Gang
    BY <1>1, <1>3, <2>2 DEF Gangful
  <2>6. Cardinality(G) \in Nat
    BY <1>2, FS_CardinalityType
  <2>7. QED
    BY <1>1, <1>3, <2>2, <2>4, <2>5, <2>6
<1>7. Cardinality(G) \in Nat
  BY <1>2, FS_CardinalityType
<1>8. QED
  BY <1>1, <1>2, <1>4, <1>5, <1>6, <1>7

-----------------------------------------------------------------------------
(* The requests. *)

(* A request is somewhere in its list of pieces. *)
RequestType(b) ==
  /\ DOMAIN b = DOMAIN Free
  /\ b.pc \in {"idle", "iovec", "trans", "oneseg"}
  /\ b.off \in Nat /\ b.done \in Nat /\ b.this_off \in Nat /\ b.this_cnt \in Nat /\ b.copied \in Nat
  /\ b.pc # "idle" => b.vecs \in Vecs /\ b.i \in Nat \ {0}
  /\ b.pc \in {"trans", "oneseg"} => b.i <= Len(b.vecs)
Requests == DOMAIN bio = Requesters /\ \A r \in Requesters : RequestType(bio[r])

(* A step of one request leaves the others alone. *)
LEMMA OneRequest ==
  ASSUME Requests, NEW r \in Requesters, DOMAIN bio' = Requesters,
         \A q \in Requesters \ {r} : bio'[q] = bio[q], RequestType(bio'[r])
  PROVE  Requests'
BY DEF Requests

(* Between two requests. *)
LEMMA FreeType == RequestType(Free)
BY DEF RequestType, Free

(* The geometry of the disk. *)
LEMMA Geometry ==
  /\ PageSectors \in Nat \ {0} /\ SegPages \in Nat \ {0} /\ SegSectors \in Nat \ {0}
  /\ SectorSize \in Nat \ {0} /\ SectorRange \in Nat \ {0} /\ LongRange \in Nat \ {0}
<1>1. PageSectors \in Nat \ {0} /\ SegPages \in Nat \ {0}
  BY BlkdevAssumption
<1>2. SectorSize \in Nat \ {0} /\ SectorRange \in Nat \ {0} /\ LongRange \in Nat \ {0}
  BY BlkdevAssumption
<1>3. SegSectors \in Nat \ {0}
  BY <1>1 DEF SegSectors
<1>4. QED
  BY <1>1, <1>2, <1>3

(* The pieces of a request lie behind each other. *)
LEMMA Pieces ==
  ASSUME NEW v \in Vecs
  PROVE  /\ v \in Seq(Nat) /\ Len(v) \in Nat \ {0} /\ Ended(v, 1) = 0
         /\ Total(v) \in Nat /\ Total(v) > 0
         /\ \A i \in 1..Len(v) + 1 : Ended(v, i) \in Nat /\ Ended(v, i) <= Total(v)
         /\ \A i \in 1..Len(v) :
              /\ Ended(v, i + 1) = v[i] /\ v[i] \in Nat /\ v[i] <= Total(v)
              /\ v[i] - Ended(v, i) \in Nat \ {0}
<1>1. v \in Seq(Nat) /\ v # <<>>
  BY BlkdevAssumption
<1>2. Len(v) \in Nat \ {0} /\ \A i \in 1..Len(v) : v[i] \in Nat
  BY <1>1
<1>3. \A i \in 1..Len(v) : v[i] - Ended(v, i) \in 1..PageSectors /\ \A j \in 1..i : v[j] <= v[i]
  BY BlkdevAssumption
<1>4. Ended(v, 1) = 0 /\ \A i \in 1..Len(v) : Ended(v, i + 1) = v[i]
  BY <1>2 DEF Ended
<1>5. Total(v) = v[Len(v)] /\ Len(v) \in 1..Len(v)
  BY <1>2, <1>4 DEF Total
<1>6. \A i \in 1..Len(v) : v[i] <= Total(v) /\ v[i] - Ended(v, i) \in Nat \ {0}
  BY <1>2, <1>3, <1>5, Geometry
<1>7. Total(v) \in Nat
  BY <1>2, <1>5
<1>8. ASSUME NEW i \in 1..Len(v) + 1 PROVE Ended(v, i) \in Nat /\ Ended(v, i) <= Total(v)
  <2>1. CASE i = 1
    BY <1>4, <1>7, <2>1
  <2>2. CASE i # 1
    <3>1. i - 1 \in 1..Len(v) /\ Ended(v, i) = v[i - 1]
      BY <1>2, <2>2 DEF Ended
    <3>2. QED
      BY <1>2, <1>6, <3>1
  <2>3. QED
    BY <2>1, <2>2
<1>9. Total(v) > 0
  <2>1. v[1] \in Nat \ {0} /\ v[1] <= Total(v)
    <3>1. 1 \in 1..Len(v)
      BY <1>2
    <3>2. v[1] - Ended(v, 1) \in Nat \ {0} /\ v[1] <= Total(v)
      BY <1>6, <3>1
    <3>3. QED
      BY <1>2, <1>4, <3>1, <3>2
  <2>2. QED
    BY <1>7, <2>1
<1>10. QED
  BY <1>1, <1>2, <1>4, <1>6, <1>7, <1>8, <1>9

(* The segment of the next part is a number, and so is what lies in it,    *)
(* which is at least a sector.                                             *)
LEMMA PartFacts ==
  ASSUME NEW b, RequestType(b), b.pc = "trans", b.done < VecLen(b)
  PROVE  /\ Seg(b) \in Nat /\ Part(b).off = (b.off + b.done) % SegSectors /\ Part(b).off \in Nat
         /\ Part(b).cnt \in Nat \ {0} /\ Part(b).cnt <= VecLen(b) - b.done
         /\ Part(b).cnt <= SegSectors - Part(b).off
<1> DEFINE k == SegSectors
           a == b.off + b.done
           l == VecLen(b) - b.done
<1>1. k \in Nat \ {0} /\ a \in Nat
  BY Geometry DEF RequestType
<1>2. l \in Nat \ {0}
  <2>1. b.vecs \in Vecs /\ b.i \in 1..Len(b.vecs) /\ b.done \in Nat
    BY Pieces DEF RequestType
  <2>2. VecLen(b) \in Nat
    BY <2>1, Pieces DEF VecLen
  <2>3. QED
    BY <2>1, <2>2
<1>3. Seg(b) = a \div k /\ Part(b) = [off |-> a % k, cnt |-> Least(l, k - (a % k))]
  BY Zenon DEF Seg, Part
<1> HIDE DEF k, a, l
<1>4. a \div k \in Nat /\ a % k \in 0..(k - 1)
  BY <1>1
<1>5. a % k \in Nat /\ k - (a % k) \in Nat \ {0} /\ l \in Nat
  BY <1>1, <1>2, <1>4
<1>6. Least(l, k - (a % k)) \in Nat \ {0} /\ Least(l, k - (a % k)) <= l /\ Least(l, k - (a % k)) <= k - (a % k)
  <2> DEFINE x == k - (a % k)
  <2>1. x \in Nat \ {0}
    BY <1>5
  <2> HIDE DEF x
  <2>2. Least(l, x) \in Nat \ {0} /\ Least(l, x) <= l /\ Least(l, x) <= x
    BY <1>2, <2>1 DEF Least
  <2>3. QED
    BY <2>2 DEF x
<1>7. Part(b).off = a % k /\ Part(b).cnt = Least(l, k - (a % k))
  BY <1>3
<1>8. QED
  BY <1>3, <1>4, <1>5, <1>6, <1>7 DEF k, a, l

-----------------------------------------------------------------------------
(* The inductive invariant. *)

TreeInv ==
  /\ BoundedSet(DOMAIN tree)
  /\ pages = Cardinality(DOMAIN tree)
LifeInv ==
  /\ loaded \in {"new", "yes", "freeing", "gone"}
  /\ loaded # "yes" => \A r \in Requesters : bio[r] = Free
  /\ loaded \in {"new", "gone"} => DOMAIN tree = {}
  /\ loaded = "freeing" => next_seg \in Nat /\ \A s \in DOMAIN tree : next_seg <= s
IInv == Requests /\ TreeInv /\ LifeInv

(* Before the module is loaded. *)
LEMMA InitIInv == Init => IInv
<1> SUFFICES ASSUME Init PROVE IInv
  OBVIOUS
<1>1. DOMAIN tree = {} /\ pages = 0
  BY DEF Init
<1>2. TreeInv
  <2>1. BoundedSet({})
    BY DEF BoundedSet
  <2>2. QED
    BY <1>1, <2>1, FS_EmptySet DEF TreeInv
<1>3. Requests
  BY FreeType DEF Init, Requests
<1>4. LifeInv
  BY <1>1 DEF Init, LifeInv
<1>5. QED
  BY <1>2, <1>3, <1>4 DEF IInv

(* Every step of a request leaves it a request, and takes segments only    *)
(* into the tree.                                                          *)
LEMMA RequestStep ==
  ASSUME IInv, NEW r \in Requesters, Request(r)
  PROVE  IInv'
<1> DEFINE b == bio[r]
<1>1. RequestType(bio[r]) /\ DOMAIN bio = Requesters
  BY DEF IInv, Requests
<1>2. bio[r].pc # "idle" /\ UNCHANGED loaded
  BY DEF Request, NextVec, VecDone, Present, ReadAbsent, WriteAbsent, CopyPage, CopyFails, PartDone, AtPart
<1>3. loaded = "yes"
  BY <1>2 DEF IInv, LifeInv, Free
<1>4. LifeInv'
  BY <1>2, <1>3 DEF LifeInv
<1>5. DOMAIN bio' = Requesters /\ \A q \in Requesters \ {r} : bio'[q] = bio[q]
  BY <1>1 DEF Request, NextVec, VecDone, Present, ReadAbsent, WriteAbsent, CopyPage, CopyFails, PartDone, AtPart,
     ToSegment, Fail, bio_endio
<1>6. CASE NextVec(r)
  <2>1. RequestType(bio'[r])
    <3>1. CASE bio' = [bio EXCEPT ![r] = Free]
      BY <1>1, <3>1, FreeType
    <3>2. CASE b.pc = "iovec" /\ b.i <= Len(b.vecs) /\ bio' = [bio EXCEPT ![r].pc = "trans", ![r].done = 0]
      BY <1>1, <3>2 DEF RequestType
    <3>3. QED
      BY <1>6, <3>1, <3>2 DEF NextVec, Fail, bio_endio
  <2>2. UNCHANGED <<tree, pages>>
    BY <1>6 DEF NextVec
  <2>3. QED
    BY <1>4, <1>5, <2>1, <2>2, OneRequest DEF IInv, TreeInv
<1>7. CASE VecDone(r)
  <2>1. RequestType(bio'[r])
    BY <1>1, <1>2, <1>7 DEF VecDone, RequestType
  <2>2. UNCHANGED <<tree, pages>>
    BY <1>7 DEF VecDone
  <2>3. QED
    BY <1>4, <1>5, <2>1, <2>2, OneRequest DEF IInv, TreeInv
<1>8. ASSUME AtPart(r) PROVE Seg(bio[r]) \in Nat /\ Part(bio[r]).off \in Nat /\ Part(bio[r]).cnt \in Nat
  BY <1>1, <1>8, PartFacts DEF AtPart
<1>9. ASSUME AtPart(r), ToSegment(r, Seg(bio[r])) PROVE RequestType(bio'[r])
  <2>1. Part(bio[r]).off \in Nat /\ Part(bio[r]).cnt \in Nat
    BY <1>8, <1>9
  <2>2. QED
    BY <1>1, <1>9, <2>1 DEF AtPart, ToSegment, RequestType
<1>10. CASE Present(r)
  <2>1. RequestType(bio'[r])
    BY <1>9, <1>10 DEF Present
  <2>2. UNCHANGED <<tree, pages>>
    BY <1>10 DEF Present
  <2>3. QED
    BY <1>4, <1>5, <2>1, <2>2, OneRequest DEF IInv, TreeInv
<1>11. CASE ReadAbsent(r)
  <2>1. RequestType(bio'[r])
    <3>1. Part(bio[r]).cnt \in Nat
      BY <1>8, <1>11 DEF ReadAbsent
    <3>2. QED
      BY <1>1, <1>11, <3>1 DEF ReadAbsent, AtPart, RequestType
  <2>2. UNCHANGED <<tree, pages>>
    BY <1>11 DEF ReadAbsent
  <2>3. QED
    BY <1>4, <1>5, <2>1, <2>2, OneRequest DEF IInv, TreeInv
<1>12. CASE WriteAbsent(r)
  <2>1. RequestType(bio'[r])
    BY <1>1, <1>5, <1>9, <1>12, FreeType DEF WriteAbsent, Fail, bio_endio
  <2>2. CASE UNCHANGED <<tree, pages>>
    BY <1>4, <1>5, <2>1, <2>2, OneRequest DEF IInv, TreeInv
  <2>3. CASE AddSegment(Seg(bio[r])) /\ pages' = pages + 1
    <3> DEFINE s == Seg(bio[r])
    <3>1. s \in Nat /\ s \notin DOMAIN tree
      BY <1>8, <1>12 DEF WriteAbsent
    <3>2. DOMAIN tree' = DOMAIN tree \cup {s}
      BY <2>3 DEF AddSegment
    <3> HIDE DEF s
    <3>3. BoundedSet(DOMAIN tree')
      <4>1. PICK m \in Nat : \A t \in DOMAIN tree : t <= m
        BY DEF IInv, TreeInv, BoundedSet
      <4>2. \A t \in DOMAIN tree' : t \in Nat /\ t <= m + s
        BY <3>1, <3>2, <4>1 DEF IInv, TreeInv, BoundedSet
      <4>3. m + s \in Nat
        BY <3>1
      <4>4. QED
        BY <4>2, <4>3 DEF BoundedSet
    <3>4. pages' = Cardinality(DOMAIN tree')
      BY <2>3, <3>1, <3>2, BoundedFinite, FS_AddElement DEF IInv, TreeInv
    <3>5. QED
      BY <1>4, <1>5, <2>1, <3>3, <3>4, OneRequest DEF IInv, TreeInv
  <2>4. QED
    BY <1>12, <2>2, <2>3 DEF WriteAbsent
<1>13. CASE CopyPage(r)
  <2>1. RequestType(bio'[r])
    <3>1. ASSUME NEW c \in Nat, NEW t \in Nat, NEW p \in Nat, c < t
          PROVE  c + Least(t - c, PageSectors - (p % PageSectors)) \in Nat
      <4>1. PageSectors \in Nat \ {0}
        BY BlkdevAssumption
      <4>2. p % PageSectors \in 0..(PageSectors - 1)
        BY <4>1
      <4>3. QED
        BY <3>1, <4>1, <4>2 DEF Least
    <3> DEFINE cnt == Least(b.this_cnt - b.copied, PageSectors - ((b.this_off + b.copied) % PageSectors))
    <3>2. b.copied + cnt \in Nat
      BY <1>1, <1>13, <3>1 DEF CopyPage, PageOff, PageCnt, RequestType
    <3>3. /\ DOMAIN bio'[r] = DOMAIN b /\ bio'[r].copied = b.copied + cnt
          /\ bio'[r].pc = b.pc /\ bio'[r].vecs = b.vecs /\ bio'[r].i = b.i /\ bio'[r].off = b.off
          /\ bio'[r].done = b.done /\ bio'[r].this_off = b.this_off /\ bio'[r].this_cnt = b.this_cnt
      <4> HIDE DEF cnt
      <4>1. \/ bio' = [bio EXCEPT ![r].copied = @ + cnt]
            \/ \E m : bio' = [bio EXCEPT ![r].copied = @ + cnt, ![r].mem = m]
        BY <1>13 DEF CopyPage, PageOff, PageCnt, cnt
      <4>2. DOMAIN bio[r] = DOMAIN Free
        BY <1>1 DEF RequestType
      <4>3. QED
        BY <1>1, <4>1, <4>2 DEF Free
    <3>4. QED
      BY <1>1, <3>2, <3>3 DEF RequestType
  <2>2. UNCHANGED pages /\ DOMAIN tree' = DOMAIN tree
    BY <1>13 DEF CopyPage
  <2>3. QED
    BY <1>4, <1>5, <2>1, <2>2, OneRequest DEF IInv, TreeInv
<1>14. CASE CopyFails(r)
  <2>1. RequestType(bio'[r])
    BY <1>1, <1>14, FreeType DEF CopyFails, Fail, bio_endio
  <2>2. UNCHANGED <<tree, pages>>
    BY <1>14 DEF CopyFails
  <2>3. QED
    BY <1>4, <1>5, <2>1, <2>2, OneRequest DEF IInv, TreeInv
<1>15. CASE PartDone(r)
  <2>1. RequestType(bio'[r])
    BY <1>1, <1>15 DEF PartDone, RequestType
  <2>2. UNCHANGED <<tree, pages>>
    BY <1>15 DEF PartDone
  <2>3. QED
    BY <1>4, <1>5, <2>1, <2>2, OneRequest DEF IInv, TreeInv
<1>16. QED
  BY <1>6, <1>7, <1>10, <1>11, <1>12, <1>13, <1>14, <1>15 DEF Request

(* A round of free_diskmem frees what it finds, and the last one finds all.*)
LEMMA FreeRoundStep ==
  ASSUME IInv, FreeRound
  PROVE  IInv'
<1> DEFINE S    == DOMAIN tree
           list == {s \in {u \in S : u >= next_seg} :
                      Cardinality({t \in {u \in S : u >= next_seg} : t < s}) < Gang}
<1>1. BoundedSet(S) /\ pages = Cardinality(S) /\ IsFiniteSet(S)
  BY BoundedFinite DEF IInv, TreeInv
<1>2. next_seg \in Nat /\ \A s \in S : s \in Nat /\ next_seg <= s
  BY <1>1 DEF IInv, LifeInv, FreeRound, BoundedSet
<1>3. {u \in S : u >= next_seg} = S
  BY <1>2
<1>4. list = Gangful(S)
  BY <1>3 DEF Gangful, Below
<1>5. /\ loaded = "freeing" /\ UNCHANGED bio
      /\ tree' = [s \in S \ list |-> tree[s]] /\ pages' = pages - Cardinality(list)
      /\ next_seg' = 1 + (IF list = {} THEN next_seg ELSE CHOOSE s \in list : \A t \in list : t <= s)
      /\ loaded' = IF Cardinality(list) = Gang THEN "freeing" ELSE "gone"
  BY DEF FreeRound
<1> HIDE DEF list
<1>6. /\ list \subseteq S /\ IsFiniteSet(list)
      /\ Cardinality(list) # Gang => list = S
      /\ \A s \in S \ list, t \in list : t < s
  BY <1>1, <1>4, GangfulFacts
<1>7. DOMAIN tree' = S \ list
  BY <1>5
<1>8. TreeInv'
  <2>1. BoundedSet(S \ list)
    BY <1>1 DEF BoundedSet
  <2>2. Cardinality(S \ list) = Cardinality(S) - Cardinality(list)
    <3>1. S \cap list = list
      BY <1>6
    <3>2. QED
      BY <1>1, <3>1, FS_Difference
  <2>3. QED
    BY <1>1, <1>5, <1>7, <2>1, <2>2 DEF TreeInv
<1>9. LifeInv'
  <2>1. loaded' \in {"freeing", "gone"}
    BY <1>5
  <2>2. \A r \in Requesters : bio'[r] = Free
    BY <1>5 DEF IInv, LifeInv
  <2>3. ASSUME loaded' = "gone" PROVE DOMAIN tree' = {}
    BY <1>5, <1>6, <1>7, <2>3
  <2>4. ASSUME loaded' = "freeing" PROVE next_seg' \in Nat /\ \A s \in DOMAIN tree' : next_seg' <= s
    <3>1. list # {}
      <4>1. Gang \in Nat \ {0}
        BY BlkdevAssumption
      <4>2. Cardinality(list) = Gang
        BY <1>5, <2>4
      <4>3. QED
        BY <4>1, <4>2, FS_EmptySet
    <3>2. BoundedSet(list)
      BY <1>1, <1>6 DEF BoundedSet
    <3>3. \E s \in list : \A t \in list : t <= s
      BY <3>1, <3>2, GreatestExists
    <3> DEFINE m == CHOOSE s \in list : \A t \in list : t <= s
    <3>4. m \in list
      BY <3>3
    <3> HIDE DEF m
    <3>5. next_seg' = 1 + m
      BY <1>5, <3>1 DEF m
    <3>6. m \in Nat
      BY <1>2, <1>6, <3>4
    <3>7. ASSUME NEW s \in S \ list PROVE 1 + m <= s
      <4>1. s \in Nat /\ m < s
        BY <1>2, <1>6, <3>4
      <4>2. QED
        BY <3>6, <4>1
    <3>8. QED
      BY <1>7, <3>5, <3>6, <3>7
  <2>5. QED
    BY <2>1, <2>2, <2>3, <2>4 DEF LifeInv
<1>10. Requests'
  BY <1>5 DEF IInv, Requests
<1>11. QED
  BY <1>8, <1>9, <1>10 DEF IInv

(* Loading, requests, unloading, and the rounds of free_diskmem.           *)
LEMMA NextStep ==
  ASSUME IInv, [Next]_vars
  PROVE  IInv'
<1>1. CASE Load
  <2>1. UNCHANGED <<bio, tree, pages>> /\ loaded = "new" /\ loaded' \in {"yes", "gone"}
    BY <1>1 DEF Load
  <2>2. QED
    BY <2>1 DEF IInv, Requests, TreeInv, LifeInv
<1>2. CASE Exit
  <2>1. UNCHANGED <<bio, tree, pages>> /\ loaded' = "freeing" /\ next_seg' = 0 /\ \A r \in Requesters : bio[r] = Free
    BY <1>2 DEF Exit
  <2>2. \A s \in DOMAIN tree : s \in Nat
    BY DEF IInv, TreeInv, BoundedSet
  <2>3. QED
    BY <2>1, <2>2 DEF IInv, Requests, TreeInv, LifeInv
<1>3. CASE FreeRound
  BY <1>3, FreeRoundStep
<1>4. ASSUME NEW r \in Requesters, Submit(r) PROVE IInv'
  <2>1. DOMAIN bio = Requesters /\ RequestType(bio[r])
    BY DEF IInv, Requests
  <2>2. UNCHANGED <<loaded, tree, pages>> /\ loaded = "yes" /\ bio[r] = Free
    BY <1>4 DEF Submit
  <2>3. PICK dir \in {"read", "write"}, s \in Starts, v \in Vecs :
          bio' = bio \/ bio' = [bio EXCEPT ![r] = New(dir, s, v)]
    BY <1>4 DEF Submit
  <2>4. DOMAIN bio' = Requesters /\ \A q \in Requesters \ {r} : bio'[q] = bio[q]
    BY <2>1, <2>3
  <2>5. RequestType(bio'[r])
    <3>1. Address(s) \div SectorSize \in Nat
      <4>1. SectorSize \in Nat \ {0} /\ SectorRange \in Nat \ {0} /\ s \in Nat
        BY BlkdevAssumption
      <4>2. s * SectorSize \in Nat
        BY <4>1
      <4>3. ASSUME NEW a \in Nat, NEW k \in Nat \ {0} PROVE a % k \in Nat /\ a \div k \in Nat
        OBVIOUS
      <4>4. QED
        BY <4>1, <4>2, <4>3 DEF Address
    <3>2. RequestType(New(dir, s, v))
      <4> DEFINE off == Address(s) \div SectorSize
                 mem == [k \in 1..Total(v) |-> IF dir = "write" THEN k ELSE NONE]
                 b   == New(dir, s, v)
      <4> HIDE DEF off, mem
      <4>1. b = [Free EXCEPT !.pc = "iovec", !.dir = dir, !.start = s, !.vecs = v, !.i = 1, !.off = off, !.mem = mem]
        BY DEF New, off, mem
      <4>2. off \in Nat
        BY <3>1 DEF off
      <4> HIDE DEF b
      <4>3. /\ DOMAIN b = DOMAIN Free /\ b.pc = "iovec" /\ b.off = off /\ b.vecs = v /\ b.i = 1
            /\ b.done = 0 /\ b.this_off = 0 /\ b.this_cnt = 0 /\ b.copied = 0
        BY <4>1 DEF Free
      <4>4. RequestType(b)
        BY <4>2, <4>3 DEF RequestType
      <4>5. QED
        BY <4>4 DEF b
    <3>3. QED
      BY <2>1, <2>3, <3>2
  <2>6. QED
    BY <2>2, <2>4, <2>5, OneRequest DEF IInv, TreeInv, LifeInv
<1>5. ASSUME NEW r \in Requesters, Request(r) PROVE IInv'
  BY <1>5, RequestStep
<1>6. CASE UNCHANGED vars
  BY <1>6 DEF vars, IInv, Requests, TreeInv, LifeInv
<1>7. QED
  BY <1>1, <1>2, <1>3, <1>4, <1>5, <1>6 DEF Next

(* The invariant holds of every run of the device. *)
THEOREM Invariance == Spec => []IInv
BY InitIInv, NextStep, PTL DEF Spec

(* No segment is lost by a failed allocation or insertion, and the module  *)
(* that is gone has freed them all, though it looks them up in gangs and   *)
(* stops at the first that is not full.                                    *)
THEOREM SegmentsAllFreed == Spec => []SegmentsFreed
<1>1. IInv => SegmentsFreed
  BY FS_EmptySet DEF IInv, TreeInv, LifeInv, SegmentsFreed
<1>2. QED
  BY <1>1, Invariance, PTL

-----------------------------------------------------------------------------
(* Where a sector of the disk lies. *)

SegOf(k)  == k \div SegSectors
PageOf(k) == (k % SegSectors) \div PageSectors
InPage(k) == k % PageSectors

(* Quotients and remainders. *)
LEMMA Division ==
  ASSUME NEW q \in Nat, NEW d \in Nat \ {0}, NEW e \in Nat, e < d
  PROVE  (q * d + e) \div d = q /\ (q * d + e) % d = e
OBVIOUS

(* A number is its quotient and its remainder. *)
LEMMA DivisionParts ==
  ASSUME NEW a \in Nat, NEW d \in Nat \ {0}
  PROVE  /\ a \div d \in Nat /\ a % d \in Nat /\ a % d < d
         /\ a = (a \div d) * d + (a % d)
OBVIOUS

(* A quotient stays below what the number stays below. *)
LEMMA DivisionLess ==
  ASSUME NEW a \in Nat, NEW d \in Nat \ {0}, NEW n \in Nat, a < n * d
  PROVE  a \div d < n
OBVIOUS

(* A sector is where its segment, its page and its place in the page say,  *)
LEMMA Place ==
  ASSUME NEW k \in Nat
  PROVE  /\ SegOf(k) \in Nat /\ PageOf(k) \in 0..SegPages - 1 /\ InPage(k) \in 0..PageSectors - 1
         /\ k = SegOf(k) * SegSectors + PageOf(k) * PageSectors + InPage(k)
<1> DEFINE x == k % SegSectors
<1>1. SegOf(k) \in Nat /\ x \in Nat /\ x < SegSectors /\ k = SegOf(k) * SegSectors + x
  BY Geometry, DivisionParts DEF SegOf
<1> HIDE DEF x
<1>2. PageOf(k) \in Nat /\ x % PageSectors \in Nat /\ x % PageSectors < PageSectors
      /\ x = PageOf(k) * PageSectors + (x % PageSectors)
  BY <1>1, Geometry, DivisionParts DEF PageOf, x
<1>3. PageOf(k) < SegPages
  <2>1. x < SegPages * PageSectors
    <3>1. SegSectors = SegPages * PageSectors
      BY Geometry DEF SegSectors
    <3>2. QED
      BY <1>1, <3>1
  <2>2. QED
    BY <1>1, <2>1, Geometry, DivisionLess DEF PageOf, x
<1>4. InPage(k) = x % PageSectors
  <2> DEFINE q == SegOf(k) * SegPages + PageOf(k)
             e == x % PageSectors
  <2>1. q \in Nat
    BY <1>1, <1>2, Geometry
  <2>2. k = q * PageSectors + e
    <3>1. SegOf(k) * SegSectors = (SegOf(k) * SegPages) * PageSectors
      BY <1>1, Geometry DEF SegSectors
    <3>2. q * PageSectors = (SegOf(k) * SegPages) * PageSectors + PageOf(k) * PageSectors
      <4>1. SegOf(k) * SegPages \in Nat
        BY <1>1, Geometry
      <4>2. QED
        BY <4>1, <1>2, Geometry
    <3> DEFINE A == (SegOf(k) * SegPages) * PageSectors
               B == PageOf(k) * PageSectors
    <3>3. A \in Nat /\ B \in Nat /\ q * PageSectors = A + B /\ k = A + x /\ x = B + e /\ e \in Nat
      <4>1. SegOf(k) * SegPages \in Nat
        BY <1>1, Geometry
      <4>2. A \in Nat /\ B \in Nat
        BY <1>2, <4>1, Geometry
      <4>3. QED
        BY <1>1, <1>2, <3>1, <3>2, <4>2
    <3> HIDE DEF A, B, q, e
    <3>4. QED
      BY <3>3
  <2> HIDE DEF q, e
  <2>3. e \in Nat /\ e < PageSectors
    BY <1>2 DEF e
  <2>4. k % PageSectors = e
    BY <2>1, <2>2, <2>3, Geometry, Division
  <2>5. QED
    BY <2>4 DEF InPage, e
<1>5. QED
  BY <1>1, <1>2, <1>3, <1>4, Geometry

(* and nowhere else. *)
LEMMA PlaceUnique ==
  ASSUME NEW s \in Nat, NEW p \in 0..SegPages - 1, NEW t \in 0..PageSectors - 1,
         NEW k \in Nat, k = s * SegSectors + p * PageSectors + t
  PROVE  SegOf(k) = s /\ PageOf(k) = p /\ InPage(k) = t
<1>1. p \in Nat /\ t \in Nat /\ t < PageSectors /\ p <= SegPages - 1
  BY Geometry
<1>2. p * PageSectors + t \in Nat /\ p * PageSectors + t < SegSectors
  <2>1. p * PageSectors \in Nat
    BY <1>1, Geometry
  <2>2. p * PageSectors + PageSectors <= SegSectors
    <3>1. (p + 1) * PageSectors <= SegPages * PageSectors
      <4>1. p + 1 \in Nat /\ p + 1 <= SegPages
        BY <1>1, Geometry
      <4>2. ASSUME NEW a \in Nat, NEW b \in Nat, NEW d \in Nat, a <= b PROVE a * d <= b * d
        BY <4>2
      <4>3. QED
        BY <4>1, <4>2, Geometry
    <3>2. (p + 1) * PageSectors = p * PageSectors + PageSectors
      BY <1>1, Geometry
    <3>3. SegPages * PageSectors = SegSectors
      BY Geometry DEF SegSectors
    <3>4. QED
      BY <3>1, <3>2, <3>3
  <2>3. QED
    BY <1>1, <2>1, <2>2, Geometry
<1> DEFINE x == p * PageSectors + t
<1>3. k = s * SegSectors + x
  <2>1. s * SegSectors \in Nat /\ p * PageSectors \in Nat
    BY <1>1, Geometry
  <2>2. QED
    BY <1>1, <2>1
<1>4. k \div SegSectors = s /\ k % SegSectors = x
  <2> HIDE DEF x
  <2>1. x \in Nat /\ x < SegSectors
    BY <1>2 DEF x
  <2>2. QED
    BY <1>3, <2>1, Geometry, Division
<1>5. PageOf(k) = p
  BY <1>1, <1>4, Geometry, Division DEF PageOf
<1>6. InPage(k) = t
  <2>1. InPage(k) \in 0..PageSectors - 1 /\ k = SegOf(k) * SegSectors + PageOf(k) * PageSectors + InPage(k)
    BY Place
  <2>2. SegOf(k) = s
    BY <1>4 DEF SegOf
  <2>3. s * SegSectors \in Nat /\ p * PageSectors \in Nat
    BY <1>1, Geometry
  <2>4. QED
    BY <1>1, <1>5, <2>1, <2>2, <2>3, Geometry
<1>7. QED
  BY <1>4, <1>5, <1>6 DEF SegOf

(* The sectors that are copied from or to one page: c sectors behind the   *)
(* first of the part, as many as the page has.                             *)
LEMMA PageRun ==
  ASSUME NEW a \in Nat, NEW c \in Nat, (a % SegSectors) + c < SegSectors,
         NEW n \in Nat, n <= PageSectors - (((a % SegSectors) + c) % PageSectors), NEW k \in Nat
  PROVE  LET x  == (a % SegSectors) + c
             pg == x \div PageSectors
             po == x % PageSectors
             at == a + c
         IN  /\ pg \in 0..SegPages - 1 /\ po \in 0..PageSectors - 1
             /\ k \in at..(at + n - 1) <=>
                  SegOf(k) = SegOf(a) /\ PageOf(k) = pg /\ InPage(k) - po \in 0..n - 1
             /\ k \in at..(at + n - 1) => InPage(k) = po + (k - at)
<1> DEFINE x  == (a % SegSectors) + c
           pg == x \div PageSectors
           po == x % PageSectors
           s  == SegOf(a)
           at == a + c
           S  == s * SegSectors
           T  == pg * PageSectors
<1>1. s \in Nat /\ S \in Nat /\ x \in Nat /\ x < SegSectors /\ at = S + x
  <2>1. s \in Nat /\ a % SegSectors \in Nat /\ a = S + (a % SegSectors)
    BY Geometry, DivisionParts DEF SegOf
  <2>2. S \in Nat
    BY <2>1, Geometry
  <2>3. QED
    BY <2>1, <2>2
<1>2. pg \in Nat /\ po \in Nat /\ po < PageSectors /\ x = T + po /\ pg < SegPages /\ T \in Nat
  <2> HIDE DEF x
  <2>1. pg \in Nat /\ po \in Nat /\ po < PageSectors /\ x = T + po
    BY <1>1, Geometry, DivisionParts
  <2>2. x < SegPages * PageSectors
    <3>1. SegSectors = SegPages * PageSectors
      BY Geometry DEF SegSectors
    <3>2. QED
      BY <1>1, <3>1
  <2>3. pg < SegPages
    BY <1>1, <2>2, Geometry, DivisionLess
  <2>4. T \in Nat
    BY <2>1, Geometry
  <2>5. QED
    BY <2>1, <2>3, <2>4
<1>3. n <= PageSectors - po
  OBVIOUS
<1>4. /\ SegOf(k) \in Nat /\ PageOf(k) \in Nat /\ InPage(k) \in Nat /\ InPage(k) < PageSectors
      /\ k = SegOf(k) * SegSectors + PageOf(k) * PageSectors + InPage(k)
  BY Place, Geometry
<1> HIDE DEF x, pg, po, s, at
<1>5. ASSUME k \in at..(at + n - 1) PROVE SegOf(k) = s /\ PageOf(k) = pg /\ InPage(k) = po + (k - at)
  <2> DEFINE t == po + (k - at)
  <2>1. k - at \in Nat /\ k - at < n
    BY <1>1, <1>2, <1>5
  <2>2. t \in 0..PageSectors - 1
    BY <1>2, <1>3, <2>1, Geometry
  <2>3. k = S + T + t
    <3> HIDE DEF S, T
    <3>1. QED
      BY <1>1, <1>2, <2>1
  <2>4. pg \in 0..SegPages - 1
    BY <1>2, Geometry
  <2> HIDE DEF t
  <2>5. SegOf(k) = s /\ PageOf(k) = pg /\ InPage(k) = t
    BY <1>1, <2>2, <2>3, <2>4, PlaceUnique
  <2>6. QED
    BY <2>5 DEF t
<1>6. ASSUME SegOf(k) = s, PageOf(k) = pg, InPage(k) - po \in 0..n - 1 PROVE k \in at..(at + n - 1)
  <2>1. k = S + T + InPage(k)
    BY <1>4, <1>6
  <2> HIDE DEF S, T
  <2>2. QED
    BY <1>1, <1>2, <1>4, <1>6, <2>1
<1>7. pg \in 0..SegPages - 1 /\ po \in 0..PageSectors - 1
  BY <1>2, Geometry
<1>8. k \in at..(at + n - 1) => InPage(k) - po \in 0..n - 1
  BY <1>1, <1>2, <1>4, <1>5
<1>9. /\ pg \in 0..SegPages - 1 /\ po \in 0..PageSectors - 1
      /\ k \in at..(at + n - 1) <=> SegOf(k) = s /\ PageOf(k) = pg /\ InPage(k) - po \in 0..n - 1
      /\ k \in at..(at + n - 1) => InPage(k) = po + (k - at)
  BY <1>5, <1>6, <1>7, <1>8
<1>10. QED
  BY <1>9 DEF x, pg, po, s, at

(* The sectors of a part lie in one segment. *)
LEMMA PartRun ==
  ASSUME NEW a \in Nat, NEW n \in Nat, n <= SegSectors - (a % SegSectors), NEW k \in a..(a + n - 1)
  PROVE  SegOf(k) = SegOf(a)
<1> DEFINE x == (a % SegSectors) + (k - a)
<1>1. SegOf(a) \in Nat /\ a % SegSectors \in Nat /\ a = SegOf(a) * SegSectors + (a % SegSectors)
  BY Geometry, DivisionParts DEF SegOf
<1>2. SegOf(a) * SegSectors \in Nat
  BY <1>1, Geometry
<1>3. x \in Nat /\ x < SegSectors /\ k = SegOf(a) * SegSectors + x
  <2> DEFINE S == SegOf(a) * SegSectors
             e == a % SegSectors
  <2> HIDE DEF S, e
  <2>1. S \in Nat /\ e \in Nat /\ a = S + e /\ n <= SegSectors - e
    BY <1>1, <1>2 DEF S, e
  <2>2. e + (k - a) \in Nat /\ e + (k - a) < SegSectors /\ k = S + (e + (k - a))
    BY <2>1, Geometry
  <2>3. QED
    BY <2>2 DEF S, e
<1> HIDE DEF x
<1>4. QED
  BY <1>1, <1>3, Geometry, Division DEF SegOf

-----------------------------------------------------------------------------
(* Requests whose addresses sector_t can hold, as far as their end.        *)
AddressesFit == \A s \in Starts, v \in Vecs : (s + Total(v)) * SectorSize < SectorRange

Content == Nat \cup {NONE}
Segment == [0..SegPages - 1 -> [0..PageSectors - 1 -> Content]]
Size    == bytes \div SectorSize

(* A request is where its pieces and its counters say, within the disk.    *)
RequestPlace(b) ==
  b.pc # "idle" =>
    /\ b.dir \in {"read", "write"} /\ b.start \in Nat
    /\ b.mem \in Seq(Content) /\ Len(b.mem) = Total(b.vecs)
    /\ b.i <= Len(b.vecs) + 1
    /\ b.off = b.start + Ended(b.vecs, b.i)
    /\ b.start + Total(b.vecs) <= Size
    /\ b.pc = "iovec" => b.done = 0
    /\ b.pc # "oneseg" => b.copied = 0
    /\ b.pc # "iovec" => b.done <= VecLen(b)
    /\ b.pc = "oneseg" =>
         /\ Seg(b) \in DOMAIN tree /\ b.this_off = (b.off + b.done) % SegSectors
         /\ b.copied <= b.this_cnt /\ b.this_cnt <= SegSectors - b.this_off
         /\ b.this_cnt <= VecLen(b) - b.done
Places == \A r \in Requesters : RequestPlace(bio[r])

DiskInv ==
  /\ \A s \in DOMAIN tree : tree[s] \in Segment
  /\ loaded = "yes" => bytes \in Nat /\ Size \in Nat
FlatInv == Places /\ DiskInv

(* Of a request on its way, in sectors: what is moved, and where it goes on.*)
LEMMA RequestFacts ==
  ASSUME NEW b, RequestType(b), RequestPlace(b), b.pc # "idle"
  PROVE  /\ b # Free /\ b.vecs \in Vecs /\ b.i \in 1..Len(b.vecs) + 1 /\ Total(b.vecs) \in Nat \ {0}
         /\ Ended(b.vecs, b.i) \in Nat /\ done_of(b) = Ended(b.vecs, b.i) + b.done + b.copied
         /\ done_of(b) = Base(b) + b.copied
         /\ done_of(b) \in Nat /\ done_of(b) <= Total(b.vecs)
         /\ b.pc # "iovec" => /\ VecLen(b) \in Nat /\ b.i <= Len(b.vecs) /\ b.done + b.copied <= VecLen(b)
                              /\ done_of(b) + (VecLen(b) - b.done - b.copied) <= Total(b.vecs)
                              /\ Ended(b.vecs, b.i + 1) = Ended(b.vecs, b.i) + VecLen(b)
<1>1. b # Free /\ b.vecs \in Vecs /\ b.i \in Nat \ {0} /\ b.done \in Nat /\ b.copied \in Nat /\ b.off \in Nat
  BY DEF RequestType, Free
<1>2. b.i \in 1..Len(b.vecs) + 1 /\ Total(b.vecs) \in Nat \ {0} /\ Ended(b.vecs, b.i) \in Nat
      /\ Ended(b.vecs, b.i) <= Total(b.vecs) /\ Len(b.vecs) \in Nat
  BY <1>1, Pieces DEF RequestPlace
<1>3. b.start \in Nat /\ b.off = b.start + Ended(b.vecs, b.i)
  BY DEF RequestPlace
<1>4. done_of(b) = Ended(b.vecs, b.i) + b.done + b.copied /\ done_of(b) = Base(b) + b.copied
  BY <1>1, <1>2, <1>3 DEF done_of, Base
<1>5. CASE b.pc = "iovec"
  <2>1. b.done = 0 /\ b.copied = 0
    BY <1>5 DEF RequestPlace
  <2>2. QED
    BY <1>1, <1>2, <1>4, <1>5, <2>1
<1>6. CASE b.pc # "iovec"
  <2>1. b.pc \in {"trans", "oneseg"} /\ b.i <= Len(b.vecs)
    BY <1>6 DEF RequestType
  <2>2. VecLen(b) = b.vecs[b.i] - Ended(b.vecs, b.i) /\ VecLen(b) \in Nat /\ b.vecs[b.i] <= Total(b.vecs)
        /\ b.vecs[b.i] \in Nat /\ Ended(b.vecs, b.i + 1) = b.vecs[b.i]
    BY <1>1, <1>2, <2>1, Pieces DEF VecLen
  <2>3. b.done + b.copied <= VecLen(b)
    <3>1. CASE b.pc = "trans"
      BY <1>1, <2>2, <3>1 DEF RequestPlace
    <3>2. CASE b.pc = "oneseg"
      <4>1. b.copied <= b.this_cnt /\ b.this_cnt <= VecLen(b) - b.done /\ b.this_cnt \in Nat
        BY <3>2 DEF RequestPlace, RequestType
      <4>2. QED
        BY <1>1, <2>2, <4>1
    <3>3. QED
      BY <2>1, <3>1, <3>2
  <2>4. done_of(b) \in Nat /\ done_of(b) + (VecLen(b) - b.done - b.copied) <= Total(b.vecs)
        /\ Ended(b.vecs, b.i + 1) = Ended(b.vecs, b.i) + VecLen(b) /\ done_of(b) <= Total(b.vecs)
    <3> DEFINE e == Ended(b.vecs, b.i)
               f == b.vecs[b.i]
               l == VecLen(b)
               n == Total(b.vecs)
               d == b.done
               c == b.copied
               o == done_of(b)
               g == Ended(b.vecs, b.i + 1)
    <3>1. /\ e \in Nat /\ f \in Nat /\ l = f - e /\ f <= n /\ n \in Nat /\ d \in Nat /\ c \in Nat
          /\ d + c <= l /\ o = e + d + c /\ g = f
      BY <1>1, <1>2, <1>4, <2>2, <2>3
    <3> HIDE DEF e, f, l, n, d, c, o, g
    <3>2. o \in Nat /\ o + (l - d - c) <= n /\ g = e + l /\ o <= n
      BY <3>1
    <3>3. QED
      BY <3>2 DEF e, f, l, n, d, c, o, g
  <2>5. QED
    BY <1>1, <1>2, <1>4, <2>1, <2>2, <2>3, <2>4
<1>7. QED
  BY <1>5, <1>6

(* A step of one request leaves the others where they are, as long as no   *)
(* segment goes.                                                           *)
LEMMA OnePlace ==
  ASSUME Places, NEW r \in Requesters, \A q \in Requesters \ {r} : bio'[q] = bio[q],
         DOMAIN tree \subseteq DOMAIN tree', UNCHANGED bytes, RequestPlace(bio[r])'
  PROVE  Places'
<1>1. ASSUME NEW q \in Requesters \ {r} PROVE RequestPlace(bio[q])'
  <2>1. RequestPlace(bio[q]) /\ bio'[q] = bio[q]
    BY DEF Places
  <2>2. QED
    BY <2>1 DEF RequestPlace, Size, Seg, VecLen, Ended, Total
<1>2. QED
  BY <1>1 DEF Places

-----------------------------------------------------------------------------
(* What steps of the disk in memory are to the flat disk. *)

Flying(b) == RequestType(b) /\ RequestPlace(b) /\ b.pc # "idle"
Only(r)   == Requests /\ r \in Requesters /\ \A q \in Requesters \ {r} : bio'[q] = bio[q]

(* The record the flat disk has of a request. *)
LEMMA RecordOf ==
  ASSUME NEW b, b # Free
  PROVE  /\ req_of(b) = [dir |-> b.dir, pos |-> b.start, len |-> Len(b.mem), done |-> done_of(b),
                         data |-> IF b.dir = "write" THEN b.mem ELSE SubSeq(b.mem, 1, done_of(b))]
         /\ b.dir \in {"read", "write"} => req_of(b) # IdleReq
<1>1. req_of(b) = [dir |-> b.dir, pos |-> b.start, len |-> Len(b.mem), done |-> done_of(b),
                   data |-> IF b.dir = "write" THEN b.mem ELSE SubSeq(b.mem, 1, done_of(b))]
  BY Zenon DEF req_of
<1>2. req_of(b).dir = b.dir /\ IdleReq.dir = "none"
  BY <1>1 DEF IdleReq
<1>3. QED
  BY <1>1, <1>2

(* A sequence of which more is known. *)
LEMMA DataGrows ==
  ASSUME NEW S, NEW m \in Seq(S), NEW m2 \in Seq(S), Len(m2) = Len(m), NEW d \in Nat, NEW n \in Nat,
         d + n <= Len(m), \A k \in 1..d : m2[k] = m[k]
  PROVE  SubSeq(m2, 1, d + n) = SubSeq(m, 1, d) \o [k \in 1..n |-> m2[d + k]]
<1> DEFINE f == [k \in 1..n |-> m2[d + k]]
           u == SubSeq(m, 1, d)
           w == SubSeq(m2, 1, d + n)
<1>1. f \in Seq(S) /\ Len(f) = n
  <2>1. f \in [1..n -> S]
    OBVIOUS
  <2>2. QED
    BY <2>1
<1>2. u \in Seq(S) /\ Len(u) = d /\ \A k \in 1..d : u[k] = m[k]
  OBVIOUS
<1>3. w \in Seq(S) /\ Len(w) = d + n /\ \A k \in 1..d + n : w[k] = m2[k]
  OBVIOUS
<1>4. \A k \in 1..n : f[k] = m2[d + k]
  OBVIOUS
<1> HIDE DEF f, u, w
<1>5. u \o f \in Seq(S) /\ Len(u \o f) = d + n
  BY <1>1, <1>2
<1>6. ASSUME NEW k \in 1..d + n PROVE w[k] = (u \o f)[k]
  <2>1. CASE k <= d
    BY <1>1, <1>2, <1>3, <2>1
  <2>2. CASE k > d
    <3>1. k - d \in 1..n /\ d + (k - d) = k
      BY <2>2
    <3>2. (u \o f)[k] = f[k - d]
      BY <1>1, <1>2, <2>2
    <3>3. QED
      BY <1>3, <1>4, <3>1, <3>2
  <2>3. k \in Nat /\ (k <= d \/ k > d)
    OBVIOUS
  <2>4. QED
    BY <2>1, <2>2, <2>3
<1>7. QED
  BY <1>3, <1>5, <1>6, SeqEqual DEF f, u, w

(* A step that the flat disk does not see. *)
LEMMA Stutters ==
  ASSUME NEW r, Only(r), req_of(bio'[r]) = req_of(bio[r]), UNCHANGED disk_of, UNCHANGED result
  PROVE  UNCHANGED <<disk_of, [q \in Requesters |-> req_of(bio[q])], result>>
<1>1. [q \in Requesters |-> req_of(bio'[q])] = [q \in Requesters |-> req_of(bio[q])]
  BY DEF Only
<1>2. QED
  BY <1>1

Fields == {"dir", "pos", "len", "done", "data"}

(* Two records of requests are the same if their fields are. *)
LEMMA SameRecord ==
  ASSUME NEW x, NEW y, x = [f \in Fields |-> x[f]], y = [f \in Fields |-> y[f]],
         x.dir = y.dir, x.pos = y.pos, x.len = y.len, x.done = y.done, x.data = y.data
  PROVE  x = y
<1>1. \A f \in Fields : x[f] = y[f]
  BY DEF Fields
<1>2. QED
  BY <1>1

(* A sector, or several, are read. *)
LEMMA MoveRead ==
  ASSUME NEW r, Only(r), Flying(bio[r]), bio[r].dir = "read", NEW n \in Nat \ {0},
         bio'[r].pc # "idle", bio'[r].dir = "read", bio'[r].start = bio[r].start,
         bio'[r].mem \in Seq(Content), Len(bio'[r].mem) = Len(bio[r].mem),
         done_of(bio'[r]) = done_of(bio[r]) + n, done_of(bio[r]) + n <= Len(bio[r].mem),
         \A k \in 1..done_of(bio[r]) : bio'[r].mem[k] = bio[r].mem[k],
         \A k \in 1..n : bio'[r].mem[done_of(bio[r]) + k] = disk_of[bio[r].start + done_of(bio[r]) + k - 1],
         UNCHANGED disk_of, UNCHANGED result
  PROVE  Flat!Next
<1> DEFINE b   == bio[r]
           nb  == bio'[r]
           d   == done_of(b)
           req == [q \in Requesters |-> req_of(bio[q])]
           nr  == [q \in Requesters |-> req_of(bio'[q])]
           new == [k \in 1..n |-> disk_of[b.start + d + k - 1]]
<1>1. b # Free /\ nb # Free /\ d \in Nat /\ b.mem \in Seq(Content)
  <2>1. b # Free /\ done_of(b) \in Nat
    BY RequestFacts DEF Flying
  <2>2. nb # Free
    BY DEF Free
  <2>3. b.mem \in Seq(Content)
    BY DEF Flying, RequestPlace
  <2>4. QED
    BY <2>1, <2>2, <2>3
<1>2. /\ req_of(b) = [dir |-> "read", pos |-> b.start, len |-> Len(b.mem), done |-> d,
                      data |-> SubSeq(b.mem, 1, d)]
      /\ req_of(b) # IdleReq
  BY <1>1, RecordOf
<1>3. req_of(nb) = [dir |-> "read", pos |-> b.start, len |-> Len(b.mem), done |-> d + n,
                    data |-> SubSeq(nb.mem, 1, d + n)]
  BY <1>1, RecordOf
<1>4. SubSeq(nb.mem, 1, d + n) = SubSeq(b.mem, 1, d) \o new
  <2>1. SubSeq(nb.mem, 1, d + n) = SubSeq(b.mem, 1, d) \o [k \in 1..n |-> nb.mem[d + k]]
    <3>1. ASSUME NEW m \in Seq(Content), NEW m2 \in Seq(Content), Len(m2) = Len(m), NEW e \in Nat,
                 e + n <= Len(m), \A k \in 1..e : m2[k] = m[k]
          PROVE  SubSeq(m2, 1, e + n) = SubSeq(m, 1, e) \o [k \in 1..n |-> m2[e + k]]
      BY <3>1, DataGrows
    <3>2. QED
      BY <1>1, <3>1
  <2>2. [k \in 1..n |-> nb.mem[d + k]] = new
    OBVIOUS
  <2>3. QED
    BY <2>1, <2>2
<1>5. r \in Requesters /\ req[r] = req_of(b) /\ nr[r] = req_of(nb)
      /\ \A q \in Requesters \ {r} : nr[q] = req[q]
  BY DEF Only
<1> HIDE DEF new, d
<1>6. nr = [req EXCEPT ![r].done = @ + n, ![r].data = @ \o new]
  <2>1. req_of(nb) = [req_of(b) EXCEPT !.done = @ + n, !.data = @ \o new]
    <3> DEFINE old == SubSeq(b.mem, 1, d)
    <3> HIDE DEF old
    <3>1. req_of(b) = [dir |-> "read", pos |-> b.start, len |-> Len(b.mem), done |-> d, data |-> old]
      BY <1>2 DEF old
    <3>2. req_of(nb) = [dir |-> "read", pos |-> b.start, len |-> Len(b.mem), done |-> d + n, data |-> old \o new]
      BY <1>3, <1>4 DEF old
    <3> DEFINE e == d + n
               w == old \o new
               x == [dir |-> "read", pos |-> b.start, len |-> Len(b.mem), done |-> d, data |-> old]
               y == [dir |-> "read", pos |-> b.start, len |-> Len(b.mem), done |-> e, data |-> w]
    <3> HIDE DEF e, w
    <3>3. y = [x EXCEPT !.done = e, !.data = w]
      <4> DEFINE z == [x EXCEPT !.done = e, !.data = w]
      <4>1. DOMAIN y = Fields /\ DOMAIN z = Fields
        BY DEF Fields
      <4>2. y = [f \in Fields |-> y[f]] /\ z = [f \in Fields |-> z[f]]
        BY <4>1
      <4>3. /\ y.dir = z.dir /\ y.pos = z.pos /\ y.len = z.len
            /\ y.done = z.done /\ y.data = z.data
        OBVIOUS
      <4> HIDE DEF y, z
      <4>4. y = z
        BY <4>2, <4>3, SameRecord
      <4>5. QED
        BY <4>4 DEF z
    <3>4. x.done = d /\ x.data = old
      OBVIOUS
    <3> HIDE DEF x, y
    <3>5. y = [x EXCEPT !.done = @ + n, !.data = @ \o new]
      BY <3>3, <3>4 DEF e, w
    <3>6. req_of(b) = x /\ req_of(nb) = y
      BY <3>1, <3>2 DEF x, y, e, w
    <3>7. QED
      BY <3>5, <3>6
  <2> DEFINE x == req_of(b)
             y == req_of(nb)
  <2>2. req = [q \in Requesters |-> req[q]] /\ nr = [q \in Requesters |-> nr[q]]
    OBVIOUS
  <2> HIDE DEF req, nr, x, y
  <2>3. nr = [req EXCEPT ![r] = y]
    BY <1>5, <2>2 DEF y
  <2>4. QED
    BY <1>5, <2>1, <2>3 DEF x, y
<1>7. n \in 1..(req[r].len - req[r].done) /\ req[r].dir = "read" /\ req[r].pos + req[r].done = b.start + d
  <2>1. req[r].len = Len(b.mem) /\ req[r].done = d /\ req[r].dir = "read" /\ req[r].pos = b.start
    BY <1>2, <1>5
  <2>2. n \in 1..(Len(b.mem) - d)
    BY <1>1 DEF d
  <2>3. QED
    BY <2>1, <2>2
<1>8. Flat!Move(r)
  <2>1. new = [k \in 1..n |-> disk_of[req[r].pos + req[r].done + k - 1]]
    BY <1>7 DEF new
  <2> HIDE DEF new
  <2>2. nr = [req EXCEPT ![r].done = @ + n,
                         ![r].data = @ \o [k \in 1..n |-> disk_of[req[r].pos + req[r].done + k - 1]]]
    BY <1>6, <2>1, Zenon
  <2>3. QED
    BY <1>7, <2>2, Zenon DEF Flat!Move
<1>9. QED
  BY <1>2, <1>5, <1>8 DEF Flat!Next, Flat!Running

(* The records of the other requests do not change. *)
LEMMA Updated ==
  ASSUME NEW r, Only(r)
  PROVE  [q \in Requesters |-> req_of(bio'[q])]
         = [[q \in Requesters |-> req_of(bio[q])] EXCEPT ![r] = req_of(bio'[r])]
BY DEF Only

(* A sector, or several, are written. *)
LEMMA MoveWrite ==
  ASSUME NEW r, Only(r), Flying(bio[r]), bio[r].dir = "write", NEW n \in Nat \ {0},
         bio'[r].pc # "idle", bio'[r].dir = "write", bio'[r].start = bio[r].start, bio'[r].mem = bio[r].mem,
         done_of(bio'[r]) = done_of(bio[r]) + n, done_of(bio[r]) + n <= Len(bio[r].mem),
         disk_of' = [k \in DOMAIN disk_of |->
                       IF k \in (bio[r].start + done_of(bio[r]))..(bio[r].start + done_of(bio[r]) + n - 1)
                       THEN bio[r].mem[k - bio[r].start + 1] ELSE disk_of[k]],
         UNCHANGED result
  PROVE  Flat!Next
<1> DEFINE b   == bio[r]
           nb  == bio'[r]
           d   == done_of(b)
           m   == b.mem
           req == [q \in Requesters |-> req_of(bio[q])]
           nr  == [q \in Requesters |-> req_of(bio'[q])]
<1>1. b # Free /\ nb # Free /\ d \in Nat /\ Len(m) \in Nat
  <2>1. b # Free /\ done_of(b) \in Nat
    BY RequestFacts DEF Flying
  <2>2. nb # Free
    BY DEF Free
  <2>3. b.mem \in Seq(Content)
    BY DEF Flying, RequestPlace
  <2>4. QED
    BY <2>1, <2>2, <2>3
<1>2. /\ req_of(b) = [dir |-> "write", pos |-> b.start, len |-> Len(m), done |-> d, data |-> m]
      /\ req_of(b) # IdleReq
  BY <1>1, RecordOf
<1>3. req_of(nb) = [dir |-> "write", pos |-> b.start, len |-> Len(m), done |-> d + n, data |-> m]
  BY <1>1, RecordOf
<1>4. r \in Requesters /\ req[r] = req_of(b) /\ nr = [req EXCEPT ![r] = req_of(nb)]
  BY Updated DEF Only
<1>5. nr = [req EXCEPT ![r].done = @ + n]
  <2> DEFINE e == d + n
             x == [dir |-> "write", pos |-> b.start, len |-> Len(m), done |-> d, data |-> m]
             y == [dir |-> "write", pos |-> b.start, len |-> Len(m), done |-> e, data |-> m]
             z == [x EXCEPT !.done = e]
  <2> HIDE DEF e, d, m
  <2>1. DOMAIN y = Fields /\ DOMAIN z = Fields
    BY DEF Fields
  <2>2. y = [f \in Fields |-> y[f]] /\ z = [f \in Fields |-> z[f]]
    BY <2>1
  <2>3. y.dir = z.dir /\ y.pos = z.pos /\ y.len = z.len /\ y.done = z.done /\ y.data = z.data
    OBVIOUS
  <2>4. x.done = d
    OBVIOUS
  <2> HIDE DEF y, z
  <2>5. y = z
    BY <2>2, <2>3, SameRecord
  <2>6. y = [x EXCEPT !.done = @ + n]
    BY <2>4, <2>5 DEF z, e
  <2>7. req_of(b) = x /\ req_of(nb) = y
    BY <1>2, <1>3 DEF y, e
  <2> HIDE DEF x
  <2>8. QED
    BY <1>4, <2>6, <2>7
<1>6. req[r].len = Len(m) /\ req[r].done = d /\ req[r].dir = "write" /\ req[r].pos = b.start /\ req[r].data = m
  BY <1>2, <1>4
<1>7. n \in 1..(req[r].len - req[r].done)
  <2>1. n \in 1..(Len(m) - d)
    BY <1>1
  <2>2. QED
    BY <1>6, <2>1
<1>8. disk_of' = [k \in DOMAIN disk_of |->
                    IF k \in Flat!Slots(req[r].pos + req[r].done, n)
                    THEN req[r].data[k - req[r].pos + 1] ELSE disk_of[k]]
  BY <1>6 DEF Flat!Slots
<1>9. Flat!Move(r)
  <2> HIDE DEF req, nr, b, m, d
  <2>1. Flat!Move(r)
    BY <1>5, <1>6, <1>7, <1>8, Zenon DEF Flat!Move, req, nr
  <2>2. QED
    BY <2>1
<1>10. QED
  BY <1>2, <1>4, <1>9 DEF Flat!Next, Flat!Running

(* A request ends, well or with an error. *)
LEMMA Ends ==
  ASSUME NEW r, Only(r), Flying(bio[r]), bio'[r] = Free, UNCHANGED disk_of, NEW status,
         result' = [result EXCEPT ![r] = Outcome(status, bio[r].start, Len(bio[r].mem))],
         \/ status = "ok" /\ done_of(bio[r]) = Len(bio[r].mem)
         \/ status = "error" /\ Fails # {}
  PROVE  Flat!Next
<1> DEFINE req == [q \in Requesters |-> req_of(bio[q])]
           nr  == [q \in Requesters |-> req_of(bio'[q])]
<1>1. r \in Requesters /\ req[r] = req_of(bio[r]) /\ nr = [req EXCEPT ![r] = req_of(bio'[r])]
  BY Updated DEF Only
<1>2. req_of(bio'[r]) = IdleReq
  BY DEF req_of
<1>3. bio[r] # Free /\ bio[r].dir \in {"read", "write"}
  BY RequestFacts DEF Flying, RequestPlace
<1>4. /\ req[r] # IdleReq /\ req[r].pos = bio[r].start
      /\ req[r].done = done_of(bio[r]) /\ req[r].len = Len(bio[r].mem)
  BY <1>1, <1>3, RecordOf
<1>5. nr = [req EXCEPT ![r] = IdleReq]
  BY <1>1, <1>2
<1>6. result' = [result EXCEPT ![r] = [status |-> status, pos |-> req[r].pos, len |-> req[r].len]]
  BY <1>4 DEF Outcome
<1>7. Flat!End(r, status)
  BY <1>5, <1>6, Zenon DEF Flat!End
<1>8. Flat!Succeed(r) \/ Flat!GiveUp(r)
  BY <1>4, <1>7 DEF Flat!Succeed, Flat!GiveUp
<1>9. QED
  BY <1>1, <1>4, <1>8 DEF Flat!Next, Flat!Running

-----------------------------------------------------------------------------
(* The steps of a request. *)

(* Two records of requests that say the same to the flat disk. *)
LEMMA SameRequest ==
  ASSUME NEW b, NEW nb, b.pc # "idle", nb.pc # "idle", nb.dir = b.dir, nb.start = b.start, nb.mem = b.mem,
         done_of(nb) = done_of(b)
  PROVE  req_of(nb) = req_of(b)
<1>1. b # Free /\ nb # Free
  BY DEF Free
<1>2. QED
  BY <1>1, RecordOf, Zenon

(* What holds of every step of a request. *)
LEMMA Running ==
  ASSUME IInv, FlatInv, NEW r \in Requesters, Request(r)
  PROVE  /\ loaded = "yes" /\ UNCHANGED <<loaded, bytes>>
         /\ Only(r) /\ Flying(bio[r]) /\ DOMAIN bio[r] = DOMAIN Free /\ DOMAIN bio = Requesters
         /\ bytes \in Nat /\ Size \in Nat /\ UNCHANGED Size
<1>1. bio[r].pc # "idle" /\ UNCHANGED <<loaded, bytes>>
  BY DEF Request, NextVec, VecDone, Present, ReadAbsent, WriteAbsent, CopyPage, CopyFails, PartDone, AtPart
<1>2. loaded = "yes"
  BY <1>1 DEF IInv, LifeInv, Free
<1>3. RequestType(bio[r]) /\ DOMAIN bio = Requesters /\ Requests
  BY DEF IInv, Requests
<1>4. \A q \in Requesters \ {r} : bio'[q] = bio[q]
  BY <1>3 DEF Request, NextVec, VecDone, Present, ReadAbsent, WriteAbsent, CopyPage, CopyFails, PartDone, AtPart,
     ToSegment, Fail, bio_endio
<1>5. QED
  BY <1>1, <1>2, <1>3, <1>4 DEF Only, Flying, FlatInv, Places, DiskInv, Size, RequestType

(* A step that does not touch the disk and leaves the request where it was.*)
LEMMA Still ==
  ASSUME IInv, FlatInv, NEW r \in Requesters, Request(r), UNCHANGED tree, UNCHANGED result, bio'[r].pc # "idle",
         bio'[r].dir = bio[r].dir, bio'[r].start = bio[r].start, bio'[r].mem = bio[r].mem,
         done_of(bio'[r]) = done_of(bio[r]), RequestPlace(bio[r])'
  PROVE  FlatInv' /\ UNCHANGED <<disk_of, [q \in Requesters |-> req_of(bio[q])], result>>
<1>1. UNCHANGED disk_of
  BY Running DEF disk_of
<1>2. req_of(bio'[r]) = req_of(bio[r])
  BY Running, SameRequest DEF Flying
<1>3. UNCHANGED <<disk_of, [q \in Requesters |-> req_of(bio[q])], result>>
  BY <1>1, <1>2, Running, Stutters
<1>4. Places'
  <2>1. \A q \in Requesters \ {r} : bio'[q] = bio[q]
    BY Running DEF Only
  <2>2. QED
    BY <2>1, Running, OnePlace DEF FlatInv
<1>5. DiskInv'
  BY Running DEF FlatInv, DiskInv, Size
<1>6. QED
  BY <1>3, <1>4, <1>5 DEF FlatInv

(* A step that ends the request. *)
LEMMA EndsRequest ==
  ASSUME IInv, FlatInv, NEW r \in Requesters, Request(r), UNCHANGED tree, NEW status, bio_endio(r, status),
         \/ status = "ok" /\ done_of(bio[r]) = Len(bio[r].mem)
         \/ status = "error" /\ Fails # {}
  PROVE  FlatInv' /\ Flat!Next
<1>1. UNCHANGED disk_of
  BY Running DEF disk_of
<1>2. bio'[r] = Free /\ result' = [result EXCEPT ![r] = Outcome(status, bio[r].start, Len(bio[r].mem))]
  BY Running DEF bio_endio
<1>3. Flat!Next
  BY <1>1, <1>2, Running, Ends
<1>4. Places'
  <2>1. \A q \in Requesters \ {r} : bio'[q] = bio[q]
    BY Running DEF Only
  <2>2. RequestPlace(bio[r])'
    BY <1>2 DEF RequestPlace, Free
  <2>3. QED
    BY <2>1, <2>2, Running, OnePlace DEF FlatInv
<1>5. DiskInv'
  BY Running DEF FlatInv, DiskInv, Size
<1>6. QED
  BY <1>3, <1>4, <1>5 DEF FlatInv

(* A step of the flat disk, or none. *)
FlatStep == Flat!Next \/ UNCHANGED <<disk_of, [q \in Requesters |-> req_of(bio[q])], result>>

(* The next piece is not seen; without one the request ends. *)
LEMMA NextVecFlat ==
  ASSUME IInv, FlatInv, NEW r \in Requesters, NextVec(r)
  PROVE  FlatInv' /\ FlatStep
<1> DEFINE b == bio[r]
<1>1. Request(r) /\ UNCHANGED tree /\ b.pc = "iovec"
  BY DEF NextVec, Request
<1>2. Flying(b) /\ DOMAIN b = DOMAIN Free /\ DOMAIN bio = Requesters
  BY <1>1, Running
<1>3. /\ b.vecs \in Vecs /\ b.i \in 1..Len(b.vecs) + 1 /\ b.done = 0 /\ b.copied = 0
      /\ done_of(b) = Ended(b.vecs, b.i) + b.done + b.copied /\ Ended(b.vecs, b.i) \in Nat
      /\ Len(b.mem) = Total(b.vecs)
  BY <1>1, <1>2, RequestFacts DEF Flying, RequestPlace
<1>4. CASE b.i > Len(b.vecs) /\ bio_endio(r, "ok")
  <2>1. b.i = Len(b.vecs) + 1
    BY <1>3, <1>4, Pieces
  <2>2. done_of(b) = Len(b.mem)
    BY <1>3, <2>1 DEF Total
  <2>3. QED
    BY <1>1, <1>4, <2>2, EndsRequest DEF FlatStep
<1>5. CASE b.i <= Len(b.vecs) /\ bio' = [bio EXCEPT ![r].pc = "trans", ![r].done = 0] /\ UNCHANGED result
  <2> DEFINE nb == bio'[r]
  <2>1. nb = [b EXCEPT !.pc = "trans", !.done = 0]
    BY <1>2, <1>5
  <2>2. /\ nb.pc = "trans" /\ nb.dir = b.dir /\ nb.start = b.start /\ nb.vecs = b.vecs /\ nb.mem = b.mem
        /\ nb.i = b.i /\ nb.off = b.off /\ nb.done = 0 /\ nb.copied = b.copied
    BY <1>2, <2>1 DEF Free
  <2> HIDE DEF nb
  <2>3. done_of(nb) = done_of(b)
    BY <1>3, <2>2 DEF done_of
  <2>4. VecLen(nb) \in Nat
    <3>1. b.i \in 1..Len(b.vecs)
      BY <1>3, <1>5, Pieces
    <3>2. VecLen(nb) = b.vecs[b.i] - Ended(b.vecs, b.i)
      BY <2>2 DEF VecLen
    <3>3. QED
      BY <1>3, <3>1, <3>2, Pieces
  <2>5. RequestPlace(bio[r])'
    BY <1>1, <1>2, <1>3, <1>5, <2>2, <2>4, Running DEF Flying, RequestPlace, nb
  <2>6. QED
    BY <1>1, <1>5, <2>2, <2>3, <2>5, Still DEF FlatStep, nb
<1>6. CASE "kmap" \in Fails /\ bio_endio(r, "error")
  BY <1>1, <1>6, EndsRequest DEF FlatStep
<1>7. QED
  BY <1>4, <1>5, <1>6 DEF NextVec, Fail

(* The end of a piece is not seen. *)
LEMMA VecDoneFlat ==
  ASSUME IInv, FlatInv, NEW r \in Requesters, VecDone(r)
  PROVE  FlatInv' /\ FlatStep
<1> DEFINE b == bio[r]
           nb == bio'[r]
<1>1. Request(r) /\ UNCHANGED <<tree, result>> /\ b.pc = "trans" /\ b.done = VecLen(b)
  BY DEF VecDone, Request
<1>2. Flying(b) /\ DOMAIN b = DOMAIN Free /\ DOMAIN bio = Requesters
  BY <1>1, Running
<1>3. /\ b.vecs \in Vecs /\ b.i \in 1..Len(b.vecs) + 1 /\ b.copied = 0 /\ b.i <= Len(b.vecs)
      /\ VecLen(b) \in Nat /\ Ended(b.vecs, b.i) \in Nat /\ b.start \in Nat
      /\ Ended(b.vecs, b.i + 1) = Ended(b.vecs, b.i) + VecLen(b) /\ b.off = b.start + Ended(b.vecs, b.i)
  BY <1>1, <1>2, RequestFacts DEF Flying, RequestPlace
<1>4. nb = [b EXCEPT !.pc = "iovec", !.i = @ + 1, !.off = @ + b.done, !.done = 0]
  BY <1>2 DEF VecDone
<1>5. /\ nb.pc = "iovec" /\ nb.dir = b.dir /\ nb.start = b.start /\ nb.vecs = b.vecs /\ nb.mem = b.mem
      /\ nb.i = b.i + 1 /\ nb.off = b.off + b.done /\ nb.done = 0 /\ nb.copied = b.copied
  BY <1>2, <1>4 DEF Free
<1> HIDE DEF nb
<1>6. done_of(nb) = done_of(b)
  BY <1>1, <1>3, <1>5 DEF done_of
<1>7. nb.off = nb.start + Ended(nb.vecs, nb.i)
  BY <1>1, <1>3, <1>5
<1>8. nb.i <= Len(nb.vecs) + 1
  BY <1>3, <1>5, Pieces
<1>9. RequestPlace(bio[r])'
  BY <1>1, <1>2, <1>3, <1>5, <1>7, <1>8, Running DEF Flying, RequestPlace, nb
<1>10. QED
  BY <1>1, <1>5, <1>6, <1>9, Still DEF FlatStep, nb

(* The lock is taken for a part. *)
LEMMA ToSegmentPlace ==
  ASSUME IInv, FlatInv, NEW r \in Requesters, Request(r), AtPart(r), ToSegment(r, Seg(bio[r])),
         Seg(bio[r]) \in DOMAIN tree'
  PROVE  /\ RequestPlace(bio[r])' /\ done_of(bio'[r]) = done_of(bio[r])
         /\ bio'[r].pc = "oneseg" /\ bio'[r].dir = bio[r].dir /\ bio'[r].start = bio[r].start
         /\ bio'[r].mem = bio[r].mem
<1> DEFINE b == bio[r]
           nb == bio'[r]
<1>1. b.pc = "trans" /\ b.done < VecLen(b)
  BY DEF AtPart
<1>2. Flying(b) /\ DOMAIN b = DOMAIN Free /\ DOMAIN bio = Requesters
  BY Running
<1>3. /\ b.copied = 0 /\ Part(b).cnt \in Nat \ {0} /\ Part(b).cnt <= VecLen(b) - b.done
      /\ Part(b).off = (b.off + b.done) % SegSectors /\ Part(b).cnt <= SegSectors - Part(b).off
  BY <1>1, <1>2, PartFacts DEF Flying, RequestPlace
<1>4. nb = [b EXCEPT !.pc = "oneseg", !.this_off = Part(b).off, !.this_cnt = Part(b).cnt, !.copied = 0]
  BY <1>2 DEF ToSegment
<1>5. /\ nb.pc = "oneseg" /\ nb.dir = b.dir /\ nb.start = b.start /\ nb.vecs = b.vecs /\ nb.mem = b.mem
      /\ nb.i = b.i /\ nb.off = b.off /\ nb.done = b.done /\ nb.copied = 0
      /\ nb.this_off = Part(b).off /\ nb.this_cnt = Part(b).cnt
  BY <1>2, <1>4 DEF Free
<1> HIDE DEF nb
<1>6. done_of(nb) = done_of(b)
  BY <1>3, <1>5 DEF done_of
<1>7. Seg(nb) = Seg(b) /\ VecLen(nb) = VecLen(b)
  BY <1>5 DEF Seg, VecLen
<1>8. RequestPlace(bio[r])'
  BY <1>1, <1>2, <1>3, <1>5, <1>7, Running DEF Flying, RequestPlace, nb
<1>9. QED
  BY <1>5, <1>6, <1>8 DEF nb

(* A segment that is there is locked unseen. *)
LEMMA PresentFlat ==
  ASSUME IInv, FlatInv, NEW r \in Requesters, Present(r)
  PROVE  FlatInv' /\ FlatStep
<1>1. Request(r) /\ UNCHANGED <<tree, result>> /\ AtPart(r) /\ ToSegment(r, Seg(bio[r])) /\ Seg(bio[r]) \in DOMAIN tree'
  BY DEF Present, Request, ToSegment
<1>2. QED
  BY <1>1, ToSegmentPlace, Still DEF FlatStep

(* A page that cannot be mapped ends the request. *)
LEMMA CopyFailsFlat ==
  ASSUME IInv, FlatInv, NEW r \in Requesters, CopyFails(r)
  PROVE  FlatInv' /\ FlatStep
<1>1. Request(r) /\ UNCHANGED tree /\ bio_endio(r, "error") /\ Fails # {}
  BY DEF CopyFails, Request, Fail
<1>2. QED
  BY <1>1, EndsRequest DEF FlatStep

(* The end of a part is not seen. *)
LEMMA PartDoneFlat ==
  ASSUME IInv, FlatInv, NEW r \in Requesters, PartDone(r)
  PROVE  FlatInv' /\ FlatStep
<1> DEFINE b == bio[r]
           nb == bio'[r]
<1>1. Request(r) /\ UNCHANGED <<tree, result>> /\ b.pc = "oneseg" /\ b.copied = b.this_cnt
  BY DEF PartDone, Request
<1>2. Flying(b) /\ DOMAIN b = DOMAIN Free /\ DOMAIN bio = Requesters
  BY <1>1, Running
<1>3. /\ b.done \in Nat /\ b.copied \in Nat /\ b.off \in Nat /\ b.start \in Nat /\ VecLen(b) \in Nat
      /\ b.this_cnt <= VecLen(b) - b.done
  BY <1>1, <1>2, RequestFacts DEF Flying, RequestPlace, RequestType
<1>4. nb = [b EXCEPT !.pc = "trans", !.done = @ + b.copied, !.copied = 0, !.this_off = 0, !.this_cnt = 0]
  BY <1>2 DEF PartDone
<1>5. /\ nb.pc = "trans" /\ nb.dir = b.dir /\ nb.start = b.start /\ nb.vecs = b.vecs /\ nb.mem = b.mem
      /\ nb.i = b.i /\ nb.off = b.off /\ nb.done = b.done + b.copied /\ nb.copied = 0
  BY <1>2, <1>4 DEF Free
<1> HIDE DEF nb
<1>6. done_of(nb) = done_of(b)
  BY <1>3, <1>5 DEF done_of
<1>7. VecLen(nb) = VecLen(b) /\ nb.done <= VecLen(nb)
  <2>1. VecLen(nb) = VecLen(b)
    BY <1>5 DEF VecLen
  <2>2. QED
    BY <1>1, <1>3, <1>5, <2>1
<1>8. RequestPlace(bio[r])'
  BY <1>1, <1>2, <1>3, <1>5, <1>7, Running DEF Flying, RequestPlace, nb
<1>9. QED
  BY <1>1, <1>5, <1>6, <1>8, Still DEF FlatStep, nb

(* A sector of the disk is zero, or what its segment holds. *)
LEMMA Sectors ==
  ASSUME loaded = "yes"
  PROVE  /\ DOMAIN disk_of = 0..Size - 1
         /\ \A k \in 0..Size - 1 :
              disk_of[k] = IF SegOf(k) \in DOMAIN tree THEN tree[SegOf(k)][PageOf(k)][InPage(k)] ELSE 0
BY DEF disk_of, SegOf, PageOf, InPage, Size

(* The sectors a request has before it are on the disk. *)
LEMMA Ahead ==
  ASSUME NEW b, Flying(b), Size \in Nat, b.pc # "iovec", NEW n \in Nat \ {0},
         n <= VecLen(b) - b.done - b.copied
  PROVE  /\ done_of(b) \in Nat /\ b.start \in Nat /\ done_of(b) + n <= Len(b.mem) /\ Len(b.mem) \in Nat
         /\ b.start + done_of(b) = b.off + b.done + b.copied /\ done_of(b) = Base(b) + b.copied
         /\ b.off + b.done \in Nat /\ b.copied \in Nat /\ Base(b) \in Nat
         /\ b.off + b.done + b.copied + n <= Size
<1>1. /\ done_of(b) = Base(b) + b.copied /\ done_of(b) = Ended(b.vecs, b.i) + b.done + b.copied
      /\ done_of(b) \in Nat /\ VecLen(b) \in Nat /\ Ended(b.vecs, b.i) \in Nat /\ Total(b.vecs) \in Nat
      /\ done_of(b) + (VecLen(b) - b.done - b.copied) <= Total(b.vecs)
  BY RequestFacts DEF Flying
<1>2. /\ b.start \in Nat /\ b.off = b.start + Ended(b.vecs, b.i) /\ b.off \in Nat /\ b.done \in Nat
      /\ b.copied \in Nat /\ b.start + Total(b.vecs) <= Size /\ Len(b.mem) = Total(b.vecs)
  BY DEF Flying, RequestPlace, RequestType
<1>3. Base(b) = Ended(b.vecs, b.i) + b.done
  BY DEF Base
<1> DEFINE e == Ended(b.vecs, b.i)
           l == VecLen(b)
           t == Total(b.vecs)
           o == done_of(b)
           s == b.start
           f == b.off
           d == b.done
           c == b.copied
           m == Len(b.mem)
           g == Base(b)
<1> HIDE DEF e, l, t, o, s, f, d, c, m, g
<1>4. /\ o = e + d + c /\ o \in Nat /\ l \in Nat /\ e \in Nat /\ t \in Nat /\ o + (l - d - c) <= t
      /\ s \in Nat /\ f = s + e /\ f \in Nat /\ d \in Nat /\ c \in Nat /\ s + t <= Size /\ m = t
      /\ g = e + d /\ n <= l - d - c
  BY <1>1, <1>2, <1>3 DEF e, l, t, o, s, f, d, c, m, g
<1>5. /\ o \in Nat /\ s \in Nat /\ o + n <= m /\ m \in Nat /\ s + o = f + d + c /\ o = g + c
      /\ f + d \in Nat /\ c \in Nat /\ g \in Nat /\ f + d + c + n <= Size
  BY <1>4
<1>6. QED
  BY <1>5 DEF e, l, t, o, s, f, d, c, m, g

(* A read of a segment that is not there. *)
LEMMA ReadAbsentFlat ==
  ASSUME IInv, FlatInv, NEW r \in Requesters, ReadAbsent(r)
  PROVE  FlatInv' /\ FlatStep
<1> DEFINE b   == bio[r]
           nb  == bio'[r]
           cnt == Part(b).cnt
           to  == Base(b)
           a   == b.off + b.done
           new == [k \in DOMAIN b.mem |-> IF k - to \in 1..cnt THEN 0 ELSE b.mem[k]]
<1>1. Request(r) /\ UNCHANGED <<tree, result>> /\ b.pc = "trans" /\ b.done < VecLen(b) /\ b.dir = "read"
      /\ Seg(b) \notin DOMAIN tree
  BY DEF ReadAbsent, AtPart, Request
<1>2. Flying(b) /\ DOMAIN b = DOMAIN Free /\ DOMAIN bio = Requesters /\ Size \in Nat /\ loaded = "yes"
      /\ UNCHANGED <<Size, bytes>> /\ Only(r)
  BY <1>1, Running
<1>3. /\ b.copied = 0 /\ cnt \in Nat \ {0} /\ cnt <= VecLen(b) - b.done /\ cnt <= SegSectors - (a % SegSectors)
      /\ VecLen(b) \in Nat /\ b.done \in Nat /\ Seg(b) = SegOf(a)
  BY <1>1, <1>2, PartFacts, RequestFacts DEF Flying, RequestPlace, RequestType, Seg, SegOf
<1>4. /\ done_of(b) \in Nat /\ b.start \in Nat /\ done_of(b) + cnt <= Len(b.mem) /\ Len(b.mem) \in Nat
      /\ b.start + done_of(b) = a /\ done_of(b) = to /\ a \in Nat /\ a + cnt <= Size /\ to \in Nat
  <2>1. cnt <= VecLen(b) - b.done - b.copied
    BY <1>3
  <2>2. /\ done_of(b) \in Nat /\ b.start \in Nat /\ done_of(b) + cnt <= Len(b.mem) /\ Len(b.mem) \in Nat
        /\ b.start + done_of(b) = a + b.copied /\ done_of(b) = to + b.copied
        /\ a \in Nat /\ to \in Nat /\ a + b.copied + cnt <= Size
    BY <1>1, <1>2, <1>3, <2>1, Ahead
  <2>3. QED
    BY <1>3, <2>2
<1>5. nb = [b EXCEPT !.done = @ + cnt, !.mem = new]
  BY <1>2 DEF ReadAbsent
<1> HIDE DEF new
<1>6. /\ nb.pc = "trans" /\ nb.dir = b.dir /\ nb.start = b.start /\ nb.vecs = b.vecs /\ nb.mem = new
      /\ nb.i = b.i /\ nb.off = b.off /\ nb.done = b.done + cnt /\ nb.copied = b.copied
  BY <1>1, <1>2, <1>5 DEF Free
<1> HIDE DEF nb, cnt, to, a
<1>7. new \in Seq(Content) /\ Len(new) = Len(b.mem)
      /\ \A k \in 1..Len(b.mem) : new[k] = IF k - to \in 1..cnt THEN 0 ELSE b.mem[k]
  <2>1. b.mem \in Seq(Content)
    BY <1>1, <1>2 DEF Flying, RequestPlace
  <2>2. DOMAIN b.mem = 1..Len(b.mem) /\ \A k \in 1..Len(b.mem) : b.mem[k] \in Content
    BY <2>1
  <2>3. new \in [1..Len(b.mem) -> Content]
    BY <2>2 DEF new, Content
  <2>4. QED
    BY <1>4, <2>2, <2>3 DEF new
<1>8. done_of(nb) = done_of(b) + cnt
  <2>1. b.off \in Nat
    BY <1>2 DEF Flying, RequestType
  <2>2. done_of(nb) = b.off - b.start + (b.done + cnt) + b.copied
    BY <1>6 DEF done_of
  <2>3. done_of(b) = b.off - b.start + b.done + b.copied
    BY DEF done_of
  <2> HIDE DEF b
  <2>4. QED
    BY <1>3, <1>4, <2>1, <2>2, <2>3
<1>9. VecLen(nb) = VecLen(b) /\ nb.done <= VecLen(nb)
  <2>1. VecLen(nb) = VecLen(b)
    BY <1>6 DEF VecLen
  <2>2. QED
    BY <1>3, <1>6, <2>1
<1>10. RequestPlace(bio[r])'
  BY <1>1, <1>2, <1>6, <1>7, <1>9 DEF Flying, RequestPlace, nb
<1>11. ASSUME NEW k \in 1..done_of(b) PROVE new[k] = b.mem[k]
  <2>1. k - to \notin 1..cnt
    BY <1>3, <1>4
  <2>2. k \in 1..Len(b.mem)
    BY <1>3, <1>4
  <2>3. QED
    BY <1>7, <2>1, <2>2
<1>12. ASSUME NEW k \in 1..cnt
       PROVE  new[done_of(b) + k] = disk_of[b.start + done_of(b) + k - 1]
  <2>1. new[done_of(b) + k] = 0
    BY <1>3, <1>4, <1>7
  <2> DEFINE j == a + k - 1
  <2>2. j \in a..(a + cnt - 1) /\ j \in 0..Size - 1 /\ b.start + done_of(b) + k - 1 = j
    <3> DEFINE f == b.start
               o == done_of(b)
    <3> HIDE DEF f, o
    <3>1. /\ a \in Nat /\ cnt \in Nat /\ Size \in Nat /\ f \in Nat /\ o \in Nat
          /\ f + o = a /\ a + cnt <= Size
      BY <1>2, <1>3, <1>4 DEF f, o
    <3>2. j \in a..(a + cnt - 1) /\ j \in 0..Size - 1 /\ f + o + k - 1 = j
      BY <3>1
    <3>3. QED
      BY <3>2 DEF f, o
  <2> HIDE DEF j
  <2>3. SegOf(j) = SegOf(a)
    BY <1>3, <1>4, <2>2, PartRun
  <2>4. disk_of[j] = 0
    BY <1>1, <1>2, <1>3, <2>2, <2>3, Sectors
  <2>5. QED
    BY <2>1, <2>2, <2>4
<1>13. UNCHANGED disk_of
  BY <1>1, Running DEF disk_of
<1>14. Flat!Next
  <2>1. bio'[r].pc # "idle" /\ bio'[r].dir = "read" /\ bio'[r].start = bio[r].start
    BY <1>1, <1>6 DEF nb
  <2>2. bio'[r].mem \in Seq(Content) /\ Len(bio'[r].mem) = Len(bio[r].mem)
    BY <1>6, <1>7 DEF nb
  <2>3. done_of(bio'[r]) = done_of(bio[r]) + cnt /\ done_of(bio[r]) + cnt <= Len(bio[r].mem)
    BY <1>4, <1>8 DEF nb
  <2>4. /\ \A k \in 1..done_of(bio[r]) : bio'[r].mem[k] = bio[r].mem[k]
        /\ \A k \in 1..cnt : bio'[r].mem[done_of(bio[r]) + k] = disk_of[bio[r].start + done_of(bio[r]) + k - 1]
    BY <1>6, <1>11, <1>12 DEF nb
  <2>5. Only(r) /\ Flying(bio[r]) /\ bio[r].dir = "read" /\ cnt \in Nat \ {0}
    BY <1>1, <1>2, <1>3
  <2>6. QED
    BY <1>1, <1>13, <2>1, <2>2, <2>3, <2>4, <2>5, MoveRead
<1>15. Places'
  <2>1. \A q \in Requesters \ {r} : bio'[q] = bio[q]
    BY <1>2 DEF Only
  <2>2. QED
    BY <1>1, <1>2, <1>10, <2>1, OnePlace DEF FlatInv
<1>16. DiskInv'
  BY <1>1, Running DEF FlatInv, DiskInv, Size
<1>17. QED
  BY <1>14, <1>15, <1>16 DEF FlatInv, FlatStep

(* The disk after a step, sector by sector. *)
LEMMA SectorsAfter ==
  ASSUME loaded = "yes", UNCHANGED <<loaded, Size>>
  PROVE  /\ disk_of = [k \in 0..Size - 1 |-> disk_of[k]] /\ disk_of' = [k \in 0..Size - 1 |-> disk_of'[k]]
         /\ \A k \in 0..Size - 1 :
              disk_of'[k] = IF SegOf(k) \in DOMAIN tree' THEN tree'[SegOf(k)][PageOf(k)][InPage(k)] ELSE 0
<1>1. loaded' = "yes" /\ Size' = Size
  OBVIOUS
<1>2. Size' = bytes' \div SectorSize
  BY DEF Size
<1>3. disk_of' = [k \in 0..Size - 1 |->
                    IF SegOf(k) \in DOMAIN tree' THEN tree'[SegOf(k)][PageOf(k)][InPage(k)] ELSE 0]
  BY <1>1, <1>2, Zenon DEF disk_of, SegOf, PageOf, InPage
<1>4. disk_of = [k \in 0..Size - 1 |->
                    IF SegOf(k) \in DOMAIN tree THEN tree[SegOf(k)][PageOf(k)][InPage(k)] ELSE 0]
  BY Zenon DEF disk_of, SegOf, PageOf, InPage, Size
<1>5. QED
  BY <1>3, <1>4

(* A segment of zeros reads like one that is not there. *)
LEMMA WriteAbsentFlat ==
  ASSUME IInv, FlatInv, NEW r \in Requesters, WriteAbsent(r)
  PROVE  FlatInv' /\ FlatStep
<1> DEFINE b   == bio[r]
           nb  == bio'[r]
           seg == Seg(b)
<1>1. Request(r) /\ AtPart(r) /\ seg \notin DOMAIN tree
  BY DEF WriteAbsent, Request
<1>2. loaded = "yes" /\ UNCHANGED <<loaded, Size>> /\ Size \in Nat /\ Only(r) /\ Flying(b) /\ UNCHANGED bytes
  BY <1>1, Running
<1>3. CASE Fails \cap {"alloc", "insert"} # {} /\ bio_endio(r, "error") /\ UNCHANGED tree
  <2>1. Fails # {}
    BY <1>3
  <2>2. QED
    BY <1>1, <1>3, <2>1, EndsRequest DEF FlatStep
<1>4. CASE AddSegment(seg) /\ ToSegment(r, seg)
  <2>1. DOMAIN tree' = DOMAIN tree \cup {seg} /\ tree'[seg] = ZeroSegment
        /\ \A s \in DOMAIN tree : tree'[s] = tree[s]
    BY <1>1, <1>4 DEF AddSegment
  <2> HIDE DEF seg
  <2>2. /\ RequestPlace(bio[r])' /\ done_of(nb) = done_of(b) /\ nb.pc = "oneseg"
        /\ nb.dir = b.dir /\ nb.start = b.start /\ nb.mem = b.mem
    BY <1>1, <1>4, <2>1, ToSegmentPlace DEF seg
  <2>3. ASSUME NEW k \in 0..Size - 1 PROVE disk_of'[k] = disk_of[k]
    <3>1. disk_of'[k] = IF SegOf(k) \in DOMAIN tree' THEN tree'[SegOf(k)][PageOf(k)][InPage(k)] ELSE 0
      BY <1>2, SectorsAfter
    <3>2. disk_of[k] = IF SegOf(k) \in DOMAIN tree THEN tree[SegOf(k)][PageOf(k)][InPage(k)] ELSE 0
      BY <1>2, Sectors
    <3>3. CASE SegOf(k) = seg
      <4>1. PageOf(k) \in 0..SegPages - 1 /\ InPage(k) \in 0..PageSectors - 1
        BY <1>2, Place
      <4>2. ZeroSegment[PageOf(k)][InPage(k)] = 0
        BY <4>1 DEF ZeroSegment
      <4>3. QED
        BY <1>1, <2>1, <3>1, <3>2, <3>3, <4>2
    <3>4. CASE SegOf(k) # seg
      BY <2>1, <3>1, <3>2, <3>4
    <3>5. QED
      BY <3>3, <3>4
  <2>4. UNCHANGED disk_of
    BY <1>2, <2>3, SectorsAfter
  <2>5. UNCHANGED <<disk_of, [q \in Requesters |-> req_of(bio[q])], result>>
    <3>1. req_of(nb) = req_of(b)
      BY <1>2, <2>2, SameRequest DEF Flying
    <3>2. UNCHANGED result
      BY <1>4 DEF ToSegment
    <3>3. QED
      BY <1>2, <2>4, <3>1, <3>2, Stutters
  <2>6. Places'
    <3>1. \A q \in Requesters \ {r} : bio'[q] = bio[q]
      BY <1>2 DEF Only
    <3>2. QED
      BY <1>2, <2>1, <2>2, <3>1, OnePlace DEF FlatInv
  <2>7. DiskInv'
    <3>1. ZeroSegment \in Segment
      BY DEF ZeroSegment, Segment, Content
    <3>2. \A s \in DOMAIN tree' : tree'[s] \in Segment
      BY <2>1, <3>1 DEF FlatInv, DiskInv
    <3>3. QED
      BY <1>2, <3>2 DEF FlatInv, DiskInv, Size
  <2>8. QED
    BY <2>5, <2>6, <2>7 DEF FlatInv, FlatStep
<1>5. QED
  BY <1>3, <1>4 DEF WriteAbsent, Fail

DiskAt(b)  == b.start + done_of(b)

(* What is copied from or to one page: the page, the sectors of it, where  *)
(* they are on the disk and in the memory of the request.                  *)
LEMMA CopyFacts ==
  ASSUME IInv, FlatInv, NEW r \in Requesters, Request(r), bio[r].pc = "oneseg", bio[r].copied < bio[r].this_cnt,
         NEW b, b = bio[r]
  PROVE  /\ Seg(b) \in DOMAIN tree /\ Seg(b) = SegOf(b.off + b.done) /\ PageCnt(b) \in Nat \ {0}
         /\ b.copied + PageCnt(b) <= b.this_cnt
         /\ PageNo(b) \in 0..SegPages - 1 /\ PageOff(b) \in 0..PageSectors - 1
         /\ PageCnt(b) <= PageSectors - PageOff(b)
         /\ done_of(b) = Base(b) + b.copied /\ done_of(b) + PageCnt(b) <= Len(b.mem)
         /\ done_of(b) \in Nat /\ Len(b.mem) \in Nat /\ b.start \in Nat /\ DiskAt(b) \in Nat
         /\ DiskAt(b) + PageCnt(b) <= Size
         /\ \A k \in Nat :
              /\ k \in DiskAt(b)..(DiskAt(b) + PageCnt(b) - 1) <=>
                   SegOf(k) = Seg(b) /\ PageOf(k) = PageNo(b) /\ InPage(k) - PageOff(b) \in 0..PageCnt(b) - 1
              /\ k \in DiskAt(b)..(DiskAt(b) + PageCnt(b) - 1) => InPage(k) = PageOff(b) + (k - DiskAt(b))
<1> DEFINE a == b.off + b.done
           c == b.copied
           w == b.this_cnt
           n == PageCnt(b)
           o == b.this_off
<1>1. Flying(b) /\ Size \in Nat
  BY Running
<1>2. /\ Seg(b) \in DOMAIN tree /\ o = a % SegSectors /\ c \in Nat /\ w \in Nat /\ a \in Nat /\ o \in Nat
      /\ c < w /\ w <= SegSectors - o /\ w <= VecLen(b) - b.done /\ b.done \in Nat /\ VecLen(b) \in Nat
  <2>1. VecLen(b) \in Nat
    BY <1>1, RequestFacts DEF Flying
  <2>2. b.pc = "oneseg" /\ c < w
    OBVIOUS
  <2>3. Seg(b) \in DOMAIN tree /\ o = a % SegSectors /\ w <= SegSectors - o /\ w <= VecLen(b) - b.done
    BY <1>1, <2>2 DEF Flying, RequestPlace
  <2>4. c \in Nat /\ w \in Nat /\ o \in Nat /\ b.off \in Nat /\ b.done \in Nat
    BY <1>1 DEF Flying, RequestType
  <2>5. QED
    BY <2>1, <2>2, <2>3, <2>4
<1>3. Seg(b) = SegOf(a)
  BY DEF Seg, SegOf
<1>4. PageOff(b) = (o + c) % PageSectors /\ PageNo(b) = (o + c) \div PageSectors
      /\ n = Least(w - c, PageSectors - PageOff(b))
  BY DEF PageOff, PageNo, PageCnt
<1>5. PageOff(b) \in Nat /\ PageOff(b) < PageSectors /\ n \in Nat \ {0} /\ n <= w - c /\ n <= PageSectors - PageOff(b)
  <2>1. o + c \in Nat
    BY <1>2
  <2> DEFINE p == PageOff(b)
  <2> HIDE DEF a, c, w, n, o, p
  <2>2. p \in Nat /\ p < PageSectors
    BY <1>4, <2>1, Geometry, DivisionParts DEF p
  <2>3. w - c \in Nat \ {0} /\ PageSectors - p \in Nat \ {0}
    BY <1>2, <2>2, Geometry
  <2>4. ASSUME NEW x \in Nat \ {0}, NEW y \in Nat \ {0}
        PROVE  Least(x, y) \in Nat \ {0} /\ Least(x, y) <= x /\ Least(x, y) <= y
    BY DEF Least
  <2>5. n = Least(w - c, PageSectors - p)
    BY <1>4 DEF p
  <2> HIDE DEF p
  <2>6. n \in Nat \ {0} /\ n <= w - c /\ n <= PageSectors - p
    BY <2>3, <2>4, <2>5
  <2>7. QED
    BY <2>2, <2>6 DEF p
<1>6. n <= VecLen(b) - b.done - c /\ c + n <= w /\ o + c < SegSectors
  <2> HIDE DEF a, c, w, n, o
  <2>1. QED
    BY <1>2, <1>5, Geometry
<1>7. /\ done_of(b) \in Nat /\ b.start \in Nat /\ done_of(b) + n <= Len(b.mem) /\ Len(b.mem) \in Nat
      /\ DiskAt(b) = a + c /\ done_of(b) = Base(b) + c /\ a + c + n <= Size
  BY <1>1, <1>5, <1>6, Ahead DEF DiskAt
<1> DEFINE at == DiskAt(b)
           pg == PageNo(b)
           po == PageOff(b)
<1>8. /\ pg \in 0..SegPages - 1 /\ po \in 0..PageSectors - 1
      /\ \A k \in Nat :
           /\ k \in at..(at + n - 1) <=> SegOf(k) = Seg(b) /\ PageOf(k) = pg /\ InPage(k) - po \in 0..n - 1
           /\ k \in at..(at + n - 1) => InPage(k) = po + (k - at)
  <2>1. o = a % SegSectors /\ at = a + c /\ pg = (o + c) \div PageSectors /\ po = (o + c) % PageSectors
        /\ Seg(b) = SegOf(a)
    BY <1>2, <1>3, <1>4, <1>7
  <2> HIDE DEF a, c, n, o, at, pg, po
  <2>2. ASSUME NEW k \in Nat
        PROVE  /\ pg \in 0..SegPages - 1 /\ po \in 0..PageSectors - 1
               /\ k \in at..(at + n - 1) <=> SegOf(k) = SegOf(a) /\ PageOf(k) = pg /\ InPage(k) - po \in 0..n - 1
               /\ k \in at..(at + n - 1) => InPage(k) = po + (k - at)
    <3>1. a \in Nat /\ c \in Nat /\ n \in Nat /\ (a % SegSectors) + c < SegSectors
          /\ n <= PageSectors - (((a % SegSectors) + c) % PageSectors)
      BY <1>2, <1>5, <1>6, <2>1 DEF po
    <3>2. LET x == (a % SegSectors) + c
              p == x \div PageSectors
              q == x % PageSectors
              t == a + c
          IN  /\ p \in 0..SegPages - 1 /\ q \in 0..PageSectors - 1
              /\ k \in t..(t + n - 1) <=> SegOf(k) = SegOf(a) /\ PageOf(k) = p /\ InPage(k) - q \in 0..n - 1
              /\ k \in t..(t + n - 1) => InPage(k) = q + (k - t)
      BY <3>1, PageRun
    <3>3. QED
      BY <2>1, <3>2
  <2>3. 0 \in Nat
    OBVIOUS
  <2>4. QED
    BY <2>1, <2>2, <2>3
<1>9. DiskAt(b) \in Nat /\ DiskAt(b) + n <= Size
  BY <1>2, <1>7
<1>10. QED
  BY <1>2, <1>3, <1>5, <1>6, <1>7, <1>8, <1>9

(* One page of a part. *)
LEMMA CopyPageFlat ==
  ASSUME IInv, FlatInv, NEW r \in Requesters, CopyPage(r)
  PROVE  FlatInv' /\ FlatStep
<1> DEFINE b   == bio[r]
           nb  == bio'[r]
           n   == PageCnt(b)
           pg  == PageNo(b)
           po  == PageOff(b)
           seg == Seg(b)
           to  == Base(b) + b.copied
           at  == DiskAt(b)
<1>1. Request(r) /\ b.pc = "oneseg" /\ b.copied < b.this_cnt /\ UNCHANGED result
  BY DEF CopyPage, Request
<1>2. loaded = "yes" /\ UNCHANGED <<loaded, Size, bytes>> /\ Size \in Nat /\ Only(r) /\ Flying(b)
      /\ DOMAIN b = DOMAIN Free /\ DOMAIN bio = Requesters
  BY <1>1, Running
<1>3. /\ seg \in DOMAIN tree /\ n \in Nat \ {0} /\ b.copied + n <= b.this_cnt
      /\ pg \in 0..SegPages - 1 /\ po \in 0..PageSectors - 1 /\ n <= PageSectors - po
      /\ done_of(b) = to /\ to + n <= Len(b.mem) /\ to \in Nat /\ Len(b.mem) \in Nat
      /\ b.start \in Nat /\ at \in Nat /\ at + n <= Size /\ at = b.start + to
  BY <1>1, CopyFacts DEF DiskAt
<1>4. ASSUME NEW k \in Nat
      PROVE  /\ k \in at..(at + n - 1) <=> SegOf(k) = seg /\ PageOf(k) = pg /\ InPage(k) - po \in 0..n - 1
             /\ k \in at..(at + n - 1) => InPage(k) = po + (k - at)
  BY <1>1, CopyFacts
<1>5. b.mem \in Seq(Content) /\ tree[seg] \in Segment /\ \A s \in DOMAIN tree : tree[s] \in Segment
  BY <1>1, <1>2, <1>3 DEF Flying, RequestPlace, FlatInv, DiskInv
<1>6. b.copied \in Nat /\ b.off \in Nat /\ b.done \in Nat /\ b.this_cnt \in Nat
  BY <1>2 DEF Flying, RequestType
<1>7. ASSUME nb.pc = b.pc, nb.dir = b.dir, nb.start = b.start, nb.vecs = b.vecs, nb.i = b.i, nb.off = b.off,
             nb.done = b.done, nb.this_off = b.this_off, nb.this_cnt = b.this_cnt, nb.copied = b.copied + n,
             nb.mem \in Seq(Content), Len(nb.mem) = Len(b.mem), DOMAIN tree' = DOMAIN tree
      PROVE  Places' /\ done_of(nb) = to + n
  <2>1. Seg(nb) = seg /\ VecLen(nb) = VecLen(b)
    BY <1>7 DEF Seg, VecLen
  <2>2. RequestPlace(bio[r])'
    <3> HIDE DEF n, seg
    <3>1. QED
      BY <1>1, <1>2, <1>3, <1>7, <2>1 DEF Flying, RequestPlace, seg
  <2>3. \A q \in Requesters \ {r} : bio'[q] = bio[q]
    BY <1>2 DEF Only
  <2>4. Places'
    BY <1>2, <1>7, <2>2, <2>3, OnePlace DEF FlatInv
  <2>5. done_of(nb) = b.off - b.start + b.done + (b.copied + n)
    BY <1>7 DEF done_of
  <2>6. done_of(b) = b.off - b.start + b.done + b.copied
    BY DEF done_of
  <2>7. done_of(nb) = to + n
    <3> DEFINE f == b.off
               s == b.start
               d == b.done
               c == b.copied
    <3> HIDE DEF n, to, f, s, d, c
    <3>1. f \in Nat /\ s \in Nat /\ d \in Nat /\ c \in Nat /\ n \in Nat /\ to \in Nat
      BY <1>3, <1>6 DEF f, s, d, c
    <3>2. to = f - s + d + c /\ done_of(nb) = f - s + d + (c + n)
      BY <1>3, <2>5, <2>6 DEF f, s, d, c
    <3>3. QED
      BY <3>1, <3>2
  <2>8. QED
    BY <2>4, <2>7
<1>8. CASE b.dir = "write"
  <2> DEFINE P   == [s \in DOMAIN tree[seg][pg] |-> IF s - po \in 0..n - 1 THEN b.mem[to + 1 + s - po] ELSE tree[seg][pg][s]]
  <2>1. tree' = [tree EXCEPT ![seg][pg] = P] /\ bio' = [bio EXCEPT ![r].copied = @ + n]
    BY <1>8 DEF CopyPage, PageNo, PageOff, PageCnt
  <2>2. DOMAIN tree[seg] = 0..SegPages - 1 /\ DOMAIN tree[seg][pg] = 0..PageSectors - 1
        /\ tree[seg][pg] \in [0..PageSectors - 1 -> Content]
    BY <1>3, <1>5 DEF Segment
  <2>3. P \in [0..PageSectors - 1 -> Content]
    <3>1. ASSUME NEW s \in 0..PageSectors - 1, s - po \in 0..n - 1 PROVE b.mem[to + 1 + s - po] \in Content
      <4> HIDE DEF to, n, po, b
      <4>1. to + 1 + s - po \in 1..Len(b.mem)
        BY <1>3, <3>1
      <4>2. QED
        BY <1>5, <4>1
    <3>2. \A s \in 0..PageSectors - 1 : tree[seg][pg][s] \in Content
      BY <2>2
    <3>3. QED
      BY <2>2, <3>1, <3>2
  <2>4. /\ DOMAIN tree' = DOMAIN tree /\ tree'[seg] = [tree[seg] EXCEPT ![pg] = P]
        /\ \A s \in DOMAIN tree : s # seg => tree'[s] = tree[s]
    <3> HIDE DEF P, seg, pg
    <3>1. QED
      BY <1>3, <2>1
  <2>5. DiskInv'
    <3>1. tree'[seg] \in Segment
      <4> HIDE DEF P, seg, pg
      <4>1. QED
        BY <1>3, <1>5, <2>3, <2>4 DEF Segment
    <3>2. \A s \in DOMAIN tree' : tree'[s] \in Segment
      BY <1>5, <2>4, <3>1
    <3>3. QED
      BY <1>2, <3>2 DEF FlatInv, DiskInv, Size
  <2>6. nb = [b EXCEPT !.copied = @ + n]
    BY <1>2, <2>1
  <2>7. /\ nb.pc = b.pc /\ nb.dir = b.dir /\ nb.start = b.start /\ nb.vecs = b.vecs /\ nb.i = b.i /\ nb.off = b.off
        /\ nb.done = b.done /\ nb.this_off = b.this_off /\ nb.this_cnt = b.this_cnt /\ nb.copied = b.copied + n
        /\ nb.mem = b.mem
    <3> HIDE DEF n
    <3>1. QED
      BY <1>2, <2>6 DEF Free
  <2>8. Places' /\ done_of(nb) = to + n
    BY <1>5, <1>7, <2>4, <2>7
  <2>9. ASSUME NEW k \in 0..Size - 1
        PROVE  disk_of'[k] = IF k \in at..(at + n - 1) THEN b.mem[k - b.start + 1] ELSE disk_of[k]
    <3>1. disk_of'[k] = IF SegOf(k) \in DOMAIN tree' THEN tree'[SegOf(k)][PageOf(k)][InPage(k)] ELSE 0
      BY <1>2, SectorsAfter
    <3>2. disk_of[k] = IF SegOf(k) \in DOMAIN tree THEN tree[SegOf(k)][PageOf(k)][InPage(k)] ELSE 0
      BY <1>2, Sectors
    <3>3. k \in Nat /\ PageOf(k) \in 0..SegPages - 1 /\ InPage(k) \in 0..PageSectors - 1
      BY <1>2, Place
    <3> HIDE DEF seg, pg
    <3>4. CASE SegOf(k) # seg
      BY <1>4, <2>4, <3>1, <3>2, <3>3, <3>4
    <3>5. CASE SegOf(k) = seg /\ PageOf(k) # pg
      <4>1. tree'[seg][PageOf(k)] = tree[seg][PageOf(k)]
        BY <2>4, <3>5
      <4>2. QED
        BY <1>3, <1>4, <2>4, <3>1, <3>2, <3>3, <3>5, <4>1
    <3>6. CASE SegOf(k) = seg /\ PageOf(k) = pg
      <4>1. tree'[seg][pg] = P
        BY <1>3, <2>2, <2>4
      <4>2. P[InPage(k)] = IF InPage(k) - po \in 0..n - 1 THEN b.mem[to + 1 + InPage(k) - po] ELSE tree[seg][pg][InPage(k)]
        BY <2>2, <3>3
      <4>3. k \in at..(at + n - 1) <=> InPage(k) - po \in 0..n - 1
        BY <1>4, <3>3, <3>6
      <4>4. k \in at..(at + n - 1) => to + 1 + InPage(k) - po = k - b.start + 1
        <5>1. ASSUME k \in at..(at + n - 1) PROVE InPage(k) = po + (k - at)
          BY <1>4, <3>3, <5>1
        <5> DEFINE s == b.start
                   p == InPage(k)
        <5> HIDE DEF to, n, po, at, s, p
        <5>2. po \in Nat /\ at \in Nat /\ to \in Nat /\ s \in Nat /\ at = s + to
          BY <1>3, Geometry DEF s
        <5>3. ASSUME p = po + (k - at) PROVE to + 1 + p - po = k - s + 1
          BY <3>3, <5>2, <5>3
        <5>4. QED
          BY <5>1, <5>3 DEF s, p
      <4> HIDE DEF P
      <4>5. QED
        BY <1>3, <2>4, <3>1, <3>2, <3>6, <4>1, <4>2, <4>3, <4>4
    <3>7. QED
      BY <3>4, <3>5, <3>6
  <2>10. disk_of' = [k \in DOMAIN disk_of |-> IF k \in at..(at + n - 1) THEN b.mem[k - b.start + 1] ELSE disk_of[k]]
    <3>1. DOMAIN disk_of = 0..Size - 1 /\ disk_of' = [k \in 0..Size - 1 |-> disk_of'[k]]
      BY <1>2, Sectors, SectorsAfter
    <3>2. QED
      BY <2>9, <3>1
  <2>11. Flat!Next
    <3>1. Only(r) /\ Flying(bio[r]) /\ bio[r].dir = "write" /\ n \in Nat \ {0}
      BY <1>2, <1>3, <1>8
    <3>2. /\ bio'[r].pc # "idle" /\ bio'[r].dir = "write" /\ bio'[r].start = bio[r].start /\ bio'[r].mem = bio[r].mem
      BY <1>1, <1>8, <2>7
    <3>3. done_of(bio'[r]) = done_of(bio[r]) + n /\ done_of(bio[r]) + n <= Len(bio[r].mem)
      BY <1>3, <2>8
    <3>4. disk_of' = [k \in DOMAIN disk_of |->
                       IF k \in (bio[r].start + done_of(bio[r]))..(bio[r].start + done_of(bio[r]) + n - 1)
                       THEN bio[r].mem[k - bio[r].start + 1] ELSE disk_of[k]]
      BY <2>10 DEF DiskAt
    <3> HIDE DEF n
    <3>5. QED
      BY <1>1, <3>1, <3>2, <3>3, <3>4, MoveWrite
  <2>12. QED
    BY <2>5, <2>8, <2>11 DEF FlatInv, FlatStep
<1>9. CASE b.dir = "read"
  <2> DEFINE new == [k \in DOMAIN b.mem |-> IF k - to \in 1..n THEN tree[seg][pg][po + k - to - 1] ELSE b.mem[k]]
  <2>1. UNCHANGED tree /\ bio' = [bio EXCEPT ![r].copied = @ + n, ![r].mem = new]
    BY <1>9 DEF CopyPage, PageNo, PageOff, PageCnt
  <2>2. new \in Seq(Content) /\ Len(new) = Len(b.mem)
        /\ \A k \in 1..Len(b.mem) : new[k] = IF k - to \in 1..n THEN tree[seg][pg][po + k - to - 1] ELSE b.mem[k]
    <3>1. DOMAIN b.mem = 1..Len(b.mem) /\ \A k \in 1..Len(b.mem) : b.mem[k] \in Content
      BY <1>5
    <3>2. ASSUME NEW k \in 1..Len(b.mem), k - to \in 1..n PROVE tree[seg][pg][po + k - to - 1] \in Content
      <4>1. po + k - to - 1 \in 0..PageSectors - 1
        <5> HIDE DEF to, n, po, b
        <5>1. QED
          BY <1>3, <3>2, Geometry
      <4>2. QED
        BY <1>3, <1>5, <4>1 DEF Segment
    <3>3. new \in [1..Len(b.mem) -> Content]
      BY <3>1, <3>2
    <3>4. DOMAIN new = 1..Len(b.mem)
          /\ \A k \in 1..Len(b.mem) : new[k] = IF k - to \in 1..n THEN tree[seg][pg][po + k - to - 1] ELSE b.mem[k]
      BY <3>1
    <3>5. Len(b.mem) \in Nat
      BY <1>3
    <3> HIDE DEF new
    <3>6. new \in Seq(Content) /\ Len(new) = Len(b.mem)
      BY <3>3, <3>4, <3>5
    <3>7. QED
      BY <3>4, <3>6
  <2> HIDE DEF new
  <2>3. nb = [b EXCEPT !.copied = @ + n, !.mem = new]
    BY <1>2, <2>1
  <2>4. /\ nb.pc = b.pc /\ nb.dir = b.dir /\ nb.start = b.start /\ nb.vecs = b.vecs /\ nb.i = b.i /\ nb.off = b.off
        /\ nb.done = b.done /\ nb.this_off = b.this_off /\ nb.this_cnt = b.this_cnt /\ nb.copied = b.copied + n
        /\ nb.mem = new
    <3> HIDE DEF n
    <3>1. QED
      BY <1>2, <2>3 DEF Free
  <2>5. Places' /\ done_of(nb) = to + n
    BY <1>7, <2>1, <2>2, <2>4
  <2>6. DiskInv'
    BY <1>2, <2>1 DEF FlatInv, DiskInv, Size
  <2>7. ASSUME NEW k \in 1..to PROVE new[k] = b.mem[k]
    <3> HIDE DEF to, n, b
    <3>1. k - to \notin 1..n /\ k \in 1..Len(b.mem)
      BY <1>3
    <3>2. QED
      BY <2>2, <3>1
  <2>8. ASSUME NEW k \in 1..n PROVE new[to + k] = disk_of[b.start + to + k - 1]
    <3> DEFINE j == at + k - 1
    <3>1. j \in at..(at + n - 1) /\ j \in 0..Size - 1 /\ j \in Nat /\ b.start + to + k - 1 = j
      <4> DEFINE s == b.start
      <4> HIDE DEF to, n, at, s
      <4>1. n \in Nat /\ at \in Nat /\ to \in Nat /\ s \in Nat /\ at = s + to /\ at + n <= Size /\ Size \in Nat
        BY <1>2, <1>3 DEF s
      <4>2. j \in at..(at + n - 1) /\ j \in 0..Size - 1 /\ j \in Nat /\ s + to + k - 1 = j
        BY <4>1
      <4>3. QED
        BY <4>2 DEF s
    <3>2. SegOf(j) = seg /\ PageOf(j) = pg /\ InPage(j) = po + (j - at)
      BY <1>4, <3>1
    <3>3. disk_of[j] = tree[seg][pg][InPage(j)]
      <4> HIDE DEF j, seg, pg
      <4>1. QED
        BY <1>2, <1>3, <3>1, <3>2, Sectors
    <3>4. InPage(j) = po + (to + k) - to - 1 /\ to + k \in 1..Len(b.mem) /\ (to + k) - to \in 1..n
      <4>1. InPage(j) = po + ((at + k - 1) - at)
        BY <3>2
      <4> DEFINE l == Len(b.mem)
                 p == InPage(j)
      <4> HIDE DEF to, n, at, po, l, p
      <4>2. po \in Nat /\ n \in Nat /\ at \in Nat /\ to \in Nat /\ l \in Nat /\ to + n <= l
        BY <1>3, Geometry DEF l
      <4>3. ASSUME p = po + ((at + k - 1) - at)
            PROVE  p = po + (to + k) - to - 1 /\ to + k \in 1..l /\ (to + k) - to \in 1..n
        BY <4>2, <4>3
      <4>4. QED
        BY <4>1, <4>3 DEF l, p
    <3>5. new[to + k] = tree[seg][pg][po + (to + k) - to - 1]
      <4> HIDE DEF to, n, po, b, seg, pg
      <4>1. QED
        BY <2>2, <3>4
    <3>6. QED
      BY <3>1, <3>3, <3>4, <3>5
  <2>9. UNCHANGED disk_of
    BY <1>2, <2>1 DEF disk_of
  <2>10. Flat!Next
    <3>1. Only(r) /\ Flying(bio[r]) /\ bio[r].dir = "read" /\ n \in Nat \ {0}
      BY <1>2, <1>3, <1>9
    <3>2. bio'[r].pc # "idle" /\ bio'[r].dir = "read" /\ bio'[r].start = bio[r].start
      BY <1>1, <1>9, <2>4
    <3>3. bio'[r].mem \in Seq(Content) /\ Len(bio'[r].mem) = Len(bio[r].mem)
      BY <2>2, <2>4
    <3>4. done_of(bio'[r]) = done_of(bio[r]) + n /\ done_of(bio[r]) + n <= Len(bio[r].mem)
      BY <1>3, <2>5
    <3>5. /\ \A k \in 1..done_of(bio[r]) : bio'[r].mem[k] = bio[r].mem[k]
          /\ \A k \in 1..n : bio'[r].mem[done_of(bio[r]) + k] = disk_of[bio[r].start + done_of(bio[r]) + k - 1]
      BY <1>3, <2>4, <2>7, <2>8
    <3> HIDE DEF n
    <3>6. QED
      BY <1>1, <2>9, <3>1, <3>2, <3>3, <3>4, <3>5, MoveRead
  <2>11. QED
    BY <2>5, <2>6, <2>10 DEF FlatInv, FlatStep
<1>10. QED
  BY <1>1, <1>2, <1>8, <1>9 DEF Flying, RequestPlace

-----------------------------------------------------------------------------
(* Loading, submitting, unloading. *)

(* What fits in bytes fits in sectors. *)
LEMMA Within ==
  ASSUME NEW x \in Nat, NEW d \in Nat \ {0}, NEW y \in Nat, x * d <= y
  PROVE  x <= y \div d
<1>1. y \div d \in Nat /\ y % d \in Nat /\ y % d < d /\ y = (y \div d) * d + (y % d)
  BY DivisionParts
<1>2. ASSUME NEW q \in Nat, NEW e \in Nat, e < d, y = q * d + e, x > q PROVE FALSE
  <2>1. x >= q + 1
    BY <1>2
  <2>2. ASSUME NEW a \in Nat, NEW b \in Nat, a >= b PROVE a * d >= b * d
    BY <2>2
  <2>3. x * d >= (q + 1) * d
    BY <1>2, <2>1, <2>2
  <2>4. (q + 1) * d = q * d + d /\ q * d \in Nat
    BY <1>2
  <2>5. QED
    BY <1>2, <2>3, <2>4
<1>3. QED
  BY <1>1, <1>2

(* A number whose multiple is above y is above the quotient of y.          *)
LEMMA Beyond ==
  ASSUME NEW x \in Nat, NEW d \in Nat \ {0}, NEW y \in Nat, x * d > y
  PROVE  x > y \div d
<1>1. y \div d \in Nat /\ y % d \in Nat /\ y = (y \div d) * d + (y % d)
  BY DivisionParts
<1>2. ASSUME NEW q \in Nat, NEW e \in Nat, y = q * d + e, x <= q PROVE FALSE
  <2>1. ASSUME NEW a \in Nat, NEW b \in Nat, a <= b PROVE a * d <= b * d /\ b * d \in Nat
    BY <2>1
  <2>2. x * d <= q * d /\ q * d \in Nat /\ x * d \in Nat
    BY <1>2, <2>1
  <2>3. QED
    BY <1>2, <2>2
<1>3. QED
  BY <1>1, <1>2

(* A request whose addresses fit starts where it says. *)
LEMMA Addresses ==
  ASSUME AddressesFit, NEW s \in Starts, NEW v \in Vecs
  PROVE  /\ s \in Nat /\ Address(s) \div SectorSize = s
         /\ EndsAt(s, v) = (s + Total(v)) * SectorSize
<1>1. s \in Nat /\ Total(v) \in Nat /\ (s + Total(v)) * SectorSize < SectorRange
  BY BlkdevAssumption, Pieces DEF AddressesFit
<1> DEFINE a == s * SectorSize
           e == Total(v) * SectorSize
           z == (s + Total(v)) * SectorSize
<1>2. a \in Nat /\ e \in Nat /\ z = a + e
  BY <1>1, Geometry
<1>3. a \div SectorSize = s
  BY <1>1, Geometry
<1>4. ASSUME NEW x \in Nat, x < SectorRange PROVE x % SectorRange = x
  BY <1>4, Geometry
<1> HIDE DEF a, e, z
<1>5. a % SectorRange = a /\ (a + e) % SectorRange = a + e
  <2>1. z < SectorRange
    BY <1>1 DEF z
  <2>2. a < SectorRange /\ a + e < SectorRange /\ a + e \in Nat
    BY <1>2, <2>1, Geometry
  <2>3. QED
    BY <1>2, <1>4, <2>2
<1>6. QED
  BY <1>1, <1>2, <1>3, <1>5 DEF Address, EndsAt, a, e, z

(* Each task has a result. *)
Results == DOMAIN result = Requesters

(* Every step leaves the results or replaces one of them.                  *)
LEMMA ResultsKept ==
  ASSUME Results, [Next]_vars
  PROVE  Results'
<1>1. UNCHANGED result \/ \E r \in Requesters : \E o : result' = [result EXCEPT ![r] = o]
  <2>1. ASSUME NEW r \in Requesters, Submit(r) PROVE \E o : result' = [result EXCEPT ![r] = o]
    BY <2>1 DEF Submit
  <2>2. ASSUME NEW r \in Requesters, Request(r)
        PROVE  UNCHANGED result \/ \E o : result' = [result EXCEPT ![r] = o]
    BY <2>2 DEF Request, NextVec, VecDone, Present, ReadAbsent, WriteAbsent, CopyPage, CopyFails, PartDone,
       ToSegment, Fail, bio_endio
  <2>3. ASSUME Load \/ Exit \/ FreeRound \/ UNCHANGED vars PROVE UNCHANGED result
    BY <2>3 DEF Load, Exit, FreeRound, vars
  <2>4. QED
    BY <2>1, <2>2, <2>3 DEF Next
<1>2. QED
  BY <1>1 DEF Results

(* A request within the disk is submitted, another is refused. *)
LEMMA SubmitFlat ==
  ASSUME AddressesFit, IInv, FlatInv, Results, NEW r \in Requesters, Submit(r)
  PROVE  FlatInv' /\ FlatStep
<1>1. /\ loaded = "yes" /\ UNCHANGED <<loaded, bytes, tree, Size>> /\ bio[r] = Free
      /\ bytes \in Nat /\ Size \in Nat /\ DOMAIN bio = Requesters /\ Requests
  BY DEF Submit, FlatInv, DiskInv, Size, IInv, Requests
<1>2. PICK dir \in {"read", "write"}, s \in Starts, v \in Vecs :
        \/ /\ EndsAt(s, v) > bytes /\ UNCHANGED bio
           /\ result' = [result EXCEPT ![r] = Outcome("error", s, Total(v))]
        \/ /\ EndsAt(s, v) <= bytes /\ bio' = [bio EXCEPT ![r] = New(dir, s, v)]
           /\ result' = [result EXCEPT ![r] = Unknown]
  BY DEF Submit
<1>3. UNCHANGED disk_of
  BY <1>1 DEF disk_of
<1>4. DiskInv'
  BY <1>1 DEF FlatInv, DiskInv, Size
<1>5. CASE /\ (s + Total(v)) * SectorSize > bytes /\ UNCHANGED bio
           /\ result' = [result EXCEPT ![r] = Outcome("error", s, Total(v))]
  <2>1. Places'
    BY <1>1, <1>5 DEF FlatInv, Places, RequestPlace, Size, Seg, VecLen, Ended, Total
  <2> DEFINE len == Total(v)
             o   == Outcome("error", s, len)
             req == [q \in Requesters |-> req_of(bio[q])]
  <2>2. s \in Nat /\ len \in Nat \ {0} /\ (s + len) * SectorSize > bytes
    BY <1>5, Addresses, Pieces
  <2> HIDE DEF len
  <2>3. s + len > Size
    BY <1>1, <2>2, Beyond, Geometry DEF Size
  <2>4. DOMAIN disk_of = 0..Size - 1
    BY <1>1, Sectors
  <2>5. ~(Flat!Slots(s, len) \subseteq DOMAIN disk_of)
    <3>1. s + len - 1 \in s..(s + len - 1) /\ s + len - 1 \notin 0..Size - 1
      BY <1>1, <2>2, <2>3
    <3>2. QED
      BY <2>4, <3>1 DEF Flat!Slots
  <2>6. o.status = "error" /\ o.pos = s /\ o.len = len
    BY DEF Outcome
  <2>7. req[r] = IdleReq
    BY <1>1 DEF req_of
  <2>8. Flat!Refuse(r)
    <3>1. result' = [result EXCEPT ![r] = o]
      BY <1>5 DEF len
    <3>2. result'[r] = o
      BY <3>1 DEF Results
    <3> HIDE DEF o, req
    <3>3. UNCHANGED <<disk_of, req>>
      BY <1>3, <1>5 DEF req
    <3>4. QED
      BY <2>5, <2>6, <2>7, <3>1, <3>2, <3>3, Zenon DEF Flat!Refuse, req
  <2>9. QED
    BY <1>4, <2>1, <2>8 DEF FlatInv, FlatStep, Flat!Next
<1>6. CASE /\ (s + Total(v)) * SectorSize <= bytes /\ result' = [result EXCEPT ![r] = Unknown]
           /\ bio' = [bio EXCEPT ![r] = New(dir, s, v)]
  <2> DEFINE nb  == bio'[r]
             len == Total(v)
             mem == [k \in 1..len |-> IF dir = "write" THEN k ELSE NONE]
  <2>1. s \in Nat /\ len \in Nat \ {0} /\ Address(s) \div SectorSize = s
        /\ Ended(v, 1) = 0 /\ Len(v) \in Nat \ {0}
    BY Addresses, Pieces
  <2>2. s + len <= Size
    <3> DEFINE x == s + Total(v)
    <3>1. x \in Nat /\ x * SectorSize <= bytes
      BY <1>6, <2>1
    <3> HIDE DEF x
    <3>2. x <= bytes \div SectorSize
      BY <1>1, <3>1, Within, Geometry
    <3>3. QED
      BY <3>2 DEF Size, x
  <2>3. nb = New(dir, s, v)
    BY <1>1, <1>6
  <2> HIDE DEF mem
  <2>4. /\ nb.pc = "iovec" /\ nb.dir = dir /\ nb.start = s /\ nb.vecs = v /\ nb.i = 1 /\ nb.off = s
        /\ nb.done = 0 /\ nb.copied = 0 /\ nb.mem = mem
    BY <2>1, <2>3 DEF New, Free, mem
  <2> HIDE DEF nb, len
  <2>5. mem \in Seq(Content) /\ Len(mem) = len
    <3>1. mem \in [1..len -> Content]
      BY <2>1 DEF mem, Content
    <3>2. QED
      BY <2>1, <3>1
  <2>6. RequestPlace(bio[r])'
    BY <1>1, <2>1, <2>2, <2>4, <2>5 DEF RequestPlace, nb, len
  <2>7. Only(r) /\ DOMAIN bio' = Requesters
    BY <1>1, <1>6 DEF Only
  <2>8. Places'
    <3>1. \A q \in Requesters \ {r} : bio'[q] = bio[q]
      BY <2>7 DEF Only
    <3>2. QED
      BY <1>1, <2>6, <3>1, OnePlace DEF FlatInv
  <2> DEFINE req == [q \in Requesters |-> req_of(bio[q])]
             nr  == [q \in Requesters |-> req_of(bio'[q])]
             x   == req_of(nb)
  <2>9. x = [dir |-> dir, pos |-> s, len |-> len, done |-> 0, data |-> IF dir = "write" THEN mem ELSE <<>>]
    <3>1. nb # Free
      BY <2>4 DEF Free
    <3>2. done_of(nb) = 0
      BY <2>1, <2>4 DEF done_of
    <3>3. x = [dir |-> nb.dir, pos |-> nb.start, len |-> Len(nb.mem), done |-> done_of(nb),
               data |-> IF nb.dir = "write" THEN nb.mem ELSE SubSeq(nb.mem, 1, done_of(nb))]
      BY <3>1, RecordOf
    <3>4. SubSeq(mem, 1, 0) = <<>>
      BY <2>5
    <3>5. QED
      BY <2>4, <2>5, <3>2, <3>3, <3>4
  <2>10. r \in Requesters /\ req[r] = IdleReq /\ nr[r] = x /\ nr = [req EXCEPT ![r] = x]
    BY <1>1, <2>7, Updated DEF req_of, nb
  <2> HIDE DEF x
  <2>11. /\ x.done = 0 /\ x.len = len /\ x.pos = s
         /\ x.dir = "read" => x.data = <<>>
         /\ x.dir = "write" => Len(x.data) = len
    BY <2>5, <2>9
  <2>12. DOMAIN disk_of = 0..Size - 1
    BY <1>1, Sectors
  <2>13. len > 0 /\ Flat!Slots(s, len) \subseteq DOMAIN disk_of
    BY <1>1, <2>1, <2>2, <2>12 DEF Flat!Slots
  <2>14. Flat!Submit(r)
    <3>1. /\ nr[r].done = 0 /\ nr[r].len > 0 /\ Flat!Slots(nr[r].pos, nr[r].len) \subseteq DOMAIN disk_of
          /\ nr[r].dir = "read" => nr[r].data = <<>>
          /\ nr[r].dir = "write" => Len(nr[r].data) = nr[r].len
          /\ nr = [req EXCEPT ![r] = nr[r]]
      BY <2>10, <2>11, <2>13
    <3>2. req[r] = IdleReq /\ UNCHANGED disk_of
      BY <1>3, <2>10
    <3>3. result' = [result EXCEPT ![r] = Flat!Unknown]
      BY <1>6 DEF Unknown, Outcome, Flat!Unknown
    <3>4. QED
      BY <3>1, <3>2, <3>3, Zenon DEF Flat!Submit
  <2>15. Flat!Next
    BY <2>10, <2>14 DEF Flat!Next
  <2>16. QED
    BY <1>4, <2>8, <2>15 DEF FlatInv, FlatStep
<1>7. QED
  BY <1>2, <1>5, <1>6, Addresses

(* The size of the disk is a number of sectors. *)
LEMMA Getparam ==
  ASSUME NEW par \in Params, par.shift # NONE
  PROVE  \E q \in Nat : getparam(par) = q * SectorSize
<1> DEFINE size == (par.n * 2^par.shift) % LongRange
           up   == (size + SectorSize - 1) % LongRange
<1>1. par.n \in Nat /\ par.shift \in Nat
  BY BlkdevAssumption
<1>2. 2^par.shift \in Int
  BY <1>1
<1>3. size \in Nat
  <2> DEFINE z == par.n * 2^par.shift
  <2>1. z \in Int
    BY <1>1, <1>2
  <2> HIDE DEF z
  <2>2. z % LongRange \in Nat
    BY <2>1, Geometry
  <2>3. QED
    BY <2>2 DEF z
<1> HIDE DEF size
<1>4. up \in Nat
  BY <1>3, Geometry
<1>5. getparam(par) = (up \div SectorSize) * SectorSize
  BY DEF getparam, size
<1> HIDE DEF up
<1>6. up \div SectorSize \in Nat
  BY <1>4, Geometry
<1>7. QED
  BY <1>5, <1>6

(* A request that is idle is nowhere. *)
LEMMA NoPlaces ==
  ASSUME \A r \in Requesters : bio'[r] = Free
  PROVE  Places'
BY DEF Places, RequestPlace, Free

(* The loaded disk is zero. *)
LEMMA LoadFlat ==
  ASSUME IInv, FlatInv, Load
  PROVE  FlatInv' /\ FlatStep
<1>1. loaded = "new" /\ UNCHANGED <<tree, bio, result>> /\ DOMAIN tree = {} /\ \A r \in Requesters : bio[r] = Free
  BY DEF Load, IInv, LifeInv
<1>2. Places'
  BY <1>1, NoPlaces
<1>3. disk_of = <<>>
  BY <1>1 DEF disk_of
<1>4. UNCHANGED <<[r \in Requesters |-> req_of(bio[r])], result>>
  BY <1>1
<1>5. CASE loaded' = "gone"
  <2>1. disk_of' = <<>>
    BY <1>5 DEF disk_of
  <2>2. DiskInv'
    BY <1>1, <1>5 DEF DiskInv
  <2>3. QED
    BY <1>2, <1>3, <1>4, <2>1, <2>2 DEF FlatInv, FlatStep
<1>6. CASE loaded' = "yes" /\ \E par \in Params : par.shift # NONE /\ bytes' = getparam(par)
  <2>1. PICK q \in Nat : bytes' = q * SectorSize
    BY <1>6, Getparam
  <2>2. q * SectorSize \in Nat /\ (q * SectorSize) \div SectorSize = q
    BY Geometry
  <2>3. bytes' \div SectorSize = q /\ bytes' \in Nat
    BY <2>1, <2>2
  <2>4. DiskInv'
    BY <1>1, <2>3 DEF DiskInv, Size
  <2>5. disk_of' = [k \in 0..q - 1 |-> 0]
    <3>1. DOMAIN tree' = {}
      BY <1>1
    <3>2. QED
      BY <1>6, <2>3, <3>1 DEF disk_of
  <2>6. \A k \in DOMAIN disk_of' : disk_of'[k] = 0
    BY <2>5
  <2>7. Flat!Next
    BY <1>3, <1>4, <2>6, Zenon DEF Flat!Next, Flat!Load
  <2>8. QED
    BY <1>2, <2>4, <2>7 DEF FlatInv, FlatStep
<1>7. QED
  BY <1>5, <1>6 DEF Load

(* Unloading takes the disk away, *)
LEMMA ExitFlat ==
  ASSUME IInv, FlatInv, Exit
  PROVE  FlatInv' /\ FlatStep
<1>1. UNCHANGED <<tree, bio, result, bytes>> /\ loaded' = "freeing" /\ \A r \in Requesters : bio[r] = Free
  BY DEF Exit
<1>2. disk_of' = <<>>
  BY <1>1 DEF disk_of
<1>3. [r \in Requesters |-> req_of(bio[r])] = [r \in Requesters |-> IdleReq]
  BY <1>1 DEF req_of
<1>4. UNCHANGED <<[r \in Requesters |-> req_of(bio[r])], result>>
  BY <1>1
<1>5. Flat!Next
  BY <1>2, <1>3, <1>4, Zenon DEF Flat!Next, Flat!Unload
<1>6. FlatInv'
  BY <1>1, NoPlaces DEF FlatInv, DiskInv
<1>7. QED
  BY <1>5, <1>6 DEF FlatStep

(* and the rounds that free its segments are not seen. *)
LEMMA FreeRoundFlat ==
  ASSUME IInv, FlatInv, FreeRound
  PROVE  FlatInv' /\ FlatStep
<1>1. UNCHANGED <<bio, result>> /\ loaded # "yes" /\ loaded' # "yes" /\ \A r \in Requesters : bio[r] = Free
  BY DEF FreeRound, IInv, LifeInv
<1>2. \A s \in DOMAIN tree' : s \in DOMAIN tree /\ tree'[s] = tree[s]
  BY DEF FreeRound
<1>3. FlatInv'
  BY <1>1, <1>2, NoPlaces DEF FlatInv, DiskInv
<1>4. UNCHANGED <<disk_of, [r \in Requesters |-> req_of(bio[r])], result>>
  BY <1>1 DEF disk_of
<1>5. QED
  BY <1>3, <1>4 DEF FlatStep

(* Every step. *)
LEMMA FlatNext ==
  ASSUME AddressesFit, IInv, FlatInv, Results, [Next]_vars
  PROVE  FlatInv' /\ FlatStep
<1>1. ASSUME NEW r \in Requesters, Request(r) PROVE FlatInv' /\ FlatStep
  BY <1>1, NextVecFlat, VecDoneFlat, PresentFlat, ReadAbsentFlat, WriteAbsentFlat, CopyPageFlat, CopyFailsFlat,
     PartDoneFlat DEF Request
<1>2. CASE UNCHANGED vars
  <2>1. UNCHANGED <<loaded, bytes, tree, bio, result>>
    BY <1>2 DEF vars
  <2>2. UNCHANGED disk_of
    BY <2>1 DEF disk_of
  <2>3. FlatInv'
    BY <2>1 DEF FlatInv, Places, DiskInv, RequestPlace, Size, Seg, VecLen, Ended, Total
  <2>4. QED
    BY <2>1, <2>2, <2>3 DEF FlatStep
<1>3. QED
  BY <1>1, <1>2, LoadFlat, ExitFlat, FreeRoundFlat, SubmitFlat DEF Next

(* Before the disk is loaded. *)
LEMMA FlatInit ==
  ASSUME Init
  PROVE  FlatInv /\ Results /\ Flat!Init
<1>1. loaded = "new" /\ tree = <<>> /\ DOMAIN tree = {} /\ bio = [r \in Requesters |-> Free]
  BY DEF Init
<1>2. disk_of = <<>>
  BY <1>1 DEF disk_of
<1>3. [r \in Requesters |-> req_of(bio[r])] = [r \in Requesters |-> IdleReq]
  BY <1>1 DEF req_of
<1>4. FlatInv
  BY <1>1 DEF FlatInv, Places, RequestPlace, DiskInv, Free
<1>5. result = [r \in Requesters |-> Flat!Unknown] /\ Results
  BY DEF Init, Results, Unknown, Outcome, Flat!Unknown
<1>6. QED
  BY <1>2, <1>3, <1>4, <1>5 DEF Flat!Init

(* The disk in segments is a flat disk, as long as sector_t holds the byte *)
(* addresses of the requests: IsFlatDisk, for every geometry, list of      *)
(* pieces and number of requesters, failures and refusals included.        *)
THEOREM FlatDiskImplemented ==
  ASSUME AddressesFit
  PROVE  Spec => IsFlatDisk
<1>1. Init => FlatInv /\ Results /\ Flat!Init
  BY FlatInit
<1>2. IInv /\ FlatInv /\ Results /\ [Next]_vars => FlatInv' /\ Results' /\ [Flat!Next]_Flat!vars
  BY FlatNext, ResultsKept DEF FlatStep, Flat!vars
<1>3. QED
  BY <1>1, <1>2, Invariance, PTL DEF Spec, IsFlatDisk, Flat!Spec

=============================================================================
