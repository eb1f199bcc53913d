------------------------------ MODULE MCS3cSpi ------------------------------
(* Devices and messages for TLC. *)
EXTENDS S3cSpiClients

CONSTANTS d1, d2, m1, m2, m3, m4

MCDevices == {d1, d2}
MCMessages == {m1, m2, m3}
MCMixed == MCMessages \cup {m4}

(* Two devices of the same polarity and two of different polarity.  With a *)
(* source of 13 the prescaler provides 6, 3, 2 and 1: d2 gets 3.           *)
SamePolarity == d1 :> [speed |-> 1, mode |-> {}] @@ d2 :> [speed |-> 4, mode |-> {}]
MixedPolarity == d1 :> [speed |-> 1, mode |-> {}] @@ d2 :> [speed |-> 1, mode |-> {"CS_HIGH"}]

T == [tx |-> TRUE, rx |-> TRUE, dma |-> TRUE, aligned |-> TRUE, cs_change |-> FALSE, speed |-> 0]
M(d, x) == [spi |-> d, xfers |-> x, is_dma_mapped |-> FALSE]

(* Two full duplex DMA transfers, the second faster; a polled transfer     *)
(* that leaves its device selected; a DMA write that is mapped already and *)
(* a polled write of a bad length; a read of the card reader.              *)
MixedMsg ==
  m1 :> M(d1, <<[T EXCEPT !.cs_change = TRUE], [T EXCEPT !.speed = 3]>>) @@
  m2 :> M(d1, <<[T EXCEPT !.dma = FALSE, !.cs_change = TRUE]>>) @@
  m3 :> [M(d2, <<[T EXCEPT !.rx = FALSE],
                 [T EXCEPT !.dma = FALSE, !.rx = FALSE, !.aligned = FALSE]>>)
           EXCEPT !.is_dma_mapped = TRUE] @@
  m4 :> rc522_read(d2)

(* Only DMA: a fast transfer and a normal one that leave their device      *)
(* selected, a write on the same device, a read on the other.              *)
DmaMsg ==
  m1 :> M(d1, <<[T EXCEPT !.speed = 3, !.cs_change = TRUE], [T EXCEPT !.cs_change = TRUE]>>) @@
  m2 :> M(d1, <<[T EXCEPT !.speed = 2, !.rx = FALSE]>>) @@
  m3 :> M(d2, <<[T EXCEPT !.tx = FALSE]>>)

(* Short transfers that leave their device selected, on both devices. *)
ToggleMsg ==
  m1 :> M(d1, <<[T EXCEPT !.dma = FALSE, !.cs_change = TRUE]>>) @@
  m2 :> M(d2, <<[T EXCEPT !.dma = FALSE, !.cs_change = TRUE]>>) @@
  m3 :> M(d2, <<T>>)

=============================================================================
