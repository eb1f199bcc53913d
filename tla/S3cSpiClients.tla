--------------------------- MODULE S3cSpiClients ---------------------------
(***************************************************************************)
(* The messages of this repository's SPI client, the RC522 card reader     *)
(* (linux_driver/spi/my_rc522.c and my_linux_driver_codes/spi/my_rc522.c): *)
(* one transfer of one or two bytes in one direction each, too short for   *)
(* DMA.  A register is read by two messages, of which each ends with the   *)
(* reader deselected.                                                      *)
(***************************************************************************)
EXTENDS S3cSpi

Short == [tx |-> FALSE, rx |-> FALSE, dma |-> FALSE, aligned |-> TRUE, cs_change |-> FALSE, speed |-> 0]
OneTransfer(d, x) == [spi |-> d, xfers |-> <<x>>, is_dma_mapped |-> FALSE]

(* Through the device file. *)
rc522_write(d) == OneTransfer(d, [Short EXCEPT !.tx = TRUE])
rc522_read(d)  == OneTransfer(d, [Short EXCEPT !.rx = TRUE])

(* From the kernel. *)
write_test(d) == OneTransfer(d, [Short EXCEPT !.tx = TRUE])
read_test(d)  == OneTransfer(d, [Short EXCEPT !.rx = TRUE])
WriteRawRC(d) == << write_test(d) >>
ReadRawRC(d)  == << write_test(d), read_test(d) >>

=============================================================================
