---------------------------- MODULE MCTinySerial ----------------------------
(* One port; the buffer wraps.                                             *)
EXTENDS TinySerial

(* Enough characters to fill the buffer and to start over. *)
MCMaxWrite == XmitSize + 1

=============================================================================
