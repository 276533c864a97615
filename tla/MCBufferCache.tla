--------------------------- MODULE MCBufferCache ---------------------------
(* Instances of BufferCache small enough that eviction happens constantly. *)
EXTENDS BufferCache

MCSectors == 0 .. 3
=============================================================================
