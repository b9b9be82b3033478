---------------------------- MODULE MCRingBuffer ----------------------------
(***************************************************************************)
(* Instances of RingBuffer for TLC.  Four slots hold three characters; a   *)
(* word of 16 stands for 2^32, a multiple of the length as in the code.    *)
(***************************************************************************)
EXTENDS RingBuffer

=============================================================================
