---------------------------- MODULE MCInputStream ----------------------------
(* An instance of InputStream for TLC: contents of up to three blocks. *)
EXTENDS InputStream
=============================================================================
