----------------------------- MODULE MCProcessor -----------------------------
(* An instance of Processor for TLC: sources of up to three blocks, read and  *)
(* written one to three at a time.                                            *)
EXTENDS Processor
=============================================================================
