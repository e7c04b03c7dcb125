--------------------------- MODULE MCWriteAheadLog ---------------------------
(* An instance of WriteAheadLog for TLC. *)
EXTENDS WriteAheadLogProperties
=============================================================================
