--------------------------- MODULE MCDesignEditor ---------------------------
(* An instance of DesignEditor for TLC. *)
EXTENDS DesignEditor
=============================================================================
