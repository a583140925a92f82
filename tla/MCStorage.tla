------------------------------ MODULE MCStorage ------------------------------
(***************************************************************************)
(* Values for Storage: two schema records and two records a pass on a ring *)
(* of 13 bytes: 7 bytes a pass, so the wrap falls on every position, the   *)
(* exact end too.                                                          *)
(***************************************************************************)
EXTENDS Storage

SchemaEnds == <<3, 5>>
PassEnds == <<4, 7>>
==============================================================================
