--------------------------- MODULE MCJsonPipeline ---------------------------
(***************************************************************************)
(* Small instances of JsonPipeline for TLC.  Workers are model values; no  *)
(* symmetry, since the runs check liveness.                                *)
(***************************************************************************)
EXTENDS JsonPipeline
=============================================================================
