----------------------------- MODULE MCStorage -----------------------------
(* Instance of Storage: lengths in bytes that are small and all different.  *)
EXTENDS Storage
=============================================================================
