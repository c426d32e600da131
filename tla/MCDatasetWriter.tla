--------------------------- MODULE MCDatasetWriter ---------------------------
(* Finite instances of DatasetWriter. *)
EXTENDS DatasetWriter
=============================================================================
