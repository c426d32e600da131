--------------------------- MODULE MCDatasetStream ---------------------------
(***************************************************************************)
(* Finite instances of DatasetStream.  Partition 1 plays day=1, partition  *)
(* 2 day=10: consecutive in the plan of the model, and the path of the     *)
(* first is a string prefix of the path of the second.                     *)
(***************************************************************************)
EXTENDS DatasetStream

\* Two event times per partition.  Parts 1 and 2 share partition 1 (times 2
\* and 3), part 3 is in partition 2 (times 4 and 5), part 4 in partition 3.
MCFileTimes == <<<<3, 2, 3>>, <<3>>, <<4, 5>>, <<6>>>>
MCPathPrefixes == {<<1, 2>>}
=============================================================================
