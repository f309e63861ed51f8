----------------------------- MODULE MCCopyBlock -----------------------------
(***************************************************************************)
(* CopyBlock with a snapshot directory of one snapshot type: a segment    *)
(* and an index for each of the ranges [0,1), [1,3) and the merged        *)
(* [0,3), so that a directory may hold overlapping files of one           *)
(* block_from, gaps and incomplete groups.                                 *)
(***************************************************************************)
EXTENDS CopyBlock

MCSnapshotFiles ==
  {[from |-> r[1], to |-> r[2], type |-> "headers", idx |-> i] :
     r \in {<<0, 1>>, <<1, 3>>, <<0, 3>>}, i \in BOOLEAN}

=============================================================================
