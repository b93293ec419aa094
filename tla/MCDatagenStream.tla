-------------------------- MODULE MCDatagenStream --------------------------
(* Every kind of sink. *)
EXTENDS DatagenStream

AllKinds == {"file", "parquet", "kafka"}
=============================================================================
