----------------------------- MODULE MCPipeline -----------------------------
(* Fault sets for the runs of Pipeline. *)
EXTENDS Pipeline

WriteFaults == {"write"}
CloseFaults == {"close"}
AllFaults == FaultKinds
=============================================================================
