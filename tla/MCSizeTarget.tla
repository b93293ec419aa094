---------------------------- MODULE MCSizeTarget ----------------------------
(* Fault sets for the runs of SizeTarget. *)
EXTENDS SizeTarget

NoFaults == {}
WriteFaults == {"write"}
UploadFaults == {"write", "close"}
=============================================================================
