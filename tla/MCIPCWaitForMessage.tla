------------------------ MODULE MCIPCWaitForMessage ------------------------
(* A few messages against repeated waits. *)
EXTENDS IPCWaitForMessage
=============================================================================
