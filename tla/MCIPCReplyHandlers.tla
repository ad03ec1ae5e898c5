------------------------- MODULE MCIPCReplyHandlers -------------------------
(* Three requests, answered in any order, a peer that exits, a client that  *)
(* invalidates the connection.                                              *)
EXTENDS IPCReplyHandlers
=============================================================================
