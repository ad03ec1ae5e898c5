-------------------------- MODULE MCIPCConnection --------------------------
(* The endpoints of the UI process (U), the web process (W) and the plugin   *)
(* process (P); a web process has a connection to each of the others.        *)
EXTENDS IPCConnection

MCPeerOf(e) == CASE e = "U-W" -> "W-U" [] e = "W-U" -> "U-W"
                 [] e = "P-W" -> "W-P" [] e = "W-P" -> "P-W"
MCProcessOf(e) == CASE e = "U-W" -> "U" [] e \in {"W-U", "W-P"} -> "W" [] e = "P-W" -> "P"
=============================================================================
