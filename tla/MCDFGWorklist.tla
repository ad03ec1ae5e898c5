--------------------------- MODULE MCDFGWorklist ---------------------------
(* Two VMs that share a worklist; the plans below 10 are those of the first. *)
EXTENDS DFGWorklist

MCVmOf(p) == IF p < 10 THEN 1 ELSE 2
=============================================================================
