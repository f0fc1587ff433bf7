------------------------------ MODULE MCPtwTsd ------------------------------
(* PtwTsd on small instances.                                              *)
EXTENDS PtwTsd

CONSTANTS t1, t2, k1, k2
=============================================================================
