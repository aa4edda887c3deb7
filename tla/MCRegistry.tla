----------------------------- MODULE MCRegistry -----------------------------
(* Model-checking instance of Registry: two relay threads, two paths of   *)
(* sizes 2 and 3 and a capacity of 4, so loading both exceeds it.         *)
EXTENDS Registry

CONSTANTS p1, p2

MCPaths == {p1, p2}
MCFileSize == [p \in MCPaths |-> IF p = p1 THEN 2 ELSE 3]

=============================================================================
