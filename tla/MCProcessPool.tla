--------------------------- MODULE MCProcessPool ---------------------------
(* Small instances of ProcessPool: three connections, a limit of two        *)
(* processes, one of them for full service, and counters that wrap.         *)
EXTENDS ProcessPool
=============================================================================
