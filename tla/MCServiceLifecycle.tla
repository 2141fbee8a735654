--------------------------- MODULE MCServiceLifecycle ---------------------------
(***************************************************************************)
(* A small instance of ServiceLifecycle: two requests that resolve their   *)
(* dependencies at once, an RPC, and drivers enough to leak.               *)
(***************************************************************************)
EXTENDS ServiceLifecycle

CONSTANTS main, t1, t2, d1, d2, d3, x1, loopTask
================================================================================
