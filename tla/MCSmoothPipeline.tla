--------------------------- MODULE MCSmoothPipeline ---------------------------
(* TLC instances of SmoothPipeline: enough frames for a result to be        *)
(* overwritten and a reopen after two failures instead of five.             *)
EXTENDS SmoothPipeline

==============================================================================
