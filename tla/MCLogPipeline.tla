--------------------------- MODULE MCLogPipeline ---------------------------
(***************************************************************************)
(* A small instance of LogPipeline: a source and the root.                 *)
(***************************************************************************)
EXTENDS LogPipeline

CONSTANTS source, root

MCPrints == (source :> "source") @@ (root :> "aggregator")
=============================================================================
