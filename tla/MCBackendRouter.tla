-------------------------- MODULE MCBackendRouter --------------------------
(* Instances of BackendRouter for TLC. *)
EXTENDS SharedContext

Agent(name, def, supports, override) ==
  [name |-> name, def |-> def, supports |-> supports, tagged |-> FALSE,
   vision |-> FALSE, override |-> override]

\* An agent that runs anywhere and leaves the choice to the router, and one that insists.
MCAuto     == Agent("a", "llama", {"llama", "mlx"}, "auto")
MCMlxAuto  == Agent("b", "mlx", {"mlx"}, "auto")
MCLlamaOff == Agent("b", "llama", {"mlx"}, "auto")
MCPinned   == Agent("c", "mlx", {"llama", "mlx"}, "llama")
MCMismatch == Agent("d", "llama", {"mlx"}, "llama")

MCAgents      == {MCAuto, MCPinned}
MCMixed       == {MCAuto, MCLlamaOff}
MCOneAgent    == {MCAuto}
MCOddAgents   == {MCMismatch, MCMlxAuto}

MCSequential == [flat |-> FALSE, seq |-> TRUE, kv |-> FALSE]
MCFlat       == [flat |-> TRUE, seq |-> FALSE, kv |-> FALSE]
MCContexts   == {MCSequential, MCFlat}
MCSequentials == {MCSequential}
MCFlats       == {MCFlat}
=============================================================================
