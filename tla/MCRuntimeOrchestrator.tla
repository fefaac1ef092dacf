------------------------ MODULE MCRuntimeOrchestrator ------------------------
(* The bus, which depends on nothing, and authorities that may depend on it *)
(* and on each other.                                                       *)
EXTENDS RuntimeOrchestrator

CONSTANTS bus, config, hardware

MCDependencies ==
  [c \in Components |-> CASE c = bus    -> {{}}
                          [] c = config -> {{bus}}
                          [] OTHER      -> {{bus}, {bus, config} \cap Components}]

Symmetric == Permutations(Callers)
=============================================================================
