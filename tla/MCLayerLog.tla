----------------------------- MODULE MCLayerLog -----------------------------
(* Instances of LayerLog for TLC.                                          *)
EXTENDS LayerLog, Layers, TLC

CONSTANTS t1, t2, t3

\* Every layer is one the assumptions of LayerLog, and so its theorems, speak
\* of, those included that no run below instantiates.
ASSUME EveryLayerIsAssumed ==
    \A L \in {ReadLayer, WriteLayer, MmLayer, BlockLayer, ScsiLayer} :
        /\ L \in [hooks : SUBSET [active : SUBSET Nat, stop : SUBSET Nat],
                  running : SUBSET Nat, starts : SUBSET Nat,
                  marks : BOOLEAN, idleEntry : BOOLEAN]
        /\ \A h \in L.hooks : h.active \cap h.stop = {} /\ h.active \subseteq L.running

\* Sound: whoever runs a hook chooses it at the call.
LoggerSymmetry == Permutations(Loggers)
=============================================================================
