------------------------- MODULE MCPlatformRuntime -------------------------
(***************************************************************************)
(* Instances of PlatformRuntime for TLC: one or two pipelines, with a wait *)
(* source each.                                                            *)
(***************************************************************************)
EXTENDS PlatformRuntime, TLC

CONSTANTS c1, c2, c3, p1, p2, s1, s2

OnePipeline   == {p1}
TwoPipelines  == {p1, p2}
OneSource     == [p \in OnePipeline |-> {s1}]
SeparateSources == (p1 :> {s1} @@ p2 :> {s2})

\* Callers run the same code, so they may be exchanged
CallerSymmetry == Permutations(Callers)
============================================================================
