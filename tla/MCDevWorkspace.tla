-------------------------- MODULE MCDevWorkspace --------------------------
(* Two CheClusters over the shared objects of both operators.              *)
EXTENDS DevWorkspace

CONSTANTS c1, c2

MCCheClusters == {c1, c2}
MCNamespaces  == {"devworkspace-controller"}
MCFiles       == {"deployment", "chemanagers"}
MCItems       == <<"devworkspace-controller", "deployment", "chemanagers", "devworkspace-che">>
=============================================================================
