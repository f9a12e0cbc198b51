----------------------------- MODULE MCRpcClient -----------------------------
(***************************************************************************)
(* Instances of RpcClient for TLC.                                         *)
(***************************************************************************)
EXTENDS RpcClient, TLC

CONSTANTS base1, base2

OneBase == {base1}
TwoBases == {base1, base2}

\* "meepo", and binary data with a NUL inside.
Text == <<7, 8>>
Binary == <<7, Nul, 8>>
TextOnly == {Text}
TextAndBinary == {Text, Binary}

\* What getRpcId() returns before any call, and an id that calls reach.
FirstIds == {0, 1}
FirstId == {1}
NoIds == {}

BaseSymmetry == Permutations(TwoBases)
=============================================================================
