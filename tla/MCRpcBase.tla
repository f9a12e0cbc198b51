------------------------------ MODULE MCRpcBase ------------------------------
(***************************************************************************)
(* Instances of RpcBase for TLC.                                           *)
(***************************************************************************)
EXTENDS RpcBase, TLC

CONSTANTS base1, base2

OneBase == {base1}
TwoBases == {base1, base2}
OneType == {"session"}
FreeAndMember == {"apply", "applyMember"}
Text == {<<7>>}
FirstId == {1}
NoIds == {}

BaseSymmetry == Permutations(TwoBases)
=============================================================================
