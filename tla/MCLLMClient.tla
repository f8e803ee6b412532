----------------------------- MODULE MCLLMClient ----------------------------
(* Instances of LLMClient for TLC. *)
EXTENDS LLMClient

TwoIndices == {0, 1}
=============================================================================
