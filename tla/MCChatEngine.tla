---------------------------- MODULE MCChatEngine ----------------------------
(* Instances of ChatEngine for TLC: model values for chats and session ids. *)
EXTENDS ChatEngine, TLC

CONSTANTS c1, c2, k1

TwoChats == {c1, c2}
OneKey   == {k1}

ChatSymmetry == Permutations(TwoChats)
=============================================================================
