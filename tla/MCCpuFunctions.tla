---------------------------- MODULE MCCpuFunctions --------------------------
(* Instances of CpuFunctions for TLC: an empty stack, one function, a caller *)
(* below a location that shows none, and a recursion with an inlined call.   *)
EXTENDS CpuFunctions

FourStacks == {<<>>, <<<<"f">>>>, <<<<"g">>, <<>>, <<"f">>>>, <<<<"g", "f">>, <<"f">>>>}
=============================================================================
