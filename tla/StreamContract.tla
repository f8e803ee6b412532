--------------------------- MODULE StreamContract ---------------------------
(***************************************************************************)
(* What the engine relies on when it calls ChatStream (the StreamHandler   *)
(* interface, llm_client.go): pieces of text, each once, then exactly one  *)
(* verdict, and an error only when no text was heard, so that an error     *)
(* notice never follows half an answer.                                    *)
(***************************************************************************)
EXTENDS Naturals

VARIABLES pieces,   \* calls of OnContent
          verdict   \* "none", or "complete" or "error"

vars == <<pieces, verdict>>

Init == pieces = 0 /\ verdict = "none"

Hear == /\ verdict = "none"
        /\ pieces' = pieces + 1
        /\ UNCHANGED verdict

Conclude(v) == /\ verdict = "none"
               /\ verdict' = v
               /\ UNCHANGED pieces

Next == Hear \/ Conclude("complete") \/ (pieces = 0 /\ Conclude("error"))

Spec == Init /\ [][Next]_vars
=============================================================================
