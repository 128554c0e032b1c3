------------------------------- MODULE Refusals -------------------------------
(***************************************************************************)
(* The shape of most handlers of this code base: a list of checks, each    *)
(* with the error code it raises, of which the first that applies ends the *)
(* call.                                                                   *)
(***************************************************************************)
EXTENDS Naturals, Sequences

None == "none"

\* The code of the first rule <<applies, code>> that applies, or None.
FirstRefusal(rules) ==
  IF \E i \in DOMAIN rules : rules[i][1]
  THEN rules[CHOOSE i \in DOMAIN rules :
               rules[i][1] /\ \A j \in 1..(i - 1) : ~rules[j][1]][2]
  ELSE None
=============================================================================
