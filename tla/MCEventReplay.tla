--------------------------- MODULE MCEventReplay ---------------------------
(* Small instances of EventReplay: a lower and an upper case text, events  *)
(* that derive their outcome, that do not, and that cannot be derived.     *)
EXTENDS EventReplay, TLC

CONSTANTS low, up

MCUpper == [t \in Texts |-> up]

Does(transition, input, outcome) ==
  [transition |-> transition, input |-> input, outcome |-> outcome]

MCBodies ==
  {Does("uppercase", low, up), Does("identity", low, low), Does("identity", low, up),
   Does("unknown", low, low)}

MCForged == {<<up>>, <<low>>}

Symmetric == Permutations(EventIds)
=============================================================================
