------------------------- MODULE MCAgentProjector --------------------------
(* Bounds for AgentProjector: a steady stream joined in the middle, with   *)
(* the gaps that the join leaves; a shorter one with thinking and text     *)
(* interleaved; and one with a disturbance, where a merge can keep what    *)
(* the events made of the first step.                                      *)
EXTENDS AgentProjector

Steady == [turns |-> 2, steps |-> 2, text |-> 2, thinking |-> 0,
           frames |-> 7, ahead |-> 2, faults |-> 0, early |-> 0]

Mixed == [turns |-> 2, steps |-> 2, text |-> 1, thinking |-> 1,
          frames |-> 6, ahead |-> 2, faults |-> 0, early |-> 0]

Disturbed == [turns |-> 2, steps |-> 2, text |-> 2, thinking |-> 0,
              frames |-> 5, ahead |-> 2, faults |-> 1, early |-> 1]

MCProfiles == {Steady, Mixed, Disturbed}

(* The bounds for the merge alone.                                         *)
MergeProfiles == {Disturbed}

=============================================================================
