----------------------------- MODULE MCCoSwitch -----------------------------
(* Values for the constants of CoSwitch in the runs of TLC.                *)
EXTENDS CoSwitch, TLC

CONSTANT t1

All == {"yield", "yield_event", "yield_for", "yield_events", "suicide", "finish"}
OneNests == [c \in Sides |-> IF c = t1 THEN 1 ELSE 0]
Symmetry == Permutations(Sites) \cup Permutations(Values) \cup Permutations(Events)

=============================================================================
