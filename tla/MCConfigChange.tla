--------------------------- MODULE MCConfigChange ---------------------------
(***************************************************************************)
(* Streams for ConfigChange: configurations A and B with an audio pre-roll, *)
(* C and D without.                                                        *)
(***************************************************************************)
EXTENDS ConfigChange

AllConfigs == {"A", "B", "C", "D"}
WithPreRoll == {"A", "B"}
MCPreRolls == {0, 2}

Stream(transport, configs, damage) ==
  [transport |-> transport, configs |-> configs, damage |-> damage, flushes |-> FALSE, clears |-> 0]

\* Raw access units, of two configurations or of one with cleared histories; LOAS
\* with immediate playout frames, none lost; LOAS without, lost and damaged.
PlayedScenarios ==
  {[Stream("Raw", {"A", "B"}, {"Hidden", "Config", "Units", "Lost"}) EXCEPT !.flushes = TRUE],
   [Stream("Raw", {"A"}, {"Hidden", "Config", "Units", "Lost"}) EXCEPT !.flushes = TRUE, !.clears = 3],
   Stream("Loas", {"A", "B"}, {}),
   [Stream("Loas", {"C", "D"}, {"Units", "Lost", "Mux"}) EXCEPT !.flushes = TRUE]}

ClearedScenarios == {[Stream("Loas", {"A"}, {}) EXCEPT !.clears = 1]}
MissedScenarios == {Stream("Loas", {"A", "B"}, {"Lost"})}
=============================================================================
