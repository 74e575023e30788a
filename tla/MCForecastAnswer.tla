-------------------------- MODULE MCForecastAnswer --------------------------
(* ForecastAnswer with a few of the real issue hours, and a requested range *)
(* that reaches beyond every horizon at both of its ends.                   *)
EXTENDS ForecastAnswer

Everything == [grid |-> TRUE, land |-> TRUE, temp |-> TRUE]
LandOnly == [grid |-> TRUE, land |-> TRUE, temp |-> FALSE]

MCMarks == {0, 6, 21, 23}
MCRegions == {Everything, LandOnly}
MCRanges == {<<-1, 11>>}
=============================================================================
