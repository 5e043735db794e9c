----------------------- MODULE MCExecutionController -----------------------
(* Small plans for TLC: two tasks, one of them with a check that only a     *)
(* claim settles, or with one objective between them; and three tasks.      *)
EXTENDS ExecutionController

MCCheckOf     == <<"cheap", "expensive">>
MCObjective   == <<"build", "look">>
MCSame        == <<"build", "build">>
MCThree       == <<"a", "b", "c">>
MCThreeChecks == <<"none", "cheap", "expensive">>

=============================================================================
