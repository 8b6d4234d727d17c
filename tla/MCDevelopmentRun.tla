-------------------------- MODULE MCDevelopmentRun --------------------------
(* A small instance of DevelopmentRun: two questions, two versions of the  *)
(* frozen inputs, two rankings and two answers per question.               *)
EXTENDS DevelopmentRun

CONSTANTS f1, f2, r1, r2, a1, a2

MCFrozenInputs == {f1, f2}
MCRankings == {r1, r2}
MCAnswers == {a1, a2}
==============================================================================
