------------------------- MODULE MCFixturePipeline -------------------------
(* A small instance of FixturePipeline: two invocations, two versions of    *)
(* every input.                                                             *)
EXTENDS FixturePipeline

CONSTANTS r1, r2

MCRuns == {r1, r2}
MCVersions == {1, 2}
=============================================================================
