------------------------- MODULE MCImmutableArtifact -------------------------
(* A small instance of ImmutableArtifact: three writers race for one        *)
(* destination with two contents.                                           *)
EXTENDS ImmutableArtifact, TLC

CONSTANTS w1, w2, w3, p1, c1, c2

MCWriters == {w1, w2, w3}
MCPaths == {p1}
MCContents == {c1, c2}
==============================================================================
