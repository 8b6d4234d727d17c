-------------------------- MODULE MCPublicCampaign --------------------------
(* A small instance of PublicCampaign: the first two questions ask the same *)
(* with the same evidence, the third has no evidence.                       *)
EXTENDS PublicCampaign, TLC

CONSTANTS h1, h2, s1, s2, a1, a2

MCHosts == {h1, h2}
MCSources == {s1, s2}
MCOneSource == {s1}
MCAnswers == {a1, a2}
MCKeyOf == <<"same", "same", "other">>
MCAnswerable == {1, 2}

\* No definition tells one host, version or answer from another.
MCSymmetry ==
    Permutations(MCHosts) \union Permutations(MCSources)
        \union Permutations(MCAnswers)
==============================================================================
