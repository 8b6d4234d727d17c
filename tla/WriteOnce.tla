------------------------------ MODULE WriteOnce ------------------------------
(***************************************************************************)
(* What an immutable artifact promises its readers, whoever writes it: a   *)
(* path holds nothing, or one complete content that is never exchanged for *)
(* another; a content that has settled on the disk stays for ever.         *)
(* ImmutableArtifact implements this specification.                        *)
(***************************************************************************)
CONSTANTS Paths, Contents, NoFile

VARIABLES
    store,      \* what a reader of each path sees
    settled     \* the paths whose content survives a power loss

vars == <<store, settled>>

Init ==
    /\ store = [p \in Paths |-> NoFile]
    /\ settled = {}

\* An absent path receives a complete content.
Publish(p, c) ==
    /\ store[p] = NoFile
    /\ store' = [store EXCEPT ![p] = c]
    /\ UNCHANGED settled

Settle(p) ==
    /\ store[p] # NoFile
    /\ settled' = settled \union {p}
    /\ UNCHANGED store

\* A power loss may take back what has not settled, and settles the rest.
PowerLoss(lost) ==
    /\ lost \intersect settled = {}
    /\ store' = [p \in Paths |-> IF p \in lost THEN NoFile ELSE store[p]]
    /\ settled' = {p \in Paths : store'[p] # NoFile}

Next ==
    \/ \E p \in Paths, c \in Contents : Publish(p, c)
    \/ \E p \in Paths : Settle(p)
    \/ \E lost \in SUBSET Paths : PowerLoss(lost)

Spec == Init /\ [][Next]_vars
==============================================================================
