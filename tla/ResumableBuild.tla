--------------------------- MODULE ResumableBuild ---------------------------
(***************************************************************************)
(* What a resumable build promises whoever reads its checkpoint: the store *)
(* belongs to the identity that claimed it, its progress is never lost nor *)
(* taken back, and it is sealed only when every row is done.  DenseStore   *)
(* implements this specification.                                          *)
(***************************************************************************)
EXTENDS Naturals

CONSTANTS Identities, NRows, Nobody

VARIABLES
    owner,      \* the identity the store is bound to
    done,       \* how many rows are built for good
    sealed      \* whether the store is complete

vars == <<owner, done, sealed>>

Init == owner = Nobody /\ done = 0 /\ sealed = FALSE

Claim(i) ==
    /\ owner = Nobody
    /\ owner' = i
    /\ UNCHANGED <<done, sealed>>

Advance(n) ==
    /\ owner # Nobody /\ ~sealed
    /\ n > done
    /\ done' = n
    /\ UNCHANGED <<owner, sealed>>

Seal ==
    /\ owner # Nobody /\ ~sealed
    /\ done = NRows
    /\ sealed' = TRUE
    /\ UNCHANGED <<owner, done>>

Next ==
    \/ \E i \in Identities : Claim(i)
    \/ \E n \in 1 .. NRows : Advance(n)
    \/ Seal

Spec == Init /\ [][Next]_vars
==============================================================================
