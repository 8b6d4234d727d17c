---------------------------- MODULE MCDenseStore ----------------------------
(* A small instance of DenseStore: five rows, batches that do not divide the *)
(* checkpoint interval, invocations with and without a batch budget.        *)
EXTENDS DenseStore

CONSTANTS i1, i2, v1, v2

MCIdentities == {i1, i2}
MCOneIdentity == {i1}
MCVariants == {v1, v2}
MCBatchSizes == {1, 2}
MCIntervals == {1, 3}
MCBudgets == {1, 5}
==============================================================================
