---------------------------- MODULE MCDiskIndex ----------------------------
(* A small instance of DiskIndex: three versions of the chunks file, two of  *)
(* the same length; two builders and a reader.                              *)
EXTENDS DiskIndex

CONSTANTS b1, b2, r1

MCBuilders == {b1, b2}
MCReaders == {r1}
MCChunksOf == <<<<"a", "b">>, <<"a", "c">>, <<"a">>>>
============================================================================
