---------------------------- MODULE MCBatchPipeline ----------------------------
(* Instances of BatchPipeline for TLC.                                     *)
EXTENDS BatchPipeline

\* More row groups than slots (with two threads the ring has four), the first
\* one and another one empty, one of more rows than a batch.
Wraps == <<0, 3, 1, 0, 2>>
===============================================================================
