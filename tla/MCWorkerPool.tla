---------------------------- MODULE MCWorkerPool ----------------------------
(***************************************************************************)
(* Instances of WorkerPool for TLC.  The cfg files choose the number of    *)
(* files and workers; the bounds are explained in README.md.               *)
(***************************************************************************)
EXTENDS WorkerPool

\* The largest uint32_t of the instances: small, so that it is a number TLC
\* can count to, and larger than any index the workers reach.
SmallUintMax == 15
=============================================================================
