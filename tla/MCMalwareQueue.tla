--------------------------- MODULE MCMalwareQueue ---------------------------
(* Small instances of the scanning of uploads.                              *)
EXTENDS MalwareQueue
CONSTANTS p1, q1, q2, w1, w2
=============================================================================
