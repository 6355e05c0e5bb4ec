---------------------------- MODULE MCEmbedding ----------------------------
(***************************************************************************)
(* Instances of Embedding for TLC: one listing (listings share nothing but *)
(* the queue), two texts it can have, and two workers.                     *)
(***************************************************************************)
EXTENDS Embedding

CONSTANTS l1, d1, d2, w1, w2

=============================================================================
