------------------------------- MODULE MCBlocks -------------------------------
(***************************************************************************)
(* TranslationBlocks for TLC: CPUs with and without vectors, hypervisor    *)
(* and floating point, and vector types on both sides of eight bytes.      *)
(***************************************************************************)
EXTENDS TranslationBlocks

MCSettings ==
    {[v |-> TRUE, h |-> TRUE, vlen |-> 128], [v |-> TRUE, vlen |-> 256, elen |-> 32],
     [h |-> TRUE], [g |-> FALSE, f |-> FALSE, d |-> FALSE, s |-> FALSE, v |-> TRUE, vlen |-> 128]}
MCLmuls == {-3, -2, 0, 1}
=============================================================================
