----------------------------- MODULE MCOutbound -----------------------------
(***************************************************************************)
(* Small instances of Outbound.                                            *)
(***************************************************************************)
EXTENDS Outbound, TLC

\* The code treats all producers alike.
ProducerSymmetry == Permutations(Producers)
=============================================================================
