---------------------------- MODULE MCCanBroker ----------------------------
(* Instances of CanBroker.                                                  *)
EXTENDS CanBroker, TLC

MCBrokers == {1, 2}
MCFaults == {"adapter", "config", "files"}
ClientSymmetry == Permutations(Clients)
=============================================================================
