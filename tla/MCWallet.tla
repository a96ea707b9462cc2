------------------------------ MODULE MCWallet ------------------------------
(* Instances of Wallet for TLC.                                             *)
EXTENDS Wallet, TLC

(* Every operation but ADJUST_CREDIT, which is an EARN that never comes due. *)
MostOps == AllOps \ {"ADJUST_CREDIT"}
=============================================================================
