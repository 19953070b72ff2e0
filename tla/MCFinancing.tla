---------------------------- MODULE MCFinancing ----------------------------
(* Small instances of Financing.  Offerings are built the way the wallet's *)
(* create_asset does: the project starts one block after the financing     *)
(* ends and lasts project_blocks.                                          *)
EXTENDS Financing

WalletOffering(type, start, window, cycle, min, max) ==
  [financing_type |-> type,
   start_financing_block_num |-> start, end_financing_block_num |-> start + window,
   start_project_block_num |-> start + window + 1,
   end_project_block_num |-> start + window + 1 + cycle,
   min_financing_amount |-> min, max_financing_amount |-> max, project_blocks |-> cycle,
   max_supply |-> 8, khd_exchange_rate |-> [quote |-> 3, base |-> 2],
   core_exchange_rate |-> [quote |-> 1, base |-> 2], khd_value |-> 25, power |-> 3]

PublicOffering == WalletOffering(KHC_PUBLIC_OFFERING, 1, 2, 2, 9, 11)
PrivateOffering == WalletOffering(KHC_PRIVATE_OFFERING, 0, 0, 2, 0, 0)

MCOffering == {PublicOffering}
MCOfferings == {PublicOffering, PrivateOffering}
MCUpdates == {[max_supply |-> 16, core_exchange_rate |-> [quote |-> 1, base |-> 1]]}

ASSUME WalletOrderHolds == WalletOrder
=============================================================================
