------------------------------ MODULE MCDomain ------------------------------
(***************************************************************************)
(* Drafts of up to MaxEntries entries on three accounts.                   *)
(***************************************************************************)
EXTENDS Drafts

\* Account 1 is an asset, the others are liabilities or revenue.
ThreeAccounts == <<"SYSTEM_CASH", "USER_WALLET", "SYSTEM_FEE_REVENUE">>
============================================================================
