----------------------------- MODULE MCAccounts -----------------------------
(* A small instance of Accounts: one tab, whose requests overlap.           *)
EXTENDS Accounts

CONSTANTS t1, b1

OneBrowser == [t \in Tabs |-> b1]
OneTab == [q \in Requests |-> t1]
=============================================================================
