------------------------------ MODULE MCWallets ------------------------------
(***************************************************************************)
(* The schedule of request.ts in seconds, and an account of two wallets    *)
(* over two pages, with room for a third of each.                          *)
(***************************************************************************)
EXTENDS WalletsScreen

MCDelays == <<1, 2, 4, 8, 15>>
=============================================================================
