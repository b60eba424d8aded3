---------------------------- MODULE MCStoreDesk ----------------------------
(***************************************************************************)
(* Instance of StoreDesk: soap by the piece and rice by weight.            *)
(***************************************************************************)
EXTENDS StoreDesk, TLC

CONSTANTS soap, rice

MCPrice == soap :> 3 @@ rice :> 5

\* Soap alone, and with rice.
MCBasket == {{soap}, {soap, rice}}
=============================================================================
