------------------------- MODULE MCPromotionHistory -------------------------
(***************************************************************************)
(* The instances of MCPromotion for Promotion with its history.            *)
(***************************************************************************)
EXTENDS MCPromotion, PromotionHistory
============================================================================
