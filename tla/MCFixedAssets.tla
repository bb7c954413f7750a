--------------------------- MODULE MCFixedAssets ---------------------------
(* A small instance of FixedAssets: one asset, two months, two handlers. *)
EXTENDS FixedAssets
=============================================================================
