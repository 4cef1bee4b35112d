----------------------------- MODULE MCJevBudget -----------------------------
(* Three calls of different sizes, a cap that fits some of them at once.     *)
EXTENDS JevBudget, TLC

CONSTANTS small, medium, large

MCSize == (small :> 1) @@ (medium :> 1) @@ (large :> 2)
=============================================================================
