---------------------- MODULE MCBarStrategyManager ----------------------
EXTENDS BarStrategyManager

CONSTANTS a, x, y

(* One account is attached from the start, at ratio 1/2. *)
AttachedAtStart == [b \in {a} |-> 1]
=============================================================================
