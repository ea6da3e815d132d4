---------------------------- MODULE BarPosition ----------------------------
(***************************************************************************)
(* The arithmetic of the bar framework's virtual position                  *)
(* (bar_strategy/position.h) and of its projection onto the attached       *)
(* accounts (bar_strategy/scaling.h, execution.h).                         *)
(*                                                                         *)
(* A ratio is a number of 1/ScaleDen; prices, entry statistics and         *)
(* diagnostics are left out.  The saturation at the 64 bit limits is not   *)
(* reached by the small volumes used here.                                 *)
(***************************************************************************)
EXTENDS Integers

CONSTANTS
    ScaleDen,       \* denominator of the account ratios
    Rounding,       \* scale_rounding: "floor", "ceil" or "nearest"
    MinOne          \* scale_min_one

ASSUME ScaleAssumption ==
    /\ ScaleDen \in Nat \ {0}
    /\ Rounding \in {"floor", "ceil", "nearest"}
    /\ MinOne \in BOOLEAN

Intents == {"buy", "sell", "sell_short", "buy_to_cover"}

Abs(n) == IF n < 0 THEN -n ELSE n

(* resolve_target: the net position an intent asks for.  Entries reverse an
   opposite position, exits never do: they are clamped to flat. *)
resolve_target(intent, n, position) ==
    LET entry == intent \in {"buy", "sell_short"}
        side  == IF intent \in {"buy", "sell"} THEN 1 ELSE -1
        own   == side * position
    IN  IF entry
        THEN CASE n = 0   -> IF own < 0 THEN 0 ELSE position
               [] OTHER   -> side * (IF own < 0 THEN n ELSE own + n)
        ELSE CASE n = 0   -> IF own > 0 THEN 0 ELSE position
               [] own <= 0 -> position
               [] n > own -> 0
               [] OTHER   -> side * (own - n)

round_magnitude(units) ==
    CASE Rounding = "floor"   -> units \div ScaleDen
      [] Rounding = "ceil"    -> (units + ScaleDen - 1) \div ScaleDen
      [] Rounding = "nearest" -> (2 * units + ScaleDen) \div (2 * ScaleDen)

(* logical_position: L_i, what an account of that ratio should hold when the
   strategy holds `position`. *)
logical_position(position, scale) ==
    LET units == round_magnitude(Abs(position) * scale)
        size  == IF units = 0 /\ MinOne THEN 1 ELSE units
    IN  IF position = 0 THEN 0 ELSE IF position > 0 THEN size ELSE -size

(* The plausible bug: scale the change instead of comparing scaled positions. *)
ScaledChange(net_before, net_after, scale) ==
    logical_position(net_after - net_before, scale)

(* The order that takes an account from one net position to another. *)
fanout_delta(net_before, net_after, scale) ==
    logical_position(net_after, scale) - logical_position(net_before, scale)

=============================================================================
