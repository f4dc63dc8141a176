------------------------------ MODULE MCValues ------------------------------
(* Small instances of Values for TLC.                                      *)
EXTENDS Values

(* Floats of m bit patterns: the last one is not a number.                 *)
MCFloatOp(op, x, y, m) ==
  CASE op \in {"fsub", "fneg"} -> (2 * x + m - y) % m
    [] op \in {"fmul", "fabs"} -> (x * y) % m
    [] op = "i2f" -> x % m
    [] op = "f2i" -> (3 * x) % m
    [] OTHER -> (x + 2 * y + 1) % m

MCFloatHolds(op, x, y, m) ==
  /\ m - 1 \notin {x, y}
  /\ CASE op = "feq" -> x = y [] op = "flt" -> x < y [] op = "fgt" -> x > y
       [] op = "fle" -> x <= y [] op = "fge" -> x >= y
=============================================================================
