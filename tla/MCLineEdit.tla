----------------------------- MODULE MCLineEdit -----------------------------
(* Small instances of LineEdit for TLC.                                    *)
EXTENDS LineEdit

Setting(ml, shown, cols, typed, lens, input) ==
  [ml |-> ml, mask |-> shown, hints |-> shown, cols |-> cols, typed |-> typed, lens |-> lens,
   input |-> input]

(* Words, in one row that is longer or shorter than the line, plain or     *)
(* masked with hints, and with a short history; what tab makes, with a     *)
(* longer one; and one letter in several rows, with either.                *)
MCSettings ==
  {Setting(FALSE, FALSE, 3, {"w", "_"}, {1}, "tty"), Setting(TRUE, TRUE, 2, {"w", "_"}, {1}, "tty"),
   Setting(FALSE, TRUE, 3, {"w", "_"}, {1}, "tty"), Setting(FALSE, TRUE, 3, {}, {3}, "tty"),
   Setting(TRUE, FALSE, 3, {"w"}, {1, 2}, "tty"),
   Setting(FALSE, FALSE, 3, {"w", "_"}, {2}, "pipe"), Setting(FALSE, FALSE, 3, {"w", "_"}, {1, 2}, "dumb")}

(* Two completions of an empty line.                                       *)
MCCompletions(line) == IF line = <<>> THEN <<<<"w">>, <<"w", "w">>>> ELSE <<>>

(* They are of the kind the theorems of LineEditProofs suppose: text that  *)
(* is shorter than the buffer.                                             *)
ASSUME MCFit == \A n \in 0..BufLen : \A line \in [1..n -> Chars] : \A c \in Range(Completions(line)) :
                  Range(c) \subseteq Chars /\ Len(c) < BufLen
=============================================================================
