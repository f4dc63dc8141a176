------------------------------ MODULE MCFrames ------------------------------
(***************************************************************************)
(* Small instances of Frames for TLC.  main calls a function f with two    *)
(* return registers (RET_N) and a local that holds pointers, and a         *)
(* generator function g with a local beyond its parameter; f and a         *)
(* function p call each other, and p takes a pointer and returns nothing   *)
(* (RET_0).                                                                *)
(***************************************************************************)
EXTENDS Frames

MCFns == {"main", "f", "p", "g"}
PerFn(m, f, p, g) == "main" :> m @@ "f" :> f @@ "p" :> p @@ "g" :> g

MCNumParams == PerFn(0, 1, 1, 1)
MCNumLocals == PerFn(1, 2, 1, 2)
MCRetSize == PerFn(0, 2, 0, 1)
MCPtrLocals == PerFn({}, {2}, {1}, {})
MCCallees == PerFn({"f", "p", "g"}, {"f", "p"}, {"f", "p"}, {})

(* The program is of the kind the theorems of FramesProofs are about.      *)
ASSUME MCProgram == PlainCalls /\ GeneratorsFit
=============================================================================
