------------------------------- MODULE Values -------------------------------
(***************************************************************************)
(* Integers in the registers of the VM.  A register holds a word; an       *)
(* integer of a narrower type is held in the low bytes of one, and nothing *)
(* is said of the bytes above: an instruction that writes a register may   *)
(* extend the value by zeros, by its sign, or leave there what was there.  *)
(* Each action is an expression of the language, the instructions that     *)
(* bc_gen.zig emits for it and what vm.c does for each; beside the         *)
(* registers the model keeps the values the language gives the variables.  *)
(***************************************************************************)
EXTENDS Integers

CONSTANTS
  Vars,       (* the integer variables, one register each                  *)
  NarrowBits, (* bits of a narrow type: 8, 16 or 32 in the code            *)
  WordBits,   (* bits of a register: 64 in the code                        *)
  RawNarrow,  (* are narrow operands given to the instructions that read   *)
              (* the whole register: divisions, powers and >>              *)
  FloatOp(_, _, _, _),    (* what an operation on floats computes, from    *)
                          (* the bits of its operands and their number     *)
  FloatHolds(_, _, _, _)  (* and what a comparison of floats answers       *)

Pow2[n \in Nat] == IF n = 0 THEN 1 ELSE 2 * Pow2[n - 1]
Narrow == Pow2[NarrowBits]
Word == Pow2[WordBits]

FloatOps == {"fadd", "fsub", "fmul", "fdiv", "fmod", "fneg", "fabs", "i2f", "f2i"}

(* An operation on floats gives the bits of a float, or of an integer.     *)
ASSUME ValuesAssumption ==
  /\ NarrowBits \in Nat \ {0} /\ WordBits \in Nat
  /\ NarrowBits < WordBits /\ WordBits <= Narrow
  /\ \A op \in FloatOps, x, y \in 0..(Word - 1), m \in {Narrow, Word} : FloatOp(op, x, y, m) \in 0..(m - 1)
  /\ \A op \in {"feq", "flt", "fgt", "fle", "fge"}, x, y \in 0..(Word - 1), m \in {Narrow, Word} :
       FloatHolds(op, x, y, m) \in BOOLEAN

Modulus(t) == IF t = "narrow" THEN Narrow ELSE Word

VARIABLES
  reg,    (* the words of the registers of the variables                   *)
  cond,   (* the register of a bool                                        *)
  obj,    (* a word of memory: an i64, or narrow fields from its low end   *)
  typ,    (* the type of each variable, whose sign is that of its uses     *)
  val,    (* the value of each variable, 0..Modulus - 1                    *)
  truth,  (* the value of the bool                                         *)
  held,   (* the value of the memory                                       *)
  mode    (* "run", "panic", or "wrong": one of the program and the        *)
          (* machine panicked, and the other did not                       *)

values == <<typ, val, truth, held>>
vars == <<reg, cond, obj, values, mode>>

Signed(x, m) == IF 2 * x >= m THEN x - m ELSE x
Wrap(x, m) == x % m
Bit(x, i) == (x \div Pow2[i]) % 2

BitHolds(op, p, q) == CASE op = "and" -> p = 1 /\ q = 1
                        [] op = "or" -> p = 1 \/ q = 1
                        [] op = "xor" -> p # q

Bits(op, x, y, m) ==
  LET low[n \in 0..WordBits] ==   (* of the low n bits                     *)
        IF n = 0 THEN 0
        ELSE low[n - 1] + (IF Pow2[n - 1] < m /\ BitHolds(op, Bit(x, n - 1), Bit(y, n - 1))
                           THEN Pow2[n - 1] ELSE 0)
  IN low[WordBits]

(* Division rounds towards zero, as C does.                                *)
Quotient(x, y) == LET q == (IF x < 0 THEN -x ELSE x) \div (IF y < 0 THEN -y ELSE y)
                  IN IF (x < 0) = (y < 0) THEN q ELSE -q

(* ---- what the instructions compute ------------------------------------ *)
Sext(x, m) == Wrap(Signed(x % m, m), Word)
Zext(x, m) == x % m

(* ipow squares the base for each bit of a nonnegative exponent.           *)
Ipow(b, e) ==
  LET loop[i \in 0..WordBits] ==   (* <<result, base>> after i bits of e   *)
        IF i = 0 THEN <<1, b>>
        ELSE <<IF Bit(e, i - 1) = 1 THEN (loop[i - 1][1] * loop[i - 1][2]) % Word ELSE loop[i - 1][1],
               (loop[i - 1][2] * loop[i - 1][2]) % Word>>
  IN loop[WordBits][1]

Power(b, e, m) ==
  LET times[i \in 0..e] == IF i = 0 THEN 1 ELSE (times[i - 1] * b) % m IN times[e]

(* An operation on x and y as integers of m values.                        *)
Result(op, x, y, m) ==
  CASE op = "add" -> Wrap(x + y, m)
    [] op = "sub" -> Wrap(x - y, m)
    [] op \in {"mul", "imul"} -> Wrap(x * y, m)
    [] op \in {"and", "or", "xor"} -> Bits(op, x, y, m)
    [] op = "lsl" -> Wrap(x * Pow2[y], m)
    [] op = "lsr" -> x \div Pow2[y]
    [] op = "div" -> x \div y
    [] op = "mod" -> x % y
    [] op = "idiv" -> Wrap(Quotient(Signed(x, m), Signed(y, m)), m)
    [] op = "imod" -> Wrap(Signed(x, m) - Signed(y, m) * Quotient(Signed(x, m), Signed(y, m)), m)
    [] op = "pow" -> Power(x, y, m)

(* Shifts take the low byte of the count.                                  *)
Instruction(op, x, y) ==
  CASE op = "pow" -> Ipow(x, y)
    [] op \in {"lsl", "lsr"} -> Result(op, x, y % Narrow, Word)
    [] OTHER -> Result(op, x, y, Word)

LowOps == {"add", "sub", "mul", "imul", "and", "or", "xor"}  (* the low bits follow from low bits *)
Divisions == {"div", "mod", "idiv", "imod"}
WholeOps == Divisions \cup {"lsr", "pow"}

Init ==
  /\ reg = [v \in Vars |-> 0] /\ cond = 0 /\ obj = 0
  /\ typ = [v \in Vars |-> "word"] /\ val = [v \in Vars |-> 0]
  /\ truth = FALSE /\ held = 0
  /\ mode = "run"

(* Variable d gets the value x of type t, and its register the word w.     *)
Set(d, t, x, w) ==
  /\ reg' = [reg EXCEPT ![d] = w]
  /\ typ' = [typ EXCEPT ![d] = t]
  /\ val' = [val EXCEPT ![d] = x]
  /\ UNCHANGED <<cond, obj, truth, held, mode>>

Running == mode = "run"

(* CONST_8 extends by zeros, CONST_8S by the sign, CONST_16 and CONST_32   *)
(* write no other bytes.                                                   *)
Const(d, t, x) ==
  /\ Running
  /\ IF t = "word" THEN Set(d, t, x, x)
     ELSE \E w \in {x, Sext(x, Narrow), reg[d] - (reg[d] % Narrow) + x} : Set(d, t, x, w)

Mov(d, s) == Running /\ Set(d, typ[s], val[s], reg[s])

AddI16(d, s, i) == Running /\ Set(d, typ[s], Wrap(val[s] + i, Modulus(typ[s])), Wrap(reg[s] + i, Word))

Not(d, s) == Running /\ Set(d, typ[s], Modulus(typ[s]) - 1 - val[s], Word - 1 - reg[s])

Neg(d, s) == Running /\ Set(d, typ[s], Wrap(-val[s], Modulus(typ[s])), Wrap(-reg[s], Word))

(* A faulty variant: division by zero is not looked for.                   *)
Panics_never(op, y) == FALSE

Panics(op, y) == op \in Divisions \cup {"unwrap"} /\ y = 0

(* The machine panics on w and the program on x, or one does not.          *)
Guarded(op, w, x, Continue) ==
  IF Panics(op, w) = (op \in Divisions \cup {"unwrap"} /\ x = 0)
  THEN IF Panics(op, w) THEN mode' = "panic" /\ UNCHANGED <<reg, cond, obj, values>> ELSE Continue
  ELSE mode' = "wrong" /\ UNCHANGED <<reg, cond, obj, values>>

(* Counts of the type's bits and more, negative exponents and the          *)
(* quotient of the least integer and -1 have no defined result in C.       *)
Defined(op, x, y, m) ==
  /\ op \in {"lsl", "lsr"} => y < WordBits /\ Pow2[y] < m
  /\ op = "pow" => Signed(y, m) >= 0
  /\ op \in {"idiv", "imod"} => ~(2 * x = m /\ y = m - 1)

Binary(op, d, x, y) ==
  /\ Running
  /\ typ[x] = typ[y]
  /\ op \in WholeOps => typ[x] = "word" \/ RawNarrow
  /\ Defined(op, val[x], val[y], Modulus(typ[x]))
  /\ op = "pow" => Defined(op, reg[x], reg[y], Word)
  /\ Guarded(op, reg[y], val[y],
       /\ op \in {"idiv", "imod"} => Defined(op, reg[x], reg[y], Word)
       /\ Set(d, typ[x], Result(op, val[x], val[y], Modulus(typ[x])), Instruction(op, reg[x], reg[y])))

(* A pointer that may be none is unwrapped.                                *)
UnwrapNZ(d, s) ==
  /\ Running /\ typ[s] = "word"
  /\ Guarded("unwrap", reg[s], val[s], Set(d, "word", val[s], reg[s]))

(* Floats: the instructions for f32 take the low half of a register and    *)
(* clear the rest of the one they write.                                   *)
Low(v) == reg[v] % Narrow
F32Result(op, x, y) == FloatOp(op, Low(x), Low(y), Narrow)
F64Result(op, x, y) == FloatOp(op, reg[x], reg[y], Word)
F32Holds(op, x, y) == FloatHolds(op, Low(x), Low(y), Narrow)
F64Holds(op, x, y) == FloatHolds(op, reg[x], reg[y], Word)

FloatBinary(op, d, x, y) ==
  /\ Running /\ typ[x] = typ[y]
  /\ Set(d, typ[x], FloatOp(op, val[x], val[y], Modulus(typ[x])),
         IF typ[x] = "narrow" THEN F32Result(op, x, y) ELSE F64Result(op, x, y))

FloatUnary(op, d, s) ==
  /\ Running
  /\ Set(d, typ[s], FloatOp(op, val[s], val[s], Modulus(typ[s])),
         IF typ[s] = "narrow" THEN F32Result(op, s, s) ELSE F64Result(op, s, s))

(* Conversions take or give a whole integer register.                      *)
IntToFloat(d, t, s) ==
  /\ Running /\ typ[s] = "word"
  /\ Set(d, t, FloatOp("i2f", val[s], 0, Modulus(t)), FloatOp("i2f", reg[s], 0, Modulus(t)))

FloatToInt(d, s) ==
  /\ Running
  /\ Set(d, "word", FloatOp("f2i", val[s], 0, Word), FloatOp("f2i", IF typ[s] = "narrow" THEN Low(s) ELSE reg[s], 0, Word))

(* Conversions: a wider type takes SEXT or ZEXT, a narrower one a MOV.     *)
Widen(d, s, signed) ==
  /\ Running /\ typ[s] = "narrow"
  /\ IF signed THEN Set(d, "word", Sext(val[s], Narrow), Sext(reg[s], Narrow))
               ELSE Set(d, "word", val[s], Zext(reg[s], Narrow))

Truncate(d, s) == Running /\ typ[s] = "word" /\ Set(d, "narrow", val[s] % Narrow, reg[s])

(* ---- comparisons -------------------------------------------------------- *)
Holds(op, x, y) == CASE op = "lt" -> x < y [] op = "le" -> x <= y
                     [] op = "gt" -> x > y [] op = "ge" -> x >= y

Flag(b) == IF b THEN 1 ELSE 0

(* Both registers are extended in place first.                             *)
Extended(x, y, signed) ==
  [v \in Vars |-> IF v \in {x, y} /\ typ[v] = "narrow"
                THEN IF signed THEN Sext(reg[v], Narrow) ELSE Zext(reg[v], Narrow) ELSE reg[v]]

Test(regs, c, meant) ==
  /\ reg' = regs /\ cond' = c /\ truth' = meant
  /\ UNCHANGED <<obj, typ, val, held, mode>>

(* A faulty variant: the operands stay as they are.                        *)
Compare_as_they_are(op, x, y) ==
  /\ Running /\ typ[x] = typ[y]
  /\ LET m == Modulus(typ[x]) IN
     Test(reg, Flag(Holds(op, Signed(reg[x], Word), Signed(reg[y], Word))),
          Holds(op, Signed(val[x], m), Signed(val[y], m)))

Compare(op, x, y) ==
  /\ Running /\ typ[x] = typ[y]
  /\ LET m == Modulus(typ[x])
         regs == Extended(x, y, TRUE)
     IN Test(regs, Flag(Holds(op, Signed(regs[x], Word), Signed(regs[y], Word))),
             Holds(op, Signed(val[x], m), Signed(val[y], m)))

(* UCMP turns the answer round when one operand has its top bit set.       *)
CompareUnsigned(op, x, y) ==
  /\ Running /\ typ[x] = typ[y]
  /\ LET regs == Extended(x, y, FALSE)
         lt == Flag(Holds(op, Signed(regs[x], Word), Signed(regs[y], Word)))
         differ == Bit(regs[x], WordBits - 1) # Bit(regs[y], WordBits - 1)
     IN Test(regs, IF differ THEN 1 - lt ELSE lt, Holds(op, val[x], val[y]))

(* CMP_8 looks at the low byte; the other narrow types are extended first. *)
Equal(x, y) ==
  /\ Running /\ typ[x] = typ[y]
  /\ \/ typ[x] = "narrow" /\ Test(reg, Flag(Low(x) = Low(y)), val[x] = val[y])
     \/ LET regs == Extended(x, y, FALSE) IN Test(regs, Flag(regs[x] = regs[y]), val[x] = val[y])

FloatCompare(op, x, y) ==
  /\ Running /\ typ[x] = typ[y]
  /\ Test(reg, Flag(IF typ[x] = "narrow" THEN F32Holds(op, x, y) ELSE F64Holds(op, x, y)),
          FloatHolds(op, val[x], val[y], Modulus(typ[x])))

True == Running /\ Test(reg, 1, TRUE)
False == Running /\ Test(reg, 0, FALSE)
Lnot == Running /\ Test(reg, Flag(cond = 0), ~truth)

IsZero(x) == Running /\ typ[x] = "word" /\ Test(reg, Flag(reg[x] = 0), val[x] = 0)

(* ---- memory ------------------------------------------------------------- *)
(* Field i of the memory, counted in narrow integers from its low end.     *)
Fields == 0..((WordBits \div NarrowBits) - 1)
Place(i) == Pow2[NarrowBits * i]
Field(w, i) == (w \div Place(i)) % Narrow
PutField(w, i, x) == w - Field(w, i) * Place(i) + x * Place(i)

(* LOAD_8, 16 and 32 clear the rest of the register.                       *)
LoadField(d, i) == Running /\ Set(d, "narrow", Field(held, i), Field(obj, i))

Load(d) == Running /\ Set(d, "word", held, obj)

Write(w, x) == /\ obj' = w /\ held' = x
               /\ UNCHANGED <<reg, cond, typ, val, truth, mode>>

StoreField(i, s) ==
  /\ Running /\ typ[s] = "narrow"
  /\ Write(PutField(obj, i, reg[s] % Narrow), PutField(held, i, val[s]))

Store(s) == Running /\ typ[s] = "word" /\ Write(reg[s], val[s])

Memsetz == Running /\ Write(0, 0)

Next ==
  \/ \E d \in Vars : \E t \in {"narrow", "word"} : \E x \in 0..(Modulus(t) - 1) : Const(d, t, x)
  \/ \E d, s \in Vars : \/ Mov(d, s) \/ Not(d, s) \/ Neg(d, s) \/ Truncate(d, s)
                        \/ UnwrapNZ(d, s) \/ FloatToInt(d, s)
                        \/ \E i \in {-1, 1} : AddI16(d, s, i)
                        \/ \E t \in {"narrow", "word"} : IntToFloat(d, t, s)
                        \/ \E op \in {"fneg", "fabs"} : FloatUnary(op, d, s)
                        \/ \E signed \in BOOLEAN : Widen(d, s, signed)
  \/ \E d, x, y \in Vars : \E op \in LowOps \cup WholeOps \cup {"lsl"} : Binary(op, d, x, y)
  \/ \E d, x, y \in Vars : \E op \in {"fadd", "fsub", "fmul", "fdiv", "fmod"} : FloatBinary(op, d, x, y)
  \/ \E x, y \in Vars : \/ Equal(x, y)
                        \/ \E op \in {"lt", "le", "gt", "ge"} : Compare(op, x, y) \/ CompareUnsigned(op, x, y)
                        \/ \E op \in {"feq", "flt", "fgt", "fle", "fge"} : FloatCompare(op, x, y)
  \/ \E x \in Vars : IsZero(x) \/ Load(x) \/ Store(x) \/ \E i \in Fields : LoadField(x, i) \/ StoreField(i, x)
  \/ True \/ False \/ Lnot
  \/ Memsetz

Spec == Init /\ [][Next]_vars

(* ---- properties --------------------------------------------------------- *)
(* Every register holds the value of its variable in its low bytes, after  *)
(* any sequence of operations, whatever they leave above; the memory holds *)
(* its fields; and bools are what the comparisons mean.                    *)
Represents ==
  /\ \A v \in Vars : reg[v] % Modulus(typ[v]) = val[v]
  /\ cond = Flag(truth)
  /\ obj = held

(* The program stops at a division by zero, and only there.                *)
PanicsAsMeant == mode # "wrong"
=============================================================================
