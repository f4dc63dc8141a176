---------------------------- MODULE FramesProofs ----------------------------
(***************************************************************************)
(* Proofs about Frames for any program: any functions with any parameters, *)
(* locals, pointers and results, any depth of calls, and any size and      *)
(* growth of the stack.  The registers are described by the sequence of    *)
(* the frames in them, outermost first: a call appends a frame, a return   *)
(* drops the last, and each of the three walks of the code, of returning,  *)
(* growing and panicking, is that sequence read backwards.                 *)
(***************************************************************************)
EXTENDS Frames, NaturalsInduction, WellFoundedInduction, FiniteSetTheorems, FunctionTheorems, TLAPS

(* Induction on a set of numbers that is closed downwards.                 *)
LEMMA Induction ==
  ASSUME NEW D \in SUBSET Nat, \A n \in D : n # 0 => n - 1 \in D,
         NEW A, \A n \in D : n = 0 \/ n - 1 \in A => n \in A
  PROVE  D \subseteq A
<1> DEFINE T == D \ A
           R == {x \in Nat \X Nat : x[1] < x[2]}
<1> SUFFICES ASSUME T # {} PROVE FALSE
  OBVIOUS
<1>1. IsWellFoundedOn(R, Nat)
  BY NatLessThanWellFounded DEF OpToRel
<1>2. \E m \in T : \A n \in T : ~(<<n, m>> \in R)
  BY <1>1, WFMin
<1>3. PICK m \in T : \A n \in T : ~(n < m)
  BY <1>2
<1>4. m # 0 /\ m - 1 \in D /\ m - 1 \notin T
  BY <1>3
<1> QED
  BY <1>3, <1>4

-----------------------------------------------------------------------------
(* Frames, with the instruction each was entered by.                       *)
Entries == Hows \cup {"gen", "end", "main"}
Frame == [fn : Fns, fp : Nat, how : Entries]
Words ==
  {Undef} \cup DataWords \cup ({"ptr"} \X Nat \X Nat) \cup ({"pc"} \X Fns \X Entries \X Nat)
  \cup ({"info"} \X {"vm", "host", "gen"} \X Nat) \cup ({"gen"} \X Nat)
LocalWords == {Undef} \cup DataWords
ObjectOk(o) ==
  /\ o.fn \in Generators /\ o.frame \in [1..NumParams[o.fn] -> LocalWords]
  /\ o = [fn |-> o.fn, running |-> o.running, done |-> o.done, deinit |-> o.deinit,
          prev |-> o.prev, frame |-> o.frame]
GenObjects(G) == G = [g \in 1..Len(G) |-> G[g]] /\ \A g \in 1..Len(G) : ObjectOk(G[g])

Word(s, r) == IF r < Len(s) THEN s[r + 1] ELSE Undef
BaseOf(f) == f.fp + RetSize[f.fn]
EndOf(f) == f.fp + FrameTop[f.fn]
RegOf(f, l) == f.fp + Header[f.fn] + l - 1
Locals(f) == 1..NumLocals[f.fn]
OfGenerator(f) == f.how \in {"gen", "end"}
Top(fr) == fr[Len(fr)]

(* Below, s is the stack, m how often it was moved, G the generators, fr   *)
(* the frames.  Frames follow one another, that of main first.             *)
Shape(fr) ==
  /\ fr \in Seq(Frame) /\ Len(fr) \in 1..MaxDepth
  /\ fr[1].fn = Main /\ fr[1].fp = 0 /\ fr[1].how = "main"
  /\ \A d \in 2..Len(fr) :
       /\ fr[d].fn # Main /\ fr[d].how # "main" /\ fr[d].fp = EndOf(fr[d - 1])
       /\ OfGenerator(fr[d]) => d = Len(fr) /\ fr[d].fn \in Generators
  /\ \A c, d \in 1..Len(fr) : c < d => EndOf(fr[c]) <= fr[d].fp

(* The header of frame f leads to p, its caller.                           *)
Linked(s, m, G, f, p) ==
  /\ Word(s, BaseOf(f)) = Info(IF OfGenerator(f) THEN "gen" ELSE "vm", InstLen[f.how])
  /\ Word(s, BaseOf(f) + 1) = Pc(p.fn, f.how, InstLen[f.how])
  /\ ~OfGenerator(f) => Word(s, BaseOf(f) + 2) = Addr(m, p.fp)
  /\ OfGenerator(f) => \E g \in 1..Len(G) :
       Word(s, BaseOf(f) + 2) = Handle(g) /\ G[g].prev = Addr(m, p.fp)

(* A pointer in frame d is to a variable of d or of one of its callers.    *)
Target(m, fr, d, w) ==
  \E c \in 1..d : \E k \in Locals(fr[c]) \ PtrLocals[fr[c].fn] : w = Addr(m, RegOf(fr[c], k))

LocalOk(s, m, fr, d, l) ==
  IF l \in PtrLocals[fr[d].fn]
  THEN Word(s, RegOf(fr[d], l)) = Undef \/ Target(m, fr, d, Word(s, RegOf(fr[d], l)))
  ELSE Word(s, RegOf(fr[d], l)) \in LocalWords

FrameOk(s, m, G, fr, d) ==
  /\ d > 1 => Linked(s, m, G, fr[d], fr[d - 1])
  /\ \A l \in Locals(fr[d]) : LocalOk(s, m, fr, d, l)

(* Frames without pointers: main, whoever called by value, trait or union, *)
(* and a function before its first instruction, if main calls it so.       *)
Quiet(s, f) == \A l \in PtrLocals[f.fn] : Word(s, RegOf(f, l)) = Undef
Starting(md) == md \in {"chk", "overflow"}
Quiets(s, md, fr) ==
  /\ Quiet(s, fr[1])
  /\ \A d \in 2..Len(fr) : fr[d].how \in Hows \ {"call"} => Quiet(s, fr[d - 1])
  /\ Starting(md) => Len(fr) > 1 /\ ~OfGenerator(Top(fr))
  /\ Starting(md) /\ (Len(fr) = 2 \/ Top(fr).how # "call") => Quiet(s, Top(fr))

(* The registers of each frame, and of the calls it makes, are there; of   *)
(* a function before its CHK_STK only what its caller wrote.               *)
Roomy(s, f) == f.fp + FrameSize[f.fn] + (IF OfGenerator(f) THEN 0 ELSE Spare(f.fn)) <= Len(s)
Fits(s, md, fr) ==
  /\ \A d \in 1..(Len(fr) - 1) : Roomy(s, fr[d])
  /\ IF md \in {"chk", "overflow", "oom"} THEN BaseOf(Top(fr)) + 4 + NumParams[Top(fr).fn] <= Len(s)
                                          ELSE Roomy(s, Top(fr))

(* Nothing is left above the frames.                                       *)
Clear(s, md, fr) ==
  md \in {"run", "chk", "overflow"} => \A i \in 1..Len(s) : i > EndOf(Top(fr)) => s[i] = Undef

TopIs(f, p, md, fr) ==
  /\ f = Top(fr).fn
  /\ p = IF md = "chk" THEN BaseOf(Top(fr)) ELSE Top(fr).fp

Modes == {"run", "chk", "overflow", "result", "host", "panic", "dead", "oom", "end"}

Good(s, m, f, p, md, G, fr) ==
  /\ s \in Seq(Words) /\ Len(s) \in StackSize..MaxStack /\ m \in Nat /\ md \in Modes
  /\ Len(G) \in Nat /\ GenObjects(G)
  /\ Shape(fr) /\ TopIs(f, p, md, fr)
  /\ \A d \in 1..Len(fr) : FrameOk(s, m, G, fr, d)
  /\ Quiets(s, md, fr) /\ Fits(s, md, fr) /\ Clear(s, md, fr)

Traced(tr, md, fr) ==
  tr # <<>> => md = "dead" /\ tr = [k \in 1..Len(fr) |-> fr[Len(fr) + 1 - k].fn]

IInv == \E fr \in Seq(Frame) : Good(stack, mem, fn, fp, mode, gens, fr) /\ Traced(trace, mode, fr)

-----------------------------------------------------------------------------
(* The layout of frames.                                                   *)
LEMMA Greatest ==
  ASSUME NEW T \in SUBSET Nat, IsFiniteSet(T), T # {}
  PROVE  Max(T) \in T /\ \A x \in T : x <= Max(T)
<1>0. PICK n \in Nat : ExistsBijection(1..n, T)
  BY FS_NatBijection
<1>1. PICK q \in [1..n -> T] : \A x \in T : \E i \in 1..n : q[i] = x
  <2>1. PICK q \in Bijection(1..n, T) : TRUE
    BY <1>0 DEF ExistsBijection
  <2> QED
    BY <2>1 DEF Bijection, Surjection
<1>a. \A j \in 1..n : q[j] \in Nat
  BY <1>1
<1> DEFINE Most(k) == \E i \in 1..k : \A j \in 1..k : q[j] <= q[i]
           A == {k \in 0..n : k = 0 \/ Most(k)}
<1>2. ASSUME NEW k \in 0..n, k = 0 \/ k - 1 \in A PROVE k \in A
  <2> SUFFICES ASSUME k # 0 PROVE Most(k)
    OBVIOUS
  <2>1. CASE k = 1
    <3>1. 1 \in 1..k /\ \A j \in 1..k : j = 1
      BY <2>1
    <3>2. q[1] <= q[1]
      BY <1>a, <2>1
    <3> QED
      BY <3>1, <3>2
  <2>2. CASE k # 1
    <3>1. k - 1 \in 0..n /\ k - 1 # 0
      BY <2>2
    <3>2. Most(k - 1)
      BY <1>2, <3>1
    <3>3. PICK i \in 1..(k - 1) : \A j \in 1..(k - 1) : q[j] <= q[i]
      BY <3>2
    <3> HIDE DEF A, Most
    <3>4. i \in 1..k /\ k \in 1..k /\ i \in 1..n /\ k \in 1..n /\ \A j \in 1..k : j \in 1..n /\ (j # k => j \in 1..(k - 1))
      BY <3>1
    <3>5. CASE q[k] <= q[i]
      <4>1. \A j \in 1..k : q[j] <= q[i]
        BY <3>3, <3>4, <3>5
      <4> QED
        BY <3>4, <4>1 DEF Most
    <3>6. CASE ~(q[k] <= q[i])
      <4>1. \A j \in 1..k : q[j] <= q[k]
        BY <1>a, <3>3, <3>4, <3>6
      <4> QED
        BY <3>4, <4>1 DEF Most
    <3> QED
      BY <3>5, <3>6
  <2> QED
    BY <2>1, <2>2
<1>3. n \in A
  <2>1. 0..n \in SUBSET Nat /\ \A k \in 0..n : k # 0 => k - 1 \in 0..n
    OBVIOUS
  <2> HIDE DEF A
  <2>2. 0..n \subseteq A
    BY <1>2, <2>1, Induction
  <2> QED
    BY <2>2
<1>4. PICK m \in T : \A x \in T : x <= m
  <2>1. n # 0
    <3>1. PICK x \in T : TRUE
      OBVIOUS
    <3>2. PICK i \in 1..n : q[i] = x
      BY <1>1
    <3> QED
      BY <3>2
  <2>2. PICK i \in 1..n : \A j \in 1..n : q[j] <= q[i]
    BY <1>3, <2>1
  <2>3. q[i] \in T
    OBVIOUS
  <2> QED
    BY <1>1, <2>2, <2>3
<1> QED
  BY <1>4 DEF Max

LEMMA Layout ==
  ASSUME NEW f \in Fns
  PROVE  /\ NumLocals[f] \in Nat /\ NumParams[f] \in Nat /\ RetSize[f] \in Nat
         /\ NumParams[f] <= NumLocals[f]
         /\ PtrLocals[f] \subseteq 1..NumLocals[f]
         /\ Header[f] = IF f = Main THEN 1 ELSE RetSize[f] + 4
         /\ Header[f] \in Nat \ {0} /\ FrameTop[f] \in Nat /\ FrameSize[f] \in Nat
         /\ FrameTop[f] = Header[f] + NumLocals[f]
         /\ FrameTop[f] <= FrameSize[f]
         /\ \A g \in Callees[f] : g \in Fns \ {Main} /\ FrameTop[f] + (RetSize[g] + 4 + NumParams[g]) <= FrameSize[f]
<1>1. /\ NumLocals[f] \in Nat /\ NumParams[f] \in Nat /\ RetSize[f] \in Nat
      /\ NumParams[f] <= NumLocals[f]
      /\ PtrLocals[f] \subseteq 1..NumLocals[f]
      /\ Callees[f] \subseteq Fns \ {Main} /\ IsFiniteSet(Callees[f])
  BY FramesAssumption
<1>2. Header[f] = IF f = Main THEN 1 ELSE RetSize[f] + 4
  BY DEF Header
<1>3. Header[f] \in Nat \ {0}
  BY <1>1, <1>2
<1>4. FrameTop[f] = Header[f] + NumLocals[f]
  BY DEF FrameTop
<1> DEFINE Use == {RetSize[g] + 4 + NumParams[g] : g \in Callees[f]}
<1>5. IsFiniteSet({0} \cup Use) /\ {0} \cup Use \in SUBSET Nat /\ {0} \cup Use # {}
  <2>1. IsFiniteSet(Use)
    <3>1. PICK q : q = [g \in Callees[f] |-> RetSize[g] + 4 + NumParams[g]]
      OBVIOUS
    <3>2. q \in Surjection(Callees[f], Use)
      BY <3>1 DEF Surjection
    <3> QED
      BY <1>1, <3>2, FS_Surjection
  <2>2. IsFiniteSet({0})
    BY FS_Singleton
  <2>3. ASSUME NEW g \in Callees[f] PROVE RetSize[g] + 4 + NumParams[g] \in Nat
    BY <1>1, FramesAssumption
  <2> QED
    <3>1. IsFiniteSet({0} \cup Use)
      <4> HIDE DEF Use
      <4> QED
        BY <2>1, <2>2, FS_Union
    <3> QED
      BY <2>3, <3>1
<1>6. FrameSize[f] = FrameTop[f] + Max({0} \cup Use)
  BY DEF FrameSize
<1>7. Max({0} \cup Use) \in Nat /\ \A x \in {0} \cup Use : x <= Max({0} \cup Use)
  <2> HIDE DEF Use
  <2> QED
    BY <1>5, Greatest
<1>8. \A g \in Callees[f] : RetSize[g] + 4 + NumParams[g] \in Use
  OBVIOUS
<1> HIDE DEF Use
<1>9. FrameTop[f] \in Nat
  BY <1>1, <1>3, <1>4
<1>10. ASSUME NEW g \in Callees[f]
       PROVE  g \in Fns \ {Main} /\ FrameTop[f] + (RetSize[g] + 4 + NumParams[g]) <= FrameSize[f]
  <2>1. RetSize[g] \in Nat /\ NumParams[g] \in Nat
    BY <1>1, FramesAssumption
  <2>2. RetSize[g] + 4 + NumParams[g] <= Max({0} \cup Use)
    BY <1>7, <1>8
  <2> QED
    BY <1>1, <1>6, <1>7, <1>9, <2>1, <2>2
<1>11. FrameSize[f] \in Nat /\ FrameTop[f] <= FrameSize[f]
  BY <1>6, <1>7, <1>9
<1> QED
  BY <1>1, <1>2, <1>3, <1>4, <1>9, <1>10, <1>11

-----------------------------------------------------------------------------
(* Where the registers of frames are: no register is in two frames, nor a  *)
(* local and a part of a header.                                           *)
LEMMA FrameIs ==
  ASSUME NEW f \in Frame
  PROVE  /\ f.fn \in Fns /\ f.fp \in Nat /\ f.how \in Entries
         /\ BaseOf(f) \in Nat /\ EndOf(f) \in Nat /\ BaseOf(f) = f.fp + RetSize[f.fn]
         /\ EndOf(f) = f.fp + Header[f.fn] + NumLocals[f.fn]
         /\ f.fn # Main => BaseOf(f) + 3 < EndOf(f) /\ f.fp + Header[f.fn] = BaseOf(f) + 4
         /\ f.fp < EndOf(f)
         /\ EndOf(f) <= f.fp + FrameSize[f.fn]
<1>1. f.fn \in Fns /\ f.fp \in Nat /\ f.how \in Entries
  BY DEF Frame
<1>2. /\ NumLocals[f.fn] \in Nat /\ RetSize[f.fn] \in Nat
      /\ Header[f.fn] = IF f.fn = Main THEN 1 ELSE RetSize[f.fn] + 4
      /\ FrameTop[f.fn] = Header[f.fn] + NumLocals[f.fn]
      /\ FrameTop[f.fn] <= FrameSize[f.fn] /\ FrameSize[f.fn] \in Nat
  BY <1>1, Layout
<1> QED
  BY <1>1, <1>2 DEF BaseOf, EndOf

LEMMA RegIs ==
  ASSUME NEW f \in Frame, NEW l \in Locals(f)
  PROVE  /\ RegOf(f, l) \in Nat /\ RegOf(f, l) = f.fp + Header[f.fn] + l - 1 /\ l \in Nat \ {0}
         /\ f.fp < RegOf(f, l) /\ RegOf(f, l) < EndOf(f)
         /\ f.fn # Main => BaseOf(f) + 3 < RegOf(f, l)
<1>1. /\ f.fn \in Fns /\ f.fp \in Nat /\ BaseOf(f) \in Nat
      /\ EndOf(f) = f.fp + Header[f.fn] + NumLocals[f.fn]
      /\ f.fn # Main => f.fp + Header[f.fn] = BaseOf(f) + 4
  BY FrameIs
<1>2. NumLocals[f.fn] \in Nat /\ Header[f.fn] \in Nat \ {0}
  BY <1>1, Layout
<1>3. l \in 1..NumLocals[f.fn]
  BY DEF Locals
<1>4. PICK b, h, n, e, x : b = f.fp /\ h = Header[f.fn] /\ n = NumLocals[f.fn] /\ e = EndOf(f) /\ x = BaseOf(f)
  OBVIOUS
<1>5. b \in Nat /\ h \in Nat \ {0} /\ n \in Nat /\ e = b + h + n /\ x \in Nat /\ (f.fn # Main => b + h = x + 4)
  BY <1>1, <1>2, <1>4
<1>6. l \in Nat \ {0} /\ l <= n
  BY <1>3, <1>4, <1>5
<1>7. RegOf(f, l) = b + h + l - 1
  BY <1>4 DEF RegOf
<1>8. /\ b + h + l - 1 \in Nat /\ b < b + h + l - 1
      /\ b + h + l - 1 < e
      /\ f.fn # Main => x + 3 < b + h + l - 1
  BY <1>5, <1>6
<1> QED
  BY <1>4, <1>6, <1>7, <1>8

LEMMA ShapeIs ==
  ASSUME NEW fr, Shape(fr)
  PROVE  /\ fr \in Seq(Frame) /\ Len(fr) \in Nat \ {0} /\ Len(fr) \in 1..Len(fr)
         /\ \A d \in 1..Len(fr) : /\ fr[d] \in Frame
                                  /\ d > 1 <=> fr[d].fn # Main
                                  /\ d > 1 => d - 1 \in 1..Len(fr) /\ d \in 2..Len(fr)
         /\ Top(fr) = fr[Len(fr)] /\ Top(fr) \in Frame
         /\ \A d \in 1..Len(fr) : EndOf(fr[d]) <= EndOf(Top(fr)) /\ (d # Len(fr) => EndOf(fr[d]) <= Top(fr).fp)
<1>1. fr \in Seq(Frame) /\ Len(fr) \in Nat \ {0} /\ Len(fr) \in 1..Len(fr)
  BY FramesAssumption DEF Shape
<1>2. \A d \in 1..Len(fr) : fr[d] \in Frame
  BY <1>1
<1>3. \A d \in 1..Len(fr) : d = 1 \/ d \in 2..Len(fr)
  BY <1>1
<1>4. ASSUME NEW d \in 1..Len(fr) PROVE EndOf(fr[d]) <= EndOf(Top(fr)) /\ (d # Len(fr) => EndOf(fr[d]) <= Top(fr).fp)
  <2>1. fr[d] \in Frame /\ Top(fr) \in Frame
    BY <1>1, <1>2 DEF Top
  <2>2. /\ Top(fr).fp <= EndOf(Top(fr)) /\ Top(fr).fp \in Nat
        /\ EndOf(Top(fr)) \in Nat /\ EndOf(fr[d]) \in Nat
    BY <2>1, FrameIs
  <2>3. CASE d = Len(fr)
    BY <2>2, <2>3 DEF Top
  <2>4. CASE d # Len(fr)
    <3>1. d < Len(fr)
      BY <1>1, <2>4
    <3>2. EndOf(fr[d]) <= Top(fr).fp
      BY <1>1, <3>1 DEF Shape, Top
    <3> QED
      BY <2>2, <3>2
  <2> QED
    BY <2>3, <2>4
<1> QED
  BY <1>1, <1>2, <1>3, <1>4 DEF Shape, Top

LEMMA Beyond == \A x, y \in Nat : \A i \in 0..3 : x + 3 < y => y # x + i
  OBVIOUS

LEMMA Cancelled == \A b, h, x \in Nat : x = ((b + h + x - 1) + 1) - (b + h)
  OBVIOUS

LEMMA Below == \A b, x, y \in Nat : \A i \in 0..3 : x < b /\ b <= y => x # y + i
  OBVIOUS

LEMMA LocalsApart ==
  ASSUME NEW fr, Shape(fr), NEW c \in 1..Len(fr), NEW d \in 1..Len(fr), NEW l \in Locals(fr[c])
  PROVE  /\ RegOf(fr[c], l) \in Nat /\ RegOf(fr[c], l) < EndOf(Top(fr))
         /\ \A k \in Locals(fr[d]) : RegOf(fr[c], l) = RegOf(fr[d], k) => c = d /\ l = k
         /\ d > 1 => \A i \in 0..3 : RegOf(fr[c], l) # BaseOf(fr[d]) + i
<1>1. fr[c] \in Frame /\ fr[d] \in Frame /\ Len(fr) \in Nat
  BY ShapeIs
<1>2. /\ RegOf(fr[c], l) \in Nat /\ fr[c].fp < RegOf(fr[c], l) /\ RegOf(fr[c], l) < EndOf(fr[c])
      /\ EndOf(fr[c]) <= EndOf(Top(fr)) /\ RegOf(fr[c], l) = fr[c].fp + Header[fr[c].fn] + l - 1
      /\ l \in Nat
  BY <1>1, RegIs, ShapeIs
<1>3. /\ fr[c].fp \in Nat /\ EndOf(fr[c]) \in Nat /\ fr[d].fp \in Nat /\ EndOf(fr[d]) \in Nat
      /\ BaseOf(fr[d]) \in Nat /\ fr[d].fp <= BaseOf(fr[d])
  <2>1. RetSize[fr[d].fn] \in Nat
    BY <1>1, FrameIs, Layout
  <2> QED
    BY <1>1, <2>1, FrameIs
<1>4. Top(fr) \in Frame /\ EndOf(Top(fr)) \in Nat
  BY ShapeIs, FrameIs
<1>5. Header[fr[c].fn] \in Nat
  BY <1>1, FrameIs, Layout
<1>6. CASE c = d
  <2>1. ASSUME NEW k \in Locals(fr[d]), RegOf(fr[c], l) = RegOf(fr[d], k) PROVE l = k
    <3>1. RegOf(fr[d], k) = fr[c].fp + Header[fr[c].fn] + k - 1 /\ k \in Nat
      BY <1>1, <1>6, RegIs
    <3>2. PICK b, h : b = fr[c].fp /\ h = Header[fr[c].fn] /\ b \in Nat /\ h \in Nat
      BY <1>3, <1>5
    <3>3. b + h + l - 1 = b + h + k - 1
      BY <1>2, <2>1, <3>1, <3>2
    <3>4. l \in Nat /\ k \in Nat
      BY <1>2, <3>1
    <3>5. l = ((b + h + l - 1) + 1) - (b + h)
      BY <3>2, <3>4, Cancelled
    <3>6. k = ((b + h + k - 1) + 1) - (b + h)
      BY <3>2, <3>4, Cancelled
    <3> QED
      BY <3>3, <3>5, <3>6
  <2>2. ASSUME d > 1, NEW i \in 0..3 PROVE RegOf(fr[c], l) # BaseOf(fr[d]) + i
    <3>1. BaseOf(fr[d]) + 3 < RegOf(fr[c], l)
      BY <1>1, <1>6, <2>2, ShapeIs, RegIs
    <3> QED
      BY <1>2, <1>3, <3>1, Beyond
  <2> QED
    BY <1>2, <1>3, <1>4, <1>6, <2>1, <2>2
<1>7. CASE c < d
  <2>1. EndOf(fr[c]) <= fr[d].fp
    BY <1>7 DEF Shape
  <2>2. ASSUME NEW k \in Locals(fr[d]) PROVE RegOf(fr[c], l) # RegOf(fr[d], k)
    <3>1. fr[d].fp < RegOf(fr[d], k) /\ RegOf(fr[d], k) \in Nat
      BY <1>1, RegIs
    <3> QED
      BY <1>2, <1>3, <2>1, <3>1
  <2>3. ASSUME NEW i \in 0..3 PROVE RegOf(fr[c], l) # BaseOf(fr[d]) + i
    <3>1. EndOf(fr[c]) <= BaseOf(fr[d])
      BY <1>3, <2>1
    <3> QED
      BY <1>2, <1>3, <3>1, Below
  <2>4. RegOf(fr[c], l) < EndOf(Top(fr))
    BY <1>2, <1>3, <1>4
  <2> QED
    BY <1>2, <2>2, <2>3, <2>4
<1>8. CASE d < c
  <2>1. EndOf(fr[d]) <= fr[c].fp
    BY <1>8 DEF Shape
  <2>2. ASSUME NEW k \in Locals(fr[d]) PROVE RegOf(fr[c], l) # RegOf(fr[d], k)
    <3>1. RegOf(fr[d], k) < EndOf(fr[d]) /\ RegOf(fr[d], k) \in Nat
      BY <1>1, RegIs
    <3> QED
      BY <1>2, <1>3, <2>1, <3>1
  <2>3. d > 1 => BaseOf(fr[d]) + 3 < EndOf(fr[d])
    BY <1>1, ShapeIs, FrameIs
  <2>4. ASSUME d > 1, NEW i \in 0..3 PROVE RegOf(fr[c], l) # BaseOf(fr[d]) + i
    <3>1. BaseOf(fr[d]) + 3 < RegOf(fr[c], l)
      BY <1>2, <1>3, <2>1, <2>3, <2>4
    <3> QED
      BY <1>2, <1>3, <3>1, Beyond
  <2>5. RegOf(fr[c], l) < EndOf(Top(fr))
    BY <1>2, <1>3, <1>4
  <2> QED
    BY <1>2, <2>2, <2>4, <2>5
<1> QED
  BY <1>1, <1>6, <1>7, <1>8

(* What is in the registers after a write and after a part is dropped.     *)
LEMMA PutIs ==
  ASSUME NEW s \in Seq(Words), NEW r \in Nat, NEW ws \in Seq(Words)
  PROVE  /\ Put(s, r, ws) \in Seq(Words) /\ Len(Put(s, r, ws)) = Len(s)
         /\ \A x \in Nat : x \in r..(r + Len(ws) - 1) /\ x < Len(s) => Word(Put(s, r, ws), x) = ws[x - r + 1]
         /\ \A x \in Nat : x \notin r..(r + Len(ws) - 1) => Word(Put(s, r, ws), x) = Word(s, x)
<1> DEFINE t == [i \in 1..Len(s) |-> IF i - 1 \in r..(r + Len(ws) - 1) THEN ws[i - r] ELSE s[i]]
<1>1. Put(s, r, ws) = t
  BY DEF Put
<1>2. Len(s) \in Nat /\ Len(ws) \in Nat
  OBVIOUS
<1>3. ASSUME NEW i \in 1..Len(s) PROVE t[i] \in Words
  <2>1. CASE i - 1 \in r..(r + Len(ws) - 1)
    <3>1. i - r \in 1..Len(ws)
      BY <1>2, <2>1
    <3> QED
      BY <2>1, <3>1
  <2>2. CASE i - 1 \notin r..(r + Len(ws) - 1)
    BY <2>2
  <2> QED
    BY <2>1, <2>2
<1>4. t \in [1..Len(s) -> Words]
  BY <1>3
<1>5. t \in Seq(Words) /\ Len(t) = Len(s)
  BY <1>2, <1>4
<1>6. ASSUME NEW x \in Nat
      PROVE  /\ x \in r..(r + Len(ws) - 1) /\ x < Len(s) => Word(t, x) = ws[x - r + 1]
             /\ x \notin r..(r + Len(ws) - 1) => Word(t, x) = Word(s, x)
  <2>1. CASE x < Len(s)
    <3>1. x + 1 \in 1..Len(s) /\ (x + 1) - 1 = x /\ (x + 1) - r = x - r + 1
      BY <1>2, <2>1
    <3>2. Word(t, x) = t[x + 1] /\ Word(s, x) = s[x + 1]
      BY <1>5, <2>1 DEF Word
    <3> QED
      BY <3>1, <3>2
  <2>2. CASE ~(x < Len(s))
    BY <1>5, <2>2 DEF Word
  <2> QED
    BY <2>1, <2>2
<1> HIDE DEF t
<1> QED
  BY <1>1, <1>5, <1>6

LEMMA PutOne ==
  ASSUME NEW s \in Seq(Words), NEW r \in Nat, NEW w \in Words
  PROVE  /\ Put(s, r, <<w>>) \in Seq(Words) /\ Len(Put(s, r, <<w>>)) = Len(s)
         /\ \A x \in Nat : x # r => Word(Put(s, r, <<w>>), x) = Word(s, x)
         /\ r < Len(s) => Word(Put(s, r, <<w>>), r) = w
         /\ Word(Put(s, r, <<w>>), r) \in {w, Undef}
<1>1. PICK ws : ws = <<w>>
  OBVIOUS
<1>2. ws \in Seq(Words) /\ Len(ws) = 1 /\ ws[1] = w
  BY <1>1
<1>3. r..(r + Len(ws) - 1) = {r} /\ ws[r - r + 1] = w
  BY <1>2
<1>4. Put(s, r, ws) \in Seq(Words) /\ Len(Put(s, r, ws)) = Len(s)
  BY <1>2, PutIs
<1>5. ASSUME NEW x \in Nat, x # r PROVE Word(Put(s, r, ws), x) = Word(s, x)
  <2>1. x \notin r..(r + Len(ws) - 1)
    BY <1>3, <1>5
  <2>2. \A y \in Nat : y \notin r..(r + Len(ws) - 1) => Word(Put(s, r, ws), y) = Word(s, y)
    BY <1>2, PutIs
  <2> QED
    BY <1>5, <2>1, <2>2
<1>6. r < Len(s) => Word(Put(s, r, ws), r) = w
  <2>1. \A x \in Nat : x \in r..(r + Len(ws) - 1) /\ x < Len(s) => Word(Put(s, r, ws), x) = ws[x - r + 1]
    BY <1>2, PutIs
  <2> QED
    BY <1>3, <2>1
<1>7. ~(r < Len(s)) => Word(Put(s, r, ws), r) = Undef
  BY <1>4 DEF Word
<1> QED
  BY <1>1, <1>4, <1>5, <1>6, <1>7

LEMMA DropIs ==
  ASSUME NEW s \in Seq(Words), NEW r \in Nat
  PROVE  /\ DropAbove(s, r) \in Seq(Words) /\ Len(DropAbove(s, r)) = Len(s)
         /\ \A x \in Nat : Word(DropAbove(s, r), x) = IF x < r THEN Word(s, x) ELSE Undef
         /\ \A i \in 1..Len(s) : i > r => DropAbove(s, r)[i] = Undef
<1> DEFINE t == [i \in 1..Len(s) |-> IF i > r THEN Undef ELSE s[i]]
<1>1. DropAbove(s, r) = t
  BY DEF DropAbove
<1>2. Len(s) \in Nat /\ Undef \in Words
  BY DEF Words
<1>3. t \in [1..Len(s) -> Words]
  BY <1>2
<1>4. t \in Seq(Words) /\ Len(t) = Len(s)
  BY <1>2, <1>3
<1>5. ASSUME NEW x \in Nat PROVE Word(t, x) = IF x < r THEN Word(s, x) ELSE Undef
  <2>1. CASE x < Len(s)
    <3>1. x + 1 \in 1..Len(s) /\ (x + 1 > r <=> ~(x < r))
      BY <1>2, <2>1
    <3>2. Word(t, x) = t[x + 1] /\ Word(s, x) = s[x + 1]
      BY <1>4, <2>1 DEF Word
    <3> QED
      BY <3>1, <3>2
  <2>2. CASE ~(x < Len(s))
    BY <1>4, <2>2 DEF Word
  <2> QED
    BY <2>1, <2>2
<1> QED
  BY <1>1, <1>4, <1>5

-----------------------------------------------------------------------------
(* A frame stays as it is when the registers up to its end do.             *)
LEMMA FrameKept ==
  ASSUME NEW s, NEW t, NEW m, NEW G, NEW H, NEW fr, NEW hr, Shape(fr), NEW n \in 1..Len(fr),
         \A c \in 1..n : hr[c] = fr[c],
         \A x \in Nat : x < EndOf(fr[n]) => Word(t, x) = Word(s, x),
         NEW d \in 1..n, FrameOk(s, m, G, fr, d), OfGenerator(fr[d]) => H = G
  PROVE  FrameOk(t, m, H, hr, d) /\ (Quiet(s, fr[d]) => Quiet(t, hr[d]))
<1>1. /\ n \in Nat /\ d \in Nat /\ d <= n /\ d \in 1..Len(fr) /\ fr[d] \in Frame /\ fr[n] \in Frame
      /\ hr[d] = fr[d] /\ (d > 1 => d - 1 \in 1..n /\ hr[d - 1] = fr[d - 1])
  <2>1. Len(fr) \in Nat /\ n \in Nat /\ d \in Nat /\ d <= n /\ d \in 1..Len(fr) /\ (d > 1 => d - 1 \in 1..n)
    BY ShapeIs
  <2> QED
    BY <2>1, ShapeIs
<1>2. EndOf(fr[d]) \in Nat /\ EndOf(fr[n]) \in Nat /\ EndOf(fr[d]) <= EndOf(fr[n])
  <2>1. /\ EndOf(fr[d]) \in Nat /\ EndOf(fr[n]) \in Nat /\ fr[n].fp \in Nat
        /\ fr[n].fp < EndOf(fr[n])
    BY <1>1, FrameIs
  <2>2. d < n => EndOf(fr[d]) <= fr[n].fp
    BY <1>1 DEF Shape
  <2>3. d = n => EndOf(fr[d]) = EndOf(fr[n])
    OBVIOUS
  <2> QED
    BY <1>1, <2>1, <2>2, <2>3
<1>3. ASSUME NEW l \in Locals(fr[d]) PROVE Word(t, RegOf(fr[d], l)) = Word(s, RegOf(fr[d], l))
  <2>1. RegOf(fr[d], l) \in Nat /\ RegOf(fr[d], l) < EndOf(fr[d])
    BY <1>1, RegIs
  <2> QED
    BY <1>2, <2>1
<1>4. ASSUME d > 1, NEW i \in 0..2 PROVE Word(t, BaseOf(fr[d]) + i) = Word(s, BaseOf(fr[d]) + i)
  <2>1. BaseOf(fr[d]) \in Nat /\ BaseOf(fr[d]) + 3 < EndOf(fr[d])
    BY <1>1, <1>4, ShapeIs, FrameIs
  <2>2. BaseOf(fr[d]) + i \in Nat /\ BaseOf(fr[d]) + i < EndOf(fr[n])
    BY <1>2, <2>1
  <2> QED
    BY <2>2
<1>5. ASSUME d > 1 PROVE Linked(t, m, H, hr[d], hr[d - 1])
  <2>1. BaseOf(fr[d]) \in Nat
    BY <1>1, FrameIs
  <2>2. /\ Word(t, BaseOf(fr[d])) = Word(s, BaseOf(fr[d]))
        /\ Word(t, BaseOf(fr[d]) + 1) = Word(s, BaseOf(fr[d]) + 1)
        /\ Word(t, BaseOf(fr[d]) + 2) = Word(s, BaseOf(fr[d]) + 2)
    <3>1. BaseOf(fr[d]) + 0 = BaseOf(fr[d])
      BY <2>1
    <3> QED
      BY <1>4, <1>5, <3>1
  <2>3. Linked(s, m, G, fr[d], fr[d - 1])
    BY <1>5 DEF FrameOk
  <2> QED
    BY <1>1, <1>5, <2>2, <2>3 DEF Linked
<1>6. ASSUME NEW l \in Locals(fr[d]) PROVE LocalOk(t, m, hr, d, l)
  <2>1. LocalOk(s, m, fr, d, l)
    BY DEF FrameOk
  <2>2. ASSUME NEW w, Target(m, fr, d, w) PROVE Target(m, hr, d, w)
    <3>1. \A c \in 1..d : hr[c] = fr[c]
      BY <1>1
    <3> QED
      BY <2>2, <3>1 DEF Target
  <2> QED
    BY <1>1, <1>3, <2>1, <2>2 DEF LocalOk
<1>7. Locals(hr[d]) = Locals(fr[d])
  BY <1>1
<1>8. ASSUME Quiet(s, fr[d]) PROVE Quiet(t, hr[d])
  <2>1. PtrLocals[fr[d].fn] \subseteq Locals(fr[d])
    BY <1>1, FrameIs, Layout DEF Locals
  <2> QED
    BY <1>1, <1>3, <1>8, <2>1 DEF Quiet
<1> QED
  BY <1>5, <1>6, <1>7, <1>8 DEF FrameOk

LEMMA WordsAre ==
  /\ Undef \in Words /\ DataWords \subseteq Words /\ LocalWords \subseteq Words
  /\ \A m, r \in Nat : Addr(m, r) \in Words /\ Addr(m, r)[1] = "ptr" /\ Addr(m, r)[2] = m /\ Addr(m, r)[3] = r
  /\ \A f \in Fns, how \in Entries, n \in Nat : Pc(f, how, n) \in Words
  /\ \A k \in {"vm", "host", "gen"}, n \in Nat : Info(k, n) \in Words
  /\ \A g \in Nat : Handle(g) \in Words
  /\ \A w \in Words : w[1] = "data" => w \in DataWords
  /\ \A w \in Words : w[1] \in {"undef", "data", "ptr", "pc", "info", "gen"}
  /\ \A w \in LocalWords : w = Undef \/ w[1] = "data"
  /\ Undef[1] = "undef"
<1>1. \A w \in DataWords : w[1] = "data"
  BY DEF DataWords, Datum
<1>2. \A m, r \in Nat : Addr(m, r) \in Words /\ Addr(m, r)[1] = "ptr" /\ Addr(m, r)[2] = m /\ Addr(m, r)[3] = r
  BY DEF Words, Addr
<1>3. \A f \in Fns, how \in Entries, n \in Nat : Pc(f, how, n) \in Words
  BY DEF Words, Pc
<1>4. \A k \in {"vm", "host", "gen"}, n \in Nat : Info(k, n) \in Words
  BY DEF Words, Info
<1>5. \A g \in Nat : Handle(g) \in Words
  BY DEF Words, Handle
<1>6. ASSUME NEW w \in Words
      PROVE  (w[1] = "data" => w \in DataWords) /\ w[1] \in {"undef", "data", "ptr", "pc", "info", "gen"}
  <2>1. CASE w = Undef
    BY <2>1 DEF Undef
  <2>2. CASE w \in DataWords
    BY <1>1, <2>2
  <2>3. CASE w \in {"ptr"} \X Nat \X Nat
    BY <2>3
  <2>4. CASE w \in {"pc"} \X Fns \X Entries \X Nat
    BY <2>4
  <2>5. CASE w \in {"info"} \X {"vm", "host", "gen"} \X Nat
    BY <2>5
  <2>6. CASE w \in {"gen"} \X Nat
    BY <2>6
  <2> QED
    BY <2>1, <2>2, <2>3, <2>4, <2>5, <2>6 DEF Words
<1> QED
  BY <1>1, <1>2, <1>3, <1>4, <1>5, <1>6 DEF Words, LocalWords, Undef

LEMMA WordIs ==
  ASSUME NEW s \in Seq(Words), NEW r \in Nat
  PROVE  Word(s, r) \in Words /\ (Word(s, r) # Undef => r < Len(s))
<1>1. r < Len(s) => r + 1 \in 1..Len(s)
  OBVIOUS
<1> QED
  BY <1>1, WordsAre DEF Word

-----------------------------------------------------------------------------
(* The moves the instructions are made of.  First: what is above the       *)
(* frames changes, or nothing but the mode.                                *)
Settled == Modes \ {"chk", "overflow", "oom"}

LEMMA AboveChanged ==
  ASSUME NEW s, NEW m, NEW f, NEW p, NEW md \in Settled, NEW G, NEW fr, Good(s, m, f, p, md, G, fr),
         NEW t \in Seq(Words), Len(t) = Len(s), NEW me \in Settled,
         \A x \in Nat : x < EndOf(Top(fr)) => Word(t, x) = Word(s, x),
         me = "run" => \A i \in 1..Len(t) : i > EndOf(Top(fr)) => t[i] = Undef
  PROVE  Good(t, m, f, p, me, G, fr)
<1>1. Shape(fr) /\ Len(fr) \in Nat \ {0} /\ Len(fr) \in 1..Len(fr) /\ Top(fr) = fr[Len(fr)]
  BY ShapeIs DEF Good
<1>2. ASSUME NEW d \in 1..Len(fr)
      PROVE  FrameOk(t, m, G, fr, d) /\ (Quiet(s, fr[d]) => Quiet(t, fr[d]))
  <2>1. FrameOk(s, m, G, fr, d)
    BY DEF Good
  <2>2. \A x \in Nat : x < EndOf(fr[Len(fr)]) => Word(t, x) = Word(s, x)
    BY <1>1
  <2> QED
    BY <1>1, <2>1, <2>2, FrameKept
<1>3. ~Starting(md) /\ ~Starting(me) /\ md \notin {"chk", "overflow", "oom"} /\ me \notin {"chk", "overflow", "oom"}
  BY DEF Starting, Settled
<1>4. Quiets(t, me, fr)
  <2>1. Quiets(s, md, fr)
    BY DEF Good
  <2>2. 1 \in 1..Len(fr) /\ \A d \in 2..Len(fr) : d - 1 \in 1..Len(fr)
    BY <1>1
  <2> QED
    BY <1>2, <1>3, <2>1, <2>2 DEF Quiets
<1>5. Fits(t, me, fr)
  BY <1>3 DEF Good, Fits, Roomy
<1>6. TopIs(f, p, me, fr)
  BY <1>3 DEF Good, TopIs
<1>7. Clear(t, me, fr)
  BY <1>3 DEF Clear
<1> QED
  BY <1>1, <1>2, <1>4, <1>5, <1>6, <1>7 DEF Good, Settled

(* A local of a frame is written.                                          *)
LEMMA LocalWritten ==
  ASSUME NEW s, NEW m, NEW f, NEW p, NEW md \in Settled, NEW G, NEW fr, Good(s, m, f, p, md, G, fr),
         NEW c \in 1..Len(fr), NEW l \in Locals(fr[c]), NEW w \in Words,
         IF l \in PtrLocals[fr[c].fn] THEN c = Len(fr) /\ c > 1 /\ Target(m, fr, c, w) ELSE w \in LocalWords
  PROVE  Good(Put(s, RegOf(fr[c], l), <<w>>), m, f, p, md, G, fr)
<1> DEFINE t == Put(s, RegOf(fr[c], l), <<w>>)
<1>1. /\ Shape(fr) /\ Len(fr) \in Nat \ {0} /\ Len(fr) \in 1..Len(fr) /\ Top(fr) = fr[Len(fr)]
      /\ s \in Seq(Words) /\ Len(s) \in Nat
      /\ \A d \in 1..Len(fr) : fr[d] \in Frame
  BY ShapeIs DEF Good
<1>2. RegOf(fr[c], l) \in Nat
  BY <1>1, LocalsApart
<1>3. /\ t \in Seq(Words) /\ Len(t) = Len(s)
      /\ \A x \in Nat : x # RegOf(fr[c], l) => Word(t, x) = Word(s, x)
      /\ Word(t, RegOf(fr[c], l)) = w \/ Word(t, RegOf(fr[c], l)) = Undef
  BY <1>1, <1>2, PutOne, ZenonT(60)
<1> HIDE DEF t
<1>4. ASSUME NEW d \in 1..Len(fr), NEW k \in Locals(fr[d])
      PROVE  LocalOk(t, m, fr, d, k)
  <2>1. LocalOk(s, m, fr, d, k)
    BY DEF Good, FrameOk
  <2>2. CASE c = d /\ l = k
    BY <1>3, <2>2 DEF LocalOk, LocalWords
  <2>3. CASE ~(c = d /\ l = k)
    <3>1. RegOf(fr[d], k) # RegOf(fr[c], l) /\ RegOf(fr[d], k) \in Nat
      BY <1>1, <2>3, LocalsApart
    <3> QED
      BY <1>3, <2>1, <3>1 DEF LocalOk
  <2> QED
    BY <2>2, <2>3
<1>5. ASSUME NEW d \in 1..Len(fr), d > 1 PROVE Linked(t, m, G, fr[d], fr[d - 1])
  <2>1. Linked(s, m, G, fr[d], fr[d - 1])
    BY <1>5 DEF Good, FrameOk
  <2>2. BaseOf(fr[d]) \in Nat
    BY <1>1, FrameIs
  <2>3. \A i \in 0..3 : RegOf(fr[c], l) # BaseOf(fr[d]) + i
    BY <1>1, <1>5, LocalsApart
  <2>4. /\ RegOf(fr[c], l) # BaseOf(fr[d]) /\ RegOf(fr[c], l) # BaseOf(fr[d]) + 1
        /\ RegOf(fr[c], l) # BaseOf(fr[d]) + 2
    BY <2>2, <2>3
  <2>5. BaseOf(fr[d]) + 1 \in Nat /\ BaseOf(fr[d]) + 2 \in Nat
    BY <2>2
  <2> QED
    BY <1>3, <2>1, <2>2, <2>4, <2>5 DEF Linked
<1>6. \A d \in 1..Len(fr) : FrameOk(t, m, G, fr, d)
  BY <1>4, <1>5 DEF FrameOk
<1>7. ~Starting(md) /\ md \notin {"chk", "overflow", "oom"}
  BY DEF Starting, Settled
<1>8. ASSUME NEW d \in 1..Len(fr), d # Len(fr) \/ d = 1, Quiet(s, fr[d]) PROVE Quiet(t, fr[d])
  <2> SUFFICES ASSUME NEW k \in PtrLocals[fr[d].fn] PROVE Word(t, RegOf(fr[d], k)) = Undef
    BY DEF Quiet
  <2>1. k \in Locals(fr[d])
    BY <1>1, FrameIs, Layout DEF Locals
  <2>2. ~(c = d /\ l = k)
    BY <1>8
  <2>3. RegOf(fr[d], k) # RegOf(fr[c], l) /\ RegOf(fr[d], k) \in Nat
    BY <1>1, <2>1, <2>2, LocalsApart
  <2> QED
    BY <1>3, <1>8, <2>3 DEF Quiet
<1>9. Quiets(t, md, fr)
  <2>1. Quiets(s, md, fr)
    BY DEF Good
  <2>2. 1 \in 1..Len(fr) /\ \A d \in 2..Len(fr) : d - 1 \in 1..Len(fr) /\ d - 1 # Len(fr)
    BY <1>1
  <2> QED
    BY <1>7, <1>8, <2>1, <2>2 DEF Quiets
<1>10. Clear(t, md, fr)
  <2> SUFFICES ASSUME md = "run", NEW i \in 1..Len(t), i > EndOf(Top(fr)) PROVE t[i] = Undef
    BY <1>7 DEF Clear
  <2>1. EndOf(Top(fr)) \in Nat /\ RegOf(fr[c], l) < EndOf(Top(fr))
    BY <1>1, ShapeIs, FrameIs, LocalsApart
  <2>2. s[i] = Undef
    BY <1>3 DEF Good, Clear
  <2>3. i - 1 \in Nat /\ i - 1 # RegOf(fr[c], l) /\ i - 1 < Len(s) /\ (i - 1) + 1 = i
    BY <1>1, <1>2, <1>3, <2>1
  <2>4. Word(t, i - 1) = Word(s, i - 1)
    BY <1>3, <2>3
  <2> QED
    BY <1>3, <2>2, <2>3, <2>4 DEF Word
<1>11. Fits(t, md, fr)
  BY <1>3, <1>7 DEF Good, Fits, Roomy
<1>12. TopIs(f, p, md, fr)
  BY DEF Good
<1> QED
  BY <1>1, <1>3, <1>6, <1>9, <1>10, <1>11, <1>12 DEF Good, t

(* A frame is laid out above the others.                                   *)
LEMMA PushedShape ==
  ASSUME NEW fr, Shape(fr), NEW h \in Frame, h.fn # Main, h.how # "main", h.fp = EndOf(Top(fr)),
         ~OfGenerator(Top(fr)), OfGenerator(h) => h.fn \in Generators, Len(fr) < MaxDepth
  PROVE  /\ Shape(Append(fr, h)) /\ Len(Append(fr, h)) = Len(fr) + 1 /\ Append(fr, h)[Len(fr) + 1] = h
         /\ Top(Append(fr, h)) = h
         /\ \A c \in 1..Len(fr) : Append(fr, h)[c] = fr[c]
         /\ \A c \in 1..Len(fr) : ~OfGenerator(fr[c])
<1>1. PICK n, hr : n = Len(fr) /\ hr = Append(fr, h)
  OBVIOUS
<1>2. /\ n \in Nat \ {0} /\ n < MaxDepth /\ MaxDepth \in Nat
      /\ fr \in Seq(Frame) /\ \A d \in 1..n : fr[d] \in Frame /\ EndOf(fr[d]) <= EndOf(Top(fr))
      /\ Top(fr) = fr[n] /\ Top(fr) \in Frame
  BY <1>1, ShapeIs, FramesAssumption
<1>3. /\ hr \in Seq(Frame) /\ Len(hr) = n + 1 /\ hr[n + 1] = h
      /\ \A c \in 1..n : hr[c] = fr[c]
  BY <1>1, <1>2
<1>4. hr[1].fn = Main /\ hr[1].fp = 0 /\ hr[1].how = "main"
  BY <1>2, <1>3 DEF Shape
<1>5. ASSUME NEW c \in 1..n PROVE ~OfGenerator(fr[c])
  <2>1. fr[1].how = "main"
    BY DEF Shape
  <2>2. CASE c = 1
    BY <2>1, <2>2 DEF OfGenerator
  <2>3. CASE c # 1
    <3>1. c \in 2..n
      BY <2>3
    <3> QED
      BY <1>1, <1>2, <3>1 DEF Shape
  <2> QED
    BY <2>2, <2>3
<1>6. ASSUME NEW d \in 2..(n + 1)
      PROVE  /\ hr[d].fn # Main /\ hr[d].how # "main" /\ hr[d].fp = EndOf(hr[d - 1])
             /\ OfGenerator(hr[d]) => d = n + 1 /\ hr[d].fn \in Generators
  <2>1. CASE d = n + 1
    <3>1. d - 1 = n /\ n \in 1..n
      BY <1>2, <2>1
    <3> QED
      BY <1>2, <1>3, <2>1, <3>1
  <2>2. CASE d # n + 1
    <3>1. d \in 2..n /\ d \in 1..n /\ d - 1 \in 1..n
      BY <1>2, <2>2
    <3> QED
      BY <1>1, <1>3, <1>5, <3>1 DEF Shape
  <2> QED
    BY <2>1, <2>2
<1>7. ASSUME NEW c \in 1..(n + 1), NEW d \in 1..(n + 1), c < d PROVE EndOf(hr[c]) <= hr[d].fp
  <2>1. c \in 1..n
    BY <1>2, <1>7
  <2>2. CASE d = n + 1
    BY <1>2, <1>3, <2>1, <2>2
  <2>3. CASE d # n + 1
    <3>1. d \in 1..n
      BY <1>2, <2>3
    <3> QED
      BY <1>1, <1>3, <1>7, <2>1, <3>1 DEF Shape
  <2> QED
    BY <2>2, <2>3
<1>8. n + 1 \in 1..MaxDepth
  BY <1>2
<1>9. Shape(hr)
  BY <1>3, <1>4, <1>6, <1>7, <1>8 DEF Shape
<1> QED
  BY <1>1, <1>3, <1>5, <1>9 DEF Top

LEMMA Pushed ==
  ASSUME NEW s, NEW m, NEW f, NEW p, NEW G, NEW fr, Good(s, m, f, p, "run", G, fr),
         NEW h \in Frame, h.fn # Main, h.how # "main", h.fp = EndOf(Top(fr)),
         ~OfGenerator(Top(fr)), OfGenerator(h) => h.fn \in Generators, Len(fr) < MaxDepth,
         NEW H, Len(H) \in Nat, GenObjects(H),
         NEW t \in Seq(Words), Len(t) = Len(s), \A x \in Nat : x < EndOf(Top(fr)) => Word(t, x) = Word(s, x),
         \A i \in 1..Len(t) : i > EndOf(h) => t[i] = Undef,
         Linked(t, m, H, h, Top(fr)),
         \A l \in Locals(h) : LocalOk(t, m, Append(fr, h), Len(fr) + 1, l),
         h.how \in Hows \ {"call"} => Quiet(s, Top(fr)),
         NEW md, IF OfGenerator(h) THEN md = "run" /\ Roomy(t, h)
                 ELSE /\ md = "chk" /\ BaseOf(h) + 4 + NumParams[h.fn] <= Len(t)
                      /\ Len(fr) = 1 \/ h.how # "call" => Quiet(t, h)
  PROVE  Good(t, m, h.fn, IF md = "chk" THEN BaseOf(h) ELSE h.fp, md, H, Append(fr, h))
<1>1. PICK n, hr : n = Len(fr) /\ hr = Append(fr, h)
  OBVIOUS
<1>2. /\ Shape(fr) /\ n \in Nat \ {0} /\ n \in 1..n /\ Top(fr) = fr[n] /\ Top(fr) \in Frame
      /\ s \in Seq(Words) /\ Len(s) \in Nat
  BY <1>1, ShapeIs DEF Good
<1>3. /\ Shape(hr) /\ Len(hr) = n + 1 /\ hr[n + 1] = h /\ Top(hr) = h
      /\ \A c \in 1..n : hr[c] = fr[c] /\ ~OfGenerator(fr[c])
  BY <1>1, <1>2, PushedShape
<1>4. ASSUME NEW d \in 1..n PROVE FrameOk(t, m, H, hr, d) /\ (Quiet(s, fr[d]) => Quiet(t, hr[d]))
  <2>1. FrameOk(s, m, G, fr, d)
    BY <1>1 DEF Good
  <2>2. \A x \in Nat : x < EndOf(fr[n]) => Word(t, x) = Word(s, x)
    BY <1>2
  <2>3. Shape(fr) /\ n \in 1..Len(fr) /\ ~OfGenerator(fr[d])
    BY <1>1, <1>2, <1>3
  <2>4. \A c \in 1..n : hr[c] = fr[c]
    BY <1>3
  <2> QED
    BY <2>1, <2>2, <2>3, <2>4, FrameKept
<1>5. FrameOk(t, m, H, hr, n + 1)
  <2>1. (n + 1) - 1 = n /\ hr[(n + 1) - 1] = Top(fr)
    BY <1>2, <1>3
  <2> QED
    BY <1>1, <1>3, <2>1 DEF FrameOk
<1>6. ASSUME NEW d \in 1..(n + 1) PROVE FrameOk(t, m, H, hr, d)
  <2>1. d \in 1..n \/ d = n + 1
    BY <1>2
  <2> QED
    BY <1>4, <1>5, <2>1
<1>7. md \in Modes /\ TopIs(h.fn, IF md = "chk" THEN BaseOf(h) ELSE h.fp, md, hr)
  BY <1>3 DEF TopIs, Modes
<1>8. Quiets(t, md, hr)
  <2>1. Quiets(s, "run", fr)
    BY DEF Good
  <2>2. Quiet(t, hr[1])
    <3>1. 1 \in 1..n
      BY <1>2
    <3> QED
      BY <1>4, <2>1, <3>1 DEF Quiets
  <2>3. ASSUME NEW d \in 2..(n + 1), hr[d].how \in Hows \ {"call"} PROVE Quiet(t, hr[d - 1])
    <3>1. CASE d = n + 1
      <4>1. d - 1 = n
        BY <1>2, <3>1
      <4> QED
        BY <1>2, <1>3, <1>4, <2>3, <3>1, <4>1
    <3>2. CASE d # n + 1
      <4>1. d \in 2..n /\ d \in 1..n /\ d - 1 \in 1..n
        BY <1>2, <3>2
      <4> QED
        BY <1>1, <1>3, <1>4, <2>1, <2>3, <4>1 DEF Quiets
    <3> QED
      BY <3>1, <3>2
  <2>4. Starting(md) => Len(hr) > 1 /\ ~OfGenerator(Top(hr))
    BY <1>2, <1>3 DEF Starting
  <2>5. Starting(md) /\ (Len(hr) = 2 \/ Top(hr).how # "call") => Quiet(t, Top(hr))
    BY <1>1, <1>2, <1>3 DEF Starting
  <2> QED
    BY <1>3, <2>2, <2>3, <2>4, <2>5 DEF Quiets
<1>9. Fits(t, md, hr)
  <2>1. Fits(s, "run", fr)
    BY DEF Good
  <2>2. ASSUME NEW d \in 1..((n + 1) - 1) PROVE Roomy(t, hr[d])
    <3>1. d \in 1..n /\ (d = n \/ d \in 1..(n - 1))
      BY <1>2
    <3>2. Roomy(s, fr[d])
      BY <1>1, <1>2, <2>1, <3>1 DEF Fits
    <3> QED
      BY <1>3, <3>1, <3>2 DEF Roomy
  <2>3. IF md \in {"chk", "overflow", "oom"} THEN BaseOf(Top(hr)) + 4 + NumParams[Top(hr).fn] <= Len(t)
                                             ELSE Roomy(t, Top(hr))
    BY <1>3
  <2> QED
    BY <1>3, <2>2, <2>3 DEF Fits
<1>10. Clear(t, md, hr)
  BY <1>3 DEF Clear
<1> QED
  BY <1>1, <1>3, <1>6, <1>7, <1>8, <1>9, <1>10 DEF Good

(* The last frame is given up.                                             *)
LEMMA Popped ==
  ASSUME NEW s, NEW m, NEW f, NEW p, NEW G, NEW fr, Good(s, m, f, p, "run", G, fr), Len(fr) > 1,
         NEW H, Len(H) \in Nat, GenObjects(H),
         NEW t \in Seq(Words), Len(t) = Len(s), \A x \in Nat : x < Top(fr).fp => Word(t, x) = Word(s, x),
         NEW md \in {"run", "result"}, md = "run" => \A i \in 1..Len(t) : i > Top(fr).fp => t[i] = Undef
  PROVE  LET n == Len(fr) IN Good(t, m, fr[n - 1].fn, fr[n - 1].fp, md, H, SubSeq(fr, 1, n - 1))
<1>1. PICK n, hr : n = Len(fr) /\ hr = SubSeq(fr, 1, n - 1)
  OBVIOUS
<1>2. /\ Shape(fr) /\ n \in Nat \ {0, 1} /\ n - 1 \in 1..n /\ Top(fr) = fr[n] /\ Top(fr) \in Frame
      /\ s \in Seq(Words) /\ Len(s) \in Nat /\ fr \in Seq(Frame)
      /\ \A d \in 1..n : fr[d] \in Frame
  BY <1>1, ShapeIs DEF Good
<1>3. hr \in Seq(Frame) /\ Len(hr) = n - 1 /\ \A c \in 1..(n - 1) : hr[c] = fr[c]
  BY <1>1, <1>2
<1>4. n \in 2..n /\ Top(hr) = fr[n - 1] /\ \A d \in 1..(n - 1) : d \in 1..n /\ (d = 1 \/ d \in 2..n)
  BY <1>2, <1>3 DEF Top
<1>5. Top(fr).fp = EndOf(fr[n - 1])
  BY <1>1, <1>2, <1>4 DEF Shape
<1>6. \A c \in 1..(n - 1) : ~OfGenerator(fr[c])
  <2>1. fr[1].how = "main" /\ \A c \in 2..n : OfGenerator(fr[c]) => c = n
    BY <1>1, <1>2 DEF Shape
  <2> QED
    BY <1>2, <1>4, <2>1 DEF OfGenerator
<1>7. Shape(hr)
  <2>1. n \in 1..MaxDepth /\ fr[1].fn = Main /\ fr[1].fp = 0 /\ fr[1].how = "main"
    BY <1>1, <1>2 DEF Shape
  <2>2. n - 1 \in 1..MaxDepth /\ 1 \in 1..(n - 1)
    BY <1>2, <2>1, FramesAssumption
  <2>3. ASSUME NEW d \in 2..(n - 1)
        PROVE  /\ hr[d].fn # Main /\ hr[d].how # "main" /\ hr[d].fp = EndOf(hr[d - 1])
               /\ OfGenerator(hr[d]) => d = n - 1 /\ hr[d].fn \in Generators
    <3>1. d \in 1..(n - 1) /\ d - 1 \in 1..(n - 1) /\ d \in 2..n
      BY <1>2
    <3>2. hr[d] = fr[d] /\ hr[d - 1] = fr[d - 1] /\ ~OfGenerator(fr[d])
      BY <1>3, <1>6, <3>1
    <3>3. fr[d].fn # Main /\ fr[d].how # "main" /\ fr[d].fp = EndOf(fr[d - 1])
      BY <1>1, <1>2, <3>1 DEF Shape
    <3> QED
      BY <3>2, <3>3
  <2>4. ASSUME NEW c \in 1..(n - 1), NEW d \in 1..(n - 1), c < d PROVE EndOf(hr[c]) <= hr[d].fp
    BY <1>1, <1>2, <1>3, <1>4, <2>4 DEF Shape
  <2> QED
    BY <1>3, <2>1, <2>2, <2>3, <2>4 DEF Shape
<1>8. ASSUME NEW d \in 1..(n - 1) PROVE FrameOk(t, m, H, hr, d) /\ (Quiet(s, fr[d]) => Quiet(t, hr[d]))
  <2>1. FrameOk(s, m, G, fr, d)
    BY <1>1, <1>4 DEF Good
  <2>2. \A x \in Nat : x < EndOf(fr[n - 1]) => Word(t, x) = Word(s, x)
    BY <1>5
  <2>3. Shape(fr) /\ n - 1 \in 1..Len(fr) /\ ~OfGenerator(fr[d])
    BY <1>1, <1>2, <1>6
  <2> QED
    BY <1>3, <2>1, <2>2, <2>3, FrameKept, ZenonT(60)
<1>9. Quiets(t, md, hr)
  <2>1. Quiets(s, "run", fr)
    BY DEF Good
  <2>2. Quiet(t, hr[1])
    <3>1. 1 \in 1..(n - 1)
      BY <1>2
    <3> QED
      BY <1>8, <2>1, <3>1 DEF Quiets
  <2>3. ASSUME NEW d \in 2..(n - 1), hr[d].how \in Hows \ {"call"} PROVE Quiet(t, hr[d - 1])
    <3>1. d \in 1..(n - 1) /\ d - 1 \in 1..(n - 1) /\ d \in 2..n
      BY <1>2
    <3> QED
      BY <1>1, <1>3, <1>8, <2>1, <2>3, <3>1 DEF Quiets
  <2> QED
    BY <1>3, <2>2, <2>3 DEF Quiets, Starting
<1>10. Fits(t, md, hr)
  <2>1. Fits(s, "run", fr)
    BY DEF Good
  <2>2. ASSUME NEW d \in 1..(n - 1) PROVE Roomy(t, hr[d])
    <3>1. Roomy(s, fr[d])
      BY <1>1, <2>1 DEF Fits
    <3> QED
      BY <1>3, <3>1 DEF Roomy
  <2>3. n - 1 \in 1..(n - 1) /\ \A d \in 1..((n - 1) - 1) : d \in 1..(n - 1)
    BY <1>2
  <2>4. Roomy(t, Top(hr))
    BY <1>3, <2>2, <2>3 DEF Top
  <2> QED
    BY <1>3, <2>2, <2>3, <2>4 DEF Fits
<1>11. Clear(t, md, hr)
  BY <1>4, <1>5 DEF Clear
<1>12. md \in Modes /\ TopIs(fr[n - 1].fn, fr[n - 1].fp, md, hr)
  BY <1>4 DEF TopIs, Modes
<1> QED
  BY <1>1, <1>3, <1>7, <1>8, <1>9, <1>10, <1>11, <1>12 DEF Good

-----------------------------------------------------------------------------
(* The walks over the frames.  What they see of frame k:                   *)
Ctx(fr, k) == Context(fr[k].fn, IF k = Len(fr) THEN "body" ELSE fr[k + 1].how, 0, fr[k].fp)
Backwards(fr) == [i \in 1..Len(fr) |-> Ctx(fr, Len(fr) + 1 - i)]

LEMMA Lengths == \A how \in Hows \cup {"gen", "end"} : InstLen[how] \in Nat
BY DEF Hows, InstLen

LEMMA AtIs == \A r : At(r) = Word(stack, r)
BY DEF At, Word, Size

LEMMA StepIs ==
  ASSUME NEW fr, Good(stack, mem, fn, fp, mode, gens, fr), NEW k \in 2..Len(fr),
         NEW who \in {"return", "growth", "panic"},
         who = "growth" => ~OfGenerator(Top(fr)), who = "panic" => GeneratorsFit
  PROVE  Step(who, Ctx(fr, k)) = Ctx(fr, k - 1) /\ (IsGenFrame(Ctx(fr, k)) <=> OfGenerator(fr[k]))
<1>1. PICK cx, h, q : cx = Ctx(fr, k) /\ h = fr[k] /\ q = fr[k - 1]
  OBVIOUS
<1>2. /\ Shape(fr) /\ Len(fr) \in Nat /\ k \in Nat /\ k \in 1..Len(fr) /\ k - 1 \in 1..Len(fr) /\ k > 1
      /\ h \in Frame /\ q \in Frame /\ h.fn # Main /\ h.how # "main"
  <2>1. Shape(fr) /\ Len(fr) \in Nat
    BY ShapeIs DEF Good
  <2>2. k \in Nat /\ k \in 1..Len(fr) /\ k - 1 \in 1..Len(fr) /\ k > 1
    BY <2>1
  <2> QED
    BY <1>1, <2>1, <2>2, ShapeIs DEF Shape
<1>3. cx.fn = h.fn /\ cx.fp = h.fp /\ Base(cx) = BaseOf(h)
  BY <1>1 DEF Ctx, Context, Base, BaseOf
<1>4. /\ h.fp \in Nat \ {0} /\ BaseOf(h) \in Nat /\ h.how \in Hows \cup {"gen", "end"}
      /\ q.fp \in Nat
  <2>1. h.fp = EndOf(q)
    BY <1>1, <1>2 DEF Shape
  <2>2. q.fp \in Nat /\ EndOf(q) \in Nat /\ q.fp < EndOf(q) /\ h.fp \in Nat /\ BaseOf(h) \in Nat /\ h.how \in Entries
    BY <1>2, FrameIs
  <2> QED
    BY <1>2, <2>1, <2>2 DEF Entries
<1>5. Linked(stack, mem, gens, h, q)
  BY <1>1, <1>2 DEF Good, FrameOk
<1>6. InstLen[h.how] \in Nat /\ InstLen[h.how] - InstLen[h.how] = 0
  BY <1>4, Lengths
<1>7. Ctx(fr, k - 1) = Context(q.fn, h.how, 0, q.fp)
  BY <1>1, <1>2 DEF Ctx
<1>8. PICK n : n = InstLen[h.how]
  OBVIOUS
<1>9. CASE ~OfGenerator(h)
  <2>1. /\ At(Base(cx)) = <<"info", "vm", n>>
        /\ At(Base(cx) + 1) = <<"pc", q.fn, h.how, n>>
        /\ At(Base(cx) + 2) = <<"ptr", mem, q.fp>>
    BY <1>3, <1>5, <1>8, <1>9, AtIs DEF Linked, Info, Pc, Addr
  <2>2. ~IsGenFrame(cx)
    BY <2>1 DEF IsGenFrame
  <2>3. PrevContext(cx) = Context(q.fn, h.how, n - n, q.fp)
    BY <2>1 DEF PrevContext
  <2>4. PrevContext(cx) = Context(q.fn, h.how, 0, q.fp)
    BY <1>6, <1>8, <2>3
  <2>5. Step(who, cx) = PrevContext(cx)
    BY <2>2 DEF Step, ReturnContext, UnwindContext
  <2> QED
    BY <1>1, <1>7, <1>9, <2>2, <2>4, <2>5
<1>10. CASE OfGenerator(h)
  <2>1. PICK g \in 1..Len(gens) : Word(stack, BaseOf(h) + 2) = Handle(g) /\ gens[g].prev = Addr(mem, q.fp)
    BY <1>5, <1>10 DEF Linked
  <2>2. /\ At(Base(cx)) = <<"info", "gen", n>>
        /\ At(Base(cx) + 1) = <<"pc", q.fn, h.how, n>>
        /\ At(Base(cx) + 2) = <<"gen", g>>
    BY <1>3, <1>5, <1>8, <1>10, <2>1, AtIs DEF Linked, Info, Pc, Handle
  <2>3. IsGenFrame(cx)
    BY <1>3, <1>4, <2>2 DEF IsGenFrame
  <2>4. gens[g].prev[3] = q.fp
    BY <2>1 DEF Addr
  <2>5. ReturnContext(cx) = Context(q.fn, h.how, n - n, q.fp)
    BY <1>8, <2>2, <2>3, <2>4 DEF ReturnContext
  <2>6. h.fn \in Generators /\ k = Len(fr)
    BY <1>1, <1>2, <1>10 DEF Shape
  <2>7. who # "growth"
    BY <1>1, <1>10, <2>6 DEF Top
  <2>8. ASSUME who = "panic" PROVE UnwindContext(cx) = Context(q.fn, h.how, n - n, q.fp)
    <3>1. RetSize[h.fn] = 1
      BY <2>6, <2>8 DEF GeneratorsFit
    <3>2. Base(cx) = cx.fp + 1 /\ Base(cx) + 1 = cx.fp + 2 /\ Base(cx) + 2 = cx.fp + 3
      BY <1>3, <1>4, <3>1 DEF Base
    <3> QED
      BY <2>2, <2>3, <2>4, <3>2 DEF UnwindContext
  <2>9. Step(who, cx) = Context(q.fn, h.how, n - n, q.fp)
    BY <2>5, <2>7, <2>8 DEF Step
  <2> QED
    BY <1>1, <1>6, <1>7, <1>8, <1>10, <2>3, <2>9
<1> QED
  BY <1>9, <1>10

LEMMA TopIsSeen ==
  ASSUME NEW fr, Good(stack, mem, fn, fp, mode, gens, fr)
  PROVE  /\ TopContext = Ctx(fr, Len(fr))
         /\ Base(TopContext) = BaseOf(Top(fr))
         /\ fn = Top(fr).fn
         /\ mode # "chk" => fp = Top(fr).fp
         /\ IsGenFrame(TopContext) <=> OfGenerator(Top(fr))
<1>1. /\ Shape(fr) /\ Top(fr) = fr[Len(fr)] /\ Top(fr) \in Frame /\ Len(fr) \in Nat \ {0}
      /\ fn = Top(fr).fn /\ fp = IF mode = "chk" THEN BaseOf(Top(fr)) ELSE Top(fr).fp
  BY ShapeIs DEF Good, TopIs
<1>2. Top(fr).fp \in Nat /\ RetSize[Top(fr).fn] \in Nat
  BY <1>1, FrameIs, Layout
<1>3. BaseOf(Top(fr)) - RetSize[fn] = Top(fr).fp
  BY <1>1, <1>2 DEF BaseOf
<1>4. TopContext = Context(Top(fr).fn, "body", 0, Top(fr).fp)
  BY <1>1, <1>3 DEF TopContext
<1>5. TopContext = Ctx(fr, Len(fr))
  BY <1>1, <1>4 DEF Ctx
<1>6. Base(TopContext) = BaseOf(Top(fr))
  BY <1>4 DEF Base, BaseOf, Context
<1>7. CASE Len(fr) = 1
  <2>1. fr[1].fp = 0 /\ fr[1].how = "main"
    BY <1>1 DEF Shape
  <2>2. ~IsGenFrame(TopContext) /\ ~OfGenerator(Top(fr))
    BY <1>1, <1>4, <1>7, <2>1 DEF IsGenFrame, OfGenerator, Context
  <2> QED
    BY <1>1, <1>5, <1>6, <2>2
<1>8. CASE Len(fr) # 1
  <2>1. Len(fr) \in 2..Len(fr)
    BY <1>1, <1>8
  <2>2. IsGenFrame(Ctx(fr, Len(fr))) <=> OfGenerator(fr[Len(fr)])
    BY <2>1, StepIs
  <2> QED
    BY <1>1, <1>5, <1>6, <2>2
<1> QED
  BY <1>7, <1>8

LEMMA AppendIs ==
  ASSUME NEW T, NEW w \in Seq(T), NEW b \in T
  PROVE  Append(w, b) = [i \in 1..(Len(w) + 1) |-> IF i = Len(w) + 1 THEN b ELSE w[i]]
<1>1. PICK v, n : v = Append(w, b) /\ n = Len(w)
  OBVIOUS
<1>2. v \in Seq(T) /\ Len(v) = n + 1 /\ n \in Nat
  BY <1>1
<1>3. \A i \in 1..(n + 1) : v[i] = IF i = n + 1 THEN b ELSE w[i]
  BY <1>1, <1>2
<1>4. v \in [1..(n + 1) -> T]
  BY <1>2
<1>5. v = [i \in 1..(n + 1) |-> v[i]]
  BY <1>4
<1> QED
  BY <1>1, <1>3, <1>5

LEMMA ChainIs ==
  ASSUME NEW fr, Good(stack, mem, fn, fp, mode, gens, fr), NEW who \in {"return", "growth", "panic"},
         who = "growth" => ~OfGenerator(Top(fr)), who = "panic" => GeneratorsFit
  PROVE  Chain(who) = Backwards(fr)
<1>1. PICK n, C : n = Len(fr) /\ C = [k \in 1..n |-> Ctx(fr, k)]
  OBVIOUS
<1>2. n \in Nat \ {0} /\ n <= MaxDepth /\ MaxDepth \in Nat
  BY <1>1, FramesAssumption DEF Good, Shape
<1>3. C[n] = TopContext
  BY <1>1, <1>2, TopIsSeen
<1>4. ASSUME NEW k \in 1..n PROVE C[k].fp = 0 <=> k = 1
  <2>1. C[k].fp = fr[k].fp
    BY <1>1 DEF Ctx, Context
  <2>2. CASE k = 1
    BY <2>1, <2>2 DEF Good, Shape
  <2>3. CASE k # 1
    <3>1. k \in 2..n /\ k - 1 \in 1..n
      BY <1>2, <2>3
    <3>2. fr[k].fp = EndOf(fr[k - 1]) /\ fr[k - 1] \in Frame
      BY <1>1, <3>1, ShapeIs DEF Good, Shape
    <3>3. EndOf(fr[k - 1]) > 0
      BY <3>2, FrameIs
    <3> QED
      BY <2>1, <2>3, <3>2, <3>3
  <2> QED
    BY <2>2, <2>3
<1>5. ASSUME NEW k \in 2..n PROVE Step(who, C[k]) = C[k - 1]
  <2>1. k \in 1..n /\ k - 1 \in 1..n
    BY <1>2
  <2> QED
    BY <1>1, <2>1, StepIs
<1>6. \A x : (CHOOSE y \in {Step(who, u) : u \in {x}} : TRUE) = Step(who, x)
  OBVIOUS
<1> DEFINE Shorter(k) == IF k + 1 < n THEN k + 1 ELSE n
           Part(k) == [i \in 1..Shorter(k) |-> C[n + 1 - i]]
           More(w) == IF Last(w).fp = 0 THEN w ELSE Append(w, Step(who, Last(w)))
           g == [k \in Nat |-> Part(k)]
<1>7. Part(0) = <<TopContext>>
  <2>1. Shorter(0) = 1
    BY <1>2
  <2>2. \A i \in 1..1 : C[n + 1 - i] = TopContext
    BY <1>2, <1>3
  <2>3. Part(0) = [i \in 1..1 |-> TopContext]
    BY <2>1, <2>2
  <2> QED
    BY <2>3
<1>8. ASSUME NEW k \in Nat, k # 0 PROVE Part(k) = More(Part(k - 1))
  <2>1. PICK w, z : w = Part(k - 1) /\ z = Shorter(k - 1)
    OBVIOUS
  <2>2. z \in 1..n /\ z = IF k < n THEN k ELSE n
    BY <1>2, <1>8, <2>1
  <2>3. w = [i \in 1..z |-> C[n + 1 - i]] /\ Len(w) = z
    BY <2>1, <2>2
  <2>4. Last(w) = C[n + 1 - z]
    BY <2>2, <2>3 DEF Last
  <2>5. CASE k >= n
    <3>1. z = n /\ Shorter(k) = n /\ n + 1 - z = 1 /\ 1 \in 1..n
      BY <1>2, <1>8, <2>2, <2>5
    <3>2. Last(w).fp = 0
      BY <1>4, <2>4, <3>1
    <3>3. Part(k) = w
      BY <2>3, <3>1
    <3>4. More(w) = w
      BY <3>2
    <3> HIDE DEF Part, Shorter, More
    <3> QED
      BY <2>1, <3>3, <3>4
  <2>6. CASE k < n
    <3>1. z = k /\ Shorter(k) = k + 1 /\ n + 1 - z \in 2..n /\ (n + 1 - z) - 1 = n + 1 - (k + 1)
      BY <1>2, <1>8, <2>2, <2>6
    <3>2. n + 1 - z \in 1..n /\ n + 1 - z # 1
      BY <1>2, <3>1
    <3>3. Last(w).fp # 0
      BY <1>4, <2>4, <3>2
    <3>4. Step(who, Last(w)) = C[n + 1 - (k + 1)]
      BY <1>5, <2>4, <3>1
    <3>5. Append(w, C[n + 1 - (k + 1)]) = [i \in 1..(k + 1) |-> C[n + 1 - i]]
      <4>1. PICK v, b : b = C[n + 1 - (k + 1)] /\ v = [i \in 1..(k + 1) |-> C[n + 1 - i]]
        OBVIOUS
      <4>2. v = [i \in 1..(k + 1) |-> IF i = k + 1 THEN b ELSE w[i]]
        BY <1>8, <2>3, <3>1, <4>1
      <4>3. Append(w, b) = [i \in 1..(Len(w) + 1) |-> IF i = Len(w) + 1 THEN b ELSE w[i]]
        <5>1. PICK T : T = {C[i] : i \in 1..n}
          OBVIOUS
        <5>2. b \in T /\ \A i \in 1..z : C[n + 1 - i] \in T
          <6>1. n + 1 - (k + 1) \in 1..n /\ \A i \in 1..z : n + 1 - i \in 1..n
            BY <1>2, <1>8, <2>2, <3>1
          <6> QED
            BY <4>1, <5>1, <6>1
        <5>3. w \in [1..z -> T] /\ z \in Nat
          BY <2>2, <2>3, <5>2
        <5>4. w \in Seq(T) /\ Len(w) = z
          BY <2>3, <5>3
        <5> HIDE DEF Part, Shorter, More
        <5> QED
          BY <5>2, <5>4, AppendIs
      <4> QED
        BY <2>3, <3>1, <4>1, <4>2, <4>3
    <3>6. Part(k) = Append(w, C[n + 1 - (k + 1)])
      BY <3>1, <3>5
    <3> QED
      BY <2>1, <3>3, <3>4, <3>6
  <2> QED
    BY <1>2, <1>8, <2>5, <2>6
<1> DEFINE Before(x) == CHOOSE y \in {Step(who, u) : u \in {x}} : TRUE
           Longer(v) == IF Last(v).fp = 0 THEN v ELSE Append(v, Before(Last(v)))
           Choice(w) == CHOOSE y \in {Longer(v) : v \in {w}} : TRUE
           walk == CHOOSE f : f = [k \in Nat |-> IF k = 0 THEN <<TopContext>> ELSE Choice(f[k - 1])]
<1>9. Chain(who) = walk[MaxDepth]
  BY DEF Chain, Applied
<1>10. \A w : Choice(w) = More(w)
  <2>1. \A x : Before(x) = Step(who, x)
    BY <1>6
  <2> HIDE DEF Before
  <2>2. \A w : Longer(w) = More(w)
    BY <2>1
  <2> HIDE DEF Longer
  <2>3. \A w : Choice(w) = Longer(w)
    OBVIOUS
  <2> HIDE DEF Choice
  <2> QED
    BY <2>2, <2>3
<1> HIDE DEF Choice, More, Part, Before, Longer
<1>11. g = [k \in Nat |-> IF k = 0 THEN <<TopContext>> ELSE Choice(g[k - 1])]
  <2>1. ASSUME NEW k \in Nat PROVE Part(k) = IF k = 0 THEN <<TopContext>> ELSE Choice(g[k - 1])
    <3>1. k # 0 => k - 1 \in Nat /\ g[k - 1] = Part(k - 1)
      OBVIOUS
    <3> QED
      BY <1>7, <1>8, <1>10, <3>1
  <2> QED
    BY <2>1
<1>12. walk = [k \in Nat |-> IF k = 0 THEN <<TopContext>> ELSE Choice(walk[k - 1])]
  <2> HIDE DEF g
  <2> QED
    BY <1>11
<1>13. \A k \in Nat : walk[k] = Part(k)
  <2> DEFINE A == {k \in Nat : walk[k] = Part(k)}
  <2> HIDE DEF walk, g
  <2>1. ASSUME NEW k \in Nat, k = 0 \/ k - 1 \in A PROVE k \in A
    BY <1>7, <1>8, <1>10, <1>12, <2>1
  <2>2. Nat \in SUBSET Nat /\ \A k \in Nat : k # 0 => k - 1 \in Nat
    OBVIOUS
  <2>3. Nat \subseteq A
    <3> HIDE DEF A
    <3> QED
      BY <2>1, <2>2, Induction
  <2> QED
    BY <2>3
<1>14. Part(MaxDepth) = Backwards(fr)
  <2>1. Shorter(MaxDepth) = n
    BY <1>2
  <2>2. Part(MaxDepth) = [i \in 1..n |-> C[n + 1 - i]]
    BY <2>1 DEF Part
  <2>3. \A i \in 1..n : n + 1 - i \in 1..n
    BY <1>2
  <2> QED
    BY <1>1, <2>2, <2>3 DEF Backwards
<1> HIDE DEF walk
<1> QED
  BY <1>2, <1>9, <1>13, <1>14

-----------------------------------------------------------------------------
(* The growth of the stack: the registers that are patched are the return  *)
(* fps and the pointers, and no others.                                    *)
LEMMA GrownIs ==
  Size \in Nat => Grown \in Nat /\ Size <= Grown
<1> SUFFICES ASSUME Size \in Nat PROVE Grown \in Nat /\ Size <= Grown
  OBVIOUS
<1>1. PICK a, b : a = Size \div 2 /\ b = MinGrow
  OBVIOUS
<1>2. a \in Nat /\ b \in Nat
  BY <1>1, FramesAssumption
<1>3. \E x \in {a, b} : \A y \in {a, b} : x >= y
  <2>1. a >= b \/ b >= a
    BY <1>2
  <2>2. a >= a /\ b >= b
    BY <1>2
  <2> QED
    BY <2>1, <2>2
<1>4. Max({a, b}) \in {a, b}
  BY <1>3 DEF Max
<1> QED
  BY <1>1, <1>2, <1>4 DEF Grown

LEMMA BackwardsIs ==
  ASSUME NEW fr, Shape(fr)
  PROVE  /\ Len(Backwards(fr)) = Len(fr) /\ DOMAIN Backwards(fr) = 1..Len(fr)
         /\ \A k \in 1..Len(fr) : Backwards(fr)[Len(fr) + 1 - k] = Ctx(fr, k)
         /\ \A i \in 1..Len(fr) : Len(fr) + 1 - i \in 1..Len(fr) /\ Backwards(fr)[i] = Ctx(fr, Len(fr) + 1 - i)
         /\ Lost \notin Range(Backwards(fr))
<1>1. PICK n, b : n = Len(fr) /\ b = Backwards(fr)
  OBVIOUS
<1>2. n \in Nat \ {0}
  BY <1>1, ShapeIs
<1>3. b = [i \in 1..n |-> Ctx(fr, n + 1 - i)]
  BY <1>1 DEF Backwards
<1>4. Len(b) = n /\ DOMAIN b = 1..n
  BY <1>2, <1>3
<1>5. \A i \in 1..n : n + 1 - i \in 1..n /\ b[i] = Ctx(fr, n + 1 - i)
  BY <1>2, <1>3
<1>6. ASSUME NEW k \in 1..n PROVE b[n + 1 - k] = Ctx(fr, k)
  <2>1. n + 1 - k \in 1..n /\ n + 1 - (n + 1 - k) = k
    BY <1>2
  <2> QED
    BY <1>5, <2>1
<1>7. ASSUME NEW k \in 1..n PROVE Ctx(fr, k) # Lost
  <2>1. k # n => k + 1 \in 1..n
    BY <1>2
  <2>2. k # n => fr[k + 1].how \in Entries
    BY <1>1, <2>1, ShapeIs, FrameIs
  <2>3. Ctx(fr, k).how # "lost"
    BY <1>1, <2>2 DEF Ctx, Context, Entries, Hows
  <2>4. Lost.how = "lost"
    BY DEF Lost, Context
  <2> QED
    BY <2>3, <2>4
<1>8. Lost \notin Range(b)
  BY <1>4, <1>5, <1>7 DEF Range
<1> QED
  BY <1>1, <1>4, <1>5, <1>6, <1>8

LEMMA PatchedIs ==
  ASSUME NEW fr, Good(stack, mem, fn, fp, mode, gens, fr), mode = "overflow"
  PROVE  /\ Patched \in Seq(Words) /\ Len(Patched) = Grown
         /\ \A r \in Nat : \/ Word(Patched, r) = At(r)
                           \/ At(r)[1] = "ptr" /\ Word(Patched, r) = Addr(mem + 1, At(r)[3])
         /\ \A r \in Nat : At(r)[1] # "ptr" => Word(Patched, r) = At(r)
         /\ \A d \in 2..Len(fr) : LET r == BaseOf(fr[d]) + 2 IN
              At(r)[1] = "ptr" => Word(Patched, r) = Addr(mem + 1, At(r)[3])
         /\ \A d \in 2..Len(fr) : \A l \in PtrLocals[fr[d].fn] : LET r == RegOf(fr[d], l) IN
              /\ IF d < Len(fr) THEN fr[d + 1].how = "call" ELSE d > 2 /\ fr[d].how = "call"
              /\ At(r)[1] = "ptr" /\ At(r)[2] = mem
              => Word(Patched, r) = Addr(mem + 1, At(r)[3])
<1>1. PICK n : n = Len(fr)
  OBVIOUS
<1>2. /\ Shape(fr) /\ n \in Nat /\ n > 1 /\ ~OfGenerator(Top(fr)) /\ fr \in Seq(Frame)
      /\ stack \in Seq(Words) /\ Size \in Nat /\ mem \in Nat /\ Size = Len(stack)
  BY <1>1, ShapeIs DEF Good, Quiets, Starting, Size
<1>3. Chain("growth") = Backwards(fr)
  BY <1>2, ChainIs
<1>4. PICK walked : walked = Callers(Chain("growth"))
  OBVIOUS
<1>5. Len(walked) = n - 1 /\ \A i \in 1..(n - 1) : walked[i] = Ctx(fr, n + 1 - i)
  <2>1. PICK b : b = Backwards(fr)
    OBVIOUS
  <2>2. Len(b) = n /\ b[n] = Ctx(fr, 1) /\ \A i \in 1..(n - 1) : b[i] = Ctx(fr, n + 1 - i)
    <3>1. 1 \in 1..n /\ n + 1 - 1 = n /\ \A i \in 1..(n - 1) : i \in 1..n
      BY <1>2
    <3>2. b[n + 1 - 1] = Ctx(fr, 1)
      BY <1>1, <1>2, <2>1, <3>1, BackwardsIs
    <3> QED
      BY <1>1, <1>2, <2>1, <3>1, <3>2, BackwardsIs
  <2>3. Ctx(fr, 1).fp = 0
    BY <1>2 DEF Ctx, Context, Shape
  <2>4. walked = Front(b)
    BY <1>3, <1>4, <2>1, <2>2, <2>3 DEF Callers, Last
  <2>5. walked = SubSeq(b, 1, n - 1)
    BY <2>2, <2>4 DEF Front
  <2>6. b = [i \in 1..n |-> Ctx(fr, n + 1 - i)]
    BY <1>1, <2>1 DEF Backwards
  <2>7. PICK T : T = {Ctx(fr, n + 1 - i) : i \in 1..n}
    OBVIOUS
  <2>8. b \in [1..n -> T]
    BY <2>6, <2>7
  <2>9. b \in Seq(T)
    BY <1>2, <2>8
  <2> QED
    BY <1>2, <2>2, <2>5, <2>9
<1>6. PICK rets, ptrs : /\ rets = {Base(walked[i]) + 2 : i \in 1..(n - 1)}
                        /\ ptrs = UNION {PtrRegs(walked[i], walked[i - 1].fn) : i \in 2..(n - 1)}
  OBVIOUS
<1> DEFINE New(r) == IF At(r)[1] = "ptr" /\ (r \in rets \/ (r \in ptrs /\ At(r)[2] = mem))
                     THEN Addr(mem + 1, At(r)[3]) ELSE At(r)
<1>7. Patched = [i \in 1..Grown |-> IF i <= Size THEN New(i - 1) ELSE Undef]
  BY <1>4, <1>5, <1>6 DEF Patched
<1>8. Grown \in Nat /\ Size <= Grown
  BY <1>2, GrownIs
<1>9. ASSUME NEW r \in Nat PROVE At(r) \in Words /\ (At(r)[1] = "ptr" => At(r)[3] \in Nat) /\ New(r) \in Words
  <2>1. At(r) \in Words
    BY <1>2, AtIs, WordIs
  <2>2. ASSUME At(r)[1] = "ptr" PROVE At(r)[3] \in Nat
    <3>1. At(r) # Undef /\ At(r) \notin DataWords
      BY <2>2 DEF Undef, DataWords, Datum
    <3>2. At(r) \in ({"ptr"} \X Nat \X Nat) \cup ({"pc"} \X Fns \X Entries \X Nat)
                    \cup ({"info"} \X {"vm", "host", "gen"} \X Nat) \cup ({"gen"} \X Nat)
      BY <2>1, <3>1 DEF Words
    <3>3. At(r) \in {"ptr"} \X Nat \X Nat
      BY <2>2, <3>2
    <3> QED
      BY <3>3
  <2>3. At(r)[1] = "ptr" => Addr(mem + 1, At(r)[3]) \in Words
    BY <1>2, <2>2, WordsAre
  <2> QED
    BY <2>1, <2>2, <2>3
<1>10. Patched \in Seq(Words) /\ Len(Patched) = Grown
  <2>1. ASSUME NEW i \in 1..Grown PROVE (IF i <= Size THEN New(i - 1) ELSE Undef) \in Words
    <3>1. i - 1 \in Nat
      BY <1>8
    <3> HIDE DEF New
    <3> QED
      BY <1>9, <3>1, WordsAre
  <2> HIDE DEF New
  <2>2. Patched \in [1..Grown -> Words]
    BY <1>7, <2>1
  <2> QED
    BY <1>7, <1>8, <2>2
<1>11. ASSUME NEW r \in Nat PROVE Word(Patched, r) = New(r)
  <2>1. CASE r < Size
    <3>1. r + 1 \in 1..Grown /\ r + 1 <= Size /\ (r + 1) - 1 = r /\ r < Len(Patched)
      BY <1>2, <1>8, <1>10, <2>1
    <3> HIDE DEF New
    <3>2. Patched[r + 1] = New(r)
      BY <1>7, <3>1
    <3> QED
      BY <3>1, <3>2 DEF Word
  <2>2. CASE ~(r < Size)
    <3>1. At(r) = Undef
      BY <2>2 DEF At
    <3>2. New(r) = Undef
      BY <3>1 DEF Undef
    <3>3. CASE r < Grown
      <4>1. r + 1 \in 1..Grown /\ ~(r + 1 <= Size)
        BY <1>2, <1>8, <2>2, <3>3
      <4> HIDE DEF New
      <4> QED
        BY <1>7, <1>10, <3>2, <3>3, <4>1 DEF Word
    <3>4. CASE ~(r < Grown)
      BY <1>10, <3>2, <3>4 DEF Word
    <3> QED
      BY <3>3, <3>4
  <2> QED
    BY <2>1, <2>2
<1>12. ASSUME NEW d \in 2..n, At(BaseOf(fr[d]) + 2)[1] = "ptr"
       PROVE  Word(Patched, BaseOf(fr[d]) + 2) = Addr(mem + 1, At(BaseOf(fr[d]) + 2)[3])
  <2>1. n + 1 - d \in 1..(n - 1) /\ n + 1 - (n + 1 - d) = d /\ d \in 1..n
    BY <1>2
  <2>2. walked[n + 1 - d] = Ctx(fr, d)
    BY <1>5, <2>1
  <2>3. Base(Ctx(fr, d)) = BaseOf(fr[d])
    BY DEF Base, Ctx, Context, BaseOf
  <2>4. BaseOf(fr[d]) + 2 \in rets
    BY <1>6, <2>1, <2>2, <2>3
  <2>5. BaseOf(fr[d]) + 2 \in Nat
    BY <1>1, <1>2, <2>1, ShapeIs, FrameIs
  <2> QED
    BY <1>11, <1>12, <2>4, <2>5
<1>13. ASSUME NEW d \in 2..n, NEW l \in PtrLocals[fr[d].fn],
              IF d < n THEN fr[d + 1].how = "call" ELSE d > 2 /\ fr[d].how = "call",
              At(RegOf(fr[d], l))[1] = "ptr", At(RegOf(fr[d], l))[2] = mem
       PROVE  Word(Patched, RegOf(fr[d], l)) = Addr(mem + 1, At(RegOf(fr[d], l))[3])
  <2>1. d \in 1..n /\ d \in Nat
    BY <1>2
  <2>2. RegOf(fr[d], l) \in ptrs
    <3>1. CASE d < n
      <4>1. n + 1 - d \in 2..(n - 1) /\ n + 1 - d \in 1..(n - 1) /\ n + 1 - (n + 1 - d) = d
        BY <1>2, <2>1, <3>1
      <4>2. walked[n + 1 - d] = Ctx(fr, d) /\ Ctx(fr, d).how = "call" /\ Ctx(fr, d).off = 0
            /\ Ctx(fr, d).fn = fr[d].fn /\ Ctx(fr, d).fp = fr[d].fp
        BY <1>1, <1>5, <1>13, <3>1, <4>1, SMTT(20) DEF Ctx, Context
      <4>3. RegOf(fr[d], l) \in PtrRegs(walked[n + 1 - d], walked[(n + 1 - d) - 1].fn)
        BY <4>2 DEF PtrRegs, RegOf
      <4> QED
        BY <1>6, <4>1, <4>3
    <3>2. CASE ~(d < n)
      <4>1. d = n /\ n > 2 /\ fr[n].how = "call"
        BY <1>2, <1>13, <2>1, <3>2
      <4>2. 2 \in 2..(n - 1) /\ 2 \in 1..(n - 1) /\ 1 \in 1..(n - 1) /\ n + 1 - 2 = n - 1 /\ n + 1 - 1 = n /\ 2 - 1 = 1
        BY <1>2, <4>1
      <4>3. walked[2] = Ctx(fr, n - 1) /\ walked[1] = Ctx(fr, n)
        BY <1>5, <4>2
      <4>4. /\ Ctx(fr, n - 1).how = "call" /\ Ctx(fr, n - 1).off = 0 /\ Ctx(fr, n).fn = fr[n].fn
            /\ Ctx(fr, n - 1).fn = fr[n - 1].fn /\ Ctx(fr, n - 1).fp = fr[n - 1].fp
        <5>1. n - 1 # n /\ (n - 1) + 1 = n
          BY <1>2
        <5> QED
          BY <1>1, <4>1, <5>1 DEF Ctx, Context
      <4>5. fr[n].fp = fr[n - 1].fp + FrameTop[fr[n - 1].fn]
        BY <1>1, <1>2, <4>1 DEF Shape, EndOf
      <4>6. RegOf(fr[n], l) \in PtrRegs(walked[2], walked[1].fn)
        BY <4>1, <4>3, <4>4, <4>5 DEF PtrRegs, RegOf
      <4> QED
        BY <1>6, <4>1, <4>2, <4>6
    <3> QED
      BY <3>1, <3>2
  <2>3. RegOf(fr[d], l) \in Nat
    <3>1. fr[d] \in Frame
      BY <1>1, <1>2, <2>1, ShapeIs
    <3>2. l \in Locals(fr[d])
      BY <3>1, FrameIs, Layout DEF Locals
    <3> QED
      BY <3>1, <3>2, RegIs
  <2> QED
    BY <1>11, <1>13, <2>2, <2>3
<1>14. \A r \in Nat : At(r)[1] # "ptr" => Word(Patched, r) = At(r)
  BY <1>11
<1>15. \A r \in Nat : \/ Word(Patched, r) = At(r)
                      \/ At(r)[1] = "ptr" /\ Word(Patched, r) = Addr(mem + 1, At(r)[3])
  BY <1>11
<1> HIDE DEF New
<1> QED
  BY <1>1, <1>10, <1>12, <1>13, <1>14, <1>15

LEMMA Regrown ==
  ASSUME NEW s, NEW m, NEW f, NEW p, NEW G, NEW fr, Good(s, m, f, p, "overflow", G, fr),
         NEW t \in Seq(Words), Len(t) \in Nat, Len(t) <= MaxStack, Len(s) <= Len(t), NEW k \in Nat,
         \A d \in 1..Len(fr) : FrameOk(t, k, G, fr, d) /\ (Quiet(s, fr[d]) => Quiet(t, fr[d])),
         \A i \in 1..Len(t) : i > EndOf(Top(fr)) => t[i] = Undef
  PROVE  Good(t, k, f, p + RetSize[f], "chk", G, fr)
<1>1. /\ Shape(fr) /\ Len(fr) \in Nat \ {0} /\ Len(fr) \in 1..Len(fr) /\ Top(fr) = fr[Len(fr)]
      /\ Top(fr) \in Frame /\ s \in Seq(Words) /\ Len(s) \in StackSize..MaxStack
      /\ \A d \in 1..Len(fr) : fr[d] \in Frame
  BY ShapeIs DEF Good
<1>2. Len(t) \in StackSize..MaxStack /\ Len(s) \in Nat
  BY <1>1, FramesAssumption
<1>3. Quiets(t, "chk", fr)
  <2>1. Quiets(s, "overflow", fr)
    BY DEF Good
  <2>2. 1 \in 1..Len(fr) /\ \A d \in 2..Len(fr) : d - 1 \in 1..Len(fr)
    BY <1>1
  <2> QED
    BY <1>1, <2>1, <2>2 DEF Quiets, Starting
<1>4. Fits(t, "chk", fr)
  <2>1. Fits(s, "overflow", fr)
    BY DEF Good
  <2>2. ASSUME NEW d \in 1..(Len(fr) - 1) PROVE Roomy(t, fr[d])
    <3>1. fr[d] \in Frame
      BY <1>1
    <3>2. Roomy(s, fr[d])
      BY <2>1 DEF Fits
    <3>3. fr[d].fp + FrameSize[fr[d].fn] \in Nat
      BY <3>1, FrameIs, Layout
    <3> QED
      BY <1>2, <3>2, <3>3 DEF Roomy, Spare
  <2>3. BaseOf(Top(fr)) + 4 + NumParams[Top(fr).fn] <= Len(t)
    <3>1. BaseOf(Top(fr)) + 4 + NumParams[Top(fr).fn] <= Len(s)
      BY <2>1 DEF Fits
    <3>2. BaseOf(Top(fr)) \in Nat /\ NumParams[Top(fr).fn] \in Nat
      BY <1>1, FrameIs, Layout
    <3> QED
      BY <1>2, <3>1, <3>2
  <2> QED
    BY <2>2, <2>3 DEF Fits
<1>5. TopIs(f, p + RetSize[f], "chk", fr)
  BY DEF Good, TopIs, BaseOf
<1>6. Clear(t, "chk", fr)
  BY DEF Clear
<1> QED
  BY <1>1, <1>2, <1>3, <1>4, <1>5, <1>6 DEF Good, Modes

LEMMA GrowMoveKeeps ==
  ASSUME NEW fr, Good(stack, mem, fn, fp, mode, gens, fr), GrowMove
  PROVE  Good(stack', mem', fn', fp', mode', gens', fr) /\ stack' = Patched /\ mem' = mem + 1 /\ mode' = "chk"
<1>1. PICK n : n = Len(fr)
  OBVIOUS
<1>2. /\ Shape(fr) /\ n \in Nat /\ n > 1 /\ ~OfGenerator(Top(fr)) /\ mode = "overflow"
      /\ stack \in Seq(Words) /\ Size \in Nat /\ mem \in Nat /\ Size = Len(stack) /\ Top(fr) = fr[n]
      /\ \A d \in 1..n : fr[d] \in Frame
  BY <1>1, ShapeIs DEF Good, Quiets, Starting, Size, GrowMove
<1>3. Lost \notin Range(Chain("growth"))
  BY <1>2, ChainIs, BackwardsIs
<1>4. /\ Grown <= MaxStack /\ stack' = Patched /\ mem' = mem + 1 /\ fp' = fp + RetSize[fn] /\ mode' = "chk"
      /\ fn' = fn /\ gens' = gens
  BY <1>3 DEF GrowMove
<1>5. PICK t : t = Patched
  OBVIOUS
<1>6. /\ t \in Seq(Words) /\ Len(t) = Grown /\ Grown \in Nat /\ Size <= Grown
      /\ \A r \in Nat : At(r)[1] # "ptr" => Word(t, r) = At(r)
      /\ \A d \in 2..n : LET r == BaseOf(fr[d]) + 2 IN
           At(r)[1] = "ptr" => Word(t, r) = Addr(mem + 1, At(r)[3])
      /\ \A d \in 2..n : \A l \in PtrLocals[fr[d].fn] : LET r == RegOf(fr[d], l) IN
           /\ IF d < n THEN fr[d + 1].how = "call" ELSE d > 2 /\ fr[d].how = "call"
           /\ At(r)[1] = "ptr" /\ At(r)[2] = mem
           => Word(t, r) = Addr(mem + 1, At(r)[3])
  BY <1>1, <1>2, <1>5, PatchedIs, GrownIs
<1>7. \A r \in Nat : At(r) = Undef => Word(t, r) = Undef
  BY <1>6 DEF Undef
<1>8. ASSUME NEW d \in 1..n, Quiet(stack, fr[d]) PROVE Quiet(t, fr[d])
  <2> SUFFICES ASSUME NEW l \in PtrLocals[fr[d].fn] PROVE Word(t, RegOf(fr[d], l)) = Undef
    BY DEF Quiet
  <2>1. RegOf(fr[d], l) \in Nat
    BY <1>2, FrameIs, Layout, RegIs DEF Locals
  <2>2. At(RegOf(fr[d], l)) = Undef
    BY <1>8, AtIs DEF Quiet
  <2> QED
    BY <1>7, <2>1, <2>2
<1>9. ASSUME NEW d \in 1..n PROVE ~OfGenerator(fr[d])
  <2>1. fr[1].how = "main" /\ \A c \in 2..n : OfGenerator(fr[c]) => c = n
    BY <1>1, <1>2 DEF Shape
  <2>2. d = 1 \/ d \in 2..n
    BY <1>2
  <2> QED
    BY <1>2, <2>1, <2>2 DEF OfGenerator
<1>10. ASSUME NEW d \in 1..n, d > 1 PROVE Linked(t, mem + 1, gens, fr[d], fr[d - 1])
  <2>1. Linked(stack, mem, gens, fr[d], fr[d - 1]) /\ d \in 2..n /\ ~OfGenerator(fr[d])
    BY <1>1, <1>2, <1>9, <1>10 DEF Good, FrameOk
  <2>2. BaseOf(fr[d]) \in Nat
    BY <1>2, FrameIs
  <2>3. PICK b, i : b = BaseOf(fr[d]) /\ i = InstLen[fr[d].how]
    OBVIOUS
  <2>4. /\ At(b) = <<"info", "vm", i>>
        /\ At(b + 1) = <<"pc", fr[d - 1].fn, fr[d].how, i>>
        /\ At(b + 2) = <<"ptr", mem, fr[d - 1].fp>>
    BY <2>1, <2>3, AtIs DEF Linked, Info, Pc, Addr
  <2>5. b \in Nat /\ b + 1 \in Nat /\ b + 2 \in Nat
    BY <2>2, <2>3
  <2>6. Word(t, b) = At(b)
    BY <1>6, <2>4, <2>5
  <2>7. Word(t, b + 1) = At(b + 1)
    BY <1>6, <2>4, <2>5
  <2>8. Word(t, b + 2) = Addr(mem + 1, fr[d - 1].fp)
    BY <1>6, <2>1, <2>3, <2>4
  <2> QED
    BY <2>1, <2>3, <2>4, <2>6, <2>7, <2>8 DEF Linked, Info, Pc
<1>11. ASSUME NEW d \in 1..n, NEW l \in Locals(fr[d]) PROVE LocalOk(t, mem + 1, fr, d, l)
  <2>1. LocalOk(stack, mem, fr, d, l)
    BY <1>1 DEF Good, FrameOk
  <2>2. PICK r : r = RegOf(fr[d], l)
    OBVIOUS
  <2>3. r \in Nat /\ Word(stack, r) = At(r)
    BY <1>2, <2>2, RegIs, AtIs
  <2>4. CASE l \notin PtrLocals[fr[d].fn]
    <3>1. At(r) \in LocalWords
      BY <2>1, <2>2, <2>3, <2>4 DEF LocalOk
    <3>2. At(r)[1] # "ptr"
      BY <3>1, WordsAre DEF Undef
    <3>3. Word(t, r) = At(r)
      BY <1>6, <2>3, <3>2
    <3> QED
      BY <2>2, <2>4, <3>1, <3>3 DEF LocalOk
  <2>5. CASE l \in PtrLocals[fr[d].fn] /\ At(r) = Undef
    BY <1>7, <2>2, <2>3, <2>5 DEF LocalOk
  <2>6. CASE l \in PtrLocals[fr[d].fn] /\ At(r) # Undef
    <3>1. Target(mem, fr, d, At(r))
      BY <2>1, <2>2, <2>3, <2>6 DEF LocalOk
    <3>2. PICK c \in 1..d : \E j \in Locals(fr[c]) \ PtrLocals[fr[c].fn] : At(r) = Addr(mem, RegOf(fr[c], j))
      BY <3>1 DEF Target
    <3>3. PICK j \in Locals(fr[c]) \ PtrLocals[fr[c].fn] : At(r) = Addr(mem, RegOf(fr[c], j))
      BY <3>2
    <3>4. At(r)[1] = "ptr" /\ At(r)[2] = mem /\ At(r)[3] = RegOf(fr[c], j)
      BY <3>3 DEF Addr
    <3>5. ~Quiet(stack, fr[d])
      BY <2>2, <2>3, <2>6 DEF Quiet
    <3>6. Quiets(stack, "overflow", fr)
      BY <1>2 DEF Good
    <3>7. d # 1 /\ d \in 2..n
      BY <1>2, <3>5, <3>6 DEF Quiets
    <3>8. IF d < n THEN fr[d + 1].how = "call" ELSE d > 2 /\ fr[d].how = "call"
      <4>1. CASE d < n
        <5>1. d + 1 \in 2..n /\ d + 1 \in 1..n /\ (d + 1) - 1 = d
          BY <1>2, <4>1
        <5>2. fr[d + 1].how \notin Hows \ {"call"}
          BY <1>1, <3>5, <3>6, <5>1 DEF Quiets
        <5>3. fr[d + 1].how \in Entries /\ fr[d + 1].how # "main" /\ ~OfGenerator(fr[d + 1])
          BY <1>1, <1>2, <1>9, <5>1, FrameIs DEF Shape
        <5> QED
          BY <4>1, <5>2, <5>3 DEF Entries, OfGenerator
      <4>2. CASE ~(d < n)
        <5>1. d = n
          BY <1>2, <4>2
        <5>2. n # 2 /\ Top(fr).how = "call"
          BY <1>1, <1>2, <3>5, <3>6, <5>1 DEF Quiets, Starting
        <5> QED
          BY <1>2, <4>2, <5>1, <5>2
      <4> QED
        BY <4>1, <4>2
    <3>9. Word(t, r) = Addr(mem + 1, RegOf(fr[c], j))
      BY <1>6, <2>2, <2>6, <3>4, <3>7, <3>8
    <3>10. Target(mem + 1, fr, d, Word(t, r))
      BY <3>9 DEF Target
    <3> QED
      BY <2>2, <2>6, <3>10 DEF LocalOk
  <2> QED
    BY <2>4, <2>5, <2>6
<1>12. ASSUME NEW i \in 1..Len(t), i > EndOf(Top(fr)) PROVE t[i] = Undef
  <2>1. i - 1 \in Nat /\ i - 1 < Len(t) /\ (i - 1) + 1 = i
    BY <1>6
  <2>2. At(i - 1) = Undef
    <3>1. i <= Size => i \in 1..Len(stack)
      BY <1>2, <1>6
    <3>2. i <= Size => stack[i] = Undef
      BY <1>2, <1>12, <3>1 DEF Good, Clear
    <3>3. i - 1 < Size => i <= Size
      BY <1>2, <1>6
    <3> QED
      BY <2>1, <3>2, <3>3 DEF At
  <2> QED
    BY <1>7, <2>1, <2>2 DEF Word
<1>13. \A d \in 1..Len(fr) : FrameOk(t, mem + 1, gens, fr, d) /\ (Quiet(stack, fr[d]) => Quiet(t, fr[d]))
  BY <1>1, <1>8, <1>10, <1>11 DEF FrameOk
<1>14. Good(t, mem + 1, fn, fp + RetSize[fn], "chk", gens, fr)
  <2>1. Good(stack, mem, fn, fp, "overflow", gens, fr)
    BY <1>2
  <2>2. Len(t) \in Nat /\ Len(t) <= MaxStack /\ Len(stack) <= Len(t) /\ mem + 1 \in Nat
    BY <1>2, <1>4, <1>6
  <2> QED
    BY <1>6, <1>12, <1>13, <2>1, <2>2, Regrown
<1> QED
  BY <1>4, <1>5, <1>14

LEMMA GrowInPlaceKeeps ==
  ASSUME NEW fr, Good(stack, mem, fn, fp, mode, gens, fr), GrowInPlace
  PROVE  /\ Good(stack', mem', fn', fp', mode', gens', fr)
         /\ \A x \in Nat : Word(stack', x) = Word(stack, x)
<1>1. /\ Shape(fr) /\ stack \in Seq(Words) /\ Size \in Nat /\ mem \in Nat /\ Size = Len(stack)
      /\ mode = "overflow" /\ \A d \in 1..Len(fr) : fr[d] \in Frame
  BY ShapeIs DEF Good, Size, GrowInPlace
<1>2. Len(fr) \in Nat \ {0} /\ Len(fr) \in 1..Len(fr) /\ Top(fr) = fr[Len(fr)] /\ EndOf(Top(fr)) \in Nat
  BY <1>1, ShapeIs, FrameIs
<1>3. Grown \in Nat /\ Size <= Grown
  BY <1>1, GrownIs
<1>4. PICK new, t : new = [i \in 1..(Grown - Size) |-> Undef] /\ t = stack \o new
  OBVIOUS
<1>5. new \in Seq(Words) /\ Len(new) = Grown - Size /\ \A i \in 1..(Grown - Size) : new[i] = Undef
  <2>1. Grown - Size \in Nat
    BY <1>1, <1>3
  <2> QED
    BY <1>4, <2>1, WordsAre
<1>6. /\ t \in Seq(Words) /\ Len(t) = Grown
      /\ \A i \in 1..Grown : t[i] = IF i <= Size THEN stack[i] ELSE Undef
  <2> DEFINE W == Words
  <2> HIDE DEF W
  <2>a. PICK s, a, b : s = stack /\ a = Size /\ b = Grown
    OBVIOUS
  <2>b. s \in Seq(W) /\ new \in Seq(W) /\ Len(s) = a /\ Len(new) = b - a /\ a \in Nat /\ b \in Nat /\ a <= b
    BY <1>1, <1>3, <1>5, <2>a DEF W
  <2>c. s \o new \in Seq(W)
    BY <2>b
  <2>d. Len(s \o new) = Len(s) + Len(new)
    BY <2>b
  <2>1. t \in Seq(Words) /\ Len(t) = Grown
    BY <1>4, <2>a, <2>b, <2>c, <2>d DEF W
  <2>2. ASSUME NEW i \in 1..Grown PROVE t[i] = IF i <= Size THEN stack[i] ELSE Undef
    <3>1. t[i] = IF i <= Size THEN stack[i] ELSE new[i - Size]
      BY <1>1, <1>3, <1>4, <1>5
    <3>2. ~(i <= Size) => i - Size \in 1..(Grown - Size)
      BY <1>1, <1>3
    <3> QED
      BY <1>5, <3>1, <3>2
  <2> QED
    BY <1>1, <1>3, <2>1, <2>2
<1>7. ASSUME NEW x \in Nat PROVE Word(t, x) = Word(stack, x)
  <2>1. x < Grown => x + 1 \in 1..Grown
    BY <1>3
  <2>2. x < Size <=> x + 1 <= Size
    BY <1>1
  <2> QED
    BY <1>1, <1>3, <1>6, <2>1, <2>2 DEF Word
<1>8. ASSUME NEW d \in 1..Len(fr)
      PROVE  FrameOk(t, mem, gens, fr, d) /\ (Quiet(stack, fr[d]) => Quiet(t, fr[d]))
  <2>1. FrameOk(stack, mem, gens, fr, d)
    BY DEF Good
  <2> QED
    BY <1>1, <1>2, <1>7, <2>1, FrameKept
<1>9. ASSUME NEW i \in 1..Len(t), i > EndOf(Top(fr)) PROVE t[i] = Undef
  <2>1. i <= Size => i \in 1..Len(stack)
    BY <1>1, <1>6
  <2>2. i <= Size => stack[i] = Undef
    BY <1>1, <1>9, <2>1 DEF Good, Clear
  <2> QED
    BY <1>6, <2>2
<1>10. Good(t, mem, fn, fp + RetSize[fn], "chk", gens, fr)
  <2>1. Good(stack, mem, fn, fp, "overflow", gens, fr)
    BY <1>1
  <2>2. Len(t) \in Nat /\ Len(t) <= MaxStack /\ Len(stack) <= Len(t)
    BY <1>1, <1>3, <1>6 DEF GrowInPlace
  <2> QED
    BY <1>1, <1>6, <1>8, <1>9, <2>1, <2>2, Regrown
<1> QED
  BY <1>4, <1>7, <1>10 DEF GrowInPlace

LEMMA GrowFailsKeeps ==
  ASSUME NEW fr, Good(stack, mem, fn, fp, mode, gens, fr), GrowFails
  PROVE  Good(stack', mem', fn', fp', mode', gens', fr)
<1>1. Good(stack, mem, fn, fp, "overflow", gens, fr)
  BY DEF GrowFails
<1>2. Good(stack, mem, fn, fp, "oom", gens, fr)
  BY <1>1 DEF Good, Modes, TopIs, Quiets, Starting, Fits, Clear
<1> QED
  BY <1>2 DEF GrowFails

(* The check of the stack at the start of a function.                      *)
LEMMA ChkStkKeeps ==
  ASSUME NEW fr, Good(stack, mem, fn, fp, mode, gens, fr), ChkStk
  PROVE  Good(stack', mem', fn', fp', mode', gens', fr)
<1>1. /\ Good(stack, mem, fn, fp, "chk", gens, fr) /\ Shape(fr) /\ Top(fr) \in Frame
      /\ Len(fr) > 1 /\ ~OfGenerator(Top(fr)) /\ fn = Top(fr).fn /\ fp = BaseOf(Top(fr))
      /\ Size = Len(stack) /\ Size \in Nat
  BY ShapeIs DEF Good, ChkStk, Quiets, Starting, TopIs, Size
<1>2. PICK q : q = Top(fr).fp
  OBVIOUS
<1>3. fn \in Fns /\ q \in Nat /\ RetSize[fn] \in Nat /\ FrameSize[fn] \in Nat /\ fp = q + RetSize[fn] /\ fn # Main
  <2>1. Top(fr).fn # Main
    BY <1>1, ShapeIs
  <2> QED
    BY <1>1, <1>2, <2>1, FrameIs, Layout DEF BaseOf
<1>4. fp - RetSize[fn] = q
  BY <1>3
<1>5. Good(stack, mem, fn, q, "overflow", gens, fr)
  BY <1>1, <1>2 DEF Good, Modes, TopIs, Quiets, Starting, Fits, Clear
<1>6. ASSUME ~(q + FrameSize[fn] >= Size) PROVE Good(stack, mem, fn, q, "run", gens, fr)
  <2>1. q + FrameSize[fn] + 1 <= Size
    BY <1>1, <1>3, <1>6
  <2>2. Roomy(stack, Top(fr))
    BY <1>1, <1>2, <1>3, <2>1 DEF Roomy, Spare
  <2> QED
    BY <1>1, <1>2, <2>2 DEF Good, Modes, TopIs, Quiets, Starting, Fits, Clear
<1> QED
  BY <1>4, <1>5, <1>6 DEF ChkStk

-----------------------------------------------------------------------------
LEMMA OneOrMore == \A n \in Nat \ {0} : n = 1 \/ (n > 1 /\ n \in 2..n)
OBVIOUS

(* The instructions of a body, seen from its frame.                        *)
LEMMA BodyIs ==
  ASSUME NEW fr, Good(stack, mem, fn, fp, mode, gens, fr), mode \in Settled
  PROVE  /\ Shape(fr) /\ Top(fr) \in Frame /\ Top(fr) = fr[Len(fr)] /\ Len(fr) \in Nat \ {0} /\ Len(fr) \in 1..Len(fr)
         /\ fn = Top(fr).fn /\ fp = Top(fr).fp /\ fp + FrameTop[fn] = EndOf(Top(fr))
         /\ \A l : Reg(l) = RegOf(Top(fr), l)
         /\ DataLocals = Locals(Top(fr)) \ PtrLocals[fn] /\ PtrLocals[fn] \subseteq Locals(Top(fr))
         /\ InGenerator <=> OfGenerator(Top(fr))
         /\ stack \in Seq(Words) /\ Size = Len(stack) /\ Size \in Nat /\ mem \in Nat
         /\ Roomy(stack, Top(fr))
<1>1. /\ Shape(fr) /\ Top(fr) \in Frame /\ Top(fr) = fr[Len(fr)] /\ Len(fr) \in Nat \ {0} /\ Len(fr) \in 1..Len(fr)
      /\ mode \notin {"chk", "overflow", "oom"}
  BY ShapeIs DEF Good, Settled
<1>2. fn = Top(fr).fn /\ fp = Top(fr).fp
  BY <1>1, TopIsSeen
<1>3. InGenerator <=> OfGenerator(Top(fr))
  <2>1. IsGenFrame(TopContext) <=> OfGenerator(Top(fr))
    BY TopIsSeen
  <2>2. OfGenerator(Top(fr)) => Top(fr).fn \in Generators
    <3>1. Len(fr) = 1 \/ Len(fr) \in 2..Len(fr)
      BY <1>1, OneOrMore
    <3>2. Len(fr) = 1 => ~OfGenerator(Top(fr))
      BY <1>1 DEF Shape, OfGenerator
    <3> QED
      BY <1>1, <3>1, <3>2 DEF Shape
  <2> QED
    BY <1>2, <2>1, <2>2 DEF InGenerator
<1>4. PtrLocals[fn] \subseteq Locals(Top(fr))
  BY <1>1, <1>2, FrameIs, Layout DEF Locals
<1> QED
  BY <1>1, <1>2, <1>3, <1>4 DEF Good, Fits, EndOf, RegOf, Reg, DataLocals, Locals, Size

LEMMA TargetIs ==
  ASSUME NEW fr, Shape(fr), NEW m \in Nat, NEW d \in 1..Len(fr), NEW w, Target(m, fr, d, w)
  PROVE  /\ w \in Words /\ w # Undef /\ w[1] = "ptr" /\ w[2] = m
         /\ \E c \in 1..Len(fr) : \E k \in Locals(fr[c]) \ PtrLocals[fr[c].fn] : w[3] = RegOf(fr[c], k)
<1>1. PICK c \in 1..d : \E k \in Locals(fr[c]) \ PtrLocals[fr[c].fn] : w = Addr(m, RegOf(fr[c], k))
  BY DEF Target
<1>2. PICK k \in Locals(fr[c]) \ PtrLocals[fr[c].fn] : w = Addr(m, RegOf(fr[c], k))
  BY <1>1
<1>3. c \in 1..Len(fr)
  BY ShapeIs
<1>4. RegOf(fr[c], k) \in Nat
  BY <1>3, ShapeIs, RegIs
<1>5. w \in Words /\ w[1] = "ptr" /\ w[2] = m /\ w[3] = RegOf(fr[c], k)
  BY <1>2, <1>4, WordsAre
<1>6. w # Undef
  BY <1>5, WordsAre
<1>7. \E j \in Locals(fr[c]) \ PtrLocals[fr[c].fn] : w[3] = RegOf(fr[c], j)
  BY <1>5
<1> QED
  BY <1>3, <1>5, <1>6, <1>7

(* The pointers a body has, and the addresses of its own variables.        *)
LEMMA PointersAre ==
  ASSUME NEW fr, Good(stack, mem, fn, fp, mode, gens, fr), mode \in Settled, PlainCalls
  PROVE  /\ \A p \in Pointers \cup OwnAddrs : Target(mem, fr, Len(fr), p) /\ Len(fr) > 1
         /\ Pointers = {} => Quiet(stack, Top(fr))
<1>1. /\ Shape(fr) /\ Top(fr) \in Frame /\ Top(fr) = fr[Len(fr)] /\ Len(fr) \in Nat \ {0} /\ Len(fr) \in 1..Len(fr)
      /\ fn = Top(fr).fn /\ \A l : Reg(l) = RegOf(Top(fr), l)
      /\ DataLocals = Locals(Top(fr)) \ PtrLocals[fn] /\ PtrLocals[fn] \subseteq Locals(Top(fr))
  BY BodyIs
<1>2. ASSUME NEW l \in PtrLocals[fn], At(Reg(l)) # Undef
      PROVE  Target(mem, fr, Len(fr), At(Reg(l))) /\ Len(fr) > 1
  <2>1. LocalOk(stack, mem, fr, Len(fr), l)
    BY <1>1 DEF Good, FrameOk
  <2>2. Target(mem, fr, Len(fr), At(Reg(l)))
    BY <1>1, <1>2, <2>1, AtIs DEF LocalOk
  <2>3. Len(fr) # 1
    <3>1. Quiet(stack, fr[1])
      BY DEF Good, Quiets
    <3> QED
      BY <1>1, <1>2, <3>1, AtIs DEF Quiet
  <2>4. Len(fr) > 1
    BY <1>1, <2>3, OneOrMore
  <2> QED
    BY <2>2, <2>4
<1>3. ASSUME NEW p \in OwnAddrs PROVE Target(mem, fr, Len(fr), p) /\ Len(fr) > 1
  <2>1. fn # Main
    BY <1>3 DEF OwnAddrs, PlainCalls
  <2>2. PICK l \in DataLocals : p = Addr(mem, Reg(l))
    BY <1>3 DEF OwnAddrs
  <2>3. l \in Locals(fr[Len(fr)]) \ PtrLocals[fr[Len(fr)].fn] /\ p = Addr(mem, RegOf(fr[Len(fr)], l))
    BY <1>1, <2>2
  <2>4. Len(fr) # 1
    BY <1>1, <2>1 DEF Shape
  <2>5. Len(fr) > 1 /\ Len(fr) \in 1..Len(fr)
    BY <1>1, <2>4, OneOrMore
  <2>6. Target(mem, fr, Len(fr), p)
    BY <2>3, <2>5 DEF Target
  <2> QED
    BY <2>5, <2>6
<1>4. ASSUME Pointers = {} PROVE Quiet(stack, Top(fr))
  BY <1>1, <1>4, AtIs DEF Pointers, Quiet
<1> QED
  BY <1>2, <1>3, <1>4 DEF Pointers

LEMMA PointerIs ==
  ASSUME NEW fr, Good(stack, mem, fn, fp, mode, gens, fr), mode \in Settled, PlainCalls, NEW p \in Pointers
  PROVE  p[2] = mem /\ \E c \in 1..Len(fr) : \E k \in Locals(fr[c]) \ PtrLocals[fr[c].fn] : p[3] = RegOf(fr[c], k)
<1>1. Shape(fr) /\ mem \in Nat /\ Len(fr) \in 1..Len(fr)
  BY BodyIs
<1>2. Target(mem, fr, Len(fr), p)
  BY PointersAre
<1> QED
  BY <1>1, <1>2, TargetIs

LEMMA AssignKeeps ==
  ASSUME NEW fr, Good(stack, mem, fn, fp, mode, gens, fr), PlainCalls, NEW l, NEW w, Assign(l, w),
         (l \in DataLocals /\ w \in DataWords) \/ (l \in PtrLocals[fn] /\ w \in OwnAddrs)
  PROVE  Good(stack', mem', fn', fp', mode', gens', fr)
<1>1. mode \in Settled
  BY DEF Assign, Body, Settled, Modes
<1>2. /\ Shape(fr) /\ Top(fr) = fr[Len(fr)] /\ Len(fr) \in 1..Len(fr) /\ mem \in Nat
      /\ fn = Top(fr).fn /\ \A k : Reg(k) = RegOf(Top(fr), k)
      /\ DataLocals = Locals(Top(fr)) \ PtrLocals[fn] /\ PtrLocals[fn] \subseteq Locals(Top(fr))
  BY <1>1, BodyIs
<1>3. l \in Locals(fr[Len(fr)])
  BY <1>2
<1>4. /\ w \in Words
      /\ IF l \in PtrLocals[fr[Len(fr)].fn] THEN Len(fr) > 1 /\ Target(mem, fr, Len(fr), w) ELSE w \in LocalWords
  <2>1. CASE l \in DataLocals /\ w \in DataWords
    BY <1>2, <2>1, WordsAre DEF LocalWords
  <2>2. CASE l \in PtrLocals[fn] /\ w \in OwnAddrs
    <3>1. Target(mem, fr, Len(fr), w) /\ Len(fr) > 1
      BY <1>1, <2>2, PointersAre
    <3>2. w \in Words
      BY <1>2, <3>1, TargetIs
    <3> QED
      BY <1>2, <2>2, <3>1, <3>2
  <2> QED
    BY <2>1, <2>2
<1>5. Good(Put(stack, RegOf(fr[Len(fr)], l), <<w>>), mem, fn, fp, mode, gens, fr)
  BY <1>1, <1>2, <1>3, <1>4, LocalWritten
<1> QED
  BY <1>2, <1>5 DEF Assign, SetReg

(* A store through a pointer lands in a variable of an active frame, a     *)
(* load finds plain data.                                                  *)
LEMMA StorePtrKeeps ==
  ASSUME NEW fr, Good(stack, mem, fn, fp, mode, gens, fr), PlainCalls,
         NEW p \in Pointers, NEW w \in DataWords, StorePtr(p, w)
  PROVE  Good(stack', mem', fn', fp', mode', gens', fr)
<1>1. mode \in Settled
  BY DEF StorePtr, Body, Settled, Modes
<1>4. p[2] = mem /\ \E c \in 1..Len(fr) : \E k \in Locals(fr[c]) \ PtrLocals[fr[c].fn] : p[3] = RegOf(fr[c], k)
  BY <1>1, PointerIs
<1>5. PICK c \in 1..Len(fr) : \E k \in Locals(fr[c]) \ PtrLocals[fr[c].fn] : p[3] = RegOf(fr[c], k)
  BY <1>4
<1>6. PICK k \in Locals(fr[c]) \ PtrLocals[fr[c].fn] : p[3] = RegOf(fr[c], k)
  BY <1>5
<1>7. w \in Words /\ w \in LocalWords
  BY WordsAre DEF LocalWords
<1>8. Good(Put(stack, RegOf(fr[c], k), <<w>>), mem, fn, fp, mode, gens, fr)
  BY <1>1, <1>6, <1>7, LocalWritten
<1> QED
  BY <1>4, <1>6, <1>8 DEF StorePtr

LEMMA LoadPtrKeeps ==
  ASSUME NEW fr, Good(stack, mem, fn, fp, mode, gens, fr), PlainCalls,
         NEW p \in Pointers, NEW l \in DataLocals, LoadPtr(l, p)
  PROVE  Good(stack', mem', fn', fp', mode', gens', fr)
<1>1. mode \in Settled
  BY DEF LoadPtr, Body, Settled, Modes
<1>2. /\ Shape(fr) /\ mem \in Nat /\ Len(fr) \in 1..Len(fr) /\ Top(fr) = fr[Len(fr)] /\ fn = Top(fr).fn
      /\ Reg(l) = RegOf(Top(fr), l) /\ DataLocals = Locals(Top(fr)) \ PtrLocals[fn] /\ stack \in Seq(Words)
  BY <1>1, BodyIs
<1>4. p[2] = mem /\ \E c \in 1..Len(fr) : \E k \in Locals(fr[c]) \ PtrLocals[fr[c].fn] : p[3] = RegOf(fr[c], k)
  BY <1>1, PointerIs
<1>5. PICK c \in 1..Len(fr) : \E k \in Locals(fr[c]) \ PtrLocals[fr[c].fn] : p[3] = RegOf(fr[c], k)
  BY <1>4
<1>6. PICK k \in Locals(fr[c]) \ PtrLocals[fr[c].fn] : p[3] = RegOf(fr[c], k)
  BY <1>5
<1>7. At(p[3]) \in LocalWords
  <2>1. LocalOk(stack, mem, fr, c, k)
    BY DEF Good, FrameOk
  <2> QED
    BY <1>6, <2>1, AtIs DEF LocalOk
<1>8. At(p[3]) \in Words
  BY <1>7, WordsAre
<1>9. l \in Locals(fr[Len(fr)]) /\ l \notin PtrLocals[fr[Len(fr)].fn]
  BY <1>2
<1>10. Good(Put(stack, RegOf(fr[Len(fr)], l), <<At(p[3])>>), mem, fn, fp, mode, gens, fr)
  BY <1>1, <1>2, <1>7, <1>8, <1>9, LocalWritten
<1> QED
  BY <1>2, <1>4, <1>10 DEF LoadPtr

-----------------------------------------------------------------------------
(* The calls.                                                              *)
LEMMA Joined ==
  ASSUME NEW W, NEW u \in Seq(W), NEW v \in Seq(W)
  PROVE  /\ u \o v \in Seq(W) /\ Len(u \o v) = Len(u) + Len(v)
         /\ \A i \in 1..(Len(u) + Len(v)) : (u \o v)[i] = IF i <= Len(u) THEN u[i] ELSE v[i - Len(u)]
<1>1. u \o v \in Seq(W)
  OBVIOUS
<1>2. Len(u \o v) = Len(u) + Len(v)
  OBVIOUS
<1>3. \A i \in 1..(Len(u) + Len(v)) : (u \o v)[i] = IF i <= Len(u) THEN u[i] ELSE v[i - Len(u)]
  OBVIOUS
<1> QED
  BY <1>1, <1>2, <1>3

LEMMA HeaderAndArgs ==
  ASSUME NEW W, NEW a \in W, NEW b \in W, NEW c \in W, NEW d \in W, NEW n \in Nat, NEW args \in [1..n -> W]
  PROVE  LET ws == <<a, b, c, d>> \o args IN
           /\ ws \in Seq(W) /\ Len(ws) = 4 + n
           /\ ws[1] = a /\ ws[2] = b /\ ws[3] = c /\ ws[4] = d
           /\ \A l \in 1..n : ws[4 + l] = args[l]
<1>1. PICK hd : hd = <<a, b, c, d>>
  OBVIOUS
<1>2. hd \in Seq(W) /\ Len(hd) = 4 /\ hd[1] = a /\ hd[2] = b /\ hd[3] = c /\ hd[4] = d
  BY <1>1
<1>3. args \in Seq(W) /\ Len(args) = n
  OBVIOUS
<1>4. PICK ws, v : ws = hd \o v /\ v = args
  OBVIOUS
<1>a. /\ hd \o v \in Seq(W) /\ Len(hd \o v) = Len(hd) + Len(v)
      /\ \A i \in 1..(Len(hd) + Len(v)) : (hd \o v)[i] = IF i <= Len(hd) THEN hd[i] ELSE v[i - Len(hd)]
  <2>1. hd \in Seq(W) /\ v \in Seq(W)
    BY <1>2, <1>3, <1>4
  <2> QED
    BY <2>1, Joined
<1>b. Len(hd) = 4 /\ Len(v) = n
  BY <1>2, <1>3, <1>4
<1>5. ws \in Seq(W) /\ Len(ws) = 4 + n
  BY <1>4, <1>a, <1>b
<1>6. \A i \in 1..(4 + n) : ws[i] = IF i <= 4 THEN hd[i] ELSE args[i - 4]
  BY <1>4, <1>a, <1>b
<1>7. \A l \in 1..n : 4 + l \in 1..(4 + n) /\ ~(4 + l <= 4) /\ (4 + l) - 4 = l
  OBVIOUS
<1>8. 1 \in 1..(4 + n) /\ 2 \in 1..(4 + n) /\ 3 \in 1..(4 + n) /\ 4 \in 1..(4 + n)
  OBVIOUS
<1> QED
  BY <1>1, <1>2, <1>4, <1>5, <1>6, <1>7, <1>8

Laid(s, h, a, b, c, args) == Put(s, BaseOf(h), <<a, b, c, Undef>> \o args)

HasFrame(t, s, fr, h, a, b, c, args) ==
  /\ t \in Seq(Words) /\ Len(t) = Len(s)
  /\ \A x \in Nat : x < EndOf(Top(fr)) => Word(t, x) = Word(s, x)
  /\ \A i \in 1..Len(t) : i > EndOf(h) => t[i] = Undef
  /\ Word(t, BaseOf(h)) = a /\ Word(t, BaseOf(h) + 1) = b /\ Word(t, BaseOf(h) + 2) = c
  /\ \A l \in Locals(h) : Word(t, RegOf(h, l)) = IF l <= NumParams[h.fn] THEN args[l] ELSE Undef

LEMMA LaidOut ==
  ASSUME NEW fr, Good(stack, mem, fn, fp, mode, gens, fr), mode = "run",
         NEW h \in Frame, h.fn # Main, h.fp = EndOf(Top(fr)),
         NEW a \in Words, NEW b \in Words, NEW c \in Words, NEW args \in [1..NumParams[h.fn] -> Words],
         BaseOf(h) + 4 + NumParams[h.fn] <= Len(stack)
  PROVE  HasFrame(Laid(stack, h, a, b, c, args), stack, fr, h, a, b, c, args)
<1>1. PICK n, r, ws, e : n = NumParams[h.fn] /\ r = BaseOf(h) /\ ws = <<a, b, c, Undef>> \o args /\ e = EndOf(Top(fr))
  OBVIOUS
<1>2. h.fn \in Fns /\ n \in Nat /\ r \in Nat /\ stack \in Seq(Words) /\ Len(stack) \in Nat /\ r + 4 + n <= Len(stack)
  BY <1>1, FrameIs, Layout DEF Good
<1>3. /\ ws \in Seq(Words) /\ Len(ws) = 4 + n
      /\ ws[1] = a /\ ws[2] = b /\ ws[3] = c
      /\ \A l \in 1..n : ws[4 + l] = args[l]
  <2>1. Undef \in Words
    BY WordsAre
  <2>2. PICK v : v = args
    OBVIOUS
  <2>3. v \in [1..n -> Words]
    BY <1>1, <2>2
  <2>4. LET xs == <<a, b, c, Undef>> \o v IN
          /\ xs \in Seq(Words) /\ Len(xs) = 4 + n
          /\ xs[1] = a /\ xs[2] = b /\ xs[3] = c /\ xs[4] = Undef
          /\ \A l \in 1..n : xs[4 + l] = v[l]
    BY <1>2, <2>1, <2>3, HeaderAndArgs
  <2> QED
    BY <1>1, <2>2, <2>4
<1>4. PICK t : t = Put(stack, r, ws)
  OBVIOUS
<1>5. /\ t \in Seq(Words) /\ Len(t) = Len(stack)
      /\ \A x \in Nat : x \in r..(r + Len(ws) - 1) /\ x < Len(stack) => Word(t, x) = ws[x - r + 1]
      /\ \A x \in Nat : x \notin r..(r + Len(ws) - 1) => Word(t, x) = Word(stack, x)
  <2>1. stack \in Seq(Words) /\ r \in Nat /\ ws \in Seq(Words)
    BY <1>2, <1>3
  <2>2. PICK s : s = stack
    OBVIOUS
  <2>3. s \in Seq(Words)
    BY <2>1, <2>2
  <2>4. /\ Put(s, r, ws) \in Seq(Words) /\ Len(Put(s, r, ws)) = Len(s)
        /\ \A x \in Nat : x \in r..(r + Len(ws) - 1) /\ x < Len(s) => Word(Put(s, r, ws), x) = ws[x - r + 1]
        /\ \A x \in Nat : x \notin r..(r + Len(ws) - 1) => Word(Put(s, r, ws), x) = Word(s, x)
    BY <2>1, <2>3, PutIs
  <2> QED
    BY <1>4, <2>2, <2>4
<1>6. /\ \A x \in Nat : r <= x /\ x < r + 4 + n => Word(t, x) = ws[x - r + 1]
      /\ \A x \in Nat : x < r \/ r + 4 + n <= x => Word(t, x) = Word(stack, x)
  <2>1. Len(ws) = 4 + n
    BY <1>3
  <2> QED
    BY <1>2, <1>5, <2>1, SMTT(20)
<1>7. /\ e \in Nat /\ e <= r /\ RetSize[h.fn] \in Nat /\ NumLocals[h.fn] \in Nat /\ n <= NumLocals[h.fn]
      /\ EndOf(h) = r + 4 + NumLocals[h.fn] /\ h.fp + Header[h.fn] = r + 4
  <2>1. Shape(fr) /\ Top(fr) \in Frame
    BY ShapeIs DEF Good
  <2>2. e \in Nat
    BY <1>1, <2>1, FrameIs
  <2>3. /\ RetSize[h.fn] \in Nat /\ NumLocals[h.fn] \in Nat /\ n <= NumLocals[h.fn]
        /\ Header[h.fn] \in Nat
    BY <1>1, <1>2, Layout
  <2>4. /\ EndOf(h) = h.fp + Header[h.fn] + NumLocals[h.fn] /\ r = h.fp + RetSize[h.fn]
        /\ h.fp + Header[h.fn] = r + 4 /\ h.fp = e
    BY <1>1, FrameIs
  <2> QED
    BY <2>2, <2>3, <2>4
<1>8. ASSUME NEW x \in Nat, e <= x PROVE Word(stack, x) = Undef
  <2>1. x < Len(stack) => x + 1 \in 1..Len(stack) /\ x + 1 > e
    BY <1>2, <1>7, <1>8
  <2>2. \A i \in 1..Len(stack) : i > e => stack[i] = Undef
    BY <1>1 DEF Good, Clear
  <2> QED
    BY <2>1, <2>2 DEF Word
<1>9. ASSUME NEW i \in 1..Len(t), i > EndOf(h) PROVE t[i] = Undef
  <2>1. i - 1 \in Nat /\ r + 4 + n <= i - 1 /\ e <= i - 1 /\ i - 1 < Len(t) /\ (i - 1) + 1 = i
    BY <1>2, <1>5, <1>7, <1>9
  <2>2. Word(t, i - 1) = Undef
    BY <1>6, <1>8, <2>1
  <2> QED
    BY <2>1, <2>2 DEF Word
<1>10. Word(t, r) = a /\ Word(t, r + 1) = b /\ Word(t, r + 2) = c
  <2>1. /\ r \in Nat /\ r <= r /\ r < r + 4 + n /\ r - r + 1 = 1
        /\ r + 1 \in Nat /\ r <= r + 1 /\ r + 1 < r + 4 + n /\ (r + 1) - r + 1 = 2
        /\ r + 2 \in Nat /\ r <= r + 2 /\ r + 2 < r + 4 + n /\ (r + 2) - r + 1 = 3
    BY <1>2
  <2> QED
    BY <1>3, <1>6, <2>1
<1>11. ASSUME NEW l \in Locals(h) PROVE Word(t, RegOf(h, l)) = IF l <= n THEN args[l] ELSE Undef
  <2>1. RegOf(h, l) \in Nat /\ RegOf(h, l) = r + 4 + l - 1 /\ l \in Nat \ {0}
    BY <1>7, RegIs
  <2>2. PICK x : x = RegOf(h, l)
    OBVIOUS
  <2>3. CASE l <= n
    <3>1. x \in Nat /\ r <= x /\ x < r + 4 + n /\ x - r + 1 = 4 + l /\ l \in 1..n
      BY <1>2, <2>1, <2>2, <2>3
    <3>2. Word(t, x) = ws[4 + l] /\ ws[4 + l] = args[l]
      BY <1>3, <1>6, <3>1
    <3> QED
      BY <2>2, <2>3, <3>2
  <2>4. CASE ~(l <= n)
    <3>1. x \in Nat /\ r + 4 + n <= x /\ e <= x
      BY <1>2, <1>7, <2>1, <2>2, <2>4
    <3>2. Word(t, x) = Undef
      BY <1>6, <1>8, <3>1
    <3> QED
      BY <2>2, <2>4, <3>2
  <2> QED
    BY <2>3, <2>4
<1>12. \A x \in Nat : x < e => Word(t, x) = Word(stack, x)
  BY <1>2, <1>6, <1>7
<1>13. HasFrame(t, stack, fr, h, a, b, c, args)
  BY <1>1, <1>5, <1>9, <1>10, <1>11, <1>12 DEF HasFrame
<1> QED
  BY <1>1, <1>4, <1>13 DEF Laid

LEMMA DepthIs ==
  ASSUME NEW fr, Good(stack, mem, fn, fp, mode, gens, fr)
  PROVE  Len(Activations) = Len(fr)
<1>1. Shape(fr)
  BY DEF Good
<1>2. Chain("return") = Backwards(fr)
  BY ChainIs
<1> QED
  BY <1>1, <1>2, BackwardsIs DEF Activations

(* A call by name, or by value, trait or union.                            *)
Called(fr, h, g, how, args) ==
  /\ h.fn = g /\ h.how = how /\ Append(fr, h) \in Seq(Frame)
  /\ Good(stack', mem', fn', fp', mode', gens', Append(fr, h))
  /\ \A x \in Nat : x < EndOf(Top(fr)) => Word(stack', x) = Word(stack, x)
  /\ \A l \in Locals(h) : Word(stack', RegOf(h, l)) = IF l <= NumParams[g] THEN args[l] ELSE Undef

LEMMA CallKeeps ==
  ASSUME NEW fr, Good(stack, mem, fn, fp, mode, gens, fr), PlainCalls,
         NEW g \in Callees[fn], NEW how \in Hows,
         NEW args \in [1..NumParams[g] -> UNION {ArgWords(g, l) : l \in 1..NumParams[g]}],
         \A l \in 1..NumParams[g] : args[l] \in ArgWords(g, l), Call(g, how, args)
  PROVE  \E h \in Frame : Called(fr, h, g, how, args)
<1>1. mode = "run" /\ mode \in Settled
  BY DEF Call, MayCall, Body, Settled, Modes
<1>2. /\ Shape(fr) /\ Top(fr) \in Frame /\ Top(fr) = fr[Len(fr)] /\ Len(fr) \in Nat \ {0} /\ Len(fr) \in 1..Len(fr)
      /\ fn = Top(fr).fn /\ fp = Top(fr).fp /\ fp + FrameTop[fn] = EndOf(Top(fr)) /\ (InGenerator <=> OfGenerator(Top(fr)))
      /\ stack \in Seq(Words) /\ mem \in Nat /\ Roomy(stack, Top(fr)) /\ Len(stack) \in Nat
  BY <1>1, BodyIs
<1>3. /\ fn \in Fns /\ fp \in Nat /\ EndOf(Top(fr)) \in Nat
      /\ g \in Fns \ {Main} /\ FrameTop[fn] + (RetSize[g] + 4 + NumParams[g]) <= FrameSize[fn]
      /\ FrameTop[fn] \in Nat /\ FrameSize[fn] \in Nat /\ NumParams[g] \in Nat /\ RetSize[g] \in Nat
  <2>1. fn \in Fns /\ fp \in Nat /\ EndOf(Top(fr)) \in Nat
    BY <1>2, FrameIs
  <2>2. /\ g \in Fns \ {Main} /\ FrameTop[fn] + (RetSize[g] + 4 + NumParams[g]) <= FrameSize[fn]
        /\ FrameTop[fn] \in Nat /\ FrameSize[fn] \in Nat
    BY <2>1, Layout
  <2> QED
    BY <2>1, <2>2, Layout
<1>4. PICK h : h = [fn |-> g, fp |-> EndOf(Top(fr)), how |-> how]
  OBVIOUS
<1>5. /\ h \in Frame /\ h.fn = g /\ h.fn # Main /\ h.how = how /\ how # "main" /\ h.fp = EndOf(Top(fr))
      /\ ~OfGenerator(h) /\ how \in Entries
  BY <1>3, <1>4 DEF Frame, Entries, Hows, OfGenerator
<1>6. /\ ~OfGenerator(Top(fr)) /\ Len(fr) < MaxDepth
      /\ how # "call" => Pointers = {} /\ PtrLocals[g] = {}
  <2>1. Len(Activations) = Len(fr)
    BY DepthIs
  <2> QED
    BY <1>2, <2>1 DEF Call, MayCall, PlainCalls
<1>7. /\ \A p \in Pointers \cup OwnAddrs : Target(mem, fr, Len(fr), p) /\ Len(fr) > 1
      /\ Pointers = {} => Quiet(stack, Top(fr))
  BY <1>1, PointersAre
<1>8. PICK n, v : n = NumParams[g] /\ v = args
  OBVIOUS
<1>9. ASSUME NEW l \in 1..n
      PROVE  /\ v[l] \in Words
             /\ IF l \in PtrLocals[g] THEN Target(mem, fr, Len(fr), v[l]) /\ Len(fr) > 1 ELSE v[l] \in DataWords
  <2>1. v[l] \in ArgWords(g, l)
    BY <1>8
  <2>2. CASE l \in PtrLocals[g]
    <3>1. v[l] \in Pointers \cup OwnAddrs
      BY <2>1, <2>2 DEF ArgWords
    <3>2. Target(mem, fr, Len(fr), v[l]) /\ Len(fr) > 1
      BY <1>7, <3>1
    <3>3. v[l] \in Words
      BY <1>2, <3>2, TargetIs
    <3> QED
      BY <2>2, <3>2, <3>3
  <2>3. CASE l \notin PtrLocals[g]
    BY <2>1, <2>3, WordsAre DEF ArgWords
  <2> QED
    BY <2>2, <2>3
<1>10. v \in [1..n -> Words]
  BY <1>8, <1>9
<1>11. BaseOf(h) = fp + FrameTop[fn] + RetSize[g] /\ BaseOf(h) \in Nat /\ BaseOf(h) + 4 + n <= Len(stack)
  <2>1. BaseOf(h) = fp + FrameTop[fn] + RetSize[g]
    BY <1>2, <1>5 DEF BaseOf
  <2>2. PICK k \in {0, 1} : fp + FrameSize[fn] + k <= Len(stack)
    <3>1. Spare(fn) \in {0, 1}
      BY DEF Spare
    <3> QED
      BY <1>2, <1>6, <3>1 DEF Roomy
  <2>3. PICK x, y, z, w : x = FrameTop[fn] /\ y = RetSize[g] /\ z = FrameSize[fn] /\ w = Len(stack)
    OBVIOUS
  <2>4. /\ x \in Nat /\ y \in Nat /\ z \in Nat /\ w \in Nat /\ fp \in Nat /\ n \in Nat
        /\ x + (y + 4 + n) <= z /\ fp + z + k <= w
    <3>1. x \in Nat /\ y \in Nat /\ z \in Nat /\ w \in Nat /\ fp \in Nat /\ n \in Nat
      BY <1>2, <1>3, <1>8, <2>3
    <3>2. x + (y + 4 + n) <= z
      BY <1>3, <1>8, <2>3
    <3>3. fp + z + k <= w
      BY <2>2, <2>3
    <3> QED
      BY <3>1, <3>2, <3>3
  <2>5. fp + x + y \in Nat /\ fp + x + y + 4 + n <= w
    BY <2>4, SMTT(20)
  <2> QED
    BY <2>1, <2>3, <2>5
<1>12. PICK a, b, c : a = Info("vm", InstLen[how]) /\ b = Pc(fn, how, InstLen[how]) /\ c = Addr(mem, fp)
  OBVIOUS
<1>13. a \in Words /\ b \in Words /\ c \in Words
  <2>1. InstLen[how] \in Nat
    BY Lengths
  <2> QED
    BY <1>2, <1>3, <1>5, <1>12, <2>1, WordsAre
<1>14. PICK t : t = Laid(stack, h, a, b, c, v)
  OBVIOUS
<1>15. /\ t \in Seq(Words) /\ Len(t) = Len(stack)
       /\ \A x \in Nat : x < EndOf(Top(fr)) => Word(t, x) = Word(stack, x)
       /\ \A i \in 1..Len(t) : i > EndOf(h) => t[i] = Undef
       /\ Word(t, BaseOf(h)) = a /\ Word(t, BaseOf(h) + 1) = b /\ Word(t, BaseOf(h) + 2) = c
       /\ \A l \in Locals(h) : Word(t, RegOf(h, l)) = IF l <= n THEN v[l] ELSE Undef
  <2>1. v \in [1..NumParams[h.fn] -> Words] /\ BaseOf(h) + 4 + NumParams[h.fn] <= Len(stack) /\ n = NumParams[h.fn]
    BY <1>5, <1>8, <1>10, <1>11
  <2>2. mode = "run" /\ h.fn # Main /\ h.fp = EndOf(Top(fr))
    BY <1>1, <1>5
  <2>3. HasFrame(t, stack, fr, h, a, b, c, v)
    BY <1>5, <1>13, <1>14, <2>1, <2>2, LaidOut
  <2> QED
    BY <2>1, <2>3 DEF HasFrame
<1>16. Linked(t, mem, gens, h, Top(fr))
  BY <1>2, <1>5, <1>12, <1>15 DEF Linked
<1>17. PICK hr : hr = Append(fr, h)
  OBVIOUS
<1>18. /\ hr \in Seq(Frame) /\ hr[Len(fr) + 1] = h /\ \A d \in 1..Len(fr) : hr[d] = fr[d]
  <2>1. fr \in Seq(Frame) /\ h.fn # Main /\ h.how # "main"
    BY <1>2, <1>5, ShapeIs
  <2>2. hr \in Seq(Frame)
    BY <1>5, <1>17, <2>1
  <2>3. Append(fr, h)[Len(fr) + 1] = h /\ \A d \in 1..Len(fr) : Append(fr, h)[d] = fr[d]
    <3>1. OfGenerator(h) => h.fn \in Generators
      BY <1>5
    <3> QED
      BY <1>2, <1>5, <1>6, <2>1, <3>1, PushedShape
  <2> QED
    BY <1>17, <2>2, <2>3
<1>19. ASSUME NEW l \in Locals(h) PROVE LocalOk(t, mem, hr, Len(fr) + 1, l)
  <2>1. l \in Nat \ {0} /\ Word(t, RegOf(h, l)) = IF l <= n THEN v[l] ELSE Undef
    BY <1>5, <1>15, RegIs
  <2>2. CASE ~(l <= n)
    BY <1>18, <2>1, <2>2 DEF LocalOk, LocalWords
  <2>3. CASE l <= n
    <3>1. l \in 1..n /\ Word(t, RegOf(h, l)) = v[l]
      BY <1>3, <1>8, <2>1, <2>3
    <3>2. CASE l \in PtrLocals[g]
      <4>1. Target(mem, fr, Len(fr), v[l])
        BY <1>9, <3>1, <3>2
      <4>2. PICK d \in 1..Len(fr) : \E k \in Locals(fr[d]) \ PtrLocals[fr[d].fn] : v[l] = Addr(mem, RegOf(fr[d], k))
        BY <4>1 DEF Target
      <4>3. d \in 1..(Len(fr) + 1) /\ hr[d] = fr[d]
        BY <1>2, <1>18
      <4>4. Target(mem, hr, Len(fr) + 1, v[l])
        BY <4>2, <4>3 DEF Target
      <4> QED
        BY <1>5, <1>18, <3>1, <3>2, <4>4 DEF LocalOk
    <3>3. CASE l \notin PtrLocals[g]
      BY <1>5, <1>9, <1>18, <3>1, <3>3 DEF LocalOk, LocalWords
    <3> QED
      BY <3>2, <3>3
  <2> QED
    BY <2>2, <2>3
<1>20. ASSUME Len(fr) = 1 \/ how # "call" PROVE Quiet(t, h)
  <2> SUFFICES ASSUME NEW l \in PtrLocals[h.fn] PROVE Word(t, RegOf(h, l)) = Undef
    BY DEF Quiet
  <2>1. l \in PtrLocals[g] /\ l \in Locals(h)
    BY <1>3, <1>5, Layout DEF Locals
  <2>2. Len(fr) = 1
    BY <1>6, <1>20, <2>1
  <2>3. l \in Nat \ {0} /\ Word(t, RegOf(h, l)) = IF l <= n THEN v[l] ELSE Undef
    BY <1>5, <1>15, <2>1, RegIs
  <2>4. ~(l <= n)
    <3>1. l <= n => l \in 1..n
      BY <1>3, <1>8, <2>3
    <3>2. ~(Len(fr) > 1)
      BY <2>2
    <3> QED
      BY <1>9, <2>1, <3>1, <3>2
  <2> QED
    BY <2>3, <2>4
<1>21. Good(t, mem, h.fn, BaseOf(h), "chk", gens, hr)
  <2>1. Len(gens) \in Nat /\ GenObjects(gens)
    BY DEF Good
  <2>2. h.how \in Hows \ {"call"} => Quiet(stack, Top(fr))
    BY <1>5, <1>6, <1>7
  <2>3. /\ \A l \in Locals(h) : LocalOk(t, mem, Append(fr, h), Len(fr) + 1, l)
        /\ BaseOf(h) + 4 + NumParams[h.fn] <= Len(t)
        /\ Len(fr) = 1 \/ h.how # "call" => Quiet(t, h)
    BY <1>5, <1>8, <1>11, <1>15, <1>17, <1>19, <1>20
  <2>4. Good(stack, mem, fn, fp, "run", gens, fr)
    BY <1>1
  <2>5. h.how # "main"
    BY <1>5
  <2>6. Good(t, mem, h.fn, IF "chk" = "chk" THEN BaseOf(h) ELSE h.fp, "chk", gens, Append(fr, h))
    BY <1>5, <1>6, <1>15, <1>16, <2>1, <2>2, <2>3, <2>4, <2>5, Pushed
  <2> QED
    BY <1>17, <2>6
<1>22. stack' = t /\ fp' = BaseOf(h) /\ fn' = h.fn /\ mode' = "chk" /\ mem' = mem /\ gens' = gens
  <2>1. CallWords("vm", how) = <<a, b, c, Undef>>
    BY <1>12 DEF CallWords
  <2> QED
    BY <1>5, <1>8, <1>11, <1>14, <2>1 DEF Call, Laid
<1> QED
  BY <1>5, <1>8, <1>15, <1>17, <1>18, <1>21, <1>22 DEF Called

-----------------------------------------------------------------------------
(* The generators.                                                         *)
LEMMA GensChanged ==
  ASSUME NEW G, Len(G) \in Nat, GenObjects(G), NEW g \in DOMAIN G, NEW o, ObjectOk(o)
  PROVE  LET H == [G EXCEPT ![g] = o] IN
           /\ Len(H) = Len(G) /\ GenObjects(H) /\ g \in 1..Len(G) /\ H[g] = o
           /\ \A i \in 1..Len(G) : i # g => H[i] = G[i]
<1>1. PICK n, H : n = Len(G) /\ H = [G EXCEPT ![g] = o]
  OBVIOUS
<1>2. DOMAIN G = 1..n /\ n \in Nat
  BY <1>1 DEF GenObjects
<1>3. PICK S : S = {G[i] : i \in 1..n} \cup {o}
  OBVIOUS
<1>4. H = [i \in 1..n |-> IF i = g THEN o ELSE G[i]]
  BY <1>1, <1>2
<1>5. H \in Seq(S) /\ Len(H) = n
  BY <1>2, <1>3, <1>4
<1>6. GenObjects(H)
  <2>1. \A i \in 1..n : H[i] = IF i = g THEN o ELSE G[i]
    BY <1>4
  <2>2. H = [i \in 1..n |-> H[i]]
    BY <1>4
  <2> QED
    BY <1>1, <1>5, <2>1, <2>2 DEF GenObjects
<1> QED
  BY <1>1, <1>2, <1>4, <1>5, <1>6

LEMMA GensAppended ==
  ASSUME NEW G, Len(G) \in Nat, GenObjects(G), NEW o, ObjectOk(o)
  PROVE  LET H == Append(G, o) IN
           /\ Len(H) = Len(G) + 1 /\ GenObjects(H)
           /\ \A i \in 1..Len(G) : H[i] = G[i]
<1>1. PICK n, H : n = Len(G) /\ H = Append(G, o)
  OBVIOUS
<1>2. G = [i \in 1..n |-> G[i]] /\ n \in Nat
  BY <1>1 DEF GenObjects
<1>3. PICK S : S = {G[i] : i \in 1..n} \cup {o}
  OBVIOUS
<1>4. G \in Seq(S) /\ o \in S
  BY <1>2, <1>3
<1>5. H = [i \in 1..(n + 1) |-> IF i = n + 1 THEN o ELSE G[i]]
  BY <1>1, <1>4, AppendIs
<1>6. H \in Seq(S) /\ Len(H) = n + 1
  BY <1>1, <1>2, <1>4
<1>7. \A i \in 1..(n + 1) : H[i] = IF i = n + 1 THEN o ELSE G[i]
  BY <1>5
<1>8. GenObjects(H)
  <2>1. H = [i \in 1..(n + 1) |-> H[i]]
    BY <1>5
  <2>2. \A i \in 1..(n + 1) : i = n + 1 \/ i \in 1..n
    BY <1>2
  <2> QED
    BY <1>1, <1>6, <1>7, <2>1, <2>2 DEF GenObjects
<1>9. \A i \in 1..n : H[i] = G[i]
  <2>1. \A i \in 1..n : i \in 1..(n + 1) /\ i # n + 1
    BY <1>2
  <2> QED
    BY <1>7, <2>1
<1> QED
  BY <1>1, <1>6, <1>8, <1>9

Entered(fr, h, g, how) ==
  /\ h.fn = gens[g].fn /\ h.how = how /\ Append(fr, h) \in Seq(Frame)
  /\ Good(stack', mem', fn', fp', mode', gens', Append(fr, h))
  /\ \A x \in Nat : x < EndOf(Top(fr)) => Word(stack', x) = Word(stack, x)
  /\ Word(stack', BaseOf(h) + 2) = Handle(g)
  /\ \A l \in Locals(h) : Word(stack', RegOf(h, l)) = IF l <= NumParams[h.fn] THEN gens[g].frame[l] ELSE Undef

LEMMA EnterGeneratorKeeps ==
  ASSUME NEW fr, Good(stack, mem, fn, fp, mode, gens, fr), PlainCalls, GeneratorsFit, MayResume,
         Len(Activations) < MaxDepth, NEW g \in DOMAIN gens, NEW how \in {"gen", "end"}, EnterGenerator(g, how)
  PROVE  \E h \in Frame : Entered(fr, h, g, how)
<1>1. mode = "run" /\ mode \in Settled
  BY DEF MayResume, Body, Settled, Modes
<1>2. /\ Shape(fr) /\ Top(fr) \in Frame /\ Top(fr) = fr[Len(fr)] /\ Len(fr) \in Nat \ {0} /\ Len(fr) \in 1..Len(fr)
      /\ fn = Top(fr).fn /\ fp = Top(fr).fp /\ fp + FrameTop[fn] = EndOf(Top(fr)) /\ (InGenerator <=> OfGenerator(Top(fr)))
      /\ stack \in Seq(Words) /\ mem \in Nat /\ Roomy(stack, Top(fr)) /\ Len(stack) \in Nat
  BY <1>1, BodyIs
<1>3. /\ fn \in Fns /\ fp \in Nat /\ EndOf(Top(fr)) \in Nat /\ FrameTop[fn] \in Nat /\ FrameSize[fn] \in Nat
  <2>1. fn \in Fns /\ fp \in Nat /\ EndOf(Top(fr)) \in Nat
    BY <1>2, FrameIs
  <2> QED
    BY <2>1, Layout
<1>4. Len(gens) \in Nat /\ GenObjects(gens) /\ g \in 1..Len(gens) /\ ObjectOk(gens[g])
  <2>1. Len(gens) \in Nat /\ GenObjects(gens)
    BY DEF Good
  <2> QED
    BY <2>1 DEF GenObjects
<1>5. PICK f, v, n : f = gens[g].fn /\ v = gens[g].frame /\ n = NumParams[f]
  OBVIOUS
<1>6. /\ f \in Generators /\ f \in Fns /\ f # Main /\ v \in [1..n -> LocalWords]
      /\ RetSize[f] = 1 /\ PtrLocals[f] = {} /\ FrameTop[fn] + FrameSize[f] <= FrameSize[fn] + Spare(fn)
  <2>1. f \in Generators /\ v \in [1..n -> LocalWords]
    BY <1>4, <1>5 DEF ObjectOk
  <2>2. f \in Fns /\ f # Main
    BY <2>1, FramesAssumption
  <2> QED
    BY <1>3, <2>1, <2>2 DEF GeneratorsFit, MayResume
<1>7. PICK h : h = [fn |-> f, fp |-> EndOf(Top(fr)), how |-> how]
  OBVIOUS
<1>8. /\ h \in Frame /\ h.fn = f /\ h.how = how /\ h.fp = EndOf(Top(fr))
      /\ OfGenerator(h) /\ how \in Entries /\ h.how # "main" /\ h.how \notin Hows
  BY <1>3, <1>6, <1>7 DEF Frame, Entries, Hows, OfGenerator
<1>9. ~OfGenerator(Top(fr)) /\ Len(fr) < MaxDepth
  <2>1. Len(Activations) = Len(fr)
    BY DepthIs
  <2> QED
    BY <1>2, <2>1 DEF MayResume, PlainCalls
<1>10. /\ BaseOf(h) = fp + FrameTop[fn] + RetSize[f] /\ BaseOf(h) \in Nat /\ BaseOf(h) + 4 + n <= Len(stack)
       /\ h.fp + FrameSize[f] <= Len(stack)
  <2>1. BaseOf(h) = fp + FrameTop[fn] + RetSize[f] /\ h.fp = fp + FrameTop[fn]
    BY <1>2, <1>8 DEF BaseOf
  <2>2. Spare(fn) \in Nat /\ fp + FrameSize[fn] + Spare(fn) <= Len(stack)
    <3>1. Spare(fn) \in Nat
      BY DEF Spare
    <3> QED
      BY <1>2, <1>9, <3>1 DEF Roomy
  <2>3. /\ NumLocals[f] \in Nat /\ n \in Nat /\ n <= NumLocals[f] /\ Header[f] = RetSize[f] + 4
        /\ FrameTop[f] = Header[f] + NumLocals[f] /\ FrameTop[f] <= FrameSize[f] /\ FrameSize[f] \in Nat
    BY <1>5, <1>6, Layout
  <2>4. PICK x, z, k, w, y : x = FrameTop[fn] /\ z = FrameSize[fn] /\ k = Spare(fn) /\ w = Len(stack) /\ y = FrameSize[f]
    OBVIOUS
  <2>5. /\ x \in Nat /\ z \in Nat /\ k \in Nat /\ w \in Nat /\ y \in Nat /\ fp \in Nat /\ n \in Nat
        /\ x + y <= z + k /\ fp + z + k <= w /\ 5 + n <= y
    <3>1. x \in Nat /\ z \in Nat /\ k \in Nat /\ w \in Nat /\ y \in Nat /\ fp \in Nat /\ n \in Nat
      BY <1>2, <1>3, <2>2, <2>3, <2>4
    <3>2. x + y <= z + k
      BY <1>6, <2>2, <2>4
    <3>3. fp + z + k <= w
      BY <2>2, <2>4
    <3>4. 5 + n <= y
      BY <1>6, <2>3, <2>4
    <3> QED
      BY <3>1, <3>2, <3>3, <3>4
  <2>6. fp + x + 1 \in Nat /\ fp + x + 1 + 4 + n <= w /\ fp + x + y <= w
    BY <2>5
  <2> QED
    BY <1>6, <2>1, <2>4, <2>6
<1>11. PICK a, b, c : a = Info("gen", InstLen[how]) /\ b = Pc(fn, how, InstLen[how]) /\ c = Handle(g)
  OBVIOUS
<1>12. a \in Words /\ b \in Words /\ c \in Words
  <2>1. InstLen[how] \in Nat /\ g \in Nat
    BY <1>4, Lengths
  <2> QED
    BY <1>3, <1>8, <1>11, <2>1, WordsAre
<1>13. PICK t : t = Laid(stack, h, a, b, c, v)
  OBVIOUS
<1>14. HasFrame(t, stack, fr, h, a, b, c, v)
  <2>1. v \in [1..NumParams[h.fn] -> Words] /\ BaseOf(h) + 4 + NumParams[h.fn] <= Len(stack)
    BY <1>5, <1>6, <1>8, <1>10, WordsAre
  <2>2. mode = "run" /\ h.fn # Main /\ h.fp = EndOf(Top(fr))
    BY <1>1, <1>6, <1>8
  <2> QED
    BY <1>8, <1>12, <1>13, <2>1, <2>2, LaidOut
<1>15. PICK o : o = [gens[g] EXCEPT !.prev = Addr(mem, fp), !.running = TRUE]
  OBVIOUS
<1>16. ObjectOk(o) /\ o.prev = Addr(mem, fp)
  <2>1. PICK p : p = gens[g]
    OBVIOUS
  <2>2. ObjectOk(p)
    BY <1>4, <2>1
  <2>3. o = [fn |-> p.fn, running |-> TRUE, done |-> p.done, deinit |-> p.deinit,
             prev |-> Addr(mem, fp), frame |-> p.frame]
    BY <1>15, <2>1, <2>2 DEF ObjectOk
  <2> QED
    BY <2>2, <2>3 DEF ObjectOk
<1>17. PICK H : H = [gens EXCEPT ![g] = o]
  OBVIOUS
<1>18. Len(H) = Len(gens) /\ GenObjects(H) /\ H[g] = o
  BY <1>4, <1>16, <1>17, GensChanged
<1>19. Linked(t, mem, H, h, Top(fr))
  <2>1. Word(t, BaseOf(h)) = a /\ Word(t, BaseOf(h) + 1) = b /\ Word(t, BaseOf(h) + 2) = Handle(g)
    BY <1>11, <1>14 DEF HasFrame
  <2>2. g \in 1..Len(H) /\ H[g].prev = Addr(mem, Top(fr).fp)
    BY <1>2, <1>4, <1>16, <1>18
  <2>3. \E i \in 1..Len(H) : Word(t, BaseOf(h) + 2) = Handle(i) /\ H[i].prev = Addr(mem, Top(fr).fp)
    BY <2>1, <2>2
  <2> QED
    BY <1>2, <1>8, <1>11, <2>1, <2>3 DEF Linked
<1>20. PICK hr : hr = Append(fr, h)
  OBVIOUS
<1>21. hr \in Seq(Frame) /\ hr[Len(fr) + 1] = h
  <2>1. fr \in Seq(Frame) /\ h.fn # Main /\ h.how # "main" /\ h.fn \in Generators
    BY <1>2, <1>6, <1>8, ShapeIs
  <2>2. hr \in Seq(Frame)
    BY <1>8, <1>20, <2>1
  <2>3. Append(fr, h)[Len(fr) + 1] = h
    BY <1>2, <1>8, <1>9, <2>1, PushedShape
  <2> QED
    BY <1>20, <2>2, <2>3
<1>22. ASSUME NEW l \in Locals(h) PROVE LocalOk(t, mem, hr, Len(fr) + 1, l)
  <2>1. l \in Nat \ {0} /\ Word(t, RegOf(h, l)) = IF l <= n THEN v[l] ELSE Undef
    BY <1>5, <1>8, <1>14, RegIs DEF HasFrame
  <2>2. n \in Nat
    BY <1>5, <1>6, Layout
  <2>3. l <= n => l \in 1..n
    BY <2>1, <2>2
  <2>4. Word(t, RegOf(h, l)) \in LocalWords
    BY <1>6, <2>1, <2>3 DEF LocalWords
  <2> QED
    BY <1>6, <1>8, <1>21, <2>4 DEF LocalOk
<1>23. Good(t, mem, h.fn, h.fp, "run", H, hr)
  <2>1. Len(H) \in Nat /\ GenObjects(H)
    BY <1>4, <1>18
  <2>2. ~(h.how \in Hows \ {"call"})
    BY <1>8
  <2>3. /\ \A l \in Locals(h) : LocalOk(t, mem, Append(fr, h), Len(fr) + 1, l)
        /\ t \in Seq(Words) /\ Len(t) = Len(stack)
        /\ \A x \in Nat : x < EndOf(Top(fr)) => Word(t, x) = Word(stack, x)
        /\ \A i \in 1..Len(t) : i > EndOf(h) => t[i] = Undef
    BY <1>14, <1>20, <1>22 DEF HasFrame
  <2>4. Roomy(t, h)
    <3>1. FrameSize[f] \in Nat /\ h.fp \in Nat
      BY <1>6, <1>8, Layout, FrameIs
    <3> QED
      BY <1>8, <1>10, <2>3, <3>1 DEF Roomy
  <2>5. Good(stack, mem, fn, fp, "run", gens, fr)
    BY <1>1
  <2>6. h.fn # Main /\ h.fn \in Generators
    BY <1>6, <1>8
  <2>7. Good(t, mem, h.fn, IF "run" = "chk" THEN BaseOf(h) ELSE h.fp, "run", H, Append(fr, h))
    BY <1>8, <1>9, <1>19, <2>1, <2>2, <2>3, <2>4, <2>5, <2>6, Pushed
  <2> QED
    BY <1>20, <2>7
<1>24. stack' = t /\ fp' = h.fp /\ fn' = h.fn /\ mode' = "run" /\ mem' = mem /\ gens' = H
  <2>1. [gens EXCEPT ![g] = [@ EXCEPT !.prev = Addr(mem, fp), !.running = TRUE]] = H
    BY <1>15, <1>17
  <2> QED
    BY <1>1, <1>2, <1>5, <1>8, <1>10, <1>11, <1>13, <2>1 DEF EnterGenerator, Laid
<1>25. /\ \A x \in Nat : x < EndOf(Top(fr)) => Word(t, x) = Word(stack, x)
       /\ Word(t, BaseOf(h) + 2) = Handle(g)
       /\ \A l \in Locals(h) : Word(t, RegOf(h, l)) = IF l <= NumParams[h.fn] THEN v[l] ELSE Undef
  BY <1>11, <1>14 DEF HasFrame
<1>26. h.fn = gens[g].fn /\ h.how = how /\ Append(fr, h) \in Seq(Frame)
  BY <1>5, <1>8, <1>20, <1>21
<1>27. Good(stack', mem', fn', fp', mode', gens', Append(fr, h))
  BY <1>20, <1>23, <1>24
<1> QED
  BY <1>5, <1>8, <1>24, <1>25, <1>26, <1>27 DEF Entered

(* No generator runs: what the generators hold may change.                 *)
LEMMA OthersChanged ==
  ASSUME NEW s, NEW m, NEW f, NEW p, NEW md \in Settled, NEW G, NEW fr, Good(s, m, f, p, md, G, fr),
         ~OfGenerator(Top(fr)), NEW H, Len(H) \in Nat, GenObjects(H)
  PROVE  Good(s, m, f, p, md, H, fr)
<1>1. Shape(fr) /\ Len(fr) \in Nat \ {0} /\ Len(fr) \in 1..Len(fr) /\ Top(fr) = fr[Len(fr)]
  BY ShapeIs DEF Good
<1>2. ASSUME NEW d \in 1..Len(fr) PROVE ~OfGenerator(fr[d])
  <2>1. d = 1 \/ d \in 2..Len(fr)
    BY <1>1
  <2>2. fr[1].how = "main" /\ \A c \in 2..Len(fr) : OfGenerator(fr[c]) => c = Len(fr)
    BY <1>1 DEF Shape
  <2> QED
    BY <1>1, <2>1, <2>2 DEF OfGenerator
<1>3. ASSUME NEW d \in 1..Len(fr) PROVE FrameOk(s, m, H, fr, d)
  <2>1. FrameOk(s, m, G, fr, d)
    BY DEF Good
  <2> QED
    BY <1>1, <1>2, <2>1, FrameKept
<1> QED
  BY <1>3 DEF Good

LEMMA GenNextKeeps ==
  ASSUME NEW fr, Good(stack, mem, fn, fp, mode, gens, fr), PlainCalls, GeneratorsFit,
         NEW g \in DOMAIN gens, GenNext(g) \/ GenEnd(g)
  PROVE  \E hr \in Seq(Frame) : Good(stack', mem', fn', fp', mode', gens', hr)
<1>1. MayResume
  BY DEF GenNext, GenEnd
<1>2. CASE \E how \in {"gen", "end"} : Len(Activations) < MaxDepth /\ EnterGenerator(g, how)
  <2>1. PICK how \in {"gen", "end"} : Len(Activations) < MaxDepth /\ EnterGenerator(g, how)
    BY <1>2
  <2>2. \E h \in Frame : /\ Append(fr, h) \in Seq(Frame)
                         /\ Good(stack', mem', fn', fp', mode', gens', Append(fr, h))
    BY <1>1, <2>1, EnterGeneratorKeeps DEF Entered
  <2> QED
    BY <2>2
<1>3. CASE gens' = [gens EXCEPT ![g].done = TRUE] /\ UNCHANGED <<stack, mem, fn, fp, mode, trace>>
  <2>1. mode \in Settled
    BY <1>1 DEF MayResume, Body, Settled, Modes
  <2>2. Shape(fr) /\ ~OfGenerator(Top(fr))
    BY <1>1, <2>1, BodyIs DEF MayResume, PlainCalls
  <2>3. Len(gens) \in Nat /\ GenObjects(gens) /\ ObjectOk(gens[g])
    <3>1. Len(gens) \in Nat /\ GenObjects(gens)
      BY DEF Good
    <3> QED
      BY <3>1 DEF GenObjects
  <2>4. PICK p, o : p = gens[g] /\ o = [gens[g] EXCEPT !.done = TRUE]
    OBVIOUS
  <2>5. ObjectOk(o)
    <3>1. ObjectOk(p)
      BY <2>3, <2>4
    <3>2. o = [fn |-> p.fn, running |-> p.running, done |-> TRUE, deinit |-> p.deinit,
               prev |-> p.prev, frame |-> p.frame]
      BY <2>4, <3>1 DEF ObjectOk
    <3> QED
      BY <3>1, <3>2 DEF ObjectOk
  <2>6. PICK H : H = [gens EXCEPT ![g] = o]
    OBVIOUS
  <2>7. Len(H) \in Nat /\ GenObjects(H)
    BY <2>3, <2>5, <2>6, GensChanged
  <2>8. gens' = H
    BY <1>3, <2>4, <2>6
  <2>9. Good(stack, mem, fn, fp, mode, H, fr)
    BY <2>1, <2>2, <2>7, OthersChanged
  <2>10. fr \in Seq(Frame)
    BY <2>2, ShapeIs
  <2> QED
    BY <1>3, <2>8, <2>9, <2>10
<1> QED
  BY <1>2, <1>3 DEF GenNext, GenEnd

-----------------------------------------------------------------------------
(* The returns: of a call, of a generator function and of a yield.         *)
Returned(fr, ret) ==
  LET hr == SubSeq(fr, 1, Len(fr) - 1) IN
    /\ hr \in Seq(Frame) /\ Good(stack', mem', fn', fp', mode', gens', hr)
    /\ \A x \in Nat : x < Top(fr).fp => Word(stack', x) = Word(stack, x)
    /\ mode' = IF ret = <<>> THEN "run" ELSE "result"
    /\ ret # <<>> => Word(stack', Top(fr).fp) = ret[1]
LEMMA ReturnKeeps ==
  ASSUME NEW fr, Good(stack, mem, fn, fp, mode, gens, fr), mode = "run", Len(fr) > 1,
         NEW ret \in Seq(Words), NEW pc, NEW r, pc[2] = fr[Len(fr) - 1].fn, r = Addr(mem, fr[Len(fr) - 1].fp),
         ReturnTo(pc, r, ret), Len(gens') \in Nat, GenObjects(gens')
  PROVE  Returned(fr, ret)
<1>1. /\ Shape(fr) /\ Len(fr) \in Nat \ {0} /\ stack \in Seq(Words) /\ fp = Top(fr).fp /\ mem \in Nat
      /\ fr \in Seq(Frame) /\ Top(fr) \in Frame
  <2>1. mode \in Settled
    BY DEF Settled, Modes
  <2> QED
    BY <2>1, BodyIs, ShapeIs
<1>2. fp \in Nat /\ Len(ret) \in Nat
  BY <1>1, FrameIs
<1>3. PICK s, u, t : s = stack /\ u = Put(s, fp, ret) /\ t = DropAbove(u, fp + Len(ret))
  OBVIOUS
<1>4. /\ u \in Seq(Words) /\ Len(u) = Len(s)
      /\ \A x \in Nat : x \notin fp..(fp + Len(ret) - 1) => Word(u, x) = Word(s, x)
  <2>1. PICK ws, x : ws = ret /\ x = fp
    OBVIOUS
  <2>2. s \in Seq(Words) /\ ws \in Seq(Words) /\ x \in Nat
    BY <1>1, <1>2, <1>3, <2>1
  <2>3. /\ Put(s, x, ws) \in Seq(Words) /\ Len(Put(s, x, ws)) = Len(s)
        /\ \A y \in Nat : y \notin x..(x + Len(ws) - 1) => Word(Put(s, x, ws), y) = Word(s, y)
    BY <2>2, PutIs, ZenonT(60)
  <2>4. PICK v : v = Put(s, x, ws)
    OBVIOUS
  <2>5. /\ v \in Seq(Words) /\ Len(v) = Len(s)
        /\ \A y \in Nat : y \notin x..(x + Len(ws) - 1) => Word(v, y) = Word(s, y)
    BY <2>3, <2>4
  <2>6. u = v
    BY <1>3, <2>1, <2>4
  <2> QED
    BY <2>1, <2>5, <2>6
<1>5. /\ t \in Seq(Words) /\ Len(t) = Len(u)
      /\ \A x \in Nat : Word(t, x) = IF x < fp + Len(ret) THEN Word(u, x) ELSE Undef
      /\ \A i \in 1..Len(u) : i > fp + Len(ret) => t[i] = Undef
  <2>1. fp + Len(ret) \in Nat
    BY <1>2
  <2> QED
    BY <1>3, <1>4, <2>1, DropIs
<1>6. ASSUME NEW x \in Nat, x < fp PROVE Word(t, x) = Word(s, x)
  <2>1. x < fp + Len(ret) /\ x \notin fp..(fp + Len(ret) - 1)
    BY <1>2, <1>6
  <2>2. Word(t, x) = Word(u, x)
    BY <1>5, <2>1
  <2>3. Word(u, x) = Word(s, x)
    BY <1>4, <2>1
  <2> QED
    BY <2>2, <2>3
<1>7. PICK md : md = IF ret = <<>> THEN "run" ELSE "result"
  OBVIOUS
<1>8. md = "run" => \A i \in 1..Len(t) : i > fp => t[i] = Undef
  <2>1. md = "run" => fp + Len(ret) = fp
    BY <1>2, <1>7
  <2> QED
    BY <1>5, <2>1
<1>9. PICK n, hr : n = Len(fr) /\ hr = SubSeq(fr, 1, n - 1)
  OBVIOUS
<1>10. Good(t, mem, fr[n - 1].fn, fr[n - 1].fp, md, gens', hr)
  <2>1. Good(s, mem, fn, fp, "run", gens, fr) /\ md \in {"run", "result"} /\ Len(t) = Len(s)
    BY <1>3, <1>4, <1>5, <1>7
  <2>2. \A x \in Nat : x < Top(fr).fp => Word(t, x) = Word(s, x)
    BY <1>1, <1>3, <1>6
  <2>3. md = "run" => \A i \in 1..Len(t) : i > Top(fr).fp => t[i] = Undef
    BY <1>1, <1>8
  <2>4. LET k == Len(fr) IN Good(t, mem, fr[k - 1].fn, fr[k - 1].fp, md, gens', SubSeq(fr, 1, k - 1))
    BY <1>5, <2>1, <2>2, <2>3, Popped
  <2> QED
    BY <1>9, <2>4
<1>11. stack' = t /\ fn' = fr[n - 1].fn /\ fp' = fr[n - 1].fp /\ mode' = md /\ mem' = mem
  <2>1. n - 1 \in 1..Len(fr)
    BY <1>1, <1>9
  <2>2. fr[n - 1].fp \in Nat
    BY <1>1, <2>1, FrameIs
  <2>3. r[1] = "ptr" /\ r[2] = mem /\ r[3] = fr[n - 1].fp
    BY <1>1, <1>9, <2>2, WordsAre
  <2> QED
    BY <1>3, <1>7, <1>9, <2>3 DEF ReturnTo
<1>12. hr \in Seq(Frame)
  BY <1>10 DEF Good, Shape
<1>13. ASSUME ret # <<>> PROVE Word(t, fp) = ret[1]
  <2>1. Len(ret) \in Nat \ {0}
    BY <1>2, <1>13
  <2>2. fp < Len(stack)
    <3>1. Roomy(stack, Top(fr)) /\ Top(fr).fn \in Fns /\ Len(stack) \in Nat
      <4>1. mode \in Settled
        BY DEF Settled, Modes
      <4> QED
        BY <1>1, <4>1, BodyIs, FrameIs
    <3>2. FrameSize[Top(fr).fn] \in Nat \ {0}
      BY <3>1, Layout
    <3>3. PICK k \in Nat : fp + FrameSize[Top(fr).fn] + k <= Len(stack)
      BY <1>1, <3>1 DEF Roomy, Spare
    <3> QED
      BY <1>2, <3>1, <3>2, <3>3
  <2>3. PICK ws, x : ws = ret /\ x = fp
    OBVIOUS
  <2>4. \A y \in Nat : y \in x..(x + Len(ws) - 1) /\ y < Len(s) => Word(Put(s, x, ws), y) = ws[y - x + 1]
    <3>1. s \in Seq(Words) /\ ws \in Seq(Words) /\ x \in Nat
      BY <1>1, <1>2, <1>3, <2>3
    <3> QED
      BY <3>1, PutIs, ZenonT(60)
  <2>5. x \in Nat /\ x \in x..(x + Len(ws) - 1) /\ x < Len(s) /\ x - x + 1 = 1 /\ x < x + Len(ws)
    BY <1>2, <1>3, <2>1, <2>2, <2>3
  <2>6. Word(u, x) = ws[1]
    BY <1>3, <2>3, <2>4, <2>5
  <2>7. Word(t, x) = IF x < x + Len(ws) THEN Word(u, x) ELSE Undef
    BY <1>5, <2>3, <2>5
  <2> QED
    BY <2>3, <2>5, <2>6, <2>7
<1>14. \A x \in Nat : x < Top(fr).fp => Word(t, x) = Word(s, x)
  BY <1>1, <1>6
<1> QED
  BY <1>1, <1>3, <1>7, <1>9, <1>10, <1>11, <1>12, <1>13, <1>14 DEF Returned

LEMMA CallerIs ==
  ASSUME NEW fr, Good(stack, mem, fn, fp, mode, gens, fr), mode = "run", fn # Main
  PROVE  LET q == fr[Len(fr) - 1]  base == Base(TopContext) IN
           /\ Len(fr) > 1 /\ base = BaseOf(Top(fr))
           /\ At(base + 1)[2] = q.fn
           /\ ~OfGenerator(Top(fr)) => At(base + 2) = Addr(mem, q.fp)
           /\ OfGenerator(Top(fr)) =>
                \E g \in 1..Len(gens) : At(base + 2)[2] = g /\ gens[g].prev = Addr(mem, q.fp)
<1>1. /\ Shape(fr) /\ Top(fr) = fr[Len(fr)] /\ Len(fr) \in Nat \ {0} /\ Len(fr) \in 1..Len(fr) /\ fn = Top(fr).fn
  <2>1. mode \in Settled
    BY DEF Settled, Modes
  <2> QED
    BY <2>1, BodyIs
<1>2. Len(fr) > 1
  <2>1. Len(fr) # 1
    BY <1>1 DEF Shape
  <2> QED
    BY <1>1, <2>1, OneOrMore
<1>3. Base(TopContext) = BaseOf(Top(fr))
  BY TopIsSeen
<1>4. PICK q, b, h : q = fr[Len(fr) - 1] /\ b = BaseOf(Top(fr)) /\ h = Top(fr)
  OBVIOUS
<1>5. Linked(stack, mem, gens, h, q)
  BY <1>1, <1>2, <1>4 DEF Good, FrameOk
<1>6. At(b + 1)[2] = q.fn
  BY <1>4, <1>5, AtIs DEF Linked, Pc
<1>7. ~OfGenerator(h) => At(b + 2) = Addr(mem, q.fp)
  BY <1>4, <1>5, AtIs DEF Linked
<1>8. ASSUME OfGenerator(h)
      PROVE  \E g \in 1..Len(gens) : At(b + 2)[2] = g /\ gens[g].prev = Addr(mem, q.fp)
  <2>1. PICK g \in 1..Len(gens) : Word(stack, b + 2) = Handle(g) /\ gens[g].prev = Addr(mem, q.fp)
    BY <1>4, <1>5, <1>8 DEF Linked
  <2>2. At(b + 2)[2] = g
    BY <2>1, AtIs DEF Handle
  <2> QED
    BY <2>1, <2>2
<1> QED
  BY <1>2, <1>3, <1>4, <1>6, <1>7, <1>8

LEMMA Copies ==
  ASSUME NEW n \in Nat, NEW w \in DataWords
  PROVE  [i \in 1..n |-> w] \in Seq(Words)
<1>1. w \in Words
  BY WordsAre
<1> QED
  BY <1>1

LEMMA RetKeeps ==
  ASSUME NEW fr, Good(stack, mem, fn, fp, mode, gens, fr), NEW w \in DataWords, Ret(w)
  PROVE  Len(fr) > 1 /\ ~OfGenerator(Top(fr)) /\ Returned(fr, [i \in 1..RetSize[fn] |-> w])
<1>1. mode = "run" /\ mode \in Settled /\ fn # Main /\ fn \notin Generators
  BY DEF Ret, Body, Settled, Modes
<1>2. fn \in Fns /\ RetSize[fn] \in Nat /\ ~OfGenerator(Top(fr)) /\ Len(gens) \in Nat /\ GenObjects(gens)
  <2>1. /\ Top(fr) \in Frame /\ fn = Top(fr).fn /\ Top(fr) = fr[Len(fr)] /\ Len(fr) \in Nat \ {0} /\ Shape(fr)
    BY <1>1, BodyIs
  <2>2. fn \in Fns /\ RetSize[fn] \in Nat
    BY <2>1, FrameIs, Layout
  <2>3. Len(fr) \in 2..Len(fr)
    <3>1. Len(fr) # 1
      BY <1>1, <2>1 DEF Shape
    <3> QED
      BY <2>1, <3>1, OneOrMore
  <2>4. ~OfGenerator(Top(fr))
    BY <1>1, <2>1, <2>3 DEF Shape
  <2> QED
    BY <2>2, <2>4 DEF Good
<1>3. PICK q, b, ret : q = fr[Len(fr) - 1] /\ b = Base(TopContext) /\ ret = [i \in 1..RetSize[fn] |-> w]
  OBVIOUS
<1>4. Len(fr) > 1 /\ At(b + 1)[2] = q.fn /\ At(b + 2) = Addr(mem, q.fp)
  BY <1>1, <1>2, <1>3, CallerIs
<1>5. ret \in Seq(Words)
  BY <1>2, <1>3, Copies
<1>6. ReturnTo(At(b + 1), At(b + 2), ret) /\ gens' = gens
  BY <1>3 DEF Ret
<1> QED
  BY <1>1, <1>2, <1>3, <1>4, <1>5, <1>6, ReturnKeeps

LEMMA RetGenKeeps ==
  ASSUME NEW fr, Good(stack, mem, fn, fp, mode, gens, fr), GeneratorsFit, NEW deinit \in BOOLEAN, RetGen(deinit)
  PROVE  Len(fr) > 1 /\ Returned(fr, <<Handle(Len(gens) + 1)>>)
<1>1. mode = "run" /\ mode \in Settled /\ fn \in Generators /\ ~InGenerator
  BY DEF RetGen, Settled, Modes
<1>2. /\ Shape(fr) /\ Top(fr) \in Frame /\ Top(fr) = fr[Len(fr)] /\ Len(fr) \in Nat \ {0} /\ Len(fr) \in 1..Len(fr)
      /\ fn = Top(fr).fn /\ fp = Top(fr).fp /\ (InGenerator <=> OfGenerator(Top(fr)))
      /\ \A l : Reg(l) = RegOf(Top(fr), l)
  BY <1>1, BodyIs
<1>3. /\ fn \in Fns /\ fn # Main /\ PtrLocals[fn] = {} /\ NumParams[fn] \in Nat
      /\ 1..NumParams[fn] \subseteq Locals(Top(fr))
      /\ Len(gens) \in Nat /\ GenObjects(gens)
  <2>1. fn \in Fns /\ fn # Main /\ PtrLocals[fn] = {}
    BY <1>1, FramesAssumption DEF GeneratorsFit
  <2>2. NumParams[fn] \in Nat /\ NumLocals[fn] \in Nat /\ NumParams[fn] <= NumLocals[fn]
    BY <2>1, Layout
  <2> QED
    BY <1>2, <2>1, <2>2 DEF Good, Locals
<1>4. PICK q, b, ret : q = fr[Len(fr) - 1] /\ b = Base(TopContext) /\ ret = <<Handle(Len(gens) + 1)>>
  OBVIOUS
<1>5. /\ Len(fr) > 1 /\ b = BaseOf(Top(fr)) /\ At(b + 1)[2] = q.fn /\ At(b + 2) = Addr(mem, q.fp)
  BY <1>1, <1>2, <1>3, <1>4, CallerIs
<1>6. PICK o : o = [fn |-> fn, running |-> FALSE, done |-> FALSE, deinit |-> deinit,
                    prev |-> Undef, frame |-> [l \in 1..NumParams[fn] |-> At(Reg(l))]]
  OBVIOUS
<1>7. ObjectOk(o)
  <2>1. ASSUME NEW l \in 1..NumParams[fn] PROVE At(Reg(l)) \in LocalWords
    <3>1. LocalOk(stack, mem, fr, Len(fr), l)
      BY <1>2, <1>3 DEF Good, FrameOk
    <3> QED
      BY <1>2, <1>3, <3>1, AtIs DEF LocalOk
  <2>2. o.frame \in [1..NumParams[o.fn] -> LocalWords] /\ o.fn = fn
    BY <1>6, <2>1
  <2> QED
    BY <1>1, <1>6, <2>2 DEF ObjectOk
<1>8. PICK H : H = Append(gens, o)
  OBVIOUS
<1>9. Len(H) \in Nat /\ GenObjects(H)
  BY <1>3, <1>7, <1>8, GensAppended
<1>10. ret \in Seq(Words)
  <2>1. Handle(Len(gens) + 1) \in Words
    BY <1>3, WordsAre
  <2> QED
    BY <1>4, <2>1
<1>11. ReturnTo(At(b + 1), At(b + 2), ret) /\ gens' = H
  <2>1. b = fp + RetSize[fn]
    BY <1>2, <1>5 DEF BaseOf
  <2> QED
    BY <1>4, <1>6, <1>8, <2>1 DEF RetGen
<1> QED
  BY <1>1, <1>4, <1>5, <1>9, <1>10, <1>11, ReturnKeeps

LEMMA RetYKeeps ==
  ASSUME NEW fr, Good(stack, mem, fn, fp, mode, gens, fr), NEW w \in DataWords,
         NEW done \in BOOLEAN, NEW deinit \in BOOLEAN, RetY(w, done, deinit)
  PROVE  /\ Len(fr) > 1
         /\ Returned(fr, IF At(Base(TopContext) + 1)[3] = "end" THEN <<>> ELSE [i \in 1..RetSize[fn] |-> w])
<1>1. mode = "run" /\ mode \in Settled /\ fn \in Generators /\ InGenerator /\ fn # Main /\ fn \in Fns
  <2>1. mode = "run" /\ fn \in Generators /\ InGenerator
    BY DEF RetY, Body, InGenerator
  <2> QED
    BY <2>1, FramesAssumption DEF Settled, Modes
<1>2. OfGenerator(Top(fr)) /\ Len(gens) \in Nat /\ GenObjects(gens) /\ RetSize[fn] \in Nat
  BY <1>1, BodyIs, Layout DEF Good
<1>3. PICK q, b : q = fr[Len(fr) - 1] /\ b = Base(TopContext)
  OBVIOUS
<1>4. /\ Len(fr) > 1 /\ At(b + 1)[2] = q.fn
      /\ \E g \in 1..Len(gens) : At(b + 2)[2] = g /\ gens[g].prev = Addr(mem, q.fp)
  BY <1>1, <1>2, <1>3, CallerIs
<1>5. PICK g \in 1..Len(gens) : At(b + 2)[2] = g /\ gens[g].prev = Addr(mem, q.fp)
  BY <1>4
<1>6. ObjectOk(gens[g]) /\ g \in DOMAIN gens
  BY <1>2 DEF GenObjects
<1>7. PICK o : o = [gens[g] EXCEPT !.running = FALSE, !.done = done,
                                   !.deinit = IF done THEN gens[g].deinit ELSE deinit]
  OBVIOUS
<1>8. ObjectOk(o)
  <2>1. PICK p : p = gens[g]
    OBVIOUS
  <2>2. ObjectOk(p)
    BY <1>6, <2>1
  <2>3. o = [fn |-> p.fn, running |-> FALSE, done |-> done, deinit |-> IF done THEN p.deinit ELSE deinit,
             prev |-> p.prev, frame |-> p.frame]
    BY <1>7, <2>1, <2>2 DEF ObjectOk
  <2> QED
    BY <2>2, <2>3 DEF ObjectOk
<1>9. PICK H : H = [gens EXCEPT ![g] = o]
  OBVIOUS
<1>10. Len(H) \in Nat /\ GenObjects(H)
  BY <1>2, <1>6, <1>8, <1>9, GensChanged
<1>11. PICK ret : ret = IF At(b + 1)[3] = "end" THEN <<>> ELSE [i \in 1..RetSize[fn] |-> w]
  OBVIOUS
<1>12. ret \in Seq(Words)
  <2>1. [i \in 1..RetSize[fn] |-> w] \in Seq(Words)
    BY <1>2, Copies
  <2>2. <<>> \in Seq(Words)
    OBVIOUS
  <2> QED
    BY <1>11, <2>1, <2>2
<1>13. ReturnTo(At(b + 1), gens[g].prev, ret) /\ gens' = H
  <2>1. PICK e, k : e = (At(b + 1)[3] = "end") /\ k = At(b + 2)[2]
    OBVIOUS
  <2>2. ReturnTo(At(b + 1), gens[k].prev, IF e THEN <<>> ELSE [i \in 1..RetSize[fn] |-> w])
    BY <1>3, <2>1 DEF RetY
  <2>3. gens' = [gens EXCEPT ![k] = [@ EXCEPT !.running = FALSE, !.done = done,
                                              !.deinit = IF done THEN gens[k].deinit ELSE deinit]]
    BY <1>3, <2>1 DEF RetY
  <2>4. k = g
    BY <1>5, <2>1
  <2>5. gens' = H
    BY <1>7, <1>9, <2>3, <2>4
  <2> QED
    BY <1>11, <2>1, <2>2, <2>4, <2>5
<1>14. Returned(fr, ret)
  BY <1>1, <1>3, <1>4, <1>5, <1>10, <1>12, <1>13, ReturnKeeps
<1> QED
  BY <1>3, <1>4, <1>11, <1>14

-----------------------------------------------------------------------------
(* The rest: results, host functions, panics and the end.                  *)
LEMMA TakeResultKeeps ==
  ASSUME NEW fr, Good(stack, mem, fn, fp, mode, gens, fr), NEW l \in DataLocals \cup {0},
         l = 0 \/ At(fp + FrameTop[fn])[1] = "data", TakeResult(l)
  PROVE  Good(stack', mem', fn', fp', mode', gens', fr)
<1>1. mode = "result" /\ mode \in Settled /\ "run" \in Settled
  BY DEF TakeResult, Settled, Modes
<1>2. /\ Shape(fr) /\ Top(fr) \in Frame /\ Top(fr) = fr[Len(fr)] /\ Len(fr) \in 1..Len(fr) /\ fn = Top(fr).fn
      /\ fp + FrameTop[fn] = EndOf(Top(fr)) /\ \A k : Reg(k) = RegOf(Top(fr), k)
      /\ DataLocals = Locals(Top(fr)) \ PtrLocals[fn] /\ stack \in Seq(Words) /\ EndOf(Top(fr)) \in Nat
  <2>1. Top(fr) \in Frame
    BY <1>1, BodyIs
  <2> QED
    BY <1>1, <2>1, BodyIs, FrameIs
<1>3. PICK ret, s : ret = EndOf(Top(fr)) /\ s = IF l = 0 THEN stack ELSE Put(stack, Reg(l), <<At(ret)>>)
  OBVIOUS
<1>4. Good(s, mem, fn, fp, mode, gens, fr)
  <2>1. CASE l = 0
    BY <1>3, <2>1
  <2>2. CASE l # 0
    <3>1. l \in Locals(fr[Len(fr)]) /\ l \notin PtrLocals[fr[Len(fr)].fn]
      BY <1>2, <2>2
    <3>2. At(ret) \in Words /\ At(ret)[1] = "data"
      BY <1>2, <1>3, <2>2, WordIs, AtIs
    <3>3. At(ret) \in LocalWords
      BY <3>2, WordsAre DEF LocalWords
    <3>4. Good(Put(stack, RegOf(fr[Len(fr)], l), <<At(ret)>>), mem, fn, fp, mode, gens, fr)
      BY <1>1, <1>2, <3>1, <3>2, <3>3, LocalWritten
    <3> QED
      BY <1>2, <1>3, <2>2, <3>4
  <2> QED
    BY <2>1, <2>2
<1>5. PICK t : t = DropAbove(s, ret)
  OBVIOUS
<1>6. /\ t \in Seq(Words) /\ Len(t) = Len(s)
      /\ \A x \in Nat : Word(t, x) = IF x < ret THEN Word(s, x) ELSE Undef
      /\ \A i \in 1..Len(s) : i > ret => t[i] = Undef
  <2>1. s \in Seq(Words) /\ ret \in Nat
    BY <1>2, <1>3, <1>4 DEF Good
  <2> QED
    BY <1>5, <2>1, DropIs
<1>7. Good(t, mem, fn, fp, "run", gens, fr)
  <2>1. \A x \in Nat : x < EndOf(Top(fr)) => Word(t, x) = Word(s, x)
    BY <1>3, <1>6
  <2>2. \A i \in 1..Len(t) : i > EndOf(Top(fr)) => t[i] = Undef
    BY <1>3, <1>6
  <2> QED
    BY <1>1, <1>4, <1>6, <2>1, <2>2, AboveChanged
<1>8. stack' = t /\ mode' = "run" /\ UNCHANGED <<mem, fn, fp, gens, trace>>
  BY <1>2, <1>3, <1>5 DEF TakeResult
<1> QED
  BY <1>7, <1>8

LEMMA CallHostKeeps ==
  ASSUME NEW fr, Good(stack, mem, fn, fp, mode, gens, fr), NEW how \in Hows, CallHost(how)
  PROVE  /\ Good(stack', mem', fn', fp', mode', gens', fr)
         /\ \A x \in Nat : x < EndOf(Top(fr)) => Word(stack', x) = Word(stack, x)
<1>1. mode = "run" /\ mode \in Settled /\ "host" \in Settled
  BY DEF CallHost, MayCall, Body, Settled, Modes
<1>2. /\ Shape(fr) /\ Top(fr) \in Frame /\ fn = Top(fr).fn /\ fp = Top(fr).fp
      /\ fp + FrameTop[fn] = EndOf(Top(fr)) /\ stack \in Seq(Words) /\ mem \in Nat
  BY <1>1, BodyIs
<1>3. fn \in Fns /\ fp \in Nat /\ EndOf(Top(fr)) \in Nat
  BY <1>2, FrameIs
<1>4. PICK ws, s, r : ws = <<Info("host", 0), Pc(fn, how, 0), Addr(mem, fp)>> /\ s = stack /\ r = EndOf(Top(fr)) + 1
  OBVIOUS
<1>5. ws \in Seq(Words) /\ r \in Nat /\ s \in Seq(Words)
  <2>1. Info("host", 0) \in Words /\ Pc(fn, how, 0) \in Words /\ Addr(mem, fp) \in Words
    <3>1. how \in Entries
      BY DEF Entries
    <3> QED
      BY <1>2, <1>3, <3>1, WordsAre
  <2> QED
    BY <1>2, <1>3, <1>4, <2>1
<1>6. /\ Put(s, r, ws) \in Seq(Words) /\ Len(Put(s, r, ws)) = Len(s)
      /\ \A x \in Nat : x \notin r..(r + Len(ws) - 1) => Word(Put(s, r, ws), x) = Word(s, x)
  BY <1>5, PutIs
<1>7. PICK t : t = Put(s, r, ws)
  OBVIOUS
<1>8. \A x \in Nat : x < EndOf(Top(fr)) => Word(t, x) = Word(s, x)
  <2>1. PICK e : e = EndOf(Top(fr))
    OBVIOUS
  <2>2. e \in Nat /\ r = e + 1
    BY <1>3, <1>4, <2>1
  <2>3. \A x \in Nat : x < e => x \notin r..(r + Len(ws) - 1)
    BY <2>2
  <2> QED
    BY <1>6, <1>7, <2>1, <2>3
<1>9. Good(t, mem, fn, fp, "host", gens, fr)
  BY <1>1, <1>4, <1>6, <1>7, <1>8, AboveChanged
<1>10. stack' = t /\ mode' = "host" /\ UNCHANGED <<mem, fn, fp, gens, trace>>
  BY <1>2, <1>4, <1>7 DEF CallHost
<1> QED
  BY <1>4, <1>8, <1>9, <1>10

LEMMA HostReturnKeeps ==
  ASSUME NEW fr, Good(stack, mem, fn, fp, mode, gens, fr), NEW w \in DataWords, HostReturn(w)
  PROVE  Good(stack', mem', fn', fp', mode', gens', fr)
<1>1. mode = "host" /\ mode \in Settled /\ "result" \in Settled
  BY DEF HostReturn, Settled, Modes
<1>2. /\ Shape(fr) /\ Top(fr) \in Frame /\ fp + FrameTop[fn] = EndOf(Top(fr)) /\ stack \in Seq(Words)
  BY <1>1, BodyIs
<1>3. PICK ret, u, t : ret = EndOf(Top(fr)) /\ u = Put(stack, ret, <<w>>) /\ t = DropAbove(u, ret + 1)
  OBVIOUS
<1>4. ret \in Nat /\ w \in Words
  BY <1>2, <1>3, FrameIs, WordsAre
<1>5. u \in Seq(Words) /\ Len(u) = Len(stack) /\ \A x \in Nat : x # ret => Word(u, x) = Word(stack, x)
  BY <1>2, <1>3, <1>4, PutOne
<1>6. /\ t \in Seq(Words) /\ Len(t) = Len(u)
      /\ \A x \in Nat : Word(t, x) = IF x < ret + 1 THEN Word(u, x) ELSE Undef
  <2>1. ret + 1 \in Nat
    BY <1>4
  <2> QED
    BY <1>3, <1>5, <2>1, DropIs
<1>7. \A x \in Nat : x < EndOf(Top(fr)) => Word(t, x) = Word(stack, x)
  BY <1>3, <1>4, <1>5, <1>6
<1>8. Good(t, mem, fn, fp, "result", gens, fr)
  BY <1>1, <1>5, <1>6, <1>7, AboveChanged
<1>9. stack' = t /\ mode' = "result" /\ UNCHANGED <<mem, fn, fp, gens, trace>>
  BY <1>2, <1>3 DEF HostReturn
<1> QED
  BY <1>8, <1>9

LEMMA ModeChanged ==
  ASSUME NEW fr, Good(stack, mem, fn, fp, mode, gens, fr), mode \in Settled, NEW me \in Settled \ {"run"}
  PROVE  Good(stack, mem, fn, fp, me, gens, fr)
<1>1. stack \in Seq(Words)
  BY DEF Good
<1> QED
  BY <1>1, AboveChanged

LEMMA UnwindKeeps ==
  ASSUME NEW fr, Good(stack, mem, fn, fp, mode, gens, fr), GeneratorsFit, Unwind
  PROVE  /\ Good(stack', mem', fn', fp', mode', gens', fr) /\ Traced(trace', mode', fr)
         /\ mode' = "dead" /\ trace' = [k \in 1..Len(fr) |-> fr[Len(fr) + 1 - k].fn]
<1>1. mode = "panic" /\ mode \in Settled /\ "dead" \in Settled \ {"run"} /\ Shape(fr)
  BY DEF Unwind, Settled, Modes, Good
<1>2. Chain("panic") = Backwards(fr)
  BY <1>1, ChainIs
<1>3. PICK b, n : b = Backwards(fr) /\ n = Len(fr)
  OBVIOUS
<1>4. /\ Len(b) = n /\ Lost \notin Range(b)
      /\ \A i \in 1..n : n + 1 - i \in 1..n /\ b[i] = Ctx(fr, n + 1 - i)
  BY <1>1, <1>3, BackwardsIs
<1>5. \A i \in 1..n : b[i].fn = fr[n + 1 - i].fn
  BY <1>4 DEF Ctx, Context
<1>6. trace' = [i \in 1..n |-> b[i].fn] /\ mode' = "dead" /\ UNCHANGED <<stack, mem, fn, fp, gens>>
  BY <1>2, <1>3, <1>4 DEF Unwind
<1>7. trace' = [i \in 1..n |-> fr[n + 1 - i].fn]
  BY <1>5, <1>6
<1>8. Good(stack, mem, fn, fp, "dead", gens, fr)
  BY <1>1, ModeChanged
<1> QED
  BY <1>3, <1>6, <1>7, <1>8 DEF Traced

-----------------------------------------------------------------------------
(* Every step of the machine.                                              *)
LEMMA ModeOnlyKeeps ==
  ASSUME NEW fr, Good(stack, mem, fn, fp, mode, gens, fr), HostPanic \/ Panic \/ End
  PROVE  Good(stack', mem', fn', fp', mode', gens', fr)
<1>1. mode \in Settled /\ mode' \in Settled \ {"run"} /\ UNCHANGED <<stack, mem, fn, fp, gens>>
  BY DEF HostPanic, Panic, End, Body, Settled, Modes
<1> QED
  BY <1>1, ModeChanged

Live == Interpreter \/ GrowInPlace \/ GrowMove \/ GrowFails
Kept == /\ \E hr \in Seq(Frame) : Good(stack', mem', fn', fp', mode', gens', hr)
        /\ mode # "dead" /\ trace' = trace

LEMMA LiveKeeps ==
  ASSUME NEW fr \in Seq(Frame), Good(stack, mem, fn, fp, mode, gens, fr), PlainCalls, GeneratorsFit, Live
  PROVE  Kept
<1>1. ASSUME NEW l \in DataLocals, NEW w \in DataWords, Assign(l, w) PROVE Kept
  <2>1. mode # "dead" /\ trace' = trace
    BY <1>1 DEF Assign, Body, SetReg
  <2>2. Good(stack', mem', fn', fp', mode', gens', fr)
    BY <1>1, AssignKeeps
  <2> QED
    BY <2>1, <2>2 DEF Kept
<1>2. ASSUME NEW l \in PtrLocals[fn], NEW w \in OwnAddrs, Assign(l, w) PROVE Kept
  <2>1. mode # "dead" /\ trace' = trace
    BY <1>2 DEF Assign, Body, SetReg
  <2> QED
    BY <1>2, <2>1, AssignKeeps DEF Kept
<1>3. ASSUME NEW p \in Pointers, NEW w \in DataWords, StorePtr(p, w) PROVE Kept
  BY <1>3, StorePtrKeeps DEF StorePtr, Body, Kept
<1>4. ASSUME NEW p \in Pointers, NEW l \in DataLocals, LoadPtr(l, p) PROVE Kept
  BY <1>4, LoadPtrKeeps DEF LoadPtr, Body, Kept
<1>5. ASSUME NEW g \in Callees[fn], NEW how \in Hows,
             NEW args \in [1..NumParams[g] -> UNION {ArgWords(g, l) : l \in 1..NumParams[g]}],
             \A l \in 1..NumParams[g] : args[l] \in ArgWords(g, l), Call(g, how, args) PROVE Kept
  <2>1. mode # "dead" /\ trace' = trace
    BY <1>5 DEF Call, MayCall, Body
  <2>2. \E h \in Frame : /\ Append(fr, h) \in Seq(Frame)
                         /\ Good(stack', mem', fn', fp', mode', gens', Append(fr, h))
    BY <1>5, CallKeeps DEF Called
  <2> QED
    BY <2>1, <2>2 DEF Kept
<1>6. ASSUME ChkStk PROVE Kept
  BY <1>6, ChkStkKeeps DEF ChkStk, Kept
<1>7. ASSUME NEW w \in DataWords, Ret(w) PROVE Kept
  BY <1>7, RetKeeps DEF Ret, Body, ReturnTo, Returned, Kept
<1>8. ASSUME NEW w \in DataWords, HostReturn(w) PROVE Kept
  BY <1>8, HostReturnKeeps DEF HostReturn, Kept
<1>9. ASSUME NEW w \in DataWords, NEW done \in BOOLEAN, NEW deinit \in BOOLEAN, RetY(w, done, deinit) PROVE Kept
  <2>1. mode # "dead" /\ trace' = trace
    BY <1>9 DEF RetY, Body, ReturnTo
  <2> QED
    BY <1>9, <2>1, RetYKeeps DEF Returned, Kept
<1>10. ASSUME NEW l \in DataLocals \cup {0}, l = 0 \/ At(fp + FrameTop[fn])[1] = "data", TakeResult(l) PROVE Kept
  BY <1>10, TakeResultKeeps DEF TakeResult, Kept
<1>11. ASSUME NEW how \in Hows, CallHost(how) PROVE Kept
  BY <1>11, CallHostKeeps DEF CallHost, MayCall, Body, Kept
<1>12. ASSUME HostPanic \/ Panic \/ End PROVE Kept
  BY <1>12, ModeOnlyKeeps DEF HostPanic, Panic, End, Body, Kept
<1>13. ASSUME NEW deinit \in BOOLEAN, RetGen(deinit) PROVE Kept
  BY <1>13, RetGenKeeps DEF RetGen, ReturnTo, Returned, Kept
<1>14. ASSUME NEW g \in DOMAIN gens, GenNext(g) \/ GenEnd(g) PROVE Kept
  <2>1. mode # "dead" /\ trace' = trace
    BY <1>14 DEF GenNext, GenEnd, MayResume, Body, EnterGenerator
  <2> QED
    BY <1>14, <2>1, GenNextKeeps DEF Kept
<1>15. ASSUME GrowInPlace \/ GrowMove \/ GrowFails PROVE Kept
  <2>1. mode # "dead" /\ trace' = trace
    BY <1>15 DEF GrowInPlace, GrowMove, GrowFails
  <2> QED
    BY <1>15, <2>1, GrowInPlaceKeeps, GrowMoveKeeps, GrowFailsKeeps DEF Kept
<1>16. CASE Interpreter
  BY <1>1, <1>2, <1>3, <1>4, <1>5, <1>6, <1>7, <1>8, <1>9, <1>10, <1>11, <1>12, <1>13, <1>14, <1>16 DEF Interpreter
<1> QED
  BY <1>15, <1>16 DEF Live

LEMMA InitGood ==
  ASSUME Init
  PROVE  LET fr == <<[fn |-> Main, fp |-> 0, how |-> "main"]>> IN
           fr \in Seq(Frame) /\ Good(stack, mem, fn, fp, mode, gens, fr) /\ Traced(trace, mode, fr)
<1>1. PICK s, h, fr : s = stack /\ h = [fn |-> Main, fp |-> 0, how |-> "main"] /\ fr = <<h>>
  OBVIOUS
<1>2. /\ mem = 0 /\ fn = Main /\ fp = 0 /\ mode = "run" /\ gens = <<>> /\ trace = <<>>
      /\ s = [i \in 1..StackSize |-> Undef]
  BY <1>1 DEF Init
<1>3. /\ Main \in Fns /\ StackSize \in Nat /\ MaxStack \in Nat /\ StackSize <= MaxStack /\ MaxDepth \in Nat \ {0}
      /\ FrameSize[Main] <= StackSize
  BY FramesAssumption
<1>4. s \in Seq(Words) /\ Len(s) = StackSize /\ \A i \in 1..StackSize : s[i] = Undef
  <2>1. Undef \in Words
    BY WordsAre
  <2>2. s \in [1..StackSize -> Words] /\ \A i \in 1..StackSize : s[i] = Undef
    BY <1>2, <2>1
  <2>3. s \in Seq(Words)
    BY <1>3, <2>2
  <2>4. Len(s) = StackSize
    BY <1>3, <2>2, <2>3
  <2> QED
    BY <2>2, <2>3, <2>4
<1>5. \A x \in Nat : Word(s, x) = Undef
  <2>1. \A x \in Nat : x < StackSize => x + 1 \in 1..StackSize
    BY <1>3
  <2> QED
    BY <1>4, <2>1 DEF Word
<1>6. h \in Frame /\ h.fn = Main /\ h.fp = 0 /\ h.how = "main" /\ ~OfGenerator(h)
  BY <1>1, <1>3 DEF Frame, Entries, OfGenerator
<1>7. fr \in Seq(Frame) /\ Len(fr) = 1 /\ fr[1] = h /\ Top(fr) = h
  BY <1>1, <1>6 DEF Top
<1>8. Shape(fr)
  <2>1. Len(fr) \in 1..MaxDepth /\ 2..Len(fr) = {} /\ \A c, d \in 1..Len(fr) : ~(c < d)
    BY <1>3, <1>7
  <2> QED
    BY <1>6, <1>7, <2>1 DEF Shape
<1>9. ASSUME NEW l \in Locals(h) PROVE Word(s, RegOf(h, l)) = Undef
  BY <1>5, <1>6, RegIs
<1>10. PtrLocals[Main] \subseteq Locals(h)
  BY <1>3, <1>6, Layout DEF Locals
<1>11. \A d \in 1..Len(fr) : FrameOk(s, 0, gens, fr, d)
  BY <1>7, <1>9 DEF FrameOk, LocalOk, LocalWords
<1>12. Quiets(s, "run", fr)
  BY <1>6, <1>7, <1>9, <1>10 DEF Quiets, Quiet, Starting
<1>13. Fits(s, "run", fr)
  <2>1. FrameSize[Main] \in Nat
    BY <1>3, Layout
  <2>2. 0 + FrameSize[Main] + 0 <= StackSize
    BY <1>3, <2>1
  <2>3. Roomy(s, h)
    BY <1>4, <1>6, <2>2 DEF Roomy, Spare
  <2>4. 1..(Len(fr) - 1) = {}
    BY <1>7
  <2> QED
    BY <1>7, <2>3, <2>4 DEF Fits
<1>14. Clear(s, "run", fr) /\ TopIs(Main, 0, "run", fr)
  BY <1>4, <1>6, <1>7 DEF Clear, TopIs
<1>15. Len(gens) = 0 /\ GenObjects(gens)
  BY <1>2 DEF GenObjects
<1>16. Good(s, 0, Main, 0, "run", gens, fr)
  BY <1>3, <1>4, <1>8, <1>11, <1>12, <1>13, <1>14, <1>15 DEF Good, Modes
<1> QED
  BY <1>1, <1>2, <1>7, <1>16 DEF Traced

LEMMA InitInv == Init => IInv
<1> SUFFICES ASSUME Init PROVE IInv
  OBVIOUS
<1> QED
  BY InitGood DEF IInv

LEMMA StepKeeps ==
  ASSUME PlainCalls, GeneratorsFit, IInv, [Next]_vars
  PROVE  IInv'
<1>1. PICK fr \in Seq(Frame) : Good(stack, mem, fn, fp, mode, gens, fr) /\ Traced(trace, mode, fr)
  BY DEF IInv
<1>2. CASE UNCHANGED vars
  BY <1>1, <1>2 DEF IInv, vars
<1>3. CASE Unwind
  <2>1. Good(stack', mem', fn', fp', mode', gens', fr) /\ Traced(trace', mode', fr)
    BY <1>1, <1>3, UnwindKeeps
  <2> QED
    BY <2>1 DEF IInv
<1>4. CASE Live
  <2>1. Kept
    BY <1>1, <1>4, LiveKeeps
  <2>2. PICK hr \in Seq(Frame) : Good(stack', mem', fn', fp', mode', gens', hr)
    BY <2>1 DEF Kept
  <2>3. Traced(trace', mode', hr)
    BY <1>1, <2>1 DEF Kept, Traced
  <2> QED
    BY <2>2, <2>3 DEF IInv
<1> QED
  BY <1>2, <1>3, <1>4 DEF Next, Thread, Live

-----------------------------------------------------------------------------
(* While calls pass pointers by name only and generators fit the frames    *)
(* they are resumed from, the registers are those of a chain of frames,    *)
(* each with the way back to its caller and pointers to variables that are *)
(* still there; the growth of the stack keeps it so.                       *)
THEOREM Invariant == PlainCalls /\ GeneratorsFit => (Spec => []IInv)
<1> SUFFICES ASSUME PlainCalls, GeneratorsFit PROVE Spec => []IInv
  OBVIOUS
<1>1. Init => IInv
  BY InitInv
<1>2. IInv /\ [Next]_vars => IInv'
  BY StepKeeps
<1> QED
  BY <1>1, <1>2, PTL DEF Spec

(* What the invariant says of the words in registers gives their types.    *)
LEMMA InvTypes == IInv => TypeOK
<1> SUFFICES ASSUME IInv PROVE TypeOK
  OBVIOUS
<1>1. PICK fr \in Seq(Frame) : Good(stack, mem, fn, fp, mode, gens, fr)
  BY DEF IInv
<1>2. PICK h : h = Top(fr)
  OBVIOUS
<1>3. /\ h \in Frame /\ stack \in Seq(Words) /\ Len(stack) \in Nat /\ Size = Len(stack)
      /\ Size \in StackSize..MaxStack /\ mem \in Nat /\ mode \in Modes
      /\ fn = h.fn /\ fp = (IF mode = "chk" THEN BaseOf(h) ELSE h.fp)
      /\ (OfGenerator(h) \/ ~OfGenerator(h))
  BY <1>1, <1>2, ShapeIs DEF Good, Size, TopIs
<1>4. /\ fn \in Fns /\ h.fp \in Nat /\ BaseOf(h) \in Nat /\ BaseOf(h) = h.fp + RetSize[fn]
      /\ h.fp < EndOf(h) /\ EndOf(h) <= h.fp + FrameSize[fn] /\ EndOf(h) \in Nat
  BY <1>3, FrameIs
<1>5. RetSize[fn] \in Nat /\ NumParams[fn] \in Nat /\ FrameSize[fn] \in Nat
  BY <1>4, Layout
<1>6. fp \in 0..(Size - 1)
  <2>1. CASE mode \in {"chk", "overflow", "oom"}
    <3>1. BaseOf(h) + 4 + NumParams[fn] <= Size
      BY <1>1, <1>2, <1>3, <2>1 DEF Good, Fits
    <3>2. PICK b, q, r, n : b = BaseOf(h) /\ q = h.fp /\ r = RetSize[fn] /\ n = NumParams[fn]
      OBVIOUS
    <3>3. b \in Nat /\ q \in Nat /\ r \in Nat /\ n \in Nat /\ Size \in Nat /\ b = q + r /\ b + 4 + n <= Size
      BY <1>3, <1>4, <1>5, <3>1, <3>2
    <3>4. b \in 0..(Size - 1) /\ q \in 0..(Size - 1)
      BY <3>3
    <3> QED
      BY <1>3, <3>2, <3>4
  <2>2. CASE mode \notin {"chk", "overflow", "oom"}
    <3>1. Roomy(stack, h)
      BY <1>1, <1>2, <2>2 DEF Good, Fits
    <3>2. Spare(fn) \in Nat
      BY DEF Spare
    <3>3. h.fp + FrameSize[fn] <= Size
      BY <1>3, <1>4, <1>5, <3>1, <3>2 DEF Roomy
    <3> QED
      BY <1>3, <1>4, <1>5, <2>2, <3>3
  <2> QED
    BY <2>1, <2>2
<1>7. ASSUME NEW r \in 0..(Size - 1) PROVE At(r)[1] \in {"undef", "data", "ptr", "pc", "info", "gen"}
  <2>1. At(r) \in Words
    BY <1>3, WordIs, AtIs
  <2> QED
    BY <2>1, WordsAre
<1> QED
  BY <1>3, <1>4, <1>6, <1>7 DEF TypeOK, Modes

(* No instruction takes a register for what it is not, and the frame       *)
(* register stays in the stack.                                            *)
THEOREM TypesHold == PlainCalls /\ GeneratorsFit => (Spec => []TypeOK)
<1> SUFFICES ASSUME PlainCalls, GeneratorsFit PROVE Spec => []TypeOK
  OBVIOUS
<1>1. Spec => []IInv
  BY Invariant
<1> QED
  BY <1>1, InvTypes, PTL

(* The invariant at work: pointers refer to variables of active frames.    *)
LEMMA InvPointers == IInv => NoStalePointers
<1> SUFFICES ASSUME IInv PROVE NoStalePointers
  OBVIOUS
<1>1. PICK fr \in Seq(Frame) : Good(stack, mem, fn, fp, mode, gens, fr)
  BY DEF IInv
<1>2. Shape(fr) /\ mem \in Nat /\ mode # "undefined"
  BY <1>1 DEF Good, Modes
<1>3. PICK b, n : b = Backwards(fr) /\ n = Len(fr)
  OBVIOUS
<1>4. /\ Activations = b /\ DOMAIN b = 1..n
      /\ \A i \in 1..n : n + 1 - i \in 1..n /\ b[i] = Ctx(fr, n + 1 - i)
  <2>1. Chain("return") = Backwards(fr)
    BY <1>1, ChainIs
  <2> QED
    BY <1>2, <1>3, <2>1, BackwardsIs DEF Activations
<1>5. ASSUME NEW cx \in Range(Activations), NEW l \in PtrLocals[cx.fn], At(LocalReg(cx, l)) # Undef
      PROVE  At(LocalReg(cx, l))[2] = mem
  <2>1. PICK i \in 1..n : cx = b[i]
    BY <1>4 DEF Range
  <2>2. PICK k : k = n + 1 - i
    OBVIOUS
  <2>3. k \in 1..Len(fr) /\ cx = Ctx(fr, k)
    BY <1>3, <1>4, <2>1, <2>2
  <2>4. cx.fn = fr[k].fn /\ cx.fp = fr[k].fp /\ fr[k] \in Frame
    BY <1>2, <2>3, ShapeIs DEF Ctx, Context
  <2>5. LocalReg(cx, l) = RegOf(fr[k], l)
    BY <2>4 DEF LocalReg, RegOf
  <2>6. l \in Locals(fr[k]) /\ l \in PtrLocals[fr[k].fn]
    BY <2>4, FrameIs, Layout DEF Locals
  <2>7. LocalOk(stack, mem, fr, k, l)
    BY <1>1, <2>3, <2>6 DEF Good, FrameOk
  <2>8. Target(mem, fr, k, At(LocalReg(cx, l)))
    BY <1>5, <2>5, <2>6, <2>7, AtIs DEF LocalOk
  <2> QED
    BY <1>2, <2>3, <2>8, TargetIs
<1> QED
  BY <1>2, <1>5 DEF NoStalePointers

(* No pointer of an active function points into memory that the stack has  *)
(* left, whatever the growth had to move.                                  *)
THEOREM NoPointerIsStale == PlainCalls /\ GeneratorsFit => (Spec => []NoStalePointers)
<1> SUFFICES ASSUME PlainCalls, GeneratorsFit PROVE Spec => []NoStalePointers
  OBVIOUS
<1>1. Spec => []IInv
  BY Invariant
<1> QED
  BY <1>1, InvPointers, PTL

(* The invariant at work: the running frame has the room it was checked for.*)
LEMMA InvBounds == IInv => InBounds
<1> SUFFICES ASSUME IInv, mode \in {"run", "result", "host"} PROVE fp + FrameSize[fn] <= Size
  BY DEF InBounds
<1>1. PICK fr \in Seq(Frame) : Good(stack, mem, fn, fp, mode, gens, fr)
  BY DEF IInv
<1>2. mode \in Settled
  BY DEF Settled, Modes
<1>3. /\ Roomy(stack, Top(fr)) /\ Size = Len(stack) /\ Size \in Nat /\ fn = Top(fr).fn /\ fp = Top(fr).fp
      /\ Top(fr) \in Frame
  BY <1>1, <1>2, BodyIs
<1>4. fn \in Fns /\ fp \in Nat /\ FrameSize[fn] \in Nat /\ Spare(fn) \in Nat
  BY <1>3, FrameIs, Layout DEF Spare
<1> QED
  BY <1>3, <1>4 DEF Roomy

(* The registers a running function and its calls use are in the stack,    *)
(* those of generators too, which no CHK_STK checks.                       *)
THEOREM FunctionsStayInBounds == PlainCalls /\ GeneratorsFit => (Spec => []InBounds)
<1> SUFFICES ASSUME PlainCalls, GeneratorsFit PROVE Spec => []InBounds
  OBVIOUS
<1>1. Spec => []IInv
  BY Invariant
<1> QED
  BY <1>1, InvBounds, PTL

(* The invariant at work: an unwinding of the chain of frames.             *)
LEMMA InvTrace == IInv => TraceIsTheCalls
<1> SUFFICES ASSUME IInv, trace # <<>> PROVE LET acts == Activations IN trace = [d \in 1..Len(acts) |-> acts[d].fn]
  BY DEF TraceIsTheCalls
<1>1. PICK fr \in Seq(Frame) : Good(stack, mem, fn, fp, mode, gens, fr) /\ Traced(trace, mode, fr)
  BY DEF IInv
<1>2. Shape(fr)
  BY <1>1 DEF Good
<1>3. PICK b, n : b = Backwards(fr) /\ n = Len(fr)
  OBVIOUS
<1>4. Activations = b /\ Len(b) = n /\ \A i \in 1..n : b[i] = Ctx(fr, n + 1 - i)
  <2>1. Chain("return") = Backwards(fr)
    BY <1>1, ChainIs
  <2> QED
    BY <1>2, <1>3, <2>1, BackwardsIs DEF Activations
<1>5. \A i \in 1..n : b[i].fn = fr[n + 1 - i].fn
  BY <1>4 DEF Ctx, Context
<1>6. trace = [i \in 1..n |-> fr[n + 1 - i].fn]
  BY <1>1, <1>3 DEF Traced
<1>7. trace = [i \in 1..n |-> b[i].fn]
  BY <1>5, <1>6
<1> QED
  BY <1>4, <1>7

(* The trace of a panic lists the functions that were active, innermost    *)
(* first, those that generators were resumed from included.                *)
THEOREM PanicsNameTheCalls == PlainCalls /\ GeneratorsFit => (Spec => []TraceIsTheCalls)
<1> SUFFICES ASSUME PlainCalls, GeneratorsFit PROVE Spec => []TraceIsTheCalls
  OBVIOUS
<1>1. Spec => []IInv
  BY Invariant
<1> QED
  BY <1>1, InvTrace, PTL
-----------------------------------------------------------------------------
(***************************************************************************)
(* Frames implements CallStack.                                            *)
(***************************************************************************)

(* What a word of the stack means to the program, when the stack was moved *)
(* m times and the frames are fr: as AbsWord.                              *)
RefsTo(m, fr, w) ==
  {p \in UNION {{d} \X (1..NumLocals[fr[d].fn]) : d \in 1..Len(fr)} :
     w[2] = m /\ RegOf(fr[p[1]], p[2]) = w[3]}
Means(m, fr, w) == Meaning(w, RefsTo(m, fr, w))
Act(s, m, fr, d) ==
  [fn |-> fr[d].fn, gen |-> IF OfGenerator(fr[d]) THEN Word(s, BaseOf(fr[d]) + 2)[2] ELSE 0,
   locals |-> [l \in 1..NumLocals[fr[d].fn] |-> Means(m, fr, Word(s, RegOf(fr[d], l)))]]
View(s, m, fr) == [d \in 1..Len(fr) |-> Act(s, m, fr, d)]

(* A register that holds no pointer.                                       *)
Plain(w) == IF w = Undef THEN <<"unset">> ELSE w
ResultOf(s, md, fr) == IF md = "result" THEN Plain(Word(s, EndOf(Top(fr)))) ELSE <<"unset">>

GenView(o) ==
  [fn |-> o.fn,
   locals |-> [l \in 1..NumLocals[o.fn] |-> IF l <= NumParams[o.fn] THEN Plain(o.frame[l]) ELSE <<"unset">>],
   status |-> IF o.running THEN "running" ELSE IF o.done THEN "done" ELSE "paused"]
GensView(G) == [g \in 1..Len(G) |-> GenView(G[g])]

(* What the frames do not say: a result is in its register, and the caller *)
(* has room for it; and the frame of a generator names one of its function. *)
Results == DataWords \cup {Handle(g) : g \in Nat}
Resumed(s, G, f) ==
  \E g \in 1..Len(G) : Word(s, BaseOf(f) + 2) = Handle(g) /\ G[g].fn = f.fn
Promised(s, md, G, fr) ==
  /\ md = "result" => Word(s, EndOf(Top(fr))) \in Results
  /\ md = "host" => Callees[Top(fr).fn] # {}
  /\ md \in {"result", "host"} => ~OfGenerator(Top(fr))
  /\ OfGenerator(Top(fr)) => Resumed(s, G, Top(fr))

Seen == \A fr : Good(stack, mem, fn, fp, mode, gens, fr) /\ Promised(stack, mode, gens, fr) =>
          /\ AbsCalls = View(stack, mem, fr)
          /\ AbsResult = ResultOf(stack, mode, fr)
          /\ AbsGens = GensView(gens)

LEMMA PlainIs ==
  ASSUME NEW a, NEW w, w = Undef \/ w[1] # "ptr"
  PROVE  AbsWord(a, w) = Plain(w)
  BY DEF AbsWord, Meaning, Plain

LEMMA GensAreSeen ==
  ASSUME Len(gens) \in Nat, GenObjects(gens)
  PROVE  AbsGens = GensView(gens)
<1>1. DOMAIN gens = 1..Len(gens)
  BY DEF GenObjects
<1>2. ASSUME NEW g \in 1..Len(gens)
      PROVE  /\ Len(gens[g].frame) = NumParams[gens[g].fn]
             /\ \A l \in 1..NumLocals[gens[g].fn] : l <= NumParams[gens[g].fn] =>
                  AbsWord(<<>>, gens[g].frame[l]) = Plain(gens[g].frame[l])
  <2>1. PICK o : o = gens[g]
    OBVIOUS
  <2>2. o.fn \in Fns /\ o.frame \in [1..NumParams[o.fn] -> LocalWords]
    BY <2>1, FramesAssumption DEF GenObjects, ObjectOk
  <2>3. NumParams[o.fn] \in Nat
    BY <2>2, Layout
  <2>4. Len(o.frame) = NumParams[o.fn]
    BY <2>2, <2>3
  <2>5. ASSUME NEW l \in 1..NumLocals[o.fn], l <= NumParams[o.fn] PROVE AbsWord(<<>>, o.frame[l]) = Plain(o.frame[l])
    <3>1. l \in 1..NumParams[o.fn]
      BY <2>2, <2>3, <2>5, Layout
    <3>2. o.frame[l] = Undef \/ o.frame[l][1] # "ptr"
      BY <2>2, <3>1, WordsAre
    <3> QED
      BY <3>2, PlainIs
  <2> QED
    BY <2>1, <2>4, <2>5
<1>3. ASSUME NEW g \in 1..Len(gens)
      PROVE  [l \in 1..NumLocals[gens[g].fn] |->
                IF l <= Len(gens[g].frame) THEN AbsWord(<<>>, gens[g].frame[l]) ELSE <<"unset">>]
           = [l \in 1..NumLocals[gens[g].fn] |->
                IF l <= NumParams[gens[g].fn] THEN Plain(gens[g].frame[l]) ELSE <<"unset">>]
  BY <1>2
<1> QED
  BY <1>1, <1>3 DEF AbsGens, GensView, GenView

LEMMA ResultIsSeen ==
  ASSUME NEW fr, Good(stack, mem, fn, fp, mode, gens, fr), Promised(stack, mode, gens, fr)
  PROVE  AbsResult = ResultOf(stack, mode, fr)
<1>1. CASE mode # "result"
  BY <1>1 DEF AbsResult, ResultOf
<1>2. CASE mode = "result"
  <2>1. fp + FrameTop[fn] = EndOf(Top(fr))
    BY <1>2, BodyIs DEF Settled, Modes
  <2>2. PICK w : w = Word(stack, EndOf(Top(fr)))
    OBVIOUS
  <2>3. w \in Results
    BY <1>2, <2>2 DEF Promised
  <2>4. w[1] # "ptr"
    BY <2>3 DEF Results, DataWords, Datum, Handle
  <2>5. At(fp + FrameTop[fn]) = w
    BY <2>1, <2>2, AtIs
  <2> QED
    BY <1>2, <2>2, <2>4, <2>5, PlainIs DEF AbsResult, ResultOf
<1> QED
  BY <1>1, <1>2

LEMMA CallsAreSeen ==
  ASSUME NEW fr, Good(stack, mem, fn, fp, mode, gens, fr)
  PROVE  AbsCalls = View(stack, mem, fr)
<1>1. Shape(fr) /\ mode # "undefined"
  BY DEF Good, Modes
<1>2. Activations = Backwards(fr)
  BY ChainIs DEF Activations
<1>3. PICK acts : acts = Reverse(Activations)
  OBVIOUS
<1>4. Len(fr) \in Nat \ {0} /\ \A d \in 1..Len(fr) : fr[d] \in Frame
  BY <1>1, ShapeIs
<1>5. acts = [d \in 1..Len(fr) |-> Ctx(fr, d)]
  <2>1. PICK n, b : n = Len(fr) /\ b = Backwards(fr)
    OBVIOUS
  <2>2. Len(b) = n /\ \A k \in 1..n : b[n - k + 1] = Ctx(fr, k)
    <3>1. ASSUME NEW k \in 1..n PROVE b[n - k + 1] = Ctx(fr, k)
      <4>1. n + 1 - k = n - k + 1
        BY <1>4, <2>1
      <4>2. b[n + 1 - k] = Ctx(fr, k)
        BY <1>1, <2>1, BackwardsIs
      <4> QED
        BY <4>1, <4>2
    <3> QED
      BY <1>1, <2>1, <3>1, BackwardsIs
  <2>3. Reverse(b) = [k \in 1..n |-> b[n - k + 1]]
    BY <2>2 DEF Reverse
  <2>4. acts = [k \in 1..n |-> b[n - k + 1]]
    BY <1>2, <1>3, <2>1, <2>3
  <2> QED
    BY <2>1, <2>2, <2>4
<1>6. ASSUME NEW d \in 1..Len(fr), NEW l
      PROVE  LocalReg(acts[d], l) = RegOf(fr[d], l) /\ acts[d].fn = fr[d].fn
  BY <1>5, <1>6 DEF LocalReg, RegOf, Ctx, Context
<1>7. Len(acts) = Len(fr)
  BY <1>4, <1>5
<1>8. ASSUME NEW w PROVE AbsWord(acts, w) = Means(mem, fr, w)
  <2>1. UNION {{d} \X (1..NumLocals[acts[d].fn]) : d \in 1..Len(acts)}
          = UNION {{d} \X (1..NumLocals[fr[d].fn]) : d \in 1..Len(fr)}
    BY <1>6, <1>7
  <2>2. PICK P : P = UNION {{d} \X (1..NumLocals[fr[d].fn]) : d \in 1..Len(fr)}
    OBVIOUS
  <2>3. \A p \in P : LocalReg(acts[p[1]], p[2]) = RegOf(fr[p[1]], p[2])
    BY <1>6, <2>2
  <2>4. {p \in P : w[2] = mem /\ LocalReg(acts[p[1]], p[2]) = w[3]} = RefsTo(mem, fr, w)
    BY <2>2, <2>3 DEF RefsTo
  <2>5. {p \in UNION {{d} \X (1..NumLocals[acts[d].fn]) : d \in 1..Len(acts)} :
            w[2] = mem /\ LocalReg(acts[p[1]], p[2]) = w[3]} = RefsTo(mem, fr, w)
    BY <2>1, <2>2, <2>4
  <2> QED
    BY <2>5 DEF AbsWord, Means
<1>9. ASSUME NEW d \in 1..Len(fr) PROVE AbsActivation(acts, acts[d]) = Act(stack, mem, fr, d)
  <2>1. acts[d] = Ctx(fr, d) /\ acts[d].fn = fr[d].fn /\ Base(acts[d]) = BaseOf(fr[d])
    BY <1>5 DEF Ctx, Context, Base, BaseOf
  <2>2. IsGenFrame(Ctx(fr, d)) <=> OfGenerator(fr[d])
    <3>1. CASE d = 1
      BY <1>1, <3>1 DEF Shape, IsGenFrame, Ctx, Context, OfGenerator
    <3>2. CASE d # 1
      <4>1. d \in 2..Len(fr)
        BY <1>4, <3>2
      <4> QED
        BY <4>1, StepIs
    <3> QED
      BY <3>1, <3>2
  <2>3. At(Base(acts[d]) + 2) = Word(stack, BaseOf(fr[d]) + 2)
    BY <2>1, AtIs
  <2>4. \A l : AbsWord(acts, At(LocalReg(acts[d], l))) = Means(mem, fr, Word(stack, RegOf(fr[d], l)))
    BY <1>6, <1>8, AtIs
  <2> QED
    BY <2>1, <2>2, <2>3, <2>4 DEF AbsActivation, Act
<1>10. [d \in 1..Len(acts) |-> AbsActivation(acts, acts[d])] = View(stack, mem, fr)
  BY <1>7, <1>9 DEF View
<1> QED
  BY <1>1, <1>3, <1>10 DEF AbsCalls, Applied

LEMMA AllIsSeen == Seen
  BY CallsAreSeen, ResultIsSeen, GensAreSeen DEF Seen, Good

LEMMA AllIsSeenNext == Seen'
  BY AllIsSeen, PTL

LEMMA SeenNow ==
  ASSUME NEW fr, Good(stack, mem, fn, fp, mode, gens, fr), Promised(stack, mode, gens, fr)
  PROVE  AbsCalls = View(stack, mem, fr) /\ AbsResult = ResultOf(stack, mode, fr) /\ AbsGens = GensView(gens)
  BY AllIsSeen DEF Seen

LEMMA SeenNext ==
  ASSUME NEW fr, Good(stack', mem', fn', fp', mode', gens', fr), Promised(stack', mode', gens', fr)
  PROVE  AbsCalls' = View(stack', mem', fr) /\ AbsResult' = ResultOf(stack', mode', fr) /\ AbsGens' = GensView(gens')
  BY AllIsSeenNext DEF Seen

-----------------------------------------------------------------------------
(* What words mean.                                                        *)
LEMMA MeansIs ==
  ASSUME NEW fr, Shape(fr), NEW m \in Nat
  PROVE  /\ Means(m, fr, Undef) = <<"unset">>
         /\ \A w \in DataWords : Means(m, fr, w) = w
         /\ \A g : Means(m, fr, Handle(g)) = Handle(g)
         /\ \A c \in 1..Len(fr) : \A k \in Locals(fr[c]) :
              Means(m, fr, Addr(m, RegOf(fr[c], k))) = <<"ref", c, k>>
<1>1. Means(m, fr, Undef) = <<"unset">>
  BY DEF Means, Meaning
<1>2. ASSUME NEW w \in DataWords PROVE Means(m, fr, w) = w
  <2>1. w # Undef /\ w[1] # "ptr"
    BY DEF DataWords, Datum, Undef
  <2> QED
    BY <2>1 DEF Means, Meaning
<1>3. ASSUME NEW g PROVE Means(m, fr, Handle(g)) = Handle(g)
  <2>1. Handle(g) # Undef /\ Handle(g)[1] # "ptr"
    BY DEF Handle, Undef
  <2> QED
    BY <2>1 DEF Means, Meaning
<1>4. ASSUME NEW c \in 1..Len(fr), NEW k \in Locals(fr[c])
      PROVE  Means(m, fr, Addr(m, RegOf(fr[c], k))) = <<"ref", c, k>>
  <2>1. PICK r, w, R : r = RegOf(fr[c], k) /\ w = Addr(m, r) /\ R = RefsTo(m, fr, w)
    OBVIOUS
  <2>2. r \in Nat
    BY <1>4, <2>1, LocalsApart
  <2>3. w # Undef /\ w[1] = "ptr" /\ w[2] = m /\ w[3] = r
    BY <2>1 DEF Addr, Undef
  <2>4. ASSUME NEW p \in R PROVE p[1] = c /\ p[2] = k
    <3>1. PICK d \in 1..Len(fr) : p \in {d} \X (1..NumLocals[fr[d].fn]) /\ RegOf(fr[p[1]], p[2]) = r
      BY <2>1, <2>3 DEF RefsTo
    <3>2. p[1] = d /\ p[2] \in Locals(fr[d])
      BY <3>1 DEF Locals
    <3>3. RegOf(fr[c], k) = RegOf(fr[d], p[2])
      BY <2>1, <3>1, <3>2
    <3>4. \A j \in Locals(fr[d]) : RegOf(fr[c], k) = RegOf(fr[d], j) => c = d /\ k = j
      BY <1>4, LocalsApart, ZenonT(60)
    <3> QED
      BY <3>2, <3>3, <3>4
  <2>5. <<c, k>> \in R
    <3>1. <<c, k>> \in {c} \X (1..NumLocals[fr[c].fn])
      BY DEF Locals
    <3>2. <<c, k>> \in UNION {{d} \X (1..NumLocals[fr[d].fn]) : d \in 1..Len(fr)}
      BY <3>1
    <3> QED
      BY <2>1, <2>3, <3>2 DEF RefsTo
  <2>6. PICK p : p = (CHOOSE q \in R : TRUE)
    OBVIOUS
  <2>7. p \in R
    BY <2>5, <2>6
  <2>8. Meaning(w, R) = <<"ref", p[1], p[2]>>
    BY <2>3, <2>5, <2>6 DEF Meaning
  <2> QED
    BY <2>1, <2>4, <2>7, <2>8 DEF Means
<1> QED
  BY <1>1, <1>2, <1>3, <1>4

LEMMA RefIs ==
  ASSUME NEW fr, Shape(fr), NEW m \in Nat, NEW c \in 1..Len(fr), NEW k \in Locals(fr[c])
  PROVE  Means(m, fr, Addr(m, RegOf(fr[c], k))) = <<"ref", c, k>>
<1>1. \A d \in 1..Len(fr) : \A l \in Locals(fr[d]) : Means(m, fr, Addr(m, RegOf(fr[d], l))) = <<"ref", d, l>>
  BY MeansIs
<1> QED
  BY <1>1

(* A word, and what it is when the stack was moved k times instead of m.   *)
Same(k, w, v) == IF w[1] = "ptr" THEN v = Addr(k, w[3]) ELSE v = w

(* An activation means the same wherever it and those below it are.        *)
LEMMA ActSame ==
  ASSUME NEW fr, NEW hr, Shape(fr), Shape(hr), NEW s, NEW t, NEW m \in Nat, NEW k \in Nat, NEW G,
         NEW n \in 1..Len(fr), n \in 1..Len(hr), \A c \in 1..n : hr[c] = fr[c],
         NEW d \in 1..n, FrameOk(s, m, G, fr, d),
         \A l \in Locals(fr[d]) : Same(k, Word(s, RegOf(fr[d], l)), Word(t, RegOf(fr[d], l))),
         OfGenerator(fr[d]) => Word(t, BaseOf(fr[d]) + 2) = Word(s, BaseOf(fr[d]) + 2)
  PROVE  Act(t, k, hr, d) = Act(s, m, fr, d)
<1>1. Len(fr) \in Nat /\ Len(hr) \in Nat /\ d \in 1..Len(fr) /\ d \in 1..Len(hr) /\ hr[d] = fr[d]
  BY ShapeIs
<1>2. ASSUME NEW l \in Locals(fr[d])
      PROVE  Means(k, hr, Word(t, RegOf(fr[d], l))) = Means(m, fr, Word(s, RegOf(fr[d], l)))
  <2>1. PICK w, v : w = Word(s, RegOf(fr[d], l)) /\ v = Word(t, RegOf(fr[d], l))
    OBVIOUS
  <2>2. LocalOk(s, m, fr, d, l) /\ Same(k, w, v)
    BY <1>2, <2>1 DEF FrameOk
  <2>3. w = Undef \/ w \in DataWords \/ Target(m, fr, d, w)
    BY <2>1, <2>2 DEF LocalOk, LocalWords
  <2>4. CASE w = Undef
    BY <2>1, <2>2, <2>4, MeansIs, WordsAre DEF Same
  <2>5. CASE w \in DataWords
    <3>1. w[1] # "ptr"
      BY <2>5 DEF DataWords, Datum
    <3> QED
      BY <2>1, <2>2, <2>5, <3>1, MeansIs DEF Same
  <2>6. CASE Target(m, fr, d, w)
    <3>1. PICK c \in 1..d : \E j \in Locals(fr[c]) \ PtrLocals[fr[c].fn] : w = Addr(m, RegOf(fr[c], j))
      BY <2>6 DEF Target
    <3>2. PICK j \in Locals(fr[c]) : w = Addr(m, RegOf(fr[c], j))
      BY <3>1
    <3>3. c \in 1..n /\ c \in 1..Len(fr) /\ c \in 1..Len(hr) /\ hr[c] = fr[c]
      BY <1>1
    <3>4. v = Addr(k, RegOf(hr[c], j))
      BY <2>2, <3>2, <3>3 DEF Same, Addr
    <3>5. Means(m, fr, w) = <<"ref", c, j>>
      BY <3>2, <3>3, MeansIs
    <3>6. Means(k, hr, v) = <<"ref", c, j>>
      <4>1. j \in Locals(hr[c])
        BY <3>2, <3>3
      <4>2. \A b \in 1..Len(hr) : \A i \in Locals(hr[b]) : Means(k, hr, Addr(k, RegOf(hr[b], i))) = <<"ref", b, i>>
        BY MeansIs
      <4> QED
        BY <3>3, <3>4, <4>1, <4>2
    <3> QED
      BY <2>1, <3>5, <3>6
  <2> QED
    BY <2>3, <2>4, <2>5, <2>6
<1> QED
  BY <1>1, <1>2 DEF Act, Locals

LEMMA ActKept ==
  ASSUME NEW fr, NEW hr, Shape(fr), Shape(hr), NEW s, NEW t, NEW m \in Nat, NEW G,
         NEW n \in 1..Len(fr), n \in 1..Len(hr), \A c \in 1..n : hr[c] = fr[c],
         NEW d \in 1..n, FrameOk(s, m, G, fr, d),
         \A x \in Nat : x < EndOf(fr[n]) => Word(t, x) = Word(s, x)
  PROVE  Act(t, m, hr, d) = Act(s, m, fr, d)
<1>1. /\ d \in 1..Len(fr) /\ fr[d] \in Frame /\ fr[n] \in Frame /\ (d = n \/ d < n) /\ d \in Nat /\ n \in Nat
      /\ d > 1 => fr[d].fn # Main
  BY ShapeIs
<1>2. EndOf(fr[d]) <= EndOf(fr[n]) /\ EndOf(fr[d]) \in Nat /\ EndOf(fr[n]) \in Nat
  <2>1. d < n => EndOf(fr[d]) <= fr[n].fp
    BY <1>1 DEF Shape
  <2>2. fr[n].fp \in Nat /\ EndOf(fr[n]) \in Nat /\ fr[n].fp <= EndOf(fr[n]) /\ EndOf(fr[d]) \in Nat
    BY <1>1, FrameIs
  <2> QED
    BY <1>1, <2>1, <2>2
<1>3. \A x \in Nat : x < EndOf(fr[d]) => Word(t, x) = Word(s, x)
  BY <1>2
<1>4. ASSUME NEW l \in Locals(fr[d])
      PROVE  Same(m, Word(s, RegOf(fr[d], l)), Word(t, RegOf(fr[d], l)))
  <2>1. RegOf(fr[d], l) \in Nat /\ RegOf(fr[d], l) < EndOf(fr[d])
    BY <1>1, <1>4, RegIs
  <2>2. PICK w : w = Word(s, RegOf(fr[d], l))
    OBVIOUS
  <2>3. LocalOk(s, m, fr, d, l)
    BY <1>4 DEF FrameOk
  <2>4. w = Undef \/ w \in DataWords \/ Target(m, fr, d, w)
    BY <2>2, <2>3 DEF LocalOk, LocalWords
  <2>5. w[1] = "ptr" => w = Addr(m, w[3])
    BY <2>4, WordsAre DEF Target, Addr, DataWords, Datum
  <2> QED
    BY <1>3, <2>1, <2>2, <2>5 DEF Same
<1>5. OfGenerator(fr[d]) => Word(t, BaseOf(fr[d]) + 2) = Word(s, BaseOf(fr[d]) + 2)
  <2> SUFFICES ASSUME OfGenerator(fr[d]) PROVE Word(t, BaseOf(fr[d]) + 2) = Word(s, BaseOf(fr[d]) + 2)
    OBVIOUS
  <2>1. d # 1
    BY DEF OfGenerator, Shape
  <2>2. fr[d].fn # Main
    BY <1>1, <2>1
  <2>3. BaseOf(fr[d]) + 2 \in Nat /\ BaseOf(fr[d]) + 2 < EndOf(fr[d])
    BY <1>1, <2>2, FrameIs, SMTT(20)
  <2> QED
    BY <1>3, <2>3
<1> QED
  BY <1>4, <1>5, ActSame

-----------------------------------------------------------------------------
(* The activations, as calls and returns change them.                      *)
LEMMA ViewIs ==
  ASSUME NEW s, NEW m, NEW fr, Shape(fr)
  PROVE  /\ Len(View(s, m, fr)) = Len(fr) /\ DOMAIN View(s, m, fr) = 1..Len(fr)
         /\ \A d \in 1..Len(fr) : View(s, m, fr)[d] = Act(s, m, fr, d)
         /\ View(s, m, fr) \in Seq({Act(s, m, fr, d) : d \in 1..Len(fr)})
<1>1. Len(fr) \in Nat
  BY ShapeIs
<1>2. PICK n, T : n = Len(fr) /\ T = {Act(s, m, fr, d) : d \in 1..Len(fr)}
  OBVIOUS
<1>3. View(s, m, fr) \in [1..n -> T]
  BY <1>2 DEF View
<1> QED
  BY <1>1, <1>2, <1>3 DEF View

LEMMA ViewSame ==
  ASSUME NEW s, NEW m \in Nat, NEW G, NEW fr, Shape(fr), \A d \in 1..Len(fr) : FrameOk(s, m, G, fr, d),
         NEW t, \A x \in Nat : x < EndOf(Top(fr)) => Word(t, x) = Word(s, x)
  PROVE  View(t, m, fr) = View(s, m, fr)
<1>1. Len(fr) \in 1..Len(fr) /\ Top(fr) = fr[Len(fr)]
  BY ShapeIs
<1>2. ASSUME NEW d \in 1..Len(fr) PROVE Act(t, m, fr, d) = Act(s, m, fr, d)
  BY <1>1, ActKept
<1> QED
  BY <1>2 DEF View

Pushes(u, v, a) == Len(v) = Len(u) + 1 /\ Front(v) = u /\ Last(v) = a /\ v = Append(u, a)

LEMMA ViewPushed ==
  ASSUME NEW s, NEW m \in Nat, NEW G, NEW fr, Shape(fr), \A d \in 1..Len(fr) : FrameOk(s, m, G, fr, d),
         NEW h, NEW hr, Shape(hr), Len(hr) = Len(fr) + 1, \A c \in 1..Len(fr) : hr[c] = fr[c],
         NEW t, \A x \in Nat : x < EndOf(Top(fr)) => Word(t, x) = Word(s, x)
  PROVE  Pushes(View(s, m, fr), View(t, m, hr), Act(t, m, hr, Len(hr)))
<1>1. Len(fr) \in 1..Len(fr) /\ Top(fr) = fr[Len(fr)] /\ Len(fr) \in Nat \ {0} /\ Len(hr) \in Nat /\ Len(fr) \in 1..Len(hr)
  BY ShapeIs
<1>2. ASSUME NEW d \in 1..Len(fr) PROVE Act(t, m, hr, d) = Act(s, m, fr, d)
  BY <1>1, ActKept
<1>3. PICK n, u, v, a, T : /\ n = Len(fr) /\ u = View(s, m, fr) /\ v = View(t, m, hr) /\ a = Act(t, m, hr, n + 1)
                           /\ T = {Act(t, m, hr, d) : d \in 1..Len(hr)}
  OBVIOUS
<1>4. /\ Len(u) = n /\ Len(v) = n + 1 /\ n \in Nat /\ u = [d \in 1..n |-> u[d]] /\ v = [d \in 1..(n + 1) |-> v[d]]
      /\ \A d \in 1..n : v[d] = u[d]
      /\ v[n + 1] = a /\ v \in Seq(T) /\ a \in T
  <2>1. /\ Len(u) = n /\ Len(v) = n + 1 /\ n \in Nat /\ u = [d \in 1..n |-> u[d]] /\ v = [d \in 1..(n + 1) |-> v[d]]
        /\ v \in Seq(T)
    BY <1>1, <1>3, ViewIs DEF View
  <2>2. ASSUME NEW d \in 1..n PROVE v[d] = u[d]
    <3>1. d \in 1..Len(fr) /\ d \in 1..Len(hr)
      BY <1>1, <1>3
    <3>2. v[d] = Act(t, m, hr, d) /\ u[d] = Act(s, m, fr, d)
      BY <1>3, <3>1, ViewIs
    <3> QED
      BY <1>2, <3>1, <3>2
  <2>3. n + 1 \in 1..Len(hr)
    BY <1>1, <1>3
  <2>4. v[n + 1] = a
    BY <1>3, <2>3, ViewIs
  <2> QED
    BY <1>3, <2>1, <2>2, <2>3, <2>4
<1>5. u \in Seq(T)
  <2>1. \A d \in 1..n : v[d] \in T
    BY <1>4
  <2>2. \A d \in 1..n : u[d] \in T
    BY <1>4, <2>1
  <2> QED
    BY <1>4, <2>2
<1>6. Append(u, a) = v
  <2>1. Append(u, a) = [i \in 1..(Len(u) + 1) |-> IF i = Len(u) + 1 THEN a ELSE u[i]]
    BY <1>4, <1>5, AppendIs
  <2>2. ASSUME NEW i \in 1..(n + 1) PROVE v[i] = IF i = n + 1 THEN a ELSE u[i]
    <3>1. i = n + 1 \/ (i # n + 1 /\ i \in 1..n)
      BY <1>4
    <3> QED
      BY <1>4, <3>1
  <2> QED
    BY <1>4, <2>1, <2>2
<1>7. Front(v) = u
  <2>1. Front(v) = SubSeq(v, 1, n)
    BY <1>4 DEF Front
  <2>2. SubSeq(v, 1, n) = [i \in 1..n |-> v[i]]
    BY <1>4
  <2> QED
    BY <1>4, <2>1, <2>2
<1>8. Last(v) = a
  BY <1>4 DEF Last
<1> QED
  BY <1>3, <1>4, <1>6, <1>7, <1>8 DEF Pushes

LEMMA ViewPopped ==
  ASSUME NEW s, NEW m \in Nat, NEW G, NEW fr, Shape(fr), \A d \in 1..Len(fr) : FrameOk(s, m, G, fr, d),
         NEW hr, Shape(hr), Len(fr) = Len(hr) + 1, \A c \in 1..Len(hr) : hr[c] = fr[c],
         NEW t, \A x \in Nat : x < EndOf(Top(hr)) => Word(t, x) = Word(s, x)
  PROVE  View(t, m, hr) = Front(View(s, m, fr))
<1>1. Len(hr) \in 1..Len(hr) /\ Top(hr) = hr[Len(hr)] /\ Len(hr) \in Nat /\ Len(hr) \in 1..Len(fr)
  BY ShapeIs
<1>2. ASSUME NEW d \in 1..Len(hr) PROVE Act(t, m, hr, d) = Act(s, m, fr, d)
  <2>1. d \in 1..Len(fr)
    BY <1>1
  <2> QED
    BY <1>1, <2>1, ActKept
<1>3. PICK n, u, v, T : n = Len(hr) /\ u = View(s, m, fr) /\ v = View(t, m, hr) /\ T = {Act(s, m, fr, d) : d \in 1..Len(fr)}
  OBVIOUS
<1>4. u \in Seq(T) /\ Len(u) = n + 1 /\ n \in Nat /\ v = [d \in 1..n |-> v[d]] /\ \A d \in 1..n : v[d] = u[d]
  <2>1. u \in Seq(T) /\ Len(u) = n + 1 /\ n \in Nat /\ v = [d \in 1..n |-> v[d]]
    BY <1>1, <1>3, ViewIs DEF View
  <2>2. ASSUME NEW d \in 1..n PROVE v[d] = u[d]
    <3>1. d \in 1..Len(fr) /\ d \in 1..Len(hr)
      BY <1>1, <1>3
    <3>2. v[d] = Act(t, m, hr, d) /\ u[d] = Act(s, m, fr, d)
      BY <1>3, <3>1, ViewIs
    <3> QED
      BY <1>2, <3>1, <3>2
  <2> QED
    BY <2>1, <2>2
<1>5. Front(u) = SubSeq(u, 1, n)
  BY <1>4 DEF Front
<1>6. SubSeq(u, 1, n) = [i \in 1..n |-> u[i]]
  BY <1>4
<1> QED
  BY <1>3, <1>4, <1>5, <1>6

LEMMA OneRegister ==
  ASSUME NEW fr, Shape(fr), NEW c \in 1..Len(fr), NEW d \in 1..Len(fr),
         NEW l \in Locals(fr[c]), NEW k \in Locals(fr[d]), RegOf(fr[c], l) = RegOf(fr[d], k)
  PROVE  c = d /\ l = k
<1>1. \A j \in Locals(fr[d]) : RegOf(fr[c], l) = RegOf(fr[d], j) => c = d /\ l = j
  BY LocalsApart
<1> QED
  BY <1>1

Written(u, c, l, x) == [u EXCEPT ![c].locals[l] = x]

LEMMA ViewWritten ==
  ASSUME NEW s \in Seq(Words), NEW m \in Nat, NEW fr, Shape(fr),
         NEW c \in 1..Len(fr), NEW l \in Locals(fr[c]), NEW w \in Words, RegOf(fr[c], l) < Len(s)
  PROVE  View(Put(s, RegOf(fr[c], l), <<w>>), m, fr) = Written(View(s, m, fr), c, l, Means(m, fr, w))
<1>1. PICK r, t, n : r = RegOf(fr[c], l) /\ t = Put(s, r, <<w>>) /\ n = Len(fr)
  OBVIOUS
<1>2. n \in Nat /\ r \in Nat /\ \A d \in 1..n : fr[d] \in Frame /\ d \in Nat
  <2>1. RegOf(fr[c], l) \in Nat
    BY LocalsApart
  <2>2. Len(fr) \in Nat /\ \A d \in 1..Len(fr) : fr[d] \in Frame
    BY ShapeIs
  <2> QED
    BY <1>1, <2>1, <2>2
<1>3. Word(t, r) = w /\ \A x \in Nat : x # r => Word(t, x) = Word(s, x)
  BY <1>1, <1>2, PutOne
<1>4. ASSUME NEW d \in 1..n
      PROVE  /\ \A k \in Locals(fr[d]) :
                  Word(t, RegOf(fr[d], k)) = IF d = c /\ k = l THEN w ELSE Word(s, RegOf(fr[d], k))
             /\ OfGenerator(fr[d]) => Word(t, BaseOf(fr[d]) + 2) = Word(s, BaseOf(fr[d]) + 2)
  <2>1. ASSUME NEW k \in Locals(fr[d])
        PROVE  Word(t, RegOf(fr[d], k)) = IF d = c /\ k = l THEN w ELSE Word(s, RegOf(fr[d], k))
    <3>1. RegOf(fr[d], k) \in Nat /\ (r = RegOf(fr[d], k) => c = d /\ l = k)
      <4>1. d \in 1..Len(fr)
        BY <1>1
      <4>2. RegOf(fr[d], k) \in Nat
        BY <2>1, <4>1, LocalsApart
      <4>3. RegOf(fr[c], l) = RegOf(fr[d], k) => c = d /\ l = k
        BY <2>1, <4>1, OneRegister
      <4> QED
        BY <1>1, <4>2, <4>3
    <3> QED
      BY <1>1, <1>3, <3>1
  <2>2. ASSUME OfGenerator(fr[d]) PROVE Word(t, BaseOf(fr[d]) + 2) = Word(s, BaseOf(fr[d]) + 2)
    <3>1. d # 1
      BY <2>2 DEF OfGenerator, Shape
    <3>2. d > 1 /\ fr[d] \in Frame
      BY <1>2, <3>1
    <3>3. BaseOf(fr[d]) + 2 \in Nat
      BY <3>2, FrameIs
    <3>4. 2 \in 0..3
      OBVIOUS
    <3>5. d > 1 => \A i \in 0..3 : RegOf(fr[c], l) # BaseOf(fr[d]) + i
      BY <1>1, LocalsApart, ZenonT(60)
    <3>6. r # BaseOf(fr[d]) + 2
      BY <1>1, <3>2, <3>4, <3>5
    <3> QED
      BY <1>3, <3>3, <3>6
  <2> QED
    BY <2>1, <2>2
<1>5. PICK u, x : u = View(s, m, fr) /\ x = Means(m, fr, w)
  OBVIOUS
<1>6. u = [d \in 1..n |-> u[d]] /\ \A d \in 1..n : u[d] = Act(s, m, fr, d)
  BY <1>1, <1>5, ViewIs DEF View
<1>7. ASSUME NEW d \in 1..n PROVE Act(t, m, fr, d) = IF d = c THEN [u[c] EXCEPT !.locals[l] = x] ELSE u[d]
  <2>1. CASE d # c
    <3>1. \A k \in Locals(fr[d]) : Word(t, RegOf(fr[d], k)) = Word(s, RegOf(fr[d], k))
      BY <1>4, <2>1
    <3> QED
      BY <1>4, <1>6, <2>1, <3>1 DEF Act, Locals
  <2>2. CASE d = c
    <3>1. PICK f, g, a, b : /\ f = fr[c].fn
                            /\ g = IF OfGenerator(fr[c]) THEN Word(s, BaseOf(fr[c]) + 2)[2] ELSE 0
                            /\ a = [k \in 1..NumLocals[f] |-> Means(m, fr, Word(s, RegOf(fr[c], k)))]
                            /\ b = [k \in 1..NumLocals[f] |-> Means(m, fr, Word(t, RegOf(fr[c], k)))]
      OBVIOUS
    <3>2. u[c] = [fn |-> f, gen |-> g, locals |-> a]
      BY <1>6, <2>2, <3>1 DEF Act
    <3>3. Act(t, m, fr, c) = [fn |-> f, gen |-> g, locals |-> b]
      BY <1>4, <2>2, <3>1 DEF Act
    <3>4. b = [a EXCEPT ![l] = x]
      <4>1. \A k \in 1..NumLocals[f] : b[k] = IF k = l THEN x ELSE a[k]
        BY <1>4, <1>5, <2>2, <3>1 DEF Locals
      <4> QED
        BY <3>1, <4>1
    <3> QED
      BY <2>2, <3>2, <3>3, <3>4
  <2> QED
    BY <2>1, <2>2
<1>8. View(t, m, fr) = [d \in 1..n |-> IF d = c THEN [u[c] EXCEPT !.locals[l] = x] ELSE u[d]]
  BY <1>1, <1>7 DEF View
<1>9. View(t, m, fr) = [u EXCEPT ![c].locals[l] = x]
  BY <1>1, <1>6, <1>8
<1> QED
  BY <1>1, <1>5, <1>9 DEF Written

-----------------------------------------------------------------------------
(* Steps that leave the frames as they are.                                *)
LEMMA RegInStack ==
  ASSUME NEW fr, Good(stack, mem, fn, fp, mode, gens, fr), mode \in Settled,
         NEW c \in 1..Len(fr), NEW l \in Locals(fr[c])
  PROVE  RegOf(fr[c], l) \in Nat /\ RegOf(fr[c], l) < Len(stack)
<1>1. /\ Shape(fr) /\ fr[c] \in Frame /\ Len(fr) \in Nat /\ Len(stack) \in Nat /\ Top(fr) = fr[Len(fr)]
      /\ mode \notin {"chk", "overflow", "oom"}
  BY ShapeIs DEF Good, Settled, Top
<1>2. Roomy(stack, fr[c])
  <2>1. c \in 1..(Len(fr) - 1) \/ c = Len(fr)
    BY <1>1
  <2> QED
    BY <1>1, <2>1 DEF Good, Fits
<1>3. RegOf(fr[c], l) \in Nat /\ RegOf(fr[c], l) < EndOf(fr[c]) /\ EndOf(fr[c]) \in Nat
  BY <1>1, RegIs, FrameIs
<1>4. /\ fr[c].fp \in Nat /\ FrameTop[fr[c].fn] \in Nat /\ FrameSize[fr[c].fn] \in Nat
      /\ FrameTop[fr[c].fn] <= FrameSize[fr[c].fn]
  BY <1>1, FrameIs, Layout
<1>5. PICK k \in Nat : fr[c].fp + FrameSize[fr[c].fn] + k <= Len(stack)
  BY <1>2 DEF Roomy, Spare
<1>6. EndOf(fr[c]) <= Len(stack)
  BY <1>1, <1>4, <1>5 DEF EndOf
<1> QED
  BY <1>1, <1>3, <1>6

LEMMA ViewGrown ==
  ASSUME NEW fr, Good(stack, mem, fn, fp, mode, gens, fr), mode = "overflow",
         NEW p, NEW md, Good(Patched, mem + 1, fn, p, md, gens, fr)
  PROVE  View(Patched, mem + 1, fr) = View(stack, mem, fr)
<1>1. Shape(fr) /\ Len(fr) \in Nat /\ mem \in Nat /\ mem + 1 \in Nat /\ \A d \in 1..Len(fr) : fr[d] \in Frame
  BY ShapeIs DEF Good
<1>2. PICK t, k, n : t = Patched /\ k = mem + 1 /\ n = Len(fr)
  OBVIOUS
<1>3. \A r \in Nat : /\ Word(t, r) = At(r) \/ (At(r)[1] = "ptr" /\ Word(t, r) = Addr(k, At(r)[3]))
                     /\ At(r)[1] # "ptr" => Word(t, r) = At(r)
  BY <1>2, PatchedIs
<1>4. ASSUME NEW d \in 1..n PROVE Act(t, k, fr, d) = Act(stack, mem, fr, d)
  <2>1. FrameOk(stack, mem, gens, fr, d) /\ FrameOk(t, k, gens, fr, d)
    BY <1>2 DEF Good
  <2>2. ASSUME NEW l \in Locals(fr[d])
        PROVE  Same(k, Word(stack, RegOf(fr[d], l)), Word(t, RegOf(fr[d], l)))
    <3>1. PICK r, w, v : r = RegOf(fr[d], l) /\ w = Word(stack, r) /\ v = Word(t, r)
      OBVIOUS
    <3>2. r \in Nat /\ At(r) = w
      BY <1>1, <1>2, <2>2, <3>1, RegIs, AtIs
    <3>3. CASE w[1] # "ptr"
      BY <1>3, <3>1, <3>2, <3>3 DEF Same
    <3>4. CASE w[1] = "ptr"
      <4>1. LocalOk(stack, mem, fr, d, l) /\ LocalOk(t, k, fr, d, l)
        BY <2>1, <2>2 DEF FrameOk
      <4>2. w # Undef /\ w \notin LocalWords
        BY <3>4, WordsAre DEF LocalWords
      <4>3. l \in PtrLocals[fr[d].fn] /\ Target(mem, fr, d, w)
        BY <3>1, <4>1, <4>2 DEF LocalOk
      <4>4. w[2] = mem
        BY <1>1, <1>2, <4>3, TargetIs
      <4>5. CASE v = w
        <5>1. Target(k, fr, d, v)
          BY <3>1, <4>1, <4>2, <4>3, <4>5 DEF LocalOk
        <5>2. v[2] = k
          BY <1>1, <1>2, <5>1, TargetIs
        <5>3. mem # mem + 1
          BY <1>1
        <5> QED
          BY <1>2, <4>4, <4>5, <5>2, <5>3
      <4>6. CASE v # w
        BY <1>3, <3>1, <3>2, <3>4, <4>6 DEF Same
      <4> QED
        BY <4>5, <4>6
    <3> QED
      BY <3>1, <3>3, <3>4
  <2>3. OfGenerator(fr[d]) => Word(t, BaseOf(fr[d]) + 2) = Word(stack, BaseOf(fr[d]) + 2)
    <3> SUFFICES ASSUME OfGenerator(fr[d]) PROVE Word(t, BaseOf(fr[d]) + 2) = Word(stack, BaseOf(fr[d]) + 2)
      OBVIOUS
    <3>1. d # 1
      BY <1>1 DEF OfGenerator, Shape
    <3>2. d > 1
      BY <1>1, <1>2, <3>1
    <3>3. PICK r : r = BaseOf(fr[d]) + 2
      OBVIOUS
    <3>4. r \in Nat
      BY <1>1, <1>2, <3>3, FrameIs
    <3>5. \E g : Word(stack, r) = Handle(g)
      BY <2>1, <3>2, <3>3 DEF FrameOk, Linked
    <3>6. At(r)[1] # "ptr" /\ At(r) = Word(stack, r)
      BY <3>5, AtIs DEF Handle
    <3> QED
      BY <1>3, <3>3, <3>4, <3>6
  <2>4. n \in 1..Len(fr) /\ d \in 1..n
    BY <1>1, <1>2
  <2> QED
    BY <1>1, <1>2, <2>1, <2>2, <2>3, <2>4, ActSame
<1> QED
  BY <1>2, <1>4 DEF View

(* What is promised stays so when the registers of the frames do.          *)
LEMMA PromisedKept ==
  ASSUME NEW s, NEW m, NEW f, NEW p, NEW md, NEW G, NEW fr, Good(s, m, f, p, md, G, fr), Promised(s, md, G, fr),
         NEW t, \A x \in Nat : x < EndOf(Top(fr)) => Word(t, x) = Word(s, x),
         NEW me, me # "result", me = "host" => Callees[Top(fr).fn] # {} /\ ~OfGenerator(Top(fr))
  PROVE  Promised(t, me, G, fr)
<1>1. Shape(fr) /\ Top(fr) \in Frame /\ Len(fr) \in Nat \ {0} /\ Top(fr) = fr[Len(fr)]
  BY ShapeIs DEF Good, Top
<1>2. ASSUME OfGenerator(Top(fr)) PROVE Resumed(t, G, Top(fr))
  <2>1. PICK h : h = Top(fr)
    OBVIOUS
  <2>2. PICK g \in 1..Len(G) : Word(s, BaseOf(h) + 2) = Handle(g) /\ G[g].fn = h.fn
    BY <1>2, <2>1 DEF Promised, Resumed
  <2>3. Len(fr) # 1
    BY <1>1, <1>2 DEF OfGenerator, Shape
  <2>4. h.fn # Main
    <3>1. Len(fr) \in 2..Len(fr)
      BY <1>1, <2>3, OneOrMore
    <3> QED
      BY <1>1, <2>1, <3>1 DEF Shape
  <2>5. Word(t, BaseOf(h) + 2) = Word(s, BaseOf(h) + 2)
    BY <1>1, <2>1, <2>4, FrameIs
  <2> QED
    BY <2>1, <2>2, <2>5 DEF Resumed
<1> QED
  BY <1>2 DEF Promised


LEMMA Stutters ==
  ASSUME NEW fr \in Seq(Frame), Good(stack, mem, fn, fp, mode, gens, fr), Promised(stack, mode, gens, fr),
         Good(stack', mem', fn', fp', mode', gens', fr),
         Promised(stack', mode', gens', fr),
         View(stack', mem', fr) = View(stack, mem, fr), mode # "result", mode' # "result",
         gens' = gens, trace' = trace
  PROVE  UNCHANGED Abstract!vars
<1>1. AbsCalls = View(stack, mem, fr) /\ AbsResult = ResultOf(stack, mode, fr) /\ AbsGens = GensView(gens)
  BY SeenNow
<1>2. AbsCalls' = View(stack', mem', fr) /\ AbsResult' = ResultOf(stack', mode', fr) /\ AbsGens' = GensView(gens')
  BY SeenNext
<1>3. AbsResult' = AbsResult
  BY <1>1, <1>2 DEF ResultOf
<1> QED
  BY <1>1, <1>2, <1>3 DEF Abstract!vars

Follows == \E hr \in Seq(Frame) : /\ Good(stack', mem', fn', fp', mode', gens', hr)
                                  /\ Promised(stack', mode', gens', hr)

LEMMA QuietSteps ==
  ASSUME NEW fr \in Seq(Frame), Good(stack, mem, fn, fp, mode, gens, fr), Promised(stack, mode, gens, fr), PlainCalls,
         ChkStk \/ GrowInPlace \/ GrowMove \/ GrowFails \/ (\E how \in Hows : CallHost(how)) \/ HostPanic \/ Panic \/ End
  PROVE  Follows /\ UNCHANGED Abstract!vars
<1>1. Shape(fr) /\ mem \in Nat /\ \A d \in 1..Len(fr) : FrameOk(stack, mem, gens, fr, d)
  BY DEF Good
<1>2. CASE ChkStk
  <2>1. Good(stack', mem', fn', fp', mode', gens', fr)
    BY <1>2, ChkStkKeeps
  <2>2. UNCHANGED <<stack, mem, gens, trace>> /\ mode # "result" /\ mode' # "result" /\ mode' # "host"
    BY <1>2 DEF ChkStk
  <2>3. Promised(stack', mode', gens', fr)
    BY <2>2, PromisedKept
  <2> QED
    BY <2>1, <2>2, <2>3, Stutters DEF Follows
<1>3. CASE GrowInPlace
  <2>1. Good(stack', mem', fn', fp', mode', gens', fr) /\ \A x \in Nat : Word(stack', x) = Word(stack, x)
    BY <1>3, GrowInPlaceKeeps
  <2>2. UNCHANGED <<mem, gens, trace>> /\ mode # "result" /\ mode' # "result" /\ mode' # "host"
    BY <1>3 DEF GrowInPlace
  <2>3. Promised(stack', mode', gens', fr)
    BY <2>1, <2>2, PromisedKept
  <2>4. View(stack', mem', fr) = View(stack, mem, fr)
    BY <1>1, <2>1, <2>2, ViewSame
  <2> QED
    BY <2>1, <2>2, <2>3, <2>4, Stutters DEF Follows
<1>4. CASE GrowMove
  <2>1. /\ Good(stack', mem', fn', fp', mode', gens', fr)
        /\ stack' = Patched /\ mem' = mem + 1 /\ mode' = "chk" /\ mode = "overflow"
        /\ UNCHANGED <<fn, gens, trace>>
    BY <1>4, GrowMoveKeeps DEF GrowMove
  <2>2. ~OfGenerator(Top(fr))
    BY <2>1 DEF Good, Quiets, Starting
  <2>3. Promised(stack', mode', gens', fr)
    BY <2>1, <2>2 DEF Promised
  <2>4. View(stack', mem', fr) = View(stack, mem, fr)
    BY <2>1, ViewGrown
  <2> QED
    BY <2>1, <2>3, <2>4, Stutters DEF Follows
<1>5. CASE GrowFails
  <2>1. Good(stack', mem', fn', fp', mode', gens', fr)
    BY <1>5, GrowFailsKeeps
  <2>2. UNCHANGED <<stack, mem, gens, trace>> /\ mode # "result" /\ mode' # "result" /\ mode' # "host"
    BY <1>5 DEF GrowFails
  <2>3. Promised(stack', mode', gens', fr)
    BY <2>2, PromisedKept
  <2> QED
    BY <2>1, <2>2, <2>3, Stutters DEF Follows
<1>6. CASE \E how \in Hows : CallHost(how)
  <2>1. PICK how \in Hows : CallHost(how)
    BY <1>6
  <2>2. /\ Good(stack', mem', fn', fp', mode', gens', fr)
        /\ \A x \in Nat : x < EndOf(Top(fr)) => Word(stack', x) = Word(stack, x)
    BY <2>1, CallHostKeeps
  <2>3. UNCHANGED <<mem, gens, trace>> /\ mode = "run" /\ mode' = "host" /\ Callees[fn] # {} /\ MayCall(how)
    BY <2>1 DEF CallHost, MayCall, Body
  <2>4. fn = Top(fr).fn /\ ~OfGenerator(Top(fr))
    <3>1. mode \in Settled
      BY <2>3 DEF Settled, Modes
    <3> QED
      BY <2>3, <3>1, BodyIs DEF MayCall, PlainCalls
  <2>5. Promised(stack', mode', gens', fr)
    BY <2>2, <2>3, <2>4, PromisedKept
  <2>6. View(stack', mem', fr) = View(stack, mem, fr)
    BY <1>1, <2>2, <2>3, ViewSame
  <2> QED
    BY <2>2, <2>3, <2>5, <2>6, Stutters DEF Follows
<1>7. CASE HostPanic \/ Panic \/ End
  <2>1. Good(stack', mem', fn', fp', mode', gens', fr)
    BY <1>7, ModeOnlyKeeps
  <2>2. UNCHANGED <<stack, mem, gens, trace>> /\ mode # "result" /\ mode' # "result" /\ mode' # "host"
    BY <1>7 DEF HostPanic, Panic, End, Body
  <2>3. Promised(stack', mode', gens', fr)
    BY <2>2, PromisedKept
  <2> QED
    BY <2>1, <2>2, <2>3, Stutters DEF Follows
<1> QED
  BY <1>2, <1>3, <1>4, <1>5, <1>6, <1>7

-----------------------------------------------------------------------------
(* A write to a local.                                                     *)
LEMMA Runs ==
  ASSUME NEW fr, Good(stack, mem, fn, fp, mode, gens, fr), Promised(stack, mode, gens, fr), Traced(trace, mode, fr), mode = "run"
  PROVE  /\ Abstract!Running /\ Abstract!Depth = Len(fr) /\ Abstract!Top = Act(stack, mem, fr, Len(fr))
         /\ AbsCalls = View(stack, mem, fr) /\ AbsResult = <<"unset">> /\ trace = <<>> /\ Len(AbsCalls) = Len(fr)
<1>1. AbsCalls = View(stack, mem, fr) /\ AbsResult = ResultOf(stack, mode, fr)
  BY SeenNow
<1>2. Shape(fr) /\ Len(fr) \in 1..Len(fr)
  BY ShapeIs DEF Good
<1>3. Len(AbsCalls) = Len(fr) /\ AbsCalls[Len(fr)] = Act(stack, mem, fr, Len(fr))
  <2>1. Len(View(stack, mem, fr)) = Len(fr)
    BY <1>2, ViewIs
  <2>2. \A d \in 1..Len(fr) : View(stack, mem, fr)[d] = Act(stack, mem, fr, d)
    BY <1>2, ViewIs
  <2> QED
    BY <1>1, <1>2, <2>1, <2>2
<1>4. AbsResult = <<"unset">> /\ trace = <<>>
  BY <1>1 DEF ResultOf, Traced
<1> QED
  BY <1>1, <1>3, <1>4 DEF Abstract!Running, Abstract!Depth, Abstract!Top, Abstract!Unset

(* A pointer that the active function holds, and the address of one of its *)
(* variables, as references.                                               *)
LEMMA RefsAre ==
  ASSUME NEW fr, Good(stack, mem, fn, fp, mode, gens, fr), Promised(stack, mode, gens, fr), Traced(trace, mode, fr),
         mode = "run", PlainCalls
  PROVE  /\ \A p \in Pointers : \E c \in 1..Len(fr) : \E k \in Locals(fr[c]) \ PtrLocals[fr[c].fn] :
              p = Addr(mem, RegOf(fr[c], k)) /\ <<"ref", c, k>> \in Abstract!Refs /\ <<c, k>> \in Abstract!Places
         /\ \A p \in OwnAddrs : \E l \in Locals(Top(fr)) :
              p = Addr(mem, RegOf(Top(fr), l)) /\ <<"ref", Len(fr), l>> = Abstract!Ref(Abstract!Depth, l)
         /\ \A l \in Locals(Top(fr)) : <<Len(fr), l>> \in Abstract!Places
         /\ 1..Len(Abstract!Top.locals) = Locals(Top(fr))
<1>1. mode \in Settled
  BY DEF Settled, Modes
<1>2. /\ Shape(fr) /\ Top(fr) \in Frame /\ Top(fr) = fr[Len(fr)] /\ Len(fr) \in Nat \ {0} /\ Len(fr) \in 1..Len(fr)
      /\ fn = Top(fr).fn /\ \A l : Reg(l) = RegOf(Top(fr), l)
      /\ DataLocals = Locals(Top(fr)) \ PtrLocals[fn] /\ PtrLocals[fn] \subseteq Locals(Top(fr))
      /\ mem \in Nat /\ NumLocals[Top(fr).fn] \in Nat
  <2>1. Top(fr) \in Frame
    BY <1>1, BodyIs
  <2> QED
    BY <1>1, <2>1, BodyIs, FrameIs, Layout
<1>3. Abstract!Depth = Len(fr) /\ Abstract!Top = Act(stack, mem, fr, Len(fr))
  BY Runs
<1>4. PICK A : A = Abstract!Top.locals
  OBVIOUS
<1>5. A = [l \in Locals(Top(fr)) |-> Means(mem, fr, Word(stack, RegOf(Top(fr), l)))]
  BY <1>2, <1>3, <1>4 DEF Act, Locals
<1>6. Len(A) = NumLocals[Top(fr).fn] /\ 1..Len(A) = Locals(Top(fr)) /\ DOMAIN A = Locals(Top(fr))
  BY <1>2, <1>5 DEF Locals
<1>7. \A l \in Locals(Top(fr)) : <<Len(fr), l>> \in Abstract!Places
  BY <1>3, <1>4, <1>6 DEF Abstract!Places
<1>8. ASSUME NEW p \in Pointers
      PROVE  \E c \in 1..Len(fr) : \E k \in Locals(fr[c]) \ PtrLocals[fr[c].fn] :
              p = Addr(mem, RegOf(fr[c], k)) /\ <<"ref", c, k>> \in Abstract!Refs /\ <<c, k>> \in Abstract!Places
  <2>1. PICK l \in PtrLocals[fn] : p = At(Reg(l))
    BY DEF Pointers
  <2>2. Target(mem, fr, Len(fr), p)
    BY <1>1, PointersAre
  <2>3. PICK c \in 1..Len(fr) : \E k \in Locals(fr[c]) \ PtrLocals[fr[c].fn] : p = Addr(mem, RegOf(fr[c], k))
    BY <2>2 DEF Target
  <2>4. PICK k \in Locals(fr[c]) \ PtrLocals[fr[c].fn] : p = Addr(mem, RegOf(fr[c], k))
    BY <2>3
  <2>5. Means(mem, fr, p) = <<"ref", c, k>>
    BY <1>2, <2>4, MeansIs
  <2>6. l \in DOMAIN A /\ A[l] = <<"ref", c, k>>
    BY <1>2, <1>5, <1>6, <2>1, <2>5, AtIs
  <2>7. A[l] \in Range(A)
    BY <2>6 DEF Range
  <2>8. <<"ref", c, k>> \in Abstract!Refs
    BY <1>4, <2>6, <2>7 DEF Abstract!Refs, Abstract!Range
  <2>9. <<c, k>> \in Abstract!Places
    <3>1. PICK r : r = <<"ref", c, k>>
      OBVIOUS
    <3>2. r[2] = c /\ r[3] = k /\ r \in Abstract!Refs
      BY <2>8, <3>1
    <3> QED
      BY <3>2 DEF Abstract!Places
  <2> QED
    BY <2>4, <2>8, <2>9
<1>9. ASSUME NEW p \in OwnAddrs
      PROVE  \E l \in Locals(Top(fr)) :
              p = Addr(mem, RegOf(Top(fr), l)) /\ <<"ref", Len(fr), l>> = Abstract!Ref(Abstract!Depth, l)
  BY <1>2, <1>3 DEF OwnAddrs, Abstract!Ref
<1> QED
  BY <1>4, <1>6, <1>7, <1>8, <1>9

LEMMA Wrote ==
  ASSUME NEW fr \in Seq(Frame), Good(stack, mem, fn, fp, mode, gens, fr), Promised(stack, mode, gens, fr),
         Traced(trace, mode, fr), mode = "run",
         NEW c \in 1..Len(fr), NEW l \in Locals(fr[c]), NEW w \in Words, <<c, l>> \in Abstract!Places,
         Means(mem, fr, w) \in DataWords \/ Means(mem, fr, w) \in Abstract!Refs
           \/ (\E k \in Locals(Top(fr)) : Means(mem, fr, w) = <<"ref", Len(fr), k>>),
         stack' = Put(stack, RegOf(fr[c], l), <<w>>), UNCHANGED <<mem, mode, gens, trace>>,
         Good(stack', mem', fn', fp', mode', gens', fr),
         1..Len(Abstract!Top.locals) = Locals(Top(fr))
  PROVE  Follows /\ Abstract!Next
<1>1. Promised(stack', mode', gens', fr)
  <2>1. ASSUME OfGenerator(Top(fr)) PROVE Word(stack', BaseOf(Top(fr)) + 2) = Word(stack, BaseOf(Top(fr)) + 2)
    <3>1. /\ Shape(fr) /\ stack \in Seq(Words) /\ Top(fr) \in Frame /\ Top(fr) = fr[Len(fr)]
          /\ Len(fr) \in Nat \ {0} /\ Len(fr) \in 1..Len(fr)
      BY ShapeIs DEF Good, Top
    <3>2. Len(fr) > 1
      <4>1. Len(fr) # 1
        BY <2>1, <3>1 DEF OfGenerator, Shape
      <4> QED
        BY <3>1, <4>1
    <3>3. \A i \in 0..3 : RegOf(fr[c], l) # BaseOf(fr[Len(fr)]) + i
      BY <3>1, <3>2, LocalsApart, ZenonT(60)
    <3>4. RegOf(fr[c], l) \in Nat /\ BaseOf(Top(fr)) + 2 \in Nat /\ BaseOf(Top(fr)) + 2 # RegOf(fr[c], l)
      <4>1. RegOf(fr[c], l) \in Nat
        BY <3>1, LocalsApart
      <4>2. BaseOf(Top(fr)) \in Nat
        BY <3>1, FrameIs
      <4> QED
        BY <3>1, <3>3, <4>1, <4>2
    <3> QED
      BY <3>1, <3>4, PutOne
  <2>2. OfGenerator(Top(fr)) => Resumed(stack', gens', Top(fr))
    BY <2>1 DEF Promised, Resumed
  <2> QED
    BY <2>2 DEF Promised
<1>2. mode \in Settled /\ Shape(fr) /\ mem \in Nat /\ stack \in Seq(Words)
  BY DEF Settled, Modes, Good
<1>3. RegOf(fr[c], l) < Len(stack)
  BY <1>2, RegInStack
<1>4. PICK x : x = Means(mem, fr, w)
  OBVIOUS
<1>5. View(stack', mem', fr) = [View(stack, mem, fr) EXCEPT ![c].locals[l] = x]
  <2>1. View(Put(stack, RegOf(fr[c], l), <<w>>), mem, fr) = Written(View(stack, mem, fr), c, l, Means(mem, fr, w))
    BY <1>2, <1>3, ViewWritten
  <2> QED
    BY <1>4, <2>1 DEF Written
<1>6. /\ Abstract!Running /\ Abstract!Depth = Len(fr) /\ AbsCalls = View(stack, mem, fr)
      /\ AbsResult = <<"unset">> /\ AbsGens = GensView(gens)
  BY Runs, SeenNow
<1>7. AbsCalls' = View(stack', mem', fr) /\ AbsResult' = <<"unset">> /\ AbsGens' = GensView(gens')
  BY <1>1, SeenNext DEF ResultOf
<1>8. PICK u, v : u = AbsCalls /\ v = AbsCalls'
  OBVIOUS
<1>9. v = [u EXCEPT ![c].locals[l] = x] /\ Len(v) = Len(fr)
  <2>1. Len(View(stack', mem', fr)) = Len(fr)
    BY <1>2, ViewIs
  <2> QED
    BY <1>5, <1>6, <1>7, <1>8, <2>1
<1>10. v[c].locals[l] = x
  <2>1. c \in DOMAIN u /\ u[c] = Act(stack, mem, fr, c)
    <3>1. DOMAIN View(stack, mem, fr) = 1..Len(fr)
      BY <1>2, ViewIs
    <3>2. \A d \in 1..Len(fr) : View(stack, mem, fr)[d] = Act(stack, mem, fr, d)
      BY <1>2, ViewIs, ZenonT(60)
    <3> QED
      BY <1>6, <1>8, <3>1, <3>2
  <2>2. l \in DOMAIN u[c].locals
    BY <2>1 DEF Act, Locals
  <2>3. DOMAIN u[c] = {"fn", "gen", "locals"}
    BY <2>1 DEF Act
  <2> QED
    BY <1>9, <2>1, <2>2, <2>3
<1>11. x \in Abstract!Words \cup Abstract!Refs \cup {Abstract!Ref(Abstract!Depth, k) : k \in 1..Len(Abstract!Top.locals)}
  <2>1. CASE x \in DataWords
    BY <2>1 DEF Abstract!Words, Abstract!DataWords, Abstract!Datum, DataWords, Datum
  <2>2. CASE x \in Abstract!Refs
    BY <2>2
  <2>3. CASE \E k \in Locals(Top(fr)) : x = <<"ref", Len(fr), k>>
    BY <1>6, <2>3, SMTT(20) DEF Abstract!Ref
  <2> QED
    BY <1>4, <2>1, <2>2, <2>3
<1>12. Abstract!Assign
  <2>1. \E p \in Abstract!Places :
          /\ v = [u EXCEPT ![p[1]].locals[p[2]] = v[p[1]].locals[p[2]]]
          /\ v[p[1]].locals[p[2]] \in Abstract!Words \cup Abstract!Refs
               \cup {Abstract!Ref(Abstract!Depth, k) : k \in 1..Len(Abstract!Top.locals)}
    <3>1. PICK p : p = <<c, l>>
      OBVIOUS
    <3>2. p[1] = c /\ p[2] = l /\ p \in Abstract!Places
      BY <3>1
    <3>3. v = [u EXCEPT ![p[1]].locals[p[2]] = v[p[1]].locals[p[2]]]
      BY <1>9, <1>10, <3>2
    <3>4. v[p[1]].locals[p[2]] = x
      BY <1>10, <3>2
    <3> QED
      BY <1>11, <3>2, <3>3, <3>4
  <2> QED
    BY <1>6, <1>7, <1>8, <1>9, <2>1 DEF Abstract!Assign
<1> QED
  BY <1>1, <1>12 DEF Follows, Abstract!Next

LEMMA WriteSteps ==
  ASSUME NEW fr \in Seq(Frame), Good(stack, mem, fn, fp, mode, gens, fr), Promised(stack, mode, gens, fr),
         Traced(trace, mode, fr), PlainCalls,
         \/ \E l \in DataLocals, w \in DataWords : Assign(l, w)
         \/ \E l \in PtrLocals[fn], w \in OwnAddrs : Assign(l, w)
         \/ \E p \in Pointers, w \in DataWords : StorePtr(p, w)
         \/ \E p \in Pointers, l \in DataLocals : LoadPtr(l, p)
  PROVE  Follows /\ Abstract!Next
<1>1. mode = "run" /\ mode \in Settled
  BY DEF Assign, StorePtr, LoadPtr, Body, Settled, Modes
<1>2. /\ Shape(fr) /\ Top(fr) = fr[Len(fr)] /\ Len(fr) \in Nat \ {0} /\ Len(fr) \in 1..Len(fr)
      /\ fn = Top(fr).fn /\ \A l : Reg(l) = RegOf(Top(fr), l)
      /\ DataLocals = Locals(Top(fr)) \ PtrLocals[fn] /\ PtrLocals[fn] \subseteq Locals(Top(fr))
      /\ mem \in Nat
  BY <1>1, BodyIs
<1>3. /\ \A p \in Pointers : \E c \in 1..Len(fr) : \E k \in Locals(fr[c]) \ PtrLocals[fr[c].fn] :
           p = Addr(mem, RegOf(fr[c], k)) /\ <<"ref", c, k>> \in Abstract!Refs /\ <<c, k>> \in Abstract!Places
      /\ \A p \in OwnAddrs : \E l \in Locals(Top(fr)) :
           p = Addr(mem, RegOf(Top(fr), l)) /\ <<"ref", Len(fr), l>> = Abstract!Ref(Abstract!Depth, l)
      /\ \A l \in Locals(Top(fr)) : <<Len(fr), l>> \in Abstract!Places
      /\ 1..Len(Abstract!Top.locals) = Locals(Top(fr))
  BY <1>1, RefsAre
<1>4. \A w \in DataWords : w \in Words /\ Means(mem, fr, w) \in DataWords
  BY <1>2, MeansIs, WordsAre
<1>5. ASSUME NEW l \in DataLocals, NEW w \in DataWords, Assign(l, w) PROVE Follows /\ Abstract!Next
  <2>1. /\ stack' = Put(stack, RegOf(fr[Len(fr)], l), <<w>>) /\ UNCHANGED <<mem, mode, gens, trace>>
    BY <1>2, <1>5 DEF Assign, SetReg
  <2>2. Good(stack', mem', fn', fp', mode', gens', fr)
    BY <1>5, AssignKeeps
  <2>3. l \in Locals(fr[Len(fr)]) /\ <<Len(fr), l>> \in Abstract!Places
    BY <1>2, <1>3
  <2>4. w \in Words /\ Means(mem, fr, w) \in DataWords
    BY <1>4
  <2> QED
    BY <1>1, <1>2, <1>3, <2>1, <2>2, <2>3, <2>4, Wrote
<1>6. ASSUME NEW l \in PtrLocals[fn], NEW w \in OwnAddrs, Assign(l, w) PROVE Follows /\ Abstract!Next
  <2>1. /\ stack' = Put(stack, RegOf(fr[Len(fr)], l), <<w>>) /\ UNCHANGED <<mem, mode, gens, trace>>
    BY <1>2, <1>6 DEF Assign, SetReg
  <2>2. Good(stack', mem', fn', fp', mode', gens', fr)
    BY <1>6, AssignKeeps
  <2>3. l \in Locals(fr[Len(fr)]) /\ <<Len(fr), l>> \in Abstract!Places
    BY <1>2, <1>3
  <2>4. PICK k \in Locals(Top(fr)) : w = Addr(mem, RegOf(Top(fr), k))
    BY <1>3
  <2>5. Means(mem, fr, w) = <<"ref", Len(fr), k>>
    <3>1. k \in Locals(fr[Len(fr)]) /\ w = Addr(mem, RegOf(fr[Len(fr)], k))
      BY <1>2, <2>4
    <3>2. \A c \in 1..Len(fr) : \A j \in Locals(fr[c]) : Means(mem, fr, Addr(mem, RegOf(fr[c], j))) = <<"ref", c, j>>
      BY <1>2, MeansIs
    <3> QED
      BY <1>2, <3>1, <3>2
  <2>6. w \in Words
    BY <1>1, <1>2, PointersAre, TargetIs
  <2> QED
    BY <1>1, <1>2, <1>3, <2>1, <2>2, <2>3, <2>4, <2>5, <2>6, Wrote
<1>7. ASSUME NEW p \in Pointers, NEW w \in DataWords, StorePtr(p, w) PROVE Follows /\ Abstract!Next
  <2>1. PICK c \in 1..Len(fr) : \E k \in Locals(fr[c]) \ PtrLocals[fr[c].fn] :
           p = Addr(mem, RegOf(fr[c], k)) /\ <<"ref", c, k>> \in Abstract!Refs /\ <<c, k>> \in Abstract!Places
    BY <1>3
  <2>2. PICK k \in Locals(fr[c]) : p = Addr(mem, RegOf(fr[c], k)) /\ <<c, k>> \in Abstract!Places
    BY <2>1
  <2>3. p[2] = mem /\ p[3] = RegOf(fr[c], k)
    BY <2>2 DEF Addr
  <2>4. stack' = Put(stack, RegOf(fr[c], k), <<w>>) /\ UNCHANGED <<mem, mode, gens, trace>>
    BY <1>7, <2>3 DEF StorePtr
  <2>5. Good(stack', mem', fn', fp', mode', gens', fr)
    BY <1>7, StorePtrKeeps
  <2>6. w \in Words /\ Means(mem, fr, w) \in DataWords
    BY <1>4
  <2> QED
    BY <1>1, <1>3, <2>2, <2>4, <2>5, <2>6, Wrote
<1>8. ASSUME NEW p \in Pointers, NEW l \in DataLocals, LoadPtr(l, p) PROVE Follows /\ Abstract!Next
  <2>1. PICK c \in 1..Len(fr) : \E k \in Locals(fr[c]) \ PtrLocals[fr[c].fn] :
           p = Addr(mem, RegOf(fr[c], k)) /\ <<"ref", c, k>> \in Abstract!Refs /\ <<c, k>> \in Abstract!Places
    BY <1>3
  <2>2. PICK k \in Locals(fr[c]) \ PtrLocals[fr[c].fn] : p = Addr(mem, RegOf(fr[c], k))
    BY <2>1
  <2>3. p[2] = mem /\ p[3] = RegOf(fr[c], k)
    BY <2>2 DEF Addr
  <2>4. PICK w : w = At(p[3])
    OBVIOUS
  <2>5. w # Undef /\ stack' = Put(stack, RegOf(fr[Len(fr)], l), <<w>>) /\ UNCHANGED <<mem, mode, gens, trace>>
    BY <1>2, <1>8, <2>3, <2>4 DEF LoadPtr
  <2>6. w \in DataWords
    <3>1. LocalOk(stack, mem, fr, c, k)
      BY <2>2 DEF Good, FrameOk
    <3> QED
      BY <2>2, <2>3, <2>4, <2>5, <3>1, AtIs DEF LocalOk, LocalWords
  <2>7. Good(stack', mem', fn', fp', mode', gens', fr)
    BY <1>8, LoadPtrKeeps
  <2>8. l \in Locals(fr[Len(fr)]) /\ <<Len(fr), l>> \in Abstract!Places
    BY <1>2, <1>3
  <2>9. w \in Words /\ Means(mem, fr, w) \in DataWords
    BY <1>4, <2>6
  <2> QED
    BY <1>1, <1>2, <1>3, <2>5, <2>7, <2>8, <2>9, Wrote
<1> QED
  BY <1>5, <1>6, <1>7, <1>8

-----------------------------------------------------------------------------
(* Calls and results.                                                      *)
LEMMA SameEnds ==
  \A s : Abstract!Front(s) = Front(s) /\ Abstract!Last(s) = Last(s)
BY DEF Abstract!Front, Abstract!Last, Front, Last

LEMMA CallStep ==
  ASSUME NEW fr \in Seq(Frame), Good(stack, mem, fn, fp, mode, gens, fr), Promised(stack, mode, gens, fr),
         Traced(trace, mode, fr), PlainCalls,
         NEW g \in Callees[fn], NEW how \in Hows,
         NEW args \in [1..NumParams[g] -> UNION {ArgWords(g, l) : l \in 1..NumParams[g]}],
         \A l \in 1..NumParams[g] : args[l] \in ArgWords(g, l), Call(g, how, args)
  PROVE  Follows /\ Abstract!Next
<1>1. mode = "run" /\ mode \in Settled /\ mode' = "chk" /\ UNCHANGED <<mem, gens, trace>> /\ Len(Activations) < MaxDepth
  BY DEF Call, MayCall, Body, Settled, Modes
<1>a. PICK h \in Frame : Called(fr, h, g, how, args)
  BY CallKeeps
<1>2. /\ h.fn = g /\ h.how = how /\ Append(fr, h) \in Seq(Frame)
      /\ Good(stack', mem', fn', fp', mode', gens', Append(fr, h))
      /\ \A x \in Nat : x < EndOf(Top(fr)) => Word(stack', x) = Word(stack, x)
      /\ \A l \in Locals(h) : Word(stack', RegOf(h, l)) = IF l <= NumParams[g] THEN args[l] ELSE Undef
  BY <1>a DEF Called
<1>3. PICK hr, n : hr = Append(fr, h) /\ n = Len(fr)
  OBVIOUS
<1>4. /\ Shape(fr) /\ Shape(hr) /\ mem \in Nat /\ n \in Nat \ {0} /\ n \in 1..n /\ Top(fr) = fr[n] /\ n < MaxDepth
      /\ \A d \in 1..Len(fr) : FrameOk(stack, mem, gens, fr, d)
  BY <1>1, <1>2, <1>3, ShapeIs, DepthIs DEF Good, Top
<1>5. Len(hr) = n + 1 /\ hr[n + 1] = h /\ \A c \in 1..n : hr[c] = fr[c]
  BY <1>2, <1>3, <1>4
<1>6. Top(hr) = h /\ ~OfGenerator(h)
  BY <1>2, <1>5 DEF Top, OfGenerator, Hows
<1>7. Promised(stack', mode', gens', hr)
  BY <1>1, <1>6 DEF Promised
<1>8. PICK u, v, a : u = AbsCalls /\ v = AbsCalls' /\ a = Act(stack', mem', hr, n + 1)
  OBVIOUS
<1>9. /\ Abstract!Running /\ Abstract!Depth = n /\ u = View(stack, mem, fr) /\ Len(u) = n
      /\ AbsResult = <<"unset">> /\ AbsGens = GensView(gens)
  BY <1>1, <1>3, <1>8, Runs, SeenNow
<1>10. v = View(stack', mem', hr) /\ AbsResult' = <<"unset">> /\ AbsGens' = GensView(gens')
  BY <1>1, <1>2, <1>3, <1>7, <1>8, SeenNext DEF ResultOf
<1>11. Len(v) = n + 1 /\ Front(v) = u /\ Last(v) = a
  <2>1. Pushes(View(stack, mem, fr), View(stack', mem, hr), Act(stack', mem, hr, Len(hr)))
    BY <1>2, <1>3, <1>4, <1>5, ViewPushed
  <2> QED
    BY <1>1, <1>5, <1>8, <1>9, <1>10, <2>1 DEF Pushes
<1>12. /\ \A p \in Pointers : \E c \in 1..Len(fr) : \E k \in Locals(fr[c]) \ PtrLocals[fr[c].fn] :
            p = Addr(mem, RegOf(fr[c], k)) /\ <<"ref", c, k>> \in Abstract!Refs /\ <<c, k>> \in Abstract!Places
       /\ \A p \in OwnAddrs : \E l \in Locals(Top(fr)) :
            p = Addr(mem, RegOf(Top(fr), l)) /\ <<"ref", Len(fr), l>> = Abstract!Ref(Abstract!Depth, l)
       /\ 1..Len(Abstract!Top.locals) = Locals(Top(fr))
  BY <1>1, RefsAre
<1> DEFINE R == Abstract!DataWords \cup Abstract!Refs \cup {Abstract!Ref(Abstract!Depth, l) : l \in 1..Len(Abstract!Top.locals)}
<1>13. ASSUME NEW l \in 1..NumParams[g] PROVE Means(mem, hr, args[l]) \in R
  <2>1. PICK w : w = args[l]
    OBVIOUS
  <2>2. w \in Pointers \/ w \in OwnAddrs \/ w \in DataWords
    BY <2>1 DEF ArgWords
  <2>3. CASE w \in Pointers
    <3>1. PICK c \in 1..Len(fr) : \E k \in Locals(fr[c]) \ PtrLocals[fr[c].fn] :
             w = Addr(mem, RegOf(fr[c], k)) /\ <<"ref", c, k>> \in Abstract!Refs
      BY <1>12, <2>3
    <3>2. PICK k \in Locals(fr[c]) : w = Addr(mem, RegOf(fr[c], k)) /\ <<"ref", c, k>> \in Abstract!Refs
      BY <3>1
    <3>3. c \in 1..Len(hr) /\ hr[c] = fr[c] /\ k \in Locals(hr[c]) /\ w = Addr(mem, RegOf(hr[c], k))
      BY <1>3, <1>4, <1>5, <3>2
    <3>4. Means(mem, hr, w) = <<"ref", c, k>>
      BY <1>4, <3>3, RefIs
    <3> QED
      BY <2>1, <3>2, <3>4
  <2>4. CASE w \in OwnAddrs
    <3>1. PICK k \in Locals(Top(fr)) : w = Addr(mem, RegOf(Top(fr), k)) /\ <<"ref", n, k>> = Abstract!Ref(Abstract!Depth, k)
      BY <1>3, <1>12, <2>4
    <3>2. n \in 1..Len(hr) /\ k \in Locals(hr[n]) /\ w = Addr(mem, RegOf(hr[n], k))
      BY <1>4, <1>5, <3>1
    <3>3. Means(mem, hr, w) = <<"ref", n, k>>
      BY <1>4, <3>2, RefIs
    <3> QED
      BY <1>12, <2>1, <3>1, <3>3
  <2>5. CASE w \in DataWords
    <3>1. Means(mem, hr, w) \in DataWords
      BY <1>4, <2>5, MeansIs
    <3> QED
      BY <2>1, <3>1 DEF DataWords, Datum, Abstract!DataWords, Abstract!Datum
  <2> QED
    BY <2>2, <2>3, <2>4, <2>5
<1> HIDE DEF R
<1>14. PICK xs : xs = [l \in 1..NumParams[g] |-> Means(mem, hr, args[l])]
  OBVIOUS
<1>15. NumParams[g] \in Nat /\ NumLocals[g] \in Nat /\ g \in Fns
  BY <1>2, FrameIs, Layout
<1>16. xs \in [1..NumParams[g] -> R] /\ Len(xs) = NumParams[g]
  BY <1>13, <1>14, <1>15
<1>17. a = Abstract!Activation(g, xs, 0)
  <2>1. ASSUME NEW l \in 1..NumLocals[g]
        PROVE  Means(mem, hr, Word(stack', RegOf(h, l))) = IF l <= Len(xs) THEN xs[l] ELSE <<"unset">>
    <3>1. Word(stack', RegOf(h, l)) = IF l <= NumParams[g] THEN args[l] ELSE Undef
      BY <1>2 DEF Locals
    <3>2. Means(mem, hr, Undef) = <<"unset">>
      BY <1>4, MeansIs
    <3>3. l <= NumParams[g] => l \in 1..NumParams[g]
      BY <1>15
    <3> QED
      BY <1>14, <1>16, <3>1, <3>2, <3>3
  <2>2. a = [fn |-> g, gen |-> 0, locals |-> [l \in 1..NumLocals[g] |-> Means(mem, hr, Word(stack', RegOf(h, l)))]]
    BY <1>1, <1>2, <1>5, <1>6, <1>8 DEF Act
  <2> QED
    BY <2>1, <2>2 DEF Abstract!Activation, Abstract!Unset
<1>18. Abstract!Call(g)
  <2>1. \E ys \in [1..NumParams[g] -> R] : Last(v) = Abstract!Activation(g, ys, 0)
    BY <1>11, <1>16, <1>17
  <2>2. Abstract!Front(v) = u /\ Abstract!Last(v) = Last(v)
    BY <1>11, SameEnds
  <2>3. AbsResult' = AbsResult /\ AbsGens' = AbsGens /\ trace' = trace
    BY <1>1, <1>9, <1>10
  <2>4. Abstract!Depth < MaxDepth /\ Len(v) = Abstract!Depth + 1 /\ Abstract!Front(v) = u
    BY <1>4, <1>9, <1>11, <2>2
  <2> QED
    BY <1>8, <1>9, <2>1, <2>2, <2>3, <2>4 DEF R, Abstract!Call
<1>19. Follows
  BY <1>2, <1>3, <1>7 DEF Follows
<1> QED
  BY <1>15, <1>18, <1>19 DEF Abstract!Next

LEMMA HostReturnStep ==
  ASSUME NEW fr \in Seq(Frame), Good(stack, mem, fn, fp, mode, gens, fr), Promised(stack, mode, gens, fr),
         Traced(trace, mode, fr), NEW w \in DataWords, HostReturn(w)
  PROVE  Follows /\ Abstract!Next
<1>1. mode = "host" /\ mode \in Settled /\ mode' = "result" /\ UNCHANGED <<mem, fn, fp, gens, trace>>
  BY DEF HostReturn, Settled, Modes
<1>2. /\ Shape(fr) /\ Top(fr) \in Frame /\ fn = Top(fr).fn /\ fp = Top(fr).fp /\ fp + FrameTop[fn] = EndOf(Top(fr))
      /\ stack \in Seq(Words) /\ mem \in Nat /\ Roomy(stack, Top(fr)) /\ Len(stack) \in Nat
      /\ \A d \in 1..Len(fr) : FrameOk(stack, mem, gens, fr, d)
  BY <1>1, BodyIs DEF Good
<1>3. Callees[fn] # {} /\ ~OfGenerator(Top(fr))
  BY <1>1, <1>2 DEF Promised
<1>4. PICK ret : ret = EndOf(Top(fr))
  OBVIOUS
<1>5. ret \in Nat /\ ret < Len(stack)
  <2>1. PICK g : g \in Callees[fn]
    BY <1>3
  <2>2. fn \in Fns /\ fp \in Nat /\ EndOf(Top(fr)) \in Nat
    BY <1>2, FrameIs
  <2>3. /\ FrameTop[fn] + (RetSize[g] + 4 + NumParams[g]) <= FrameSize[fn] /\ g \in Fns
        /\ FrameTop[fn] \in Nat /\ FrameSize[fn] \in Nat
    BY <2>1, <2>2, Layout
  <2>4. RetSize[g] \in Nat /\ NumParams[g] \in Nat
    BY <2>3, Layout
  <2>5. PICK k \in Nat : fp + FrameSize[fn] + k <= Len(stack)
    BY <1>2 DEF Roomy, Spare
  <2>6. FrameTop[fn] < FrameSize[fn]
    BY <2>3, <2>4
  <2> QED
    BY <1>2, <1>4, <2>2, <2>3, <2>5, <2>6, SMTT(20)
<1>6. PICK u, t : u = Put(stack, ret, <<w>>) /\ t = DropAbove(u, ret + 1)
  OBVIOUS
<1>7. u \in Seq(Words) /\ Word(u, ret) = w /\ \A x \in Nat : x # ret => Word(u, x) = Word(stack, x)
  BY <1>2, <1>5, <1>6, PutOne, WordsAre
<1>8. \A x \in Nat : Word(t, x) = IF x < ret + 1 THEN Word(u, x) ELSE Undef
  <2>1. ret + 1 \in Nat
    BY <1>5
  <2> QED
    BY <1>6, <1>7, <2>1, DropIs
<1>9. stack' = t
  BY <1>2, <1>4, <1>6 DEF HostReturn
<1>10. Word(stack', ret) = w /\ \A x \in Nat : x < ret => Word(stack', x) = Word(stack, x)
  BY <1>5, <1>7, <1>8, <1>9
<1>11. Good(stack', mem', fn', fp', mode', gens', fr)
  BY HostReturnKeeps
<1>12. Promised(stack', mode', gens', fr)
  BY <1>1, <1>3, <1>4, <1>10 DEF Promised, Results
<1>13. View(stack', mem', fr) = View(stack, mem, fr)
  BY <1>1, <1>2, <1>4, <1>10, ViewSame
<1>14. AbsCalls = View(stack, mem, fr) /\ AbsResult = <<"unset">> /\ AbsGens = GensView(gens)
  BY <1>1, SeenNow DEF ResultOf
<1>15. AbsCalls' = View(stack', mem', fr) /\ AbsResult' = w /\ AbsGens' = GensView(gens')
  <2>1. w # Undef
    BY DEF DataWords, Datum, Undef
  <2> QED
    BY <1>1, <1>4, <1>10, <1>11, <1>12, <2>1, SeenNext DEF ResultOf, Plain
<1>16. trace = <<>>
  BY <1>1 DEF Traced
<1>17. Abstract!HostCall(w)
  BY <1>1, <1>13, <1>14, <1>15, <1>16 DEF Abstract!HostCall, Abstract!Running, Abstract!Unset
<1>18. w \in Abstract!DataWords
  BY DEF DataWords, Datum, Abstract!DataWords, Abstract!Datum
<1> QED
  BY <1>11, <1>12, <1>17, <1>18 DEF Follows, Abstract!Next

LEMMA TakeResultStep ==
  ASSUME NEW fr \in Seq(Frame), Good(stack, mem, fn, fp, mode, gens, fr), Promised(stack, mode, gens, fr),
         Traced(trace, mode, fr), NEW l \in DataLocals \cup {0},
         l = 0 \/ At(fp + FrameTop[fn])[1] = "data", TakeResult(l)
  PROVE  Follows /\ Abstract!Next
<1>1. mode = "result" /\ mode \in Settled /\ mode' = "run" /\ UNCHANGED <<mem, fn, fp, gens, trace>> /\ trace = <<>>
  BY DEF TakeResult, Settled, Modes, Traced
<1>2. /\ Shape(fr) /\ Top(fr) = fr[Len(fr)] /\ Top(fr) \in Frame /\ Len(fr) \in 1..Len(fr)
      /\ fp + FrameTop[fn] = EndOf(Top(fr)) /\ \A k : Reg(k) = RegOf(Top(fr), k)
      /\ DataLocals = Locals(Top(fr)) \ PtrLocals[fn] /\ stack \in Seq(Words) /\ mem \in Nat
      /\ \A d \in 1..Len(fr) : FrameOk(stack, mem, gens, fr, d)
  BY <1>1, BodyIs DEF Good
<1>3. Good(stack', mem', fn', fp', mode', gens', fr)
  BY TakeResultKeeps
<1>4. ~OfGenerator(Top(fr)) /\ Word(stack, EndOf(Top(fr))) \in Results
  BY <1>1 DEF Promised
<1>5. Promised(stack', mode', gens', fr)
  BY <1>1, <1>4 DEF Promised
<1>6. PICK ret, w, s, t : /\ ret = EndOf(Top(fr)) /\ w = At(ret) /\ t = DropAbove(s, ret)
                          /\ s = IF l = 0 THEN stack ELSE Put(stack, RegOf(Top(fr), l), <<w>>)
  OBVIOUS
<1>7. stack' = t
  BY <1>2, <1>6 DEF TakeResult
<1>8. ret \in Nat /\ w = Word(stack, ret) /\ w \in Words /\ w \in Results
  BY <1>2, <1>4, <1>6, FrameIs, AtIs, WordIs
<1>9. w # Undef /\ Plain(w) = w /\ w # <<"unset">>
  BY <1>8 DEF Results, DataWords, Datum, Handle, Undef, Plain
<1>10. l # 0 => l \in Locals(fr[Len(fr)]) /\ w \in DataWords /\ RegOf(fr[Len(fr)], l) < Len(stack) /\ RegOf(fr[Len(fr)], l) \in Nat
  <2> SUFFICES ASSUME l # 0
               PROVE  l \in Locals(fr[Len(fr)]) /\ w \in DataWords /\ RegOf(fr[Len(fr)], l) < Len(stack) /\ RegOf(fr[Len(fr)], l) \in Nat
    OBVIOUS
  <2>1. l \in Locals(fr[Len(fr)])
    BY <1>2
  <2>2. w \in DataWords
    <3>1. w[1] = "data"
      BY <1>2, <1>6
    <3> QED
      BY <1>8, <3>1 DEF Results, Handle
  <2> QED
    BY <1>1, <1>2, <2>1, <2>2, RegInStack
<1>11. s \in Seq(Words)
  BY <1>2, <1>6, <1>8, <1>10, PutOne
<1>12. \A x \in Nat : x < ret => Word(t, x) = Word(s, x)
  BY <1>6, <1>8, <1>11, DropIs
<1>13. Good(s, mem, fn, fp, mode, gens, fr)
  <2>1. CASE l = 0
    BY <1>6, <2>1
  <2>2. CASE l # 0
    <3>1. l \in Locals(fr[Len(fr)]) /\ l \notin PtrLocals[fr[Len(fr)].fn] /\ w \in LocalWords
      <4>1. fn = Top(fr).fn
        BY <1>1, BodyIs
      <4> QED
        BY <1>2, <1>10, <2>2, <4>1 DEF LocalWords
    <3>2. Good(Put(stack, RegOf(fr[Len(fr)], l), <<w>>), mem, fn, fp, mode, gens, fr)
      BY <1>1, <1>2, <1>8, <3>1, LocalWritten
    <3> QED
      BY <1>2, <1>6, <2>2, <3>2
  <2> QED
    BY <2>1, <2>2
<1>14. View(t, mem, fr) = View(s, mem, fr)
  <2>1. \A d \in 1..Len(fr) : FrameOk(s, mem, gens, fr, d)
    BY <1>13 DEF Good
  <2>2. \A x \in Nat : x < EndOf(Top(fr)) => Word(t, x) = Word(s, x)
    BY <1>6, <1>12
  <2> QED
    BY <1>2, <2>1, <2>2, ViewSame
<1>15. View(s, mem, fr) = IF l = 0 THEN View(stack, mem, fr) ELSE Written(View(stack, mem, fr), Len(fr), l, w)
  <2>1. CASE l = 0
    BY <1>6, <2>1
  <2>2. CASE l # 0
    <3>1. View(Put(stack, RegOf(fr[Len(fr)], l), <<w>>), mem, fr) = Written(View(stack, mem, fr), Len(fr), l, Means(mem, fr, w))
      BY <1>2, <1>8, <1>10, <2>2, ViewWritten
    <3>2. Means(mem, fr, w) = w
      BY <1>2, <1>10, <2>2, MeansIs
    <3> QED
      BY <1>2, <1>6, <2>2, <3>1, <3>2
  <2> QED
    BY <2>1, <2>2
<1>16. AbsCalls = View(stack, mem, fr) /\ AbsResult = w /\ AbsGens = GensView(gens)
  BY <1>1, <1>6, <1>8, <1>9, SeenNow DEF ResultOf
<1>17. AbsCalls' = View(t, mem, fr) /\ AbsResult' = <<"unset">> /\ AbsGens' = GensView(gens)
  BY <1>1, <1>3, <1>5, <1>7, SeenNext DEF ResultOf
<1>18. Abstract!Depth = Len(fr) /\ Abstract!Top = Act(stack, mem, fr, Len(fr))
  <2>1. Len(View(stack, mem, fr)) = Len(fr)
    BY <1>2, ViewIs
  <2>2. \A d \in 1..Len(fr) : View(stack, mem, fr)[d] = Act(stack, mem, fr, d)
    BY DEF View
  <2> QED
    BY <1>2, <1>16, <2>1, <2>2 DEF Abstract!Depth, Abstract!Top
<1>19. Abstract!TakeResult(l)
  <2>1. PICK u, v, n : u = AbsCalls /\ v = AbsCalls' /\ n = Len(fr)
    OBVIOUS
  <2>2. v = IF l = 0 THEN u ELSE [u EXCEPT ![n].locals[l] = w]
    BY <1>14, <1>15, <1>16, <1>17, <2>1 DEF Written
  <2> QED
    BY <1>1, <1>9, <1>16, <1>17, <1>18, <2>1, <2>2 DEF Abstract!TakeResult, Abstract!Unset
<1>20. l \in 0..Len(Abstract!Top.locals)
  <2>1. PICK A : A = Abstract!Top.locals
    OBVIOUS
  <2>2. NumLocals[Top(fr).fn] \in Nat
    BY <1>2, FrameIs, Layout
  <2>3. A = [k \in 1..NumLocals[Top(fr).fn] |-> Means(mem, fr, Word(stack, RegOf(Top(fr), k)))]
    BY <1>2, <1>18, <2>1 DEF Act
  <2>4. Len(A) = NumLocals[Top(fr).fn]
    BY <2>2, <2>3
  <2> QED
    BY <1>2, <1>10, <2>1, <2>2, <2>4 DEF Locals
<1> QED
  BY <1>3, <1>5, <1>19, <1>20 DEF Follows, Abstract!Next

-----------------------------------------------------------------------------
(* The returns.                                                            *)

(* What a return leaves: the frames below, and the result.                 *)
LEMMA ReturnSeen ==
  ASSUME NEW fr \in Seq(Frame), Good(stack, mem, fn, fp, mode, gens, fr), Promised(stack, mode, gens, fr),
         mode = "run", Len(fr) > 1, NEW ret, Returned(fr, ret), ret # <<>> => ret[1] \in Results, mem' = mem
  PROVE  /\ Follows /\ AbsCalls' = Front(AbsCalls) /\ AbsGens' = GensView(gens')
         /\ AbsResult' = IF ret = <<>> THEN <<"unset">> ELSE ret[1]
<1>1. /\ Shape(fr) /\ Len(fr) \in Nat \ {0} /\ Top(fr) = fr[Len(fr)] /\ mem \in Nat
      /\ \A d \in 1..Len(fr) : FrameOk(stack, mem, gens, fr, d)
  BY ShapeIs DEF Good, Top
<1>2. PICK n, hr : n = Len(fr) /\ hr = SubSeq(fr, 1, n - 1)
  OBVIOUS
<1>3. /\ hr \in Seq(Frame) /\ Good(stack', mem', fn', fp', mode', gens', hr)
      /\ \A x \in Nat : x < Top(fr).fp => Word(stack', x) = Word(stack, x)
      /\ mode' = IF ret = <<>> THEN "run" ELSE "result"
      /\ ret # <<>> => Word(stack', Top(fr).fp) = ret[1]
  BY <1>2 DEF Returned
<1>4. n \in Nat /\ n > 1 /\ Len(hr) = n - 1 /\ \A c \in 1..(n - 1) : hr[c] = fr[c]
  BY <1>1, <1>2
<1>5. Shape(hr) /\ Top(hr) = fr[n - 1]
  BY <1>3, <1>4 DEF Good, Top
<1>6. Top(fr).fp = EndOf(Top(hr)) /\ ~OfGenerator(Top(hr))
  <2>1. n \in 2..Len(fr)
    BY <1>1, <1>2, <1>4
  <2>2. fr[n].fp = EndOf(fr[n - 1])
    BY <1>1, <2>1 DEF Shape
  <2>3. ~OfGenerator(fr[n - 1])
    <3>1. n - 1 = 1 \/ n - 1 \in 2..Len(fr)
      BY <1>2, <1>4
    <3>2. n - 1 # Len(fr)
      BY <1>2, <1>4
    <3> QED
      BY <1>1, <3>1, <3>2 DEF Shape, OfGenerator
  <2> QED
    BY <1>1, <1>2, <1>5, <2>2, <2>3
<1>7. Promised(stack', mode', gens', hr)
  BY <1>3, <1>6 DEF Promised
<1>8. View(stack', mem, hr) = Front(View(stack, mem, fr))
  <2>1. \A x \in Nat : x < EndOf(Top(hr)) => Word(stack', x) = Word(stack, x)
    BY <1>3, <1>6
  <2>2. Len(fr) = Len(hr) + 1 /\ \A c \in 1..Len(hr) : hr[c] = fr[c]
    BY <1>2, <1>4
  <2>3. PICK G : G = gens
    OBVIOUS
  <2>4. \A d \in 1..Len(fr) : FrameOk(stack, mem, G, fr, d)
    BY <1>1, <2>3
  <2>5. Shape(fr) /\ Shape(hr) /\ mem \in Nat
    BY <1>1, <1>5
  <2> QED
    BY <2>1, <2>2, <2>4, <2>5, ViewPopped, ZenonT(60)
<1>9. AbsCalls' = View(stack', mem, hr) /\ AbsResult' = ResultOf(stack', mode', hr) /\ AbsGens' = GensView(gens')
  BY <1>3, <1>7, SeenNext
<1>10. AbsCalls = View(stack, mem, fr)
  BY SeenNow
<1>11. AbsResult' = IF ret = <<>> THEN <<"unset">> ELSE ret[1]
  <2>1. CASE ret = <<>>
    BY <1>3, <1>9, <2>1 DEF ResultOf
  <2>2. CASE ret # <<>>
    <3>1. Word(stack', EndOf(Top(hr))) = ret[1] /\ ret[1] \in Results
      BY <1>3, <1>6, <2>2
    <3>2. Plain(ret[1]) = ret[1]
      BY <3>1 DEF Plain, Results, DataWords, Datum, Handle, Undef
    <3> QED
      BY <1>3, <1>9, <2>2, <3>1, <3>2 DEF ResultOf
  <2> QED
    BY <2>1, <2>2
<1>12. Follows
  BY <1>3, <1>7 DEF Follows
<1> QED
  BY <1>8, <1>9, <1>10, <1>11, <1>12

LEMMA RetStep ==
  ASSUME NEW fr \in Seq(Frame), Good(stack, mem, fn, fp, mode, gens, fr), Promised(stack, mode, gens, fr),
         Traced(trace, mode, fr), NEW w \in DataWords, Ret(w)
  PROVE  Follows /\ Abstract!Next
<1>1. mode = "run" /\ UNCHANGED <<mem, gens, trace>>
  BY DEF Ret, Body, ReturnTo
<1>2. PICK ret : ret = [i \in 1..RetSize[fn] |-> w]
  OBVIOUS
<1>3. Len(fr) > 1 /\ ~OfGenerator(Top(fr)) /\ Returned(fr, ret)
  BY <1>2, RetKeeps
<1>4. ret # <<>> => ret[1] = w
  <2>1. fn \in Fns
    <3>1. mode \in Settled
      BY <1>1 DEF Settled, Modes
    <3> QED
      BY <3>1, BodyIs, FrameIs
  <2>2. RetSize[fn] \in Nat
    BY <2>1, Layout
  <2>3. CASE RetSize[fn] = 0
    BY <1>2, <2>3
  <2>4. CASE RetSize[fn] # 0
    BY <1>2, <2>2, <2>4
  <2> QED
    BY <2>3, <2>4
<1>5. w \in Results
  BY DEF Results
<1>6. /\ Follows /\ AbsCalls' = Front(AbsCalls) /\ AbsGens' = GensView(gens')
      /\ AbsResult' = IF ret = <<>> THEN <<"unset">> ELSE ret[1]
  BY <1>1, <1>3, <1>4, <1>5, ReturnSeen
<1>7. Abstract!Running /\ Abstract!Depth = Len(fr) /\ Abstract!Top = Act(stack, mem, fr, Len(fr)) /\ AbsGens = GensView(gens)
  BY <1>1, Runs, SeenNow
<1>8. Abstract!Top.gen = 0
  BY <1>3, <1>7 DEF Act, Top
<1>9. PICK x : x = AbsResult'
  OBVIOUS
<1>10. x \in Abstract!DataWords \cup {Abstract!Unset}
  BY <1>4, <1>6, <1>9 DEF Abstract!DataWords, Abstract!Datum, DataWords, Datum, Abstract!Unset
<1>11. Abstract!Return(x)
  BY <1>1, <1>3, <1>6, <1>7, <1>8, <1>9, SameEnds DEF Abstract!Return
<1> QED
  BY <1>6, <1>10, <1>11 DEF Abstract!Next

-----------------------------------------------------------------------------
(* The generators.                                                         *)
LEMMA GenViewChanged ==
  ASSUME NEW G, Len(G) \in Nat, GenObjects(G), NEW g \in DOMAIN G, NEW o, ObjectOk(o)
  PROVE  /\ GensView([G EXCEPT ![g] = o]) = [GensView(G) EXCEPT ![g] = GenView(o)]
         /\ g \in 1..Len(G) /\ g \in DOMAIN GensView(G) /\ GensView(G)[g] = GenView(G[g]) /\ DOMAIN GensView(G) = 1..Len(G)
<1>1. PICK H, n : H = [G EXCEPT ![g] = o] /\ n = Len(G)
  OBVIOUS
<1>2. Len(H) = n /\ g \in 1..n /\ H[g] = o /\ \A i \in 1..n : i # g => H[i] = G[i]
  BY <1>1, GensChanged
<1>3. PICK U : U = [i \in 1..n |-> GenView(G[i])]
  OBVIOUS
<1>4. [i \in 1..n |-> GenView(H[i])] = [U EXCEPT ![g] = GenView(o)]
  BY <1>2, <1>3
<1>5. GensView(H) = [i \in 1..n |-> GenView(H[i])] /\ GensView(G) = U
  BY <1>1, <1>2, <1>3 DEF GensView
<1> QED
  BY <1>1, <1>2, <1>3, <1>4, <1>5

GenSet(U, V, g, x, y) == g \in DOMAIN U /\ U[g] = x /\ V = [U EXCEPT ![g] = y]

LEMMA GenViewSet ==
  ASSUME NEW G, Len(G) \in Nat, GenObjects(G), NEW g \in DOMAIN G, NEW o, ObjectOk(o)
  PROVE  GenSet(GensView(G), GensView([G EXCEPT ![g] = o]), g, GenView(G[g]), GenView(o))
BY GenViewChanged DEF GenSet

LEMMA GenViewAppended ==
  ASSUME NEW G, Len(G) \in Nat, GenObjects(G), NEW o, ObjectOk(o)
  PROVE  GensView(Append(G, o)) = Append(GensView(G), GenView(o)) /\ Len(GensView(G)) = Len(G)
<1>1. PICK H, n, U, x : H = Append(G, o) /\ n = Len(G) /\ U = GensView(G) /\ x = GenView(o)
  OBVIOUS
<1>2. Len(H) = n + 1 /\ n \in Nat /\ \A i \in 1..n : H[i] = G[i]
  BY <1>1, GensAppended
<1>3. H[n + 1] = o
  <2>1. G = [i \in 1..n |-> G[i]]
    BY <1>1 DEF GenObjects
  <2>2. PICK S : S = {G[i] : i \in 1..n} \cup {o}
    OBVIOUS
  <2>3. G \in Seq(S) /\ o \in S
    BY <1>2, <2>1, <2>2
  <2> QED
    BY <1>1, <2>3
<1>4. U = [i \in 1..n |-> U[i]] /\ \A i \in 1..n : U[i] = GenView(G[i])
  BY <1>1 DEF GensView
<1>5. PICK T : T = {U[i] : i \in 1..n} \cup {x}
  OBVIOUS
<1>6. U \in Seq(T) /\ Len(U) = n /\ x \in T
  BY <1>2, <1>4, <1>5
<1>7. Append(U, x) = [i \in 1..(n + 1) |-> IF i = n + 1 THEN x ELSE U[i]]
  BY <1>6, AppendIs
<1>8. ASSUME NEW i \in 1..(n + 1) PROVE GenView(H[i]) = IF i = n + 1 THEN x ELSE U[i]
  <2>1. i = n + 1 \/ (i # n + 1 /\ i \in 1..n)
    BY <1>2
  <2> QED
    BY <1>1, <1>2, <1>3, <1>4, <2>1
<1>9. GensView(H) = [i \in 1..(n + 1) |-> GenView(H[i])]
  BY <1>2 DEF GensView
<1> QED
  BY <1>1, <1>6, <1>7, <1>8, <1>9

(* The locals of a generator function hold plain data.                     *)
LEMMA PlainLocals ==
  ASSUME NEW s, NEW m, NEW f, NEW p, NEW md, NEW G, NEW fr, Good(s, m, f, p, md, G, fr), PtrLocals[Top(fr).fn] = {}
  PROVE  /\ Act(s, m, fr, Len(fr)).locals = [l \in Locals(Top(fr)) |-> Plain(Word(s, RegOf(Top(fr), l)))]
         /\ \A l \in Locals(Top(fr)) : Word(s, RegOf(Top(fr), l)) \in LocalWords
<1>1. Shape(fr) /\ m \in Nat /\ Len(fr) \in 1..Len(fr) /\ Top(fr) = fr[Len(fr)] /\ FrameOk(s, m, G, fr, Len(fr))
  BY ShapeIs DEF Good, Top
<1>2. ASSUME NEW l \in Locals(Top(fr))
      PROVE  /\ Word(s, RegOf(Top(fr), l)) \in LocalWords
             /\ Means(m, fr, Word(s, RegOf(Top(fr), l))) = Plain(Word(s, RegOf(Top(fr), l)))
  <2>1. PICK w : w = Word(s, RegOf(Top(fr), l))
    OBVIOUS
  <2>2. LocalOk(s, m, fr, Len(fr), l)
    BY <1>1, <1>2 DEF FrameOk
  <2>3. w \in LocalWords
    BY <1>1, <2>1, <2>2 DEF LocalOk
  <2>4. w = Undef \/ w[1] # "ptr"
    BY <2>3, WordsAre
  <2>5. Means(m, fr, w) = Plain(w)
    BY <2>4 DEF Means, Meaning, Plain
  <2> QED
    BY <2>1, <2>3, <2>5
<1>3. Act(s, m, fr, Len(fr)).locals = [l \in Locals(Top(fr)) |-> Means(m, fr, Word(s, RegOf(Top(fr), l)))]
  BY <1>1 DEF Act, Locals
<1> QED
  BY <1>2, <1>3

LEMMA RetGenStep ==
  ASSUME NEW fr \in Seq(Frame), Good(stack, mem, fn, fp, mode, gens, fr), Promised(stack, mode, gens, fr),
         Traced(trace, mode, fr), GeneratorsFit, NEW deinit \in BOOLEAN, RetGen(deinit)
  PROVE  Follows /\ Abstract!Next
<1>1. mode = "run" /\ mode \in Settled /\ UNCHANGED <<mem, trace>> /\ fn \in Generators /\ ~InGenerator
  BY DEF RetGen, ReturnTo, Settled, Modes
<1>2. PICK ret : ret = <<Handle(Len(gens) + 1)>>
  OBVIOUS
<1>3. Len(fr) > 1 /\ Returned(fr, ret)
  BY <1>2, RetGenKeeps
<1>4. Len(gens) \in Nat /\ GenObjects(gens)
  BY DEF Good
<1>5. ret # <<>> /\ ret[1] = Handle(Len(gens) + 1) /\ ret[1] \in Results
  BY <1>2, <1>4 DEF Results
<1>6. /\ Follows /\ AbsCalls' = Front(AbsCalls) /\ AbsGens' = GensView(gens') /\ AbsResult' = ret[1]
  BY <1>1, <1>3, <1>5, ReturnSeen
<1>7. Abstract!Running /\ Abstract!Depth = Len(fr) /\ Abstract!Top = Act(stack, mem, fr, Len(fr)) /\ AbsGens = GensView(gens)
  BY <1>1, Runs, SeenNow
<1>8. /\ Top(fr) \in Frame /\ Top(fr) = fr[Len(fr)] /\ fn = Top(fr).fn /\ ~OfGenerator(Top(fr))
      /\ \A l : Reg(l) = RegOf(Top(fr), l)
  BY <1>1, BodyIs
<1>9. /\ PtrLocals[fn] = {} /\ NumParams[fn] \in Nat /\ NumLocals[fn] \in Nat /\ NumParams[fn] <= NumLocals[fn]
      /\ Locals(Top(fr)) = 1..NumLocals[fn] /\ fn \in Fns
  BY <1>1, <1>8, FramesAssumption, Layout DEF GeneratorsFit, Locals
<1>10. PICK o : o = [fn |-> fn, running |-> FALSE, done |-> FALSE, deinit |-> deinit,
                    prev |-> Undef, frame |-> [l \in 1..NumParams[fn] |-> At(Reg(l))]]
  OBVIOUS
<1>11. /\ Act(stack, mem, fr, Len(fr)).locals = [l \in Locals(Top(fr)) |-> Plain(Word(stack, RegOf(Top(fr), l)))]
       /\ \A l \in Locals(Top(fr)) : Word(stack, RegOf(Top(fr), l)) \in LocalWords
  BY <1>8, <1>9, PlainLocals
<1>12. ObjectOk(o)
  <2>1. o.frame \in [1..NumParams[o.fn] -> LocalWords] /\ o.fn = fn
    BY <1>8, <1>9, <1>10, <1>11, AtIs
  <2> QED
    BY <1>1, <1>10, <2>1 DEF ObjectOk
<1>13. GenView(o) = [fn |-> fn, status |-> "paused", locals |->
          [l \in 1..NumLocals[fn] |-> IF l <= NumParams[fn] THEN Act(stack, mem, fr, Len(fr)).locals[l] ELSE <<"unset">>]]
  <2>1. PICK A : A = Act(stack, mem, fr, Len(fr)).locals
    OBVIOUS
  <2>2. o.frame = [l \in 1..NumParams[fn] |-> Word(stack, RegOf(Top(fr), l))]
    BY <1>8, <1>10, AtIs
  <2>3. ASSUME NEW l \in 1..NumLocals[fn]
        PROVE  (IF l <= NumParams[fn] THEN Plain(o.frame[l]) ELSE <<"unset">>)
                 = IF l <= NumParams[fn] THEN A[l] ELSE <<"unset">>
    BY <1>9, <1>11, <2>1, <2>2
  <2>4. o.fn = fn /\ o.running = FALSE /\ o.done = FALSE
    BY <1>10
  <2>5. [l \in 1..NumLocals[fn] |-> IF l <= NumParams[fn] THEN Plain(o.frame[l]) ELSE <<"unset">>]
          = [l \in 1..NumLocals[fn] |-> IF l <= NumParams[fn] THEN A[l] ELSE <<"unset">>]
    BY <2>3
  <2> QED
    BY <2>1, <2>4, <2>5 DEF GenView
<1>14. gens' = Append(gens, o)
  BY <1>10 DEF RetGen
<1>15. AbsGens' = Append(AbsGens, GenView(o)) /\ Len(AbsGens) = Len(gens)
  BY <1>4, <1>6, <1>7, <1>12, <1>14, GenViewAppended
<1>16. Abstract!Top.gen = 0 /\ Abstract!Top.fn = fn
  BY <1>7, <1>8 DEF Act
<1>17. Abstract!CreateGenerator
  BY <1>1, <1>3, <1>5, <1>6, <1>7, <1>13, <1>15, <1>16, SameEnds
    DEF Abstract!CreateGenerator, Abstract!Handle, Handle, Abstract!Unset
<1> QED
  BY <1>6, <1>17 DEF Abstract!Next

LEMMA ResumeStep ==
  ASSUME NEW fr \in Seq(Frame), Good(stack, mem, fn, fp, mode, gens, fr), Promised(stack, mode, gens, fr),
         Traced(trace, mode, fr), PlainCalls, GeneratorsFit, MayResume,
         Len(Activations) < MaxDepth, NEW g \in DOMAIN gens, NEW how \in {"gen", "end"}, EnterGenerator(g, how), Paused(g)
  PROVE  Follows /\ Abstract!Next
<1>1. mode = "run" /\ mode' = "run" /\ UNCHANGED <<mem, trace>>
  BY DEF MayResume, Body, EnterGenerator
<1>2. PICK h \in Frame : Entered(fr, h, g, how)
  BY EnterGeneratorKeeps
<1>3. PICK hr, n : hr = Append(fr, h) /\ n = Len(fr)
  OBVIOUS
<1>4. /\ h.fn = gens[g].fn /\ h.how = how /\ hr \in Seq(Frame)
      /\ Good(stack', mem', fn', fp', mode', gens', hr)
      /\ \A x \in Nat : x < EndOf(Top(fr)) => Word(stack', x) = Word(stack, x)
      /\ Word(stack', BaseOf(h) + 2) = Handle(g)
      /\ \A l \in Locals(h) : Word(stack', RegOf(h, l)) = IF l <= NumParams[h.fn] THEN gens[g].frame[l] ELSE Undef
  BY <1>2, <1>3 DEF Entered
<1>5. /\ Shape(fr) /\ Shape(hr) /\ mem \in Nat /\ n \in Nat \ {0} /\ n < MaxDepth
      /\ \A d \in 1..Len(fr) : FrameOk(stack, mem, gens, fr, d)
      /\ Len(gens) \in Nat /\ GenObjects(gens) /\ DOMAIN gens = 1..Len(gens) /\ ObjectOk(gens[g])
  <2>1. Len(gens) \in Nat /\ GenObjects(gens) /\ DOMAIN gens = 1..Len(gens)
    BY DEF Good, GenObjects
  <2>2. ObjectOk(gens[g])
    BY <2>1 DEF GenObjects
  <2> QED
    BY <1>3, <1>4, <2>1, <2>2, ShapeIs, DepthIs DEF Good
<1>6. Len(hr) = n + 1 /\ hr[n + 1] = h /\ (\A c \in 1..n : hr[c] = fr[c]) /\ Top(hr) = h /\ OfGenerator(h)
  BY <1>3, <1>4, <1>5 DEF Top, OfGenerator
<1>7. PICK p, o : p = gens[g] /\ o = [gens[g] EXCEPT !.prev = Addr(mem, fp), !.running = TRUE]
  OBVIOUS
<1>8. ObjectOk(p) /\ o = [fn |-> p.fn, running |-> TRUE, done |-> p.done, deinit |-> p.deinit,
                          prev |-> Addr(mem, fp), frame |-> p.frame]
  BY <1>5, <1>7 DEF ObjectOk
<1>9. ObjectOk(o)
  BY <1>8 DEF ObjectOk
<1>10. gens' = [gens EXCEPT ![g] = o]
  BY <1>7 DEF EnterGenerator
<1>11. gens'[g] = o /\ g \in 1..Len(gens') /\ Len(gens') = Len(gens)
  BY <1>5, <1>9, <1>10, GensChanged
<1>12. /\ p.fn \in Generators /\ p.fn \in Fns /\ PtrLocals[p.fn] = {} /\ p.frame \in [1..NumParams[p.fn] -> LocalWords]
       /\ NumParams[p.fn] \in Nat /\ NumLocals[p.fn] \in Nat /\ NumParams[p.fn] <= NumLocals[p.fn]
  <2>1. p.fn \in Generators /\ p.frame \in [1..NumParams[p.fn] -> LocalWords]
    BY <1>8 DEF ObjectOk
  <2>2. p.fn \in Fns
    BY <2>1, FramesAssumption
  <2> QED
    BY <2>1, <2>2, Layout DEF GeneratorsFit
<1>13. Resumed(stack', gens', h)
  <2>1. Word(stack', BaseOf(h) + 2) = Handle(g) /\ gens'[g].fn = h.fn
    BY <1>4, <1>7, <1>8, <1>11
  <2> QED
    BY <1>11, <2>1 DEF Resumed
<1>14. Promised(stack', mode', gens', hr)
  BY <1>1, <1>6, <1>13 DEF Promised
<1>15. /\ Abstract!Running /\ Abstract!Depth = n /\ AbsCalls = View(stack, mem, fr)
       /\ AbsResult = <<"unset">> /\ AbsGens = GensView(gens)
  BY <1>1, <1>3, Runs, SeenNow
<1>16. AbsCalls' = View(stack', mem', hr) /\ AbsResult' = <<"unset">> /\ AbsGens' = GensView(gens')
  BY <1>1, <1>4, <1>14, SeenNext DEF ResultOf
<1>17. PICK a, x : a = Act(stack', mem', hr, n + 1) /\ x = GenView(p)
  OBVIOUS
<1>18. AbsCalls' = Append(AbsCalls, a)
  <2>1. Pushes(View(stack, mem, fr), View(stack', mem, hr), Act(stack', mem, hr, Len(hr)))
    BY <1>3, <1>4, <1>5, <1>6, ViewPushed
  <2> QED
    BY <1>1, <1>6, <1>15, <1>16, <1>17, <2>1 DEF Pushes
<1>19. AbsGens' = [AbsGens EXCEPT ![g] = GenView(o)] /\ AbsGens[g] = x /\ g \in DOMAIN AbsGens
  <2>1. GenSet(GensView(gens), GensView([gens EXCEPT ![g] = o]), g, GenView(gens[g]), GenView(o))
    BY <1>5, <1>9, GenViewSet
  <2>2. GenSet(AbsGens, AbsGens', g, x, GenView(o))
    BY <1>7, <1>10, <1>15, <1>16, <1>17, <2>1
  <2> QED
    BY <2>2 DEF GenSet
<1>20. x.fn = p.fn /\ x.status = "paused" /\ GenView(o) = [x EXCEPT !.status = "running"]
       /\ x.locals = [l \in 1..NumLocals[p.fn] |-> IF l <= NumParams[p.fn] THEN Plain(p.frame[l]) ELSE <<"unset">>]
  <2>1. ~p.running /\ ~p.done
    BY <1>7 DEF Paused
  <2>2. o.fn = p.fn /\ o.running = TRUE /\ o.frame = p.frame
    BY <1>8
  <2>3. PICK ls : ls = [l \in 1..NumLocals[p.fn] |-> IF l <= NumParams[p.fn] THEN Plain(p.frame[l]) ELSE <<"unset">>]
    OBVIOUS
  <2>4. GenView(p) = [fn |-> p.fn, locals |-> ls, status |-> "paused"]
    BY <2>1, <2>3 DEF GenView
  <2>5. GenView(o) = [fn |-> p.fn, locals |-> ls, status |-> "running"]
    BY <2>2, <2>3 DEF GenView
  <2>6. x = [fn |-> p.fn, locals |-> ls, status |-> "paused"]
    BY <1>17, <2>4
  <2>7. x.fn = p.fn /\ x.status = "paused" /\ x.locals = ls
    BY <2>6
  <2>8. [x EXCEPT !.status = "running"] = [fn |-> p.fn, locals |-> ls, status |-> "running"]
    BY <2>6
  <2> QED
    BY <2>3, <2>5, <2>7, <2>8
<1>21. a = Abstract!Activation(p.fn, x.locals, g)
  <2>1. a.locals = [l \in Locals(h) |-> Plain(Word(stack', RegOf(h, l)))]
    BY <1>4, <1>6, <1>7, <1>12, <1>17, PlainLocals
  <2>2. a = [fn |-> p.fn, gen |-> g, locals |-> a.locals]
    <3>1. Word(stack', BaseOf(h) + 2)[2] = g
      BY <1>4 DEF Handle
    <3>2. Act(stack', mem', hr, n + 1) = [fn |-> p.fn, gen |-> g, locals |-> Act(stack', mem', hr, n + 1).locals]
      BY <1>4, <1>6, <1>7, <3>1 DEF Act
    <3> QED
      BY <1>17, <3>2
  <2>3. Len(x.locals) = NumLocals[p.fn]
    BY <1>12, <1>20
  <2>4. ASSUME NEW l \in 1..NumLocals[p.fn]
        PROVE  Plain(Word(stack', RegOf(h, l))) = IF l <= Len(x.locals) THEN x.locals[l] ELSE <<"unset">>
    <3>1. Word(stack', RegOf(h, l)) = IF l <= NumParams[p.fn] THEN p.frame[l] ELSE Undef
      BY <1>4, <1>7 DEF Locals
    <3>2. x.locals[l] = IF l <= NumParams[p.fn] THEN Plain(p.frame[l]) ELSE <<"unset">>
      BY <1>20
    <3>3. Plain(Undef) = <<"unset">>
      BY DEF Plain
    <3>4. l <= Len(x.locals)
      BY <1>12, <2>3
    <3> QED
      BY <3>1, <3>2, <3>3, <3>4
  <2>5. a.locals = [l \in 1..NumLocals[p.fn] |-> IF l <= Len(x.locals) THEN x.locals[l] ELSE <<"unset">>]
    BY <1>4, <1>7, <2>1, <2>4 DEF Locals
  <2> QED
    BY <2>2, <2>5 DEF Abstract!Activation, Abstract!Unset
<1>22. Abstract!Resume(g)
  <2>1. AbsGens' = [AbsGens EXCEPT ![g].status = "running"]
    BY <1>19, <1>20
  <2> QED
    BY <1>1, <1>5, <1>15, <1>16, <1>18, <1>19, <1>20, <1>21, <2>1 DEF Abstract!Resume
<1>23. Follows
  BY <1>4, <1>14 DEF Follows
<1> QED
  BY <1>19, <1>22, <1>23 DEF Abstract!Next

(* The end of a generator with nothing to clean up.                        *)
LEMMA FinishStep ==
  ASSUME NEW fr \in Seq(Frame), Good(stack, mem, fn, fp, mode, gens, fr), Promised(stack, mode, gens, fr),
         Traced(trace, mode, fr), PlainCalls, MayResume, NEW g \in DOMAIN gens, Paused(g),
         gens' = [gens EXCEPT ![g].done = TRUE], UNCHANGED <<stack, mem, fn, fp, mode, trace>>
  PROVE  Follows /\ Abstract!Next
<1>1. mode = "run" /\ mode \in Settled /\ ~OfGenerator(Top(fr))
  <2>1. mode = "run" /\ mode \in Settled
    BY DEF MayResume, Body, Settled, Modes
  <2> QED
    BY <2>1, BodyIs DEF MayResume, PlainCalls
<1>2. Len(gens) \in Nat /\ GenObjects(gens) /\ ObjectOk(gens[g])
  <2>1. Len(gens) \in Nat /\ GenObjects(gens)
    BY DEF Good
  <2> QED
    BY <2>1 DEF GenObjects
<1>3. PICK p, o : p = gens[g] /\ o = [gens[g] EXCEPT !.done = TRUE]
  OBVIOUS
<1>4. ObjectOk(p) /\ o = [fn |-> p.fn, running |-> p.running, done |-> TRUE, deinit |-> p.deinit,
                          prev |-> p.prev, frame |-> p.frame]
  BY <1>2, <1>3 DEF ObjectOk
<1>5. ObjectOk(o)
  BY <1>4 DEF ObjectOk
<1>6. PICK H : H = [gens EXCEPT ![g] = o]
  OBVIOUS
<1>7. gens' = H /\ Len(H) \in Nat /\ GenObjects(H)
  BY <1>2, <1>3, <1>5, <1>6, GensChanged
<1>8. Good(stack', mem', fn', fp', mode', gens', fr)
  <2>1. Good(stack, mem, fn, fp, mode, H, fr)
    BY <1>1, <1>7, OthersChanged
  <2> QED
    BY <1>7, <2>1
<1>9. Promised(stack', mode', gens', fr)
  BY <1>1 DEF Promised
<1>10. /\ Abstract!Running /\ AbsCalls = View(stack, mem, fr)
       /\ AbsResult = <<"unset">> /\ AbsGens = GensView(gens)
  BY <1>1, Runs, SeenNow
<1>11. AbsCalls' = View(stack, mem, fr) /\ AbsResult' = <<"unset">> /\ AbsGens' = GensView(gens')
  BY <1>1, <1>8, <1>9, SeenNext DEF ResultOf
<1>12. PICK x, y : x = GenView(p) /\ y = GenView(o)
  OBVIOUS
<1>13. GenSet(AbsGens, AbsGens', g, x, y)
  <2>1. GenSet(GensView(gens), GensView([gens EXCEPT ![g] = o]), g, GenView(gens[g]), GenView(o))
    BY <1>2, <1>5, GenViewSet
  <2> QED
    BY <1>3, <1>6, <1>7, <1>10, <1>11, <1>12, <2>1
<1>14. x.status = "paused" /\ y = [x EXCEPT !.status = "done"]
  <2>1. ~p.running /\ ~p.done
    BY <1>3 DEF Paused
  <2>2. o.fn = p.fn /\ o.running = p.running /\ o.done = TRUE /\ o.frame = p.frame
    BY <1>4
  <2>3. PICK ls : ls = [l \in 1..NumLocals[p.fn] |-> IF l <= NumParams[p.fn] THEN Plain(p.frame[l]) ELSE <<"unset">>]
    OBVIOUS
  <2>4. x = [fn |-> p.fn, locals |-> ls, status |-> "paused"]
    BY <1>12, <2>1, <2>3 DEF GenView
  <2>5. y = [fn |-> p.fn, locals |-> ls, status |-> "done"]
    BY <1>12, <2>1, <2>2, <2>3 DEF GenView
  <2> QED
    BY <2>4, <2>5
<1>15. AbsGens' = [AbsGens EXCEPT ![g].status = "done"] /\ AbsGens[g].status = "paused" /\ g \in DOMAIN AbsGens
  BY <1>13, <1>14 DEF GenSet
<1>16. Abstract!Finish(g)
  BY <1>10, <1>11, <1>15 DEF Abstract!Finish
<1>17. Follows
  BY <1>8, <1>9 DEF Follows
<1> QED
  BY <1>15, <1>16, <1>17 DEF Abstract!Next

LEMMA GenNextStep ==
  ASSUME NEW fr \in Seq(Frame), Good(stack, mem, fn, fp, mode, gens, fr), Promised(stack, mode, gens, fr),
         Traced(trace, mode, fr), PlainCalls, GeneratorsFit, NEW g \in DOMAIN gens, GenNext(g) \/ GenEnd(g)
  PROVE  Follows /\ Abstract!Next
<1>1. MayResume /\ Paused(g)
  BY DEF GenNext, GenEnd
<1>2. CASE \E how \in {"gen", "end"} : Len(Activations) < MaxDepth /\ EnterGenerator(g, how)
  <2>1. PICK how \in {"gen", "end"} : Len(Activations) < MaxDepth /\ EnterGenerator(g, how)
    BY <1>2
  <2> QED
    BY <1>1, <2>1, ResumeStep
<1>3. CASE gens' = [gens EXCEPT ![g].done = TRUE] /\ UNCHANGED <<stack, mem, fn, fp, mode, trace>>
  BY <1>1, <1>3, FinishStep
<1> QED
  BY <1>2, <1>3 DEF GenNext, GenEnd

(* A yield.                                                                *)
LEMMA RetYStep ==
  ASSUME NEW fr \in Seq(Frame), Good(stack, mem, fn, fp, mode, gens, fr), Promised(stack, mode, gens, fr),
         Traced(trace, mode, fr), GeneratorsFit,
         NEW w \in DataWords, NEW done \in BOOLEAN, NEW deinit \in BOOLEAN, RetY(w, done, deinit)
  PROVE  Follows /\ Abstract!Next
<1>1. mode = "run" /\ mode \in Settled /\ fn \in Generators /\ InGenerator /\ fn # Main /\ fn \in Fns
      /\ mem' = mem /\ trace' = trace
  <2>1. mode = "run" /\ fn \in Generators /\ InGenerator /\ mem' = mem /\ trace' = trace
    BY DEF RetY, Body, InGenerator, ReturnTo
  <2> QED
    BY <2>1, FramesAssumption DEF Settled, Modes
<1>2. /\ OfGenerator(Top(fr)) /\ Len(gens) \in Nat /\ GenObjects(gens) /\ RetSize[fn] = 1 /\ fn = Top(fr).fn
      /\ Top(fr) = fr[Len(fr)]
  BY <1>1, BodyIs DEF Good, GeneratorsFit
<1>3. PICK b : b = Base(TopContext)
  OBVIOUS
<1>4. Len(fr) > 1 /\ b = BaseOf(Top(fr))
  BY <1>1, <1>3, CallerIs
<1>5. PICK ret : ret = IF At(b + 1)[3] = "end" THEN <<>> ELSE [i \in 1..RetSize[fn] |-> w]
  OBVIOUS
<1>6. Returned(fr, ret)
  BY <1>3, <1>5, RetYKeeps
<1>7. ret = <<>> \/ (ret # <<>> /\ ret[1] = w)
  BY <1>2, <1>5
<1>8. /\ Follows /\ AbsCalls' = Front(AbsCalls) /\ AbsGens' = GensView(gens')
      /\ AbsResult' = IF ret = <<>> THEN <<"unset">> ELSE ret[1]
  <2>1. ret # <<>> => ret[1] \in Results
    BY <1>7 DEF Results
  <2> QED
    BY <1>1, <1>4, <1>6, <2>1, ReturnSeen
<1>9. Abstract!Running /\ Abstract!Depth = Len(fr) /\ Abstract!Top = Act(stack, mem, fr, Len(fr)) /\ AbsGens = GensView(gens)
  BY <1>1, Runs, SeenNow
<1>10. PICK h : h = Top(fr)
  OBVIOUS
<1>11. PICK g \in 1..Len(gens) : Word(stack, BaseOf(h) + 2) = Handle(g) /\ gens[g].fn = h.fn
  <2>1. Resumed(stack, gens, h)
    BY <1>2, <1>10 DEF Promised
  <2> QED
    BY <2>1 DEF Resumed
<1>12. PICK p, o : p = gens[g] /\ o = [gens[g] EXCEPT !.running = FALSE, !.done = done,
                                          !.deinit = IF done THEN gens[g].deinit ELSE deinit]
  OBVIOUS
<1>13. ObjectOk(p) /\ g \in DOMAIN gens /\ p.fn = fn /\ p.fn = h.fn
  BY <1>2, <1>10, <1>11, <1>12 DEF GenObjects
<1>14. o = [fn |-> p.fn, running |-> FALSE, done |-> done, deinit |-> IF done THEN p.deinit ELSE deinit,
            prev |-> p.prev, frame |-> p.frame]
  BY <1>12, <1>13 DEF ObjectOk
<1>15. ObjectOk(o)
  BY <1>13, <1>14 DEF ObjectOk
<1>16. At(b + 2)[2] = g
  <2>1. At(b + 2) = Handle(g)
    BY <1>4, <1>10, <1>11, AtIs
  <2> QED
    BY <2>1 DEF Handle
<1>17. gens' = [gens EXCEPT ![g] = o] /\ (ret = <<>> => done)
  <2>1. PICK e, k : e = (At(b + 1)[3] = "end") /\ k = At(b + 2)[2]
    OBVIOUS
  <2>2. gens' = [gens EXCEPT ![k] = [@ EXCEPT !.running = FALSE, !.done = done,
                                              !.deinit = IF done THEN gens[k].deinit ELSE deinit]]
    BY <1>3, <2>1 DEF RetY
  <2>3. k = g
    BY <1>16, <2>1
  <2>4. e => done
    BY <1>3, <2>1 DEF RetY
  <2>5. ASSUME ret = <<>> PROVE e
    <3>1. DOMAIN ret = {}
      BY <2>5
    <3>2. ~e => ret = [i \in 1..1 |-> w]
      BY <1>2, <1>5, <2>1
    <3>3. ~e => 1 \in DOMAIN ret
      BY <3>2
    <3> QED
      BY <3>1, <3>3
  <2> QED
    BY <1>12, <2>2, <2>3, <2>4, <2>5
<1>18. PICK x, y, s, a : /\ x = GenView(p) /\ y = GenView(o) /\ s = (IF done THEN "done" ELSE "paused")
                         /\ a = Act(stack, mem, fr, Len(fr))
  OBVIOUS
<1>19. GenSet(AbsGens, AbsGens', g, x, y)
  <2>1. GenSet(GensView(gens), GensView([gens EXCEPT ![g] = o]), g, GenView(gens[g]), GenView(o))
    BY <1>2, <1>13, <1>15, GenViewSet
  <2> QED
    BY <1>8, <1>9, <1>12, <1>17, <1>18, <2>1
<1>20. a.gen = g
  <2>1. Word(stack, BaseOf(fr[Len(fr)]) + 2)[2] = g /\ OfGenerator(fr[Len(fr)])
    BY <1>2, <1>10, <1>11 DEF Handle
  <2> QED
    BY <1>18, <2>1 DEF Act
<1>21. PICK ls : ls = [l \in 1..NumLocals[p.fn] |-> IF l <= NumParams[p.fn] THEN Plain(p.frame[l]) ELSE <<"unset">>]
  OBVIOUS
<1>22. PICK st : x = [fn |-> p.fn, locals |-> ls, status |-> st]
  BY <1>18, <1>21 DEF GenView
<1>23. y = [fn |-> p.fn, locals |-> ls, status |-> s]
  <2>1. o.fn = p.fn /\ o.running = FALSE /\ o.done = done /\ o.frame = p.frame
    BY <1>14
  <2> QED
    BY <1>18, <1>21, <2>1 DEF GenView
<1>24. AbsGens' = [AbsGens EXCEPT ![g].status = s, ![g].locals = IF FALSE THEN a.locals ELSE @]
  <2>1. PICK A, B : A = AbsGens /\ B = AbsGens'
    OBVIOUS
  <2>2. g \in DOMAIN A /\ A[g] = [fn |-> p.fn, locals |-> ls, status |-> st] /\ B = [A EXCEPT ![g] = y]
    BY <1>19, <1>22, <2>1 DEF GenSet
  <2>3. [A EXCEPT ![g].status = s] = B
    <3>1. PICK r : r = A[g]
      OBVIOUS
    <3>2. [r EXCEPT !.status = s] = y
      BY <1>23, <2>2, <3>1
    <3> QED
      BY <2>2, <3>1, <3>2
  <2>4. B[g].locals = ls /\ g \in DOMAIN B /\ B[g] = y
    BY <1>23, <2>2
  <2>5. [B EXCEPT ![g].locals = IF FALSE THEN a.locals ELSE @] = B
    BY <1>23, <2>2, <2>4
  <2> QED
    BY <2>1, <2>3, <2>5
<1>25. g # 0 /\ s \in {"paused", "done"}
  BY <1>2, <1>11, <1>18
<1>26. PICK v : v = AbsResult'
  OBVIOUS
<1>27. v \in Abstract!DataWords \cup {Abstract!Unset}
  BY <1>7, <1>8, <1>26 DEF Abstract!DataWords, Abstract!Datum, DataWords, Datum, Abstract!Unset
<1>28. Abstract!Yield(v, s)
  BY <1>1, <1>8, <1>9, <1>18, <1>20, <1>24, <1>25, <1>26, SameEnds DEF Abstract!Yield
<1> QED
  BY <1>8, <1>25, <1>27, <1>28 DEF Abstract!Next

-----------------------------------------------------------------------------
(* A panic, and the start.                                                 *)
LEMMA UnwindStep ==
  ASSUME NEW fr \in Seq(Frame), Good(stack, mem, fn, fp, mode, gens, fr), Promised(stack, mode, gens, fr),
         Traced(trace, mode, fr), GeneratorsFit, Unwind
  PROVE  Good(stack', mem', fn', fp', mode', gens', fr) /\ Traced(trace', mode', fr)
         /\ Promised(stack', mode', gens', fr) /\ Abstract!Next
<1>1. /\ Good(stack', mem', fn', fp', mode', gens', fr) /\ Traced(trace', mode', fr)
      /\ mode' = "dead" /\ trace' = [k \in 1..Len(fr) |-> fr[Len(fr) + 1 - k].fn]
  BY UnwindKeeps
<1>2. mode = "panic" /\ UNCHANGED <<stack, mem, fn, fp, gens>>
  BY DEF Unwind
<1>3. Promised(stack', mode', gens', fr)
  BY <1>1, <1>2, PromisedKept
<1>4. AbsCalls = View(stack, mem, fr) /\ AbsResult = <<"unset">> /\ AbsGens = GensView(gens)
  BY <1>2, SeenNow DEF ResultOf
<1>5. AbsCalls' = View(stack, mem, fr) /\ AbsResult' = <<"unset">> /\ AbsGens' = GensView(gens)
  BY <1>1, <1>2, <1>3, SeenNext DEF ResultOf
<1>6. trace = <<>>
  BY <1>2 DEF Traced
<1>7. Len(View(stack, mem, fr)) = Len(fr) /\ \A d \in 1..Len(fr) : View(stack, mem, fr)[d].fn = fr[d].fn
  <2>1. Shape(fr)
    BY DEF Good
  <2>2. /\ Len(View(stack, mem, fr)) = Len(fr)
        /\ \A d \in 1..Len(fr) : View(stack, mem, fr)[d] = Act(stack, mem, fr, d)
    BY <2>1, ViewIs
  <2>3. ASSUME NEW d \in 1..Len(fr) PROVE View(stack, mem, fr)[d].fn = fr[d].fn
    <3>1. View(stack, mem, fr)[d] = Act(stack, mem, fr, d)
      BY <2>2
    <3>2. Act(stack, mem, fr, d).fn = fr[d].fn
      BY DEF Act
    <3> QED
      BY <3>1, <3>2
  <2> QED
    BY <2>2, <2>3
<1>8. Abstract!Depth = Len(fr) /\ [d \in 1..Len(fr) |-> AbsCalls[d].fn] = [d \in 1..Len(fr) |-> fr[d].fn]
  BY <1>4, <1>7 DEF Abstract!Depth
<1>9. Abstract!Reverse([d \in 1..Abstract!Depth |-> AbsCalls[d].fn]) = trace'
  <2>1. PICK n, F : n = Len(fr) /\ F = [d \in 1..n |-> fr[d].fn]
    OBVIOUS
  <2>2. n \in Nat /\ Len(F) = n /\ \A k \in 1..n : F[n + 1 - k] = fr[n + 1 - k].fn
    BY <2>1, ShapeIs DEF Good
  <2>3. Abstract!Reverse(F) = [k \in 1..n |-> F[n + 1 - k]]
    BY <2>2 DEF Abstract!Reverse
  <2>4. [k \in 1..n |-> F[n + 1 - k]] = [k \in 1..n |-> fr[n + 1 - k].fn]
    BY <2>2
  <2>5. [d \in 1..Abstract!Depth |-> AbsCalls[d].fn] = F
    BY <1>8, <2>1
  <2>6. trace' = [k \in 1..n |-> fr[n + 1 - k].fn]
    BY <1>1, <2>1
  <2> QED
    BY <2>3, <2>4, <2>5, <2>6
<1>10. Abstract!Panic
  BY <1>4, <1>5, <1>6, <1>9 DEF Abstract!Panic
<1> QED
  BY <1>1, <1>3, <1>10 DEF Abstract!Next

LEMMA InitStep ==
  ASSUME Init
  PROVE  /\ \E fr \in Seq(Frame) : /\ Good(stack, mem, fn, fp, mode, gens, fr) /\ Traced(trace, mode, fr)
                                   /\ Promised(stack, mode, gens, fr)
         /\ Abstract!Init
<1>1. PICK h, fr : h = [fn |-> Main, fp |-> 0, how |-> "main"] /\ fr = <<h>>
  OBVIOUS
<1>2. fr \in Seq(Frame) /\ Good(stack, mem, fn, fp, mode, gens, fr) /\ Traced(trace, mode, fr)
  BY <1>1, InitGood
<1>3. Len(fr) = 1 /\ fr[1] = h /\ Top(fr) = h /\ ~OfGenerator(h) /\ h.fn = Main /\ h.fp = 0
  BY <1>1 DEF Top, OfGenerator
<1>4. mode = "run" /\ gens = <<>> /\ trace = <<>> /\ stack = [i \in 1..StackSize |-> Undef]
  BY DEF Init
<1>5. Promised(stack, mode, gens, fr)
  BY <1>3, <1>4 DEF Promised
<1>6. AbsCalls = View(stack, mem, fr) /\ AbsResult = <<"unset">> /\ AbsGens = GensView(gens)
  BY <1>2, <1>4, <1>5, SeenNow DEF ResultOf
<1>7. AbsGens = <<>>
  BY <1>4, <1>6 DEF GensView
<1>8. ASSUME NEW x PROVE Word(stack, x) = Undef \/ x \notin Nat
  BY <1>4, FramesAssumption DEF Word
<1>9. Act(stack, mem, fr, 1) = Abstract!Activation(Main, <<>>, 0)
  <2>1. ASSUME NEW l \in 1..NumLocals[Main] PROVE Means(mem, fr, Word(stack, RegOf(h, l))) = <<"unset">>
    <3>1. RegOf(h, l) \in Nat
      <4>1. h \in Frame /\ l \in Locals(h)
        BY <1>1, <1>3, FramesAssumption DEF Frame, Entries, Locals
      <4> QED
        BY <4>1, RegIs
    <3>2. Word(stack, RegOf(h, l)) = Undef
      BY <1>8, <3>1
    <3> QED
      BY <3>2 DEF Means, Meaning
  <2>2. \A l \in 1..NumLocals[Main] : ~(l <= Len(<<>>))
    BY FramesAssumption
  <2>3. Act(stack, mem, fr, 1) = [fn |-> Main, gen |-> 0, locals |-> [l \in 1..NumLocals[Main] |-> <<"unset">>]]
    BY <1>3, <2>1 DEF Act
  <2>4. Abstract!Activation(Main, <<>>, 0) = [fn |-> Main, gen |-> 0, locals |-> [l \in 1..NumLocals[Main] |-> <<"unset">>]]
    BY <2>2 DEF Abstract!Activation, Abstract!Unset
  <2> QED
    BY <2>3, <2>4
<1>10. AbsCalls = <<Abstract!Activation(Main, <<>>, 0)>>
  <2>1. View(stack, mem, fr) = [d \in 1..1 |-> Act(stack, mem, fr, d)]
    BY <1>3 DEF View
  <2>2. PICK a : a = Act(stack, mem, fr, 1)
    OBVIOUS
  <2>3. [d \in 1..1 |-> Act(stack, mem, fr, d)] = <<a>>
    BY <2>2
  <2> QED
    BY <1>6, <1>9, <2>1, <2>2, <2>3
<1> QED
  BY <1>2, <1>4, <1>5, <1>6, <1>7, <1>10 DEF Abstract!Init, Abstract!Unset

-----------------------------------------------------------------------------
Moves == Follows /\ (Abstract!Next \/ UNCHANGED Abstract!vars)

LEMMA LiveStep ==
  ASSUME NEW fr \in Seq(Frame), Good(stack, mem, fn, fp, mode, gens, fr), Promised(stack, mode, gens, fr),
         Traced(trace, mode, fr), PlainCalls, GeneratorsFit, Live
  PROVE  Moves
<1>1. ASSUME \/ \E l \in DataLocals, w \in DataWords : Assign(l, w)
             \/ \E l \in PtrLocals[fn], w \in OwnAddrs : Assign(l, w)
             \/ \E p \in Pointers, w \in DataWords : StorePtr(p, w)
             \/ \E p \in Pointers, l \in DataLocals : LoadPtr(l, p)
      PROVE  Moves
  BY <1>1, WriteSteps DEF Moves
<1>2. ASSUME NEW g \in Callees[fn], NEW how \in Hows,
             NEW args \in [1..NumParams[g] -> UNION {ArgWords(g, l) : l \in 1..NumParams[g]}],
             \A l \in 1..NumParams[g] : args[l] \in ArgWords(g, l), Call(g, how, args) PROVE Moves
  BY <1>2, CallStep DEF Moves
<1>3. ASSUME \/ ChkStk \/ GrowInPlace \/ GrowMove \/ GrowFails
             \/ (\E how \in Hows : CallHost(how)) \/ HostPanic \/ Panic \/ End
      PROVE  Moves
  BY <1>3, QuietSteps DEF Moves
<1>4. ASSUME NEW w \in DataWords, Ret(w) PROVE Moves
  BY <1>4, RetStep DEF Moves
<1>5. ASSUME NEW w \in DataWords, HostReturn(w) PROVE Moves
  BY <1>5, HostReturnStep DEF Moves
<1>6. ASSUME NEW w \in DataWords, NEW done \in BOOLEAN, NEW deinit \in BOOLEAN, RetY(w, done, deinit) PROVE Moves
  BY <1>6, RetYStep DEF Moves
<1>7. ASSUME NEW l \in DataLocals \cup {0}, l = 0 \/ At(fp + FrameTop[fn])[1] = "data", TakeResult(l) PROVE Moves
  BY <1>7, TakeResultStep DEF Moves
<1>8. ASSUME NEW deinit \in BOOLEAN, RetGen(deinit) PROVE Moves
  BY <1>8, RetGenStep DEF Moves
<1>9. ASSUME NEW g \in DOMAIN gens, GenNext(g) \/ GenEnd(g) PROVE Moves
  BY <1>9, GenNextStep DEF Moves
<1>10. CASE Interpreter
  BY <1>1, <1>2, <1>3, <1>4, <1>5, <1>6, <1>7, <1>8, <1>9, <1>10 DEF Interpreter
<1> QED
  BY <1>3, <1>10 DEF Live

(* The invariant with the promises of the frames.                          *)
RInv == \E fr \in Seq(Frame) : /\ Good(stack, mem, fn, fp, mode, gens, fr) /\ Traced(trace, mode, fr)
                               /\ Promised(stack, mode, gens, fr)

LEMMA StepRefines ==
  ASSUME PlainCalls, GeneratorsFit, RInv, [Next]_vars
  PROVE  RInv' /\ [Abstract!Next]_(Abstract!vars)
<1>1. PICK fr \in Seq(Frame) : /\ Good(stack, mem, fn, fp, mode, gens, fr) /\ Traced(trace, mode, fr)
                               /\ Promised(stack, mode, gens, fr)
  BY DEF RInv
<1>2. CASE UNCHANGED vars
  <2>1. Good(stack', mem', fn', fp', mode', gens', fr) /\ Promised(stack', mode', gens', fr) /\ Traced(trace', mode', fr)
    BY <1>1, <1>2 DEF vars
  <2>2. RInv'
    BY <2>1 DEF RInv
  <2>3. AbsCalls = View(stack, mem, fr) /\ AbsResult = ResultOf(stack, mode, fr) /\ AbsGens = GensView(gens)
    BY <1>1, SeenNow
  <2>4. AbsCalls' = View(stack', mem', fr) /\ AbsResult' = ResultOf(stack', mode', fr) /\ AbsGens' = GensView(gens')
    BY <2>1, SeenNext
  <2>5. AbsCalls' = AbsCalls /\ AbsResult' = AbsResult /\ AbsGens' = AbsGens /\ trace' = trace
    BY <1>2, <2>3, <2>4 DEF vars
  <2> QED
    BY <2>2, <2>5 DEF Abstract!vars
<1>3. CASE Unwind
  <2>1. /\ Good(stack', mem', fn', fp', mode', gens', fr) /\ Traced(trace', mode', fr)
        /\ Promised(stack', mode', gens', fr) /\ Abstract!Next
    BY <1>1, <1>3, UnwindStep
  <2> QED
    BY <2>1 DEF RInv
<1>4. CASE Live
  <2>1. Moves
    BY <1>1, <1>4, LiveStep
  <2>2. Kept
    BY <1>1, <1>4, LiveKeeps
  <2>3. PICK hr \in Seq(Frame) : Good(stack', mem', fn', fp', mode', gens', hr) /\ Promised(stack', mode', gens', hr)
    BY <2>1 DEF Moves, Follows
  <2>4. Traced(trace', mode', hr)
    BY <1>1, <2>2 DEF Kept, Traced
  <2>5. RInv'
    BY <2>3, <2>4 DEF RInv
  <2> QED
    BY <2>1, <2>5 DEF Moves
<1> QED
  BY <1>2, <1>3, <1>4 DEF Next, Thread, Live

(* The VM stack implements calls, references and generators: whatever the  *)
(* instructions of vm.c and the growth of the stack in thread.zig do to    *)
(* the registers, the program sees what CallStack promises: of a generator *)
(* that each resume starts with the arguments it was made with.            *)
THEOREM Refinement == PlainCalls /\ GeneratorsFit => (Spec => CallStackSpec)
<1> SUFFICES ASSUME PlainCalls, GeneratorsFit PROVE Spec => CallStackSpec
  OBVIOUS
<1>1. Init => RInv /\ Abstract!Init
  BY InitStep DEF RInv
<1>2. RInv /\ [Next]_vars => RInv' /\ [Abstract!Next]_(Abstract!vars)
  BY StepRefines
<1> QED
  BY <1>1, <1>2, PTL DEF Spec, CallStackSpec, Abstract!Spec
=============================================================================
