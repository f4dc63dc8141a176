--------------------------- MODULE ObjectsProofs ---------------------------
(***************************************************************************)
(* Proofs about Objects for every number of variables, objects, types and  *)
(* captures: the counts of both machines are the number of holders of each *)
(* object at every step of every destructor, references are well typed,    *)
(* what a program leaves behind is in cycles, and the machines agree.      *)
(* A statement of a program is two or three moves of a reference: it is    *)
(* taken from the counts, put where another one was, and that one is given *)
(* up.  The invariant is therefore stated of any state of the parts and of *)
(* one reference on the way, and every move has a lemma.                   *)
(***************************************************************************)
EXTENDS Objects, FiniteSetTheorems, TLAPS

(* Closures that capture locals are left out: the two machines do not      *)
(* treat their captures alike.                                             *)
NoPins == Pinned \subseteq {FALSE}

(* Texts in which both machines compare every byte.                        *)
NoZeroBytes == \A x \in Texts : \A i \in 1..Len(x) : x[i] # 0

Refs == Objs \cup {Null}
Kinds == {"dead", "ref", "opt", "trait", "func", "str"}
Tags == Types \cup Texts \cup {"Object", "none", "func"}
Value == [kind : Kinds, obj : Refs, as : Tags]
Cell == [type : Types \cup {"none", "buffer", "func", "closure"}, refs : Seq(Refs)]
VmState == [rc : [Objs -> Int], live : SUBSET Objs, refCounts : Int, pool : SUBSET Objs, spoilt : BOOLEAN]
AotState == [rc : [Objs -> Int], live : SUBSET Objs, num_objs : Int]
Destructor == [obj : Objs, next : Nat \ {0}]
Destructors == Seq(Destructor)

(* Below, S are the variables, c the cells, m and a the machines, q the    *)
(* destructors that run, L the live objects, x the reference on the way.   *)
Typed(S, c, m, a, q) ==
  /\ S \in [Vars -> Value] /\ c \in [Objs -> Cell]
  /\ m \in VmState /\ a \in AotState /\ q \in Destructors

ValueOk(w, c) ==
  /\ w.kind = "dead" => w = Dead
  /\ w.kind \in {"ref", "func"} => w.obj # Null
  /\ w.kind = "func" => c[w.obj].type \in {"func", "closure"}
  /\ w.kind = "str" => w.as \in Texts
  /\ w.kind \in {"ref", "opt", "trait"} /\ w.obj # Null
       => w.as = AnyType \/ c[w.obj].type = w.as

CellOk(e) ==
  /\ e.type # "none"
  /\ Len(e.refs) <= MaxCaptures
  /\ e.type \in Types => Len(e.refs) = 1
  /\ e.type \in {"buffer", "func"} => e.refs = <<>>
  /\ e.type = "closure" => \A i \in 1..Len(e.refs) : e.refs[i] # Null

Shaped(S, c, L) == (\A v \in Vars : ValueOk(S[v], c)) /\ (\A o \in L : CellOk(c[o]))

(* The holders of an object, as in Objects.                                *)
Dies(q, o) == \E i \in 1..Len(q) : q[i].obj = o
FirstOf(q, o) == IF Dies(q, o) THEN q[CHOOSE i \in 1..Len(q) : q[i].obj = o].next ELSE 1
VarsOf(S, o) == {v \in Vars : S[v].obj = o}
FieldsOf(L, c, q, o) ==
  {f \in L \X (1..MaxCaptures) :
     f[2] \in FirstOf(q, f[1])..Len(c[f[1]].refs) /\ c[f[1]].refs[f[2]] = o}
Count(S, L, c, q, x, o) ==
  Cardinality(VarsOf(S, o)) + Cardinality(FieldsOf(L, c, q, o)) + (IF x = o THEN 1 ELSE 0)

Distinct(q) == \A i, j \in 1..Len(q) : q[i].obj = q[j].obj => i = j

(* Counts are exact, and what has a count of zero is being destroyed.      *)
Exact(S, c, m, a, q, x) ==
  /\ \A o \in Objs : Count(S, m.live, c, q, x, o) > 0 => o \in m.live
  /\ \A o \in m.live : m.rc[o] = Count(S, m.live, c, q, x, o) /\ a.rc[o] = m.rc[o]
  /\ Distinct(q)
  /\ \A i \in 1..Len(q) : q[i].obj \in m.live /\ m.rc[q[i].obj] = 0
  /\ \A o \in m.live : m.rc[o] = 0 => Dies(q, o)

Totals(m, a) == a.live = m.live /\ a.num_objs = Cardinality(m.live)

Good(S, c, m, a, q, x) ==
  Typed(S, c, m, a, q) /\ Shaped(S, c, m.live) /\ Exact(S, c, m, a, q, x) /\ Totals(m, a)

Ended ==
  /\ mode \in {"run", "panic", "done", "unfreed", "diverged"}
  /\ mode \in {"unfreed", "done"} => todo = <<>> /\ \A v \in Vars : slot[v] = Dead
  /\ mode = "done" => vm.live = {}
  /\ mode = "diverged" => ~NoZeroBytes

(* The cells as the objects own them: while a field is set, the new value  *)
(* is already the object's, which a variable of the program holds.         *)
WithRef(c, p, w) == [c EXCEPT ![p].refs = <<w>>]
Contents == IF store = NoStore THEN cell ELSE WithRef(cell, store.obj, store.new)

Storing ==
  /\ cell \in [Objs -> Cell]
  /\ store # NoStore =>
       /\ store.obj \in Objs /\ \E v \in Vars : slot[v].obj = store.obj
       /\ store = [obj |-> store.obj, new |-> store.new]
       /\ mode \in {"run", "diverged"}

IInv == Good(slot, Contents, vm, aot, todo, Null) /\ Storing /\ Ended

-----------------------------------------------------------------------------
(* Which fields of an object its destructor has still to give up, when a   *)
(* destructor starts, goes on to the next field, and ends.                 *)
LEMMA FirstAt ==
  ASSUME NEW q \in Destructors, Distinct(q), NEW i \in 1..Len(q)
  PROVE  Dies(q, q[i].obj) /\ FirstOf(q, q[i].obj) = q[i].next
<1>1. \A j \in 1..Len(q) : q[j].obj = q[i].obj => j = i
  BY DEF Distinct
<1> QED
  BY <1>1 DEF FirstOf, Dies

LEMMA FirstType ==
  ASSUME NEW q \in Destructors, NEW o
  PROVE  FirstOf(q, o) \in Nat \ {0}
<1>1. CASE Dies(q, o)
  <2>1. PICK i \in 1..Len(q) : i = CHOOSE k \in 1..Len(q) : q[k].obj = o
    BY <1>1 DEF Dies
  <2>2. q[i] \in Destructor
    BY DEF Destructors
  <2> QED
    BY <1>1, <2>1, <2>2 DEF FirstOf, Destructor
<1> QED
  BY <1>1 DEF FirstOf

Starting(x, q) == <<[obj |-> x, next |-> 1]>> \o q

LEMMA DestructorStarts ==
  ASSUME NEW q \in Destructors, Distinct(q), NEW x \in Objs, ~Dies(q, x),
         NEW r, r = Starting(x, q)
  PROVE  /\ r \in Destructors /\ Distinct(r)
         /\ \A o : Dies(r, o) <=> Dies(q, o) \/ o = x
         /\ \A o : FirstOf(r, o) = FirstOf(q, o)
<1> USE DEF Destructors
<1>0. [obj |-> x, next |-> 1] \in Destructor
  BY DEF Destructor
<1>1. r \in Destructors /\ Len(r) = Len(q) + 1
  BY <1>0 DEF Starting
<1>2. r[1] = [obj |-> x, next |-> 1] /\ \A i \in 2..Len(r) : i - 1 \in 1..Len(q) /\ r[i] = q[i - 1]
  BY DEF Starting
<1>3. \A i \in 1..Len(q) : i + 1 \in 2..Len(r) /\ r[i + 1] = q[i]
  BY DEF Starting
<1>4. \A i \in 1..Len(q) : q[i].obj # x
  BY DEF Dies
<1>5. Distinct(r)
  <2> SUFFICES ASSUME NEW i \in 1..Len(r), NEW j \in 1..Len(r), r[i].obj = r[j].obj PROVE i = j
    BY DEF Distinct
  <2>1. CASE i = 1
    BY <1>2, <1>4, <2>1
  <2>2. CASE j = 1
    BY <1>2, <1>4, <2>2
  <2>3. CASE i # 1 /\ j # 1
    <3>1. i \in 2..Len(r) /\ j \in 2..Len(r)
      BY <1>1, <2>3
    <3>2. i - 1 \in 1..Len(q) /\ j - 1 \in 1..Len(q) /\ q[i - 1].obj = q[j - 1].obj
      BY <1>2, <3>1
    <3>3. i - 1 = j - 1
      BY <3>2 DEF Distinct
    <3> QED
      BY <3>1, <3>3
  <2> QED
    BY <2>1, <2>2, <2>3
<1>6. ASSUME NEW o PROVE Dies(r, o) <=> Dies(q, o) \/ o = x
  <2>1. Dies(r, o) => Dies(q, o) \/ o = x
    BY <1>1, <1>2 DEF Dies
  <2>2. Dies(q, o) => Dies(r, o)
    BY <1>1, <1>3 DEF Dies
  <2>3. Dies(r, x)
    BY <1>1, <1>2 DEF Dies
  <2> QED
    BY <2>1, <2>2, <2>3
<1>7. ASSUME NEW o PROVE FirstOf(r, o) = FirstOf(q, o)
  <2>1. CASE o = x
    <3>1. FirstOf(r, r[1].obj) = r[1].next
      <4>1. 1 \in 1..Len(r)
        BY <1>1
      <4> QED
        BY <1>1, <1>5, <4>1, FirstAt
    <3>2. r[1].obj = x /\ r[1].next = 1
      BY <1>2
    <3> QED
      BY <2>1, <3>1, <3>2 DEF FirstOf
  <2>2. CASE ~Dies(r, o)
    BY <1>6, <2>2 DEF FirstOf
  <2>3. CASE o # x /\ Dies(r, o)
    <3>1. PICK i \in 1..Len(q) : q[i].obj = o
      BY <1>6, <2>3 DEF Dies
    <3>2. i + 1 \in 1..Len(r) /\ r[i + 1] = q[i]
      BY <1>3
    <3>3. FirstOf(q, q[i].obj) = q[i].next
      BY FirstAt
    <3>4. FirstOf(r, r[i + 1].obj) = r[i + 1].next
      BY <1>1, <1>5, <3>2, FirstAt
    <3> QED
      BY <3>1, <3>2, <3>3, <3>4
  <2> QED
    BY <2>1, <2>2, <2>3
<1> QED
  BY <1>1, <1>5, <1>6, <1>7

GoneOn(q) == <<[Head(q) EXCEPT !.next = @ + 1]>> \o Tail(q)

LEMMA DestructorGoesOn ==
  ASSUME NEW q \in Destructors, q # <<>>, Distinct(q),
         NEW r, r = GoneOn(q)
  PROVE  /\ r \in Destructors /\ Distinct(r) /\ Len(r) = Len(q)
         /\ \A i \in 1..Len(q) : r[i].obj = q[i].obj
         /\ \A o : Dies(r, o) <=> Dies(q, o)
         /\ \A o : FirstOf(r, o) = IF o = Head(q).obj THEN Head(q).next + 1 ELSE FirstOf(q, o)
<1> USE DEF Destructors
<1>1. Head(q) = q[1] /\ Head(q) \in Destructor /\ 1 \in 1..Len(q)
  OBVIOUS
<1>2. PICK h \in Destructor :
        h = [Head(q) EXCEPT !.next = @ + 1] /\ h.obj = q[1].obj /\ h.next = q[1].next + 1
  <2>1. PICK e \in Destructor : e = Head(q)
    BY <1>1
  <2>2. [e EXCEPT !.next = @ + 1] = [obj |-> e.obj, next |-> e.next + 1]
    BY DEF Destructor
  <2>3. [obj |-> e.obj, next |-> e.next + 1] \in Destructor
    BY DEF Destructor
  <2> QED
    BY <1>1, <2>1, <2>2, <2>3
<1>3. r = <<h>> \o Tail(q)
  BY <1>2 DEF GoneOn
<1>4. r \in Destructors /\ Len(r) = Len(q) /\ r[1] = h /\ \A i \in 2..Len(q) : r[i] = q[i]
  BY <1>3
<1>5. \A i \in 1..Len(q) : r[i].obj = q[i].obj
  <2> SUFFICES ASSUME NEW i \in 1..Len(q) PROVE r[i].obj = q[i].obj
    OBVIOUS
  <2>1. i = 1 \/ i \in 2..Len(q)
    OBVIOUS
  <2> QED
    BY <1>2, <1>4, <2>1
<1>6. Distinct(r) /\ \A o : Dies(r, o) <=> Dies(q, o)
  BY <1>4, <1>5 DEF Distinct, Dies
<1>7. ASSUME NEW o PROVE FirstOf(r, o) = IF o = Head(q).obj THEN Head(q).next + 1 ELSE FirstOf(q, o)
  <2>1. CASE o = Head(q).obj
    <3>1. FirstOf(r, r[1].obj) = r[1].next
      BY <1>1, <1>4, <1>6, FirstAt
    <3> QED
      BY <1>1, <1>2, <1>4, <2>1, <3>1
  <2>2. CASE ~Dies(q, o)
    BY <1>1, <1>6, <2>2 DEF FirstOf, Dies
  <2>3. CASE o # Head(q).obj /\ Dies(q, o)
    <3>1. PICK i \in 1..Len(q) : q[i].obj = o
      BY <2>3 DEF Dies
    <3>2. i \in 2..Len(q) /\ r[i] = q[i]
      BY <1>1, <1>4, <2>3, <3>1
    <3>3. FirstOf(q, q[i].obj) = q[i].next /\ FirstOf(r, r[i].obj) = r[i].next
      BY <1>4, <1>6, FirstAt
    <3> QED
      BY <2>3, <3>1, <3>2, <3>3
  <2> QED
    BY <2>1, <2>2, <2>3
<1> QED
  BY <1>4, <1>5, <1>6, <1>7

LEMMA DestructorEnds ==
  ASSUME NEW q \in Destructors, q # <<>>, Distinct(q), NEW r, r = Tail(q)
  PROVE  /\ r \in Destructors /\ Distinct(r)
         /\ \A i \in 1..Len(r) : i + 1 \in 1..Len(q) /\ r[i] = q[i + 1] /\ r[i].obj # Head(q).obj
         /\ \A o : Dies(r, o) <=> Dies(q, o) /\ o # Head(q).obj
         /\ \A o : o # Head(q).obj => FirstOf(r, o) = FirstOf(q, o)
<1> USE DEF Destructors
<1>1. Head(q) = q[1] /\ 1 \in 1..Len(q) /\ r \in Destructors /\ Len(r) = Len(q) - 1
  OBVIOUS
<1>2. \A i \in 1..Len(r) : i + 1 \in 1..Len(q) /\ r[i] = q[i + 1]
  OBVIOUS
<1>3. \A i \in 1..Len(r) : r[i].obj # Head(q).obj
  BY <1>1, <1>2 DEF Distinct
<1>4. Distinct(r)
  <2> SUFFICES ASSUME NEW i \in 1..Len(r), NEW j \in 1..Len(r), r[i].obj = r[j].obj PROVE i = j
    BY DEF Distinct
  <2>1. i + 1 = j + 1
    BY <1>2 DEF Distinct
  <2> QED
    BY <2>1
<1>5. \A i \in 2..Len(q) : i - 1 \in 1..Len(r) /\ r[i - 1] = q[i]
  OBVIOUS
<1>6. ASSUME NEW o PROVE Dies(r, o) <=> Dies(q, o) /\ o # Head(q).obj
  <2>1. Dies(r, o) => Dies(q, o) /\ o # Head(q).obj
    BY <1>2, <1>3 DEF Dies
  <2>2. ASSUME Dies(q, o), o # Head(q).obj PROVE Dies(r, o)
    <3>1. PICK i \in 1..Len(q) : q[i].obj = o
      BY <2>2 DEF Dies
    <3>2. i \in 2..Len(q)
      BY <1>1, <2>2, <3>1
    <3> QED
      BY <1>5, <3>1, <3>2 DEF Dies
  <2> QED
    BY <2>1, <2>2
<1>7. ASSUME NEW o, o # Head(q).obj PROVE FirstOf(r, o) = FirstOf(q, o)
  <2>1. CASE ~Dies(r, o)
    BY <1>6, <1>7, <2>1 DEF FirstOf
  <2>2. CASE Dies(r, o)
    <3>1. PICK i \in 1..Len(r) : r[i].obj = o
      BY <2>2 DEF Dies
    <3>2. FirstOf(r, r[i].obj) = r[i].next
      BY <1>1, <1>4, FirstAt
    <3>3. FirstOf(q, q[i + 1].obj) = q[i + 1].next
      BY <1>2, FirstAt
    <3> QED
      BY <1>2, <3>1, <3>2, <3>3
  <2> QED
    BY <2>1, <2>2
<1> QED
  BY <1>1, <1>2, <1>3, <1>4, <1>6, <1>7

-----------------------------------------------------------------------------
(* What is counted is finite.                                              *)
LEMMA HoldersFinite ==
  ASSUME NEW S, NEW L \in SUBSET Objs, NEW c, NEW q, NEW o
  PROVE  /\ IsFiniteSet(VarsOf(S, o)) /\ Cardinality(VarsOf(S, o)) \in Nat
         /\ IsFiniteSet(FieldsOf(L, c, q, o)) /\ Cardinality(FieldsOf(L, c, q, o)) \in Nat
<1>1. VarsOf(S, o) \in SUBSET Vars
  BY DEF VarsOf
<1>2. IsFiniteSet(L) /\ IsFiniteSet(1..MaxCaptures)
  BY ObjectsAssumption, FS_Subset, FS_Interval
<1>3. IsFiniteSet(L \X (1..MaxCaptures))
  BY <1>2, FS_Product
<1>4. FieldsOf(L, c, q, o) \in SUBSET (L \X (1..MaxCaptures))
  BY DEF FieldsOf
<1> QED
  BY <1>1, <1>3, <1>4, ObjectsAssumption, FS_Subset, FS_CardinalityType

(* Two sets that differ in one member at most.                             *)
LEMMA OneDiffers ==
  ASSUME NEW A, NEW B, IsFiniteSet(A), IsFiniteSet(B), NEW e, A \ {e} = B \ {e}
  PROVE  Cardinality(A) + (IF e \in B THEN 1 ELSE 0) = Cardinality(B) + (IF e \in A THEN 1 ELSE 0)
<1>1. Cardinality(A) \in Nat /\ Cardinality(B) \in Nat
  BY FS_CardinalityType
<1>2. CASE (e \in A) = (e \in B)
  BY <1>2
<1>3. CASE e \in A /\ e \notin B
  <2>1. A = B \cup {e}
    BY <1>3
  <2>2. Cardinality(A) = Cardinality(B) + 1
    BY <1>3, <2>1, FS_AddElement
  <2> QED
    BY <1>1, <1>3, <2>2
<1>4. CASE e \notin A /\ e \in B
  <2>1. B = A \cup {e}
    BY <1>4
  <2>2. Cardinality(B) = Cardinality(A) + 1
    BY <1>4, <2>1, FS_AddElement
  <2> QED
    BY <1>1, <1>4, <2>2
<1> QED
  BY <1>2, <1>3, <1>4

(* A reference is put in a variable: the count is what it was when the     *)
(* variable's old reference is the one on the way.                         *)
Stored(S, d, w) == [S EXCEPT ![d] = w]

LEMMA SlotSwapped ==
  ASSUME NEW S \in [Vars -> Value], NEW d \in Vars, NEW w \in Value, NEW T, T = Stored(S, d, w),
         NEW L \in SUBSET Objs, NEW c, NEW q, NEW o
  PROVE  Count(T, L, c, q, S[d].obj, o) = Count(S, L, c, q, w.obj, o)
<1>1. VarsOf(T, o) \ {d} = VarsOf(S, o) \ {d}
  BY DEF VarsOf, Stored
<1>2. (d \in VarsOf(T, o) <=> w.obj = o) /\ (d \in VarsOf(S, o) <=> S[d].obj = o)
  BY DEF VarsOf, Stored
<1>3. Cardinality(VarsOf(T, o)) + (IF d \in VarsOf(S, o) THEN 1 ELSE 0)
      = Cardinality(VarsOf(S, o)) + (IF d \in VarsOf(T, o) THEN 1 ELSE 0)
  <2> DEFINE A == VarsOf(T, o)
             B == VarsOf(S, o)
  <2>1. IsFiniteSet(A) /\ IsFiniteSet(B) /\ A \ {d} = B \ {d}
    BY <1>1, HoldersFinite
  <2> HIDE DEF A, B
  <2>2. Cardinality(A) + (IF d \in B THEN 1 ELSE 0) = Cardinality(B) + (IF d \in A THEN 1 ELSE 0)
    BY <2>1, OneDiffers
  <2> QED
    BY <2>2 DEF A, B
<1>4. /\ Cardinality(VarsOf(T, o)) \in Nat /\ Cardinality(VarsOf(S, o)) \in Nat
      /\ Cardinality(FieldsOf(L, c, q, o)) \in Nat
  BY HoldersFinite
<1>5. Cardinality(VarsOf(T, o)) + (IF S[d].obj = o THEN 1 ELSE 0)
      = Cardinality(VarsOf(S, o)) + (IF w.obj = o THEN 1 ELSE 0)
  BY <1>2, <1>3
<1> QED
  BY <1>4, <1>5 DEF Count

(* The same for the one reference of a box.                                *)
LEMMA FieldSwapped ==
  ASSUME NEW c \in [Objs -> Cell], NEW L \in SUBSET Objs, NEW p \in L, Len(c[p].refs) = 1,
         NEW w \in Refs, NEW e, e = WithRef(c, p, w), NEW S, NEW o
  PROVE  Count(S, L, e, <<>>, c[p].refs[1], o) = Count(S, L, c, <<>>, w, o)
<1> DEFINE F == FieldsOf(L, c, <<>>, o)
           G == FieldsOf(L, e, <<>>, o)
<1>1. \A r \in Objs : FirstOf(<<>>, r) = 1
  BY DEF FirstOf, Dies
<1>2. e[p].refs = <<w>> /\ \A r \in Objs : r # p => e[r] = c[r]
  BY DEF Cell, WithRef
<1>3. G \ {<<p, 1>>} = F \ {<<p, 1>>}
  <2> SUFFICES ASSUME NEW f \in L \X (1..MaxCaptures), f # <<p, 1>> PROVE f \in G <=> f \in F
    BY DEF FieldsOf
  <2>1. f[1] \in Objs /\ f[2] \in 1..MaxCaptures /\ (f[1] = p => f[2] # 1) /\ FirstOf(<<>>, f[1]) = 1
    BY <1>1
  <2>2. CASE f[1] = p
    <3>1. f[2] \notin 1..1
      BY <2>1, <2>2
    <3>2. Len(e[p].refs) = 1
      BY <1>2
    <3>3. f \notin F /\ f \notin G
      BY <2>1, <2>2, <3>1, <3>2 DEF FieldsOf
    <3> QED
      BY <3>3
  <2>3. CASE f[1] # p
    <3>1. e[f[1]] = c[f[1]]
      BY <1>2, <2>1, <2>3
    <3> QED
      BY <3>1 DEF FieldsOf
  <2> QED
    BY <2>2, <2>3
<1>4. (<<p, 1>> \in G <=> w = o) /\ (<<p, 1>> \in F <=> c[p].refs[1] = o)
  <2>1. p \in Objs /\ <<p, 1>> \in L \X (1..MaxCaptures) /\ 1 \in FirstOf(<<>>, p)..1
    BY <1>1, ObjectsAssumption
  <2>2. Len(e[p].refs) = 1 /\ e[p].refs[1] = w
    BY <1>2
  <2> QED
    BY <2>1, <2>2 DEF FieldsOf
<1>5. Cardinality(G) + (IF <<p, 1>> \in F THEN 1 ELSE 0) = Cardinality(F) + (IF <<p, 1>> \in G THEN 1 ELSE 0)
  <2>1. IsFiniteSet(F) /\ IsFiniteSet(G)
    BY HoldersFinite
  <2> HIDE DEF F, G
  <2> QED
    BY <1>3, <2>1, OneDiffers
<1>6. Cardinality(VarsOf(S, o)) \in Nat /\ Cardinality(F) \in Nat /\ Cardinality(G) \in Nat
  BY HoldersFinite
<1>7. Cardinality(G) + (IF c[p].refs[1] = o THEN 1 ELSE 0) = Cardinality(F) + (IF w = o THEN 1 ELSE 0)
  BY <1>4, <1>5
<1> HIDE DEF F, G
<1>8. Cardinality(VarsOf(S, o)) + Cardinality(G) + (IF c[p].refs[1] = o THEN 1 ELSE 0)
      = Cardinality(VarsOf(S, o)) + Cardinality(F) + (IF w = o THEN 1 ELSE 0)
  BY <1>6, <1>7
<1> QED
  BY <1>8 DEF Count, F, G

(* A destructor gives up the next field.                                   *)
LEMMA FieldGivenUp ==
  ASSUME NEW c \in [Objs -> Cell], NEW L \in SUBSET Objs, NEW q \in Destructors, q # <<>>, Distinct(q),
         NEW p \in L, p = Head(q).obj, Len(c[p].refs) <= MaxCaptures,
         NEW n \in 1..Len(c[p].refs), n = Head(q).next,
         NEW r, r = GoneOn(q), NEW S, NEW o \in Objs
  PROVE  Count(S, L, c, r, c[p].refs[n], o) = Count(S, L, c, q, Null, o)
<1> DEFINE F == FieldsOf(L, c, q, o)
           G == FieldsOf(L, c, r, o)
<1>1. \A s : FirstOf(r, s) = IF s = p THEN n + 1 ELSE FirstOf(q, s)
  <2>1. \A s : FirstOf(r, s) = IF s = Head(q).obj THEN Head(q).next + 1 ELSE FirstOf(q, s)
    BY DestructorGoesOn
  <2> QED
    BY <2>1
<1>2. FirstOf(q, p) = n
  <2>1. 1 \in 1..Len(q) /\ q[1] = Head(q)
    BY DEF Destructors
  <2> QED
    BY <2>1, FirstAt
<1>3. Len(c[p].refs) \in Nat /\ n \in 1..MaxCaptures
  BY ObjectsAssumption DEF Cell
<1>4. G \ {<<p, n>>} = F \ {<<p, n>>}
  <2> SUFFICES ASSUME NEW f \in L \X (1..MaxCaptures), f # <<p, n>> PROVE f \in G <=> f \in F
    BY DEF FieldsOf
  <2>1. CASE f[1] = p
    <3>1. f[2] # n /\ f[2] \in Nat
      BY <2>1, ObjectsAssumption
    <3>2. f[2] \in (n + 1)..Len(c[p].refs) <=> f[2] \in n..Len(c[p].refs)
      BY <1>3, <3>1
    <3> QED
      BY <1>1, <1>2, <2>1, <3>2 DEF FieldsOf
  <2>2. CASE f[1] # p
    BY <1>1, <2>2 DEF FieldsOf
  <2> QED
    BY <2>1, <2>2
<1>5. <<p, n>> \notin G /\ (<<p, n>> \in F <=> c[p].refs[n] = o)
  <2>1. n \notin (n + 1)..Len(c[p].refs) /\ n \in n..Len(c[p].refs)
    BY <1>3
  <2>2. <<p, n>> \in L \X (1..MaxCaptures)
    BY <1>3
  <2> QED
    BY <1>1, <1>2, <2>1, <2>2 DEF FieldsOf
<1>6. Cardinality(G) + (IF <<p, n>> \in F THEN 1 ELSE 0) = Cardinality(F) + (IF <<p, n>> \in G THEN 1 ELSE 0)
  <2>1. IsFiniteSet(F) /\ IsFiniteSet(G)
    BY HoldersFinite
  <2> HIDE DEF F, G
  <2> QED
    BY <1>4, <2>1, OneDiffers
<1>7. Cardinality(VarsOf(S, o)) \in Nat /\ Cardinality(F) \in Nat /\ Cardinality(G) \in Nat
  BY HoldersFinite
<1>8. Cardinality(G) + (IF c[p].refs[n] = o THEN 1 ELSE 0) = Cardinality(F)
  BY <1>5, <1>6, <1>7
<1>9. Null # o
  BY ObjectsAssumption
<1> HIDE DEF F, G
<1>10. Cardinality(VarsOf(S, o)) + Cardinality(G) + (IF c[p].refs[n] = o THEN 1 ELSE 0)
       = Cardinality(VarsOf(S, o)) + Cardinality(F) + (IF Null = o THEN 1 ELSE 0)
  BY <1>7, <1>8, <1>9
<1> QED
  BY <1>10 DEF Count, F, G

(* A dead object that has given up all fields goes.                        *)
WithCell(c, p, e) == [c EXCEPT ![p] = e]
With(L, p) == L \cup {p}
Without(L, p) == L \ {p}

LEMMA ObjectGone ==
  ASSUME NEW c \in [Objs -> Cell], NEW L \in SUBSET Objs, NEW q \in Destructors, q # <<>>, Distinct(q),
         NEW p \in L, p = Head(q).obj, Head(q).next > Len(c[p].refs),
         NEW M, M = Without(L, p), NEW e, e = WithCell(c, p, Blank), NEW S, NEW o
  PROVE  Count(S, M, e, Tail(q), Null, o) = Count(S, L, c, q, Null, o)
<1> DEFINE F == FieldsOf(L, c, q, o)
           G == FieldsOf(M, e, Tail(q), o)
<1>1. \A s : s # p => FirstOf(Tail(q), s) = FirstOf(q, s)
  <2>1. \A s : s # Head(q).obj => FirstOf(Tail(q), s) = FirstOf(q, s)
    BY DestructorEnds
  <2> QED
    BY <2>1
<1>2. FirstOf(q, p) = Head(q).next
  <2>1. 1 \in 1..Len(q) /\ q[1] = Head(q)
    BY DEF Destructors
  <2> QED
    BY <2>1, FirstAt
<1>3. \A s \in L : s # p => e[s] = c[s]
  BY DEF WithCell
<1>4. \A f \in F : f[1] # p
  <2> SUFFICES ASSUME NEW f \in F, f[1] = p PROVE FALSE
    OBVIOUS
  <2>1. f[2] \in FirstOf(q, p)..Len(c[p].refs) /\ f[2] \in 1..MaxCaptures
    BY DEF FieldsOf
  <2>2. Head(q).next \in Nat /\ Len(c[p].refs) \in Nat /\ f[2] \in Nat
    BY <1>2, <2>1, FirstType, ObjectsAssumption DEF Cell
  <2> QED
    BY <1>2, <2>1, <2>2
<1>5. G = F
  <2>1. ASSUME NEW f \in G PROVE f \in F
    BY <1>1, <1>3 DEF FieldsOf, Without
  <2>2. ASSUME NEW f \in F PROVE f \in G
    BY <1>1, <1>3, <1>4 DEF FieldsOf, Without
  <2> QED
    BY <2>1, <2>2
<1> HIDE DEF F, G
<1>6. Cardinality(VarsOf(S, o)) + Cardinality(G) + (IF Null = o THEN 1 ELSE 0)
      = Cardinality(VarsOf(S, o)) + Cardinality(F) + (IF Null = o THEN 1 ELSE 0)
  BY <1>5
<1> QED
  BY <1>6 DEF Count, F, G

(* A new object holds each reference as often as it is among its fields.   *)
LEMMA ObjectAdded ==
  ASSUME NEW c, NEW L \in SUBSET Objs, c \in [Objs -> Cell],
         NEW p \in Objs, p \notin L, NEW M, M = With(L, p),
         NEW E \in Cell, Len(E.refs) <= MaxCaptures,
         NEW e, e = WithCell(c, p, E), NEW S, NEW o \in Objs
  PROVE  /\ Times(E.refs, o) \in Nat
         /\ Count(S, M, e, <<>>, p, o) = Count(S, L, c, <<>>, p, o) + Times(E.refs, o)
<1>0. PICK R \in Seq(Refs) : R = E.refs
  BY DEF Cell
<1> DEFINE F == FieldsOf(L, c, <<>>, o)
           G == FieldsOf(M, e, <<>>, o)
           D == {i \in 1..Len(R) : R[i] = o}
<1>1. \A r : FirstOf(<<>>, r) = 1
  BY DEF FirstOf, Dies
<1>2. Len(R) \in Nat /\ IsFiniteSet(D)
  <2>1. Len(R) \in Nat
    OBVIOUS
  <2>2. IsFiniteSet(1..Len(R))
    BY <2>1, FS_Interval
  <2> QED
    BY <2>1, <2>2, FS_Subset
<1>3. Cardinality(D) \in Nat
  BY <1>2, FS_CardinalityType
<1>4. IsFiniteSet({p} \X D) /\ Cardinality({p} \X D) = Cardinality(D)
  <2>1. IsFiniteSet({p}) /\ Cardinality({p}) = 1
    BY FS_Singleton
  <2>2. IsFiniteSet({p} \X D) /\ Cardinality({p} \X D) = Cardinality({p}) * Cardinality(D)
    BY <1>2, <2>1, FS_Product
  <2> QED
    BY <1>3, <2>1, <2>2
<1>5. e[p].refs = R /\ \A s \in Objs : s # p => e[s] = c[s]
  BY <1>0 DEF WithCell
<1>6. D \subseteq 1..MaxCaptures
  BY <1>0, <1>2, ObjectsAssumption
<1>7. G = F \cup ({p} \X D)
  <2>1. ASSUME NEW f \in G PROVE f \in F \cup ({p} \X D)
    <3>1. CASE f[1] = p
      BY <1>1, <1>5, <2>1, <3>1 DEF FieldsOf, With
    <3>2. CASE f[1] # p
      BY <1>5, <2>1, <3>2 DEF FieldsOf, With
    <3> QED
      BY <3>1, <3>2
  <2>2. ASSUME NEW f \in F PROVE f \in G
    BY <1>5, <2>2 DEF FieldsOf, With
  <2>3. ASSUME NEW f \in {p} \X D PROVE f \in G
    BY <1>1, <1>5, <1>6, <2>3 DEF FieldsOf, With
  <2> QED
    BY <2>1, <2>2, <2>3
<1>8. F \cap ({p} \X D) = {}
  BY DEF FieldsOf
<1>9. Cardinality(VarsOf(S, o)) \in Nat /\ Cardinality(F) \in Nat /\ IsFiniteSet(F)
  BY HoldersFinite
<1>10. Cardinality(G) = Cardinality(F) + Cardinality(D)
  <2>1. Cardinality(F \cap ({p} \X D)) = 0
    BY <1>8, FS_EmptySet
  <2> HIDE DEF F, G, D
  <2>2. Cardinality(F \cup ({p} \X D))
        = Cardinality(F) + Cardinality({p} \X D) - Cardinality(F \cap ({p} \X D))
    BY <1>4, <1>9, FS_Union
  <2> QED
    BY <1>3, <1>4, <1>7, <1>9, <2>1, <2>2
<1>11. Cardinality(D) = Times(R, o)
  BY DEF Times
<1> HIDE DEF F, G, D
<1>12. Cardinality(VarsOf(S, o)) + Cardinality(G) + (IF p = o THEN 1 ELSE 0)
       = Cardinality(VarsOf(S, o)) + Cardinality(F) + (IF p = o THEN 1 ELSE 0) + Times(R, o)
  BY <1>3, <1>9, <1>10, <1>11
<1> QED
  BY <1>0, <1>3, <1>11, <1>12 DEF Count, F, G

-----------------------------------------------------------------------------
(* What the operations of the machines do to the counts and the live       *)
(* objects.                                                                *)
LEMMA RetainIs ==
  ASSUME NEW m \in VmState, NEW a \in AotState, NEW x \in Objs
  PROVE  /\ VmRetain(m, x) \in VmState /\ VmRetain(m, x).live = m.live
         /\ \A o \in Objs : VmRetain(m, x).rc[o] = IF o = x THEN m.rc[o] + 1 ELSE m.rc[o]
         /\ cbi_retain(a, x) \in AotState /\ cbi_retain(a, x).live = a.live
         /\ cbi_retain(a, x).num_objs = a.num_objs
         /\ \A o \in Objs : cbi_retain(a, x).rc[o] = IF o = x THEN a.rc[o] + 1 ELSE a.rc[o]
<1>1. PICK r \in [Objs -> Int] : r = [m.rc EXCEPT ![x] = @ + 1]
  <2>1. m.rc \in [Objs -> Int]
    BY DEF VmState
  <2>2. [m.rc EXCEPT ![x] = @ + 1] \in [Objs -> Int]
    BY <2>1
  <2> QED
    BY <2>2
<1>2. PICK n \in Int : n = m.refCounts + 1
  BY DEF VmState
<1>3. VmRetain(m, x) = [m EXCEPT !.rc = r, !.refCounts = n]
  BY <1>1, <1>2 DEF VmRetain
<1>4. VmRetain(m, x) \in VmState
  BY <1>3 DEF VmState
<1>5. PICK s \in [Objs -> Int] : s = [a.rc EXCEPT ![x] = @ + 1]
  <2>1. a.rc \in [Objs -> Int]
    BY DEF AotState
  <2>2. [a.rc EXCEPT ![x] = @ + 1] \in [Objs -> Int]
    BY <2>1
  <2> QED
    BY <2>2
<1>6. cbi_retain(a, x) = [a EXCEPT !.rc = s]
  BY <1>5 DEF cbi_retain
<1>7. cbi_retain(a, x) \in AotState
  BY <1>6 DEF AotState
<1>8. VmRetain(m, x).live = m.live /\ \A o \in Objs : VmRetain(m, x).rc[o] = IF o = x THEN m.rc[o] + 1 ELSE m.rc[o]
  BY DEF VmState, VmRetain
<1>9. /\ cbi_retain(a, x).live = a.live /\ cbi_retain(a, x).num_objs = a.num_objs
      /\ \A o \in Objs : cbi_retain(a, x).rc[o] = IF o = x THEN a.rc[o] + 1 ELSE a.rc[o]
  BY DEF AotState, cbi_retain
<1> QED
  BY <1>4, <1>7, <1>8, <1>9

LEMMA ReleaseOnlyIs ==
  ASSUME NEW m \in VmState, NEW a \in AotState, NEW x \in Objs
  PROVE  /\ VmReleaseOnly(m, x) \in VmState /\ VmReleaseOnly(m, x).live = m.live
         /\ \A o \in Objs : VmReleaseOnly(m, x).rc[o] = IF o = x THEN m.rc[o] - 1 ELSE m.rc[o]
         /\ cb_release_only(a, x) \in AotState /\ cb_release_only(a, x).live = a.live
         /\ cb_release_only(a, x).num_objs = a.num_objs
         /\ \A o \in Objs : cb_release_only(a, x).rc[o] = IF o = x THEN a.rc[o] - 1 ELSE a.rc[o]
<1>1. PICK r \in [Objs -> Int] : r = [m.rc EXCEPT ![x] = @ - 1]
  <2>1. m.rc \in [Objs -> Int]
    BY DEF VmState
  <2>2. [m.rc EXCEPT ![x] = @ - 1] \in [Objs -> Int]
    BY <2>1
  <2> QED
    BY <2>2
<1>2. PICK n \in Int : n = m.refCounts - 1
  BY DEF VmState
<1>3. VmReleaseOnly(m, x) = [m EXCEPT !.rc = r, !.refCounts = n]
  BY <1>1, <1>2 DEF VmReleaseOnly
<1>4. VmReleaseOnly(m, x) \in VmState
  BY <1>3 DEF VmState
<1>5. PICK s \in [Objs -> Int] : s = [a.rc EXCEPT ![x] = @ - 1]
  <2>1. a.rc \in [Objs -> Int]
    BY DEF AotState
  <2>2. [a.rc EXCEPT ![x] = @ - 1] \in [Objs -> Int]
    BY <2>1
  <2> QED
    BY <2>2
<1>6. cb_release_only(a, x) = [a EXCEPT !.rc = s]
  BY <1>5 DEF cb_release_only
<1>7. cb_release_only(a, x) \in AotState
  BY <1>6 DEF AotState
<1>8. /\ VmReleaseOnly(m, x).live = m.live
      /\ \A o \in Objs : VmReleaseOnly(m, x).rc[o] = IF o = x THEN m.rc[o] - 1 ELSE m.rc[o]
  BY DEF VmState, VmReleaseOnly
<1>9. /\ cb_release_only(a, x).live = a.live /\ cb_release_only(a, x).num_objs = a.num_objs
      /\ \A o \in Objs : cb_release_only(a, x).rc[o] = IF o = x THEN a.rc[o] - 1 ELSE a.rc[o]
  BY DEF AotState, cb_release_only
<1> QED
  BY <1>4, <1>7, <1>8, <1>9

LEMMA NewIs ==
  ASSUME NEW m \in VmState, NEW a \in AotState, NEW x \in Objs, NEW words
  PROVE  /\ VmNew(m, x, words) \in VmState /\ VmNew(m, x, words).live = m.live \cup {x}
         /\ \A o \in Objs : VmNew(m, x, words).rc[o] = IF o = x THEN 1 ELSE m.rc[o]
         /\ cb_object_undef(a, x) \in AotState /\ cb_object_undef(a, x).live = a.live \cup {x}
         /\ cb_object_undef(a, x).num_objs = a.num_objs + 1
         /\ \A o \in Objs : cb_object_undef(a, x).rc[o] = IF o = x THEN 1 ELSE a.rc[o]
<1>1. PICK r \in [Objs -> Int] : r = [m.rc EXCEPT ![x] = 1]
  <2>1. m.rc \in [Objs -> Int]
    BY DEF VmState
  <2>2. [m.rc EXCEPT ![x] = 1] \in [Objs -> Int]
    BY <2>1
  <2> QED
    BY <2>2
<1>2. PICK n \in Int : n = m.refCounts + 1
  BY DEF VmState
<1>3. PICK L \in SUBSET Objs : L = m.live \cup {x}
  BY DEF VmState
<1>4. PICK p \in SUBSET Objs : p = IF InPool(words) THEN m.pool \cup {x} ELSE m.pool \ {x}
  BY DEF VmState
<1>5. VmNew(m, x, words) = [m EXCEPT !.rc = r, !.live = L, !.refCounts = n, !.pool = p]
  BY <1>1, <1>2, <1>3, <1>4 DEF VmNew
<1>6. VmNew(m, x, words) \in VmState
  BY <1>5 DEF VmState
<1>7. PICK s \in [Objs -> Int] : s = [a.rc EXCEPT ![x] = 1]
  <2>1. a.rc \in [Objs -> Int]
    BY DEF AotState
  <2>2. [a.rc EXCEPT ![x] = 1] \in [Objs -> Int]
    BY <2>1
  <2> QED
    BY <2>2
<1>8. PICK k \in Int : k = a.num_objs + 1
  BY DEF AotState
<1>9. PICK M \in SUBSET Objs : M = a.live \cup {x}
  BY DEF AotState
<1>10. cb_object_undef(a, x) = [a EXCEPT !.rc = s, !.live = M, !.num_objs = k]
  BY <1>7, <1>8, <1>9 DEF cb_object_undef
<1>11. cb_object_undef(a, x) \in AotState
  BY <1>10 DEF AotState
<1>12. /\ VmNew(m, x, words).live = m.live \cup {x}
       /\ \A o \in Objs : VmNew(m, x, words).rc[o] = IF o = x THEN 1 ELSE m.rc[o]
  BY DEF VmState, VmNew
<1>13. /\ cb_object_undef(a, x).live = a.live \cup {x} /\ cb_object_undef(a, x).num_objs = a.num_objs + 1
       /\ \A o \in Objs : cb_object_undef(a, x).rc[o] = IF o = x THEN 1 ELSE a.rc[o]
  BY DEF AotState, cb_object_undef
<1> QED
  BY <1>6, <1>11, <1>12, <1>13

LEMMA FreeIs ==
  ASSUME NEW m \in VmState, NEW a \in AotState, NEW x \in Objs, NEW words
  PROVE  /\ VmFree(m, x, words) \in VmState /\ VmFree(m, x, words).live = m.live \ {x}
         /\ VmFree(m, x, words).rc = m.rc
         /\ cb_free_object(a, x) \in AotState /\ cb_free_object(a, x).live = a.live \ {x}
         /\ cb_free_object(a, x).num_objs = a.num_objs - 1 /\ cb_free_object(a, x).rc = a.rc
<1>1. PICK b \in BOOLEAN : b = (m.spoilt \/ InPool(words) # (x \in m.pool))
  OBVIOUS
<1>2. PICK L \in SUBSET Objs : L = m.live \ {x}
  BY DEF VmState
<1>3. VmFree(m, x, words) = [m EXCEPT !.live = L, !.spoilt = b]
  BY <1>1, <1>2 DEF VmFree
<1>4. VmFree(m, x, words) \in VmState
  BY <1>3 DEF VmState
<1>5. PICK M \in SUBSET Objs : M = a.live \ {x}
  BY DEF AotState
<1>6. PICK k \in Int : k = a.num_objs - 1
  BY DEF AotState
<1>7. cb_free_object(a, x) = [a EXCEPT !.live = M, !.num_objs = k]
  BY <1>5, <1>6 DEF cb_free_object
<1>8. cb_free_object(a, x) \in AotState
  BY <1>7 DEF AotState
<1>9. VmFree(m, x, words).live = m.live \ {x} /\ VmFree(m, x, words).rc = m.rc
  BY DEF VmState, VmFree
<1>10. /\ cb_free_object(a, x).live = a.live \ {x}
       /\ cb_free_object(a, x).num_objs = a.num_objs - 1 /\ cb_free_object(a, x).rc = a.rc
  BY DEF AotState, cb_free_object
<1> QED
  BY <1>4, <1>8, <1>9, <1>10

(* A reference on the way counts one.                                      *)
LEMMA CountOnTheWay ==
  ASSUME NEW S, NEW L \in SUBSET Objs, NEW c, NEW q, NEW x, NEW o \in Objs
  PROVE  /\ Count(S, L, c, q, Null, o) \in Nat
         /\ Count(S, L, c, q, x, o) = Count(S, L, c, q, Null, o) + (IF x = o THEN 1 ELSE 0)
<1>1. Cardinality(VarsOf(S, o)) \in Nat /\ Cardinality(FieldsOf(L, c, q, o)) \in Nat /\ Null # o
  BY HoldersFinite, ObjectsAssumption
<1> QED
  BY <1>1 DEF Count

(* Which objects are referred to: they are alive, and not being destroyed. *)
LEMMA HeldIsAlive ==
  ASSUME NEW S, NEW c, NEW m, NEW a, NEW q, NEW x, Good(S, c, m, a, q, x), NEW o \in Objs,
         Count(S, m.live, c, q, x, o) > 0
  PROVE  o \in m.live /\ ~Dies(q, o)
BY DEF Good, Exact, Dies

LEMMA VarIsHeld ==
  ASSUME NEW S, NEW c, NEW m, NEW a, NEW q, NEW x, Good(S, c, m, a, q, x), NEW d \in Vars
  PROVE  /\ S[d].obj \in Refs
         /\ S[d].obj # Null => S[d].obj \in m.live /\ ~Dies(q, S[d].obj) /\ Count(S, m.live, c, q, x, S[d].obj) > 0
<1>1. S[d].obj \in Refs /\ m.live \in SUBSET Objs
  BY DEF Good, Typed, Value, VmState
<1>2. ASSUME S[d].obj # Null PROVE Count(S, m.live, c, q, x, S[d].obj) > 0
  <2>1. PICK o \in Objs : o = S[d].obj
    BY <1>1, <1>2 DEF Refs
  <2>2. d \in VarsOf(S, o)
    BY <2>1 DEF VarsOf
  <2>3. Cardinality(VarsOf(S, o)) # 0 /\ Cardinality(VarsOf(S, o)) \in Nat
    BY <1>1, <2>2, HoldersFinite, FS_EmptySet
  <2>4. Cardinality(FieldsOf(m.live, c, q, o)) \in Nat
    BY <1>1, HoldersFinite
  <2> QED
    BY <2>1, <2>3, <2>4 DEF Count
<1> QED
  BY <1>1, <1>2, HeldIsAlive DEF Refs

(* The same of a field of an object whose destructor has not started.      *)
LEMMA FieldIsHeld ==
  ASSUME NEW S, NEW c, NEW m, NEW a, NEW q, NEW x, Good(S, c, m, a, q, x),
         NEW p \in m.live, ~Dies(q, p), NEW i \in 1..Len(c[p].refs)
  PROVE  /\ c[p].refs[i] \in Refs
         /\ c[p].refs[i] # Null => c[p].refs[i] \in m.live /\ ~Dies(q, c[p].refs[i])
<1>1. m.live \in SUBSET Objs /\ p \in Objs
  BY DEF Good, Typed, VmState
<1>2. c[p].refs \in Seq(Refs) /\ Len(c[p].refs) <= MaxCaptures
  BY <1>1 DEF Good, Typed, Cell, Shaped, CellOk
<1>3. c[p].refs[i] \in Refs /\ i \in 1..MaxCaptures
  BY <1>2, ObjectsAssumption
<1>4. ASSUME c[p].refs[i] # Null PROVE Count(S, m.live, c, q, x, c[p].refs[i]) > 0
  <2>1. PICK o \in Objs : o = c[p].refs[i]
    BY <1>3, <1>4 DEF Refs
  <2>2. FirstOf(q, p) = 1
    BY DEF FirstOf
  <2>3. <<p, i>> \in FieldsOf(m.live, c, q, o)
    BY <1>3, <2>1, <2>2 DEF FieldsOf
  <2>4. Cardinality(FieldsOf(m.live, c, q, o)) # 0 /\ Cardinality(FieldsOf(m.live, c, q, o)) \in Nat
    BY <1>1, <2>3, HoldersFinite, FS_EmptySet
  <2>5. Cardinality(VarsOf(S, o)) \in Nat
    BY <1>1, HoldersFinite
  <2> QED
    BY <2>1, <2>4, <2>5 DEF Count
<1> QED
  BY <1>3, <1>4, HeldIsAlive DEF Refs

-----------------------------------------------------------------------------
(* The moves of a reference, each from one reference on the way to         *)
(* another.  First, a live object is retained.                             *)
VmRetainOf(m, x) == IF x = Null THEN m ELSE VmRetain(m, x)
AotRetainOf(a, x) == IF x = Null THEN a ELSE cbi_retain(a, x)

LEMMA RetainMove ==
  ASSUME NEW S, NEW c, NEW m, NEW a, NEW q, Good(S, c, m, a, q, Null),
         NEW x \in Refs, x # Null => x \in m.live /\ ~Dies(q, x),
         NEW n, n = VmRetainOf(m, x), NEW b, b = AotRetainOf(a, x)
  PROVE  Good(S, c, n, b, q, x) /\ n.live = m.live
<1>1. CASE x = Null
  BY <1>1 DEF VmRetainOf, AotRetainOf
<1>2. CASE x # Null
  <2>1. m \in VmState /\ a \in AotState /\ m.live \in SUBSET Objs /\ m.rc \in [Objs -> Int]
    BY DEF Good, Typed, VmState
  <2>2. x \in Objs /\ x \in m.live /\ ~Dies(q, x)
    BY <1>2 DEF Refs
  <2>3. n = VmRetain(m, x) /\ b = cbi_retain(a, x)
    BY <1>2 DEF VmRetainOf, AotRetainOf
  <2>4. /\ n \in VmState /\ n.live = m.live /\ b \in AotState /\ b.live = a.live /\ b.num_objs = a.num_objs
        /\ \A o \in Objs : n.rc[o] = IF o = x THEN m.rc[o] + 1 ELSE m.rc[o]
        /\ \A o \in Objs : b.rc[o] = IF o = x THEN a.rc[o] + 1 ELSE a.rc[o]
    BY <2>1, <2>2, <2>3, RetainIs
  <2>5. Typed(S, c, n, b, q) /\ Shaped(S, c, n.live) /\ Totals(n, b)
    BY <2>4 DEF Good, Typed, Totals
  <2> DEFINE K(o) == Count(S, m.live, c, q, Null, o)
             H(o) == Count(S, m.live, c, q, x, o)
  <2>6. \A o \in Objs : K(o) \in Nat /\ H(o) = K(o) + (IF x = o THEN 1 ELSE 0)
    BY <2>1, CountOnTheWay
  <2>7. /\ \A o \in Objs : K(o) > 0 => o \in m.live
        /\ \A o \in m.live : m.rc[o] = K(o) /\ a.rc[o] = m.rc[o]
        /\ Distinct(q)
        /\ \A i \in 1..Len(q) : q[i].obj \in m.live /\ m.rc[q[i].obj] = 0
        /\ \A o \in m.live : m.rc[o] = 0 => Dies(q, o)
    BY DEF Good, Exact
  <2>8. \A i \in 1..Len(q) : q[i].obj # x
    BY <2>2 DEF Dies
  <2> HIDE DEF K, H
  <2>9. \A o \in Objs : H(o) > 0 => o \in n.live
    BY <2>2, <2>4, <2>6, <2>7
  <2>10. \A o \in n.live : n.rc[o] = H(o) /\ b.rc[o] = n.rc[o]
    BY <2>1, <2>4, <2>6, <2>7
  <2>11. \A i \in 1..Len(q) : q[i].obj \in n.live /\ n.rc[q[i].obj] = 0
    BY <2>1, <2>4, <2>7, <2>8
  <2>12. \A o \in n.live : n.rc[o] = 0 => Dies(q, o)
    BY <2>1, <2>2, <2>4, <2>6, <2>7
  <2>13. Exact(S, c, n, b, q, x)
    BY <2>4, <2>7, <2>9, <2>10, <2>11, <2>12 DEF Exact, H
  <2> QED
    BY <2>4, <2>5, <2>13 DEF Good
<1> QED
  BY <1>1, <1>2

(* The reference on the way is given up; the destructor of an object that  *)
(* nothing holds any more starts.                                          *)
Started(m, x, q) == IF m.rc[x] = 1 THEN Starting(x, q) ELSE q

LEMMA ReleaseMove ==
  ASSUME NEW S, NEW c, NEW m, NEW a, NEW q, NEW x \in Objs, Good(S, c, m, a, q, x),
         NEW r, r = Started(m, x, q),
         NEW n, n = VmReleaseOnly(m, x), NEW b, b = cb_release_only(a, x)
  PROVE  /\ Good(S, c, n, b, r, Null)
         /\ a.rc[x] = m.rc[x]
<1>1. m \in VmState /\ a \in AotState /\ m.live \in SUBSET Objs /\ m.rc \in [Objs -> Int] /\ q \in Destructors
  BY DEF Good, Typed, VmState
<1> DEFINE K(o) == Count(S, m.live, c, q, Null, o)
           H(o) == Count(S, m.live, c, q, x, o)
<1>2. \A o \in Objs : K(o) \in Nat /\ H(o) = K(o) + (IF x = o THEN 1 ELSE 0)
  BY <1>1, CountOnTheWay
<1>3. /\ \A o \in Objs : H(o) > 0 => o \in m.live
      /\ \A o \in m.live : m.rc[o] = H(o) /\ a.rc[o] = m.rc[o]
      /\ Distinct(q)
      /\ \A i \in 1..Len(q) : q[i].obj \in m.live /\ m.rc[q[i].obj] = 0
      /\ \A o \in m.live : m.rc[o] = 0 => Dies(q, o)
  BY DEF Good, Exact
<1>4. /\ n \in VmState /\ n.live = m.live /\ b \in AotState /\ b.live = a.live /\ b.num_objs = a.num_objs
      /\ \A o \in Objs : n.rc[o] = IF o = x THEN m.rc[o] - 1 ELSE m.rc[o]
      /\ \A o \in Objs : b.rc[o] = IF o = x THEN a.rc[o] - 1 ELSE a.rc[o]
  BY <1>1, ReleaseOnlyIs
<1>5. H(x) > 0 /\ x \in m.live
  <2> HIDE DEF K, H
  <2> QED
    BY <1>2, <1>3
<1>6. ~Dies(q, x)
  <2> HIDE DEF K, H
  <2> QED
    BY <1>3, <1>5 DEF Dies
<1>7. /\ r \in Destructors /\ Distinct(r)
      /\ \A o : Dies(r, o) <=> Dies(q, o) \/ (o = x /\ m.rc[x] = 1)
      /\ \A o : FirstOf(r, o) = FirstOf(q, o)
  <2>1. CASE m.rc[x] = 1
    <3>1. r = Starting(x, q)
      BY <2>1 DEF Started
    <3>2. /\ r \in Destructors /\ Distinct(r)
          /\ \A o : Dies(r, o) <=> Dies(q, o) \/ o = x
          /\ \A o : FirstOf(r, o) = FirstOf(q, o)
      BY <1>1, <1>3, <1>6, <3>1, DestructorStarts
    <3> QED
      BY <2>1, <3>2
  <2>2. CASE m.rc[x] # 1
    BY <1>1, <1>3, <2>2 DEF Started
  <2> QED
    BY <2>1, <2>2
<1>8. \A o : Count(S, n.live, c, r, Null, o) = K(o)
  <2> SUFFICES ASSUME NEW o PROVE Count(S, n.live, c, r, Null, o) = K(o)
    OBVIOUS
  <2>1. FieldsOf(n.live, c, r, o) = FieldsOf(m.live, c, q, o)
    BY <1>4, <1>7 DEF FieldsOf
  <2> QED
    BY <2>1 DEF Count
<1> HIDE DEF K, H
<1>9. \A o \in Objs : Count(S, n.live, c, r, Null, o) > 0 => o \in n.live
  BY <1>2, <1>3, <1>4, <1>8
<1>10. \A o \in n.live : n.rc[o] = Count(S, n.live, c, r, Null, o) /\ b.rc[o] = n.rc[o]
  <2> SUFFICES ASSUME NEW o \in n.live PROVE n.rc[o] = K(o) /\ b.rc[o] = n.rc[o]
    BY <1>8
  <2>1. o \in Objs /\ o \in m.live /\ K(o) \in Nat /\ m.rc[o] = H(o) /\ a.rc[o] = m.rc[o]
    BY <1>1, <1>2, <1>3, <1>4
  <2> QED
    BY <1>2, <1>4, <2>1
<1>11. \A o \in n.live : n.rc[o] = 0 <=> (m.rc[o] = 0 \/ (o = x /\ m.rc[x] = 1))
  <2>1. m.rc[x] # 0
    BY <1>3, <1>5
  <2>2. \A o \in n.live : o \in Objs /\ m.rc[o] \in Int
    BY <1>1, <1>4
  <2> QED
    BY <1>4, <2>1, <2>2
<1>12. \A o \in n.live : n.rc[o] = 0 => Dies(r, o)
  BY <1>3, <1>4, <1>7, <1>11
<1>13. \A o : Dies(r, o) => o \in n.live /\ n.rc[o] = 0
  <2> SUFFICES ASSUME NEW o, Dies(r, o) PROVE o \in n.live /\ n.rc[o] = 0
    OBVIOUS
  <2>1. CASE Dies(q, o)
    BY <1>3, <1>4, <1>11, <2>1 DEF Dies
  <2>2. CASE o = x /\ m.rc[x] = 1
    BY <1>4, <1>5, <1>11, <2>2
  <2> QED
    BY <1>7, <2>1, <2>2
<1>14. \A i \in 1..Len(r) : r[i].obj \in n.live /\ n.rc[r[i].obj] = 0
  BY <1>13 DEF Dies
<1>15. Exact(S, c, n, b, r, Null)
  BY <1>7, <1>9, <1>10, <1>12, <1>14 DEF Exact
<1>16. Typed(S, c, n, b, r) /\ Shaped(S, c, n.live) /\ Totals(n, b)
  BY <1>4, <1>7 DEF Good, Typed, Totals
<1> QED
  BY <1>3, <1>5, <1>15, <1>16 DEF Good

(* A value goes to a variable, and the variable's old reference is on the  *)
(* way instead.                                                            *)
LEMMA SlotMove ==
  ASSUME NEW S, NEW c, NEW m, NEW a, NEW q, NEW d \in Vars, NEW w \in Value, Good(S, c, m, a, q, w.obj),
         ValueOk(w, c), NEW T, T = Stored(S, d, w), NEW x, x = S[d].obj
  PROVE  Good(T, c, m, a, q, x)
<1>1. S \in [Vars -> Value] /\ m.live \in SUBSET Objs
  BY DEF Good, Typed, VmState
<1>2. \A o : Count(T, m.live, c, q, x, o) = Count(S, m.live, c, q, w.obj, o)
  <2>1. \A o : Count(T, m.live, c, q, S[d].obj, o) = Count(S, m.live, c, q, w.obj, o)
    BY <1>1, SlotSwapped
  <2> QED
    BY <2>1
<1>3. Exact(T, c, m, a, q, x)
  BY <1>2 DEF Good, Exact
<1>4. T \in [Vars -> Value] /\ \A v \in Vars : T[v] = IF v = d THEN w ELSE S[v]
  BY <1>1 DEF Stored
<1>5. Shaped(T, c, m.live)
  BY <1>4 DEF Good, Shaped
<1>6. Typed(T, c, m, a, q)
  BY <1>4 DEF Good, Typed
<1> QED
  BY <1>3, <1>5, <1>6 DEF Good

(* The same with the reference of a box.                                   *)
LEMMA FieldMove ==
  ASSUME NEW S, NEW c, NEW m, NEW a, NEW w \in Refs, Good(S, c, m, a, <<>>, w),
         NEW p \in m.live, c[p].type \in Types,
         NEW e, e = WithRef(c, p, w), NEW x, x = c[p].refs[1]
  PROVE  Good(S, e, m, a, <<>>, x) /\ x \in Refs
<1>1. c \in [Objs -> Cell] /\ m.live \in SUBSET Objs /\ p \in Objs
  BY DEF Good, Typed, VmState
<1>2. Len(c[p].refs) = 1 /\ c[p].refs \in Seq(Refs)
  BY <1>1 DEF Good, Shaped, CellOk, Cell
<1>3. \A o : Count(S, m.live, e, <<>>, x, o) = Count(S, m.live, c, <<>>, w, o)
  <2>1. \A o : Count(S, m.live, e, <<>>, c[p].refs[1], o) = Count(S, m.live, c, <<>>, w, o)
    BY <1>1, <1>2, FieldSwapped
  <2> QED
    BY <2>1
<1>4. Exact(S, e, m, a, <<>>, x)
  BY <1>3 DEF Good, Exact
<1>5. <<w>> \in Seq(Refs)
  OBVIOUS
<1>6. \A o \in Objs : e[o] \in Cell /\ e[o].type = c[o].type /\ (o # p => e[o] = c[o]) /\ e[p].refs = <<w>>
  BY <1>1, <1>5 DEF Cell, WithRef
<1>7. e \in [Objs -> Cell]
  BY <1>1, <1>5 DEF Cell, WithRef
<1>8. \A v \in Vars : ValueOk(S[v], e)
  <2> SUFFICES ASSUME NEW v \in Vars PROVE ValueOk(S[v], e)
    OBVIOUS
  <2>1. S[v].obj \in Refs /\ ValueOk(S[v], c)
    BY VarIsHeld DEF Good, Shaped
  <2>2. S[v].obj # Null => e[S[v].obj].type = c[S[v].obj].type
    BY <1>6, <2>1 DEF Refs
  <2> QED
    BY <2>1, <2>2 DEF ValueOk
<1>9. \A o \in m.live : CellOk(e[o])
  <2> SUFFICES ASSUME NEW o \in m.live PROVE CellOk(e[o])
    OBVIOUS
  <2>1. CellOk(c[o])
    BY DEF Good, Shaped
  <2>2. CASE o # p
    BY <1>1, <1>6, <2>1, <2>2
  <2>3. CASE o = p
    <3>1. e[p].type \in Types /\ e[p].refs = <<w>>
      BY <1>1, <1>6
    <3>2. e[p].type \notin {"none", "buffer", "func", "closure"}
      BY <3>1, ObjectsAssumption
    <3>3. Len(e[p].refs) = 1 /\ 1 <= MaxCaptures
      BY <3>1, ObjectsAssumption
    <3> QED
      BY <2>3, <3>1, <3>2, <3>3 DEF CellOk
  <2> QED
    BY <2>2, <2>3
<1>10. Typed(S, e, m, a, <<>>) /\ Totals(m, a)
  BY <1>7 DEF Good, Typed
<1>11. x \in Refs
  BY <1>2
<1>12. Shaped(S, e, m.live)
  BY <1>8, <1>9 DEF Shaped
<1> QED
  BY <1>4, <1>10, <1>11, <1>12 DEF Good

(* A destructor goes on, with the field it gives up on the way.            *)
LEMMA NextMove ==
  ASSUME NEW S, NEW c, NEW m, NEW a, NEW q, Good(S, c, m, a, q, Null), q # <<>>,
         NEW p, p = Head(q).obj, NEW i, i = Head(q).next, i <= Len(c[p].refs),
         NEW r, r = GoneOn(q), NEW x, x = c[p].refs[i]
  PROVE  Good(S, c, m, a, r, x) /\ x \in Refs
<1>1. m.live \in SUBSET Objs /\ c \in [Objs -> Cell] /\ q \in Destructors /\ Distinct(q)
  BY DEF Good, Typed, Exact, VmState
<1>2. Head(q) = q[1] /\ 1 \in 1..Len(q) /\ Head(q) \in Destructor
  BY <1>1 DEF Destructors
<1>3. p \in m.live /\ p \in Objs /\ i \in Nat \ {0}
  BY <1>1, <1>2 DEF Good, Exact, Destructor
<1>4. c[p].refs \in Seq(Refs) /\ Len(c[p].refs) <= MaxCaptures
  BY <1>1, <1>3 DEF Good, Cell, Shaped, CellOk
<1>5. i \in 1..Len(c[p].refs) /\ x \in Refs
  BY <1>3, <1>4
<1>6. /\ r \in Destructors /\ Distinct(r) /\ Len(r) = Len(q)
      /\ \A j \in 1..Len(q) : r[j].obj = q[j].obj
      /\ \A o : Dies(r, o) <=> Dies(q, o)
  BY <1>1, DestructorGoesOn
<1>7. \A o \in Objs : Count(S, m.live, c, r, x, o) = Count(S, m.live, c, q, Null, o)
  BY <1>1, <1>3, <1>4, <1>5, FieldGivenUp
<1>8. \A o \in m.live : Count(S, m.live, c, r, x, o) = Count(S, m.live, c, q, Null, o)
  BY <1>1, <1>7
<1>9. Exact(S, c, m, a, r, x)
  BY <1>6, <1>7, <1>8 DEF Good, Exact
<1>10. Typed(S, c, m, a, r)
  BY <1>6 DEF Good, Typed
<1> QED
  BY <1>5, <1>9, <1>10 DEF Good

(* How often an object is among references.                                *)
LEMMA TimesIs ==
  /\ \A R, o : (\A i \in 1..Len(R) : R[i] # o) => Times(R, o) = 0
  /\ \A x, o : Times(<<x>>, o) = IF x = o THEN 1 ELSE 0
  /\ \A o : Times(<<>>, o) = 0
<1>1. ASSUME NEW R, NEW o, \A i \in 1..Len(R) : R[i] # o PROVE Times(R, o) = 0
  <2>1. {i \in 1..Len(R) : R[i] = o} = {}
    BY <1>1
  <2> QED
    BY <2>1, FS_EmptySet DEF Times
<1>2. ASSUME NEW x, NEW o PROVE Times(<<x>>, o) = IF x = o THEN 1 ELSE 0
  <2>1. Len(<<x>>) = 1 /\ <<x>>[1] = x /\ 1..1 = {1}
    OBVIOUS
  <2>2. CASE x = o
    <3>1. {i \in 1..Len(<<x>>) : <<x>>[i] = o} = {1}
      BY <2>1, <2>2
    <3> QED
      BY <2>2, <3>1, FS_Singleton DEF Times
  <2>3. CASE x # o
    BY <1>1, <2>1, <2>3
  <2> QED
    BY <2>2, <2>3
<1>3. ASSUME NEW o PROVE Times(<<>>, o) = 0
  BY <1>1
<1> QED
  BY <1>1, <1>2, <1>3

(* A new object, with one reference to it on the way.                      *)
LEMMA MadeMove ==
  ASSUME NEW S, NEW c, NEW m, NEW a, Good(S, c, m, a, <<>>, Null),
         NEW p \in Objs, p \notin m.live, NEW E \in Cell, CellOk(E), NEW R, R = E.refs,
         \A i \in 1..Len(R) : R[i] # Null => R[i] \in m.live,
         NEW e, e = WithCell(c, p, E),
         NEW n \in VmState, n.live = m.live \cup {p},
         \A o \in Objs : n.rc[o] = IF o = p THEN 1 ELSE m.rc[o] + Times(R, o),
         NEW b \in AotState, b.live = a.live \cup {p}, b.num_objs = a.num_objs + 1,
         \A o \in Objs : b.rc[o] = IF o = p THEN 1 ELSE a.rc[o] + Times(R, o)
  PROVE  Good(S, e, n, b, <<>>, p)
<1>1. /\ m \in VmState /\ m.live \in SUBSET Objs /\ c \in [Objs -> Cell]
      /\ m.rc \in [Objs -> Int] /\ a.rc \in [Objs -> Int]
  BY DEF Good, Typed, VmState, AotState
<1>2. Len(R) <= MaxCaptures
  BY DEF CellOk
<1> DEFINE K(o) == Count(S, m.live, c, <<>>, Null, o)
           H(o) == Count(S, n.live, e, <<>>, p, o)
<1>3. \A o \in Objs : K(o) \in Nat
  BY <1>1, CountOnTheWay
<1>4. \A o \in Objs : Times(R, o) \in Nat /\ H(o) = K(o) + Times(R, o) + (IF p = o THEN 1 ELSE 0)
  <2> SUFFICES ASSUME NEW o \in Objs
               PROVE  Times(R, o) \in Nat /\ H(o) = K(o) + Times(R, o) + (IF p = o THEN 1 ELSE 0)
    OBVIOUS
  <2> HIDE DEF K, H
  <2>1. /\ Times(R, o) \in Nat
        /\ Count(S, n.live, e, <<>>, p, o)
             = Count(S, m.live, c, <<>>, Null, o) + Times(R, o) + (IF p = o THEN 1 ELSE 0)
    <3>1. n.live = With(m.live, p)
      BY DEF With
    <3>2. Len(E.refs) <= MaxCaptures
      BY <1>2
    <3>3. /\ Times(E.refs, o) \in Nat
          /\ Count(S, n.live, e, <<>>, p, o) = Count(S, m.live, c, <<>>, p, o) + Times(E.refs, o)
      <4>1. PICK L \in SUBSET Objs : L = m.live
        BY <1>1
      <4>2. PICK M : M = n.live
        OBVIOUS
      <4>3. p \notin L /\ M = With(L, p)
        BY <3>1, <4>1, <4>2
      <4>4. c \in [Objs -> Cell]
        BY <1>1
      <4>5. /\ Times(E.refs, o) \in Nat
            /\ Count(S, M, e, <<>>, p, o) = Count(S, L, c, <<>>, p, o) + Times(E.refs, o)
        BY <3>2, <4>3, <4>4, ObjectAdded
      <4> QED
        BY <4>1, <4>2, <4>5
    <3>4. /\ Count(S, m.live, c, <<>>, p, o) = Count(S, m.live, c, <<>>, Null, o) + (IF p = o THEN 1 ELSE 0)
          /\ Count(S, m.live, c, <<>>, Null, o) \in Nat
      BY <1>1, CountOnTheWay
    <3> QED
      BY <3>3, <3>4
  <2> QED
    BY <2>1 DEF K, H
<1>5. /\ \A o \in Objs : K(o) > 0 => o \in m.live
      /\ \A o \in m.live : m.rc[o] = K(o) /\ a.rc[o] = m.rc[o] /\ m.rc[o] # 0
  BY DEF Good, Exact, Dies
<1>6. \A o \in Objs : o \notin m.live => Times(R, o) = 0
  <2> SUFFICES ASSUME NEW o \in Objs, o \notin m.live PROVE Times(R, o) = 0
    OBVIOUS
  <2>1. \A i \in 1..Len(R) : R[i] # o
    BY ObjectsAssumption
  <2> QED
    BY <2>1, TimesIs
<1> HIDE DEF K, H
<1>7. K(p) = 0 /\ H(p) = 1
  BY <1>3, <1>4, <1>5, <1>6
<1>8. \A o \in Objs : H(o) > 0 => o \in n.live
  BY <1>3, <1>4, <1>5, <1>6
<1>9. \A o \in n.live : n.rc[o] = H(o) /\ b.rc[o] = n.rc[o] /\ n.rc[o] # 0
  <2> SUFFICES ASSUME NEW o \in n.live PROVE n.rc[o] = H(o) /\ b.rc[o] = n.rc[o] /\ n.rc[o] # 0
    OBVIOUS
  <2>1. CASE o = p
    BY <1>7, <2>1
  <2>2. CASE o # p
    <3>1. o \in m.live /\ o \in Objs
      BY <1>1, <2>2
    <3> QED
      BY <1>3, <1>4, <1>5, <2>2, <3>1
  <2> QED
    BY <2>1, <2>2
<1>10. Exact(S, e, n, b, <<>>, p)
  <2>1. 1..Len(<<>>) = {}
    OBVIOUS
  <2>2. Distinct(<<>>)
    BY <2>1 DEF Distinct
  <2>3. \A o \in Objs : Count(S, n.live, e, <<>>, p, o) > 0 => o \in n.live
    BY <1>8 DEF H
  <2>4. \A o \in n.live : n.rc[o] = Count(S, n.live, e, <<>>, p, o) /\ b.rc[o] = n.rc[o]
    BY <1>9 DEF H
  <2> QED
    BY <1>9, <2>1, <2>2, <2>3, <2>4 DEF Exact
<1>11. \A o \in Objs : e[o] = IF o = p THEN E ELSE c[o]
  BY <1>1 DEF WithCell
<1>12. e \in [Objs -> Cell]
  BY <1>1 DEF WithCell
<1>13. Shaped(S, e, n.live)
  <2>1. ASSUME NEW v \in Vars PROVE ValueOk(S[v], e)
    <3>1. S[v].obj \in Refs /\ (S[v].obj # Null => S[v].obj \in m.live) /\ ValueOk(S[v], c)
      BY VarIsHeld DEF Good, Shaped
    <3>2. S[v].obj # Null => e[S[v].obj] = c[S[v].obj]
      BY <1>1, <1>11, <3>1
    <3> QED
      BY <3>1, <3>2 DEF ValueOk
  <2>2. ASSUME NEW o \in n.live PROVE CellOk(e[o])
    <3>1. CASE o = p
      BY <1>11, <3>1
    <3>2. CASE o # p
      BY <1>1, <1>11, <3>2 DEF Good, Shaped
    <3> QED
      BY <3>1, <3>2
  <2> QED
    BY <2>1, <2>2 DEF Shaped
<1>14. Totals(n, b)
  <2>1. IsFiniteSet(m.live)
    BY <1>1, ObjectsAssumption, FS_Subset
  <2>2. Cardinality(m.live \cup {p}) = Cardinality(m.live) + 1
    BY <2>1, FS_AddElement
  <2> QED
    BY <2>2 DEF Good, Totals
<1>15. Typed(S, e, n, b, <<>>)
  BY <1>12 DEF Good, Typed
<1> QED
  BY <1>10, <1>13, <1>14, <1>15 DEF Good

(* A destructor that has given up every field frees its object.            *)
LEMMA FreeMove ==
  ASSUME NEW S, NEW c, NEW m, NEW a, NEW q, Good(S, c, m, a, q, Null), q # <<>>,
         NEW p, p = Head(q).obj, Head(q).next > Len(c[p].refs),
         NEW words, NEW n, n = VmFree(m, p, words), NEW b, b = cb_free_object(a, p),
         NEW e, e = WithCell(c, p, Blank), NEW r, r = Tail(q)
  PROVE  Good(S, e, n, b, r, Null)
<1>1. /\ m \in VmState /\ a \in AotState /\ m.live \in SUBSET Objs /\ c \in [Objs -> Cell]
      /\ q \in Destructors /\ Distinct(q)
  BY DEF Good, Typed, Exact, VmState
<1>2. Head(q) = q[1] /\ 1 \in 1..Len(q)
  BY <1>1 DEF Destructors
<1>3. p \in m.live /\ p \in Objs /\ m.rc[p] = 0 /\ Dies(q, p)
  BY <1>1, <1>2 DEF Good, Exact, Dies
<1>4. /\ n \in VmState /\ n.live = m.live \ {p} /\ n.rc = m.rc
      /\ b \in AotState /\ b.live = a.live \ {p} /\ b.num_objs = a.num_objs - 1 /\ b.rc = a.rc
  BY <1>1, <1>3, FreeIs
<1>5. /\ r \in Destructors /\ Distinct(r)
      /\ \A i \in 1..Len(r) : i + 1 \in 1..Len(q) /\ r[i] = q[i + 1] /\ r[i].obj # p
      /\ \A o : Dies(r, o) <=> Dies(q, o) /\ o # p
  <2>1. /\ Tail(q) \in Destructors /\ Distinct(Tail(q))
        /\ \A i \in 1..Len(Tail(q)) :
             i + 1 \in 1..Len(q) /\ Tail(q)[i] = q[i + 1] /\ Tail(q)[i].obj # Head(q).obj
        /\ \A o : Dies(Tail(q), o) <=> Dies(q, o) /\ o # Head(q).obj
    BY <1>1, DestructorEnds
  <2> QED
    BY <2>1
<1>6. \A o : Count(S, n.live, e, r, Null, o) = Count(S, m.live, c, q, Null, o)
  <2> SUFFICES ASSUME NEW o PROVE Count(S, n.live, e, r, Null, o) = Count(S, m.live, c, q, Null, o)
    OBVIOUS
  <2>1. n.live = Without(m.live, p)
    BY <1>4 DEF Without
  <2>2. Count(S, n.live, e, Tail(q), Null, o) = Count(S, m.live, c, q, Null, o)
    BY <1>1, <1>3, <2>1, ObjectGone
  <2> QED
    BY <2>2
<1>7. Exact(S, e, n, b, r, Null)
  <2>1. /\ \A o \in Objs : Count(S, m.live, c, q, Null, o) > 0 => o \in m.live
        /\ \A o \in m.live : m.rc[o] = Count(S, m.live, c, q, Null, o) /\ a.rc[o] = m.rc[o]
        /\ \A i \in 1..Len(q) : q[i].obj \in m.live /\ m.rc[q[i].obj] = 0
        /\ \A o \in m.live : m.rc[o] = 0 => Dies(q, o)
    BY DEF Good, Exact
  <2>2. \A o \in Objs : Count(S, n.live, e, r, Null, o) > 0 => o \in n.live
    BY <1>3, <1>4, <1>6, <2>1
  <2>3. \A o \in n.live : n.rc[o] = Count(S, n.live, e, r, Null, o) /\ b.rc[o] = n.rc[o]
    BY <1>4, <1>6, <2>1
  <2>4. \A i \in 1..Len(r) : r[i].obj \in n.live /\ n.rc[r[i].obj] = 0
    BY <1>4, <1>5, <2>1
  <2>5. \A o \in n.live : n.rc[o] = 0 => Dies(r, o)
    BY <1>4, <1>5, <2>1
  <2> QED
    BY <1>5, <2>2, <2>3, <2>4, <2>5 DEF Exact
<1>8. Blank \in Cell
  BY DEF Blank, Cell
<1>9. e \in [Objs -> Cell] /\ \A o \in Objs : o # p => e[o] = c[o]
  BY <1>1, <1>8 DEF WithCell
<1>10. Shaped(S, e, n.live)
  <2>1. ASSUME NEW v \in Vars PROVE ValueOk(S[v], e)
    <3>1. S[v].obj \in Refs /\ (S[v].obj # Null => S[v].obj \in m.live /\ S[v].obj # p) /\ ValueOk(S[v], c)
      BY <1>3, VarIsHeld DEF Good, Shaped
    <3>2. S[v].obj # Null => e[S[v].obj] = c[S[v].obj]
      BY <1>1, <1>9, <3>1
    <3> QED
      BY <3>1, <3>2 DEF ValueOk
  <2>2. ASSUME NEW o \in n.live PROVE CellOk(e[o])
    BY <1>1, <1>4, <1>9 DEF Good, Shaped
  <2> QED
    BY <2>1, <2>2 DEF Shaped
<1>11. Totals(n, b)
  <2>1. IsFiniteSet(m.live)
    BY <1>1, ObjectsAssumption, FS_Subset
  <2>2. Cardinality(n.live) = Cardinality(m.live) - 1
    BY <1>3, <1>4, <2>1, FS_RemoveElement
  <2> QED
    BY <1>4, <2>2 DEF Good, Totals
<1>12. Typed(S, e, n, b, r)
  BY <1>4, <1>5, <1>9 DEF Good, Typed
<1> QED
  BY <1>7, <1>10, <1>11, <1>12 DEF Good

-----------------------------------------------------------------------------
(* The statements of a program.  What they have in common: they run when   *)
(* no destructor does, and the program goes on.                            *)
LEMMA GoesOn ==
  ASSUME Running, mode' = mode, store' = store, Good(slot', cell', vm', aot', todo', Null)
  PROVE  IInv'
<1>1. Contents' = cell' /\ Storing'
  BY DEF Running, Contents, Good, Typed, Storing, NoStore
<1> QED
  BY <1>1 DEF Running, IInv, Ended, NoStore

(* While a statement can run, no field is being set.                       *)
LEMMA RunningIs ==
  ASSUME IInv, Running
  PROVE  Good(slot, cell, vm, aot, <<>>, Null) /\ Contents = cell /\ todo = <<>> /\ store = NoStore
<1>1. Contents = cell /\ todo = <<>> /\ store = NoStore
  BY DEF Running, Contents
<1> QED
  BY <1>1 DEF IInv

LEMMA ReleasedKeeps ==
  ASSUME NEW S, NEW c, NEW m, NEW a, NEW q, NEW x \in Refs, Good(S, c, m, a, q, x),
         Released(m, a, x, q)
  PROVE  Good(S, c, vm', aot', todo', Null) /\ mode' = mode
<1>1. CASE x = Null
  BY <1>1 DEF Released
<1>2. CASE x # Null
  <2>1. x \in Objs
    BY <1>2 DEF Refs
  <2>2. /\ vm' = VmReleaseOnly(m, x) /\ aot' = cb_release_only(a, x)
        /\ todo' = Started(m, x, q)
        /\ mode' = IF (m.rc[x] = 1) # (a.rc[x] = 1) THEN "diverged" ELSE mode
    BY <1>2 DEF Released, Started, Starting
  <2>3. Good(S, c, vm', aot', todo', Null) /\ a.rc[x] = m.rc[x]
    BY <2>1, <2>2, ReleaseMove
  <2> QED
    BY <2>2, <2>3
<1> QED
  BY <1>1, <1>2

(* A variable is filled with a copy of a value that refers to what is      *)
(* alive.                                                                  *)
LEMMA CopyKeeps ==
  ASSUME IInv, Running, NEW d \in Vars, slot[d] = Dead, NEW w \in Value, ValueOk(w, cell),
         w.obj # Null => w.obj \in vm.live,
         Retained(w.obj), slot' = Stored(slot, d, w), UNCHANGED <<cell, todo, store, mode>>
  PROVE  IInv'
<1>1. Good(slot, cell, vm, aot, todo, Null) /\ todo = <<>>
  BY RunningIs
<1>2. w.obj \in Refs /\ ~Dies(todo, w.obj)
  <2>1. 1..Len(todo) = {}
    BY <1>1
  <2> QED
    BY <2>1 DEF Value, Dies
<1>3. vm' = VmRetainOf(vm, w.obj) /\ aot' = AotRetainOf(aot, w.obj)
  BY DEF Retained, VmRetainOf, AotRetainOf
<1>4. Good(slot, cell, vm', aot', todo, w.obj)
  BY <1>1, <1>2, <1>3, RetainMove
<1>5. slot[d].obj = Null
  BY DEF Dead
<1>6. Good(slot', cell, vm', aot', todo, Null)
  BY <1>4, <1>5, SlotMove
<1> QED
  BY <1>6, GoesOn

(* What a variable refers to.                                              *)
LEMMA SourceOk ==
  ASSUME IInv, Running, NEW s \in Vars
  PROVE  /\ slot[s] \in Value /\ ValueOk(slot[s], cell)
         /\ slot[s].obj \in Refs /\ slot[s].as \in Tags
         /\ slot[s].obj # Null =>
              /\ slot[s].obj \in vm.live /\ slot[s].obj \in Objs
              /\ cell[slot[s].obj] \in Cell /\ CellOk(cell[slot[s].obj])
<1>1. Good(slot, cell, vm, aot, todo, Null)
  BY RunningIs
<1>2. /\ slot[s] \in Value /\ ValueOk(slot[s], cell) /\ cell \in [Objs -> Cell] /\ vm.live \in SUBSET Objs
      /\ \A o \in vm.live : CellOk(cell[o])
  BY <1>1 DEF Good, Typed, Shaped, VmState
<1>3. slot[s].obj \in Refs /\ slot[s].as \in Tags
  BY <1>2 DEF Value
<1>4. slot[s].obj # Null => slot[s].obj \in vm.live
  BY <1>1, VarIsHeld
<1> QED
  BY <1>2, <1>3, <1>4

ValueOf(k, o, t) == [kind |-> k, obj |-> o, as |-> t]

LEMMA ValueIs ==
  ASSUME NEW k \in Kinds, NEW o \in Refs, NEW t \in Tags
  PROVE  /\ ValueOf(k, o, t) \in Value
         /\ ValueOf(k, o, t).kind = k /\ ValueOf(k, o, t).obj = o
         /\ ValueOf(k, o, t).as = t
BY DEF Value, ValueOf

LEMMA CopyAsKeeps ==
  ASSUME IInv, Running, NEW d \in Vars, slot[d] = Dead, NEW k \in Kinds, k \notin {"dead", "func", "str"},
         NEW o \in Refs, o # Null => o \in vm.live, k = "ref" => o # Null,
         NEW t \in Tags,
         o # Null => t = AnyType \/ cell[o].type = t, CopyAs(d, k, o, t)
  PROVE  IInv'
<1>0. PICK w : w = ValueOf(k, o, t)
  OBVIOUS
<1>1. w \in Value /\ w.kind = k /\ w.obj = o /\ w.as = t /\ slot' = Stored(slot, d, w)
  <2>1. slot' = Stored(slot, d, w)
    BY <1>0 DEF CopyAs, Put, Stored, ValueOf
  <2>2. ValueOf(k, o, t) \in Value
    BY ValueIs
  <2>3. ValueOf(k, o, t).kind = k /\ ValueOf(k, o, t).obj = o /\ ValueOf(k, o, t).as = t
    BY ValueIs
  <2> QED
    BY <1>0, <2>1, <2>2, <2>3
<1>2. ValueOk(w, cell)
  BY <1>1 DEF ValueOk
<1>3. Retained(w.obj) /\ UNCHANGED <<cell, todo, store, mode>>
  BY <1>1 DEF CopyAs
<1> QED
  BY <1>1, <1>2, <1>3, CopyKeeps

LEMMA LiteralKeeps ==
  ASSUME IInv, NEW d \in Vars, NEW x \in Texts, Literal(d, x)
  PROVE  IInv'
<1>0. PICK w : w = ValueOf("str", Null, x)
  OBVIOUS
<1>1. w \in Value /\ w.kind = "str" /\ w.obj = Null /\ w.as = x /\ slot' = Stored(slot, d, w)
  <2>1. "str" \in Kinds /\ Null \in Refs /\ x \in Tags
    BY DEF Kinds, Refs, Tags
  <2>2. slot' = Stored(slot, d, w)
    BY <1>0 DEF Literal, Put, Stored, ValueOf
  <2> QED
    BY <1>0, <2>1, <2>2, ValueIs
<1>2. ValueOk(w, cell)
  BY <1>1 DEF ValueOk
<1>3. Retained(w.obj) /\ Running /\ slot[d] = Dead /\ UNCHANGED <<cell, todo, store, mode>>
  BY <1>1 DEF Literal, Retained
<1> QED
  BY <1>1, <1>2, <1>3, CopyKeeps

LEMMA ValueCopied ==
  ASSUME IInv, NEW d \in Vars, NEW s \in Vars, Copy(d, s)
  PROVE  IInv'
<1>1. slot' = Stored(slot, d, slot[s])
  BY DEF Copy, Stored
<1>2. Retained(slot[s].obj) /\ Running /\ slot[d] = Dead /\ UNCHANGED <<cell, todo, store, mode>>
  BY DEF Copy
<1>3. slot[s] \in Value /\ ValueOk(slot[s], cell) /\ (slot[s].obj # Null => slot[s].obj \in vm.live)
  BY SourceOk DEF Copy
<1> QED
  BY <1>1, <1>2, <1>3, CopyKeeps

(* Conversions of a reference.                                             *)
LEMMA ConversionKeeps ==
  ASSUME IInv, NEW d \in Vars, NEW s \in Vars, Some(d, s) \/ Erase(d, s) \/ Trait(d, s)
  PROVE  IInv'
<1>1. Running /\ slot[d] = Dead /\ slot[s].kind = "ref"
  BY DEF Some, Erase, Trait
<1>2. /\ slot[s].obj \in Refs /\ slot[s].obj # Null /\ slot[s].obj \in vm.live
      /\ slot[s].as \in Tags
      /\ slot[s].as = AnyType \/ cell[slot[s].obj].type = slot[s].as
  BY <1>1, SourceOk DEF ValueOk
<1>3. CASE Some(d, s)
  <2>1. CopyAs(d, "opt", slot[s].obj, slot[s].as)
    BY <1>3 DEF Some
  <2> QED
    BY <1>1, <1>2, <2>1, CopyAsKeeps DEF Kinds
<1>4. CASE Erase(d, s)
  <2>1. CopyAs(d, "ref", slot[s].obj, AnyType) /\ AnyType \in Tags
    BY <1>4 DEF Erase, AnyType, Tags
  <2> QED
    BY <1>1, <1>2, <2>1, CopyAsKeeps DEF Kinds
<1>5. CASE Trait(d, s)
  <2>1. CopyAs(d, "trait", slot[s].obj, slot[s].as)
    BY <1>5 DEF Trait
  <2> QED
    BY <1>1, <1>2, <2>1, CopyAsKeeps DEF Kinds
<1> QED
  BY <1>3, <1>4, <1>5

LEMMA NoneKeeps ==
  ASSUME IInv, NEW d \in Vars, NEW t \in Types, NoneOf(d, t)
  PROVE  IInv'
<1>1. CopyAs(d, "opt", Null, t)
  BY DEF NoneOf
<1>2. Running /\ slot[d] = Dead /\ Null \in Refs /\ t \in Tags
  BY DEF NoneOf, Refs, Tags
<1> QED
  BY <1>1, <1>2, CopyAsKeeps DEF Kinds

(* A panic, and a conversion that may end in one.                          *)
LEMMA PanicKeeps == ASSUME IInv, Running, Panic PROVE IInv'
<1>1. Good(slot', cell', vm', aot', todo', Null) /\ mode' = "panic" /\ UNCHANGED <<slot, cell, store>>
  BY RunningIs DEF Panic
<1> QED
  BY <1>1, RunningIs DEF IInv, Ended, Contents, Storing

LEMMA CastKeeps ==
  ASSUME IInv, NEW d \in Vars, NEW s \in Vars, NEW t \in Types, Cast(d, s, t)
  PROVE  IInv'
<1>1. Running /\ slot[d] = Dead /\ slot[s].kind = "ref"
  BY DEF Cast
<1>2. slot[s].obj \in Refs /\ slot[s].obj # Null /\ slot[s].obj \in vm.live
  BY <1>1, SourceOk DEF ValueOk
<1>3. CASE Panic
  BY <1>1, <1>3, PanicKeeps
<1>4. CASE ~Panic
  <2>1. cell[slot[s].obj].type = t /\ CopyAs(d, "ref", slot[s].obj, t)
    BY <1>4 DEF Cast, Checked, VmCasts, cbi_cast
  <2>2. t \in Tags
    BY DEF Tags
  <2> QED
    BY <1>1, <1>2, <2>1, <2>2, CopyAsKeeps DEF Kinds
<1> QED
  BY <1>3, <1>4

LEMMA UnwrapKeeps ==
  ASSUME IInv, NEW d \in Vars, NEW s \in Vars, NEW r \in Vars, UnwrapOr(d, s, r)
  PROVE  IInv'
<1>1. /\ Running /\ slot[d] = Dead
      /\ slot[s].kind = "opt" /\ slot[r].kind = "ref" /\ slot[s].as = slot[r].as
      /\ CopyAs(d, "ref", IF slot[s].obj = Null THEN slot[r].obj ELSE slot[s].obj, slot[r].as)
  BY DEF UnwrapOr
<1>2. PICK o : o = IF slot[s].obj = Null THEN slot[r].obj ELSE slot[s].obj
  OBVIOUS
<1>3. /\ o \in Refs /\ o # Null /\ o \in vm.live /\ slot[r].as \in Tags
      /\ slot[r].as = AnyType \/ cell[o].type = slot[r].as
  <2>1. CASE slot[s].obj = Null
    BY <1>1, <1>2, <2>1, SourceOk DEF ValueOk
  <2>2. CASE slot[s].obj # Null
    BY <1>1, <1>2, <2>2, SourceOk DEF ValueOk
  <2> QED
    BY <2>1, <2>2
<1> QED
  BY <1>1, <1>2, <1>3, CopyAsKeeps DEF Kinds

(* References read from an object: the field of a box, which may be none,  *)
(* and a captured variable, which may not.                                 *)
LEMMA FieldRead ==
  ASSUME IInv, Running, NEW p \in vm.live, NEW i \in 1..Len(cell[p].refs)
  PROVE  /\ cell[p].refs[i] \in Refs
         /\ cell[p].refs[i] # Null => cell[p].refs[i] \in vm.live
<1>1. Good(slot, cell, vm, aot, todo, Null) /\ ~Dies(todo, p)
  <2>1. 1..Len(todo) = {}
    BY DEF Running
  <2> QED
    BY <2>1, RunningIs DEF Dies
<1> QED
  BY <1>1, FieldIsHeld

LEMMA GetFieldKeeps ==
  ASSUME IInv, NEW d \in Vars, NEW s \in Vars, GetField(d, s)
  PROVE  IInv'
<1>1. /\ Running /\ slot[d] = Dead /\ slot[s].kind = "ref" /\ slot[s].as \in Types
      /\ CopyAs(d, "opt", cell[slot[s].obj].refs[1], AnyType)
  BY DEF GetField
<1>2. slot[s].as # AnyType
  BY <1>1, ObjectsAssumption DEF AnyType
<1>3. PICK p \in vm.live : p = slot[s].obj /\ cell[p].type \in Types /\ CellOk(cell[p])
  BY <1>1, <1>2, SourceOk DEF ValueOk
<1>4. 1 \in 1..Len(cell[p].refs)
  <2>1. Len(cell[p].refs) = 1
    BY <1>3 DEF CellOk
  <2> QED
    BY <2>1
<1>5. cell[p].refs[1] \in Refs /\ (cell[p].refs[1] # Null => cell[p].refs[1] \in vm.live)
  BY <1>1, <1>4, FieldRead
<1>6. AnyType \in Tags
  BY DEF AnyType, Tags
<1>7. CopyAs(d, "opt", cell[p].refs[1], AnyType)
  BY <1>1, <1>3
<1> QED
  BY <1>1, <1>5, <1>6, <1>7, CopyAsKeeps DEF Kinds

LEMMA CapturedKeeps ==
  ASSUME IInv, NEW d \in Vars, NEW s \in Vars, NEW i, Captured(d, s, i)
  PROVE  IInv'
<1>1. /\ Running /\ slot[d] = Dead /\ slot[s].kind = "func"
      /\ i \in 1..Len(cell[slot[s].obj].refs)
      /\ CopyAs(d, "ref", cell[slot[s].obj].refs[i], AnyType)
  BY DEF Captured
<1>2. PICK p \in vm.live : p = slot[s].obj /\ cell[p].type \in {"func", "closure"} /\ CellOk(cell[p])
  BY <1>1, SourceOk DEF ValueOk
<1>3. i \in 1..Len(cell[p].refs) /\ cell[p].refs # <<>>
  BY <1>1, <1>2
<1>4. cell[p].refs[i] # Null
  BY <1>2, <1>3 DEF CellOk
<1>5. cell[p].refs[i] \in Refs /\ cell[p].refs[i] \in vm.live
  BY <1>1, <1>3, <1>4, FieldRead
<1>6. AnyType \in Tags
  BY DEF AnyType, Tags
<1>7. CopyAs(d, "ref", cell[p].refs[i], AnyType)
  BY <1>1, <1>2
<1> QED
  BY <1>1, <1>4, <1>5, <1>6, <1>7, CopyAsKeeps DEF Kinds

(* New objects: what the four statements that make one have in common.     *)
CellOf(k, R) == [type |-> k, refs |-> R]

(* The counts that a new object o with the references R leaves.            *)
Counted(r, u, o, R) == \A x \in Objs : u[x] = IF x = o THEN 1 ELSE r[x] + Times(R, x)

LEMMA NewKeeps ==
  ASSUME IInv, Running, NEW d \in Vars, slot[d] = Dead, NEW o \in Objs, o \notin vm.live,
         NEW E \in Cell, CellOk(E), NEW R, R = E.refs, \A i \in 1..Len(R) : R[i] # Null => R[i] \in vm.live,
         cell' = WithCell(cell, o, E),
         vm' \in VmState, vm'.live = vm.live \cup {o},
         Counted(vm.rc, vm'.rc, o, R),
         aot' \in AotState, aot'.live = aot.live \cup {o}, aot'.num_objs = aot.num_objs + 1,
         Counted(aot.rc, aot'.rc, o, R),
         NEW w \in Value, w.obj = o, ValueOk(w, cell'), slot' = Stored(slot, d, w),
         UNCHANGED <<todo, store, mode>>
  PROVE  IInv'
<1>1. Good(slot, cell, vm, aot, <<>>, Null) /\ todo = <<>> /\ slot[d].obj = Null
  BY RunningIs DEF Dead
<1>2. Good(slot, cell', vm', aot', <<>>, o)
  BY <1>1, MadeMove DEF Counted
<1>3. Good(slot', cell', vm', aot', <<>>, Null)
  BY <1>1, <1>2, SlotMove
<1> QED
  BY <1>1, <1>3, GoesOn

LEMMA StateIs ==
  ASSUME IInv
  PROVE  /\ slot \in [Vars -> Value] /\ cell \in [Objs -> Cell]
         /\ vm \in VmState /\ aot \in AotState /\ todo \in Destructors
         /\ vm.live \in SUBSET Objs /\ aot.live = vm.live
         /\ vm.rc \in [Objs -> Int] /\ aot.rc \in [Objs -> Int]
BY DEF IInv, Storing, Good, Typed, Totals, VmState, AotState

(* A cell with no references, for a string or a function.                  *)
LEMMA PlainKeeps ==
  ASSUME IInv, Running, NEW d \in Vars, slot[d] = Dead, NEW o \in Objs, NEW k \in {"buffer", "func"},
         NEW words, Made(o, k, <<>>), vm' = VmNew(vm, o, words), aot' = cb_object_undef(aot, o),
         NEW w \in Value, w.obj = o, ValueOk(w, cell'), slot' = Stored(slot, d, w),
         UNCHANGED <<todo, store, mode>>
  PROVE  IInv'
<1>1. PICK E \in Cell : E = CellOf(k, <<>>)
  <2>1. <<>> \in Seq(Refs)
    OBVIOUS
  <2>2. CellOf(k, <<>>) \in Cell
    BY <2>1 DEF Cell, CellOf
  <2> QED
    BY <2>2
<1>2. CellOk(E) /\ E.refs = <<>>
  <2>1. E.type = k /\ E.refs = <<>>
    BY <1>1 DEF CellOf
  <2>2. k \notin Types
    BY ObjectsAssumption
  <2>3. Len(E.refs) = 0
    BY <2>1
  <2> QED
    BY <2>1, <2>2, <2>3, ObjectsAssumption DEF CellOk
<1>3. cell' = WithCell(cell, o, E) /\ o \notin vm.live
  BY <1>1 DEF Made, WithCell, CellOf
<1>4. /\ vm' \in VmState /\ vm'.live = vm.live \cup {o}
      /\ \A x \in Objs : vm'.rc[x] = IF x = o THEN 1 ELSE vm.rc[x]
      /\ aot' \in AotState /\ aot'.live = aot.live \cup {o} /\ aot'.num_objs = aot.num_objs + 1
      /\ \A x \in Objs : aot'.rc[x] = IF x = o THEN 1 ELSE aot.rc[x]
  BY StateIs, NewIs
<1>5. \A x \in Objs : vm.rc[x] = vm.rc[x] + Times(<<>>, x) /\ aot.rc[x] = aot.rc[x] + Times(<<>>, x)
  BY StateIs, TimesIs
<1>6. /\ \A x \in Objs : vm'.rc[x] = IF x = o THEN 1 ELSE vm.rc[x] + Times(<<>>, x)
      /\ \A x \in Objs : aot'.rc[x] = IF x = o THEN 1 ELSE aot.rc[x] + Times(<<>>, x)
  BY <1>4, <1>5
<1>7. PICK R : R = E.refs
  OBVIOUS
<1>8. \A i \in 1..Len(R) : R[i] # Null => R[i] \in vm.live
  BY <1>2, <1>7
<1>9. Counted(vm.rc, vm'.rc, o, R) /\ Counted(aot.rc, aot'.rc, o, R)
  BY <1>2, <1>6, <1>7 DEF Counted
<1> QED
  BY <1>2, <1>3, <1>4, <1>7, <1>8, <1>9, NewKeeps

LEMMA NewStringKeeps ==
  ASSUME IInv, NEW d \in Vars, NEW o \in Objs, NEW x \in Texts, NewString(d, o, x)
  PROVE  IInv'
<1>1. /\ Running /\ slot[d] = Dead /\ Made(o, "buffer", <<>>) /\ UNCHANGED <<todo, store, mode>>
      /\ vm' = VmNew(vm, o, 1) /\ aot' = cb_object_undef(aot, o)
  BY DEF NewString, cb_astr
<1>2. PICK w : w = ValueOf("str", o, x)
  OBVIOUS
<1>3. "str" \in Kinds /\ o \in Refs /\ x \in Tags
  BY DEF Kinds, Refs, Tags
<1>4. w \in Value /\ w.kind = "str" /\ w.obj = o /\ w.as = x
  BY <1>2, <1>3, ValueIs
<1>5. slot' = Stored(slot, d, w)
  BY <1>2 DEF NewString, Put, Stored, ValueOf
<1>6. ValueOk(w, cell')
  BY <1>4 DEF ValueOk
<1> QED
  BY <1>1, <1>4, <1>5, <1>6, PlainKeeps

LEMMA FuncUnionKeeps ==
  ASSUME IInv, NEW d \in Vars, NEW o \in Objs, FuncUnion(d, o)
  PROVE  IInv'
<1>1. /\ Running /\ slot[d] = Dead /\ Made(o, "func", <<>>) /\ UNCHANGED <<todo, store, mode>>
      /\ vm' = VmNew(vm, o, 2) /\ aot' = cb_object_undef(aot, o)
  BY DEF FuncUnion, cbi_func_union
<1>2. PICK w : w = ValueOf("func", o, "func")
  OBVIOUS
<1>3. "func" \in Kinds /\ o \in Refs /\ "func" \in Tags
  BY DEF Kinds, Refs, Tags
<1>4. w \in Value /\ w.kind = "func" /\ w.obj = o
  BY <1>2, <1>3, ValueIs
<1>5. slot' = Stored(slot, d, w)
  BY <1>2 DEF FuncUnion, Put, Stored, ValueOf
<1>6. cell'[o].type = "func" /\ o # Null
  BY <1>1, StateIs, ObjectsAssumption DEF Made
<1>7. ValueOk(w, cell')
  BY <1>4, <1>6 DEF ValueOk
<1> QED
  BY <1>1, <1>4, <1>5, <1>7, PlainKeeps

(* A box: the value is retained, then the box is made.                     *)
LEMMA LiftKeeps ==
  ASSUME IInv, NEW d \in Vars, NEW o \in Objs, NEW t \in Types, NEW s \in Vars, Lift(d, o, t, s)
  PROVE  IInv'
<1>1. PICK x \in Refs : x = slot[s].obj /\ (x # Null => x \in vm.live)
  BY SourceOk DEF Lift
<1>2. /\ Running /\ slot[d] = Dead /\ Made(o, t, <<x>>) /\ UNCHANGED <<todo, store, mode>>
      /\ Put(d, "ref", o, t)
  BY <1>1 DEF Lift
<1>3. vm' = VmNew(VmRetainOf(vm, x), o, 1) /\ aot' = cb_object_undef(AotRetainOf(aot, x), o)
  BY <1>1 DEF Lift, cbi_lift, VmRetainOf, AotRetainOf
<1>4. PICK m \in VmState : m = VmRetainOf(vm, x)
  BY StateIs, RetainIs DEF VmRetainOf, Refs
<1>5. PICK a \in AotState : a = AotRetainOf(aot, x)
  BY StateIs, RetainIs DEF AotRetainOf, Refs
<1>6. /\ m.live = vm.live /\ a.live = aot.live /\ a.num_objs = aot.num_objs
      /\ \A y \in Objs : m.rc[y] = vm.rc[y] + (IF x = y THEN 1 ELSE 0)
      /\ \A y \in Objs : a.rc[y] = aot.rc[y] + (IF x = y THEN 1 ELSE 0)
  <2>1. CASE x = Null
    BY <1>4, <1>5, <2>1, StateIs, ObjectsAssumption DEF VmRetainOf, AotRetainOf
  <2>2. CASE x # Null
    <3>1. x \in Objs /\ m = VmRetain(vm, x) /\ a = cbi_retain(aot, x)
      BY <1>4, <1>5, <2>2 DEF VmRetainOf, AotRetainOf, Refs
    <3>2. /\ m.live = vm.live /\ a.live = aot.live /\ a.num_objs = aot.num_objs
          /\ \A y \in Objs : m.rc[y] = IF y = x THEN vm.rc[y] + 1 ELSE vm.rc[y]
          /\ \A y \in Objs : a.rc[y] = IF y = x THEN aot.rc[y] + 1 ELSE aot.rc[y]
      BY <3>1, StateIs, RetainIs
    <3> QED
      BY <3>2, StateIs
  <2> QED
    BY <2>1, <2>2
<1>7. /\ vm' \in VmState /\ vm'.live = m.live \cup {o}
      /\ \A y \in Objs : vm'.rc[y] = IF y = o THEN 1 ELSE m.rc[y]
      /\ aot' \in AotState /\ aot'.live = a.live \cup {o} /\ aot'.num_objs = a.num_objs + 1
      /\ \A y \in Objs : aot'.rc[y] = IF y = o THEN 1 ELSE a.rc[y]
  BY <1>3, <1>4, <1>5, NewIs
<1>8. PICK R : R = <<x>>
  OBVIOUS
<1>9. \A y \in Objs : Times(R, y) = IF x = y THEN 1 ELSE 0
  BY <1>8, TimesIs
<1>10. Counted(vm.rc, vm'.rc, o, R) /\ Counted(aot.rc, aot'.rc, o, R)
  BY <1>6, <1>7, <1>9 DEF Counted
<1>11. R \in Seq(Refs) /\ Len(R) = 1 /\ \A i \in 1..Len(R) : R[i] # Null => R[i] \in vm.live
  BY <1>1, <1>8
<1>12. PICK E \in Cell : E = CellOf(t, R)
  BY <1>11 DEF Cell, CellOf
<1>13. E.type = t /\ E.refs = R
  BY <1>12 DEF CellOf
<1>14. CellOk(E)
  <2>1. t \notin {"none", "buffer", "func", "closure"}
    BY ObjectsAssumption
  <2>2. Len(E.refs) = 1 /\ 1 <= MaxCaptures
    BY <1>11, <1>13, ObjectsAssumption
  <2> QED
    BY <1>13, <2>1, <2>2 DEF CellOk
<1>15. cell' = WithCell(cell, o, E) /\ o \notin vm.live
  BY <1>2, <1>8, <1>12 DEF Made, WithCell, CellOf
<1>16. PICK w : w = ValueOf("ref", o, t)
  OBVIOUS
<1>17. w \in Value /\ w.kind = "ref" /\ w.obj = o /\ w.as = t
  <2>1. "ref" \in Kinds /\ o \in Refs /\ t \in Tags
    BY DEF Kinds, Refs, Tags
  <2> QED
    BY <1>16, <2>1, ValueIs
<1>18. slot' = Stored(slot, d, w)
  BY <1>2, <1>16 DEF Put, Stored, ValueOf
<1>19. ValueOk(w, cell')
  <2>1. cell'[o].type = t /\ o # Null
    BY <1>13, <1>15, StateIs, ObjectsAssumption DEF WithCell
  <2> QED
    BY <1>17, <2>1 DEF ValueOk
<1>20. /\ vm'.live = vm.live \cup {o}
       /\ aot'.live = aot.live \cup {o} /\ aot'.num_objs = aot.num_objs + 1
  BY <1>6, <1>7
<1> QED
  BY <1>2, <1>7, <1>10, <1>11, <1>13, <1>14, <1>15, <1>17, <1>18, <1>19, <1>20, NewKeeps

(* A closure: every captured reference is retained.                        *)
LEMMA ClosureKeeps ==
  ASSUME NoPins, IInv, NEW d \in Vars, NEW o \in Objs, NEW n \in 1..MaxCaptures,
         NEW captured \in [1..n -> Vars], NEW pinned \in Pinned, Closure(d, o, captured, pinned)
  PROVE  IInv'
<1>1. ~pinned
  BY DEF NoPins
<1>2. n \in Nat /\ captured \in Seq(Vars) /\ Len(captured) = n
  BY ObjectsAssumption
<1>3. PICK R : R = [i \in 1..Len(captured) |-> slot[captured[i]].obj]
  OBVIOUS
<1>4. \A i \in 1..n : /\ slot[captured[i]].obj \in Refs
                      /\ slot[captured[i]].obj # Null /\ slot[captured[i]].obj \in vm.live
  <2> SUFFICES ASSUME NEW i \in 1..n
               PROVE  /\ slot[captured[i]].obj \in Refs
                      /\ slot[captured[i]].obj # Null /\ slot[captured[i]].obj \in vm.live
    OBVIOUS
  <2>1. PICK s \in Vars : s = captured[i] /\ slot[s].kind = "ref"
    BY <1>2 DEF Closure
  <2> QED
    BY <2>1, SourceOk DEF ValueOk, Closure
<1>5. R \in Seq(Refs) /\ Len(R) = n /\ \A i \in 1..Len(R) : R[i] # Null /\ R[i] \in vm.live
  BY <1>2, <1>3, <1>4
<1>6. /\ Running /\ slot[d] = Dead /\ Made(o, "closure", R) /\ Put(d, "func", o, "func")
      /\ UNCHANGED <<todo, store, mode>>
  BY <1>1, <1>3 DEF Closure
<1>7. o \notin vm.live
  BY <1>6 DEF Made
<1>8. Times(R, o) = 0
  BY <1>5, <1>7, TimesIs
<1>9. \A x \in Objs : Times(R, x) \in Nat
  <2> SUFFICES ASSUME NEW x \in Objs PROVE Times(R, x) \in Nat
    OBVIOUS
  <2>1. IsFiniteSet(1..Len(R)) /\ {i \in 1..Len(R) : R[i] = x} \in SUBSET (1..Len(R))
    BY <1>2, <1>5, FS_Interval
  <2> QED
    BY <2>1, FS_Subset, FS_CardinalityType DEF Times
<1>10. PICK m \in VmState : m = VmNew(vm, o, 3 + Len(R))
  BY StateIs, NewIs
<1>11. /\ m.live = vm.live \cup {o} /\ m.rc \in [Objs -> Int] /\ m.refCounts \in Int
       /\ \A x \in Objs : m.rc[x] = IF x = o THEN 1 ELSE vm.rc[x]
  <2>1. m.rc \in [Objs -> Int] /\ m.refCounts \in Int
    BY <1>10 DEF VmState
  <2>2. m.live = vm.live \cup {o} /\ \A x \in Objs : m.rc[x] = IF x = o THEN 1 ELSE vm.rc[x]
    BY <1>10, StateIs, NewIs
  <2> QED
    BY <2>1, <2>2
<1>12. PICK r \in [Objs -> Int] : r = [x \in Objs |-> m.rc[x] + Times(R, x)]
  <2>1. \A x \in Objs : m.rc[x] + Times(R, x) \in Int
    BY <1>9, <1>11
  <2> QED
    BY <2>1
<1>13. PICK k \in Int : k = m.refCounts + Len(R)
  BY <1>2, <1>5, <1>11
<1>14. vm' = [m EXCEPT !.rc = r, !.refCounts = k]
  BY <1>1, <1>3, <1>10, <1>12, <1>13 DEF Closure, VmClosure
<1>15. vm' \in VmState /\ vm'.live = m.live /\ vm'.rc = r
  BY <1>14 DEF VmState
<1>16. PICK a \in AotState : a = cb_object_undef(aot, o)
  BY StateIs, NewIs
<1>17. /\ a.live = aot.live \cup {o} /\ a.num_objs = aot.num_objs + 1 /\ a.rc \in [Objs -> Int]
       /\ \A x \in Objs : a.rc[x] = IF x = o THEN 1 ELSE aot.rc[x]
  <2>1. a.rc \in [Objs -> Int]
    BY <1>16 DEF AotState
  <2>2. /\ a.live = aot.live \cup {o} /\ a.num_objs = aot.num_objs + 1
        /\ \A x \in Objs : a.rc[x] = IF x = o THEN 1 ELSE aot.rc[x]
    BY <1>10, <1>16, StateIs, NewIs
  <2> QED
    BY <2>1, <2>2
<1>18. PICK u \in [Objs -> Int] : u = [x \in Objs |-> a.rc[x] + Times(R, x)]
  <2>1. \A x \in Objs : a.rc[x] + Times(R, x) \in Int
    BY <1>9, <1>17
  <2> QED
    BY <2>1
<1>19. aot' = [a EXCEPT !.rc = u]
  BY <1>3, <1>16, <1>18 DEF Closure, cbi_closure
<1>20. aot' \in AotState /\ aot'.live = a.live /\ aot'.num_objs = a.num_objs /\ aot'.rc = u
  BY <1>19 DEF AotState
<1>21. /\ vm'.live = vm.live \cup {o}
       /\ aot'.live = aot.live \cup {o} /\ aot'.num_objs = aot.num_objs + 1
  BY <1>11, <1>15, <1>17, <1>20
<1>22. Counted(vm.rc, vm'.rc, o, R)
  BY <1>8, <1>11, <1>12, <1>15 DEF Counted
<1>23. Counted(aot.rc, aot'.rc, o, R)
  BY <1>8, <1>17, <1>18, <1>20 DEF Counted
<1>24. PICK E \in Cell : E = CellOf("closure", R)
  BY <1>5 DEF Cell, CellOf
<1>25. E.type = "closure" /\ E.refs = R
  BY <1>24 DEF CellOf
<1>26. CellOk(E)
  <2>1. "closure" \notin Types /\ n <= MaxCaptures
    BY ObjectsAssumption
  <2> QED
    BY <1>5, <1>25, <2>1 DEF CellOk
<1>27. cell' = WithCell(cell, o, E)
  BY <1>6, <1>24 DEF Made, WithCell, CellOf
<1>28. PICK w : w = ValueOf("func", o, "func")
  OBVIOUS
<1>29. w \in Value /\ w.kind = "func" /\ w.obj = o
  <2>1. "func" \in Kinds /\ o \in Refs /\ "func" \in Tags
    BY DEF Kinds, Refs, Tags
  <2> QED
    BY <1>28, <2>1, ValueIs
<1>30. slot' = Stored(slot, d, w)
  BY <1>6, <1>28 DEF Put, Stored, ValueOf
<1>31. ValueOk(w, cell')
  <2>1. cell'[o].type = "closure" /\ o # Null
    BY <1>25, <1>27, StateIs, ObjectsAssumption DEF WithCell
  <2> QED
    BY <1>29, <2>1 DEF ValueOk
<1>32. \A i \in 1..Len(R) : R[i] # Null => R[i] \in vm.live
  BY <1>5
<1>33. vm' \in VmState /\ aot' \in AotState /\ R = E.refs
  BY <1>15, <1>20, <1>25
<1>34. Running /\ slot[d] = Dead /\ UNCHANGED <<todo, store, mode>>
  BY <1>6
<1>35. w \in Value /\ w.obj = o
  BY <1>29
<1> QED
  BY <1>7, <1>21, <1>22, <1>23, <1>26, <1>27, <1>30, <1>31, <1>32, <1>33, <1>34, <1>35, NewKeeps

(* The end of a variable, and the two assignments.                         *)
LEMMA DestructKeeps ==
  ASSUME IInv, NEW d \in Vars, Destruct(d)
  PROVE  IInv'
<1>1. Good(slot, cell, vm, aot, <<>>, Null) /\ Running
  BY RunningIs DEF Destruct
<1>2. PICK x \in Refs : x = slot[d].obj
  BY <1>1, SourceOk
<1>3. Dead \in Value /\ Dead.obj = Null /\ ValueOk(Dead, cell)
  BY DEF Dead, Value, Kinds, Refs, Tags, ValueOk
<1>4. slot' = Stored(slot, d, Dead)
  BY DEF Destruct, Stored
<1>5. Good(slot', cell, vm, aot, <<>>, x)
  BY <1>1, <1>2, <1>3, <1>4, SlotMove
<1>6. Released(vm, aot, x, <<>>) /\ cell' = cell /\ store' = store
  BY <1>2 DEF Destruct
<1>7. Good(slot', cell, vm', aot', todo', Null) /\ mode' = mode
  BY <1>5, <1>6, ReleasedKeeps
<1> QED
  BY <1>1, <1>6, <1>7, GoesOn

LEMMA AssignKeeps ==
  ASSUME IInv, NEW d \in Vars, NEW s \in Vars, Assign(d, s)
  PROVE  IInv'
<1>1. Good(slot, cell, vm, aot, <<>>, Null) /\ Running
  BY RunningIs DEF Assign
<1>2. PICK w \in Value : w = slot[s] /\ ValueOk(w, cell) /\ w.obj # Null /\ w.obj \in vm.live /\ w.obj \in Refs
  BY SourceOk DEF Assign, ValueOk
<1>3. PICK x \in Refs : x = slot[d].obj
  BY <1>1, SourceOk
<1>4. PICK m : m = VmRetainOf(vm, w.obj)
  OBVIOUS
<1>5. PICK a : a = AotRetainOf(aot, w.obj)
  OBVIOUS
<1>6. ~Dies(<<>>, w.obj)
  <2>1. 1..Len(<<>>) = {}
    OBVIOUS
  <2> QED
    BY <2>1 DEF Dies
<1>7. Good(slot, cell, m, a, <<>>, w.obj)
  BY <1>1, <1>2, <1>4, <1>5, <1>6, RetainMove
<1>8. slot' = Stored(slot, d, w)
  BY <1>2 DEF Assign, Stored
<1>9. Good(slot', cell, m, a, <<>>, x)
  BY <1>2, <1>3, <1>7, <1>8, SlotMove
<1>10. Released(m, a, x, <<>>) /\ cell' = cell /\ store' = store
  BY <1>2, <1>3, <1>4, <1>5 DEF Assign, VmRetainOf, AotRetainOf
<1>11. Good(slot', cell, vm', aot', todo', Null) /\ mode' = mode
  BY <1>9, <1>10, ReleasedKeeps
<1> QED
  BY <1>1, <1>10, <1>11, GoesOn

LEMMA SetFieldKeeps ==
  ASSUME IInv, NEW d \in Vars, NEW s \in Vars, SetField(d, s)
  PROVE  IInv'
<1>1. Good(slot, cell, vm, aot, <<>>, Null) /\ Running
  BY RunningIs DEF SetField
<1>2. PICK w \in Refs : w = slot[s].obj /\ (w # Null => w \in vm.live)
  BY <1>1, SourceOk
<1>3. PICK p \in vm.live : p = slot[d].obj /\ cell[p].type \in Types
  <2>1. slot[d].as # AnyType
    BY ObjectsAssumption DEF SetField, AnyType
  <2> QED
    BY <2>1, SourceOk DEF SetField, ValueOk
<1>4. PICK m : m = VmRetainOf(vm, w)
  OBVIOUS
<1>5. PICK a : a = AotRetainOf(aot, w)
  OBVIOUS
<1>6. ~Dies(<<>>, w)
  <2>1. 1..Len(<<>>) = {}
    OBVIOUS
  <2> QED
    BY <2>1 DEF Dies
<1>7. Good(slot, cell, m, a, <<>>, w) /\ m.live = vm.live
  BY <1>1, <1>2, <1>4, <1>5, <1>6, RetainMove
<1>8. PICK e : e = WithRef(cell, p, w)
  OBVIOUS
<1>9. PICK x : x = cell[p].refs[1]
  OBVIOUS
<1>10. Good(slot, e, m, a, <<>>, x) /\ x \in Refs
  BY <1>3, <1>7, <1>8, <1>9, FieldMove
<1>11. Released(m, a, x, <<>>) /\ slot' = slot /\ cell' = cell /\ store' = [obj |-> p, new |-> w]
  BY <1>2, <1>3, <1>4, <1>5, <1>9 DEF SetField, VmRetainOf, AotRetainOf
<1>12. Good(slot, e, vm', aot', todo', Null) /\ mode' = mode
  BY <1>10, <1>11, ReleasedKeeps
<1>13. store'.obj = p /\ store'.new = w /\ store' # NoStore /\ p \in Objs
  BY <1>3, <1>11, StateIs, ObjectsAssumption DEF NoStore
<1>14. Contents' = e
  BY <1>8, <1>11, <1>13 DEF Contents, WithRef
<1>15. Storing'
  BY <1>1, <1>3, <1>11, <1>12, <1>13, StateIs DEF Storing, Running
<1> QED
  BY <1>1, <1>11, <1>12, <1>14, <1>15 DEF IInv, Ended, Running

LEMMA FieldSetKeeps ==
  ASSUME IInv, FieldSet
  PROVE  IInv'
<1>1. cell' = Contents /\ store' = NoStore /\ UNCHANGED <<slot, vm, aot, todo, mode>>
  BY DEF FieldSet, Contents, WithRef
<1>2. Contents' = cell'
  BY <1>1 DEF Contents
<1>3. Good(slot', Contents', vm', aot', todo', Null) /\ cell' \in [Objs -> Cell]
  BY <1>1, <1>2 DEF IInv, Good, Typed
<1> QED
  BY <1>1, <1>3 DEF IInv, Storing, Ended

(* A step of a destructor.                                                 *)
LEMMA DeinitKeeps ==
  ASSUME IInv, DeinitObject
  PROVE  IInv'
<1>0. PICK c : c = Contents
  OBVIOUS
<1>1. Good(slot, c, vm, aot, todo, Null) /\ mode = "run" /\ todo # <<>> /\ UNCHANGED <<slot, store>>
  BY <1>0 DEF IInv, DeinitObject
<1>2. PICK h \in Destructor : h = Head(todo)
  <2>1. todo \in Seq(Destructor)
    BY StateIs DEF Destructors
  <2> QED
    BY <1>1, <2>1
<1>3. PICK p \in Objs : p = h.obj /\ p = Head(todo).obj /\ Head(todo).next \in Nat
  BY <1>2 DEF Destructor
<1>4. store # NoStore => store.obj # p
  <2> SUFFICES ASSUME store # NoStore PROVE store.obj # p
    OBVIOUS
  <2>1. PICK v \in Vars : slot[v].obj = store.obj /\ store.obj \in Objs
    BY DEF IInv, Storing
  <2>2. ~Dies(todo, store.obj)
    BY <1>1, <2>1, VarIsHeld, ObjectsAssumption
  <2>3. Dies(todo, p)
    <3>1. 1 \in 1..Len(todo) /\ todo[1] = Head(todo)
      BY <1>1, StateIs DEF Destructors
    <3> QED
      BY <1>3, <3>1 DEF Dies
  <2> QED
    BY <2>2, <2>3
<1>5. PICK e \in Cell : e = cell[p] /\ e = c[p]
  BY <1>0, <1>4, StateIs DEF Contents, WithRef
<1>6. Owned(p) = c[p].refs
  <2>1. e.type # "pinned"
    BY ObjectsAssumption DEF Cell
  <2> QED
    BY <1>5, <2>1 DEF Owned
<1>7. PICK d : d = Contents'
  OBVIOUS
<1>8. Good(slot, d, vm', aot', todo', Null) /\ mode' = mode /\ cell' \in [Objs -> Cell]
  <2>1. CASE Head(todo).next <= Len(c[p].refs)
    <3>1. PICK i : i = Head(todo).next
      OBVIOUS
    <3>2. PICK x : x = c[p].refs[i]
      OBVIOUS
    <3>3. PICK q : q = GoneOn(todo)
      OBVIOUS
    <3>4. Good(slot, c, vm, aot, q, x) /\ x \in Refs
      BY <1>1, <1>3, <2>1, <3>1, <3>2, <3>3, NextMove
    <3>5. Released(vm, aot, x, q) /\ cell' = cell
      BY <1>3, <1>6, <2>1, <3>1, <3>2, <3>3 DEF DeinitObject, GoneOn
    <3>6. d = c
      BY <1>0, <1>1, <1>7, <3>5 DEF Contents
    <3> QED
      BY <3>4, <3>5, <3>6, ReleasedKeeps, StateIs
  <2>2. CASE ~(Head(todo).next <= Len(c[p].refs))
    <3>1. Head(todo).next > Len(c[p].refs)
      <4>1. Len(e.refs) \in Nat
        BY DEF Cell
      <4> QED
        BY <1>3, <1>5, <2>2, <4>1
    <3>2. PICK words : words = Words(p)
      OBVIOUS
    <3>3. /\ vm' = VmFree(vm, p, words) /\ aot' = cb_free_object(aot, p) /\ todo' = Tail(todo)
          /\ cell' = WithCell(cell, p, Blank) /\ mode' = mode
      BY <1>3, <1>6, <2>2, <3>2 DEF DeinitObject, WithCell
    <3>4. d = WithCell(c, p, Blank)
      <4>1. CASE store = NoStore
        BY <1>0, <1>1, <1>7, <3>3, <4>1 DEF Contents
      <4>2. CASE store # NoStore
        <5>1. c = WithRef(cell, store.obj, store.new) /\ d = WithRef(cell', store.obj, store.new)
          BY <1>0, <1>1, <1>7, <4>2 DEF Contents
        <5>2. store.obj # p /\ cell \in [Objs -> Cell]
          BY <1>4, <4>2, StateIs
        <5> QED
          BY <3>3, <5>1, <5>2 DEF WithRef, WithCell
      <4> QED
        BY <4>1, <4>2
    <3>5. Blank \in Cell
      BY DEF Blank, Cell
    <3>6. cell' \in [Objs -> Cell]
      BY <3>3, <3>5, StateIs DEF WithCell
    <3> QED
      BY <1>1, <1>3, <3>1, <3>3, <3>4, <3>6, FreeMove
  <2> QED
    BY <2>1, <2>2
<1> QED
  BY <1>1, <1>7, <1>8 DEF IInv, Ended, Storing

(* Strings with no zero byte are equal when the bytes strncmp looks at are. *)
LEMMA SameText ==
  ASSUME NEW x \in Texts, NEW y \in Texts, NoZeroBytes
  PROVE  x = y <=> cb_cmp_str(x, y)
<1>1. x \in Seq(0..255) /\ y \in Seq(0..255)
  BY ObjectsAssumption
<1>2. \A i \in 1..Len(x) : x[i] # 0
  BY DEF NoZeroBytes
<1>3. ASSUME x = y PROVE cb_cmp_str(x, y)
  <2>1. Len(x) \in 0..Len(x)
    BY <1>1
  <2> QED
    BY <1>3, <2>1 DEF cb_cmp_str
<1>4. ASSUME cb_cmp_str(x, y) PROVE x = y
  <2>1. Len(x) = Len(y)
    BY <1>4 DEF cb_cmp_str
  <2>2. SubSeq(x, 1, Len(x)) = SubSeq(y, 1, Len(x))
    <3>1. PICK n \in 0..Len(x) : SubSeq(x, 1, n) = SubSeq(y, 1, n) /\ (n = Len(x) \/ (n > 0 /\ x[n] = 0))
      BY <1>4 DEF cb_cmp_str
    <3>2. n > 0 => n \in 1..Len(x)
      BY <1>1, <3>1
    <3>3. n = Len(x)
      BY <1>2, <3>1, <3>2
    <3> QED
      BY <3>1, <3>3
  <2>3. \A i \in 1..Len(x) : x[i] = SubSeq(x, 1, Len(x))[i] /\ y[i] = SubSeq(y, 1, Len(x))[i]
    BY <1>1, <2>1
  <2> QED
    BY <1>1, <2>1, <2>2, <2>3
<1> QED
  BY <1>3, <1>4

LEMMA CompareStringsKeeps ==
  ASSUME IInv, NEW x \in Vars, NEW y \in Vars, CompareStrings(x, y)
  PROVE  IInv'
<1>1. slot[x].as \in Texts /\ slot[y].as \in Texts
  BY SourceOk DEF CompareStrings, ValueOk
<1>2. mode' = mode \/ (mode' = "diverged" /\ ~NoZeroBytes)
  <2>1. CASE (slot[x].as = slot[y].as) # cb_cmp_str(slot[x].as, slot[y].as)
    <3>1. mode' = "diverged"
      BY <2>1 DEF CompareStrings
    <3>2. NoZeroBytes => ((slot[x].as = slot[y].as) <=> cb_cmp_str(slot[x].as, slot[y].as))
      BY <1>1, SameText
    <3>3. cb_cmp_str(slot[x].as, slot[y].as) \in BOOLEAN
      BY DEF cb_cmp_str
    <3> QED
      BY <2>1, <3>1, <3>2, <3>3
  <2>2. CASE ~((slot[x].as = slot[y].as) # cb_cmp_str(slot[x].as, slot[y].as))
    BY <2>2 DEF CompareStrings
  <2> QED
    BY <2>1, <2>2
<1>3. Running /\ UNCHANGED <<slot, cell, vm, aot, todo, store>>
  BY DEF CompareStrings
<1> QED
  BY <1>2, <1>3, RunningIs DEF IInv, Ended, Running, Contents, Storing

LEMMA MainPostKeeps ==
  ASSUME IInv, MainPost
  PROVE  IInv'
<1>1. mode' = "done" => vm.live = {}
  <2> SUFFICES ASSUME mode' = "done" PROVE vm.live = {}
    OBVIOUS
  <2>1. IsFiniteSet(vm.live)
    BY StateIs, ObjectsAssumption, FS_Subset
  <2>2. aot.num_objs = Cardinality(vm.live) /\ ~(aot.num_objs > 0)
    BY DEF MainPost, IInv, Good, Totals
  <2>3. Cardinality(vm.live) \in Nat
    BY <2>1, FS_CardinalityType
  <2>4. Cardinality(vm.live) = 0
    BY <2>2, <2>3
  <2> QED
    BY <2>1, <2>4, FS_EmptySet
<1> QED
  BY <1>1, RunningIs DEF MainPost, IInv, Ended, Running, Contents, Storing

-----------------------------------------------------------------------------
LEMMA InitInv == ASSUME Init PROVE IInv
<1> USE DEF Init
<1>1. \A o \in Objs : Count(slot, {}, cell, <<>>, Null, o) = 0
  <2> SUFFICES ASSUME NEW o \in Objs PROVE Count(slot, {}, cell, <<>>, Null, o) = 0
    OBVIOUS
  <2>1. VarsOf(slot, o) = {}
    BY ObjectsAssumption DEF VarsOf, Dead
  <2>2. FieldsOf({}, cell, <<>>, o) = {}
    BY DEF FieldsOf
  <2>3. Null # o
    BY ObjectsAssumption
  <2>4. Cardinality(VarsOf(slot, o)) = 0 /\ Cardinality(FieldsOf({}, cell, <<>>, o)) = 0
    BY <2>1, <2>2, FS_EmptySet
  <2> HIDE DEF Init
  <2> QED
    BY <2>3, <2>4 DEF Count
<1>2. 1..Len(todo) = {} /\ todo = <<>> /\ vm.live = {} /\ aot.live = {} /\ aot.num_objs = 0
  OBVIOUS
<1>3. Exact(slot, cell, vm, aot, todo, Null)
  <2>1. \A o \in Objs : Count(slot, vm.live, cell, todo, Null, o) = 0
    BY <1>1, <1>2
  <2> HIDE DEF Init
  <2> QED
    BY <1>2, <2>1 DEF Exact, Distinct
<1>4. Totals(vm, aot)
  BY <1>2, FS_EmptySet DEF Totals
<1>5. Dead \in Value /\ ValueOk(Dead, cell)
  BY DEF Dead, Value, Kinds, Refs, Tags, ValueOk
<1>6. Shaped(slot, cell, vm.live)
  BY <1>2, <1>5 DEF Shaped
<1>7. Blank \in Cell
  BY DEF Blank, Cell
<1>8. slot \in [Vars -> Value] /\ cell \in [Objs -> Cell]
  BY <1>5, <1>7
<1>9. vm \in VmState /\ aot \in AotState
  BY DEF VmState, AotState
<1>10. todo \in Destructors
  BY DEF Destructors
<1>11. Typed(slot, cell, vm, aot, todo)
  BY <1>8, <1>9, <1>10 DEF Typed
<1>12. Ended /\ Storing /\ Contents = cell
  BY <1>8 DEF Ended, Storing, Contents
<1> QED
  BY <1>3, <1>4, <1>6, <1>11, <1>12 DEF IInv, Good

LEMMA StutterKeeps == ASSUME IInv, UNCHANGED vars PROVE IInv'
BY DEF vars, IInv, Ended, Storing, Contents

LEMMA StepKeeps == ASSUME NoPins, IInv, Next PROVE IInv'
<1>1. CASE DeinitObject
  BY <1>1, DeinitKeeps
<1>2. CASE MainPost \/ FieldSet
  BY <1>2, MainPostKeeps, FieldSetKeeps
<1>3. ASSUME NEW d \in Vars,
             \/ \E o \in Objs : \/ FuncUnion(d, o)
                                \/ \E t \in Types : \E s \in Vars : Lift(d, o, t, s)
                                \/ \E x \in Texts : NewString(d, o, x)
                                \/ \E n \in 1..MaxCaptures : \E captured \in [1..n -> Vars] :
                                     \E pinned \in Pinned : Closure(d, o, captured, pinned)
             \/ \E x \in Texts : Literal(d, x)
             \/ \E t \in Types : NoneOf(d, t)
             \/ Destruct(d)
      PROVE  IInv'
  BY <1>3, FuncUnionKeeps, LiftKeeps, NewStringKeeps, ClosureKeeps, LiteralKeeps, NoneKeeps, DestructKeeps
<1>4. ASSUME NEW d \in Vars, NEW s \in Vars,
             \/ Copy(d, s) \/ Some(d, s) \/ Erase(d, s) \/ Trait(d, s)
             \/ \E t \in Types : Cast(d, s, t)
             \/ GetField(d, s) \/ \E r \in Vars : UnwrapOr(d, s, r)
             \/ \E i \in 1..MaxCaptures : Captured(d, s, i)
             \/ Assign(d, s) \/ SetField(d, s) \/ CompareStrings(d, s)
      PROVE  IInv'
  BY <1>4, ValueCopied, ConversionKeeps, CastKeeps, UnwrapKeeps, GetFieldKeeps, CapturedKeeps,
     AssignKeeps, SetFieldKeeps, CompareStringsKeeps
<1> QED
  BY <1>1, <1>2, <1>3, <1>4 DEF Next

(* The inductive invariant: the parts have the shapes the statements rely  *)
(* on, counts and totals are exact, and a program ends as it should.       *)
THEOREM Invariant == NoPins => (Spec => []IInv)
<1> SUFFICES ASSUME NoPins PROVE Spec => []IInv
  OBVIOUS
<1>1. Init => IInv
  BY InitInv
<1>2. IInv /\ [Next]_vars => IInv'
  BY StepKeeps, StutterKeeps
<1> QED
  BY <1>1, <1>2, PTL DEF Spec

-----------------------------------------------------------------------------
(* The notions of Objects and of this module agree.                        *)
LEMMA HeldIs ==
  ASSUME IInv, NEW o \in Objs
  PROVE  Held(o) = Count(slot, vm.live, Contents, todo, Null, o) /\ Held(o) \in Nat
<1>1. \A p : Dying(p) = Dies(todo, p) /\ From(p) = FirstOf(todo, p)
  BY DEF Dying, Dies, From, FirstOf
<1>2. \A p \in vm.live : Owns(p) = Contents[p].refs
  <2> SUFFICES ASSUME NEW p \in vm.live PROVE Owns(p) = Contents[p].refs
    OBVIOUS
  <2>1. PICK e \in Cell : e = cell[p] /\ p \in Objs
    BY StateIs
  <2>2. Owned(p) = cell[p].refs
    BY <2>1, ObjectsAssumption DEF Owned, Cell
  <2>3. CASE store = NoStore
    BY <2>1, <2>2, <2>3, ObjectsAssumption DEF Owns, Contents, NoStore
  <2>4. CASE store # NoStore
    <3>1. Contents = WithRef(cell, store.obj, store.new)
      BY <2>4 DEF Contents
    <3> QED
      BY <2>1, <2>2, <3>1, StateIs DEF Owns, WithRef, Cell
  <2> QED
    BY <2>3, <2>4
<1>3. FieldsWith(o) = FieldsOf(vm.live, Contents, todo, o)
  BY <1>1, <1>2 DEF FieldsWith, FieldsOf
<1>4. VarsWith(o) = VarsOf(slot, o)
  BY DEF VarsWith, VarsOf
<1>5. Null # o
  BY ObjectsAssumption
<1>6. /\ Cardinality(VarsOf(slot, o)) \in Nat
      /\ Cardinality(FieldsOf(vm.live, Contents, todo, o)) \in Nat
  BY StateIs, HoldersFinite
<1> QED
  BY <1>3, <1>4, <1>5, <1>6 DEF Held, Count

LEMMA RcExactHolds == ASSUME IInv PROVE RcExact
<1>1. Exact(slot, Contents, vm, aot, todo, Null) /\ Totals(vm, aot) /\ vm.live \in SUBSET Objs
  BY StateIs DEF IInv, Good
<1>2. ASSUME NEW o \in Objs
      PROVE  /\ Held(o) > 0 => o \in vm.live
             /\ o \in vm.live => vm.rc[o] = Held(o) /\ aot.rc[o] = Held(o)
             /\ o \in vm.live /\ Held(o) = 0 => Dying(o)
  BY <1>1, HeldIs DEF Exact, Dying, Dies
<1> QED
  BY <1>1, <1>2 DEF RcExact, Totals

LEMMA WellTypedHolds == ASSUME IInv PROVE WellTyped
<1>1. \A o : o \in Objs => Contents[o].type = cell[o].type
  BY StateIs DEF Contents, WithRef, Cell
<1>2. \A v \in Vars : ValueOk(slot[v], Contents) /\ (slot[v].obj # Null => slot[v].obj \in Objs)
  BY StateIs DEF IInv, Good, Shaped, Value, Refs
<1> QED
  BY <1>1, <1>2 DEF ValueOk, WellTyped

LEMMA LeaksAreCyclesHolds == ASSUME IInv PROVE LeaksAreCycles
<1>1. ASSUME Leak, NEW o \in vm.live PROVE \E p \in vm.live : Contains(Owned(p), o)
  <2>1. todo = <<>> /\ \A v \in Vars : slot[v] = Dead
    BY <1>1 DEF Leak, IInv, Ended
  <2>2. o \in Objs /\ o # Null
    BY StateIs, ObjectsAssumption
  <2>3. 1..Len(todo) = {}
    BY <2>1
  <2>4. Held(o) # 0
    BY <2>2, <2>3, RcExactHolds DEF RcExact, Dying
  <2>5. VarsWith(o) = {}
    BY <2>1, <2>2 DEF VarsWith, Dead
  <2>6. FieldsWith(o) # {}
    BY <2>4, <2>5, FS_EmptySet DEF Held
  <2>7. PICK p \in vm.live, i \in 1..MaxCaptures : i \in From(p)..Len(Owned(p)) /\ Owned(p)[i] = o
    <3>1. PICK p \in vm.live, i \in 1..MaxCaptures : i \in From(p)..Len(Owns(p)) /\ Owns(p)[i] = o
      BY <2>6 DEF FieldsWith
    <3>2. p # store.obj
      BY <2>1, <3>1, StateIs, ObjectsAssumption DEF IInv, Storing, NoStore, Dead
    <3> QED
      BY <3>1, <3>2 DEF Owns
  <2>8. From(p) = 1
    BY <2>3 DEF From, Dying
  <2>9. i \in 1..Len(Owned(p))
    BY <2>7, <2>8
  <2> QED
    BY <2>7, <2>9 DEF Contains
<1> QED
  BY <1>1 DEF LeaksAreCycles, IInv, Ended

(* The count of every object is, in the VM and in the C program, the       *)
(* number of variables and of references not yet given up that hold it;    *)
(* what is held is alive, and what nothing holds is being destroyed.       *)
THEOREM CountsAreExact == NoPins => (Spec => []RcExact)
<1>1. IInv => RcExact
  BY RcExactHolds
<1> QED
  BY <1>1, Invariant, PTL

(* A typed reference refers to an object of its type, so that what the     *)
(* code does without looking at a header is done to the right object.      *)
THEOREM ReferencesAreTyped == NoPins => (Spec => []WellTyped)
<1>1. IInv => WellTyped
  BY WellTypedHolds
<1> QED
  BY <1>1, Invariant, PTL

(* When a program has destroyed its variables, what is left is held by     *)
(* what is left, and a program that says it freed everything did.          *)
THEOREM OnlyCyclesLeak == NoPins => (Spec => []LeaksAreCycles)
<1>1. IInv => LeaksAreCycles
  BY LeaksAreCyclesHolds
<1> QED
  BY <1>1, Invariant, PTL

(* The machines decide alike which release is the last, which casts fail   *)
(* and, when no text has a zero byte, which texts are equal.               *)
THEOREM MachinesAgree == NoPins /\ NoZeroBytes => (Spec => []BackEndsAgree)
<1> SUFFICES ASSUME NoPins, NoZeroBytes PROVE Spec => []BackEndsAgree
  OBVIOUS
<1>1. IInv => BackEndsAgree
  BY DEF IInv, Ended, BackEndsAgree
<1> QED
  BY <1>1, Invariant, PTL
=============================================================================
