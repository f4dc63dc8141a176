------------------------------ MODULE Objects ------------------------------
(***************************************************************************)
(* Managed values, as a program uses them, in the two back ends: vm.c runs *)
(* the bytecode, aot.c is the runtime of the program compiled to C.  Each  *)
(* action is a statement of the program: sema.zig decides where a value is *)
(* copied and destroyed, and both machines carry that out with reference   *)
(* counts.  A destructor (core.cy) runs in steps, one for each reference   *)
(* the dead object holds and one that frees it, with the destructors of    *)
(* the objects that die with it in between.  Addresses are members of      *)
(* Objs, the same in both machines; pages and lists are in HeapPool.       *)
(***************************************************************************)
EXTENDS Integers, FiniteSets, Sequences, SequencesExt

CONSTANTS
  Vars,        (* the local variables                                      *)
  Objs,        (* addresses of objects                                     *)
  Null,        (* no object                                                *)
  Types,       (* the types of boxes                                       *)
  Texts,       (* contents of strings: sequences of bytes                  *)
  MaxCaptures, (* the most variables a closure captures                    *)
  Pinned       (* {FALSE}, or {FALSE, TRUE} with closures that capture     *)
               (* locals and so must not outlive them                      *)

ASSUME ObjectsAssumption ==
  /\ Null \notin Objs /\ MaxCaptures \in Nat \ {0} /\ Pinned \subseteq BOOLEAN
  /\ IsFiniteSet(Vars) /\ IsFiniteSet(Objs)
  /\ Texts \subseteq Seq(0..255)
  /\ Types \cap {"none", "Object", "buffer", "func", "closure", "pinned"} = {}

VARIABLES
  slot, (* per variable: kind, the object it refers to, and `as`, the type *)
        (* the program gives it, the vtable of a trait, or a text          *)
  cell, (* per object: its type and the references it holds                *)
  vm,   (* the VM: counts, live objects, the sum refCounts, and the        *)
        (* objects whose memory is a slot of the pool                      *)
  aot,  (* the C program: counts, live objects, trace_num_objs             *)
  todo, (* the destructors that run, innermost first: object, next field   *)
  store,(* the field that is being set: its object, and the new value, in a *)
        (* hidden local until the old one is destroyed                     *)
  mode  (* "run", "panic", "done", "unfreed" (the C program's last check), *)
        (* or "diverged"                                                   *)

vars == <<slot, cell, vm, aot, todo, store, mode>>

Dead == [kind |-> "dead", obj |-> Null, as |-> "none"]
Blank == [type |-> "none", refs |-> <<>>]
NoStore == [obj |-> Null, new |-> Null]
AnyType == "Object"

Init ==
  /\ slot = [v \in Vars |-> Dead]
  /\ cell = [o \in Objs |-> Blank]
  /\ vm = [rc |-> [o \in Objs |-> 0], live |-> {}, refCounts |-> 0, pool |-> {}, spoilt |-> FALSE]
  /\ aot = [rc |-> [o \in Objs |-> 0], live |-> {}, num_objs |-> 0]
  /\ todo = <<>>
  /\ store = NoStore
  /\ mode = "run"

(* ---- the VM ------------------------------------------------------------- *)
(* Objects of up to four words, the header aside, are slots of the pool.   *)
InPool(words) == words <= 4

VmNew(m, o, words) ==
  [m EXCEPT !.rc[o] = 1, !.live = @ \cup {o}, !.refCounts = @ + 1,
            !.pool = IF InPool(words) THEN @ \cup {o} ELSE @ \ {o}]

VmRetain(m, o) == [m EXCEPT !.rc[o] = @ + 1, !.refCounts = @ + 1]
VmReleaseOnly(m, o) == [m EXCEPT !.rc[o] = @ - 1, !.refCounts = @ - 1]

(* What was a slot goes to the list of slots, what was not to the          *)
(* allocator: the size the destructor gives decides which.                 *)
VmFree(m, o, words) ==
  [m EXCEPT !.live = @ \ {o}, !.spoilt = @ \/ InPool(words) # (o \in m.pool)]

(* How often an object is among those a closure captures.                  *)
Times(captures, o) == Cardinality({i \in 1..Len(captures) : captures[i] = o})

(* Captures are retained when the closure is made, unless it is pinned.    *)
VmClosure(m, o, captures, pinned) ==
  LET made == VmNew(m, o, 3 + Len(captures))
  IN IF pinned THEN made
     ELSE [made EXCEPT !.rc = [x \in Objs |-> @[x] + Times(captures, x)],
                       !.refCounts = @ + Len(captures)]

(* ---- the C program ------------------------------------------------------ *)
cb_object_undef(m, o) == [m EXCEPT !.rc[o] = 1, !.live = @ \cup {o}, !.num_objs = @ + 1]
cbi_retain(m, o) == [m EXCEPT !.rc[o] = @ + 1]
cb_release_only(m, o) == [m EXCEPT !.rc[o] = @ - 1]
cb_free_object(m, o) == [m EXCEPT !.live = @ \ {o}, !.num_objs = @ - 1]
(* A faulty variant: the captures are copied and not counted.              *)
cbi_closure_borrows(m, o, captures) == cb_object_undef(m, o)
cbi_closure(m, o, captures) ==
  [cb_object_undef(m, o) EXCEPT !.rc = [x \in Objs |-> @[x] + Times(captures, x)]]
cbi_func_union(m, o) == cb_object_undef(m, o)
(* The value is owned before it is lifted.                                 *)
cbi_lift(m, o, child) == cb_object_undef(IF child = Null THEN m ELSE cbi_retain(m, child), o)
cb_astr(m, o) == cb_object_undef(m, o)

(* ---- both --------------------------------------------------------------- *)
Running == mode = "run" /\ todo = <<>> /\ store = NoStore

Retained(o) ==
  IF o = Null THEN UNCHANGED <<vm, aot>>
  ELSE vm' = VmRetain(vm, o) /\ aot' = cbi_retain(aot, o)

(* A variable takes the words of a value: a reference, a function or an    *)
(* option one, a trait two, a string three.                                *)
Put(d, kind, o, as) == slot' = [slot EXCEPT ![d] = [kind |-> kind, obj |-> o, as |-> as]]

(* A new object: the value is owned first, then memory is taken, which     *)
(* holds one reference, the variable's.                                    *)
Made(o, type, refs) ==
  /\ o \notin vm.live \cup aot.live
  /\ cell' = [cell EXCEPT ![o] = [type |-> type, refs |-> refs]]

Lift(d, o, t, s) ==
  /\ Running /\ slot[d] = Dead /\ slot[s].kind \in {"dead", "ref", "opt"}
  /\ LET child == slot[s].obj IN
     /\ Made(o, t, <<child>>)
     /\ vm' = VmNew(IF child = Null THEN vm ELSE VmRetain(vm, child), o, 1)
     /\ aot' = cbi_lift(aot, o, child)
  /\ Put(d, "ref", o, t)
  /\ UNCHANGED <<todo, store, mode>>

(* A string that is not a literal has a buffer of its own.                 *)
NewString(d, o, x) ==
  /\ Running /\ slot[d] = Dead
  /\ Made(o, "buffer", <<>>)
  /\ vm' = VmNew(vm, o, 1) /\ aot' = cb_astr(aot, o)
  /\ Put(d, "str", o, x)
  /\ UNCHANGED <<todo, store, mode>>

Literal(d, x) ==
  /\ Running /\ slot[d] = Dead
  /\ Put(d, "str", Null, x)
  /\ UNCHANGED <<cell, vm, aot, todo, store, mode>>

FuncUnion(d, o) ==
  /\ Running /\ slot[d] = Dead
  /\ Made(o, "func", <<>>)
  /\ vm' = VmNew(vm, o, 2) /\ aot' = cbi_func_union(aot, o)
  /\ Put(d, "func", o, "func")
  /\ UNCHANGED <<todo, store, mode>>

Closure(d, o, captured, pinned) ==
  /\ Running /\ slot[d] = Dead
  /\ IsInjective(captured)
  /\ \A i \in 1..Len(captured) : slot[captured[i]].kind = "ref"
  /\ LET captures == [i \in 1..Len(captured) |-> slot[captured[i]].obj] IN
     /\ Made(o, IF pinned THEN "pinned" ELSE "closure", captures)
     /\ vm' = VmClosure(vm, o, captures, pinned)
     /\ aot' = cbi_closure(aot, o, captures)
  /\ Put(d, "func", o, "func")
  /\ UNCHANGED <<todo, store, mode>>

(* Copies: a reference and a function are retained; options, traits and    *)
(* strings have copy functions that retain what there is.                  *)
Copy(d, s) ==
  /\ Running /\ slot[d] = Dead /\ slot[s].kind # "dead"
  /\ slot[s].kind = "func" => cell[slot[s].obj].type # "pinned"
  /\ Retained(slot[s].obj)
  /\ slot' = [slot EXCEPT ![d] = slot[s]]
  /\ UNCHANGED <<cell, todo, store, mode>>

CopyAs(d, kind, o, as) ==
  /\ Retained(o)
  /\ Put(d, kind, o, as)
  /\ UNCHANGED <<cell, todo, store, mode>>

(* Conversions that cannot fail: to an option, to Object, to a trait with  *)
(* the vtable of the type the reference has.                               *)
Some(d, s) ==
  /\ Running /\ slot[d] = Dead /\ slot[s].kind = "ref"
  /\ CopyAs(d, "opt", slot[s].obj, slot[s].as)

NoneOf(d, t) ==
  /\ Running /\ slot[d] = Dead
  /\ CopyAs(d, "opt", Null, t)

Erase(d, s) ==
  /\ Running /\ slot[d] = Dead /\ slot[s].kind = "ref"
  /\ CopyAs(d, "ref", slot[s].obj, AnyType)

Trait(d, s) ==
  /\ Running /\ slot[d] = Dead /\ slot[s].kind = "ref" /\ slot[s].as \in Types
  /\ CopyAs(d, "trait", slot[s].obj, slot[s].as)

(* Conversions that look at the object, and stop the program: each machine *)
(* decides by itself.                                                      *)
Panic == mode' = "panic" /\ UNCHANGED <<slot, cell, vm, aot, todo, store>>
Checked(vmHas, aotHas, Continue) ==
  IF vmHas # aotHas THEN mode' = "diverged" /\ UNCHANGED <<slot, cell, vm, aot, todo, store>>
  ELSE IF vmHas THEN Continue ELSE Panic

VmCasts(o, t) == cell[o].type = t
cbi_cast(o, t) == cell[o].type = t

(* A faulty variant: the type in the header is not looked at.              *)
Cast_unchecked(d, s, t) ==
  /\ Running /\ slot[d] = Dead /\ slot[s].kind = "ref"
  /\ CopyAs(d, "ref", slot[s].obj, t)

Cast(d, s, t) ==
  /\ Running /\ slot[d] = Dead /\ slot[s].kind = "ref"
  /\ Checked(VmCasts(slot[s].obj, t), cbi_cast(slot[s].obj, t), CopyAs(d, "ref", slot[s].obj, t))

(* An option with a default: what it refers to, or the default.            *)
UnwrapOr(d, s, r) ==
  /\ Running /\ slot[d] = Dead
  /\ slot[s].kind = "opt" /\ slot[r].kind = "ref" /\ slot[s].as = slot[r].as
  /\ CopyAs(d, "ref", IF slot[s].obj = Null THEN slot[r].obj ELSE slot[s].obj, slot[r].as)

GetField(d, s) ==
  /\ Running /\ slot[d] = Dead /\ slot[s].kind = "ref" /\ slot[s].as \in Types
  /\ CopyAs(d, "opt", cell[slot[s].obj].refs[1], AnyType)

Captured(d, s, i) ==
  /\ Running /\ slot[d] = Dead /\ slot[s].kind = "func" /\ i \in 1..Len(cell[slot[s].obj].refs)
  /\ CopyAs(d, "ref", cell[slot[s].obj].refs[i], AnyType)

(* Both machines give up a reference to o; the last one starts a           *)
(* destructor.                                                             *)
Released(v, a, o, rest) ==
  IF o = Null THEN vm' = v /\ aot' = a /\ todo' = rest /\ UNCHANGED mode
  ELSE
    /\ vm' = VmReleaseOnly(v, o) /\ aot' = cb_release_only(a, o)
    /\ todo' = IF v.rc[o] = 1 THEN <<[obj |-> o, next |-> 1]>> \o rest ELSE rest
    /\ mode' = IF (v.rc[o] = 1) # (a.rc[o] = 1) THEN "diverged" ELSE mode

(* The end of a scope: release, release_opt, or a destructor.              *)
Destruct(d) ==
  /\ Running /\ slot[d].kind # "dead"
  /\ slot[d].kind = "ref" => \A f \in Vars : slot[f].kind = "func" =>
       ~(cell[slot[f].obj].type = "pinned" /\ Contains(cell[slot[f].obj].refs, slot[d].obj))
  /\ Released(vm, aot, slot[d].obj, <<>>)
  /\ slot' = [slot EXCEPT ![d] = Dead]
  /\ UNCHANGED <<cell, store>>

(* A faulty variant: the old value goes before the new one is owned.       *)
Assign_destroys_first(d, s) ==
  /\ Running /\ slot[d].kind = "ref" /\ slot[s].kind = "ref" /\ slot[d].as = slot[s].as
  /\ LET old == slot[d].obj IN
     /\ vm' = VmRetain(VmReleaseOnly(vm, old), slot[s].obj)
     /\ aot' = cbi_retain(cb_release_only(aot, old), slot[s].obj)
     /\ todo' = IF vm.rc[old] = 1 THEN <<[obj |-> old, next |-> 1]>> ELSE <<>>
  /\ slot' = [slot EXCEPT ![d] = slot[s]]
  /\ UNCHANGED <<cell, store, mode>>

(* An assignment owns the new value, destroys the old one and moves the    *)
(* new one in.                                                             *)
Assign(d, s) ==
  /\ Running /\ slot[d].kind = "ref" /\ slot[s].kind = "ref" /\ slot[d].as = slot[s].as
  /\ Released(VmRetain(vm, slot[s].obj), cbi_retain(aot, slot[s].obj), slot[d].obj, <<>>)
  /\ slot' = [slot EXCEPT ![d] = slot[s]]
  /\ UNCHANGED <<cell, store>>

(* A field is set in two halves: the new value is owned by a hidden local, *)
(* the old one is moved out and its destructor runs, and then the new one  *)
(* is moved in.  Meanwhile the object still holds the words of the old one. *)
SetField(d, s) ==
  /\ Running /\ slot[d].kind = "ref" /\ slot[d].as \in Types /\ slot[s].kind = "opt"
  /\ LET old == cell[slot[d].obj].refs[1]
         new == slot[s].obj
     IN /\ IF new = Null THEN Released(vm, aot, old, <<>>)
           ELSE Released(VmRetain(vm, new), cbi_retain(aot, new), old, <<>>)
        /\ store' = [obj |-> slot[d].obj, new |-> new]
  /\ UNCHANGED <<slot, cell>>

FieldSet ==
  /\ mode = "run" /\ todo = <<>> /\ store # NoStore
  /\ cell' = [cell EXCEPT ![store.obj].refs = <<store.new>>]
  /\ store' = NoStore
  /\ UNCHANGED <<slot, vm, aot, todo, mode>>

(* CMP_STR compares lengths and then bytes; cb_cmp_str leaves the bytes to *)
(* strncmp, which stops at the first zero byte.                            *)
cb_cmp_str(x, y) ==
  /\ Len(x) = Len(y)
  /\ \E n \in 0..Len(x) : /\ SubSeq(x, 1, n) = SubSeq(y, 1, n)
                          /\ n = Len(x) \/ (n > 0 /\ x[n] = 0)

CompareStrings(x, y) ==
  /\ Running /\ slot[x].kind = "str" /\ slot[y].kind = "str"
  /\ mode' = IF (slot[x].as = slot[y].as) # cb_cmp_str(slot[x].as, slot[y].as) THEN "diverged" ELSE mode
  /\ UNCHANGED <<slot, cell, vm, aot, todo, store>>

(* A step of the innermost destructor: the next reference, or the memory.  *)
Words(o) == IF cell[o].type = "closure" THEN 3 + Len(cell[o].refs)
            ELSE IF cell[o].type \in {"func", "pinned"} THEN 3 ELSE 1

(* A faulty variant: only the first reference of an object is given up.    *)
Owned_first(o) == IF Len(cell[o].refs) > 1 THEN <<cell[o].refs[1]>> ELSE cell[o].refs

Owned(o) == IF cell[o].type = "pinned" THEN <<>> ELSE cell[o].refs

DeinitObject ==
  /\ mode = "run" /\ todo # <<>>
  /\ LET at == Head(todo)
         below == Tail(todo)
     IN IF at.next <= Len(Owned(at.obj))
        THEN /\ Released(vm, aot, Owned(at.obj)[at.next], <<[at EXCEPT !.next = @ + 1]>> \o below)
             /\ UNCHANGED cell
        ELSE /\ vm' = VmFree(vm, at.obj, Words(at.obj)) /\ aot' = cb_free_object(aot, at.obj)
             /\ todo' = below
             /\ cell' = [cell EXCEPT ![at.obj] = Blank]
             /\ UNCHANGED mode
  /\ UNCHANGED <<slot, store>>

(* The main function returns with its variables destroyed.                 *)
MainPost ==
  /\ Running /\ \A v \in Vars : slot[v] = Dead
  /\ mode' = IF aot.num_objs > 0 THEN "unfreed" ELSE "done"
  /\ UNCHANGED <<slot, cell, vm, aot, todo, store>>

Next ==
  \/ \E d \in Vars :
       \/ \E o \in Objs : \/ FuncUnion(d, o)
                          \/ \E t \in Types : \E s \in Vars : Lift(d, o, t, s)
                          \/ \E x \in Texts : NewString(d, o, x)
                          \/ \E n \in 1..MaxCaptures : \E captured \in [1..n -> Vars] :
                               \E pinned \in Pinned : Closure(d, o, captured, pinned)
       \/ \E x \in Texts : Literal(d, x)
       \/ \E t \in Types : NoneOf(d, t)
       \/ \E s \in Vars : \/ Copy(d, s) \/ Some(d, s) \/ Erase(d, s) \/ Trait(d, s)
                          \/ \E t \in Types : Cast(d, s, t)
                          \/ GetField(d, s) \/ \E r \in Vars : UnwrapOr(d, s, r)
                          \/ \E i \in 1..MaxCaptures : Captured(d, s, i)
                          \/ Assign(d, s) \/ SetField(d, s) \/ CompareStrings(d, s)
       \/ Destruct(d)
  \/ DeinitObject
  \/ FieldSet
  \/ MainPost

Spec == Init /\ [][Next]_vars

(* ---- properties --------------------------------------------------------- *)
(* Objects that are being destroyed, and the first reference each object   *)
(* still has to give up: the first of all, unless its destructor has been  *)
(* at work.                                                                *)
Dying(o) == \E i \in 1..Len(todo) : todo[i].obj = o
From(o) == IF Dying(o) THEN todo[CHOOSE i \in 1..Len(todo) : todo[i].obj = o].next ELSE 1

(* What holds an object: variables, and references in objects.  An object  *)
(* whose field is being set has given up the old value; the new one is     *)
(* already its own.                                                        *)
VarsWith(o) == {v \in Vars : slot[v].obj = o}
Owns(p) == IF p = store.obj THEN <<store.new>> ELSE Owned(p)
FieldsWith(o) ==
  {f \in vm.live \X (1..MaxCaptures) :
     f[2] \in From(f[1])..Len(Owns(f[1])) /\ Owns(f[1])[f[2]] = o}
Held(o) == Cardinality(VarsWith(o)) + Cardinality(FieldsWith(o))

(* An object's count is the number of variables and objects that hold it,  *)
(* in both machines, at every step of every destructor; what is held is    *)
(* alive; and the totals that a program is checked by are right.           *)
RcExact ==
  /\ \A o \in Objs :
       /\ Held(o) > 0 => o \in vm.live
       /\ o \in vm.live => vm.rc[o] = Held(o) /\ aot.rc[o] = Held(o)
       /\ o \in vm.live /\ Held(o) = 0 => Dying(o)
  /\ aot.live = vm.live
  /\ aot.num_objs = Cardinality(aot.live)

(* A reference the program has typed refers to an object of that type, and *)
(* a trait carries the vtable of its object.                               *)
WellTyped ==
  \A v \in Vars : slot[v].kind \in {"ref", "opt", "trait"} /\ slot[v].obj # Null
    => slot[v].as = AnyType \/ cell[slot[v].obj].type = slot[v].as

(* A program that destroyed its variables leaves nothing, or a cycle.      *)
Leak == mode \in {"unfreed", "done"} /\ vm.live # {}
LeaksAreCycles ==
  /\ Leak => \A o \in vm.live : \E p \in vm.live : Contains(Owned(p), o)
  /\ mode = "done" => vm.live = {}

(* The two machines decide alike which release is the last, and which      *)
(* strings are equal.                                                      *)
BackEndsAgree == mode # "diverged"

(* Memory goes back to where it came from.                                 *)
FreedAsAllocated == ~vm.spoilt
=============================================================================
