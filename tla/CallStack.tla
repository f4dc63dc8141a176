----------------------------- MODULE CallStack -----------------------------
(***************************************************************************)
(* What calls, references to locals and generators promise a program, with *)
(* no stack, no registers and no addresses: a sequence of activations, the *)
(* first of them main, each with its own locals.  A reference names an     *)
(* activation and a local of it.  Frames, the VM stack of vm.c and         *)
(* thread.zig, implements it.                                              *)
(***************************************************************************)
EXTENDS Integers, Sequences, SequencesExt

CONSTANTS
  Fns,         (* the functions of the program                             *)
  Main,        (* the one that runs first                                  *)
  Generators,  (* the ones annotated with #[generator]                     *)
  NumParams, NumLocals,  (* per function; the first locals are the params  *)
  Data,        (* the plain values                                         *)
  YieldKeeps,  (* is a generator resumed with the locals of its last yield *)
               (* (as docs.md says) or with the arguments it was made with *)
  MaxDepth     (* bound: activations                                       *)

Unset == <<"unset">>
Datum(v) == <<"data", v>>
DataWords == {Datum(v) : v \in Data}
Handle(g) == <<"gen", g>>
Ref(d, l) == <<"ref", d, l>>

VARIABLES
  calls,   (* the activations, main first: function, locals, generator     *)
  result,  (* the value a call has just returned, before its caller uses it *)
  gens,    (* the generators created: locals and status                    *)
  trace    (* after a panic, the functions that were active, innermost first *)

vars == <<calls, result, gens, trace>>

Depth == Len(calls)
Top == calls[Depth]
Running == result = Unset /\ trace = <<>>

Activation(f, args, g) ==
  [fn |-> f, gen |-> g,
   locals |-> [l \in 1..NumLocals[f] |-> IF l <= Len(args) THEN args[l] ELSE Unset]]

Init ==
  /\ calls = <<Activation(Main, <<>>, 0)>>
  /\ result = Unset /\ gens = <<>> /\ trace = <<>>

Words == DataWords \cup {Handle(g) : g \in DOMAIN gens}
Refs == {w \in Range(Top.locals) : w[1] = "ref"}
Places == {<<Depth, l>> : l \in 1..Len(Top.locals)} \cup {<<r[2], r[3]>> : r \in Refs}

(* A local of the active function, or one it holds a reference to, gets a  *)
(* value, a reference to a local of the function or a copy of one.         *)
Assign ==
  /\ UNCHANGED <<result, gens, trace>>
  /\ Running
  /\ \E new \in {calls'} :
     /\ Len(new) = Depth
     /\ \E p \in Places :
        /\ new = [calls EXCEPT ![p[1]].locals[p[2]] = new[p[1]].locals[p[2]]]
        /\ new[p[1]].locals[p[2]] \in Words \cup Refs \cup {Ref(Depth, l) : l \in 1..Len(Top.locals)}

Call(f) ==
  /\ UNCHANGED <<result, gens, trace>>
  /\ Running /\ Depth < MaxDepth
  /\ \E new \in {calls'} :
     /\ Len(new) = Depth + 1 /\ Front(new) = calls
     /\ \E args \in [1..NumParams[f] -> DataWords \cup Refs \cup {Ref(Depth, l) : l \in 1..Len(Top.locals)}] :
          Last(new) = Activation(f, args, 0)

HostCall(w) == /\ result' = w
               /\ Running
               /\ UNCHANGED <<calls, gens, trace>>

Return(w) ==
  /\ result' = w /\ UNCHANGED <<gens, trace>>
  /\ Running /\ Depth > 1 /\ Top.gen = 0
  /\ calls' = Front(calls)

(* The caller keeps the result in one of its locals, or (l = 0) drops it.  *)
TakeResult(l) ==
  /\ result # Unset /\ trace = <<>>
  /\ result' = Unset
  /\ calls' = IF l = 0 THEN calls ELSE [calls EXCEPT ![Depth].locals[l] = result]
  /\ UNCHANGED <<gens, trace>>

(* A call of a generator function returns a generator that holds its       *)
(* arguments.                                                              *)
CreateGenerator ==
  /\ Running /\ Depth > 1 /\ Top.fn \in Generators /\ Top.gen = 0
  /\ gens' = Append(gens, [fn |-> Top.fn, status |-> "paused",
       locals |-> [l \in 1..NumLocals[Top.fn] |-> IF l <= NumParams[Top.fn] THEN Top.locals[l] ELSE Unset]])
  /\ calls' = Front(calls) /\ result' = Handle(Len(gens) + 1)
  /\ UNCHANGED trace

Resume(g) ==
  /\ Running /\ Depth < MaxDepth
  /\ gens[g].status = "paused"
  /\ calls' = Append(calls, Activation(gens[g].fn, gens[g].locals, g))
  /\ gens' = [gens EXCEPT ![g].status = "running"]
  /\ UNCHANGED <<result, trace>>

(* A yield hands a value back.                                             *)
Yield(w, status) ==
  /\ result' = w
  /\ Running /\ Top.gen # 0
  /\ calls' = Front(calls)
  /\ gens' = [gens EXCEPT ![Top.gen].status = status,
                          ![Top.gen].locals = IF YieldKeeps THEN Top.locals ELSE @]
  /\ UNCHANGED trace

Finish(g) ==
  /\ Running
  /\ gens[g].status = "paused"
  /\ gens' = [gens EXCEPT ![g].status = "done"]
  /\ UNCHANGED <<calls, result, trace>>

Panic ==
  /\ trace = <<>>
  /\ trace' = Reverse([d \in 1..Depth |-> calls[d].fn])
  /\ UNCHANGED <<calls, result, gens>>

Next ==
  \/ Assign
  \/ \E f \in Fns : Call(f)
  \/ \E w \in DataWords : HostCall(w)
  \/ \E w \in DataWords \cup {Unset} : Return(w) \/ \E s \in {"paused", "done"} : Yield(w, s)
  \/ \E l \in 0..Len(Top.locals) : TakeResult(l)
  \/ CreateGenerator
  \/ \E g \in DOMAIN gens : Resume(g) \/ Finish(g)
  \/ Panic

Spec == Init /\ [][Next]_vars
=============================================================================
