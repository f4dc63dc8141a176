------------------------------- MODULE Frames -------------------------------
(***************************************************************************)
(* The stack of a VM thread: the call, return and generator instructions   *)
(* of vm.c, the calls through pointers, traits and unions, the growth of   *)
(* the stack and the unwinding of thread.zig.                              *)
(*                                                                         *)
(* A frame is [return registers][info][return pc][return fp][callee]       *)
(* [params][locals], after which the caller of others lays out their       *)
(* frames; main has one register before its locals.  A register is a       *)
(* tagged word: plain data, a pointer to a register, a pc, a call info or  *)
(* a generator.  What the code generator emits between the instructions    *)
(* modelled here (which local is read, which call is made) is free, and    *)
(* the registers above the frame of a function that returned are Undef:    *)
(* nothing it emits may read them.                                         *)
(***************************************************************************)
EXTENDS Integers, Sequences, FiniteSets, SequencesExt, FiniteSetsExt

CONSTANTS
  Fns, Main, Generators, NumParams, NumLocals, Data, MaxDepth,  (* as CallStack *)
  RetSize,     (* per function: its return registers                       *)
  PtrLocals,   (* per function: the locals that hold pointers              *)
  Callees,     (* per function: the ones it calls by name, value or trait  *)
  MainRefs,    (* does main pass pointers to its locals                    *)
  IndirectRefs,  (* does a function with pointers call by value or trait   *)
  GenCalls,    (* do generator bodies call                                 *)
  StackSize,   (* registers of the stack at the start                      *)
  MinGrow,     (* least growth: 16 in the code                             *)
  MaxStack,    (* bound: registers of the stack                            *)
  MaxGens      (* bound: generators created                                *)

Undef == <<"undef">>
Datum(v) == <<"data", v>>
Addr(m, r) == <<"ptr", m, r>>         (* register r of the stack placed m times *)
Pc(f, how, off) == <<"pc", f, how, off>>  (* off bytes after a call in f   *)
Info(type, off) == <<"info", type, off>>
Handle(g) == <<"gen", g>>
DataWords == {Datum(v) : v \in Data}

(* Lengths of the call instructions.                                       *)
InstLen == [call |-> 9, ptr |-> 3, union |-> 3, trait |-> 5, gen |-> 7, end |-> 7]
Hows == {"call", "ptr", "union", "trait"}

VARIABLES
  stack,   (* the registers                                                *)
  mem,     (* how often the stack was moved to other memory                *)
  fn, fp,  (* the function the pc is in, and the frame register            *)
  mode,    (* what comes next: "run" the body of fn, "chk" its CHK_STK,    *)
           (* "overflow" the stack grows, "result" a call has returned,    *)
           (* "host" a host function runs, "panic", "dead", "oom", "end",  *)
           (* "undefined" once a register that holds something else was used *)
  gens,    (* the Generator objects                                        *)
  trace    (* compact_trace after a panic                                  *)

vars == <<stack, mem, fn, fp, mode, gens, trace>>

(* ---- the layout of frames -------------------------------------------- *)
Header == [f \in Fns |-> IF f = Main THEN 1 ELSE RetSize[f] + 4]
FrameTop == [f \in Fns |-> Header[f] + NumLocals[f]]
FrameSize == [f \in Fns |->
  FrameTop[f] + Max({0} \cup {RetSize[g] + 4 + NumParams[g] : g \in Callees[f]})]

(* The stack starts with room for main (vm.zig).                           *)
ASSUME FramesAssumption ==
  /\ Main \in Fns /\ Generators \subseteq Fns \ {Main}
  /\ NumParams \in [Fns -> Nat] /\ NumLocals \in [Fns -> Nat] /\ RetSize \in [Fns -> Nat]
  /\ NumParams[Main] = 0 /\ \A f \in Fns : NumParams[f] <= NumLocals[f]
  /\ \A f \in Fns : /\ PtrLocals[f] \subseteq 1..NumLocals[f]
                     /\ Callees[f] \subseteq Fns \ {Main} /\ IsFiniteSet(Callees[f])
  /\ MaxDepth \in Nat \ {0} /\ StackSize \in Nat /\ MinGrow \in Nat /\ MaxStack \in Nat
  /\ FrameSize[Main] <= StackSize /\ StackSize <= MaxStack

(* Two properties a program may have: it passes pointers in calls by name  *)
(* only, the ones the table of the code lists, and from functions other    *)
(* than main and generators;                                               *)
PlainCalls == ~MainRefs /\ ~IndirectRefs /\ ~GenCalls

(* and its generators hold no pointers, give one register, and find room   *)
(* in the frame of whoever resumes them.  CHK_STK leaves one register      *)
(* over; main has none.                                                    *)
Spare(f) == IF f = Main THEN 0 ELSE 1

GeneratorsFit ==
  \A g \in Generators :
    /\ PtrLocals[g] = {} /\ RetSize[g] = 1
    /\ \A f \in Fns : Callees[f] # {} => FrameTop[f] + FrameSize[g] <= FrameSize[f] + Spare(f)

Reg(l) == fp + Header[fn] + l - 1       (* the register of a local           *)
Size == Len(stack)
At(r) == IF r < Size THEN stack[r + 1] ELSE Undef
Put(s, r, words) == [i \in DOMAIN s |-> IF i - 1 \in r..(r + Len(words) - 1)
                                        THEN words[i - r] ELSE s[i]]
DropAbove(s, r) == [i \in DOMAIN s |-> IF i > r THEN Undef ELSE s[i]]

(* ---- walking the frames ---------------------------------------------- *)
(* A context is a function, the place of its pc and its fp.  Lost is what a *)
(* walk gets from a register that does not hold what it expects.           *)
Context(f, how, off, r) == [fn |-> f, how |-> how, off |-> off, fp |-> r]
Lost == Context(Main, "lost", 0, 0)
TopContext == Context(fn, "body", 0, IF mode = "chk" THEN fp - RetSize[fn] ELSE fp)
Base(cx) == cx.fp + RetSize[cx.fn]
IsGenFrame(cx) == cx.fp # 0 /\ At(Base(cx))[2] = "gen"

PrevContext(cx) ==
  LET info == At(Base(cx))  pc == At(Base(cx) + 1)  ret == At(Base(cx) + 2) IN
  IF ret[1] = "ptr" THEN Context(pc[2], pc[3], pc[4] - info[3], ret[3]) ELSE Lost

(* unwindStack takes the registers of a generator frame to be at 1, 2, 3.  *)
(* A faulty variant: the frame of a generator as that of a call.           *)
UnwindContext_as_call(cx) == PrevContext(cx)

UnwindContext(cx) ==
  LET info == At(cx.fp + 1)  pc == At(cx.fp + 2)  gen == At(cx.fp + 3) IN
  IF ~IsGenFrame(cx) THEN PrevContext(cx)
  ELSE IF gen[1] # "gen" THEN Lost
  ELSE Context(pc[2], pc[3], pc[4] - info[3], gens[gen[2]].prev[3])

(* The way the frames return: through RET_Y for a generator.               *)
ReturnContext(cx) ==
  LET pc == At(Base(cx) + 1)  gen == At(Base(cx) + 2) IN
  IF ~IsGenFrame(cx) THEN PrevContext(cx)
  ELSE Context(pc[2], pc[3], pc[4] - InstLen[pc[3]], gens[gen[2]].prev[3])

(* Op(x), with x evaluated once when TLC computes it for a next state.     *)
Applied(Op(_), x) == CHOOSE y \in {Op(v) : v \in {x}} : TRUE

(* Who walks: the returns, the growth of the stack or a panic.             *)
Step(who, cx) == CASE who = "return" -> ReturnContext(cx)
                   [] who = "growth" -> PrevContext(cx)
                   [] who = "panic" -> UnwindContext(cx)

Chain(who) ==
  LET Before(cx) == Step(who, cx)
      Extend(w) == IF Last(w).fp = 0 THEN w ELSE Append(w, Applied(Before, Last(w)))
      walk[n \in Nat] == IF n = 0 THEN <<TopContext>> ELSE Applied(Extend, walk[n - 1])
  IN walk[MaxDepth]

Activations == Chain("return")
Callers(chain) == IF Last(chain).fp = 0 THEN Front(chain) ELSE chain

(* ---- the growth of the stack ----------------------------------------- *)
Grown == Size + Max({Size \div 2, MinGrow})

(* A faulty variant: the arguments are left to the frame of the callee.    *)
PtrRegs_locals(cx, callee) ==
  IF cx.how # "call" THEN {} ELSE {cx.fp + Header[cx.fn] + l - 1 : l \in PtrLocals[cx.fn]}

(* Registers of a frame that the table of the code lists as pointers: it   *)
(* has an entry at the direct calls only.  Arguments count as the caller's. *)
PtrRegs(cx, callee) ==
  IF ~(cx.how = "call" /\ cx.off = 0) THEN {}
  ELSE {cx.fp + Header[cx.fn] + l - 1 : l \in PtrLocals[cx.fn]}
       \cup {cx.fp + FrameTop[cx.fn] + Header[callee] + l - 1 : l \in PtrLocals[callee]}

(* A faulty variant: the return fps are copied as they are.                *)
Patched_copied == [i \in 1..Grown |-> At(i - 1)]

(* The walk ends at the frame of main, which it does not look at.          *)
Patched ==
  LET walked == Callers(Chain("growth"))
      n == Len(walked)
      ptrs == UNION {PtrRegs(walked[i], walked[i - 1].fn) : i \in 2..n}
      rets == {Base(walked[i]) + 2 : i \in 1..n}
      Word(r) == IF At(r)[1] = "ptr" /\ (r \in rets \/ (r \in ptrs /\ At(r)[2] = mem))
                 THEN Addr(mem + 1, At(r)[3]) ELSE At(r)
  IN [i \in 1..Grown |-> IF i <= Size THEN Word(i - 1) ELSE Undef]

Init ==
  /\ stack = [i \in 1..StackSize |-> Undef]
  /\ mem = 0 /\ fn = Main /\ fp = 0
  /\ mode = "run" /\ gens = <<>> /\ trace = <<>>

(* A faulty variant: the fp stays where CHK_STK has moved it.              *)
GrowInPlace_fp_moved ==
  /\ mode = "overflow" /\ Grown <= MaxStack
  /\ stack' = stack \o [i \in 1..(Grown - Size) |-> Undef]
  /\ mode' = "chk"
  /\ UNCHANGED <<mem, fn, fp, gens, trace>>

GrowInPlace ==
  /\ mode = "overflow" /\ Grown <= MaxStack
  /\ stack' = stack \o [i \in 1..(Grown - Size) |-> Undef]
  /\ fp' = fp + RetSize[fn]
  /\ mode' = "chk"
  /\ UNCHANGED <<mem, fn, gens, trace>>

GrowMove ==
  /\ mode = "overflow" /\ Grown <= MaxStack
  /\ IF Lost \in Range(Chain("growth"))
     THEN mode' = "undefined" /\ UNCHANGED <<stack, mem, fp>>
     ELSE /\ stack' = Patched
          /\ mem' = mem + 1
          /\ fp' = fp + RetSize[fn]
          /\ mode' = "chk"
  /\ UNCHANGED <<fn, gens, trace>>

GrowFails ==
  /\ mode = "overflow"
  /\ mode' = "oom"
  /\ UNCHANGED <<stack, mem, fn, fp, gens, trace>>

(* ---- the body of a function ------------------------------------------ *)
InGenerator == fn \in Generators /\ IsGenFrame(TopContext)
Body == mode = "run" /\ (fn \in Generators => InGenerator)
DataLocals == (1..NumLocals[fn]) \ PtrLocals[fn]
Pointers == {At(Reg(l)) : l \in PtrLocals[fn]} \ {Undef}
OwnAddrs == IF fn = Main /\ ~MainRefs THEN {} ELSE {Addr(mem, Reg(l)) : l \in DataLocals}

SetReg(l, w) == /\ stack' = Put(stack, Reg(l), <<w>>)
                /\ UNCHANGED <<mem, fn, fp, mode, gens, trace>>

(* The parameters are locals like the others, in a generator too.          *)
Assign(l, w) == Body /\ SetReg(l, w)

(* STORE through a pointer; one into the memory the stack left is lost.    *)
StorePtr(p, w) ==
  /\ Body
  /\ IF p[2] = mem THEN stack' = Put(stack, p[3], <<w>>) /\ UNCHANGED mode
                   ELSE mode' = "undefined" /\ UNCHANGED stack
  /\ UNCHANGED <<mem, fn, fp, gens, trace>>

LoadPtr(l, p) ==
  /\ Body
  /\ IF p[2] = mem THEN At(p[3]) # Undef /\ stack' = Put(stack, Reg(l), <<At(p[3])>>) /\ UNCHANGED mode
                   ELSE mode' = "undefined" /\ UNCHANGED stack
  /\ UNCHANGED <<mem, fn, fp, gens, trace>>

(* ---- calls and returns ------------------------------------------------ *)
MayCall(how) == /\ Body /\ Len(Activations) < MaxDepth
                /\ InGenerator => GenCalls
                /\ how # "call" /\ ~IndirectRefs => Pointers = {}

CallWords(type, how) == <<Info(type, InstLen[how]), Pc(fn, how, InstLen[how]), Addr(mem, fp), Undef>>

Call(g, how, args) ==
  /\ MayCall(how)
  /\ how # "call" /\ ~IndirectRefs => PtrLocals[g] = {}
  /\ LET base == fp + FrameTop[fn] + RetSize[g] IN
     /\ stack' = Put(stack, base, CallWords("vm", how) \o args)
     /\ fp' = base
  /\ fn' = g /\ mode' = "chk"
  /\ UNCHANGED <<mem, gens, trace>>

(* A faulty variant: the frames of the calls it makes are not counted.     *)
ChkStk_own_frame ==
  /\ mode = "chk"
  /\ fp' = fp - RetSize[fn]
  /\ mode' = IF fp - RetSize[fn] + FrameTop[fn] >= Size THEN "overflow" ELSE "run"
  /\ UNCHANGED <<stack, mem, fn, gens, trace>>

ChkStk ==
  /\ mode = "chk"
  /\ fp' = fp - RetSize[fn]
  /\ mode' = IF fp - RetSize[fn] + FrameSize[fn] >= Size THEN "overflow" ELSE "run"
  /\ UNCHANGED <<stack, mem, fn, gens, trace>>

(* Back to the place pc in the frame r, with ret in the return registers.  *)
ReturnTo(pc, r, ret) ==
  /\ stack' = DropAbove(Put(stack, fp, ret), fp + Len(ret))
  /\ fn' = pc[2]
  /\ IF r[1] = "ptr" /\ r[2] = mem THEN fp' = r[3] /\ mode' = IF ret = <<>> THEN "run" ELSE "result"
                                   ELSE fp' = fp /\ mode' = "undefined"
  /\ UNCHANGED <<mem, trace>>

(* RET_0, RET and RET_N.                                                   *)
Ret(w) ==
  /\ Body /\ fn # Main /\ fn \notin Generators
  /\ LET base == Base(TopContext) IN
     ReturnTo(At(base + 1), At(base + 2), [i \in 1..RetSize[fn] |-> w])
  /\ UNCHANGED gens

(* The caller moves the result to a local, or drops it.                    *)
TakeResult(l) ==
  /\ mode = "result"
  /\ LET ret == fp + FrameTop[fn] IN
     stack' = DropAbove(IF l = 0 THEN stack ELSE Put(stack, Reg(l), <<At(ret)>>), ret)
  /\ mode' = "run"
  /\ UNCHANGED <<mem, fn, fp, gens, trace>>

CallHost(how) ==
  /\ MayCall(how) /\ Callees[fn] # {}
  /\ LET base == fp + FrameTop[fn] + 1 IN
     stack' = Put(stack, base, <<Info("host", 0), Pc(fn, how, 0), Addr(mem, fp)>>)
  /\ mode' = "host"
  /\ UNCHANGED <<mem, fn, fp, gens, trace>>

HostReturn(w) ==
  /\ mode = "host"
  /\ LET ret == fp + FrameTop[fn] IN stack' = DropAbove(Put(stack, ret, <<w>>), ret + 1)
  /\ mode' = "result"
  /\ UNCHANGED <<mem, fn, fp, gens, trace>>

HostPanic == /\ mode = "host"
             /\ mode' = "panic"
             /\ UNCHANGED <<stack, mem, fn, fp, gens, trace>>

(* ---- generators -------------------------------------------------------- *)
Paused(g) == ~gens[g].running /\ ~gens[g].done

(* The generator gets a copy of the registers in use, the parameters; each *)
(* resume lays out this copy, and RetY writes nothing to it.               *)
RetGen(deinit) ==
  /\ mode = "run" /\ fn \in Generators /\ ~InGenerator
  /\ Len(gens) < MaxGens
  /\ gens' = Append(gens, [fn |-> fn, running |-> FALSE, done |-> FALSE, deinit |-> deinit,
                           prev |-> Undef, frame |-> [l \in 1..NumParams[fn] |-> At(Reg(l))]])
  /\ LET base == fp + RetSize[fn] IN
     ReturnTo(At(base + 1), At(base + 2), <<Handle(Len(gens) + 1)>>)

(* The frame of a generator is laid out with no check of the stack.        *)
EnterGenerator(g, how) ==
  /\ LET base == fp + FrameTop[fn] + RetSize[gens[g].fn] IN
     stack' = Put(stack, base, <<Info("gen", InstLen[how]), Pc(fn, how, InstLen[how]), Handle(g), Undef>>
                               \o gens[g].frame)
  /\ gens' = [gens EXCEPT ![g] = [@ EXCEPT !.prev = Addr(mem, fp), !.running = TRUE]]
  /\ fp' = fp + FrameTop[fn] /\ fn' = gens[g].fn
  /\ UNCHANGED <<mem, mode, trace>>

MayResume == Body /\ (InGenerator => GenCalls) /\ Callees[fn] # {}

GenNext(g) ==
  /\ MayResume /\ Paused(g) /\ Len(Activations) < MaxDepth
  /\ EnterGenerator(g, "gen")

GenEnd(g) ==
  /\ MayResume /\ Paused(g)
  /\ IF gens[g].deinit THEN Len(Activations) < MaxDepth /\ EnterGenerator(g, "end")
     ELSE /\ gens' = [gens EXCEPT ![g].done = TRUE]
          /\ UNCHANGED <<stack, mem, fn, fp, mode, trace>>

(* GEN_NEXT of one that runs or is done, GEN_END of one that runs, and     *)
(* every other instruction that panics.                                    *)
Panic == /\ Body
         /\ mode' = "panic"
         /\ UNCHANGED <<stack, mem, fn, fp, gens, trace>>

(* A yield; the code that ends a generator hands nothing back.             *)
RetY(w, done, deinit) ==
  /\ Body /\ InGenerator
  /\ LET base == Base(TopContext)
         g == At(base + 2)[2]
         ending == At(base + 1)[3] = "end"
     IN /\ ending => done
        /\ gens' = [gens EXCEPT ![g] = [@ EXCEPT !.running = FALSE, !.done = done,
                        !.deinit = IF done THEN gens[g].deinit ELSE deinit]]
        /\ ReturnTo(At(base + 1), gens[g].prev, IF ending THEN <<>> ELSE [i \in 1..RetSize[fn] |-> w])

(* ---- panics and the end ------------------------------------------------ *)
Unwind ==
  /\ mode = "panic"
  /\ LET walked == Chain("panic") IN
     /\ trace' = [i \in 1..Len(walked) |-> walked[i].fn]
     /\ mode' = IF Lost \in Range(walked) THEN "undefined" ELSE "dead"
  /\ UNCHANGED <<stack, mem, fn, fp, gens>>

End == /\ Body /\ fn = Main
       /\ mode' = "end"
       /\ UNCHANGED <<stack, mem, fn, fp, gens, trace>>

ArgWords(f, l) == IF l \in PtrLocals[f] THEN Pointers \cup OwnAddrs ELSE DataWords

Interpreter ==
  \/ \E l \in DataLocals, w \in DataWords : Assign(l, w)
  \/ \E l \in PtrLocals[fn], w \in OwnAddrs : Assign(l, w)
  \/ \E p \in Pointers, w \in DataWords : StorePtr(p, w)
  \/ \E p \in Pointers, l \in DataLocals : LoadPtr(l, p)
  \/ \E g \in Callees[fn], how \in Hows :
       \E args \in [1..NumParams[g] -> UNION {ArgWords(g, l) : l \in 1..NumParams[g]}] :
         (\A l \in 1..NumParams[g] : args[l] \in ArgWords(g, l)) /\ Call(g, how, args)
  \/ ChkStk
  \/ \E w \in DataWords : Ret(w) \/ HostReturn(w) \/ \E done, deinit \in BOOLEAN : RetY(w, done, deinit)
  \/ \E l \in DataLocals \cup {0} : (l = 0 \/ At(fp + FrameTop[fn])[1] = "data") /\ TakeResult(l)
  \/ \E how \in Hows : CallHost(how)
  \/ HostPanic
  \/ \E deinit \in BOOLEAN : RetGen(deinit)
  \/ \E g \in DOMAIN gens : GenNext(g) \/ GenEnd(g)
  \/ Panic
  \/ End

Thread == GrowInPlace \/ GrowMove \/ GrowFails \/ Unwind

Next == Interpreter \/ Thread

Spec == Init /\ [][Next]_vars

(* ---- what the stack stands for ---------------------------------------- *)
(* The register of a local of a frame.                                     *)
LocalReg(cx, l) == cx.fp + Header[cx.fn] + l - 1

(* A word of the stack; a pointer is to the local that is at its register. *)
Meaning(w, at) ==
  IF w = Undef THEN <<"unset">>
  ELSE IF w[1] # "ptr" THEN w
  ELSE IF at = {} THEN <<"dangling">>
  ELSE LET p == CHOOSE p \in at : TRUE IN <<"ref", p[1], p[2]>>

(* Where the active frames are acts, outermost first.                      *)
AbsWord(acts, w) ==
  Meaning(w, {p \in UNION {{d} \X (1..NumLocals[acts[d].fn]) : d \in 1..Len(acts)} :
                w[2] = mem /\ LocalReg(acts[p[1]], p[2]) = w[3]})

AbsActivation(acts, cx) ==
  [fn |-> cx.fn, gen |-> IF IsGenFrame(cx) THEN At(Base(cx) + 2)[2] ELSE 0,
   locals |-> [l \in 1..NumLocals[cx.fn] |-> AbsWord(acts, At(LocalReg(cx, l)))]]

AbsCalls ==
  IF mode = "undefined" THEN <<>>
  ELSE Applied(LAMBDA acts : [d \in 1..Len(acts) |-> AbsActivation(acts, acts[d])], Reverse(Activations))

AbsGens ==
  [g \in DOMAIN gens |->
    [fn |-> gens[g].fn,
     locals |-> [l \in 1..NumLocals[gens[g].fn] |->
                   IF l <= Len(gens[g].frame) THEN AbsWord(<<>>, gens[g].frame[l]) ELSE <<"unset">>],
     status |-> IF gens[g].running THEN "running" ELSE IF gens[g].done THEN "done" ELSE "paused"]]

AbsResult == IF mode = "result" THEN AbsWord(<<>>, At(fp + FrameTop[fn])) ELSE <<"unset">>

Abstract == INSTANCE CallStack WITH YieldKeeps <- FALSE,
  calls <- AbsCalls, result <- AbsResult, gens <- AbsGens, trace <- trace

Documented == INSTANCE CallStack WITH YieldKeeps <- TRUE,
  calls <- AbsCalls, result <- AbsResult, gens <- AbsGens, trace <- trace

(* The stack keeps what calls promise: each activation its locals, a       *)
(* reference the local it was taken of, a return its caller, a generator   *)
(* the arguments it was made with, a panic the functions that were active; *)
(* and the growth of the stack changes none of it.  What a generator has   *)
(* in its locals at a yield is gone at the next resume.                    *)
CallStackSpec == Abstract!Spec

(* What docs.md says of yield: it pauses the generator, whose next resume  *)
(* finds the locals as they were.                                          *)
YieldPauses == Documented!Spec

TypeOK ==
  /\ Size \in StackSize..MaxStack /\ mem \in Nat /\ fn \in Fns /\ fp \in 0..(Size - 1)
  /\ mode \in {"run", "chk", "overflow", "result", "host", "panic", "dead", "oom", "end"}
  /\ \A r \in 0..(Size - 1) : At(r)[1] \in {"undef", "data", "ptr", "pc", "info", "gen"}

(* A pointer that an active function holds points into the stack of now:   *)
(* the growth of the stack has patched it.                                 *)
NoStalePointers ==
  mode # "undefined" /\
  \A cx \in Range(Activations) : \A l \in PtrLocals[cx.fn] :
    LET w == At(LocalReg(cx, l)) IN w # Undef => w[2] = mem

(* A function runs only where the registers it and its calls use are part  *)
(* of the stack.                                                           *)
InBounds == mode \in {"run", "result", "host"} => fp + FrameSize[fn] <= Size

(* The trace of a panic names the functions that were active.              *)
TraceIsTheCalls ==
  trace # <<>> => LET acts == Activations IN trace = [d \in 1..Len(acts) |-> acts[d].fn]
=============================================================================
