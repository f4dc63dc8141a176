------------------------------ MODULE HeapPool ------------------------------
(***************************************************************************)
(* The heap of one VM thread: heap.zig, the reference counting of          *)
(* heap_value.zig and vm.c, and the sweep of thread.zig after a panic.     *)
(*                                                                         *)
(* Pages of equal slots are chained into one free list.  A small object    *)
(* lives in a slot; a big one in memory of its own, with a slot that holds *)
(* the pointer to it.  An object is named by its slot here.  Every object  *)
(* counts the references to it; the last release destroys it, and with it  *)
(* the references in its fields, depth first.  Objects in a cycle are not  *)
(* reclaimed before the sweep.                                             *)
(***************************************************************************)
EXTENDS Integers, Sequences, FiniteSets

CONSTANTS
  SlotsPerPage,  (* slots of a HeapPage: 102 in the code                  *)
  Builds,        (* {FALSE, TRUE} for builds without and with Trace       *)
  AllocFails,    (* may the allocator under the heap fail                 *)
  Null,          (* the null pointer                                      *)
  MaxPages,      (* bound: pages of the heap                              *)
  MaxFields,     (* bound: references an object holds                     *)
  MaxRefs        (* bound: references to one object outside the heap      *)

ASSUME HeapPoolAssumption ==
  /\ SlotsPerPage \in Nat \ {0} /\ MaxPages \in Nat \ {0}
  /\ MaxFields \in Nat /\ MaxRefs \in Nat \ {0}
  /\ Builds \subseteq BOOLEAN /\ AllocFails \in BOOLEAN
  /\ Null \notin Nat

Slots == 1..(MaxPages * SlotsPerPage)
SlotsOf(m, n) == (m * SlotsPerPage + 1)..(n * SlotsPerPage)  (* pages m+1..n *)

VARIABLES
  Trace,      (* is this a Trace build                                     *)
  pages,      (* heapPages.items.len                                       *)
  ready,      (* the pages of these that are initialised                   *)
  meta,       (* what a slot holds: "none" (no such slot yet), "free",     *)
              (* "obj" (an object, small or big), or "half": the pointer   *)
              (* to a big object that was not allocated                    *)
  next,       (* free_span.next of the free slots                          *)
  head, tail, (* heapFreeHead and, in Trace builds, heapFreeTail           *)
  rc,         (* the reference count of each object                        *)
  fields,     (* the references its fields hold, in order                  *)
  refs,       (* references held outside the heap: registers, globals      *)
  refCounts,  (* Heap.c.refCounts, kept in Trace builds                    *)
  work,       (* the calls of destroyObject that have not returned         *)
  at,         (* the slot freeHeapPages looks at                           *)
  mode        (* "run", "destroy", "sweep", "swept", or "undefined" once   *)
              (* the program has used memory that holds nothing it wrote   *)

listVars == <<pages, ready, next, head, tail>>
vars == <<Trace, listVars, meta, rc, fields, refs, refCounts, work, at, mode>>

Live == {s \in Slots : meta[s] = "obj"}
Free == {s \in Slots : meta[s] = "free"}

(* A faulty variant: the pages of one growth are not chained to each other. *)
Chained_pages_apart(m, n) ==
  [s \in Slots |-> IF s \notin SlotsOf(m, n) THEN next[s]
                   ELSE IF s % SlotsPerPage = 0 THEN Null ELSE s + 1]

(* The links after growHeapPages: within the pages m+1..n, in order.        *)
Chained(m, n) ==
  [s \in Slots |-> IF s \notin SlotsOf(m, n) THEN next[s]
                   ELSE IF s = n * SlotsPerPage THEN Null ELSE s + 1]

(* Heap.init grows the empty heap by one page.                              *)
Init ==
  /\ Trace \in Builds
  /\ pages = 1 /\ ready = 1
  /\ meta = [s \in Slots |-> IF s \in SlotsOf(0, 1) THEN "free" ELSE "none"]
  /\ next = [s \in Slots |-> IF s < SlotsPerPage THEN s + 1 ELSE Null]
  /\ head = 1
  /\ tail = IF Trace THEN SlotsPerPage ELSE Null
  /\ rc = [s \in Slots |-> 0]
  /\ fields = [s \in Slots |-> <<>>]
  /\ refs = [s \in Slots |-> 0]
  /\ refCounts = 0
  /\ work = <<>> /\ at = 1 /\ mode = "run"

-----------------------------------------------------------------------------
(* The free list.                                                           *)

(* allocPoolObject and allocBigObjectPtr take the first slot of the list.   *)
TakeListed(s, m) ==
  /\ head # Null /\ s = head
  /\ head' = next[s]
  /\ tail' = IF tail = s THEN next[s] ELSE tail
  /\ meta' = [meta EXCEPT ![s] = m]
  /\ UNCHANGED <<pages, ready, next>>

(* An empty list: the number of pages is doubled first.                     *)
TakeGrown(s, m) ==
  /\ head = Null /\ 2 * pages <= MaxPages
  /\ s = pages * SlotsPerPage + 1
  /\ pages' = 2 * pages /\ ready' = 2 * pages
  /\ next' = Chained(pages, 2 * pages)
  /\ meta' = [t \in Slots |-> IF t = s THEN m
                              ELSE IF t \in SlotsOf(pages, 2 * pages) THEN "free"
                              ELSE meta[t]]
  /\ head' = next'[s]
  /\ tail' = IF ~Trace THEN tail
             ELSE IF s = 2 * pages * SlotsPerPage THEN Null
             ELSE 2 * pages * SlotsPerPage

Take(s, m) == TakeListed(s, m) \/ TakeGrown(s, m)

(* A faulty variant: the link of the slot is not reset in a Trace build.    *)
FreeSlot_keeps_link(s) ==
  /\ meta' = [meta EXCEPT ![s] = "free"]
  /\ IF ~Trace
     THEN next' = [next EXCEPT ![s] = head] /\ head' = s /\ tail' = tail
     ELSE IF tail = Null
     THEN next' = next /\ head' = s /\ tail' = s
     ELSE next' = [next EXCEPT ![tail] = s] /\ UNCHANGED <<head, tail>>
  /\ UNCHANGED <<pages, ready>>

(* freePoolObject: to the front of the list, or in a Trace build to the     *)
(* back of it.                                                              *)
FreeSlot(s) ==
  /\ meta' = [meta EXCEPT ![s] = "free"]
  /\ IF ~Trace
     THEN next' = [next EXCEPT ![s] = head] /\ head' = s /\ tail' = tail
     ELSE IF tail = Null
     THEN next' = [next EXCEPT ![s] = Null] /\ head' = s /\ tail' = s
     ELSE next' = [next EXCEPT ![s] = Null, ![tail] = s] /\ UNCHANGED <<head, tail>>
  /\ UNCHANGED <<pages, ready>>

Counted(n) == IF Trace THEN refCounts + n ELSE refCounts

-----------------------------------------------------------------------------
(* Objects.                                                                 *)

(* new_object_undef, of a small or a big object: one reference to it.       *)
New(s) ==
  /\ mode = "run"
  /\ Take(s, "obj")
  /\ rc' = [rc EXCEPT ![s] = 1]
  /\ refs' = [refs EXCEPT ![s] = 1]
  /\ refCounts' = Counted(1)
  /\ UNCHANGED <<fields, work, at, mode>>

(* The running code can use a reference that it holds or that an object it  *)
(* holds has in a field.                                                    *)
InReach(s) ==
  \/ refs[s] > 0
  \/ \E p \in Slots : refs[p] > 0 /\ \E i \in DOMAIN fields[p] : fields[p][i] = s

(* A faulty variant: a reference is copied without retaining the object.    *)
Copy_unretained(s) ==
  /\ mode = "run"
  /\ InReach(s) /\ refs[s] < MaxRefs
  /\ refs' = [refs EXCEPT ![s] = @ + 1]
  /\ UNCHANGED <<listVars, meta, rc, fields, refCounts, work, at, mode>>

(* A faulty variant: the retain is not counted in Heap.c.                   *)
Copy_uncounted(s) ==
  /\ mode = "run"
  /\ InReach(s) /\ refs[s] < MaxRefs
  /\ rc' = [rc EXCEPT ![s] = @ + 1]
  /\ refs' = [refs EXCEPT ![s] = @ + 1]
  /\ UNCHANGED <<listVars, meta, fields, refCounts, work, at, mode>>

(* retain: a reference is copied to a register.                             *)
Copy(s) ==
  /\ mode = "run"
  /\ InReach(s) /\ refs[s] < MaxRefs
  /\ rc' = [rc EXCEPT ![s] = @ + 1]
  /\ refs' = [refs EXCEPT ![s] = @ + 1]
  /\ refCounts' = Counted(1)
  /\ UNCHANGED <<listVars, meta, fields, work, at, mode>>

(* A reference is moved from a register to a field: its count stays.        *)
Store(p, s) ==
  /\ mode = "run"
  /\ refs[s] > 0 /\ (IF s = p THEN refs[p] > 1 ELSE refs[p] > 0)
  /\ Len(fields[p]) < MaxFields
  /\ refs' = [refs EXCEPT ![s] = @ - 1]
  /\ fields' = [fields EXCEPT ![p] = Append(@, s)]
  /\ UNCHANGED <<listVars, meta, rc, refCounts, work, at, mode>>

(* releaseOnly, and the call of destroyObject when the count reaches zero.  *)
ReleaseOnly(s) ==
  /\ rc' = [rc EXCEPT ![s] = @ - 1]
  /\ refCounts' = Counted(-1)
  /\ work' = IF rc[s] = 1 THEN <<s>> \o work ELSE work

(* A register lets its reference go.                                        *)
Release(s) ==
  /\ mode = "run" /\ refs[s] > 0
  /\ refs' = [refs EXCEPT ![s] = @ - 1]
  /\ ReleaseOnly(s)
  /\ mode' = IF rc[s] = 1 THEN "destroy" ELSE "run"
  /\ UNCHANGED <<listVars, meta, fields, at>>

(* A field of an object in reach is set to none.                            *)
Clear(p) ==
  /\ mode = "run" /\ refs[p] > 0 /\ fields[p] # <<>>
  /\ fields' = [fields EXCEPT ![p] = Tail(@)]
  /\ ReleaseOnly(Head(fields[p]))
  /\ mode' = IF rc[Head(fields[p])] = 1 THEN "destroy" ELSE "run"
  /\ UNCHANGED <<listVars, meta, refs, at>>

(* A faulty variant: the object is freed with its fields not released, as   *)
(* in the sweep.                                                            *)
DestroyField_skips(s) ==
  /\ mode = "destroy" /\ s = Head(work) /\ fields[s] # <<>>
  /\ fields' = [fields EXCEPT ![s] = Tail(@)]
  /\ UNCHANGED <<listVars, meta, rc, refs, refCounts, work, at, mode>>

(* A faulty variant: the field is released and looked at again.             *)
DestroyField_again(s) ==
  /\ mode = "destroy" /\ s = Head(work) /\ fields[s] # <<>>
  /\ ReleaseOnly(Head(fields[s]))
  /\ UNCHANGED <<listVars, meta, fields, refs, at, mode>>

(* destroyObject: destructValueAt releases the fields in order...           *)
DestroyField(s) ==
  /\ mode = "destroy" /\ s = Head(work) /\ fields[s] # <<>>
  /\ fields' = [fields EXCEPT ![s] = Tail(@)]
  /\ ReleaseOnly(Head(fields[s]))
  /\ UNCHANGED <<listVars, meta, refs, at, mode>>

(* A faulty variant: destroyObject goes on with the object it has freed.    *)
DestroyFree_stays(s) ==
  /\ mode = "destroy" /\ s = Head(work) /\ fields[s] = <<>>
  /\ FreeSlot(s)
  /\ UNCHANGED <<rc, fields, refs, refCounts, work, at, mode>>

(* ...and then freeObject gives its slot back, and for a big object its     *)
(* memory.  free_span.len = 0 lies over the count of the object.            *)
DestroyFree(s) ==
  /\ mode = "destroy" /\ s = Head(work) /\ fields[s] = <<>>
  /\ FreeSlot(s)
  /\ work' = Tail(work)
  /\ mode' = IF Len(work) = 1 THEN "run" ELSE "destroy"
  /\ UNCHANGED <<rc, fields, refs, refCounts, at>>

-----------------------------------------------------------------------------
(* Failures.                                                                *)

(* The thread panics: freeHeapPages begins to sweep.  The references in     *)
(* registers and in fields are not looked at again.                         *)
Unwind ==
  /\ mode = "run" /\ mode' = "sweep"
  /\ at' = 1
  /\ refs' = [s \in Slots |-> 0]
  /\ fields' = [s \in Slots |-> <<>>]
  /\ UNCHANGED <<rc, refCounts, work>>

Panic == Unwind /\ UNCHANGED <<listVars, meta>>

(* An allocation that fails is a panic of the thread (RES_UNKNOWN).         *)
(* growHeapPages has made the list of pages longer before it allocates the  *)
(* pages one by one, and has initialised n of them when it fails.           *)
GrowFails ==
  /\ AllocFails /\ Unwind
  /\ head = Null /\ 2 * pages <= MaxPages
  /\ \/ UNCHANGED <<pages, ready, next, meta>>
     \/ \E n \in pages..(2 * pages - 1) :
          /\ pages' = 2 * pages /\ ready' = n
          /\ next' = Chained(pages, n)
          /\ meta' = [s \in Slots |-> IF s \in SlotsOf(pages, n) THEN "free" ELSE meta[s]]
  /\ UNCHANGED <<head, tail>>

(* allocBigObject has taken a slot for the pointer before it allocates the  *)
(* memory of the object, and keeps it when that fails.                      *)
BigFails(s) ==
  /\ AllocFails /\ Unwind /\ Take(s, "half")

(* A faulty variant: the sweep passes over the first slot of a page.        *)
Swept_not_first(s) == (s - 1) % SlotsPerPage # 0 /\ meta[s] = "obj"

(* Does the sweep destroy what is in the slot?                              *)
Swept(s) == meta[s] = "obj"

(* freeHeapPages looks at every slot of every page: an object is destroyed  *)
(* but not what it refers to.                                               *)
SweepSlot ==
  /\ mode = "sweep" /\ at \in SlotsOf(0, ready) /\ meta[at] # "half"
  /\ IF Swept(at)
     THEN FreeSlot(at) /\ refCounts' = Counted(0 - rc[at])
     ELSE UNCHANGED <<listVars, meta, refCounts>>
  /\ rc' = [rc EXCEPT ![at] = 0]
  /\ at' = at + 1
  /\ UNCHANGED <<fields, refs, work, mode>>

(* It follows the pointer of a slot that has none yet, or reads a page that *)
(* was never allocated: anything can happen.                                *)
SweepLost ==
  /\ mode = "sweep" /\ mode' = "undefined"
  /\ at \in SlotsOf(0, pages)
  /\ at \in SlotsOf(0, ready) => meta[at] = "half"
  /\ UNCHANGED <<listVars, meta, rc, fields, refs, refCounts, work, at>>

SweepEnds ==
  /\ mode = "sweep" /\ mode' = "swept"
  /\ at > pages * SlotsPerPage
  /\ UNCHANGED <<listVars, meta, rc, fields, refs, refCounts, work, at>>

-----------------------------------------------------------------------------
UserStep ==
  \/ \E s \in Slots : New(s) \/ Copy(s) \/ Release(s) \/ Clear(s) \/ BigFails(s)
  \/ \E p, s \in Slots : Store(p, s)
  \/ Panic \/ GrowFails

HeapStep ==
  \/ \E s \in Slots : DestroyField(s) \/ DestroyFree(s)
  \/ SweepSlot \/ SweepLost \/ SweepEnds

Next == (UserStep \/ HeapStep) /\ UNCHANGED Trace

Spec == Init /\ [][Next]_vars

(* The thread runs on until the call it is in returns; it is not obliged to *)
(* make another.                                                            *)
FairSpec == Spec /\ WF_vars(HeapStep /\ UNCHANGED Trace)

-----------------------------------------------------------------------------
(* Properties.                                                              *)

TypeOK ==
  /\ pages \in 1..MaxPages /\ ready \in 1..pages
  /\ meta \in [Slots -> {"none", "free", "obj", "half"}]
  /\ next \in [Slots -> Slots \cup {Null}]
  /\ head \in Slots \cup {Null} /\ tail \in Slots \cup {Null}
  /\ rc \in [Slots -> Nat]
  /\ fields \in [Slots -> Seq(Slots)]
  /\ refs \in [Slots -> 0..MaxRefs]
  /\ refCounts \in Nat
  /\ work \in Seq(Slots) /\ at \in Nat
  /\ mode \in {"run", "destroy", "sweep", "swept", "undefined"}

(* The slots of the free list, by their distance from its head.             *)
Walk[n \in 0..(MaxPages * SlotsPerPage)] ==
  IF n = 0 THEN head
  ELSE IF Walk[n - 1] = Null THEN Null ELSE next[Walk[n - 1]]

Listed == {Walk[n] : n \in DOMAIN Walk} \ {Null}

(* The free list ends, and leads to free slots only: no allocation takes    *)
(* the slot of an object that is alive.                                     *)
ListSound == Listed \subseteq Free /\ Walk[Cardinality(Listed)] = Null

(* The free list holds every free slot once: however allocations, frees,    *)
(* growth and sweeps follow each other, no slot is lost (without Trace).    *)
FreeListExact ==
  ~Trace /\ mode \in {"run", "destroy", "swept"}
    => Listed = Free /\ Walk[Cardinality(Free)] = Null

(* The count of an object is the number of references to it, in registers   *)
(* and in fields, also half-way through the destruction of others.  An      *)
(* object nothing refers to is being destroyed.                             *)
FieldsWith(s) ==
  {f \in Live \X (1..MaxFields) : f[2] <= Len(fields[f[1]]) /\ fields[f[1]][f[2]] = s}

RcExact ==
  mode \in {"run", "destroy"} =>
    \A s \in Live :
      /\ rc[s] = refs[s] + Cardinality(FieldsWith(s))
      /\ rc[s] = 0 <=> \E i \in DOMAIN work : work[i] = s

(* No reference outlives its object.                                        *)
NoDangling ==
  mode \in {"run", "destroy"} =>
    /\ \A s \in Slots : refs[s] > 0 => s \in Live
    /\ \A p \in Live : \A i \in DOMAIN fields[p] : fields[p][i] \in Live

(* No count is higher than this.                                            *)
MaxCount == MaxRefs + MaxPages * SlotsPerPage * MaxFields

(* The global count of a Trace build is the sum of the counts of all        *)
(* objects: it is zero exactly when no object is referred to.               *)
RefCountsMatch ==
  Trace => refCounts = Cardinality({r \in Live \X (1..MaxCount) : r[2] <= rc[r[1]]})

(* A sweep that comes to its end has freed every object, and the heap can   *)
(* be used again: thread.zig: "releases all memory tied to the thread".     *)
SweepFreesAll ==
  mode = "swept" => Live = {} /\ refCounts = 0 /\ Cardinality(Free) = pages * SlotsPerPage

(* Under fairness: a release returns, however deep the structure it frees   *)
(* and whatever it shares.                                                  *)
ReleaseReturns == mode = "destroy" ~> mode = "run"
=============================================================================
