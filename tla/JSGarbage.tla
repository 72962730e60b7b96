---------------------------- MODULE JSGarbage ----------------------------
(***************************************************************************)
(* Reference counts and the cycle collector of the engine (quickjs.c):     *)
(* objects freed when their count reaches zero (free_zero_refcount), the   *)
(* three passes of JS_RunGC, and the records of weak maps, which refer to  *)
(* their keys without a count.                                             *)
(*                                                                         *)
(* The collector never interleaves with JavaScript code, but its passes    *)
(* rearrange the lists they are walking through; each step of a walk is an *)
(* action here.                                                            *)
(***************************************************************************)
EXTENDS Integers, Sequences, SequencesExt, FiniteSets, Functions

CONSTANTS Objs,       \* places for GC objects
          Maps,       \* those that are weak maps
          Aux,        \* those that are variable references or shapes: only
                      \* objects refer to them, and they refer to one object
          MaxFields,  \* references held by one object
          MaxRecords, \* records of one weak map
          End         \* the end of a list

Plain == Objs \ Aux

VARIABLES
    heap,    \* the memory, a record described below
    roots,   \* the objects a stack frame or a C variable holds a reference to
    phase,   \* what the collector is doing
    cur,     \* the element its walk through a list has reached
    doomed   \* history: what no root led to when the collection started

vars == <<heap, roots, phase, cur, doomed>>

\* mem: "free" memory, a "live" object, or a "zombie": freed in a cycle, its
\* memory kept until the end of the collection. rc, mark: the header. fields:
\* the counted references of an object. weak: the records of a weak map, key
\* to value. gc, tmp, zero: gc_obj_list, tmp_obj_list and
\* gc_zero_ref_count_list. faults: the assertions that failed and the uses of
\* memory that had been freed.
Init ==
    /\ heap = [mem |-> [o \in Objs |-> "free"], rc |-> [o \in Objs |-> 0],
               mark |-> [o \in Objs |-> 0], fields |-> [o \in Objs |-> {}],
               weak |-> [m \in Maps |-> <<>>],
               gc |-> <<>>, tmp |-> <<>>, zero |-> <<>>, faults |-> {}]
    /\ roots = {}
    /\ phase = "none"
    /\ cur = End
    /\ doomed = {}

-----------------------------------------------------------------------------
(* Operations on a heap h. Each takes a heap to a heap.                    *)

Without(list, o) == SelectSeq(list, LAMBDA x : x # o)
Fault(h, ok, what) == [h EXCEPT !.faults = IF ok THEN @ ELSE @ \cup {what}]
Touch(h, o) == Fault(h, h.mem[o] # "free", "freed memory")

\* The object out of whichever list it is in.
ListDel(h, o) ==
    [h EXCEPT !.gc = Without(@, o), !.tmp = Without(@, o),
              !.zero = Without(@, o)]

\* The references that mark_children and free_object go through: the fields,
\* then the values of the records of a weak map.
Children(h, o) ==
    SetToSeq(h.fields[o])
      \o (IF o \in Maps
          THEN LET keys == SetToSeq(DOMAIN h.weak[o])
               IN [i \in DOMAIN keys |-> h.weak[o][keys[i]]]
          ELSE <<>>)

\* js_free_rt of an object: everything it held is gone.
Release(h, o) ==
    [ListDel(h, o) EXCEPT !.mem[o] = "free", !.fields[o] = {}, !.mark[o] = 0,
                          !.rc[o] = 0]

\* JS_FreeValueRT of an object: at zero it goes to the head of the list of
\* objects to free, except while cycles are removed.
FreeObjectRef(h, o, cycles) ==
    LET h1 == [Touch(h, o) EXCEPT !.rc[o] = @ - 1]
    IN IF h1.rc[o] # 0 \/ cycles THEN h1
       ELSE [ListDel(h1, o) EXCEPT !.zero = <<o>> \o @]

\* free_var_ref and js_free_shape free what they hold and themselves at once.
FreeAuxRef(h, o, cycles) ==
    LET h1 == [Fault(Touch(h, o), h.rc[o] > 0, "ref_count")
                  EXCEPT !.rc[o] = @ - 1]
        freed(g, c) == FreeObjectRef(g, c, cycles)
    IN IF h1.rc[o] # 0 THEN h1
       ELSE Release(FoldLeft(freed, h1, Children(h1, o)), o)

FreeRef(h, o, cycles) ==
    IF o \in Aux THEN FreeAuxRef(h, o, cycles) ELSE FreeObjectRef(h, o, cycles)

FreeRefs(h, os, cycles) ==
    LET freed(g, c) == FreeRef(g, c, cycles) IN FoldLeft(freed, h, os)

\* Mutant: the records of a dead key stay in their maps.
WeakRefsKept(h, o, cycles) == h

\* reset_weak_ref: the records whose key is o leave their maps, then their
\* values are freed.
ResetWeakRef(h, o, cycles) ==
    LET maps == SetToSeq({m \in Maps : o \in DOMAIN h.weak[m]})
        values == [i \in DOMAIN maps |-> h.weak[maps[i]][o]]
        h1 == [h EXCEPT !.weak = [m \in Maps |->
                          Restrict(h.weak[m], DOMAIN h.weak[m] \ {o})]]
    IN FreeRefs(h1, values, cycles)

\* js_map_finalizer of a weak map: delete_weak_ref goes through the key of
\* each record.
MapFinalizer(h, o, cycles) ==
    IF o \notin Maps THEN h
    ELSE LET keys == SetToSeq(DOMAIN h.weak[o])
             values == [i \in DOMAIN keys |-> h.weak[o][keys[i]]]
             h1 == FoldLeft(Touch, h, keys)
         IN FreeRefs([h1 EXCEPT !.weak[o] = <<>>], values, cycles)

\* free_object
FreeObject(h, o, cycles) ==
    LET h1 == FreeRefs(h, SetToSeq(h.fields[o]), cycles)
        h2 == ResetWeakRef([h1 EXCEPT !.fields[o] = {}], o, cycles)
        h3 == ListDel(MapFinalizer(h2, o, cycles), o)
    IN IF cycles /\ h3.rc[o] # 0
       THEN [h3 EXCEPT !.mem[o] = "zombie", !.zero = Append(@, o)]
       ELSE Release(h3, o)

-----------------------------------------------------------------------------
(* JavaScript code, between collections.                                   *)

Idle == phase = "none"

\* JS_FreeValue outside of a collection, then free_zero_refcount if the count
\* has reached zero.
AfterFree(h) ==
    /\ heap' = h
    /\ phase' = IF h.zero = <<>> THEN "none" ELSE "zero"

Create(o) ==
    /\ Idle /\ heap.mem[o] = "free"
    /\ heap' = [heap EXCEPT !.mem[o] = "live", !.rc[o] = 1,
                            !.gc = Append(@, o)]
    /\ roots' = roots \cup {o}
    /\ UNCHANGED <<phase, cur, doomed>>

\* A closure variable or a new shape of object o, which refers to object c.
CreateAux(o, x, c) ==
    /\ Idle /\ heap.mem[x] = "free" /\ o \in roots /\ c \in roots
    /\ Cardinality(heap.fields[o]) < MaxFields
    /\ heap' = [heap EXCEPT !.mem[x] = "live", !.rc = [@ EXCEPT ![x] = 1, ![c] = @ + 1],
                            !.fields = [@ EXCEPT ![x] = {c}, ![o] = @ \cup {x}],
                            !.gc = Append(@, x)]
    /\ UNCHANGED <<roots, phase, cur, doomed>>

\* A reference to c, or to the variable reference c that another object
\* of the roots already has, is stored in o.
Store(o, c) ==
    /\ Idle /\ o \in roots \ Aux
    /\ c \in roots \/ \E p \in roots : c \in Aux \cap heap.fields[p]
    /\ c \notin heap.fields[o] /\ Cardinality(heap.fields[o]) < MaxFields
    /\ heap' = [heap EXCEPT !.fields[o] = @ \cup {c}, !.rc[c] = @ + 1]
    /\ UNCHANGED <<roots, phase, cur, doomed>>

Load(o, c) ==
    /\ Idle /\ o \in roots /\ c \in Plain \ roots
    /\ c \in heap.fields[o] \cup (IF o \in Maps
                THEN {heap.weak[o][k] : k \in roots \cap DOMAIN heap.weak[o]}
                ELSE {})
    /\ heap' = [heap EXCEPT !.rc[c] = @ + 1]
    /\ roots' = roots \cup {c}
    /\ UNCHANGED <<phase, cur, doomed>>

Delete(o, c) ==
    /\ Idle /\ o \in roots /\ c \in heap.fields[o]
    /\ AfterFree(FreeRef([heap EXCEPT !.fields[o] = @ \ {c}], c, FALSE))
    /\ UNCHANGED <<roots, cur, doomed>>

Drop(o) ==
    /\ Idle /\ o \in roots
    /\ roots' = roots \ {o}
    /\ AfterFree(FreeRef(heap, o, FALSE))
    /\ UNCHANGED <<cur, doomed>>

\* js_map_set on a weak map: a new record
WeakSet(m, k, v) ==
    /\ Idle /\ {m, k, v} \subseteq roots
    /\ k \notin DOMAIN heap.weak[m] /\ Cardinality(DOMAIN heap.weak[m]) < MaxRecords
    /\ heap' = [heap EXCEPT !.weak[m] = (k :> v) @@ @, !.rc[v] = @ + 1]
    /\ UNCHANGED <<roots, phase, cur, doomed>>

\* js_map_delete on a weak map
WeakDelete(m, k) ==
    /\ Idle /\ {m, k} \subseteq roots
    /\ k \in DOMAIN heap.weak[m]
    /\ AfterFree(FreeRef(
          [heap EXCEPT !.weak[m] = Restrict(@, DOMAIN @ \ {k})],
          heap.weak[m][k], FALSE))
    /\ UNCHANGED <<roots, cur, doomed>>

-----------------------------------------------------------------------------
(* free_zero_refcount: one round of its loop.                              *)

FreeZero ==
    /\ phase = "zero"
    /\ LET o == Head(heap.zero)
       IN AfterFree(FreeObject(Fault(heap, heap.rc[o] = 0, "ref_count"), o, FALSE))
    /\ UNCHANGED <<roots, cur, doomed>>

-----------------------------------------------------------------------------
(* JS_RunGC.                                                               *)

First(list) == IF list = <<>> THEN End ELSE Head(list)

\* The element after o in the list, End after the last one.
After(list, o) ==
    LET later == {i \in DOMAIN list : i > 1 /\ list[i - 1] = o}
    IN IF later = {} THEN End ELSE list[CHOOSE i \in later : TRUE]

Walk(h, os, Visit(_, _)) == FoldLeft(Visit, h, os)

\* What a root leads to, through counted references.
Edges(h, o) == ToSet(Children(h, o))
RECURSIVE Closure(_, _)
Closure(h, S) ==
    LET T == S \cup UNION {Edges(h, o) : o \in S}
    IN IF T = S THEN S ELSE Closure(h, T)
Reachable(h) == Closure(h, roots)

\* js_trigger_gc: an allocation has passed the threshold.
StartGC ==
    /\ Idle /\ heap.gc # <<>>
    /\ heap' = [heap EXCEPT !.tmp = <<>>]
    /\ phase' = "decref"
    /\ cur' = First(heap.gc)
    /\ doomed' = {o \in Objs : heap.mem[o] = "live"} \ Reachable(heap)
    /\ UNCHANGED roots

\* Mutant: an object whose count reaches zero after its own visit stays in
\* the list.
DecrefOnly(h, c) ==
    [Fault(Touch(h, c), h.rc[c] > 0, "ref_count") EXCEPT !.rc[c] = @ - 1]

\* gc_decref_child
DecrefChild(h, c) ==
    LET h1 == [Fault(Touch(h, c), h.rc[c] > 0, "ref_count") EXCEPT !.rc[c] = @ - 1]
    IN IF h1.rc[c] = 0 /\ h1.mark[c] = 1
       THEN [ListDel(h1, c) EXCEPT !.tmp = Append(@, c)]
       ELSE h1

\* gc_decref: one element; the next one is taken before its children are
\* visited.
Decref ==
    /\ phase = "decref" /\ cur # End
    /\ LET h1 == [Walk(Fault(heap, heap.mark[cur] = 0, "mark"),
                       Children(heap, cur), DecrefChild) EXCEPT !.mark[cur] = 1]
       IN heap' = IF h1.rc[cur] = 0
                  THEN [ListDel(h1, cur) EXCEPT !.tmp = Append(@, cur)]
                  ELSE h1
    /\ cur' = After(heap.gc, cur)
    /\ UNCHANGED <<roots, phase, doomed>>

DecrefEnds ==
    /\ phase = "decref" /\ cur = End
    /\ phase' = "scan"
    /\ cur' = First(heap.gc)
    /\ UNCHANGED <<heap, roots, doomed>>

\* gc_scan_incref_child
ScanIncref(h, c) ==
    LET h1 == [Touch(h, c) EXCEPT !.rc[c] = @ + 1]
    IN IF h1.rc[c] = 1
       THEN [ListDel(h1, c) EXCEPT !.gc = Append(@, c), !.mark[c] = 0]
       ELSE h1

\* gc_scan, first loop: the list grows while it is walked through.
Scan ==
    /\ phase = "scan" /\ cur # End
    /\ LET h1 == [Fault(heap, heap.rc[cur] > 0, "ref_count") EXCEPT !.mark[cur] = 0]
           h2 == Walk(h1, Children(h1, cur), ScanIncref)
       IN heap' = h2 /\ cur' = After(h2.gc, cur)
    /\ UNCHANGED <<roots, phase, doomed>>

ScanEnds ==
    /\ phase = "scan" /\ cur = End
    /\ phase' = "restore"
    /\ cur' = First(heap.tmp)
    /\ UNCHANGED <<heap, roots, doomed>>

\* gc_scan_incref_child2
RestoreIncref(h, c) == [Touch(h, c) EXCEPT !.rc[c] = @ + 1]

\* gc_scan, second loop
Restore ==
    /\ phase = "restore" /\ cur # End
    /\ heap' = Walk(heap, Children(heap, cur), RestoreIncref)
    /\ cur' = After(heap.tmp, cur)
    /\ UNCHANGED <<roots, phase, doomed>>

RestoreEnds ==
    /\ phase = "restore" /\ cur = End
    /\ phase' = "cycles"
    /\ UNCHANGED <<heap, roots, cur, doomed>>

\* gc_free_cycles: the first element of the list of garbage
FreeCycles ==
    /\ phase = "cycles" /\ heap.tmp # <<>>
    /\ LET o == Head(heap.tmp)
       IN heap' = IF o \in Aux
                  THEN [ListDel(heap, o) EXCEPT !.zero = Append(@, o)]
                  ELSE FreeObject(heap, o, TRUE)
    /\ UNCHANGED <<roots, phase, cur, doomed>>

\* gc_free_cycles: the memory of the zombies; only objects may be left
Sweep ==
    /\ phase = "cycles" /\ heap.tmp = <<>>
    /\ heap' = FoldLeft(Release, Fault(heap, ToSet(heap.zero) \cap Aux = {}, "sweep"),
                        heap.zero)
    /\ phase' = "none"
    /\ doomed' = {}
    /\ UNCHANGED <<roots, cur>>

Script ==
    \/ \E o \in Plain : Create(o) \/ Drop(o)
    \/ \E o \in Plain, x \in Aux, c \in Plain : CreateAux(o, x, c)
    \/ \E o, c \in Objs : Store(o, c) \/ Load(o, c) \/ Delete(o, c)
    \/ \E m \in Maps, k, v \in Plain : WeakSet(m, k, v)
    \/ \E m \in Maps, k \in Plain : WeakDelete(m, k)

Collector ==
    \/ StartGC
    \/ Decref \/ DecrefEnds
    \/ Scan \/ ScanEnds
    \/ Restore \/ RestoreEnds
    \/ FreeCycles \/ Sweep

Next == Script \/ FreeZero \/ Collector

Spec == Init /\ [][Next]_vars

-----------------------------------------------------------------------------
\* The assertions of the collector hold (counts positive when they are taken
\* down, marks clear, no variable reference or shape left to sweep) and no
\* object is touched once its memory has been freed, by the count of another
\* one or through the record of a weak map.
NoFault == heap.faults = {}

\* Nothing that a root leads to is freed, at any step of a collection.
ReachableLive == \A o \in Reachable(heap) : heap.mem[o] = "live"

Incoming(o) ==
    FoldSet(LAMBDA p, n : n + Len(SelectSeq(Children(heap, p), LAMBDA c : c = o)),
            IF o \in roots THEN 1 ELSE 0, Objs)

\* Between collections the count of every object is the number of references
\* to it, the list of GC objects holds just the objects there are, and no mark
\* is left: the passes of the collector restore what they take down.
CountsExact ==
    Idle =>
        /\ \A o \in Objs : heap.mem[o] # "free" =>
              heap.mem[o] = "live" /\ heap.rc[o] = Incoming(o) /\ heap.mark[o] = 0
        /\ ToSet(heap.gc) = {o \in Objs : heap.mem[o] = "live"}
        /\ Len(heap.gc) = Cardinality(ToSet(heap.gc))
        /\ heap.zero = <<>> /\ heap.tmp = <<>>

\* A weak map has no record of a key that is gone.
WeakKeysLive ==
    Idle => \A m \in Maps : \A k \in DOMAIN heap.weak[m] : heap.mem[k] = "live"

\* A collection frees everything that no root led to when it started: cycles,
\* and what only cycles refer to.
GarbageFreed ==
    [][phase # "none" /\ phase' = "none" => \A o \in doomed : heap'.mem[o] = "free"]_vars
=============================================================================
