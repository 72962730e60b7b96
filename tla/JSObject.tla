------------------------------ MODULE JSObject ------------------------------
(***************************************************************************)
(* Objects and arrays of the engine (native/quickjs/quickjs.c): defining,  *)
(* setting and deleting properties, preventExtensions, seal and freeze,    *)
(* and the array methods with a path of their own for fast arrays.         *)
(*                                                                         *)
(* A fast array keeps its elements in a C array (values) and not among its *)
(* properties; many calls turn it into an ordinary ("slow") array, and no  *)
(* caller may see a difference.  Getters and setters are called and do     *)
(* nothing.  What the code reads after it has called user code (to convert *)
(* a length) it reads again, so a call is one step here.                   *)
(***************************************************************************)
EXTENDS ESObject, SequencesExt

CONSTANTS
    Values,       \* the values of properties
    Lockable,     \* the objects that preventExtensions, seal and freeze are called on
    BaseIndices,  \* the indices that base has properties for
    MaxIndex,     \* bound: array indices are 0 .. MaxIndex
    Descs(_, _),  \* the descriptors that scripts define property k of object o with
    ArrayBase     \* the prototype of the array is an array itself

\* The array arr inherits from base, which has no prototype.
Objs       == {"arr", "base"}
Chain(o)   == IF o = "arr" THEN <<"arr", "base">> ELSE <<"base">>
Indices    == 0 .. MaxIndex
Lengths    == 0 .. MaxIndex + 1
IsArray(o) == o.class = "array"
CWE        == [w |-> TRUE, e |-> TRUE, c |-> TRUE]

VARIABLE heap

Object(class) ==
    [class |-> class, ext |-> TRUE, fast |-> class = "array", values |-> << >>, small |-> FALSE,
     props |-> IF class = "array" THEN (Length :> Data(0, TRUE, FALSE, FALSE)) ELSE << >>]

Init == heap = [o \in Objs |-> Object(IF o = "arr" \/ ArrayBase THEN "array" ELSE "object")]

\* What JS_GetOwnPropertyInternal reports: the elements of a fast array are
\* properties like others.
Elements(o) == [i \in 0 .. Len(o.values) - 1 |-> Data(o.values[i + 1], TRUE, TRUE, TRUE)]
View(o)     == [ext |-> o.ext, props |-> Elements(o) @@ o.props]
InFast(o, k) == o.fast /\ k >= 0 /\ k < Len(o.values)

ArrayLength(o) == o.props[Length].value
PutLength(o, n) == [o EXCEPT !.props[Length].value = n]

\* has_small_array_index stays set; it is only read for plain objects.
AddProperty(o, k, p) == [PutProp(o, k, p) EXCEPT !.small = @ \/ (k >= 0 /\ ~IsArray(o))]

ConvertFastArray(o) == [o EXCEPT !.props = View(o).props, !.values = << >>, !.fast = FALSE]

SetArrayLength(o, len) ==
    LET beyond == {i \in DOMAIN o.props \ {Length} : i >= len}
        stuck  == {i \in beyond : ~o.props[i].c}
        cur    == IF stuck = {} THEN len ELSE Max(stuck) + 1
    IN  CASE ~o.props[Length].w -> Refused(o)
          [] o.props[Length].w /\ o.fast ->
               Ok(PutLength([o EXCEPT !.values = SubSeq(@, 1, Min({len, Len(@)}))], len))
          [] o.props[Length].w /\ ~o.fast /\ len >= ArrayLength(o) -> Ok(PutLength(o, len))
          [] OTHER -> [ok |-> cur = len,
                       o  |-> PutLength(DropProps(o, {i \in beyond : i >= cur}), cur)]

AddFastElement(o, v) ==
    LET n == Len(o.values) + 1
        add(x) == Ok([x EXCEPT !.values = Append(@, v)])
    IN  IF n <= ArrayLength(o) THEN add(o)
        ELSE IF o.props[Length].w THEN add(PutLength(o, n)) ELSE Refused(o)

\* JS_CreateProperty.  The length of a slow array is updated before it is known
\* whether the element can be added.
NewProperty(d) ==
    LET e == Field(d, "e", FALSE)
        c == Field(d, "c", FALSE)
    IN  IF IsAccessor(d) THEN Getset(Field(d, "get", Undef), Field(d, "set", Undef), e, c)
        ELSE Data(Field(d, "value", Undef), Field(d, "w", FALSE), e, c)

CreateAny(o, k, d) ==
    IF ~o.ext THEN Refused(o) ELSE Ok(AddProperty(o, k, NewProperty(d)))

CreateInArray(o, k, d) ==
    IF k < ArrayLength(o) THEN CreateAny(o, k, d)
    ELSE IF ~o.props[Length].w THEN Refused(o) ELSE CreateAny(PutLength(o, k + 1), k, d)

IsPlain(d, default) == ~IsAccessor(d) /\ \A flag \in {"c", "w", "e"} : Field(d, flag, default)

CreateProperty(o, k, d) ==
    IF ~IsArray(o) \/ k < 0 THEN CreateAny(o, k, d)
    ELSE IF ~o.fast THEN CreateInArray(o, k, d)
    ELSE IF k = Len(o.values) /\ ~o.ext THEN Refused(o)
    ELSE IF k = Len(o.values) /\ IsPlain(d, FALSE)
         THEN AddFastElement(o, Field(d, "value", Undef))
         ELSE CreateInArray(ConvertFastArray(o), k, d)

\* Mutant: enumerable is not compared.
CheckFewerFlags(p, d) ==
    \/ p.c
    \/ /\ ~Field(d, "c", FALSE)
       /\ IsAccessor(d) \/ IsData(d) =>
             /\ IsAccessor(d) = Has(p, "get")
             /\ Has(p, "get") \/ p.w \/ ~Field(d, "w", FALSE)

CheckDefinePropFlags(p, d) ==
    \/ p.c
    \/ /\ ~Field(d, "c", FALSE)
       /\ Field(d, "e", p.e) = p.e
       /\ IsAccessor(d) \/ IsData(d) =>
             /\ IsAccessor(d) = Has(p, "get")
             /\ Has(p, "get") \/ p.w \/ ~Field(d, "w", FALSE)

\* The last part of JS_DefineProperty for a property that exists.
Reflag(p, d) == [p EXCEPT !.c = Field(d, "c", @), !.e = Field(d, "e", @)]

DefineAccessor(o, k, p, d) ==
    LET old == IF Has(p, "get") THEN p ELSE Getset(Undef, Undef, p.e, p.c)
        new == [old EXCEPT !.get = Field(d, "get", @), !.set = Field(d, "set", @)]
    IN  IF Has(p, "get") /\ ~p.c /\ new # p THEN Refused(o)
        ELSE Ok(PutProp(o, k, Reflag(new, d)))

DefineLength(o, d) ==
    LET r == IF Has(d, "value") THEN SetArrayLength(o, d.value) ELSE Ok(o)
    IN  IF Field(d, "w", TRUE) THEN r ELSE [r EXCEPT !.o.props[Length].w = FALSE]

DefineData(o, k, p, d) ==
    LET old == IF Has(p, "get") THEN Data(Undef, FALSE, p.e, p.c) ELSE p
        new == [old EXCEPT !.value = Field(d, "value", @), !.w = Field(d, "w", @)]
    IN  IF ~Has(p, "get") /\ ~p.c /\ ~p.w /\ Has(d, "value")
        THEN [ok |-> d.value = p.value, o |-> o]
        ELSE IF IsArray(o) /\ k = Length THEN DefineLength(o, d)
        ELSE Ok(PutProp(o, k, Reflag(new, d)))

DefineExisting(o, k, d) ==
    LET p == o.props[k]
    IN  CASE ~CheckDefinePropFlags(p, d) -> Refused(o)
          [] CheckDefinePropFlags(p, d) /\ IsAccessor(d) -> DefineAccessor(o, k, p, d)
          [] CheckDefinePropFlags(p, d) /\ IsData(d) -> DefineData(o, k, p, d)
          [] OTHER -> Ok(PutProp(o, k, Reflag(p, d)))

DefineProperty(o, k, d) ==
    IF k \in DOMAIN o.props THEN DefineExisting(o, k, d)
    ELSE IF ~InFast(o, k) THEN CreateProperty(o, k, d)
    ELSE IF ~IsPlain(d, TRUE) THEN DefineExisting(ConvertFastArray(o), k, d)
    ELSE Ok([o EXCEPT !.values[k + 1] = Field(d, "value", @)])

\* Mutant: configurable is not tested.
DeletesAnything(o, k) ==
    IF k \in DOMAIN o.props \/ ~InFast(o, k) THEN Ok(DropProps(o, {k}))
    ELSE Ok(DropProps(ConvertFastArray(o), {k}))

DeleteProperty(o, k) ==
    LET slow == ConvertFastArray(o)
    IN  IF k \in DOMAIN o.props
        THEN IF o.props[k].c THEN Ok(DropProps(o, {k})) ELSE Refused(o)
        ELSE IF ~InFast(o, k) THEN Ok(o)
        ELSE IF k = Len(o.values) - 1 THEN Ok([o EXCEPT !.values = Front(@)])
        ELSE Ok(DropProps(slow, {k}))

(***************************************************************************)
(* Setting a property.                                                     *)
(***************************************************************************)
Writing(v) == [value |-> v] @@ CWE

\* A result for object r as a result for the heap.
InHeap(h, r, x) == [ok |-> x.ok, o |-> [h EXCEPT ![r] = x.o]]

\* What the receiver r, which is also the object asked, does with its own
\* property k.
SetOwn(h, r, k, v) ==
    LET o == h[r]
        p == o.props[k]
    IN  CASE IsArray(o) /\ k = Length -> InHeap(h, r, SetArrayLength(o, v))
          [] ~(IsArray(o) /\ k = Length) /\ Has(p, "get") -> [ok |-> p.set # Undef, o |-> h]
          [] OTHER -> IF p.w THEN Ok([h EXCEPT ![r].props[k].value = v]) ELSE Refused(h)

\* No object on the prototype chain handles the call: receiver r gets the value.
SetReceiver(h, obj, k, v, r) ==
    LET o   == h[r]
        own == View(o).props[k]
    IN  CASE ~o.ext -> Refused(h)
          [] o.ext /\ obj = r /\ ~IsArray(o) -> Ok([h EXCEPT ![r] = AddProperty(o, k, Writing(v))])
          [] o.ext /\ obj = r /\ IsArray(o) ->
               InHeap(h, r, IF o.fast /\ k = Len(o.values) THEN AddFastElement(o, v)
                            ELSE CreateProperty(o, k, Writing(v)))
          [] o.ext /\ obj # r /\ k \notin DOMAIN View(o).props ->
               InHeap(h, r, CreateProperty(o, k, Writing(v)))
          [] OTHER -> IF Has(own, "get") THEN Refused(h)
                      ELSE IF ~own.w THEN Refused(h)
                      ELSE InHeap(h, r, DefineProperty(o, k, [value |-> v]))

\* The objects of the chain that end the lookup.  A writable data property does
\* not: the loop goes on to the next prototype.
Stops(h, chain, k, r) ==
    {i \in DOMAIN chain :
        LET o == h[chain[i]]
        IN  \/ InFast(o, k)
            \/ /\ k \in DOMAIN o.props
               /\ i > 1 \/ chain[1] # r
               /\ Has(o.props[k], "set") \/ ~o.props[k].w}

SetProperty(h, obj, k, v, r) ==
    LET chain == Chain(obj)
        stops == Stops(h, chain, k, r)
        at    == chain[Min(stops)]
    IN  CASE obj = r /\ k \in DOMAIN h[r].props -> SetOwn(h, r, k, v)
          [] ~(obj = r /\ k \in DOMAIN h[r].props) /\ stops = {} -> SetReceiver(h, obj, k, v, r)
          [] OTHER -> IF k \in DOMAIN h[at].props
                      THEN [ok |-> Field(h[at].props[k], "set", Undef) # Undef, o |-> h]
                      ELSE IF at = r THEN Ok([h EXCEPT ![r].values[k + 1] = v])
                      ELSE SetReceiver(h, obj, k, v, r)

\* Mutant: the prototypes are not looked at.
NeverLooks(h, chain) == TRUE

\* JS_SetPropertyValue: a[k] = v with an integer k.
NoIndexInChain(h, chain) ==
    \A i \in 2 .. Len(chain) :
        LET o == h[chain[i]] IN IF IsArray(o) THEN o.fast ELSE ~o.small

SetPropertyValue(h, r, k, v) ==
    LET o == h[r]
    IN  CASE InFast(o, k) -> Ok([h EXCEPT ![r].values[k + 1] = v])
          [] /\ o.fast /\ k = Len(o.values) /\ o.ext
             /\ NoIndexInChain(h, Chain(r)) -> InHeap(h, r, AddFastElement(o, v))
          [] OTHER -> SetProperty(h, r, k, v, r)

(***************************************************************************)
(* Array methods of arr: a sequence of steps, the first that fails throws. *)
(***************************************************************************)
VHeap(h) == [o \in Objs |-> View(h[o])]

\* JS_TryGetPropertyInt64 on what a heap of views shows of arr: {} or {value}.
TryGet(vh, k) ==
    LET holders == {i \in DOMAIN Chain("arr") : k \in DOMAIN vh[Chain("arr")[i]].props}
    IN  IF holders = {} THEN {}
        ELSE {Field(vh[Chain("arr")[Min(holders)]].props[k], "value", Undef)}

CopyStep(from, to) == [do |-> "copy", from |-> from, to |-> to]
SetStep(k, v)      == [do |-> "set", k |-> k, v |-> v]
DeleteStep(k)      == [do |-> "delete", k |-> k]
SwapStep(l, u)     == [do |-> "swap", l |-> l, u |-> u]

\* JS_CopySubArray(to, from, count, dir)
Copies(to, from, count, up) ==
    [i \in 1 .. count |-> LET j == IF up THEN i - 1 ELSE count - i
                          IN CopyStep(from + j, to + j)]

Calls ==
    [m : {"pop", "shift", "reverse"}] \cup [m : {"push", "unshift"}, v : Values]
        \cup [m : {"splice"}, start : Indices, del : 0 .. MaxIndex + 1, items : SeqOf(Values, 1)]

\* Bounds: no call takes arr beyond MaxIndex; splice clamps its arguments.
CanCall(n, call) ==
    /\ call.m \in {"push", "unshift"} => n <= MaxIndex
    /\ call.m = "splice" => /\ call.start <= n /\ call.del <= n - call.start
                            /\ n + Len(call.items) - call.del <= MaxIndex + 1

\* The generic steps of a method on an array of length n.
MethodSteps(n, call) ==
    CASE call.m = "pop" /\ n > 0   -> <<DeleteStep(n - 1), SetStep(Length, n - 1)>>
      [] call.m = "shift" /\ n > 0 -> Copies(0, 1, n - 1, TRUE) \o <<DeleteStep(n - 1), SetStep(Length, n - 1)>>
      [] call.m \in {"pop", "shift"} /\ n = 0 -> <<SetStep(Length, 0)>>
      [] call.m = "push"    -> <<SetStep(n, call.v), SetStep(Length, n + 1)>>
      [] call.m = "unshift" -> Copies(1, 0, n, FALSE) \o <<SetStep(0, call.v), SetStep(Length, n + 1)>>
      [] call.m = "reverse" -> [i \in 1 .. n \div 2 |-> SwapStep(i - 1, n - i)]
      [] call.m = "splice"  ->
           LET items == Len(call.items)
               new   == n + items - call.del
               tail  == call.start + call.del
           IN  (IF items = call.del THEN << >>
                ELSE Copies(call.start + items, tail, n - tail, items <= call.del)
                        \o [i \in 1 .. Max({n - new, 0}) |-> DeleteStep(n - i)])
               \o [i \in 1 .. items |-> SetStep(call.start + i - 1, call.items[i])]
               \o <<SetStep(Length, new)>>

\* One step, for the given [[Get]], [[Set]] and [[Delete]].
DoStep(h, s, Get(_, _), Set(_, _, _), Del(_, _)) ==
    LET put(x, k, got) == IF got = {} THEN Del(x, k) ELSE Set(x, k, CHOOSE v \in got : TRUE)
        both(l, u) == IF l = {} /\ u = {} THEN Ok(h)
                      ELSE IF u = {}
                      THEN LET r == Del(h, s.l) IN IF r.ok THEN put(r.o, s.u, l) ELSE r
                      ELSE LET r == put(h, s.l, u) IN IF r.ok THEN put(r.o, s.u, l) ELSE r
    IN  CASE s.do = "set"    -> Set(h, s.k, s.v)
          [] s.do = "delete" -> Del(h, s.k)
          [] s.do = "copy"   -> put(h, s.to, Get(h, s.from))
          [] s.do = "swap"   -> both(Get(h, s.l), Get(h, s.u))

Steps(h, steps, Get(_, _), Set(_, _, _), Del(_, _)) ==
    FoldLeft(LAMBDA r, s : IF r.ok THEN DoStep(r.o, s, Get, Set, Del) ELSE r, Ok(h), steps)

\* The code's [[Set]] for an element or the length, [[Delete]] and [[Get]].
ArrSet(h, k, v) ==
    IF k = Length THEN SetProperty(h, "arr", Length, v, "arr") ELSE SetPropertyValue(h, "arr", k, v)
ArrDelete(h, k) == InHeap(h, "arr", DeleteProperty(h["arr"], k))
ArrGet(h, k)    == TryGet(VHeap(h), k)

\* A fast array whose elements are all there skips the generic steps of pop,
\* shift and reverse.
FastMethods  == {"pop", "shift", "reverse"}
\* Mutant: the number of elements is not compared with the length.
FastIsDense(o) == o.fast /\ o.values # << >>

Dense(o)     == o.fast /\ Len(o.values) = ArrayLength(o)
FastResult(vals, call) ==
    CASE call.m = "pop" -> Front(vals) [] call.m = "shift" -> Tail(vals) [] call.m = "reverse" -> Reverse(vals)

CallMethod(h, call) ==
    LET o     == h["arr"]
        steps == MethodSteps(ArrayLength(o), call)
        fast  == [h EXCEPT !["arr"].values = FastResult(@, call)]
    IN  IF call.m \in FastMethods /\ Dense(o) /\ ArrayLength(o) > 0
        THEN Steps(fast, IF call.m = "reverse" THEN << >> ELSE <<Last(steps)>>, ArrGet, ArrSet, ArrDelete)
        ELSE Steps(h, steps, ArrGet, ArrSet, ArrDelete)

(***************************************************************************)
(* What scripts do.                                                        *)
(***************************************************************************)
Keys(o) ==
    (IF o = "arr" THEN Indices ELSE BaseIndices)
        \cup (IF o = "arr" \/ ArrayBase THEN {Length} ELSE {})

\* Values for key k; only the length of an array is a number.
ValuesFor(k) == IF k = Length THEN Lengths ELSE Values

Define(o, k) ==
    \E d \in Descs(o, k) : heap' = [heap EXCEPT ![o] = DefineProperty(@, k, d).o]

\* Reflect.set, super.k = v, and for obj = r an assignment to a named property.
Set(obj, k, r) ==
    \E v \in ValuesFor(k) : heap' = SetProperty(heap, obj, k, v, r).o

SetElement(r, k) ==
    \E v \in Values : heap' = SetPropertyValue(heap, r, k, v).o

Delete(o, k) == heap' = [heap EXCEPT ![o] = DeleteProperty(@, k).o]

PreventExtensions(o) == heap' = [heap EXCEPT ![o].ext = FALSE]

\* js_object_seal: preventExtensions, then a definition for each own key.
SealDesc(o, k, freeze) ==
    IF freeze /\ Field(View(o).props[k], "w", FALSE) THEN [c |-> FALSE, w |-> FALSE] ELSE [c |-> FALSE]
Sealed(o, freeze) ==
    FoldSet(LAMBDA k, x : DefineProperty(x, k, SealDesc(x, k, freeze)).o,
            [o EXCEPT !.ext = FALSE], DOMAIN View(o).props)
Seal(o, freeze) == heap' = [heap EXCEPT ![o] = Sealed(@, freeze)]

\* js_object_isSealed
IsSealed(o, frozen) ==
    /\ ~o.ext
    /\ \A k \in DOMAIN View(o).props :
          LET p == View(o).props[k] IN ~p.c /\ ~(frozen /\ Field(p, "w", FALSE))

Method ==
    \E call \in Calls :
        /\ CanCall(ArrayLength(heap["arr"]), call)
        /\ heap' = CallMethod(heap, call).o

Next ==
    \/ \E o \in Objs : \E k \in Keys(o) : Define(o, k)
    \/ \E obj, r \in Objs : \E k \in Keys(obj) \cap Keys(r) : Set(obj, k, r)
    \/ \E o \in Objs : \E k \in Keys(o) \ {Length} : SetElement(o, k)
    \/ \E o \in Objs : \E k \in Keys(o) : Delete(o, k)
    \/ \E o \in Lockable : PreventExtensions(o)
    \/ \E o \in Lockable, freeze \in BOOLEAN : Seal(o, freeze)
    \/ Method

Spec == Init /\ [][Next]_heap

(***************************************************************************)
(* Properties.                                                             *)
(***************************************************************************)
\* The representation of every object: a fast array is an array, has its
\* elements outside its properties, and never more of them than its length; a
\* plain object without has_small_array_index has no index.
ObjectsWellFormed ==
    \A x \in Objs :
        LET o == heap[x]
        IN  /\ o.fast => IsArray(o) /\ ~\E k \in Indices : k \in DOMAIN o.props
            /\ ~o.fast => o.values = << >>
            /\ ~IsArray(o) /\ ~o.small => ~\E k \in Indices : k \in DOMAIN o.props
            /\ IsArray(o) => \A k \in Indices : k \in DOMAIN View(o).props => k < ArrayLength(o)

\* JS_DefineProperty and delete_property do to every object what ECMAScript says, and
\* report the same success, whether the array is fast or slow.  The exception
\* is an index beyond the length of an array that is not extensible: the code
\* refuses it after it has already extended the length.
LengthRunsAhead(o, k) == IsArray(o) /\ ~o.ext /\ k >= ArrayLength(o)

SameOutcome(x, y) == x.ok = y.ok /\ View(x.o) = y.o

DefineAgrees ==
    \A x \in Objs : \A k \in Keys(x) :
        /\ SameOutcome(DeleteProperty(heap[x], k), ESDelete(View(heap[x]), k))
        /\ ~LengthRunsAhead(heap[x], k) =>
              \A d \in Descs(x, k) :
                  SameOutcome(DefineProperty(heap[x], k, d), ESDefine(View(heap[x]), k, d))

SameHeap(x, y) == x.ok = y.ok /\ VHeap(x.o) = y.o

\* An assignment o[k] = v does what ECMAScript's [[Set]] does, on the path for
\* integer keys and on the general one: a read-only or accessor property of a
\* prototype is respected even where the elements are stored in a fast array.
AssignAgrees ==
    \A x \in Objs : \A k \in Keys(x) : \A v \in ValuesFor(k) :
        LET es == ESSet(VHeap(heap), Chain(x), k, v, x)
        IN  /\ SameHeap(SetProperty(heap, x, k, v, x), es)
            /\ k \in Indices => SameHeap(SetPropertyValue(heap, x, k, v), es)

\* The same for every receiver, as Reflect.set and super need it.
SetAgrees ==
    \A x, r \in Objs : \A k \in Keys(x) \cap Keys(r) : \A v \in ValuesFor(k) :
        SameHeap(SetProperty(heap, x, k, v, r), ESSet(VHeap(heap), Chain(x), k, v, r))

\* pop, shift, push, unshift, reverse and splice leave what their generic steps
\* leave when each step is ECMAScript's, also when one of them throws.
MethodsAgree ==
    \A call \in Calls :
        LET n == ArrayLength(heap["arr"])
        IN  CanCall(n, call) =>
              SameHeap(CallMethod(heap, call),
                       Steps(VHeap(heap), MethodSteps(n, call), TryGet,
                             LAMBDA vh, k, v : ESSet(vh, Chain("arr"), k, v, "arr"),
                             LAMBDA vh, k : LET r == ESDelete(vh["arr"], k)
                                            IN [ok |-> r.ok, o |-> [vh EXCEPT !["arr"] = r.o]]))

\* Object.freeze and Object.seal leave an object that isFrozen and isSealed
\* report as such, with the values it had.
FreezeFreezes ==
    \A x \in Objs, freeze \in BOOLEAN :
        LET o == heap[x]
            z == Sealed(o, freeze)
        IN  /\ IsSealed(z, freeze)
            /\ DOMAIN View(z).props = DOMAIN View(o).props
            /\ \A k \in DOMAIN View(o).props :
                  Field(View(z).props[k], "value", Undef) = Field(View(o).props[k], "value", Undef)

\* The invariants of the essential internal methods, over any sequence of
\* calls: an object that is not extensible stays so and gains no property; a
\* property that is not configurable is never deleted, made configurable or
\* turned into the other kind, and once it is read-only its value is fixed.
Fixed(p, q) ==
    /\ ~q.c /\ q.e = p.e
    /\ Has(q, "get") = Has(p, "get")
    /\ Has(p, "get") => q = p
    /\ ~Has(p, "get") /\ ~p.w => q = p

EssentialInvariants ==
    [][\A x \in Objs :
          LET o == View(heap[x])
              n == View(heap'[x])
          IN  /\ ~o.ext => ~n.ext /\ DOMAIN n.props \subseteq DOMAIN o.props
              /\ \A k \in DOMAIN o.props :
                    ~o.props[k].c => k \in DOMAIN n.props /\ Fixed(o.props[k], n.props[k])]_heap
=============================================================================
