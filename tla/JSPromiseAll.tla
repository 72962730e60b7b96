---------------------------- MODULE JSPromiseAll ----------------------------
(***************************************************************************)
(* One call of Promise.all, allSettled, any or race (js_promise_all and    *)
(* js_promise_race in quickjs.c) over an iterator, with the functions it   *)
(* hands to the `then` of each element.                                    *)
(*                                                                         *)
(* An element is a promise of the engine, which calls one of the functions *)
(* once and in a later job, or an object with a `then` of its own, which   *)
(* calls them when and as often as it likes, also while the call is still  *)
(* iterating.                                                              *)
(***************************************************************************)
EXTENDS Integers, FiniteSets

CONSTANTS
    Kinds,          \* which of the four functions are called
    MaxElements,    \* bound: elements that the iterator yields
    BothSides       \* a foreign element may call both functions that allSettled gives it

VARIABLES
    kind,
    loop,       \* "next": in the iterator; "then": in the then of the last element; "done", "failed"
    elems,      \* 1 .. n -> "promise" or "foreign"
    remaining,  \* remainingElementsCount
    called,     \* alreadyCalled of the functions made for an element: <<index, side>>
    values,     \* the array of values or errors: index -> the side that wrote it
    result,     \* what the promise of the call was settled with
    fired       \* history: <<index, side>> of every function called

vars == <<kind, loop, elems, remaining, called, values, result, fired>>

Sides    == {"resolve", "reject"}
Pending  == [how |-> "pending"]
Settled(how, by) == [how |-> how, by |-> by]
ByError   == <<"error">>          \* the reason is an exception
ByElem(i) == <<"element", i>>     \* the value or reason of one element
ByAll(vs) == <<"values", vs>>     \* the array, or the AggregateError with it
IsPending == result = Pending

TypeOK ==
    /\ loop \in {"next", "then", "done", "failed"}
    /\ DOMAIN elems = 1 .. Cardinality(DOMAIN elems)
    /\ remaining \in 0 .. MaxElements + 1
    /\ called \subseteq (DOMAIN elems) \X Sides
    /\ DOMAIN values \subseteq DOMAIN elems
    /\ result.how \in {"pending"} \cup Sides

Init ==
    /\ kind \in Kinds
    /\ loop = "next"
    /\ elems = << >>
    /\ remaining = 1
    /\ called = {}
    /\ values = << >>
    /\ result = Pending
    /\ fired = {}

\* The resolving functions of the result take effect once.
Settle(how, by) == IF IsPending THEN Settled(how, by) ELSE result

n == Cardinality(DOMAIN elems)

Put(f, i, x) == [j \in DOMAIN f \cup {i} |-> IF j = i THEN x ELSE f[j]]

\* Mutant: the count is not incremented for the element.
ElementUncounted(e) ==
    /\ loop = "next" /\ n < MaxElements
    /\ elems' = Put(elems, n + 1, e)
    /\ loop' = "then"
    /\ values' = IF kind = "any" THEN Put(values, n + 1, "undefined") ELSE values
    /\ UNCHANGED <<kind, remaining, called, result, fired>>

\* The iterator yields an element, and its `then` is called.
Element(e) ==
    /\ loop = "next" /\ n < MaxElements
    /\ elems' = Put(elems, n + 1, e)
    /\ loop' = "then"
    /\ remaining' = IF kind = "race" THEN remaining ELSE remaining + 1
    /\ values' = IF kind = "any" THEN Put(values, n + 1, "undefined") ELSE values
    /\ UNCHANGED <<kind, called, result, fired>>

ThenReturns ==
    /\ loop = "then"
    /\ loop' = "next"
    /\ UNCHANGED <<kind, elems, remaining, called, values, result, fired>>

\* The iterator or the constructor's resolve throws, or the `then` does:
\* fail_reject and fail_reject1.
Fails ==
    /\ loop = "next" \/ (loop = "then" /\ elems[n] = "foreign")
    /\ loop' = "failed"
    /\ result' = Settle("reject", ByError)
    /\ UNCHANGED <<kind, elems, remaining, called, values, fired>>

\* The count reaches zero: resolve with the values, or reject with the errors.
AtZero(left, vals) ==
    IF left # 0 THEN result
    ELSE Settle(IF kind = "any" THEN "reject" ELSE "resolve", ByAll(vals))

\* Mutant: the one that is too many is not taken off.
IteratorDoneKeepsOne ==
    /\ loop = "next"
    /\ loop' = "done"
    /\ UNCHANGED <<kind, elems, remaining, called, values, result, fired>>

IteratorDone ==
    /\ loop = "next"
    /\ loop' = "done"
    /\ remaining' = IF kind = "race" THEN remaining ELSE remaining - 1
    /\ result' = IF kind = "race" THEN result ELSE AtZero(remaining', values)
    /\ UNCHANGED <<kind, elems, called, values, fired>>

\* js_promise_all_resolve_element
ResolveElement(i, side) ==
    IF <<i, side>> \in called THEN UNCHANGED <<remaining, called, values, result>>
    ELSE /\ called' = called \cup {<<i, side>>}
         /\ values' = Put(values, i, side)
         /\ remaining' = remaining - 1
         /\ result' = AtZero(remaining', values')

\* The side whose function is a resolving function of the result itself.
Direct ==
    CASE kind = "race" -> Sides [] kind = "all" -> {"reject"}
      [] kind = "any" -> {"resolve"} [] kind = "allSettled" -> {}

Call(i, side) ==
    /\ fired' = fired \cup {<<i, side>>}
    /\ IF side \in Direct
       THEN result' = Settle(side, ByElem(i)) /\ UNCHANGED <<remaining, called, values>>
       ELSE ResolveElement(i, side)
    /\ UNCHANGED <<kind, loop, elems>>

PromiseReacts(i) ==
    /\ elems[i] = "promise" /\ loop \in {"done", "failed"}
    /\ \A side \in Sides : <<i, side>> \notin fired
    /\ \E side \in Sides : Call(i, side)

ForeignCalls(i, side) ==
    /\ elems[i] = "foreign"
    /\ ~BothSides /\ kind = "allSettled" => \A s \in Sides \ {side} : <<i, s>> \notin fired
    /\ Call(i, side)

Next ==
    \/ \E e \in {"promise", "foreign"} : Element(e)
    \/ ThenReturns \/ Fails \/ IteratorDone
    \/ \E i \in DOMAIN elems : PromiseReacts(i)
    \/ \E i \in DOMAIN elems, side \in Sides : ForeignCalls(i, side)

Spec == Init /\ [][Next]_vars

\* The loop is a C loop over an iterator that ends, and promises settle.
FairSpec ==
    Spec /\ WF_vars(ThenReturns) /\ WF_vars(IteratorDone)
         /\ \A i \in 1 .. MaxElements : WF_vars(i \in DOMAIN elems /\ PromiseReacts(i))

(***************************************************************************)
(* Properties.                                                             *)
(***************************************************************************)
\* The one that is too many in remainingElementsCount, while the iterator runs,
\* keeps a foreign element that answers at once from ending the call: the count
\* is what is still unanswered.
CountExact ==
    kind # "race" /\ loop # "failed" =>
        remaining = n - Cardinality(called) + (IF loop = "done" THEN 0 ELSE 1)

\* When Promise.all or allSettled resolves with its array, or any rejects with
\* its errors, the iterator is exhausted and every element has written its own
\* place; for Promise.all none of its promises was rejected.
CompleteWhenSettled ==
    (~IsPending /\ result.by[1] = "values") =>
        /\ loop = "done"
        /\ DOMAIN result.by[2] = DOMAIN elems
        /\ \A i \in DOMAIN elems : <<i, result.by[2][i]>> \in called
        /\ kind = "all" => \A i \in DOMAIN elems : elems[i] = "promise" => <<i, "reject">> \notin fired

\* The count is exact, and the call completes with every element's value in
\* place.
CombinatorSound == TypeOK /\ CountExact /\ CompleteWhenSettled

\* A call whose elements are all promises settles, unless it is a race of
\* nothing.
AllSettle ==
    (loop = "done" /\ (\A i \in DOMAIN elems : elems[i] = "promise") /\ ~(kind = "race" /\ n = 0))
        ~> ~IsPending
=============================================================================
