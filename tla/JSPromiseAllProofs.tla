------------------------- MODULE JSPromiseAllProofs -------------------------
(***************************************************************************)
(* Proofs about JSPromiseAll for any number of elements.  Hypotheses of    *)
(* the main theorem: the four functions, a number of elements, and that a  *)
(* foreign element of allSettled calls one of the two functions it is      *)
(* given (the engine counts an element twice that calls both).             *)
(***************************************************************************)
EXTENDS JSPromiseAll, FiniteSetTheorems, TLAPS

\* The time a leaf may take.
USE SMTT(30)

\* The elements are numbered, and the functions called are of elements.
ElemInv ==
    /\ kind \in {"all", "allSettled", "any", "race"}
    /\ loop \in {"next", "then", "done", "failed"}
    /\ \E m \in 0 .. MaxElements : elems \in [1 .. m -> {"promise", "foreign"}]
    /\ called \subseteq fired
    /\ fired \subseteq (DOMAIN elems) \X Sides

\* An element that counts has called one function only.
OneSide ==
    /\ \A i \in DOMAIN elems : \A s, t \in Sides :
          (elems[i] = "promise" \/ kind = "allSettled") /\ <<i, s>> \in fired /\ <<i, t>> \in fired
              => s = t
    /\ \A i \in DOMAIN elems : \A s \in Sides : <<i, s>> \in called => s \notin Direct

\* What was called is in place.
ValuesInv ==
    /\ DOMAIN values \subseteq DOMAIN elems
    /\ \A i \in DOMAIN elems : \A s \in Sides :
          <<i, s>> \in called => i \in DOMAIN values /\ values[i] = s

\* The count, on the path where the loop fails as well.
CountInv ==
    remaining = IF kind = "race" THEN 1
                ELSE n - Cardinality(called) + (IF loop = "done" THEN 0 ELSE 1)

\* What the promise of the call was settled with.
ResultInv ==
    \/ result = Pending
    \/ \E how \in Sides : result = Settled(how, ByError)
    \/ \E how \in Sides : \E i \in DOMAIN elems : result = Settled(how, ByElem(i))
    \/ \E how \in Sides : \E vs :
          /\ result = Settled(how, ByAll(vs))
          /\ loop = "done"
          /\ DOMAIN vs = DOMAIN elems
          /\ \A i \in DOMAIN elems : vs[i] \in Sides /\ <<i, vs[i]>> \in called

CombinatorInv == ElemInv /\ OneSide /\ ValuesInv /\ CountInv /\ ResultInv

\* What the theorem assumes of the constants.
Hypotheses == MaxElements \in Nat /\ Kinds \subseteq {"all", "allSettled", "any", "race"} /\ ~BothSides

-----------------------------------------------------------------------------
(* Counting.                                                               *)

\* An initial segment has as many numbers as its bound says.
LEMMA SegmentSize ==
    ASSUME NEW m \in Nat
    PROVE  IsFiniteSet(1 .. m) /\ Cardinality(1 .. m) = m
BY FS_Interval

\* The elements are numbered from 1 to n.
LEMMA Numbered ==
    ASSUME MaxElements \in Nat, ElemInv
    PROVE  /\ n \in 0 .. MaxElements /\ n \in Nat
           /\ elems \in [1 .. n -> {"promise", "foreign"}] /\ DOMAIN elems = 1 .. n
<1>1. PICK m \in 0 .. MaxElements : elems \in [1 .. m -> {"promise", "foreign"}]
    BY Zenon DEF ElemInv
<1>2. m \in Nat /\ DOMAIN elems = 1 .. m
    BY <1>1
<1>3. n = m
    BY Zenon, <1>2, SegmentSize DEF n
<1> QED
    BY Zenon, <1>1, <1>2, <1>3

\* When every element has called at most one function, there are at most as
\* many calls as elements, and with as many every element has called.
LEMMA CallsOfElements ==
    ASSUME NEW m \in Nat, NEW C \in SUBSET ((1 .. m) \X Sides),
           \A i \in 1 .. m : \A s, t \in Sides : <<i, s>> \in C /\ <<i, t>> \in C => s = t
    PROVE  /\ IsFiniteSet(C) /\ Cardinality(C) \in 0 .. m
           /\ Cardinality(C) = m => \A i \in 1 .. m : \E s \in Sides : <<i, s>> \in C
<1> DEFINE f == [c \in C |-> c[1]]
<1>1. IsFiniteSet(1 .. m) /\ Cardinality(1 .. m) = m
    BY Zenon, SegmentSize
<1>2. f \in Injection(C, 1 .. m)
    <2>1. \A c \in C : c[1] \in 1 .. m /\ c[2] \in Sides /\ c = <<c[1], c[2]>>
        OBVIOUS
    <2>2. \A c, d \in C : c[1] = d[1] => c = d
        BY <2>1
    <2> QED
        BY Zenon, <2>1, <2>2 DEF Injection, IsInjective
<1>3. /\ IsFiniteSet(C) /\ Cardinality(C) <= m
      /\ Cardinality(C) = m => f \in Surjection(C, 1 .. m)
    <2> HIDE DEF f
    <2> QED
        BY <1>1, <1>2, FS_Injection
<1>4. Cardinality(C) \in Nat
    BY Zenon, <1>3, FS_CardinalityType
<1>5. ASSUME f \in Surjection(C, 1 .. m), NEW i \in 1 .. m
      PROVE  \E s \in Sides : <<i, s>> \in C
    <2>1. PICK c \in C : f[c] = i
        BY Zenon, <1>5 DEF Surjection
    <2>2. c[1] = i /\ c[2] \in Sides /\ c = <<c[1], c[2]>>
        BY <2>1
    <2> QED
        BY Zenon, <2>2
<1> QED
    BY <1>3, <1>4, <1>5

\* Of the functions that count, an element has called at most one.
LEMMA CalledOnce ==
    ASSUME ElemInv, OneSide, kind # "race"
    PROVE  \A i \in DOMAIN elems : \A s, t \in Sides :
               <<i, s>> \in called /\ <<i, t>> \in called => s = t
<1>1. CASE kind = "allSettled"
    BY Zenon, <1>1 DEF ElemInv, OneSide
<1>2. CASE kind = "all"
    BY Zenon, <1>2 DEF OneSide, Direct, Sides
<1>3. CASE kind = "any"
    BY Zenon, <1>3 DEF OneSide, Direct, Sides
<1> QED
    BY Zenon, <1>1, <1>2, <1>3 DEF ElemInv

\* The number of calls that count is between zero and the number of elements.
LEMMA CalledBound ==
    ASSUME MaxElements \in Nat, ElemInv, OneSide, kind # "race"
    PROVE  /\ IsFiniteSet(called) /\ Cardinality(called) \in 0 .. n
           /\ Cardinality(called) = n => \A i \in 1 .. n : \E s \in Sides : <<i, s>> \in called
<1>1. n \in Nat /\ DOMAIN elems = 1 .. n
    BY Zenon, Numbered
<1>2. called \in SUBSET ((1 .. n) \X Sides)
    BY Zenon, <1>1 DEF ElemInv
<1>3. \A i \in 1 .. n : \A s, t \in Sides : <<i, s>> \in called /\ <<i, t>> \in called => s = t
    BY Zenon, <1>1, CalledOnce
<1> HIDE DEF n
<1> QED
    BY Zenon, <1>1, <1>2, <1>3, CallsOfElements

\* The invariant says what the properties ask for.
LEMMA InvSound == Hypotheses /\ CombinatorInv => CombinatorSound
<1> SUFFICES ASSUME Hypotheses, CombinatorInv PROVE CombinatorSound
    BY Zenon
<1> USE DEF Hypotheses, CombinatorInv
<1>1. n \in 0 .. MaxElements /\ n \in Nat /\ DOMAIN elems = 1 .. n
    BY Zenon, Numbered
<1>2. kind # "race" => Cardinality(called) \in 0 .. n
    BY Zenon, CalledBound
<1>3. remaining \in 0 .. MaxElements + 1
    <2>1. CASE kind = "race"
        BY <2>1 DEF CountInv
    <2>2. CASE kind # "race"
        BY <1>1, <1>2, <2>2 DEF CountInv
    <2> QED
        BY Zenon, <2>1, <2>2
<1>4. result.how \in {"pending"} \cup Sides
    BY DEF ResultInv, Settled, Pending
<1>5. TypeOK
    BY Zenon, <1>1, <1>3, <1>4 DEF TypeOK, ElemInv, ValuesInv, n
<1>6. CountExact
    BY Zenon DEF CountExact, CountInv
<1>7. CompleteWhenSettled
    <2> SUFFICES ASSUME ~IsPending, result.by[1] = "values"
                 PROVE  /\ loop = "done"
                        /\ DOMAIN result.by[2] = DOMAIN elems
                        /\ \A i \in DOMAIN elems : <<i, result.by[2][i]>> \in called
                        /\ kind = "all" => \A i \in DOMAIN elems :
                              elems[i] = "promise" => <<i, "reject">> \notin fired
        BY Zenon DEF CompleteWhenSettled
    <2>0. PICK how \in Sides : \E vs :
              /\ result = Settled(how, ByAll(vs)) /\ loop = "done"
              /\ DOMAIN vs = DOMAIN elems
              /\ \A i \in DOMAIN elems : vs[i] \in Sides /\ <<i, vs[i]>> \in called
        BY DEF ResultInv, IsPending, Settled, ByError, ByElem
    <2>1. PICK vs :
              /\ result = Settled(how, ByAll(vs)) /\ loop = "done"
              /\ DOMAIN vs = DOMAIN elems
              /\ \A i \in DOMAIN elems : vs[i] \in Sides /\ <<i, vs[i]>> \in called
        BY Zenon, <2>0
    <2>2. result.by[2] = vs
        BY Zenon, <2>1 DEF Settled, ByAll
    <2>3. ASSUME kind = "all", NEW i \in DOMAIN elems, elems[i] = "promise",
                 <<i, "reject">> \in fired
          PROVE  FALSE
        <3>1. vs[i] \in Sides /\ <<i, vs[i]>> \in called /\ <<i, vs[i]>> \in fired
            BY Zenon, <2>1 DEF ElemInv
        <3>2. vs[i] # "reject"
            BY Zenon, <2>3, <3>1 DEF OneSide, Direct
        <3> QED
            BY Zenon, <2>3, <3>1, <3>2 DEF OneSide, Sides
    <2> QED
        BY Zenon, <2>1, <2>2, <2>3
<1> QED
    BY Zenon, <1>5, <1>6, <1>7 DEF CombinatorSound

-----------------------------------------------------------------------------
(* The steps.                                                              *)

\* The invariant holds when the call begins.
LEMMA CombinatorInit == Hypotheses /\ Init => CombinatorInv
<1> SUFFICES ASSUME Hypotheses, Init PROVE CombinatorInv
    BY Zenon
<1>1. DOMAIN elems = {} /\ elems \in [1 .. 0 -> {"promise", "foreign"}] /\ DOMAIN values = {}
    BY DEF Init
<1>2. n = 0 /\ Cardinality(called) = 0
    BY Zenon, <1>1, FS_EmptySet DEF n, Init
<1>3. ElemInv
    BY <1>1 DEF ElemInv, Init, Hypotheses
<1> QED
    BY <1>1, <1>2, <1>3 DEF CombinatorInv, OneSide, ValuesInv, CountInv, ResultInv, Init

\* An element is added: it has called nothing yet.
LEMMA ElementKeepsInv ==
    ASSUME Hypotheses, CombinatorInv, NEW e \in {"promise", "foreign"}, Element(e)
    PROVE  CombinatorInv'
<1> USE DEF Hypotheses, CombinatorInv
<1>1. /\ n \in 0 .. MaxElements /\ n \in Nat /\ DOMAIN elems = 1 .. n
      /\ elems \in [1 .. n -> {"promise", "foreign"}]
    BY Zenon, Numbered
<1> DEFINE k == n + 1
<1>2. /\ k \in 0 .. MaxElements /\ k \in Nat /\ k \notin DOMAIN elems
      /\ DOMAIN elems' = 1 .. k /\ (DOMAIN elems) \cup {k} = 1 .. k
      /\ elems' \in [1 .. k -> {"promise", "foreign"}]
      /\ \A i \in DOMAIN elems : elems'[i] = elems[i]
    BY <1>1 DEF Element, Put
<1>3. n' = k
    BY Zenon, <1>2, SegmentSize DEF n
<1>4. UNCHANGED <<kind, called, result, fired>> /\ loop = "next" /\ loop' = "then"
    BY Zenon DEF Element
<1>5. \A c \in fired : c[1] # k
    BY <1>2 DEF ElemInv
<1>6. ElemInv'
    BY Zenon, <1>2, <1>4 DEF ElemInv
<1>7. OneSide'
    <2>1. \A i \in DOMAIN elems' : \A s \in Sides : <<i, s>> \in fired => i \in DOMAIN elems
        BY Zenon DEF ElemInv
    <2>2. called \subseteq fired /\ Direct' = Direct
        BY Zenon, <1>4 DEF ElemInv, Direct
    <2> QED
        BY Zenon, <1>2, <1>4, <2>1, <2>2 DEF OneSide
<1>8. ValuesInv'
    <2>1. \A i \in DOMAIN elems' : \A s \in Sides : <<i, s>> \in called => i \in DOMAIN elems
        BY Zenon DEF ElemInv
    <2>2. /\ DOMAIN values' \subseteq (DOMAIN values) \cup {k} /\ DOMAIN values \subseteq DOMAIN values'
          /\ \A i \in DOMAIN values : i # k => values'[i] = values[i]
        BY Zenon DEF Element, Put
    <2> QED
        BY Zenon, <1>2, <1>4, <2>1, <2>2 DEF ValuesInv
<1>9. CountInv'
    <2>1. kind # "race" => Cardinality(called) \in 0 .. n
        BY Zenon, CalledBound
    <2>2. remaining' = IF kind = "race" THEN remaining ELSE remaining + 1
        BY Zenon DEF Element
    <2> QED
        BY <1>1, <1>3, <1>4, <2>1, <2>2 DEF CountInv
<1>10. ResultInv'
    BY Zenon, <1>2, <1>4 DEF ResultInv
<1> QED
    BY Zenon, <1>6, <1>7, <1>8, <1>9, <1>10

\* The loop goes on: only its place changes.
LEMMA ThenReturnsKeepsInv ==
    ASSUME CombinatorInv, ThenReturns
    PROVE  CombinatorInv'
BY Zenon DEF CombinatorInv, ElemInv, OneSide, ValuesInv, CountInv, ResultInv, ThenReturns, Direct, n

\* The loop fails: the promise of the call was pending or not settled with the
\* values, since the one that is too many is still counted.
LEMMA FailsKeepsInv ==
    ASSUME CombinatorInv, Fails
    PROVE  CombinatorInv'
<1> USE DEF CombinatorInv
<1>1. /\ UNCHANGED <<kind, elems, remaining, called, values, fired>>
      /\ loop # "done" /\ loop' = "failed" /\ result' = Settle("reject", ByError)
    BY Zenon DEF Fails
<1>2. ElemInv' /\ OneSide' /\ ValuesInv' /\ CountInv'
    BY Zenon, <1>1 DEF ElemInv, OneSide, ValuesInv, CountInv, Direct, n
<1>3. ResultInv'
    BY Zenon, <1>1 DEF ResultInv, Settle, Sides
<1> QED
    BY Zenon, <1>2, <1>3

\* When the count is zero every element has called, and its value is in place.
LEMMA ZeroIsComplete ==
    ASSUME NEW m \in Nat, NEW C \in SUBSET ((1 .. m) \X Sides), NEW vals,
           \A i \in 1 .. m : \A s, t \in Sides : <<i, s>> \in C /\ <<i, t>> \in C => s = t,
           DOMAIN vals \subseteq 1 .. m,
           \A i \in 1 .. m : \A s \in Sides : <<i, s>> \in C => i \in DOMAIN vals /\ vals[i] = s,
           Cardinality(C) = m
    PROVE  DOMAIN vals = 1 .. m /\ \A i \in 1 .. m : vals[i] \in Sides /\ <<i, vals[i]>> \in C
<1>1. \A i \in 1 .. m : \E s \in Sides : <<i, s>> \in C
    BY Zenon, CallsOfElements
<1> QED
    BY Zenon, <1>1

\* The iterator is exhausted: the one that is too many is taken off.
LEMMA IteratorDoneKeepsInv ==
    ASSUME Hypotheses, CombinatorInv, IteratorDone
    PROVE  CombinatorInv'
<1> USE DEF Hypotheses, CombinatorInv
<1>1. /\ UNCHANGED <<kind, elems, called, values, fired>> /\ loop = "next" /\ loop' = "done"
      /\ remaining' = IF kind = "race" THEN remaining ELSE remaining - 1
      /\ result' = IF kind = "race" THEN result ELSE AtZero(remaining', values)
    BY Zenon DEF IteratorDone
<1>2. ElemInv' /\ OneSide' /\ ValuesInv' /\ n' = n
    BY Zenon, <1>1 DEF ElemInv, OneSide, ValuesInv, Direct, n
<1>3. n \in Nat /\ DOMAIN elems = 1 .. n
    BY Zenon, Numbered
<1>4. kind # "race" => Cardinality(called) \in 0 .. n
    BY Zenon, CalledBound
<1>5. CountInv'
    BY <1>1, <1>2, <1>3, <1>4 DEF CountInv
<1>6. ResultInv'
    <2>1. CASE result' = result
        BY Zenon, <1>1, <2>1 DEF ResultInv
    <2>2. CASE result' # result
        <3>1. kind # "race" /\ remaining' = 0
            BY Zenon, <1>1, <2>2 DEF AtZero
        <3>2. Cardinality(called) = n
            BY <1>1, <1>2, <1>3, <1>4, <1>5, <3>1 DEF CountInv
        <3>3. called \in SUBSET ((1 .. n) \X Sides)
            BY Zenon, <1>3 DEF ElemInv
        <3>4. \A i \in 1 .. n : \A s, t \in Sides : <<i, s>> \in called /\ <<i, t>> \in called => s = t
            BY Zenon, <1>3, <3>1, CalledOnce
        <3>5. /\ DOMAIN values \subseteq 1 .. n
              /\ \A i \in 1 .. n : \A s \in Sides : <<i, s>> \in called => i \in DOMAIN values /\ values[i] = s
            BY Zenon, <1>3 DEF ValuesInv
        <3>6. /\ DOMAIN values = 1 .. n
              /\ \A i \in 1 .. n : values[i] \in Sides /\ <<i, values[i]>> \in called
            <4> HIDE DEF n
            <4> QED
                BY Zenon, <1>3, <3>2, <3>3, <3>4, <3>5, ZeroIsComplete
        <3>7. \E how \in Sides : result' = Settled(how, ByAll(values))
            BY Zenon, <1>1, <2>2, <3>1 DEF AtZero, Settle, Sides
        <3> QED
            BY Zenon, <1>1, <1>3, <3>6, <3>7 DEF ResultInv
    <2> QED
        BY Zenon, <2>1, <2>2
<1> QED
    BY Zenon, <1>2, <1>5, <1>6

\* An element that counts calls its function for the first time.
LEMMA ResolveKeepsInv ==
    ASSUME Hypotheses, CombinatorInv, NEW i \in DOMAIN elems, NEW side \in Sides,
           ElemInv', OneSide', UNCHANGED <<kind, loop, elems>>,
           side \notin Direct, <<i, side>> \notin called, ResolveElement(i, side)
    PROVE  CombinatorInv'
<1> USE DEF Hypotheses, CombinatorInv
<1>1. /\ called' = called \cup {<<i, side>>} /\ values' = Put(values, i, side)
      /\ remaining' = remaining - 1 /\ result' = AtZero(remaining', values')
    BY Zenon DEF ResolveElement
<1>2. n' = n /\ n \in Nat /\ DOMAIN elems = 1 .. n /\ Direct' = Direct
    BY Zenon, Numbered DEF n, Direct
<1>3. kind # "race"
    BY Zenon DEF Direct
<1>4. \A s \in Sides : <<i, s>> \in called' => s = side
    <2>1. CASE kind = "allSettled"
        BY Zenon, <1>1, <2>1 DEF OneSide, ElemInv
    <2>2. CASE kind = "all"
        BY Zenon, <1>1, <1>2, <2>2 DEF OneSide, Direct, Sides
    <2>3. CASE kind = "any"
        BY Zenon, <1>1, <1>2, <2>3 DEF OneSide, Direct, Sides
    <2> QED
        BY Zenon, <1>3, <2>1, <2>2, <2>3 DEF ElemInv
<1>5. /\ DOMAIN values' = (DOMAIN values) \cup {i} /\ values'[i] = side
      /\ \A j \in DOMAIN values : j # i => values'[j] = values[j]
    BY Zenon, <1>1 DEF Put
<1>6. ValuesInv'
    <2>1. \A j \in DOMAIN elems : \A s \in Sides : <<j, s>> \in called' => j = i \/ <<j, s>> \in called
        BY Zenon, <1>1
    <2> QED
        BY Zenon, <1>4, <1>5, <2>1 DEF ValuesInv
<1>7. IsFiniteSet(called) /\ Cardinality(called) \in 0 .. n
    BY Zenon, <1>3, CalledBound
<1>8. Cardinality(called') = Cardinality(called) + 1
    BY Zenon, <1>1, <1>7, FS_AddElement
<1>9. CountInv'
    BY <1>1, <1>2, <1>3, <1>7, <1>8 DEF CountInv
<1>10. \A j \in 1 .. n : \A s, t \in Sides : <<j, s>> \in called' /\ <<j, t>> \in called' => s = t
    BY Zenon, <1>1, <1>2, <1>3, <1>4, CalledOnce
<1>11. called' \in SUBSET ((1 .. n) \X Sides)
    BY Zenon, <1>2 DEF ElemInv
<1>12. ResultInv'
    <2>1. CASE result' = result
        BY Zenon, <1>1, <2>1 DEF ResultInv
    <2>2. CASE result' # result
        <3>1. remaining' = 0
            BY Zenon, <1>1, <2>2 DEF AtZero
        <3>2. Cardinality(called') \in 0 .. n
            <4> HIDE DEF n
            <4> QED
                BY Zenon, <1>2, <1>10, <1>11, CallsOfElements
        <3>3. loop = "done" /\ Cardinality(called') = n
            BY <1>2, <1>3, <1>9, <3>1, <3>2 DEF CountInv
        <3>4. /\ DOMAIN values' \subseteq 1 .. n
              /\ \A j \in 1 .. n : \A s \in Sides : <<j, s>> \in called' => j \in DOMAIN values' /\ values'[j] = s
            BY Zenon, <1>2, <1>6 DEF ValuesInv
        <3>5. /\ DOMAIN values' = 1 .. n
              /\ \A j \in 1 .. n : values'[j] \in Sides /\ <<j, values'[j]>> \in called'
            <4> HIDE DEF n
            <4> QED
                BY Zenon, <1>2, <3>3, <3>4, <1>10, <1>11, ZeroIsComplete
        <3>6. \E how \in Sides : result' = Settled(how, ByAll(values'))
            BY Zenon, <1>1, <2>2, <3>1 DEF AtZero, Settle, Sides
        <3> QED
            BY Zenon, <1>2, <3>3, <3>5, <3>6 DEF ResultInv
    <2> QED
        BY Zenon, <2>1, <2>2
<1> QED
    BY Zenon, <1>6, <1>9, <1>12

\* A function that an element was given is called.
LEMMA CallKeepsInv ==
    ASSUME Hypotheses, CombinatorInv, NEW i \in DOMAIN elems, NEW side \in Sides, Call(i, side),
           elems[i] = "promise" \/ kind = "allSettled"
               => \A s \in Sides : s # side => <<i, s>> \notin fired
    PROVE  CombinatorInv'
<1> USE DEF CombinatorInv
<1>1. UNCHANGED <<kind, loop, elems>> /\ fired' = fired \cup {<<i, side>>} /\ Direct' = Direct
    BY Zenon DEF Call, Direct
<1>2. \/ called' = called
      \/ called' = called \cup {<<i, side>>} /\ side \notin Direct
    BY Zenon DEF Call, ResolveElement
<1>3. ElemInv'
    BY <1>1, <1>2 DEF ElemInv
<1>4. OneSide'
    <2>1. \A j \in DOMAIN elems : \A s \in Sides : <<j, s>> \in fired' => <<j, s>> \in fired \/ (j = i /\ s = side)
        BY Zenon, <1>1
    <2>2. \A j \in DOMAIN elems : \A s \in Sides : <<j, s>> \in called' => <<j, s>> \in called \/ s \notin Direct
        BY <1>2
    <2> QED
        BY Zenon, <1>1, <2>1, <2>2 DEF OneSide
<1>5. CASE side \in Direct
    <2>1. UNCHANGED <<remaining, called, values>> /\ result' = Settle(side, ByElem(i))
        BY Zenon, <1>5 DEF Call
    <2>2. ValuesInv' /\ CountInv'
        BY Zenon, <1>1, <2>1 DEF ValuesInv, CountInv, n
    <2>3. ResultInv'
        <3>1. CASE result' = result
            BY Zenon, <1>1, <2>1, <3>1 DEF ResultInv
        <3>2. CASE result' # result
            BY Zenon, <1>1, <2>1, <3>2 DEF ResultInv, Settle
        <3> QED
            BY Zenon, <3>1, <3>2
    <2> QED
        BY Zenon, <1>3, <1>4, <2>2, <2>3
<1>6. CASE side \notin Direct /\ <<i, side>> \in called
    <2>1. UNCHANGED <<remaining, called, values, result>>
        BY Zenon, <1>6 DEF Call, ResolveElement
    <2> QED
        BY Zenon, <1>1, <1>3, <1>4, <2>1 DEF ValuesInv, CountInv, ResultInv, n
<1>7. CASE side \notin Direct /\ <<i, side>> \notin called
    BY Zenon, <1>1, <1>3, <1>4, <1>7, ResolveKeepsInv DEF Call
<1> QED
    BY Zenon, <1>5, <1>6, <1>7

\* Every step keeps the invariant.
LEMMA CombinatorStep == Hypotheses /\ CombinatorInv /\ [Next]_vars => CombinatorInv'
<1> SUFFICES ASSUME Hypotheses, CombinatorInv, [Next]_vars PROVE CombinatorInv'
    BY Zenon
<1>1. ASSUME NEW i \in DOMAIN elems, PromiseReacts(i) PROVE CombinatorInv'
    BY Zenon, <1>1, CallKeepsInv DEF PromiseReacts
<1>2. ASSUME NEW i \in DOMAIN elems, NEW side \in Sides, ForeignCalls(i, side) PROVE CombinatorInv'
    BY Zenon, <1>2, CallKeepsInv DEF ForeignCalls, Hypotheses
<1>3. CASE UNCHANGED vars
    BY Zenon, <1>3 DEF vars, CombinatorInv, ElemInv, OneSide, ValuesInv, CountInv, ResultInv, Direct, n
<1> QED
    BY Zenon, <1>1, <1>2, <1>3, ElementKeepsInv, ThenReturnsKeepsInv, FailsKeepsInv, IteratorDoneKeepsInv
       DEF Next

\* For any number of elements, promises or objects with a `then` of their own
\* that call back when and as often as they like, in the middle of the loop as
\* well: remainingElementsCount is the number of elements still unanswered,
\* and Promise.all, allSettled and any complete with all the values in place,
\* when the iterator is exhausted and not before.
THEOREM CombinatorsAreSound ==
    ASSUME Hypotheses
    PROVE  Spec => []CombinatorSound
<1> QED
    BY CombinatorInit, CombinatorStep, InvSound, PTL DEF Spec
=============================================================================
