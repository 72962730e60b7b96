------------------------------ MODULE ESObject ------------------------------
(***************************************************************************)
(* The promise that objects make, as ECMAScript words it: the internal     *)
(* methods [[DefineOwnProperty]], [[Set]] and [[Delete]] of ordinary       *)
(* objects and arrays.  JSObject.tla is compared with this.                *)
(*                                                                         *)
(* An object is [ext, props]: whether it is extensible, and a function     *)
(* from its own keys to properties.  Keys are integers: an array index is  *)
(* itself, Length is the length of an array, and what is below it are      *)
(* other names.  A descriptor is a function whose domain is the set of the *)
(* fields that are present.                                                *)
(***************************************************************************)
EXTENDS Integers, Sequences, FiniteSets, FiniteSetsExt, Functions, TLC

CONSTANT Undef        \* undefined

Length == -1

Has(d, field)    == field \in DOMAIN d
Field(d, field, default) == IF Has(d, field) THEN d[field] ELSE default
IsAccessor(d)    == Has(d, "get") \/ Has(d, "set")
IsData(d)        == Has(d, "value") \/ Has(d, "w")
Data(v, w, e, c) == [value |-> v, w |-> w, e |-> e, c |-> c]
Getset(g, s, e, c) == [get |-> g, set |-> s, e |-> e, c |-> c]

\* A call's outcome: whether it succeeds, and the object (or heap) it leaves.
Ok(x)      == [ok |-> TRUE, o |-> x]
Refused(x) == [ok |-> FALSE, o |-> x]

PutProp(o, k, p) == [o EXCEPT !.props = (k :> p) @@ @]
DropProps(o, ks) == [o EXCEPT !.props = Restrict(@, DOMAIN @ \ ks)]

\* ValidateAndApplyPropertyDescriptor
ESCreate(d) ==
    IF IsAccessor(d)
    THEN Getset(Field(d, "get", Undef), Field(d, "set", Undef), Field(d, "e", FALSE), Field(d, "c", FALSE))
    ELSE Data(Field(d, "value", Undef), Field(d, "w", FALSE), Field(d, "e", FALSE), Field(d, "c", FALSE))

ESAllowed(cur, d) ==
    \/ cur.c
    \/ /\ ~Field(d, "c", FALSE)
       /\ Field(d, "e", cur.e) = cur.e
       /\ IsAccessor(d) => Has(cur, "get")
       /\ IsData(d) => ~Has(cur, "get")
       /\ Has(cur, "get") => Field(d, "get", cur.get) = cur.get /\ Field(d, "set", cur.set) = cur.set
       /\ ~Has(cur, "get") /\ ~cur.w =>
             ~Field(d, "w", FALSE) /\ Field(d, "value", cur.value) = cur.value

ESApply(cur, d) ==
    LET e == Field(d, "e", cur.e)
        c == Field(d, "c", cur.c)
    IN  CASE IsAccessor(d) /\ Has(cur, "get") ->
               Getset(Field(d, "get", cur.get), Field(d, "set", cur.set), e, c)
          [] IsAccessor(d) /\ ~Has(cur, "get") ->
               Getset(Field(d, "get", Undef), Field(d, "set", Undef), e, c)
          [] IsData(d) /\ Has(cur, "get") ->
               Data(Field(d, "value", Undef), Field(d, "w", FALSE), e, c)
          [] Has(cur, "get") -> [cur EXCEPT !.e = e, !.c = c]
          [] OTHER -> Data(Field(d, "value", cur.value), Field(d, "w", cur.w), e, c)

ESOrdinaryDefine(o, k, d) ==
    IF k \notin DOMAIN o.props
    THEN IF o.ext THEN Ok(PutProp(o, k, ESCreate(d))) ELSE Refused(o)
    ELSE IF ESAllowed(o.props[k], d)
         THEN Ok(PutProp(o, k, ESApply(o.props[k], d)))
         ELSE Refused(o)

ESDelete(o, k) ==
    IF k \notin DOMAIN o.props THEN Ok(o)
    ELSE IF o.props[k].c THEN Ok(DropProps(o, {k})) ELSE Refused(o)

\* ArraySetLength: elements are deleted from the end until one refuses.
ESSetLength(o, d) ==
    LET cur   == o.props[Length]
        beyond == {i \in DOMAIN o.props \ {Length} : i >= d.value}
        stuck == {i \in beyond : ~o.props[i].c}
        len   == IF stuck = {} THEN d.value ELSE Max(stuck) + 1
    IN  CASE ~Has(d, "value") \/ d.value >= cur.value -> ESOrdinaryDefine(o, Length, d)
          [] ~cur.w \/ ~ESAllowed(cur, d) -> Refused(o)
          [] OTHER -> [ok |-> stuck = {},
                       o  |-> PutProp(DropProps(o, {i \in beyond : i >= len}), Length,
                                      [cur EXCEPT !.value = len, !.w = Field(d, "w", TRUE)])]

ESDefine(o, k, d) ==
    LET len == o.props[Length]
        r   == ESOrdinaryDefine(o, k, d)
    IN  CASE Length \notin DOMAIN o.props -> r
          [] Length \in DOMAIN o.props /\ k = Length -> ESSetLength(o, d)
          [] Length \in DOMAIN o.props /\ k # Length ->
               CASE k \notin Nat -> r
                 [] k \in Nat /\ k < len.value -> r
                 [] k \in Nat /\ k >= len.value ->
                      IF ~len.w \/ ~r.ok THEN Refused(o)
                      ELSE Ok(PutProp(r.o, Length, [len EXCEPT !.value = k + 1]))

\* OrdinarySet of h[chain[1]], whose prototypes are the rest of the chain, with
\* receiver r.
ESSet(h, chain, k, v, r) ==
    LET holders == {i \in DOMAIN chain : k \in DOMAIN h[chain[i]].props}
        found   == IF holders = {} THEN Data(Undef, TRUE, TRUE, TRUE)
                   ELSE h[chain[Min(holders)]].props[k]
        own     == h[r].props[k]
        put(d)  == LET x == ESDefine(h[r], k, d) IN [ok |-> x.ok, o |-> [h EXCEPT ![r] = x.o]]
    IN  CASE Has(found, "get") -> [ok |-> found.set # Undef, o |-> h]
          [] ~Has(found, "get") /\ ~found.w -> Refused(h)
          [] OTHER -> CASE k \notin DOMAIN h[r].props ->
                             put([value |-> v, w |-> TRUE, e |-> TRUE, c |-> TRUE])
                        [] k \in DOMAIN h[r].props ->
                             IF Has(own, "get") THEN Refused(h)
                             ELSE IF ~own.w THEN Refused(h) ELSE put([value |-> v])
=============================================================================
