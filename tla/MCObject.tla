------------------------------ MODULE MCObject ------------------------------
(* JSObject for model checking. *)
EXTENDS JSObject

CONSTANTS u, f

Flags(names) == UNION {[S -> BOOLEAN] : S \in SUBSET names}
WithFlags(ds, names) == {d @@ fl : d \in ds, fl \in Flags(names)}

DataDescs ==
    WithFlags({<< >>} \cup {[value |-> x] : x \in Values}, {"w", "c"}) \cup WithFlags({<< >>}, {"e"})
LengthDescs ==
    WithFlags({<< >>} \cup {[value |-> x] : x \in Lengths}, {"w"})
      \cup {[e |-> TRUE], [c |-> TRUE], [value |-> 0, c |-> FALSE], [get |-> f]}
AccessorDescs ==
    WithFlags({[get |-> f], [set |-> f], [get |-> Undef, set |-> f], [get |-> f, set |-> Undef]}, {"e", "c"})

\* For the first element of arr every value, writability and configurability, given
\* or left out, and every accessor; for its length every value and writability; for
\* the other properties one descriptor of each kind that matters to arr.
MCDescs(o, k) ==
    CASE o = "arr" /\ k = 0 -> DataDescs \cup AccessorDescs
      [] o = "arr" /\ k = Length -> LengthDescs
      [] o = "arr" /\ k > 0 -> {[value |-> u] @@ CWE, [value |-> u, w |-> TRUE], [get |-> f, c |-> TRUE]}
      [] o = "base" /\ k = Length -> {[value |-> 0], [w |-> FALSE]}
      [] o = "base" /\ k # Length ->
           {[value |-> u] @@ CWE, [value |-> u, w |-> FALSE, c |-> TRUE], [set |-> f, c |-> TRUE]}
=============================================================================
