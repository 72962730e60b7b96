---------------------------- MODULE JSMapSpec ----------------------------
(***************************************************************************)
(* What a Map or a Set promises to JavaScript code that changes it while   *)
(* it is being iterated: entries are visited in the order in which they    *)
(* were added; one that is deleted before its turn is not visited, one     *)
(* that is added meanwhile is, and one that is deleted and added again     *)
(* comes again, at the end.                                                *)
(***************************************************************************)
EXTENDS Integers, FiniteSets, FiniteSetsExt

CONSTANTS Keys,    \* the keys, up to the equality of keys
          Iters,   \* iterators
          MaxAdds  \* entries added in one behaviour

VARIABLES added,   \* how many entries have been added
          entry,   \* the entries there are: number to key
          pos,     \* pos[i]: the entry iterator i is at (0: before the first)
          open,    \* the iterators that have neither ended nor been dropped
          loop     \* the entry forEach is at, 0 outside of forEach

vars == <<added, entry, pos, open, loop>>

Init ==
    /\ added = 0
    /\ entry = <<>>
    /\ pos = [i \in Iters |-> 0]
    /\ open = {}
    /\ loop = 0

Numbers == DOMAIN entry
Without(S) == [n \in Numbers \ S |-> entry[n]]

Set(k) ==
    /\ \/ /\ \E n \in Numbers : entry[n] = k
          /\ UNCHANGED <<added, entry>>
       \/ /\ ~ \E n \in Numbers : entry[n] = k
          /\ added < MaxAdds
          /\ added' = added + 1
          /\ entry' = [n \in Numbers \cup {added + 1} |->
                          IF n = added + 1 THEN k ELSE entry[n]]
    /\ UNCHANGED <<pos, open, loop>>

Delete(k) ==
    /\ entry' = Without({n \in Numbers : entry[n] = k})
    /\ UNCHANGED <<added, pos, open, loop>>

Clear ==
    /\ entry' = Without(Numbers)
    /\ UNCHANGED <<added, pos, open, loop>>

NewIterator(i) ==
    /\ i \notin open
    /\ open' = open \cup {i}
    /\ pos' = [pos EXCEPT ![i] = 0]
    /\ UNCHANGED <<added, entry, loop>>

Later(p) == {n \in Numbers : n > p}

IteratorNext(i) ==
    /\ i \in open
    /\ \/ /\ Later(pos[i]) # {}
          /\ pos' = [pos EXCEPT ![i] = Min(Later(pos[i]))]
          /\ UNCHANGED open
       \/ /\ Later(pos[i]) = {}
          /\ pos' = [pos EXCEPT ![i] = 0]
          /\ open' = open \ {i}
    /\ UNCHANGED <<added, entry, loop>>

DropIterator(i) ==
    /\ i \in open
    /\ open' = open \ {i}
    /\ pos' = [pos EXCEPT ![i] = 0]
    /\ UNCHANGED <<added, entry, loop>>

ForEachStarts ==
    /\ loop = 0
    /\ loop' = IF Later(0) = {} THEN 0 ELSE Min(Later(0))
    /\ UNCHANGED <<added, entry, pos, open>>

ForEachGoesOn ==
    /\ loop # 0
    /\ loop' = IF Later(loop) = {} THEN 0 ELSE Min(Later(loop))
    /\ UNCHANGED <<added, entry, pos, open>>

ForEachThrows ==
    /\ loop # 0
    /\ loop' = 0
    /\ UNCHANGED <<added, entry, pos, open>>

Next ==
    \/ \E k \in Keys : Set(k) \/ Delete(k)
    \/ Clear
    \/ \E i \in Iters : NewIterator(i) \/ IteratorNext(i) \/ DropIterator(i)
    \/ ForEachStarts
    \/ ForEachGoesOn
    \/ ForEachThrows

Spec == Init /\ [][Next]_vars
=============================================================================
