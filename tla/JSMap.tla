------------------------------ MODULE JSMap ------------------------------
(***************************************************************************)
(* The Map and Set objects of the engine (quickjs.c): a list of records in *)
(* the order of insertion, a hash table of chains through the same         *)
(* records, and iterators and forEach loops that lock the record they are  *)
(* at with a count, so that a record deleted under them stays in the list, *)
(* empty, until the last of them has moved on.                             *)
(***************************************************************************)
EXTENDS Integers, Sequences, SequencesExt, FiniteSets, Functions

CONSTANTS Keys,       \* the values JavaScript code uses as keys
          Class(_),   \* what js_same_value_zero compares
          Hash(_),    \* map_hash_key
          Iters,      \* iterators
          MaxAdds     \* records added in one behaviour

VARIABLES
    record,     \* the list: [n, key, ref_count, empty], n in order of creation
    chain,      \* hash_table: the numbers of the records of each chain
    count,      \* record_count
    threshold,  \* record_count_threshold
    added,      \* records created so far
    cur,        \* cur[i]: the number of the cur_record of iterator i, 0: NULL
    open,       \* the iterators whose obj is not undefined
    loop        \* the record forEach has locked, 0 outside of forEach

vars == <<record, chain, count, threshold, added, cur, open, loop>>

\* js_map_constructor
Init ==
    /\ record = <<>>
    /\ chain = <<<<>>>>
    /\ count = 0
    /\ threshold = 4
    /\ added = 0
    /\ cur = [i \in Iters |-> 0]
    /\ open = {}
    /\ loop = 0

Index(n) == CHOOSE i \in DOMAIN record : record[i].n = n
Exists(n) == \E i \in DOMAIN record : record[i].n = n
Bucket(k, table) == 1 + (Hash(k) % Len(table))

\* map_find_record: the first record of the key's chain with an equal key, 0
\* when there is none.
Find(k) ==
    LET found == SelectSeq(chain[Bucket(k, chain)],
                           LAMBDA n : Class(record[Index(n)].key) = Class(k))
    IN IF found = <<>> THEN 0 ELSE Head(found)

\* map_hash_resize: a larger table, filled again from the list.
NewSize == IF Len(chain) = 1 THEN 4 ELSE 2 * Len(chain)

\* Mutant: the index is computed for the old table.
RehashOldIndex(list) ==
    LET table == [b \in 1 .. NewSize |-> <<>>]
        filed(t, r) == IF r.empty THEN t
                       ELSE [t EXCEPT ![Bucket(r.key, chain)] = Append(@, r.n)]
    IN FoldLeft(filed, table, list)

Rehash(list) ==
    LET table == [b \in 1 .. NewSize |-> <<>>]
        filed(t, r) == IF r.empty THEN t
                       ELSE [t EXCEPT ![Bucket(r.key, t)] = Append(@, r.n)]
    IN FoldLeft(filed, table, list)

\* map_add_record
Add(k) ==
    LET r == [n |-> added + 1, key |-> k, ref_count |-> 1, empty |-> FALSE]
        list == Append(record, r)
    IN /\ added < MaxAdds
       /\ added' = added + 1
       /\ record' = list
       /\ count' = count + 1
       /\ IF count + 1 >= threshold
          THEN chain' = Rehash(list) /\ threshold' = 2 * NewSize
          ELSE /\ chain' = [chain EXCEPT ![Bucket(k, chain)] = Append(@, r.n)]
               /\ UNCHANGED threshold

\* js_map_set
Set(k) ==
    /\ \/ /\ Find(k) # 0
          /\ UNCHANGED <<record, chain, count, threshold, added>>
       \/ /\ Find(k) = 0
          /\ Add(k)
    /\ UNCHANGED <<cur, open, loop>>

\* A count of record n is given up; at zero the record leaves the list.
Decref(list, n) ==
    LET i == CHOOSE j \in DOMAIN list : list[j].n = n
    IN IF list[i].ref_count = 1 THEN RemoveAt(list, i)
       ELSE [list EXCEPT ![i].ref_count = @ - 1]

\* map_delete_record, for the records ns
DeleteRecords(ns) ==
    LET live == SelectSeq(record, LAMBDA r : r.n \in ns /\ ~r.empty)
        decref(list, r) == Decref(list, r.n)
        left == FoldLeft(decref, record, live)
    IN /\ record' = [i \in DOMAIN left |-> [left[i] EXCEPT !.empty =
                                               @ \/ left[i].n \in ns]]
       /\ chain' = [b \in DOMAIN chain |->
                       SelectSeq(chain[b], LAMBDA n : n \notin ns)]
       /\ count' = count - Len(live)

\* js_map_delete
Delete(k) ==
    /\ Find(k) # 0
    /\ DeleteRecords({Find(k)})
    /\ UNCHANGED <<threshold, added, cur, open, loop>>

\* js_map_clear
Clear ==
    /\ DeleteRecords({record[i].n : i \in DOMAIN record})
    /\ UNCHANGED <<threshold, added, cur, open, loop>>

\* js_create_map_iterator
NewIterator(i) ==
    /\ i \notin open
    /\ open' = open \cup {i}
    /\ cur' = [cur EXCEPT ![i] = 0]
    /\ UNCHANGED <<record, chain, count, threshold, added, loop>>

\* Mutant: deleted records are not skipped.
RestOfList(n) ==
    SubSeq(record, IF n = 0 THEN 1 ELSE Index(n) + 1, Len(record))

\* The records after record n, or all of them for 0, that are not empty.
Rest(n) ==
    LET from == IF n = 0 THEN 1 ELSE Index(n) + 1
    IN SelectSeq(SubSeq(record, from, Len(record)), LAMBDA r : ~r.empty)

Unlock(n, list) == IF n = 0 THEN list ELSE Decref(list, n)
Lock(n, list) ==
    [i \in DOMAIN list |-> IF list[i].n # n THEN list[i]
                           ELSE [list[i] EXCEPT !.ref_count = @ + 1]]

\* js_map_iterator_next: the next element is found before the current one is
\* given up.
IteratorNext(i) ==
    /\ i \in open
    /\ \/ /\ Rest(cur[i]) # <<>>
          /\ LET n == Head(Rest(cur[i])).n
             IN /\ record' = Lock(n, Unlock(cur[i], record))
                /\ cur' = [cur EXCEPT ![i] = n]
          /\ UNCHANGED open
       \/ /\ Rest(cur[i]) = <<>>
          /\ record' = Unlock(cur[i], record)
          /\ cur' = [cur EXCEPT ![i] = 0]
          /\ open' = open \ {i}
    /\ UNCHANGED <<chain, count, threshold, added, loop>>

\* js_map_iterator_finalizer
DropIterator(i) ==
    /\ i \in open
    /\ record' = Unlock(cur[i], record)
    /\ cur' = [cur EXCEPT ![i] = 0]
    /\ open' = open \ {i}
    /\ UNCHANGED <<chain, count, threshold, added, loop>>

\* js_map_forEach from one call of the function to the next: the first record,
\* or the one after the record that was locked during the call.
ForEachStep(n) ==
    LET rest == Rest(n)
    IN /\ loop' = IF rest = <<>> THEN 0 ELSE Head(rest).n
       /\ record' = IF rest = <<>> THEN Unlock(n, record)
                    ELSE Lock(Head(rest).n, Unlock(n, record))
       /\ UNCHANGED <<chain, count, threshold, added, cur, open>>

ForEachStarts == loop = 0 /\ ForEachStep(0)

ForEachGoesOn == loop # 0 /\ ForEachStep(loop)

\* The function throws.
ForEachThrows ==
    /\ loop # 0
    /\ record' = Unlock(loop, record)
    /\ loop' = 0
    /\ UNCHANGED <<chain, count, threshold, added, cur, open>>

Next ==
    \/ \E k \in Keys : Set(k) \/ Delete(k)
    \/ Clear
    \/ \E i \in Iters : NewIterator(i) \/ IteratorNext(i) \/ DropIterator(i)
    \/ ForEachStarts
    \/ ForEachGoesOn
    \/ ForEachThrows

Spec == Init /\ [][Next]_vars

-----------------------------------------------------------------------------
LiveRecords == {i \in DOMAIN record : ~record[i].empty}
Lockers(n) == Cardinality({i \in Iters : cur[i] = n}) + IF loop = n THEN 1 ELSE 0

TypeOK ==
    /\ added \in 0 .. MaxAdds
    /\ record \in Seq([n : 1 .. added, key : Keys, ref_count : Nat,
                       empty : BOOLEAN])
    /\ \A b \in DOMAIN chain : chain[b] \in Seq(1 .. added)
    /\ cur \in [Iters -> 0 .. added] /\ open \subseteq Iters
    /\ loop \in 0 .. added

\* A record is counted once for being in the map and once for every iterator
\* and loop that is at it, and what they are at is in the list: no iterator is
\* left at a record that has been freed, the assertion of map_decref_record
\* holds, and an empty record goes when the last one moves on.
RecordsHeld ==
    /\ \A i \in DOMAIN record :
          /\ record[i].ref_count > 0
          /\ record[i].ref_count =
                Lockers(record[i].n) + IF record[i].empty THEN 0 ELSE 1
    /\ \A i \in Iters : cur[i] # 0 => i \in open /\ Exists(cur[i])
    /\ loop # 0 => Exists(loop)

\* The hash table and the list agree: every record that is not empty is in
\* the chain of its key, once, and nothing else is; record_count counts them;
\* and a lookup finds a record just when there is one with an equal key.
TableMatchesList ==
    /\ \A i \in LiveRecords :
          Len(SelectSeq(chain[Bucket(record[i].key, chain)],
                        LAMBDA n : n = record[i].n)) = 1
    /\ FoldLeft(LAMBDA n, c : n + Len(c), 0, chain) = Cardinality(LiveRecords)
    /\ count = Cardinality(LiveRecords)
    /\ count < threshold

\* A key is found whenever the map has a record with an equal key, so no two
\* records of a map have equal keys.
LookupFinds ==
    /\ \A k \in Keys :
          (Find(k) # 0) <=> \E i \in LiveRecords : Class(record[i].key) = Class(k)
    /\ \A i, j \in LiveRecords :
          Class(record[i].key) = Class(record[j].key) => i = j

\* The map implements the order of iteration of JSMapSpec.
Abstract ==
    INSTANCE JSMapSpec WITH
        Keys <- {Class(k) : k \in Keys},
        entry <- [n \in {record[i].n : i \in LiveRecords} |->
                     Class(record[Index(n)].key)],
        pos <- cur
VisitsInOrder == Abstract!Spec
=============================================================================
