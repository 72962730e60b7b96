------------------------------ MODULE MCRefine ------------------------------
(***************************************************************************)
(* The components with an abstract specification, for TLC: in every        *)
(* behaviour either a pool of workers is booted and disposed of            *)
(* (AsyncEnginePool, which implements JobLedger), or a Map is changed      *)
(* while it is iterated (JSMap, which implements JSMapSpec); the other one *)
(* stays as it begins.                                                     *)
(***************************************************************************)
EXTENDS AsyncEnginePool

CONSTANTS int1, a, b, c,   \* keys of the map
          Iters, MaxAdds

VARIABLES part, record, chain, count, threshold, added, cur, open, loop

\* Two of the keys always share a chain.
Same(k) == k
HashOf(k) == CASE k = int1 -> 0 [] k = a -> 2 [] k = b -> 2 [] k = c -> 5

Map == INSTANCE JSMap WITH Keys <- {int1, a, b, c}, Class <- Same, Hash <- HashOf

mapVars == <<record, chain, count, threshold, added, cur, open, loop>>

RefineInit == part \in {"pool", "map"} /\ Init /\ Map!Init

PoolStep == part = "pool" /\ Next /\ UNCHANGED <<part, mapVars>>
MapStep  == part = "map" /\ Map!Next /\ UNCHANGED <<part, vars>>

\* Nothing tells a and b apart.
TLCModule == INSTANCE TLC
Symmetry  == TLCModule!Permutations({a, b})

RefineSpec == RefineInit /\ [][PoolStep \/ MapStep]_<<part, vars, mapVars>>

\* Records that an iterator or a loop stands on are held, the chains of the
\* table lead to just the records in the list, and a lookup finds each key.
\* See the properties of these names in JSMap.
MapIntact ==
    Map!TypeOK /\ Map!RecordsHeld /\ Map!TableMatchesList /\ Map!LookupFinds

\* See JSMap.
VisitsInOrder == Map!VisitsInOrder
=============================================================================
