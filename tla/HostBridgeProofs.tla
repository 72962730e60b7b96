-------------------------- MODULE HostBridgeProofs --------------------------
(***************************************************************************)
(* For any number of isolates, any size of the table and any number of     *)
(* registrations: slots are never shared, a call reaches the callback of   *)
(* its own runtime, and the counter stays bounded.                         *)
(***************************************************************************)
EXTENDS HostBridge, FiniteSetTheorems, TLAPS

\* The time a leaf may take.
USE SMTT(30)

Claimed(i) == reg[i].pc \in {"store", "bind"}

\* A registration in progress works for an open callable, and holds a slot that
\* is its own: empty before the store, with its callback after it.
RegInv ==
    \A i \in Isolates :
        /\ reg[i].pc # "idle" => reg[i].cb \in Callbacks /\ reg[i].cb \in callables[i]
        /\ reg[i].pc = "claim" => known[i] < MaxFns
        /\ Claimed(i) => reg[i].idx \in Slots /\ reg[i].idx < count
        /\ reg[i].pc = "store" => table[reg[i].idx] = None
        /\ reg[i].pc = "bind" => table[reg[i].idx] = reg[i].cb

\* No two isolates hold the same slot.
Distinct ==
    \A i, j \in Isolates :
        Claimed(i) /\ Claimed(j) /\ reg[i].idx = reg[j].idx => i = j

\* The slots that nobody has claimed are empty.
Free == \A s \in Slots : s >= count => table[s] = None

\* The functions of a runtime lead to its own callbacks.
FnInv ==
    \A i \in Isolates : \A f \in fns[i] :
        /\ f.cb \in callables[i]
        /\ f.magic >= 0 => table[f.magic] = f.cb

\* The isolates that know that the table is full.
Over == {i \in Isolates : known[i] > MaxFns}

CountInv ==
    /\ \A i \in Isolates : known[i] <= count
    /\ count <= MaxFns + Cardinality(Over)

BridgeInv == TypeOK /\ RegInv /\ Distinct /\ Free /\ FnInv /\ CountInv /\ OwnCallback

\* The size of the table and its parts are numbers.
LEMMA Sizes == Half \in Nat /\ Half > 0 /\ MaxFns \in Nat /\ MaxFns = 2 * Half
              /\ MaxRegs \in Nat /\ None \notin Int
BY BridgeConstants DEF MaxFns

\* The conversion of a slot's index to the magic of a function keeps it when it
\* is not negative (qjs_register_host_fn, JS_NewCFunction3).
LEMMA MagicFits ==
    ASSUME NEW s \in Slots
    PROVE  Magic(s) \in -Half .. Half - 1 /\ (Magic(s) >= 0 => Magic(s) = s)
BY Sizes DEF Magic, Slots

\* A fresh table satisfies the invariant.
LEMMA InitInv == Init => BridgeInv
<1> SUFFICES ASSUME Init PROVE BridgeInv
  BY Zenon
<1> USE Sizes DEF Init
<1>1. TypeOK
  BY DEF TypeOK, Reg, Idle
<1>2. RegInv /\ Distinct /\ Free /\ FnInv /\ OwnCallback
  BY Zenon DEF RegInv, Distinct, Free, FnInv, OwnCallback, Claimed, Idle
<1>3. CountInv
  <2>1. Over = {}
    BY DEF Over
  <2> QED
    BY <2>1, FS_EmptySet DEF CountInv
<1> QED
  BY Zenon, <1>1, <1>2, <1>3 DEF BridgeInv

\* What a function of the heap reaches is its own callback, and its callable is
\* open (qjs_dispatch).
LEMMA ReachesOwn ==
    ASSUME BridgeInv, NEW i \in Isolates, NEW f \in fns[i], NEW args,
           Reaches(f, args) # None
    PROVE  Reaches(f, args) = f.cb /\ f.cb \in callables[i]
<1>1. f.magic >= 0 /\ Reaches(f, args) = table[f.magic]
  BY Zenon, Sizes DEF Reaches, ValidIndex, BridgeInv, TypeOK, Fns
<1> QED
  BY Zenon, <1>1 DEF BridgeInv, FnInv

\* Opening a runtime, starting a registration.
LEMMA StartInv ==
    ASSUME BridgeInv, NEW i \in Isolates, Create(i) \/ Register(i)
    PROVE  BridgeInv'
<1> USE Sizes
<1>1. CASE Create(i)
  <2> USE <1>1 DEF Create, ResetCallbacks, BridgeInv
  <2>1. TypeOK'
    BY Zenon DEF TypeOK
  <2>2. RegInv' /\ Distinct' /\ Free' /\ FnInv' /\ OwnCallback'
    BY Zenon DEF RegInv, Distinct, Free, FnInv, OwnCallback, Claimed
  <2>3. CountInv'
    BY Zenon DEF CountInv, Over
  <2> QED
    BY Zenon, <2>1, <2>2, <2>3
<1>2. CASE Register(i)
  <2> USE <1>2 DEF Register, BridgeInv
  <2>0. made + 1 \in Callbacks
    BY DEF TypeOK, Callbacks
  <2>1. TypeOK'
    BY <2>0 DEF TypeOK, Reg
  <2>2. \A j \in Isolates : /\ j # i => reg'[j] = reg[j] /\ callables'[j] = callables[j]
                            /\ callables[j] \subseteq callables'[j]
    BY Zenon DEF TypeOK
  <2>3. reg'[i] = [pc |-> "check", cb |-> made + 1, idx |-> None] /\ made + 1 \in callables'[i]
    BY Zenon DEF TypeOK
  <2>4. RegInv' /\ Distinct'
    BY <2>0, <2>2, <2>3 DEF RegInv, Distinct, Claimed
  <2>5. Free' /\ FnInv'
    BY <2>2 DEF Free, FnInv
  <2>6. OwnCallback'
    BY Zenon, <2>2 DEF OwnCallback, TypeOK
  <2>7. CountInv'
    BY Zenon DEF CountInv, Over
  <2> QED
    BY Zenon, <2>1, <2>4, <2>5, <2>6, <2>7
<1> QED
  BY Zenon, <1>1, <1>2

\* The end of a registration.
LEMMA ReturnType ==
    ASSUME TypeOK, NEW i \in Isolates, NEW rc \in {0, -1},
           reg[i].cb \in Callbacks, Return(i, rc)
    PROVE  /\ reg' \in [Isolates -> Reg]
           /\ returned' \in [Isolates -> [cb : Callbacks, rc : {0, -1}] \cup {None}]
           /\ reg'[i].pc = "idle"
           /\ \A j \in Isolates : j # i => reg'[j] = reg[j]
<1>1. Idle \in Reg /\ Idle.pc = "idle"
  BY Zenon DEF Idle, Reg
<1>2. [cb |-> reg[i].cb, rc |-> rc] \in [cb : Callbacks, rc : {0, -1}]
  BY Zenon
<1>3. reg \in [Isolates -> Reg] /\ returned \in [Isolates -> [cb : Callbacks, rc : {0, -1}] \cup {None}]
  BY Zenon DEF TypeOK
<1>4. reg' = [reg EXCEPT ![i] = Idle] /\ returned' = [returned EXCEPT ![i] = [cb |-> reg[i].cb, rc |-> rc]]
  BY Zenon DEF Return
<1> QED
  BY <1>1, <1>2, <1>3, <1>4, Zenon

\* The unsynchronised check may make an isolate aware that the table is full.
LEMMA CheckInv ==
    ASSUME BridgeInv, NEW i \in Isolates, Check(i)
    PROVE  BridgeInv'
<1> USE Sizes DEF BridgeInv
<1>0. PICK n \in known[i] .. count :
          /\ known' = [known EXCEPT ![i] = n]
          /\ IF HasRoom(n)
             THEN reg' = [reg EXCEPT ![i].pc = "claim"] /\ UNCHANGED returned
             ELSE Return(i, -1)
  BY Zenon DEF Check
<1>1. reg[i].pc = "check" /\ UNCHANGED <<count, table, open, fns, callables, made, call>>
  BY Zenon DEF Check
<1>2. n \in Nat /\ known[i] <= n /\ n <= count
  BY DEF TypeOK
<1>3. reg[i].cb \in Callbacks /\ reg[i].cb \in callables[i]
  BY Zenon, <1>1 DEF RegInv
<1>4. /\ \A j \in Isolates : j # i => reg'[j] = reg[j]
      /\ \/ reg'[i].pc = "claim" /\ reg'[i].cb = reg[i].cb /\ HasRoom(n)
         \/ reg'[i].pc = "idle"
  BY <1>0 DEF Return, Idle, TypeOK, Reg
<1>5. reg' \in [Isolates -> Reg] /\ returned' \in [Isolates -> [cb : Callbacks, rc : {0, -1}] \cup {None}]
  <2>1. CASE HasRoom(n)
    BY <1>0, <2>1 DEF TypeOK, Reg
  <2>2. CASE ~HasRoom(n)
    BY Zenon, <1>0, <1>3, <2>2, ReturnType
  <2> QED
    BY Zenon, <2>1, <2>2
<1>6. TypeOK'
  BY Zenon, <1>0, <1>1, <1>2, <1>5 DEF TypeOK
<1>7. RegInv' /\ Distinct'
  BY <1>0, <1>1, <1>2, <1>3, <1>4 DEF RegInv, Distinct, Claimed, HasRoom, TypeOK
<1>8. Free' /\ FnInv' /\ OwnCallback'
  BY Zenon, <1>1 DEF Free, FnInv, OwnCallback
<1>9. CountInv'
  <2>1. \A j \in Isolates : known'[j] <= count' /\ known'[j] >= known[j]
    BY <1>0, <1>1, <1>2 DEF CountInv, TypeOK
  <2>2. Over \subseteq Over'
    BY <2>1, <1>6 DEF Over, TypeOK
  <2>3. IsFiniteSet(Over')
    BY Zenon, FS_Subset, BridgeConstants DEF Over
  <2>4. Cardinality(Over) <= Cardinality(Over') /\ Cardinality(Over) \in Nat /\ Cardinality(Over') \in Nat
    BY Zenon, <2>2, <2>3, FS_Subset, FS_CardinalityType
  <2> QED
    BY <1>1, <2>1, <2>4 DEF CountInv, TypeOK
<1> QED
  BY Zenon, <1>6, <1>7, <1>8, <1>9

\* The atomic claim takes a slot nobody has, or shows the isolate that the table
\* is full; an isolate learns that only once.
LEMMA ClaimInv ==
    ASSUME BridgeInv, NEW i \in Isolates, Claim(i)
    PROVE  BridgeInv'
<1> USE Sizes DEF BridgeInv
<1>1. /\ reg[i].pc = "claim"
      /\ count' = count + 1
      /\ known' = [known EXCEPT ![i] = count + 1]
      /\ UNCHANGED <<table, open, fns, callables, made, call>>
  BY Zenon DEF Claim, FetchAndAdd
<1>2. reg[i].cb \in Callbacks /\ reg[i].cb \in callables[i] /\ known[i] < MaxFns
  BY Zenon, <1>1 DEF RegInv
<1>3. CASE count < MaxFns
  <2>1. reg' = [reg EXCEPT ![i].pc = "store", ![i].idx = count] /\ returned' = returned
    BY Zenon, <1>3 DEF Claim, FetchAndAdd, InTable
  <2>2. count \in Slots
    BY <1>3 DEF Slots, TypeOK
  <2>3. reg' \in [Isolates -> Reg]
    <3>1. [reg[i] EXCEPT !.pc = "store", !.idx = count] \in Reg
      BY ZenonT(40), <2>2 DEF TypeOK, Reg
    <3> QED
      BY Zenon, <2>1, <3>1 DEF TypeOK
  <2>4. /\ reg'[i].pc = "store" /\ reg'[i].idx = count /\ reg'[i].cb = reg[i].cb
        /\ \A j \in Isolates : j # i => reg'[j] = reg[j]
    BY Zenon, <2>1 DEF TypeOK, Reg
  <2>5. TypeOK'
    BY <1>1, <2>1, <2>3 DEF TypeOK
  <2>6. table[count] = None
    BY <2>2 DEF Free, TypeOK
  <2>7. RegInv'
    <3> SUFFICES ASSUME NEW j \in Isolates
                 PROVE  /\ reg'[j].pc # "idle" => reg'[j].cb \in Callbacks /\ reg'[j].cb \in callables'[j]
                        /\ reg'[j].pc = "claim" => known'[j] < MaxFns
                        /\ Claimed(j)' => reg'[j].idx \in Slots /\ reg'[j].idx < count'
                        /\ reg'[j].pc = "store" => table'[reg'[j].idx] = None
                        /\ reg'[j].pc = "bind" => table'[reg'[j].idx] = reg'[j].cb
      BY Zenon DEF RegInv
    <3>1. CASE j = i
      BY <1>1, <1>2, <2>2, <2>4, <2>6, <3>1 DEF TypeOK, Claimed
    <3>2. CASE j # i
      <4>1. known'[j] = known[j] /\ reg'[j] = reg[j]
        BY Zenon, <1>1, <2>4, <3>2 DEF TypeOK
      <4>2. Claimed(j) => reg[j].idx < count'
        BY <1>1 DEF RegInv, TypeOK, Slots
      <4> QED
        BY Zenon, <1>1, <4>1, <4>2 DEF RegInv, Claimed
    <3> QED
      BY Zenon, <3>1, <3>2
  <2>8. Distinct'
    <3>1. \A j \in Isolates : Claimed(j) => reg[j].idx < count
      BY Zenon DEF RegInv
    <3>2. \A j \in Isolates : Claimed(j) => reg[j].idx # count
      BY <3>1 DEF TypeOK
    <3> QED
      BY <2>4, <3>2 DEF Distinct, Claimed
  <2>9. Free'
    BY <1>1 DEF Free, TypeOK, Slots
  <2>10. FnInv' /\ OwnCallback'
    BY Zenon, <1>1 DEF FnInv, OwnCallback
  <2>11. CountInv'
    <3>1. \A j \in Isolates : known'[j] <= count'
      BY <1>1 DEF CountInv, TypeOK
    <3>2. IsFiniteSet(Over')
      BY Zenon, FS_Subset, BridgeConstants DEF Over
    <3>3. Cardinality(Over') \in Nat
      BY Zenon, <3>2, FS_CardinalityType
    <3> QED
      BY <1>1, <1>3, <3>1, <3>3 DEF CountInv, TypeOK
  <2> QED
    BY Zenon, <2>5, <2>7, <2>8, <2>9, <2>10, <2>11
<1>4. CASE ~(count < MaxFns)
  <2>1. Return(i, -1)
    BY Zenon, <1>4 DEF Claim, FetchAndAdd, InTable
  <2>2. /\ reg' \in [Isolates -> Reg]
        /\ returned' \in [Isolates -> [cb : Callbacks, rc : {0, -1}] \cup {None}]
        /\ reg'[i].pc = "idle"
        /\ \A j \in Isolates : j # i => reg'[j] = reg[j]
    BY Zenon, <1>2, <2>1, ReturnType
  <2>3. TypeOK'
    <3>1. count' \in Nat /\ known' \in [Isolates -> Nat]
      BY <1>1 DEF TypeOK
    <3> QED
      BY <1>1, <2>2, <3>1, Zenon DEF TypeOK
  <2>4. \A j \in Isolates : j # i => known'[j] = known[j]
    BY Zenon, <1>1 DEF TypeOK
  <2>5. \A j \in Isolates : Claimed(j) => reg[j].idx < count'
    BY <1>1 DEF RegInv, TypeOK, Slots
  <2>6. RegInv' /\ Distinct'
    BY <1>1, <2>2, <2>4, <2>5 DEF RegInv, Distinct, Claimed
  <2>7. Free'
    BY <1>1 DEF Free, TypeOK, Slots
  <2>9. FnInv' /\ OwnCallback'
    BY Zenon, <1>1 DEF FnInv, OwnCallback
  <2>8. CountInv'
    <3>1. \A j \in Isolates : known'[j] <= count'
      BY <1>1 DEF CountInv, TypeOK
    <3>2. i \notin Over /\ known'[i] > MaxFns
      BY <1>1, <1>2, <1>4 DEF Over, TypeOK
    <3>5. Over' = Over \cup {i}
      BY Zenon, <2>4, <3>2 DEF Over
    <3>3. IsFiniteSet(Over)
      BY Zenon, FS_Subset, BridgeConstants DEF Over
    <3>4. Cardinality(Over') = Cardinality(Over) + 1 /\ Cardinality(Over) \in Nat
      BY Zenon, <3>2, <3>5, <3>3, FS_AddElement, FS_CardinalityType
    <3> QED
      BY <1>1, <3>1, <3>4 DEF CountInv, TypeOK
  <2> QED
    BY Zenon, <2>3, <2>6, <2>7, <2>8, <2>9
<1> QED
  BY Zenon, <1>3, <1>4

\* The store fills the slot of its own registration and no other.
LEMMA StoreInv ==
    ASSUME BridgeInv, NEW i \in Isolates, Store(i)
    PROVE  BridgeInv'
<1> USE Sizes DEF BridgeInv
<1>1. /\ reg[i].pc = "store"
      /\ table' = [table EXCEPT ![reg[i].idx] = reg[i].cb]
      /\ reg' = [reg EXCEPT ![i].pc = "bind"]
      /\ UNCHANGED <<count, known, open, fns, callables, made, returned, call>>
  BY Zenon DEF Store
<1>2. /\ reg[i].cb \in Callbacks /\ reg[i].cb \in callables[i]
      /\ reg[i].idx \in Slots /\ reg[i].idx < count
      /\ table[reg[i].idx] = None
  BY Zenon, <1>1 DEF RegInv, Claimed
<1>3. /\ reg'[i].pc = "bind" /\ reg'[i].cb = reg[i].cb /\ reg'[i].idx = reg[i].idx
      /\ \A j \in Isolates : j # i => reg'[j] = reg[j]
  BY Zenon, <1>1 DEF TypeOK, Reg
<1>4. /\ table'[reg[i].idx] = reg[i].cb
      /\ \A s \in Slots : s # reg[i].idx => table'[s] = table[s]
  BY Zenon, <1>1, <1>2 DEF TypeOK
<1>5. TypeOK'
  <2>1. [reg[i] EXCEPT !.pc = "bind"] \in Reg
    BY DEF TypeOK, Reg
  <2>2. reg' \in [Isolates -> Reg] /\ table' \in [Slots -> Callbacks \cup {None}]
    BY Zenon, <1>1, <1>2, <2>1 DEF TypeOK
  <2> QED
    BY <1>1, <2>2, Zenon DEF TypeOK
<1>6. \A j \in Isolates : j # i /\ Claimed(j) =>
          /\ reg[j].idx \in Slots /\ reg[j].idx # reg[i].idx
          /\ table'[reg[j].idx] = table[reg[j].idx]
  BY Zenon, <1>1, <1>4 DEF RegInv, Distinct, Claimed
<1>7. RegInv'
  BY <1>1, <1>2, <1>3, <1>4, <1>6 DEF RegInv, Claimed
<1>8. Distinct'
  BY <1>1, <1>3 DEF Distinct, Claimed
<1>9. Free'
  BY <1>1, <1>2, <1>4 DEF Free, TypeOK, Slots
<1>10. FnInv'
  <2> SUFFICES ASSUME NEW j \in Isolates, NEW f \in fns[j]
               PROVE  f.cb \in callables[j] /\ (f.magic >= 0 => table'[f.magic] = f.cb)
    BY Zenon, <1>1 DEF FnInv
  <2>1. f.cb \in callables[j] /\ (f.magic >= 0 => table[f.magic] = f.cb)
    BY Zenon DEF FnInv
  <2>2. f \in Fns
    BY Zenon DEF TypeOK
  <2>3. f.cb # None
    BY <2>2 DEF Fns, Callbacks
  <2>4. f.magic >= 0 => f.magic \in Slots
    BY <2>2 DEF Fns, Slots
  <2> QED
    BY Zenon, <1>2, <1>4, <2>1, <2>3, <2>4
<1>11. OwnCallback' /\ CountInv'
  BY Zenon, <1>1 DEF OwnCallback, CountInv, Over
<1> QED
  BY Zenon, <1>5, <1>7, <1>8, <1>9, <1>10, <1>11

\* The function that is made leads to the slot, unless its magic is negative.
LEMMA BindInv ==
    ASSUME BridgeInv, NEW i \in Isolates, Bind(i)
    PROVE  BridgeInv'
<1> USE Sizes DEF BridgeInv
<1> DEFINE f == [magic |-> Magic(reg[i].idx), cb |-> reg[i].cb]
<1>1. reg[i].pc = "bind" /\ UNCHANGED <<count, known, table, open, callables, made, call>>
  BY Zenon DEF Bind
<1>2. /\ reg[i].cb \in Callbacks /\ reg[i].cb \in callables[i]
      /\ reg[i].idx \in Slots
      /\ table[reg[i].idx] = reg[i].cb
  BY Zenon, <1>1 DEF RegInv, Claimed
<1>3. \/ fns' = [fns EXCEPT ![i] = @ \cup {f}] /\ Return(i, 0)
      \/ fns' = fns /\ Return(i, -1)
  BY Zenon DEF Bind
<1>4. /\ reg' \in [Isolates -> Reg]
      /\ returned' \in [Isolates -> [cb : Callbacks, rc : {0, -1}] \cup {None}]
      /\ reg'[i].pc = "idle"
      /\ \A j \in Isolates : j # i => reg'[j] = reg[j]
  BY Zenon, <1>2, <1>3, ReturnType
<1>5. f \in Fns /\ f.cb = reg[i].cb /\ (f.magic >= 0 => f.magic = reg[i].idx)
  BY Zenon, <1>2, MagicFits DEF Fns
<1> HIDE DEF f
<1>6. fns' \in [Isolates -> SUBSET Fns] /\ \A j \in Isolates : fns'[j] \subseteq fns[j] \cup {g \in {f} : j = i}
  BY <1>3, <1>5 DEF TypeOK
<1>7. TypeOK'
  BY <1>1, <1>4, <1>6, Zenon DEF TypeOK
<1>8. RegInv' /\ Distinct'
  BY <1>1, <1>4 DEF RegInv, Distinct, Claimed
<1>9. Free' /\ OwnCallback' /\ CountInv'
  BY Zenon, <1>1 DEF Free, OwnCallback, CountInv, Over
<1>10. FnInv'
  <2> SUFFICES ASSUME NEW j \in Isolates, NEW g \in fns'[j]
               PROVE  g.cb \in callables[j] /\ (g.magic >= 0 => table[g.magic] = g.cb)
    BY Zenon, <1>1 DEF FnInv
  <2>1. CASE g \in fns[j]
    BY Zenon, <2>1 DEF FnInv
  <2>2. CASE g \notin fns[j]
    <3>1. g = f /\ j = i
      BY Zenon, <1>6, <2>2
    <3> QED
      BY Zenon, <1>2, <1>5, <3>1
  <2> QED
    BY Zenon, <2>1, <2>2
<1> QED
  BY Zenon, <1>7, <1>8, <1>9, <1>10

\* A call reaches the callback of its own function; closing takes the functions
\* away together with the callables they lead to.
LEMMA UseInv ==
    ASSUME BridgeInv, NEW i \in Isolates,
           (\E f \in fns[i], args \in ArgShapes : Dispatch(i, f, args)) \/ Close(i)
    PROVE  BridgeInv'
<1> USE Sizes DEF BridgeInv
<1>1. CASE \E f \in fns[i], args \in ArgShapes : Dispatch(i, f, args)
  <2>1. PICK f \in fns[i], args \in ArgShapes : Dispatch(i, f, args)
    BY Zenon, <1>1
  <2>2. /\ call' = [isolate |-> i, fn |-> f, args |-> args, text |-> Marshal(args), reached |-> Reaches(f, args)]
        /\ UNCHANGED <<count, known, table, open, reg, fns, callables, made, returned>>
    BY Zenon, <2>1 DEF Dispatch
  <2>3. Reaches(f, args) # None => Reaches(f, args) = f.cb /\ f.cb \in callables[i]
    BY Zenon, ReachesOwn
  <2>4. f \in Fns /\ Reaches(f, args) \in Callbacks \cup {None} /\ Marshal(args) \in Texts
    BY Zenon, <2>3 DEF TypeOK, Fns, Marshal, Texts
  <2>5. TypeOK'
    <3>1. call' \in [isolate : Isolates, fn : Fns, args : ArgShapes, text : Texts, reached : Callbacks \cup {None}]
      BY Zenon, <2>2, <2>4
    <3> QED
      BY <2>2, <3>1, Zenon DEF TypeOK
  <2>6. RegInv' /\ Distinct' /\ Free' /\ FnInv'
    BY Zenon, <2>2 DEF RegInv, Distinct, Free, FnInv, Claimed
  <2>7. CountInv'
    BY Zenon, <2>2 DEF CountInv, Over
  <2>8. OwnCallback'
    BY Zenon, <2>2, <2>3 DEF OwnCallback
  <2> QED
    BY Zenon, <2>5, <2>6, <2>7, <2>8
<1>2. CASE Close(i)
  <2>1. /\ reg[i].pc = "idle"
        /\ open' = open \ {i}
        /\ callables' = [callables EXCEPT ![i] = {}]
        /\ fns' = [fns EXCEPT ![i] = {}]
        /\ returned' = [returned EXCEPT ![i] = None]
        /\ call' = None
        /\ UNCHANGED <<count, known, table, reg, made>>
    BY Zenon, <1>2 DEF Close
  <2>2. \A j \in Isolates : j # i => callables'[j] = callables[j] /\ fns'[j] = fns[j]
    BY Zenon, <2>1 DEF TypeOK
  <2>3. fns'[i] = {}
    BY Zenon, <2>1 DEF TypeOK
  <2>4. TypeOK'
    BY Zenon, <2>1 DEF TypeOK
  <2>5. RegInv' /\ Distinct' /\ Free'
    BY Zenon, <2>1, <2>2 DEF RegInv, Distinct, Free, Claimed
  <2>6. FnInv'
    BY Zenon, <2>1, <2>2, <2>3 DEF FnInv
  <2>7. CountInv'
    BY Zenon, <2>1 DEF CountInv, Over
  <2>8. OwnCallback'
    BY Zenon, <2>1 DEF OwnCallback
  <2> QED
    BY Zenon, <2>4, <2>5, <2>6, <2>7, <2>8
<1> QED
  BY Zenon, <1>1, <1>2

\* The invariant is inductive.
LEMMA StepInv == BridgeInv /\ [Next]_vars => BridgeInv'
<1> SUFFICES ASSUME BridgeInv, [Next]_vars PROVE BridgeInv'
  BY Zenon
<1>1. CASE Next
  BY <1>1, StartInv, CheckInv, ClaimInv, StoreInv, BindInv, UseInv, Zenon DEF Next
<1>2. CASE UNCHANGED vars
  BY Zenon, <1>2 DEF vars, BridgeInv, TypeOK, RegInv, Distinct, Free, FnInv, CountInv, Over,
              OwnCallback, Claimed
<1> QED
  BY Zenon, <1>1, <1>2

\* The protocol of the table (qjs_register_host_fn and qjs_dispatch) keeps the
\* invariant in every process.
THEOREM BridgeInvariant == Spec => []BridgeInv
BY InitInv, StepInv, PTL DEF Spec

\* Every variable keeps its type: in particular a registration never stores
\* outside the table (the two checks of qjs_register_host_fn).
THEOREM BridgeTypes == Spec => []TypeOK
<1>1. BridgeInv => TypeOK
  BY Zenon DEF BridgeInv
<1> QED
  BY <1>1, BridgeInvariant, PTL

\* A call from JavaScript reaches the open callback that its own runtime
\* registered under the function, or throws.
THEOREM CallsReachOwnCallback == Spec => []OwnCallback
<1>1. BridgeInv => OwnCallback
  BY Zenon DEF BridgeInv
<1> QED
  BY <1>1, BridgeInvariant, PTL

\* g_callback_count passes MAX_HOST_FNS by at most one for every isolate.
THEOREM CountStaysBounded == Spec => []CountBounded
<1>1. BridgeInv => CountBounded
  <2> SUFFICES ASSUME BridgeInv PROVE CountBounded
    BY Zenon
  <2>1. Over \subseteq Isolates /\ IsFiniteSet(Isolates)
    BY Zenon, BridgeConstants DEF Over
  <2>2. Cardinality(Over) <= Cardinality(Isolates) /\ Cardinality(Over) \in Nat /\ Cardinality(Isolates) \in Nat
    BY Zenon, <2>1, FS_Subset, FS_CardinalityType
  <2> QED
    BY <2>2, Sizes DEF BridgeInv, CountInv, CountBounded, TypeOK
<1> QED
  BY <1>1, BridgeInvariant, PTL

\* A slot that is taken keeps its callback for ever, and the counter never
\* falls: no registration or reset of another isolate disturbs it.
THEOREM TakenSlotsStay == Spec => SlotsAreForever
<1>1. BridgeInv /\ [Next]_vars =>
        [ /\ count' >= count
          /\ \A s \in Slots : table[s] # None => table'[s] = table[s] ]_vars
  <2> SUFFICES ASSUME BridgeInv, Next
               PROVE  count' >= count /\ \A s \in Slots : table[s] # None => table'[s] = table[s]
    BY Zenon
  <2>0. count \in Nat
    BY Zenon DEF BridgeInv, TypeOK
  <2>1. PICK i \in Isolates :
            \/ Create(i) \/ Register(i) \/ Check(i) \/ Bind(i) \/ Close(i)
            \/ \E f \in fns[i], args \in ArgShapes : Dispatch(i, f, args)
            \/ Claim(i)
            \/ Store(i)
    BY Zenon DEF Next
  <2>2. CASE Create(i) \/ Register(i) \/ Check(i) \/ Bind(i) \/ Close(i)
             \/ \E f \in fns[i], args \in ArgShapes : Dispatch(i, f, args)
    <3>1. UNCHANGED <<count, table>>
      BY Zenon, <2>2 DEF Create, ResetCallbacks, Register, Check, Bind, Close, Dispatch
    <3> QED
      BY <2>0, <3>1
  <2>3. CASE Claim(i)
    <3>1. count' = count + 1 /\ table' = table
      BY Zenon, <2>3 DEF Claim, FetchAndAdd
    <3> QED
      BY <2>0, <3>1
  <2>4. CASE Store(i)
    <3>1. table[reg[i].idx] = None
      BY Zenon, <2>4 DEF BridgeInv, RegInv, Store
    <3>2. count' = count /\ table' = [table EXCEPT ![reg[i].idx] = reg[i].cb]
      BY Zenon, <2>4 DEF Store
    <3> QED
      BY <2>0, <3>1, <3>2 DEF BridgeInv, TypeOK
  <2> QED
    BY Zenon, <2>1, <2>2, <2>3, <2>4
<1> QED
  BY <1>1, BridgeInvariant, PTL DEF Spec, SlotsAreForever
=============================================================================
