----------------------------- MODULE HostBridge -----------------------------
(***************************************************************************)
(* The tables of host callbacks in native/quickjs_bridge.c, process-global *)
(* and shared by the runtimes of all isolates.  A registration claims a    *)
(* slot, stores the callback in it and makes a JavaScript function whose   *)
(* magic is the slot's index; a call of the function dispatches through    *)
(* the table.  Isolates run in parallel, each owns one runtime at a time.  *)
(*                                                                         *)
(* There are two tables with the same protocol: callbacks that take JSON,  *)
(* and callbacks that take a name and the bytes of a typed array.          *)
(***************************************************************************)
EXTENDS Integers, FiniteSets

CONSTANTS
    Isolates,
    Half,       \* 2^15: the magic of a C function is an int16_t
    MaxRegs,    \* bound on the registrations of a behaviour
    Lane,       \* "json" or "bytes"
    None

MaxFns == 2 * Half   \* MAX_HOST_FNS, 65536

ASSUME BridgeConstants ==
    /\ IsFiniteSet(Isolates)
    /\ Half \in Nat \ {0}
    /\ MaxRegs \in Nat
    /\ Lane \in {"json", "bytes"}
    /\ None \notin Int

Callbacks == 1 .. MaxRegs
Slots     == 0 .. MaxFns - 1

\* A JavaScript function: its magic, and the callback it was made for.
Fns  == [magic : -Half .. Half - 1, cb : Callbacks]
Reg  == [pc : {"idle", "check", "claim", "store", "bind"},
         cb : Callbacks \cup {None}, idx : Slots \cup {None}]
Idle == [pc |-> "idle", cb |-> None, idx |-> None]

\* What JavaScript passes to the function.
ArgShapes ==
    IF Lane = "json" THEN {"none", "undefined", "value", "several", "cyclic"}
    ELSE {"nameAndArray", "array", "other"}

\* What the callback is given: JSON, bytes, or a text that is not JSON.
Texts == {"json", "bytes", "[object Object]", "undefined"}

VARIABLES
    count,     \* g_callback_count
    known,     \* per isolate: a value of count that it has seen
    table,     \* g_callbacks
    open,      \* the isolates with an open runtime
    reg,       \* per isolate: the registration in progress
    fns,       \* per isolate: the functions in the heap of its runtime
    callables, \* per isolate: _callables, the NativeCallables not closed
    made,      \* number of callbacks made so far
    returned,  \* per isolate: what its last registration returned
    call       \* the last call from JavaScript: the function and what it reached

vars == <<count, known, table, open, reg, fns, callables, made, returned, call>>

TypeOK ==
    /\ count \in Nat
    /\ known \in [Isolates -> Nat]
    /\ table \in [Slots -> Callbacks \cup {None}]
    /\ open \subseteq Isolates
    /\ reg \in [Isolates -> Reg]
    /\ fns \in [Isolates -> SUBSET Fns]
    /\ callables \in [Isolates -> SUBSET Callbacks]
    /\ made \in 0 .. MaxRegs
    /\ returned \in [Isolates -> [cb : Callbacks, rc : {0, -1}] \cup {None}]
    /\ call \in [isolate : Isolates, fn : Fns, args : ArgShapes, text : Texts,
                 reached : Callbacks \cup {None}] \cup {None}

Init ==
    /\ count = 0
    /\ known = [i \in Isolates |-> 0]
    /\ table = [s \in Slots |-> None]
    /\ open = {}
    /\ reg = [i \in Isolates |-> Idle]
    /\ fns = [i \in Isolates |-> {}]
    /\ callables = [i \in Isolates |-> {}]
    /\ made = 0
    /\ returned = [i \in Isolates |-> None]
    /\ call = None

-----------------------------------------------------------------------------
\* Mutant: the table is emptied for every new runtime.
ResetCount == count' = 0

\* qjs_reset_callbacks is empty.
ResetCallbacks == UNCHANGED count

\* The constructor of QuickjsRuntime.
Create(i) ==
    /\ i \notin open
    /\ ResetCallbacks
    /\ open' = open \cup {i}
    /\ UNCHANGED <<known, table, reg, fns, callables, made, returned, call>>

\* registerHostFunction, registerHostBytesFn: make the NativeCallable and keep
\* it, then call into C.
Register(i) ==
    /\ i \in open
    /\ reg[i].pc = "idle"
    /\ made < MaxRegs
    /\ made' = made + 1
    /\ callables' = [callables EXCEPT ![i] = @ \cup {made + 1}]
    /\ reg' = [reg EXCEPT ![i] = [pc |-> "check", cb |-> made + 1, idx |-> None]]
    /\ UNCHANGED <<count, known, table, open, fns, returned, call>>

Return(i, rc) ==
    /\ reg' = [reg EXCEPT ![i] = Idle]
    /\ returned' = [returned EXCEPT ![i] = [cb |-> reg[i].cb, rc |-> rc]]

\* Mutant: registrations go on when the table is full.
NoRoomCheck(n) == TRUE

HasRoom(n) == n < MaxFns

\* The first check reads g_callback_count without synchronisation: it sees the
\* value of now, or one that is older but not older than what the isolate has
\* seen before.
Check(i) ==
    /\ reg[i].pc = "check"
    /\ \E n \in known[i] .. count :
          /\ known' = [known EXCEPT ![i] = n]
          /\ IF HasRoom(n)
             THEN reg' = [reg EXCEPT ![i].pc = "claim"] /\ UNCHANGED returned
             ELSE Return(i, -1)
    /\ UNCHANGED <<count, table, open, fns, callables, made, call>>

\* Mutant: count++ on the value that the check has read.
ReadThenWrite(i) == known[i]

\* __sync_fetch_and_add
FetchAndAdd(i) == count

InTable(idx) == idx < MaxFns

\* Claim a slot, and check again.
Claim(i) ==
    LET idx == FetchAndAdd(i) IN
    /\ reg[i].pc = "claim"
    /\ count' = idx + 1
    /\ known' = [known EXCEPT ![i] = idx + 1]
    /\ IF InTable(idx)
       THEN reg' = [reg EXCEPT ![i].pc = "store", ![i].idx = idx] /\ UNCHANGED returned
       ELSE Return(i, -1)
    /\ UNCHANGED <<table, open, fns, callables, made, call>>

Store(i) ==
    /\ reg[i].pc = "store"
    /\ table' = [table EXCEPT ![reg[i].idx] = reg[i].cb]
    /\ reg' = [reg EXCEPT ![i].pc = "bind"]
    /\ UNCHANGED <<count, known, open, fns, callables, made, returned, call>>

\* p->u.cfunc.magic = magic: the conversion of an int to an int16_t.
Magic(idx) == IF idx < Half THEN idx ELSE idx - 2 * Half

\* JS_NewCFunction2 and JS_SetPropertyStr, which fails when a script has made
\* the global property read-only.
Bind(i) ==
    /\ reg[i].pc = "bind"
    /\ \/ /\ fns' = [fns EXCEPT ![i] = @ \cup {[magic |-> Magic(reg[i].idx), cb |-> reg[i].cb]}]
          /\ Return(i, 0)
       \/ /\ Return(i, -1)
          /\ UNCHANGED fns
    /\ UNCHANGED <<count, known, table, open, callables, made, call>>

-----------------------------------------------------------------------------
\* The arguments that reach the callback; the others throw a TypeError.
Accepted(args) == args \notin {"cyclic", "array", "other"}

\* The conversion of the arguments.  Without arguments an empty object is made
\* and converted to a string, not to JSON; and undefined has no JSON form.
Marshal(args) ==
    CASE args = "none"      -> "[object Object]"
      [] args = "undefined" -> "undefined"
      [] Lane = "bytes"     -> "bytes"
      [] OTHER              -> "json"

\* The test on the index, with an atomic load of the count.
ValidIndex(magic) == 0 <= magic /\ magic < count

\* What a call of f reaches: a callback, or a TypeError is thrown.
Reaches(f, args) ==
    IF ValidIndex(f.magic) /\ table[f.magic] # None /\ Accepted(args)
    THEN table[f.magic] ELSE None

\* qjs_dispatch, qjs_bytes_dispatch: a function is called, at top level or in a
\* callback; the isolate is not inside a registration.
Dispatch(i, f, args) ==
    /\ i \in open
    /\ reg[i].pc = "idle"
    /\ f \in fns[i]
    /\ call' = [isolate |-> i, fn |-> f, args |-> args, text |-> Marshal(args),
                reached |-> Reaches(f, args)]
    /\ UNCHANGED <<count, known, table, open, reg, fns, callables, made, returned>>

\* close: the callables are closed, the context and its functions destroyed.
\* The slots are not given back.
Close(i) ==
    /\ i \in open
    /\ reg[i].pc = "idle"
    /\ open' = open \ {i}
    /\ callables' = [callables EXCEPT ![i] = {}]
    /\ fns' = [fns EXCEPT ![i] = {}]
    /\ returned' = [returned EXCEPT ![i] = None]
    /\ call' = None
    /\ UNCHANGED <<count, known, table, reg, made>>

Next ==
    \E i \in Isolates :
        \/ Create(i)
        \/ Register(i)
        \/ Check(i)
        \/ Claim(i)
        \/ Store(i)
        \/ Bind(i)
        \/ \E f \in fns[i], args \in ArgShapes : Dispatch(i, f, args)
        \/ Close(i)

Spec == Init /\ [][Next]_vars

-----------------------------------------------------------------------------
(* Properties.                                                             *)

\* A call from JavaScript that reaches a callback reaches the one that its own
\* runtime registered under that function, and its NativeCallable is open:
\* whatever other isolates register, close or reset at the same time, slots are
\* never shared.
OwnCallback ==
    call # None /\ call.reached # None =>
        /\ call.reached = call.fn.cb
        /\ call.reached \in callables[call.isolate]

\* The counter does not run away when the table is full: it passes the size of
\* the table by at most one for every isolate, so it stays far from overflow in
\* a process that goes on creating runtimes.
CountBounded == count <= MaxFns + Cardinality(Isolates)

\* Once a registration has succeeded, the slot keeps its callback for the life
\* of the process, and the counter never falls.
SlotsAreForever ==
    [][ /\ count' >= count
        /\ \A s \in Slots : table[s] # None => table'[s] = table[s] ]_vars

\* "Returns 0 on success": JavaScript can call a host function whose
\* registration returned 0.  This does not hold: the table has twice as many
\* slots as the magic has non-negative values.
SuccessMeansCallable ==
    \A i \in Isolates : returned[i] # None /\ returned[i].rc = 0 =>
        \E f \in fns[i] : f.cb = returned[i].cb /\ Reaches(f, "value") = f.cb
=============================================================================
