------------------------------- MODULE MCHeap -------------------------------
(***************************************************************************)
(* Objects and their memory, for TLC: in every behaviour either scripts    *)
(* work on the properties of two objects (JSObject), or objects are made,  *)
(* dropped and collected (JSGarbage); the other part stays as it begins.   *)
(***************************************************************************)
EXTENDS MCObject

CONSTANTS o1, m1, x1, End

VARIABLES part, memory, roots, phase, cur, doomed

GC == INSTANCE JSGarbage WITH
        heap <- memory, Objs <- {o1, m1, x1}, Maps <- {m1}, Aux <- {x1},
        MaxFields <- 2, MaxRecords <- 2

gcVars == <<memory, roots, phase, cur, doomed>>

HeapInit == part \in {"objects", "garbage"} /\ Init /\ GC!Init

ObjectStep == part = "objects" /\ Next /\ UNCHANGED <<part, gcVars>>
MemoryStep == part = "garbage" /\ GC!Next /\ UNCHANGED <<part, heap>>

HeapSpec == HeapInit /\ [][ObjectStep \/ MemoryStep]_<<part, heap, gcVars>>

\* What the engine does to the properties of an object is what the abstract object
\* does, for each operation that may come next: definitions, which keep both
\* representations well formed; assignments; array methods and freezing.  See the
\* properties of these names in JSObject; they are evaluated where objects change.
DefineConforms == part = "objects" => ObjectsWellFormed /\ DefineAgrees
AssignConforms == part = "objects" => AssignAgrees
MethodsConform == part = "objects" => MethodsAgree /\ FreezeFreezes

\* What a script can reach is alive, the counts are those of the references, no
\* count falls below zero and no freed cell is used, and a weak key that is dead
\* is in no record; see the properties of these names in JSGarbage.
MemorySound ==
  GC!NoFault /\ GC!ReachableLive /\ GC!CountsExact /\ GC!WeakKeysLive

\* See JSGarbage.
GarbageFreed == GC!GarbageFreed
=============================================================================
