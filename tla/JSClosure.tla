------------------------------ MODULE JSClosure ------------------------------
(***************************************************************************)
(* Captured variables (JSVarRef in quickjs.c).  A variable that closures   *)
(* use stays in its stack frame while the frame lives; the closures share  *)
(* one JSVarRef that points there.  When the frame returns, or when the    *)
(* block of a `let` is left, the JSVarRef is closed: it takes the value    *)
(* with it.  The frames of generators and async functions are suspended,   *)
(* resumed, and dropped in the middle of their run.                        *)
(***************************************************************************)
EXTENDS Integers, Sequences, FiniteSets

CONSTANTS
    MaxFrames, MaxSlots, MaxClosures,   \* bounds: calls, variables of each, function objects
    MaxVariables,                       \* bound on variables, with those of new iterations
    Vals,                               \* values of variables; 0 is the first
    MaxWrites,                          \* bound on assignments
    None                                \* not a number

VARIABLES
    frame,    \* frame -> [status, async, slot, rc, func, owned]
    stack,    \* the frames that run, the current one last
    ref,      \* JSVarRef -> [open, frame, slot, value, rc], or None
    clos,     \* function object -> the JSVarRef of the variable it captured, or None
    variable, \* history: the variable that a slot holds now, and that a JSVarRef is for
    val,      \* history: the value last assigned to each variable
    writes    \* bound

vars == <<frame, stack, ref, clos, variable, val, writes>>

Frames   == 1 .. MaxFrames
Slots    == 1 .. MaxSlots
Closures == 1 .. MaxClosures
Refs     == Closures

Unused  == [status |-> "unused"]
Live(f) == frame[f].status \in {"running", "suspended"}
Cur     == stack[Len(stack)]
Running == stack # << >>

Init ==
    /\ frame = [f \in Frames |-> Unused]
    /\ stack = << >>
    /\ ref = [r \in Refs |-> None]
    /\ clos = [c \in Closures |-> None]
    /\ variable = [slot |-> [x \in Frames \X Slots |-> 0], ref |-> [r \in Refs |-> 0]]
    /\ val = << >>
    /\ writes = 0

\* JS_CallInternal and async_func_init: a frame whose variables are fresh.  The
\* function called, if any, gives it the variables that it captured.
NewVars(f, n) == [x \in Frames \X Slots |-> IF x[1] = f THEN n + x[2] ELSE variable.slot[x]]

\* The first that is free; which one makes no difference.
IsFirst(x, free) == x \in free /\ \A y \in free : x <= y

Call(f, async, c) ==
    /\ IsFirst(f, {g \in Frames : frame[g] = Unused})
    /\ c # None => clos[c] # None
    /\ Len(val) + MaxSlots <= MaxVariables
    /\ frame' = [frame EXCEPT ![f] = [status |-> "running", async |-> async, func |-> c,
                                      slot |-> [s \in Slots |-> 0], rc |-> 1, owned |-> TRUE]]
    /\ stack' = Append(stack, f)
    /\ variable' = [variable EXCEPT !.slot = NewVars(f, Len(val))]
    /\ val' = val \o [s \in Slots |-> 0]
    /\ UNCHANGED <<ref, clos, writes>>

\* get_var_ref for a variable of the current frame: the open JSVarRef of that
\* variable, or a new one.  One of an async frame keeps the frame alive.
OpenRefs(f, s) == {r \in Refs : ref[r] # None /\ ref[r].open /\ ref[r].frame = f /\ ref[r].slot = s}
\* Mutant: every closure gets a JSVarRef of its own.
NeverShared(f, s) == {}

Shareable(f, s) == OpenRefs(f, s)

GetVarRef(s, r) ==
    LET f == Cur
    IN  IF Shareable(f, s) # {}
        THEN /\ r \in Shareable(f, s)
             /\ ref' = [ref EXCEPT ![r].rc = @ + 1]
             /\ UNCHANGED <<frame, variable>>
        ELSE /\ IsFirst(r, {x \in Refs : ref[x] = None})
             /\ ref' = [ref EXCEPT ![r] = [open |-> TRUE, frame |-> f, slot |-> s, value |-> 0, rc |-> 1]]
             /\ frame' = [frame EXCEPT ![f].rc = IF frame[f].async THEN @ + 1 ELSE @]
             /\ variable' = [variable EXCEPT !.ref[r] = variable.slot[<<f, s>>]]

\* js_closure2: a function that captures a local variable, or one that the
\* current function captured itself.
CaptureLocal(c, s, r) ==
    /\ Running /\ IsFirst(c, {x \in Closures : clos[x] = None})
    /\ GetVarRef(s, r)
    /\ clos' = [clos EXCEPT ![c] = r]
    /\ UNCHANGED <<stack, val, writes>>

CaptureOuter(c, r) ==
    /\ Running /\ IsFirst(c, {x \in Closures : clos[x] = None})
    /\ frame[Cur].func # None /\ r = clos[frame[Cur].func]
    /\ ref' = [ref EXCEPT ![r].rc = @ + 1]
    /\ clos' = [clos EXCEPT ![c] = r]
    /\ UNCHANGED <<frame, stack, variable, val, writes>>

\* *pvalue
Value(r) == IF ref[r].open THEN frame[ref[r].frame].slot[ref[r].slot] ELSE ref[r].value

AssignLocal(s, v) ==
    /\ Running /\ writes < MaxWrites /\ writes' = writes + 1
    /\ frame' = [frame EXCEPT ![Cur].slot[s] = v]
    /\ val' = [val EXCEPT ![variable.slot[<<Cur, s>>]] = v]
    /\ UNCHANGED <<stack, ref, clos, variable>>

AssignCaptured(c, r, v) ==
    /\ clos[c] # None /\ r = clos[c] /\ writes < MaxWrites /\ writes' = writes + 1
    /\ IF ref[r].open
       THEN frame' = [frame EXCEPT ![ref[r].frame].slot[ref[r].slot] = v] /\ UNCHANGED ref
       ELSE ref' = [ref EXCEPT ![r].value = v] /\ UNCHANGED frame
    /\ val' = [val EXCEPT ![variable.ref[r]] = v]
    /\ UNCHANGED <<stack, clos, variable>>

\* The references of set rs, closed; and frame f without the references that
\* they held to it.
Closed(rs) == [r \in Refs |-> IF r \in rs THEN [ref[r] EXCEPT !.value = Value(r), !.open = FALSE] ELSE ref[r]]
Unheld(f, rs) == IF frame[f].async THEN frame[f].rc - Cardinality(rs) ELSE frame[f].rc

\* OP_close_loc: the block of a captured `let` is left.  The value stays in the
\* slot, where the next iteration of a loop finds it in a new variable.
CloseLexicalVar(s) ==
    /\ Running /\ OpenRefs(Cur, s) # {} /\ Len(val) < MaxVariables
    /\ ref' = Closed(OpenRefs(Cur, s))
    /\ frame' = [frame EXCEPT ![Cur].rc = Unheld(Cur, OpenRefs(Cur, s))]
    /\ variable' = [variable EXCEPT !.slot[<<Cur, s>>] = Len(val) + 1]
    /\ val' = Append(val, frame[Cur].slot[s])
    /\ UNCHANGED <<stack, clos, writes>>

\* Mutant: a frame returns without closing its variables.
ReturnLeavesOpen ==
    /\ Running
    /\ frame' = [frame EXCEPT ![Cur].status = "done"]
    /\ stack' = SubSeq(stack, 1, Len(stack) - 1)
    /\ UNCHANGED <<ref, clos, variable, val, writes>>

\* The frame returns or throws: close_var_refs.
Return ==
    LET rs == UNION {OpenRefs(Cur, s) : s \in Slots}
    IN  /\ Running
        /\ ref' = Closed(rs)
        /\ frame' = [frame EXCEPT ![Cur].status = "done", ![Cur].rc = Unheld(Cur, rs)]
        /\ stack' = SubSeq(stack, 1, Len(stack) - 1)
        /\ UNCHANGED <<clos, variable, val, writes>>

Suspend ==
    /\ Running /\ frame[Cur].async
    /\ frame' = [frame EXCEPT ![Cur].status = "suspended"]
    /\ stack' = SubSeq(stack, 1, Len(stack) - 1)
    /\ UNCHANGED <<ref, clos, variable, val, writes>>

\* A suspended frame whose generator is still there.
Owned(f) == frame[f].status = "suspended" /\ frame[f].owned

Resume(f) ==
    /\ Owned(f)
    /\ frame' = [frame EXCEPT ![f].status = "running"]
    /\ stack' = Append(stack, f)
    /\ UNCHANGED <<ref, clos, variable, val, writes>>

\* async_func_free: frame f loses n references.
FrameFreed(fr, f, n) ==
    LET rc == fr[f].rc - n
    IN  [fr EXCEPT ![f].rc = rc, ![f].status = IF rc = 0 THEN "freed" ELSE @]

\* The generator of a suspended frame is freed.
DropOwner(f) ==
    /\ Owned(f)
    /\ frame' = [FrameFreed(frame, f, 1) EXCEPT ![f].owned = FALSE]
    /\ UNCHANGED <<stack, ref, clos, variable, val, writes>>

\* free_var_ref for each variable of a function object that is freed.
Called(c) == \E f \in Frames : Live(f) /\ frame[f].func = c

FreeClosure(c) ==
    /\ clos[c] # None /\ ~Called(c)
    /\ LET r    == clos[c]
           last == ref[r].rc = 1
       IN  /\ ref' = [ref EXCEPT ![r] = IF last THEN None ELSE [@ EXCEPT !.rc = @ - 1]]
           /\ frame' = IF last /\ ref[r].open /\ frame[ref[r].frame].async
                       THEN FrameFreed(frame, ref[r].frame, 1) ELSE frame
    /\ clos' = [clos EXCEPT ![c] = None]
    /\ UNCHANGED <<stack, variable, val, writes>>

Next ==
    \/ \E f \in Frames, async \in BOOLEAN, c \in Closures \cup {None} : Call(f, async, c)
    \/ \E c \in Closures, s \in Slots, r \in Refs : CaptureLocal(c, s, r)
    \/ \E c \in Closures, r \in Refs : CaptureOuter(c, r)
    \/ \E s \in Slots, v \in Vals : AssignLocal(s, v)
    \/ \E c \in Closures, r \in Refs, v \in Vals : AssignCaptured(c, r, v)
    \/ \E s \in Slots : CloseLexicalVar(s)
    \/ Return \/ Suspend
    \/ \E f \in Frames : Resume(f) \/ DropOwner(f)
    \/ \E c \in Closures : FreeClosure(c)

Spec == Init /\ [][Next]_vars

(***************************************************************************)
(* Properties.                                                             *)
(***************************************************************************)
\* Functions that captured the same variable go on sharing it, and functions
\* that captured different ones never do, whatever happens to the frame it
\* was in: a captured variable has the value last assigned to it, by the frame
\* or through any of the functions.
SharedVariable ==
    /\ \A f \in Frames, s \in Slots :
          Live(f) => frame[f].slot[s] = val[variable.slot[<<f, s>>]]
    /\ \A c \in Closures :
          clos[c] # None => Value(clos[c]) = val[variable.ref[clos[c]]]

\* What a function object refers to exists: the JSVarRef is not freed, and the
\* frame that an open one points into has not returned or been freed, also when
\* the generator that owned the frame is gone.
NoDanglingRef ==
    \A c \in Closures :
        clos[c] # None => /\ ref[clos[c]] # None
                          /\ ref[clos[c]].open => Live(ref[clos[c]].frame)

\* No JSVarRef and no suspended frame outlives what refers to it.
NothingLeaks ==
    /\ \A r \in Refs : ref[r] # None => \E c \in Closures : clos[c] = r
    /\ \A f \in Frames : frame[f].status = "suspended" /\ ~Owned(f) =>
          \E s \in Slots : OpenRefs(f, s) # {}
=============================================================================
