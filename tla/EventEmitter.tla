---------------------------- MODULE EventEmitter ----------------------------
(***************************************************************************)
(* One EventEmitter of the `events` module (lib/src/node_compat_async.dart)*)
(* used by scripts whose listeners call the emitter again.                 *)
(*                                                                         *)
(* The lists of listeners are objects: emit and the calls that add a       *)
(* listener hold on to a list while other code runs, and                   *)
(* removeAllListeners takes it out of the table.  So the table maps a type *)
(* to a list, and the lists are kept apart.                                *)
(***************************************************************************)
EXTENDS Integers, Sequences, SequencesExt, FiniteSetsExt

CONSTANTS
    Types,      \* event types, "newListener" and "removeListener" may be among them
    Listeners,  \* listener functions
    MaxEntries, \* bound on registrations
    MaxLists,   \* bound on lists
    MaxDepth,   \* bound on nested activities
    Calls,      \* the methods that scripts call
    None

Meta == {"newListener", "removeListener"}

Ids   == 1 .. MaxEntries
Lists == 1 .. MaxLists

\* The activities on the stack: a listener runs; emit calls the entries of a
\* snapshot of a list, from the i-th on; a registration is to be completed; a
\* once-wrapper is to call its listener.
Run(l)                == [act |-> "run", listener |-> l]
Emitting(t, n, ids)   == [act |-> "emit", type |-> t, list |-> n, calls |-> ids]
Adding(n, e, prepend) == [act |-> "add", list |-> n, entry |-> e, prepend |-> prepend]
Wrapper(l)            == [act |-> "wrap", listener |-> l]

VARIABLES
    events,   \* _ncEvents: the list of each type, or None
    lists,    \* the lists made so far
    entries,  \* the registrations made so far
    stack,    \* the activities, the running one last
    started,  \* history: how often each once-registration was called
    cause     \* history: why the last step took an entry out of a list

vars == <<events, lists, entries, stack, started, cause>>

Entry == [type : Types, listener : Listeners, once : BOOLEAN]

TypeOK ==
    /\ events \in [Types -> Lists \cup {None}]
    /\ lists \in Seq(Seq(Ids)) /\ Len(lists) <= MaxLists
    /\ entries \in Seq(Entry) /\ Len(entries) <= MaxEntries
    /\ \A n \in DOMAIN lists : \A k \in DOMAIN lists[n] : lists[n][k] \in DOMAIN entries
    /\ \A t \in Types : events[t] # None => events[t] \in DOMAIN lists
    /\ started \in [Ids -> Nat]

Init ==
    /\ events = [t \in Types |-> None]
    /\ lists = << >>
    /\ entries = << >>
    /\ stack = << >>
    /\ started = [e \in Ids |-> 0]
    /\ cause = None

Depth == Len(stack)
Top   == stack[Depth]
Below == SubSeq(stack, 1, Depth - 1)

Doing(act) == Depth > 0 /\ Top.act = act

\* A script runs: at top level or as a listener.
InScript(call) == call \in Calls /\ (Depth = 0 \/ Doing("run")) /\ Depth < MaxDepth

\* The entries of a type that are registered now.
Registered(t) == IF events[t] = None THEN << >> ELSE lists[events[t]]

-----------------------------------------------------------------------------
\* emit(t) from the activity st, with the lists ls: the listeners are called
\* from a copy of the list; without listeners nothing happens.
Emit(st, t, ls) ==
    IF t \in Types /\ events[t] # None /\ ls[events[t]] # << >>
    THEN Append(st, Emitting(t, events[t], ls[events[t]]))
    ELSE st

\* Mutant: the listener is not compared.
AnyMatch(list, l) == DOMAIN list

\* The registrations of a listener in a list.
Matches(list, l) == {k \in DOMAIN list : entries[list[k]].listener = l}

\* off(t, l) from the activity st: the first registration of l is taken out, and
\* 'removeListener' is emitted.
OffFrom(st, t, ls, l) ==
    IF events[t] # None /\ Matches(ls[events[t]], l) # {}
    THEN LET less == [ls EXCEPT ![events[t]] = RemoveAt(@, Min(Matches(@, l)))] IN
         /\ lists' = less
         /\ stack' = Emit(st, "removeListener", less)
    ELSE lists' = ls /\ stack' = st

\* The list of a type, made when there is none.
ListFor(t) == IF events[t] = None THEN Len(lists) + 1 ELSE events[t]

Put(list, e, prepend) == IF prepend THEN <<e>> \o list ELSE Append(list, e)

\* Mutant: anything is registered.
NoCheck(l) == TRUE

IsFunction(l) == l \in Listeners

\* on, prependListener, once, prependOnceListener: the list is looked up, then
\* 'newListener' is emitted (prependOnceListener does not emit it), then the
\* entry is added to that list.
Add(t, l, once, prepend) ==
    LET n     == ListFor(t)
        e     == Len(entries) + 1
        ls    == IF n > Len(lists) THEN Append(lists, << >>) ELSE lists
        after == IF t \in Meta \/ (once /\ prepend)
                 THEN stack ELSE Emit(Append(stack, Adding(n, e, prepend)), "newListener", ls)
    IN
    /\ IsFunction(l)
    /\ e <= MaxEntries /\ n <= MaxLists
    /\ entries' = Append(entries, [type |-> t, listener |-> l, once |-> once])
    /\ events' = [events EXCEPT ![t] = n]
    /\ IF Len(after) > Depth + 1
       THEN stack' = after /\ lists' = ls
       ELSE stack' = stack /\ lists' = [ls EXCEPT ![n] = Put(@, e, prepend)]
    /\ cause' = None
    /\ UNCHANGED started

On(t, l)                  == InScript("on") /\ Add(t, l, FALSE, FALSE)
PrependListener(t, l)     == InScript("prependListener") /\ Add(t, l, FALSE, TRUE)
Once(t, l)                == InScript("once") /\ Add(t, l, TRUE, FALSE)
PrependOnceListener(t, l) == InScript("prependOnceListener") /\ Add(t, l, TRUE, TRUE)

\* The listeners of 'newListener' have returned: the entry is added.
AddNow ==
    /\ Doing("add")
    /\ lists' = [lists EXCEPT ![Top.list] = Put(@, Top.entry, Top.prepend)]
    /\ stack' = Below
    /\ cause' = None
    /\ UNCHANGED <<events, entries, started>>

Off(t, l) ==
    /\ InScript("off")
    /\ OffFrom(stack, t, lists, l)
    /\ cause' = [call |-> "off", type |-> t, listener |-> l]
    /\ UNCHANGED <<events, entries, started>>

RemoveAllListeners(t) ==
    /\ InScript("removeAllListeners")
    /\ events[t] # None
    /\ events' = [events EXCEPT ![t] = None]
    /\ cause' = None
    /\ UNCHANGED <<lists, entries, stack, started>>

RemoveAll ==
    /\ InScript("removeAll")
    /\ events' = [t \in Types |-> None]
    /\ cause' = None
    /\ UNCHANGED <<lists, entries, stack, started>>

EmitCall(t) ==
    /\ InScript("emit")
    /\ Registered(t) # << >>
    /\ stack' = Emit(stack, t, lists)
    /\ cause' = None
    /\ UNCHANGED <<events, lists, entries, started>>

\* An exception leaves every activity up to a script that catches it.
Unwind ==
    /\ \E d \in 0 .. Depth - 1 :
          /\ d > 0 => stack[d].act = "run"
          /\ stack' = SubSeq(stack, 1, d)
    /\ cause' = None
    /\ UNCHANGED <<events, lists, entries, started>>

\* A listener throws; or it emits 'error', to which nobody listens.
Throw     == InScript("throw") /\ Unwind
EmitError == InScript("emit") /\ "error" \in Types /\ Registered("error") = << >> /\ Unwind

\* Mutant: a once-registration stays in the list while its wrapper runs.
KeepEntry(list, e) == list

\* list.indexOf(entry), list.splice(idx, 1)
Without(list, e) == SelectSeq(list, LAMBDA x : x # e)

\* emit calls the next entry.  A once-registration is taken out of the list of
\* this emit, and its wrapper then calls off with its listener.
CallNext ==
    /\ Doing("emit") /\ Top.calls # << >>
    /\ LET e    == Head(Top.calls)
           l    == entries[e].listener
           rest == Append(Below, [Top EXCEPT !.calls = Tail(@)])
       IN
       IF entries[e].once
       THEN /\ OffFrom(Append(rest, Wrapper(l)), Top.type,
                       [lists EXCEPT ![Top.list] = Without(@, e)], l)
            /\ started' = [started EXCEPT ![e] = @ + 1]
            /\ cause' = [call |-> "once", entry |-> e]
       ELSE /\ stack' = Append(rest, Run(l))
            /\ cause' = None
            /\ UNCHANGED <<lists, started>>
    /\ UNCHANGED <<events, entries>>

\* The wrapper calls the listener.
WrapperCalls ==
    /\ Doing("wrap")
    /\ stack' = Append(Below, Run(Top.listener))
    /\ cause' = None
    /\ UNCHANGED <<events, lists, entries, started>>

\* A listener returns; emit returns.
Return ==
    /\ Doing("run") \/ (Doing("emit") /\ Top.calls = << >>)
    /\ stack' = Below
    /\ cause' = None
    /\ UNCHANGED <<events, lists, entries, started>>

\* What scripts pass as a listener: a function, or something else.
Arguments == Listeners \cup {None}

Next ==
    \/ \E t \in Types, l \in Arguments :
          \/ On(t, l) \/ PrependListener(t, l)
          \/ Once(t, l) \/ PrependOnceListener(t, l)
    \/ \E t \in Types, l \in Listeners : Off(t, l)
    \/ \E t \in Types : RemoveAllListeners(t) \/ EmitCall(t)
    \/ RemoveAll
    \/ AddNow \/ CallNext \/ WrapperCalls \/ Return
    \/ Throw \/ EmitError

Spec == Init /\ [][Next]_vars

-----------------------------------------------------------------------------
(* Properties.                                                             *)

InAList(e, ls) == \E n \in DOMAIN ls : e \in Range(ls[n])

\* A once-registration whose wrapper has been called is in no list any more,
\* whichever nested calls of emit, off and once its listener makes and however
\* it ends.
OnceGone == \A e \in Ids : started[e] > 0 => ~InAList(e, lists)

\* A registration leaves its list only because of a call of off for its type
\* and listener, or because a once-registration of that listener was called;
\* off takes one registration at most.
LeavesForAReason ==
    [][ LET gone == {e \in Ids : InAList(e, lists) /\ ~InAList(e, lists')} IN
        /\ \A e \in gone :
              \/ cause'.call = "off" /\ entries[e].type = cause'.type
                    /\ entries[e].listener = cause'.listener
              \/ cause'.call = "once" /\ entries[e].type = entries[cause'.entry].type
                    /\ entries[e].listener = entries[cause'.entry].listener
        /\ gone # {} /\ cause'.call = "off" => \E e \in Ids : gone = {e} ]_vars

\* The comment on the emitter says that it "is 1:1 with Node", where a listener
\* that was added with once is called at most once.  This does not hold: emit
\* goes on with its copy of the list after a nested emit has called it.
OnceOnce == \A e \in Ids : started[e] <= 1
=============================================================================
