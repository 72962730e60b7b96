---------------------------- MODULE JSPromise ----------------------------
(***************************************************************************)
(* Promises, their jobs and async functions of the engine (quickjs.c).     *)
(* JavaScript code is the environment: while one of its frames is on top   *)
(* of the stack it creates promises, calls the resolving functions it      *)
(* holds, registers reactions, calls async functions, returns or throws.   *)
(* A host function called from JavaScript may drain the job queue, so a    *)
(* job may start on top of any frame of JavaScript code.                   *)
(***************************************************************************)
EXTENDS Integers, Sequences, FiniteSets

CONSTANTS MaxPromises,   \* promises created in one behaviour
          MaxReactions,  \* calls of perform_promise_then
          MaxAsync,      \* calls of async functions
          MaxPairs,      \* pairs of resolving functions
          MaxDepth       \* frames on the stack

ASSUME BoundsAssumption ==
    /\ MaxPromises \in Nat /\ MaxReactions \in Nat
    /\ MaxAsync \in Nat /\ MaxPairs \in Nat /\ MaxDepth \in Nat

VARIABLES promise,   \* promise[p]: [state, result, reactions, visible]
          pair,      \* pair[p]: the resolving functions of p not yet used up
          jobs,      \* the job queue of the runtime
          stack,     \* frames of JavaScript code and of the C code it waits in
          fn,        \* fn[f]: calls of async functions, [pair, state]
          registered,\* how many reactions have been registered
          ran        \* history: <<number, promise>> of the reactions whose
                     \* jobs have started

vars == <<promise, pair, jobs, stack, fn, registered, ran>>

\* What a promise is resolved with: a value without a callable "then", an
\* object whose "then" is found by JavaScript code, or the promise p.
Plain == 0
Foreign == -1
Promises == 1 .. Len(promise)
Visible == {p \in Promises : promise[p].visible}
Values == {Plain, Foreign} \cup Visible

\* js_create_resolving_functions: a pair of functions sharing already_resolved
NewPair(p, held) == [promise |-> p, resolved |-> FALSE, held |-> held]
NoPair == 0
Pairs == 1 .. Len(pair)

NewPromise(visible) ==
    [state |-> "pending", result |-> Plain, reactions |-> <<>>,
     visible |-> visible]

\* JSPromiseReactionData. n numbers the reactions, on is the promise it was
\* registered on; handler says for which outcome JavaScript code is called. What comes out
\* feeds the functions of cap; the reaction of an await resumes f instead.
Reaction(p, handler, cap, f) ==
    [n |-> registered + 1, on |-> p, handler |-> handler, cap |-> cap, f |-> f]

ReactionJob(r, isReject, v) ==
    [type |-> "reaction", r |-> r, reject |-> isReject, arg |-> v]

ThenableJob(p, v) == [type |-> "thenable", promise |-> p, arg |-> v]

\* Frames: "script", "handler", "getter", "thenable", "executor" and "async"
\* run JavaScript code; "await" is js_async_function_resume while the "then"
\* of the awaited object is looked up.
Frame(at, r, f, p) == [at |-> at, pair |-> r, f |-> f, promise |-> p]
Top == stack[Len(stack)]
Below == SubSeq(stack, 1, Len(stack) - 1)
InUserCode == stack # <<>> /\ Top.at # "await"

\* The bounds, less what work under way is going to use up.
Count(s, Test(_)) == Len(SelectSeq(s, Test))
CanReact ==
    registered + Count(stack, LAMBDA x : x.at = "await")
      + Count(jobs, LAMBDA j : j.type = "thenable" /\ j.arg # Foreign)
    < MaxReactions
CanPair == Len(pair) + Count(jobs, LAMBDA j : j.type = "thenable") < MaxPairs

Init ==
    /\ promise = <<>>
    /\ pair = <<>>
    /\ jobs = <<>>
    /\ stack = <<>>
    /\ fn = <<>>
    /\ registered = 0
    /\ ran = {}

-----------------------------------------------------------------------------
(* The operations of the engine. q is the job queue and st the stack that  *)
(* the operation finds.                                                    *)

\* fulfill_or_reject_promise: a no-op on a promise that is not pending.
Settle(p, isReject, v, q) ==
    \/ /\ promise[p].state = "pending"
       /\ promise' = [promise EXCEPT
              ![p].state = IF isReject THEN "rejected" ELSE "fulfilled",
              ![p].result = v,
              ![p].reactions = <<>>]
       /\ jobs' = q \o [i \in DOMAIN promise[p].reactions |->
                          ReactionJob(promise[p].reactions[i], isReject, v)]
    \/ /\ promise[p].state # "pending"
       /\ jobs' = q
       /\ UNCHANGED promise

Push(st, frame) ==
    /\ Len(st) < MaxDepth
    /\ stack' = Append(st, frame)

\* js_promise_resolve_function_call after its test of already_resolved.
Resolve(p, isReject, v, q, st) ==
    \/ /\ isReject \/ v = Plain
       /\ Settle(p, isReject, v, q)
       /\ stack' = st
    \/ /\ ~isReject /\ v = p
       /\ Settle(p, TRUE, Plain, q)
       /\ stack' = st
    \/ /\ ~isReject /\ v = Foreign
       /\ Push(st, Frame("getter", NoPair, 0, p))
       /\ jobs' = q
       /\ UNCHANGED promise
    \/ /\ ~isReject /\ v \in Promises \ {p}
       /\ CanReact /\ CanPair
       /\ jobs' = Append(q, ThenableJob(p, v))
       /\ stack' = st
       /\ UNCHANGED promise

\* Mutant: already_resolved is not tested.
CallResolvingAgain(r, isReject, v, q, st) ==
    \/ /\ r = NoPair
       /\ jobs' = q
       /\ stack' = st
       /\ UNCHANGED <<promise, pair>>
    \/ /\ r # NoPair
       /\ pair' = [pair EXCEPT ![r].resolved = TRUE]
       /\ Resolve(pair[r].promise, isReject, v, q, st)

\* js_promise_resolve_function_call
CallResolving(r, isReject, v, q, st) ==
    \/ /\ r = NoPair \/ pair[r].resolved
       /\ jobs' = q
       /\ stack' = st
       /\ UNCHANGED <<promise, pair>>
    \/ /\ r # NoPair /\ ~pair[r].resolved
       /\ pair' = [pair EXCEPT ![r].resolved = TRUE]
       /\ Resolve(pair[r].promise, isReject, v, q, st)

\* Mutant: a reaction is added at the head of the list.
PerformThenAtHead(ps, p, r, q) ==
    /\ registered' = registered + 1
    /\ \/ /\ ps[p].state = "pending"
          /\ promise' = [ps EXCEPT ![p].reactions = <<r>> \o @]
          /\ jobs' = q
       \/ /\ ps[p].state # "pending"
          /\ promise' = ps
          /\ jobs' = Append(q, ReactionJob(r, ps[p].state = "rejected",
                                              ps[p].result))

\* perform_promise_then, on promise p of the promises ps.
PerformThen(ps, p, r, q) ==
    /\ registered' = registered + 1
    /\ \/ /\ ps[p].state = "pending"
          /\ promise' = [ps EXCEPT ![p].reactions = Append(@, r)]
          /\ jobs' = q
       \/ /\ ps[p].state # "pending"
          /\ promise' = ps
          /\ jobs' = Append(q, ReactionJob(r, ps[p].state = "rejected",
                                              ps[p].result))

-----------------------------------------------------------------------------
(* The host: an evaluation, or one pass of JS_ExecutePendingJob.           *)

StartScript ==
    /\ stack = <<>>
    /\ stack' = <<Frame("script", NoPair, 0, 0)>>
    /\ UNCHANGED <<promise, pair, jobs, fn, registered, ran>>

CanRunJob(type) ==
    /\ stack = <<>> \/ InUserCode
    /\ jobs # <<>>
    /\ Head(jobs).type = type

StartReaction(r) == ran' = ran \cup {<<r.n, r.on>>}

\* Mutant: without a handler the job ends before the functions of the
\* capability are called.
RunPassThroughDrops ==
    /\ CanRunJob("reaction")
    /\ LET j == Head(jobs)
       IN /\ j.r.f = 0
          /\ j.reject \notin j.r.handler
          /\ StartReaction(j.r)
    /\ jobs' = Tail(jobs)
    /\ UNCHANGED <<promise, pair, stack, fn, registered>>

\* promise_reaction_job without a handler for this outcome
RunPassThrough ==
    /\ CanRunJob("reaction")
    /\ LET j == Head(jobs)
       IN /\ j.r.f = 0
          /\ j.reject \notin j.r.handler
          /\ StartReaction(j.r)
          /\ CallResolving(j.r.cap, j.reject, j.arg, Tail(jobs), stack)
    /\ UNCHANGED <<fn, registered>>

\* promise_reaction_job with a handler
RunHandler ==
    /\ CanRunJob("reaction")
    /\ LET j == Head(jobs)
       IN /\ j.r.f = 0
          /\ j.reject \in j.r.handler
          /\ StartReaction(j.r)
          /\ Push(stack, Frame("handler", j.r.cap, 0, 0))
    /\ jobs' = Tail(jobs)
    /\ UNCHANGED <<promise, pair, fn, registered>>

\* promise_reaction_job with js_async_function_resolve_call as its handler
RunResume ==
    /\ CanRunJob("reaction")
    /\ LET r == Head(jobs).r
       IN /\ r.f # 0
          /\ StartReaction(r)
          /\ Push(stack, Frame("async", NoPair, r.f, 0))
          /\ fn' = [fn EXCEPT ![r.f].state = "running"]
    /\ jobs' = Tail(jobs)
    /\ UNCHANGED <<promise, pair, registered>>

\* js_promise_resolve_thenable_job for a promise: its "then" is
\* js_promise_then, whose derived promise nobody can reach.
RunThenablePromise ==
    /\ CanRunJob("thenable")
    /\ LET j == Head(jobs)
           r == Len(pair) + 1
       IN /\ j.arg \in Promises
          /\ pair' = Append(pair, NewPair(j.promise, FALSE))
          /\ PerformThen(promise, j.arg, Reaction(j.arg, {}, r, 0), Tail(jobs))
    /\ UNCHANGED <<stack, fn, ran>>

\* js_promise_resolve_thenable_job for another object: JavaScript code gets
\* the two functions.
RunThenableForeign ==
    /\ CanRunJob("thenable")
    /\ Head(jobs).arg = Foreign
    /\ pair' = Append(pair, NewPair(Head(jobs).promise, TRUE))
    /\ Push(stack, Frame("thenable", Len(pair) + 1, 0, 0))
    /\ jobs' = Tail(jobs)
    /\ UNCHANGED <<promise, fn, registered, ran>>

-----------------------------------------------------------------------------
(* What JavaScript code does.                                              *)

CanCreate == InUserCode /\ Len(promise) < MaxPromises /\ CanPair

\* js_promise_constructor up to the call of the executor
Construct ==
    /\ CanCreate
    /\ promise' = Append(promise, NewPromise(TRUE))
    /\ pair' = Append(pair, NewPair(Len(promise) + 1, TRUE))
    /\ Push(stack, Frame("executor", Len(pair) + 1, 0, 0))
    /\ UNCHANGED <<jobs, fn, registered, ran>>

\* js_promise_withResolvers
WithResolvers ==
    /\ CanCreate
    /\ promise' = Append(promise, NewPromise(TRUE))
    /\ pair' = Append(pair, NewPair(Len(promise) + 1, TRUE))
    /\ UNCHANGED <<jobs, stack, fn, registered, ran>>

\* A call of a resolving function that JavaScript code holds.
CallHeld ==
    /\ InUserCode
    /\ \E r \in Pairs, isReject \in BOOLEAN, v \in Values :
          /\ pair[r].held
          /\ isReject => v = Plain
          /\ CallResolving(r, isReject, v, jobs, stack)
    /\ UNCHANGED <<fn, registered, ran>>

\* js_promise_then; js_promise_catch is the case of {TRUE}
Then ==
    /\ CanCreate /\ CanReact
    /\ \E p \in Visible, handler \in SUBSET BOOLEAN :
          PerformThen(Append(promise, NewPromise(TRUE)), p,
                      Reaction(p, handler, Len(pair) + 1, 0), jobs)
    /\ pair' = Append(pair, NewPair(Len(promise) + 1, FALSE))
    /\ UNCHANGED <<stack, fn, ran>>

\* js_async_function_call up to the first statement of the function
AsyncCall ==
    /\ CanCreate /\ Len(fn) < MaxAsync
    /\ promise' = Append(promise, NewPromise(TRUE))
    /\ pair' = Append(pair, NewPair(Len(promise) + 1, FALSE))
    /\ fn' = Append(fn, [pair |-> Len(pair) + 1, state |-> "running"])
    /\ Push(stack, Frame("async", NoPair, Len(fn) + 1, 0))
    /\ UNCHANGED <<jobs, registered, ran>>

InAsync == stack # <<>> /\ Top.at = "async"

\* js_async_function_resume at an await of a promise
AwaitPromise ==
    /\ InAsync /\ CanReact
    /\ \E p \in Visible :
          PerformThen(promise, p, Reaction(p, {}, NoPair, Top.f), jobs)
    /\ fn' = [fn EXCEPT ![Top.f].state = "awaiting"]
    /\ stack' = Below
    /\ UNCHANGED <<pair, ran>>

\* js_async_function_resume at an await of a value that is not an object
AwaitPlain ==
    /\ InAsync /\ CanCreate /\ CanReact
    /\ LET p == Len(promise) + 1
           settled == [NewPromise(FALSE) EXCEPT !.state = "fulfilled"]
       IN /\ PerformThen(Append(promise, settled), p,
                         Reaction(p, {}, NoPair, Top.f), jobs)
          /\ pair' = Append(pair, [NewPair(p, FALSE) EXCEPT !.resolved = TRUE])
    /\ fn' = [fn EXCEPT ![Top.f].state = "awaiting"]
    /\ stack' = Below
    /\ UNCHANGED ran

\* js_async_function_resume at an await of another object: js_promise_resolve
\* looks up its "then" before perform_promise_then is reached.
AwaitForeign ==
    /\ InAsync /\ CanCreate /\ CanReact
    /\ LET p == Len(promise) + 1
       IN /\ promise' = Append(promise, NewPromise(FALSE))
          /\ pair' = Append(pair, [NewPair(p, FALSE) EXCEPT !.resolved = TRUE])
          /\ Push(Append(Below, Frame("await", NoPair, Top.f, p)),
                  Frame("getter", NoPair, 0, p))
    /\ UNCHANGED <<jobs, fn, registered, ran>>

AwaitThen ==
    /\ stack # <<>> /\ Top.at = "await"
    /\ PerformThen(promise, Top.promise,
                   Reaction(Top.promise, {}, NoPair, Top.f), jobs)
    /\ fn' = [fn EXCEPT ![Top.f].state = "awaiting"]
    /\ stack' = Below
    /\ UNCHANGED <<pair, ran>>

\* Mutant: the exception is dropped and the result never settled.
AwaitFailsSilently ==
    /\ InAsync /\ Visible # {}
    /\ fn' = [fn EXCEPT ![Top.f].state = "abandoned"]
    /\ stack' = Below
    /\ UNCHANGED <<promise, pair, jobs, registered, ran>>

\* js_async_function_resume when js_promise_resolve throws (the awaited
\* promise has a "constructor" that throws): the result is rejected and the
\* function stays where it is.
AwaitFails ==
    /\ InAsync /\ Visible # {}
    /\ fn' = [fn EXCEPT ![Top.f].state = "abandoned"]
    /\ CallResolving(fn[Top.f].pair, TRUE, Plain, jobs, Below)
    /\ UNCHANGED <<registered, ran>>

\* js_async_function_resume when the function returns or throws
AsyncEnd ==
    /\ InAsync
    /\ fn' = [fn EXCEPT ![Top.f].state = "completed"]
    /\ \E isReject \in BOOLEAN, v \in Values :
          /\ isReject => v = Plain
          /\ CallResolving(fn[Top.f].pair, isReject, v, jobs, Below)
    /\ UNCHANGED <<registered, ran>>

\* promise_reaction_job after its handler
HandlerEnd ==
    /\ stack # <<>> /\ Top.at = "handler"
    /\ \E isReject \in BOOLEAN, v \in Values :
          /\ isReject => v = Plain
          /\ CallResolving(Top.pair, isReject, v, jobs, Below)
    /\ UNCHANGED <<fn, registered, ran>>

\* js_promise_constructor after the executor, js_promise_resolve_thenable_job
\* after "then": an exception goes to the reject function.
CalleeEnd ==
    /\ stack # <<>> /\ Top.at \in {"executor", "thenable"}
    /\ \/ CallResolving(Top.pair, TRUE, Plain, jobs, Below)
       \/ stack' = Below /\ UNCHANGED <<promise, pair, jobs>>
    /\ UNCHANGED <<fn, registered, ran>>

\* js_promise_resolve_function_call after the lookup of "then": it threw, it
\* found no function, or it found one.
GetterEnd ==
    /\ stack # <<>> /\ Top.at = "getter"
    /\ \/ Settle(Top.promise, TRUE, Plain, jobs)
       \/ Settle(Top.promise, FALSE, Foreign, jobs)
       \/ /\ CanPair
          /\ jobs' = Append(jobs, ThenableJob(Top.promise, Foreign))
          /\ UNCHANGED promise
    /\ stack' = Below
    /\ UNCHANGED <<pair, fn, registered, ran>>

ScriptEnd ==
    /\ stack # <<>> /\ Top.at = "script"
    /\ stack' = Below
    /\ UNCHANGED <<promise, pair, jobs, fn, registered, ran>>

RunJob ==
    \/ RunPassThrough
    \/ RunHandler
    \/ RunResume
    \/ RunThenablePromise
    \/ RunThenableForeign

Finish ==
    \/ AwaitThen
    \/ AsyncEnd
    \/ HandlerEnd
    \/ CalleeEnd
    \/ GetterEnd
    \/ ScriptEnd

Next ==
    \/ StartScript
    \/ RunJob
    \/ Construct
    \/ WithResolvers
    \/ CallHeld
    \/ Then
    \/ AsyncCall
    \/ AwaitPromise
    \/ AwaitPlain
    \/ AwaitForeign
    \/ AwaitFails
    \/ Finish

Spec == Init /\ [][Next]_vars

\* The host drains the queue (the runtime does so after every evaluation) and
\* JavaScript code returns.
FairSpec == Spec /\ WF_vars(RunJob) /\ WF_vars(Finish)

-----------------------------------------------------------------------------
States == {"pending", "fulfilled", "rejected"}
FnStates == {"running", "awaiting", "completed", "abandoned"}
At == {"script", "handler", "getter", "thenable", "executor", "async", "await"}

\* The reactions that have not run yet: in the queue q, or in the list of one
\* of the promises ps.
InQueue(q) == {q[i].r : i \in {k \in DOMAIN q : q[k].type = "reaction"}}
Listed(ps) == UNION {{ps[p].reactions[i] : i \in DOMAIN ps[p].reactions} : p \in DOMAIN ps}
Live == InQueue(jobs) \cup Listed(promise)

\* Every reference between promises, pairs, jobs, frames and calls of async
\* functions leads to something that exists.
TypeOK ==
    /\ \A p \in Promises :
          /\ promise[p].state \in States
          /\ promise[p].visible \in BOOLEAN
          /\ promise[p].result \in {Plain, Foreign}
          /\ promise[p].state # "pending" => promise[p].reactions = <<>>
    /\ \A r \in Pairs :
          /\ pair[r].promise \in Promises
          /\ pair[r].resolved \in BOOLEAN /\ pair[r].held \in BOOLEAN
    /\ \A r \in Live :
          /\ r.n \in 1 .. registered /\ r.on \in Promises
          /\ r.cap \in {NoPair} \cup Pairs
          /\ r.f \in 0 .. Len(fn)
    /\ \A i \in DOMAIN stack : stack[i].at \in At
    /\ \A f \in DOMAIN fn : fn[f].state \in FnStates /\ fn[f].pair \in Pairs

\* What may still settle promise p: a pair not used yet, a lookup of "then" in
\* progress, a thenable job.
PairsFor(prs, p) == {r \in DOMAIN prs : prs[r].promise = p /\ ~prs[r].resolved}
LookupsFor(st, p) == {i \in DOMAIN st : st[i].at = "getter" /\ st[i].promise = p}
ThenablesFor(q, p) == {i \in DOMAIN q : q[i].type = "thenable" /\ q[i].promise = p}
Settlers(prs, st, q, p) ==
    Cardinality(PairsFor(prs, p)) + Cardinality(LookupsFor(st, p)) + Cardinality(ThenablesFor(q, p))

\* A pending promise has exactly one thing left that may settle it and a
\* settled one has none, however often the two resolving functions are called
\* and whatever the "then" of an object does with them: the early return of
\* fulfill_or_reject_promise marked "should never happen" never happens, and
\* no promise is left without anything that could settle it.
OneSettler ==
    /\ TypeOK
    /\ \A p \in Promises :
          Settlers(pair, stack, jobs, p) = IF promise[p].state = "pending" THEN 1 ELSE 0

\* Every reaction is in one place: in the list of its promise while that is
\* pending, then in the job queue, then it has run, once.
ReactionOnce ==
    \A n \in 1 .. registered :
        1 = Cardinality(UNION {{<<p, i>> : i \in {k \in DOMAIN promise[p].reactions :
                                                   promise[p].reactions[k].n = n}} : p \in Promises})
              + Cardinality({i \in DOMAIN jobs : jobs[i].type = "reaction" /\ jobs[i].r.n = n})
              + Cardinality({x \in ran : x[1] = n})

\* The reactions of a promise run once each, in the order in which they were
\* registered.
ReactionOrder ==
    /\ ReactionOnce
    /\ \A x \in ran, r \in Live : x[2] = r.on => x[1] < r.n
    /\ \A i, j \in DOMAIN jobs :
          i < j /\ jobs[i].type = "reaction" /\ jobs[j].type = "reaction"
            /\ jobs[i].r.on = jobs[j].r.on => jobs[i].r.n < jobs[j].r.n
    /\ \A p \in Promises : \A i, j \in DOMAIN promise[p].reactions :
          i < j => promise[p].reactions[i].n < promise[p].reactions[j].n

\* A call of an async function is resumed by one reaction, which exists just
\* while it awaits: async_func_resume never meets a function that runs or has
\* completed (its assertion), and a promise that settles always resumes it.
ResumedOnce ==
    \A f \in DOMAIN fn :
        /\ Cardinality({r \in Live : r.f = f})
             = IF fn[f].state = "awaiting" THEN 1 ELSE 0
        /\ Cardinality({i \in DOMAIN stack : stack[i].f = f})
             = IF fn[f].state = "running" THEN 1 ELSE 0
        /\ pair[fn[f].pair].resolved <=> fn[f].state \in {"completed", "abandoned"}

Settled(q) == q \in Promises /\ promise[q].state # "pending"

\* p was resolved with q, or is what "then" without handlers returned for q.
Waits(p, q) ==
    \/ \E i \in DOMAIN jobs :
          jobs[i].type = "thenable" /\ jobs[i].promise = p /\ jobs[i].arg = q
    \/ \E r \in Live : /\ r.on = q /\ r.f = 0 /\ r.handler = {}
                       /\ r.cap # NoPair /\ pair[r.cap].promise = p

\* A promise that waits for one that settles with a plain value settles too,
\* and a function that awaits it goes on: no job is lost on the way.
Follows ==
    /\ \A p \in 1 .. MaxPromises : \A q \in (1 .. MaxPromises) \ {p} :
          (Settled(q) /\ promise[q].result = Plain /\ Waits(p, q)) ~> Settled(p)
    /\ \A f \in 1 .. MaxAsync :
          (\E r \in Live : r.f = f /\ Settled(r.on))
             ~> (~ \E r \in Live : r.f = f /\ Settled(r.on))
=============================================================================
