------------------------- MODULE JSAsyncGenerator -------------------------
(***************************************************************************)
(* One async generator object of the engine (quickjs.c, the functions      *)
(* named js_async_generator): the requests made by next, return and        *)
(* throw, the state of the generator, and the frames of                    *)
(* js_async_generator_resume_next that are on the C stack.  JavaScript     *)
(* code runs inside such a frame: the body of the generator, the           *)
(* "constructor" of a value that is awaited, and, when ThenRunsCode, the   *)
(* "then" that is looked up in every iterator result.                      *)
(***************************************************************************)
EXTENDS Integers, Sequences

CONSTANTS MaxRequests,   \* calls of next, return and throw
          ThenRunsCode   \* Object.prototype has a "then" that runs code

VARIABLES state,     \* JSAsyncGeneratorData.state
          func,      \* func_state: "null", "suspended", "running" or
                     \* "completed" (is_completed, not freed yet)
          queue,     \* the requests, [id, type]
          asked,     \* how many requests have been made
          answers,   \* history: the answers given, [id, kind]
          waits,     \* reactions registered and not run yet: how many of
                     \* "await" and of "return"
          stack      \* frames of js_async_generator_resume_next, by where
                     \* they are

vars == <<state, func, queue, asked, answers, waits, stack>>

Suspended == {"SUSPENDED_START", "SUSPENDED_YIELD", "SUSPENDED_YIELD_STAR"}
Finished == {"AWAITING_RETURN", "COMPLETED"}
States == Suspended \cup Finished \cup {"EXECUTING"}
Types == {"next", "return", "throw"}
Kinds == {"value", "done", "reject"}

\* Where a frame is: at the head of the loop, in the body, in the lookup of a
\* constructor, or in a resolving function, after which it loops or returns.
Places == {"loop", "body", "await", "completed_return", "answer_loop",
           "answer_exit"}
UserPlaces == {"body", "await", "completed_return"}
                \cup (IF ThenRunsCode THEN {"answer_loop", "answer_exit"} ELSE {})

Last(s)  == s[Len(s)]
Front(s) == SubSeq(s, 1, Len(s) - 1)

Top == Last(stack)
\* JavaScript code is running: a script, a job, or code inside a frame.
CodeRuns == stack # <<>> => Top \in UserPlaces
At(place) == stack # <<>> /\ Top = place
GoTo(place) == stack' = Append(Front(stack), place)
Exit == stack' = Front(stack)

\* js_async_generator_function_call, after the body has run to its start.
Init ==
    /\ state = "SUSPENDED_START"
    /\ func = "suspended"
    /\ queue = <<>>
    /\ asked = 0
    /\ answers = <<>>
    /\ waits = [await |-> 0, return |-> 0]
    /\ stack = <<>>

\* Mutant: resume_next is called although the body is executing.
RequestResumes(type) ==
    /\ asked < MaxRequests
    /\ CodeRuns
    /\ asked' = asked + 1
    /\ queue' = Append(queue, [id |-> asked + 1, type |-> type])
    /\ stack' = Append(stack, "loop")
    /\ UNCHANGED <<state, func, answers, waits>>

\* js_async_generator_next
Request(type) ==
    /\ asked < MaxRequests
    /\ CodeRuns
    /\ asked' = asked + 1
    /\ queue' = Append(queue, [id |-> asked + 1, type |-> type])
    /\ stack' = IF state = "EXECUTING" THEN stack ELSE Append(stack, "loop")
    /\ UNCHANGED <<state, func, answers, waits>>

\* js_async_generator_resolve_or_reject takes the first request off the queue
\* and calls one of its functions.
Answer(kind) ==
    /\ answers' = Append(answers, [id |-> Head(queue).id, kind |-> kind])
    /\ queue' = Tail(queue)

LoopEnds ==
    /\ At("loop")
    /\ queue = <<>>
    /\ Exit
    /\ UNCHANGED <<state, func, queue, asked, answers, waits>>

AtRequest(type) == At("loop") /\ queue # <<>> /\ Head(queue).type = type

\* "only happens when restarting execution after await()"
LoopExecuting ==
    /\ At("loop") /\ queue # <<>>
    /\ state = "EXECUTING"
    /\ func' = "running"
    /\ GoTo("body")
    /\ UNCHANGED <<state, queue, asked, answers, waits>>

LoopAwaitingReturn ==
    /\ At("loop") /\ queue # <<>>
    /\ state = "AWAITING_RETURN"
    /\ Exit
    /\ UNCHANGED <<state, func, queue, asked, answers, waits>>

\* SUSPENDED_START with next, SUSPENDED_YIELD and SUSPENDED_YIELD_STAR with any
LoopExec ==
    /\ At("loop") /\ queue # <<>>
    /\ state \in Suspended
    /\ state = "SUSPENDED_START" => Head(queue).type = "next"
    /\ state' = "EXECUTING"
    /\ func' = "running"
    /\ GoTo("body")
    /\ UNCHANGED <<queue, asked, answers, waits>>

\* SUSPENDED_START with return or throw: js_async_generator_complete
LoopComplete ==
    /\ At("loop") /\ queue # <<>>
    /\ state = "SUSPENDED_START" /\ Head(queue).type # "next"
    /\ state' = "COMPLETED"
    /\ func' = "null"
    /\ UNCHANGED <<queue, asked, answers, waits, stack>>

CompletedNext ==
    /\ AtRequest("next") /\ state = "COMPLETED"
    /\ Answer("done")
    /\ GoTo("answer_exit")
    /\ UNCHANGED <<state, func, asked, waits>>

CompletedThrow ==
    /\ AtRequest("throw") /\ state = "COMPLETED"
    /\ Answer("reject")
    /\ Exit
    /\ UNCHANGED <<state, func, asked, waits>>

\* js_async_generator_completed_return, up to the lookup of the constructor
CompletedReturn ==
    /\ AtRequest("return") /\ state = "COMPLETED"
    /\ state' = "AWAITING_RETURN"
    /\ GoTo("completed_return")
    /\ UNCHANGED <<func, queue, asked, answers, waits>>

\* ... and from there: an exception of the lookup is delivered as a rejection
CompletedReturnThen ==
    /\ At("completed_return")
    /\ waits' = [waits EXCEPT !.return = @ + 1]
    /\ Exit
    /\ UNCHANGED <<state, func, queue, asked, answers>>

AnswerEnds ==
    /\ \/ At("answer_loop") /\ GoTo("loop")
       \/ At("answer_exit") /\ Exit
    /\ UNCHANGED <<state, func, queue, asked, answers, waits>>

-----------------------------------------------------------------------------
(* async_func_resume returns to js_async_generator_resume_next.            *)

BodyYields ==
    /\ At("body")
    /\ func' = "suspended"
    /\ state' \in {"SUSPENDED_YIELD", "SUSPENDED_YIELD_STAR"}
    /\ Answer("value")
    /\ GoTo("answer_loop")
    /\ UNCHANGED <<asked, waits>>

BodyAwaits ==
    /\ At("body")
    /\ func' = "suspended"
    /\ GoTo("await")
    /\ UNCHANGED <<state, queue, asked, answers, waits>>

\* js_async_generator_await registers the reaction ...
AwaitThen ==
    /\ At("await")
    /\ waits' = [waits EXCEPT !.await = @ + 1]
    /\ Exit
    /\ UNCHANGED <<state, func, queue, asked, answers>>

\* ... or js_promise_resolve throws, and the body gets the exception
AwaitFails ==
    /\ At("await")
    /\ func' = "running"
    /\ GoTo("body")
    /\ UNCHANGED <<state, queue, asked, answers, waits>>

\* The body returned or threw: js_async_generator_complete, then the answer.
BodyCompletes ==
    /\ At("body")
    /\ state' = "COMPLETED"
    /\ func' = "null"
    /\ \/ Answer("done") /\ GoTo("answer_loop")
       \/ Answer("reject") /\ GoTo("loop")
    /\ UNCHANGED <<asked, waits>>

-----------------------------------------------------------------------------
(* js_async_generator_resolve_function, called by a job.                   *)

\* Mutant: the generator is not resumed.
AwaitSettlesSilently ==
    /\ CodeRuns
    /\ waits.await > 0
    /\ waits' = [waits EXCEPT !.await = @ - 1]
    /\ UNCHANGED <<state, func, queue, asked, answers, stack>>

\* magic < 2: the promise of an await has settled
AwaitSettles ==
    /\ CodeRuns
    /\ waits.await > 0
    /\ waits' = [waits EXCEPT !.await = @ - 1]
    /\ stack' = Append(stack, "loop")
    /\ UNCHANGED <<state, func, queue, asked, answers>>

\* magic >= 2: the promise of a return has settled
ReturnSettles ==
    /\ CodeRuns
    /\ waits.return > 0
    /\ waits' = [waits EXCEPT !.return = @ - 1]
    /\ state' = "COMPLETED"
    /\ \/ Answer("done") /\ stack' = Append(stack, "answer_exit")
       \/ Answer("reject") /\ UNCHANGED stack
    /\ UNCHANGED <<func, asked>>

\* The steps of one frame.
Frame ==
    \/ LoopEnds
    \/ LoopExecuting
    \/ LoopAwaitingReturn
    \/ LoopExec
    \/ LoopComplete
    \/ CompletedNext
    \/ CompletedThrow
    \/ CompletedReturn
    \/ CompletedReturnThen
    \/ AnswerEnds
    \/ AwaitThen

Body == BodyYields \/ BodyCompletes

Settles == AwaitSettles \/ ReturnSettles

Next ==
    \/ \E type \in Types : Request(type)
    \/ Frame
    \/ Body
    \/ BodyAwaits
    \/ AwaitFails
    \/ Settles

Spec == Init /\ [][Next]_vars

\* Frames go on, every awaited promise settles, and the body, which may await
\* any number of times, does not do so forever.
FairSpec == Spec /\ WF_vars(Frame) /\ WF_vars(Settles) /\ SF_vars(Body)

-----------------------------------------------------------------------------
TypeOK ==
    /\ state \in States
    /\ func \in {"null", "suspended", "running"}
    /\ asked \in 0 .. MaxRequests
    /\ queue \in Seq([id : 1 .. asked, type : Types])
    /\ answers \in Seq([id : 1 .. asked, kind : Kinds])
    /\ waits \in [{"await", "return"} -> Nat]
    /\ stack \in Seq(Places)

\* The comment on func_state: it is NULL just in the states AWAITING_RETURN
\* and COMPLETED. Every path that frees it leaves the generator in such a
\* state, so a request never runs a body that is gone.
NullWhenFinished == func = "null" <=> state \in Finished

\* Each request is answered once and in the order in which the requests were
\* made: what has been answered, then what waits in the queue, are the
\* requests 1, 2, 3, ...
AnsweredInOrder ==
    /\ Len(answers) + Len(queue) = asked
    /\ \A i \in DOMAIN answers : answers[i].id = i
    /\ \A i \in DOMAIN queue : queue[i].id = Len(answers) + i

\* The assertions of js_async_generator_resolve_function: when the promise of
\* an await settles the generator is EXECUTING, with its body suspended and its
\* request still first in the queue; when the promise of a return settles it
\* is AWAITING_RETURN. At most one such promise is outstanding.
SettlesInState ==
    /\ waits.await + waits.return <= 1
    /\ waits.await = 1 => state = "EXECUTING" /\ func = "suspended" /\ queue # <<>>
    /\ waits.return = 1 => state = "AWAITING_RETURN" /\ queue # <<>>

\* The comment in js_async_generator_resume_next: its loop meets the state
\* EXECUTING only when execution restarts after an await, so it never resumes
\* a body that is running or whose awaited promise has not settled.
ResumesAfterAwait ==
    At("loop") /\ queue # <<>> /\ state = "EXECUTING"
        => func = "suspended" /\ waits.await = 0

\* After the answer that says the generator is done no request gets a value.
NoValueAfterDone ==
    \A i, j \in DOMAIN answers :
        i < j /\ answers[i].kind = "done" => answers[j].kind # "value"

\* The requests of an async generator are answered in their order and in the
\* states that allow it, its body is resumed for what it waits for and nothing
\* else, and once it has ended its frame is gone and no value comes any more.
GeneratorSound ==
    /\ TypeOK
    /\ NullWhenFinished
    /\ AnsweredInOrder
    /\ SettlesInState
    /\ ResumesAfterAwait
    /\ NoValueAfterDone

\* The request whose turn it is gets its answer: the first one, when the body
\* runs or awaits on its behalf or when its return is awaited.
HeadAnswered ==
    \A n \in 1 .. MaxRequests :
        (Len(answers) < n /\ queue # <<>> /\ Head(queue).id = n
           /\ state \in {"EXECUTING", "AWAITING_RETURN"})
        ~> (Len(answers) >= n)
=============================================================================
