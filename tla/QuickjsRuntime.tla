--------------------------- MODULE QuickjsRuntime ---------------------------
(***************************************************************************)
(* One QuickjsRuntime (lib/src/quickjs_runtime.dart) on its isolate, over  *)
(* the C bridge: eval, the microtask queue, host functions and close.      *)
(*                                                                         *)
(* Everything is synchronous, so the state is a stack of activities: a     *)
(* script evaluated by eval, a host function it called, a drain of the     *)
(* microtask queue, a job that the drain runs.  A host function may call   *)
(* back into its runtime.  Between two calls into C the Dart VM may move   *)
(* the isolate to another thread.                                          *)
(***************************************************************************)
EXTENDS Integers, Sequences, FiniteSets

CONSTANTS
    JobIds,      \* the jobs: promise reactions
    MaxCalls,    \* bound on the host functions that are being called
    MaxJobs,     \* maxJobs of drainMicrotasks
    Threads,     \* the threads of the Dart VM
    AutoDrain,   \* autoDrainMicrotasks
    Oddities     \* what scripts may do, see OddityKinds

\* jobError:  a job fails: the resolving function of a Promise subclass throws
\* mute:      a script throws a value that does not convert to a string
\* setter:    a script has defined a global with a setter
\* nested:    host functions call back into the runtime
\* uncapped:  the embedder drains with executePendingJobs
OddityKinds == {"jobError", "mute", "setter", "nested", "uncapped"}

Unlimited == -1

ASSUME RuntimeConstants ==
    /\ MaxCalls \in Nat
    /\ MaxJobs \in Nat \ {0}
    /\ AutoDrain \in BOOLEAN
    /\ Threads # {}
    /\ Oddities \subseteq OddityKinds

Script(errMsg) == [kind |-> "script", errMsg |-> errMsg]
Host           == [kind |-> "host"]
Setter         == [kind |-> "setter"]
Job(j)         == [kind |-> "job", job |-> j]
Drain(n, inC)  == [kind |-> "drain", left |-> n, inC |-> inC]

Activity ==
    {Script(e) : e \in BOOLEAN} \cup {Host, Setter} \cup {Job(j) : j \in JobIds}
        \cup {Drain(n, c) : n \in Unlimited .. MaxJobs, c \in BOOLEAN}

VARIABLES
    stack,     \* the activities, the running one last
    queue,     \* the engine's queue of pending jobs
    open,      \* _context is not null
    thread,    \* the thread the isolate is on
    stackTop,  \* rt->stack_top: the thread the engine measures its stack on
    cut,       \* history: the last drain stopped at its cap or at a failed job
    result     \* history: what the last eval or drain reported, and what it did

vars == <<stack, queue, open, thread, stackTop, cut, result>>

NoResult == [call |-> "none"]
Results  ==
    {NoResult} \cup [call : {"eval"}, threw : BOOLEAN, error : BOOLEAN, drains : BOOLEAN]
        \cup [call : {"drain"}, ran : 0 .. MaxJobs, returned : 0 .. MaxJobs]

TypeOK ==
    /\ stack \in Seq(Activity)
    /\ queue \in Seq(JobIds)
    /\ open \in BOOLEAN
    /\ thread \in Threads
    /\ stackTop \in Threads
    /\ cut \in BOOLEAN
    /\ result \in Results

Init ==
    /\ stack = << >>
    /\ queue = << >>
    /\ open = TRUE
    /\ thread \in Threads
    /\ stackTop = thread
    /\ cut = FALSE
    /\ result = NoResult

Depth     == Len(stack)
Top       == stack[Depth]
Running(kinds) == Depth > 0 /\ Top.kind \in kinds
Below     == SubSeq(stack, 1, Depth - 1)
Push(a)   == stack' = Append(stack, a)
Replace(a) == stack' = [stack EXCEPT ![Depth] = a]

\* Dart code of the embedding runs: at top level, or in a host function.
InDart == open /\ (Depth = 0 \/ ("nested" \in Oddities /\ Running({"host"})))

\* JavaScript runs.
InJs == Running({"script", "job", "setter"})

-----------------------------------------------------------------------------
\* Mutant: the stack limit of the engine is not re-anchored.
KeepStackTop == UNCHANGED stackTop

\* qjs_refresh_stack_top
RefreshStackTop == stackTop' = thread

\* eval, with or without an errMsg list: qjs_eval starts the script.
Eval(errMsg) ==
    /\ InDart
    /\ Push(Script(errMsg))
    /\ RefreshStackTop
    /\ UNCHANGED <<queue, open, thread, cut, result>>

\* A promise settles, or queueMicrotask: a job is queued.
Enqueue(j) ==
    /\ InJs
    /\ \A k \in DOMAIN queue : queue[k] # j
    /\ \A k \in DOMAIN stack : stack[k] # Job(j)
    /\ queue' = Append(queue, j)
    /\ UNCHANGED <<stack, open, thread, stackTop, cut, result>>

\* A host function is called through qjs_dispatch, and returns (an exception
\* of its Dart callback is caught and becomes undefined).
CallHost ==
    /\ InJs
    /\ Cardinality({k \in DOMAIN stack : stack[k] = Host}) < MaxCalls
    /\ Push(Host)
    /\ UNCHANGED <<queue, open, thread, stackTop, cut, result>>

HostReturns ==
    /\ Running({"host"})
    /\ stack' = Below
    /\ UNCHANGED <<queue, open, thread, stackTop, cut, result>>

\* The outcomes of qjs_eval: a value, an exception whose text is reported, an
\* exception that has no text, a value that has no JSON form.
Outcomes == {"value", "throws", "unserializable"} \cup
            (IF "mute" \in Oddities THEN {"throwsMute"} ELSE {})

\* *err_msg is set.
ErrorText(o) == o \in {"throws", "unserializable"}

\* eval's own idea of failure: there is an errMsg list and it holds a text.
Failed(errMsg, o) == errMsg /\ ErrorText(o)

\* Mutant: eval does not drain.
NeverDrains(errMsg, o) == FALSE

DrainsAfter(errMsg, o) == AutoDrain /\ ~Failed(errMsg, o)

\* qjs_eval returns and eval drains the queue, unless it failed.
ScriptEnds(o) ==
    /\ Running({"script"})
    /\ result' = [call   |-> "eval",
                  threw  |-> o \in {"throws", "throwsMute"},
                  error  |-> ErrorText(o),
                  drains |-> DrainsAfter(Top.errMsg, o)]
    /\ IF DrainsAfter(Top.errMsg, o)
       THEN Replace(Drain(MaxJobs, FALSE)) /\ cut' = FALSE
       ELSE stack' = Below /\ UNCHANGED cut
    /\ UNCHANGED <<queue, open, thread, stackTop>>

-----------------------------------------------------------------------------
(* drainMicrotasks over qjs_execute_pending_jobs_capped.                   *)

DrainMicrotasks ==
    /\ InDart
    /\ Push(Drain(MaxJobs, FALSE))
    /\ cut' = FALSE
    /\ UNCHANGED <<queue, open, thread, stackTop, result>>

\* executePendingJobs: one call into C without a budget.
ExecutePendingJobs ==
    /\ "uncapped" \in Oddities
    /\ InDart
    /\ Push(Drain(Unlimited, TRUE))
    /\ RefreshStackTop
    /\ UNCHANGED <<queue, open, thread, cut, result>>

\* The Dart loop calls into C while there is budget left.
EnterC ==
    /\ Running({"drain"})
    /\ ~Top.inC
    /\ Top.left # 0 /\ queue # << >>
    /\ Replace(Drain(Top.left, TRUE))
    /\ RefreshStackTop
    /\ UNCHANGED <<queue, open, thread, cut, result>>

\* Mutant: the newest job is run first.
Newest(q) == <<q[Len(q)], SubSeq(q, 1, Len(q) - 1)>>

\* JS_ExecutePendingJob takes the oldest job.
Oldest(q) == <<Head(q), Tail(q)>>

StartJob ==
    /\ Running({"drain"})
    /\ Top.inC
    /\ Top.left # 0 /\ queue # << >>
    /\ Push(Job(Oldest(queue)[1]))
    /\ queue' = Oldest(queue)[2]
    /\ UNCHANGED <<open, thread, stackTop, cut, result>>

\* Mutant: jobs do not count against the budget.
SpendNothing(n) == n

Spend(n) == IF n = Unlimited THEN n ELSE n - 1

\* The job is over; the drain goes on with one job less to run.
JobEnds ==
    /\ Running({"job"})
    /\ LET d == stack[Depth - 1] IN
       stack' = Append(SubSeq(stack, 1, Depth - 2), Drain(Spend(d.left), TRUE))
    /\ UNCHANGED <<queue, open, thread, stackTop, cut, result>>

Reports(d, n) ==
    result' = IF d.left = Unlimited THEN NoResult
              ELSE [call |-> "drain", ran |-> MaxJobs - d.left, returned |-> n]

\* The job fails: the bridge returns -1, the loop stops and what this call into
\* C has run is not counted.
JobFails ==
    /\ "jobError" \in Oddities
    /\ Running({"job"})
    /\ stack' = SubSeq(stack, 1, Depth - 2)
    /\ cut' = TRUE
    /\ Reports(stack[Depth - 1], 0)
    /\ UNCHANGED <<queue, open, thread, stackTop>>

\* The bridge returns the number of jobs it ran; the loop asks once more.
LeaveC ==
    /\ Running({"drain"})
    /\ Top.inC
    /\ Top.left = 0 \/ queue = << >>
    /\ Replace(Drain(Top.left, FALSE))
    /\ UNCHANGED <<queue, open, thread, stackTop, cut, result>>

DrainEnds ==
    /\ Running({"drain"})
    /\ ~Top.inC
    /\ Top.left = 0 \/ queue = << >>
    /\ stack' = Below
    /\ cut' = (queue # << >>)
    /\ Reports(Top, MaxJobs - Top.left)
    /\ UNCHANGED <<queue, open, thread, stackTop>>

-----------------------------------------------------------------------------
\* setGlobal assigns a global property.  A setter runs, with no call of
\* qjs_refresh_stack_top before it, and an exception of it is dropped.
SetGlobal ==
    /\ "setter" \in Oddities
    /\ InDart
    /\ Push(Setter)
    /\ UNCHANGED <<queue, open, thread, stackTop, cut, result>>

SetterEnds ==
    /\ Running({"setter"})
    /\ stack' = Below
    /\ UNCHANGED <<queue, open, thread, stackTop, cut, result>>

\* close: the runtime and its pending jobs are gone.
Close ==
    /\ open
    /\ Depth = 0
    /\ open' = FALSE
    /\ queue' = << >>
    /\ UNCHANGED <<stack, thread, stackTop, cut, result>>

\* The VM moves the isolate, when it is not inside a call into C.
Migrate ==
    /\ \/ Depth = 0
       \/ Depth = 1 /\ Top.kind = "drain" /\ ~Top.inC
    /\ thread' \in Threads
    /\ UNCHANGED <<stack, queue, open, stackTop, cut, result>>

-----------------------------------------------------------------------------
\* What ends by itself, once JavaScript and host functions return.
Ends ==
    \/ HostReturns
    \/ \E o \in Outcomes : ScriptEnds(o)
    \/ SetterEnds
    \/ JobEnds
    \/ JobFails

\* The steps of a drain between jobs.
Drains == EnterC \/ StartJob \/ LeaveC \/ DrainEnds

\* What JavaScript does.
Scripts == CallHost \/ \E j \in JobIds : Enqueue(j)

\* What the embedder does.
Embedder ==
    \/ \E e \in BOOLEAN : Eval(e)
    \/ DrainMicrotasks
    \/ ExecutePendingJobs
    \/ SetGlobal
    \/ Close

Next == Ends \/ Drains \/ Scripts \/ Embedder \/ Migrate

Spec == Init /\ [][Next]_vars

\* Every script, job and host function returns sooner or later, whatever it
\* calls meanwhile, and the loops of the drain go on: nothing else runs on the
\* isolate.  Three activities go with every host call.
FairSpec ==
    /\ Spec
    /\ \A d \in 1 .. 3 * (MaxCalls + 1) : SF_vars(Depth = d /\ Ends)
    /\ WF_vars(Drains)

\* Besides, the embedder drains an open runtime over and over, from top level.
PumpSpec == FairSpec /\ SF_vars(Depth = 0 /\ DrainMicrotasks)

-----------------------------------------------------------------------------
(* Properties.                                                             *)

\* Whenever JavaScript runs, the engine measures its stack on the thread that
\* runs it, on whichever threads the isolate was before (the reason for
\* qjs_refresh_stack_top).
StackTopFresh == InJs => stackTop = thread

\* When an eval that did not fail has returned to the embedder at top level,
\* its promise reactions have run: the queue is empty, unless the drain met its
\* cap or a job that failed.
SettledAfterEval ==
    [][ /\ Depth = 1
        /\ Depth' = 0
        /\ AutoDrain
        /\ Top.kind # "setter"
        /\ ~(Top.kind = "script" /\ result'.error /\ Top.errMsg)
        => queue' = << >> \/ cut' ]_vars

\* Every activity returns: a chain of jobs that queue themselves again cannot
\* keep a drain, or the eval it belongs to, from returning, unless somebody has
\* called executePendingJobs, which has no budget.
Uncapped == \E k \in DOMAIN stack : stack[k].kind = "drain" /\ stack[k].left = Unlimited
Returns  == Depth > 0 ~> Depth = 0 \/ Uncapped

\* A queued job runs sooner or later when the embedder goes on draining,
\* although every drain is capped and other jobs queue themselves again.
EveryJobRuns ==
    \A j \in JobIds :
        (\E k \in DOMAIN queue : queue[k] = j) ~> (~open \/ \A k \in DOMAIN queue : queue[k] # j)
=============================================================================
