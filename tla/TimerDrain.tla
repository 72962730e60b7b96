----------------------------- MODULE TimerDrain -----------------------------
(***************************************************************************)
(* The timers of the node-compat layer: the JavaScript queue of            *)
(* lib/src/node_compat_async.dart and the host's drain loop in             *)
(* lib/src/node_compat.dart.                                               *)
(*                                                                         *)
(* There is no event loop.  A script, a timer callback, an immediate or a  *)
(* microtask is a sequence of calls of the timer API that ends by          *)
(* returning or throwing; between two calls time may pass.  Times are      *)
(* kept relative to the clock, so that time is unbounded in a finite       *)
(* state space: `left` is due - now.                                       *)
(***************************************************************************)
EXTENDS Integers, Sequences

CONSTANTS
    MaxTimers,     \* bound on the timers created
    MaxImmediates, \* bound on the immediates created
    MaxQueued,     \* bound on the microtasks queued at one time
    MaxLate,       \* bound on how long a timer is overdue
    MaxJobs,       \* maxJobs of drainMicrotasks
    MaxCallbacks,  \* maxTimerCallbacks
    Limit,         \* maxTimerDrainWallClock
    Delays,        \* the delays scripts ask for
    CanSleep,      \* FALSE: the native library has no qjs_sleep_ms
    Calls,         \* the calls scripts make, see CallKinds
    None

CallKinds == {"setTimeout", "setInterval", "setImmediate", "queueMicrotask",
              "clearTimer", "clearImmediate", "ref", "refresh", "throw"}

ASSUME TimerConstants ==
    /\ MaxTimers \in Nat /\ MaxImmediates \in Nat /\ MaxQueued \in Nat
    /\ MaxLate \in Nat /\ MaxJobs \in Nat /\ Limit \in Nat
    /\ MaxCallbacks \in Nat \ {0}
    /\ Delays \subseteq Nat
    /\ CanSleep \in BOOLEAN
    /\ Calls \subseteq CallKinds

TimerIds == 1 .. MaxTimers
ImmIds   == 1 .. MaxImmediates
Timer    == [left : Int, ms : Nat, repeat : BOOLEAN, unref : BOOLEAN]
Entry    == [id : ImmIds, cancelled : BOOLEAN]

\* What may be running: an immediate, a timer callback, a microtask.
Immediate   == <<"immediate", 0>>
Microtask   == <<"microtask", 0>>
Callback(t) == <<"timer", t>>
Job         == {Immediate, Microtask} \cup {Callback(t) : t \in TimerIds}

ASSUME NoneIsNew == None \notin Timer /\ None \notin Entry /\ None \notin Int /\ None \notin Job

VARIABLES
    \* the JavaScript side
    pendingTimers, \* __pendingTimers: id -> timer, None when absent
    timerSeq,      \* __timerSeq
    immediates,    \* __immediates, with None for a consumed slot
    immSeq,        \* immediates created so far, their identity
    microtasks,    \* promise reactions in the engine's queue
    i,             \* loop index of the immediates loop
    ran,           \* callbacks run in this pass
    \* the host
    mode,          \* timerDrain of the configuration: "ready" or "block"
    phase,         \* where drainTimers, or the eval of a script, is
    job,           \* the callback that runs inside phase, None for none
    budget,        \* microtasks the current drain may still run
    after,         \* the phase that follows the microtasks
    nextDue,       \* nextDue of the last pass, relative to the clock
    wall,          \* the Stopwatch of drainTimers, up to Limit
    outcome,       \* how the last drainTimers ended
    \* history
    gone,          \* timers that were cleared, and timeouts that have started
    finished,      \* how often the callback of each immediate has returned
    late           \* timers set, referenced or refreshed since the pass ended

jsVars   == <<pendingTimers, timerSeq, immediates, immSeq, microtasks>>
loopVars == <<i, ran, nextDue>>
hostVars == <<phase, job, budget, after, wall, outcome>>
histVars == <<gone, finished, late>>
vars     == <<mode, jsVars, loopVars, hostVars, histVars>>

Phases == {"host", "script", "immediates", "timers", "microtasks", "decide"}

TypeOK ==
    /\ pendingTimers \in [TimerIds -> Timer \cup {None}]
    /\ timerSeq \in 1 .. (MaxTimers + 1)
    /\ immediates \in Seq(Entry \cup {None})
    /\ immSeq \in 0 .. MaxImmediates
    /\ microtasks \in 0 .. MaxQueued
    /\ i \in Nat
    /\ ran \in 0 .. MaxCallbacks
    /\ mode \in {"ready", "block"}
    /\ phase \in Phases
    /\ job \in Job \cup {None}
    /\ budget \in Nat
    /\ after \in {"host", "decide"}
    /\ nextDue \in Int \cup {None}
    /\ wall \in 0 .. Limit
    /\ outcome \in {"none", "ok", "failed", "capped", "wallclock"}
    /\ gone \subseteq TimerIds
    /\ finished \in [ImmIds -> Nat]
    /\ late \subseteq TimerIds

Init ==
    /\ pendingTimers = [t \in TimerIds |-> None]
    /\ timerSeq = 1
    /\ immediates = << >>
    /\ immSeq = 0
    /\ microtasks = 0
    /\ i = 1
    /\ ran = 0
    /\ mode \in {"ready", "block"}
    /\ phase = "host"
    /\ job = None
    /\ budget = 0
    /\ after = "host"
    /\ nextDue = None
    /\ wall = 0
    /\ outcome = "none"
    /\ gone = {}
    /\ finished = [m \in ImmIds |-> 0]
    /\ late = {}

Pending(t) == pendingTimers[t] # None

Live(e) == e # None /\ ~e.cancelled

-----------------------------------------------------------------------------
(* The timer API, called by whatever JavaScript is running.                *)

Running(call) == call \in Calls /\ (phase = "script" \/ job # None)

\* History: a timer touched while the microtasks after a pass run is one the
\* pass could not know of.
Touch(t) == late' = IF phase = "microtasks" /\ after = "decide" THEN late \cup {t} ELSE late

\* __addTimer, for setTimeout and setInterval.  Only an interval keeps its ms.
AddTimer(ms, repeat) ==
    /\ Running(IF repeat THEN "setInterval" ELSE "setTimeout")
    /\ timerSeq \in TimerIds
    /\ pendingTimers' = [pendingTimers EXCEPT ![timerSeq] =
          [left |-> ms, ms |-> IF repeat THEN ms ELSE 0, repeat |-> repeat, unref |-> FALSE]]
    /\ timerSeq' = timerSeq + 1
    /\ Touch(timerSeq)
    /\ UNCHANGED <<mode, immediates, immSeq, microtasks, loopVars, hostVars, gone, finished>>

SetImmediate ==
    /\ Running("setImmediate")
    /\ immSeq < MaxImmediates
    /\ immSeq' = immSeq + 1
    /\ immediates' = Append(immediates, [id |-> immSeq', cancelled |-> FALSE])
    /\ UNCHANGED <<mode, pendingTimers, timerSeq, microtasks, loopVars, hostVars, histVars>>

Cleared(t) == pendingTimers' = [pendingTimers EXCEPT ![t] = None]

\* clearTimeout and clearInterval: __clear of a timer's handle.
ClearTimer(t) ==
    /\ Running("clearTimer")
    /\ t < timerSeq
    /\ Cleared(t)
    /\ gone' = gone \cup {t}
    /\ UNCHANGED <<mode, timerSeq, immediates, immSeq, microtasks, loopVars, hostVars, finished, late>>

\* clearImmediate: the entry is marked and stays in the list.
ClearImmediate(m) ==
    /\ Running("clearImmediate")
    /\ m <= immSeq
    /\ immediates' = [k \in DOMAIN immediates |->
          IF immediates[k] # None /\ immediates[k].id = m
          THEN [immediates[k] EXCEPT !.cancelled = TRUE] ELSE immediates[k]]
    /\ UNCHANGED <<mode, pendingTimers, timerSeq, immSeq, microtasks, loopVars, hostVars, histVars>>

\* handle.ref() and handle.unref()
SetRef(t, unref) ==
    /\ Running("ref")
    /\ Pending(t)
    /\ pendingTimers' = [pendingTimers EXCEPT ![t].unref = unref]
    /\ Touch(t)
    /\ UNCHANGED <<mode, timerSeq, immediates, immSeq, microtasks, loopVars, hostVars, gone, finished>>

\* Mutant: refresh re-creates the timer of any handle.
RefreshAny(t) ==
    /\ t < timerSeq
    /\ pendingTimers' = [pendingTimers EXCEPT ![t] =
          [left |-> 0, ms |-> 0, repeat |-> FALSE, unref |-> FALSE]]

RefreshPending(t) ==
    /\ Pending(t)
    /\ pendingTimers' = [pendingTimers EXCEPT ![t].left = pendingTimers[t].ms]

\* handle.refresh()
Refresh(t) ==
    /\ Running("refresh")
    /\ RefreshPending(t)
    /\ Touch(t)
    /\ UNCHANGED <<mode, timerSeq, immediates, immSeq, microtasks, loopVars, hostVars, gone, finished>>

\* queueMicrotask, or any promise that settles.
QueueMicrotask ==
    /\ Running("queueMicrotask")
    /\ microtasks < MaxQueued
    /\ microtasks' = microtasks + 1
    /\ UNCHANGED <<mode, pendingTimers, timerSeq, immediates, immSeq, loopVars, hostVars, histVars>>

-----------------------------------------------------------------------------
(* The host evaluates scripts and drains microtasks.                       *)

\* Microtasks run next, at most n of them, and phase p follows.
DrainMicrotasks(n, p) ==
    /\ phase' = "microtasks"
    /\ budget' = n
    /\ after' = p

Eval ==
    /\ phase = "host"
    /\ phase' = "script"
    /\ UNCHANGED <<mode, jsVars, loopVars, job, budget, after, wall, outcome, histVars>>

\* A script that throws is drained after as well, unless its caller asked for
\* the error message.
ScriptEnds ==
    /\ phase = "script"
    /\ \/ DrainMicrotasks(MaxJobs, "host")
       \/ "throw" \in Calls /\ phase' = "host" /\ UNCHANGED <<budget, after>>
    /\ UNCHANGED <<mode, jsVars, loopVars, job, wall, outcome, histVars>>

StartMicrotask ==
    /\ phase = "microtasks"
    /\ job = None
    /\ microtasks > 0 /\ budget > 0
    /\ microtasks' = microtasks - 1
    /\ budget' = budget - 1
    /\ job' = Microtask
    /\ UNCHANGED <<mode, pendingTimers, timerSeq, immediates, immSeq, loopVars, phase, after,
                   wall, outcome, histVars>>

\* A reaction that throws rejects its promise: the drain goes on.
MicrotaskEnds ==
    /\ job = Microtask
    /\ job' = None
    /\ UNCHANGED <<mode, jsVars, loopVars, phase, budget, after, wall, outcome, histVars>>

MicrotasksDone ==
    /\ phase = "microtasks"
    /\ job = None
    /\ microtasks = 0 \/ budget = 0
    /\ phase' = after
    /\ budget' = 0
    /\ UNCHANGED <<mode, jsVars, loopVars, job, after, wall, outcome, histVars>>

-----------------------------------------------------------------------------
(* One pass: __ncTimerDrain, evaluated by _drainPass.                      *)

BeginPass ==
    /\ phase' = "immediates"
    /\ i' = 1
    /\ ran' = 0
    /\ nextDue' = None

\* drainTimers ends with an outcome.
EndDrain(o) ==
    /\ outcome' = o
    /\ wall' = 0
    /\ i' = 1
    /\ ran' = 0
    /\ nextDue' = None

\* drainTimers(), in a mode other than none.
DrainTimers ==
    /\ phase = "host"
    /\ BeginPass
    /\ outcome' = "none"
    /\ UNCHANGED <<mode, jsVars, job, budget, after, wall, histVars>>

AtCap == ran >= MaxCallbacks

\* A pass that has run maxTimerCallbacks callbacks returns capped, and
\* drainTimers raises once the eval has drained the microtasks.
Capped ==
    /\ \/ phase = "immediates" /\ i <= Len(immediates)
       \/ phase = "timers"
    /\ job = None
    /\ AtCap
    /\ EndDrain("capped")
    /\ DrainMicrotasks(MaxJobs, "host")
    /\ UNCHANGED <<mode, jsVars, job, histVars>>

SkipImmediate ==
    /\ phase = "immediates"
    /\ job = None
    /\ ~AtCap
    /\ i <= Len(immediates)
    /\ ~Live(immediates[i])
    /\ i' = i + 1
    /\ UNCHANGED <<mode, jsVars, ran, nextDue, hostVars, histVars>>

StartImmediate ==
    /\ phase = "immediates"
    /\ job = None
    /\ ~AtCap
    /\ i <= Len(immediates)
    /\ Live(immediates[i])
    /\ job' = Immediate
    /\ UNCHANGED <<mode, jsVars, loopVars, phase, budget, after, wall, outcome, histVars>>

\* Mutant: the slot of an immediate that has run is left as it is.
KeepSlot(k) == UNCHANGED immediates

Consume(k) == immediates' = [immediates EXCEPT ![k] = None]

ImmediateReturns ==
    /\ job = Immediate
    /\ job' = None
    /\ ran' = ran + 1
    /\ Consume(i)
    /\ i' = i + 1
    /\ finished' = [finished EXCEPT ![immediates[i].id] = @ + 1]
    /\ UNCHANGED <<mode, pendingTimers, timerSeq, immSeq, microtasks, nextDue, phase, budget,
                   after, wall, outcome, gone, late>>

\* A callback that throws ends the pass and drainTimers raises; the eval has
\* reported its error and leaves the microtasks alone.  An immediate that
\* throws keeps its slot.
CallbackThrows ==
    /\ "throw" \in Calls
    /\ phase \in {"immediates", "timers"}
    /\ job # None
    /\ job' = None
    /\ EndDrain("failed")
    /\ phase' = "host"
    /\ UNCHANGED <<mode, jsVars, budget, after, histVars>>

\* The slots of s that were not consumed, in their order: g gives the place
\* that each of them had.
Kept(g, s) ==
    /\ \A p, q \in DOMAIN g : p < q => g[p] < g[q]
    /\ {g[p] : p \in DOMAIN g} = {k \in DOMAIN s : s[k] # None}

ImmediatesDone ==
    /\ phase = "immediates"
    /\ job = None
    /\ i > Len(immediates)
    /\ \E n \in 0 .. Len(immediates) : \E g \in [1 .. n -> DOMAIN immediates] :
          /\ Kept(g, immediates)
          /\ immediates' = [p \in 1 .. n |-> immediates[g[p]]]
    /\ phase' = "timers"
    /\ i' = 1
    /\ UNCHANGED <<mode, pendingTimers, timerSeq, immSeq, microtasks, ran, nextDue, job, budget,
                   after, wall, outcome, histVars>>

Due(t) == Pending(t) /\ pendingTimers[t].left <= 0

\* The scan over the ids, in ascending order, keeps the first of the timers
\* with the earliest due.
Best(t) ==
    /\ Due(t)
    /\ \A u \in TimerIds : Due(u) =>
          \/ pendingTimers[t].left < pendingTimers[u].left
          \/ pendingTimers[t].left = pendingTimers[u].left /\ t <= u

\* An interval is due again one period from now; a timeout is removed.
Rearm(t) ==
    pendingTimers' = IF pendingTimers[t].repeat
                     THEN [pendingTimers EXCEPT ![t].left = pendingTimers[t].ms]
                     ELSE [pendingTimers EXCEPT ![t] = None]

StartTimer(t) ==
    /\ phase = "timers"
    /\ job = None
    /\ ~AtCap
    /\ Best(t)
    /\ Rearm(t)
    /\ job' = Callback(t)
    /\ gone' = IF pendingTimers[t].repeat THEN gone ELSE gone \cup {t}
    /\ UNCHANGED <<mode, timerSeq, immediates, immSeq, microtasks, loopVars, phase, budget,
                   after, wall, outcome, finished, late>>

TimerReturns ==
    /\ \E t \in TimerIds : job = Callback(t)
    /\ job' = None
    /\ ran' = ran + 1
    /\ UNCHANGED <<mode, jsVars, i, nextDue, phase, budget, after, wall, outcome, histVars>>

Refd(t) == Pending(t) /\ ~pendingTimers[t].unref

\* The earliest due of the timers that hold the host, None when there is none.
IsNextDue(d) ==
    \/ d = None /\ \A t \in TimerIds : ~Refd(t)
    \/ \E t \in TimerIds :
          /\ Refd(t)
          /\ d = pendingTimers[t].left
          /\ \A u \in TimerIds : Refd(u) => d <= pendingTimers[u].left

\* Nothing is due: the pass reports nextDue, and its eval and then
\* drainTimers drain the microtasks.
PassDone ==
    /\ phase = "timers"
    /\ job = None
    /\ ~AtCap
    /\ \A t \in TimerIds : ~Due(t)
    /\ \E d \in {pendingTimers[t].left : t \in {u \in TimerIds : Pending(u)}} \cup {None} :
          IsNextDue(d) /\ nextDue' = d
    /\ late' = {}
    /\ DrainMicrotasks(2 * MaxJobs, "decide")
    /\ UNCHANGED <<mode, jsVars, i, ran, job, wall, outcome, gone, finished>>

-----------------------------------------------------------------------------
(* After a pass: return, raise, or wait for the next one.                  *)

\* Mutant: any pass is the last.
OnePass == TRUE

LastPass == mode # "block" \/ nextDue = None

\* Mutant: the wall clock is not looked at before sleeping.
NeverExpired == FALSE

Expired == wall >= Limit

\* _finishPass: the eval that counts the timers drains the microtasks again.
Finish ==
    /\ phase = "decide"
    /\ LastPass
    /\ EndDrain("ok")
    /\ DrainMicrotasks(MaxJobs, "host")
    /\ UNCHANGED <<mode, jsVars, job, histVars>>

\* _waitForNextDue when the timer is due by now: the next pass starts, and the
\* wall clock is not looked at.
Overdue ==
    /\ phase = "decide"
    /\ ~LastPass
    /\ nextDue <= 0
    /\ BeginPass
    /\ UNCHANGED <<mode, jsVars, job, budget, after, wall, outcome, histVars>>

\* ... when the wall clock has run out: drainTimers raises.
WallClock ==
    /\ phase = "decide"
    /\ ~LastPass
    /\ nextDue > 0
    /\ Expired
    /\ EndDrain("wallclock")
    /\ DrainMicrotasks(MaxJobs, "host")
    /\ UNCHANGED <<mode, jsVars, job, histVars>>

\* The time until every pending timer is due, d later.
Later(d) == [t \in TimerIds |->
                IF Pending(t) THEN [pendingTimers[t] EXCEPT !.left = @ - d] ELSE None]

Clip(n) == IF n > Limit THEN Limit ELSE n

\* ... otherwise the thread sleeps, and the next pass starts.
SleepFor == IF nextDue > Limit - wall THEN Limit - wall ELSE nextDue

Sleep ==
    LET d == IF CanSleep THEN SleepFor ELSE 0 IN
    /\ phase = "decide"
    /\ ~LastPass
    /\ nextDue > 0
    /\ ~Expired
    /\ pendingTimers' = Later(d)
    /\ wall' = Clip(wall + d)
    /\ BeginPass
    /\ UNCHANGED <<mode, timerSeq, immediates, immSeq, microtasks, job, budget, after, outcome,
                   histVars>>

\* drainTimers is between its call and its return.
Draining ==
    \/ phase \in {"immediates", "timers", "decide"}
    \/ phase = "microtasks" /\ after = "decide"

\* Time passes.
Tick ==
    /\ \A t \in TimerIds : Pending(t) => pendingTimers[t].left > -MaxLate
    /\ nextDue # None => nextDue > -MaxLate
    /\ pendingTimers' = Later(1)
    /\ nextDue' = IF nextDue = None THEN None ELSE nextDue - 1
    /\ wall' = IF Draining THEN Clip(wall + 1) ELSE 0
    /\ UNCHANGED <<mode, timerSeq, immediates, immSeq, microtasks, i, ran, phase, job, budget,
                   after, outcome, histVars>>

-----------------------------------------------------------------------------
Script ==
    \/ \E ms \in Delays, repeat \in BOOLEAN : AddTimer(ms, repeat)
    \/ SetImmediate
    \/ \E t \in TimerIds : ClearTimer(t) \/ Refresh(t) \/ \E u \in BOOLEAN : SetRef(t, u)
    \/ \E m \in ImmIds : ClearImmediate(m)
    \/ QueueMicrotask

\* The end of whatever runs, and the steps of the host between callbacks.
Proceed ==
    \/ ScriptEnds
    \/ StartMicrotask \/ MicrotaskEnds \/ MicrotasksDone
    \/ Capped
    \/ SkipImmediate \/ StartImmediate \/ ImmediateReturns \/ ImmediatesDone
    \/ \E t \in TimerIds : StartTimer(t)
    \/ TimerReturns
    \/ PassDone
    \/ Finish \/ Overdue \/ WallClock \/ Sleep

Next == Eval \/ DrainTimers \/ Script \/ CallbackThrows \/ Proceed \/ Tick

Spec == Init /\ [][Next]_vars

\* Fairness: a script or callback ends (a script that never does hangs its
\* host, which no part of the layer claims to prevent), and the host thread is
\* not stopped between two steps.  Nobody has to call eval or drainTimers, and
\* no assumption is made on how time passes, except that a sleep lasts.
FairSpec == Spec /\ WF_vars(Proceed)

-----------------------------------------------------------------------------
(* Properties.                                                             *)

\* A timer that was cleared, and a timeout whose callback has started, never
\* starts again: not through the re-arming of an interval that is cleared in
\* its own callback, not through refresh() or ref() on an old handle, and not
\* in a drain after one that raised.
NoGhostRuns ==
    [][\A t \in TimerIds : job = None /\ job' = Callback(t) => t \notin gone]_vars

\* The callback of an immediate returns at most once, also when the pass that
\* ran it ended early because of the cap or of a later callback's exception.
\* No drain runs more callbacks than its cap, and every variable keeps its type.
ImmediateOnce == TypeOK /\ \A m \in ImmIds : finished[m] <= 1

\* A blocking drain that returns leaves no referenced timer behind, except
\* those that the microtasks after its last pass have set, referenced or
\* refreshed.
BlockDrainComplete ==
    [][mode = "block" /\ outcome # "ok" /\ outcome' = "ok" =>
          \A t \in TimerIds : Refd(t) => t \in late]_vars

\* drainTimers returns or raises, unless it blocks and again and again the
\* next timer is due by the time its pass is over.
DrainReturns ==
    \/ mode = "block" /\ []<>(phase = "decide" /\ nextDue # None /\ nextDue <= 0)
    \/ Draining ~> ~Draining

\* node_compat.dart on block mode: drainTimers "keeps draining until the queue
\* empties".  When it returns, no referenced timer and no immediate is left.
\* This does not hold: claim_block_empties.
BlockDrainEmpties ==
    [][mode = "block" /\ outcome # "ok" /\ outcome' = "ok" =>
          /\ \A t \in TimerIds : ~Refd(t)
          /\ \A k \in DOMAIN immediates : ~Live(immediates[k])]_vars
=============================================================================
