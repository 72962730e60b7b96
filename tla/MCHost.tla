------------------------------- MODULE MCHost -------------------------------
(***************************************************************************)
(* The host side of the runtime for TLC: in every behaviour one of the     *)
(* callback tables (HostBridge), an EventEmitter, a QuickjsRuntime or the  *)
(* timers (TimerDrain) moves and the others stay as they begin.            *)
(***************************************************************************)
EXTENDS HostBridge

CONSTANTS Types, Listeners, MaxEntries, MaxLists, MaxDepth, EmitterCalls,
          JobIds, MaxCalls, MaxJobs, Threads, Oddities,
          MaxTimers, MaxImmediates, MaxQueued, MaxLate, MaxTimerJobs,
          MaxCallbacks, Limit, Delays, TimerCalls

VARIABLES part,
          events, lists, entries, activity, started, cause,
          stack, queue, opened, thread, stackTop, cut, result,
          pendingTimers, timerSeq, immediates, immSeq, microtasks, i, ran, mode,
          phase, job, budget, after, nextDue, wall, outcome, gone, finished, late

Emitter == INSTANCE EventEmitter WITH stack <- activity, Calls <- EmitterCalls
Runtime == INSTANCE QuickjsRuntime WITH open <- opened, AutoDrain <- TRUE
Timers  == INSTANCE TimerDrain WITH MaxJobs <- MaxTimerJobs, Calls <- TimerCalls,
                                    CanSleep <- TRUE

emitterVars == <<events, lists, entries, activity, started, cause>>
runtimeVars == <<stack, queue, opened, thread, stackTop, cut, result>>
timerVars   == <<pendingTimers, timerSeq, immediates, immSeq, microtasks, i, ran, mode,
                 phase, job, budget, after, nextDue, wall, outcome, gone, finished, late>>
allVars     == <<part, vars, emitterVars, runtimeVars, timerVars>>

HostInit ==
    /\ part \in {"bridge", "emitter", "runtime", "timers"}
    /\ Init /\ Emitter!Init /\ Runtime!Init /\ Timers!Init
    /\ part # "runtime" => thread = CHOOSE t \in Threads : TRUE
    /\ part # "timers" => mode = "block"

BridgeStep ==
    part = "bridge" /\ Next /\ UNCHANGED <<part, emitterVars, runtimeVars, timerVars>>
EmitterStep ==
    part = "emitter" /\ Emitter!Next /\ UNCHANGED <<part, vars, runtimeVars, timerVars>>
RuntimeStep ==
    part = "runtime" /\ Runtime!Next /\ UNCHANGED <<part, vars, emitterVars, timerVars>>
TimersStep ==
    part = "timers" /\ Timers!Next /\ UNCHANGED <<part, vars, emitterVars, runtimeVars>>

HostNext == BridgeStep \/ EmitterStep \/ RuntimeStep \/ TimersStep

\* The fairness of TimerDrain; nothing is assumed of the other three.
HostSpec == HostInit /\ [][HostNext]_allVars /\ WF_timerVars(Timers!Proceed)

\* See the properties of these names in EventEmitter, QuickjsRuntime and
\* TimerDrain.
OnceGone         == Emitter!TypeOK /\ Emitter!OnceGone
LeavesForAReason == Emitter!LeavesForAReason
StackTopFresh    == Runtime!TypeOK /\ Runtime!StackTopFresh
SettledAfterEval == Runtime!SettledAfterEval
DrainReturns     == Timers!DrainReturns
=============================================================================
