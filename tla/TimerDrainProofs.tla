-------------------------- MODULE TimerDrainProofs --------------------------
(***************************************************************************)
(* Proofs about TimerDrain, for any number of timers, immediates and       *)
(* microtasks, any limits and any behaviour of scripts and of the clock.   *)
(***************************************************************************)
EXTENDS TimerDrain, TLAPS

\* The time a leaf may take.
USE SMTT(30)

-----------------------------------------------------------------------------
(* The invariant.                                                          *)

\* What runs fits the phase, a pass that runs a callback is below its cap, and
\* the slot of a running immediate is there.
PhaseInv ==
    /\ i >= 1
    /\ job = Immediate => /\ phase = "immediates" /\ ran < MaxCallbacks
                          /\ i \in DOMAIN immediates /\ immediates[i] # None
    /\ (\E t \in TimerIds : job = Callback(t)) => phase = "timers" /\ ran < MaxCallbacks
    /\ job = Microtask => phase = "microtasks"

\* An immediate has one slot, which is there until its callback has returned.
ImmInv ==
    /\ \A k, l \in DOMAIN immediates :
          immediates[k] # None /\ immediates[l] # None /\ immediates[k].id = immediates[l].id => k = l
    /\ \A k \in DOMAIN immediates : immediates[k] # None =>
          immediates[k].id <= immSeq /\ finished[immediates[k].id] = 0
    /\ \A m \in ImmIds : finished[m] <= 1 /\ (m > immSeq => finished[m] = 0)

\* A timer that is gone is not in the table, and neither is one that was never
\* created.
GoneInv ==
    /\ \A t \in gone : t < timerSeq /\ pendingTimers[t] = None
    /\ \A t \in TimerIds : t >= timerSeq => pendingTimers[t] = None

\* A pass that found no referenced timer has overlooked none.
LateInv ==
    (phase = "decide" \/ (phase = "microtasks" /\ after = "decide")) /\ nextDue = None =>
        \A t \in TimerIds : Refd(t) => t \in late

TimerInv == TypeOK /\ PhaseInv /\ ImmInv /\ GoneInv /\ LateInv

\* What runs is one of three kinds of callback, and they differ.
LEMMA Jobs ==
    ASSUME TypeOK, PhaseInv
    PROVE  /\ Immediate # Microtask
           /\ \A t \in TimerIds : Callback(t) # Immediate /\ Callback(t) # Microtask
           /\ job # None => /\ phase \in {"immediates", "timers", "microtasks"}
                            /\ job = Immediate \/ job = Microtask \/ \E t \in TimerIds : job = Callback(t)
<1>1. /\ Immediate # Microtask
      /\ \A t \in TimerIds : Callback(t) # Immediate /\ Callback(t) # Microtask
    BY Zenon DEF Immediate, Microtask, Callback
<1>2. job # None => job = Immediate \/ job = Microtask \/ \E t \in TimerIds : job = Callback(t)
    BY Zenon DEF TypeOK, Job
<1> QED
    BY Zenon, <1>1, <1>2 DEF PhaseInv

\* Fields of a pending timer can be written.
LEMMA TimerFields ==
    ASSUME NEW r \in Timer
    PROVE  /\ r.left \in Int /\ r.ms \in Nat /\ r.repeat \in BOOLEAN /\ r.unref \in BOOLEAN
           /\ \A u \in BOOLEAN : [r EXCEPT !.unref = u] \in Timer
           /\ \A d \in Int : [r EXCEPT !.left = d] \in Timer /\ [r EXCEPT !.left = d].unref = r.unref
BY Zenon DEF Timer

\* When time passes, the same timers are pending and referenced.
LEMMA LaterKeeps ==
    ASSUME TypeOK, NEW d \in Int
    PROVE  /\ Later(d) \in [TimerIds -> Timer \cup {None}]
           /\ \A t \in TimerIds : /\ (Later(d)[t] = None) <=> (pendingTimers[t] = None)
                                  /\ Pending(t) => Later(d)[t].unref = pendingTimers[t].unref
<1>1. ASSUME NEW t \in TimerIds, Pending(t)
      PROVE  /\ [pendingTimers[t] EXCEPT !.left = @ - d] \in Timer
             /\ [pendingTimers[t] EXCEPT !.left = @ - d].unref = pendingTimers[t].unref
    <2>1. pendingTimers[t] \in Timer
        BY Zenon, <1>1 DEF TypeOK, Pending
    <2>2. pendingTimers[t].left - d \in Int
        BY <2>1 DEF Timer
    <2> QED
        BY Zenon, <2>1, <2>2, TimerFields
<1> QED
    BY Zenon, <1>1, NoneIsNew DEF Later, Pending

\* The invariant holds before anything has run.
LEMMA TimerInvInit == Init => TimerInv
<1> SUFFICES ASSUME Init PROVE TimerInv
    BY Zenon
<1> USE TimerConstants DEF Init
<1>1. << >> \in Seq(Entry \cup {None}) /\ DOMAIN immediates = {}
    OBVIOUS
<1>2. TypeOK
    BY <1>1 DEF TypeOK, Phases
<1>3. PhaseInv
    BY NoneIsNew DEF PhaseInv, Job
<1>4. ImmInv /\ GoneInv /\ LateInv
    BY <1>1 DEF ImmInv, GoneInv, LateInv
<1> QED
    BY Zenon, <1>2, <1>3, <1>4 DEF TimerInv

-----------------------------------------------------------------------------
(* The calls that scripts make.                                            *)

\* A script does not run between the microtasks and the decision.
LEMMA ScriptPhase ==
    ASSUME TypeOK, PhaseInv, NEW c, Running(c)
    PROVE  phase # "decide"
BY Zenon, Jobs DEF Running

\* setTimeout and setInterval use an id that no timer has had.
LEMMA AddTimerKeepsInv ==
    ASSUME TimerInv, NEW ms \in Delays, NEW repeat \in BOOLEAN, AddTimer(ms, repeat)
    PROVE  TimerInv'
<1> USE DEF TimerInv
<1> DEFINE r == [left |-> ms, ms |-> IF repeat THEN ms ELSE 0, repeat |-> repeat, unref |-> FALSE]
<1>1. r \in Timer
    BY TimerConstants DEF Timer
<1>2. /\ timerSeq \in TimerIds /\ pendingTimers' = [pendingTimers EXCEPT ![timerSeq] = r]
      /\ timerSeq' = timerSeq + 1 /\ Touch(timerSeq) /\ phase # "decide"
      /\ UNCHANGED <<mode, immediates, immSeq, microtasks, loopVars, hostVars, gone, finished>>
    BY Zenon, ScriptPhase DEF AddTimer
<1> HIDE DEF r
<1>3. timerSeq' \in 1 .. (MaxTimers + 1)
    BY <1>2, TimerConstants DEF TimerIds
<1>4. pendingTimers' \in [TimerIds -> Timer \cup {None}] /\ late' \subseteq TimerIds
    BY Zenon, <1>1, <1>2 DEF TypeOK, Touch
<1>5. TypeOK'
    BY Zenon, <1>2, <1>3, <1>4 DEF TypeOK, loopVars, hostVars
<1>6. PhaseInv' /\ ImmInv'
    BY Zenon, <1>2 DEF PhaseInv, ImmInv, loopVars, hostVars
<1>7. GoneInv'
    <2>1. \A t \in TimerIds : t # timerSeq => pendingTimers'[t] = pendingTimers[t]
        BY Zenon, <1>2 DEF TypeOK
    <2>2. \A t \in gone : t \in TimerIds /\ t < timerSeq
        BY Zenon DEF TypeOK, GoneInv
    <2> QED
        BY <1>2, <2>1, <2>2, TimerConstants DEF GoneInv, TimerIds
<1>8. LateInv'
    <2>1. \A t \in TimerIds : t # timerSeq => (Refd(t)' <=> Refd(t))
        BY Zenon, <1>2 DEF TypeOK, Refd, Pending
    <2> QED
        BY Zenon, <1>2, <2>1 DEF LateInv, Touch, loopVars, hostVars
<1> QED
    BY Zenon, <1>5, <1>6, <1>7, <1>8

\* A call that writes the fields of a pending timer, or removes a timer.
LEMMA WriteTimerKeepsInv ==
    ASSUME TimerInv, NEW t \in TimerIds, NEW r \in Timer \cup {None},
           pendingTimers' = [pendingTimers EXCEPT ![t] = r],
           Pending(t) \/ r = None, t < timerSeq, phase # "decide",
           late' \subseteq TimerIds, late \subseteq late',
           r # None => t \notin gone' /\ Touch(t),
           gone' \subseteq gone \cup {t},
           UNCHANGED <<mode, timerSeq, immediates, immSeq, microtasks, loopVars, hostVars, finished>>
    PROVE  TimerInv'
<1> USE DEF TimerInv
<1>1. \A u \in TimerIds : u # t => pendingTimers'[u] = pendingTimers[u]
    BY Zenon DEF TypeOK
<1>2. pendingTimers'[t] = r
    BY Zenon DEF TypeOK
<1>3. TypeOK'
    BY Zenon DEF TypeOK, loopVars, hostVars
<1>4. PhaseInv' /\ ImmInv'
    BY Zenon DEF PhaseInv, ImmInv, loopVars, hostVars
<1>5. GoneInv'
    <2>1. \A u \in gone : u \in TimerIds /\ u < timerSeq /\ pendingTimers[u] = None
        BY Zenon DEF TypeOK, GoneInv
    <2>2. timerSeq \in Nat
        BY DEF TypeOK
    <2> QED
        BY <1>1, <1>2, <2>1, <2>2 DEF GoneInv, TimerIds
<1>6. LateInv'
    <2>1. \A u \in TimerIds : u # t => (Refd(u)' <=> Refd(u))
        BY Zenon, <1>1 DEF Refd, Pending
    <2>2. r = None => ~Refd(t)'
        BY Zenon, <1>2 DEF Refd, Pending
    <2> QED
        BY Zenon, <2>1, <2>2 DEF LateInv, Touch, loopVars, hostVars
<1> QED
    BY Zenon, <1>3, <1>4, <1>5, <1>6

\* clearTimeout and clearInterval, ref and unref, refresh.
LEMMA HandleCallsKeepInv ==
    ASSUME TimerInv, NEW t \in TimerIds,
           ClearTimer(t) \/ Refresh(t) \/ \E u \in BOOLEAN : SetRef(t, u)
    PROVE  TimerInv'
<1> USE DEF TimerInv
<1>1. Pending(t) => pendingTimers[t] \in Timer /\ t < timerSeq /\ t \notin gone
    BY DEF Pending, TypeOK, GoneInv, TimerIds
<1>2. CASE ClearTimer(t)
    BY Zenon, <1>2, ScriptPhase, WriteTimerKeepsInv DEF ClearTimer, Cleared, TypeOK
<1>3. CASE Refresh(t)
    <2> DEFINE r == [pendingTimers[t] EXCEPT !.left = pendingTimers[t].ms]
    <2>1. Pending(t) /\ pendingTimers' = [pendingTimers EXCEPT ![t] = r] /\ phase # "decide"
        BY Zenon, <1>3, ScriptPhase DEF Refresh, RefreshPending
    <2>2. pendingTimers[t].ms \in Int
        BY <1>1, <2>1 DEF Timer
    <2>3. r \in Timer
        BY Zenon, <1>1, <2>1, <2>2, TimerFields
    <2> HIDE DEF r
    <2> QED
        BY Zenon, <1>1, <1>3, <2>1, <2>3, WriteTimerKeepsInv DEF Refresh, Touch, TypeOK
<1>4. ASSUME NEW u \in BOOLEAN, SetRef(t, u) PROVE TimerInv'
    <2> DEFINE r == [pendingTimers[t] EXCEPT !.unref = u]
    <2>1. Pending(t) /\ pendingTimers' = [pendingTimers EXCEPT ![t] = r] /\ phase # "decide"
        BY Zenon, <1>4, ScriptPhase DEF SetRef
    <2>2. r \in Timer
        BY Zenon, <1>1, <2>1, TimerFields
    <2> HIDE DEF r
    <2> QED
        BY Zenon, <1>1, <1>4, <2>1, <2>2, WriteTimerKeepsInv DEF SetRef, Touch, TypeOK
<1> QED
    BY Zenon, <1>2, <1>3, <1>4

\* setImmediate appends a slot under a new id.
LEMMA SetImmediateKeepsInv ==
    ASSUME TimerInv, SetImmediate
    PROVE  TimerInv'
<1> USE DEF TimerInv
<1> DEFINE e == [id |-> immSeq + 1, cancelled |-> FALSE]
           n == Len(immediates)
<1>1. /\ immSeq < MaxImmediates /\ immSeq' = immSeq + 1 /\ immediates' = Append(immediates, e)
      /\ UNCHANGED <<mode, pendingTimers, timerSeq, microtasks, loopVars, hostVars, histVars>>
    BY Zenon DEF SetImmediate
<1>2. e \in Entry /\ immSeq + 1 \in ImmIds /\ immSeq \in Nat /\ e.id = immSeq + 1
    BY <1>1, TimerConstants DEF Entry, ImmIds, TypeOK
<1>3. immediates \in Seq(Entry \cup {None})
    BY Zenon DEF TypeOK
<1> HIDE DEF e
<1>4. /\ immediates' \in Seq(Entry \cup {None}) /\ n \in Nat /\ DOMAIN immediates = 1 .. n
      /\ DOMAIN immediates' = 1 .. (n + 1) /\ immediates'[n + 1] = e
      /\ \A k \in 1 .. n : immediates'[k] = immediates[k] /\ immediates[k] \in Entry \cup {None}
    <2>1. e \in Entry \cup {None}
        BY Zenon, <1>2
    <2> HIDE DEF n
    <2> QED
        BY <1>1, <1>3, <2>1 DEF n
<1>5. immSeq' \in 0 .. MaxImmediates
    BY <1>1, TimerConstants DEF TypeOK
<1>6. TypeOK'
    BY Zenon, <1>1, <1>4, <1>5 DEF TypeOK, loopVars, hostVars, histVars
<1> HIDE DEF n
<1>7. PhaseInv'
    BY <1>1, <1>4 DEF PhaseInv, loopVars, hostVars
<1>8. ImmInv'
    <2>1. \A k \in 1 .. n : immediates[k] # None => immediates[k].id \in Nat /\ immediates[k].id <= immSeq
        BY <1>4 DEF Entry, ImmIds, ImmInv
    <2>2. ASSUME NEW k \in 1 .. (n + 1), NEW l \in 1 .. (n + 1), immediates'[k] # None,
                 immediates'[l] # None, immediates'[k].id = immediates'[l].id
          PROVE  k = l
        BY <1>2, <1>4, <2>1, <2>2 DEF ImmInv
    <2>3. ASSUME NEW k \in 1 .. (n + 1), immediates'[k] # None
          PROVE  immediates'[k].id <= immSeq' /\ finished'[immediates'[k].id] = 0
        <3>1. CASE k = n + 1
            BY <1>1, <1>2, <1>4, <3>1 DEF ImmInv, histVars
        <3>2. CASE k # n + 1
            BY <1>1, <1>2, <1>4, <2>1, <2>3, <3>2 DEF ImmInv, histVars
        <3> QED
            BY Zenon, <3>1, <3>2
    <2>4. \A m \in ImmIds : finished'[m] <= 1 /\ (m > immSeq' => finished'[m] = 0)
        BY <1>1, <1>2 DEF ImmInv, histVars, ImmIds
    <2> QED
        BY Zenon, <1>4, <2>2, <2>3, <2>4 DEF ImmInv
<1>9. GoneInv' /\ LateInv'
    BY Zenon, <1>1 DEF GoneInv, LateInv, Refd, Pending, loopVars, hostVars, histVars
<1> QED
    BY Zenon, <1>6, <1>7, <1>8, <1>9

\* A list of immediates with the same slots, some of them cancelled.
LEMMA ClearImmediateKeepsInv ==
    ASSUME TimerInv, NEW m \in ImmIds, ClearImmediate(m)
    PROVE  TimerInv'
<1> USE DEF TimerInv
<1> DEFINE n == Len(immediates)
<1>1. UNCHANGED <<mode, pendingTimers, timerSeq, immSeq, microtasks, loopVars, hostVars, histVars>>
    BY Zenon DEF ClearImmediate
<1>2. n \in Nat /\ DOMAIN immediates = 1 .. n /\ \A k \in 1 .. n : immediates[k] \in Entry \cup {None}
    <2>1. immediates \in Seq(Entry \cup {None})
        BY Zenon DEF TypeOK
    <2> QED
        BY <2>1
<1>3. immediates' = [k \in 1 .. n |->
          IF immediates[k] # None /\ immediates[k].id = m
          THEN [immediates[k] EXCEPT !.cancelled = TRUE] ELSE immediates[k]]
    BY Zenon, <1>2 DEF ClearImmediate
<1> HIDE DEF n
<1>4. ASSUME NEW k \in 1 .. n
      PROVE  /\ immediates'[k] \in Entry \cup {None}
             /\ (immediates'[k] = None) <=> (immediates[k] = None)
             /\ immediates[k] # None => immediates'[k].id = immediates[k].id
    <2>1. CASE immediates[k] # None /\ immediates[k].id = m
        <3>1. immediates[k] \in Entry
            BY Zenon, <1>2, <2>1
        <3>2. [immediates[k] EXCEPT !.cancelled = TRUE] \in Entry
              /\ [immediates[k] EXCEPT !.cancelled = TRUE].id = immediates[k].id
            BY Zenon, <3>1 DEF Entry
        <3> QED
            BY Zenon, <1>3, <2>1, <3>2, NoneIsNew
    <2>2. CASE ~(immediates[k] # None /\ immediates[k].id = m)
        BY Zenon, <1>2, <1>3, <2>2
    <2> QED
        BY Zenon, <2>1, <2>2
<1>5. DOMAIN immediates' = 1 .. n
    BY Zenon, <1>3
<1>6. immediates' \in Seq(Entry \cup {None})
    <2>1. immediates' \in [1 .. n -> Entry \cup {None}]
        BY Zenon, <1>3, <1>4
    <2> QED
        BY <1>2, <2>1
<1>7. TypeOK'
    BY Zenon, <1>1, <1>6 DEF TypeOK, loopVars, hostVars, histVars
<1>8. PhaseInv'
    BY Zenon, <1>1, <1>2, <1>4, <1>5 DEF PhaseInv, loopVars, hostVars
<1>9. ImmInv'
    BY Zenon, <1>1, <1>2, <1>4, <1>5 DEF ImmInv, histVars
<1>10. GoneInv' /\ LateInv'
    BY Zenon, <1>1 DEF GoneInv, LateInv, Refd, Pending, loopVars, hostVars, histVars
<1> QED
    BY Zenon, <1>7, <1>8, <1>9, <1>10

-----------------------------------------------------------------------------
(* The host, and the loops of a pass.                                      *)

\* A step that leaves the tables alone.
LEMMA TablesFrame ==
    ASSUME UNCHANGED <<jsVars, histVars>>
    PROVE  (ImmInv => ImmInv') /\ (GoneInv => GoneInv')
BY Zenon DEF ImmInv, GoneInv, jsVars, histVars

\* Between two callbacks only the index is constrained.
LEMMA IdlePhase ==
    ASSUME job' = None, i' >= 1
    PROVE  PhaseInv'
<1>1. None # Immediate /\ None # Microtask /\ \A t \in TimerIds : Callback(t) # None
    BY Zenon, NoneIsNew DEF Job
<1> QED
    BY Zenon, <1>1 DEF PhaseInv

\* Nothing is claimed of the timers while a pass is under way.
LEMMA LateElsewhere ==
    ASSUME phase' # "decide", phase' # "microtasks"
    PROVE  LateInv'
BY Zenon DEF LateInv

\* The host evaluates a script, and drains microtasks.
LEMMA HostKeepsInv ==
    ASSUME TimerInv,
           \/ Eval \/ ScriptEnds \/ QueueMicrotask
           \/ StartMicrotask \/ MicrotaskEnds \/ MicrotasksDone
    PROVE  TimerInv'
<1> USE TimerConstants DEF TimerInv
<1>0. /\ Immediate # Microtask /\ \A t \in TimerIds : Callback(t) # Microtask
      /\ job # None => phase \in {"immediates", "timers", "microtasks"}
      /\ None # Immediate /\ None # Microtask /\ \A t \in TimerIds : Callback(t) # None
    BY Zenon, Jobs, NoneIsNew DEF Job
<1>1. CASE Eval
    <2>1. TypeOK'
        BY Zenon, <1>1 DEF Eval, TypeOK, Phases, jsVars, loopVars, histVars
    <2>2. PhaseInv' /\ LateInv'
        BY Zenon, <1>0, <1>1 DEF Eval, PhaseInv, LateInv, jsVars, loopVars, histVars
    <2> QED
        BY Zenon, <1>1, <2>1, <2>2, TablesFrame DEF Eval
<1>2. CASE ScriptEnds
    <2>1. TypeOK'
        BY Zenon, <1>2 DEF ScriptEnds, DrainMicrotasks, TypeOK, Phases, jsVars, loopVars, histVars
    <2>2. PhaseInv' /\ LateInv'
        BY Zenon, <1>0, <1>2 DEF ScriptEnds, DrainMicrotasks, PhaseInv, LateInv, jsVars, loopVars, histVars
    <2> QED
        BY Zenon, <1>2, <2>1, <2>2, TablesFrame DEF ScriptEnds
<1>3. CASE QueueMicrotask
    <2>1. TypeOK'
        BY <1>3 DEF QueueMicrotask, TypeOK, hostVars, loopVars, histVars
    <2> QED
        BY Zenon, <1>3, <2>1 DEF QueueMicrotask, PhaseInv, ImmInv, GoneInv, LateInv, Refd, Pending,
                          hostVars, loopVars, histVars
<1>4. CASE StartMicrotask
    <2>1. TypeOK'
        BY <1>4 DEF StartMicrotask, TypeOK, Job, loopVars, histVars
    <2>2. PhaseInv'
        <3>1. job' = Microtask /\ phase' = "microtasks" /\ i' = i /\ i >= 1
            BY Zenon, <1>4 DEF StartMicrotask, PhaseInv, loopVars
        <3> QED
            BY Zenon, <1>0, <3>1 DEF PhaseInv
    <2> QED
        BY Zenon, <1>4, <2>1, <2>2 DEF StartMicrotask, ImmInv, GoneInv, LateInv, Refd, Pending,
                                loopVars, histVars
<1>5. CASE MicrotaskEnds
    <2>1. TypeOK'
        BY Zenon, <1>5 DEF MicrotaskEnds, TypeOK, jsVars, loopVars, histVars
    <2>2. PhaseInv' /\ LateInv'
        BY Zenon, <1>0, <1>5 DEF MicrotaskEnds, PhaseInv, LateInv, Refd, Pending, jsVars, loopVars, histVars
    <2> QED
        BY Zenon, <1>5, <2>1, <2>2, TablesFrame DEF MicrotaskEnds
<1>6. CASE MicrotasksDone
    <2>1. TypeOK'
        BY Zenon, <1>6 DEF MicrotasksDone, TypeOK, Phases, jsVars, loopVars, histVars
    <2>2. PhaseInv' /\ LateInv'
        BY Zenon, <1>0, <1>6 DEF MicrotasksDone, PhaseInv, LateInv, Refd, Pending, jsVars, loopVars, histVars
    <2> QED
        BY Zenon, <1>6, <2>1, <2>2, TablesFrame DEF MicrotasksDone
<1> QED
    BY Zenon, <1>1, <1>2, <1>3, <1>4, <1>5, <1>6

\* A drain or a pass begins or ends.
LEMMA PassKeepsInv ==
    ASSUME TimerInv,
           DrainTimers \/ Overdue \/ Capped \/ Finish \/ WallClock \/ CallbackThrows
    PROVE  TimerInv'
<1> USE TimerConstants DEF TimerInv
<1>1. /\ job' = None /\ i' = 1 /\ ran' = 0 /\ nextDue' = None
      /\ \/ phase' = "immediates" /\ UNCHANGED <<budget, after, wall>>
         \/ phase' = "host" /\ wall' = 0 /\ UNCHANGED <<budget, after>>
         \/ phase' = "microtasks" /\ budget' = MaxJobs /\ after' = "host" /\ wall' = 0
      /\ outcome' \in {"none", "ok", "failed", "capped", "wallclock"}
      /\ UNCHANGED <<mode, jsVars, histVars>>
    <2>1. phase \in {"host", "decide"} => job = None
        BY Zenon, Jobs
    <2>2. CASE DrainTimers \/ Overdue
        BY Zenon, <2>1, <2>2 DEF DrainTimers, Overdue, BeginPass, TypeOK
    <2>3. CASE Capped \/ Finish \/ WallClock
        BY Zenon, <2>1, <2>3 DEF Capped, Finish, WallClock, EndDrain, DrainMicrotasks
    <2>4. CASE CallbackThrows
        BY Zenon, <2>4 DEF CallbackThrows, EndDrain
    <2> QED
        BY Zenon, <2>2, <2>3, <2>4
<1>2. TypeOK'
    BY <1>1 DEF TypeOK, Phases, jsVars, histVars
<1>3. PhaseInv'
    BY <1>1, NoneIsNew DEF PhaseInv, Job
<1>4. LateInv'
    BY Zenon, <1>1 DEF LateInv
<1> QED
    BY Zenon, <1>1, <1>2, <1>3, <1>4, TablesFrame

\* The loop over the immediates.
LEMMA ImmediatesKeepInv ==
    ASSUME TimerInv, SkipImmediate \/ StartImmediate
    PROVE  TimerInv'
<1> USE TimerConstants DEF TimerInv
<1>1. /\ None # Immediate /\ None # Microtask /\ Immediate # Microtask
      /\ \A t \in TimerIds : Callback(t) # None /\ Callback(t) # Immediate
    BY Zenon, Jobs, NoneIsNew DEF Job
<1>2. CASE SkipImmediate
    <2>1. TypeOK'
        BY <1>2 DEF SkipImmediate, TypeOK, jsVars, hostVars, histVars
    <2>2. PhaseInv' /\ LateInv'
        BY <1>1, <1>2 DEF SkipImmediate, PhaseInv, LateInv, TypeOK, jsVars, hostVars, histVars
    <2> QED
        BY Zenon, <1>2, <2>1, <2>2, TablesFrame DEF SkipImmediate
<1>3. CASE StartImmediate
    <2>1. TypeOK'
        BY Zenon, <1>3 DEF StartImmediate, TypeOK, Job, jsVars, loopVars, histVars
    <2>2. i \in DOMAIN immediates
        BY <1>3 DEF StartImmediate, PhaseInv, TypeOK
    <2>3. ran < MaxCallbacks
        BY <1>3 DEF StartImmediate, AtCap, TypeOK
    <2>4. /\ job' = Immediate /\ phase' = "immediates" /\ i' = i /\ i >= 1 /\ ran' = ran
          /\ immediates' = immediates /\ immediates[i] # None
        BY Zenon, <1>3 DEF StartImmediate, Live, PhaseInv, jsVars, loopVars
    <2>5. PhaseInv'
        BY Zenon, <1>1, <2>2, <2>3, <2>4 DEF PhaseInv
    <2>6. LateInv'
        BY Zenon, <2>4, LateElsewhere
    <2> QED
        BY Zenon, <1>3, <2>1, <2>5, <2>6, TablesFrame DEF StartImmediate
<1> QED
    BY Zenon, <1>2, <1>3

\* An immediate that has returned loses its slot.
LEMMA ImmediateReturnsKeepsInv ==
    ASSUME TimerInv, ImmediateReturns
    PROVE  TimerInv'
<1> USE TimerConstants DEF TimerInv
<1> DEFINE m == immediates[i].id
<1>1. /\ ran < MaxCallbacks /\ i \in DOMAIN immediates /\ immediates[i] # None
      /\ phase = "immediates"
    BY Zenon DEF ImmediateReturns, PhaseInv
<1>2. /\ job' = None /\ ran' = ran + 1 /\ i' = i + 1 /\ immediates' = [immediates EXCEPT ![i] = None]
      /\ finished' = [finished EXCEPT ![m] = finished[m] + 1]
      /\ UNCHANGED <<mode, pendingTimers, timerSeq, immSeq, microtasks, nextDue, phase, budget,
                     after, wall, outcome, gone, late>>
    BY Zenon DEF ImmediateReturns, Consume
<1>3. immediates \in Seq(Entry \cup {None})
    BY Zenon DEF TypeOK
<1>4. immediates[i] \in Entry /\ m \in ImmIds /\ finished[m] = 0 /\ m <= immSeq
    BY <1>1, <1>3 DEF Entry, ImmInv
<1> HIDE DEF m
<1>5. immediates' \in Seq(Entry \cup {None}) /\ DOMAIN immediates' = DOMAIN immediates
    BY <1>1, <1>2, <1>3
<1>6. finished' \in [ImmIds -> Nat] /\ ran' \in 0 .. MaxCallbacks /\ i' \in Nat /\ i' >= 1
    BY <1>1, <1>2, <1>4 DEF TypeOK, PhaseInv
<1>7. TypeOK'
    BY Zenon, <1>2, <1>5, <1>6 DEF TypeOK
<1>8. PhaseInv'
    BY Zenon, <1>2, <1>6, NoneIsNew DEF PhaseInv, Job
<1>9. ImmInv'
    <2>1. \A k \in DOMAIN immediates : k # i => immediates'[k] = immediates[k]
        BY Zenon, <1>2
    <2>2. immediates'[i] = None
        BY Zenon, <1>1, <1>2
    <2>3. \A k \in DOMAIN immediates : k # i /\ immediates[k] # None =>
              immediates[k].id # m /\ immediates[k].id \in ImmIds
        <3>1. \A k \in DOMAIN immediates : immediates[k] # None => immediates[k].id \in ImmIds
            BY <1>3 DEF Entry
        <3> QED
            BY Zenon, <1>1, <3>1 DEF ImmInv, m
    <2>4. \A l \in ImmIds : l # m => finished'[l] = finished[l]
        BY Zenon, <1>2 DEF TypeOK
    <2>5. finished'[m] = 1
        BY <1>2, <1>4 DEF TypeOK
    <2>6. \A l \in ImmIds : finished'[l] <= 1 /\ (l > immSeq' => finished'[l] = 0)
        BY <1>2, <1>4, <2>4, <2>5 DEF ImmInv, ImmIds, TypeOK
    <2> QED
        BY <1>2, <1>5, <2>1, <2>2, <2>3, <2>4, <2>6 DEF ImmInv
<1>10. GoneInv' /\ LateInv'
    BY Zenon, <1>1, <1>2 DEF GoneInv, LateInv
<1> QED
    BY Zenon, <1>7, <1>8, <1>9, <1>10

\* The consumed slots are dropped.
LEMMA ImmediatesDoneKeepsInv ==
    ASSUME TimerInv, ImmediatesDone
    PROVE  TimerInv'
<1> USE TimerConstants DEF TimerInv
<1>0. PICK n \in 0 .. Len(immediates) : \E g \in [1 .. n -> DOMAIN immediates] :
          Kept(g, immediates) /\ immediates' = [p \in 1 .. n |-> immediates[g[p]]]
    BY Zenon DEF ImmediatesDone
<1>1. /\ phase' = "timers" /\ i' = 1 /\ job = None
      /\ UNCHANGED <<mode, pendingTimers, timerSeq, immSeq, microtasks, ran, nextDue, job, budget,
                     after, wall, outcome, histVars>>
    BY Zenon DEF ImmediatesDone
<1>2. PICK g \in [1 .. n -> DOMAIN immediates] :
          Kept(g, immediates) /\ immediates' = [p \in 1 .. n |-> immediates[g[p]]]
    BY Zenon, <1>0
<1>3. /\ immediates \in Seq(Entry \cup {None}) /\ n \in Nat
      /\ \A k \in DOMAIN immediates : immediates[k] \in Entry \cup {None}
    BY DEF TypeOK
<1>4. immediates' \in Seq(Entry \cup {None}) /\ DOMAIN immediates' = 1 .. n
    BY <1>2, <1>3
<1>5. TypeOK'
    BY Zenon, <1>1, <1>4 DEF TypeOK, Phases, histVars
<1>6. PhaseInv' /\ LateInv'
    <2>1. job' = None /\ i' >= 1 /\ phase' = "timers"
        BY <1>1
    <2> QED
        BY Zenon, <2>1, IdlePhase, LateElsewhere
<1>7. ImmInv'
    <2>1. /\ \A p \in 1 .. n : immediates'[p] = immediates[g[p]] /\ immediates[g[p]] # None
          /\ \A p, q \in 1 .. n : g[p] = g[q] => p = q
        <3>1. \A p \in 1 .. n : g[p] \in Int
            BY <1>2, <1>3
        <3> QED
            BY <1>2, <3>1 DEF Kept
    <2>2. \A p \in 1 .. n : g[p] \in DOMAIN immediates
        BY Zenon, <1>2
    <2>3. immSeq' = immSeq /\ finished' = finished
        BY Zenon, <1>1 DEF histVars
    <2>4. ASSUME NEW p \in 1 .. n, NEW q \in 1 .. n,
                 immediates'[p].id = immediates'[q].id
          PROVE  p = q
        <3>1. g[p] = g[q]
            BY <2>1, <2>2, <2>4 DEF ImmInv
        <3> QED
            BY Zenon, <2>1, <3>1
    <2>5. \A p \in 1 .. n :
             immediates'[p].id <= immSeq' /\ finished'[immediates'[p].id] = 0
        BY <2>1, <2>2, <2>3 DEF ImmInv
    <2> QED
        BY Zenon, <1>4, <2>3, <2>4, <2>5 DEF ImmInv
<1>8. GoneInv'
    BY Zenon, <1>1 DEF GoneInv, histVars
<1> QED
    BY Zenon, <1>5, <1>6, <1>7, <1>8

\* A due timer is started: an interval is armed again, a timeout is removed.
LEMMA StartTimerKeepsInv ==
    ASSUME TimerInv, NEW t \in TimerIds, StartTimer(t)
    PROVE  TimerInv'
<1> USE TimerConstants DEF TimerInv
<1> DEFINE r == IF pendingTimers[t].repeat THEN [pendingTimers[t] EXCEPT !.left = pendingTimers[t].ms]
                ELSE None
<1>1. Pending(t) /\ ran < MaxCallbacks /\ phase = "timers"
    BY DEF StartTimer, Best, Due, AtCap, TypeOK
<1>2. pendingTimers[t] \in Timer /\ t < timerSeq /\ t \notin gone
    BY <1>1 DEF Pending, TypeOK, GoneInv, TimerIds
<1>3. /\ pendingTimers' = [pendingTimers EXCEPT ![t] = r] /\ job' = Callback(t)
      /\ UNCHANGED <<mode, timerSeq, immediates, immSeq, microtasks, loopVars, phase, budget,
                     after, wall, outcome, finished, late>>
    BY Zenon DEF StartTimer, Rearm
<1>4. r \in Timer \cup {None} /\ (r # None => gone' = gone) /\ (r = None => gone' = gone \cup {t})
    <2>1. CASE pendingTimers[t].repeat
        <3>1. r \in Timer
            BY <1>2, <2>1, TimerFields
        <3> QED
            BY Zenon, <2>1, <3>1, NoneIsNew DEF StartTimer
    <2>2. CASE ~pendingTimers[t].repeat
        BY Zenon, <2>2 DEF StartTimer
    <2> QED
        BY Zenon, <2>1, <2>2
<1> HIDE DEF r
<1>5. gone' \subseteq gone \cup {t} /\ gone' \subseteq TimerIds
    BY Zenon, <1>4 DEF TypeOK
<1>6. TypeOK'
    <2>1. job' \in Job
        BY Zenon, <1>3 DEF Job
    <2>2. pendingTimers' \in [TimerIds -> Timer \cup {None}]
        BY Zenon, <1>3, <1>4 DEF TypeOK
    <2> QED
        BY Zenon, <1>3, <1>5, <2>1, <2>2 DEF TypeOK, loopVars
<1>7. PhaseInv'
    BY Zenon, <1>1, <1>3, Jobs DEF PhaseInv, loopVars
<1>8. ImmInv' /\ LateInv'
    BY Zenon, <1>1, <1>3 DEF ImmInv, LateInv, loopVars
<1>9. GoneInv'
    <2>1. \A u \in TimerIds : u # t => pendingTimers'[u] = pendingTimers[u]
        BY Zenon, <1>3 DEF TypeOK
    <2>2. pendingTimers'[t] = r
        BY Zenon, <1>3 DEF TypeOK
    <2>3. \A u \in gone : u \in TimerIds /\ u # t
        BY Zenon, <1>2 DEF TypeOK
    <2>4. timerSeq \in Nat /\ t \in Nat
        BY DEF TypeOK, TimerIds
    <2> QED
        BY <1>2, <1>3, <1>4, <2>1, <2>2, <2>3, <2>4 DEF GoneInv, TimerIds
<1> QED
    BY Zenon, <1>6, <1>7, <1>8, <1>9

\* A timer callback returns, and a pass is over.
LEMMA TimersKeepInv ==
    ASSUME TimerInv, TimerReturns \/ PassDone
    PROVE  TimerInv'
<1> USE TimerConstants DEF TimerInv
<1>1. None # Immediate /\ None # Microtask /\ \A t \in TimerIds : Callback(t) # None
    BY Zenon, NoneIsNew DEF Job
<1>2. CASE TimerReturns
    <2>1. phase = "timers" /\ ran < MaxCallbacks
        BY Zenon, <1>2 DEF TimerReturns, PhaseInv
    <2>2. TypeOK'
        BY <1>2, <2>1 DEF TimerReturns, TypeOK, jsVars, histVars
    <2>3. PhaseInv' /\ LateInv'
        BY Zenon, <1>1, <1>2, <2>1 DEF TimerReturns, PhaseInv, LateInv, jsVars, histVars
    <2> QED
        BY Zenon, <1>2, <2>2, <2>3, TablesFrame DEF TimerReturns
<1>3. CASE PassDone
    <2>1. /\ job = None /\ phase' = "microtasks" /\ budget' = 2 * MaxJobs /\ after' = "decide"
          /\ IsNextDue(nextDue') /\ late' = {} /\ UNCHANGED <<mode, jsVars, i, ran, job, wall, outcome, gone, finished>>
        BY Zenon, <1>3 DEF PassDone, DrainMicrotasks
    <2>2. \A t \in TimerIds : Refd(t) => pendingTimers[t].left \in Int
        BY Zenon DEF Refd, Pending, TypeOK, Timer
    <2>3. nextDue' \in Int \cup {None} /\ (nextDue' = None => \A t \in TimerIds : ~Refd(t))
        BY Zenon, <2>1, <2>2, NoneIsNew DEF IsNextDue
    <2>4. TypeOK'
        BY <2>1, <2>3 DEF TypeOK, Phases, jsVars
    <2>5. PhaseInv' /\ LateInv'
        BY Zenon, <1>1, <2>1, <2>3 DEF PhaseInv, LateInv, Refd, Pending, jsVars
    <2>6. ImmInv' /\ GoneInv'
        <3>1. UNCHANGED <<immediates, immSeq, finished>> /\ UNCHANGED <<pendingTimers, timerSeq, gone>>
            BY Zenon, <2>1 DEF jsVars
        <3>2. ImmInv'
            BY Zenon, <3>1 DEF ImmInv
        <3> QED
            BY Zenon, <3>1, <3>2 DEF GoneInv
    <2> QED
        BY Zenon, <2>4, <2>5, <2>6
<1> QED
    BY Zenon, <1>2, <1>3

\* Time passes: in a sleep of the drain loop, or otherwise.
LEMMA TimeKeepsInv ==
    ASSUME TimerInv, Sleep \/ Tick
    PROVE  TimerInv'
<1> USE TimerConstants DEF TimerInv
<1>1. /\ \E d \in Int : pendingTimers' = Later(d)
      /\ wall' \in 0 .. Limit /\ nextDue' \in Int \cup {None}
      /\ UNCHANGED <<mode, timerSeq, immediates, immSeq, microtasks, job, budget, after, outcome,
                     histVars>>
      /\ \/ phase' = "immediates" /\ i' = 1 /\ ran' = 0 /\ job = None
         \/ UNCHANGED <<phase, i, ran>> /\ (nextDue' = None <=> nextDue = None)
    <2>1. nextDue \in Int \cup {None} /\ wall \in 0 .. Limit /\ None \notin Int
        BY Zenon, NoneIsNew DEF TypeOK
    <2>2. CASE Sleep
        <3> DEFINE d == IF CanSleep THEN SleepFor ELSE 0
        <3>1. nextDue \in Int /\ nextDue > 0 /\ wall < Limit
            BY <2>1, <2>2 DEF Sleep, LastPass, Expired
        <3>2. d \in Int /\ d >= 0
            BY <2>1, <3>1 DEF SleepFor
        <3>3. pendingTimers' = Later(d) /\ wall' = Clip(wall + d)
            BY Zenon, <2>2 DEF Sleep
        <3> HIDE DEF d
        <3>4. wall' \in 0 .. Limit
            <4>1. wall \in Int /\ Limit \in Int /\ wall + d \in Int /\ wall + d >= 0
                BY <2>1, <3>2
            <4> QED
                BY <3>3, <4>1 DEF Clip
        <3>5. job = None
            BY Zenon, <2>2, Jobs DEF Sleep
        <3>6. /\ phase' = "immediates" /\ i' = 1 /\ ran' = 0 /\ nextDue' = None
              /\ UNCHANGED <<mode, timerSeq, immediates, immSeq, microtasks, job, budget, after, outcome,
                             histVars>>
            BY Zenon, <2>2 DEF Sleep, BeginPass
        <3> QED
            BY Zenon, <3>2, <3>3, <3>4, <3>5, <3>6
    <2>3. CASE Tick
        <3>1. wall' \in 0 .. Limit
            <4>1. wall \in Int /\ Limit \in Int /\ wall >= 0 /\ Limit >= 0
                BY <2>1
            <4>2. wall' = Clip(wall + 1) \/ wall' = 0
                BY Zenon, <2>3 DEF Tick
            <4> QED
                BY <4>1, <4>2 DEF Clip
        <3>2. nextDue' \in Int \cup {None} /\ (nextDue' = None <=> nextDue = None)
            <4>1. nextDue' = IF nextDue = None THEN None ELSE nextDue - 1
                BY Zenon, <2>3 DEF Tick
            <4>2. CASE nextDue = None
                BY Zenon, <4>1, <4>2
            <4>3. CASE nextDue \in Int
                <5>1. nextDue # None
                    BY Zenon, <2>1, <4>3
                <5>2. nextDue' = nextDue - 1 /\ nextDue - 1 \in Int
                    BY <4>1, <4>3, <5>1
                <5> QED
                    BY Zenon, <2>1, <5>1, <5>2
            <4> QED
                BY Zenon, <2>1, <4>2, <4>3
        <3> QED
            BY <2>3, <3>1, <3>2 DEF Tick
    <2> QED
        BY Zenon, <2>2, <2>3
<1>2. PICK d \in Int : pendingTimers' = Later(d)
    BY Zenon, <1>1
<1>3. /\ pendingTimers' \in [TimerIds -> Timer \cup {None}]
      /\ \A t \in TimerIds : /\ (pendingTimers'[t] = None) <=> (pendingTimers[t] = None)
                             /\ Pending(t) => pendingTimers'[t].unref = pendingTimers[t].unref
    BY Zenon, <1>2, LaterKeeps
<1>4. TypeOK'
    BY <1>1, <1>3 DEF TypeOK, Phases, histVars
<1>5. PhaseInv'
    BY <1>1, NoneIsNew DEF PhaseInv, Job
<1>6. LateInv'
    <2>1. \A t \in TimerIds : Refd(t)' <=> Refd(t)
        BY Zenon, <1>3 DEF Refd, Pending
    <2> QED
        BY Zenon, <1>1, <2>1 DEF LateInv, histVars
<1>7. ImmInv' /\ GoneInv'
    BY Zenon, <1>1, <1>3 DEF ImmInv, GoneInv, TypeOK, histVars
<1> QED
    BY Zenon, <1>4, <1>5, <1>6, <1>7

\* Every step keeps the invariant.
LEMMA TimerInvStep == TimerInv /\ [Next]_vars => TimerInv'
<1> SUFFICES ASSUME TimerInv, [Next]_vars PROVE TimerInv'
    BY Zenon
<1>1. CASE Script
    BY Zenon, <1>1, AddTimerKeepsInv, SetImmediateKeepsInv, HandleCallsKeepInv, ClearImmediateKeepsInv,
       HostKeepsInv DEF Script
<1>2. CASE Proceed
    BY Zenon, <1>2, HostKeepsInv, PassKeepsInv, ImmediatesKeepInv, ImmediateReturnsKeepsInv,
       ImmediatesDoneKeepsInv, StartTimerKeepsInv, TimersKeepInv, TimeKeepsInv DEF Proceed
<1>3. CASE UNCHANGED vars
    BY <1>3 DEF vars, jsVars, loopVars, hostVars, histVars, TimerInv, TypeOK, PhaseInv, ImmInv,
                GoneInv, LateInv, Refd, Pending
<1> QED
    BY Zenon, <1>1, <1>2, <1>3, HostKeepsInv, PassKeepsInv, TimeKeepsInv DEF Next

\* The invariant holds throughout.
THEOREM TimerInvariant == Spec => []TimerInv
<1> QED
    BY TimerInvInit, TimerInvStep, PTL DEF Spec

-----------------------------------------------------------------------------
(* What it gives.                                                          *)

\* The callback of an immediate returns at most once, however passes end and
\* whatever is appended, cancelled and compacted meanwhile; no pass runs more
\* callbacks than its cap.
THEOREM ImmediatesReturnOnce == Spec => []ImmediateOnce
<1>1. TimerInv => ImmediateOnce
    BY Zenon DEF TimerInv, ImmInv, ImmediateOnce
<1> QED
    BY <1>1, TimerInvariant, PTL

\* A cleared timer and a timeout that was started never start again.
THEOREM NoTimerHaunts == Spec => NoGhostRuns
<1> DEFINE Fresh == \A t \in TimerIds : job = None /\ job' = Callback(t) => t \notin gone
<1>1. TimerInv /\ [Next]_vars => [Fresh]_vars
    <2> SUFFICES ASSUME TimerInv, Next, NEW t \in TimerIds, job = None, job' = Callback(t)
                 PROVE  t \notin gone
        BY Zenon
    <2>1. Callback(t) # None /\ Callback(t) # Immediate /\ Callback(t) # Microtask
        BY Zenon, Jobs, NoneIsNew DEF Job, TimerInv
    <2>2. \E u \in TimerIds : StartTimer(u)
        BY Zenon, <2>1 DEF Next, Script, Proceed, Eval, DrainTimers, CallbackThrows, Tick, AddTimer,
                    SetImmediate, ClearTimer, Refresh, SetRef, ClearImmediate, QueueMicrotask,
                    ScriptEnds, StartMicrotask, MicrotaskEnds, MicrotasksDone, Capped,
                    SkipImmediate, StartImmediate, ImmediateReturns, ImmediatesDone,
                    TimerReturns, PassDone, Finish, Overdue, WallClock, Sleep, hostVars
    <2>3. PICK u \in TimerIds : StartTimer(u)
        BY Zenon, <2>2
    <2>4. u = t
        BY <2>3 DEF StartTimer, Callback
    <2>5. Pending(t)
        BY Zenon, <2>3, <2>4 DEF StartTimer, Best, Due
    <2> QED
        BY Zenon, <2>5 DEF TimerInv, GoneInv, Pending
<1> QED
    BY <1>1, TimerInvariant, PTL DEF Spec, NoGhostRuns

\* When a blocking drain returns, the only referenced timers left are those
\* that its last microtasks have touched.
THEOREM BlockingDrainCompletes == Spec => BlockDrainComplete
<1> DEFINE Complete == mode = "block" /\ outcome # "ok" /\ outcome' = "ok" =>
                           \A t \in TimerIds : Refd(t) => t \in late
<1>1. TimerInv /\ [Next]_vars => [Complete]_vars
    <2> SUFFICES ASSUME TimerInv, Next, mode = "block", outcome # "ok", outcome' = "ok"
                 PROVE  \A t \in TimerIds : Refd(t) => t \in late
        BY Zenon
    <2>1. Finish
        BY Zenon DEF Next, Script, Proceed, Eval, DrainTimers, CallbackThrows, Tick, AddTimer,
               SetImmediate, ClearTimer, Refresh, SetRef, ClearImmediate, QueueMicrotask,
               ScriptEnds, StartMicrotask, MicrotaskEnds, MicrotasksDone, Capped, EndDrain,
               SkipImmediate, StartImmediate, ImmediateReturns, ImmediatesDone, StartTimer,
               TimerReturns, PassDone, Overdue, WallClock, Sleep, hostVars
    <2> QED
        BY Zenon, <2>1 DEF Finish, LastPass, TimerInv, LateInv
<1> QED
    BY <1>1, TimerInvariant, PTL DEF Spec, BlockDrainComplete
=============================================================================
