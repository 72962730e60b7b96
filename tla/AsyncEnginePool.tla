--------------------------- MODULE AsyncEnginePool ---------------------------
(***************************************************************************)
(* The engine-worker pool of lib/src/async_engine_pool.dart.               *)
(*                                                                         *)
(* One main isolate owns the pool.  It is single-threaded: boot, dispatch, *)
(* wait, dispose and the exit listener never overlap, but boot gives the   *)
(* event loop up at its two awaits, and a dispatch or wait that parks on a *)
(* worker's mailbox freezes the event loop (pc # "loop") until the mailbox *)
(* is filled.  Worker isolates run in parallel with it.  A worker is an    *)
(* instance <<g, i>>: the isolate with worker id i of the g-th boot.       *)
(***************************************************************************)
EXTENDS Integers, Sequences

CONSTANTS
    N,            \* workers: the number of isolates one boot spawns
    MaxJobs,      \* bound on the jobs dispatched
    MaxBoots,     \* bound on the calls of boot that start a _boot
    ExecutorLoop, \* TRUE: an executor pool; FALSE: a workerMain pool
    Faults,       \* what the environment may do, see FaultKinds
    None,         \* no job, no worker, an empty mailbox
    Ready,        \* the 'ready' mailbox message
    Shutdown      \* the 'shutdown' inbox message

\* crash:       a worker isolate exits (killed, or its body throws)
\* earlyCrash:  ... before boot has registered the exit listener
\* badContext:  dispatchContext() throws or its value does not encode
\* midBoot:     dispose is called while a boot awaits
FaultKinds == {"crash", "earlyCrash", "badContext", "midBoot"}

JobIds    == 0 .. (MaxJobs - 1)
WorkerIds == 0 .. (N - 1)
Gens      == 1 .. MaxBoots
Inst      == Gens \X WorkerIds
Envelope  == [job : JobIds, ok : BOOLEAN]

ASSUME PoolConstants ==
    /\ N \in Nat \ {0}
    /\ MaxJobs \in Nat
    /\ MaxBoots \in Nat
    /\ ExecutorLoop \in BOOLEAN
    /\ Faults \subseteq FaultKinds

ASSUME Sentinels ==
    /\ None # Ready
    /\ None \notin Envelope /\ Ready \notin Envelope
    /\ None \notin Int /\ Shutdown \notin Int
    /\ None \notin Inst

VARIABLES
    \* fields of AsyncEnginePool, on the main isolate
    workers,    \* _workers: the instances, in the order boot added them
    state,      \* _Worker.state of each instance ("none" before boot adds it)
    jobs,       \* _jobs: job id -> worker id, None when absent
    completed,  \* _completed: job id -> envelope, None when absent
    exitPort,   \* _exitPort: the boot that opened it, 0 for null
    booting,    \* _booting # null
    booted,     \* _booted
    nextJobId,  \* _nextJobId
    \* control of the main isolate
    boots,      \* how many _boot coroutines were started
    bootPc,     \* where each _boot coroutine is suspended
    bootI,      \* its loop variable i
    pc,         \* "loop", or the call that is parked on a mailbox
    on,         \* the instance whose mailbox the call is parked on
    want,       \* the job id a parked wait is for
    served,     \* history: how many waits returned the envelope of each job
    ports,      \* the boots whose exit port is open
    exits,      \* exit messages in the event queue, by the isolate they report
    \* the worker isolates
    life,       \* of the isolate of each instance
    listening,  \* the exit listener is registered
    inbox,      \* messages sent to the isolate and not yet received
    task,       \* the job whose function it is running
    box         \* its doneBox: a mailbox with one slot

mainVars == <<workers, state, jobs, completed, exitPort, booting, booted, nextJobId>>
bootVars == <<boots, bootPc, bootI>>
callVars == <<pc, on, want, served>>
isoVars  == <<life, listening, inbox, task, box>>
portVars == <<ports, exits>>
vars     == <<mainVars, bootVars, callVars, portVars, isoVars>>

Id(w) == w[2]

TypeOK ==
    /\ workers \in Seq(Inst)
    /\ state \in [Inst -> {"none", "booting", "idle", "busy", "dead"}]
    /\ jobs \in [JobIds -> WorkerIds \cup {None}]
    /\ completed \in [JobIds -> Envelope \cup {None}]
    /\ exitPort \in 0 .. MaxBoots
    /\ booting \in BOOLEAN
    /\ booted \in BOOLEAN
    /\ nextJobId \in 0 .. MaxJobs
    /\ boots \in 0 .. MaxBoots
    /\ bootPc \in [Gens -> {"unstarted", "spawn", "handshake", "done"}]
    /\ bootI \in [Gens -> WorkerIds]
    /\ pc \in {"loop", "settle", "drain", "wait"}
    /\ on \in Inst \cup {None}
    /\ want \in JobIds \cup {None}
    /\ served \in [JobIds -> Nat]
    /\ ports \subseteq Gens
    /\ exits \subseteq Inst
    /\ life \in [Inst -> {"unborn", "spawned", "greeted", "up", "returned", "exited"}]
    /\ listening \in [Inst -> BOOLEAN]
    /\ inbox \in [Inst -> Seq(JobIds \cup {Shutdown})]
    /\ task \in [Inst -> JobIds \cup {None}]
    /\ box \in [Inst -> Envelope \cup {None, Ready}]

Init ==
    /\ workers = << >>
    /\ state = [w \in Inst |-> "none"]
    /\ jobs = [j \in JobIds |-> None]
    /\ completed = [j \in JobIds |-> None]
    /\ exitPort = 0
    /\ booting = FALSE
    /\ booted = FALSE
    /\ nextJobId = 0
    /\ boots = 0
    /\ bootPc = [g \in Gens |-> "unstarted"]
    /\ bootI = [g \in Gens |-> 0]
    /\ pc = "loop"
    /\ on = None
    /\ want = None
    /\ served = [j \in JobIds |-> 0]
    /\ ports = {}
    /\ exits = {}
    /\ life = [w \in Inst |-> "unborn"]
    /\ listening = [w \in Inst |-> FALSE]
    /\ inbox = [w \in Inst |-> << >>]
    /\ task = [w \in Inst |-> None]
    /\ box = [w \in Inst |-> None]

-----------------------------------------------------------------------------
(* boot: the calls and the continuations of its awaits.                    *)

\* Boot is asynchronous: its steps run from the event loop.
InLoop == pc = "loop"

BootInFlight == \E g \in Gens : bootPc[g] \in {"spawn", "handshake"}

\* boot(): `_booting ??= _boot()`.  A second call returns the same future.
\* _boot runs to its first await: the port is open, isolate 0 is spawned.
Boot ==
    /\ InLoop
    /\ ~booting
    /\ boots < MaxBoots
    /\ boots' = boots + 1
    /\ booting' = TRUE
    /\ exitPort' = boots'
    /\ ports' = ports \cup {boots'}
    /\ bootPc' = [bootPc EXCEPT ![boots'] = "spawn"]
    /\ life' = [life EXCEPT ![<<boots', 0>>] = "spawned"]
    /\ UNCHANGED <<workers, state, jobs, completed, booted, nextJobId, bootI,
                   callVars, exits, listening, inbox, task, box>>

\* Isolate.spawn has completed: addOnExitListener has no effect on an isolate
\* that is gone by then, and boot awaits the handshake.
BootSpawned(g) ==
    LET w == <<g, bootI[g]>> IN
    /\ InLoop
    /\ bootPc[g] = "spawn"
    /\ bootPc' = [bootPc EXCEPT ![g] = "handshake"]
    /\ listening' = [listening EXCEPT ![w] = life[w] # "exited"]
    /\ UNCHANGED <<mainVars, boots, bootI, callVars, portVars, life, inbox, task, box>>

LastWorker(g) == bootI[g] = N - 1

\* The handshake has arrived: the worker joins the pool, and boot spawns the
\* next isolate or sets _booted.  Nothing here looks at what happened to the
\* pool during the awaits.
BootHandshake(g) ==
    LET w == <<g, bootI[g]>>
        last == LastWorker(g)
    IN
    /\ InLoop
    /\ bootPc[g] = "handshake"
    /\ life[w] \notin {"unborn", "spawned"}
    /\ workers' = Append(workers, w)
    /\ state' = [state EXCEPT ![w] = "booting"]
    /\ bootPc' = [bootPc EXCEPT ![g] = IF last THEN "done" ELSE "spawn"]
    /\ bootI' = [bootI EXCEPT ![g] = IF last THEN @ ELSE @ + 1]
    /\ life' = IF last THEN life ELSE [life EXCEPT ![<<g, bootI[g] + 1>>] = "spawned"]
    /\ booted' = (last \/ booted)
    /\ UNCHANGED <<jobs, completed, exitPort, booting, nextJobId, boots,
                   callVars, portVars, listening, inbox, task, box>>

\* Mutant: dispose drops the reference to the exit port and does not close it.
AbandonPort == exitPort' = 0 /\ UNCHANGED portVars

\* Closing the exit port discards what was queued on it.
ClosePort ==
    /\ exitPort' = 0
    /\ ports' = ports \ {exitPort}
    /\ exits' = {w \in exits : w[1] # exitPort}

\* Mutant: dispose starts numbering the jobs anew.
ForgetJobsAndIds ==
    /\ jobs' = [j \in JobIds |-> None]
    /\ completed' = [j \in JobIds |-> None]
    /\ nextJobId' = 0

ForgetJobs ==
    /\ jobs' = [j \in JobIds |-> None]
    /\ completed' = [j \in JobIds |-> None]
    /\ UNCHANGED nextJobId

\* dispose()
Dispose ==
    /\ InLoop
    /\ booting \/ workers # << >>
    /\ "midBoot" \in Faults \/ ~BootInFlight
    /\ inbox' = [w \in Inst |->
                    IF (\E k \in DOMAIN workers : workers[k] = w) /\ state[w] # "dead"
                    THEN Append(inbox[w], Shutdown) ELSE inbox[w]]
    /\ workers' = << >>
    /\ ForgetJobs
    /\ ClosePort
    /\ booted' = FALSE
    /\ booting' = FALSE
    /\ UNCHANGED <<state, bootVars, callVars, life, listening, task, box>>

-----------------------------------------------------------------------------
(* dispatch.                                                               *)

\* w is the first of the workers, in list order, whose state is in S.
First(w, S) ==
    \E k \in DOMAIN workers :
        /\ workers[k] = w
        /\ state[w] \in S
        /\ \A l \in 1 .. (k - 1) : state[workers[l]] \notin S

\* dispatch reaches _acquireWorker; a pool that is not booted throws.
DispatchCall ==
    /\ InLoop
    /\ booted
    /\ nextJobId < MaxJobs

\* _claim(w), and what dispatch does once it has a worker: take an id, record
\* the job, evaluate the message and send it.  When the context provider or
\* jsonEncode throws, the exception leaves dispatch before the send.
ClaimAndSend(w) ==
    /\ state' = [state EXCEPT ![w] = "busy"]
    /\ jobs' = [jobs EXCEPT ![nextJobId] = Id(w)]
    /\ nextJobId' = nextJobId + 1
    /\ \/ inbox' = [inbox EXCEPT ![w] = Append(@, nextJobId)]
       \/ "badContext" \in Faults /\ inbox' = inbox
    /\ pc' = "loop"
    /\ on' = None
    /\ UNCHANGED <<workers, exitPort, booting, booted, bootVars, want, served, portVars,
                   life, listening, task>>

\* Mutant: a booting worker is claimed without taking its 'ready'.
ClaimableUnsettled(w) == state[w] \in {"idle", "booting"}

Claimable(w) == state[w] = "idle"

\* The first worker that is not busy or dead is idle: claimed at once.
DispatchIdle(w) ==
    /\ DispatchCall
    /\ First(w, {"booting", "idle"})
    /\ Claimable(w)
    /\ ClaimAndSend(w)
    /\ UNCHANGED <<completed, box>>

\* It is booting: _settleWorker parks until its mailbox is filled.
DispatchBooting(w) ==
    /\ DispatchCall
    /\ First(w, {"booting", "idle"})
    /\ state[w] = "booting"
    /\ pc' = "settle"
    /\ on' = w
    /\ UNCHANGED <<mainVars, bootVars, want, served, portVars, isoVars>>

\* Every worker is busy or dead: park on the first busy one.  When there is
\* none dispatch throws and nothing changes.
DispatchSaturated(w) ==
    /\ DispatchCall
    /\ \A k \in DOMAIN workers : state[workers[k]] \notin {"booting", "idle"}
    /\ First(w, {"busy"})
    /\ pc' = "drain"
    /\ on' = w
    /\ UNCHANGED <<mainVars, bootVars, want, served, portVars, isoVars>>

\* The parked _settleWorker takes the message: 'ready' settles the worker,
\* which is then claimed; any other message throws.
Settle ==
    /\ pc = "settle"
    /\ box[on] # None
    /\ box' = [box EXCEPT ![on] = None]
    /\ IF box[on] = Ready
       THEN ClaimAndSend(on) /\ UNCHANGED completed
       ELSE /\ pc' = "loop"
            /\ on' = None
            /\ UNCHANGED <<mainVars, bootVars, want, served, portVars, life, listening, inbox, task>>

Cache(e) == completed' = [completed EXCEPT ![e.job] = e]

\* The parked saturated dispatch takes an envelope, caches it and claims the
\* worker.  The job of the envelope stays in jobs.
Drain ==
    /\ pc = "drain"
    /\ box[on] # None
    /\ box' = [box EXCEPT ![on] = None]
    /\ Cache(box[on])
    /\ ClaimAndSend(on)

-----------------------------------------------------------------------------
(* wait and the exit listener.                                             *)

\* _workerById: the first worker with that id.
WorkerById(i) ==
    workers[CHOOSE k \in DOMAIN workers :
                /\ Id(workers[k]) = i
                /\ \A l \in 1 .. (k - 1) : Id(workers[l]) # i]

\* Mutants: a served job stays in _jobs, or in _completed.
ForgetEnvelope(j) == completed' = [completed EXCEPT ![j] = None] /\ UNCHANGED jobs
ForgetId(j)       == jobs' = [jobs EXCEPT ![j] = None] /\ UNCHANGED completed

Forget(j) ==
    /\ completed' = [completed EXCEPT ![j] = None]
    /\ jobs' = [jobs EXCEPT ![j] = None]

\* wait(j) of a job whose envelope is cached: served, and forgotten.
WaitCached(j) ==
    /\ InLoop
    /\ completed[j] # None
    /\ Forget(j)
    /\ served' = [served EXCEPT ![j] = @ + 1]
    /\ UNCHANGED <<workers, state, exitPort, booting, booted, nextJobId,
                   bootVars, pc, on, want, portVars, isoVars>>

\* Mutant: wait does not look into the cache.
Issued(j) == jobs[j] # None

Pending(j) == completed[j] = None /\ jobs[j] # None

\* wait(j) of a pending job parks on its worker.  An id that is neither
\* cached nor pending throws.
WaitPending(j) ==
    /\ InLoop
    /\ Pending(j)
    /\ pc' = "wait"
    /\ on' = WorkerById(jobs[j])
    /\ want' = j
    /\ UNCHANGED <<mainVars, bootVars, served, portVars, isoVars>>

\* The parked wait takes a message.  Its own envelope is returned; another
\* job's is cached and wait parks again; 'ready' is not an envelope and
\* throws.
WaitTake ==
    LET e == box[on] IN
    /\ pc = "wait"
    /\ e # None
    /\ box' = [box EXCEPT ![on] = None]
    /\ state' = IF e = Ready THEN state ELSE [state EXCEPT ![on] = "idle"]
    /\ IF e # Ready /\ e.job # want
       THEN /\ Cache(e)
            /\ UNCHANGED <<jobs, callVars>>
       ELSE /\ jobs' = IF e = Ready THEN jobs ELSE [jobs EXCEPT ![want] = None]
            /\ served' = IF e = Ready THEN served ELSE [served EXCEPT ![want] = @ + 1]
            /\ pc' = "loop"
            /\ on' = None
            /\ want' = None
            /\ UNCHANGED completed
    /\ UNCHANGED <<workers, exitPort, booting, booted, nextJobId, bootVars,
                   portVars, life, listening, inbox, task>>

ExitError(j) == [job |-> j, ok |-> FALSE]

\* Mutant: the exit listener leaves the jobs of the worker alone.
KeepJobsOf(i) == UNCHANGED <<jobs, completed>>

CompleteJobsOf(i) ==
    /\ jobs' = [j \in JobIds |-> IF jobs[j] = i THEN None ELSE jobs[j]]
    /\ completed' = [j \in JobIds |->
                        IF jobs[j] = i THEN ExitError(j) ELSE completed[j]]

\* _boot has received the handshake of w.
Joined(w) == bootPc[w[1]] = "done" \/ bootI[w[1]] > Id(w)

\* _onWorkerExit.  The messages of one isolate are received in the order they
\* were sent, so its handshake comes first.  A message that finds _exitPort
\* null is ignored; one that finds no worker with its id throws.
WorkerExit(w) ==
    /\ InLoop
    /\ w \in exits
    /\ Joined(w)
    /\ exitPort # 0
    /\ \E k \in DOMAIN workers : Id(workers[k]) = Id(w)
    /\ exits' = exits \ {w}
    /\ state' = [state EXCEPT ![WorkerById(Id(w))] = "dead"]
    /\ CompleteJobsOf(Id(w))
    /\ UNCHANGED <<workers, exitPort, booting, booted, nextJobId, bootVars,
                   callVars, ports, isoVars>>

-----------------------------------------------------------------------------
(* The worker isolates.                                                    *)

\* The isolate of w ends.  Its exit message reaches the event queue when the
\* listener was registered and the port of its boot is still open.
Terminate(w) ==
    /\ life' = [life EXCEPT ![w] = "exited"]
    /\ task' = [task EXCEPT ![w] = None]
    /\ exits' = IF listening[w] /\ w[1] \in ports THEN exits \cup {w} ELSE exits
    /\ UNCHANGED ports

\* _workerLoop sends its inbox port to boot ...
Greet(w) ==
    /\ life[w] = "spawned"
    /\ life' = [life EXCEPT ![w] = "greeted"]
    /\ UNCHANGED <<mainVars, bootVars, callVars, portVars, listening, inbox, task, box>>

\* ... and announces itself in its mailbox.
PutReady(w) ==
    /\ life[w] = "greeted"
    /\ life' = [life EXCEPT ![w] = "up"]
    /\ box' = [box EXCEPT ![w] = Ready]
    /\ UNCHANGED <<mainVars, bootVars, callVars, portVars, listening, inbox, task>>

\* The worker loop, between two jobs, receives a job and runs it.
Receive(w) ==
    /\ life[w] = "up"
    /\ task[w] = None
    /\ inbox[w] # << >>
    /\ Head(inbox[w]) # Shutdown
    /\ task' = [task EXCEPT ![w] = Head(inbox[w])]
    /\ inbox' = [inbox EXCEPT ![w] = Tail(@)]
    /\ UNCHANGED <<mainVars, bootVars, callVars, portVars, life, listening, box>>

\* The job has run, with success or not, and its envelope is put in the
\* mailbox.  Mailbox.put throws when the slot is taken, which ends the isolate.
Complete(w, ok) ==
    /\ task[w] # None
    /\ IF box[w] = None
       THEN /\ box' = [box EXCEPT ![w] = [job |-> task[w], ok |-> ok]]
            /\ task' = [task EXCEPT ![w] = None]
            /\ UNCHANGED <<life, portVars>>
       ELSE Terminate(w) /\ UNCHANGED box
    /\ UNCHANGED <<mainVars, bootVars, callVars, listening, inbox>>

\* The worker loop is over.  The executor loop's `await for` closes the inbox,
\* so the isolate exits; _PoolWorkerLink leaves the inbox of a workerMain pool
\* open, and an isolate with an open port does not exit.
Unwind(w) ==
    IF ExecutorLoop
    THEN Terminate(w)
    ELSE life' = [life EXCEPT ![w] = "returned"] /\ UNCHANGED <<task, portVars>>

\* The worker loop receives 'shutdown' and returns.
Return(w) ==
    /\ life[w] = "up"
    /\ task[w] = None
    /\ inbox[w] # << >>
    /\ Head(inbox[w]) = Shutdown
    /\ inbox' = [inbox EXCEPT ![w] = Tail(@)]
    /\ Unwind(w)
    /\ UNCHANGED <<mainVars, bootVars, callVars, listening, box>>

\* The isolate is killed, or its body throws out of the worker loop.
Crash(w) ==
    /\ life[w] = "up"
    /\ (IF listening[w] THEN "crash" ELSE "earlyCrash") \in Faults
    /\ Terminate(w)
    /\ UNCHANGED <<mainVars, bootVars, callVars, listening, inbox, box>>

-----------------------------------------------------------------------------
Main ==
    \/ Boot
    \/ \E g \in Gens : BootSpawned(g) \/ BootHandshake(g)
    \/ Dispose
    \/ \E w \in Inst : DispatchIdle(w) \/ DispatchBooting(w) \/ DispatchSaturated(w)
    \/ Settle
    \/ Drain
    \/ \E j \in JobIds : WaitCached(j) \/ WaitPending(j)
    \/ WaitTake
    \/ \E w \in Inst : WorkerExit(w)

Worker(w) ==
    \/ Greet(w)
    \/ PutReady(w)
    \/ Receive(w)
    \/ \E ok \in BOOLEAN : Complete(w, ok)
    \/ Return(w)

Next == Main \/ \E w \in Inst : Worker(w) \/ Crash(w)

Spec == Init /\ [][Next]_vars

\* Fairness.  A dispatched function returns (the pool has no timeouts, and a
\* function that never returns is documented to block its caller), the VM
\* schedules every isolate, a parked take sees a filled mailbox, and the event
\* loop, while it runs, delivers what is queued.  Nobody has to call the pool.
Fairness ==
    /\ \A g \in Gens : WF_vars(BootSpawned(g)) /\ WF_vars(BootHandshake(g))
    /\ WF_vars(Settle) /\ WF_vars(Drain) /\ WF_vars(WaitTake)
    /\ \A w \in Inst : WF_vars(Worker(w)) /\ WF_vars(WorkerExit(w))

FairSpec == Spec /\ Fairness

-----------------------------------------------------------------------------
(* Properties.                                                             *)

InPool(w) == \E k \in DOMAIN workers : workers[k] = w

\* Job j has been sent to w and its envelope is not taken yet.
Holds(w, j) ==
    \/ \E k \in DOMAIN inbox[w] : inbox[w][k] = j
    \/ task[w] = j
    \/ box[w] \notin {None, Ready} /\ box[w].job = j

\* A worker that puts a message in its mailbox always finds the slot empty:
\* Mailbox.put never throws "mailbox is full", which would end the isolate and
\* lose the answer.  The slot is shared by 'ready' and the envelopes, and only
\* the order of the main isolate's takes and sends keeps them apart.
PutFindsEmptySlot ==
    \A w \in Inst : (life[w] = "greeted" \/ task[w] # None) => box[w] = None

\* A parked call only ever takes the message it is for: _settleWorker takes
\* 'ready', a saturated dispatch takes the envelope of a pending job of that
\* worker, and wait takes the envelope of the very job it waits for (so it
\* never has to cache another job's and park again).
MessageFitsCall ==
    LET m == box[on] IN
    pc # "loop" /\ m # None =>
        /\ (pc = "settle") <=> (m = Ready)
        /\ pc = "drain" => Pending(m.job) /\ jobs[m.job] = Id(on)
        /\ pc = "wait" => m.job = want

\* A pending job is with its worker, in the inbox, running or in the mailbox,
\* unless that isolate has exited: no job of a live worker is lost.
PendingJobIsHeld ==
    \A j \in JobIds : Pending(j) =>
        LET w == WorkerById(jobs[j]) IN Holds(w, j) \/ life[w] = "exited"

\* What a call takes from a mailbox is the answer to its job, and every job not
\* answered yet is in somebody's hands.
JobsAccountedFor == MessageFitsCall /\ PendingJobIsHeld

\* A worker is only marked dead when its own isolate has exited: an exit
\* message of an earlier boot, whose workers had the same ids, never reaches
\* the pool after dispose and a new boot.
DeadMeansExited ==
    \A w \in Inst : InPool(w) /\ state[w] = "dead" => life[w] = "exited"

\* The pool implements the ledger of jobs: what _jobs and _completed say of an
\* id is its status there.
Status(j) ==
    IF j >= nextJobId THEN "unissued"
    ELSE IF completed[j] # None THEN "answered"
    ELSE IF jobs[j] # None THEN "pending"
    ELSE "closed"

Ledger == INSTANCE JobLedger
          WITH Ids <- JobIds, Capacity <- N, status <- [j \in JobIds |-> Status(j)], served <- served

\* Every dispatch issues a fresh id, at most N jobs are ever unanswered
\* (backpressure), no envelope is served twice, and a served or disposed id
\* stays closed: wait on it can only throw.
ImplementsLedger == Ledger!Spec

\* A call that is parked returns, unless the isolate it is parked on has
\* exited, which is the gap the library documentation names.
ParkedCallReturns ==
    (pc # "loop") ~> (pc = "loop" \/ life[on] = "exited")

\* When a worker's isolate exits, the worker is marked dead and its unanswered
\* jobs are answered, unless the pool is disposed first or the main isolate is
\* parked on an isolate that has exited.
ExitIsNoticed ==
    \A w \in Inst :
        (InPool(w) /\ life[w] = "exited") ~>
            \/ ~InPool(w)
            \/ state[w] = "dead" /\ \A j \in JobIds : Pending(j) => jobs[j] # Id(w)
            \/ pc # "loop" /\ life[on] = "exited"

\* A worker that dispose has asked to exit does: its isolate ends, whatever it
\* was running or had in its mailbox.
DisposedWorkerExits ==
    \A w \in Inst :
        (\E k \in DOMAIN inbox[w] : inbox[w][k] = Shutdown) ~> (life[w] = "exited")

\* "completed envelopes nobody waited for are cached and served if wait comes
\* later": a cached envelope stays what it is until it is served or the pool is
\* disposed.  This does not hold: a saturated dispatch that caches an envelope
\* leaves its job in _jobs, and the exit listener replaces it.
CachedEnvelopeKept ==
    [][\A j \in JobIds :
          completed[j] # None /\ completed'[j] # None => completed'[j] = completed[j]]_vars
=============================================================================
