------------------------- MODULE AsyncEnginePoolInv -------------------------
(***************************************************************************)
(* The inductive invariants of AsyncEnginePool.  SlotInv holds whatever    *)
(* faults occur; the others hold of a pool that is not disposed while one  *)
(* of its boots awaits.                                                    *)
(***************************************************************************)
EXTENDS AsyncEnginePool

\* No job is waiting in inbox q.
Quiet(q) == \A k \in DOMAIN q : q[k] = Shutdown

\* At most one job is waiting in it.
OneJob(q) == \A k, l \in DOMAIN q : q[k] # Shutdown /\ q[l] # Shutdown => k = l

Early(w) == life[w] \in {"unborn", "spawned", "greeted"}

\* What holds of one worker, whatever happens to the others: at most one of
\* its inbox, its task and its mailbox is occupied, and which of them may be
\* follows from its state.
WorkerInv(w) ==
    /\ OneJob(inbox[w])
    /\ Early(w) => box[w] = None /\ task[w] = None /\ Quiet(inbox[w])
    /\ task[w] # None => Quiet(inbox[w]) /\ life[w] = "up"
    /\ box[w] # None => Quiet(inbox[w]) /\ task[w] = None
    /\ state[w] \in {"none", "booting", "idle"} => Quiet(inbox[w]) /\ task[w] = None
    /\ state[w] \in {"none", "booting"} => box[w] \in {None, Ready}
    /\ state[w] = "idle" => box[w] = None
    /\ state[w] = "busy" => box[w] # Ready
    /\ state[w] \in {"idle", "busy"} => ~Early(w)

\* How far each boot has come: an isolate exists only once its boot has spawned
\* it, and a worker has a state only once its boot has added it.
BootInv ==
    /\ \A g \in Gens : (bootPc[g] = "unstarted") <=> (g > boots)
    /\ \A g \in Gens : bootPc[g] = "done" => bootI[g] = N - 1
    /\ \A g \in Gens : bootPc[g] = "unstarted" => bootI[g] = 0
    /\ \A w \in Inst : life[w] # "unborn" => w[1] <= boots /\ Id(w) <= bootI[w[1]]
    /\ \A w \in Inst : state[w] # "none" => Joined(w)

\* What a call is parked on, and that every recorded job names a worker.
CallInv ==
    /\ pc # "loop" => on \in Inst /\ InPool(on)
    /\ pc \in {"settle", "drain"} => nextJobId < MaxJobs
    /\ pc = "settle" => state[on] = "booting"
    /\ pc = "drain" => state[on] = "busy"
    /\ pc = "wait" => want \in JobIds
    /\ \A k \in DOMAIN workers : state[workers[k]] # "none"
    /\ \A j \in JobIds : jobs[j] # None => \E k \in DOMAIN workers : Id(workers[k]) = jobs[j]

SlotInv == TypeOK /\ BootInv /\ CallInv /\ \A w \in Inst : WorkerInv(w)

\* The workers of the pool are those of the latest boot, in the order of their
\* ids, and only that boot's exit port is open.
LifecycleInv ==
    /\ \A k \in DOMAIN workers : workers[k] = <<boots, k - 1>>
    /\ booting => boots > 0 /\ exitPort = boots
    /\ ~booting => /\ workers = << >> /\ exitPort = 0 /\ ~booted
                   /\ \A g \in Gens : bootPc[g] \in {"unstarted", "done"}
    /\ \A g \in Gens : g < boots => bootPc[g] = "done"
    /\ booting /\ bootPc[boots] # "done" => Len(workers) = bootI[boots]
    /\ ports \subseteq {exitPort}
    /\ \A w \in exits : w[1] = exitPort /\ life[w] = "exited"

\* A pending job has a busy worker to itself, and whatever a worker that is
\* not marked dead holds is its pending job.
JobInv ==
    /\ \A j \in JobIds : Pending(j) => state[<<boots, jobs[j]>>] = "busy"
    /\ \A i, j \in JobIds : Pending(i) /\ Pending(j) /\ jobs[i] = jobs[j] => i = j
    /\ \A w \in Inst : \A j \in JobIds :
          InPool(w) /\ state[w] # "dead" /\ Holds(w, j) => Pending(j) /\ jobs[j] = Id(w)
    /\ \A j \in JobIds : j >= nextJobId => jobs[j] = None /\ completed[j] = None
    /\ \A w \in Inst : InPool(w) /\ state[w] = "dead" => life[w] = "exited"
    /\ pc = "wait" => Pending(want) /\ on = <<boots, jobs[want]>>

\* A job whose message was sent is with its worker until its answer is taken.
HeldInv ==
    \A j \in JobIds : Pending(j) =>
        Holds(<<boots, jobs[j]>>, j) \/ life[<<boots, jobs[j]>>] = "exited"

\* The inductive invariant of a pool that is not disposed during a boot.
PoolInv == SlotInv /\ LifecycleInv /\ JobInv

\* The program does not call dispose while a boot awaits.
NoMidBoot == "midBoot" \notin Faults

=============================================================================
