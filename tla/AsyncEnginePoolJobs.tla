------------------------- MODULE AsyncEnginePoolJobs -------------------------
(***************************************************************************)
(* The life of the pool (LifecycleInv) and the records of its jobs         *)
(* (JobInv, HeldInv), when dispose does not interrupt a boot: each is      *)
(* preserved by every step of AsyncEnginePool, HeldInv when every job that *)
(* is dispatched can be sent.                                              *)
(***************************************************************************)
EXTENDS AsyncEnginePoolInv, TLAPS

\* The time a leaf may take.
USE SMTT(30)

-----------------------------------------------------------------------------
(* The life of the pool.                                                   *)

\* The workers of the pool belong to the latest boot.
LEMMA PoolMembers ==
    ASSUME TypeOK, LifecycleInv
    PROVE  /\ \A w \in Inst : InPool(w) => w = <<boots, Id(w)>> /\ boots \in Gens
           /\ \A i : (\E k \in DOMAIN workers : Id(workers[k]) = i)
                 => /\ <<boots, i>> \in Inst /\ InPool(<<boots, i>>)
                    /\ WorkerById(i) = <<boots, i>>
<1>1. DOMAIN workers = 1 .. Len(workers) /\ Len(workers) \in Nat
      /\ \A k \in DOMAIN workers : workers[k] \in Inst /\ workers[k] = <<boots, k - 1>>
    BY DEF TypeOK, LifecycleInv
<1>2. ASSUME NEW w \in Inst, InPool(w)
      PROVE  w = <<boots, Id(w)>> /\ boots \in Gens
    BY <1>1, <1>2 DEF InPool, Id, Inst
<1>3. ASSUME NEW i, \E k \in DOMAIN workers : Id(workers[k]) = i
      PROVE  /\ <<boots, i>> \in Inst /\ InPool(<<boots, i>>)
             /\ WorkerById(i) = <<boots, i>>
    <2>1. PICK k \in DOMAIN workers : Id(workers[k]) = i
        BY Zenon, <1>3
    <2>2. \A l \in DOMAIN workers : Id(workers[l]) = l - 1 /\ l \in Int
        BY <1>1 DEF Id
    <2>3. \A l \in 1 .. (k - 1) : l \in DOMAIN workers /\ l < k
        BY <1>1, <2>2
    <2>4. \A l \in 1 .. (k - 1) : Id(workers[l]) # i
        BY <2>1, <2>2, <2>3
    <2>5. \A l \in DOMAIN workers : Id(workers[l]) = i => l = k
        BY <2>1, <2>2
    <2>6. WorkerById(i) = workers[k]
        BY Zenon, <2>1, <2>4, <2>5 DEF WorkerById
    <2>7. workers[k] = <<boots, i>> /\ workers[k] \in Inst
        BY Zenon, <1>1, <2>1, <2>2
    <2> QED
        BY Zenon, <1>1, <2>6, <2>7 DEF InPool
<1> QED
    BY Zenon, <1>2, <1>3

\* It holds of a pool that was just constructed.
LEMMA LifecycleInvInit == Init => LifecycleInv
<1> SUFFICES ASSUME Init PROVE LifecycleInv
    BY Zenon
<1>1. \A g \in Gens : bootPc[g] = "unstarted" /\ ~(g < boots)
    BY PoolConstants DEF Init, Gens
<1>2. DOMAIN workers = {} /\ exits = {} /\ ports = {}
    BY DEF Init
<1> QED
    BY Zenon, <1>1, <1>2 DEF Init, LifecycleInv

\* A step that leaves the boots, the list of workers and the ports alone.
LEMMA LifecycleInvFrame ==
    ASSUME TypeOK, LifecycleInv,
           UNCHANGED <<workers, boots, bootPc, bootI, booting, booted, exitPort, ports>>,
           \A w \in exits' : w \in exits \/ (w[1] \in ports /\ life'[w] = "exited"),
           \A w \in exits : life'[w] = life[w] \/ life'[w] = "exited"
    PROVE  LifecycleInv'
BY Zenon DEF LifecycleInv

\* boot starts when the pool has no worker and no exit port.
LEMMA BootKeepsLifecycle ==
    ASSUME SlotInv, LifecycleInv, Boot
    PROVE  LifecycleInv'
<1> USE PoolConstants
<1>1. /\ boots \in Nat /\ boots + 1 \in Gens /\ exitPort = 0 /\ exits = {} /\ ports \cap Gens = {}
      /\ workers = << >> /\ ~booted
    <2>1. ~booting /\ exitPort = 0 /\ workers = << >> /\ ~booted
        BY Zenon DEF Boot, LifecycleInv
    <2>2. boots \in Nat /\ boots + 1 \in Gens
        BY DEF Boot, SlotInv, TypeOK, Gens
    <2>3. exits = {}
        BY <2>1 DEF SlotInv, TypeOK, LifecycleInv, Inst, Gens
    <2>4. ports \cap Gens = {}
        BY <2>1 DEF LifecycleInv, Gens
    <2> QED
        BY Zenon, <2>1, <2>2, <2>3, <2>4
<1>2. /\ boots' = boots + 1 /\ booting' = TRUE /\ exitPort' = boots + 1
      /\ ports' = ports \cup {boots + 1} /\ ports \subseteq Gens
      /\ bootPc' = [bootPc EXCEPT ![boots + 1] = "spawn"]
      /\ UNCHANGED <<workers, booted, bootI, exits>>
      /\ ~booting
    BY Zenon DEF Boot, SlotInv, TypeOK
<1>3. bootI[boots + 1] = 0
    BY <1>1 DEF SlotInv, BootInv, TypeOK
<1>4. \A g \in Gens : g < boots + 1 => bootPc'[g] = "done"
    <2> SUFFICES ASSUME NEW g \in Gens, g < boots + 1 PROVE bootPc'[g] = "done"
        BY Zenon
    <2>1. bootPc[g] \in {"unstarted", "done"} /\ (bootPc[g] = "unstarted" <=> g > boots)
        BY Zenon, <1>2 DEF LifecycleInv, SlotInv, BootInv
    <2> QED
        BY <2>1, <1>1, <1>2 DEF SlotInv, TypeOK, Gens
<1> QED
    BY <1>1, <1>2, <1>3, <1>4 DEF LifecycleInv

\* The worker that joins has the next id of the latest boot.
LEMMA BootHandshakeKeepsLifecycle ==
    ASSUME SlotInv, LifecycleInv, NEW g \in Gens, BootHandshake(g)
    PROVE  LifecycleInv'
<1> USE PoolConstants
<1>1. bootPc[g] = "handshake" /\ booting /\ g = boots /\ boots \in Gens
    BY DEF BootHandshake, LifecycleInv, SlotInv, BootInv, TypeOK, Gens
<1>2. Len(workers) = bootI[boots] /\ exitPort = boots
    BY Zenon, <1>1 DEF LifecycleInv
<1>3. /\ DOMAIN workers' = 1 .. (Len(workers) + 1) /\ DOMAIN workers = 1 .. Len(workers)
      /\ Len(workers') = Len(workers) + 1
      /\ Len(workers) \in Nat /\ workers'[Len(workers) + 1] = <<boots, bootI[boots]>>
      /\ \A k \in DOMAIN workers : workers'[k] = workers[k]
    <2>1. <<boots, bootI[boots]>> \in Inst /\ workers \in Seq(Inst)
        BY Zenon, <1>1 DEF SlotInv, TypeOK, Inst
    <2> QED
        BY <2>1, <1>1 DEF BootHandshake
<1>4. \A k \in DOMAIN workers' : workers'[k] = <<boots, k - 1>>
    <2> SUFFICES ASSUME NEW k \in 1 .. (Len(workers) + 1) PROVE workers'[k] = <<boots, k - 1>>
        BY Zenon, <1>3
    <2>1. CASE k = Len(workers) + 1
        BY <2>1, <1>2, <1>3
    <2>2. CASE k # Len(workers) + 1
        <3>1. k \in DOMAIN workers /\ workers'[k] = workers[k]
            BY <2>2, <1>3
        <3> QED
            BY Zenon, <3>1 DEF LifecycleInv
    <2> QED
        BY Zenon, <2>1, <2>2
<1>5. /\ UNCHANGED <<boots, booting, exitPort, ports, exits>>
      /\ bootPc' = [bootPc EXCEPT ![g] = IF LastWorker(g) THEN "done" ELSE "spawn"]
      /\ bootI' = [bootI EXCEPT ![g] = IF LastWorker(g) THEN bootI[g] ELSE bootI[g] + 1]
      /\ life' = IF LastWorker(g) THEN life ELSE [life EXCEPT ![<<g, bootI[g] + 1>>] = "spawned"]
    BY Zenon DEF BootHandshake, portVars, SlotInv, TypeOK
<1>6. \A w \in exits' : w[1] = exitPort' /\ life'[w] = "exited"
    <2> SUFFICES ASSUME NEW w \in exits PROVE w[1] = exitPort /\ life'[w] = "exited"
        BY Zenon, <1>5
    <2>1. w \in Inst /\ w[1] = exitPort /\ life[w] = "exited"
        BY Zenon DEF SlotInv, TypeOK, LifecycleInv
    <2>2. Id(w) <= bootI[w[1]]
        BY Zenon, <2>1 DEF SlotInv, BootInv
    <2>3. w # <<g, bootI[g] + 1>>
        BY <2>1, <2>2, <1>1, <1>2 DEF Id, SlotInv, TypeOK, WorkerIds
    <2> QED
        BY Zenon, <2>1, <2>3, <1>5 DEF SlotInv, TypeOK
<1>7. \A h \in Gens : h < boots => bootPc'[h] = "done"
    BY Zenon, <1>1, <1>5 DEF LifecycleInv, SlotInv, TypeOK
<1>8. bootPc'[boots] # "done" => Len(workers') = bootI'[boots]
    BY Zenon, <1>1, <1>2, <1>3, <1>5 DEF SlotInv, TypeOK
<1> QED
    BY Zenon, <1>1, <1>2, <1>4, <1>5, <1>6, <1>7, <1>8 DEF LifecycleInv

\* dispose closes the exit port and empties the list of workers.
LEMMA DisposeKeepsLifecycle ==
    ASSUME NoMidBoot, SlotInv, LifecycleInv, Dispose
    PROVE  LifecycleInv'
<1>1. \A g \in Gens : bootPc[g] \in {"unstarted", "done"}
    BY Zenon DEF Dispose, NoMidBoot, BootInFlight, SlotInv, TypeOK
<1>2. /\ workers' = << >> /\ booting' = FALSE /\ booted' = FALSE /\ exitPort' = 0
      /\ ports' = ports \ {exitPort} /\ exits' = {w \in exits : w[1] # exitPort}
      /\ UNCHANGED <<boots, bootPc, bootI, life>>
    BY Zenon DEF Dispose, ClosePort, bootVars
<1>3. ports' = {} /\ exits' = {} /\ DOMAIN workers' = {}
    BY <1>2 DEF LifecycleInv
<1> QED
    BY Zenon, <1>1, <1>2, <1>3 DEF LifecycleInv

\* Registering the exit listener leaves the list of workers alone.
LEMMA BootSpawnedKeepsLifecycle ==
    ASSUME SlotInv, LifecycleInv, NEW g \in Gens, BootSpawned(g)
    PROVE  LifecycleInv'
<1>1. bootPc[g] = "spawn" /\ booting /\ g = boots
    BY DEF BootSpawned, LifecycleInv, SlotInv, BootInv, TypeOK, Gens
<1>2. /\ bootPc' = [bootPc EXCEPT ![g] = "handshake"]
      /\ UNCHANGED <<workers, boots, bootI, booting, booted, exitPort, ports, exits, life>>
    BY Zenon DEF BootSpawned, mainVars, portVars
<1>3. \A h \in Gens : h # g => bootPc'[h] = bootPc[h]
    BY Zenon, <1>2 DEF SlotInv, TypeOK
<1>4. \A h \in Gens : h < boots => h # g
    BY <1>1 DEF SlotInv, TypeOK, Gens
<1> QED
    BY Zenon, <1>1, <1>2, <1>3, <1>4 DEF LifecycleInv

\* Every step keeps it, when dispose is not called in the middle of a boot.
LEMMA LifecycleInvStep ==
    ASSUME NoMidBoot, SlotInv, LifecycleInv, [Next]_vars
    PROVE  LifecycleInv'
<1> DEFINE same == UNCHANGED <<workers, boots, bootPc, bootI, booting, booted, exitPort, ports>>
<1>0. TypeOK
    BY Zenon DEF SlotInv
<1>1. ASSUME same, UNCHANGED life, exits' \subseteq exits PROVE LifecycleInv'
    BY Zenon, <1>0, <1>1, LifecycleInvFrame
<1>2. ASSUME NEW w \in Inst, same, life[w] # "exited", life' = [life EXCEPT ![w] = life'[w]],
             exits' = exits \/ (exits' = exits \cup {w} /\ w[1] \in ports /\ life'[w] = "exited")
      PROVE  LifecycleInv'
    <2>1. \A v \in exits : v \in Inst /\ v # w /\ life'[v] = life[v]
        BY <1>0, <1>2 DEF TypeOK, LifecycleInv
    <2> QED
        BY Zenon, <1>0, <1>2, <2>1, LifecycleInvFrame
<1> HIDE DEF same
<1>3. CASE Boot
    BY Zenon, <1>3, BootKeepsLifecycle
<1>4. ASSUME NEW g \in Gens, BootSpawned(g) \/ BootHandshake(g) PROVE LifecycleInv'
    BY Zenon, <1>4, BootSpawnedKeepsLifecycle, BootHandshakeKeepsLifecycle
<1>5. CASE Dispose
    BY Zenon, <1>5, DisposeKeepsLifecycle
<1>6. ASSUME NEW w \in Inst, DispatchIdle(w) \/ DispatchBooting(w) \/ DispatchSaturated(w)
      PROVE LifecycleInv'
    BY Zenon, <1>6, <1>1 DEF DispatchIdle, DispatchBooting, DispatchSaturated, ClaimAndSend, same,
                      mainVars, bootVars, portVars, isoVars
<1>7. CASE Settle \/ Drain
    BY Zenon, <1>7, <1>1 DEF Settle, Drain, ClaimAndSend, same, mainVars, bootVars, portVars, isoVars
<1>8. ASSUME NEW j \in JobIds, WaitCached(j) \/ WaitPending(j) PROVE LifecycleInv'
    BY Zenon, <1>8, <1>1 DEF WaitCached, WaitPending, same, mainVars, bootVars, portVars, isoVars
<1>9. CASE WaitTake
    BY Zenon, <1>9, <1>1 DEF WaitTake, same, bootVars, portVars
<1>10. ASSUME NEW w \in Inst, WorkerExit(w) PROVE LifecycleInv'
    BY Zenon, <1>10, <1>1 DEF WorkerExit, same, bootVars, isoVars
<1>11. ASSUME NEW w \in Inst, Greet(w) \/ PutReady(w) PROVE LifecycleInv'
    BY Zenon, <1>0, <1>11, <1>2 DEF Greet, PutReady, same, mainVars, bootVars, portVars, TypeOK
<1>12. ASSUME NEW w \in Inst, Receive(w) PROVE LifecycleInv'
    BY Zenon, <1>12, <1>1 DEF Receive, same, mainVars, bootVars, portVars
<1>13. ASSUME NEW w \in Inst, NEW ok \in BOOLEAN, Complete(w, ok) PROVE LifecycleInv'
    <2>1. box[w] = None
        BY Zenon, <1>13 DEF Complete, SlotInv, WorkerInv
    <2> QED
        BY Zenon, <1>13, <2>1, <1>1 DEF Complete, same, mainVars, bootVars, portVars
<1>14. ASSUME NEW w \in Inst, Return(w) \/ Crash(w) PROVE LifecycleInv'
    <2>1. life[w] = "up" /\ same
        BY Zenon, <1>14 DEF Return, Crash, Unwind, Terminate, same, mainVars, bootVars, portVars
    <2>2. \/ life' = [life EXCEPT ![w] = "returned"] /\ exits' = exits
          \/ /\ life' = [life EXCEPT ![w] = "exited"]
             /\ exits' = exits \/ (exits' = exits \cup {w} /\ w[1] \in ports)
        BY Zenon, <1>14 DEF Return, Crash, Unwind, Terminate, portVars
    <2> QED
        BY Zenon, <1>0, <2>1, <2>2, <1>2 DEF TypeOK
<1>15. CASE UNCHANGED vars
    BY Zenon, <1>15, <1>1 DEF vars, mainVars, bootVars, portVars, isoVars, same
<1> QED
    BY Zenon, <1>3, <1>4, <1>5, <1>6, <1>7, <1>8, <1>9, <1>10, <1>11, <1>12, <1>13, <1>14, <1>15
       DEF Next, Main, Worker

-----------------------------------------------------------------------------
(* Who holds a job.                                                        *)

\* A worker with nothing but 'shutdown' in its inbox, no task and no envelope.
LEMMA NothingHeld ==
    ASSUME NEW w, NEW j \in JobIds, Quiet(inbox[w]), task[w] = None, box[w] \in {None, Ready}
    PROVE  ~Holds(w, j)
BY PoolConstants, Sentinels DEF Quiet, Holds, JobIds

\* Receiving the only job of an inbox leaves none in it.
LEMMA ReceiveTheJob ==
    ASSUME NEW S, NEW q \in Seq(S), q # << >>, OneJob(q), Head(q) # Shutdown
    PROVE  Quiet(Tail(q))
<1>1. Len(q) \in Nat /\ Len(q) > 0 /\ DOMAIN q = 1 .. Len(q) /\ Head(q) = q[1]
    OBVIOUS
<1>2. DOMAIN Tail(q) = 1 .. (Len(q) - 1) /\ \A k \in 1 .. (Len(q) - 1) : Tail(q)[k] = q[k + 1]
    BY <1>1
<1>3. \A k \in DOMAIN Tail(q) : k + 1 \in DOMAIN q /\ 1 \in DOMAIN q /\ k + 1 # 1
    BY <1>1, <1>2
<1> QED
    BY Zenon, <1>1, <1>2, <1>3 DEF OneJob, Quiet

\* A job that was not issued has no record.
LEMMA NotIssued ==
    ASSUME JobInv, NEW j \in JobIds, j >= nextJobId
    PROVE  jobs[j] = None /\ completed[j] = None
BY Zenon DEF JobInv

\* The pending jobs of a pool are with its workers.
LEMMA PendingWorker ==
    ASSUME SlotInv, LifecycleInv, NEW j \in JobIds, Pending(j)
    PROVE  /\ <<boots, jobs[j]>> \in Inst /\ InPool(<<boots, jobs[j]>>)
           /\ WorkerById(jobs[j]) = <<boots, jobs[j]>>
BY Zenon, PoolMembers DEF SlotInv, CallInv, Pending

\* It holds of a pool that was just constructed.
LEMMA JobInvInit == Init => JobInv
BY DEF Init, JobInv, InPool, Pending

\* A step that leaves the records of the jobs and the states of the workers alone.
LEMMA JobInvFrame ==
    ASSUME JobInv, UNCHANGED <<workers, boots, state, jobs, completed, nextJobId>>,
           pc' # "wait" \/ UNCHANGED <<pc, on, want>>,
           \A w \in Inst : \A j \in JobIds : Holds(w, j)' => Holds(w, j),
           \A w \in Inst : life[w] = "exited" => life'[w] = "exited"
    PROVE  JobInv'
BY Zenon DEF JobInv, InPool, Pending

\* _claim and what dispatch does with the worker: completed may get the answer
\* of the job that this worker had.
LEMMA ClaimKeepsJobInv ==
    ASSUME SlotInv, LifecycleInv, JobInv, NEW w \in Inst, ClaimAndSend(w), InPool(w),
           nextJobId < MaxJobs, state[w] # "dead", Quiet(inbox[w]), task[w] = None,
           box'[w] = None, \A v \in Inst : v # w => box'[v] = box[v],
           \A j \in JobIds : /\ Pending(j) /\ jobs[j] = Id(w) => completed'[j] # None
                             /\ ~(Pending(j) /\ jobs[j] = Id(w)) => completed'[j] = completed[j]
    PROVE  /\ JobInv'
           /\ \A v \in Inst : \A j \in JobIds : v # w => (Holds(v, j)' <=> Holds(v, j))
           /\ \A j \in JobIds : Pending(j)' <=> j = nextJobId \/ (Pending(j) /\ jobs[j] # Id(w))
<1> USE PoolConstants
<1> DEFINE n == nextJobId
<1>1. n \in JobIds /\ n \in Nat /\ Id(w) \in WorkerIds /\ w = <<boots, Id(w)>>
    <2>1. TypeOK
        BY Zenon DEF SlotInv
    <2>2. n \in Nat
        BY <2>1 DEF TypeOK
    <2>3. n \in JobIds
        BY <2>2 DEF JobIds
    <2>4. Id(w) \in WorkerIds
        BY Zenon DEF Inst, Id
    <2> QED
        BY Zenon, <2>1, <2>2, <2>3, <2>4, PoolMembers
<1>2. /\ state' = [state EXCEPT ![w] = "busy"] /\ jobs' = [jobs EXCEPT ![n] = Id(w)]
      /\ nextJobId' = n + 1 /\ pc' = "loop"
      /\ inbox' = inbox \/ inbox' = [inbox EXCEPT ![w] = Append(inbox[w], n)]
      /\ UNCHANGED <<workers, boots, life, task>>
    BY Zenon DEF ClaimAndSend, bootVars
<1>3. jobs[n] = None /\ completed[n] = None /\ completed'[n] = None /\ jobs'[n] = Id(w) /\ jobs'[n] # None
    <2>1. jobs[n] = None /\ completed[n] = None
        <3>1. n >= nextJobId
            BY <1>1
        <3> QED
            BY Zenon, <1>1, <3>1, NotIssued
    <2>2. Id(w) # None
        BY <1>1, Sentinels DEF WorkerIds
    <2> QED
        BY Zenon, <2>1, <2>2, <1>1, <1>2 DEF Pending, SlotInv, TypeOK
<1>4. \A j \in JobIds : j # n => jobs'[j] = jobs[j]
    BY Zenon, <1>1, <1>2 DEF SlotInv, TypeOK
<1>5. ASSUME NEW j \in JobIds
      PROVE  Pending(j)' <=> j = n \/ (Pending(j) /\ jobs[j] # Id(w))
    <2>1. CASE j = n
        BY Zenon, <2>1, <1>3 DEF Pending
    <2>2. CASE j # n
        BY Zenon, <2>2, <1>4 DEF Pending
    <2> QED
        BY Zenon, <2>1, <2>2
<1>6. state'[w] = "busy" /\ \A v \in Inst : v # w => state'[v] = state[v]
    BY Zenon, <1>2 DEF SlotInv, TypeOK
<1>7. \A v \in Inst : v # w => inbox'[v] = inbox[v]
    BY Zenon, <1>2 DEF SlotInv, TypeOK
<1>8. \A v \in Inst : \A j \in JobIds : v # w => (Holds(v, j)' <=> Holds(v, j))
    BY Zenon, <1>2, <1>7 DEF Holds
<1>9. ASSUME NEW j \in JobIds, Holds(w, j)' PROVE j = n
    <2>1. task'[w] = None /\ box'[w] = None /\ j \in Int /\ j # None
        BY <1>2, Sentinels DEF JobIds
    <2>2. PICK k \in DOMAIN inbox'[w] : inbox'[w][k] = j
        BY Zenon, <1>9, <2>1 DEF Holds
    <2>3. inbox[w] \in Seq(JobIds \cup {Shutdown})
        BY Zenon DEF SlotInv, TypeOK
    <2>4. CASE inbox' = inbox
        BY Zenon, <2>1, <2>2, <2>4, Sentinels DEF Quiet
    <2>5. CASE inbox' = [inbox EXCEPT ![w] = Append(inbox[w], n)]
        <3>1. inbox'[w] = Append(inbox[w], n)
            BY Zenon, <2>5 DEF SlotInv, TypeOK
        <3>2. (k \in DOMAIN inbox[w] /\ inbox'[w][k] = inbox[w][k]) \/ inbox'[w][k] = n
            BY <2>2, <2>3, <3>1, <1>1
        <3> QED
            BY Zenon, <3>2, <2>1, <2>2, Sentinels DEF Quiet
    <2> QED
        BY Zenon, <2>4, <2>5, <1>2
<1> HIDE DEF n
<1>10. \A j \in JobIds : Pending(j)' => state'[<<boots, jobs'[j]>>] = "busy"
    <2> SUFFICES ASSUME NEW j \in JobIds, Pending(j)' PROVE state'[<<boots, jobs'[j]>>] = "busy"
        BY Zenon
    <2>1. CASE j = n
        BY Zenon, <2>1, <1>1, <1>3, <1>6
    <2>2. CASE j # n
        <3>1. Pending(j) /\ jobs'[j] = jobs[j]
            BY Zenon, <2>2, <1>4, <1>5
        <3>2. <<boots, jobs[j]>> \in Inst /\ state[<<boots, jobs[j]>>] = "busy"
            BY Zenon, <3>1, PendingWorker DEF JobInv
        <3> QED
            BY Zenon, <3>1, <3>2, <1>6
    <2> QED
        BY Zenon, <2>1, <2>2
<1>11. \A i, j \in JobIds : Pending(i)' /\ Pending(j)' /\ jobs'[i] = jobs'[j] => i = j
    BY <1>3, <1>4, <1>5 DEF JobInv
<1>12. ASSUME NEW v \in Inst, NEW j \in JobIds, InPool(v)', state'[v] # "dead", Holds(v, j)'
       PROVE  Pending(j)' /\ jobs'[j] = Id(v)
    <2>1. CASE v = w
        BY Zenon, <2>1, <1>3, <1>5, <1>9, <1>12
    <2>2. CASE v # w
        <3>1. InPool(v) /\ state[v] # "dead" /\ Holds(v, j)
            BY Zenon, <2>2, <1>2, <1>6, <1>8, <1>12 DEF InPool
        <3>2. Pending(j) /\ jobs[j] = Id(v) /\ v = <<boots, Id(v)>>
            BY Zenon, <3>1, PoolMembers DEF JobInv, SlotInv
        <3>3. Id(v) # Id(w) /\ j # n
            BY Zenon, <3>2, <2>2, <1>1, <1>3 DEF Pending
        <3> QED
            BY Zenon, <3>2, <3>3, <1>4, <1>5
    <2> QED
        BY Zenon, <2>1, <2>2
<1>13. \A j \in JobIds : j >= nextJobId' => jobs'[j] = None /\ completed'[j] = None
    <2> SUFFICES ASSUME NEW j \in JobIds, j >= n + 1 PROVE jobs'[j] = None /\ completed'[j] = None
        BY Zenon, <1>2 DEF n
    <2>0. j \in Int
        BY DEF JobIds
    <2>1. j # n /\ j >= n
        BY <1>1, <2>0
    <2>2. jobs[j] = None /\ completed[j] = None
        BY Zenon, <2>1, NotIssued DEF n
    <2> QED
        BY Zenon, <2>1, <2>2, <1>4 DEF Pending
<1>14. \A v \in Inst : InPool(v)' /\ state'[v] = "dead" => life'[v] = "exited"
    BY Zenon, <1>2, <1>6 DEF JobInv, InPool
<1>15. JobInv'
    BY Zenon, <1>2, <1>10, <1>11, <1>12, <1>13, <1>14 DEF JobInv
<1> QED
    BY Zenon, <1>5, <1>8, <1>15 DEF n

\* boot starts with no workers and so with no jobs.
LEMMA BootKeepsJobInv ==
    ASSUME SlotInv, LifecycleInv, JobInv, Boot
    PROVE  JobInv'
<1>1. workers = << >> /\ workers' = workers /\ UNCHANGED <<jobs, completed, nextJobId, pc>> /\ pc = "loop"
    BY Zenon DEF Boot, LifecycleInv, callVars, InLoop
<1>2. \A j \in JobIds : jobs[j] = None
    BY <1>1 DEF SlotInv, CallInv
<1>3. \A w : ~InPool(w)'
    BY <1>1 DEF InPool
<1> QED
    BY Zenon, <1>1, <1>2, <1>3 DEF JobInv, Pending

\* A worker that joins the pool holds no job.
LEMMA BootHandshakeKeepsJobInv ==
    ASSUME SlotInv, LifecycleInv, JobInv, NEW g \in Gens, BootHandshake(g)
    PROVE  JobInv' /\ UNCHANGED <<inbox, task, box, jobs, completed, boots>>
<1> DEFINE v == <<g, bootI[g]>>
<1>1. /\ v \in Inst /\ state' = [state EXCEPT ![v] = "booting"] /\ workers' = Append(workers, v)
      /\ UNCHANGED <<jobs, completed, nextJobId, boots, pc, inbox, task, box>> /\ pc = "loop"
    BY Zenon DEF BootHandshake, SlotInv, TypeOK, Inst, InLoop, callVars
<1>2. state[v] = "none"
    <2>1. bootI[g] \in WorkerIds /\ v[1] = g /\ v[2] = bootI[g]
        BY Zenon DEF SlotInv, TypeOK
    <2> QED
        BY <1>1, <2>1, PoolConstants DEF SlotInv, BootInv, BootHandshake, Joined, Id, WorkerIds
<1> HIDE DEF v
<1>3. \A j \in JobIds : ~Holds(v, j)
    BY Zenon, <1>1, <1>2, NothingHeld DEF SlotInv, WorkerInv
<1>4. \A w \in Inst : \A j \in JobIds : Holds(w, j)' <=> Holds(w, j)
    BY Zenon, <1>1 DEF Holds
<1>5. \A w \in Inst : InPool(w)' => InPool(w) \/ w = v
    BY <1>1 DEF SlotInv, TypeOK, InPool
<1>6. state'[v] = "booting" /\ \A w \in Inst : w # v => state'[w] = state[w]
    BY Zenon, <1>1 DEF SlotInv, TypeOK
<1>7. \A j \in JobIds : Pending(j)' <=> Pending(j)
    BY Zenon, <1>1 DEF Pending
<1>8. \A j \in JobIds : Pending(j) => <<boots, jobs[j]>> # v /\ <<boots, jobs[j]>> \in Inst
    BY Zenon, <1>2, PendingWorker DEF JobInv
<1>9. \A w \in Inst : life[w] = "exited" /\ InPool(w) => life'[w] = "exited"
    <2> SUFFICES ASSUME NEW w \in Inst, life[w] = "exited" PROVE life'[w] = "exited"
        BY Zenon
    <2>1. Id(w) <= bootI[w[1]]
        BY Zenon DEF SlotInv, BootInv
    <2>2. w # <<g, bootI[g] + 1>>
        BY <2>1 DEF Id, SlotInv, TypeOK, WorkerIds
    <2> QED
        BY Zenon, <2>2 DEF BootHandshake, SlotInv, TypeOK
<1> QED
    BY <1>1, <1>3, <1>4, <1>5, <1>6, <1>7, <1>8, <1>9 DEF JobInv

\* dispose forgets the workers and their jobs.
LEMMA DisposeKeepsJobInv ==
    ASSUME SlotInv, JobInv, Dispose
    PROVE  JobInv'
<1>1. workers' = << >> /\ pc' = "loop" /\ \A j \in JobIds : jobs'[j] = None /\ completed'[j] = None
    BY Zenon DEF Dispose, ForgetJobs, callVars, InLoop
<1>2. \A w : ~InPool(w)'
    BY <1>1 DEF InPool
<1> QED
    BY Zenon, <1>1, <1>2 DEF JobInv, Pending

\* dispatch that claims an idle or a settled worker, which has no pending job.
LEMMA DispatchKeepsJobInv ==
    ASSUME SlotInv, LifecycleInv, JobInv, NEW w \in Inst,
           DispatchIdle(w) \/ (Settle /\ on = w)
    PROVE  /\ JobInv' /\ ClaimAndSend(w) /\ completed' = completed
           /\ \A v \in Inst : \A j \in JobIds : v # w => (Holds(v, j)' <=> Holds(v, j))
           /\ \A j \in JobIds : Pending(j)' <=> j = nextJobId \/ Pending(j)
           /\ \A j \in JobIds : Pending(j) => jobs[j] # Id(w)
           /\ InPool(w) /\ Quiet(inbox[w]) /\ nextJobId < MaxJobs
<1>1. /\ InPool(w) /\ nextJobId < MaxJobs /\ ClaimAndSend(w) /\ state[w] \in {"idle", "booting"}
      /\ Quiet(inbox[w]) /\ task[w] = None /\ box'[w] = None
      /\ \A v \in Inst : v # w => box'[v] = box[v]
      /\ completed' = completed
    <2>1. CASE DispatchIdle(w)
        <3>1. InPool(w) /\ nextJobId < MaxJobs /\ ClaimAndSend(w) /\ state[w] = "idle" /\ box' = box
              /\ completed' = completed
            BY Zenon, <2>1 DEF DispatchIdle, DispatchCall, First, InPool, Claimable
        <3> QED
            BY Zenon, <3>1 DEF SlotInv, WorkerInv
    <2>2. CASE Settle /\ on = w
        <3>1. InPool(w) /\ nextJobId < MaxJobs /\ state[w] = "booting" /\ box[w] # None
            BY Zenon, <2>2 DEF SlotInv, CallInv, Settle
        <3>2. Quiet(inbox[w]) /\ task[w] = None /\ box[w] = Ready
            BY Zenon, <3>1 DEF SlotInv, WorkerInv
        <3>3. ClaimAndSend(w) /\ completed' = completed /\ box' = [box EXCEPT ![w] = None]
            BY Zenon, <2>2, <3>2 DEF Settle
        <3> QED
            BY Zenon, <3>1, <3>2, <3>3 DEF SlotInv, TypeOK
    <2> QED
        BY Zenon, <2>1, <2>2
<1>2. w = <<boots, Id(w)>>
    BY Zenon, <1>1, PoolMembers DEF SlotInv
<1>3. \A j \in JobIds : Pending(j) => jobs[j] # Id(w)
    BY ZenonT(40), <1>1, <1>2 DEF JobInv
<1>4. /\ JobInv'
      /\ \A v \in Inst : \A j \in JobIds : v # w => (Holds(v, j)' <=> Holds(v, j))
      /\ \A j \in JobIds : Pending(j)' <=> j = nextJobId \/ (Pending(j) /\ jobs[j] # Id(w))
    BY Zenon, <1>1, <1>3, ClaimKeepsJobInv
<1> QED
    BY Zenon, <1>1, <1>3, <1>4

\* What a saturated dispatch takes is the envelope of the pending job of the
\* busy worker that it is parked on.
LEMMA DrainTakes ==
    ASSUME SlotInv, LifecycleInv, JobInv, pc = "drain", box[on] # None
    PROVE  /\ on \in Inst /\ InPool(on) /\ on = <<boots, Id(on)>> /\ state[on] = "busy"
           /\ box[on] \in Envelope /\ box[on].job \in JobIds
           /\ Pending(box[on].job) /\ jobs[box[on].job] = Id(on)
           /\ Quiet(inbox[on]) /\ task[on] = None /\ nextJobId < MaxJobs
<1>1. on \in Inst /\ InPool(on) /\ nextJobId < MaxJobs /\ state[on] = "busy"
    BY Zenon DEF SlotInv, CallInv
<1>2. Quiet(inbox[on]) /\ task[on] = None /\ box[on] # Ready
    BY Zenon, <1>1 DEF SlotInv, WorkerInv
<1>3. box[on] \in Envelope /\ box[on].job \in JobIds
    BY Zenon, <1>1, <1>2 DEF SlotInv, TypeOK, Envelope
<1>4. Holds(on, box[on].job)
    BY Zenon, <1>2 DEF Holds
<1>5. Pending(box[on].job) /\ jobs[box[on].job] = Id(on)
    BY Zenon, <1>1, <1>3, <1>4 DEF JobInv
<1>6. on = <<boots, Id(on)>>
    BY Zenon, <1>1, PoolMembers DEF SlotInv
<1> QED
    BY Zenon, <1>1, <1>2, <1>3, <1>5, <1>6

\* A saturated dispatch caches the answer it took and gives the worker a new job.
LEMMA DrainKeepsJobInv ==
    ASSUME SlotInv, LifecycleInv, JobInv, Drain
    PROVE  /\ JobInv' /\ ClaimAndSend(on)
           /\ \A v \in Inst : \A j \in JobIds : v # on => (Holds(v, j)' <=> Holds(v, j))
           /\ \A j \in JobIds : Pending(j)' <=> j = nextJobId \/ (Pending(j) /\ jobs[j] # Id(on))
<1> DEFINE e == box[on]
<1>1. pc = "drain" /\ e # None
    BY Zenon DEF Drain
<1>2. /\ on \in Inst /\ InPool(on) /\ state[on] = "busy"
      /\ e \in Envelope /\ e.job \in JobIds /\ Pending(e.job) /\ jobs[e.job] = Id(on)
      /\ Quiet(inbox[on]) /\ task[on] = None /\ nextJobId < MaxJobs
    BY Zenon, <1>1, DrainTakes
<1>3. /\ ClaimAndSend(on) /\ box' = [box EXCEPT ![on] = None]
      /\ completed' = [completed EXCEPT ![e.job] = e]
    BY Zenon DEF Drain, Cache
<1> HIDE DEF e
<1>4. box'[on] = None /\ \A v \in Inst : v # on => box'[v] = box[v]
    BY Zenon, <1>2, <1>3 DEF SlotInv, TypeOK
<1>5. \A j \in JobIds : Pending(j) /\ jobs[j] = Id(on) <=> j = e.job
    BY Zenon, <1>2 DEF JobInv
<1>6. \A j \in JobIds : /\ Pending(j) /\ jobs[j] = Id(on) => completed'[j] # None
                        /\ ~(Pending(j) /\ jobs[j] = Id(on)) => completed'[j] = completed[j]
    BY Zenon, <1>2, <1>3, <1>5, Sentinels DEF SlotInv, TypeOK
<1> QED
    BY Zenon, <1>2, <1>3, <1>4, <1>6, ClaimKeepsJobInv

-----------------------------------------------------------------------------
(* The answers: wait, the exit of a worker, the isolates.                  *)

\* wait that is served from the cache: that job was pending no more.
LEMMA WaitCachedKeepsJobInv ==
    ASSUME SlotInv, LifecycleInv, JobInv, NEW j \in JobIds, WaitCached(j)
    PROVE  JobInv' /\ \A i \in JobIds : Pending(i)' <=> Pending(i)
<1>1. /\ completed' = [completed EXCEPT ![j] = None] /\ jobs' = [jobs EXCEPT ![j] = None]
      /\ UNCHANGED <<workers, boots, state, nextJobId, pc, on, want, life, inbox, task, box>>
      /\ completed[j] # None /\ pc = "loop"
    BY Zenon DEF WaitCached, Forget, bootVars, isoVars, InLoop
<1>2. /\ completed'[j] = None /\ jobs'[j] = None
      /\ \A i \in JobIds : i # j => completed'[i] = completed[i] /\ jobs'[i] = jobs[i]
    BY Zenon, <1>1 DEF SlotInv, TypeOK
<1>3. \A i \in JobIds : (Pending(i)' <=> Pending(i)) /\ (Pending(i) => i # j /\ jobs'[i] = jobs[i])
    BY Zenon, <1>1, <1>2 DEF Pending
<1>4. \A w \in Inst : \A i \in JobIds : Holds(w, i)' <=> Holds(w, i)
    BY Zenon, <1>1 DEF Holds
<1>5. \A i \in JobIds : Pending(i)' => state'[<<boots', jobs'[i]>>] = "busy"
    BY <1>1, <1>3 DEF JobInv
<1>6. \A i, k \in JobIds : Pending(i)' /\ Pending(k)' /\ jobs'[i] = jobs'[k] => i = k
    BY Zenon, <1>3 DEF JobInv
<1>7. \A w \in Inst : \A i \in JobIds :
          InPool(w)' /\ state'[w] # "dead" /\ Holds(w, i)' => Pending(i)' /\ jobs'[i] = Id(w)
    BY <1>1, <1>3, <1>4 DEF JobInv, InPool
<1>8. \A i \in JobIds : i >= nextJobId' => jobs'[i] = None /\ completed'[i] = None
    BY Zenon, <1>1, <1>2, NotIssued
<1>9. \A w \in Inst : InPool(w)' /\ state'[w] = "dead" => life'[w] = "exited"
    BY Zenon, <1>1 DEF JobInv, InPool
<1>10. pc' # "wait"
    BY Zenon, <1>1
<1> QED
    BY Zenon, <1>3, <1>5, <1>6, <1>7, <1>8, <1>9, <1>10 DEF JobInv

\* What wait takes is the envelope of the job it waits for.
LEMMA WaitTakes ==
    ASSUME SlotInv, LifecycleInv, JobInv, pc = "wait", box[on] # None
    PROVE  /\ on \in Inst /\ InPool(on) /\ on = <<boots, jobs[want]>> /\ want \in JobIds
           /\ box[on] \in Envelope /\ box[on].job = want /\ Pending(want) /\ jobs[want] = Id(on)
           /\ Quiet(inbox[on]) /\ task[on] = None /\ state[on] = "busy"
<1>1. on \in Inst /\ InPool(on) /\ want \in JobIds /\ Pending(want) /\ on = <<boots, jobs[want]>>
    BY Zenon DEF SlotInv, CallInv, JobInv
<1>2. state[on] = "busy" /\ Id(on) = jobs[want]
    BY Zenon, <1>1 DEF JobInv, Id
<1>3. Quiet(inbox[on]) /\ task[on] = None /\ box[on] # Ready
    BY Zenon, <1>1, <1>2 DEF SlotInv, WorkerInv
<1>4. box[on] \in Envelope /\ box[on].job \in JobIds
    BY Zenon, <1>1, <1>3 DEF SlotInv, TypeOK, Envelope
<1>5. Holds(on, box[on].job)
    BY Zenon, <1>3 DEF Holds
<1>6. Pending(box[on].job) /\ jobs[box[on].job] = Id(on)
    BY Zenon, <1>1, <1>2, <1>4, <1>5 DEF JobInv
<1>7. box[on].job = want
    BY ZenonT(40), <1>1, <1>2, <1>4, <1>6 DEF JobInv
<1> QED
    BY Zenon, <1>1, <1>2, <1>3, <1>4, <1>7

\* A parked wait takes the answer of its own job, which leaves the records.
LEMMA WaitTakeKeepsJobInv ==
    ASSUME SlotInv, LifecycleInv, JobInv, WaitTake
    PROVE  /\ JobInv' /\ want \in JobIds /\ Pending(want) /\ completed' = completed
           /\ jobs' = [jobs EXCEPT ![want] = None]
           /\ served' = [served EXCEPT ![want] = served[want] + 1]
           /\ \A v \in Inst : \A j \in JobIds : v # on => (Holds(v, j)' <=> Holds(v, j))
           /\ \A j \in JobIds : Pending(j)' <=> Pending(j) /\ j # want
           /\ on = <<boots, jobs[want]>> /\ nextJobId' = nextJobId
<1>1. pc = "wait" /\ box[on] # None
    BY Zenon DEF WaitTake
<1>2. /\ on \in Inst /\ InPool(on) /\ on = <<boots, jobs[want]>> /\ want \in JobIds
      /\ box[on] \in Envelope /\ box[on].job = want /\ Pending(want) /\ jobs[want] = Id(on)
      /\ Quiet(inbox[on]) /\ task[on] = None
    BY Zenon, <1>1, WaitTakes
<1>3. box[on] # Ready
    BY Zenon, <1>2, Sentinels
<1>4. /\ box' = [box EXCEPT ![on] = None] /\ state' = [state EXCEPT ![on] = "idle"]
      /\ jobs' = [jobs EXCEPT ![want] = None]
      /\ served' = [served EXCEPT ![want] = served[want] + 1]
      /\ pc' = "loop" /\ completed' = completed
      /\ UNCHANGED <<workers, boots, nextJobId, life, inbox, task>>
    BY Zenon, <1>2, <1>3 DEF WaitTake, bootVars
<1>5. /\ jobs'[want] = None /\ \A j \in JobIds : j # want => jobs'[j] = jobs[j]
      /\ box'[on] = None /\ \A v \in Inst : v # on => box'[v] = box[v] /\ state'[v] = state[v]
      /\ state'[on] = "idle"
    BY Zenon, <1>2, <1>4 DEF SlotInv, TypeOK
<1>6. \A j \in JobIds : Pending(j)' <=> Pending(j) /\ j # want
    BY Zenon, <1>2, <1>4, <1>5 DEF Pending
<1>7. \A v \in Inst : \A j \in JobIds : v # on => (Holds(v, j)' <=> Holds(v, j))
    BY Zenon, <1>4, <1>5 DEF Holds
<1>8. \A v \in Inst : \A j \in JobIds : v = on => ~Holds(v, j)'
    BY <1>2, <1>4, <1>5, PoolConstants, Sentinels DEF Holds, Quiet, JobIds
<1>9. ASSUME NEW j \in JobIds, Pending(j)' PROVE state'[<<boots', jobs'[j]>>] = "busy"
    <2>1. Pending(j) /\ j # want /\ jobs'[j] = jobs[j]
        BY Zenon, <1>5, <1>6, <1>9
    <2>2. <<boots, jobs[j]>> \in Inst /\ jobs[j] # jobs[want] /\ state[<<boots, jobs[j]>>] = "busy"
        BY Zenon, <2>1, <1>2, PendingWorker DEF JobInv
    <2>3. <<boots, jobs[j]>> # on
        BY Zenon, <2>2, <1>2 DEF Id
    <2> QED
        BY Zenon, <2>1, <2>2, <2>3, <1>4, <1>5
<1>10. ASSUME NEW v \in Inst, NEW j \in JobIds, InPool(v)', state'[v] # "dead", Holds(v, j)'
       PROVE  Pending(j)' /\ jobs'[j] = Id(v)
    <2>1. v # on
        BY Zenon, <1>8, <1>10
    <2>2. InPool(v) /\ state[v] # "dead" /\ Holds(v, j)
        BY Zenon, <2>1, <1>4, <1>5, <1>7, <1>10 DEF InPool
    <2>3. Pending(j) /\ jobs[j] = Id(v) /\ v = <<boots, Id(v)>>
        BY Zenon, <2>2, PoolMembers DEF JobInv, SlotInv
    <2>4. j # want
        BY Zenon, <2>1, <2>3, <1>2
    <2> QED
        BY Zenon, <2>3, <2>4, <1>5, <1>6
<1>11. JobInv'
    <2>1. \A i, j \in JobIds : Pending(i)' /\ Pending(j)' /\ jobs'[i] = jobs'[j] => i = j
        BY Zenon, <1>5, <1>6 DEF JobInv
    <2>2. \A j \in JobIds : j >= nextJobId' => jobs'[j] = None /\ completed'[j] = None
        BY Zenon, <1>4, <1>5 DEF JobInv
    <2>3. \A v \in Inst : InPool(v)' /\ state'[v] = "dead" => life'[v] = "exited"
        BY Zenon, <1>4, <1>5 DEF JobInv, InPool
    <2> QED
        BY Zenon, <1>4, <1>9, <1>10, <2>1, <2>2, <2>3 DEF JobInv
<1> QED
    BY Zenon, <1>2, <1>4, <1>6, <1>7, <1>11

\* The exit listener marks the very worker whose isolate has exited, and
\* answers its jobs.
LEMMA WorkerExitKeepsJobInv ==
    ASSUME SlotInv, LifecycleInv, JobInv, NEW w \in Inst, WorkerExit(w)
    PROVE  /\ JobInv'
           /\ \A j \in JobIds : Pending(j)' <=> Pending(j) /\ jobs[j] # Id(w)
           /\ \A j \in JobIds : Pending(j)' => jobs'[j] = jobs[j]
           /\ UNCHANGED <<inbox, task, box, life, boots>>
<1>1. w[1] = exitPort /\ life[w] = "exited" /\ exitPort = boots
    BY Zenon DEF WorkerExit, LifecycleInv
<1>2. /\ WorkerById(Id(w)) = <<boots, Id(w)>> /\ InPool(w) /\ w = <<boots, Id(w)>>
    BY <1>1, PoolMembers DEF WorkerExit, SlotInv, Id, Inst
<1>3. /\ state' = [state EXCEPT ![w] = "dead"]
      /\ UNCHANGED <<workers, boots, nextJobId, pc, on, want, life, inbox, task, box>> /\ pc = "loop"
    BY Zenon, <1>2 DEF WorkerExit, bootVars, callVars, isoVars, InLoop
<1>4. \A j \in JobIds : /\ jobs[j] = Id(w) => jobs'[j] = None /\ completed'[j] # None
                        /\ jobs[j] # Id(w) => jobs'[j] = jobs[j] /\ completed'[j] = completed[j]
    <2>1. \A j \in JobIds : ExitError(j) # None
        <3>1. \A j \in JobIds : ExitError(j) \in Envelope
            BY Zenon DEF ExitError, Envelope
        <3> QED
            BY Zenon, <3>1, Sentinels
    <2> QED
        BY Zenon, <2>1 DEF WorkerExit, CompleteJobsOf
<1>5. \A j \in JobIds : Pending(j)' <=> Pending(j) /\ jobs[j] # Id(w)
    BY Zenon, <1>4 DEF Pending
<1>6. state'[w] = "dead" /\ \A v \in Inst : v # w => state'[v] = state[v]
    BY Zenon, <1>3 DEF SlotInv, TypeOK
<1>7. \A v \in Inst : \A j \in JobIds : Holds(v, j)' <=> Holds(v, j)
    BY Zenon, <1>3 DEF Holds
<1>8. \A j \in JobIds : j >= nextJobId' => jobs'[j] = None /\ completed'[j] = None
    <2> SUFFICES ASSUME NEW j \in JobIds, j >= nextJobId PROVE jobs'[j] = None /\ completed'[j] = None
        BY Zenon, <1>3
    <2>1. jobs[j] = None /\ completed[j] = None
        BY Zenon, NotIssued
    <2>2. Id(w) # None
        BY PoolConstants, Sentinels DEF Inst, Id, WorkerIds
    <2> QED
        BY Zenon, <2>1, <2>2, <1>4
<1>9. ASSUME NEW j \in JobIds, Pending(j)' PROVE state'[<<boots', jobs'[j]>>] = "busy"
    <2>1. Pending(j) /\ jobs[j] # Id(w) /\ jobs'[j] = jobs[j]
        BY Zenon, <1>4, <1>5, <1>9
    <2>2. <<boots, jobs[j]>> \in Inst /\ state[<<boots, jobs[j]>>] = "busy" /\ <<boots, jobs[j]>> # w
        <3>1. <<boots, jobs[j]>> \in Inst
            BY Zenon, <2>1, PendingWorker
        <3>2. state[<<boots, jobs[j]>>] = "busy"
            BY Zenon, <2>1 DEF JobInv
        <3>3. <<boots, jobs[j]>> # w
            BY <2>1 DEF Id
        <3> QED
            BY Zenon, <3>1, <3>2, <3>3
    <2> QED
        BY Zenon, <2>1, <2>2, <1>3, <1>6
<1>10. ASSUME NEW v \in Inst, NEW j \in JobIds, InPool(v)', state'[v] # "dead", Holds(v, j)'
       PROVE  Pending(j)' /\ jobs'[j] = Id(v)
    <2>1. v # w /\ InPool(v) /\ state[v] # "dead" /\ Holds(v, j)
        BY Zenon, <1>3, <1>6, <1>7, <1>10 DEF InPool
    <2>2. Pending(j) /\ jobs[j] = Id(v) /\ v = <<boots, Id(v)>>
        BY Zenon, <2>1, PoolMembers DEF JobInv, SlotInv
    <2>3. Id(v) # Id(w)
        BY Zenon, <2>1, <2>2, <1>2
    <2> QED
        BY Zenon, <2>2, <2>3, <1>4, <1>5
<1>11. \A i, j \in JobIds : Pending(i)' /\ Pending(j)' /\ jobs'[i] = jobs'[j] => i = j
    BY Zenon, <1>4, <1>5 DEF JobInv
<1>12. \A v \in Inst : InPool(v)' /\ state'[v] = "dead" => life'[v] = "exited"
    BY Zenon, <1>1, <1>3, <1>6 DEF JobInv, InPool
<1>13. JobInv'
    BY Zenon, <1>3, <1>8, <1>9, <1>10, <1>11, <1>12 DEF JobInv
<1> QED
    BY Zenon, <1>3, <1>4, <1>5, <1>13

\* The steps of an isolate move a job from its inbox to its task and from
\* there to its mailbox.
LEMMA IsolateHolds ==
    ASSUME SlotInv, NEW w \in Inst,
           \/ Greet(w) \/ PutReady(w) \/ Receive(w) \/ Return(w) \/ Crash(w)
           \/ \E ok \in BOOLEAN : Complete(w, ok)
    PROVE  /\ \A v \in Inst : \A j \in JobIds : v # w => (Holds(v, j)' <=> Holds(v, j))
           /\ \A j \in JobIds : Holds(w, j)' => Holds(w, j)
           /\ \A j \in JobIds : Holds(w, j) => Holds(w, j)' \/ life'[w] = "exited"
           /\ \A v \in Inst : life[v] = "exited" => life'[v] = "exited"
           /\ UNCHANGED <<workers, boots, state, jobs, completed, nextJobId, pc, on, want, served>>
<1> USE DEF mainVars, bootVars, callVars, portVars
<1>0. WorkerInv(w) /\ TypeOK /\ inbox[w] \in Seq(JobIds \cup {Shutdown})
    BY Zenon DEF SlotInv, TypeOK
<1>j. \A j \in JobIds : j \in Int /\ j # None /\ j # Shutdown
    BY PoolConstants, Sentinels DEF JobIds
<1>1. ASSUME inbox'[w] = inbox[w], task'[w] = task[w], box'[w] = box[w] \/ (box[w] = None /\ box'[w] = Ready)
      PROVE  \A j \in JobIds : Holds(w, j)' <=> Holds(w, j)
    BY Zenon, <1>1 DEF Holds
<1>2. CASE Greet(w) \/ PutReady(w)
    <2>1. /\ inbox' = inbox /\ task' = task /\ \A v \in Inst : v # w => box'[v] = box[v] /\ life'[v] = life[v]
          /\ box'[w] = box[w] \/ (box[w] = None /\ box'[w] = Ready)
          /\ life[w] # "exited"
          /\ UNCHANGED <<workers, boots, state, jobs, completed, nextJobId, pc, on, want, served>>
        BY Zenon, <1>0, <1>2 DEF Greet, PutReady, TypeOK, WorkerInv, Early
    <2>2. \A v \in Inst : \A j \in JobIds : v # w => (Holds(v, j)' <=> Holds(v, j))
        BY Zenon, <2>1 DEF Holds
    <2> QED
        BY Zenon, <2>1, <2>2, <1>1
<1>3. CASE Receive(w)
    <2>1. /\ task' = [task EXCEPT ![w] = Head(inbox[w])] /\ inbox' = [inbox EXCEPT ![w] = Tail(inbox[w])]
          /\ inbox[w] # << >> /\ Head(inbox[w]) # Shutdown /\ task[w] = None
          /\ UNCHANGED <<box, life>>
          /\ UNCHANGED <<workers, boots, state, jobs, completed, nextJobId, pc, on, want, served>>
        BY Zenon, <1>3 DEF Receive
    <2>2. \A v \in Inst : v # w => inbox'[v] = inbox[v] /\ task'[v] = task[v]
        BY Zenon, <1>0, <2>1 DEF TypeOK
    <2>3. inbox'[w] = Tail(inbox[w]) /\ task'[w] = Head(inbox[w])
        BY Zenon, <1>0, <2>1 DEF TypeOK
    <2>4. Quiet(Tail(inbox[w]))
        BY Zenon, <1>0, <2>1, ReceiveTheJob DEF WorkerInv
    <2>5. /\ 1 \in DOMAIN inbox[w] /\ inbox[w][1] = Head(inbox[w])
          /\ \A k \in DOMAIN inbox[w] : inbox[w][k] # Shutdown => k = 1
        <3>1. 1 \in DOMAIN inbox[w] /\ inbox[w][1] = Head(inbox[w])
            BY <1>0, <2>1
        <3> QED
            BY Zenon, <1>0, <3>1, <2>1 DEF WorkerInv, OneJob
    <2>6. \A j \in JobIds : Holds(w, j)' <=> Holds(w, j)
        BY ZenonT(40), <1>j, <2>1, <2>3, <2>4, <2>5 DEF Holds, Quiet
    <2>7. \A v \in Inst : \A j \in JobIds : v # w => (Holds(v, j)' <=> Holds(v, j))
        BY Zenon, <2>1, <2>2 DEF Holds
    <2> QED
        BY Zenon, <2>1, <2>6, <2>7
<1>4. CASE \E ok \in BOOLEAN : Complete(w, ok)
    <2>1. PICK ok \in BOOLEAN : Complete(w, ok)
        BY Zenon, <1>4
    <2>2. task[w] # None /\ box[w] = None /\ Quiet(inbox[w])
        BY Zenon, <1>0, <2>1 DEF Complete, WorkerInv
    <2>3. /\ box' = [box EXCEPT ![w] = [job |-> task[w], ok |-> ok]] /\ task' = [task EXCEPT ![w] = None]
          /\ UNCHANGED <<life, inbox>>
          /\ UNCHANGED <<workers, boots, state, jobs, completed, nextJobId, pc, on, want, served>>
        BY Zenon, <2>1, <2>2 DEF Complete
    <2>4. box'[w] = [job |-> task[w], ok |-> ok] /\ task'[w] = None /\ task[w] \in JobIds
        BY Zenon, <1>0, <2>2, <2>3 DEF TypeOK
    <2>5. box'[w] \notin {None, Ready} /\ box'[w].job = task[w]
        <3>1. box'[w] \in Envelope
            BY <2>4 DEF Envelope
        <3> QED
            BY <2>4, <3>1, Sentinels
    <2>6. \A v \in Inst : \A j \in JobIds : v # w => (Holds(v, j)' <=> Holds(v, j))
        <3>1. \A v \in Inst : v # w => box'[v] = box[v] /\ task'[v] = task[v] /\ inbox'[v] = inbox[v]
            BY Zenon, <1>0, <2>3 DEF TypeOK
        <3> QED
            BY Zenon, <3>1 DEF Holds
    <2>7. \A j \in JobIds : Holds(w, j)' <=> Holds(w, j)
        BY Zenon, <1>j, <2>2, <2>3, <2>4, <2>5 DEF Holds, Quiet
    <2> QED
        BY Zenon, <2>3, <2>6, <2>7
<1>5. CASE Return(w) \/ Crash(w)
    <2>1. /\ life[w] = "up" /\ box' = box
          /\ life' = [life EXCEPT ![w] = "exited"] \/ (life' = [life EXCEPT ![w] = "returned"] /\ task' = task)
          /\ task' = task \/ task' = [task EXCEPT ![w] = None]
          /\ \/ inbox' = inbox
             \/ /\ inbox[w] # << >> /\ Head(inbox[w]) = Shutdown
                /\ inbox' = [inbox EXCEPT ![w] = Tail(inbox[w])]
          /\ UNCHANGED <<workers, boots, state, jobs, completed, nextJobId, pc, on, want, served>>
        BY Zenon, <1>5 DEF Return, Crash, Unwind, Terminate
    <2>2. \A v \in Inst : v # w => inbox'[v] = inbox[v] /\ task'[v] = task[v] /\ life'[v] = life[v]
        BY Zenon, <1>0, <2>1 DEF TypeOK
    <2>3. task'[w] \in {task[w], None}
        BY Zenon, <1>0, <2>1 DEF TypeOK
    <2>4. \A j \in JobIds : (\E k \in DOMAIN inbox'[w] : inbox'[w][k] = j)
                                <=> (\E k \in DOMAIN inbox[w] : inbox[w][k] = j)
        <3>1. CASE inbox' = inbox
            BY Zenon, <3>1
        <3>2. CASE /\ inbox[w] # << >> /\ Head(inbox[w]) = Shutdown
                   /\ inbox' = [inbox EXCEPT ![w] = Tail(inbox[w])]
            <4>1. inbox'[w] = Tail(inbox[w])
                BY Zenon, <1>0, <3>2 DEF TypeOK
            <4>2. /\ DOMAIN inbox[w] = 1 .. Len(inbox[w]) /\ Len(inbox[w]) \in Nat
                  /\ inbox[w][1] = Shutdown
                  /\ DOMAIN Tail(inbox[w]) = 1 .. (Len(inbox[w]) - 1)
                  /\ \A k \in 1 .. (Len(inbox[w]) - 1) : Tail(inbox[w])[k] = inbox[w][k + 1]
                BY <1>0, <3>2
            <4>3. \A k \in DOMAIN inbox[w] : k # 1 => k - 1 \in 1 .. (Len(inbox[w]) - 1) /\ (k - 1) + 1 = k
                BY <4>2
            <4>4. \A k \in 1 .. (Len(inbox[w]) - 1) : k + 1 \in DOMAIN inbox[w]
                BY <4>2
            <4> SUFFICES ASSUME NEW j \in JobIds
                         PROVE  (\E k \in DOMAIN Tail(inbox[w]) : Tail(inbox[w])[k] = j)
                                    <=> (\E k \in DOMAIN inbox[w] : inbox[w][k] = j)
                BY Zenon, <4>1
            <4>5. ASSUME NEW k \in DOMAIN inbox[w], inbox[w][k] = j
                  PROVE  \E l \in DOMAIN Tail(inbox[w]) : Tail(inbox[w])[l] = j
                <5>1. k # 1
                    BY Zenon, <1>j, <4>2, <4>5
                <5>2. Tail(inbox[w])[k - 1] = inbox[w][k] /\ k - 1 \in DOMAIN Tail(inbox[w])
                    BY Zenon, <5>1, <4>2, <4>3
                <5> QED
                    BY Zenon, <5>2, <4>5
            <4> QED
                BY Zenon, <4>2, <4>4, <4>5
        <3> QED
            BY Zenon, <2>1, <3>1, <3>2
    <2>5. \A j \in JobIds : Holds(w, j)' => Holds(w, j)
        BY Zenon, <1>j, <2>1, <2>3, <2>4 DEF Holds
    <2>6. \A j \in JobIds : Holds(w, j) => Holds(w, j)' \/ life'[w] = "exited"
        <3>1. life'[w] = "exited" \/ task'[w] = task[w]
            BY Zenon, <1>0, <2>1 DEF TypeOK
        <3> QED
            BY Zenon, <2>1, <2>4, <3>1 DEF Holds
    <2>7. \A v \in Inst : \A j \in JobIds : v # w => (Holds(v, j)' <=> Holds(v, j))
        BY Zenon, <2>1, <2>2 DEF Holds
    <2> QED
        BY Zenon, <2>1, <2>2, <2>5, <2>6, <2>7
<1> QED
    BY Zenon, <1>2, <1>3, <1>4, <1>5

\* Every step keeps JobInv.
LEMMA JobInvStep ==
    ASSUME SlotInv, LifecycleInv, JobInv, [Next]_vars
    PROVE  JobInv'
<1>1. CASE Boot \/ Dispose \/ WaitTake \/ Drain
    BY Zenon, <1>1, BootKeepsJobInv, DisposeKeepsJobInv, WaitTakeKeepsJobInv, DrainKeepsJobInv
<1>2. ASSUME NEW g \in Gens, BootSpawned(g) PROVE JobInv'
    BY Zenon, <1>2, JobInvFrame DEF BootSpawned, mainVars, callVars, Holds
<1>3. ASSUME NEW g \in Gens, BootHandshake(g) PROVE JobInv'
    BY Zenon, <1>3, BootHandshakeKeepsJobInv
<1>4. CASE \E w \in Inst : DispatchIdle(w)
    BY Zenon, <1>4, DispatchKeepsJobInv
<1>5. CASE Settle
    BY Zenon, <1>5, DispatchKeepsJobInv DEF Settle, SlotInv, CallInv
<1>6. ASSUME NEW w \in Inst, DispatchBooting(w) \/ DispatchSaturated(w) PROVE JobInv'
    BY Zenon, <1>6, JobInvFrame DEF DispatchBooting, DispatchSaturated, mainVars, bootVars, isoVars, Holds
<1>7. CASE \E j \in JobIds : WaitCached(j)
    BY Zenon, <1>7, WaitCachedKeepsJobInv
<1>8. ASSUME NEW j \in JobIds, WaitPending(j) PROVE JobInv'
    <2>1. on' = <<boots, jobs[j]>> /\ want' = j /\ Pending(j)
        BY Zenon, <1>8, PendingWorker DEF WaitPending
    <2> QED
        BY ZenonT(40), <1>8, <2>1 DEF WaitPending, JobInv, Pending, InPool, Holds, mainVars, bootVars, isoVars
<1>9. CASE \E w \in Inst : WorkerExit(w)
    BY Zenon, <1>9, WorkerExitKeepsJobInv
<1>10. CASE \E w \in Inst : Worker(w) \/ Crash(w)
    BY Zenon, <1>10, IsolateHolds, JobInvFrame DEF Worker
<1>11. CASE UNCHANGED vars
    BY Zenon, <1>11, JobInvFrame DEF vars, mainVars, bootVars, callVars, isoVars, Holds
<1> QED
    BY Zenon, <1>1, <1>2, <1>3, <1>4, <1>5, <1>6, <1>7, <1>8, <1>9, <1>10, <1>11 DEF Next, Main

-----------------------------------------------------------------------------
(* Jobs are not lost.                                                      *)

\* A dispatch that sends its message leaves the job with the worker.
LEMMA ClaimSends ==
    ASSUME SlotInv, NEW w \in Inst, ClaimAndSend(w), nextJobId < MaxJobs,
           "badContext" \notin Faults
    PROVE  nextJobId \in JobIds /\ \A j \in JobIds : j = nextJobId => Holds(w, j)'
<1>1. nextJobId \in JobIds
    BY PoolConstants DEF SlotInv, TypeOK, JobIds
<1>2. inbox' = [inbox EXCEPT ![w] = Append(inbox[w], nextJobId)]
    BY Zenon DEF ClaimAndSend
<1>3. inbox'[w] = Append(inbox[w], nextJobId) /\ inbox[w] \in Seq(JobIds \cup {Shutdown})
    BY Zenon, <1>2 DEF SlotInv, TypeOK
<1>4. Len(inbox[w]) + 1 \in DOMAIN inbox'[w] /\ inbox'[w][Len(inbox[w]) + 1] = nextJobId
    BY <1>1, <1>3
<1> QED
    BY Zenon, <1>1, <1>4 DEF Holds

\* Every step keeps HeldInv, when no dispatch fails before it sends.
LEMMA HeldInvStep ==
    ASSUME SlotInv, LifecycleInv, JobInv, HeldInv, [Next]_vars, "badContext" \notin Faults
    PROVE  HeldInv'
<1> DEFINE W(j) == <<boots, jobs[j]>>
           Kept(j) == Holds(W(j), j) \/ life[W(j)] = "exited"
<1>0. \A j \in JobIds : Pending(j) => W(j) \in Inst /\ Kept(j)
    BY Zenon, PendingWorker DEF HeldInv
<1>1. ASSUME UNCHANGED <<boots, jobs, completed, inbox, task, box>>,
             \A w \in Inst : life[w] = "exited" => life'[w] = "exited"
      PROVE  HeldInv'
    BY Zenon, <1>0, <1>1 DEF HeldInv, Holds, Pending
<1>2. ASSUME NEW w \in Inst, ClaimAndSend(w), InPool(w), nextJobId < MaxJobs,
             \A v \in Inst : \A j \in JobIds : v # w => (Holds(v, j)' <=> Holds(v, j)),
             \A j \in JobIds : Pending(j)' <=> j = nextJobId \/ (Pending(j) /\ jobs[j] # Id(w))
      PROVE  HeldInv'
    <2> SUFFICES ASSUME NEW j \in JobIds, Pending(j)'
                 PROVE  (Holds(<<boots, jobs[j]>>, j) \/ life[<<boots, jobs[j]>>] = "exited")'
        BY Zenon DEF HeldInv
    <2>1. /\ jobs' = [jobs EXCEPT ![nextJobId] = Id(w)] /\ UNCHANGED <<boots, life>>
          /\ w = <<boots, Id(w)>>
        BY Zenon, <1>2, PoolMembers DEF ClaimAndSend, bootVars, SlotInv
    <2>2. CASE j = nextJobId
        <3>1. jobs'[j] = Id(w)
            BY Zenon, <2>1, <2>2 DEF SlotInv, TypeOK
        <3>2. Holds(w, j)'
            BY Zenon, <2>2, <1>2, ClaimSends
        <3>3. <<boots, jobs[j]>>' = w
            BY Zenon, <2>1, <3>1
        <3> QED
            BY Zenon, <3>2, <3>3 DEF Holds
    <2>3. CASE j # nextJobId
        <3>1. Pending(j) /\ jobs[j] # Id(w) /\ jobs'[j] = jobs[j]
            BY Zenon, <2>1, <2>3, <1>2 DEF SlotInv, TypeOK
        <3>2. W(j) \in Inst /\ Kept(j) /\ W(j) # w
            <4>1. W(j) \in Inst /\ Kept(j)
                BY Zenon, <3>1, <1>0
            <4>2. W(j) # w
                BY <3>1 DEF Id
            <4> QED
                BY Zenon, <4>1, <4>2
        <3>3. \A v \in Inst : v = W(j) => Holds(v, j)' \/ life'[v] = "exited"
            BY Zenon, <1>2, <2>1, <3>1, <3>2
        <3>4. <<boots, jobs[j]>>' = W(j)
            BY Zenon, <2>1, <3>1
        <3> QED
            BY Zenon, <3>2, <3>3, <3>4 DEF Holds
    <2> QED
        BY Zenon, <2>2, <2>3
<1>3. CASE Boot \/ Dispose
    <2>1. \A j \in JobIds : jobs'[j] = None
        <3>1. CASE Boot
            BY <3>1 DEF Boot, LifecycleInv, SlotInv, CallInv
        <3>2. CASE Dispose
            BY Zenon, <3>2 DEF Dispose, ForgetJobs
        <3> QED
            BY Zenon, <1>3, <3>1, <3>2
    <2> QED
        BY Zenon, <2>1 DEF HeldInv, Pending
<1>4. ASSUME NEW g \in Gens, BootSpawned(g) PROVE HeldInv'
    BY Zenon, <1>4, <1>1 DEF BootSpawned, mainVars
<1>5. ASSUME NEW g \in Gens, BootHandshake(g) PROVE HeldInv'
    <2>1. UNCHANGED <<inbox, task, box, jobs, completed, boots>>
        BY Zenon, <1>5, BootHandshakeKeepsJobInv
    <2>2. \A w \in Inst : life[w] = "exited" => life'[w] = "exited"
        <3> SUFFICES ASSUME NEW w \in Inst, life[w] = "exited" PROVE life'[w] = "exited"
            BY Zenon
        <3>1. Id(w) <= bootI[w[1]]
            BY Zenon DEF SlotInv, BootInv
        <3>2. w # <<g, bootI[g] + 1>>
            BY <3>1 DEF Id, SlotInv, TypeOK, WorkerIds
        <3> QED
            BY Zenon, <1>5, <3>2 DEF BootHandshake, SlotInv, TypeOK
    <2> QED
        BY Zenon, <2>1, <2>2, <1>1
<1>6. ASSUME NEW w \in Inst, DispatchIdle(w) \/ (Settle /\ on = w) PROVE HeldInv'
    BY Zenon, <1>6, <1>2, DispatchKeepsJobInv
<1>7. CASE Drain
    <2>1. on \in Inst /\ InPool(on) /\ nextJobId < MaxJobs
        BY Zenon, <1>7, DrainTakes DEF Drain
    <2> QED
        BY Zenon, <1>7, <2>1, <1>2, DrainKeepsJobInv
<1>8. ASSUME NEW w \in Inst, DispatchBooting(w) \/ DispatchSaturated(w) PROVE HeldInv'
    BY Zenon, <1>8, <1>1 DEF DispatchBooting, DispatchSaturated, mainVars, bootVars, isoVars
<1>9. ASSUME NEW j \in JobIds, WaitPending(j) PROVE HeldInv'
    BY Zenon, <1>9, <1>1 DEF WaitPending, mainVars, bootVars, isoVars
<1>10. ASSUME NEW i \in JobIds, WaitCached(i) PROVE HeldInv'
    <2>1. /\ \A j \in JobIds : Pending(j)' => Pending(j) /\ jobs'[j] = jobs[j]
          /\ UNCHANGED <<boots, life, inbox, task, box>>
        <3>1. \A j \in JobIds : Pending(j)' <=> Pending(j)
            BY Zenon, <1>10, WaitCachedKeepsJobInv
        <3>2. \A j \in JobIds : Pending(j) => j # i
            BY Zenon, <1>10 DEF WaitCached, Pending
        <3> QED
            BY Zenon, <1>10, <3>1, <3>2 DEF WaitCached, Forget, bootVars, isoVars, SlotInv, TypeOK
    <2> QED
        BY ZenonT(40), <1>0, <2>1 DEF HeldInv, Holds
<1>11. CASE WaitTake
    <2>1. /\ want \in JobIds /\ Pending(want) /\ jobs' = [jobs EXCEPT ![want] = None]
          /\ \A v \in Inst : \A j \in JobIds : v # on => (Holds(v, j)' <=> Holds(v, j))
          /\ \A j \in JobIds : Pending(j)' <=> Pending(j) /\ j # want
          /\ on = <<boots, jobs[want]>>
        BY Zenon, <1>11, WaitTakeKeepsJobInv
    <2>2. UNCHANGED <<boots, life>>
        BY Zenon, <1>11 DEF WaitTake, bootVars
    <2>3. ASSUME NEW j \in JobIds, Pending(j)'
          PROVE  (Holds(<<boots, jobs[j]>>, j) \/ life[<<boots, jobs[j]>>] = "exited")'
        <3>1. Pending(j) /\ j # want /\ jobs'[j] = jobs[j]
            BY Zenon, <2>1, <2>3 DEF SlotInv, TypeOK
        <3>2. W(j) \in Inst /\ Kept(j) /\ jobs[j] # jobs[want]
            BY Zenon, <3>1, <2>1, <1>0 DEF JobInv
        <3>3. W(j) # on
            BY Zenon, <3>2, <2>1
        <3>4. \A v \in Inst : v = W(j) => Holds(v, j)' \/ life'[v] = "exited"
            BY Zenon, <2>1, <2>2, <3>1, <3>2, <3>3
        <3>5. <<boots, jobs[j]>>' = W(j)
            BY Zenon, <2>2, <3>1
        <3> QED
            BY Zenon, <3>2, <3>4, <3>5 DEF Holds
    <2> QED
        BY Zenon, <2>3 DEF HeldInv
<1>12. ASSUME NEW w \in Inst, WorkerExit(w) PROVE HeldInv'
    <2>1. /\ \A j \in JobIds : Pending(j)' => Pending(j) /\ jobs'[j] = jobs[j]
          /\ UNCHANGED <<inbox, task, box, life, boots>>
        BY Zenon, <1>12, WorkerExitKeepsJobInv
    <2> QED
        BY ZenonT(40), <1>0, <2>1 DEF HeldInv, Holds
<1>13. ASSUME NEW w \in Inst, Worker(w) \/ Crash(w) PROVE HeldInv'
    <2>1. /\ \A v \in Inst : \A j \in JobIds : v # w => (Holds(v, j)' <=> Holds(v, j))
          /\ \A j \in JobIds : Holds(w, j) => Holds(w, j)' \/ life'[w] = "exited"
          /\ \A v \in Inst : life[v] = "exited" => life'[v] = "exited"
          /\ UNCHANGED <<boots, jobs, completed>>
        BY Zenon, <1>13, IsolateHolds DEF Worker
    <2>2. ASSUME NEW j \in JobIds, Pending(j)'
          PROVE  (Holds(<<boots, jobs[j]>>, j) \/ life[<<boots, jobs[j]>>] = "exited")'
        <3>1. Pending(j) /\ W(j) \in Inst /\ Kept(j)
            BY Zenon, <2>1, <2>2, <1>0 DEF Pending
        <3>2. \A v \in Inst : v = W(j) => Holds(v, j)' \/ life'[v] = "exited"
            BY Zenon, <2>1, <3>1
        <3>3. <<boots, jobs[j]>>' = W(j)
            BY Zenon, <2>1
        <3> QED
            BY Zenon, <3>1, <3>2, <3>3 DEF Holds
    <2> QED
        BY Zenon, <2>2 DEF HeldInv
<1>14. CASE UNCHANGED vars
    BY Zenon, <1>14, <1>1 DEF vars, mainVars, bootVars, isoVars
<1>15. CASE Settle
    BY Zenon, <1>15, <1>6 DEF Settle, SlotInv, CallInv
<1> QED
    BY Zenon, <1>3, <1>4, <1>5, <1>6, <1>7, <1>8, <1>9, <1>10, <1>11, <1>12, <1>13, <1>14, <1>15 DEF Next, Main
=============================================================================
