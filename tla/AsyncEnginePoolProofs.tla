------------------------ MODULE AsyncEnginePoolProofs ------------------------
(***************************************************************************)
(* Types and the one-slot mailbox of AsyncEnginePool, for any number of    *)
(* workers, jobs and boots, and whatever faults occur: SlotInv is          *)
(* inductive.                                                              *)
(***************************************************************************)
EXTENDS AsyncEnginePoolInv, WellFoundedInduction, TLAPS

\* The time a leaf may take.
USE SMTT(30)

-----------------------------------------------------------------------------
(* Inboxes.                                                                *)

\* The 'shutdown' that dispose sends adds no job.
LEMMA AppendShutdown ==
    ASSUME NEW S, NEW q \in Seq(S)
    PROVE  /\ OneJob(q) => OneJob(Append(q, Shutdown))
           /\ Quiet(q) => Quiet(Append(q, Shutdown))
<1> DEFINE a == Append(q, Shutdown)
<1>1. Len(a) = Len(q) + 1 /\ DOMAIN a = 1 .. (Len(q) + 1) /\ DOMAIN q = 1 .. Len(q)
      /\ Len(q) \in Nat
    OBVIOUS
<1>2. a[Len(q) + 1] = Shutdown /\ \A k \in DOMAIN q : a[k] = q[k]
    OBVIOUS
<1>3. \A k \in DOMAIN a : k \in DOMAIN q \/ k = Len(q) + 1
    BY <1>1
<1> QED BY Zenon, <1>1, <1>2, <1>3 DEF OneJob, Quiet

\* The job that dispatch sends to a worker with no job is its only one.
LEMMA AppendJob ==
    ASSUME NEW S, NEW q \in Seq(S), NEW j, Quiet(q)
    PROVE  OneJob(Append(q, j))
<1> DEFINE a == Append(q, j)
<1>1. Len(a) = Len(q) + 1 /\ DOMAIN a = 1 .. (Len(q) + 1) /\ DOMAIN q = 1 .. Len(q)
      /\ Len(q) \in Nat
    OBVIOUS
<1>2. \A k \in DOMAIN q : a[k] = q[k]
    OBVIOUS
<1>3. \A k \in DOMAIN a : k \in DOMAIN q \/ k = Len(q) + 1
    BY <1>1
<1> QED BY Zenon, <1>1, <1>2, <1>3 DEF OneJob, Quiet

\* Receiving a message leaves no more jobs than there were, and receiving the
\* only job leaves none.
LEMMA TakeHead ==
    ASSUME NEW S, NEW q \in Seq(S), q # << >>
    PROVE  /\ OneJob(q) => OneJob(Tail(q))
           /\ Quiet(q) => Quiet(Tail(q))
           /\ OneJob(q) /\ Head(q) # Shutdown => Quiet(Tail(q))
<1>1. Len(q) \in Nat /\ Len(q) > 0 /\ DOMAIN q = 1 .. Len(q)
    OBVIOUS
<1>2. DOMAIN Tail(q) = 1 .. (Len(q) - 1) /\ \A k \in 1 .. (Len(q) - 1) : Tail(q)[k] = q[k + 1]
    BY <1>1
<1>3. \A k \in DOMAIN Tail(q) : k + 1 \in DOMAIN q /\ k + 1 # 1 /\ k \in Int
    BY <1>1, <1>2
<1>4. Head(q) = q[1] /\ 1 \in DOMAIN q
    BY <1>1
<1> QED BY <1>2, <1>3, <1>4 DEF OneJob, Quiet

-----------------------------------------------------------------------------
(* _workerById.                                                            *)

\* A non-empty set of numbers has a least element.
LEMMA LeastNumber ==
    ASSUME NEW T \in SUBSET Nat, T # {}
    PROVE  \E x \in T : \A y \in T : x <= y
<1> DEFINE R == OpToRel(<, Nat)
<1>1. IsWellFoundedOn(R, Nat)
    BY Zenon, NatLessThanWellFounded
<1>2. \A x, y \in T : (<<y, x>> \in R) <=> y < x
    BY Zenon DEF OpToRel
<1> HIDE DEF R
<1>3. PICK x \in T : \A y \in T : ~(<<y, x>> \in R)
    BY Zenon, <1>1, WFMin
<1>4. \A y \in T : ~(y < x)
    BY Zenon, <1>2, <1>3
<1>5. \A y \in T : x <= y
    BY <1>4
<1> QED BY Zenon, <1>5

\* _workerById finds a worker of the pool with that id when there is one.
LEMMA WorkerByIdFound ==
    ASSUME NEW i, workers \in Seq(Inst),
           \E k \in DOMAIN workers : Id(workers[k]) = i
    PROVE  /\ InPool(WorkerById(i))
           /\ WorkerById(i) \in Inst
           /\ Id(WorkerById(i)) = i
<1> DEFINE T == {k \in DOMAIN workers : Id(workers[k]) = i}
<1>1. DOMAIN workers = 1 .. Len(workers) /\ Len(workers) \in Nat
    OBVIOUS
<1>2. T \in SUBSET Nat /\ T # {}
    BY <1>1
<1>3. PICK m \in T : \A y \in T : m <= y
    BY Zenon, <1>2, LeastNumber
<1>4. \A l \in 1 .. (m - 1) : l \in DOMAIN workers /\ l \notin T
    BY <1>1, <1>3
<1>5. m \in DOMAIN workers /\ Id(workers[m]) = i /\ \A l \in 1 .. (m - 1) : Id(workers[l]) # i
    BY Zenon, <1>3, <1>4
<1>6. PICK k \in DOMAIN workers : WorkerById(i) = workers[k] /\ Id(workers[k]) = i
    BY Zenon, <1>5 DEF WorkerById
<1> QED BY <1>1, <1>6 DEF InPool

-----------------------------------------------------------------------------
(* The inductive invariant behind the mailbox.                             *)

\* The invariant holds of a pool that was just constructed.
LEMMA SlotInvInit == Init => SlotInv
<1> SUFFICES ASSUME Init PROVE SlotInv
    BY Zenon
<1> USE PoolConstants, Sentinels DEF Init
<1>a. 0 \in WorkerIds /\ 0 \in 0 .. MaxBoots /\ 0 \in 0 .. MaxJobs
    BY DEF WorkerIds
<1>b. << >> \in Seq(Inst) /\ << >> \in Seq(JobIds \cup {Shutdown})
    OBVIOUS
<1>1. TypeOK
    BY Zenon, <1>a, <1>b DEF TypeOK
<1>2. BootInv
    BY DEF BootInv, Gens, Inst
<1>3. CallInv
    BY DEF CallInv
<1>4. \A w \in Inst : WorkerInv(w)
    BY DEF WorkerInv, Early, OneJob, Quiet
<1> QED BY Zenon, <1>1, <1>2, <1>3, <1>4 DEF SlotInv

\* WorkerInv(w) is about w alone.
LEMMA WorkerInvFrame ==
    ASSUME NEW w \in Inst, WorkerInv(w),
           inbox'[w] = inbox[w], life'[w] = life[w], box'[w] = box[w],
           task'[w] = task[w], state'[w] = state[w]
    PROVE  WorkerInv(w)'
BY Zenon DEF WorkerInv, Early

\* boot, up to its first await, keeps the invariant.
LEMMA BootKeepsSlotInv == SlotInv /\ Boot => SlotInv'
<1> SUFFICES ASSUME SlotInv, Boot PROVE SlotInv'
    BY Zenon
<1> USE PoolConstants DEF SlotInv
<1> DEFINE v == <<boots + 1, 0>>
<1>1. boots + 1 \in Gens /\ 0 \in WorkerIds /\ v \in Inst /\ boots \in Nat
    BY DEF Boot, TypeOK, Gens, Inst, WorkerIds
<1>2. life[v] = "unborn"
    BY <1>1 DEF BootInv
<1>3. TypeOK'
    BY <1>1 DEF TypeOK, Boot, callVars
<1>4. BootInv'
    <2>1. /\ boots' = boots + 1 /\ bootI' = bootI /\ state' = state
          /\ bootPc'[boots + 1] = "spawn" /\ \A g \in Gens : g # boots + 1 => bootPc'[g] = bootPc[g]
        BY <1>1 DEF Boot, TypeOK
    <2>2. \A w \in Inst : life'[w] # "unborn" => w = v \/ life[w] # "unborn"
        BY <1>1 DEF Boot, TypeOK
    <2>3. \A g \in Gens : g \in Int
        BY DEF Gens
    <2>4. bootI[boots + 1] = 0 /\ bootPc[boots + 1] = "unstarted"
        BY <1>1, <2>3 DEF BootInv
    <2>5. \A g \in Gens : (bootPc'[g] = "unstarted") <=> (g > boots + 1)
        BY <1>1, <2>1, <2>3 DEF BootInv
    <2>6. \A w \in Inst : w[1] \in Gens /\ (w = v => w[1] = boots + 1 /\ Id(w) = 0)
        BY DEF Inst, Id
    <2>7. ASSUME NEW w \in Inst, life'[w] # "unborn"
          PROVE  w[1] <= boots + 1 /\ Id(w) <= bootI[w[1]]
        <3>1. CASE w = v
            BY <3>1, <1>1, <2>4, <2>6
        <3>2. CASE life[w] # "unborn"
            BY <3>2, <1>1, <2>3, <2>6 DEF BootInv
        <3> QED
            BY Zenon, <2>2, <2>7, <3>1, <3>2
    <2>8. ASSUME NEW w \in Inst, state'[w] # "none"
          PROVE  Joined(w)'
        <3>1. Joined(w)
            BY Zenon, <2>1, <2>8 DEF BootInv
        <3> QED
            BY Zenon, <2>1, <2>4, <2>6, <3>1 DEF Joined
    <2> QED
        BY Zenon, <1>1, <2>1, <2>4, <2>5, <2>7, <2>8 DEF BootInv
<1>5. CallInv'
    BY Zenon, <1>1 DEF CallInv, Boot, InLoop, InPool, Id, callVars
<1>6. ASSUME NEW w \in Inst PROVE WorkerInv(w)'
    <2>1. CASE w = v
        BY Zenon, <2>1, <1>1, <1>2 DEF WorkerInv, Early, Boot, TypeOK
    <2>2. CASE w # v
        BY Zenon, <2>2, <1>1, WorkerInvFrame DEF Boot, TypeOK
    <2> QED BY Zenon, <2>1, <2>2
<1> QED BY Zenon, <1>3, <1>4, <1>5, <1>6

\* Registering the exit listener keeps it.
LEMMA BootSpawnedKeepsSlotInv ==
    ASSUME SlotInv, NEW g \in Gens, BootSpawned(g)
    PROVE  SlotInv'
<1> USE PoolConstants DEF SlotInv
<1>1. <<g, bootI[g]>> \in Inst
    BY Zenon DEF TypeOK, Inst
<1>2. TypeOK'
    BY Zenon, <1>1 DEF TypeOK, BootSpawned, callVars, mainVars, portVars
<1>3. BootInv'
    BY ZenonT(40) DEF BootInv, BootSpawned, Joined, TypeOK, mainVars, Gens, Inst, Id
<1>4. CallInv'
    BY Zenon DEF CallInv, BootSpawned, InLoop, InPool, Id, mainVars, callVars
<1>5. ASSUME NEW w \in Inst PROVE WorkerInv(w)'
    BY Zenon, WorkerInvFrame DEF BootSpawned, mainVars
<1> QED BY Zenon, <1>2, <1>3, <1>4, <1>5

\* Adding a worker to the pool and spawning the next isolate keeps it.
LEMMA BootHandshakeKeepsSlotInv ==
    ASSUME SlotInv, NEW g \in Gens, BootHandshake(g)
    PROVE  SlotInv'
<1> USE PoolConstants DEF SlotInv
<1> DEFINE v == <<g, bootI[g]>>
           u == <<g, bootI[g] + 1>>
           last == bootI[g] = N - 1
<1>1. v \in Inst /\ bootI[g] \in WorkerIds /\ v[1] = g /\ v[2] = bootI[g]
    BY Zenon DEF TypeOK, Inst
<1>2. ~last => u \in Inst /\ bootI[g] + 1 \in WorkerIds
    BY <1>1 DEF Inst, WorkerIds
<1>3. state[v] = "none"
    BY <1>1 DEF BootInv, BootHandshake, Joined, Id, WorkerIds
<1>4. ~last => life[u] = "unborn" /\ state[u] = "none"
    BY <1>1, <1>2 DEF BootInv, BootHandshake, Joined, Id, WorkerIds
<1>n. u # v /\ u[1] = g /\ u[2] = bootI[g] + 1
    BY <1>1 DEF WorkerIds
<1>s. state' = [state EXCEPT ![v] = "booting"]
    BY Zenon DEF BootHandshake
<1>b. /\ bootPc' = [bootPc EXCEPT ![g] = IF last THEN "done" ELSE "spawn"]
      /\ bootI' = [bootI EXCEPT ![g] = IF last THEN bootI[g] ELSE bootI[g] + 1]
      /\ life' = IF last THEN life ELSE [life EXCEPT ![u] = "spawned"]
      /\ boots' = boots
    BY Zenon DEF BootHandshake, LastWorker, TypeOK
<1>f. /\ UNCHANGED <<inbox, box, task, jobs, nextJobId, pc, on, want>>
      /\ pc = "loop"
    BY Zenon DEF BootHandshake, InLoop, callVars
<1> HIDE DEF u, v, last
<1>5. TypeOK'
    <2>1. workers' \in Seq(Inst) /\ state' \in [Inst -> {"none", "booting", "idle", "busy", "dead"}]
        BY <1>1 DEF TypeOK, BootHandshake, v
    <2>2. bootPc' \in [Gens -> {"unstarted", "spawn", "handshake", "done"}]
        BY Zenon, <1>b DEF TypeOK
    <2>3. bootI' \in [Gens -> WorkerIds]
        BY Zenon, <1>1, <1>2, <1>b DEF TypeOK
    <2>4. life' \in [Inst -> {"unborn", "spawned", "greeted", "up", "returned", "exited"}]
        BY Zenon, <1>2, <1>b DEF TypeOK
    <2>5. booted' \in BOOLEAN
        BY Zenon DEF BootHandshake, LastWorker, TypeOK
    <2> QED BY Zenon, <2>1, <2>2, <2>3, <2>4, <2>5 DEF TypeOK, BootHandshake, callVars, portVars
<1>6. BootInv'
    <2>1. g <= boots /\ bootPc[g] = "handshake"
        BY DEF BootInv, BootHandshake, TypeOK, Gens
    <2>2. ASSUME NEW h \in Gens
          PROVE  /\ (bootPc'[h] = "unstarted") <=> (h > boots')
                 /\ bootPc'[h] = "done" => bootI'[h] = N - 1
                 /\ bootPc'[h] = "unstarted" => bootI'[h] = 0
        BY Zenon, <2>1, <1>b DEF BootInv, TypeOK, last
    <2>3. ASSUME NEW w \in Inst, life'[w] # "unborn"
          PROVE  w[1] <= boots' /\ Id(w) <= bootI'[w[1]]
        <3>1. w[1] \in Gens /\ w[2] \in WorkerIds
            BY Zenon DEF Inst
        <3>2. CASE ~last /\ w = u
            BY <3>1, <3>2, <2>1, <1>1, <1>n, <1>b DEF TypeOK, Id, WorkerIds
        <3>3. CASE last \/ w # u
            <4>1. life[w] # "unborn"
                BY Zenon, <3>3, <1>b, <2>3 DEF TypeOK
            <4>2. w[1] <= boots /\ Id(w) <= bootI[w[1]]
                BY Zenon, <4>1 DEF BootInv
            <4> QED BY <4>2, <3>1, <1>b, <1>1 DEF TypeOK, Id, WorkerIds
        <3> QED BY Zenon, <3>2, <3>3
    <2>4. ASSUME NEW w \in Inst, state'[w] # "none"
          PROVE  Joined(w)'
        <3>1. w[1] \in Gens /\ w[2] \in WorkerIds
            BY Zenon DEF Inst
        <3>2. CASE w = v
            BY <3>1, <3>2, <1>1, <1>b DEF TypeOK, Id, WorkerIds, Joined
        <3>3. CASE w # v
            <4>1. Joined(w)
                BY Zenon, <3>3, <2>4, <1>s DEF BootInv, TypeOK
            <4> QED BY <4>1, <3>1, <2>1, <1>b, <1>1 DEF TypeOK, Id, WorkerIds, Joined
        <3> QED BY Zenon, <3>2, <3>3
    <2> QED BY Zenon, <2>2, <2>3, <2>4 DEF BootInv
<1>7. CallInv'
    <2>1. DOMAIN workers' = 1 .. (Len(workers) + 1) /\ DOMAIN workers = 1 .. Len(workers)
          /\ Len(workers) \in Nat /\ workers'[Len(workers) + 1] = v
          /\ \A k \in DOMAIN workers : workers'[k] = workers[k] /\ workers[k] \in Inst
        BY DEF BootHandshake, TypeOK, v
    <2>2. \A k \in DOMAIN workers' : k \in DOMAIN workers \/ k = Len(workers) + 1
        BY <2>1
    <2>3. \A k \in DOMAIN workers' : state'[workers'[k]] # "none"
        BY Zenon, <2>1, <2>2, <1>1, <1>s DEF CallInv, TypeOK
    <2>4. \A j \in JobIds : jobs'[j] # None => \E k \in DOMAIN workers' : Id(workers'[k]) = jobs'[j]
        <3>1. \A k \in DOMAIN workers : k \in DOMAIN workers' /\ Id(workers'[k]) = Id(workers[k])
            BY <2>1
        <3> QED BY Zenon, <3>1, <1>f DEF CallInv
    <2> QED BY Zenon, <2>3, <2>4, <1>f DEF CallInv, Id
<1>8. ASSUME NEW w \in Inst PROVE WorkerInv(w)'
    <2>1. CASE w = v
        BY Zenon, <2>1, <1>1, <1>3, <1>n, <1>s, <1>b, <1>f DEF WorkerInv, Early, TypeOK
    <2>2. CASE ~last /\ w = u
        BY Zenon, <2>2, <1>1, <1>2, <1>4, <1>n, <1>s, <1>b, <1>f DEF WorkerInv, Early, TypeOK
    <2>3. CASE w # v /\ (last \/ w # u)
        BY Zenon, <2>3, <1>1, <1>2, <1>s, <1>b, <1>f, WorkerInvFrame DEF TypeOK
    <2> QED BY Zenon, <2>1, <2>2, <2>3
<1> QED BY Zenon, <1>5, <1>6, <1>7, <1>8

\* dispose keeps it: what it sends are no jobs.
LEMMA DisposeKeepsSlotInv == SlotInv /\ Dispose => SlotInv'
<1> SUFFICES ASSUME SlotInv, Dispose PROVE SlotInv'
    BY Zenon
<1> USE PoolConstants DEF SlotInv
<1>1. \A w \in Inst : inbox'[w] = inbox[w] \/ inbox'[w] = Append(inbox[w], Shutdown)
    BY Zenon DEF Dispose
<1>2. inbox' \in [Inst -> Seq(JobIds \cup {Shutdown})]
    BY DEF Dispose, TypeOK
<1>a. workers' \in Seq(Inst) /\ exitPort' \in 0 .. MaxBoots /\ ports' \subseteq Gens /\ exits' \subseteq Inst
    BY DEF TypeOK, Dispose, ClosePort
<1>3. TypeOK'
    BY Zenon, <1>2, <1>a DEF TypeOK, Dispose, ForgetJobs, bootVars, callVars
<1>4. BootInv'
    BY Zenon DEF BootInv, Dispose, Joined, bootVars
<1>5. CallInv'
    BY DEF CallInv, Dispose, ForgetJobs, InLoop, callVars, TypeOK
<1>6. ASSUME NEW w \in Inst PROVE WorkerInv(w)'
    <2>1. CASE inbox'[w] = inbox[w]
        BY Zenon, <2>1, WorkerInvFrame DEF Dispose
    <2>2. CASE inbox'[w] = Append(inbox[w], Shutdown)
        <3>1. inbox[w] \in Seq(JobIds \cup {Shutdown})
            BY Zenon DEF TypeOK
        <3>2. /\ OneJob(inbox[w]) => OneJob(inbox'[w])
              /\ Quiet(inbox[w]) => Quiet(inbox'[w])
            BY Zenon, <2>2, <3>1, AppendShutdown
        <3> QED BY Zenon, <3>2 DEF WorkerInv, Early, Dispose
    <2> QED BY Zenon, <2>1, <2>2, <1>1
<1> QED BY Zenon, <1>3, <1>4, <1>5, <1>6

\* Claiming a live worker that holds nothing, and sending it a job.
LEMMA ClaimKeepsSlotInv ==
    ASSUME SlotInv, NEW w \in Inst, ClaimAndSend(w), InPool(w), nextJobId < MaxJobs,
           ~Early(w), Quiet(inbox[w]), task[w] = None,
           box'[w] = None, \A v \in Inst : v # w => box'[v] = box[v],
           box' \in [Inst -> Envelope \cup {None, Ready}],
           completed' \in [JobIds -> Envelope \cup {None}]
    PROVE  SlotInv'
<1> USE PoolConstants DEF SlotInv
<1>1. nextJobId \in JobIds /\ nextJobId + 1 \in 0 .. MaxJobs /\ Id(w) \in WorkerIds
    BY DEF TypeOK, JobIds, Inst, Id
<1>2. inbox' = inbox \/ inbox' = [inbox EXCEPT ![w] = Append(inbox[w], nextJobId)]
    BY Zenon DEF ClaimAndSend
<1>a. inbox[w] \in Seq(JobIds \cup {Shutdown}) /\ Append(inbox[w], nextJobId) \in Seq(JobIds \cup {Shutdown})
    BY <1>1 DEF TypeOK
<1>3. inbox' \in [Inst -> Seq(JobIds \cup {Shutdown})]
    BY ZenonT(30), <1>a, <1>2 DEF TypeOK
<1>4. TypeOK'
    BY Zenon, <1>1, <1>3 DEF TypeOK, ClaimAndSend, bootVars, portVars
<1>5. BootInv'
    <2>1. state[w] # "none"
        BY Zenon DEF InPool, CallInv
    <2> QED BY Zenon, <2>1 DEF BootInv, ClaimAndSend, Joined, bootVars, TypeOK
<1>6. CallInv'
    BY <1>1 DEF CallInv, ClaimAndSend, InPool, TypeOK
<1>7. ASSUME NEW v \in Inst PROVE WorkerInv(v)'
    <2>1. CASE v # w
        <3>1. inbox'[v] = inbox[v] /\ state'[v] = state[v]
            BY Zenon, <2>1, <1>2 DEF TypeOK, ClaimAndSend
        <3> QED BY Zenon, <2>1, <3>1, WorkerInvFrame DEF ClaimAndSend
    <2>2. CASE v = w
        <3>1. inbox'[w] = inbox[w] \/ inbox'[w] = Append(inbox[w], nextJobId)
            BY Zenon, <1>2 DEF TypeOK
        <3>a. OneJob(Append(inbox[w], nextJobId))
            BY Zenon, <1>a, AppendJob
        <3>b. OneJob(inbox[w])
            BY Zenon DEF WorkerInv
        <3>2. OneJob(inbox'[w])
            BY Zenon, <3>1, <3>a, <3>b
        <3>3. state'[w] = "busy" /\ task'[w] = None /\ life'[w] = life[w]
            BY Zenon DEF TypeOK, ClaimAndSend
        <3> QED BY Zenon, <2>2, <3>2, <3>3, Sentinels DEF WorkerInv, Early
    <2> QED BY ZenonT(30), <2>1, <2>2
<1> QED BY Zenon, <1>4, <1>5, <1>6, <1>7

\* dispatch to an idle worker keeps it.
LEMMA DispatchIdleKeepsSlotInv ==
    ASSUME SlotInv, NEW w \in Inst, DispatchIdle(w)
    PROVE  SlotInv'
<1> USE DEF SlotInv
<1>1. InPool(w) /\ nextJobId < MaxJobs /\ ClaimAndSend(w) /\ state[w] = "idle"
    BY Zenon DEF DispatchIdle, DispatchCall, First, InPool, Claimable
<1>2. ~Early(w) /\ Quiet(inbox[w]) /\ task[w] = None /\ box[w] = None
    BY Zenon, <1>1 DEF WorkerInv
<1>3. box' = box /\ completed' = completed
    BY Zenon DEF DispatchIdle
<1> QED BY Zenon, <1>1, <1>2, <1>3, ClaimKeepsSlotInv DEF TypeOK

\* Parking changes nothing but the call itself.
LEMMA ParkKeepsSlotInv ==
    ASSUME SlotInv, NEW w \in Inst, InPool(w),
           on' = w, pc' \in {"settle", "drain", "wait"}, want' \in JobIds \cup {None},
           pc' \in {"settle", "drain"} => nextJobId < MaxJobs,
           pc' = "settle" => state[w] = "booting",
           pc' = "drain" => state[w] = "busy",
           pc' = "wait" => want' \in JobIds,
           UNCHANGED <<mainVars, bootVars, served, portVars, isoVars>>
    PROVE  SlotInv'
<1> USE DEF SlotInv, mainVars, bootVars, portVars, isoVars
<1>1. TypeOK'
    BY Zenon DEF TypeOK
<1>2. BootInv'
    BY Zenon DEF BootInv, Joined
<1>3. CallInv'
    BY Zenon DEF CallInv, InPool
<1>4. \A v \in Inst : WorkerInv(v)'
    BY Zenon, WorkerInvFrame
<1> QED BY Zenon, <1>1, <1>2, <1>3, <1>4

\* A dispatch that has to park keeps it.
LEMMA DispatchParksKeepsSlotInv ==
    ASSUME SlotInv, NEW w \in Inst, DispatchBooting(w) \/ DispatchSaturated(w)
    PROVE  SlotInv'
<1>1. InPool(w) /\ nextJobId < MaxJobs /\ want' = want /\ want \in JobIds \cup {None}
    BY Zenon DEF DispatchBooting, DispatchSaturated, DispatchCall, First, InPool, SlotInv, TypeOK
<1>2. on' = w /\ UNCHANGED <<mainVars, bootVars, served, portVars, isoVars>>
    BY Zenon DEF DispatchBooting, DispatchSaturated
<1>3. \/ pc' = "settle" /\ state[w] = "booting"
      \/ pc' = "drain" /\ state[w] = "busy"
    BY Zenon DEF DispatchBooting, DispatchSaturated, First
<1> QED BY Zenon, <1>1, <1>2, <1>3, ParkKeepsSlotInv

\* Taking 'ready' and claiming the worker keeps it.
LEMMA SettleKeepsSlotInv == SlotInv /\ Settle => SlotInv'
<1> SUFFICES ASSUME SlotInv, Settle PROVE SlotInv'
    BY Zenon
<1> USE DEF SlotInv
<1>1. on \in Inst /\ InPool(on) /\ nextJobId < MaxJobs /\ state[on] = "booting" /\ box[on] # None
    BY Zenon DEF CallInv, Settle
<1>2. ~Early(on) /\ Quiet(inbox[on]) /\ task[on] = None /\ box[on] = Ready
    BY Zenon, <1>1 DEF WorkerInv
<1>3. ClaimAndSend(on) /\ completed' = completed /\ box' = [box EXCEPT ![on] = None]
    BY Zenon, <1>2 DEF Settle
<1> QED BY Zenon, <1>1, <1>2, <1>3, ClaimKeepsSlotInv DEF TypeOK

\* Taking an envelope and claiming the worker at once keeps it.
LEMMA DrainKeepsSlotInv == SlotInv /\ Drain => SlotInv'
<1> SUFFICES ASSUME SlotInv, Drain PROVE SlotInv'
    BY Zenon
<1> USE DEF SlotInv
<1>1. on \in Inst /\ InPool(on) /\ nextJobId < MaxJobs /\ state[on] = "busy" /\ box[on] # None
    BY Zenon DEF CallInv, Drain
<1>2. ~Early(on) /\ Quiet(inbox[on]) /\ task[on] = None /\ box[on] \in Envelope
    BY Zenon, <1>1 DEF WorkerInv, TypeOK
<1>3. ClaimAndSend(on) /\ box' = [box EXCEPT ![on] = None]
      /\ completed' = [completed EXCEPT ![box[on].job] = box[on]]
    BY Zenon DEF Drain, Cache
<1>4. completed' \in [JobIds -> Envelope \cup {None}] /\ box' \in [Inst -> Envelope \cup {None, Ready}]
    BY ZenonT(30), <1>2, <1>3 DEF TypeOK, Envelope
<1> QED BY Zenon, <1>1, <1>2, <1>3, <1>4, ClaimKeepsSlotInv DEF TypeOK

\* wait, served from the cache, keeps it.
LEMMA WaitCachedKeepsSlotInv ==
    ASSUME SlotInv, NEW j \in JobIds, WaitCached(j)
    PROVE  SlotInv'
<1> USE DEF SlotInv, bootVars, portVars, isoVars
<1>1. TypeOK'
    BY DEF TypeOK, WaitCached, Forget
<1>2. BootInv'
    BY Zenon DEF BootInv, Joined, WaitCached
<1>3. CallInv'
    BY Zenon DEF CallInv, InPool, WaitCached, Forget, TypeOK
<1>4. \A v \in Inst : WorkerInv(v)'
    BY Zenon, WorkerInvFrame DEF WaitCached
<1> QED BY Zenon, <1>1, <1>2, <1>3, <1>4

\* wait that parks keeps it.
LEMMA WaitPendingKeepsSlotInv ==
    ASSUME SlotInv, NEW j \in JobIds, WaitPending(j)
    PROVE  SlotInv'
<1> DEFINE w == WorkerById(jobs[j])
<1>1. w \in Inst /\ InPool(w)
    BY Zenon, WorkerByIdFound DEF SlotInv, CallInv, WaitPending, Pending, TypeOK
<1>2. /\ on' = w /\ pc' = "wait" /\ want' = j
      /\ UNCHANGED <<mainVars, bootVars, served, portVars, isoVars>>
    BY Zenon DEF WaitPending
<1> HIDE DEF w
<1> QED BY Zenon, <1>1, <1>2, ParkKeepsSlotInv

\* wait that takes a message keeps it, whatever the message.
LEMMA WaitTakeKeepsSlotInv == SlotInv /\ WaitTake => SlotInv'
<1> SUFFICES ASSUME SlotInv, WaitTake PROVE SlotInv'
    BY Zenon
<1> USE DEF SlotInv, bootVars, portVars, isoVars
<1>1. on \in Inst /\ InPool(on) /\ want \in JobIds /\ box[on] # None /\ state[on] # "none"
    BY Zenon DEF CallInv, WaitTake, InPool
<1>2. ~Early(on) /\ Quiet(inbox[on]) /\ task[on] = None
    BY ZenonT(30), <1>1 DEF WorkerInv
<1>3. box[on] # Ready => box[on] \in Envelope /\ box[on].job \in JobIds
    BY Zenon, <1>1 DEF TypeOK, Envelope
<1>4. box' = [box EXCEPT ![on] = None]
      /\ state' = IF box[on] = Ready THEN state ELSE [state EXCEPT ![on] = "idle"]
    BY Zenon DEF WaitTake
<1>5. UNCHANGED <<workers, bootVars, portVars, life, listening, inbox, task,
                  exitPort, booting, booted, nextJobId>>
    BY Zenon DEF WaitTake
<1>a. \/ /\ box[on] # Ready
         /\ completed' = [completed EXCEPT ![box[on].job] = box[on]]
         /\ UNCHANGED <<jobs, pc, on, want, served>>
      \/ /\ jobs' = jobs \/ jobs' = [jobs EXCEPT ![want] = None]
         /\ served' = served \/ served' = [served EXCEPT ![want] = served[want] + 1]
         /\ pc' = "loop" /\ on' = None /\ want' = None
         /\ completed' = completed
    BY Zenon DEF WaitTake, Cache, callVars
<1>6. /\ completed' \in [JobIds -> Envelope \cup {None}]
      /\ jobs' \in [JobIds -> WorkerIds \cup {None}]
      /\ served' \in [JobIds -> Nat]
    <2>1. completed' \in [JobIds -> Envelope \cup {None}]
        BY Zenon, <1>3, <1>a DEF TypeOK
    <2>2. jobs' \in [JobIds -> WorkerIds \cup {None}]
        BY Zenon, <1>1, <1>a DEF TypeOK
    <2>3. served' \in [JobIds -> Nat]
        BY <1>1, <1>a DEF TypeOK
    <2> QED BY Zenon, <2>1, <2>2, <2>3
<1>7. /\ \/ pc' = pc /\ on' = on /\ want' = want
         \/ pc' = "loop" /\ on' = None /\ want' = None
      /\ pc = "wait"
    BY Zenon, <1>a DEF WaitTake
<1>8. TypeOK'
    <2>1. box' \in [Inst -> Envelope \cup {None, Ready}]
          /\ state' \in [Inst -> {"none", "booting", "idle", "busy", "dead"}]
        BY Zenon, <1>1, <1>4 DEF TypeOK
    <2> QED BY Zenon, <2>1, <1>5, <1>6, <1>7 DEF TypeOK
<1>9. BootInv'
    BY Zenon, <1>1, <1>4, <1>5 DEF BootInv, Joined, TypeOK
<1>10. CallInv'
    <2>1. \A j \in JobIds : jobs'[j] # None => jobs[j] = jobs'[j]
        BY Zenon, <1>1, <1>a DEF TypeOK
    <2>2. \A j \in JobIds : jobs'[j] # None => \E k \in DOMAIN workers' : Id(workers'[k]) = jobs'[j]
        BY ZenonT(30), <2>1, <1>5 DEF CallInv
    <2>3. \A k \in DOMAIN workers' : state'[workers'[k]] # "none"
        BY <1>1, <1>4, <1>5 DEF CallInv, TypeOK
    <2>4. pc' # "loop" => on' \in Inst /\ InPool(on)'
        BY Zenon, <1>1, <1>5, <1>7 DEF InPool
    <2> QED BY Zenon, <2>2, <2>3, <2>4, <1>1, <1>7 DEF CallInv
<1>11. ASSUME NEW v \in Inst PROVE WorkerInv(v)'
    <2>1. CASE v # on
        BY Zenon, <2>1, <1>1, <1>4, <1>5, WorkerInvFrame DEF TypeOK
    <2>2. CASE v = on
        BY Zenon, <2>2, <1>1, <1>2, <1>4, <1>5, Sentinels DEF WorkerInv, Early, TypeOK
    <2> QED BY Zenon, <2>1, <2>2
<1> QED BY Zenon, <1>8, <1>9, <1>10, <1>11

\* The exit listener keeps it.
LEMMA WorkerExitKeepsSlotInv ==
    ASSUME SlotInv, NEW w \in Inst, WorkerExit(w)
    PROVE  SlotInv'
<1> USE DEF SlotInv, bootVars, callVars, isoVars
<1> DEFINE d == WorkerById(Id(w))
<1>1. d \in Inst /\ InPool(d)
    BY Zenon, WorkerByIdFound DEF WorkerExit, TypeOK
<1>2. state' = [state EXCEPT ![d] = "dead"] /\ pc = "loop"
    BY Zenon DEF WorkerExit, InLoop
<1> HIDE DEF d
<1>3. TypeOK'
    <2>1. completed' \in [JobIds -> Envelope \cup {None}] /\ jobs' \in [JobIds -> WorkerIds \cup {None}]
        BY Zenon DEF WorkerExit, CompleteJobsOf, ExitError, TypeOK, Envelope
    <2> QED BY ZenonT(30), <2>1, <1>1, <1>2 DEF TypeOK, WorkerExit
<1>4. BootInv'
    <2>1. state[d] # "none"
        BY Zenon, <1>1 DEF CallInv, InPool
    <2> QED BY Zenon, <2>1, <1>1, <1>2 DEF BootInv, Joined, WorkerExit, TypeOK
<1>5. CallInv'
    BY <1>1, <1>2 DEF CallInv, WorkerExit, CompleteJobsOf, TypeOK
<1>6. ASSUME NEW v \in Inst PROVE WorkerInv(v)'
    <2>1. CASE v # d
        BY Zenon, <2>1, <1>1, <1>2, WorkerInvFrame DEF TypeOK, WorkerExit
    <2>2. CASE v = d
        BY Zenon, <2>2, <1>1, <1>2 DEF WorkerInv, Early, TypeOK, WorkerExit
    <2> QED BY Zenon, <2>1, <2>2
<1> QED BY Zenon, <1>3, <1>4, <1>5, <1>6

\* A step of the isolate of w that leaves the pool's own variables alone.
LEMMA IsolateKeepsSlotInv ==
    ASSUME SlotInv, NEW w \in Inst,
           UNCHANGED <<mainVars, bootVars, callVars>>,
           ports' \subseteq Gens, exits' \subseteq Inst,
           life[w] # "unborn", TypeOK',
           \A v \in Inst : v # w => /\ inbox'[v] = inbox[v] /\ life'[v] = life[v]
                                    /\ box'[v] = box[v] /\ task'[v] = task[v],
           WorkerInv(w)'
    PROVE  SlotInv'
<1> USE DEF SlotInv, mainVars, bootVars, callVars
<1>1. BootInv'
    BY Zenon DEF BootInv, Joined
<1>2. CallInv'
    BY Zenon DEF CallInv, InPool
<1>3. ASSUME NEW v \in Inst PROVE WorkerInv(v)'
    BY Zenon, WorkerInvFrame
<1> QED BY ZenonT(30), <1>1, <1>2, <1>3

\* The handshake of an isolate, and its 'ready', keep it.
LEMMA GreetKeepsSlotInv ==
    ASSUME SlotInv, NEW w \in Inst, Greet(w) \/ PutReady(w)
    PROVE  SlotInv'
<1> USE DEF Greet, PutReady, portVars
<1>1. TypeOK'
    BY ZenonT(30) DEF SlotInv, TypeOK, mainVars, bootVars, callVars
<1>2. WorkerInv(w)'
    <2>1. WorkerInv(w) /\ Early(w)
        BY Zenon DEF SlotInv, Early
    <2>2. /\ inbox'[w] = inbox[w] /\ task'[w] = task[w] /\ state'[w] = state[w]
          /\ \/ life[w] = "spawned" /\ life'[w] = "greeted" /\ box'[w] = box[w]
             \/ life[w] = "greeted" /\ life'[w] = "up" /\ box'[w] = Ready
        BY Zenon DEF SlotInv, TypeOK, mainVars
    <2> QED BY Zenon, <2>1, <2>2, Sentinels DEF WorkerInv, Early
<1> QED BY ZenonT(30), <1>1, <1>2, IsolateKeepsSlotInv DEF SlotInv, TypeOK

\* Receiving a job keeps it.
LEMMA ReceiveKeepsSlotInv ==
    ASSUME SlotInv, NEW w \in Inst, Receive(w)
    PROVE  SlotInv'
<1> USE DEF SlotInv, portVars
<1>1. inbox[w] \in Seq(JobIds \cup {Shutdown}) /\ inbox[w] # << >> /\ Head(inbox[w]) # Shutdown
    BY Zenon DEF TypeOK, Receive
<1>2. Head(inbox[w]) \in JobIds /\ Tail(inbox[w]) \in Seq(JobIds \cup {Shutdown})
    BY <1>1
<1>3. OneJob(Tail(inbox[w])) /\ Quiet(Tail(inbox[w]))
    BY Zenon, <1>1, TakeHead DEF WorkerInv
<1>4. /\ task' = [task EXCEPT ![w] = Head(inbox[w])]
      /\ inbox' = [inbox EXCEPT ![w] = Tail(inbox[w])]
      /\ UNCHANGED <<mainVars, bootVars, callVars, portVars, life, listening, box>>
      /\ life[w] = "up"
    BY Zenon DEF Receive
<1>5. TypeOK'
    BY Zenon, <1>2, <1>4 DEF TypeOK, mainVars, bootVars, callVars
<1>6. ~Quiet(inbox[w])
    BY <1>1 DEF Quiet
<1>7. WorkerInv(w)'
    <2>1. inbox'[w] = Tail(inbox[w]) /\ task'[w] = Head(inbox[w]) /\ box'[w] = box[w]
          /\ life'[w] = life[w] /\ state'[w] = state[w]
        BY Zenon, <1>4 DEF TypeOK, mainVars
    <2>2. box[w] = None /\ state[w] \notin {"none", "booting", "idle"}
        BY Zenon, <1>6 DEF WorkerInv
    <2> QED BY Zenon, <1>3, <1>4, <2>1, <2>2, Sentinels DEF WorkerInv, Early
<1> QED BY ZenonT(30), <1>4, <1>5, <1>7, IsolateKeepsSlotInv DEF TypeOK

\* Putting an envelope keeps it, and never finds the slot taken.
LEMMA CompleteKeepsSlotInv ==
    ASSUME SlotInv, NEW w \in Inst, NEW ok \in BOOLEAN, Complete(w, ok)
    PROVE  SlotInv'
<1> USE DEF SlotInv, portVars
<1> DEFINE e == [job |-> task[w], ok |-> ok]
<1>1. task[w] \in JobIds /\ task[w] # None /\ Quiet(inbox[w]) /\ life[w] = "up" /\ box[w] = None
    BY Zenon DEF Complete, TypeOK, WorkerInv
<1>2. /\ box' = [box EXCEPT ![w] = e]
      /\ task' = [task EXCEPT ![w] = None]
      /\ UNCHANGED <<mainVars, bootVars, callVars, portVars, life, listening, inbox>>
    BY Zenon, <1>1 DEF Complete
<1>3. e \in Envelope
    BY Zenon, <1>1 DEF Envelope
<1> HIDE DEF e
<1>4. TypeOK'
    BY Zenon, <1>2, <1>3 DEF TypeOK, mainVars, bootVars, callVars
<1>5. WorkerInv(w)'
    <2>1. inbox'[w] = inbox[w] /\ task'[w] = None /\ box'[w] = e
          /\ life'[w] = life[w] /\ state'[w] = state[w]
        BY Zenon, <1>2 DEF TypeOK, mainVars
    <2>2. state[w] \notin {"none", "booting", "idle"}
        BY Zenon, <1>1 DEF WorkerInv
    <2> QED BY Zenon, <1>1, <1>3, <2>1, <2>2, Sentinels DEF WorkerInv, Early
<1> QED BY ZenonT(30), <1>1, <1>2, <1>4, <1>5, IsolateKeepsSlotInv DEF TypeOK

\* An isolate that returns from its loop or crashes keeps it.
LEMMA ReturnKeepsSlotInv ==
    ASSUME SlotInv, NEW w \in Inst, Return(w) \/ Crash(w)
    PROVE  SlotInv'
<1> USE DEF SlotInv, portVars
<1>1. inbox[w] \in Seq(JobIds \cup {Shutdown}) /\ life[w] = "up"
    BY Zenon DEF TypeOK, Return, Crash
<1>2. \/ inbox' = inbox
      \/ inbox[w] # << >> /\ inbox' = [inbox EXCEPT ![w] = Tail(inbox[w])]
    BY ZenonT(30) DEF Return, Crash
<1>3. /\ task' = task \/ task' = [task EXCEPT ![w] = None]
      /\ \/ life' = [life EXCEPT ![w] = "exited"]
         \/ life' = [life EXCEPT ![w] = "returned"]
      /\ ports' = ports /\ exits' \subseteq exits \cup {w}
      /\ UNCHANGED <<mainVars, bootVars, callVars, listening, box>>
    BY Zenon DEF Return, Crash, Unwind, Terminate
<1>4. task'[w] = None
    BY ZenonT(40), <1>3 DEF Return, Crash, Terminate, TypeOK
<1>5. inbox'[w] \in Seq(JobIds \cup {Shutdown})
      /\ (Quiet(inbox[w]) => Quiet(inbox'[w])) /\ OneJob(inbox'[w])
    <2>1. CASE inbox' = inbox
        BY Zenon, <2>1, <1>1 DEF WorkerInv
    <2>2. CASE inbox[w] # << >> /\ inbox' = [inbox EXCEPT ![w] = Tail(inbox[w])]
        <3>1. inbox'[w] = Tail(inbox[w]) /\ OneJob(inbox[w])
            BY Zenon, <2>2 DEF TypeOK, WorkerInv
        <3> QED BY <3>1, <2>2, <1>1, TakeHead
    <2> QED BY ZenonT(30), <2>1, <2>2, <1>2
<1>6. TypeOK'
    <2>1. inbox' \in [Inst -> Seq(JobIds \cup {Shutdown})]
        BY Zenon, <1>2, <1>5 DEF TypeOK
    <2> QED BY Zenon, <2>1, <1>3 DEF TypeOK, mainVars, bootVars, callVars
<1>7. WorkerInv(w)'
    <2>1. life'[w] \in {"exited", "returned"} /\ box'[w] = box[w] /\ state'[w] = state[w]
        BY Zenon, <1>3 DEF TypeOK, mainVars
    <2> QED BY ZenonT(30), <1>4, <1>5, <2>1 DEF WorkerInv, Early
<1>8. \A v \in Inst : v # w => /\ inbox'[v] = inbox[v] /\ life'[v] = life[v]
                               /\ box'[v] = box[v] /\ task'[v] = task[v]
    BY ZenonT(40), <1>2, <1>3 DEF TypeOK
<1> QED BY ZenonT(30), <1>1, <1>3, <1>6, <1>7, <1>8, IsolateKeepsSlotInv DEF TypeOK

\* Every step of the pool keeps the invariant.
LEMMA SlotInvStep == SlotInv /\ [Next]_vars => SlotInv'
<1> SUFFICES ASSUME SlotInv, [Next]_vars PROVE SlotInv'
    BY Zenon
<1>1. CASE Main
    BY Zenon, <1>1, BootKeepsSlotInv, BootSpawnedKeepsSlotInv, BootHandshakeKeepsSlotInv,
       DisposeKeepsSlotInv, DispatchIdleKeepsSlotInv, DispatchParksKeepsSlotInv,
       SettleKeepsSlotInv, DrainKeepsSlotInv, WaitCachedKeepsSlotInv,
       WaitPendingKeepsSlotInv, WaitTakeKeepsSlotInv, WorkerExitKeepsSlotInv DEF Main
<1>2. CASE \E w \in Inst : Worker(w) \/ Crash(w)
    BY Zenon, <1>2, GreetKeepsSlotInv, ReceiveKeepsSlotInv, CompleteKeepsSlotInv,
       ReturnKeepsSlotInv DEF Worker
<1>3. CASE UNCHANGED vars
    <2> USE <1>3 DEF vars, mainVars, bootVars, callVars, portVars, isoVars
    <2>1. TypeOK'
        BY Zenon DEF SlotInv, TypeOK
    <2>2. BootInv' /\ CallInv'
        BY Zenon DEF SlotInv, BootInv, CallInv, Joined, InPool
    <2>3. \A w \in Inst : WorkerInv(w)'
        BY Zenon, WorkerInvFrame DEF SlotInv
    <2> QED BY Zenon, <2>1, <2>2, <2>3 DEF SlotInv
<1> QED BY Zenon, <1>1, <1>2, <1>3 DEF Next

-----------------------------------------------------------------------------
\* SlotInv holds in every reachable state of the pool.
THEOREM SlotInvariant == Spec => []SlotInv
<1> QED BY SlotInvInit, SlotInvStep, PTL DEF Spec

\* The variables of the pool keep their types: in particular job ids are never
\* used beyond the bound, and every message in a mailbox or inbox is of a kind
\* its reader knows.
THEOREM TypeCorrectness == Spec => []TypeOK
<1>1. SlotInv => TypeOK
    BY Zenon DEF SlotInv
<1> QED BY <1>1, SlotInvariant, PTL

\* No worker ever puts a message into a mailbox whose slot is taken, for any
\* number of workers, jobs and boots and under every fault of the model, a
\* dispose in the middle of a boot included.
THEOREM SlotSafety == Spec => []PutFindsEmptySlot
<1>1. SlotInv => PutFindsEmptySlot
    BY Zenon DEF SlotInv, WorkerInv, PutFindsEmptySlot, Early
<1> QED BY <1>1, SlotInvariant, PTL

=============================================================================
