------------------------ MODULE AsyncEnginePoolLedger ------------------------
(***************************************************************************)
(* The results about AsyncEnginePool that rest on all of its invariants:   *)
(* marked workers have exited, no job is lost, and the pool implements     *)
(* JobLedger.                                                              *)
(***************************************************************************)
EXTENDS AsyncEnginePoolProofs, AsyncEnginePoolJobs, FiniteSetTheorems

\* The time a leaf may take.
USE SMTT(30)

\* The pool of a program that does not call dispose during a boot keeps the
\* three invariants together.
THEOREM PoolInvariant ==
    ASSUME NoMidBoot
    PROVE  Spec => []PoolInv
<1>1. Init => PoolInv
    BY Zenon, SlotInvInit, LifecycleInvInit, JobInvInit DEF PoolInv
<1>2. PoolInv /\ [Next]_vars => PoolInv'
    BY Zenon, SlotInvStep, LifecycleInvStep, JobInvStep DEF PoolInv
<1> QED
    BY <1>1, <1>2, PTL DEF Spec

\* A worker that is marked dead has exited: the exit message of an earlier
\* boot's isolate, whose worker had the same id, never reaches _onWorkerExit
\* after dispose and a new boot.
THEOREM DeadWorkersExited ==
    ASSUME NoMidBoot
    PROVE  Spec => []DeadMeansExited
<1>1. PoolInv => DeadMeansExited
    BY Zenon DEF PoolInv, JobInv, DeadMeansExited
<1> QED
    BY <1>1, PoolInvariant, PTL

\* What a parked call finds in the mailbox is what it parked for.
LEMMA TakenMessageFits == PoolInv => MessageFitsCall
<1> SUFFICES ASSUME SlotInv, LifecycleInv, JobInv, pc # "loop", box[on] # None
             PROVE  /\ (pc = "settle") <=> (box[on] = Ready)
                    /\ pc = "drain" => Pending(box[on].job) /\ jobs[box[on].job] = Id(on)
                    /\ pc = "wait" => box[on].job = want
    BY Zenon DEF PoolInv, MessageFitsCall
<1>1. CASE pc = "settle"
    <2>1. on \in Inst /\ state[on] = "booting" /\ WorkerInv(on)
        BY Zenon, <1>1 DEF SlotInv, CallInv
    <2>2. box[on] = Ready
        BY Zenon, <2>1 DEF WorkerInv, Early, OneJob, Quiet
    <2> QED
        BY Zenon, <1>1, <2>2
<1>2. CASE pc = "drain"
    BY Zenon, <1>2, DrainTakes, Sentinels
<1>3. CASE pc = "wait"
    BY Zenon, <1>3, WaitTakes, Sentinels
<1> QED
    BY Zenon, <1>1, <1>2, <1>3 DEF SlotInv, TypeOK

\* When no dispatch fails between recording the job and sending it, every
\* parked call takes the message meant for it and no job of a live worker is
\* lost: with any number of workers, jobs, boots and crashes, a job that is
\* recorded and not answered is in its worker's inbox, running or in its
\* mailbox.
THEOREM NoJobIsLost ==
    ASSUME NoMidBoot, "badContext" \notin Faults
    PROVE  Spec => []JobsAccountedFor
<1>1. Init => HeldInv
    BY Zenon DEF Init, HeldInv, Pending
<1>2. PoolInv /\ HeldInv /\ [Next]_vars => HeldInv'
    BY Zenon, HeldInvStep DEF PoolInv
<1>3. PoolInv /\ HeldInv => PendingJobIsHeld
    BY Zenon, PendingWorker DEF PoolInv, HeldInv, PendingJobIsHeld
<1>4. PoolInv /\ HeldInv => JobsAccountedFor
    BY Zenon, <1>3, TakenMessageFits DEF JobsAccountedFor
<1> QED
    BY <1>1, <1>2, <1>4, PoolInvariant, PTL DEF Spec

-----------------------------------------------------------------------------
(* The pool implements the ledger.                                         *)

\* What a step does to the statuses, in terms of the records.
LEMMA StatusInit == Init => Ledger!Init
BY DEF Init, Ledger!Init, Status, JobIds

\* A step that keeps the records keeps the ledger.
LEMMA StatusFrame ==
    ASSUME UNCHANGED <<jobs, completed, nextJobId, served>>
    PROVE  UNCHANGED <<[j \in JobIds |-> Status(j)], served>>
BY Zenon DEF Status

\* The statuses, read off the records.
LEMMA StatusIs ==
    ASSUME SlotInv, JobInv, NEW j \in JobIds
    PROVE  /\ Status(j) = "unissued" <=> j >= nextJobId
           /\ Status(j) = "pending" <=> Pending(j)
           /\ Status(j) = "answered" <=> completed[j] # None
BY Zenon DEF Status, Pending, JobInv

\* The ledger counts as this module does.
LEMMA LedgerCounts == \A S : Ledger!Cardinality(S) = Cardinality(S)
BY Zenon DEF Ledger!Cardinality, Cardinality

\* At most N - 1 workers other than w have a pending job, and each has one.
LEMMA RoomForOne ==
    ASSUME SlotInv, LifecycleInv, JobInv, NEW w \in Inst
    PROVE  LET P == {j \in JobIds : Pending(j) /\ jobs[j] # Id(w)}
           IN  IsFiniteSet(P) /\ Cardinality(P) < N
<1> DEFINE P == {j \in JobIds : Pending(j) /\ jobs[j] # Id(w)}
           T == WorkerIds \ {Id(w)}
           f == [j \in P |-> jobs[j]]
<1>1. N \in Nat \ {0} /\ Id(w) \in WorkerIds
    BY Zenon, PoolConstants DEF Inst, Id
<1>2. IsFiniteSet(WorkerIds) /\ Cardinality(WorkerIds) = N
    BY <1>1, FS_Interval DEF WorkerIds
<1>3. IsFiniteSet(T) /\ Cardinality(T) = N - 1
    BY Zenon, <1>1, <1>2, FS_RemoveElement
<1>4. f \in Injection(P, T)
    <2>1. \A j \in P : jobs[j] \in T
        BY Zenon DEF SlotInv, TypeOK, Pending
    <2>2. \A i, j \in P : f[i] = f[j] => i = j
        BY Zenon DEF JobInv
    <2> QED
        BY Zenon, <2>1, <2>2 DEF Injection, IsInjective
<1>5. IsFiniteSet(P) /\ Cardinality(P) <= Cardinality(T)
    <2> HIDE DEF P, T, f
    <2> QED
        BY Zenon, <1>3, <1>4, FS_Injection
<1>6. Cardinality(P) \in Nat
    BY Zenon, <1>5, FS_CardinalityType
<1> QED
    BY <1>1, <1>3, <1>5, <1>6

\* A dispatch issues the next id; A is what it collects from the worker it takes.
LEMMA DispatchIssues ==
    ASSUME SlotInv, LifecycleInv, JobInv, NEW w \in Inst, ClaimAndSend(w),
           nextJobId < MaxJobs, NEW A \in SUBSET JobIds,
           \A j \in JobIds : j \in A <=> Pending(j) /\ jobs[j] = Id(w),
           Cardinality(A) <= 1,
           \A j \in JobIds : IF j \in A THEN completed'[j] # None ELSE completed'[j] = completed[j]
    PROVE  nextJobId \in JobIds /\ Ledger!Issue(nextJobId, A)
<1> DEFINE st == [j \in JobIds |-> Status(j)]
           P == {j \in JobIds : Pending(j) /\ jobs[j] # Id(w)}
<1>1. nextJobId \in JobIds /\ nextJobId \in Nat
    BY PoolConstants DEF SlotInv, TypeOK, JobIds
<1>2. st[nextJobId] = "unissued" /\ \A i \in Ledger!Having("unissued") : nextJobId <= i
    BY <1>1, StatusIs DEF Ledger!Having, SlotInv, TypeOK, JobIds
<1>3. \A j \in JobIds : j \in Ledger!Having("pending") <=> Pending(j)
    BY Zenon, StatusIs DEF Ledger!Having
<1>4. A \subseteq Ledger!Having("pending") /\ Ledger!Having("pending") \ A = P
    BY Zenon, <1>3 DEF Ledger!Having
<1>5. Cardinality(Ledger!Having("pending") \ A) < N
    BY Zenon, <1>4, RoomForOne
<1>6. st' = [Ledger!Moved(A, "answered") EXCEPT ![nextJobId] = "pending"]
    <2>1. ASSUME NEW j \in JobIds
          PROVE  Status(j)' = IF j = nextJobId THEN "pending"
                              ELSE IF j \in A THEN "answered" ELSE Status(j)
        <3>1. /\ nextJobId' = nextJobId + 1
              /\ jobs' = [jobs EXCEPT ![nextJobId] = Id(w)]
            BY Zenon DEF ClaimAndSend
        <3>2. j = nextJobId => jobs'[j] # None /\ completed'[j] = None
            BY <1>1, <3>1, Sentinels DEF JobInv, SlotInv, TypeOK, Inst, Id, WorkerIds, Pending
        <3>3. j # nextJobId => jobs'[j] = jobs[j]
            BY Zenon, <3>1 DEF SlotInv, TypeOK
        <3>4. j \in A => j < nextJobId
            BY <1>1 DEF JobInv, Pending, JobIds
        <3> QED
            BY <1>1, <3>1, <3>2, <3>3, <3>4 DEF Status, JobIds
    <2> QED
        BY Zenon, <1>1, <2>1 DEF Ledger!Moved
<1>7. served' = served
    BY Zenon DEF ClaimAndSend
<1> QED
    BY ZenonT(40), <1>1, <1>2, <1>4, <1>5, <1>6, <1>7, LedgerCounts DEF Ledger!Issue

\* A step that closes or answers the jobs of S.
LEMMA StatusMoves ==
    ASSUME NEW S \in SUBSET JobIds, NEW s,
           \A j \in JobIds : Status(j)' = IF j \in S THEN s ELSE Status(j)
    PROVE  [j \in JobIds |-> Status(j)]' = Ledger!Moved(S, s)
BY Zenon DEF Ledger!Moved

\* dispose closes what was open.
LEMMA DisposeResets ==
    ASSUME SlotInv, JobInv, Dispose
    PROVE  Ledger!Reset
<1> DEFINE S == Ledger!Having("pending") \cup Ledger!Having("answered")
<1>1. /\ \A j \in JobIds : jobs'[j] = None /\ completed'[j] = None
      /\ nextJobId' = nextJobId /\ served' = served
    BY Zenon DEF Dispose, ForgetJobs, callVars
<1>2. S \in SUBSET JobIds
    BY Zenon DEF Ledger!Having
<1>3. \A j \in JobIds : Status(j)' = IF j \in S THEN "closed" ELSE Status(j)
    BY Zenon, <1>1 DEF Ledger!Having, Status
<1> QED
    BY Zenon, <1>1, <1>2, <1>3, StatusMoves DEF Ledger!Reset

\* wait serves the job it is for, from the cache or from the mailbox.
LEMMA WaitServes ==
    ASSUME SlotInv, LifecycleInv, JobInv, NEW i \in JobIds,
           WaitCached(i) \/ (WaitTake /\ want = i)
    PROVE  Ledger!Serve(i)
<1>1. /\ Pending(i) \/ completed[i] # None
      /\ jobs' = [jobs EXCEPT ![i] = None] /\ nextJobId' = nextJobId
      /\ served' = [served EXCEPT ![i] = served[i] + 1]
      /\ \A j \in JobIds : completed'[j] = IF j = i THEN None ELSE completed[j]
    <2>1. CASE WaitCached(i)
        BY Zenon, <2>1 DEF WaitCached, Forget, SlotInv, TypeOK
    <2>2. CASE WaitTake /\ want = i
        BY Zenon, <2>2, WaitTakeKeepsJobInv DEF Pending
    <2> QED
        BY Zenon, <2>1, <2>2
<1>2. \A j \in JobIds : Status(j)' = IF j \in {i} THEN "closed" ELSE Status(j)
    <2>1. i < nextJobId
        BY <1>1 DEF JobInv, Pending, JobIds, SlotInv, TypeOK
    <2> QED
        BY <1>1, <2>1 DEF Status, SlotInv, TypeOK, JobIds
<1>3. Status(i) \in {"pending", "answered"}
    BY Zenon, <1>1, StatusIs
<1> QED
    BY Zenon, <1>1, <1>2, <1>3, StatusMoves DEF Ledger!Serve

\* The exit listener answers the job of the worker, if it has one.
LEMMA ExitAnswers ==
    ASSUME SlotInv, LifecycleInv, JobInv, NEW w \in Inst, WorkerExit(w)
    PROVE  \/ \E i \in JobIds : Ledger!Answer(i)
           \/ UNCHANGED <<[j \in JobIds |-> Status(j)], served>>
<1>1. /\ \A j \in JobIds : jobs'[j] = IF jobs[j] = Id(w) THEN None ELSE jobs[j]
      /\ \A j \in JobIds : jobs[j] = Id(w) => completed'[j] # None
      /\ \A j \in JobIds : jobs[j] # Id(w) => completed'[j] = completed[j]
      /\ UNCHANGED <<nextJobId, served>>
    <2>1. \A j \in JobIds : ExitError(j) \in Envelope
        BY Zenon DEF ExitError, Envelope
    <2> QED
        BY Zenon, <2>1, Sentinels DEF WorkerExit, CompleteJobsOf, callVars
<1>2. \A j \in JobIds : Status(j)' = IF Pending(j) /\ jobs[j] = Id(w) THEN "answered" ELSE Status(j)
    <2> SUFFICES ASSUME NEW j \in JobIds
                 PROVE  Status(j)' = IF Pending(j) /\ jobs[j] = Id(w) THEN "answered" ELSE Status(j)
        BY Zenon
    <2>1. CASE jobs[j] = Id(w)
        <3>1. jobs[j] # None
            BY <2>1, Sentinels DEF Inst, Id, WorkerIds
        <3>2. ~(j >= nextJobId)
            BY Zenon, <3>1 DEF JobInv
        <3> QED
            BY Zenon, <1>1, <2>1, <3>1, <3>2 DEF Status, Pending
    <2>2. CASE jobs[j] # Id(w)
        BY Zenon, <1>1, <2>2 DEF Status
    <2> QED
        BY Zenon, <2>1, <2>2
<1>3. CASE \E i \in JobIds : Pending(i) /\ jobs[i] = Id(w)
    <2>1. PICK i \in JobIds : Pending(i) /\ jobs[i] = Id(w)
        BY Zenon, <1>3
    <2>2. \A j \in JobIds : Pending(j) /\ jobs[j] = Id(w) => j = i
        BY Zenon, <2>1 DEF JobInv
    <2>3. \A j \in JobIds : Status(j)' = IF j \in {i} THEN "answered" ELSE Status(j)
        BY Zenon, <1>2, <2>1, <2>2
    <2>4. Status(i) = "pending"
        BY Zenon, <2>1, StatusIs
    <2> QED
        BY Zenon, <1>1, <2>3, <2>4, StatusMoves DEF Ledger!Answer
<1>4. CASE ~\E i \in JobIds : Pending(i) /\ jobs[i] = Id(w)
    BY Zenon, <1>1, <1>2, <1>4
<1> QED
    BY Zenon, <1>3, <1>4

\* Every step of the pool is a step of the ledger or leaves it alone.
LEMMA LedgerStep ==
    ASSUME SlotInv, LifecycleInv, JobInv, [Next]_vars
    PROVE  [Ledger!Next]_<<[j \in JobIds |-> Status(j)], served>>
<1> DEFINE Kept == UNCHANGED <<[j \in JobIds |-> Status(j)], served>>
<1>1. ASSUME NEW w \in Inst, DispatchIdle(w) \/ (Settle /\ on = w)
      PROVE  Ledger!Next
    <2>1. /\ ClaimAndSend(w) /\ completed' = completed /\ nextJobId < MaxJobs
          /\ \A j \in JobIds : Pending(j) => jobs[j] # Id(w)
        BY Zenon, <1>1, DispatchKeepsJobInv
    <2>2. Cardinality({}) <= 1
        BY FS_EmptySet
    <2>3. nextJobId \in JobIds /\ Ledger!Issue(nextJobId, {})
        BY Zenon, <2>1, <2>2, DispatchIssues
    <2> QED
        BY Zenon, <2>3 DEF Ledger!Next
<1>2. CASE Drain
    <2> DEFINE i == box[on].job
    <2>1. /\ on \in Inst /\ box[on] \in Envelope /\ i \in JobIds
          /\ Pending(i) /\ jobs[i] = Id(on) /\ nextJobId < MaxJobs
        BY Zenon, <1>2, DrainTakes DEF Drain
    <2>2. \A j \in JobIds : j \in {i} <=> Pending(j) /\ jobs[j] = Id(on)
        BY Zenon, <2>1 DEF JobInv
    <2>3. \A j \in JobIds : IF j \in {i} THEN completed'[j] # None ELSE completed'[j] = completed[j]
        BY Zenon, <1>2, <2>1, Sentinels DEF Drain, Cache, SlotInv, TypeOK
    <2> HIDE DEF i
    <2>4. Cardinality({i}) <= 1
        <3>1. Cardinality({i}) = 1
            BY Zenon, FS_Singleton
        <3> QED
            BY <3>1
    <2>5. ClaimAndSend(on)
        BY Zenon, <1>2 DEF Drain
    <2>6. nextJobId \in JobIds /\ Ledger!Issue(nextJobId, {i})
        BY Zenon, <2>1, <2>2, <2>3, <2>4, <2>5, DispatchIssues
    <2> QED
        BY Zenon, <2>1, <2>6 DEF Ledger!Next
<1>3. CASE Dispose
    BY Zenon, <1>3, DisposeResets DEF Ledger!Next
<1>4. ASSUME NEW j \in JobIds, WaitCached(j) \/ (WaitTake /\ want = j) PROVE Ledger!Next
    BY Zenon, <1>4, WaitServes DEF Ledger!Next
<1>5. CASE WaitTake
    BY Zenon, <1>5, <1>4, WaitTakeKeepsJobInv
<1>6. ASSUME NEW w \in Inst, WorkerExit(w) PROVE Ledger!Next \/ Kept
    BY Zenon, <1>6, ExitAnswers DEF Ledger!Next
<1>7. CASE Settle
    BY Zenon, <1>7, <1>1 DEF Settle, SlotInv, CallInv
<1>8. CASE Boot
    BY Zenon, <1>8, StatusFrame DEF Boot, callVars
<1>9. ASSUME NEW g \in Gens, BootSpawned(g) \/ BootHandshake(g) PROVE Kept
    BY Zenon, <1>9, StatusFrame DEF BootSpawned, BootHandshake, callVars, mainVars
<1>10. ASSUME NEW w \in Inst, DispatchBooting(w) \/ DispatchSaturated(w) PROVE Kept
    BY Zenon, <1>10, StatusFrame DEF DispatchBooting, DispatchSaturated, mainVars
<1>11. ASSUME NEW j \in JobIds, WaitPending(j) PROVE Kept
    BY Zenon, <1>11, StatusFrame DEF WaitPending, mainVars
<1>12. ASSUME NEW w \in Inst, Worker(w) \/ Crash(w) PROVE Kept
    <2>1. UNCHANGED <<jobs, completed, nextJobId, served>>
        BY Zenon, <1>12, IsolateHolds DEF Worker
    <2> QED
        BY Zenon, <2>1, StatusFrame
<1>13. CASE UNCHANGED vars
    BY Zenon, <1>13, StatusFrame DEF vars, mainVars, callVars
<1> QED
    BY ZenonT(40), <1>1, <1>2, <1>3, <1>4, <1>5, <1>6, <1>7, <1>8, <1>9, <1>10, <1>11, <1>12, <1>13 DEF Next, Main

\* The pool implements the ledger of jobs, for any number of workers, jobs and
\* boots and under every fault except a dispose in the middle of a boot: ids
\* are issued in order and once, at most N jobs are unanswered at any time, an
\* answer is served to one wait, and a served or disposed id stays closed.
THEOREM PoolImplementsLedger ==
    ASSUME NoMidBoot
    PROVE  Spec => ImplementsLedger
<1>1. PoolInv /\ [Next]_vars => [Ledger!Next]_<<[j \in JobIds |-> Status(j)], served>>
    BY Zenon, LedgerStep DEF PoolInv
<1> QED
    BY <1>1, StatusInit, PoolInvariant, PTL DEF Spec, ImplementsLedger, Ledger!Spec
=============================================================================
