------------------------ MODULE ParallelWorkerProofs ------------------------
(***************************************************************************)
(* The barriers of analyze_funcs() hold for every number of workers, parse *)
(* jobs and threads.  wait_all_idle() looks at one worker at a time, so    *)
(* the invariant says why a worker it has passed stays idle (Settled),     *)
(* that a job that was added is in its worker's queue, in its hand or done *)
(* (Accounted), and that the phases that are over are done (PhasesDone).   *)
(***************************************************************************)
EXTENDS ParallelWorker, SequenceTheorems, TLAPS

IdlePC == {"idle_lock", "idle_pred", "idle_block", "idle_wait", "idle_relock"}
StopPC == {"stop_set", "stop_lock", "stop_pred", "close_block", "close_wait",
           "close_relock", "delete", "exited"}

InSeq(j, s) == \E i \in 1..Len(s) : s[i] = j

(* The worker a job goes to, and the places where it can be *)
WorkerOf(j) == j[2] % PoolSize
DoneJob(j) == InSeq(j, done[WorkerOf(j)])
AtWorker(j) ==
  \/ DoneJob(j)
  \/ wpc[WorkerOf(j)] = "exec" /\ job_doing[WorkerOf(j)] = j
  \/ InSeq(j, jobs[WorkerOf(j)])

DoingJob == \A w \in Worker : wpc[w] = "exec" => job_doing[w] \in Job /\ job_doing[w][1] <= phase
QueueOld == \A w \in Worker : \A i \in 1..Len(jobs[w]) : jobs[w][i][1] <= phase
Cursor ==
  /\ mpc = "start" => phase = 1 /\ next = 0
  /\ mpc = "add" => next <= JobCount(phase)
  /\ mpc \in IdlePC => next = JobCount(phase)
  /\ mpc \in StopPC => phase = 3
Settled ==
  mpc \in IdlePC => \A w \in Worker : w < cur => jobs[w] = <<>> /\ wpc[w] # "exec"
Accounted == \A n \in Nat : n < next => AtWorker(<<phase, n>>)
PhasesDone ==
  /\ \A p \in Phases : p < phase => \A n \in Nat : n < JobCount(p) => DoneJob(<<p, n>>)
  /\ mpc \in StopPC => \A n \in Nat : n < JobCount(3) => DoneJob(<<3, n>>)

PoolInv == TypeOK /\ DoingJob /\ QueueOld /\ Cursor /\ Settled /\ Accounted /\ PhasesDone

-----------------------------------------------------------------------------
(* add_job() picks an existing worker. *)
LEMMA WorkerExists == \A n \in Nat : n % PoolSize \in Worker
BY PoolAssumption DEF Worker

(* The number of jobs of a phase is a number. *)
LEMMA JobCountNat == ASSUME TypeOK, NEW p \in Phases PROVE JobCount(p) \in Nat
BY PoolAssumption DEF TypeOK, Phases, JobCount

(* A queue holds what was pushed and what it held before. *)
LEMMA InAppend ==
  ASSUME NEW S, NEW s \in Seq(S), NEW x \in S, NEW j
  PROVE  InSeq(j, Append(s, x)) <=> InSeq(j, s) \/ j = x
BY DEF InSeq

(* front() and pop() of a queue lose nothing. *)
LEMMA InTail ==
  ASSUME NEW S, NEW s \in Seq(S), s # <<>>, NEW j
  PROVE  InSeq(j, s) <=> j = Head(s) \/ InSeq(j, Tail(s))
<1>1. InSeq(j, s) => j = Head(s) \/ InSeq(j, Tail(s))
  <2>. SUFFICES ASSUME NEW i \in 1..Len(s), s[i] = j, i # 1 PROVE InSeq(j, Tail(s))
    BY DEF InSeq
  <2>1. i - 1 \in 1..Len(Tail(s)) /\ Tail(s)[i - 1] = j
    OBVIOUS
  <2>. QED
    BY <2>1, Zenon DEF InSeq
<1>2. j = Head(s) => InSeq(j, s)
  BY DEF InSeq
<1>3. InSeq(j, Tail(s)) => InSeq(j, s)
  <2>. SUFFICES ASSUME NEW i \in 1..Len(Tail(s)), Tail(s)[i] = j PROVE InSeq(j, s)
    BY Zenon DEF InSeq
  <2>1. i + 1 \in 1..Len(s) /\ s[i + 1] = j
    OBVIOUS
  <2>. QED
    BY <2>1, Zenon DEF InSeq
<1>. QED
  BY <1>1, <1>2, <1>3, Zenon

-----------------------------------------------------------------------------
(* Type correctness of the worker's steps *)
LEMMA RunType ==
  ASSUME TypeOK, DoingJob, NEW w \in Worker, Run(w) \/ RunSpurious(w)
  PROVE  TypeOK'
<1>. USE DEF TypeOK, mainVars
<1>1. CASE RunTest(w) \/ RunNoJob(w) \/ RunWoken(w) \/ RunSpurious(w)
  BY <1>1, Zenon DEF RunTest, RunNoJob, RunWoken, RunSpurious, WorkerPC
<1>2. CASE RunReset(w)
  BY <1>2, Zenon DEF RunReset, WorkerPC
<1>3. CASE RunExit(w)
  BY <1>3, Zenon DEF RunExit, WorkerPC
<1>4. CASE RunLock(w)
  BY <1>4, Zenon DEF RunLock, WorkerPC, MainPC
<1>5. CASE RunBlock(w)
  BY <1>5, Zenon DEF RunBlock, WorkerPC
<1>6. CASE RunRelock(w)
  BY <1>6, Zenon DEF RunRelock, WorkerPC
<1>7. CASE RunBreak(w)
  BY <1>7, Zenon DEF RunBreak, WorkerPC
<1>8. CASE RunTake(w)
  BY <1>8 DEF RunTake, WorkerPC
<1>9. CASE RunExec(w)
  <2>1. job_doing[w] \in Job
    BY <1>9, Zenon DEF DoingJob, RunExec
  <2>. QED
    BY <1>9, <2>1 DEF RunExec, WorkerPC
<1>10. CASE RunNotify(w)
  BY <1>10, Zenon DEF RunNotify, WorkerPC, MainPC
<1>. HIDE DEF TypeOK
<1>. QED
  BY <1>1, <1>2, <1>3, <1>4, <1>5, <1>6, <1>7, <1>8, <1>9, <1>10, Zenon DEF Run

(* Type correctness of the main thread's steps *)
LEMMA MainType ==
  ASSUME TypeOK, MainStep \/ IdleSpurious \/ CloseSpurious
  PROVE  TypeOK'
<1>. USE DEF TypeOK, workerVars
<1>1. CASE Start
  <2>1. cur' \in Worker /\ mpc' \in MainPC
    BY <1>1, PoolAssumption DEF Start, MainPC, Worker
  <2>. QED
    BY <1>1, <2>1, Zenon DEF Start, WorkerPC
<1>2. CASE AddJob
  <2>1. <<phase, next>> \in Job /\ next % PoolSize \in Worker
    BY WorkerExists, Zenon DEF Job
  <2>. QED
    BY <1>2, <2>1 DEF AddJob, WorkerPC
<1>3. CASE AllAdded
  BY <1>3, PoolAssumption DEF AllAdded, MainPC, Worker
<1>4. CASE IdleBusy \/ IdleSpurious \/ CloseSpurious
  BY <1>4, Zenon DEF IdleBusy, IdleSpurious, CloseSpurious, MainPC
<1>5. CASE IdleLock \/ IdleBlock \/ StopSet \/ StopPred \/ CloseBlock \/ CloseRelock
  BY <1>5, Zenon DEF IdleLock, IdleBlock, StopSet, StopPred, CloseBlock, CloseRelock, MainPC
<1>6. CASE IdleNext
  BY <1>6, PoolAssumption DEF IdleNext, MainPC, Worker
<1>7. CASE IdleReturn
  <2>1. threads' \in 0..MaxThreads /\ phase' \in Phases /\ next' \in Nat /\ mpc' \in MainPC
    BY <1>7 DEF IdleReturn, Phases, MainPC
  <2>. QED
    BY <1>7, <2>1, PoolAssumption DEF IdleReturn, Worker
<1>8. CASE StopLock
  BY <1>8, Zenon DEF StopLock, MainPC, WorkerPC
<1>9. CASE Delete
  <2>1. cur' \in Worker /\ mpc' \in MainPC
    BY <1>9, PoolAssumption DEF Delete, MainPC, Worker
  <2>2. deleted' \in [Worker -> BOOLEAN]
    BY <1>9, Zenon DEF Delete
  <2>. QED
    BY <1>9, <2>1, <2>2, Zenon DEF Delete
<1>. HIDE DEF TypeOK
<1>. QED
  BY <1>1, <1>2, <1>3, <1>4, <1>5, <1>6, <1>7, <1>8, <1>9, Zenon DEF MainStep

-----------------------------------------------------------------------------
(* Most steps touch no job and do not take main out of its loop. *)
SameJobs ==
  /\ jobs' = jobs /\ done' = done /\ phase' = phase /\ next' = next /\ threads' = threads
  /\ \A w \in Worker : /\ wpc'[w] = "exec" <=> wpc[w] = "exec"
                       /\ wpc[w] = "exec" => job_doing'[w] = job_doing[w]
SameLoop ==
  /\ mpc' \in IdlePC <=> mpc \in IdlePC
  /\ mpc' \in StopPC <=> mpc \in StopPC
  /\ mpc' = "add" <=> mpc = "add"
  /\ mpc' = "start" <=> mpc = "start"
  /\ mpc \in IdlePC => cur' = cur

(* What a step that touches no job keeps, wherever main goes *)
LEMMA SameJobsInv ==
  ASSUME PoolInv, SameJobs
  PROVE  /\ DoingJob' /\ QueueOld' /\ Accounted'
         /\ \A p \in Phases : JobCount(p)' = JobCount(p)
         /\ \A j : DoneJob(j)' <=> DoneJob(j)
<1>. USE DEF SameJobs
<1>1. DoingJob' /\ QueueOld'
  BY Zenon DEF PoolInv, DoingJob, QueueOld
<1>2. Accounted'
  <2>. SUFFICES ASSUME NEW n \in Nat, n < next PROVE AtWorker(<<phase, n>>)'
    BY Zenon DEF Accounted
  <2>1. AtWorker(<<phase, n>>) /\ WorkerOf(<<phase, n>>) \in Worker
    BY WorkerExists, Zenon DEF PoolInv, Accounted, WorkerOf
  <2>. QED
    BY <2>1, Zenon DEF AtWorker, DoneJob, WorkerOf
<1>3. \A p \in Phases : JobCount(p)' = JobCount(p)
  BY Zenon DEF JobCount
<1>4. \A j : DoneJob(j)' <=> DoneJob(j)
  BY Zenon DEF DoneJob, WorkerOf
<1>. QED
  BY <1>1, <1>2, <1>3, <1>4, Zenon

(* ... and the whole invariant when main stays where it is *)
LEMMA SameInv ==
  ASSUME PoolInv, TypeOK', SameJobs, SameLoop
  PROVE  PoolInv'
<1>1. phase \in Phases /\ phase' = phase /\ next' = next
  BY Zenon DEF PoolInv, TypeOK, SameJobs
<1>2. Cursor'
  BY <1>1, SameJobsInv, Zenon DEF PoolInv, Cursor, SameLoop
<1>3. Settled'
  BY Zenon DEF PoolInv, Settled, SameLoop, SameJobs
<1>4. PhasesDone'
  BY <1>1, SameJobsInv DEF PoolInv, PhasesDone, SameLoop, Phases
<1>. QED
  BY <1>2, <1>3, <1>4, SameJobsInv, Zenon DEF PoolInv

(* The steps of a worker other than taking and executing a job *)
LEMMA RunSame ==
  ASSUME TypeOK, NEW w \in Worker,
         Run(w) \/ RunSpurious(w), ~RunTake(w), ~RunExec(w)
  PROVE  SameJobs /\ SameLoop
<1>. USE DEF TypeOK, mainVars, SameJobs, SameLoop
<1>1. CASE RunTest(w) \/ RunReset(w) \/ RunNoJob(w) \/ RunWoken(w) \/ RunBlock(w) \/ RunSpurious(w)
  BY <1>1 DEF RunTest, RunReset, RunNoJob, RunWoken, RunBlock, RunSpurious
<1>2. CASE RunRelock(w) \/ RunBreak(w) \/ RunExit(w)
  BY <1>2, Zenon DEF RunRelock, RunBreak, RunExit
<1>3. CASE RunLock(w) \/ RunNotify(w)
  BY <1>3, Zenon DEF RunLock, RunNotify, IdlePC, StopPC
<1>. QED
  BY <1>1, <1>2, <1>3, Zenon DEF Run

(* The steps of main inside wait_idle() and stop() *)
LEMMA MainSame ==
  ASSUME TypeOK,
         \/ IdleLock \/ IdleBusy \/ IdleBlock \/ IdleSpurious \/ StopSet \/ StopLock
         \/ StopPred \/ CloseBlock \/ CloseSpurious \/ CloseRelock \/ Delete
  PROVE  SameJobs /\ SameLoop
<1>. USE DEF TypeOK, workerVars, SameJobs, SameLoop, IdlePC, StopPC
<1>1. CASE IdleLock \/ IdleBusy \/ IdleBlock \/ IdleSpurious
  BY <1>1, Zenon DEF IdleLock, IdleBusy, IdleBlock, IdleSpurious
<1>2. CASE StopSet \/ StopLock \/ StopPred
  BY <1>2 DEF StopSet, StopLock, StopPred
<1>3. CASE CloseBlock \/ CloseSpurious \/ CloseRelock \/ Delete
  BY <1>3, Zenon DEF CloseBlock, CloseSpurious, CloseRelock, Delete
<1>. QED
  BY <1>1, <1>2, <1>3, Zenon

-----------------------------------------------------------------------------
(* Moving a job from the queue into the worker's hand keeps it accounted for. *)
LEMMA RunTakeInv ==
  ASSUME PoolInv, TypeOK', NEW w \in Worker, RunTake(w)
  PROVE  PoolInv'
<1>. USE DEF RunTake, mainVars
<1>0. TypeOK /\ DoingJob /\ QueueOld /\ Cursor /\ Settled /\ Accounted /\ PhasesDone
  BY Zenon DEF PoolInv
<1>1. Head(jobs[w]) \in Job /\ Head(jobs[w])[1] <= phase /\ jobs[w] \in Seq(Job)
  BY <1>0 DEF TypeOK, QueueOld
<1>2. DoingJob'
  BY <1>0, <1>1, Zenon DEF DoingJob, TypeOK
<1>3. QueueOld'
  <2>. SUFFICES ASSUME NEW v \in Worker, NEW i \in 1..Len(jobs'[v])
                PROVE  jobs'[v][i][1] <= phase
    BY Zenon DEF QueueOld
  <2>1. CASE v = w
    <3>1. i + 1 \in 1..Len(jobs[w]) /\ jobs'[w][i] = jobs[w][i + 1]
      BY <1>0, <1>1, <2>1 DEF TypeOK
    <3>. QED
      BY <1>0, <2>1, <3>1, Zenon DEF QueueOld
  <2>2. CASE v # w
    BY <1>0, <2>2, Zenon DEF QueueOld, TypeOK
  <2>. QED
    BY <2>1, <2>2, Zenon
<1>4. Cursor'
  BY <1>0, Zenon DEF Cursor, JobCount
<1>5. Settled'
  BY <1>0, Zenon DEF Settled, TypeOK
<1>6. Accounted'
  <2>. SUFFICES ASSUME NEW n \in Nat, n < next PROVE AtWorker(<<phase, n>>)'
    BY Zenon DEF Accounted
  <2>. DEFINE j == <<phase, n>>
              v == WorkerOf(j)
  <2>1. AtWorker(j) /\ v \in Worker
    BY <1>0, WorkerExists, Zenon DEF Accounted, WorkerOf
  <2>2. CASE v = w
    <3>1. wpc'[w] = "exec" /\ job_doing'[w] = Head(jobs[w]) /\ jobs'[w] = Tail(jobs[w])
      BY <1>0, Zenon DEF TypeOK
    <3>2. CASE InSeq(j, jobs[w])
      BY <1>1, <2>2, <3>1, <3>2, InTail DEF AtWorker, WorkerOf
    <3>3. CASE DoneJob(j)
      BY <3>3, Zenon DEF AtWorker, DoneJob, WorkerOf
    <3>. QED
      BY <2>1, <2>2, <3>2, <3>3, Zenon DEF AtWorker
  <2>3. CASE v # w
    BY <1>0, <2>1, <2>3, Zenon DEF AtWorker, DoneJob, WorkerOf, TypeOK
  <2>. QED
    BY <2>2, <2>3, Zenon
<1>7. PhasesDone'
  BY <1>0, Zenon DEF PhasesDone, JobCount, DoneJob, WorkerOf
<1>. QED
  BY <1>2, <1>3, <1>4, <1>5, <1>6, <1>7, Zenon DEF PoolInv

(* The job in hand becomes a job done. *)
LEMMA RunExecInv ==
  ASSUME PoolInv, TypeOK', NEW w \in Worker, RunExec(w)
  PROVE  PoolInv'
<1>. USE DEF RunExec, mainVars
<1>0. TypeOK /\ DoingJob /\ QueueOld /\ Cursor /\ Settled /\ Accounted /\ PhasesDone
  BY Zenon DEF PoolInv
<1>1. job_doing[w] \in Job /\ done[w] \in Seq(Job)
  BY <1>0, Zenon DEF TypeOK, DoingJob
<1>2. DoingJob' /\ QueueOld' /\ Cursor' /\ Settled'
  BY <1>0, Zenon DEF DoingJob, QueueOld, Cursor, Settled, JobCount, TypeOK
<1>3. ASSUME NEW j, WorkerOf(j) \in Worker, DoneJob(j)
      PROVE  DoneJob(j)'
  <2>1. CASE WorkerOf(j) = w
    BY <1>0, <1>1, <1>3, <2>1, InAppend, Zenon DEF DoneJob, WorkerOf, TypeOK
  <2>2. CASE WorkerOf(j) # w
    BY <1>0, <1>3, <2>2, Zenon DEF DoneJob, WorkerOf, TypeOK
  <2>. QED
    BY <2>1, <2>2, Zenon
<1>4. \A p, n : n \in Nat => WorkerOf(<<p, n>>) \in Worker
  BY WorkerExists, Zenon DEF WorkerOf
<1>5. Accounted'
  <2>. SUFFICES ASSUME NEW n \in Nat, n < next PROVE AtWorker(<<phase, n>>)'
    BY Zenon DEF Accounted
  <2>. DEFINE j == <<phase, n>>
  <2>1. AtWorker(j) /\ WorkerOf(j) \in Worker
    BY <1>0, <1>4, Zenon DEF Accounted
  <2>2. CASE DoneJob(j)
    BY <1>3, <2>1, <2>2, Zenon DEF AtWorker
  <2>3. CASE InSeq(j, jobs[WorkerOf(j)])
    BY <2>3, Zenon DEF AtWorker, WorkerOf
  <2>4. CASE wpc[WorkerOf(j)] = "exec" /\ job_doing[WorkerOf(j)] = j
    <3>1. CASE WorkerOf(j) = w
      <4>1. job_doing[w] = j /\ j \in Job
        BY <1>1, <2>4, <3>1, Zenon
      <4>2. done'[w] = Append(done[w], j)
        BY <1>0, <4>1, Zenon DEF TypeOK
      <4>3. InSeq(j, Append(done[w], j))
        <5>. HIDE DEF j
        <5>. QED
          BY <1>1, <4>1, InAppend, Zenon
      <4>. QED
        BY <3>1, <4>2, <4>3, Zenon DEF AtWorker, DoneJob, WorkerOf
    <3>2. CASE WorkerOf(j) # w
      <4>1. wpc'[WorkerOf(j)] = wpc[WorkerOf(j)]
        BY <1>0, <2>1, <3>2, Zenon DEF TypeOK
      <4>. QED
        BY <2>4, <4>1, Zenon DEF AtWorker, WorkerOf
    <3>. QED
      BY <3>1, <3>2, Zenon
  <2>. QED
    BY <2>1, <2>2, <2>3, <2>4, Zenon DEF AtWorker
<1>6. PhasesDone'
  BY <1>0, <1>3, <1>4, Zenon DEF PhasesDone, JobCount
<1>. QED
  BY <1>2, <1>5, <1>6, Zenon DEF PoolInv

(* add_job() puts the new job in its worker's queue and disturbs no other. *)
LEMMA AddJobInv ==
  ASSUME PoolInv, TypeOK', AddJob
  PROVE  PoolInv'
<1>. DEFINE u == next % PoolSize
            k == <<phase, next>>
<1>0. TypeOK /\ DoingJob /\ QueueOld /\ Cursor /\ Settled /\ Accounted /\ PhasesDone
  BY Zenon DEF PoolInv
<1>1. u \in Worker /\ k \in Job /\ k[1] = phase /\ phase \in Phases /\ next \in Nat
  BY <1>0, WorkerExists, Zenon DEF TypeOK, Job
<1>2. /\ jobs' = [jobs EXCEPT ![u] = Append(@, k)]
      /\ mpc' = mpc /\ mpc = "add" /\ phase' = phase /\ next' = next + 1
      /\ next < JobCount(phase) /\ threads' = threads /\ done' = done
      /\ job_doing' = job_doing
  BY Zenon DEF AddJob
<1>3. \A w \in Worker : wpc'[w] = "exec" <=> wpc[w] = "exec"
  BY <1>0, <1>1, Zenon DEF AddJob, TypeOK
<1>4. \A w \in Worker : \A j : InSeq(j, jobs'[w]) <=> InSeq(j, jobs[w]) \/ (w = u /\ j = k)
  <2>. HIDE DEF u, k
  <2>. TAKE w \in Worker
  <2>. TAKE j
  <2>1. jobs[w] \in Seq(Job)
    BY <1>0, Zenon DEF TypeOK
  <2>2. CASE w = u
    <3>1. jobs'[w] = Append(jobs[w], k)
      BY <1>0, <1>2, <2>2, Zenon DEF TypeOK
    <3>. QED
      BY <1>1, <2>1, <2>2, <3>1, InAppend
  <2>3. CASE w # u
    BY <1>0, <1>2, <2>3, Zenon DEF TypeOK
  <2>. QED
    BY <2>2, <2>3, Zenon
<1>5. DoingJob'
  BY <1>0, <1>2, <1>3, Zenon DEF DoingJob
<1>6. QueueOld'
  <2>. SUFFICES ASSUME NEW w \in Worker, NEW i \in 1..Len(jobs'[w])
                PROVE  jobs'[w][i][1] <= phase
    BY <1>2, Zenon DEF QueueOld
  <2>1. InSeq(jobs'[w][i], jobs'[w])
    BY Zenon DEF InSeq
  <2>2. InSeq(jobs'[w][i], jobs[w]) \/ jobs'[w][i] = k
    BY <1>4, <2>1, Zenon
  <2>. QED
    BY <1>0, <1>1, <2>2 DEF QueueOld, InSeq, Phases
<1>7. JobCount(phase) \in Nat /\ \A p : JobCount(p)' = JobCount(p)
  BY <1>0, <1>1, <1>2, JobCountNat, Zenon DEF JobCount
<1>8. Cursor'
  BY <1>1, <1>2, <1>7 DEF Cursor, IdlePC, StopPC
<1>9. Settled'
  BY <1>2, Zenon DEF Settled, IdlePC
<1>10. Accounted'
  <2>. SUFFICES ASSUME NEW n \in Nat, n < next + 1 PROVE AtWorker(<<phase, n>>)'
    BY <1>2, Zenon DEF Accounted
  <2>1. WorkerOf(<<phase, n>>) \in Worker
    BY WorkerExists, Zenon DEF WorkerOf
  <2>2. CASE n < next
    <3>1. AtWorker(<<phase, n>>)
      BY <1>0, <2>2, Zenon DEF Accounted
    <3>. QED
      BY <1>2, <1>3, <1>4, <2>1, <3>1, Zenon DEF AtWorker, DoneJob, WorkerOf
  <2>3. CASE n = next
    <3>1. InSeq(k, jobs'[u])
      BY <1>1, <1>4, Zenon
    <3>. QED
      BY <2>3, <3>1, <1>2, Zenon DEF AtWorker, WorkerOf
  <2>. QED
    BY <1>1, <2>2, <2>3
<1>11. PhasesDone'
  BY <1>0, <1>2, <1>7, Zenon DEF PhasesDone, DoneJob, WorkerOf, StopPC
<1>. QED
  BY <1>5, <1>6, <1>8, <1>9, <1>10, <1>11, Zenon DEF PoolInv

(* A worker for which wait_idle() returns has no job in its hand. *)
LEMMA IdleEmpty ==
  ASSUME PoolInv, NEW w \in Worker, WorkerIdle(w)
  PROVE  jobs[w] = <<>> /\ wpc[w] # "exec"
BY NullAssumption, Zenon DEF PoolInv, DoingJob, WorkerIdle

(* The loops of main other than the return of wait_all_idle() *)
LEMMA LoopInv ==
  ASSUME PoolInv, TypeOK', Start \/ AllAdded \/ IdleNext
  PROVE  PoolInv'
<1>0. TypeOK /\ Cursor /\ Settled /\ PhasesDone
  BY Zenon DEF PoolInv
<1>1. CASE Start
  <2>1. mpc = "start" /\ mpc' \in {"start", "add"} /\ phase = 1 /\ phase' = 1
        /\ next = 0 /\ next' = 0 /\ jobs' = jobs /\ done' = done /\ threads' = threads
    BY <1>0, <1>1, Zenon DEF Start, Cursor
  <2>2. DoingJob'
    BY <1>0, <1>1 DEF PoolInv, DoingJob, Start, TypeOK
  <2>3. QueueOld' /\ Accounted' /\ Settled' /\ PhasesDone'
    <3>1. QueueOld'
      BY <2>1, Zenon DEF PoolInv, QueueOld
    <3>2. Accounted' /\ Settled'
      BY <2>1 DEF Accounted, Settled, IdlePC
    <3>3. PhasesDone'
      BY <2>1 DEF PhasesDone, StopPC, Phases
    <3>. QED
      BY <3>1, <3>2, <3>3, Zenon
  <2>4. JobCount(1)' \in Nat
    BY <2>1, PoolAssumption, Zenon DEF JobCount
  <2>5. Cursor'
    BY <2>1, <2>4 DEF Cursor, IdlePC, StopPC
  <2>. QED
    BY <2>2, <2>3, <2>5, Zenon DEF PoolInv
<1>2. CASE AllAdded
  <2>1. SameJobs /\ mpc' = "idle_lock" /\ cur' = 0 /\ next = JobCount(phase) /\ mpc = "add"
    BY <1>2, Zenon DEF AllAdded, SameJobs, workerVars
  <2>2. phase \in Phases /\ phase' = phase /\ next' = next
    BY <1>0, <2>1, Zenon DEF TypeOK, SameJobs
  <2>3. Cursor'
    BY <2>1, <2>2, SameJobsInv, Zenon DEF Cursor, IdlePC, StopPC
  <2>4. Settled'
    BY <2>1 DEF Settled, Worker
  <2>5. PhasesDone'
    BY <1>0, <2>1, <2>2, SameJobsInv, Zenon DEF PhasesDone, StopPC
  <2>. QED
    BY <2>1, <2>3, <2>4, <2>5, SameJobsInv, Zenon DEF PoolInv
<1>3. CASE IdleNext
  <2>1. SameJobs /\ mpc' = "idle_lock" /\ cur' = cur + 1 /\ mpc = "idle_pred"
    BY <1>3, Zenon DEF IdleNext, SameJobs
  <2>2. phase \in Phases /\ phase' = phase /\ next' = next /\ cur \in Worker
    BY <1>0, <2>1, Zenon DEF TypeOK, SameJobs
  <2>3. Cursor'
    BY <1>0, <2>1, <2>2, SameJobsInv, Zenon DEF Cursor, IdlePC, StopPC
  <2>4. jobs[cur] = <<>> /\ wpc[cur] # "exec"
    BY <1>3, <2>2, IdleEmpty, Zenon DEF IdleNext
  <2>5. Settled'
    BY <1>0, <2>1, <2>2, <2>4 DEF Settled, SameJobs, Worker, IdlePC
  <2>6. PhasesDone'
    BY <1>0, <2>1, <2>2, SameJobsInv, Zenon DEF PhasesDone, StopPC
  <2>. QED
    BY <2>1, <2>3, <2>5, <2>6, SameJobsInv, Zenon DEF PoolInv
<1>. QED
  BY <1>1, <1>2, <1>3, Zenon

(* When wait_all_idle() returns, all jobs of the phase are done. *)
LEMMA BarrierHolds ==
  ASSUME PoolInv, IdleReturn, NEW n \in Nat, n < JobCount(phase)
  PROVE  DoneJob(<<phase, n>>)
<1>. DEFINE v == WorkerOf(<<phase, n>>)
<1>1. v \in Worker
  BY WorkerExists, Zenon DEF WorkerOf
<1>2. AtWorker(<<phase, n>>)
  BY Zenon DEF PoolInv, Cursor, Accounted, IdleReturn, IdlePC
<1>3. cur \in Worker /\ (v < cur \/ v = cur)
  <2>1. cur \in Worker /\ cur + 1 = PoolSize
    BY Zenon DEF PoolInv, TypeOK, IdleReturn
  <2>. HIDE DEF v
  <2>. QED
    BY <1>1, <2>1, PoolAssumption DEF Worker
<1>4. jobs[v] = <<>> /\ wpc[v] # "exec"
  <2>1. CASE v < cur
    BY <1>1, <2>1, Zenon DEF PoolInv, Settled, IdleReturn, IdlePC
  <2>2. CASE v = cur
    BY <1>3, <2>2, IdleEmpty, Zenon DEF IdleReturn
  <2>. QED
    BY <1>3, <2>1, <2>2, Zenon
<1>5. ~InSeq(<<phase, n>>, jobs[v])
  BY <1>4 DEF InSeq
<1>. QED
  BY <1>2, <1>4, <1>5, Zenon DEF AtWorker

(* The return of wait_all_idle() opens the next phase or the destructor. *)
LEMMA IdleReturnInv ==
  ASSUME PoolInv, TypeOK', IdleReturn
  PROVE  PoolInv'
<1>0. TypeOK /\ DoingJob /\ QueueOld /\ Cursor /\ Accounted /\ PhasesDone
  BY Zenon DEF PoolInv
<1>1. /\ jobs' = jobs /\ job_doing' = job_doing /\ wpc' = wpc /\ done' = done
      /\ phase \in Phases /\ next \in Nat
  BY <1>0, Zenon DEF IdleReturn, TypeOK
<1>2. \A j : DoneJob(j)' <=> DoneJob(j)
  BY <1>1, Zenon DEF DoneJob, WorkerOf
<1>3. CASE phase < 3
  <2>1. mpc' = "add" /\ phase' = phase + 1 /\ next' = 0 /\ phase' \in Phases
    BY <1>1, <1>3 DEF IdleReturn, Phases
  <2>2. DoingJob'
    <3>. SUFFICES ASSUME NEW w \in Worker, wpc[w] = "exec"
                  PROVE  job_doing[w] \in Job /\ job_doing[w][1] <= phase + 1
      BY <1>1, <2>1, Zenon DEF DoingJob
    <3>. QED
      BY <1>0, <1>1 DEF DoingJob, Job, Phases
  <2>3. QueueOld'
    <3>. SUFFICES ASSUME NEW w \in Worker, NEW i \in 1..Len(jobs[w])
                  PROVE  jobs[w][i][1] <= phase + 1
      BY <1>1, <2>1, Zenon DEF QueueOld
    <3>1. jobs[w][i] \in Job
      <4>1. jobs[w] \in Seq(Job)
        BY <1>0, Zenon DEF TypeOK
      <4>. QED
        BY <4>1
    <3>. QED
      BY <1>0, <1>1, <3>1 DEF QueueOld, Job, Phases
  <2>4. Cursor' /\ Settled' /\ Accounted'
    <3>1. \A p \in Phases : JobCount(p)' \in Nat
      <4>1. threads' \in Nat /\ ParseJobs \in Nat
        BY PoolAssumption DEF TypeOK
      <4>2. \A t \in Nat : ParseJobs + t \in Nat
        BY PoolAssumption
      <4>. QED
        BY <4>1, <4>2, Zenon DEF JobCount
    <3>2. Cursor'
      BY <2>1, <3>1 DEF Cursor, IdlePC, StopPC
    <3>. QED
      BY <2>1, <3>2 DEF Settled, Accounted, IdlePC
  <2>5. PhasesDone'
    <3>. SUFFICES ASSUME NEW p \in Phases, p < phase + 1, NEW n \in Nat, n < JobCount(p)'
                  PROVE  DoneJob(<<p, n>>)
      BY <1>2, <2>1, Zenon DEF PhasesDone, StopPC
    <3>1. JobCount(p)' = JobCount(p)
      BY <1>1, <1>3 DEF JobCount, IdleReturn, Phases
    <3>2. CASE p = phase
      BY <3>1, <3>2, BarrierHolds, Zenon
    <3>3. CASE p < phase
      BY <1>0, <3>1, <3>3, Zenon DEF PhasesDone
    <3>. QED
      BY <1>1, <3>2, <3>3 DEF Phases
  <2>. QED
    BY <2>2, <2>3, <2>4, <2>5, Zenon DEF PoolInv
<1>4. CASE phase = 3
  <2>1. mpc' = "stop_set" /\ SameJobs
    BY <1>1, <1>4 DEF IdleReturn, SameJobs
  <2>2. Cursor' /\ Settled'
    BY <1>4, <2>1, Zenon DEF Cursor, Settled, IdlePC, SameJobs
  <2>3. \A n \in Nat : n < JobCount(3) => DoneJob(<<3, n>>)
    BY <1>4, BarrierHolds, Zenon
  <2>4. PhasesDone'
    BY <1>0, <2>1, <2>3, SameJobsInv DEF PhasesDone, SameJobs, Phases
  <2>. QED
    BY <2>1, <2>2, <2>4, SameJobsInv, Zenon DEF PoolInv
<1>. QED
  BY <1>1, <1>3, <1>4 DEF Phases

-----------------------------------------------------------------------------
(* Before the pool starts there is no job anywhere. *)
LEMMA PoolInitInv == Init => PoolInv
<1>. SUFFICES ASSUME Init PROVE PoolInv
  BY Zenon
<1>1. TypeOK
  BY PoolAssumption DEF Init, TypeOK, WorkerPC, MainPC, Phases, Worker
<1>2. DoingJob /\ QueueOld
  BY DEF Init, DoingJob, QueueOld
<1>3. Cursor /\ Settled /\ Accounted /\ PhasesDone
  BY DEF Init, Cursor, Settled, Accounted, PhasesDone, IdlePC, StopPC, Phases
<1>. QED
  BY <1>1, <1>2, <1>3, Zenon DEF PoolInv

(* Every step keeps the invariant. *)
LEMMA PoolNextInv == PoolInv /\ [Next]_vars => PoolInv'
<1>. SUFFICES ASSUME PoolInv, [Next]_vars PROVE PoolInv'
  BY Zenon
<1>0. TypeOK /\ DoingJob
  BY Zenon DEF PoolInv
<1>1. ASSUME NEW w \in Worker, Run(w) \/ RunSpurious(w) PROVE PoolInv'
  <2>1. TypeOK'
    BY <1>0, <1>1, RunType, Zenon
  <2>2. CASE RunTake(w)
    BY <2>1, <2>2, RunTakeInv, Zenon
  <2>3. CASE RunExec(w)
    BY <2>1, <2>3, RunExecInv, Zenon
  <2>4. CASE ~RunTake(w) /\ ~RunExec(w)
    BY <1>0, <1>1, <2>1, <2>4, RunSame, SameInv, Zenon
  <2>. QED
    BY <2>2, <2>3, <2>4, Zenon
<1>2. ASSUME MainStep \/ IdleSpurious \/ CloseSpurious PROVE PoolInv'
  <2>1. TypeOK'
    BY <1>0, <1>2, MainType, Zenon
  <2>2. CASE AddJob
    BY <2>1, <2>2, AddJobInv, Zenon
  <2>3. CASE Start \/ AllAdded \/ IdleNext
    BY <2>1, <2>3, LoopInv, Zenon
  <2>4. CASE IdleReturn
    BY <2>1, <2>4, IdleReturnInv
  <2>5. CASE \/ IdleLock \/ IdleBusy \/ IdleBlock \/ IdleSpurious \/ StopSet \/ StopLock
             \/ StopPred \/ CloseBlock \/ CloseSpurious \/ CloseRelock \/ Delete
    BY <1>0, <2>1, <2>5, MainSame, SameInv, Zenon
  <2>. QED
    BY <1>2, <2>2, <2>3, <2>4, <2>5, Zenon DEF MainStep
<1>3. CASE UNCHANGED vars
  <2>1. TypeOK'
    BY <1>0, <1>3, Zenon DEF TypeOK, vars, workerVars, mainVars
  <2>2. SameJobs /\ SameLoop
    BY <1>3, Zenon DEF SameJobs, SameLoop, vars, workerVars, mainVars
  <2>. QED
    BY <2>1, <2>2, SameInv, Zenon
<1>. QED
  BY <1>1, <1>2, <1>3, Zenon DEF Next, Spurious

(* A job that is done is one of the executed jobs of its worker. *)
LEMMA DoneExecuted ==
  ASSUME PoolInv, NEW p, NEW n \in Nat, DoneJob(<<p, n>>)
  PROVE  <<p, n>> \in Executed
<1>1. WorkerOf(<<p, n>>) \in Worker
  BY WorkerExists, Zenon DEF WorkerOf
<1>. QED
  BY <1>1 DEF DoneJob, InSeq, Executed

-----------------------------------------------------------------------------
(* The pool's invariant holds in every reachable state. *)
THEOREM PoolInvariant == Spec => []PoolInv
BY PoolInitInv, PoolNextInv, PTL DEF Spec

(* The pool's variables keep their types: no index leaves the worker array *)
(* and no thread is at a place run(), wait_idle() or stop() does not have. *)
THEOREM PoolTypeCorrect == Spec => []TypeOK
<1>1. PoolInv => TypeOK
  BY Zenon DEF PoolInv
<1>. QED
  BY <1>1, PoolInvariant, PTL

(* For every pool size and every number of jobs, no job of analyze_funcs() *)
(* executes before all jobs of the earlier phases were executed.           *)
THEOREM BarrierSound == Spec => []PhaseBarrier
<1>1. PoolInv => PhaseBarrier
  <2>. SUFFICES ASSUME PoolInv, NEW w \in Worker, wpc[w] = "exec",
                       NEW p \in 1..(job_doing[w][1] - 1),
                       NEW n \in 0..(JobCount(p) - 1)
                PROVE  <<p, n>> \in Executed
    BY DEF PhaseBarrier, JobsOf
  <2>1. phase \in Phases /\ job_doing[w][1] \in Phases /\ job_doing[w][1] <= phase
    BY Zenon DEF PoolInv, TypeOK, DoingJob, Job
  <2>2. p \in Phases /\ p < phase
    BY <2>1 DEF Phases
  <2>3. JobCount(p) \in Nat
    BY <2>2, JobCountNat, Zenon DEF PoolInv
  <2>4. n \in Nat /\ n < JobCount(p)
    BY <2>3
  <2>. QED
    BY <2>2, <2>4, DoneExecuted, Zenon DEF PoolInv, PhasesDone
<1>. QED
  BY <1>1, PoolInvariant, PTL

(* When exit() reaches the pool's destructor, every job that was added was *)
(* executed: stop() abandons no work.                                      *)
THEOREM NoJobAbandoned == Spec => []NothingAbandoned
<1>1. PoolInv => NothingAbandoned
  <2>. SUFFICES ASSUME PoolInv, mpc \in StopPC, NEW p \in Phases,
                       NEW n \in 0..(JobCount(p) - 1)
                PROVE  <<p, n>> \in Executed
    BY DEF NothingAbandoned, JobsOf, StopPC
  <2>1. JobCount(p) \in Nat
    BY JobCountNat, Zenon DEF PoolInv
  <2>2. n \in Nat /\ n < JobCount(p)
    BY <2>1
  <2>3. phase = 3 /\ (p < phase \/ p = 3)
    BY DEF PoolInv, Cursor, Phases
  <2>. QED
    BY <2>2, <2>3, DoneExecuted, Zenon DEF PoolInv, PhasesDone
<1>. QED
  BY <1>1, PoolInvariant, PTL

-----------------------------------------------------------------------------
(* The assertion of run() holds: when jobs_cv.wait() has returned and the  *)
(* queue is empty stop() was called, however often jobs_cv wakes up        *)
(* spuriously.  The predicate and the assertion are two steps; in between  *)
(* nobody empties the queue and nobody takes should_stop back.             *)
THEOREM BreakOnlyOnStop == Spec => []BreakAsserted
<1>1. Init => BreakAsserted
  BY Zenon DEF Init, BreakAsserted
<1>2. TypeOK /\ BreakAsserted /\ [Next]_vars => BreakAsserted'
  <2>0. SUFFICES ASSUME TypeOK, BreakAsserted, [Next]_vars PROVE BreakAsserted'
    BY Zenon
  <2>. USE DEF TypeOK, BreakAsserted
  <2>1. ASSUME NEW w \in Worker, Run(w) \/ RunSpurious(w) PROVE BreakAsserted'
    <3>1. CASE RunTest(w) \/ RunReset(w) \/ RunNoJob(w) \/ RunWoken(w) \/ RunBlock(w) \/ RunSpurious(w)
      BY <2>0, <3>1, Zenon DEF RunTest, RunReset, RunNoJob, RunWoken, RunBlock, RunSpurious, mainVars
    <3>2. CASE RunRelock(w) \/ RunTake(w) \/ RunBreak(w) \/ RunExec(w)
      BY <2>0, <3>2 DEF RunRelock, RunTake, RunBreak, RunExec, mainVars
    <3>3. CASE RunLock(w) \/ RunExit(w) \/ RunNotify(w)
      BY <2>0, <3>3, Zenon DEF RunLock, RunExit, RunNotify, mainVars
    <3>. QED
      BY <2>1, <3>1, <3>2, <3>3, Zenon DEF Run
  <2>2. CASE Start
    BY <2>0, <2>2, Zenon DEF Start
  <2>3. CASE AddJob
    <3>1. PICK u \in Worker : u = next % PoolSize
      BY <2>0, WorkerExists, Zenon
    <3>2. /\ should_stop' = should_stop /\ jobs'[u] = Append(jobs[u], <<phase, next>>)
          /\ \A w \in Worker : wpc'[w] = wpc[w] \/ wpc'[w] = "jobs_relock"
          /\ \A w \in Worker : w # u => jobs'[w] = jobs[w]
      BY <2>0, <2>3, <3>1, Zenon DEF AddJob
    <3>3. jobs[u] \in Seq(Job)
      BY <2>0, Zenon
    <3>4. jobs'[u] # <<>>
      <4>. HIDE DEF TypeOK, BreakAsserted
      <4>. QED
        BY <3>2, <3>3
    <3>. QED
      BY <2>0, <3>2, <3>4, Zenon
  <2>4. CASE AllAdded \/ IdleLock \/ IdleBusy \/ IdleBlock \/ IdleSpurious
    BY <2>0, <2>4, Zenon DEF AllAdded, IdleLock, IdleBusy, IdleBlock, IdleSpurious, workerVars
  <2>5. CASE IdleNext \/ IdleReturn \/ StopSet \/ StopLock
    BY <2>0, <2>5, Zenon DEF IdleNext, IdleReturn, StopSet, StopLock
  <2>6. CASE StopPred \/ CloseBlock \/ CloseSpurious \/ CloseRelock \/ Delete
    BY <2>0, <2>6, Zenon DEF StopPred, CloseBlock, CloseSpurious, CloseRelock, Delete, workerVars
  <2>7. CASE UNCHANGED vars
    BY <2>0, <2>7, Zenon DEF vars, workerVars, mainVars
  <2>. QED
    BY <2>0, <2>1, <2>2, <2>3, <2>4, <2>5, <2>6, <2>7, Zenon DEF Next, MainStep, Spurious
<1>. QED
  BY <1>1, <1>2, PoolTypeCorrect, PTL DEF Spec

-----------------------------------------------------------------------------
(* What a worker was given is in the order it was given in, and all of it  *)
(* before the job that main adds next.  Before the first job is added the  *)
(* workers have nothing, so that starting one loses nothing.               *)
InOrder(s) == \A i, j \in 1..Len(s) : i < j => Before(s[i], s[j])
AllBefore(s, k) == \A i \in 1..Len(s) : Before(s[i], k)
HandledInOrder ==
  /\ mpc = "start" => \A w \in Worker : jobs[w] = <<>> /\ wpc[w] # "exec"
  /\ \A w \in Worker : InOrder(Handled(w)) /\ AllBefore(Handled(w), <<phase, next>>)

LEMMA HandledType ==
  ASSUME PoolInv, NEW w \in Worker
  PROVE  done[w] \in Seq(Job) /\ InHand(w) \in Seq(Job) /\ jobs[w] \in Seq(Job) /\ Handled(w) \in Seq(Job)
<1>1. done[w] \in Seq(Job) /\ jobs[w] \in Seq(Job) /\ InHand(w) \in Seq(Job)
  BY DEF PoolInv, TypeOK, DoingJob, InHand
<1>. QED
  BY <1>1, ConcatProperties, Zenon DEF Handled

(* A step that changes nothing of what a worker handles *)
LEMMA HandledSame ==
  ASSUME SameJobs, NEW w \in Worker PROVE Handled(w)' = Handled(w)
BY Zenon DEF SameJobs, Handled, InHand

(* front() and pop() move the first job of the queue into the hand. *)
LEMMA Popped ==
  ASSUME NEW S, NEW d \in Seq(S), NEW q \in Seq(S), q # <<>>
  PROVE  d \o <<Head(q)>> \o Tail(q) = d \o <<>> \o q
<1>1. Head(q) \in S /\ Tail(q) \in Seq(S) /\ <<Head(q)>> \in Seq(S)
  BY HeadTailProperties
<1>2. <<Head(q)>> \o Tail(q) = q
  <2>. DEFINE r == <<Head(q)>> \o Tail(q)
  <2>1. r \in Seq(S) /\ Len(r) = Len(q)
    BY <1>1, HeadTailProperties, ConcatProperties
  <2>2. ASSUME NEW i \in 1..Len(r) PROVE r[i] = q[i]
    BY <1>1, <2>1, HeadTailProperties, ConcatProperties
  <2>. HIDE DEF r
  <2>. QED
    BY <2>1, <2>2, SeqEqual
<1>3. (d \o <<Head(q)>>) \o Tail(q) = d \o (<<Head(q)>> \o Tail(q))
  BY <1>1, ConcatAssociative
<1>. QED
  BY <1>2, <1>3, ConcatEmptySeq, Zenon

(* A new job at the end *)
LEMMA InOrderAppend ==
  ASSUME NEW s \in Seq(Job), InOrder(s), NEW k \in Job, AllBefore(s, k), NEW k2 \in Job, Before(k, k2)
  PROVE  InOrder(Append(s, k)) /\ AllBefore(Append(s, k), k2)
<1>. DEFINE t == Append(s, k)
<1>1. /\ t \in Seq(Job) /\ Len(t) = Len(s) + 1 /\ Len(s) \in Nat
      /\ \A i \in 1..Len(s) : t[i] = s[i] /\ s[i] \in Job
      /\ t[Len(s) + 1] = k
  BY AppendProperties
<1>. HIDE DEF t
<1>2. InOrder(t)
  BY <1>1 DEF InOrder, AllBefore
<1>3. \A a \in Job : Before(a, k) => Before(a, k2)
  BY DEF Before, Job, Phases
<1>4. AllBefore(t, k2)
  <2>. SUFFICES ASSUME NEW i \in 1..Len(t) PROVE Before(t[i], k2)
    BY Zenon DEF AllBefore
  <2>1. CASE i = Len(s) + 1
    BY <1>1, <2>1, Zenon
  <2>2. CASE i # Len(s) + 1
    <3>1. i \in 1..Len(s)
      BY <1>1, <2>2
    <3>. QED
      BY <1>1, <1>3, <3>1, Zenon DEF AllBefore
  <2>. QED
    BY <2>1, <2>2, Zenon
<1>. QED
  BY <1>2, <1>4, Zenon DEF t

LEMMA OrderInit == ASSUME Init PROVE HandledInOrder
<1>1. \A w \in Worker : Handled(w) = <<>>
  BY DEF Init, Handled, InHand
<1>. QED
  BY <1>1 DEF Init, HandledInOrder, InOrder, AllBefore

(* Where the jobs stay, so does their order. *)
LEMMA OrderSame ==
  ASSUME HandledInOrder, SameJobs, mpc' = "start" => mpc = "start"
  PROVE  HandledInOrder'
<1>1. \A w \in Worker : Handled(w)' = Handled(w)
  BY HandledSame, Zenon
<1>2. phase' = phase /\ next' = next /\ jobs' = jobs
  BY Zenon DEF SameJobs
<1>3. mpc' = "start" => \A w \in Worker : jobs'[w] = <<>> /\ wpc'[w] # "exec"
  BY Zenon DEF SameJobs, HandledInOrder
<1>. QED
  BY <1>1, <1>2, <1>3, Zenon DEF HandledInOrder, InOrder, AllBefore

LEMMA OrderRun ==
  ASSUME PoolInv, HandledInOrder, NEW w \in Worker, Run(w) \/ RunSpurious(w)
  PROVE  HandledInOrder'
<1>0. TypeOK
  BY Zenon DEF PoolInv
<1>1. CASE RunTake(w)
  <2>1. /\ mpc' = mpc /\ mpc # "start" /\ phase' = phase /\ next' = next
        /\ jobs[w] # <<>> /\ jobs'[w] = Tail(jobs[w]) /\ done' = done
        /\ wpc[w] = "woken" /\ wpc'[w] = "exec" /\ job_doing'[w] = Head(jobs[w])
        /\ \A v \in Worker : v # w => jobs'[v] = jobs[v] /\ wpc'[v] = wpc[v] /\ job_doing'[v] = job_doing[v]
    BY <1>0, <1>1, Zenon DEF RunTake, mainVars, TypeOK, HandledInOrder
  <2>2. Handled(w)' = Handled(w)
    <3>1. done[w] \in Seq(Job) /\ jobs[w] \in Seq(Job)
      BY HandledType, Zenon
    <3>2. InHand(w) = <<>> /\ InHand(w)' = <<Head(jobs[w])>>
      BY <2>1 DEF InHand
    <3>3. done[w] \o <<Head(jobs[w])>> \o Tail(jobs[w]) = done[w] \o <<>> \o jobs[w]
      BY <2>1, <3>1, Popped, Zenon
    <3>. QED
      BY <2>1, <3>2, <3>3, Zenon DEF Handled
  <2>3. \A v \in Worker : v # w => Handled(v)' = Handled(v)
    BY <2>1, Zenon DEF Handled, InHand
  <2>. QED
    BY <2>1, <2>2, <2>3, Zenon DEF HandledInOrder, InOrder, AllBefore
<1>2. CASE RunExec(w)
  <2>1. /\ mpc' = mpc /\ mpc # "start" /\ phase' = phase /\ next' = next
        /\ jobs' = jobs /\ done'[w] = Append(done[w], job_doing[w])
        /\ wpc[w] = "exec" /\ wpc'[w] # "exec"
        /\ job_doing[w] \in Job
        /\ \A v \in Worker : v # w => done'[v] = done[v] /\ wpc'[v] = wpc[v] /\ job_doing'[v] = job_doing[v]
    BY <1>0, <1>2, Zenon DEF RunExec, mainVars, TypeOK, HandledInOrder, PoolInv, DoingJob
  <2>2. Handled(w)' = Handled(w)
    <3>1. Append(done[w], job_doing[w]) = done[w] \o <<job_doing[w]>>
      BY <2>1, HandledType, AppendIsConcat, Zenon
    <3>2. Append(done[w], job_doing[w]) \o <<>> = Append(done[w], job_doing[w])
      BY <2>1, HandledType, AppendProperties, ConcatEmptySeq, Zenon
    <3>. QED
      BY <2>1, <3>1, <3>2, Zenon DEF Handled, InHand
  <2>3. \A v \in Worker : v # w => Handled(v)' = Handled(v)
    BY <2>1, Zenon DEF Handled, InHand
  <2>. QED
    BY <2>1, <2>2, <2>3, Zenon DEF HandledInOrder, InOrder, AllBefore
<1>3. CASE ~RunTake(w) /\ ~RunExec(w)
  BY <1>0, <1>3, RunSame, OrderSame, Zenon DEF SameLoop
<1>. QED
  BY <1>1, <1>2, <1>3, Zenon

LEMMA OrderMain ==
  ASSUME PoolInv, HandledInOrder, MainStep \/ IdleSpurious \/ CloseSpurious
  PROVE  HandledInOrder'
<1>0. TypeOK /\ phase \in Nat /\ phase \in Phases /\ next \in Nat
  BY DEF PoolInv, TypeOK, Phases
<1>1. CASE Start
  <2>1. SameJobs
    BY <1>0, <1>1, Zenon DEF Start, TypeOK, SameJobs, HandledInOrder
  <2>. QED
    BY <1>1, <2>1, OrderSame, Zenon DEF Start
<1>2. CASE AddJob
  <2>u. PICK u \in Worker : u = next % PoolSize
    BY <1>0, WorkerExists, Zenon
  <2>k. PICK k \in Job : k = <<phase, next>>
    BY <1>0, Zenon DEF Job
  <2>1. <<phase, next + 1>> \in Job /\ Before(k, <<phase, next + 1>>)
    BY <1>0, <2>k DEF Job, Before
  <2>2. /\ jobs' = [jobs EXCEPT ![u] = Append(@, k)]
        /\ mpc' = "add" /\ phase' = phase /\ next' = next + 1 /\ done' = done /\ job_doing' = job_doing
        /\ \A w \in Worker : wpc'[w] = "exec" <=> wpc[w] = "exec"
    BY <1>0, <1>2, <2>u, <2>k, Zenon DEF AddJob, TypeOK
  <2>3. Handled(u)' = Append(Handled(u), k)
    <3>1. jobs'[u] = Append(jobs[u], k) /\ InHand(u)' = InHand(u)
      BY <1>0, <2>1, <2>2, Zenon DEF TypeOK, InHand
    <3>2. PICK d \in Seq(Job) : d = done[u] \o InHand(u)
      BY <2>1, HandledType, ConcatProperties, Zenon
    <3>3. PICK q \in Seq(Job) : q = jobs[u]
      BY <2>1, HandledType, Zenon
    <3>4. Append(q, k) = q \o <<k>> /\ Append(d \o q, k) = (d \o q) \o <<k>> /\ <<k>> \in Seq(Job)
      BY <2>1, AppendIsConcat, ConcatProperties
    <3>5. d \o (q \o <<k>>) = (d \o q) \o <<k>>
      BY <3>4, ConcatAssociative
    <3>. QED
      BY <2>2, <3>1, <3>2, <3>3, <3>4, <3>5, Zenon DEF Handled
  <2>4. \A w \in Worker : w # u => Handled(w)' = Handled(w)
    <3>. TAKE w \in Worker
    <3>. HAVE w # u
    <3>1. jobs'[w] = jobs[w] /\ InHand(w)' = InHand(w)
      BY <1>0, <2>1, <2>2, Zenon DEF TypeOK, InHand
    <3>. QED
      BY <2>2, <3>1, Zenon DEF Handled
  <2>5. \A w \in Worker : AllBefore(Handled(w), k) => AllBefore(Handled(w), <<phase, next + 1>>)
    <3>. TAKE w \in Worker
    <3>1. Handled(w) \in Seq(Job)
      BY HandledType, Zenon
    <3>2. \A a \in Job : Before(a, k) => Before(a, <<phase, next + 1>>)
      BY <1>0, <2>k DEF Before, Job, Phases
    <3>3. \A i \in 1..Len(Handled(w)) : Handled(w)[i] \in Job
      BY <3>1, ElementOfSeq, Zenon
    <3>. QED
      BY <3>2, <3>3, Zenon DEF AllBefore
  <2>6. \A w \in Worker : InOrder(Handled(w)) /\ AllBefore(Handled(w), k)
    BY <2>k, Zenon DEF HandledInOrder
  <2>7. InOrder(Handled(u)') /\ AllBefore(Handled(u)', <<phase, next + 1>>)
    BY <2>1, <2>3, <2>6, InOrderAppend, HandledType, Zenon
  <2>8. \A w \in Worker : InOrder(Handled(w)') /\ AllBefore(Handled(w)', <<phase, next + 1>>)
    BY <2>4, <2>5, <2>6, <2>7, Zenon
  <2>. QED
    BY <2>2, <2>8, Zenon DEF HandledInOrder, InOrder, AllBefore
<1>3. CASE AllAdded \/ IdleNext
  BY <1>3, OrderSame, Zenon DEF AllAdded, IdleNext, workerVars, SameJobs
<1>4. CASE IdleReturn
  <2>1. /\ jobs' = jobs /\ done' = done /\ wpc' = wpc /\ job_doing' = job_doing /\ mpc' # "start"
        /\ (phase' = phase /\ next' = next) \/ (phase' = phase + 1 /\ next' = 0)
    BY <1>4, Zenon DEF IdleReturn
  <2>2. \A w \in Worker : Handled(w)' = Handled(w)
    BY <2>1, Zenon DEF Handled, InHand
  <2>3. \A a \in Job : Before(a, <<phase, next>>) => Before(a, <<phase + 1, 0>>)
    BY <1>0 DEF Before, Job, Phases
  <2>4. ASSUME NEW w \in Worker PROVE AllBefore(Handled(w), <<phase', next'>>)
    <3>1. AllBefore(Handled(w), <<phase, next>>) /\ \A i \in 1..Len(Handled(w)) : Handled(w)[i] \in Job
      BY HandledType, ElementOfSeq, Zenon DEF HandledInOrder
    <3>. QED
      BY <2>1, <2>3, <3>1, Zenon DEF AllBefore
  <2>. QED
    BY <2>1, <2>2, <2>4, Zenon DEF HandledInOrder, InOrder, AllBefore
<1>5. CASE \/ IdleLock \/ IdleBusy \/ IdleBlock \/ IdleSpurious \/ StopSet \/ StopLock
           \/ StopPred \/ CloseBlock \/ CloseSpurious \/ CloseRelock \/ Delete
  BY <1>0, <1>5, MainSame, OrderSame, Zenon DEF SameLoop
<1>. QED
  BY <1>1, <1>2, <1>3, <1>4, <1>5, Zenon DEF MainStep

(* Whatever the pool size, a worker executes every job it was given once   *)
(* and in the order of the add_job() calls: a parse job before the thread  *)
(* jobs of its worker, and each of these before it is freed.               *)
THEOREM WorkersInOrder == Spec => []ExecutedOnceInOrder
<1>1. HandledInOrder => ExecutedOnceInOrder
  BY Zenon DEF HandledInOrder, ExecutedOnceInOrder, InOrder
<1>2. Init => HandledInOrder
  BY OrderInit
<1>3. PoolInv /\ HandledInOrder /\ [Next]_vars => HandledInOrder'
  <2>0. SUFFICES ASSUME PoolInv, HandledInOrder, [Next]_vars PROVE HandledInOrder'
    OBVIOUS
  <2>1. CASE UNCHANGED vars
    BY <2>0, <2>1, OrderSame, Zenon DEF vars, workerVars, mainVars, SameJobs
  <2>. QED
    BY <2>0, <2>1, OrderRun, OrderMain, Zenon DEF Next, Spurious
<1>. QED
  BY <1>1, <1>2, <1>3, PoolInvariant, PTL DEF Spec
=============================================================================
