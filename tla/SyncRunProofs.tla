--------------------------- MODULE SyncRunProofs ---------------------------
(***************************************************************************)
(* Theorems about SyncLock and SyncRun, for any processes, plan and        *)
(* bounds.  The lock: its types, who may lose it and how that shows, and   *)
(* that prompt runs exclude each other.  The runner: the lock inside it    *)
(* behaves as SyncLock says, so those theorems hold of it; its types; runs *)
(* stay apart; the step rows and the status of a run agree; and the        *)
(* ledgers implement RunBook.                                              *)
(***************************************************************************)
EXTENDS SyncRun, SequenceTheorems, TLAPS

-----------------------------------------------------------------------------
(* SyncLock: type correctness.                                             *)

\* Ages never leave 0 .. TTL + 1: what Tick writes into the row and the stamps.
LEMMA OlderIsAge ==
  ASSUME NEW a \in Ages
  PROVE  Older(a) \in Ages
BY LockAssumption DEF Ages, Older

LEMMA InitTyped == LockInit => LockTypeOK
<1> SUFFICES ASSUME LockInit PROVE LockTypeOK
  OBVIOUS
<1>1. lock \in [owner : Procs \cup {None}, age : Ages]
  BY LockAssumption DEF LockInit, NoLock, Ages
<1>2. phase \in [Procs -> {"idle", "taking", "inside"}]
  BY DEF LockInit
<1>3. seen \in [Procs -> Procs \cup {None}] /\ stamp \in [Procs -> Ages]
  BY LockAssumption DEF LockInit, Ages
<1>4. late \in BOOLEAN
  BY DEF LockInit
<1> QED BY <1>1, <1>2, <1>3, <1>4 DEF LockInit, LockTypeOK

\* A write of acquire() leaves everything but the audit log well typed.
LEMMA EnterTyped ==
  ASSUME LockTypeOK, NEW p \in Procs, Enter(p),
         audit' \in SUBSET [by : Procs, from : Procs]
  PROVE  LockTypeOK'
BY LockAssumption DEF LockTypeOK, Enter, Forget, Ages

LEMMA TickTyped ==
  ASSUME LockTypeOK, Tick
  PROVE  LockTypeOK'
<1>1. lock' \in [owner : Procs \cup {None}, age : Ages]
  <2>1. CASE Held
    BY <2>1, OlderIsAge DEF LockTypeOK, Tick
  <2>2. CASE ~Held
    BY <2>2 DEF LockTypeOK, Tick
  <2> QED BY <2>1, <2>2
<1>2. stamp' \in [Procs -> Ages]
  BY OlderIsAge DEF LockTypeOK, Tick
<1> QED BY <1>1, <1>2 DEF LockTypeOK, Tick

LEMMA StepTyped ==
  ASSUME LockTypeOK, NEW p \in Procs, LockStep(p)
  PROVE  LockTypeOK'
<1>1. CASE Refused(p)
  BY <1>1 DEF LockTypeOK, Refused, lockVars
<1>2. CASE Look(p)
  BY <1>2, LockAssumption DEF LockTypeOK, Look, Ages
<1>3. CASE TakeOver(p)
  <2>1. [by |-> p, from |-> seen[p]] \in [by : Procs, from : Procs]
    BY <1>3 DEF LockTypeOK, TakeOver
  <2> QED BY <1>3, <2>1, EnterTyped DEF LockTypeOK, TakeOver
<1>4. CASE TakeFree(p)
  BY <1>4, EnterTyped DEF LockTypeOK, TakeFree
<1>5. CASE TakeRefused(p) \/ TakeBlocked(p)
  BY <1>5, LockAssumption DEF LockTypeOK, TakeRefused, TakeBlocked, Forget, Ages
<1>6. CASE Heartbeat(p)
  BY <1>6, LockAssumption DEF LockTypeOK, Heartbeat, Ages
<1>7. CASE Release(p)
  BY <1>7, LockAssumption DEF LockTypeOK, Release, NoLock, Ages
<1>8. CASE Crash(p) \/ Leak(p)
  BY <1>8, LockAssumption DEF LockTypeOK, Crash, Leak, Vanish, Forget, Ages
<1> QED BY <1>1, <1>2, <1>3, <1>4, <1>5, <1>6, <1>7, <1>8 DEF LockStep

\* Whatever the processes, the clock and the faults do, the lock row, the audit
\* log and the local variables of acquire() keep their types.
THEOREM LockTypeCorrect == LockSpec => []LockTypeOK
<1>1. LockTypeOK /\ [LockNext]_lockVars => LockTypeOK'
  <2> SUFFICES ASSUME LockTypeOK, [LockNext]_lockVars PROVE LockTypeOK'
    OBVIOUS
  <2>1. CASE Tick
    BY <2>1, TickTyped
  <2>2. CASE \E p \in Procs : LockStep(p)
    BY <2>2, StepTyped
  <2>3. CASE UNCHANGED lockVars
    BY <2>3 DEF LockTypeOK, lockVars
  <2> QED BY <2>1, <2>2, <2>3 DEF LockNext
<1> QED BY <1>1, InitTyped, PTL DEF LockSpec

-----------------------------------------------------------------------------
(* Who may lose the lock, and how it shows.  RobbedIsAudited is inductive: *)
(* only TakeOver writes a row over another one.                            *)

LEMMA StepAudited ==
  ASSUME LockTypeOK, RobbedIsAudited, NEW p \in Procs, LockStep(p)
  PROVE  RobbedIsAudited'
<1> USE LockAssumption DEF RobbedIsAudited, Inside, Owns, Held, LockTypeOK
<1>1. CASE Refused(p) \/ Look(p)
  BY <1>1 DEF Refused, Look, lockVars
<1>2. CASE TakeOver(p)
  <2>1. [by |-> p, from |-> seen[p]] \in audit'
    BY <1>2 DEF TakeOver
  <2> SUFFICES ASSUME NEW q \in Procs, Inside(q)', ~Owns(q)'
               PROVE  \E a \in audit' : a.by # q
    OBVIOUS
  <2>2. q # p
    BY <1>2 DEF TakeOver, Enter
  <2> QED BY <2>1, <2>2
<1>3. CASE TakeFree(p)
  <2> SUFFICES ASSUME NEW q \in Procs, Inside(q)', ~Owns(q)'
               PROVE  \E a \in audit' : a.by # q
    OBVIOUS
  <2>1. q # p /\ Inside(q) /\ ~Owns(q)
    BY <1>3 DEF TakeFree, Enter
  <2> QED BY <1>3, <2>1 DEF TakeFree
<1>4. CASE TakeRefused(p) \/ TakeBlocked(p)
  BY <1>4 DEF TakeRefused, TakeBlocked
<1>5. CASE Heartbeat(p)
  BY <1>5 DEF Heartbeat
<1>6. CASE Release(p)
  BY <1>6 DEF Release, NoLock
<1>7. CASE Crash(p) \/ Leak(p)
  BY <1>7 DEF Crash, Leak, Vanish
<1> QED BY <1>1, <1>2, <1>3, <1>4, <1>5, <1>6, <1>7 DEF LockStep

\* A run only ever loses its lock to a takeover that is on record.
THEOREM RobberiesAreAudited == LockSpec => []RobbedIsAudited
<1>1. LockInit => RobbedIsAudited
  BY DEF LockInit, RobbedIsAudited, Inside
<1>2. LockTypeOK /\ RobbedIsAudited /\ [LockNext]_lockVars => RobbedIsAudited'
  <2> SUFFICES ASSUME LockTypeOK, RobbedIsAudited, [LockNext]_lockVars
               PROVE  RobbedIsAudited'
    OBVIOUS
  <2>1. CASE Tick
    BY <2>1 DEF Tick, RobbedIsAudited, Inside, Owns, Held, LockTypeOK
  <2>2. CASE \E p \in Procs : LockStep(p)
    BY <2>2, StepAudited
  <2>3. CASE UNCHANGED lockVars
    BY <2>3 DEF lockVars, RobbedIsAudited, Inside, Owns
  <2> QED BY <2>1, <2>2, <2>3 DEF LockNext
<1> QED BY <1>1, <1>2, LockTypeCorrect, PTL DEF LockSpec

\* Two syncs at once are never a silent failure: without a stale_lock_recovered
\* row in audit_log, runs have excluded each other.
THEOREM ExclusionWithoutTakeover == LockSpec => []NoTakeoverExclusion
<1>1. RobbedIsAudited => NoTakeoverExclusion
  BY DEF RobbedIsAudited, NoTakeoverExclusion, MutualExclusion, Owns
<1> QED BY <1>1, RobberiesAreAudited, PTL

-----------------------------------------------------------------------------
(* Prompt processes that neither crash nor leak exclude each other.        *)

Clean == ~late /\ crashes = 0 /\ leaks = 0

\* The strengthening of PromptExclusion: the row belongs to a live run and is
\* fresh, so no SELECT of acquire() ever finds a stale row to take over.
PromptInv ==
  Clean => /\ audit = {}
           /\ Held => Inside(lock.owner) /\ lock.age <= TTL
           /\ \A p \in Procs : /\ Inside(p) => Owns(p)
                               /\ seen[p] = None
                               /\ stamp[p] <= TTL

LEMMA StepPrompt ==
  ASSUME LockTypeOK, PromptInv, NEW p \in Procs, LockStep(p)
  PROVE  PromptInv'
<1> SUFFICES ASSUME Clean'
             PROVE  /\ audit' = {}
                    /\ Held' => Inside(lock.owner)' /\ lock'.age <= TTL
                    /\ \A q \in Procs : /\ Inside(q)' => Owns(q)'
                                        /\ seen'[q] = None
                                        /\ stamp'[q] <= TTL
  BY DEF PromptInv
<1>0. Clean /\ ~Crash(p) /\ ~Leak(p)
  <2>1. crashes \in Nat /\ leaks \in Nat
    BY DEF LockTypeOK
  <2>2. ~Crash(p) /\ ~Leak(p)
    BY <2>1 DEF Clean, Crash, Leak
  <2> QED
    BY <2>2 DEF Clean, LockStep, Refused, Look, TakeOver, TakeFree, TakeRefused,
       TakeBlocked, Heartbeat, Release, Enter, lockVars
<1> USE <1>0, LockAssumption DEF PromptInv, Inside, Owns, Held, LockTypeOK, Ages
<1>1. CASE Refused(p)
  BY <1>1 DEF Refused, lockVars
<1>2. CASE Look(p)
  BY <1>2 DEF Look, Fresh
<1>3. CASE TakeOver(p)
  BY <1>3 DEF TakeOver
<1>4. CASE TakeFree(p)
  BY <1>4 DEF TakeFree, Enter, Forget
<1>5. CASE TakeRefused(p) \/ TakeBlocked(p)
  BY <1>5 DEF TakeRefused, TakeBlocked, Forget
<1>6. CASE Heartbeat(p)
  BY <1>6 DEF Heartbeat
<1>7. CASE Release(p)
  BY <1>7 DEF Release, NoLock
<1> QED BY <1>0, <1>1, <1>2, <1>3, <1>4, <1>5, <1>6, <1>7 DEF LockStep

LEMMA TickPrompt ==
  ASSUME LockTypeOK, PromptInv, Tick
  PROVE  PromptInv'
<1> SUFFICES ASSUME Clean, Clean'
             PROVE  /\ audit' = {}
                    /\ Held' => Inside(lock.owner)' /\ lock'.age <= TTL
                    /\ \A q \in Procs : /\ Inside(q)' => Owns(q)'
                                        /\ seen'[q] = None
                                        /\ stamp'[q] <= TTL
  BY DEF PromptInv, Clean, Tick
<1> USE LockAssumption DEF PromptInv, Inside, Owns, Held, LockTypeOK, Ages
<1>1. NobodyOverdue
  BY DEF Tick, Clean
<1>2. lock'.owner = lock.owner /\ (Held => lock'.age <= TTL)
  BY <1>1 DEF Tick, NobodyOverdue, Older
<1>3. \A q \in Procs : stamp'[q] <= TTL
  BY <1>1 DEF Tick, NobodyOverdue, Older
<1> QED BY <1>2, <1>3 DEF Tick

LEMMA PromptInvariant == LockSpec => []PromptInv
<1>1. LockInit => PromptInv
  BY LockAssumption DEF LockInit, PromptInv, Inside, Held, NoLock
<1>2. LockTypeOK /\ PromptInv /\ [LockNext]_lockVars => PromptInv'
  <2> SUFFICES ASSUME LockTypeOK, PromptInv, [LockNext]_lockVars PROVE PromptInv'
    OBVIOUS
  <2>1. CASE Tick
    BY <2>1, TickPrompt
  <2>2. CASE \E p \in Procs : LockStep(p)
    BY <2>2, StepPrompt
  <2>3. CASE UNCHANGED lockVars
    BY <2>3 DEF lockVars, PromptInv, Clean, Inside, Owns, Held
  <2> QED BY <2>1, <2>2, <2>3 DEF LockNext
<1> QED BY <1>1, <1>2, LockTypeCorrect, PTL DEF LockSpec

\* Runs that report within the TTL and do not crash exclude each other: it takes
\* a crash, a leak or a step longer than the TTL to make two runs overlap.
THEOREM PromptRunsExclude == LockSpec => []PromptExclusion
<1>1. PromptInv => PromptExclusion
  BY DEF PromptInv, Clean, PromptExclusion, MutualExclusion, Owns
<1> QED BY <1>1, PromptInvariant, PTL

-----------------------------------------------------------------------------
(* A robbed run does no harm to the lock.                                  *)

\* A run that lost its lock leaves the row of the run that took it alone.
THEOREM RobbedRunsAreInert == LockSpec => RobbedIsInert
<1>1. LockTypeOK /\ [LockNext]_lockVars =>
        [\A p \in Procs :
           Inside(p) /\ ~Owns(p) /\ phase'[p] # phase[p] => lock' = lock]_lockVars
  <2> SUFFICES ASSUME LockTypeOK, LockNext, NEW q \in Procs,
                      Inside(q), ~Owns(q), phase'[q] # phase[q]
               PROVE  lock' = lock
    BY DEF lockVars
  <2>1. ~Tick
    BY DEF Tick
  <2>2. PICK p \in Procs : LockStep(p)
    BY <2>1 DEF LockNext
  <2>3. p = q
    BY <2>2 DEF LockTypeOK, LockStep, Refused, Look, TakeOver, TakeFree, TakeRefused,
       TakeBlocked, Heartbeat, Release, Crash, Leak, Vanish, Enter, lockVars
  <2>4. Release(q) \/ Crash(q) \/ Leak(q)
    BY <2>2, <2>3 DEF LockTypeOK, Inside, LockStep, Refused, Look, TakeOver, TakeFree,
       TakeRefused, TakeBlocked, Heartbeat, lockVars
  <2> QED BY <2>4 DEF Release, Crash, Leak, Vanish
<1> QED BY <1>1, LockTypeCorrect, PTL DEF LockSpec, RobbedIsInert
-----------------------------------------------------------------------------
(* The runner.                                                             *)

RunStep(p) == Ask(p) \/ Proceed(p) \/ Mishap(p)

-----------------------------------------------------------------------------
(* Refinement of SyncLock.                                                 *)

\* What run_sync() does to the lock is one of the operations of locks.py, or
\* nothing at all.
LEMMA StepUsesLock ==
  ASSUME NEW p \in Procs, RunStep(p)
  PROVE  [LockStep(p)]_lockVars
<1>1. CASE Ask(p)
  BY <1>1 DEF Ask, LockStep
<1>2. CASE Proceed(p)
  BY <1>2 DEF Proceed, Acquire, AcquireFails, StartRun, SkipIdentity, OpenStep,
     StepSucceeds, StepFails, Beat, RecordFailure, LeaveFailed, LeaveDone, Finish, LockStep
<1>3. CASE Mishap(p)
  BY <1>3 DEF Mishap, StartRunFails, CloseFails, BeatFails, LeaveFails, Cancel, Die, LockStep
<1> QED BY <1>1, <1>2, <1>3 DEF RunStep

\* Every behaviour of the runner is, for the lock, a behaviour of SyncLock.
THEOREM RunImplementsLock == RunSpec => LockSpec
<1>1. RunInit => LockInit
  BY DEF RunInit
<1>2. [RunNext]_runVars => [LockNext]_lockVars
  <2>1. CASE Elapse
    BY <2>1 DEF Elapse, LockNext
  <2>2. ASSUME NEW p \in Procs, RunStep(p) PROVE [LockNext]_lockVars
    BY <2>2, StepUsesLock DEF LockNext
  <2>3. CASE UNCHANGED runVars
    BY <2>3 DEF runVars, lockVars
  <2> QED BY <2>1, <2>2, <2>3 DEF RunNext, RunStep
<1> QED BY <1>1, <1>2, PTL DEF RunSpec, LockSpec

\* Two sync runs at once always show as a stale_lock_recovered row.
THEOREM RunsExcludeWithoutTakeover == RunSpec => []NoTakeoverExclusion
BY RunImplementsLock, ExclusionWithoutTakeover, PTL

\* The row of a process that is not inside was left by a crash or a leak.
OrphanInv == crashes = 0 /\ leaks = 0 => (Held => Inside(lock.owner))

LEMMA OrphanInvariant == LockSpec => []OrphanInv
<1> USE DEF OrphanInv, Held, Inside
<1>1. LockInit => OrphanInv
  BY DEF LockInit, NoLock
<1>2. LockTypeOK /\ OrphanInv /\ [LockNext]_lockVars => OrphanInv'
  <2> SUFFICES ASSUME LockTypeOK, OrphanInv, [LockNext]_lockVars PROVE OrphanInv'
    OBVIOUS
  <2> USE DEF LockTypeOK
  <2>1. CASE Tick
    BY <2>1 DEF Tick
  <2>2. CASE UNCHANGED lockVars
    BY <2>2 DEF lockVars
  <2>3. ASSUME NEW p \in Procs, LockStep(p) PROVE OrphanInv'
    <3>1. CASE Refused(p) \/ Look(p)
      BY <3>1 DEF Refused, Look, lockVars
    <3>2. CASE TakeOver(p) \/ TakeFree(p)
      BY <3>2 DEF TakeOver, TakeFree, Enter
    <3>3. CASE TakeRefused(p) \/ TakeBlocked(p)
      BY <3>3 DEF TakeRefused, TakeBlocked
    <3>4. CASE Heartbeat(p)
      BY <3>4 DEF Heartbeat
    <3>5. CASE Release(p)
      BY <3>5 DEF Release, NoLock, Owns
    <3>6. CASE Crash(p) \/ Leak(p)
      BY <3>6 DEF Crash, Leak
    <3> QED BY <2>3, <3>1, <3>2, <3>3, <3>4, <3>5, <3>6 DEF LockStep
  <2> QED BY <2>1, <2>2, <2>3 DEF LockNext
<1> QED BY <1>1, <1>2, LockTypeCorrect, PTL DEF LockSpec

\* The finally block does its work on every path through the runner: without
\* crashes and leaks, a quiet system has a free lock.
THEOREM RunsLeaveLockFree == RunSpec => []FreeWhenQuiet
<1>1. LockTypeOK /\ OrphanInv => FreeWhenQuiet
  BY DEF LockTypeOK, OrphanInv, FreeWhenQuiet, Quiet, Held
<1> QED BY <1>1, RunImplementsLock, OrphanInvariant, LockTypeCorrect, PTL

-----------------------------------------------------------------------------
(* Types.                                                                  *)

\* Writing a member of S into a place of a sequence, or beside it.
LEMMA WriteSeq ==
  ASSUME NEW S, NEW s \in Seq(S), NEW i, NEW v, i \in 1 .. Len(s) => v \in S
  PROVE  /\ [s EXCEPT ![i] = v] \in Seq(S)
         /\ Len([s EXCEPT ![i] = v]) = Len(s)
<1>1. CASE i \in 1 .. Len(s)
  BY <1>1, ExceptSeq
<1>2. CASE i \notin 1 .. Len(s)
  <2>1. [s EXCEPT ![i] = v] = s
    BY <1>2
  <2> QED BY <2>1
<1> QED BY <1>1, <1>2

\* The two ways in which the ledgers are written.
LEMMA RowWritten ==
  ASSUME RunTypeOK, NEW p \in Procs, NEW v \in RowStatus, RowIs(p, v)
  PROVE  rows' \in Seq([Steps -> RowStatus]) /\ Len(rows') = Len(rows)
<1> DEFINE row == [rows[run[p]] EXCEPT ![at[p]] = v]
<1>1. ASSUME run[p] \in 1 .. Len(rows) PROVE row \in [Steps -> RowStatus]
  <2>1. rows[run[p]] \in [Steps -> RowStatus]
    BY <1>1 DEF RunTypeOK
  <2> HIDE DEF RowStatus
  <2> QED BY <2>1
<1>2. rows' = [rows EXCEPT ![run[p]] = row]
  BY DEF RowIs
<1>3. rows \in Seq([Steps -> RowStatus])
  BY DEF RunTypeOK
<1> HIDE DEF row
<1> QED BY <1>1, <1>2, <1>3, WriteSeq

LEMMA JobWritten ==
  ASSUME RunTypeOK, NEW p \in Procs, NEW v \in JobStatus, JobIs(p, v)
  PROVE  jobs' \in Seq(JobStatus) /\ Len(jobs') = Len(jobs)
<1>1. jobs' = [jobs EXCEPT ![run[p]] = v] /\ jobs \in Seq(JobStatus)
  BY DEF RunTypeOK, JobIs
<1> HIDE DEF JobStatus
<1> QED BY <1>1, WriteSeq

\* After a step the process moves on to the heartbeat or to the next step.
LEMMA CarryOnTyped ==
  ASSUME RunTypeOK, NEW p \in Procs, CarryOn(p)
  PROVE  stage' \in [Procs -> Stages] /\ at' \in [Procs -> Nat]
<1>0. stage \in [Procs -> Stages] /\ at \in [Procs -> Nat]
  BY DEF RunTypeOK
<1>1. (GoTo(p, "beat") /\ at' = at) \/ (GoTo(p, "step") /\ NextStep(p))
  BY DEF CarryOn
<1>2. stage' \in [Procs -> Stages]
  BY <1>0, <1>1 DEF GoTo, Stages
<1>3. at' \in [Procs -> Nat]
  BY <1>0, <1>1 DEF NextStep
<1> QED BY <1>2, <1>3

LEMMA StepRunTyped ==
  ASSUME RunTypeOK, LockTypeOK', NEW p \in Procs, RunStep(p)
  PROVE  RunTypeOK'
<1> USE DEF RunTypeOK, JobStatus, RowStatus, Stages
<1>1. CASE Ask(p)
  BY <1>1 DEF Ask
<1>2. CASE Acquire(p)
  BY <1>2 DEF Acquire, GoTo
<1>3. CASE AcquireFails(p)
  BY <1>3 DEF AcquireFails
<1>4. CASE StartRun(p)
  <2>1. [i \in Steps |-> "absent"] \in [Steps -> RowStatus]
    OBVIOUS
  <2> QED BY <1>4, <2>1 DEF StartRun, GoTo
<1>5. CASE SkipIdentity(p)
  BY <1>5 DEF SkipIdentity, NextStep
<1>6. CASE OpenStep(p)
  <2>1. errors' \in Nat /\ cancels' \in Nat
    BY <1>6 DEF OpenStep, Error, NoError
  <2>2. rows' \in Seq([Steps -> RowStatus]) /\ Len(rows') = Len(rows)
    BY <1>6, RowWritten DEF OpenStep
  <2> QED BY <1>6, <2>1, <2>2 DEF OpenStep, GoTo
<1>7. CASE StepSucceeds(p)
  <2>1. rows' \in Seq([Steps -> RowStatus]) /\ Len(rows') = Len(rows)
    BY <1>7, RowWritten DEF StepSucceeds
  <2>2. stage' \in [Procs -> Stages] /\ at' \in [Procs -> Nat]
    BY <1>7, CarryOnTyped DEF StepSucceeds
  <2> QED BY <1>7, <2>1, <2>2 DEF StepSucceeds
<1>8. CASE StepFails(p)
  <2>1. rows' \in Seq([Steps -> RowStatus]) /\ Len(rows') = Len(rows)
    BY <1>8, RowWritten DEF StepFails
  <2>2. stage' \in [Procs -> Stages] /\ at' \in [Procs -> Nat]
    <3>1. CASE Plan[at[p]] \in Swallowed
      BY <1>8, <3>1, CarryOnTyped DEF StepFails
    <3>2. CASE Plan[at[p]] \notin Swallowed
      BY <1>8, <3>2 DEF StepFails, GoTo
    <3> QED BY <3>1, <3>2
  <2> QED BY <1>8, <2>1, <2>2 DEF StepFails
<1>9. CASE Beat(p)
  BY <1>9 DEF Beat, GoTo, NextStep
<1>10. CASE RecordFailure(p)
  <2>1. jobs' \in Seq(JobStatus) /\ Len(jobs') = Len(jobs)
    BY <1>10, JobWritten DEF RecordFailure
  <2> QED BY <1>10, <2>1 DEF RecordFailure, GoTo, Error, NoError
<1>11. CASE LeaveFailed(p)
  BY <1>11 DEF LeaveFailed, Gone, GoTo
<1>12. CASE LeaveDone(p)
  BY <1>12 DEF LeaveDone, GoTo
<1>13. CASE Finish(p)
  <2>1. OverallStatus({RowsOf(p)[i] : i \in Steps} \ {"absent"}) \in JobStatus
    BY DEF OverallStatus
  <2>2. jobs' \in Seq(JobStatus) /\ Len(jobs') = Len(jobs)
    BY <1>13, <2>1, JobWritten DEF Finish
  <2> QED BY <1>13, <2>2 DEF Finish, Gone, GoTo, Error, NoError
<1>14. CASE StartRunFails(p)
  BY <1>14 DEF StartRunFails, Gone, GoTo
<1>15. CASE CloseFails(p)
  BY <1>15 DEF CloseFails, Error, GoTo
<1>16. CASE BeatFails(p)
  BY <1>16 DEF BeatFails, Error, GoTo
<1>17. CASE LeaveFails(p)
  BY <1>17 DEF LeaveFails, Gone, GoTo
<1>18. CASE Cancel(p)
  BY <1>18 DEF Cancel, Gone, GoTo
<1>19. CASE Die(p)
  BY <1>19 DEF Die, Gone, GoTo, Error, NoError
<1> QED BY <1>1, <1>2, <1>3, <1>4, <1>5, <1>6, <1>7, <1>8, <1>9, <1>10,
           <1>11, <1>12, <1>13, <1>14, <1>15, <1>16, <1>17, <1>18, <1>19
        DEF RunStep, Proceed, Mishap

\* The two ledgers stay in step and every row and local variable keeps its type.
THEOREM RunTypeCorrect == RunSpec => []RunTypeOK
<1>1. RunInit /\ LockTypeOK => RunTypeOK
  BY DEF RunInit, RunTypeOK, Stages
<1>2. RunTypeOK /\ LockTypeOK' /\ [RunNext]_runVars => RunTypeOK'
  <2> SUFFICES ASSUME RunTypeOK, LockTypeOK', [RunNext]_runVars PROVE RunTypeOK'
    OBVIOUS
  <2>1. CASE Elapse
    BY <2>1 DEF Elapse, RunTypeOK
  <2>2. ASSUME NEW p \in Procs, RunStep(p) PROVE RunTypeOK'
    BY <2>2, StepRunTyped
  <2>3. CASE UNCHANGED runVars
    BY <2>3 DEF runVars, RunTypeOK
  <2> QED BY <2>1, <2>2, <2>3 DEF RunNext, RunStep
<1>3. RunSpec => []LockTypeOK
  BY RunImplementsLock, LockTypeCorrect, PTL
<1> QED BY <1>1, <1>2, <1>3, PTL DEF RunSpec

-----------------------------------------------------------------------------
(* Runs stay apart.                                                        *)

\* The strengthening of RunsAreApart: nobody has a run that was not started,
\* and nobody has one before it has started its own.
ApartInv ==
  /\ RunsAreApart
  /\ \A p \in Procs : /\ run[p] \in 0 .. Len(jobs)
                      /\ stage[p] \in {"none", "start"} => run[p] = 0
                      /\ phase[p] = "taking" => stage[p] = "none"

\* A process that leaves its run disturbs nobody.
LEMMA GoneApart ==
  ASSUME RunTypeOK, ApartInv, NEW p \in Procs, Gone(p), Len(jobs') = Len(jobs),
         phase' = phase \/ phase' = [phase EXCEPT ![p] = "idle"]
  PROVE  ApartInv'
<1> USE DEF ApartInv, RunTypeOK, LockTypeOK, Gone, GoTo
<1>1. RunsAreApart'
  BY DEF RunsAreApart, Working
<1>2. ASSUME NEW q \in Procs
      PROVE  /\ run'[q] \in 0 .. Len(jobs')
             /\ stage'[q] \in {"none", "start"} => run'[q] = 0
             /\ phase'[q] = "taking" => stage'[q] = "none"
  <2>1. CASE q = p
    BY <2>1
  <2>2. CASE q # p
    BY <2>2
  <2> QED BY <2>1, <2>2
<1> QED BY <1>1, <1>2

LEMMA StepApart ==
  ASSUME RunTypeOK, ApartInv, NEW p \in Procs, RunStep(p)
  PROVE  ApartInv'
<1> USE DEF ApartInv, RunsAreApart, Working, RunTypeOK, LockTypeOK
<1>1. CASE Ask(p)
  BY <1>1 DEF Ask, Refused, Look, lockVars
<1>2. CASE Acquire(p) \/ AcquireFails(p)
  BY <1>2 DEF Acquire, AcquireFails, GoTo, TakeOver, TakeFree, TakeRefused, TakeBlocked, Enter
<1>3. CASE StartRun(p)
  BY <1>3 DEF StartRun, GoTo, lockVars
<1>4. CASE SkipIdentity(p) \/ OpenStep(p)
  BY <1>4 DEF SkipIdentity, OpenStep, RowIs, GoTo, lockVars
<1>5. CASE StepSucceeds(p) \/ StepFails(p)
  BY <1>5 DEF StepSucceeds, StepFails, CarryOn, GoTo, lockVars
<1>6. CASE Beat(p)
  BY <1>6 DEF Beat, Heartbeat, GoTo
<1>7. CASE RecordFailure(p)
  BY <1>7 DEF RecordFailure, JobIs, GoTo, lockVars
<1>8. CASE LeaveFailed(p)
  BY <1>8, GoneApart DEF LeaveFailed, Release
<1>13. CASE LeaveDone(p)
  BY <1>13 DEF LeaveDone, GoTo, Release
<1>9. CASE StartRunFails(p) \/ LeaveFails(p)
  BY <1>9, GoneApart DEF StartRunFails, LeaveFails, Leak, Vanish
<1>10. CASE Finish(p)
  BY <1>10, GoneApart DEF Finish, JobIs, lockVars
<1>11. CASE CloseFails(p) \/ BeatFails(p)
  BY <1>11 DEF CloseFails, BeatFails, GoTo, lockVars
<1>12. CASE Cancel(p) \/ Die(p)
  <2>1. jobs' = jobs /\ Gone(p)
    BY <1>12 DEF Cancel, Die
  <2>2. phase' = phase \/ phase' = [phase EXCEPT ![p] = "idle"]
    BY <1>12 DEF Cancel, Die, Release, Crash, Vanish, lockVars
  <2> QED BY <2>1, <2>2, GoneApart
<1> QED BY <1>1, <1>2, <1>3, <1>4, <1>5, <1>6, <1>7, <1>8, <1>9, <1>10, <1>11, <1>12, <1>13
        DEF RunStep, Proceed, Mishap

LEMMA ApartInvariant == RunSpec => []ApartInv
<1>1. RunInit => ApartInv
  BY DEF RunInit, LockInit, ApartInv, RunsAreApart, Working
<1>2. RunTypeOK /\ ApartInv /\ [RunNext]_runVars => ApartInv'
  <2> SUFFICES ASSUME RunTypeOK, ApartInv, [RunNext]_runVars PROVE ApartInv'
    OBVIOUS
  <2>1. CASE Elapse
    BY <2>1 DEF Elapse, Tick, ApartInv, RunsAreApart, Working
  <2>2. ASSUME NEW p \in Procs, RunStep(p) PROVE ApartInv'
    BY <2>2, StepApart
  <2>3. CASE UNCHANGED runVars
    BY <2>3 DEF runVars, lockVars, ApartInv, RunsAreApart, Working
  <2> QED BY <2>1, <2>2, <2>3 DEF RunNext, RunStep
<1> QED BY <1>1, <1>2, RunTypeCorrect, PTL DEF RunSpec

\* Even runs that overlap never share a sync_jobs row, nor its step rows.
THEOREM RunsStayApart == RunSpec => []RunsAreApart
<1>1. ApartInv => RunsAreApart
  BY DEF ApartInv
<1> QED BY <1>1, ApartInvariant, PTL

-----------------------------------------------------------------------------
(* The ledgers.  The inductive invariant ties the place of a process in    *)
(* run_sync() to the rows of its run: the steps it has passed are settled, *)
(* those ahead of it have no row, and the row in between is as the place   *)
(* says.  A run nobody works on keeps what it was left with.               *)

\* The steps of run i before the n-th are over, the derived ones successfully.
Settled(i, n) ==
  \A s \in Steps : s < n =>
    /\ rows[i][s] # "running"
    /\ Plan[s] \in DerivedKinds => rows[i][s] = "succeeded"

\* The steps of run i from the n-th on have no row.
Blank(i, n) == \A s \in Steps : s >= n => rows[i][s] = "absent"

Failing(p) == stage[p] \in {"fail", "leave"}

\* Where p is in run_sync(), and what its run looks like there.
PlaceInv(p) ==
  /\ Working(p) <=> stage[p] \notin {"none", "start"}
  /\ Working(p) =>
       /\ at[p] \in 1 .. Len(Plan) + 1
       /\ stage[p] \in {"work", "beat", "fail", "leave"} => at[p] \in Steps
       /\ stage[p] = "finish" => at[p] \notin Steps
       /\ Settled(run[p], at[p]) /\ Blank(run[p], at[p] + 1)
       /\ jobs[run[p]] = "running" \/ (stage[p] = "leave" /\ jobs[run[p]] = "failed")
       /\ stage[p] = "step" => Blank(run[p], at[p])
       /\ stage[p] = "work" => RowsOf(p)[at[p]] = "running"
       /\ stage[p] = "beat" =>
            Plan[at[p]] \in Beating /\ RowsOf(p)[at[p]] \in {"succeeded", "failed"}
       /\ Failing(p) /\ RowsOf(p)[at[p]] = "succeeded" => Plan[at[p]] \notin DerivedKinds
       /\ Failing(p) /\ Undisturbed => RowsOf(p)[at[p]] # "running"
       /\ stage[p] = "leave" /\ Undisturbed => jobs[run[p]] = "failed"

\* StepsInOrder and PublishedIsComplete, of one run.
OneAtATime(i) ==
  \A s, t \in Steps : s < t /\ rows[i][s] = "running" => rows[i][t] = "absent"

Borne(i) ==
  Published(i) =>
    /\ \A s \in Steps : Plan[s] \in DerivedKinds => rows[i][s] = "succeeded"
    /\ jobs[i] = "partial" <=> \E s \in Steps : rows[i][s] = "failed"

Closed(i) == jobs[i] # "running" /\ \A s \in Steps : rows[i][s] # "running"

\* Without a mishap, a run is closed or somebody works on it.
Cared(i) == Undisturbed => Closed(i) \/ \E p \in Procs : run[p] = i

RunInv(i) == OneAtATime(i) /\ Borne(i) /\ Cared(i)

LedgerInv ==
  /\ \A p \in Procs : PlaceInv(p)
  /\ \A i \in 1 .. Len(jobs) : RunInv(i)

\* A kind of step repeated for each configured instance.
LEMMA TimesSeq ==
  ASSUME NEW S, NEW kind \in S, NEW n \in Nat
  PROVE  Times(n, kind) \in Seq(S)
<1>1. Times(n, kind) \in [1 .. n -> S]
  BY DEF Times
<1> QED BY <1>1, SeqDef

\* The plan ends with the dashboard snapshot, and a step whose error is not
\* swallowed is a derived one.
LEMMA PlanShape ==
  /\ Len(Plan) \in Nat
  /\ Len(Plan) \in Steps
  /\ Plan[Len(Plan)] = "dashboard_snapshot"
  /\ \A s \in Steps : Plan[s] \in Swallowed \cup DerivedKinds
<1> DEFINE Kinds == Swallowed \cup DerivedKinds
           A == Times(ArrCount, "arr")
           B == IF HasTautulli THEN <<"plex_inventory", "tautulli_history">> ELSE << >>
           C == Times(RequesterCount, "requester")
           D == IF HasTautulli /\ RequesterCount > 0 THEN <<"user_identity_map">> ELSE << >>
           E == <<"request_attribution", "watch_state", "candidates", "dashboard_snapshot">>
<1>1. A \in Seq(Kinds) /\ C \in Seq(Kinds)
  BY RunAssumption, TimesSeq DEF Swallowed, Beating
<1>2. B \in Seq(Kinds) /\ D \in Seq(Kinds)
  <2>1. /\ <<"plex_inventory", "tautulli_history">> \in Seq(Kinds)
        /\ <<"user_identity_map">> \in Seq(Kinds)
        /\ << >> \in Seq(Kinds)
    BY DEF Swallowed, Beating
  <2> QED BY <2>1
<1>3. E \in Seq(Kinds) /\ Len(E) = 4 /\ E[4] = "dashboard_snapshot"
  BY DEF DerivedKinds
<1>4. Plan = A \o B \o C \o D \o E
  BY DEF Plan
<1> HIDE DEF A, B, C, D, E, Kinds
<1> DEFINE F == A \o B \o C \o D
<1>5. F \in Seq(Kinds)
  BY <1>1, <1>2, ConcatProperties
<1>6. Plan = F \o E
  BY <1>4
<1> HIDE DEF F
<1>7. /\ Plan \in Seq(Kinds)
      /\ Len(Plan) = Len(F) + 4
      /\ \A i \in 1 .. Len(F) + 4 : Plan[i] = IF i <= Len(F) THEN F[i] ELSE E[i - Len(F)]
  <2>1. /\ Plan \in Seq(Kinds)
        /\ Len(Plan) = Len(F) + Len(E)
        /\ \A i \in 1 .. Len(F) + Len(E) : Plan[i] = IF i <= Len(F) THEN F[i] ELSE E[i - Len(F)]
    BY <1>3, <1>5, <1>6, ConcatProperties
  <2> QED BY <2>1, <1>3
<1>8. Len(F) \in Nat
  BY <1>5, LenProperties
<1>9. Plan[Len(Plan)] = "dashboard_snapshot"
  <2>1. Plan[Len(F) + 4] = E[(Len(F) + 4) - Len(F)]
    BY <1>7, <1>8
  <2>2. (Len(F) + 4) - Len(F) = 4
    BY <1>8
  <2> QED BY <2>1, <2>2, <1>3, <1>7
<1>10. \A s \in Steps : Plan[s] \in Kinds
  BY <1>7, ElementOfSeq DEF Steps
<1> QED BY <1>7, <1>8, <1>9, <1>10 DEF Steps, Kinds

\* What one write of a step row changes.
LEMMA RowWrites ==
  ASSUME RunTypeOK, NEW p \in Procs, NEW v, RowIs(p, v), run[p] \in 1 .. Len(jobs), at[p] \in Steps
  PROVE  /\ Len(rows') = Len(rows)
         /\ \A i \in 1 .. Len(jobs) : i # run[p] => rows'[i] = rows[i]
         /\ \A s \in Steps : rows'[run[p]][s] = IF s = at[p] THEN v ELSE rows[run[p]][s]
<1>1. rows' = [rows EXCEPT ![run[p]] = [rows[run[p]] EXCEPT ![at[p]] = v]]
  BY DEF RowIs
<1>2. /\ rows \in [1 .. Len(jobs) -> [Steps -> RowStatus]]
      /\ run[p] \in 1 .. Len(jobs)
      /\ rows \in Seq([Steps -> RowStatus])
      /\ Len(rows) = Len(jobs)
  BY DEF RunTypeOK
<1>3. rows[run[p]] \in [Steps -> RowStatus]
  BY <1>2
<1> HIDE DEF Steps, RowStatus
<1>4. /\ DOMAIN rows' = 1 .. Len(jobs) /\ rows'[run[p]] = [rows[run[p]] EXCEPT ![at[p]] = v]
      /\ \A i \in 1 .. Len(jobs) : i # run[p] => rows'[i] = rows[i]
  BY <1>1, <1>2
<1>5. Len(rows') = Len(rows)
  BY <1>1, <1>2
<1> QED BY <1>3, <1>4, <1>5

\* The same of the status of a job.
LEMMA JobWrites ==
  ASSUME RunTypeOK, NEW p \in Procs, NEW v, JobIs(p, v), run[p] \in 1 .. Len(jobs)
  PROVE  /\ Len(jobs') = Len(jobs)
         /\ jobs'[run[p]] = v
         /\ \A i \in 1 .. Len(jobs) : i # run[p] => jobs'[i] = jobs[i]
BY DEF RunTypeOK, JobIs

\* A step of one process is none of the others' business: it leaves their
\* place in run_sync() alone, and every run but its own.
LEMMA StepIsLocal ==
  ASSUME RunTypeOK, ApartInv, LedgerInv, NEW p \in Procs, RunStep(p)
  PROVE  /\ \A q \in Procs \ {p} : run'[q] = run[q] /\ stage'[q] = stage[q] /\ at'[q] = at[q]
         /\ Len(jobs') >= Len(jobs)
         /\ \A i \in 1 .. Len(jobs) : i # run[p] => jobs'[i] = jobs[i] /\ rows'[i] = rows[i]
<1>0. PlaceInv(p) /\ run[p] \in 0 .. Len(jobs) /\ Len(jobs) \in Nat /\ Len(rows) = Len(jobs)
  BY DEF LedgerInv, ApartInv, RunTypeOK
<1>1. /\ run \in [Procs -> Nat] /\ stage \in [Procs -> Stages] /\ at \in [Procs -> Nat]
      /\ jobs \in Seq(JobStatus) /\ rows \in Seq([Steps -> RowStatus])
  BY DEF RunTypeOK
<1> HIDE DEF JobStatus, RowStatus, Stages
<1>2. CASE Ask(p)
  BY <1>0, <1>2 DEF Ask
<1>3. CASE Acquire(p) \/ AcquireFails(p)
  BY <1>0, <1>1, <1>3 DEF Acquire, AcquireFails, GoTo
<1>4. CASE StartRun(p)
  BY <1>0, <1>1, <1>4 DEF StartRun, GoTo
<1>5. CASE SkipIdentity(p)
  BY <1>0, <1>1, <1>5 DEF SkipIdentity, NextStep
<1>6. CASE OpenStep(p) \/ StepSucceeds(p) \/ StepFails(p)
  <2>1. Working(p) /\ at[p] \in Steps /\ run[p] \in 1 .. Len(jobs)
    BY <1>0, <1>1, <1>6 DEF OpenStep, StepSucceeds, StepFails, PlaceInv, Working
  <2>2. jobs' = jobs /\ run' = run
    BY <1>6 DEF OpenStep, StepSucceeds, StepFails
  <2>3. \A i \in 1 .. Len(jobs) : i # run[p] => rows'[i] = rows[i]
    BY <1>6, <2>1, RowWrites DEF OpenStep, StepSucceeds, StepFails
  <2>4. \A q \in Procs \ {p} : stage'[q] = stage[q] /\ at'[q] = at[q]
    BY <1>1, <1>6 DEF OpenStep, StepSucceeds, StepFails, CarryOn, GoTo, NextStep
  <2> QED BY <1>0, <2>2, <2>3, <2>4
<1>7. CASE Beat(p)
  BY <1>0, <1>1, <1>7 DEF Beat, GoTo, NextStep
<1>8. CASE RecordFailure(p) \/ Finish(p)
  <2>1. Working(p) /\ run[p] \in 1 .. Len(jobs)
    BY <1>0, <1>8 DEF RecordFailure, Finish, PlaceInv, Working
  <2>2. Len(jobs') = Len(jobs) /\ \A i \in 1 .. Len(jobs) : i # run[p] => jobs'[i] = jobs[i]
    BY <1>8, <2>1, JobWrites DEF RecordFailure, Finish
  <2>3. rows' = rows
    BY <1>8 DEF RecordFailure, Finish
  <2>4. \A q \in Procs \ {p} : run'[q] = run[q] /\ stage'[q] = stage[q] /\ at'[q] = at[q]
    BY <1>1, <1>8 DEF RecordFailure, Finish, Gone, GoTo
  <2> QED BY <1>0, <2>2, <2>3, <2>4
<1>9. CASE LeaveDone(p) \/ CloseFails(p) \/ BeatFails(p)
  BY <1>0, <1>1, <1>9 DEF LeaveDone, CloseFails, BeatFails, GoTo
<1>10. CASE LeaveFailed(p) \/ StartRunFails(p) \/ LeaveFails(p) \/ Cancel(p) \/ Die(p)
  BY <1>0, <1>1, <1>10 DEF LeaveFailed, StartRunFails, LeaveFails, Cancel, Die, Gone, GoTo
<1> QED BY <1>2, <1>3, <1>4, <1>5, <1>6, <1>7, <1>8, <1>9, <1>10 DEF RunStep, Proceed, Mishap

\* A mishap is never forgotten.
LEMMA MishapsStay ==
  ASSUME RunTypeOK, NEW p \in Procs, RunStep(p), Undisturbed'
  PROVE  Undisturbed
<1> USE DEF Undisturbed
<1>0. crashes \in Nat /\ leaks \in Nat /\ cancels \in Nat /\ errors \in Nat
  BY DEF RunTypeOK, LockTypeOK
<1>1. crashes' = crashes \/ crashes' = crashes + 1
  <2>1. [LockStep(p)]_lockVars
    BY StepUsesLock
  <2> QED BY <2>1 DEF LockStep, lockVars, Refused, Look, TakeOver, TakeFree, TakeRefused,
     TakeBlocked, Enter, Heartbeat, Release, Crash, Leak
<1>2. leaks' = leaks \/ leaks' = leaks + 1
  <2>1. [LockStep(p)]_lockVars
    BY StepUsesLock
  <2> QED BY <2>1 DEF LockStep, lockVars, Refused, Look, TakeOver, TakeFree, TakeRefused,
     TakeBlocked, Enter, Heartbeat, Release, Crash, Leak
<1>3. cancels' = cancels \/ cancels' = cancels + 1
  BY DEF RunStep, Proceed, Mishap, Ask, Acquire, AcquireFails, StartRun, SkipIdentity, OpenStep,
     StepSucceeds, StepFails, Beat, RecordFailure, LeaveFailed, LeaveDone, Finish, StartRunFails,
     CloseFails, BeatFails, LeaveFails, Cancel, Die, Error, NoError
<1>4. errors' = errors \/ errors' = errors + 1
  BY DEF RunStep, Proceed, Mishap, Ask, Acquire, AcquireFails, StartRun, SkipIdentity, OpenStep,
     StepSucceeds, StepFails, Beat, RecordFailure, LeaveFailed, LeaveDone, Finish, StartRunFails,
     CloseFails, BeatFails, LeaveFails, Cancel, Die, Error, NoError
<1> QED BY <1>0, <1>1, <1>2, <1>3, <1>4

\* So the others stay where they are, with their runs as they were,
LEMMA OthersKeepPlace ==
  ASSUME RunTypeOK, ApartInv, LedgerInv, NEW p \in Procs, RunStep(p), NEW q \in Procs \ {p}
  PROVE  PlaceInv(q)'
<1>1. PlaceInv(q)
  BY DEF LedgerInv
<1>2. run'[q] = run[q] /\ stage'[q] = stage[q] /\ at'[q] = at[q]
  BY StepIsLocal
<1>3. Undisturbed' => Undisturbed
  BY MishapsStay
<1>4. CASE ~Working(q)
  BY <1>1, <1>2, <1>4 DEF PlaceInv, Working
<1>5. CASE Working(q)
  <2>1. run[q] # run[p] /\ run[q] \in 1 .. Len(jobs)
    BY <1>5 DEF ApartInv, RunsAreApart, Working, RunTypeOK
  <2>2. jobs'[run[q]] = jobs[run[q]] /\ rows'[run[q]] = rows[run[q]]
    BY <2>1, StepIsLocal
  <2> QED BY <1>1, <1>2, <1>3, <1>5, <2>2
       DEF PlaceInv, Working, Settled, Blank, RowsOf, Failing
<1> QED BY <1>4, <1>5

\* and the runs that are not p's keep their part of the invariant.
LEMMA OthersKeepRun ==
  ASSUME RunTypeOK, ApartInv, LedgerInv, NEW p \in Procs, RunStep(p),
         NEW i \in 1 .. Len(jobs), i # run[p]
  PROVE  RunInv(i)'
<1>1. RunInv(i)
  BY DEF LedgerInv, RunInv, RunTypeOK
<1>2. jobs'[i] = jobs[i] /\ rows'[i] = rows[i]
  BY StepIsLocal
<1>3. OneAtATime(i)' /\ Borne(i)'
  BY <1>1, <1>2 DEF RunInv, OneAtATime, Borne, Published
<1>4. ASSUME Undisturbed', ~Closed(i)' PROVE \E q \in Procs : run'[q] = i
  <2>1. ~Closed(i) /\ Undisturbed
    BY <1>2, <1>4, MishapsStay DEF Closed
  <2>2. PICK q \in Procs : run[q] = i
    BY <1>1, <2>1 DEF RunInv, Cared
  <2>3. run'[q] = i
    BY <2>2, StepIsLocal
  <2> QED BY <2>3
<1> QED BY <1>3, <1>4 DEF RunInv, Cared

\* What PlaceInv and the types say of a process in run_sync().
LEMMA AtPlace ==
  ASSUME RunTypeOK, ApartInv, LedgerInv, NEW p \in Procs, stage[p] \notin {"none", "start"}
  PROVE  /\ Working(p) /\ run[p] \in 1 .. Len(jobs) /\ RunInv(run[p])
         /\ at[p] \in 1 .. Len(Plan) + 1
         /\ rows[run[p]] \in [Steps -> RowStatus]
<1>1. PlaceInv(p) /\ run[p] \in 0 .. Len(jobs)
  BY DEF LedgerInv, ApartInv
<1>2. Working(p) /\ run[p] \in 1 .. Len(jobs) /\ at[p] \in 1 .. Len(Plan) + 1
  BY <1>1 DEF PlaceInv, Working, RunTypeOK
<1>3. rows \in Seq([Steps -> RowStatus]) /\ Len(rows) = Len(jobs)
  BY DEF RunTypeOK
<1> HIDE DEF Steps, RowStatus
<1>4. rows[run[p]] \in [Steps -> RowStatus]
  BY <1>2, <1>3, ElementOfSeq
<1> QED BY <1>2, <1>4 DEF LedgerInv

\* Each statement of run_sync() takes its process from one place to the next.
LEMMA OwnPlace ==
  ASSUME RunTypeOK, ApartInv, LedgerInv, NEW p \in Procs, RunStep(p)
  PROVE  PlaceInv(p)'
<1>0. PlaceInv(p)
  BY DEF LedgerInv
<1>1. /\ run \in [Procs -> Nat] /\ stage \in [Procs -> Stages] /\ at \in [Procs -> Nat]
      /\ Len(jobs) \in Nat /\ Len(rows) = Len(jobs)
  BY DEF RunTypeOK
<1>2. Undisturbed' => Undisturbed
  BY MishapsStay
<1>3. Len(Plan) \in Nat
  BY PlanShape
<1> HIDE DEF Stages
<1>4. ASSUME Gone(p) PROVE PlaceInv(p)'
  BY <1>1, <1>4 DEF Gone, GoTo, PlaceInv, Working
<1>16. ASSUME Working(p), at[p] \in Steps, at'[p] = at[p] + 1, UNCHANGED <<rows, run>>,
              rows[run[p]][at[p]] # "running",
              Plan[at[p]] \in DerivedKinds => rows[run[p]][at[p]] = "succeeded"
       PROVE  /\ Settled(run[p], at[p])' /\ Blank(run[p], at[p])' /\ Blank(run[p], at[p] + 1)'
              /\ at'[p] \in 1 .. Len(Plan) + 1
  <2>1. Settled(run[p], at[p]) /\ Blank(run[p], at[p] + 1)
    BY <1>0, <1>16 DEF PlaceInv
  <2>2. ASSUME NEW s \in Steps, s < at[p] + 1
        PROVE  /\ rows[run[p]][s] # "running"
               /\ Plan[s] \in DerivedKinds => rows[run[p]][s] = "succeeded"
    <3>1. s = at[p] \/ s < at[p]
      BY <1>3, <1>16, <2>2 DEF Steps
    <3> QED BY <1>16, <2>1, <3>1 DEF Settled
  <2>3. Settled(run[p], at[p])'
    BY <1>16, <2>2 DEF Settled
  <2>4. Blank(run[p], at[p])'
    BY <1>16, <2>1 DEF Blank
  <2>5. at'[p] \in 1 .. Len(Plan) + 1
    BY <1>3, <1>16 DEF Steps
  <2>6. Blank(run[p], at[p] + 1)'
    BY <1>3, <2>4, <2>5 DEF Blank, Steps
  <2> QED BY <2>3, <2>4, <2>5, <2>6
<1>5. CASE Ask(p) \/ AcquireFails(p)
  <2>1. UNCHANGED <<jobs, rows, run, stage, at>>
    BY <1>5 DEF Ask, AcquireFails
  <2> QED BY <1>0, <1>2, <2>1 DEF PlaceInv, Working, Settled, Blank, RowsOf, Failing
<1>6. CASE Acquire(p)
  <2>1. run[p] = 0 /\ run' = run /\ stage'[p] = "start"
    <3>1. stage[p] = "none"
      BY <1>6 DEF Acquire, TakeOver, TakeFree, ApartInv
    <3> QED BY <1>1, <1>6, <3>1 DEF Acquire, GoTo, ApartInv
  <2> QED BY <2>1 DEF PlaceInv, Working
<1>7. CASE StartRun(p)
  <2>1. /\ run'[p] = Len(jobs) + 1 /\ at'[p] = 1 /\ stage'[p] = "step"
        /\ jobs'[Len(jobs) + 1] = "running"
        /\ rows'[Len(jobs) + 1] = [s \in Steps |-> "absent"]
    BY <1>1, <1>7 DEF StartRun, GoTo, RunTypeOK
  <2>2. 1 \in 1 .. Len(Plan) + 1
    BY <1>3
  <2> QED BY <1>1, <2>1, <2>2, <1>3 DEF PlaceInv, Working, Settled, Blank, Failing, Steps
<1>8. CASE SkipIdentity(p)
  <2>1. /\ UNCHANGED <<jobs, rows, run, stage>> /\ at'[p] = at[p] + 1
        /\ stage[p] = "step" /\ at[p] \in Steps /\ Plan[at[p]] \notin DerivedKinds
    BY <1>1, <1>8 DEF SkipIdentity, NextStep, IdentitySkipped, DerivedKinds
  <2>2. Working(p) /\ Working(p)'
    BY <1>0, <2>1 DEF PlaceInv, Working
  <2>3. rows[run[p]][at[p]] = "absent"
    BY <1>0, <2>1, <2>2 DEF PlaceInv, Blank, Steps
  <2>4. /\ Settled(run[p], at[p])' /\ Blank(run[p], at[p])' /\ Blank(run[p], at[p] + 1)'
        /\ at'[p] \in 1 .. Len(Plan) + 1
    BY <1>16, <2>1, <2>2, <2>3
  <2> QED BY <1>0, <2>1, <2>2, <2>4 DEF PlaceInv, Failing, Working
<1>9. CASE OpenStep(p)
  <2>1. /\ Working(p) /\ run[p] \in 1 .. Len(jobs) /\ at[p] \in Steps
        /\ stage[p] = "step" /\ UNCHANGED <<jobs, run, at>>
    BY <1>9, AtPlace DEF OpenStep
  <2>2. CASE RowIs(p, "running") /\ GoTo(p, "work")
    <3>1. stage'[p] = "work"
      BY <1>1, <2>2 DEF GoTo
    <3>2. \A s \in Steps : rows'[run[p]][s] = IF s = at[p] THEN "running" ELSE rows[run[p]][s]
      BY <2>1, <2>2, RowWrites
    <3>5. ASSUME NEW s \in Steps, s < at[p] PROVE rows'[run[p]][s] = rows[run[p]][s]
      BY <2>1, <3>2, <3>5 DEF Steps
    <3>6. ASSUME NEW s \in Steps, s >= at[p] + 1 PROVE rows'[run[p]][s] = rows[run[p]][s]
      BY <2>1, <3>2, <3>6 DEF Steps
    <3>7. Settled(run[p], at[p]) /\ Blank(run[p], at[p] + 1)
      BY <1>0, <2>1 DEF PlaceInv
    <3>3. Settled(run[p], at[p])' /\ Blank(run[p], at[p] + 1)'
      BY <2>1, <3>5, <3>6, <3>7 DEF Settled, Blank
    <3>4. RowsOf(p)'[at[p]] = "running"
      BY <2>1, <3>2 DEF RowsOf
    <3> QED BY <1>0, <2>1, <3>1, <3>3, <3>4 DEF PlaceInv, Failing, Working
  <2>3. CASE rows' = rows /\ GoTo(p, "fail")
    <3>1. stage'[p] = "fail"
      BY <1>1, <2>3 DEF GoTo
    <3> QED BY <1>0, <1>3, <2>1, <2>3, <3>1
         DEF PlaceInv, Settled, Blank, Failing, Steps, Working, RowsOf
  <2> QED BY <1>9, <2>2, <2>3 DEF OpenStep
<1>10. CASE StepSucceeds(p) \/ StepFails(p)
  <2>1. /\ Working(p) /\ run[p] \in 1 .. Len(jobs) /\ at[p] \in Steps
        /\ stage[p] = "work" /\ UNCHANGED <<jobs, run>>
    BY <1>0, <1>10, AtPlace DEF StepSucceeds, StepFails, PlaceInv
  <2>2. PICK v \in {"succeeded", "failed"} :
             /\ RowIs(p, v)
             /\ IF v = "succeeded" \/ Plan[at[p]] \in Swallowed
                THEN CarryOn(p) ELSE GoTo(p, "fail") /\ at' = at
    BY <1>10 DEF StepSucceeds, StepFails
  <2>3. \A s \in Steps : rows'[run[p]][s] = IF s = at[p] THEN v ELSE rows[run[p]][s]
    BY <2>1, <2>2, RowWrites
  <2>4. Plan[at[p]] \in Swallowed => Plan[at[p]] \notin DerivedKinds
    BY DEF Swallowed, Beating, DerivedKinds
  <2>5. CASE GoTo(p, "beat") /\ at' = at /\ Plan[at[p]] \in Beating
    <3>1. stage'[p] = "beat"
      BY <1>1, <2>5 DEF GoTo
    <3> QED BY <1>0, <1>3, <2>1, <2>3, <2>5, <3>1
         DEF PlaceInv, Settled, Blank, Failing, Steps, Working, RowsOf
  <2>6. CASE GoTo(p, "step") /\ NextStep(p) /\ (v = "succeeded" \/ Plan[at[p]] \in Swallowed)
    <3>1. stage'[p] = "step" /\ at'[p] = at[p] + 1
      BY <1>1, <2>6 DEF GoTo, NextStep
    <3>2. v # "running" /\ (Plan[at[p]] \in DerivedKinds => v = "succeeded")
      BY <2>4, <2>6
    <3>5. ASSUME NEW s \in Steps, s < at[p] + 1
          PROVE  /\ rows'[run[p]][s] # "running"
                 /\ Plan[s] \in DerivedKinds => rows'[run[p]][s] = "succeeded"
      <4>1. CASE s = at[p]
        BY <2>1, <2>3, <3>2, <4>1
      <4>2. CASE s # at[p]
        <5>1. s < at[p]
          BY <1>3, <2>1, <3>5, <4>2 DEF Steps
        <5> QED BY <1>0, <2>1, <2>3, <4>2, <5>1 DEF PlaceInv, Settled
      <4> QED BY <4>1, <4>2
    <3>6. ASSUME NEW s \in Steps, s >= at[p] + 1 PROVE rows'[run[p]][s] = "absent"
      <4>1. s # at[p]
        BY <1>3, <2>1, <3>6 DEF Steps
      <4> QED BY <1>0, <2>1, <2>3, <3>6, <4>1 DEF PlaceInv, Blank
    <3>3. Settled(run[p], at[p])' /\ Blank(run[p], at[p])'
      BY <2>1, <3>1, <3>5, <3>6 DEF Settled, Blank
    <3>4. at'[p] \in 1 .. Len(Plan) + 1 /\ Blank(run[p], at[p] + 1)'
      BY <1>1, <1>3, <2>1, <3>1, <3>3 DEF Steps, Blank
    <3> QED BY <1>0, <2>1, <3>1, <3>3, <3>4 DEF PlaceInv, Failing, Working
  <2>7. CASE GoTo(p, "fail") /\ at' = at /\ v = "failed"
    <3>1. stage'[p] = "fail"
      BY <1>1, <2>7 DEF GoTo
    <3> QED BY <1>0, <1>3, <2>1, <2>3, <2>7, <3>1
         DEF PlaceInv, Settled, Blank, Failing, Steps, Working, RowsOf
  <2> QED BY <2>2, <2>5, <2>6, <2>7 DEF CarryOn
<1>11. CASE CloseFails(p) \/ BeatFails(p)
  <2>1. /\ Working(p) /\ stage[p] \in {"work", "beat"} /\ stage'[p] = "fail"
        /\ UNCHANGED <<jobs, rows, run, at>> /\ ~Undisturbed'
    <3>1. errors' # 0
      BY <1>11 DEF CloseFails, BeatFails, Error, RunTypeOK
    <3> QED BY <1>1, <1>11, <3>1, AtPlace DEF CloseFails, BeatFails, GoTo, Undisturbed
  <2>2. Plan[at[p]] \in Beating => Plan[at[p]] \notin DerivedKinds
    BY DEF Beating, DerivedKinds
  <2> QED BY <1>0, <1>3, <2>1, <2>2 DEF PlaceInv, Settled, Blank, Failing, Steps, Working, RowsOf
<1>12. CASE Beat(p)
  <2>1. /\ Working(p) /\ stage[p] = "beat" /\ stage'[p] = "step" /\ at'[p] = at[p] + 1
        /\ UNCHANGED <<jobs, rows, run>>
    BY <1>1, <1>12, AtPlace DEF Beat, GoTo, NextStep
  <2>2. Plan[at[p]] \in Beating => Plan[at[p]] \notin DerivedKinds
    BY DEF Beating, DerivedKinds
  <2>3. at[p] \in Steps /\ rows[run[p]][at[p]] \in {"succeeded", "failed"} /\ Plan[at[p]] \in Beating
    BY <1>0, <2>1 DEF PlaceInv, RowsOf
  <2>4. /\ Settled(run[p], at[p])' /\ Blank(run[p], at[p])' /\ Blank(run[p], at[p] + 1)'
        /\ at'[p] \in 1 .. Len(Plan) + 1
    BY <1>16, <2>1, <2>2, <2>3
  <2> QED BY <1>0, <2>1, <2>4 DEF PlaceInv, Failing, Working
<1>13. CASE RecordFailure(p)
  <2>1. /\ Working(p) /\ run[p] \in 1 .. Len(jobs)
        /\ stage[p] = "fail" /\ stage'[p] = "leave" /\ UNCHANGED <<rows, run, at>>
    BY <1>1, <1>13, AtPlace DEF RecordFailure, GoTo
  <2>2. jobs'[run[p]] = "failed" \/ (jobs' = jobs /\ ~Undisturbed')
    BY <1>13, <2>1, JobWrites DEF RecordFailure, Error, Undisturbed, RunTypeOK
  <2> QED BY <1>0, <1>2, <1>3, <2>1, <2>2
       DEF PlaceInv, Settled, Blank, Failing, Steps, Working, RowsOf
<1>14. CASE LeaveDone(p)
  <2>1. /\ Working(p) /\ stage[p] = "step" /\ at[p] \notin Steps
        /\ stage'[p] = "finish" /\ UNCHANGED <<jobs, rows, run, at>>
    BY <1>1, <1>14, AtPlace DEF LeaveDone, GoTo
  <2> QED BY <1>0, <1>3, <2>1 DEF PlaceInv, Settled, Blank, Failing, Steps, Working, RowsOf
<1>15. CASE LeaveFailed(p) \/ LeaveFails(p) \/ Finish(p) \/ StartRunFails(p) \/ Cancel(p) \/ Die(p)
  BY <1>4, <1>15 DEF LeaveFailed, LeaveFails, Finish, StartRunFails, Cancel, Die
<1> QED BY <1>5, <1>6, <1>7, <1>8, <1>9, <1>10, <1>11, <1>12, <1>13, <1>14, <1>15
     DEF RunStep, Proceed, Mishap

\* The verdict of overall_status() on a run all of whose derived steps are done.
LEMMA VerdictIsRight ==
  ASSUME NEW row \in [Steps -> RowStatus], \A s \in Steps : row[s] # "running",
         \A s \in Steps : Plan[s] \in DerivedKinds => row[s] = "succeeded",
         NEW v, v = OverallStatus({row[s] : s \in Steps} \ {"absent"})
  PROVE  /\ v \in {"succeeded", "partial"}
         /\ v = "partial" <=> \E s \in Steps : row[s] = "failed"
<1> DEFINE statuses == {row[s] : s \in Steps} \ {"absent"}
<1>1. "succeeded" \in statuses
  BY PlanShape DEF DerivedKinds
<1>2. "failed" \in statuses <=> \E s \in Steps : row[s] = "failed"
  OBVIOUS
<1>3. v = IF "failed" \in statuses THEN "partial" ELSE "succeeded"
  BY <1>1 DEF OverallStatus
<1> QED BY <1>2, <1>3

\* A run somebody works on has no verdict yet, or the failure it deserves.
LEMMA PlacedRun ==
  ASSUME NEW p \in Procs, PlaceInv(p)', Working(p)', NEW i, i = run'[p]
  PROVE  RunInv(i)'
<1>1. Len(Plan) \in Nat /\ at'[p] \in 1 .. Len(Plan) + 1
  BY PlanShape DEF PlaceInv
<1>2. /\ \A s \in Steps : s < at'[p] => rows'[i][s] # "running"
      /\ \A s \in Steps : s >= at'[p] + 1 => rows'[i][s] = "absent"
  BY DEF PlaceInv, Settled, Blank
<1>3. ASSUME NEW s \in Steps, NEW t \in Steps, s < t, rows'[i][s] = "running"
      PROVE  rows'[i][t] = "absent"
  <2>1. ~(s < at'[p])
    BY <1>2, <1>3
  <2>2. t >= at'[p] + 1
    BY <1>1, <1>3, <2>1 DEF Steps
  <2> QED BY <1>2, <2>2
<1>4. ~Published(i)'
  BY DEF PlaceInv, Published
<1> QED BY <1>3, <1>4 DEF RunInv, OneAtATime, Borne, Cared

\* A process that leaves run_sync() leaves its run closed, or in a state that
\* takes a mishap.
LEMMA LeftRun ==
  ASSUME RunTypeOK, ApartInv, LedgerInv, NEW p \in Procs, RunStep(p), Working(p), Gone(p),
         NEW i, i = run[p]
  PROVE  RunInv(i)'
<1>0. PlaceInv(p) /\ i \in 1 .. Len(jobs) /\ RunInv(i)
  BY DEF LedgerInv, ApartInv, Working, RunTypeOK
<1>1. Len(Plan) \in Nat
  BY PlanShape
<1>2. run'[p] = 0 /\ stage'[p] = "none"
  BY DEF Gone, GoTo, RunTypeOK
<1>3. stage[p] \notin {"none", "start"}
  BY <1>0 DEF PlaceInv
<1>4. rows[i] \in [Steps -> RowStatus] /\ at[p] \in 1 .. Len(Plan) + 1
  BY <1>3, AtPlace
<1>5. CASE UNCHANGED <<jobs, rows>> /\ (Undisturbed' => Closed(i))
  BY <1>0, <1>5 DEF RunInv, OneAtATime, Borne, Published, Cared, Closed
<1>6. CASE Finish(p)
  <2>1. /\ stage[p] = "finish" /\ rows' = rows
        /\ JobIs(p, OverallStatus({RowsOf(p)[s] : s \in Steps} \ {"absent"})) \/ (Error /\ jobs' = jobs)
    BY <1>6 DEF Finish
  <2>2. CASE Error /\ jobs' = jobs
    <3>1. ~Undisturbed'
      BY <2>2 DEF Error, Undisturbed, RunTypeOK
    <3> QED BY <1>5, <2>1, <2>2, <3>1
  <2>3. CASE JobIs(p, OverallStatus({RowsOf(p)[s] : s \in Steps} \ {"absent"}))
    <3> DEFINE v == OverallStatus({rows[i][s] : s \in Steps} \ {"absent"})
    <3>1. jobs'[i] = v
      BY <1>0, <2>3, JobWrites DEF RowsOf
    <3>2. \A s \in Steps : /\ rows[i][s] # "running"
                           /\ Plan[s] \in DerivedKinds => rows[i][s] = "succeeded"
      <4>1. Settled(i, at[p]) /\ \A s \in Steps : s < at[p]
        BY <1>0, <1>1, <1>4, <2>1 DEF PlaceInv, Steps
      <4> QED BY <4>1 DEF Settled
    <3>3. v \in {"succeeded", "partial"} /\ (v = "partial" <=> \E s \in Steps : rows[i][s] = "failed")
      BY <1>4, <3>2, VerdictIsRight
    <3> HIDE DEF v
    <3> QED BY <2>1, <3>1, <3>2, <3>3 DEF RunInv, OneAtATime, Borne, Published, Cared, Closed
  <2> QED BY <2>1, <2>2, <2>3
<1>7. CASE LeaveFailed(p)
  <2>1. stage[p] = "leave" /\ UNCHANGED <<jobs, rows>>
    BY <1>7 DEF LeaveFailed
  <2>2. ASSUME Undisturbed' PROVE Closed(i)
    <3>1. Undisturbed
      BY <2>2, MishapsStay
    <3>2. jobs[i] = "failed" /\ rows[i][at[p]] # "running"
      BY <1>0, <2>1, <3>1 DEF PlaceInv, Failing, RowsOf
    <3>3. ASSUME NEW s \in Steps PROVE rows[i][s] # "running"
      <4>1. s = at[p] \/ s < at[p] \/ s >= at[p] + 1
        BY <1>1, <1>4 DEF Steps
      <4> QED BY <1>0, <3>2, <4>1 DEF PlaceInv, Settled, Blank
    <3> QED BY <3>2, <3>3 DEF Closed
  <2> QED BY <1>5, <2>1, <2>2
<1>8. CASE LeaveFails(p) \/ Cancel(p) \/ Die(p) \/ StartRunFails(p)
  <2>1. UNCHANGED <<jobs, rows>>
    BY <1>8 DEF LeaveFails, Cancel, Die, StartRunFails
  <2>2. ~Undisturbed'
    BY <1>8 DEF LeaveFails, Cancel, Die, StartRunFails, Leak, Crash, Error, Undisturbed, RunTypeOK, LockTypeOK
  <2> QED BY <1>5, <2>1, <2>2
<1>9. CASE Ask(p) \/ AcquireFails(p) \/ Acquire(p) \/ StartRun(p)
  <2>1. stage'[p] = "start" \/ stage'[p] = "step" \/ stage' = stage
    BY <1>9 DEF Ask, AcquireFails, Acquire, StartRun, GoTo, RunTypeOK
  <2> QED BY <1>2, <1>3, <2>1
<1>10. CASE SkipIdentity(p) \/ OpenStep(p) \/ StepSucceeds(p) \/ StepFails(p) \/ Beat(p)
            \/ RecordFailure(p) \/ LeaveDone(p) \/ CloseFails(p) \/ BeatFails(p)
  <2>1. run' = run
    BY <1>10 DEF SkipIdentity, OpenStep, StepSucceeds, StepFails, Beat, RecordFailure, LeaveDone,
       CloseFails, BeatFails
  <2> QED BY <1>2, <2>1 DEF Working
<1> QED BY <1>6, <1>7, <1>8, <1>9, <1>10 DEF RunStep, Proceed, Mishap

\* Only StartRun adds a run.
LEMMA JobsKept ==
  ASSUME RunTypeOK, NEW p \in Procs, RunStep(p), ~StartRun(p)
  PROVE  Len(jobs') = Len(jobs)
<1>1. CASE RecordFailure(p) \/ Finish(p)
  <2>1. jobs' = jobs \/ \E v : jobs' = [jobs EXCEPT ![run[p]] = v]
    BY <1>1 DEF RecordFailure, Finish, JobIs
  <2>2. jobs \in Seq(JobStatus)
    BY DEF RunTypeOK
  <2> HIDE DEF JobStatus
  <2> QED BY <2>1, <2>2
<1>2. CASE ~RecordFailure(p) /\ ~Finish(p)
  <2>1. jobs' = jobs
    BY <1>2 DEF RunStep, Proceed, Mishap, Ask, Acquire, AcquireFails, SkipIdentity,
       OpenStep, StepSucceeds, StepFails, Beat, LeaveFailed, LeaveDone,
       StartRunFails, CloseFails, BeatFails, LeaveFails, Cancel, Die
  <2> QED BY <2>1
<1> QED BY <1>1, <1>2

\* One step of any process keeps the invariant.
LEMMA StepLedger ==
  ASSUME RunTypeOK, ApartInv, LedgerInv, NEW p \in Procs, RunStep(p)
  PROVE  LedgerInv'
<1>1. \A q \in Procs : PlaceInv(q)'
  BY OwnPlace, OthersKeepPlace
<1>2. ASSUME NEW i \in 1 .. Len(jobs') PROVE RunInv(i)'
  <2>1. CASE run'[p] = i
    <3>1. Working(p)' /\ PlaceInv(p)'
      BY <1>1, <2>1 DEF Working
    <3> QED BY <2>1, <3>1, PlacedRun
  <2>2. CASE run'[p] # i /\ run[p] = i
    <3>1. run'[p] # run[p] /\ Working(p) /\ stage[p] # "start"
      BY <2>2 DEF Working, ApartInv
    <3>2. Gone(p)
      BY <3>1 DEF RunStep, Proceed, Mishap, Ask, Acquire, AcquireFails, StartRun, SkipIdentity,
         OpenStep, StepSucceeds, StepFails, Beat, RecordFailure, LeaveFailed, LeaveDone, Finish,
         StartRunFails, CloseFails, BeatFails, LeaveFails, Cancel, Die
    <3> QED BY <2>2, <3>1, <3>2, LeftRun
  <2>3. CASE run'[p] # i /\ run[p] # i
    <3>1. i \in 1 .. Len(jobs)
      <4>1. CASE StartRun(p)
        BY <2>3, <4>1 DEF StartRun, RunTypeOK
      <4>2. CASE ~StartRun(p)
        <5>1. Len(jobs') = Len(jobs)
          BY <4>2, JobsKept
        <5> QED BY <5>1
      <4> QED BY <4>1, <4>2
    <3> QED BY <2>3, <3>1, OthersKeepRun
  <2> QED BY <2>1, <2>2, <2>3
<1> QED BY <1>1, <1>2 DEF LedgerInv

\* The ledgers always agree with the places of the processes.
LEMMA LedgerInvariant == RunSpec => []LedgerInv
<1>1. RunInit => LedgerInv
  BY DEF RunInit, LedgerInv, PlaceInv, Working
<1>2. RunTypeOK /\ ApartInv /\ LedgerInv /\ [RunNext]_runVars => LedgerInv'
  <2> SUFFICES ASSUME RunTypeOK, ApartInv, LedgerInv, [RunNext]_runVars PROVE LedgerInv'
    OBVIOUS
  <2> USE DEF LedgerInv, PlaceInv, RunInv, OneAtATime, Borne, Cared, Working, Settled, Blank,
              RowsOf, Failing, Published, Closed, Undisturbed
  <2>1. CASE Elapse
    BY <2>1 DEF Elapse, Tick
  <2>2. ASSUME NEW p \in Procs, RunStep(p) PROVE LedgerInv'
    BY <2>2, StepLedger
  <2>3. CASE UNCHANGED runVars
    BY <2>3 DEF runVars, lockVars
  <2> QED BY <2>1, <2>2, <2>3 DEF RunNext, RunStep
<1> QED BY <1>1, <1>2, RunTypeCorrect, ApartInvariant, PTL DEF RunSpec

\* Whatever fails, is cancelled, crashes or overlaps: a run that its readers
\* take for published has all its derived steps done, and its verdict tells
\* whether a pull failed.
THEOREM PublishedRunsAreComplete == RunSpec => []PublishedIsComplete
<1>1. RunTypeOK /\ LedgerInv => PublishedIsComplete
  BY DEF RunTypeOK, LedgerInv, RunInv, Borne, PublishedIsComplete
<1> QED BY <1>1, LedgerInvariant, RunTypeCorrect, PTL

\* The ledger shows one step in progress at a time.
THEOREM LedgerInOrder == RunSpec => []StepsInOrder
<1>1. RunTypeOK /\ LedgerInv => StepsInOrder
  BY DEF RunTypeOK, LedgerInv, RunInv, OneAtATime, StepsInOrder
<1> QED BY <1>1, LedgerInvariant, RunTypeCorrect, PTL

\* A row that reads "running" with nobody at work takes a mishap.
THEOREM OrphansNeedMishap == RunSpec => []OrphanRowsNeedMishap
<1>1. RunTypeOK /\ LedgerInv => OrphanRowsNeedMishap
  BY DEF RunTypeOK, LedgerInv, RunInv, Cared, Closed, OrphanRowsNeedMishap, RunningIsLive
<1> QED BY <1>1, LedgerInvariant, RunTypeCorrect, PTL

-----------------------------------------------------------------------------
(* Refinement of RunBook.                                                  *)

\* What one write of a step row does to the two sets of RunBook.
LEMMA RowInBook ==
  ASSUME RunTypeOK, ApartInv, LedgerInv, NEW p \in Procs, RunStep(p), jobs' = jobs,
         stage[p] \notin {"none", "start"}, at[p] \in Steps, NEW v \in RowStatus, RowIs(p, v)
  PROVE  /\ \A j : j # run[p] => /\ j \in CompleteRuns' <=> j \in CompleteRuns
                                 /\ j \in TaintedRuns' <=> j \in TaintedRuns
         /\ \A s \in Steps : rows'[run[p]][s] = IF s = at[p] THEN v ELSE rows[run[p]][s]
         /\ run[p] \in DOMAIN rows /\ run[p] \in DOMAIN rows' /\ run[p] \in DOMAIN jobs
<1>1. run[p] \in 1 .. Len(jobs) /\ Len(rows) = Len(jobs)
  BY AtPlace DEF RunTypeOK
<1>2. /\ \A s \in Steps : rows'[run[p]][s] = IF s = at[p] THEN v ELSE rows[run[p]][s]
      /\ \A i \in 1 .. Len(jobs) : i # run[p] => rows'[i] = rows[i]
  BY <1>1, RowWrites
<1>3. DOMAIN rows = 1 .. Len(jobs) /\ DOMAIN jobs = 1 .. Len(jobs) /\ DOMAIN rows' = DOMAIN rows
  BY <1>1 DEF RowIs, RunTypeOK
<1> QED BY <1>1, <1>2, <1>3 DEF CompleteRuns, TaintedRuns

\* Every step of the runner opens a run, marks one, gives one its verdict, or
\* leaves the book alone.
LEMMA StepInBook ==
  ASSUME RunTypeOK, ApartInv, LedgerInv, NEW p \in Procs, RunStep(p)
  PROVE  [Book!BookNext]_<<jobs, CompleteRuns, TaintedRuns>>
<1> DEFINE i == run[p]
<1>0. PlaceInv(p) /\ Len(Plan) \in Nat /\ Len(Plan) \in Steps /\ Plan[Len(Plan)] \in DerivedKinds
  BY PlanShape DEF LedgerInv, DerivedKinds
<1>1. DOMAIN rows = 1 .. Len(jobs) /\ DOMAIN jobs = 1 .. Len(jobs) /\ Len(jobs) \in Nat
  BY DEF RunTypeOK
<1>2. CASE UNCHANGED <<jobs, rows>>
  BY <1>2 DEF CompleteRuns, TaintedRuns
<1>3. CASE StartRun(p)
  <2>1. jobs' = Append(jobs, "running")
    BY <1>3 DEF StartRun
  <2>2. /\ DOMAIN rows' = 1 .. Len(jobs) + 1
        /\ rows'[Len(jobs) + 1] = [s \in Steps |-> "absent"]
        /\ \A j \in 1 .. Len(jobs) : rows'[j] = rows[j]
    BY <1>3 DEF StartRun, RunTypeOK
  <2>3. CompleteRuns' = CompleteRuns /\ TaintedRuns' = TaintedRuns
    <3>1. ASSUME NEW j \in DOMAIN rows' PROVE j \in CompleteRuns' <=> j \in CompleteRuns
      <4>1. CASE j = Len(jobs) + 1
        BY <1>0, <1>1, <2>2, <4>1 DEF CompleteRuns
      <4>2. CASE j \in 1 .. Len(jobs)
        BY <1>1, <2>2, <4>2 DEF CompleteRuns
      <4> QED BY <1>1, <2>2, <4>1, <4>2
    <3>2. ASSUME NEW j \in DOMAIN rows' PROVE j \in TaintedRuns' <=> j \in TaintedRuns
      <4>1. CASE j = Len(jobs) + 1
        BY <1>1, <2>2, <4>1 DEF TaintedRuns
      <4>2. CASE j \in 1 .. Len(jobs)
        BY <1>1, <2>2, <4>2 DEF TaintedRuns
      <4> QED BY <1>1, <2>2, <4>1, <4>2
    <3>3. DOMAIN rows \subseteq DOMAIN rows'
      BY <1>1, <2>2
    <3>4. CompleteRuns' \subseteq DOMAIN rows' /\ CompleteRuns \subseteq DOMAIN rows
      BY DEF CompleteRuns
    <3>5. TaintedRuns' \subseteq DOMAIN rows' /\ TaintedRuns \subseteq DOMAIN rows
      BY DEF TaintedRuns
    <3> QED BY <3>1, <3>2, <3>3, <3>4, <3>5
  <2> QED BY <2>1, <2>3 DEF Book!BookNext, Book!OpenRun
<1>4. CASE OpenStep(p) /\ RowIs(p, "running")
  <2>1. stage[p] = "step" /\ at[p] \in Steps /\ jobs' = jobs /\ Working(p)
    BY <1>0, <1>4 DEF OpenStep, PlaceInv
  <2>2. rows[i][at[p]] = "absent"
    BY <1>0, <2>1 DEF PlaceInv, Blank, Steps
  <2>3. i \notin CompleteRuns /\ i \notin CompleteRuns'
    <3>1. rows[i][Len(Plan)] = "absent"
      BY <1>0, <2>1 DEF PlaceInv, Blank, Steps
    <3>2. rows'[i][Len(Plan)] # "succeeded"
      BY <1>0, <1>4, <2>1, <3>1, RowInBook DEF RowStatus
    <3> QED BY <1>0, <3>1, <3>2, <1>4, <2>1, RowInBook DEF CompleteRuns, RowStatus
  <2>4. i \in TaintedRuns <=> i \in TaintedRuns'
    BY <1>4, <2>1, <2>2, RowInBook DEF TaintedRuns, RowStatus
  <2>6. \A j : /\ j \in CompleteRuns' <=> j \in CompleteRuns
               /\ j \in TaintedRuns' <=> j \in TaintedRuns
    BY <1>4, <2>1, <2>3, <2>4, RowInBook DEF RowStatus
  <2>5. CompleteRuns' = CompleteRuns /\ TaintedRuns' = TaintedRuns
    BY <2>6 DEF CompleteRuns, TaintedRuns
  <2> QED BY <2>1, <2>5
<1>5. CASE StepSucceeds(p)
  <2>1. /\ stage[p] = "work" /\ at[p] \in Steps /\ jobs' = jobs /\ Working(p)
        /\ RowIs(p, "succeeded") /\ jobs[i] = "running" /\ rows[i][at[p]] = "running"
    BY <1>0, <1>5, AtPlace DEF StepSucceeds, PlaceInv, RowsOf
  <2>2. TaintedRuns' = TaintedRuns
    BY <2>1, RowInBook DEF TaintedRuns, RowStatus
  <2>3. i \in CompleteRuns => i \in CompleteRuns'
    BY <2>1, RowInBook DEF CompleteRuns, RowStatus
  <2>4. i \in DOMAIN jobs
    BY <2>1, RowInBook DEF RowStatus
  <2>5. CompleteRuns' = CompleteRuns \/ (i \notin CompleteRuns /\ CompleteRuns' = CompleteRuns \cup {i})
    BY <2>1, <2>3, RowInBook DEF RowStatus
  <2> QED BY <2>1, <2>2, <2>4, <2>5 DEF Book!BookNext, Book!MarkComplete
<1>6. CASE StepFails(p)
  <2>1. /\ stage[p] = "work" /\ at[p] \in Steps /\ jobs' = jobs /\ Working(p)
        /\ RowIs(p, "failed") /\ jobs[i] = "running" /\ rows[i][at[p]] = "running"
    BY <1>0, <1>6, AtPlace DEF StepFails, PlaceInv, RowsOf
  <2>2. i \notin CompleteRuns /\ i \notin CompleteRuns'
    <3>1. rows[i][Len(Plan)] \in {"absent", "running"}
      <4>1. at[p] = Len(Plan) \/ Len(Plan) >= at[p] + 1
        BY <1>0, <2>1 DEF Steps
      <4> QED BY <1>0, <2>1, <4>1 DEF PlaceInv, Blank
    <3>2. rows'[i][Len(Plan)] # "succeeded"
      BY <1>0, <2>1, <3>1, RowInBook DEF RowStatus
    <3> QED BY <1>0, <3>1, <3>2 DEF CompleteRuns
  <2>3. i \in TaintedRuns'
    BY <2>1, RowInBook DEF TaintedRuns, RowStatus
  <2>4. i \in DOMAIN jobs
    BY <2>1, RowInBook DEF RowStatus
  <2>6. \A j : /\ j \in CompleteRuns' <=> j \in CompleteRuns
               /\ j # i => (j \in TaintedRuns' <=> j \in TaintedRuns)
    BY <2>1, <2>2, RowInBook DEF RowStatus
  <2>7. CompleteRuns' = CompleteRuns
    BY <2>6 DEF CompleteRuns
  <2>8. TaintedRuns' = TaintedRuns \cup {i}
    BY <2>3, <2>6 DEF TaintedRuns
  <2>5. CompleteRuns' = CompleteRuns /\ (TaintedRuns' = TaintedRuns \/
          (i \notin TaintedRuns /\ TaintedRuns' = TaintedRuns \cup {i}))
    BY <2>7, <2>8
  <2> QED BY <2>1, <2>2, <2>4, <2>5 DEF Book!BookNext, Book!MarkTainted
<1>7. CASE RecordFailure(p) /\ JobIs(p, "failed")
  <2>1. stage[p] = "fail" /\ rows' = rows /\ Working(p) /\ jobs[i] = "running" /\ at[p] \in Steps
    BY <1>0, <1>7, AtPlace DEF RecordFailure, PlaceInv
  <2>2. i \notin CompleteRuns
    <3>1. at[p] = Len(Plan) \/ Len(Plan) >= at[p] + 1
      BY <1>0, <2>1 DEF Steps
    <3>2. rows[i][Len(Plan)] # "succeeded"
      BY <1>0, <2>1, <3>1 DEF PlaceInv, Blank, Failing, RowsOf
    <3> QED BY <1>0, <3>2 DEF CompleteRuns
  <2>3. i \in DOMAIN jobs /\ jobs' = [jobs EXCEPT ![i] = "failed"]
    BY <1>1, <1>7, <2>1, AtPlace DEF JobIs
  <2>4. CompleteRuns' = CompleteRuns /\ TaintedRuns' = TaintedRuns
    BY <2>1 DEF CompleteRuns, TaintedRuns
  <2> QED BY <2>1, <2>2, <2>3, <2>4 DEF Book!BookNext, Book!Verdict
<1>8. CASE Finish(p) /\ JobIs(p, OverallStatus({RowsOf(p)[s] : s \in Steps} \ {"absent"}))
  <2> DEFINE v == OverallStatus({rows[i][s] : s \in Steps} \ {"absent"})
  <2>1. stage[p] = "finish" /\ rows' = rows /\ Working(p) /\ jobs[i] = "running" /\ at[p] \notin Steps
    BY <1>0, <1>8, AtPlace DEF Finish, PlaceInv
  <2>2. at[p] \in 1 .. Len(Plan) + 1 /\ i \in 1 .. Len(jobs) /\ rows[i] \in [Steps -> RowStatus]
    BY <2>1, AtPlace
  <2>3. \A s \in Steps : /\ rows[i][s] # "running"
                         /\ Plan[s] \in DerivedKinds => rows[i][s] = "succeeded"
    <3>1. Settled(i, at[p]) /\ \A s \in Steps : s < at[p]
      BY <1>0, <2>1, <2>2 DEF PlaceInv, Steps
    <3> QED BY <3>1 DEF Settled
  <2>4. v \in {"succeeded", "partial"} /\ (v = "partial" <=> \E s \in Steps : rows[i][s] = "failed")
    BY <2>2, <2>3, VerdictIsRight
  <2>5. jobs' = [jobs EXCEPT ![i] = v]
    BY <1>8 DEF JobIs, RowsOf
  <2> HIDE DEF v
  <2>6. i \in CompleteRuns /\ (v = "partial" <=> i \in TaintedRuns)
    BY <1>1, <2>2, <2>3, <2>4 DEF CompleteRuns, TaintedRuns
  <2>7. CompleteRuns' = CompleteRuns /\ TaintedRuns' = TaintedRuns
    BY <2>1 DEF CompleteRuns, TaintedRuns
  <2>8. Book!Verdict(i, v) /\ i \in DOMAIN jobs
    BY <1>1, <2>1, <2>2, <2>4, <2>5, <2>6, <2>7 DEF Book!Verdict
  <2> QED BY <2>4, <2>8 DEF Book!BookNext
<1>9. UNCHANGED <<jobs, rows>> \/ StartRun(p) \/ (OpenStep(p) /\ RowIs(p, "running"))
      \/ StepSucceeds(p) \/ StepFails(p) \/ (RecordFailure(p) /\ JobIs(p, "failed"))
      \/ (Finish(p) /\ JobIs(p, OverallStatus({RowsOf(p)[s] : s \in Steps} \ {"absent"})))
  BY DEF RunStep, Proceed, Mishap, Ask, Acquire, AcquireFails, SkipIdentity, OpenStep, Beat,
     RecordFailure, LeaveFailed, LeaveDone, Finish, StartRunFails, CloseFails, BeatFails,
     LeaveFails, Cancel, Die
<1> QED BY <1>2, <1>3, <1>4, <1>5, <1>6, <1>7, <1>8, <1>9

\* The ledgers of the runner implement RunBook: no interleaving, failing step,
\* crash or takeover gives a run two verdicts, or one its steps do not bear out.
THEOREM RunImplementsBook == RunSpec => ImplementsRunBook
<1>1. RunInit => Book!BookInit
  BY DEF RunInit, Book!BookInit, CompleteRuns, TaintedRuns
<1>2. /\ RunTypeOK /\ ApartInv /\ LedgerInv /\ [RunNext]_runVars
      => [Book!BookNext]_<<jobs, CompleteRuns, TaintedRuns>>
  <2> SUFFICES ASSUME RunTypeOK, ApartInv, LedgerInv, [RunNext]_runVars
               PROVE  [Book!BookNext]_<<jobs, CompleteRuns, TaintedRuns>>
    OBVIOUS
  <2>1. CASE Elapse
    BY <2>1 DEF Elapse, CompleteRuns, TaintedRuns
  <2>2. ASSUME NEW p \in Procs, RunStep(p)
        PROVE  [Book!BookNext]_<<jobs, CompleteRuns, TaintedRuns>>
    BY <2>2, StepInBook
  <2>3. CASE UNCHANGED runVars
    BY <2>3 DEF runVars, CompleteRuns, TaintedRuns
  <2> QED BY <2>1, <2>2, <2>3 DEF RunNext, RunStep
<1> QED BY <1>1, <1>2, RunTypeCorrect, ApartInvariant, LedgerInvariant, PTL
     DEF RunSpec, ImplementsRunBook, Book!BookSpec, Book!bookVars
=============================================================================
