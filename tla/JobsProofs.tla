----------------------------- MODULE JobsProofs -----------------------------
(***************************************************************************)
(* Theorems about the job table, for any number of jobs, callers and       *)
(* sessions and any value of the caps.                                     *)
(***************************************************************************)
EXTENDS Jobs, FiniteSetTheorems, TLAPS

ExecPCs == {"admitted", "spawned", "registered", "charged", "unlaunched", "failing",
            "launched", "appending", "unwinding", "unwindJoin"}
SubPCs  == {"subAdmitted", "subSpawned", "registering"}
KillPCs == {"killing", "grace", "forgetting", "killed"}

\* A caller works on a job of the kind its operation is for.
Targeted ==
  \A c \in Callers :
    /\ pc[c] \in ExecPCs \cup KillPCs => target[c] \in ExecJobs
    /\ pc[c] \in SubPCs => target[c] \in SubJobs
    /\ pc[c] \in ClaimPCs => target[c] \in Jobs

Typed == TypeOK /\ Targeted

-----------------------------------------------------------------------------
(* Type correctness. *)

\* The initial state is typed.
LEMMA InitTyped == Init => Typed
<1> SUFFICES ASSUME Init PROVE Typed
  OBVIOUS
<1>1. TypeOK
  <2> USE DEF Init
  <2>1. row \in [Jobs -> Rows] /\ thread \in [Jobs -> Threads] /\ child \in [ExecJobs -> Children]
    BY DEF Rows, Threads, Children
  <2>2. session \in [Jobs -> Sessions \cup {NoSession}] /\ waiting \in [Jobs -> SUBSET Callers]
    OBVIOUS
  <2>3. born \in [Jobs -> Nat] /\ lateAt \in [SubJobs -> Nat] /\ completions \in [Jobs -> Nat]
    OBVIOUS
  <2>4. pc \in [Callers -> PCs] /\ target \in [Callers -> Jobs \cup {NoJob}]
    BY DEF PCs
  <2> QED
    BY <2>1, <2>2, <2>3, <2>4 DEF TypeOK, Exits
<1>2. Targeted
  BY DEF Init, Targeted, ExecPCs, SubPCs, KillPCs, ClaimPCs
<1> QED
  BY <1>1, <1>2 DEF Typed

\* Every step of a starting call keeps the types.
LEMMA StartTyped ==
  ASSUME Typed, NEW c \in Callers, StartStep(c)
  PROVE  Typed'
<1> USE JobsAssumption DEF Typed, TypeOK, Targeted, Jobs, Rows, Threads, Children, PCs, StartPCs,
      ExecPCs, SubPCs, KillPCs, ClaimPCs, Return, Goto,
      tableVars, threadVars, osVars, countVars, lateVars, callVars, exitVars
<1>1. CASE StartExecFails(c)
  BY <1>1 DEF StartExecFails
<1>2. CASE FailForgets(c)
  BY <1>2 DEF FailForgets
<1>3. CASE SpawnChild(c)
  BY <1>3 DEF SpawnChild
<1>4. CASE RegisterChild(c)
  BY <1>4 DEF RegisterChild
<1>5. CASE LaunchWaiter(c)
  BY <1>5 DEF LaunchWaiter
<1>5a. CASE ChargeGauge(c)
  BY <1>5a DEF ChargeGauge
<1>5b. CASE WaiterFails(c)
  BY <1>5b DEF WaiterFails, Lowered
<1>6. CASE BeginAppend(c)
  BY <1>6 DEF BeginAppend
<1>7. CASE EndAppend(c)
  BY <1>7 DEF EndAppend, ReapEnds, Listing, Freed
<1>8. CASE AppendFails(c)
  BY <1>8 DEF AppendFails, ReapEnds, Freed
<1>9. CASE UnwindTerm(c)
  BY <1>9 DEF UnwindTerm, Signalled
<1>10. CASE UnwindJoin(c)
  BY <1>10 DEF UnwindJoin
<1>11. CASE SpawnWorker(c)
  BY <1>11 DEF SpawnWorker
<1>12. CASE SpawnFails(c)
  BY <1>12 DEF SpawnFails
<1>13. CASE RegisterBusy(c)
  BY <1>13 DEF RegisterBusy
<1>14. CASE BeginRegister(c)
  BY <1>14 DEF BeginRegister, AttachLate
<1>15. CASE EndRegister(c)
  BY <1>15 DEF EndRegister, ReapEnds, Listing, Freed, ChargeStart
<1>16. CASE RegisterFails(c)
  BY <1>16 DEF RegisterFails, ReapEnds, Freed
<1> QED
  BY <1>1, <1>2, <1>3, <1>4, <1>5, <1>5a, <1>5b, <1>6, <1>7, <1>8, <1>9, <1>10, <1>11, <1>12, <1>13,
     <1>14, <1>15, <1>16 DEF StartStep

\* Every step of a wait or a kill keeps the types.
LEMMA ClaimTyped ==
  ASSUME Typed, NEW c \in Callers, ClaimStep(c)
  PROVE  Typed'
<1> USE JobsAssumption DEF Typed, TypeOK, Targeted, Jobs, Rows, Threads, Children, PCs, StartPCs, Exits,
      ExecPCs, SubPCs, KillPCs, ClaimPCs, Return, Goto,
      tableVars, threadVars, osVars, countVars, lateVars, callVars, exitVars
<1>1. CASE WaitJoins(c)
  BY <1>1 DEF WaitJoins
<1>2. CASE WaitReturns(c)
  BY <1>2 DEF WaitReturns, Leave
<1>3. CASE KillTerm(c)
  BY <1>3 DEF KillTerm, Signalled
<1>4. CASE KillEscalates(c)
  BY <1>4 DEF KillEscalates, Signalled
<1>5. CASE KillForgets(c)
  BY <1>5 DEF KillForgets
<1>6. CASE KillReturns(c)
  BY <1>6 DEF KillReturns, Leave
<1> QED
  BY <1>1, <1>2, <1>3, <1>4, <1>5, <1>6 DEF ClaimStep

\* Every new request keeps the types.
LEMMA RequestTyped ==
  ASSUME Typed, NEW c \in Callers, Request(c)
  PROVE  Typed'
<1> USE JobsAssumption DEF Typed, TypeOK, Targeted, Jobs, Rows, Threads, Children, PCs, StartPCs, Exits,
      ExecPCs, SubPCs, KillPCs, ClaimPCs, Return, Goto,
      tableVars, threadVars, osVars, countVars, lateVars, callVars, exitVars
<1>1. ASSUME NEW j \in ExecJobs, AdmitExec(c, j) PROVE Typed'
  BY <1>1 DEF AdmitExec
<1>2. ASSUME NEW j \in ExecJobs, Kill(c, j) PROVE Typed'
  BY <1>2 DEF Kill, Claim, TakeHandle
<1>3. ASSUME NEW j \in ExecJobs, KillUnlisted(c, j) PROVE Typed'
  BY <1>3 DEF KillUnlisted, Signalled
<1>4. ASSUME NEW j \in SubJobs, AdmitSub(c, j) PROVE Typed'
  BY <1>4 DEF AdmitSub
<1>5. ASSUME NEW j \in Jobs, Wait(c, j) PROVE Typed'
  BY <1>5 DEF Wait, Claim, TakeHandle
<1> QED
  BY <1>1, <1>2, <1>3, <1>4, <1>5 DEF Request

\* The waiter thread and the child keep the types.
LEMMA WaiterTyped ==
  ASSUME Typed, NEW j \in ExecJobs, ChildExits(j) \/ WaiterStep(j)
  PROVE  Typed'
<1> USE JobsAssumption DEF Typed, TypeOK, Targeted, Jobs, Rows, Threads, Children, PCs, StartPCs, Exits,
      ExecPCs, SubPCs, KillPCs, ClaimPCs, Return, Goto,
      tableVars, threadVars, osVars, countVars, lateVars, callVars, exitVars
<1>1. CASE ChildExits(j)
  BY <1>1 DEF ChildExits
<1>2. CASE WaiterReaps(j)
  BY <1>2 DEF WaiterReaps, Lowered
<1>3. CASE WaiterStores(j)
  BY <1>3 DEF WaiterStores
<1>4. CASE WaiterForgets(j)
  BY <1>4 DEF WaiterForgets
<1> QED
  BY <1>1, <1>2, <1>3, <1>4 DEF WaiterStep

\* The worker thread of a subagent keeps the types.
LEMMA WorkerTyped ==
  ASSUME Typed, NEW j \in SubJobs, ReportStep(j) \/ WorkerRuns(j)
  PROVE  Typed'
<1> USE JobsAssumption DEF Typed, TypeOK, Targeted, Jobs, Rows, Threads, Children, PCs, StartPCs, Exits,
      ExecPCs, SubPCs, KillPCs, ClaimPCs, Return, Goto,
      tableVars, threadVars, osVars, countVars, lateVars, callVars, exitVars
<1>1. CASE WorkerRemembers(j)
  BY <1>1 DEF WorkerRemembers
<1>2. CASE WorkerRuns(j)
  BY <1>2 DEF WorkerRuns
<1>3. CASE FinishSub(j)
  BY <1>3 DEF FinishSub, ReportOnRow, HoldReport, Lowered
<1> QED
  BY <1>1, <1>2, <1>3 DEF ReportStep

\* A session end and the process exit keep the types.
LEMMA EndTyped ==
  ASSUME Typed, ExitStep \/ \E s \in Sessions : EndSession(s)
  PROVE  Typed'
<1> USE JobsAssumption DEF Typed, TypeOK, Targeted, Jobs, Rows, Threads, Children, PCs, StartPCs, Exits,
      ExecPCs, SubPCs, KillPCs, ClaimPCs, Return, Goto,
      tableVars, threadVars, osVars, countVars, lateVars, callVars, exitVars
<1>1. ASSUME NEW s \in Sessions, EndSession(s) PROVE Typed'
  BY <1>1 DEF EndSession, Signalled
<1>2. CASE ExitTerm
  BY <1>2 DEF ExitTerm, SignalRunning, Signalled
<1>3. CASE ExitKill
  BY <1>3 DEF ExitKill, SignalRunning, Signalled
<1>4. ASSUME NEW j \in Jobs, ExitPops(j) PROVE Typed'
  BY <1>4 DEF ExitPops
<1>5. CASE ExitDestroys
  BY <1>5 DEF ExitDestroys
<1>6. CASE ExitClears
  BY <1>6 DEF ExitClears
<1> QED
  BY <1>1, <1>2, <1>3, <1>4, <1>5, <1>6 DEF ExitStep

\* Typed is inductive.
LEMMA NextTyped == Typed /\ [Next]_vars => Typed'
<1> SUFFICES ASSUME Typed, [Next]_vars PROVE Typed'
  OBVIOUS
<1>1. CASE Next
  BY <1>1, StartTyped, ClaimTyped, RequestTyped, WaiterTyped, WorkerTyped, EndTyped DEF Next
<1>2. CASE UNCHANGED vars
  BY <1>2 DEF Typed, TypeOK, Targeted, vars, tableVars, threadVars, osVars, countVars, lateVars,
     callVars, exitVars
<1> QED
  BY <1>1, <1>2

\* The job table is always typed, and every caller works on a job.
THEOREM TypeCorrect == Spec => [](TypeOK /\ Targeted)
<1>1. Init => Typed
  BY InitTyped
<1>2. Typed /\ [Next]_vars => Typed'
  BY NextTyped
<1> QED
  BY <1>1, <1>2, PTL DEF Spec, Typed

-----------------------------------------------------------------------------
(* Starts, claims and handles, whoever main joins before deinit.           *)

\* A claimed row was in the table: nobody is building it any more.
Past == \A c \in Callers : pc[c] \in ClaimPCs => row[target[c]] \notin {"none", "staged"}

\* A record under construction belongs to one starter, and its thread exists
\* only after the launch.
Staged ==
  /\ \A c \in Callers : pc[c] \in StartPCs => row[target[c]] = "staged"
  /\ \A c, d \in Callers :
       pc[c] \in StartPCs /\ pc[d] \in StartPCs /\ target[c] = target[d] => c = d
  /\ \A c \in Callers :
       /\ pc[c] \in {"admitted", "spawned", "registered", "unlaunched", "failing", "subAdmitted"} =>
            thread[target[c]] = "none" /\ target[c] \notin handle
       /\ pc[c] = "charged" => thread[target[c]] = "charged"
       /\ pc[c] \in {"charged", "subSpawned"} => target[c] \notin handle
       /\ pc[c] \in {"launched", "appending", "unwinding", "unwindJoin"} => target[c] \in handle
  /\ \A j \in Jobs : row[j] = "none" => thread[j] = "none" /\ j \notin handle

\* A handle out of the record is in one caller's hands, at a place where it
\* is joined or given to the record.
Held ==
  \A c \in hasThread :
    /\ pc[c] \in {"subSpawned", "waiting", "killing", "grace", "forgetting"}
    /\ target[c] \notin handle
    /\ \A d \in hasThread : target[c] = target[d] => c = d

\* Main destroys popped rows only.
Popped == popping # NoJob => row[popping] = "popped"

\* The critical section of an append spans several steps and keeps mu.
Locking == \A c \in Callers : pc[c] \in {"appending", "registering"} => mu = c

Orderly == Typed /\ Past /\ Staged /\ Held /\ Popped /\ Locking

\* Every step of a starting call keeps it orderly.
LEMMA StartOrderly ==
  ASSUME Orderly, NEW c \in Callers, StartStep(c)
  PROVE  Orderly'
<1>1. Typed'
  BY StartTyped DEF Orderly
<1> USE JobsAssumption DEF Orderly, Typed, TypeOK, Targeted, Past, Staged, Held, Popped, Locking,
      Jobs, Return, Goto, StartPCs, ClaimPCs, ExecPCs, SubPCs, KillPCs,
      tableVars, threadVars, osVars, countVars, lateVars, callVars, exitVars
<1>2. CASE StartExecFails(c)
  BY <1>1, <1>2 DEF StartExecFails
<1>3. CASE FailForgets(c)
  BY <1>1, <1>3 DEF FailForgets
<1>4. CASE SpawnChild(c)
  BY <1>1, <1>4 DEF SpawnChild
<1>5. CASE RegisterChild(c)
  BY <1>1, <1>5 DEF RegisterChild
<1>6. CASE LaunchWaiter(c)
  BY <1>1, <1>6 DEF LaunchWaiter
<1>6a. CASE ChargeGauge(c)
  BY <1>1, <1>6a DEF ChargeGauge
<1>6b. CASE WaiterFails(c)
  BY <1>1, <1>6b DEF WaiterFails
<1>7. CASE BeginAppend(c)
  <2>1. \A k \in Surplus(ExecJobs) : k \in Jobs /\ row[k] = "listed" /\ waiting[k] = {}
    BY DEF Surplus, Reapable
  <2>2. Past'
    BY <1>1, <1>7, <2>1 DEF BeginAppend
  <2>3. Staged'
    BY <1>1, <1>7, <2>1 DEF BeginAppend
  <2>4. Held'
    BY <1>1, <1>7, <2>1 DEF BeginAppend
  <2>5. Popped'
    BY <1>1, <1>7, <2>1 DEF BeginAppend
  <2>6. Locking'
    BY <1>1, <1>7, <2>1 DEF BeginAppend
  <2> QED
    BY <1>1, <2>2, <2>3, <2>4, <2>5, <2>6
<1>8. CASE EndAppend(c)
  <2>1. row[target[c]] = "staged" /\ target[c] \in Jobs
    BY <1>8 DEF EndAppend
  <2>2. /\ row'[target[c]] = "listed"
        /\ \A k \in Jobs \ {target[c]} : row'[k] = IF row[k] = "doomed" THEN "freed" ELSE row[k]
    BY <1>8, <2>1 DEF EndAppend, Listing, Freed
  <2>3. \A k \in Jobs : row[k] = "doomed" => (k \in handle => thread[k] = "exited")
    BY <1>8 DEF EndAppend, ReapEnds, Joinable, Doomed
  <2>4. Past'
    BY <1>1, <1>8, <2>1, <2>2, <2>3 DEF EndAppend
  <2>5. Staged'
    BY <1>1, <1>8, <2>1, <2>2, <2>3 DEF EndAppend
  <2>6. Held'
    BY <1>1, <1>8, <2>1, <2>2, <2>3 DEF EndAppend
  <2>7. Popped'
    BY <1>1, <1>8, <2>1, <2>2, <2>3 DEF EndAppend
  <2>8. Locking'
    BY <1>1, <1>8, <2>1, <2>2, <2>3 DEF EndAppend
  <2> QED
    BY <1>1, <2>4, <2>5, <2>6, <2>7, <2>8
<1>9. CASE AppendFails(c)
  BY <1>1, <1>9 DEF AppendFails, ReapEnds, Joinable, Doomed, Freed
<1>10. CASE UnwindTerm(c)
  BY <1>1, <1>10 DEF UnwindTerm
<1>11. CASE UnwindJoin(c)
  BY <1>1, <1>11 DEF UnwindJoin, Joinable
<1>12. CASE SpawnWorker(c)
  BY <1>1, <1>12 DEF SpawnWorker
<1>13. CASE SpawnFails(c)
  BY <1>1, <1>13 DEF SpawnFails
<1>14. CASE RegisterBusy(c)
  BY <1>1, <1>14 DEF RegisterBusy
<1>15. CASE BeginRegister(c)
  <2>1. \A k \in Surplus(SubJobs) : k \in Jobs /\ row[k] = "listed" /\ waiting[k] = {}
    BY DEF Surplus, Reapable
  <2>2. Past'
    BY <1>1, <1>15, <2>1 DEF BeginRegister
  <2>3. Staged'
    BY <1>1, <1>15, <2>1 DEF BeginRegister
  <2>4. Held'
    BY <1>1, <1>15, <2>1 DEF BeginRegister
  <2>5. Popped'
    BY <1>1, <1>15, <2>1 DEF BeginRegister
  <2>6. Locking'
    BY <1>1, <1>15, <2>1 DEF BeginRegister
  <2> QED
    BY <1>1, <2>2, <2>3, <2>4, <2>5, <2>6
<1>16. CASE EndRegister(c)
  <2>1. row[target[c]] = "staged" /\ target[c] \in Jobs
    BY <1>16 DEF EndRegister
  <2>2. /\ row'[target[c]] = "listed"
        /\ \A k \in Jobs \ {target[c]} : row'[k] = IF row[k] = "doomed" THEN "freed" ELSE row[k]
    BY <1>16, <2>1 DEF EndRegister, Listing, Freed
  <2>3. \A k \in Jobs : row[k] = "doomed" => (k \in handle => thread[k] = "exited")
    BY <1>16 DEF EndRegister, ReapEnds, Joinable, Doomed
  <2>4. Past'
    <3>1. \A k \in Jobs : row[k] \notin {"none", "staged"} => row'[k] \notin {"none", "staged"}
      BY <2>2
    <3>2. \A d \in Callers : pc'[d] \in ClaimPCs =>
            pc[d] \in ClaimPCs /\ target[d] \in Jobs /\ target'[d] = target[d]
      BY <1>16 DEF EndRegister
    <3> QED
      BY <3>1, <3>2
  <2>5. Staged'
    BY <1>1, <1>16, <2>1, <2>2, <2>3 DEF EndRegister
  <2>6. Held'
    BY <1>1, <1>16, <2>1, <2>2, <2>3 DEF EndRegister
  <2>7. Popped'
    BY <1>1, <1>16, <2>1, <2>2, <2>3 DEF EndRegister
  <2>8. Locking'
    BY <1>1, <1>16, <2>1, <2>2, <2>3 DEF EndRegister
  <2> QED
    BY <1>1, <2>4, <2>5, <2>6, <2>7, <2>8
<1>17. CASE RegisterFails(c)
  BY <1>1, <1>17 DEF RegisterFails, ReapEnds, Joinable, Doomed, Freed
<1> QED
  BY <1>1, <1>2, <1>3, <1>4, <1>5, <1>6, <1>6a, <1>6b, <1>7, <1>8, <1>9, <1>10, <1>11, <1>12, <1>13, <1>14, <1>15, <1>16, <1>17 DEF StartStep

\* Every step of a wait or a kill keeps it orderly.
LEMMA ClaimOrderly ==
  ASSUME Orderly, NEW c \in Callers, ClaimStep(c)
  PROVE  Orderly'
<1>1. Typed'
  BY ClaimTyped DEF Orderly
<1> USE JobsAssumption DEF Orderly, Typed, TypeOK, Targeted, Past, Staged, Held, Popped, Locking,
      Jobs, Return, Goto, StartPCs, ClaimPCs, ExecPCs, SubPCs, KillPCs,
      tableVars, threadVars, osVars, countVars, lateVars, callVars, exitVars
<1>2. CASE WaitJoins(c)
  BY <1>1, <1>2 DEF WaitJoins
<1>3. CASE WaitReturns(c)
  BY <1>1, <1>3 DEF WaitReturns, Leave
<1>4. CASE KillTerm(c)
  BY <1>1, <1>4 DEF KillTerm
<1>5. CASE KillEscalates(c)
  BY <1>1, <1>5 DEF KillEscalates
<1>6. CASE KillForgets(c)
  BY <1>1, <1>6 DEF KillForgets
<1>7. CASE KillReturns(c)
  BY <1>1, <1>7 DEF KillReturns, Leave
<1> QED
  BY <1>1, <1>2, <1>3, <1>4, <1>5, <1>6, <1>7 DEF ClaimStep

\* Every new request keeps it orderly.
LEMMA RequestOrderly ==
  ASSUME Orderly, NEW c \in Callers, Request(c)
  PROVE  Orderly'
<1>1. Typed'
  BY RequestTyped DEF Orderly
<1> USE JobsAssumption DEF Orderly, Typed, TypeOK, Targeted, Past, Staged, Held, Popped, Locking,
      Jobs, Return, Goto, StartPCs, ClaimPCs, ExecPCs, SubPCs, KillPCs,
      tableVars, threadVars, osVars, countVars, lateVars, callVars, exitVars
<1>2. ASSUME NEW j \in ExecJobs, AdmitExec(c, j) PROVE Orderly'
  BY <1>1, <1>2 DEF AdmitExec, CanCall
<1>3. ASSUME NEW j \in ExecJobs, Kill(c, j) PROVE Orderly'
  BY <1>1, <1>3 DEF Kill, Claim, TakeHandle, CanCall
<1>4. ASSUME NEW j \in ExecJobs, KillUnlisted(c, j) PROVE Orderly'
  BY <1>1, <1>4 DEF KillUnlisted
<1>5. ASSUME NEW j \in SubJobs, AdmitSub(c, j) PROVE Orderly'
  BY <1>1, <1>5 DEF AdmitSub, CanCall
<1>6. ASSUME NEW j \in Jobs, Wait(c, j) PROVE Orderly'
  BY <1>1, <1>6 DEF Wait, Claim, TakeHandle, CanCall
<1> QED
  BY <1>1, <1>2, <1>3, <1>4, <1>5, <1>6 DEF Request

\* The waiter thread and the child keep it orderly.
LEMMA WaiterOrderly ==
  ASSUME Orderly, NEW j \in ExecJobs, ChildExits(j) \/ WaiterStep(j)
  PROVE  Orderly'
<1>1. Typed'
  BY WaiterTyped DEF Orderly
<1> USE JobsAssumption DEF Orderly, Typed, TypeOK, Targeted, Past, Staged, Held, Popped, Locking,
      Jobs, Return, Goto, StartPCs, ClaimPCs, ExecPCs, SubPCs, KillPCs,
      tableVars, threadVars, osVars, countVars, lateVars, callVars, exitVars
<1>2. CASE ChildExits(j)
  BY <1>1, <1>2 DEF ChildExits
<1>3. CASE WaiterReaps(j)
  BY <1>1, <1>3 DEF WaiterReaps
<1>4. CASE WaiterStores(j)
  BY <1>1, <1>4 DEF WaiterStores
<1>5. CASE WaiterForgets(j)
  BY <1>1, <1>5 DEF WaiterForgets
<1> QED
  BY <1>1, <1>2, <1>3, <1>4, <1>5 DEF WaiterStep

\* The worker thread of a subagent keeps it orderly.
LEMMA WorkerOrderly ==
  ASSUME Orderly, NEW j \in SubJobs, ReportStep(j) \/ WorkerRuns(j)
  PROVE  Orderly'
<1>1. Typed'
  BY WorkerTyped DEF Orderly
<1> USE JobsAssumption DEF Orderly, Typed, TypeOK, Targeted, Past, Staged, Held, Popped, Locking,
      Jobs, Return, Goto, StartPCs, ClaimPCs, ExecPCs, SubPCs, KillPCs,
      tableVars, threadVars, osVars, countVars, lateVars, callVars, exitVars
<1>2. CASE WorkerRemembers(j)
  BY <1>1, <1>2 DEF WorkerRemembers
<1>3. CASE WorkerRuns(j)
  BY <1>1, <1>3 DEF WorkerRuns
<1>4. CASE FinishSub(j)
  BY <1>1, <1>4 DEF FinishSub, ReportOnRow, HoldReport
<1> QED
  BY <1>1, <1>2, <1>3, <1>4 DEF ReportStep

\* A session end and the process exit keep it orderly.
LEMMA EndOrderly ==
  ASSUME Orderly, ExitStep \/ \E s \in Sessions : EndSession(s)
  PROVE  Orderly'
<1>1. Typed'
  BY EndTyped DEF Orderly
<1> USE JobsAssumption DEF Orderly, Typed, TypeOK, Targeted, Past, Staged, Held, Popped, Locking,
      Jobs, Return, Goto, StartPCs, ClaimPCs, ExecPCs, SubPCs, KillPCs,
      tableVars, threadVars, osVars, countVars, lateVars, callVars, exitVars
<1>2. ASSUME NEW s \in Sessions, EndSession(s) PROVE Orderly'
  BY <1>1, <1>2 DEF EndSession
<1>3. CASE ExitTerm
  BY <1>1, <1>3 DEF ExitTerm
<1>4. CASE ExitKill
  BY <1>1, <1>4 DEF ExitKill
<1>5. ASSUME NEW j \in Jobs, ExitPops(j) PROVE Orderly'
  BY <1>1, <1>5 DEF ExitPops, Listed
<1>6. CASE ExitDestroys
  BY <1>1, <1>6 DEF ExitDestroys, Joinable
<1>7. CASE ExitClears
  BY <1>1, <1>7 DEF ExitClears
<1> QED
  BY <1>1, <1>2, <1>3, <1>4, <1>5, <1>6, <1>7 DEF ExitStep

\* Initially nothing is started.
LEMMA InitOrderly == Init => Orderly
<1> SUFFICES ASSUME Init PROVE Orderly
  OBVIOUS
<1>1. Typed
  BY InitTyped
<1>2. Past /\ Staged /\ Held /\ Popped /\ Locking
  BY DEF Init, Past, Staged, Held, Popped, Locking, StartPCs, ClaimPCs
<1> QED
  BY <1>1, <1>2 DEF Orderly

\* Orderly is inductive.
LEMMA NextOrderly == Orderly /\ [Next]_vars => Orderly'
<1> SUFFICES ASSUME Orderly, [Next]_vars PROVE Orderly'
  OBVIOUS
<1>1. CASE Next
  BY <1>1, StartOrderly, ClaimOrderly, RequestOrderly, WaiterOrderly, WorkerOrderly, EndOrderly DEF Next
<1>2. CASE UNCHANGED vars
  <2>1. Typed'
    BY <1>2, NextTyped DEF Orderly
  <2> QED
    BY <1>2, <2>1 DEF Orderly, Past, Staged, Held, Popped, Locking, vars, tableVars,
       threadVars, osVars, countVars, lateVars, callVars, exitVars
<1> QED
  BY <1>1, <1>2

\* No thread is joined twice: a handle is in the record or in the hands of one
\* caller, even when nested agents still wait and kill while deinit runs.
THEOREM JoinedOnce == Spec => []OneJoiner
<1>1. Init => Orderly
  BY InitOrderly
<1>2. Orderly /\ [Next]_vars => Orderly'
  BY NextOrderly
<1>3. Orderly => OneJoiner
  BY DEF Orderly, Typed, TypeOK, Held, OneJoiner
<1> QED
  BY <1>1, <1>2, <1>3, PTL DEF Spec

-----------------------------------------------------------------------------
(* Memory safety, when main joins every caller before deinit.              *)

\* A claimed row stays in the table and counts its caller.
Claimed ==
  \A c \in Callers : pc[c] \in ClaimPCs =>
    row[target[c]] = "listed" /\ c \in waiting[target[c]]

\* A waiter thread that still runs can be joined by somebody, and one that is
\* about to is somebody's start.
Owned ==
  \A j \in ExecJobs : thread[j] \notin {"none", "exited"} =>
    \/ j \in handle
    \/ \E c \in hasThread : target[c] = j
    \/ \E c \in Callers : pc[c] = "charged" /\ target[c] = j

\* Main leaves for deinit only when no call is in flight.
Exiting == exit # "no" => \A c \in Callers : pc[c] = "idle"

Freeing == \A j \in ExecJobs : row[j] = "freed" => thread[j] \in {"none", "exited"}

Safe == Orderly /\ Claimed /\ Owned /\ Exiting /\ Freeing

\* Every step of a starting call keeps the table safe.
LEMMA StartSafe ==
  ASSUME Background = {}, Safe, NEW c \in Callers, StartStep(c)
  PROVE  Safe'
<1>1. Orderly'
  BY StartOrderly DEF Safe
<1> USE JobsAssumption DEF Safe, Orderly, Typed, TypeOK, Targeted, Past, Staged, Held, Popped, Claimed, Owned, Exiting, Freeing,
      Jobs, Return, Goto, StartPCs, ClaimPCs, ExecPCs, SubPCs, KillPCs,
      tableVars, threadVars, osVars, countVars, lateVars, callVars, exitVars
<1>2. CASE StartExecFails(c)
  BY <1>1, <1>2 DEF StartExecFails
<1>3. CASE FailForgets(c)
  BY <1>1, <1>3 DEF FailForgets
<1>4. CASE SpawnChild(c)
  BY <1>1, <1>4 DEF SpawnChild
<1>5. CASE RegisterChild(c)
  BY <1>1, <1>5 DEF RegisterChild
<1>6. CASE LaunchWaiter(c)
  BY <1>1, <1>6 DEF LaunchWaiter
<1>6a. CASE ChargeGauge(c)
  BY <1>1, <1>6a DEF ChargeGauge
<1>6b. CASE WaiterFails(c)
  BY <1>1, <1>6b DEF WaiterFails
<1>7. CASE BeginAppend(c)
  <2>1. \A k \in Surplus(ExecJobs) : k \in Jobs /\ row[k] = "listed" /\ waiting[k] = {}
    BY DEF Surplus, Reapable
  <2>2. Claimed'
    BY <1>1, <1>7, <2>1 DEF BeginAppend
  <2>5. Owned'
    BY <1>1, <1>7, <2>1 DEF BeginAppend
  <2>6. Exiting'
    BY <1>1, <1>7, <2>1 DEF BeginAppend
  <2>7. Freeing'
    BY <1>1, <1>7, <2>1 DEF BeginAppend
  <2> QED
    BY <1>1, <2>2, <2>5, <2>6, <2>7
<1>8. CASE EndAppend(c)
  <2>1. row[target[c]] = "staged" /\ target[c] \in Jobs
    BY <1>8 DEF EndAppend
  <2>2. /\ row'[target[c]] = "listed"
        /\ \A k \in Jobs \ {target[c]} : row'[k] = IF row[k] = "doomed" THEN "freed" ELSE row[k]
    BY <1>8, <2>1 DEF EndAppend, Listing, Freed
  <2>3. \A k \in Jobs : row[k] = "doomed" => (k \in handle => thread[k] = "exited")
    BY <1>8 DEF EndAppend, ReapEnds, Joinable, Doomed
  <2>4. Claimed'
    BY <1>1, <1>8, <2>1, <2>2, <2>3 DEF EndAppend
  <2>7. Owned'
    BY <1>1, <1>8, <2>1, <2>2, <2>3 DEF EndAppend
  <2>8. Exiting'
    BY <1>1, <1>8, <2>1, <2>2, <2>3 DEF EndAppend
  <2>9. Freeing'
    BY <1>1, <1>8, <2>1, <2>2, <2>3 DEF EndAppend
  <2> QED
    BY <1>1, <2>4, <2>7, <2>8, <2>9
<1>9. CASE AppendFails(c)
  BY <1>1, <1>9 DEF AppendFails, ReapEnds, Joinable, Doomed, Freed
<1>10. CASE UnwindTerm(c)
  BY <1>1, <1>10 DEF UnwindTerm
<1>11. CASE UnwindJoin(c)
  BY <1>1, <1>11 DEF UnwindJoin, Joinable
<1>12. CASE SpawnWorker(c)
  BY <1>1, <1>12 DEF SpawnWorker
<1>13. CASE SpawnFails(c)
  BY <1>1, <1>13 DEF SpawnFails
<1>14. CASE RegisterBusy(c)
  BY <1>1, <1>14 DEF RegisterBusy
<1>15. CASE BeginRegister(c)
  <2>1. \A k \in Surplus(SubJobs) : k \in Jobs /\ row[k] = "listed" /\ waiting[k] = {}
    BY DEF Surplus, Reapable
  <2>2. Claimed'
    BY <1>1, <1>15, <2>1 DEF BeginRegister
  <2>5. Owned'
    BY <1>1, <1>15, <2>1 DEF BeginRegister
  <2>6. Exiting'
    BY <1>1, <1>15, <2>1 DEF BeginRegister
  <2>7. Freeing'
    BY <1>1, <1>15, <2>1 DEF BeginRegister
  <2> QED
    BY <1>1, <2>2, <2>5, <2>6, <2>7
<1>16. CASE EndRegister(c)
  <2>1. row[target[c]] = "staged" /\ target[c] \in Jobs
    BY <1>16 DEF EndRegister
  <2>2. /\ row'[target[c]] = "listed"
        /\ \A k \in Jobs \ {target[c]} : row'[k] = IF row[k] = "doomed" THEN "freed" ELSE row[k]
    BY <1>16, <2>1 DEF EndRegister, Listing, Freed
  <2>3. \A k \in Jobs : row[k] = "doomed" => (k \in handle => thread[k] = "exited")
    BY <1>16 DEF EndRegister, ReapEnds, Joinable, Doomed
  <2>4. Claimed'
    BY <1>1, <1>16, <2>1, <2>2, <2>3 DEF EndRegister
  <2>7. Owned'
    BY <1>1, <1>16, <2>1, <2>2, <2>3 DEF EndRegister
  <2>8. Exiting'
    BY <1>1, <1>16, <2>1, <2>2, <2>3 DEF EndRegister
  <2>9. Freeing'
    BY <1>1, <1>16, <2>1, <2>2, <2>3 DEF EndRegister
  <2> QED
    BY <1>1, <2>4, <2>7, <2>8, <2>9
<1>17. CASE RegisterFails(c)
  <2>1. row[target[c]] = "staged" /\ target[c] \in SubJobs
    BY <1>17 DEF RegisterFails
  <2>2. /\ row'[target[c]] = "freed"
        /\ \A k \in Jobs \ {target[c]} : row'[k] = IF row[k] = "doomed" THEN "freed" ELSE row[k]
    BY <1>17, <2>1 DEF RegisterFails, Freed
  <2>3. \A k \in Jobs : row[k] = "doomed" => (k \in handle => thread[k] = "exited")
    BY <1>17 DEF RegisterFails, ReapEnds, Joinable, Doomed
  <2>4. Claimed'
    <3>1. \A d \in Callers : pc'[d] \in ClaimPCs => pc[d] \in ClaimPCs /\ target'[d] = target[d]
      BY <1>17 DEF RegisterFails
    <3> QED
      BY <1>17, <2>2, <3>1 DEF RegisterFails
  <2>5. Owned'
    BY <1>1, <1>17, <2>1, <2>3 DEF RegisterFails
  <2>6. Exiting'
    BY <1>1, <1>17 DEF RegisterFails
  <2>7. Freeing'
    BY <1>1, <1>17, <2>1, <2>2, <2>3 DEF RegisterFails
  <2> QED
    BY <1>1, <2>4, <2>5, <2>6, <2>7
<1> QED
  BY <1>1, <1>2, <1>3, <1>4, <1>5, <1>6, <1>6a, <1>6b, <1>7, <1>8, <1>9, <1>10, <1>11, <1>12, <1>13, <1>14, <1>15, <1>16, <1>17 DEF StartStep

\* Every step of a wait or a kill keeps the table safe.
LEMMA ClaimSafe ==
  ASSUME Background = {}, Safe, NEW c \in Callers, ClaimStep(c)
  PROVE  Safe'
<1>1. Orderly'
  BY ClaimOrderly DEF Safe
<1> USE JobsAssumption DEF Safe, Orderly, Typed, TypeOK, Targeted, Past, Staged, Held, Popped, Claimed, Owned, Exiting, Freeing,
      Jobs, Return, Goto, StartPCs, ClaimPCs, ExecPCs, SubPCs, KillPCs,
      tableVars, threadVars, osVars, countVars, lateVars, callVars, exitVars
<1>2. CASE WaitJoins(c)
  BY <1>1, <1>2 DEF WaitJoins
<1>3. CASE WaitReturns(c)
  BY <1>1, <1>3 DEF WaitReturns, Leave
<1>4. CASE KillTerm(c)
  BY <1>1, <1>4 DEF KillTerm
<1>5. CASE KillEscalates(c)
  BY <1>1, <1>5 DEF KillEscalates
<1>6. CASE KillForgets(c)
  BY <1>1, <1>6 DEF KillForgets
<1>7. CASE KillReturns(c)
  BY <1>1, <1>7 DEF KillReturns, Leave
<1> QED
  BY <1>1, <1>2, <1>3, <1>4, <1>5, <1>6, <1>7 DEF ClaimStep

\* Every new request keeps the table safe.
LEMMA RequestSafe ==
  ASSUME Background = {}, Safe, NEW c \in Callers, Request(c)
  PROVE  Safe'
<1>1. Orderly'
  BY RequestOrderly DEF Safe
<1> USE JobsAssumption DEF Safe, Orderly, Typed, TypeOK, Targeted, Past, Staged, Held, Popped, Claimed, Owned, Exiting, Freeing,
      Jobs, Return, Goto, StartPCs, ClaimPCs, ExecPCs, SubPCs, KillPCs,
      tableVars, threadVars, osVars, countVars, lateVars, callVars, exitVars
<1>2. ASSUME NEW j \in ExecJobs, AdmitExec(c, j) PROVE Safe'
  BY <1>1, <1>2 DEF AdmitExec, CanCall
<1>3. ASSUME NEW j \in ExecJobs, Kill(c, j) PROVE Safe'
  BY <1>1, <1>3 DEF Kill, Claim, TakeHandle, CanCall
<1>4. ASSUME NEW j \in ExecJobs, KillUnlisted(c, j) PROVE Safe'
  BY <1>1, <1>4 DEF KillUnlisted
<1>5. ASSUME NEW j \in SubJobs, AdmitSub(c, j) PROVE Safe'
  BY <1>1, <1>5 DEF AdmitSub, CanCall
<1>6. ASSUME NEW j \in Jobs, Wait(c, j) PROVE Safe'
  BY <1>1, <1>6 DEF Wait, Claim, TakeHandle, CanCall
<1> QED
  BY <1>1, <1>2, <1>3, <1>4, <1>5, <1>6 DEF Request

\* The waiter thread and the child keep the table safe.
LEMMA WaiterSafe ==
  ASSUME Background = {}, Safe, NEW j \in ExecJobs, ChildExits(j) \/ WaiterStep(j)
  PROVE  Safe'
<1>1. Orderly'
  BY WaiterOrderly DEF Safe
<1> USE JobsAssumption DEF Safe, Orderly, Typed, TypeOK, Targeted, Past, Staged, Held, Popped, Claimed, Owned, Exiting, Freeing,
      Jobs, Return, Goto, StartPCs, ClaimPCs, ExecPCs, SubPCs, KillPCs,
      tableVars, threadVars, osVars, countVars, lateVars, callVars, exitVars
<1>2. CASE ChildExits(j)
  BY <1>1, <1>2 DEF ChildExits
<1>3. CASE WaiterReaps(j)
  BY <1>1, <1>3 DEF WaiterReaps
<1>4. CASE WaiterStores(j)
  BY <1>1, <1>4 DEF WaiterStores
<1>5. CASE WaiterForgets(j)
  BY <1>1, <1>5 DEF WaiterForgets
<1> QED
  BY <1>1, <1>2, <1>3, <1>4, <1>5 DEF WaiterStep

\* The worker thread of a subagent keeps the table safe.
LEMMA WorkerSafe ==
  ASSUME Background = {}, Safe, NEW j \in SubJobs, ReportStep(j) \/ WorkerRuns(j)
  PROVE  Safe'
<1>1. Orderly'
  BY WorkerOrderly DEF Safe
<1> USE JobsAssumption DEF Safe, Orderly, Typed, TypeOK, Targeted, Past, Staged, Held, Popped, Claimed, Owned, Exiting, Freeing,
      Jobs, Return, Goto, StartPCs, ClaimPCs, ExecPCs, SubPCs, KillPCs,
      tableVars, threadVars, osVars, countVars, lateVars, callVars, exitVars
<1>2. CASE WorkerRemembers(j)
  BY <1>1, <1>2 DEF WorkerRemembers
<1>3. CASE WorkerRuns(j)
  BY <1>1, <1>3 DEF WorkerRuns
<1>4. CASE FinishSub(j)
  BY <1>1, <1>4 DEF FinishSub, ReportOnRow, HoldReport
<1> QED
  BY <1>1, <1>2, <1>3, <1>4 DEF ReportStep

\* A session end and the process exit keep the table safe.
LEMMA EndSafe ==
  ASSUME Background = {}, Safe, ExitStep \/ \E s \in Sessions : EndSession(s)
  PROVE  Safe'
<1>1. Orderly'
  BY EndOrderly DEF Safe
<1> USE JobsAssumption DEF Safe, Orderly, Typed, TypeOK, Targeted, Past, Staged, Held, Popped, Claimed, Owned, Exiting, Freeing,
      Jobs, Return, Goto, StartPCs, ClaimPCs, ExecPCs, SubPCs, KillPCs,
      tableVars, threadVars, osVars, countVars, lateVars, callVars, exitVars
<1>2. ASSUME NEW s \in Sessions, EndSession(s) PROVE Safe'
  BY <1>1, <1>2 DEF EndSession
<1>3. CASE ExitTerm
  BY <1>1, <1>3 DEF ExitTerm
<1>4. CASE ExitKill
  BY <1>1, <1>4 DEF ExitKill
<1>5. ASSUME NEW j \in Jobs, ExitPops(j) PROVE Safe'
  BY <1>1, <1>5 DEF ExitPops, Listed
<1>6. CASE ExitDestroys
  BY <1>1, <1>6 DEF ExitDestroys, Joinable
<1>7. CASE ExitClears
  BY <1>1, <1>7 DEF ExitClears
<1> QED
  BY <1>1, <1>2, <1>3, <1>4, <1>5, <1>6, <1>7 DEF ExitStep

\* The initial state is safe: nothing is started.
LEMMA InitSafe == Init => Safe
<1> SUFFICES ASSUME Init PROVE Safe
  OBVIOUS
<1>1. Orderly
  BY InitOrderly
<1>2. Claimed
  BY DEF Init, Claimed, ClaimPCs
<1>3. Owned /\ Exiting /\ Freeing
  BY DEF Init, Owned, Exiting, Freeing, Jobs
<1> QED
  BY <1>1, <1>2, <1>3 DEF Safe

\* Safe is inductive when every caller is joined before deinit.
LEMMA NextSafe ==
  ASSUME Background = {}
  PROVE  Safe /\ [Next]_vars => Safe'
<1> SUFFICES ASSUME Safe, [Next]_vars PROVE Safe'
  OBVIOUS
<1>1. CASE Next
  BY <1>1, StartSafe, ClaimSafe, RequestSafe, WaiterSafe, WorkerSafe, EndSafe DEF Next
<1>2. CASE UNCHANGED vars
  <2>1. Orderly'
    BY <1>2, NextOrderly DEF Safe
  <2> QED
    BY <1>2, <2>1 DEF Safe, Claimed, Owned, Exiting, Freeing, vars, tableVars,
       threadVars, osVars, countVars, lateVars, callVars, exitVars
<1> QED
  BY <1>1, <1>2

\* What the strengthening was for.
LEMMA SafeImplies == Safe => NoUseAfterFree
BY DEF Safe, Claimed, Freeing, NoUseAfterFree

\* No record is freed under a caller that waits for or kills its job or under
\* its own waiter thread, provided main joins every thread that can call into
\* the table before it calls deinit.
THEOREM MemorySafe ==
  ASSUME Background = {}
  PROVE  Spec => []NoUseAfterFree
<1>1. Init => Safe
  BY InitSafe
<1>2. Safe /\ [Next]_vars => Safe'
  BY NextSafe
<1> QED
  BY <1>1, <1>2, SafeImplies, PTL DEF Spec

-----------------------------------------------------------------------------
(* What a subagent's completion says about its thread, whatever the order  *)
(* in which the report and the registration take mu.                       *)

\* A completion, in the record or held in late_subs, is the last thing its
\* worker does; only completed rows are doomed.
Reported ==
  /\ \A j \in SubJobs : j \in done \/ lateAt[j] # 0 => thread[j] = "exited"
  /\ \A j \in Jobs : row[j] = "doomed" => j \in done

Ordered == Orderly /\ Reported

\* Every step of a starting call keeps what is reported true.
LEMMA StartReported ==
  ASSUME Ordered, NEW c \in Callers, StartStep(c)
  PROVE  Reported'
<1> USE JobsAssumption DEF Orderly, Typed, TypeOK, Targeted, Staged, Reported, Jobs, Return, Goto,
      StartPCs, SubPCs, ExecPCs, tableVars, threadVars, osVars, countVars, lateVars, callVars, exitVars
<1> USE DEF Ordered
<1>1. CASE StartExecFails(c) \/ FailForgets(c) \/ SpawnChild(c) \/ RegisterChild(c) \/ ChargeGauge(c)
        \/ LaunchWaiter(c) \/ WaiterFails(c)
  BY <1>1 DEF StartExecFails, FailForgets, SpawnChild, RegisterChild, ChargeGauge, LaunchWaiter, WaiterFails
<1>2. CASE BeginAppend(c)
  BY <1>2 DEF BeginAppend, Surplus, Reapable
<1>3. CASE EndAppend(c)
  BY <1>3 DEF EndAppend, Listing, Freed
<1>7. CASE AppendFails(c)
  BY <1>7 DEF AppendFails, Freed
<1>8. CASE UnwindTerm(c) \/ UnwindJoin(c)
  BY <1>8 DEF UnwindTerm, UnwindJoin
<1>4. CASE SpawnWorker(c) \/ SpawnFails(c) \/ RegisterBusy(c)
  BY <1>4 DEF SpawnWorker, SpawnFails, RegisterBusy
<1>5. CASE BeginRegister(c)
  BY <1>5 DEF BeginRegister, AttachLate, Surplus, Reapable
<1>6. CASE EndRegister(c)
  BY <1>6 DEF EndRegister, Listing, Freed
<1>9. CASE RegisterFails(c)
  BY <1>9 DEF RegisterFails, Freed
<1> QED
  BY <1>1, <1>2, <1>3, <1>4, <1>5, <1>6, <1>7, <1>8, <1>9 DEF StartStep

\* Ordered is inductive.
LEMMA NextOrdered == Ordered /\ [Next]_vars => Ordered'
<1> SUFFICES ASSUME Ordered, [Next]_vars PROVE Reported'
  BY NextOrderly DEF Ordered
<1> USE JobsAssumption DEF Orderly, Typed, TypeOK, Targeted, Staged, Reported, Jobs, Return, Goto,
      StartPCs, SubPCs, ExecPCs, tableVars, threadVars, osVars, countVars, lateVars, callVars, exitVars
<1> USE DEF Ordered
<1>1. ASSUME NEW c \in Callers, StartStep(c) PROVE Reported'
  BY <1>1, StartReported
<1>2. ASSUME NEW c \in Callers, ClaimStep(c) PROVE Reported'
  BY <1>2 DEF ClaimStep, WaitJoins, WaitReturns, KillTerm, KillEscalates, KillForgets, KillReturns, Leave
<1>3. ASSUME NEW c \in Callers, Request(c) PROVE Reported'
  <2>1. ASSUME NEW j \in Jobs, AdmitExec(c, j) \/ AdmitSub(c, j) PROVE Reported'
    BY <2>1 DEF AdmitExec, AdmitSub
  <2>2. ASSUME NEW j \in Jobs, Kill(c, j) \/ Wait(c, j) \/ KillUnlisted(c, j) PROVE Reported'
    BY <2>2 DEF Kill, KillUnlisted, Wait, Claim
  <2> QED
    BY <1>3, <2>1, <2>2 DEF Request
<1>4. ASSUME NEW j \in ExecJobs, ChildExits(j) \/ WaiterStep(j) PROVE Reported'
  BY <1>4 DEF ChildExits, WaiterStep, WaiterReaps, WaiterStores, WaiterForgets
<1>5. ASSUME NEW j \in SubJobs, WorkerRemembers(j) \/ WorkerRuns(j) PROVE Reported'
  BY <1>5 DEF WorkerRemembers, WorkerRuns
<1>6. ASSUME NEW j \in SubJobs, FinishSub(j) PROVE Reported'
  <2>1. thread' = [thread EXCEPT ![j] = "exited"] /\ row' = row
    BY <1>6 DEF FinishSub
  <2>2. CASE ReportOnRow(j)
    BY <2>1, <2>2 DEF ReportOnRow
  <2>3. CASE HoldReport(j)
    BY <2>1, <2>3 DEF HoldReport
  <2>4. CASE UNCHANGED <<done, lateAt>>
    BY <2>1, <2>4
  <2> QED
    BY <1>6, <2>2, <2>3, <2>4 DEF FinishSub
<1>7. CASE ExitStep \/ \E s \in Sessions : EndSession(s)
  <2>1. ASSUME NEW j \in Jobs, ExitPops(j) PROVE Reported'
    BY <2>1 DEF ExitPops
  <2>2. CASE ExitDestroys \/ ExitClears
    BY <2>2 DEF ExitDestroys, ExitClears
  <2> QED
    BY <1>7, <2>1, <2>2 DEF EndSession, ExitStep, ExitTerm, ExitKill
<1>8. CASE UNCHANGED vars
  BY <1>8 DEF vars
<1> QED
  BY <1>1, <1>2, <1>3, <1>4, <1>5, <1>6, <1>7, <1>8 DEF Next, ReportStep

\* Initially nothing is reported.
LEMMA InitOrdered == Init => Ordered
<1> SUFFICES ASSUME Init PROVE Reported
  BY InitOrderly DEF Ordered
<1> QED
  BY DEF Init, Reported

\* The threads a reap joins while it holds mu never wait for mu: a doomed
\* subagent has reported, which its worker does last.
THEOREM JoinsUnderLock == Spec => []ReapNeverWaitsForLock
<1>1. Init => Ordered
  BY InitOrdered
<1>2. Ordered /\ [Next]_vars => Ordered'
  BY NextOrdered
<1>3. Ordered => ReapNeverWaitsForLock
  BY DEF Ordered, Reported, ReapNeverWaitsForLock, Jobs
<1> QED
  BY <1>1, <1>2, <1>3, PTL DEF Spec

-----------------------------------------------------------------------------
(* The gauge.                                                              *)

\* The jobs the gauge counts.
Charged == {j \in ExecJobs : thread[j] \in {"charged", "waiting"}}
             \cup {j \in SubJobs : row[j] = "listed" /\ j \notin done}

\* A step that charges nothing, one more job or one job less.
Recharged ==
  \/ Charged' = Charged /\ gauge' = gauge
  \/ \E j \in Jobs \ Charged : Charged' = Charged \cup {j} /\ gauge' = gauge + 1
  \/ \E j \in Charged : Charged' = Charged \ {j} /\ gauge' = Lowered(gauge)

\* A starting call charges the child it launches and the row it lists running.
LEMMA StartRecharges ==
  ASSUME Ordered, NEW c \in Callers, StartStep(c)
  PROVE  Recharged
<1> USE JobsAssumption DEF Ordered, Orderly, Typed, TypeOK, Targeted, Staged, Reported, Jobs, Return, Goto,
      StartPCs, SubPCs, ExecPCs, Charged,
      tableVars, threadVars, osVars, countVars, lateVars, callVars, exitVars
<1> USE DEF Recharged
<1>1. CASE StartExecFails(c) \/ FailForgets(c) \/ SpawnChild(c) \/ RegisterChild(c)
  BY <1>1 DEF StartExecFails, FailForgets, SpawnChild, RegisterChild
<1>2. CASE ChargeGauge(c)
  <2>1. target[c] \in ExecJobs \ Charged
    BY <1>2 DEF ChargeGauge
  <2>2. Charged' = Charged \cup {target[c]} /\ gauge' = gauge + 1
    BY <1>2, <2>1 DEF ChargeGauge
  <2> QED
    BY <2>1, <2>2
<1>2a. CASE LaunchWaiter(c)
  <2>1. target[c] \in ExecJobs /\ thread[target[c]] = "charged"
    BY <1>2a DEF LaunchWaiter
  <2>2. Charged' = Charged /\ gauge' = gauge
    BY <1>2a, <2>1 DEF LaunchWaiter
  <2> QED
    BY <2>2
<1>2b. CASE WaiterFails(c)
  <2>1. target[c] \in Charged
    BY <1>2b DEF WaiterFails
  <2>2. Charged' = Charged \ {target[c]} /\ gauge' = Lowered(gauge)
    BY <1>2b, <2>1 DEF WaiterFails
  <2> QED
    BY <2>1, <2>2
<1>3. CASE BeginAppend(c)
  BY <1>3 DEF BeginAppend, Surplus, Reapable
<1>4. CASE EndAppend(c)
  BY <1>4 DEF EndAppend, Listing, Freed
<1>5. CASE AppendFails(c)
  BY <1>5 DEF AppendFails, Freed
<1>6. CASE UnwindTerm(c) \/ UnwindJoin(c)
  BY <1>6 DEF UnwindTerm, UnwindJoin
<1>7. CASE SpawnWorker(c) \/ SpawnFails(c) \/ RegisterBusy(c)
  BY <1>7 DEF SpawnWorker, SpawnFails, RegisterBusy
<1>8. CASE BeginRegister(c)
  BY <1>8 DEF BeginRegister, AttachLate, Surplus, Reapable
<1>9. CASE EndRegister(c)
  <2>1. target[c] \in SubJobs \ Charged
    BY <1>9 DEF EndRegister
  <2>2. /\ done' = done /\ thread' = thread
        /\ \A k \in Jobs : row'[k] = IF k = target[c] THEN "listed"
                                     ELSE IF row[k] = "doomed" THEN "freed" ELSE row[k]
    BY <1>9 DEF EndRegister, Listing, Freed
  <2>3. CASE target[c] \in done
    <3>1. Charged' = Charged
      BY <2>1, <2>2, <2>3
    <3> QED
      BY <1>9, <2>3, <3>1 DEF EndRegister, ChargeStart
  <2>4. CASE target[c] \notin done
    <3>1. Charged' = Charged \cup {target[c]}
      BY <2>1, <2>2, <2>4
    <3> QED
      BY <1>9, <2>1, <2>4, <3>1 DEF EndRegister, ChargeStart
  <2> QED
    BY <2>3, <2>4
<1>10. CASE RegisterFails(c)
  BY <1>10 DEF RegisterFails, Freed
<1> QED
  BY <1>1, <1>2, <1>2a, <1>2b, <1>3, <1>4, <1>5, <1>6, <1>7, <1>8, <1>9, <1>10 DEF StartStep

\* Until main frees rows, every step recharges the gauge.
LEMMA NextRecharges ==
  ASSUME Ordered, [Next]_vars, exit' \in {"no", "term"}
  PROVE  Recharged /\ exit \in {"no", "term"}
<1>1. exit \in {"no", "term"}
  <2> USE DEF exitVars
  <2>1. ASSUME NEW c \in Callers, StartStep(c) PROVE exit' = exit
    BY <2>1 DEF StartStep, StartExecFails, FailForgets, SpawnChild, RegisterChild, ChargeGauge, LaunchWaiter, WaiterFails, BeginAppend,
       EndAppend, AppendFails, UnwindTerm, UnwindJoin, SpawnWorker, SpawnFails, RegisterBusy, BeginRegister,
       EndRegister, RegisterFails
  <2>2. ASSUME NEW c \in Callers, ClaimStep(c) \/ Request(c) PROVE exit' = exit
    BY <2>2 DEF ClaimStep, WaitJoins, WaitReturns, KillTerm, KillEscalates, KillForgets, KillReturns,
       Request, AdmitExec, Kill, KillUnlisted, AdmitSub, Wait, Claim
  <2>3. ASSUME NEW j, ChildExits(j) \/ WaiterStep(j) \/ ReportStep(j) \/ WorkerRuns(j) PROVE exit' = exit
    BY <2>3 DEF ChildExits, WaiterStep, WaiterReaps, WaiterStores, WaiterForgets, ReportStep,
       WorkerRemembers, WorkerRuns, FinishSub
  <2>4. ASSUME NEW s \in Sessions, EndSession(s) PROVE exit' = exit
    BY <2>4 DEF EndSession
  <2>5. CASE ExitStep
    BY <2>5 DEF ExitStep, ExitTerm, ExitKill, ExitPops, ExitDestroys, ExitClears
  <2>6. CASE UNCHANGED vars
    BY <2>6 DEF vars
  <2> QED
    BY <2>1, <2>2, <2>3, <2>4, <2>5, <2>6 DEF Next
<1> USE JobsAssumption DEF Ordered, Orderly, Typed, TypeOK, Targeted, Staged, Reported, Jobs, Return, Goto,
      StartPCs, SubPCs, ExecPCs, Charged,
      tableVars, threadVars, osVars, countVars, lateVars, callVars, exitVars
<1> USE DEF Recharged
<1>2. ASSUME NEW c \in Callers, StartStep(c) PROVE Recharged
  BY <1>2, StartRecharges
<1>3. ASSUME NEW c \in Callers, ClaimStep(c) PROVE Recharged
  BY <1>3 DEF ClaimStep, WaitJoins, WaitReturns, KillTerm, KillEscalates, KillForgets, KillReturns, Leave
<1>4. ASSUME NEW c \in Callers, Request(c) PROVE Recharged
  <2>1. ASSUME NEW j \in Jobs, AdmitExec(c, j) \/ AdmitSub(c, j) PROVE Recharged
    BY <2>1 DEF AdmitExec, AdmitSub
  <2>2. ASSUME NEW j \in Jobs, Kill(c, j) \/ Wait(c, j) \/ KillUnlisted(c, j) PROVE Recharged
    BY <2>2 DEF Kill, KillUnlisted, Wait, Claim
  <2> QED
    BY <1>4, <2>1, <2>2 DEF Request
<1>5. ASSUME NEW j \in ExecJobs, WaiterReaps(j) PROVE Recharged
  <2>1. Charged' = Charged \ {j} /\ j \in Charged /\ gauge' = Lowered(gauge)
    BY <1>5 DEF WaiterReaps
  <2> QED
    BY <2>1
<1>6. ASSUME NEW j \in ExecJobs, ChildExits(j) \/ WaiterStores(j) \/ WaiterForgets(j) PROVE Recharged
  BY <1>6 DEF ChildExits, WaiterStores, WaiterForgets
<1>7. ASSUME NEW j \in SubJobs, WorkerRemembers(j) \/ WorkerRuns(j) PROVE Recharged
  BY <1>7 DEF WorkerRemembers, WorkerRuns
<1>8. ASSUME NEW j \in SubJobs, FinishSub(j) PROVE Recharged
  <2>1. thread[j] = "ran" /\ thread' = [thread EXCEPT ![j] = "exited"] /\ row' = row
    BY <1>8 DEF FinishSub
  <2>2. CASE ReportOnRow(j)
    <3>1. Charged' = Charged \ {j} /\ j \in Charged
      BY <2>1, <2>2 DEF ReportOnRow
    <3> QED
      BY <2>2, <3>1 DEF ReportOnRow
  <2>3. CASE UNCHANGED <<done, gauge>>
    BY <2>1, <2>3
  <2> QED
    BY <1>8, <2>2, <2>3 DEF FinishSub, HoldReport
<1>9. CASE \E s \in Sessions : EndSession(s)
  BY <1>9 DEF EndSession
<1>10. CASE ExitStep
  <2>1. CASE ExitTerm \/ ExitKill
    BY <2>1 DEF ExitTerm, ExitKill
  <2>2. CASE ExitDestroys
    <3>1. row[popping] # "listed" /\ row' = [row EXCEPT ![popping] = "freed"]
      BY <2>2 DEF ExitDestroys, Popped
    <3> QED
      BY <2>2, <3>1 DEF ExitDestroys
  <2> QED
    BY <1>1, <1>10, <2>1, <2>2 DEF ExitStep, ExitPops, ExitClears
<1>11. CASE UNCHANGED vars
  BY <1>11 DEF vars
<1>12. Recharged
  BY <1>2, <1>3, <1>4, <1>5, <1>6, <1>7, <1>8, <1>9, <1>10, <1>11 DEF Next, WaiterStep, ReportStep
<1> QED
  BY <1>1, <1>12

\* The gauge stays exact over a step that recharges it.
LEMMA GaugeStep ==
  ASSUME Ordered, [Next]_vars, GaugeExact
  PROVE  GaugeExact'
<1> SUFFICES ASSUME exit' \in {"no", "term"} PROVE gauge' = Cardinality(Charged')
  BY DEF GaugeExact, Charged
<1>1. Recharged /\ gauge = Cardinality(Charged)
  BY NextRecharges DEF GaugeExact, Charged
<1>2. IsFiniteSet(Charged) /\ Cardinality(Charged) \in Nat
  BY JobsAssumption, FS_Subset, FS_CardinalityType DEF Charged, Jobs
<1>3. CASE \E j \in Jobs \ Charged : Charged' = Charged \cup {j} /\ gauge' = gauge + 1
  BY <1>1, <1>2, <1>3, FS_AddElement
<1>4. CASE \E j \in Charged : Charged' = Charged \ {j} /\ gauge' = Lowered(gauge)
  <2>1. PICK j \in Charged : Charged' = Charged \ {j} /\ gauge' = Lowered(gauge)
    BY <1>4
  <2>2. Cardinality(Charged \ {j}) = Cardinality(Charged) - 1 /\ Cardinality(Charged \ {j}) \in Nat
    BY <1>2, FS_RemoveElement, FS_CardinalityType
  <2> QED
    BY <1>1, <1>2, <2>1, <2>2 DEF Lowered
<1> QED
  BY <1>1, <1>3, <1>4 DEF Recharged

\* The gauge counts the launched children nobody has reaped and the listed
\* subagents that have not reported, however waiters, workers and starters
\* interleave, until main frees the table.
THEOREM GaugeIsExact == Spec => []GaugeExact
<1>1. Init => Ordered /\ GaugeExact
  <2> SUFFICES ASSUME Init PROVE gauge = Cardinality(Charged)
    BY InitOrdered DEF GaugeExact, Charged
  <2>1. Charged = {}
    BY DEF Init, Charged, Jobs
  <2> QED
    BY <2>1, FS_EmptySet DEF Init
<1>2. Ordered /\ GaugeExact /\ [Next]_vars => (Ordered /\ GaugeExact)'
  BY NextOrdered, GaugeStep
<1> QED
  BY <1>1, <1>2, PTL DEF Spec

-----------------------------------------------------------------------------
(* No ghost row, while late_subs has room and main joins every caller.     *)

\* A completion waits for the registration to come until it is attached.
Told ==
  /\ allocator \/ \A j \in SubJobs : thread[j] \in {"none", "spawned"}
  /\ \A c \in Callers : pc[c] = "subSpawned" /\ thread[target[c]] = "exited" => lateAt[target[c]] # 0
  /\ \A c \in Callers : pc[c] = "registering" /\ thread[target[c]] = "exited" => target[c] \in done

Reporting == Safe /\ Ordered /\ Told /\ NoGhostRow

\* The completions late_subs holds.
HeldLate == {k \in SubJobs : lateAt[k] # 0}

\* A worker about to report finds room in late_subs.
RoomToHold == \A j \in SubJobs : thread[j] = "ran" => Cardinality(HeldLate) < MaxLate

\* With room, a held completion keeps the others.
LEMMA HoldKeeps ==
  ASSUME Ordered, RoomToHold, NEW j \in SubJobs, thread[j] = "ran"
  PROVE  HeldLate \subseteq KeptLate
<1> SUFFICES ASSUME NEW k \in HeldLate
             PROVE  Cardinality({m \in SubJobs : lateAt[m] > lateAt[k]}) < MaxLate - 1
  BY DEF KeptLate, HeldLate
<1> DEFINE Later == {m \in SubJobs : lateAt[m] > lateAt[k]}
<1>1. IsFiniteSet(HeldLate) /\ Cardinality(HeldLate) \in Nat
  BY JobsAssumption, FS_Subset, FS_CardinalityType DEF HeldLate, Jobs
<1>2. IsFiniteSet(HeldLate \ {k}) /\ Cardinality(HeldLate \ {k}) = Cardinality(HeldLate) - 1
  BY <1>1, FS_RemoveElement
<1>3. Later \subseteq HeldLate \ {k}
  BY DEF HeldLate, Ordered, Orderly, Typed, TypeOK
<1>4. Cardinality(Later) \in Nat /\ Cardinality(Later) <= Cardinality(HeldLate \ {k})
  BY <1>2, <1>3, FS_Subset, FS_CardinalityType
<1> QED
  BY <1>1, <1>2, <1>4, JobsAssumption DEF RoomToHold

\* Every step of a starting call keeps the reports.
LEMMA StartReporting ==
  ASSUME Reporting, NEW c \in Callers, StartStep(c)
  PROVE  (Told /\ NoGhostRow)'
<1> USE JobsAssumption DEF Reporting, Safe, Ordered, Orderly, Typed, TypeOK, Targeted, Staged, Reported,
      Told, NoGhostRow, Jobs, Return, Goto, StartPCs, ClaimPCs, SubPCs, ExecPCs,
      tableVars, threadVars, osVars, countVars, lateVars, callVars, exitVars
<1>1. CASE StartExecFails(c) \/ FailForgets(c)
  BY <1>1 DEF StartExecFails, FailForgets
<1>2. CASE SpawnChild(c) \/ RegisterChild(c) \/ ChargeGauge(c) \/ LaunchWaiter(c) \/ WaiterFails(c)
  BY <1>2 DEF SpawnChild, RegisterChild, ChargeGauge, LaunchWaiter, WaiterFails
<1>3. CASE BeginAppend(c)
  BY <1>3 DEF BeginAppend
<1>4. CASE EndAppend(c)
  BY <1>4 DEF EndAppend, Listing, Freed
<1>5. CASE AppendFails(c)
  BY <1>5 DEF AppendFails, Freed
<1>6. CASE UnwindTerm(c) \/ UnwindJoin(c)
  BY <1>6 DEF UnwindTerm, UnwindJoin
<1>7. CASE SpawnWorker(c)
  BY <1>7 DEF SpawnWorker
<1>8. CASE SpawnFails(c) \/ RegisterBusy(c)
  BY <1>8 DEF SpawnFails, RegisterBusy
<1>9. CASE BeginRegister(c)
  BY <1>9 DEF BeginRegister, AttachLate
<1>10. CASE EndRegister(c)
  BY <1>10 DEF EndRegister, Listing, Freed
<1>11. CASE RegisterFails(c)
  BY <1>11 DEF RegisterFails, Freed
<1> QED
  BY <1>1, <1>2, <1>3, <1>4, <1>5, <1>6, <1>7, <1>8, <1>9, <1>10, <1>11 DEF StartStep

\* Reporting is inductive while late_subs has room.
LEMMA NextReporting ==
  ASSUME Background = {}
  PROVE  Reporting /\ RoomToHold /\ [Next]_vars => Reporting'
<1> SUFFICES ASSUME Reporting, RoomToHold, [Next]_vars PROVE (Told /\ NoGhostRow)'
  BY NextSafe, NextOrdered DEF Reporting
<1> USE JobsAssumption DEF Reporting, Safe, Ordered, Orderly, Typed, TypeOK, Targeted, Staged, Reported,
      Told, NoGhostRow, Jobs, Return, Goto, StartPCs, ClaimPCs, SubPCs, ExecPCs,
      tableVars, threadVars, osVars, countVars, lateVars, callVars, exitVars
<1>1. ASSUME NEW c \in Callers, StartStep(c) PROVE (Told /\ NoGhostRow)'
  BY <1>1, StartReporting
<1>2. ASSUME NEW c \in Callers, ClaimStep(c) PROVE (Told /\ NoGhostRow)'
  <2>1. CASE WaitJoins(c) \/ WaitReturns(c)
    BY <2>1 DEF WaitJoins, WaitReturns, Leave
  <2>2. CASE KillTerm(c) \/ KillEscalates(c)
    BY <2>2 DEF KillTerm, KillEscalates
  <2>3. CASE KillForgets(c) \/ KillReturns(c)
    BY <2>3 DEF KillForgets, KillReturns, Leave
  <2> QED
    BY <1>2, <2>1, <2>2, <2>3 DEF ClaimStep
<1>3. ASSUME NEW c \in Callers, Request(c) PROVE (Told /\ NoGhostRow)'
  <2>1. ASSUME NEW j \in Jobs, AdmitExec(c, j) PROVE (Told /\ NoGhostRow)'
    BY <2>1 DEF AdmitExec
  <2>4. ASSUME NEW j \in SubJobs, AdmitSub(c, j) PROVE (Told /\ NoGhostRow)'
    BY <2>4 DEF AdmitSub
  <2>2. ASSUME NEW j \in Jobs, Kill(c, j) \/ Wait(c, j) PROVE (Told /\ NoGhostRow)'
    <3>1. \A d \in Callers : pc'[d] \in {"subSpawned", "registering"} => pc'[d] = pc[d] /\ target'[d] = target[d]
      BY <2>2 DEF Kill, Wait, Claim
    <3> QED
      BY <2>2, <3>1 DEF Kill, Wait, Claim
  <2>3. ASSUME NEW j \in Jobs, KillUnlisted(c, j) PROVE (Told /\ NoGhostRow)'
    BY <2>3 DEF KillUnlisted
  <2> QED
    BY <1>3, <2>1, <2>2, <2>3, <2>4 DEF Request
<1>4. ASSUME NEW j \in ExecJobs, ChildExits(j) \/ WaiterStep(j) PROVE (Told /\ NoGhostRow)'
  BY <1>4 DEF ChildExits, WaiterStep, WaiterReaps, WaiterStores, WaiterForgets
<1>5. ASSUME NEW j \in SubJobs, WorkerRemembers(j) \/ WorkerRuns(j) PROVE (Told /\ NoGhostRow)'
  BY <1>5 DEF WorkerRemembers, WorkerRuns
<1>6. ASSUME NEW j \in SubJobs, FinishSub(j) PROVE (Told /\ NoGhostRow)'
  <2>1. /\ thread[j] = "ran" /\ thread' = [thread EXCEPT ![j] = "exited"] /\ mu = Nobody /\ allocator
        /\ row' = row /\ allocator' = allocator /\ pc' = pc /\ target' = target
    BY <1>6 DEF FinishSub
  <2>2. \A c \in Callers : pc[c] # "registering"
    BY <2>1 DEF Locking
  <2>3. CASE ReportOnRow(j)
    BY <2>1, <2>2, <2>3 DEF ReportOnRow
  <2>4. CASE HoldReport(j)
    <3>1. \A k \in SubJobs : lateAt[k] # 0 => k \in KeptLate
      BY <2>1, HoldKeeps DEF HeldLate
    <3>2. \A k \in SubJobs : k = j \/ lateAt[k] # 0 => lateAt'[k] # 0
      BY <2>4, <3>1 DEF HoldReport
    <3> QED
      BY <2>1, <2>2, <2>4, <3>2 DEF HoldReport
  <2> QED
    BY <1>6, <2>1, <2>3, <2>4 DEF FinishSub
<1>7. CASE ExitStep
  <2>1. CASE ExitTerm \/ ExitKill
    BY <2>1 DEF ExitTerm, ExitKill
  <2>2. ASSUME NEW j \in Jobs, ExitPops(j) PROVE (Told /\ NoGhostRow)'
    BY <2>2 DEF ExitPops
  <2>3. CASE ExitDestroys
    BY <2>3 DEF ExitDestroys
  <2>4. CASE ExitClears
    <3>1. \A c \in Callers : pc[c] = "idle"
      BY <2>4 DEF ExitClears, Exiting
    <3> QED
      BY <2>4, <3>1 DEF ExitClears
  <2> QED
    BY <1>7, <2>1, <2>2, <2>3, <2>4 DEF ExitStep
<1>8. CASE \E s \in Sessions : EndSession(s)
  BY <1>8 DEF EndSession
<1>9. CASE UNCHANGED vars
  BY <1>9 DEF vars
<1> QED
  BY <1>1, <1>2, <1>3, <1>4, <1>5, <1>6, <1>7, <1>8, <1>9 DEF Next, ReportStep

\* A listed subagent whose worker has reported is done, however the report
\* raced with the registration, as long as late_subs has room when a worker
\* reports and main joins every caller before deinit.
THEOREM NoGhosts ==
  ASSUME Background = {}
  PROVE  Spec /\ []RoomToHold => []NoGhostRow
<1>1. Init => Reporting
  <2> SUFFICES ASSUME Init PROVE Told /\ NoGhostRow
    BY InitSafe, InitOrdered DEF Reporting
  <2> QED
    BY DEF Init, Told, NoGhostRow, Jobs
<1>2. Reporting /\ RoomToHold /\ [Next]_vars => Reporting'
  BY NextReporting
<1>3. Reporting => NoGhostRow
  BY DEF Reporting
<1> QED
  BY <1>1, <1>2, <1>3, PTL DEF Spec

-----------------------------------------------------------------------------
(* The bounds: how many jobs run and how many rows are listed at once.     *)

\* A nonempty finite set has an element of least stamp: the sets of elements
\* no younger than a given one are well-founded under inclusion.
LEMMA Oldest ==
  ASSUME NEW S, NEW K, IsFiniteSet(K), K \subseteq S, K # {}, NEW f \in [S -> Nat]
  PROVE  \E x \in K : \A y \in K : f[x] <= f[y]
<1> DEFINE Down(y) == {x \in K : f[x] <= f[y]}
           T == {U \in SUBSET K : \E y \in K : U = Down(y)}
<1>1. IsWellFoundedOn(StrictSubsetOrdering(K), FiniteSubsetsOf(K))
  BY FS_StrictSubsetOrderingWellFounded
<1>2. T \subseteq FiniteSubsetsOf(K)
  BY FS_FiniteSubsetsOfFinite
<1>3. T # {}
  <2>1. PICK y : y \in K
    OBVIOUS
  <2>2. Down(y) \in T
    BY <2>1
  <2> QED
    BY <2>2
<1>4. PICK U \in T : \A V \in T : ~(<<V, U>> \in StrictSubsetOrdering(K))
  <2> HIDE DEF T
  <2> QED
    BY <1>1, <1>2, <1>3, WFMin
<1>5. PICK x \in K : U = Down(x)
  OBVIOUS
<1>6. ASSUME NEW y \in K, f[y] < f[x] PROVE FALSE
  <2>1. Down(y) \in T
    OBVIOUS
  <2>2. Down(y) \subseteq Down(x) /\ x \in Down(x) /\ x \notin Down(y)
    BY <1>6
  <2>3. <<Down(y), U>> \in StrictSubsetOrdering(K)
    BY <1>5, <2>2 DEF StrictSubsetOrdering
  <2> QED
    BY <1>4, <2>1, <2>3
<1>7. \A y \in K : f[x] <= f[y]
  BY <1>6
<1> QED
  BY <1>7

\* waiting counts callers that wait for or kill the row's job.
Counted == \A j \in Jobs : \A d \in waiting[j] : pc[d] \in ClaimPCs /\ target[d] = j

\* Stamps order the listed rows.
Stamped ==
  /\ \A j \in Jobs : born[j] <= clock
  /\ \A j, k \in Jobs : row[j] = "listed" /\ row[k] = "listed" /\ born[j] = born[k] => j = k

\* The calls that passed the cap and have not listed their row yet.
ExecStarters == {c \in Callers : pc[c] \in {"admitted", "spawned", "registered", "charged", "unlaunched",
                                     "failing", "launched", "appending"}}
SubStarters == {c \in Callers : pc[c] = "registering"}

Running(kind) == {j \in Listed(kind) : j \notin done}

\* The rows Bounded allows of a kind.
Most == MaxRetained + MaxActive + Cardinality(Callers) - 1

\* The cap has room, or the rows and the starts under way fit: the admission
\* check reads the first, a reap restores the second.
Room(kind, S) == Cardinality(Running(kind)) < MaxActive \/ Cardinality(Listed(kind)) + Cardinality(S) <= Most

Started == ExecStarters \cup SubStarters

\* The starts under way are counted with the running jobs.
CapFits == Cardinality(Active) + Cardinality(Started) < MaxActive + Cardinality(Callers)

\* They are counted with the rows of their kind too, and a start that is about
\* to append, at label l, has made room.
RowsFit(kind, S, l) ==
  /\ Cardinality(Listed(kind)) <= Most
  /\ Room(kind, S)
  /\ \A c \in Callers : pc[c] = l => Cardinality(Listed(kind)) + Cardinality(S) <= Most

Fitting ==
  /\ CapFits
  /\ RowsFit(ExecJobs, ExecStarters, "appending")
  /\ RowsFit(SubJobs, SubStarters, "registering")

Placed == Orderly /\ Counted /\ Stamped

\* Every set the bounds count is finite.
LEMMA Finite ==
  ASSUME NEW kind \in {ExecJobs, SubJobs}, NEW A, A \subseteq Listed(kind)
  PROVE  IsFiniteSet(A) /\ Cardinality(A) \in Nat
<1>1. A \subseteq Jobs
  BY DEF Listed, Jobs
<1> QED
  BY <1>1, JobsAssumption, FS_Subset, FS_CardinalityType

\* Any set of callers is finite and no larger than all of them.
LEMMA FiniteCallers ==
  ASSUME NEW S \in SUBSET Callers
  PROVE  IsFiniteSet(S) /\ Cardinality(S) \in Nat /\ Cardinality(S) <= Cardinality(Callers)
         /\ Cardinality(Callers) \in Nat
BY JobsAssumption, FS_Subset, FS_CardinalityType

\* A union has at most the elements of its parts, and all of them if these
\* are disjoint.
LEMMA UnionBound ==
  ASSUME NEW A, NEW B, IsFiniteSet(A), IsFiniteSet(B)
  PROVE  /\ IsFiniteSet(A \cup B) /\ Cardinality(A \cup B) \in Nat
         /\ Cardinality(A) \in Nat /\ Cardinality(B) \in Nat
         /\ Cardinality(A \cup B) <= Cardinality(A) + Cardinality(B)
         /\ A \cap B = {} => Cardinality(A \cup B) = Cardinality(A) + Cardinality(B)
<1>1. IsFiniteSet(A \cap B) /\ Cardinality(A \cap B) \in Nat /\ (A \cap B = {} => Cardinality(A \cap B) = 0)
  <2>1. IsFiniteSet(A \cap B)
    BY FS_Intersection
  <2> QED
    BY <2>1, FS_CardinalityType, FS_EmptySet
<1>2. /\ IsFiniteSet(A \cup B)
      /\ Cardinality(A \cup B) = Cardinality(A) + Cardinality(B) - Cardinality(A \cap B)
  BY FS_Union
<1>3. Cardinality(A) \in Nat /\ Cardinality(B) \in Nat
  BY FS_CardinalityType
<1>4. Cardinality(A \cup B) \in Nat
  BY <1>2, FS_CardinalityType
<1> QED
  BY <1>1, <1>2, <1>3, <1>4

\* A reap keeps at most MaxRetained rows nobody claims.
LEMMA RetainsFew ==
  ASSUME Placed, NEW kind \in {ExecJobs, SubJobs}
  PROVE  Cardinality(Reapable(kind) \ Surplus(kind)) <= MaxRetained
<1> DEFINE K == Reapable(kind) \ Surplus(kind)
<1>1. K \subseteq Reapable(kind) /\ Reapable(kind) \subseteq Listed(kind) /\ Reapable(kind) \subseteq Jobs
  BY DEF Reapable, Listed, Jobs
<1>2. IsFiniteSet(K) /\ Cardinality(K) \in Nat
  BY <1>1, Finite
<1> SUFFICES ASSUME K # {}, Cardinality(K) > MaxRetained PROVE FALSE
  BY <1>2, FS_EmptySet, JobsAssumption
<1> HIDE DEF K
<1>3. born \in [Jobs -> Nat]
  BY DEF Placed, Orderly, Typed, TypeOK
<1>4. PICK j \in K : \A k \in K : born[j] <= born[k]
  BY <1>1, <1>2, <1>3, Oldest
<1> DEFINE Younger == {k \in Reapable(kind) : born[k] > born[j]}
<1>5. K \ {j} \subseteq Younger
  <2> SUFFICES ASSUME NEW k \in K \ {j} PROVE born[k] > born[j]
    BY <1>1
  <2>1. born[k] # born[j]
    BY <1>1 DEF Placed, Stamped, Reapable
  <2> QED
    BY <1>1, <1>3, <1>4, <2>1
<1>6. IsFiniteSet(Younger) /\ Cardinality(Younger) \in Nat
  BY <1>1, Finite
<1>7. Cardinality(K \ {j}) = Cardinality(K) - 1 /\ Cardinality(K \ {j}) <= Cardinality(Younger)
  BY <1>2, <1>5, <1>6, FS_RemoveElement, FS_Subset
<1>8. Cardinality(Younger) >= MaxRetained
  BY <1>2, <1>6, <1>7, JobsAssumption
<1>9. j \in Surplus(kind)
  BY <1>1, <1>8 DEF Surplus
<1> QED
  BY <1>9 DEF K

\* Every claimed row has a caller of its own, and none of them is starting.
LEMMA ClaimsFew ==
  ASSUME Placed, NEW kind \in {ExecJobs, SubJobs}, NEW S \in SUBSET Callers,
         \A c \in S : pc[c] \notin ClaimPCs
  PROVE  Cardinality({j \in Listed(kind) : waiting[j] # {}}) + Cardinality(S) <= Cardinality(Callers)
<1> DEFINE C == {j \in Listed(kind) : waiting[j] # {}}
           owner == [j \in C |-> CHOOSE d \in waiting[j] : TRUE]
           D == {owner[j] : j \in C}
<1>1. C \subseteq Jobs
  BY DEF Listed, Jobs
<1>2. \A j \in C : owner[j] \in waiting[j]
  OBVIOUS
<1>3. \A j \in C : owner[j] \in Callers /\ pc[owner[j]] \in ClaimPCs /\ target[owner[j]] = j
  BY <1>1, <1>2 DEF Placed, Counted, Orderly, Typed, TypeOK
<1>4. D \subseteq Callers /\ D \cap S = {}
  <2> HIDE DEF owner, C
  <2> QED
    BY <1>3
<1>5. owner \in Injection(C, D)
  <2>1. owner \in [C -> D]
    OBVIOUS
  <2>2. \A j, k \in C : owner[j] = owner[k] => j = k
    <3> HIDE DEF owner, C
    <3> QED
      BY <1>3
  <2> HIDE DEF owner, D, C
  <2> QED
    BY <2>1, <2>2 DEF Injection, IsInjective
<1> HIDE DEF owner, D, C
<1>6. IsFiniteSet(D) /\ Cardinality(D) \in Nat
  BY <1>4, FiniteCallers
<1>7. IsFiniteSet(C) /\ Cardinality(C) \in Nat /\ Cardinality(C) <= Cardinality(D)
  BY <1>5, <1>6, FS_Injection, FS_CardinalityType
<1>8. IsFiniteSet(S) /\ Cardinality(S) \in Nat
  BY FiniteCallers
<1>9. Cardinality(D \cup S) = Cardinality(D) + Cardinality(S)
  BY <1>4, <1>6, <1>8, UnionBound
<1>10. Cardinality(D \cup S) <= Cardinality(Callers) /\ Cardinality(Callers) \in Nat
  BY <1>4, FiniteCallers
<1>11. Cardinality(C) + Cardinality(S) <= Cardinality(Callers)
  BY <1>6, <1>7, <1>8, <1>9, <1>10
<1> QED
  BY <1>11 DEF C

\* A reap makes room for the starts under way.
LEMMA ReapMakesRoom ==
  ASSUME Placed, NEW kind \in {ExecJobs, SubJobs}, NEW S \in SUBSET Callers,
         \A c \in S : pc[c] \notin ClaimPCs, Room(kind, S)
  PROVE  Cardinality(Listed(kind) \ Surplus(kind)) + Cardinality(S) <= Most
<1> DEFINE L == Listed(kind) \ Surplus(kind)
           R == Reapable(kind) \ Surplus(kind)
           C == {j \in Listed(kind) : waiting[j] # {}}
<1>1. /\ L \subseteq Running(kind) \cup C \cup R
      /\ L \subseteq Listed(kind) /\ R \subseteq Listed(kind) /\ C \subseteq Listed(kind)
      /\ Running(kind) \subseteq Listed(kind)
  BY DEF Running, Reapable, Listed
<1>2. Cardinality(R) <= MaxRetained /\ Cardinality(C) + Cardinality(S) <= Cardinality(Callers)
  BY RetainsFew, ClaimsFew
<1> HIDE DEF L, R, C
<1>3. /\ IsFiniteSet(Running(kind)) /\ Cardinality(Running(kind)) \in Nat
      /\ IsFiniteSet(C) /\ Cardinality(C) \in Nat
      /\ IsFiniteSet(R) /\ Cardinality(R) \in Nat
      /\ IsFiniteSet(Listed(kind)) /\ Cardinality(Listed(kind)) \in Nat
      /\ IsFiniteSet(L) /\ Cardinality(L) \in Nat
  BY <1>1, Finite
<1>4. /\ Cardinality(S) \in Nat /\ Cardinality(Callers) \in Nat
      /\ MaxRetained \in Nat /\ MaxActive \in Nat
  BY FiniteCallers, JobsAssumption
<1>5. /\ IsFiniteSet(Running(kind) \cup C)
      /\ Cardinality(Running(kind) \cup C) \in Nat
      /\ Cardinality(Running(kind) \cup C) <= Cardinality(Running(kind)) + Cardinality(C)
  BY <1>3, UnionBound
<1>6. /\ IsFiniteSet((Running(kind) \cup C) \cup R)
      /\ Cardinality((Running(kind) \cup C) \cup R) \in Nat
      /\ Cardinality((Running(kind) \cup C) \cup R) <= Cardinality(Running(kind) \cup C) + Cardinality(R)
  BY <1>3, <1>5, UnionBound
<1>7. Cardinality(L) <= Cardinality(Running(kind)) + Cardinality(C) + Cardinality(R)
  <2>1. Cardinality(L) <= Cardinality((Running(kind) \cup C) \cup R)
    BY <1>1, <1>6, FS_Subset
  <2> QED
    BY <1>3, <1>5, <1>6, <2>1
<1>8. Cardinality(L) <= Cardinality(Listed(kind))
  BY <1>1, <1>3, FS_Subset
<1>9. CASE Cardinality(Running(kind)) < MaxActive
  BY <1>2, <1>3, <1>4, <1>7, <1>9 DEF Most, L
<1>10. CASE Cardinality(Listed(kind)) + Cardinality(S) <= Most
  BY <1>3, <1>4, <1>8, <1>10 DEF Most, L
<1> QED
  BY <1>9, <1>10 DEF Room

\* Every step of a starting call keeps claims and stamps.
LEMMA StartPlaced ==
  ASSUME Placed, NEW c \in Callers, StartStep(c)
  PROVE  (Counted /\ Stamped)'
<1> USE JobsAssumption DEF Placed, Orderly, Typed, TypeOK, Targeted, Staged, Counted, Stamped, Jobs, Return, Goto,
      StartPCs, ClaimPCs, SubPCs, ExecPCs, KillPCs,
      tableVars, threadVars, osVars, countVars, lateVars, callVars, exitVars
<1>1. CASE StartExecFails(c) \/ SpawnChild(c)
  BY <1>1 DEF StartExecFails, SpawnChild
<1>11. CASE FailForgets(c)
  BY <1>11 DEF FailForgets
<1>2. CASE RegisterChild(c) \/ ChargeGauge(c) \/ LaunchWaiter(c) \/ WaiterFails(c)
  BY <1>2 DEF RegisterChild, ChargeGauge, LaunchWaiter, WaiterFails
<1>3. CASE BeginAppend(c)
  <2>1. \A k \in Jobs : row'[k] = "listed" => row[k] = "listed"
    BY <1>3 DEF BeginAppend
  <2> QED
    BY <1>3, <2>1 DEF BeginAppend
<1>4. CASE EndAppend(c)
  <2>1. Counted'
    BY <1>4 DEF EndAppend
  <2>2. /\ clock' = clock + 1 /\ born' = [born EXCEPT ![target[c]] = clock + 1]
        /\ \A k \in Jobs : row'[k] = "listed" => k = target[c] \/ row[k] = "listed"
    BY <1>4 DEF EndAppend, Listing, Freed
  <2> QED
    BY <2>1, <2>2
<1>5. CASE AppendFails(c)
  BY <1>5 DEF AppendFails, Freed
<1>6. CASE UnwindTerm(c)
  BY <1>6 DEF UnwindTerm
<1>12. CASE UnwindJoin(c)
  BY <1>12 DEF UnwindJoin
<1>7. CASE SpawnWorker(c) \/ SpawnFails(c) \/ RegisterBusy(c)
  BY <1>7 DEF SpawnWorker, SpawnFails, RegisterBusy
<1>8. CASE BeginRegister(c)
  <2>1. \A k \in Jobs : row'[k] = "listed" => row[k] = "listed"
    BY <1>8 DEF BeginRegister
  <2> QED
    BY <1>8, <2>1 DEF BeginRegister
<1>9. CASE EndRegister(c)
  <2>1. Counted'
    BY <1>9 DEF EndRegister
  <2>2. /\ clock' = clock + 1 /\ born' = [born EXCEPT ![target[c]] = clock + 1]
        /\ \A k \in Jobs : row'[k] = "listed" => k = target[c] \/ row[k] = "listed"
    BY <1>9 DEF EndRegister, Listing, Freed
  <2> QED
    BY <2>1, <2>2
<1>10. CASE RegisterFails(c)
  <2>1. Counted'
    BY <1>10 DEF RegisterFails
  <2>2. \A k \in Jobs : row'[k] = "listed" => row[k] = "listed"
    BY <1>10 DEF RegisterFails, Freed
  <2> QED
    BY <1>10, <2>1, <2>2 DEF RegisterFails
<1> QED
  BY <1>1, <1>2, <1>3, <1>4, <1>5, <1>6, <1>7, <1>8, <1>9, <1>10, <1>11, <1>12 DEF StartStep

\* Placed is inductive.
LEMMA NextPlaced == Placed /\ [Next]_vars => Placed'
<1> SUFFICES ASSUME Placed, [Next]_vars PROVE (Counted /\ Stamped)'
  BY NextOrderly DEF Placed
<1> USE JobsAssumption DEF Placed, Orderly, Typed, TypeOK, Targeted, Staged, Counted, Stamped, Jobs, Return, Goto,
      StartPCs, ClaimPCs, SubPCs, ExecPCs, KillPCs,
      tableVars, threadVars, osVars, countVars, lateVars, callVars, exitVars
<1>1. ASSUME NEW c \in Callers, StartStep(c) PROVE (Counted /\ Stamped)'
  BY <1>1, StartPlaced
<1>2. ASSUME NEW c \in Callers, ClaimStep(c) PROVE (Counted /\ Stamped)'
  <2>1. CASE WaitJoins(c) \/ KillTerm(c)
    BY <2>1 DEF WaitJoins, KillTerm
  <2>3. CASE KillEscalates(c) \/ KillForgets(c)
    BY <2>3 DEF KillEscalates, KillForgets
  <2>2. CASE WaitReturns(c) \/ KillReturns(c)
    BY <2>2 DEF WaitReturns, KillReturns, Leave
  <2> QED
    BY <1>2, <2>1, <2>2, <2>3 DEF ClaimStep
<1>3. ASSUME NEW c \in Callers, Request(c) PROVE (Counted /\ Stamped)'
  <2>1. ASSUME NEW j \in Jobs, AdmitExec(c, j) \/ AdmitSub(c, j) PROVE (Counted /\ Stamped)'
    <3>1. \A k \in Jobs : row'[k] = "listed" => row[k] = "listed"
      BY <2>1 DEF AdmitExec, AdmitSub
    <3>2. /\ waiting' = waiting /\ born' = born /\ clock' = clock
          /\ \A d \in Callers : pc[d] \in ClaimPCs => pc'[d] = pc[d] /\ target'[d] = target[d]
      BY <2>1 DEF AdmitExec, AdmitSub, CanCall
    <3> QED
      BY <3>1, <3>2
  <2>2. ASSUME NEW j \in Jobs, Kill(c, j) \/ Wait(c, j) PROVE (Counted /\ Stamped)'
    BY <2>2 DEF Kill, Wait, Claim, CanCall
  <2>3. ASSUME NEW j \in Jobs, KillUnlisted(c, j) PROVE (Counted /\ Stamped)'
    BY <2>3 DEF KillUnlisted
  <2> QED
    BY <1>3, <2>1, <2>2, <2>3 DEF Request
<1>4. ASSUME NEW j \in ExecJobs, ChildExits(j) \/ WaiterStep(j) PROVE (Counted /\ Stamped)'
  BY <1>4 DEF ChildExits, WaiterStep, WaiterReaps, WaiterStores, WaiterForgets
<1>5. ASSUME NEW j \in SubJobs, WorkerRemembers(j) \/ WorkerRuns(j) PROVE (Counted /\ Stamped)'
  BY <1>5 DEF WorkerRemembers, WorkerRuns
<1>6. ASSUME NEW j \in SubJobs, FinishSub(j) PROVE (Counted /\ Stamped)'
  BY <1>6 DEF FinishSub, ReportOnRow, HoldReport
<1>7. CASE ExitStep
  <2>1. CASE ExitTerm \/ ExitKill \/ ExitClears
    BY <2>1 DEF ExitTerm, ExitKill, ExitClears
  <2>3. CASE ExitDestroys
    <3>1. \A k \in Jobs : row'[k] = "listed" => row[k] = "listed"
      BY <2>3 DEF ExitDestroys
    <3> QED
      BY <2>3, <3>1 DEF ExitDestroys
  <2>2. ASSUME NEW j \in Jobs, ExitPops(j) PROVE (Counted /\ Stamped)'
    BY <2>2 DEF ExitPops
  <2> QED
    BY <1>7, <2>1, <2>2, <2>3 DEF ExitStep
<1>8. CASE \E s \in Sessions : EndSession(s)
  BY <1>8 DEF EndSession
<1>9. CASE UNCHANGED vars
  BY <1>9 DEF vars
<1> QED
  BY <1>1, <1>2, <1>3, <1>4, <1>5, <1>6, <1>7, <1>8, <1>9 DEF Next, ReportStep

\* A subset of a finite set is finite and no larger.
LEMMA Smaller ==
  ASSUME NEW B, IsFiniteSet(B), NEW A, A \subseteq B
  PROVE  IsFiniteSet(A) /\ Cardinality(A) \in Nat /\ Cardinality(B) \in Nat /\ Cardinality(A) <= Cardinality(B)
BY FS_Subset, FS_CardinalityType

\* One more element adds one at most.
LEMMA OneMore ==
  ASSUME NEW A, NEW x, IsFiniteSet(A)
  PROVE  IsFiniteSet(A \cup {x}) /\ Cardinality(A \cup {x}) <= Cardinality(A) + 1
<1>1. Cardinality(A) \in Nat /\ IsFiniteSet(A \cup {x})
  BY FS_CardinalityType, FS_AddElement
<1>2. CASE x \in A
  BY <1>1, <1>2, FS_AddElement
<1>3. CASE x \notin A
  BY <1>1, <1>3, FS_AddElement
<1> QED
  BY <1>2, <1>3

\* The sets the bounds count, before and after a step.
LEMMA FiniteSteps ==
  ASSUME NEW kind \in {ExecJobs, SubJobs}
  PROVE  /\ IsFiniteSet(Listed(kind)) /\ IsFiniteSet(Listed(kind)') /\ IsFiniteSet(Running(kind))
         /\ IsFiniteSet(Active) /\ IsFiniteSet(Active')
         /\ Running(kind) \subseteq Active /\ Most \in Int /\ Most' = Most
         /\ Cardinality(Callers) \in Nat /\ MaxActive \in Nat /\ MaxRetained \in Nat
<1>1. /\ Listed(kind) \subseteq Jobs /\ Listed(kind)' \subseteq Jobs /\ Running(kind) \subseteq Jobs
      /\ Active \subseteq Jobs /\ Active' \subseteq Jobs /\ Running(kind) \subseteq Active
  BY DEF Listed, Running, Active, Jobs
<1>2. Cardinality(Callers) \in Nat /\ MaxActive \in Nat /\ MaxRetained \in Nat
  BY JobsAssumption, FiniteCallers
<1> QED
  BY <1>1, <1>2, JobsAssumption, FS_Subset DEF Most

\* A step that lists and starts nothing keeps the rows bounded.
LEMMA RowsKept ==
  ASSUME NEW kind \in {ExecJobs, SubJobs}, NEW S \in SUBSET Callers, NEW l, RowsFit(kind, S, l),
         NEW T, T \subseteq S, Listed(kind)' \subseteq Listed(kind), Running(kind)' \subseteq Running(kind),
         \A c \in Callers : pc'[c] = l => pc[c] = l
  PROVE  /\ Cardinality(Listed(kind)') <= Most
         /\ Cardinality(Running(kind)') < MaxActive \/ Cardinality(Listed(kind)') + Cardinality(T) <= Most
         /\ \A c \in Callers : pc'[c] = l => Cardinality(Listed(kind)') + Cardinality(T) <= Most
<1>1. /\ Cardinality(Listed(kind)') \in Nat /\ Cardinality(Listed(kind)) \in Nat
      /\ Cardinality(Listed(kind)') <= Cardinality(Listed(kind))
      /\ Cardinality(Running(kind)') \in Nat /\ Cardinality(Running(kind)) \in Nat
      /\ Cardinality(Running(kind)') <= Cardinality(Running(kind))
      /\ Most \in Int /\ MaxActive \in Nat
  BY FiniteSteps, Smaller
<1>2. Cardinality(T) \in Nat /\ Cardinality(S) \in Nat /\ Cardinality(T) <= Cardinality(S)
  BY FiniteCallers, Smaller
<1> QED
  BY <1>1, <1>2 DEF RowsFit, Room

\* A start that reaps has room for itself and the others.
LEMMA RowsReaped ==
  ASSUME Placed, NEW kind \in {ExecJobs, SubJobs}, NEW T \in SUBSET Callers,
         \A c \in T : pc[c] \notin ClaimPCs, Room(kind, T), Listed(kind)' \subseteq Listed(kind) \ Surplus(kind)
  PROVE  Cardinality(Listed(kind)') <= Most /\ Cardinality(Listed(kind)') + Cardinality(T) <= Most
<1>1. IsFiniteSet(Listed(kind) \ Surplus(kind)) /\ Most \in Int
  BY FiniteSteps, FS_Difference
<1>2. /\ Cardinality(Listed(kind)') \in Nat /\ Cardinality(Listed(kind) \ Surplus(kind)) \in Nat
      /\ Cardinality(Listed(kind)') <= Cardinality(Listed(kind) \ Surplus(kind))
  BY <1>1, Smaller
<1>3. Cardinality(T) \in Nat
  BY FiniteCallers
<1>4. Cardinality(Listed(kind) \ Surplus(kind)) + Cardinality(T) <= Most
  BY ReapMakesRoom
<1> QED
  BY <1>1, <1>2, <1>3, <1>4

\* The append takes the room its start was counted for.
LEMMA RowsListed ==
  ASSUME NEW kind \in {ExecJobs, SubJobs}, NEW S \in SUBSET Callers, NEW l, RowsFit(kind, S, l),
         NEW c \in S, pc[c] = l, NEW j, Listed(kind)' \subseteq Listed(kind) \cup {j}
  PROVE  Cardinality(Listed(kind)') <= Most /\ Cardinality(Listed(kind)') + Cardinality(S \ {c}) <= Most
<1>1. IsFiniteSet(Listed(kind)) /\ Cardinality(Listed(kind)) \in Nat /\ Most \in Int
  BY FiniteSteps, FS_CardinalityType
<1>2. /\ IsFiniteSet(Listed(kind) \cup {j})
      /\ Cardinality(Listed(kind) \cup {j}) <= Cardinality(Listed(kind)) + 1
  BY <1>1, OneMore
<1>3. /\ Cardinality(Listed(kind)') \in Nat /\ Cardinality(Listed(kind) \cup {j}) \in Nat
      /\ Cardinality(Listed(kind)') <= Cardinality(Listed(kind) \cup {j})
  BY <1>2, Smaller
<1>4. IsFiniteSet(S) /\ Cardinality(S) \in Nat
  BY FiniteCallers
<1>5. Cardinality(S \ {c}) = Cardinality(S) - 1 /\ Cardinality(S \ {c}) \in Nat
  BY <1>4, FS_RemoveElement, FS_CardinalityType
<1>6. Cardinality(Listed(kind)) + Cardinality(S) <= Most
  BY DEF RowsFit
<1> QED
  BY <1>1, <1>2, <1>3, <1>4, <1>5, <1>6

\* The cap holds over a step that runs and starts no more, over one that turns
\* a start into a running job, and over an admission.
LEMMA CapKept ==
  ASSUME CapFits,
         \/ Active' \subseteq Active /\ Started' \subseteq Started
         \/ \E c \in Started : \E j : Active' \subseteq Active \cup {j} /\ Started' \subseteq Started \ {c}
         \/ SlotFree /\ Active' \subseteq Active /\ Started' \subseteq Callers
  PROVE  CapFits'
<1>1. /\ IsFiniteSet(Active) /\ IsFiniteSet(Active') /\ MaxActive \in Nat
      /\ Cardinality(Active) \in Nat /\ Cardinality(Active') \in Nat
  <2>1. IsFiniteSet(Active) /\ IsFiniteSet(Active') /\ MaxActive \in Nat
    BY FiniteSteps
  <2> QED
    BY <2>1, FS_CardinalityType
<1>2. Started \subseteq Callers /\ Started' \subseteq Callers
  BY DEF Started, ExecStarters, SubStarters
<1>3. /\ IsFiniteSet(Started) /\ Cardinality(Started) \in Nat
      /\ IsFiniteSet(Started') /\ Cardinality(Started') \in Nat
      /\ Cardinality(Started') <= Cardinality(Callers) /\ Cardinality(Callers) \in Nat
  BY <1>2, FiniteCallers
<1> SUFFICES Cardinality(Active') + Cardinality(Started') < MaxActive + Cardinality(Callers)
  BY DEF CapFits
<1>4. CASE Active' \subseteq Active /\ Started' \subseteq Started
  <2>1. Cardinality(Active') <= Cardinality(Active) /\ Cardinality(Started') <= Cardinality(Started)
    BY <1>1, <1>3, <1>4, Smaller
  <2> QED
    BY <1>1, <1>3, <2>1 DEF CapFits
<1>5. CASE \E c \in Started : \E j : Active' \subseteq Active \cup {j} /\ Started' \subseteq Started \ {c}
  <2>c. PICK c \in Started : \E j : Active' \subseteq Active \cup {j} /\ Started' \subseteq Started \ {c}
    BY <1>5
  <2>1. PICK j : Active' \subseteq Active \cup {j} /\ Started' \subseteq Started \ {c}
    BY <2>c
  <2>2. IsFiniteSet(Active \cup {j}) /\ Cardinality(Active \cup {j}) <= Cardinality(Active) + 1
    BY <1>1, OneMore
  <2>3. IsFiniteSet(Started \ {c}) /\ Cardinality(Started \ {c}) = Cardinality(Started) - 1
    BY <1>3, FS_RemoveElement
  <2>4. /\ Cardinality(Active \cup {j}) \in Nat /\ Cardinality(Active') <= Cardinality(Active \cup {j})
        /\ Cardinality(Started \ {c}) \in Nat /\ Cardinality(Started') <= Cardinality(Started \ {c})
    BY <2>1, <2>2, <2>3, Smaller
  <2> QED
    BY <1>1, <1>3, <2>2, <2>3, <2>4 DEF CapFits
<1>6. CASE SlotFree /\ Active' \subseteq Active /\ Started' \subseteq Callers
  <2>1. Cardinality(Active') <= Cardinality(Active)
    BY <1>1, <1>6, Smaller
  <2> QED
    BY <1>1, <1>3, <1>6, <2>1 DEF SlotFree
<1> QED
  BY <1>4, <1>5, <1>6

\* A step that lists, starts and admits nothing.
Narrowed ==
  /\ Listed(ExecJobs)' \subseteq Listed(ExecJobs) /\ Listed(SubJobs)' \subseteq Listed(SubJobs)
  /\ Running(ExecJobs)' \subseteq Running(ExecJobs) /\ Running(SubJobs)' \subseteq Running(SubJobs)
  /\ ExecStarters' \subseteq ExecStarters /\ SubStarters' \subseteq SubStarters
  /\ \A c \in Callers : pc'[c] \in {"appending", "registering"} => pc'[c] = pc[c]

\* Such a step keeps the bounds.
LEMMA NarrowedFits ==
  ASSUME Fitting, Narrowed
  PROVE  Fitting'
<1>1. CapFits'
  <2>1. Active' \subseteq Active /\ Started' \subseteq Started
    BY DEF Narrowed, Active, Running, Listed, Jobs, Started
  <2> QED
    BY <2>1, CapKept DEF Fitting
<1>2. ExecStarters \in SUBSET Callers /\ SubStarters \in SUBSET Callers
  BY DEF ExecStarters, SubStarters
<1>3. RowsFit(ExecJobs, ExecStarters, "appending")'
  <2>1. \A c \in Callers : pc'[c] = "appending" => pc[c] = "appending"
    BY DEF Narrowed
  <2> QED
    BY <1>2, <2>1, RowsKept, FiniteSteps DEF Fitting, Narrowed, RowsFit, Room
<1>4. RowsFit(SubJobs, SubStarters, "registering")'
  <2>1. \A c \in Callers : pc'[c] = "registering" => pc[c] = "registering"
    BY DEF Narrowed
  <2> QED
    BY <1>2, <2>1, RowsKept, FiniteSteps DEF Fitting, Narrowed, RowsFit, Room
<1> QED
  BY <1>1, <1>3, <1>4 DEF Fitting

\* An admission, under mu and the cap, keeps the bounds.
LEMMA AdmitFits ==
  ASSUME Placed, Fitting, NEW c \in Callers, NEW j \in Jobs, AdmitExec(c, j) \/ AdmitSub(c, j)
  PROVE  Fitting'
<1>1. /\ SlotFree /\ mu = Nobody /\ row[j] = "none" /\ row' = [row EXCEPT ![j] = "staged"] /\ done' = done
      /\ \E l \in {"admitted", "subAdmitted"} : pc' = [pc EXCEPT ![c] = l]
  BY DEF AdmitExec, AdmitSub, threadVars, Goto
<1>2. \A k \in Jobs : row'[k] = "listed" <=> row[k] = "listed"
  BY <1>1 DEF Placed, Orderly, Typed, TypeOK
<1>3. /\ Listed(ExecJobs)' = Listed(ExecJobs) /\ Listed(SubJobs)' = Listed(SubJobs)
      /\ Running(ExecJobs)' = Running(ExecJobs) /\ Running(SubJobs)' = Running(SubJobs) /\ Active' = Active
  BY <1>1, <1>2 DEF Listed, Running, Active, Jobs
<1>4. /\ \A d \in Callers : pc'[d] \notin {"appending", "registering"}
      /\ SubStarters' = {}
  BY <1>1, JobsAssumption DEF Placed, Orderly, Typed, TypeOK, Locking, SubStarters
<1>5. ExecStarters' \in SUBSET Callers /\ SubStarters' \in SUBSET Callers
  BY DEF ExecStarters, SubStarters
<1>6. CapFits'
  BY <1>1, <1>3, <1>5, CapKept DEF Fitting, Started
<1>7. Cardinality(Running(ExecJobs)) < MaxActive
  <2>1. /\ Running(ExecJobs) \subseteq Active /\ IsFiniteSet(Active) /\ MaxActive \in Nat
    BY FiniteSteps
  <2>2. /\ Cardinality(Running(ExecJobs)) \in Nat /\ Cardinality(Active) \in Nat
        /\ Cardinality(Running(ExecJobs)) <= Cardinality(Active)
    BY <2>1, Smaller
  <2> QED
    BY <1>1, <2>1, <2>2 DEF SlotFree
<1>8. RowsFit(ExecJobs, ExecStarters, "appending")'
  BY <1>3, <1>4, <1>7, FiniteSteps DEF Fitting, RowsFit, Room
<1>9. RowsFit(SubJobs, SubStarters, "registering")'
  <2>1. SubStarters \in SUBSET Callers /\ SubStarters' \subseteq SubStarters
    BY <1>4 DEF SubStarters
  <2> QED
    BY <1>3, <1>4, <2>1, RowsKept, FiniteSteps DEF Fitting, RowsFit, Room
<1> QED
  BY <1>6, <1>8, <1>9 DEF Fitting

\* A start that takes mu to append reaps first.
LEMMA BeginAppendFits ==
  ASSUME Placed, Fitting, NEW c \in Callers, BeginAppend(c)
  PROVE  Fitting'
<1>1. /\ pc[c] = "launched" /\ mu = Nobody /\ done' = done /\ pc' = [pc EXCEPT ![c] = "appending"]
      /\ row' = [j \in Jobs |-> IF j \in Surplus(ExecJobs) THEN "doomed" ELSE row[j]]
  BY DEF BeginAppend, threadVars, Goto
<1>2. /\ Listed(ExecJobs)' \subseteq Listed(ExecJobs) \ Surplus(ExecJobs) /\ Listed(SubJobs)' \subseteq Listed(SubJobs)
      /\ Running(ExecJobs)' \subseteq Running(ExecJobs) /\ Running(SubJobs)' \subseteq Running(SubJobs)
      /\ Active' \subseteq Active
  BY <1>1 DEF Listed, Running, Active, Jobs
<1>3. /\ ExecStarters' = ExecStarters /\ SubStarters' = SubStarters
      /\ ExecStarters \in SUBSET Callers /\ SubStarters \in SUBSET Callers
      /\ \A d \in ExecStarters : pc[d] \notin ClaimPCs
  BY <1>1 DEF ExecStarters, SubStarters, Placed, Orderly, Typed, TypeOK, ClaimPCs
<1>4. CapFits'
  BY <1>2, <1>3, CapKept DEF Fitting, Started
<1>5. RowsFit(ExecJobs, ExecStarters, "appending")'
  BY <1>2, <1>3, RowsReaped, FiniteSteps DEF Fitting, RowsFit, Room
<1>6. RowsFit(SubJobs, SubStarters, "registering")'
  <2>1. \A d \in Callers : pc'[d] = "registering" => pc[d] = "registering"
    BY <1>1 DEF Placed, Orderly, Typed, TypeOK
  <2> QED
    BY <1>2, <1>3, <2>1, RowsKept, FiniteSteps DEF Fitting, RowsFit, Room
<1> QED
  BY <1>4, <1>5, <1>6 DEF Fitting

\* So does a registration, which checks the cap again under mu.
LEMMA BeginRegisterFits ==
  ASSUME Placed, Fitting, NEW c \in Callers, BeginRegister(c)
  PROVE  Fitting'
<1>1. /\ pc[c] = "subSpawned" /\ mu = Nobody /\ SlotFree /\ done \subseteq done' /\ pc' = [pc EXCEPT ![c] = "registering"]
      /\ row' = [j \in Jobs |-> IF j \in Surplus(SubJobs) THEN "doomed" ELSE row[j]]
  BY DEF BeginRegister, AttachLate, Goto
<1>2. /\ Listed(SubJobs)' \subseteq Listed(SubJobs) \ Surplus(SubJobs) /\ Listed(ExecJobs)' \subseteq Listed(ExecJobs)
      /\ Running(ExecJobs)' \subseteq Running(ExecJobs) /\ Running(SubJobs)' \subseteq Running(SubJobs)
      /\ Active' \subseteq Active
  BY <1>1 DEF Listed, Running, Active, Jobs
<1>3. /\ ExecStarters' = ExecStarters /\ SubStarters' \subseteq SubStarters \cup {c}
      /\ ExecStarters \in SUBSET Callers /\ SubStarters' \in SUBSET Callers
      /\ \A d \in SubStarters' : pc[d] \notin ClaimPCs
  BY <1>1 DEF ExecStarters, SubStarters, Placed, Orderly, Typed, TypeOK, ClaimPCs
<1>4. CapFits'
  BY <1>1, <1>2, <1>3, CapKept DEF Fitting, Started
<1>5. Cardinality(Running(SubJobs)) < MaxActive
  <2>1. /\ Running(SubJobs) \subseteq Active /\ IsFiniteSet(Active) /\ MaxActive \in Nat
    BY FiniteSteps
  <2>2. /\ Cardinality(Running(SubJobs)) \in Nat /\ Cardinality(Active) \in Nat
        /\ Cardinality(Running(SubJobs)) <= Cardinality(Active)
    BY <2>1, Smaller
  <2> QED
    BY <1>1, <2>1, <2>2 DEF SlotFree
<1>6. RowsFit(SubJobs, SubStarters, "registering")'
  <2>1. Room(SubJobs, SubStarters')
    BY <1>5 DEF Room
  <2> QED
    BY <1>2, <1>3, <2>1, RowsReaped, FiniteSteps DEF RowsFit, Room
<1>7. RowsFit(ExecJobs, ExecStarters, "appending")'
  <2>1. \A d \in Callers : pc'[d] = "appending" => pc[d] = "appending"
    BY <1>1 DEF Placed, Orderly, Typed, TypeOK
  <2> QED
    BY <1>2, <1>3, <2>1, RowsKept, FiniteSteps DEF Fitting, RowsFit, Room
<1> QED
  BY <1>4, <1>6, <1>7 DEF Fitting

\* The append itself: the start becomes a row.
LEMMA EndAppendFits ==
  ASSUME Placed, Fitting, NEW c \in Callers, EndAppend(c)
  PROVE  Fitting'
<1>1. /\ pc[c] = "appending" /\ done' = done /\ pc' = [pc EXCEPT ![c] = "idle"] /\ target[c] \in ExecJobs
      /\ \A k \in Jobs : row'[k] = "listed" => k = target[c] \/ row[k] = "listed"
  BY DEF EndAppend, Listing, Freed, Return, Goto, threadVars, Placed, Orderly, Typed, TypeOK, Targeted, ExecPCs
<1>2. /\ Listed(ExecJobs)' \subseteq Listed(ExecJobs) \cup {target[c]} /\ Listed(SubJobs)' \subseteq Listed(SubJobs)
      /\ Running(SubJobs)' \subseteq Running(SubJobs) /\ Active' \subseteq Active \cup {target[c]}
  BY <1>1, JobsAssumption DEF Listed, Running, Active, Jobs
<1>3. /\ ExecStarters' = ExecStarters \ {c} /\ SubStarters' = SubStarters /\ c \in ExecStarters /\ c \notin SubStarters
      /\ ExecStarters \in SUBSET Callers /\ SubStarters \in SUBSET Callers
  BY <1>1 DEF ExecStarters, SubStarters, Placed, Orderly, Typed, TypeOK
<1>4. CapFits'
  <2>1. c \in Started /\ Started' \subseteq Started \ {c}
    BY <1>3 DEF Started
  <2> QED
    BY <1>2, <2>1, CapKept DEF Fitting
<1>5. RowsFit(ExecJobs, ExecStarters, "appending")'
  BY <1>1, <1>2, <1>3, RowsListed, FiniteSteps DEF Fitting, RowsFit, Room
<1>6. RowsFit(SubJobs, SubStarters, "registering")'
  <2>1. \A d \in Callers : pc'[d] = "registering" => pc[d] = "registering"
    BY <1>1 DEF Placed, Orderly, Typed, TypeOK
  <2>2. /\ RowsFit(SubJobs, SubStarters, "registering") /\ SubStarters \in SUBSET Callers /\ SubStarters' \subseteq SubStarters
        /\ Listed(SubJobs)' \subseteq Listed(SubJobs) /\ Running(SubJobs)' \subseteq Running(SubJobs)
    BY <1>2, <1>3 DEF Fitting
  <2> QED
    BY <2>1, <2>2, RowsKept, FiniteSteps DEF RowsFit, Room
<1> QED
  BY <1>4, <1>5, <1>6 DEF Fitting

\* The same of a subagent's registration.
LEMMA EndRegisterFits ==
  ASSUME Placed, Fitting, NEW c \in Callers, EndRegister(c)
  PROVE  Fitting'
<1>1. /\ pc[c] = "registering" /\ done' = done /\ pc' = [pc EXCEPT ![c] = "idle"] /\ target[c] \in SubJobs
      /\ \A k \in Jobs : row'[k] = "listed" => k = target[c] \/ row[k] = "listed"
  BY DEF EndRegister, Listing, Freed, Return, Goto, threadVars, Placed, Orderly, Typed, TypeOK, Targeted, SubPCs
<1>2. /\ Listed(SubJobs)' \subseteq Listed(SubJobs) \cup {target[c]} /\ Listed(ExecJobs)' \subseteq Listed(ExecJobs)
      /\ Running(ExecJobs)' \subseteq Running(ExecJobs) /\ Active' \subseteq Active \cup {target[c]}
  BY <1>1, JobsAssumption DEF Listed, Running, Active, Jobs
<1>3. /\ SubStarters' = SubStarters \ {c} /\ ExecStarters' = ExecStarters /\ c \in SubStarters /\ c \notin ExecStarters
      /\ ExecStarters \in SUBSET Callers /\ SubStarters \in SUBSET Callers
  BY <1>1 DEF ExecStarters, SubStarters, Placed, Orderly, Typed, TypeOK
<1>4. CapFits'
  <2>1. c \in Started /\ Started' \subseteq Started \ {c}
    BY <1>3 DEF Started
  <2> QED
    BY <1>2, <2>1, CapKept DEF Fitting
<1>5. RowsFit(SubJobs, SubStarters, "registering")'
  BY <1>1, <1>2, <1>3, RowsListed, FiniteSteps DEF Fitting, RowsFit, Room
<1>6. RowsFit(ExecJobs, ExecStarters, "appending")'
  <2>1. \A d \in Callers : pc'[d] = "appending" => pc[d] = "appending"
    BY <1>1 DEF Placed, Orderly, Typed, TypeOK
  <2>2. /\ RowsFit(ExecJobs, ExecStarters, "appending") /\ ExecStarters \in SUBSET Callers /\ ExecStarters' \subseteq ExecStarters
        /\ Listed(ExecJobs)' \subseteq Listed(ExecJobs) /\ Running(ExecJobs)' \subseteq Running(ExecJobs)
    BY <1>2, <1>3 DEF Fitting
  <2> QED
    BY <2>1, <2>2, RowsKept, FiniteSteps DEF RowsFit, Room
<1> QED
  BY <1>4, <1>5, <1>6 DEF Fitting

\* Fitting is inductive, with Placed.
LEMMA NextFits == Placed /\ Fitting /\ [Next]_vars => Fitting'
<1> SUFFICES ASSUME Placed, Fitting, [Next]_vars PROVE Fitting'
  OBVIOUS
<1>1. ASSUME Narrowed PROVE Fitting'
  BY <1>1, NarrowedFits
<1> USE JobsAssumption DEF Placed, Orderly, Typed, TypeOK, Targeted, Staged, Jobs, Return, Goto,
      StartPCs, ClaimPCs, SubPCs, ExecPCs, KillPCs, Listed, Running, ExecStarters, SubStarters, Narrowed,
      tableVars, threadVars, osVars, countVars, lateVars, callVars, exitVars
<1>2. ASSUME NEW c \in Callers, StartStep(c) PROVE Fitting'
  <2>1. CASE StartExecFails(c) \/ SpawnChild(c)
    BY <1>1, <2>1 DEF StartExecFails, SpawnChild
  <2>2. CASE RegisterChild(c) \/ ChargeGauge(c) \/ LaunchWaiter(c) \/ WaiterFails(c)
    BY <1>1, <2>2 DEF RegisterChild, ChargeGauge, LaunchWaiter, WaiterFails
  <2>3. CASE FailForgets(c)
    BY <1>1, <2>3 DEF FailForgets
  <2>4. CASE AppendFails(c)
    BY <1>1, <2>4 DEF AppendFails, Freed
  <2>5. CASE UnwindTerm(c) \/ UnwindJoin(c)
    BY <1>1, <2>5 DEF UnwindTerm, UnwindJoin
  <2>6. CASE SpawnWorker(c)
    BY <1>1, <2>6 DEF SpawnWorker
  <2>7. CASE SpawnFails(c) \/ RegisterBusy(c)
    BY <1>1, <2>7 DEF SpawnFails, RegisterBusy
  <2>8. CASE RegisterFails(c)
    BY <1>1, <2>8 DEF RegisterFails, Freed
  <2>9. CASE BeginAppend(c) \/ EndAppend(c) \/ BeginRegister(c) \/ EndRegister(c)
    BY <2>9, BeginAppendFits, EndAppendFits, BeginRegisterFits, EndRegisterFits
  <2> QED
    BY <1>2, <2>1, <2>2, <2>3, <2>4, <2>5, <2>6, <2>7, <2>8, <2>9 DEF StartStep
<1>3. ASSUME NEW c \in Callers, ClaimStep(c) PROVE Fitting'
  <2>1. CASE WaitJoins(c) \/ KillTerm(c)
    BY <1>1, <2>1 DEF WaitJoins, KillTerm
  <2>2. CASE KillEscalates(c) \/ KillForgets(c)
    BY <1>1, <2>2 DEF KillEscalates, KillForgets
  <2>3. CASE WaitReturns(c) \/ KillReturns(c)
    BY <1>1, <2>3 DEF WaitReturns, KillReturns, Leave
  <2> QED
    BY <1>3, <2>1, <2>2, <2>3 DEF ClaimStep
<1>4. ASSUME NEW c \in Callers, Request(c) PROVE Fitting'
  <2>1. ASSUME NEW j \in Jobs, AdmitExec(c, j) \/ AdmitSub(c, j) PROVE Fitting'
    BY <2>1, AdmitFits
  <2>2. ASSUME NEW j \in Jobs, Kill(c, j) \/ Wait(c, j) PROVE Fitting'
    BY <1>1, <2>2 DEF Kill, Wait, Claim
  <2>3. ASSUME NEW j \in Jobs, KillUnlisted(c, j) PROVE Fitting'
    BY <1>1, <2>3 DEF KillUnlisted
  <2> QED
    BY <1>4, <2>1, <2>2, <2>3 DEF Request
<1>5. ASSUME NEW j \in ExecJobs, ChildExits(j) \/ WaiterStep(j) PROVE Fitting'
  BY <1>1, <1>5 DEF ChildExits, WaiterStep, WaiterReaps, WaiterStores, WaiterForgets
<1>6. ASSUME NEW j \in SubJobs, WorkerRemembers(j) \/ WorkerRuns(j) PROVE Fitting'
  BY <1>1, <1>6 DEF WorkerRemembers, WorkerRuns
<1>7. ASSUME NEW j \in SubJobs, FinishSub(j) PROVE Fitting'
  BY <1>1, <1>7 DEF FinishSub, ReportOnRow, HoldReport
<1>8. CASE ExitStep
  <2>1. CASE ExitTerm \/ ExitKill \/ ExitClears
    BY <1>1, <2>1 DEF ExitTerm, ExitKill, ExitClears
  <2>2. CASE ExitDestroys
    <3>1. \A k \in Jobs : row'[k] = "listed" => row[k] = "listed"
      BY <2>2 DEF ExitDestroys
    <3> QED
      BY <1>1, <2>2, <3>1 DEF ExitDestroys
  <2>3. ASSUME NEW j \in Jobs, ExitPops(j) PROVE Fitting'
    <3>1. \A k \in Jobs : row'[k] = "listed" => row[k] = "listed"
      BY <2>3 DEF ExitPops
    <3> QED
      BY <1>1, <2>3, <3>1 DEF ExitPops
  <2> QED
    BY <1>8, <2>1, <2>2, <2>3 DEF ExitStep
<1>9. CASE \E s \in Sessions : EndSession(s)
  BY <1>1, <1>9 DEF EndSession
<1>10. CASE UNCHANGED vars
  BY <1>1, <1>10 DEF vars
<1> QED
  BY <1>2, <1>3, <1>4, <1>5, <1>6, <1>7, <1>8, <1>9, <1>10 DEF Next, ReportStep

\* The cap is overshot by the starts that raced at most, and the table never
\* holds more rows of a kind than the retained ones and those that can be
\* running or claimed at once: whatever main joins, for any caps.
THEOREM StaysBounded == Spec => []Bounded
<1>1. Init => Placed /\ Fitting
  <2> SUFFICES ASSUME Init PROVE Counted /\ Stamped /\ Fitting
    BY InitOrderly DEF Placed
  <2>1. Counted /\ Stamped
    BY DEF Init, Counted, Stamped
  <2>2. /\ Listed(ExecJobs) = {} /\ Listed(SubJobs) = {} /\ Running(ExecJobs) = {} /\ Running(SubJobs) = {}
        /\ Active = {} /\ ExecStarters = {} /\ SubStarters = {} /\ Started = {}
    BY DEF Init, Listed, Running, Active, ExecStarters, SubStarters, Started, Jobs
  <2>3. Cardinality({}) = 0 /\ Cardinality(Callers) \in Nat /\ MaxActive \in Nat \ {0} /\ MaxRetained \in Nat
    BY FS_EmptySet, FiniteCallers, JobsAssumption
  <2>4. Fitting
    BY <2>2, <2>3 DEF Init, Fitting, CapFits, RowsFit, Room, Most
  <2> QED
    BY <2>1, <2>4
<1>2. Placed /\ Fitting /\ [Next]_vars => (Placed /\ Fitting)'
  BY NextPlaced, NextFits
<1>3. Placed /\ Fitting => Bounded
  <2> SUFFICES ASSUME Fitting PROVE Bounded
    OBVIOUS
  <2>1. /\ Cardinality(Active) \in Nat /\ Cardinality(Started) \in Nat /\ Cardinality(Callers) \in Nat
        /\ MaxActive \in Nat
    <3>1. IsFiniteSet(Active) /\ MaxActive \in Nat
      BY FiniteSteps
    <3>2. Started \in SUBSET Callers
      BY DEF Started, ExecStarters, SubStarters
    <3> QED
      BY <3>1, <3>2, FiniteCallers, FS_CardinalityType
  <2>2. Cardinality(Active) < MaxActive + Cardinality(Callers)
    BY <2>1 DEF Fitting, CapFits
  <2> QED
    BY <2>2 DEF Fitting, RowsFit, Bounded, Most
<1> QED
  BY <1>1, <1>2, <1>3, PTL DEF Spec

=============================================================================
