-------------------------------- MODULE Jobs --------------------------------
(***************************************************************************)
(* The background job table: src/src/sandbox/jobs.zig, the pid rows of     *)
(* src/src/agent/subprocess.zig it relies on, and the background-subagent  *)
(* starter and worker of src/src/sandbox/host.zig.                         *)
(*                                                                         *)
(* A job is an exec child (reaped by a waiter thread) or a background      *)
(* subagent (run by a worker thread).  Tool threads, the Callers, start,   *)
(* wait for and kill jobs; a session end signals the registered pids; the  *)
(* process exit signals and frees everything.  Everything marked "under    *)
(* mu" in the code needs mu = Nobody here; a critical section that blocks  *)
(* (reapDone joins threads) keeps mu over several steps.                   *)
(***************************************************************************)
EXTENDS Integers, FiniteSets, TLC

CONSTANTS
  ExecJobs,     \* identities of the exec children that may be started
  SubJobs,      \* identities of the background subagents
  Callers,      \* tool threads
  Background,   \* the Callers that main does not join before jobs.deinit
  Sessions,
  SessionOf,    \* the session a tool thread works for
  MaxActive,    \* max_active_jobs
  MaxRetained,  \* max_retained_done
  MaxLate,      \* max_late_subs
  NoJob, Nobody, NoSession

Jobs == ExecJobs \cup SubJobs

ASSUME JobsAssumption ==
  /\ ExecJobs \cap SubJobs = {}
  /\ IsFiniteSet(Jobs) /\ IsFiniteSet(Callers)
  /\ Background \subseteq Callers
  /\ SessionOf \in [Callers -> Sessions]
  /\ MaxActive \in Nat \ {0} /\ MaxRetained \in Nat /\ MaxLate \in Nat \ {0}
  /\ NoJob \notin Jobs /\ Nobody \notin Callers

VARIABLES
  row,         \* lifecycle of the job's record
  session,     \* session_id of the record and of the registry row
  handle,      \* jobs whose record still has the std.Thread in it
  done,        \* jobs whose atomic done flag is set
  waiting,     \* the callers the waiting counter counts
  born,        \* place in the table: a later append has a larger stamp
  thread,      \* the waiter thread of an exec job, the worker of a subagent
  child,       \* the OS process of an exec job
  registered,  \* jobs with a pid row in the subprocess registry
  stray,       \* jobs whose pid was signalled after it was reaped
  lateAt,      \* late_subs: stamp of a held completion, 0 when none is held
  completions, \* charges to job_completions_total, by job
  gauge,       \* jobs_active
  allocator,   \* has gpa_ref been recorded?
  mu,          \* holder of the table lock
  clock,       \* last stamp given
  pc, target,  \* of each caller: where it is, the job it is about
  hasThread,   \* callers that hold the std.Thread of their target
  exit, popping  \* of main, in deinit: the pass it is in, the row it destroys

tableVars  == <<row, session, born, waiting>>
threadVars == <<handle, thread, done>>
osVars     == <<child, registered, stray>>
countVars  == <<completions, gauge>>
lateVars   == <<lateAt, clock, allocator>>
callVars   == <<pc, target, hasThread>>
exitVars   == <<exit, popping>>
vars == <<tableVars, threadVars, osVars, countVars, lateVars, mu, callVars, exitVars>>

Rows     == {"none", "staged", "listed", "doomed", "popped", "freed"}
Threads  == {"none", "spawned", "running", "ran", "charged", "waiting", "reaped", "stored", "exited"}
Children == {"none", "running", "zombie", "reaped"}
StartPCs == {"admitted", "spawned", "registered", "charged", "unlaunched", "failing",
             "launched", "appending", "unwinding", "unwindJoin", "subAdmitted", "subSpawned", "registering"}
ClaimPCs == {"waiting", "killing", "grace", "forgetting", "killed"}
Exits    == {"no", "term", "clearing", "done"}

Init ==
  /\ row = [j \in Jobs |-> "none"]
  /\ session = [j \in Jobs |-> NoSession]
  /\ handle = {} /\ done = {}
  /\ waiting = [j \in Jobs |-> {}]
  /\ born = [j \in Jobs |-> 0]
  /\ thread = [j \in Jobs |-> "none"]
  /\ child = [j \in ExecJobs |-> "none"]
  /\ registered = {} /\ stray = {}
  /\ lateAt = [j \in SubJobs |-> 0]
  /\ completions = [j \in Jobs |-> 0]
  /\ gauge = 0
  /\ allocator = FALSE
  /\ mu = Nobody
  /\ clock = 0
  /\ pc = [c \in Callers |-> "idle"]
  /\ target = [c \in Callers |-> NoJob]
  /\ hasThread = {}
  /\ exit = "no" /\ popping = NoJob

-----------------------------------------------------------------------------
(* Shared pieces. *)

\* activeLocked: the listed rows that are not done, of both kinds.
Active == {j \in Jobs : row[j] = "listed" /\ j \notin done}

\* The admission check of startExec, subagentSlotAvailable and registerSub.
SlotFree == Cardinality(Active) < MaxActive

\* subActive: the gauge goes down without wrapping.
Lowered(g) == IF g = 0 THEN 0 ELSE g - 1

\* Nothing is ever dropped.
BugReapNone(kind) == {}
\* Dropping a row somebody points at.
BugReapClaimed(kind) == {j \in kind : row[j] = "listed" /\ j \in done}
\* Dropping, and joining under mu, a row that is still running.
BugReapRunning(kind) == {j \in kind : row[j] = "listed" /\ waiting[j] = {}}

\* reapDone may drop a completed row no caller points at.
Reapable(kind) == {j \in kind : row[j] = "listed" /\ j \in done /\ waiting[j] = {}}

\* reapDone drops the oldest of them, all but the MaxRetained youngest.
Surplus(kind) ==
  {j \in Reapable(kind) :
     Cardinality({k \in Reapable(kind) : born[k] > born[j]}) >= MaxRetained}

\* destroyJob joins the thread if its handle is still in the record.
Joinable(j) == j \in handle => thread[j] = "exited"

Doomed == {j \in Jobs : row[j] = "doomed"}

\* kill(2) on the pid of job j: SIGKILL ends a running child, SIGTERM may be
\* ignored, and a pid already reaped may belong to somebody else by now.
Signalled(S, sig) ==
  /\ child' = [j \in ExecJobs |->
       IF j \in S /\ sig = "KILL" /\ child[j] = "running" THEN "zombie" ELSE child[j]]
  /\ stray' = stray \cup {j \in S : child[j] = "reaped"}

\* A tool thread takes a new request: after main left for deinit only the
\* threads it did not join do.
CanCall(c) == pc[c] = "idle" /\ (exit = "no" \/ c \in Background)

Goto(c, l) == pc' = [pc EXCEPT ![c] = l]

\* The call returns to the guest.
Return(c) ==
  /\ Goto(c, "idle")
  /\ target' = [target EXCEPT ![c] = NoJob]
  /\ hasThread' = hasThread \ {c}

-----------------------------------------------------------------------------
(* startExec: admission outside the final critical section, then the       *)
(* child, its registry row, the charges and the waiter thread, the append. *)

AdmitExec(c, j) ==
  /\ CanCall(c) /\ mu = Nobody /\ row[j] = "none"
  /\ SlotFree
  /\ row' = [row EXCEPT ![j] = "staged"]
  /\ session' = [session EXCEPT ![j] = SessionOf[c]]
  /\ Goto(c, "admitted") /\ target' = [target EXCEPT ![c] = j]
  /\ UNCHANGED <<born, waiting, threadVars, osVars, countVars, lateVars, mu, hasThread, exitVars>>

\* A start that cannot spawn, register or launch unwinds: the child, if any,
\* is killed and reaped by Child.kill, and then its registry row is dropped.
StartExecFails(c) ==
  LET j == target[c] IN
  /\ pc[c] \in {"admitted", "spawned", "registered", "unlaunched"}
  /\ child' = [child EXCEPT ![j] = IF @ = "none" THEN "none" ELSE "reaped"]
  /\ Goto(c, "failing")
  /\ UNCHANGED <<tableVars, threadVars, registered, stray, countVars, lateVars, mu, target, hasThread, exitVars>>

FailForgets(c) ==
  /\ pc[c] = "failing"
  /\ registered' = registered \ {target[c]}
  /\ row' = [row EXCEPT ![target[c]] = "freed"]
  /\ Return(c)
  /\ UNCHANGED <<session, born, waiting, threadVars, child, stray, countVars, lateVars, mu, exitVars>>

SpawnChild(c) ==
  /\ pc[c] = "admitted"
  /\ child' = [child EXCEPT ![target[c]] = "running"]
  /\ Goto(c, "spawned")
  /\ UNCHANGED <<tableVars, threadVars, registered, stray, countVars, lateVars, mu, target, hasThread, exitVars>>

RegisterChild(c) ==
  /\ pc[c] = "spawned"
  /\ registered' = registered \cup {target[c]}
  /\ Goto(c, "registered")
  /\ UNCHANGED <<tableVars, threadVars, child, stray, countVars, lateVars, mu, target, hasThread, exitVars>>

\* Counted before the waiter exists: it charges its completion without mu.
ChargeGauge(c) ==
  /\ pc[c] = "registered"
  /\ gauge' = gauge + 1
  /\ thread' = [thread EXCEPT ![target[c]] = "charged"]
  /\ Goto(c, "charged")
  /\ UNCHANGED <<tableVars, handle, done, osVars, completions, lateVars, mu, target, hasThread, exitVars>>

LaunchWaiter(c) ==
  LET j == target[c] IN
  /\ pc[c] = "charged"
  /\ thread' = [thread EXCEPT ![j] = "waiting"]
  /\ handle' = handle \cup {j}
  /\ Goto(c, "launched")
  /\ UNCHANGED <<tableVars, done, osVars, countVars, lateVars, mu, target, hasThread, exitVars>>

\* Mutant: the waiter that never was leaves the gauge charged.
BugWaiterFails(c) ==
  /\ pc[c] = "charged"
  /\ thread' = [thread EXCEPT ![target[c]] = "none"]
  /\ Goto(c, "unlaunched")
  /\ UNCHANGED <<tableVars, handle, done, osVars, countVars, lateVars, mu, target, hasThread, exitVars>>

\* No thread to be had: nobody will charge the completion.
WaiterFails(c) ==
  /\ pc[c] = "charged"
  /\ gauge' = Lowered(gauge)
  /\ thread' = [thread EXCEPT ![target[c]] = "none"]
  /\ Goto(c, "unlaunched")
  /\ UNCHANGED <<tableVars, handle, done, osVars, completions, lateVars, mu, target, hasThread, exitVars>>

\* Under mu: the allocator is recorded and the surplus leaves the table.
BeginAppend(c) ==
  /\ pc[c] = "launched" /\ mu = Nobody
  /\ mu' = c
  /\ allocator' = TRUE
  /\ row' = [j \in Jobs |-> IF j \in Surplus(ExecJobs) THEN "doomed" ELSE row[j]]
  /\ Goto(c, "appending")
  /\ UNCHANGED <<session, born, waiting, threadVars, osVars, countVars, lateAt, clock, target, hasThread, exitVars>>

\* The joins of reapDone are over: the doomed rows are freed and mu is released.
Freed(r) == [k \in Jobs |-> IF r[k] = "doomed" THEN "freed" ELSE r[k]]
ReapEnds ==
  /\ \A d \in Doomed : Joinable(d)
  /\ mu' = Nobody

\* Row j is appended.
Listing(j) ==
  /\ row' = [Freed(row) EXCEPT ![j] = "listed"]
  /\ born' = [born EXCEPT ![j] = clock + 1]
  /\ clock' = clock + 1

EndAppend(c) ==
  /\ pc[c] = "appending"
  /\ ReapEnds
  /\ Listing(target[c])
  /\ Return(c)
  /\ UNCHANGED <<session, waiting, threadVars, osVars, countVars, lateAt, allocator, exitVars>>

\* The append runs out of memory: the child is signalled, its waiter joined.
AppendFails(c) ==
  /\ pc[c] = "appending"
  /\ ReapEnds
  /\ row' = Freed(row)
  /\ Goto(c, "unwinding")
  /\ UNCHANGED <<session, born, waiting, threadVars, osVars, countVars, lateVars, target, hasThread, exitVars>>

UnwindTerm(c) ==
  /\ pc[c] = "unwinding"
  /\ Signalled({target[c]}, "TERM")
  /\ Goto(c, "unwindJoin")
  /\ UNCHANGED <<tableVars, threadVars, registered, countVars, lateVars, mu, target, hasThread, exitVars>>

UnwindJoin(c) ==
  /\ pc[c] = "unwindJoin" /\ Joinable(target[c])
  /\ row' = [row EXCEPT ![target[c]] = "freed"]
  /\ Return(c)
  /\ UNCHANGED <<session, born, waiting, threadVars, osVars, countVars, lateVars, mu, exitVars>>

-----------------------------------------------------------------------------
(* waitExecThread: the child is reaped, the counters are charged, done is  *)
(* stored and the registry row is forgotten; no step takes mu.             *)

\* The operating system: a child may end at any time.
ChildExits(j) ==
  /\ child[j] = "running"
  /\ child' = [child EXCEPT ![j] = "zombie"]
  /\ UNCHANGED <<tableVars, threadVars, registered, stray, countVars, lateVars, mu, callVars, exitVars>>

\* child.wait returns the status or fails; either way the completion is charged.
WaiterReaps(j) ==
  /\ thread[j] = "waiting" /\ child[j] = "zombie"
  /\ child' = [child EXCEPT ![j] = "reaped"]
  /\ completions' = [completions EXCEPT ![j] = @ + 1]
  /\ gauge' = Lowered(gauge)
  /\ thread' = [thread EXCEPT ![j] = "reaped"]
  /\ UNCHANGED <<tableVars, handle, done, registered, stray, lateVars, mu, callVars, exitVars>>

WaiterStores(j) ==
  /\ thread[j] = "reaped"
  /\ done' = done \cup {j}
  /\ thread' = [thread EXCEPT ![j] = "stored"]
  /\ UNCHANGED <<tableVars, handle, osVars, countVars, lateVars, mu, callVars, exitVars>>

WaiterForgets(j) ==
  /\ thread[j] = "stored"
  /\ registered' = registered \ {j}
  /\ thread' = [thread EXCEPT ![j] = "exited"]
  /\ UNCHANGED <<tableVars, handle, done, child, stray, countVars, lateVars, mu, callVars, exitVars>>

-----------------------------------------------------------------------------
(* The background subagent: the starter spawns the worker before the row   *)
(* exists; the worker runs the nested agent and reports through finishSub. *)

AdmitSub(c, j) ==
  /\ CanCall(c) /\ mu = Nobody /\ row[j] = "none"
  /\ SlotFree
  /\ row' = [row EXCEPT ![j] = "staged"]
  /\ session' = [session EXCEPT ![j] = SessionOf[c]]
  /\ Goto(c, "subAdmitted") /\ target' = [target EXCEPT ![c] = j]
  /\ UNCHANGED <<born, waiting, threadVars, osVars, countVars, lateVars, mu, hasThread, exitVars>>

SpawnWorker(c) ==
  /\ pc[c] = "subAdmitted"
  /\ thread' = [thread EXCEPT ![target[c]] = "spawned"]
  /\ hasThread' = hasThread \cup {c}
  /\ Goto(c, "subSpawned")
  /\ UNCHANGED <<tableVars, handle, done, osVars, countVars, lateVars, mu, target, exitVars>>

SpawnFails(c) ==
  /\ pc[c] = "subAdmitted"
  /\ row' = [row EXCEPT ![target[c]] = "freed"]
  /\ Return(c)
  /\ UNCHANGED <<session, born, waiting, threadVars, osVars, countVars, lateVars, mu, exitVars>>

\* registerSub refuses under mu: the starter detaches the worker.
RegisterBusy(c) ==
  /\ pc[c] = "subSpawned" /\ mu = Nobody
  /\ ~SlotFree
  /\ allocator' = TRUE
  /\ row' = [row EXCEPT ![target[c]] = "freed"]
  /\ Return(c)
  /\ UNCHANGED <<session, born, waiting, threadVars, osVars, countVars, lateAt, clock, mu, exitVars>>

\* A completion that raced ahead stays in late_subs, the row is born running.
BugAttachLate(j) == UNCHANGED <<done, lateAt>>

\* A held completion moves into the record: the row is born done.
AttachLate(j) ==
  /\ done' = IF lateAt[j] # 0 THEN done \cup {j} ELSE done
  /\ lateAt' = [lateAt EXCEPT ![j] = 0]

\* The record is built with the thread in it.
BeginRegister(c) ==
  LET j == target[c] IN
  /\ pc[c] = "subSpawned" /\ mu = Nobody
  /\ SlotFree
  /\ mu' = c
  /\ allocator' = TRUE
  /\ handle' = handle \cup {j}
  /\ hasThread' = hasThread \ {c}
  /\ AttachLate(j)
  /\ row' = [k \in Jobs |-> IF k \in Surplus(SubJobs) THEN "doomed" ELSE row[k]]
  /\ Goto(c, "registering")
  /\ UNCHANGED <<session, born, waiting, thread, osVars, countVars, clock, target, exitVars>>

\* A row born done is counted as running too.
BugChargeStart(j) ==
  /\ completions' = completions
  /\ gauge' = gauge + 1

\* A running row raises the gauge; a row born done charges the completion
\* that finishSub charged when it held it.
ChargeStart(j) ==
  /\ completions' = [completions EXCEPT ![j] = IF j \in done THEN @ + 1 ELSE @]
  /\ gauge' = IF j \in done THEN gauge ELSE gauge + 1

EndRegister(c) ==
  /\ pc[c] = "registering"
  /\ ReapEnds
  /\ Listing(target[c])
  /\ ChargeStart(target[c])
  /\ Return(c)
  /\ UNCHANGED <<session, waiting, threadVars, osVars, lateAt, allocator, exitVars>>

\* The append runs out of memory: the starter detaches the worker.
RegisterFails(c) ==
  /\ pc[c] = "registering"
  /\ ReapEnds
  /\ row' = [Freed(row) EXCEPT ![target[c]] = "freed"]
  /\ handle' = handle \ {target[c]}
  /\ Return(c)
  /\ UNCHANGED <<session, born, waiting, thread, done, osVars, countVars, lateVars, exitVars>>

\* The worker runs without recording the allocator finishSub copies with.
BugWorkerRemembers(j) ==
  /\ thread[j] = "spawned" /\ mu = Nobody
  /\ thread' = [thread EXCEPT ![j] = "running"]
  /\ UNCHANGED <<tableVars, handle, done, osVars, countVars, lateVars, mu, callVars, exitVars>>

\* rememberAllocator, before the nested agent runs.
WorkerRemembers(j) ==
  /\ thread[j] = "spawned" /\ mu = Nobody
  /\ allocator' = TRUE
  /\ thread' = [thread EXCEPT ![j] = "running"]
  /\ UNCHANGED <<tableVars, handle, done, osVars, countVars, lateAt, clock, mu, callVars, exitVars>>

\* The nested agent's run ends, in its own time.
WorkerRuns(j) ==
  /\ thread[j] = "running"
  /\ thread' = [thread EXCEPT ![j] = "ran"]
  /\ UNCHANGED <<tableVars, handle, done, osVars, countVars, lateVars, mu, callVars, exitVars>>

\* The completions late_subs keeps when it makes room for one more.
KeptLate ==
  {k \in SubJobs : lateAt[k] # 0 /\
     Cardinality({m \in SubJobs : lateAt[m] > lateAt[k]}) < MaxLate - 1}

\* finishSub found the row.
ReportOnRow(j) ==
  /\ row[j] = "listed"
  /\ done' = done \cup {j}
  /\ gauge' = Lowered(gauge)
  /\ completions' = [completions EXCEPT ![j] = @ + 1]
  /\ UNCHANGED <<lateAt, clock>>

\* finishSub found no row: the completion is held for the registration to come.
HoldReport(j) ==
  /\ row[j] # "listed"
  /\ clock' = clock + 1
  /\ lateAt' = [k \in SubJobs |-> IF k = j THEN clock + 1
                                  ELSE IF k \in KeptLate THEN lateAt[k] ELSE 0]
  /\ completions' = [completions EXCEPT ![j] = @ + 1]
  /\ UNCHANGED <<done, gauge>>

\* finishSub; without an allocator the completion is dropped.
FinishSub(j) ==
  /\ thread[j] = "ran" /\ mu = Nobody
  /\ thread' = [thread EXCEPT ![j] = "exited"]
  /\ \/ allocator /\ (ReportOnRow(j) \/ HoldReport(j))
     \/ ~allocator /\ UNCHANGED <<done, countVars, lateAt, clock>>
  /\ UNCHANGED <<tableVars, handle, osVars, allocator, mu, callVars, exitVars>>

-----------------------------------------------------------------------------
(* waitExec, waitSub and kill claim the row under mu and take its thread.  *)

\* Two callers of one job both leave with its handle.
BugTakeHandle(c, j) ==
  /\ hasThread' = IF j \in handle THEN hasThread \cup {c} ELSE hasThread
  /\ UNCHANGED handle

\* takeThreadLocked: the handle goes to the first caller that asks.
TakeHandle(c, j) ==
  /\ hasThread' = IF j \in handle THEN hasThread \cup {c} ELSE hasThread
  /\ handle' = handle \ {j}

\* The caller counts itself in and takes the handle if it is still there.
Claim(c, j, l) ==
  /\ CanCall(c) /\ mu = Nobody
  /\ row[j] = "listed" /\ session[j] = SessionOf[c]
  /\ waiting' = [waiting EXCEPT ![j] = @ \cup {c}]
  /\ TakeHandle(c, j)
  /\ Goto(c, l) /\ target' = [target EXCEPT ![c] = j]
  /\ UNCHANGED <<row, session, born, thread, done, osVars, countVars, lateVars, mu, exitVars>>

\* The caller counts itself out and returns.
Leave(c) ==
  /\ mu = Nobody
  /\ waiting' = [waiting EXCEPT ![target[c]] = @ \ {c}]
  /\ Return(c)

Wait(c, j) == Claim(c, j, "waiting")

\* th.join, for the caller that holds the handle.
WaitJoins(c) ==
  /\ pc[c] = "waiting" /\ c \in hasThread /\ thread[target[c]] = "exited"
  /\ hasThread' = hasThread \ {c}
  /\ UNCHANGED <<tableVars, threadVars, osVars, countVars, lateVars, mu, pc, target, exitVars>>

\* awaitJobDone saw done: the outcome is answered.
WaitReturns(c) ==
  /\ pc[c] = "waiting" /\ c \notin hasThread /\ target[c] \in done
  /\ Leave(c)
  /\ UNCHANGED <<row, session, born, threadVars, osVars, countVars, lateVars, mu, exitVars>>

Kill(c, j) == Claim(c, j, "killing")

\* SIGTERM unless done; only the holder of the handle waits and escalates.
KillTerm(c) ==
  /\ pc[c] = "killing"
  /\ Signalled(IF target[c] \in done THEN {} ELSE {target[c]}, "TERM")
  /\ Goto(c, IF c \in hasThread THEN "grace" ELSE "forgetting")
  /\ UNCHANGED <<tableVars, threadVars, registered, countVars, lateVars, mu, target, hasThread, exitVars>>

\* The grace is waited out, the join follows without SIGKILL.
BugKillEscalates(c) ==
  /\ pc[c] = "grace"
  /\ Goto(c, "forgetting")
  /\ UNCHANGED <<tableVars, threadVars, osVars, countVars, lateVars, mu, target, hasThread, exitVars>>

KillEscalates(c) ==
  /\ pc[c] = "grace"
  /\ Signalled(IF target[c] \in done THEN {} ELSE {target[c]}, "KILL")
  /\ Goto(c, "forgetting")
  /\ UNCHANGED <<tableVars, threadVars, registered, countVars, lateVars, mu, target, hasThread, exitVars>>

KillForgets(c) ==
  /\ pc[c] = "forgetting"
  /\ c \in hasThread => thread[target[c]] = "exited"
  /\ registered' = registered \ {target[c]}
  /\ hasThread' = hasThread \ {c}
  /\ Goto(c, "killed")
  /\ UNCHANGED <<tableVars, threadVars, child, stray, countVars, lateVars, mu, target, exitVars>>

KillReturns(c) ==
  /\ pc[c] = "killed"
  /\ Leave(c)
  /\ UNCHANGED <<row, session, born, threadVars, osVars, countVars, lateVars, mu, exitVars>>

\* kill of an id with no row: Registry.terminate on the pid row, if any.
KillUnlisted(c, j) ==
  /\ CanCall(c) /\ mu = Nobody /\ row[j] # "listed"
  /\ j \in registered /\ session[j] = SessionOf[c]
  /\ Signalled({j}, "TERM")
  /\ registered' = registered \ {j}
  /\ UNCHANGED <<tableVars, threadVars, countVars, lateVars, mu, callVars, exitVars>>

\* endSession: Registry.terminateSession signals and drops the session's rows.
EndSession(s) ==
  LET S == {j \in registered : session[j] = s} IN
  /\ S # {}
  /\ Signalled(S, "TERM")
  /\ registered' = registered \ S
  /\ UNCHANGED <<tableVars, threadVars, countVars, lateVars, mu, callVars, exitVars>>

-----------------------------------------------------------------------------
(* deinit at process exit: two signal passes, then every row is popped and *)
(* destroyed, exec rows first, the last appended first.                    *)

SignalRunning(sig) == Signalled({j \in ExecJobs : row[j] = "listed" /\ j \notin done}, sig)

ExitTerm ==
  /\ exit = "no" /\ mu = Nobody
  /\ \A c \in Callers \ Background : pc[c] = "idle"
  /\ SignalRunning("TERM")
  /\ exit' = "term"
  /\ UNCHANGED <<tableVars, threadVars, registered, countVars, lateVars, mu, callVars, popping>>

ExitKill ==
  /\ exit = "term" /\ mu = Nobody
  /\ SignalRunning("KILL")
  /\ exit' = "clearing"
  /\ UNCHANGED <<tableVars, threadVars, registered, countVars, lateVars, mu, callVars, popping>>

Listed(kind) == {j \in kind : row[j] = "listed"}

ExitPops(j) ==
  /\ exit = "clearing" /\ popping = NoJob /\ mu = Nobody
  /\ j \in IF Listed(ExecJobs) # {} THEN Listed(ExecJobs) ELSE Listed(SubJobs)
  /\ \A k \in Listed(ExecJobs) \cup Listed(SubJobs) :
       born[k] > born[j] => (j \in ExecJobs /\ k \in SubJobs)
  /\ row' = [row EXCEPT ![j] = "popped"]
  /\ popping' = j
  /\ UNCHANGED <<session, born, waiting, threadVars, osVars, countVars, lateVars, mu, callVars, exit>>

ExitDestroys ==
  /\ popping # NoJob /\ Joinable(popping)
  /\ row' = [row EXCEPT ![popping] = "freed"]
  /\ popping' = NoJob
  /\ UNCHANGED <<session, born, waiting, threadVars, osVars, countVars, lateVars, mu, callVars, exit>>

ExitClears ==
  /\ exit = "clearing" /\ popping = NoJob /\ mu = Nobody
  /\ Listed(Jobs) = {}
  /\ lateAt' = [j \in SubJobs |-> 0]
  /\ exit' = "done"
  /\ UNCHANGED <<tableVars, threadVars, osVars, countVars, clock, allocator, mu, callVars, popping>>

-----------------------------------------------------------------------------

StartStep(c) ==
  \/ StartExecFails(c) \/ FailForgets(c) \/ SpawnChild(c) \/ RegisterChild(c) \/ ChargeGauge(c)
  \/ LaunchWaiter(c) \/ WaiterFails(c)
  \/ BeginAppend(c) \/ EndAppend(c) \/ AppendFails(c)
  \/ UnwindTerm(c) \/ UnwindJoin(c)
  \/ SpawnWorker(c) \/ SpawnFails(c) \/ RegisterBusy(c) \/ BeginRegister(c)
  \/ EndRegister(c) \/ RegisterFails(c)

ClaimStep(c) ==
  \/ WaitJoins(c) \/ WaitReturns(c)
  \/ KillTerm(c) \/ KillEscalates(c) \/ KillForgets(c) \/ KillReturns(c)

Request(c) ==
  \/ \E j \in ExecJobs : AdmitExec(c, j) \/ Kill(c, j) \/ KillUnlisted(c, j)
  \/ \E j \in SubJobs : AdmitSub(c, j)
  \/ \E j \in Jobs : Wait(c, j)

WaiterStep(j) == WaiterReaps(j) \/ WaiterStores(j) \/ WaiterForgets(j)
ReportStep(j) == WorkerRemembers(j) \/ FinishSub(j)
ExitStep == ExitTerm \/ ExitKill \/ (\E j \in Jobs : ExitPops(j)) \/ ExitDestroys \/ ExitClears

Next ==
  \/ \E c \in Callers : StartStep(c) \/ ClaimStep(c) \/ Request(c)
  \/ \E j \in ExecJobs : ChildExits(j) \/ WaiterStep(j)
  \/ \E j \in SubJobs : ReportStep(j) \/ WorkerRuns(j)
  \/ \E s \in Sessions : EndSession(s)
  \/ ExitStep

\* Threads that can run do; children and nested agents end only if they want.
Fairness ==
  /\ \A c \in Callers : WF_vars(StartStep(c)) /\ WF_vars(ClaimStep(c))
  /\ \A j \in ExecJobs : WF_vars(WaiterStep(j))
  /\ \A j \in SubJobs : WF_vars(ReportStep(j))

Spec == Init /\ [][Next]_vars
FairSpec == Spec /\ Fairness

-----------------------------------------------------------------------------
(* Properties. *)

PCs == {"idle"} \cup StartPCs \cup ClaimPCs

\* Every variable has its type: the records, threads and calls of jobs.zig.
TypeOK ==
  /\ row \in [Jobs -> Rows]
  /\ session \in [Jobs -> Sessions \cup {NoSession}]
  /\ handle \subseteq Jobs /\ done \subseteq Jobs
  /\ waiting \in [Jobs -> SUBSET Callers]
  /\ born \in [Jobs -> Nat]
  /\ thread \in [Jobs -> Threads]
  /\ child \in [ExecJobs -> Children]
  /\ registered \subseteq ExecJobs /\ stray \subseteq ExecJobs
  /\ lateAt \in [SubJobs -> Nat]
  /\ completions \in [Jobs -> Nat]
  /\ gauge \in Nat /\ clock \in Nat
  /\ allocator \in BOOLEAN
  /\ mu \in Callers \cup {Nobody}
  /\ pc \in [Callers -> PCs]
  /\ target \in [Callers -> Jobs \cup {NoJob}]
  /\ hasThread \subseteq Callers
  /\ exit \in Exits /\ popping \in Jobs \cup {NoJob}

\* A record is never freed under a caller that claimed it (waitExec, waitSub
\* and kill read it after releasing mu) nor under its own waiter thread,
\* which still writes done and reads the id after that.
NoUseAfterFree ==
  /\ \A c \in Callers : pc[c] \in ClaimPCs => row[target[c]] # "freed"
  /\ \A j \in ExecJobs : row[j] = "freed" => thread[j] \in {"none", "exited"}

\* A thread handle is joined by one party: it is in the record or in the
\* hands of one caller, so a reap, a wait, a kill and deinit never both join.
OneJoiner ==
  /\ \A c \in Callers : c \in hasThread => target[c] \notin handle
  /\ \A c, d \in Callers :
       c \in hasThread /\ d \in hasThread /\ target[c] = target[d] => c = d

\* The gauge jobs_active is exact although waitExecThread charges it without
\* mu: the children launched, or about to be, and not yet reaped, plus the listed running subagents
\* (while main has not popped rows at exit).
GaugeExact ==
  exit \in {"no", "term"} =>
    gauge = Cardinality({j \in ExecJobs : thread[j] \in {"charged", "waiting"}}
                        \cup {j \in SubJobs : row[j] = "listed" /\ j \notin done})

\* No ghost row: a subagent whose worker has reported is never listed as
\* running, however its report raced with its registration.
NoGhostRow ==
  \A j \in SubJobs : row[j] = "listed" /\ thread[j] = "exited" => j \in done

\* The cap and the table hold up to what can race: "a race between concurrent
\* starts can overshoot by a handful, never by unbounded" (jobs.zig:182), one
\* running job beyond the cap per other thread that may be starting one; and
\* although rows are kept for a later wait, at most the retained ones plus what
\* can be running or claimed at once are listed.
Bounded ==
  /\ Cardinality(Active) < MaxActive + Cardinality(Callers)
  /\ \A kind \in {ExecJobs, SubJobs} :
       Cardinality(Listed(kind)) <= MaxRetained + MaxActive + Cardinality(Callers) - 1

\* A row's thread that is gone left no pid behind for a session end to signal.
ExitedIsForgotten ==
  \A j \in ExecJobs : thread[j] = "exited" => j \notin registered

\* jobs.zig:656: the completion counters are charged where the work finished;
\* registration then adds only starts_total.
RegistrationAddsOnlyStarts ==
  [][ \A c \in Callers : pc[c] = "registering" => completions' = completions ]_vars

\* jobs.zig:10: after wait, the row is forgotten so that a recycled pid is
\* never signalled: no job that got its waiter thread is signalled once reaped.
NoStraySignal == \A j \in stray : thread[j] = "none"

\* kill returns whatever the child does: with the handle it escalates before
\* it joins, without it it does not wait.
KillAlwaysReturns == \A c \in Callers : pc[c] = "killing" ~> pc[c] = "idle"

\* A wait on a job whose child has ended or whose nested agent has returned
\* is answered, whoever holds the thread handle.
WaitAnswered ==
  \A c \in Callers, j \in Jobs :
    /\ pc[c] = "waiting" /\ target[c] = j
    /\ IF j \in ExecJobs THEN child[j] # "running" ELSE thread[j] \in {"ran", "exited"}
    ~> pc[c] = "idle"

\* reapDone joins threads under mu, and finishSub takes mu on such a thread:
\* the threads it joins have taken mu for the last time.
ReapNeverWaitsForLock ==
  \A j \in SubJobs : row[j] = "doomed" /\ j \in handle => thread[j] = "exited"

-----------------------------------------------------------------------------
\* For the runs: all callers work for one session, and nothing tells two jobs of
\* a kind or two callers apart.
OneSession == [c \in Callers |-> CHOOSE s \in Sessions : TRUE]
Symmetry == Permutations(ExecJobs) \cup Permutations(SubJobs)
              \cup Permutations(Callers \ Background)

=============================================================================
