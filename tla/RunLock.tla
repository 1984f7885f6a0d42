------------------------------- MODULE RunLock -------------------------------
(***************************************************************************)
(* The lock that keeps improvement runs apart: src/src/util/run_lock.zig.  *)
(* A file names its owner; a file whose owner is dead, or that names       *)
(* nobody, is deleted and the create is tried once more.  An flock on the  *)
(* file's inode covers the time between the create and the pid.  The names *)
(* are its own, for LockProofs is about this module and CasWrite.          *)
(***************************************************************************)
EXTENDS FiniteSets

CONSTANTS
  Runs,        \* the processes, each taking the lock once
  Mortals,     \* processes that may die
  Leavers,     \* processes whose run ends while the others are watched
  Failing,     \* processes whose write of the pid may fail
  Files, NoFile, NoRun

ASSUME RunLockAssumption ==
  /\ Mortals \subseteq Runs /\ Leavers \subseteq Runs /\ Failing \subseteq Runs
  /\ NoFile \notin Files /\ NoRun \notin Runs

VARIABLES
  path,    \* the inode the path leads to
  fd,      \* the inode each process has open
  flock,   \* the process with the flock of an inode
  body,    \* the pid an inode's file holds
  owner,   \* what readOwner returned to each process
  atomic,  \* the platform: open(2) itself takes the flock, or a later flock(2)
  met,     \* history: processes that ran at the same time as another
  at

pathVars == <<path, fd, flock, body>>
runVars == <<pathVars, owner, atomic, met, at>>

Active  == {p \in Runs : at[p] \notin {"start", "busy", "failed", "left", "dead"}}
Holders == {p \in Runs : at[p] = "held"}

LockInit ==
  /\ path = NoFile /\ fd = [p \in Runs |-> NoFile]
  /\ flock = [i \in Files |-> NoRun] /\ body = [i \in Files |-> NoRun]
  /\ owner = [p \in Runs |-> NoRun] /\ atomic \in BOOLEAN /\ met = {}
  /\ at = [p \in Runs |-> "start"]

-----------------------------------------------------------------------------

Goes(p, l) == at' = [at EXCEPT ![p] = l]
NewFiles == {i \in Files : i # path /\ \A p \in Runs : fd[p] # i}

\* The flock outlives its process.
BugClosesFile(p) ==
  /\ fd' = [fd EXCEPT ![p] = NoFile]
  /\ UNCHANGED flock

\* close(2), or a death, gives the flock back.
ClosesFile(p) ==
  /\ fd' = [fd EXCEPT ![p] = NoFile]
  /\ flock' = [i \in Files |-> IF flock[i] = p THEN NoRun ELSE flock[i]]

Starts(p) ==
  /\ at[p] = "start"
  /\ met' = IF Active = {} THEN met ELSE met \cup Active \cup {p}
  /\ Goes(p, "create")
  /\ UNCHANGED <<pathVars, owner, atomic>>

\* tryCreate: O_EXCL finds no file.
Creates(p) ==
  /\ at[p] \in {"create", "recreate"} /\ path = NoFile
  /\ \E i \in NewFiles :
       /\ path' = i
       /\ fd' = [fd EXCEPT ![p] = i]
       /\ body' = [body EXCEPT ![i] = NoRun]
       /\ flock' = IF atomic THEN [flock EXCEPT ![i] = p] ELSE flock
  /\ Goes(p, IF atomic THEN "write" ELSE "lock")
  /\ UNCHANGED <<owner, met, atomic>>

LocksCreated(p) ==
  /\ at[p] = "lock" /\ flock[fd[p]] = NoRun
  /\ flock' = [flock EXCEPT ![fd[p]] = p]
  /\ Goes(p, "write")
  /\ UNCHANGED <<path, fd, body, owner, met, atomic>>

WritesPid(p) ==
  /\ at[p] = "write"
  /\ body' = [body EXCEPT ![fd[p]] = p]
  /\ ClosesFile(p)
  /\ Goes(p, "held")
  /\ UNCHANGED <<path, owner, met, atomic>>

\* discardUnwritten deletes the path, and acquire fails.
WriteFails(p) ==
  /\ at[p] = "write"
  /\ path' = NoFile
  /\ ClosesFile(p)
  /\ Goes(p, "failed")
  /\ UNCHANGED <<body, owner, met, atomic>>

FindsFile(p) ==
  /\ at[p] \in {"create", "recreate"} /\ path # NoFile
  /\ Goes(p, IF at[p] = "create" THEN "open" ELSE "yield")
  /\ UNCHANGED <<pathVars, owner, met, atomic>>

\* The owner is read without waiting for the creator to write it.
BugOpensForOwner(p) ==
  /\ at[p] = "open"
  /\ owner' = [owner EXCEPT ![p] = IF path = NoFile THEN NoRun ELSE body[path]]
  /\ Goes(p, "probe")
  /\ UNCHANGED <<pathVars, met, atomic>>

\* readOwner: a file that is gone has no owner; else it waits for the flock.
OpensForOwner(p) ==
  /\ at[p] = "open"
  /\ IF path = NoFile
     THEN /\ owner' = [owner EXCEPT ![p] = NoRun]
          /\ Goes(p, "probe") /\ UNCHANGED pathVars
     ELSE /\ fd' = [fd EXCEPT ![p] = path]
          /\ Goes(p, "read") /\ UNCHANGED <<path, flock, body, owner>>
  /\ UNCHANGED <<met, atomic>>

\* The pid that was read, once the creator has written it.
ReadsOwner(p) ==
  /\ at[p] = "read" /\ flock[fd[p]] = NoRun
  /\ owner' = [owner EXCEPT ![p] = body[fd[p]]]
  /\ fd' = [fd EXCEPT ![p] = NoFile]
  /\ Goes(p, "probe")
  /\ UNCHANGED <<path, flock, body, met, atomic>>

\* A pid is alive until its process has left or died.
Probes(p) ==
  /\ at[p] = "probe"
  /\ Goes(p, IF owner[p] # NoRun /\ at[owner[p]] \notin {"left", "dead", "failed", "busy"}
             THEN "busy" ELSE "clear")
  /\ UNCHANGED <<pathVars, owner, met, atomic>>

\* A stale lock is cleared by deleting its path.
Clears(p) ==
  /\ at[p] = "clear"
  /\ path' = NoFile
  /\ Goes(p, "recreate")
  /\ UNCHANGED <<fd, flock, body, owner, met, atomic>>

\* Someone else won: read whom to name, which waits for the flock too.
Yields(p) ==
  /\ at[p] = "yield"
  /\ path # NoFile => flock[path] = NoRun
  /\ Goes(p, "busy")
  /\ UNCHANGED <<pathVars, owner, met, atomic>>

\* release deletes the path, and the process ends.
Leaves(p) ==
  /\ at[p] = "held"
  /\ path' = NoFile
  /\ Goes(p, "left")
  /\ UNCHANGED <<fd, flock, body, owner, met, atomic>>

Dies(p) ==
  /\ p \in Active
  /\ ClosesFile(p)
  /\ Goes(p, "dead")
  /\ UNCHANGED <<path, body, owner, met, atomic>>

Acquire(p) ==
  \/ Creates(p) \/ LocksCreated(p) \/ WritesPid(p) \/ FindsFile(p)
  \/ OpensForOwner(p) \/ ReadsOwner(p) \/ Probes(p) \/ Clears(p) \/ Yields(p)

LockNext ==
  \/ \E p \in Runs : Starts(p) \/ Acquire(p)
  \/ \E p \in Failing : WriteFails(p)
  \/ \E p \in Leavers : Leaves(p)
  \/ \E p \in Mortals : Dies(p)

\* A live process goes on.  Strong fairness says that flock serves its waiters;
\* every other step, once enabled, stays enabled until its process takes it.
Fairness == \A p \in Runs : SF_runVars(Acquire(p))

LockSpec == LockInit /\ [][LockNext]_runVars
LockFairSpec == LockSpec /\ Fairness

-----------------------------------------------------------------------------
(* Properties. *)

\* Every variable has its type.
LockTypeOK ==
  /\ path \in Files \cup {NoFile} /\ fd \in [Runs -> Files \cup {NoFile}]
  /\ flock \in [Files -> Runs \cup {NoRun}] /\ body \in [Files -> Runs \cup {NoRun}]
  /\ owner \in [Runs -> Runs \cup {NoRun}] /\ met \subseteq Runs /\ atomic \in BOOLEAN
  /\ at \in [Runs -> {"start", "create", "lock", "write", "open", "read", "probe", "clear",
                      "recreate", "yield", "held", "busy", "failed", "left", "dead"}]

\* run_lock.zig:1: one improvement run at a time, per working tree.
OneRun == \A p, q \in Holders : p = q

\* The same where the flock covers the file from its creation on.
OneRunIfAtomic == atomic => OneRun

\* Nobody has released the lock, died or failed.
NoneGone == \A p \in Runs : at[p] \notin {"left", "dead", "failed"}

\* Of any number of processes that start together only one gets the lock: no
\* reader of the owner takes a lock that is being written for a stale one.
OneStarterWins == atomic /\ NoneGone => OneRun

\* The holder's file, with its pid, is on the path, and so whoever asks later
\* is told Busy.
HolderNamed == atomic /\ NoneGone => \A p \in Holders : path # NoFile /\ body[path] = p

\* A process is refused only when another ran at the same time: what a dead
\* run left behind never locks anybody out.
BusyMetAnother == \A p \in Runs : at[p] = "busy" => p \in met

\* Every acquire is answered, whoever dies with the flock.
Answered == \A p \in Runs : at[p] = "create" ~> at[p] \in {"held", "busy", "failed", "dead", "left"}

=============================================================================
