------------------------------ MODULE CasWrite ------------------------------
(***************************************************************************)
(* Writers of one shared state file: guests go through ck_fs_write_if      *)
(* (src/src/sandbox/host.zig), the native runner through a store session   *)
(* (src/src/schedule/store.zig over src/src/util/cas_lock.zig).  Both take *)
(* an flock on one lock file named after the target.  Other writes sweep   *)
(* the lock directory, and the janitor guest deletes aged lock files.      *)
(*                                                                         *)
(* The content of the file is the set of writers whose contribution it     *)
(* holds: an empty file reads as the empty set.  An flock belongs to an    *)
(* inode, not to a name, and opening a file and locking it are two steps.  *)
(***************************************************************************)
EXTENDS Integers, FiniteSets

CONSTANTS
  Guests,    \* writers that load, then compare and swap
  Natives,   \* writers that read and write in one locked session
  Sweepers,  \* processes whose write to another target sweeps the lock files
  Janitors,  \* runs of the janitor guest that delete
  Killable,  \* processes that may be killed
  Inodes,    \* inodes the lock file may get
  Attempts,  \* how often a guest retries (3)
  NoInode, Nobody

Writers == Guests \cup Natives
Procs   == Writers \cup Sweepers \cup Janitors

ASSUME CasAssumption ==
  /\ IsFiniteSet(Writers) /\ Attempts \in Nat \ {0}
  /\ Guests \cap Natives = {} /\ Writers \cap (Sweepers \cup Janitors) = {}
  /\ Sweepers \cap Janitors = {}
  /\ Killable \subseteq Procs
  /\ NoInode \notin Inodes /\ Nobody \notin Procs

VARIABLES
  name,     \* the inode the lock file's name leads to
  opened,   \* the inode each process has open
  holder,   \* the process that holds the flock of an inode
  aged,     \* inodes last acquired on record, or created, long ago
  stamped,  \* inodes whose file holds the record of an acquisition
  content,  \* the state file
  seen,     \* what each writer has read
  tries,    \* a guest's attempts so far
  removers, \* history: the processes that have removed the lock file's name
  pc

lockVars == <<name, opened, holder, aged, stamped>>
fileVars == <<content, seen, tries>>
vars == <<lockVars, fileVars, removers, pc>>

Init ==
  /\ name = NoInode /\ opened = [p \in Procs |-> NoInode]
  /\ holder = [i \in Inodes |-> Nobody] /\ aged = {} /\ stamped = {}
  /\ content = {} /\ seen = [p \in Writers |-> {}]
  /\ tries = [p \in Guests |-> 0] /\ removers = {}
  /\ pc = [p \in Procs |-> "start"]

-----------------------------------------------------------------------------

Goto(p, l) == pc' = [pc EXCEPT ![p] = l]

\* An inode nobody has open and no name leads to.
Fresh == {i \in Inodes : i # name /\ \A p \in Procs : opened[p] # i}

\* createFile without truncation: the file the name leads to, or a new one.
Opens(p) ==
  \E i \in IF name = NoInode THEN Fresh ELSE {name} :
    /\ name' = i
    /\ opened' = [opened EXCEPT ![p] = i]
    /\ aged' = IF name = NoInode THEN aged \ {i} ELSE aged
    /\ stamped' = IF name = NoInode THEN stamped \ {i} ELSE stamped

\* The lock is not needed to go on.
BugLocks(p) == holder' = [holder EXCEPT ![opened[p]] = p]

\* flock(LOCK_EX): waits until the inode is free.
Locks(p) ==
  /\ holder[opened[p]] = Nobody
  /\ holder' = [holder EXCEPT ![opened[p]] = p]

\* The flock outlives the descriptor.
BugCloses(p) ==
  /\ opened' = [opened EXCEPT ![p] = NoInode]
  /\ UNCHANGED holder

\* close(2), or the death of the process, releases the flock.
Closes(p) ==
  /\ opened' = [opened EXCEPT ![p] = NoInode]
  /\ holder' = [i \in Inodes |-> IF holder[i] = p THEN Nobody ELSE holder[i]]

-----------------------------------------------------------------------------
(* A guest's read-modify-write: load, lib.fsWriteIf, retry on mismatch.    *)

GuestLoads(p) ==
  /\ pc[p] = "start"
  /\ seen' = [seen EXCEPT ![p] = content]
  /\ Goto(p, "open")
  /\ UNCHANGED <<lockVars, content, tries, removers>>

WriterOpens(p) ==
  /\ pc[p] = "open"
  /\ Opens(p)
  /\ Goto(p, "lock")
  /\ UNCHANGED <<holder, fileVars, removers>>

\* writeLockHolder stamps the lock file.
GuestLocks(p) ==
  /\ pc[p] = "lock"
  /\ Locks(p)
  /\ aged' = aged \ {opened[p]}
  /\ stamped' = stamped \cup {opened[p]}
  /\ Goto(p, "compare")
  /\ UNCHANGED <<name, opened, fileVars, removers>>

\* A write that never compares.
BugGuestCompares(p) ==
  /\ pc[p] = "compare"
  /\ Goto(p, "truncate")
  /\ UNCHANGED <<lockVars, fileVars, removers>>

GuestCompares(p) ==
  /\ pc[p] = "compare"
  /\ content = seen[p]
  /\ Goto(p, "truncate")
  /\ UNCHANGED <<lockVars, fileVars, removers>>

\* The retry is counted once too often.
BugGuestMismatches(p) ==
  /\ pc[p] = "compare"
  /\ content # seen[p]
  /\ Closes(p)
  /\ tries' = [tries EXCEPT ![p] = @ + 1]
  /\ Goto(p, IF tries[p] + 2 < Attempts THEN "start" ELSE "failed")
  /\ UNCHANGED <<name, aged, stamped, content, seen, removers>>

\* Err.mismatch: the guest loads again, a bounded number of times.
GuestMismatches(p) ==
  /\ pc[p] = "compare"
  /\ content # seen[p]
  /\ Closes(p)
  /\ tries' = [tries EXCEPT ![p] = @ + 1]
  /\ Goto(p, IF tries[p] + 1 < Attempts THEN "start" ELSE "failed")
  /\ UNCHANGED <<name, aged, stamped, content, seen, removers>>

\* writeFile creates the file with truncation and then writes the data.
GuestTruncates(p) ==
  /\ pc[p] = "truncate"
  /\ content' = {}
  /\ Goto(p, "write")
  /\ UNCHANGED <<lockVars, seen, tries, removers>>

GuestWrites(p) ==
  /\ pc[p] = "write"
  /\ content' = seen[p] \cup {p}
  /\ Goto(p, "close")
  /\ UNCHANGED <<lockVars, seen, tries, removers>>

WriterCloses(p) ==
  /\ pc[p] = "close"
  /\ Closes(p)
  /\ Goto(p, "done")
  /\ UNCHANGED <<name, aged, stamped, fileVars, removers>>

GuestStep(p) ==
  \/ GuestLoads(p) \/ WriterOpens(p) \/ GuestLocks(p) \/ GuestCompares(p)
  \/ GuestMismatches(p) \/ GuestTruncates(p) \/ GuestWrites(p) \/ WriterCloses(p)

-----------------------------------------------------------------------------
(* A native session: open under the lock, save with an atomic rename.      *)

NativeStarts(p) ==
  /\ pc[p] = "start"
  /\ Goto(p, "open")
  /\ UNCHANGED <<lockVars, fileVars, removers>>

\* cas_lock.acquire leaves no record in the lock file.
NativeLocks(p) ==
  /\ pc[p] = "lock"
  /\ Locks(p)
  /\ Goto(p, "read")
  /\ UNCHANGED <<name, opened, aged, stamped, fileVars, removers>>

NativeReads(p) ==
  /\ pc[p] = "read"
  /\ seen' = [seen EXCEPT ![p] = content]
  /\ Goto(p, "save")
  /\ UNCHANGED <<lockVars, content, tries, removers>>

NativeSaves(p) ==
  /\ pc[p] = "save"
  /\ content' = seen[p] \cup {p}
  /\ Goto(p, "close")
  /\ UNCHANGED <<lockVars, seen, tries, removers>>

NativeStep(p) ==
  \/ NativeStarts(p) \/ WriterOpens(p) \/ NativeLocks(p)
  \/ NativeReads(p) \/ NativeSaves(p) \/ WriterCloses(p)

-----------------------------------------------------------------------------
(* sweepAgedLocks, in a process that writes some other target.             *)

\* Half a day passes since the last recorded acquisition.
Ages ==
  /\ Sweepers \cup Janitors # {} /\ name # NoInode /\ name \notin aged
  /\ aged' = aged \cup {name}
  /\ UNCHANGED <<name, opened, holder, stamped, fileVars, pc, removers>>

SweepFinds(p) ==
  /\ pc[p] = "start" /\ name \in aged
  /\ Goto(p, "open")
  /\ UNCHANGED <<lockVars, fileVars, removers>>

SweepOpens(p) ==
  /\ pc[p] = "open"
  /\ Opens(p)
  /\ Goto(p, "probe")
  /\ UNCHANGED <<holder, fileVars, removers>>

\* Age alone licenses the delete.
BugSweepProbes(p) ==
  /\ pc[p] = "probe"
  /\ Goto(p, "unlink")
  /\ UNCHANGED <<lockVars, fileVars, removers>>

\* lock_nonblocking: a held lock file is left alone.
SweepProbes(p) ==
  /\ pc[p] = "probe"
  /\ Locks(p)
  /\ Goto(p, "unlink")
  /\ UNCHANGED <<name, opened, aged, stamped, fileVars, removers>>

SweepSkips(p) ==
  /\ pc[p] = "probe" /\ holder[opened[p]] # Nobody
  /\ Closes(p)
  /\ Goto(p, "done")
  /\ UNCHANGED <<name, aged, stamped, fileVars, removers>>

SweepUnlinks(p) ==
  /\ pc[p] = "unlink"
  /\ name' = NoInode
  /\ removers' = removers \cup {p}
  /\ Goto(p, "close")
  /\ UNCHANGED <<opened, holder, aged, stamped, fileVars>>

SweepCloses(p) ==
  /\ pc[p] = "close"
  /\ Closes(p)
  /\ Goto(p, "done")
  /\ UNCHANGED <<name, aged, stamped, fileVars, removers>>

SweepStep(p) ==
  \/ SweepFinds(p) \/ SweepOpens(p) \/ SweepProbes(p) \/ SweepSkips(p)
  \/ SweepUnlinks(p) \/ SweepCloses(p)

(* The janitor guest: a lock file with an old record is collected, then    *)
(* deleted by name.                                                        *)

JanitorCollects(p) ==
  /\ pc[p] = "start" /\ name \in aged \cap stamped
  /\ Goto(p, "delete")
  /\ UNCHANGED <<lockVars, fileVars, removers>>

JanitorDeletes(p) ==
  /\ pc[p] = "delete"
  /\ name' = NoInode
  /\ removers' = removers \cup {p}
  /\ Goto(p, "done")
  /\ UNCHANGED <<opened, holder, aged, stamped, fileVars>>

JanitorStep(p) == JanitorCollects(p) \/ JanitorDeletes(p)

-----------------------------------------------------------------------------

\* A process is killed: its descriptors close with it.
Killed(p) ==
  /\ pc[p] \notin {"done", "failed", "killed"}
  /\ Closes(p)
  /\ Goto(p, "killed")
  /\ UNCHANGED <<name, aged, stamped, fileVars, removers>>

Next ==
  \/ \E p \in Guests : GuestStep(p)
  \/ \E p \in Natives : NativeStep(p)
  \/ \E p \in Sweepers : SweepStep(p)
  \/ \E p \in Janitors : JanitorStep(p)
  \/ \E p \in Killable : Killed(p)
  \/ Ages

Spec == Init /\ [][Next]_vars

-----------------------------------------------------------------------------
(* Properties. *)

PCs == {"start", "open", "lock", "compare", "truncate", "write", "read", "save",
        "probe", "unlink", "delete", "close", "done", "failed", "killed"}

\* Every variable has its type.
TypeOK ==
  /\ name \in Inodes \cup {NoInode}
  /\ opened \in [Procs -> Inodes \cup {NoInode}]
  /\ holder \in [Inodes -> Procs \cup {Nobody}]
  /\ aged \subseteq Inodes /\ stamped \subseteq Inodes
  /\ content \subseteq Writers /\ seen \in [Writers -> SUBSET Writers]
  /\ tries \in [Guests -> Nat] /\ removers \subseteq Procs
  /\ pc \in [Procs -> PCs]

Inside == {p \in Writers : pc[p] \in {"compare", "truncate", "write", "read", "save", "close"}}

\* host.zig:5092, the hazard the lock files are designed around: two writers
\* never both believe they hold the lock of one target.
MutualExclusion == \A p, q \in Inside : p = q

\* As long as nothing has removed a lock file, the lock excludes, whoever is
\* killed and whichever of the two kinds of writer takes it.
ExclusiveUntilRemoval == removers = {} => MutualExclusion

\* No lock file was removed and no guest was killed.
Calm == removers = {} /\ \A p \in Guests : pc[p] # "killed"

\* A write that was acknowledged is in the file: no other writer started from
\* older contents and wrote over it.
NoLostUpdate ==
  Calm /\ Inside = {} => \A p \in Writers : pc[p] = "done" => p \in content

\* A guest gives up only against real contention: each of its attempts lost
\* to a different write of somebody else.
FailedMeansOthersWon ==
  Calm /\ Inside = {} =>
    \A p \in Guests : pc[p] = "failed" => Cardinality(content \ {p}) >= Attempts

\* A writer never waits for a process that has gone, or has gone on without
\* the lock: whoever is killed, and whatever happens to the file's name, a
\* held lock is about to be released.
HeldByTheLiving ==
  \A i \in Inodes : holder[i] # Nobody =>
    pc[holder[i]] \notin {"start", "open", "lock", "probe", "delete", "done", "failed", "killed"}

\* host.zig:5087: "Age alone must never license the delete": the first sweep
\* removes the name only from an inode that no writer holds.
SweepsOnlyFree ==
  [][ \A p \in Sweepers :
        removers = {} /\ removers' = {p} => holder[name] \notin Writers ]_vars

=============================================================================
