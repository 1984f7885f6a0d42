----------------------------- MODULE LockProofs -----------------------------
(***************************************************************************)
(* Theorems about the two locks that are files.  About CasWrite, for any   *)
(* number of processes, inodes and tries: what the lock and the compare    *)
(* give until a lock file is removed.  About RunLock, for any number of    *)
(* processes: one of those that start together wins, and is named.         *)
(***************************************************************************)
EXTENDS CasWrite, RunLock, FiniteSetTheorems, TLAPS

GuestPCs  == {"start", "open", "lock", "compare", "truncate", "write", "close", "done", "failed", "killed"}
NativePCs == {"start", "open", "lock", "read", "save", "close", "done", "killed"}

\* A guest and a native session are at places of their own, and one that waits
\* for the lock has its file open.
Placed ==
  /\ \A p \in Guests : pc[p] \in GuestPCs
  /\ \A p \in Natives : pc[p] \in NativePCs
  /\ \A p \in Writers : pc[p] = "lock" => opened[p] \in Inodes

Typed == TypeOK /\ Placed

\* Every open descriptor is on the one inode the name leads to, and the
\* writer inside is the holder of its flock.
Locked ==
  /\ \A p \in Writers : opened[p] # NoInode => opened[p] = name
  /\ \A p \in Inside : opened[p] # NoInode /\ holder[opened[p]] = p

\* What is about to be saved extends what is there, and an acknowledged write
\* is there, or in what the writer that has just truncated is about to write.
Kept ==
  /\ \A q \in Writers : pc[q] \in {"truncate", "save"} => content = seen[q]
  /\ \A q \in Writers : pc[q] = "close" => q \in content
  /\ \A p \in Writers : pc[p] = "done" =>
       /\ \A q \in Writers : pc[q] = "write" => p \in seen[q]
       /\ (\A q \in Writers : pc[q] # "write") => p \in content

UntilRemoval == removers = {} => Locked
WhileCalm == Calm => Kept

-----------------------------------------------------------------------------
(* Type correctness. *)

\* The initial state is typed.
LEMMA InitTyped == Init => Typed
<1> SUFFICES ASSUME Init PROVE Typed
  OBVIOUS
<1>1. /\ name \in Inodes \cup {NoInode}
      /\ opened \in [Procs -> Inodes \cup {NoInode}]
      /\ holder \in [Inodes -> Procs \cup {Nobody}]
      /\ aged \subseteq Inodes /\ stamped \subseteq Inodes /\ content \subseteq Writers
      /\ removers \subseteq Procs
  BY DEF Init
<1>2. seen \in [Writers -> SUBSET Writers] /\ tries \in [Guests -> Nat]
  BY DEF Init
<1>3. pc \in [Procs -> PCs]
  BY DEF Init, PCs
<1>4. Placed
  BY DEF Init, Placed, GuestPCs, NativePCs, Procs, Writers
<1> QED
  BY <1>1, <1>2, <1>3, <1>4 DEF Typed, TypeOK

\* An open leads to a known inode and leaves the file and the writers alone.
LEMMA OpensTyped ==
  ASSUME TypeOK, NEW p \in Procs, Opens(p)
  PROVE  /\ name' \in Inodes \cup {NoInode}
         /\ opened' \in [Procs -> Inodes \cup {NoInode}]
         /\ opened'[p] \in Inodes /\ \A q \in Procs \ {p} : opened'[q] = opened[q]
         /\ aged' \subseteq Inodes /\ stamped' \subseteq Inodes
<1>1. PICK i \in IF name = NoInode THEN Fresh ELSE {name} :
        /\ name' = i
        /\ opened' = [opened EXCEPT ![p] = i]
        /\ aged' = IF name = NoInode THEN aged \ {i} ELSE aged
        /\ stamped' = IF name = NoInode THEN stamped \ {i} ELSE stamped
  BY DEF Opens
<1>2. i \in Inodes
  BY DEF TypeOK, Fresh
<1> QED
  BY <1>1, <1>2 DEF TypeOK

\* Every step keeps the types.
LEMMA NextTyped == Typed /\ [Next]_vars => Typed'
<1> SUFFICES ASSUME Typed, [Next]_vars PROVE Typed'
  OBVIOUS
<1> USE CasAssumption DEF Typed, TypeOK, Placed, PCs, GuestPCs, NativePCs, Writers, Procs, Goto,
      Locks, Closes, lockVars, fileVars
<1>1. ASSUME NEW p \in Guests, GuestStep(p) PROVE Typed'
  <2>1. CASE GuestLoads(p)
    BY <2>1 DEF GuestLoads
  <2>2. CASE WriterOpens(p)
    BY <2>2, OpensTyped DEF WriterOpens
  <2>3. CASE GuestLocks(p)
    BY <2>3 DEF GuestLocks
  <2>4. CASE GuestCompares(p)
    BY <2>4 DEF GuestCompares
  <2>5. CASE GuestMismatches(p)
    BY <2>5 DEF GuestMismatches
  <2>6. CASE GuestTruncates(p)
    BY <2>6 DEF GuestTruncates
  <2>7. CASE GuestWrites(p)
    BY <2>7 DEF GuestWrites
  <2>8. CASE WriterCloses(p)
    BY <2>8 DEF WriterCloses
  <2> QED
    BY <1>1, <2>1, <2>2, <2>3, <2>4, <2>5, <2>6, <2>7, <2>8 DEF GuestStep
<1>2. ASSUME NEW p \in Natives, NativeStep(p) PROVE Typed'
  <2>1. CASE NativeStarts(p)
    BY <2>1 DEF NativeStarts
  <2>2. CASE WriterOpens(p)
    BY <2>2, OpensTyped DEF WriterOpens
  <2>3. CASE NativeLocks(p)
    BY <2>3 DEF NativeLocks
  <2>4. CASE NativeReads(p)
    BY <2>4 DEF NativeReads
  <2>5. CASE NativeSaves(p)
    BY <2>5 DEF NativeSaves
  <2>6. CASE WriterCloses(p)
    BY <2>6 DEF WriterCloses
  <2> QED
    BY <1>2, <2>1, <2>2, <2>3, <2>4, <2>5, <2>6 DEF NativeStep
<1>3. ASSUME NEW p \in Sweepers, SweepStep(p) PROVE Typed'
  <2>1. CASE SweepFinds(p)
    BY <2>1 DEF SweepFinds
  <2>2. CASE SweepOpens(p)
    BY <2>2, OpensTyped DEF SweepOpens
  <2>3. CASE SweepProbes(p)
    BY <2>3 DEF SweepProbes
  <2>4. CASE SweepSkips(p)
    BY <2>4 DEF SweepSkips
  <2>5. CASE SweepUnlinks(p)
    BY <2>5 DEF SweepUnlinks
  <2>6. CASE SweepCloses(p)
    BY <2>6 DEF SweepCloses
  <2> QED
    BY <1>3, <2>1, <2>2, <2>3, <2>4, <2>5, <2>6 DEF SweepStep
<1>4. ASSUME NEW p \in Janitors, JanitorStep(p) PROVE Typed'
  BY <1>4 DEF JanitorStep, JanitorCollects, JanitorDeletes
<1>5. ASSUME NEW p \in Killable, Killed(p) PROVE Typed'
  BY <1>5 DEF Killed
<1>6. CASE Ages
  BY <1>6 DEF Ages
<1>7. CASE UNCHANGED vars
  BY <1>7 DEF vars
<1> QED
  BY <1>1, <1>2, <1>3, <1>4, <1>5, <1>6, <1>7 DEF Next

\* The lock files, the state file and the processes always have their types.
THEOREM TypeCorrect == Spec => []TypeOK
<1>1. Typed => TypeOK
  BY DEF Typed
<1> QED
  BY InitTyped, NextTyped, <1>1, PTL DEF Spec

-----------------------------------------------------------------------------
(* Mutual exclusion. *)

\* What was removed stays removed, who was killed stays killed.
LEMMA NextRemovers ==
  ASSUME Typed, [Next]_vars
  PROVE  /\ removers' = {} => removers = {}
         /\ Calm' => Calm
<1> USE CasAssumption DEF Typed, TypeOK, Calm, Writers, Procs, Goto, lockVars, fileVars
<1>1. ASSUME NEW p \in Guests, GuestStep(p)
      PROVE  /\ removers' = {} => removers = {}
             /\ Calm' => Calm
  BY <1>1 DEF GuestStep, GuestLoads, WriterOpens, GuestLocks, GuestCompares, GuestMismatches,
    GuestTruncates, GuestWrites, WriterCloses
<1>2. ASSUME NEW p \in Natives, NativeStep(p)
      PROVE  /\ removers' = {} => removers = {}
             /\ Calm' => Calm
  BY <1>2 DEF NativeStep, NativeStarts, WriterOpens, NativeLocks, NativeReads, NativeSaves, WriterCloses
<1>3. ASSUME NEW p \in Sweepers, SweepStep(p)
      PROVE  /\ removers' = {} => removers = {}
             /\ Calm' => Calm
  BY <1>3 DEF SweepStep, SweepFinds, SweepOpens, SweepProbes, SweepSkips, SweepUnlinks, SweepCloses
<1>4. ASSUME NEW p \in Janitors, JanitorStep(p)
      PROVE  /\ removers' = {} => removers = {}
             /\ Calm' => Calm
  BY <1>4 DEF JanitorStep, JanitorCollects, JanitorDeletes
<1>5. ASSUME NEW p \in Killable, Killed(p)
      PROVE  /\ removers' = {} => removers = {}
             /\ Calm' => Calm
  BY <1>5 DEF Killed
<1>6. CASE Ages
  BY <1>6 DEF Ages
<1>7. CASE UNCHANGED vars
  BY <1>7 DEF vars
<1> QED
  BY <1>1, <1>2, <1>3, <1>4, <1>5, <1>6, <1>7 DEF Next

\* Locked is inductive as long as nothing removes a lock file.
LEMMA NextLocked == Typed /\ UntilRemoval /\ [Next]_vars => UntilRemoval'
<1> SUFFICES ASSUME Typed, removers = {}, Locked, [Next]_vars, removers' = {} PROVE Locked'
  BY NextRemovers DEF UntilRemoval
<1> USE CasAssumption DEF Typed, TypeOK, Placed, PCs, GuestPCs, NativePCs, Writers, Procs, Goto,
      Locked, Inside, Opens, Locks, Closes, lockVars, fileVars
<1>1. ASSUME NEW p \in Guests, GuestStep(p) PROVE Locked'
  <2>1. CASE GuestLoads(p)
    BY <2>1 DEF GuestLoads
  <2>2. CASE WriterOpens(p)
    BY <2>2 DEF WriterOpens, Fresh
  <2>3. CASE GuestLocks(p)
    BY <2>3 DEF GuestLocks
  <2>4. CASE GuestCompares(p)
    BY <2>4 DEF GuestCompares
  <2>5. CASE GuestMismatches(p)
    BY <2>5 DEF GuestMismatches
  <2>6. CASE GuestTruncates(p)
    BY <2>6 DEF GuestTruncates
  <2>7. CASE GuestWrites(p)
    BY <2>7 DEF GuestWrites
  <2>8. CASE WriterCloses(p)
    BY <2>8 DEF WriterCloses
  <2> QED
    BY <1>1, <2>1, <2>2, <2>3, <2>4, <2>5, <2>6, <2>7, <2>8 DEF GuestStep
<1>2. ASSUME NEW p \in Natives, NativeStep(p) PROVE Locked'
  <2>1. CASE NativeStarts(p)
    BY <2>1 DEF NativeStarts
  <2>2. CASE WriterOpens(p)
    BY <2>2 DEF WriterOpens, Fresh
  <2>3. CASE NativeLocks(p)
    BY <2>3 DEF NativeLocks
  <2>4. CASE NativeReads(p)
    BY <2>4 DEF NativeReads
  <2>5. CASE NativeSaves(p)
    BY <2>5 DEF NativeSaves
  <2>6. CASE WriterCloses(p)
    BY <2>6 DEF WriterCloses
  <2> QED
    BY <1>2, <2>1, <2>2, <2>3, <2>4, <2>5, <2>6 DEF NativeStep
<1>3. ASSUME NEW p \in Sweepers, SweepStep(p) PROVE Locked'
  <2>1. CASE SweepFinds(p)
    BY <2>1 DEF SweepFinds
  <2>2. CASE SweepOpens(p)
    BY <2>2 DEF SweepOpens, Fresh
  <2>3. CASE SweepProbes(p)
    BY <2>3 DEF SweepProbes
  <2>4. CASE SweepSkips(p)
    BY <2>4 DEF SweepSkips
  <2>5. CASE SweepUnlinks(p)
    BY <2>5 DEF SweepUnlinks
  <2>6. CASE SweepCloses(p)
    BY <2>6 DEF SweepCloses
  <2> QED
    BY <1>3, <2>1, <2>2, <2>3, <2>4, <2>5, <2>6 DEF SweepStep
<1>4. ASSUME NEW p \in Janitors, JanitorStep(p) PROVE Locked'
  BY <1>4 DEF JanitorStep, JanitorCollects, JanitorDeletes
<1>5. ASSUME NEW p \in Killable, Killed(p) PROVE Locked'
  BY <1>5 DEF Killed
<1>6. CASE Ages
  BY <1>6 DEF Ages
<1>7. CASE UNCHANGED vars
  BY <1>7 DEF vars
<1> QED
  BY <1>1, <1>2, <1>3, <1>4, <1>5, <1>6, <1>7 DEF Next

\* The holder is unique, so is the writer inside.
LEMMA LockedExcludes == Typed /\ Locked => MutualExclusion
<1> QED
  BY DEF Typed, TypeOK, Locked, Inside, MutualExclusion

\* Two writers are never inside together until a lock file is removed, by the
\* sweep or the janitor, for any number of writers, killed or not.
THEOREM Exclusive == Spec => []ExclusiveUntilRemoval
<1>1. Init => Typed /\ UntilRemoval
  BY InitTyped DEF Init, UntilRemoval, Locked, Inside, Writers, Procs
<1>2. Typed /\ UntilRemoval /\ [Next]_vars => (Typed /\ UntilRemoval)'
  BY NextTyped, NextLocked
<1>3. Typed /\ UntilRemoval => ExclusiveUntilRemoval
  BY LockedExcludes DEF UntilRemoval, ExclusiveUntilRemoval
<1> QED
  BY <1>1, <1>2, <1>3, PTL DEF Spec

-----------------------------------------------------------------------------
(* No lock is held by a process that has left it. *)

\* Every way out of the critical section closes the descriptor.
LEMMA NextHeld == Typed /\ HeldByTheLiving /\ [Next]_vars => HeldByTheLiving'
<1> SUFFICES ASSUME Typed, HeldByTheLiving, [Next]_vars PROVE HeldByTheLiving'
  OBVIOUS
<1> USE CasAssumption DEF Typed, TypeOK, Placed, Writers, Procs, Goto, HeldByTheLiving,
      Opens, Locks, Closes, lockVars, fileVars
<1>1. ASSUME NEW p \in Guests, GuestStep(p) PROVE HeldByTheLiving'
  <2>1. CASE GuestLoads(p)
    BY <2>1 DEF GuestLoads
  <2>2. CASE WriterOpens(p)
    BY <2>2 DEF WriterOpens
  <2>3. CASE GuestLocks(p)
    BY <2>3 DEF GuestLocks
  <2>4. CASE GuestCompares(p)
    BY <2>4 DEF GuestCompares
  <2>5. CASE GuestMismatches(p)
    BY <2>5 DEF GuestMismatches
  <2>6. CASE GuestTruncates(p)
    BY <2>6 DEF GuestTruncates
  <2>7. CASE GuestWrites(p)
    BY <2>7 DEF GuestWrites
  <2>8. CASE WriterCloses(p)
    BY <2>8 DEF WriterCloses
  <2> QED
    BY <1>1, <2>1, <2>2, <2>3, <2>4, <2>5, <2>6, <2>7, <2>8 DEF GuestStep
<1>2. ASSUME NEW p \in Natives, NativeStep(p) PROVE HeldByTheLiving'
  <2>1. CASE NativeStarts(p)
    BY <2>1 DEF NativeStarts
  <2>2. CASE WriterOpens(p)
    BY <2>2 DEF WriterOpens
  <2>3. CASE NativeLocks(p)
    BY <2>3 DEF NativeLocks
  <2>4. CASE NativeReads(p)
    BY <2>4 DEF NativeReads
  <2>5. CASE NativeSaves(p)
    BY <2>5 DEF NativeSaves
  <2>6. CASE WriterCloses(p)
    BY <2>6 DEF WriterCloses
  <2> QED
    BY <1>2, <2>1, <2>2, <2>3, <2>4, <2>5, <2>6 DEF NativeStep
<1>3. ASSUME NEW p \in Sweepers, SweepStep(p) PROVE HeldByTheLiving'
  <2>1. CASE SweepFinds(p)
    BY <2>1 DEF SweepFinds
  <2>2. CASE SweepOpens(p)
    BY <2>2 DEF SweepOpens
  <2>3. CASE SweepProbes(p)
    BY <2>3 DEF SweepProbes
  <2>4. CASE SweepSkips(p)
    BY <2>4 DEF SweepSkips
  <2>5. CASE SweepUnlinks(p)
    BY <2>5 DEF SweepUnlinks
  <2>6. CASE SweepCloses(p)
    BY <2>6 DEF SweepCloses
  <2> QED
    BY <1>3, <2>1, <2>2, <2>3, <2>4, <2>5, <2>6 DEF SweepStep
<1>4. ASSUME NEW p \in Janitors, JanitorStep(p) PROVE HeldByTheLiving'
  BY <1>4 DEF JanitorStep, JanitorCollects, JanitorDeletes
<1>5. ASSUME NEW p \in Killable, Killed(p) PROVE HeldByTheLiving'
  BY <1>5 DEF Killed
<1>6. CASE Ages
  BY <1>6 DEF Ages
<1>7. CASE UNCHANGED vars
  BY <1>7 DEF vars
<1> QED
  BY <1>1, <1>2, <1>3, <1>4, <1>5, <1>6, <1>7 DEF Next

\* A held lock always belongs to a process inside its critical section, whoever
\* is killed and whatever removes the lock file: no writer waits in vain.
THEOREM NeverAbandoned == Spec => []HeldByTheLiving
<1>1. Init => HeldByTheLiving
  BY DEF Init, HeldByTheLiving
<1> QED
  BY InitTyped, NextTyped, NextHeld, <1>1, PTL DEF Spec

-----------------------------------------------------------------------------
(* No acknowledged write is lost. *)

\* Kept is inductive while no guest is killed and the lock excludes.
LEMMA NextKept == Typed /\ ExclusiveUntilRemoval /\ WhileCalm /\ [Next]_vars => WhileCalm'
<1> SUFFICES ASSUME Typed, MutualExclusion, Kept, [Next]_vars, Calm' PROVE Kept'
  BY NextRemovers DEF WhileCalm, ExclusiveUntilRemoval, Calm
<1> USE CasAssumption DEF Typed, TypeOK, Placed, PCs, GuestPCs, NativePCs, Writers, Procs, Goto,
      MutualExclusion, Kept, Inside, lockVars, fileVars
<1>1. ASSUME NEW p \in Guests, GuestStep(p) PROVE Kept'
  <2>1. CASE GuestLoads(p)
    BY <2>1 DEF GuestLoads
  <2>2. CASE WriterOpens(p)
    BY <2>2 DEF WriterOpens
  <2>3. CASE GuestLocks(p)
    BY <2>3 DEF GuestLocks
  <2>4. CASE GuestCompares(p)
    BY <2>4 DEF GuestCompares
  <2>5. CASE GuestMismatches(p)
    BY <2>5 DEF GuestMismatches
  <2>6. CASE GuestTruncates(p)
    BY <2>6 DEF GuestTruncates
  <2>7. CASE GuestWrites(p)
    BY <2>7 DEF GuestWrites
  <2>8. CASE WriterCloses(p)
    BY <2>8 DEF WriterCloses
  <2> QED
    BY <1>1, <2>1, <2>2, <2>3, <2>4, <2>5, <2>6, <2>7, <2>8 DEF GuestStep
<1>2. ASSUME NEW p \in Natives, NativeStep(p) PROVE Kept'
  <2>1. CASE NativeStarts(p)
    BY <2>1 DEF NativeStarts
  <2>2. CASE WriterOpens(p)
    BY <2>2 DEF WriterOpens
  <2>3. CASE NativeLocks(p)
    BY <2>3 DEF NativeLocks
  <2>4. CASE NativeReads(p)
    BY <2>4 DEF NativeReads
  <2>5. CASE NativeSaves(p)
    BY <2>5 DEF NativeSaves
  <2>6. CASE WriterCloses(p)
    BY <2>6 DEF WriterCloses
  <2> QED
    BY <1>2, <2>1, <2>2, <2>3, <2>4, <2>5, <2>6 DEF NativeStep
<1>3. ASSUME NEW p \in Sweepers, SweepStep(p) PROVE Kept'
  BY <1>3 DEF SweepStep, SweepFinds, SweepOpens, SweepProbes, SweepSkips, SweepUnlinks, SweepCloses
<1>4. ASSUME NEW p \in Janitors, JanitorStep(p) PROVE Kept'
  BY <1>4 DEF JanitorStep, JanitorCollects, JanitorDeletes
<1>5. ASSUME NEW p \in Killable, Killed(p) PROVE Kept'
  BY <1>5 DEF Killed, Calm
<1>6. CASE Ages
  BY <1>6 DEF Ages
<1>7. CASE UNCHANGED vars
  BY <1>7 DEF vars
<1> QED
  BY <1>1, <1>2, <1>3, <1>4, <1>5, <1>6, <1>7 DEF Next

\* Every acknowledged write is in the file whenever nobody is writing, until a
\* lock file is removed or a guest is killed: the compare and the lock together
\* leave no older contents to write over it.
THEOREM WritesKept == Spec => []NoLostUpdate
<1>1. Init => Typed /\ WhileCalm
  BY InitTyped DEF Init, WhileCalm, Kept, Writers, Procs
<1>2. Typed /\ ExclusiveUntilRemoval /\ WhileCalm /\ [Next]_vars => (Typed /\ WhileCalm)'
  BY NextTyped, NextKept
<1>3. WhileCalm => NoLostUpdate
  BY DEF WhileCalm, Kept, NoLostUpdate, Inside
<1> QED
  BY <1>1, <1>2, <1>3, Exclusive, PTL DEF Spec

-----------------------------------------------------------------------------
(* A guest that gives up has lost to as many writes as it tried. *)

Writing == \E q \in Writers : pc[q] = "write"

\* The contributions the file holds, or will hold again when the writer that
\* has just truncated it is done.
Landed == {w \in Writers : w \in content \/ \E q \in Writers : pc[q] = "write" /\ w \in seen[q]}

Others(p) == Cardinality(Landed \ {p})

\* A guest at its next attempt has met as many writes of others as it has
\* failed attempts, and one more when what it loaded is out of date.
Contending(p) ==
  /\ pc[p] \in {"start", "open", "lock", "compare"} => tries[p] <= Others(p)
  /\ pc[p] \in {"open", "lock", "compare"} => tries[p] < Others(p) \/ seen[p] = content \/ Writing
  /\ pc[p] = "failed" => Attempts <= Others(p)

Contended ==
  /\ Writing => content = {}
  /\ \A w \in Landed : pc[w] \in {"close", "done", "killed"}
  /\ \A p \in Guests : Contending(p)

WhileContended == Calm => Contended

\* The writes that have landed can be counted.
LEMMA OthersCounted ==
  ASSUME NEW p
  PROVE  IsFiniteSet(Landed \ {p}) /\ Others(p) \in Nat
<1>1. IsFiniteSet(Landed \ {p})
  BY CasAssumption, FS_Subset DEF Landed
<1> QED
  BY <1>1, FS_CardinalityType DEF Others

\* Nobody else is inside with the writer q, so what is landed is what q has
\* read, before it truncates the file, in between, and until it writes.
LEMMA LandedIsSeen ==
  ASSUME Typed, MutualExclusion, Kept, Contended,
         NEW q \in Writers, pc[q] \in {"truncate", "write", "save"}
  PROVE  /\ Landed = seen[q]
         /\ \A o \in Writers \ {q} : pc[o] # "write"
<1>1. \A o \in Writers \ {q} : pc[o] # "write"
  BY DEF MutualExclusion, Inside
<1>2. CASE pc[q] = "write"
  <2>1. content = {}
    BY <1>2 DEF Contended, Writing
  <2> QED
    BY <1>1, <1>2, <2>1 DEF Landed, Typed, TypeOK
<1>3. CASE pc[q] \in {"truncate", "save"}
  <2>1. content = seen[q] /\ \A o \in Writers : pc[o] # "write"
    BY <1>1, <1>3 DEF Kept
  <2> QED
    BY <1>1, <2>1 DEF Landed, Typed, TypeOK
<1> QED
  BY <1>1, <1>2, <1>3

\* A step of p that neither writes the file nor begins or ends a write leaves
\* the count of every guest as it is.
LEMMA QuietContended ==
  ASSUME Typed, Contended, NEW p \in Procs, content' = content,
         \A q \in Procs \ {p} : pc'[q] = pc[q],
         \A q \in Writers \ {p} : seen'[q] = seen[q],
         \A q \in Guests \ {p} : tries'[q] = tries[q],
         p \in Writers => pc[p] # "write" /\ pc'[p] # "write",
         p \in Landed => pc'[p] \in {"close", "done", "killed"},
         p \in Guests =>
           /\ pc'[p] \in {"start", "open", "lock", "compare"} => tries'[p] <= Others(p)
           /\ pc'[p] \in {"open", "lock", "compare"} => tries'[p] < Others(p) \/ seen'[p] = content \/ Writing
           /\ pc'[p] = "failed" => Attempts <= Others(p)
  PROVE  Contended'
<1>1. \A q \in Writers : pc'[q] = "write" <=> pc[q] = "write"
  BY DEF Procs
<1>2. Writing' <=> Writing
  BY <1>1 DEF Writing
<1>3. Landed' = Landed
  <2>1. \A w \in Writers : (\E q \in Writers : pc'[q] = "write" /\ w \in seen'[q])
                             <=> \E q \in Writers : pc[q] = "write" /\ w \in seen[q]
    BY <1>1 DEF Procs
  <2> QED
    BY <2>1 DEF Landed
<1>4. \A q : Others(q)' = Others(q)
  BY <1>3 DEF Others
<1>5. \A w \in Landed' : pc'[w] \in {"close", "done", "killed"}
  BY <1>3 DEF Contended, Landed, Procs
<1>6. ASSUME NEW q \in Guests PROVE Contending(q)'
  <2>1. CASE q = p
    BY <1>2, <1>4, <2>1 DEF Contending
  <2>2. CASE q # p
    <3>1. pc'[q] = pc[q] /\ seen'[q] = seen[q] /\ tries'[q] = tries[q]
      BY <2>2 DEF Procs, Writers
    <3>2. Contending(q)
      BY DEF Contended
    <3> QED
      BY <1>2, <1>4, <3>1, <3>2 DEF Contending
  <2> QED
    BY <2>1, <2>2
<1> QED
  BY <1>2, <1>5, <1>6 DEF Contended

\* A write adds its writer to what has landed: every other guest has met one
\* write more.
LEMMA WriteContended ==
  ASSUME Typed, MutualExclusion, Kept, Contended, NEW q \in Writers,
         pc[q] \in {"write", "save"}, content' = seen[q] \cup {q}, Goto(q, "close"),
         UNCHANGED <<seen, tries>>
  PROVE  Contended'
<1>1. /\ pc'[q] = "close" /\ \A o \in Procs \ {q} : pc'[o] = pc[o]
      /\ \A o \in Writers : pc'[o] # "write"
  BY LandedIsSeen DEF Goto, Typed, TypeOK, Procs
<1>2. ~Writing'
  BY <1>1 DEF Writing
<1>3. Landed' = Landed \cup {q}
  BY <1>1, LandedIsSeen DEF Landed
<1>4. q \notin Landed
  BY DEF Contended
<1>5. \A w \in Landed' : pc'[w] \in {"close", "done", "killed"}
  BY <1>1, <1>3 DEF Contended, Landed, Procs
<1>6. ASSUME NEW p \in Guests PROVE Contending(p)'
  <2>1. CASE p = q
    BY <1>1, <2>1 DEF Contending
  <2>2. CASE p # q
    <3>1. Landed' \ {p} = (Landed \ {p}) \cup {q} /\ q \notin Landed \ {p}
      BY <1>3, <1>4, <2>2
    <3>2. Others(p)' = Others(p) + 1
      BY <3>1, OthersCounted, FS_AddElement DEF Others
    <3>3. pc'[p] = pc[p] /\ tries'[p] = tries[p] /\ tries[p] \in Nat
      BY <1>1, <2>2 DEF Procs, Writers, Typed, TypeOK
    <3>4. Contending(p) /\ Others(p) \in Nat /\ Attempts \in Nat
      BY OthersCounted, CasAssumption DEF Contended
    <3>5. pc[p] \in {"start", "open", "lock", "compare"} => tries[p] < Others(p)'
      BY <3>2, <3>3, <3>4 DEF Contending
    <3>6. pc[p] = "failed" => Attempts <= Others(p)'
      BY <3>2, <3>4 DEF Contending
    <3>7. Others(p)' \in Nat
      BY <3>2, <3>4
    <3> QED
      BY <3>3, <3>5, <3>6, <3>7 DEF Contending
  <2> QED
    BY <2>1, <2>2
<1> QED
  BY <1>2, <1>5, <1>6 DEF Contended

\* Contended is inductive while no guest is killed and the lock excludes.
LEMMA NextContended ==
  Typed /\ ExclusiveUntilRemoval /\ WhileCalm /\ WhileContended /\ [Next]_vars => WhileContended'
<1> SUFFICES ASSUME Typed, MutualExclusion, Kept, Contended, [Next]_vars, Calm' PROVE Contended'
  BY NextRemovers DEF WhileCalm, WhileContended, ExclusiveUntilRemoval, Calm
<1>0. \A p \in Procs : Others(p) \in Nat
  BY OthersCounted
<1> USE CasAssumption DEF Writers, Procs, Goto, lockVars, fileVars
<1>1. ASSUME NEW p \in Guests, GuestStep(p) PROVE Contended'
  <2>0. /\ p \in Landed => pc[p] \in {"close", "done", "killed"}
        /\ Contending(p) /\ Others(p) \in Nat /\ pc \in [Procs -> PCs]
        /\ seen \in [Writers -> SUBSET Writers] /\ tries \in [Guests -> Nat] /\ Attempts \in Nat
    BY <1>0 DEF Contended, Typed, TypeOK
  <2>1. CASE GuestLoads(p)
    BY <2>0, <2>1, QuietContended DEF GuestLoads, Contending
  <2>2. CASE WriterOpens(p)
    BY <2>0, <2>2, QuietContended DEF WriterOpens, Contending
  <2>3. CASE GuestLocks(p)
    BY <2>0, <2>3, QuietContended DEF GuestLocks, Contending
  <2>4. CASE GuestCompares(p)
    BY <2>0, <2>4, QuietContended DEF GuestCompares
  <2>5. CASE GuestMismatches(p)
    <3>1. ~Writing
      BY <2>5 DEF GuestMismatches, Writing, MutualExclusion, Inside
    <3>2. tries[p] < Others(p)
      BY <2>0, <2>5, <3>1 DEF GuestMismatches, Contending
    <3>3. tries'[p] = tries[p] + 1 /\ tries'[p] <= Others(p)
      BY <2>0, <2>5, <3>2 DEF GuestMismatches
    <3>4. pc'[p] = IF tries[p] + 1 < Attempts THEN "start" ELSE "failed"
      BY <2>5 DEF GuestMismatches, Typed, TypeOK
    <3>5. pc'[p] = "start" \/ (pc'[p] = "failed" /\ Attempts <= Others(p))
      BY <2>0, <3>3, <3>4
    <3>6. \A q \in Procs \ {p} : pc'[q] = pc[q]
      BY <2>0, <2>5 DEF GuestMismatches
    <3>7. p \notin Landed /\ pc[p] # "write" /\ pc'[p] # "write"
      BY <2>0, <2>5, <3>5 DEF GuestMismatches
    <3>8. content' = content /\ seen' = seen /\ \A q \in Guests \ {p} : tries'[q] = tries[q]
      BY <2>0, <2>5 DEF GuestMismatches
    <3> QED
      BY <3>3, <3>5, <3>6, <3>7, <3>8, QuietContended
  <2>6. CASE GuestTruncates(p)
    <3>1. Landed = seen[p] /\ \A o \in Writers \ {p} : pc[o] # "write"
      BY <2>6, LandedIsSeen DEF GuestTruncates
    <3>2. pc'[p] = "write" /\ (\A o \in Procs \ {p} : pc'[o] = pc[o]) /\ content' = {} /\ seen' = seen /\ tries' = tries
      BY <2>0, <2>6 DEF GuestTruncates
    <3>3. Landed' = Landed
      BY <2>0, <3>1, <3>2 DEF Landed
    <3>4. \A q : Others(q)' = Others(q)
      BY <3>3 DEF Others
    <3>5. p \notin Landed
      BY <2>0, <2>6 DEF GuestTruncates
    <3>6. \A w \in Landed' : pc'[w] \in {"close", "done", "killed"}
      BY <3>2, <3>3, <3>5 DEF Contended, Landed
    <3>7. Writing'
      BY <3>2 DEF Writing
    <3>8. ASSUME NEW q \in Guests PROVE Contending(q)'
      BY <3>2, <3>4, <3>7 DEF Contended, Contending
    <3> QED
      BY <3>2, <3>6, <3>8 DEF Contended
  <2>7. CASE GuestWrites(p)
    BY <2>7, WriteContended DEF GuestWrites
  <2>8. CASE WriterCloses(p)
    BY <2>0, <2>8, QuietContended DEF WriterCloses
  <2> QED
    BY <1>1, <2>1, <2>2, <2>3, <2>4, <2>5, <2>6, <2>7, <2>8 DEF GuestStep
<1>2. ASSUME NEW p \in Natives, NativeStep(p) PROVE Contended'
  <2>0. /\ p \notin Guests
        /\ p \in Landed => pc[p] \in {"close", "done", "killed"}
        /\ pc \in [Procs -> PCs] /\ seen \in [Writers -> SUBSET Writers]
    BY DEF Contended, Typed, TypeOK
  <2>1. CASE NativeStarts(p)
    BY <2>0, <2>1, QuietContended DEF NativeStarts
  <2>2. CASE WriterOpens(p)
    BY <2>0, <2>2, QuietContended DEF WriterOpens
  <2>3. CASE NativeLocks(p)
    BY <2>0, <2>3, QuietContended DEF NativeLocks
  <2>4. CASE NativeReads(p)
    BY <2>0, <2>4, QuietContended DEF NativeReads
  <2>5. CASE NativeSaves(p)
    BY <2>5, WriteContended DEF NativeSaves
  <2>6. CASE WriterCloses(p)
    BY <2>0, <2>6, QuietContended DEF WriterCloses
  <2> QED
    BY <1>2, <2>1, <2>2, <2>3, <2>4, <2>5, <2>6 DEF NativeStep
<1>3. ASSUME NEW p \in Procs \ Writers, pc' = [pc EXCEPT ![p] = pc'[p]], UNCHANGED fileVars
      PROVE  Contended'
  <2>1. \A q \in Procs \ {p} : pc'[q] = pc[q]
    BY <1>3 DEF Typed, TypeOK
  <2>2. p \notin Landed
    BY <1>3 DEF Landed
  <2> QED
    BY <1>3, <2>1, <2>2, QuietContended
<1>4. ASSUME NEW p \in Sweepers, SweepStep(p) PROVE Contended'
  <2>1. p \in Procs \ Writers /\ pc \in [Procs -> PCs]
    BY DEF Typed, TypeOK
  <2>2. pc' = [pc EXCEPT ![p] = pc'[p]] /\ UNCHANGED fileVars
    BY <1>4, <2>1 DEF SweepStep, SweepFinds, SweepOpens, SweepProbes, SweepSkips, SweepUnlinks, SweepCloses
  <2> QED
    BY <1>3, <2>1, <2>2
<1>5. ASSUME NEW p \in Janitors, JanitorStep(p) PROVE Contended'
  <2>1. p \in Procs \ Writers /\ pc \in [Procs -> PCs]
    BY DEF Typed, TypeOK
  <2>2. pc' = [pc EXCEPT ![p] = pc'[p]] /\ UNCHANGED fileVars
    BY <1>5, <2>1 DEF JanitorStep, JanitorCollects, JanitorDeletes
  <2> QED
    BY <1>3, <2>1, <2>2
<1>6. ASSUME NEW p \in Killable, Killed(p) PROVE Contended'
  <2>1. p \in Procs /\ pc \in [Procs -> PCs] /\ pc' = [pc EXCEPT ![p] = "killed"] /\ UNCHANGED fileVars
    BY <1>6 DEF Killed, Typed, TypeOK
  <2>2. p \notin Guests
    BY <2>1 DEF Calm
  <2>3. p \in Writers => pc[p] # "write"
    BY <2>2 DEF Typed, Placed, NativePCs
  <2> QED
    BY <2>1, <2>2, <2>3, QuietContended
<1>7. ASSUME UNCHANGED <<pc, fileVars>> PROVE Contended'
  BY <1>7 DEF Contended, Contending, Others, Landed, Writing
<1>8. CASE Ages
  BY <1>7, <1>8 DEF Ages
<1>9. CASE UNCHANGED vars
  BY <1>7, <1>9 DEF vars
<1> QED
  BY <1>1, <1>2, <1>4, <1>5, <1>6, <1>8, <1>9 DEF Next

\* A guest that reports failure has lost each of its attempts to a different
\* write that is in the file, for any number of writers and of attempts.
THEOREM FailsOnlyContended == Spec => []FailedMeansOthersWon
<1>1. Init => Typed /\ WhileCalm
  BY InitTyped DEF Init, WhileCalm, Kept, Writers, Procs
<1>2. Init => WhileContended
  <2> SUFFICES ASSUME Init PROVE Contended
    BY DEF WhileContended
  <2>1. Landed = {} /\ ~Writing
    BY DEF Init, Landed, Writing, Procs, Writers
  <2>2. \A p \in Guests : tries[p] = 0 /\ pc[p] = "start"
    BY DEF Init, Procs, Writers
  <2>3. ASSUME NEW p \in Guests PROVE Contending(p)
    <3>1. Others(p) \in Nat
      BY OthersCounted
    <3>2. seen[p] = content
      BY DEF Init, Writers
    <3> QED
      BY <2>2, <3>1, <3>2 DEF Contending
  <2> QED
    BY <2>1, <2>3 DEF Contended
<1>3. Typed /\ ExclusiveUntilRemoval /\ WhileCalm /\ [Next]_vars => (Typed /\ WhileCalm)'
  BY NextTyped, NextKept
<1>4. Typed /\ WhileContended => FailedMeansOthersWon
  <2> SUFFICES ASSUME Typed, Contended, Inside = {}, NEW p \in Guests, pc[p] = "failed"
               PROVE  Cardinality(content \ {p}) >= Attempts
    BY DEF WhileContended, FailedMeansOthersWon
  <2>1. \A q \in Writers : pc[q] # "write"
    BY DEF Inside
  <2>2. Landed = content
    BY <2>1 DEF Landed, Typed, TypeOK
  <2>3. Attempts <= Others(p) /\ Others(p) \in Nat
    BY OthersCounted DEF Contended, Contending
  <2> QED
    BY <2>2, <2>3, CasAssumption DEF Others
<1> QED
  BY <1>1, <1>2, <1>3, <1>4, NextContended, Exclusive, PTL DEF Spec

-----------------------------------------------------------------------------
(* The first sweep that removes the name does so under the lock. *)

\* A sweeper between its probe and its delete holds the flock of the inode it
\* has open, which is still the one the name leads to.
Probing ==
  /\ \A p \in Sweepers : opened[p] # NoInode => opened[p] = name
  /\ \A p \in Sweepers : pc[p] \in {"probe", "unlink"} => opened[p] # NoInode
  /\ \A p \in Sweepers : pc[p] = "unlink" => holder[opened[p]] = p

UntilSwept == removers = {} => Probing

\* Probing is inductive as long as nothing removes a lock file: with the name
\* in place every open leads to the one inode.
LEMMA NextProbing == Typed /\ UntilRemoval /\ UntilSwept /\ [Next]_vars => UntilSwept'
<1> SUFFICES ASSUME Typed, removers = {}, Locked, Probing, [Next]_vars, removers' = {} PROVE Probing'
  BY NextRemovers DEF UntilRemoval, UntilSwept
<1> USE CasAssumption DEF Typed, TypeOK, Writers, Procs, Goto, Locked, Probing, Opens, Locks, Closes,
      lockVars, fileVars
<1>1. ASSUME NEW p \in Guests, GuestStep(p) PROVE Probing'
  <2>1. CASE GuestLoads(p)
    BY <2>1 DEF GuestLoads
  <2>2. CASE WriterOpens(p)
    BY <2>2 DEF WriterOpens, Fresh
  <2>3. CASE GuestLocks(p)
    BY <2>3 DEF GuestLocks
  <2>4. CASE GuestCompares(p)
    BY <2>4 DEF GuestCompares
  <2>5. CASE GuestMismatches(p)
    BY <2>5 DEF GuestMismatches
  <2>6. CASE GuestTruncates(p)
    BY <2>6 DEF GuestTruncates
  <2>7. CASE GuestWrites(p)
    BY <2>7 DEF GuestWrites
  <2>8. CASE WriterCloses(p)
    BY <2>8 DEF WriterCloses
  <2> QED
    BY <1>1, <2>1, <2>2, <2>3, <2>4, <2>5, <2>6, <2>7, <2>8 DEF GuestStep
<1>2. ASSUME NEW p \in Natives, NativeStep(p) PROVE Probing'
  <2>1. CASE NativeStarts(p)
    BY <2>1 DEF NativeStarts
  <2>2. CASE WriterOpens(p)
    BY <2>2 DEF WriterOpens, Fresh
  <2>3. CASE NativeLocks(p)
    BY <2>3 DEF NativeLocks
  <2>4. CASE NativeReads(p)
    BY <2>4 DEF NativeReads
  <2>5. CASE NativeSaves(p)
    BY <2>5 DEF NativeSaves
  <2>6. CASE WriterCloses(p)
    BY <2>6 DEF WriterCloses
  <2> QED
    BY <1>2, <2>1, <2>2, <2>3, <2>4, <2>5, <2>6 DEF NativeStep
<1>3. ASSUME NEW p \in Sweepers, SweepStep(p) PROVE Probing'
  <2>1. CASE SweepFinds(p)
    BY <2>1 DEF SweepFinds
  <2>2. CASE SweepOpens(p)
    BY <2>2 DEF SweepOpens, Fresh
  <2>3. CASE SweepProbes(p)
    BY <2>3 DEF SweepProbes
  <2>4. CASE SweepSkips(p)
    BY <2>4 DEF SweepSkips
  <2>5. CASE SweepUnlinks(p)
    BY <2>5 DEF SweepUnlinks
  <2>6. CASE SweepCloses(p)
    BY <2>6 DEF SweepCloses
  <2> QED
    BY <1>3, <2>1, <2>2, <2>3, <2>4, <2>5, <2>6 DEF SweepStep
<1>4. ASSUME NEW p \in Janitors, JanitorStep(p) PROVE Probing'
  BY <1>4 DEF JanitorStep, JanitorCollects, JanitorDeletes
<1>5. ASSUME NEW p \in Killable, Killed(p) PROVE Probing'
  BY <1>5 DEF Killed
<1>6. CASE Ages
  BY <1>6 DEF Ages
<1>7. CASE UNCHANGED vars
  BY <1>7 DEF vars
<1> QED
  BY <1>1, <1>2, <1>3, <1>4, <1>5, <1>6, <1>7 DEF Next

\* Only a sweeper's own delete makes it the first to remove the name.
LEMMA OnlyUnlinksRemove ==
  ASSUME Next, NEW p \in Sweepers, removers = {}, removers' = {p}
  PROVE  SweepUnlinks(p)
<1> USE CasAssumption DEF Writers, Procs
<1>1. ASSUME NEW q \in Guests, GuestStep(q) PROVE removers' = removers
  BY <1>1 DEF GuestStep, GuestLoads, WriterOpens, GuestLocks, GuestCompares, GuestMismatches,
    GuestTruncates, GuestWrites, WriterCloses
<1>2. ASSUME NEW q \in Natives, NativeStep(q) PROVE removers' = removers
  BY <1>2 DEF NativeStep, NativeStarts, WriterOpens, NativeLocks, NativeReads, NativeSaves, WriterCloses
<1>3. ASSUME NEW q \in Sweepers, SweepStep(q) PROVE removers' = removers \/ (q = p /\ SweepUnlinks(q))
  BY <1>3 DEF SweepStep, SweepFinds, SweepOpens, SweepProbes, SweepSkips, SweepUnlinks, SweepCloses
<1>4. ASSUME NEW q \in Janitors, JanitorStep(q) PROVE removers' = removers \/ q = p
  BY <1>4 DEF JanitorStep, JanitorCollects, JanitorDeletes
<1>5. ASSUME NEW q \in Killable, Killed(q) PROVE removers' = removers
  BY <1>5 DEF Killed
<1>6. Ages => removers' = removers
  BY DEF Ages
<1> QED
  BY <1>1, <1>2, <1>3, <1>4, <1>5, <1>6 DEF Next

\* The sweep that is first to remove the name has the flock of its inode, so no
\* writer is using it, whoever is killed and however long ago it was stamped.
THEOREM SweepsUnderLock == Spec => SweepsOnlyFree
<1>1. Init => Typed /\ UntilRemoval /\ UntilSwept
  BY InitTyped DEF Init, UntilRemoval, Locked, Inside, UntilSwept, Probing, Writers, Procs
<1>2. Typed /\ UntilRemoval /\ UntilSwept /\ [Next]_vars => (Typed /\ UntilRemoval /\ UntilSwept)'
  BY NextTyped, NextLocked, NextProbing
<1>3. Typed /\ UntilSwept /\ [Next]_vars =>
        [\A p \in Sweepers : removers = {} /\ removers' = {p} => holder[name] \notin Writers]_vars
  <2> SUFFICES ASSUME Typed, UntilSwept, Next, NEW p \in Sweepers, removers = {}, removers' = {p}
               PROVE  holder[name] \notin Writers
    OBVIOUS
  <2>1. pc[p] = "unlink"
    BY OnlyUnlinksRemove DEF SweepUnlinks
  <2>2. holder[name] = p
    BY <2>1 DEF UntilSwept, Probing
  <2> QED
    BY <2>2, CasAssumption
<1> QED
  BY <1>1, <1>2, <1>3, PTL DEF Spec, SweepsOnlyFree

-----------------------------------------------------------------------------
(* The run lock: of any number of processes that start together one gets    *)
(* it, and its file says so.                                                *)

Places == {"start", "create", "lock", "write", "open", "read", "probe", "clear",
        "recreate", "yield", "held", "busy", "failed", "left", "dead"}

\* A process about to use its descriptor has one.
LockTyped == LockTypeOK /\ \A p \in Runs : at[p] \in {"lock", "write", "read"} => fd[p] \in Files

\* As long as nobody is gone the path leads from the first creation on to the
\* winner's file, whose flock or whose pid keeps every reader from clearing it.
Won ==
  /\ \A p, q \in Runs : at[p] \in {"write", "held"} /\ at[q] \in {"write", "held"} => p = q
  /\ path # NoFile => \E p \in Runs : at[p] \in {"write", "held"}
  /\ \A p \in Runs : at[p] = "write" => path # NoFile /\ fd[p] = path /\ flock[path] = p
  /\ \A p \in Runs : at[p] = "held" => path # NoFile /\ body[path] = p
  /\ \A p \in Runs : at[p] = "open" => path # NoFile
  /\ \A p \in Runs : at[p] = "read" => fd[p] = path
  /\ \A p \in Runs : at[p] = "probe" => owner[p] \in Runs /\ at[owner[p]] = "held"
  /\ \A p \in Runs : at[p] \notin {"lock", "clear", "recreate", "yield"}

WonByOne == atomic /\ NoneGone => Won

-----------------------------------------------------------------------------

\* The initial state is typed, and nobody has won.
LEMMA InitSound == LockInit => LockTyped /\ WonByOne
<1> SUFFICES ASSUME LockInit PROVE LockTyped /\ WonByOne
  OBVIOUS
<1>1. LockTypeOK
  <2>1. /\ path \in Files \cup {NoFile} /\ fd \in [Runs -> Files \cup {NoFile}]
        /\ flock \in [Files -> Runs \cup {NoRun}] /\ body \in [Files -> Runs \cup {NoRun}]
    BY DEF LockInit
  <2>2. owner \in [Runs -> Runs \cup {NoRun}] /\ met \subseteq Runs /\ atomic \in BOOLEAN
    BY DEF LockInit
  <2>3. at \in [Runs -> Places]
    BY DEF LockInit, Places
  <2> QED
    BY <2>1, <2>2, <2>3 DEF LockTypeOK, Places
<1>2. \A p \in Runs : at[p] = "start"
  BY DEF LockInit
<1>3. Won
  BY <1>2 DEF LockInit, Won
<1> QED
  BY <1>1, <1>2, <1>3 DEF LockTyped, WonByOne

\* Every step keeps the types.
LEMMA LockNextTyped == LockTyped /\ [LockNext]_runVars => LockTyped'
<1> SUFFICES ASSUME LockTyped, [LockNext]_runVars PROVE LockTyped'
  OBVIOUS
<1> USE RunLockAssumption DEF LockTyped, LockTypeOK, Goes, NewFiles, ClosesFile, Active, pathVars
<1>1. ASSUME NEW p \in Runs, Starts(p) PROVE LockTyped'
  BY <1>1 DEF Starts
<1>2. ASSUME NEW p \in Runs, Acquire(p) PROVE LockTyped'
  <2>1. CASE Creates(p)
    BY <2>1 DEF Creates
  <2>2. CASE LocksCreated(p)
    BY <2>2 DEF LocksCreated
  <2>3. CASE WritesPid(p)
    BY <2>3 DEF WritesPid
  <2>4. CASE FindsFile(p)
    BY <2>4 DEF FindsFile
  <2>5. CASE OpensForOwner(p)
    BY <2>5 DEF OpensForOwner
  <2>6. CASE ReadsOwner(p)
    BY <2>6 DEF ReadsOwner
  <2>7. CASE Probes(p)
    BY <2>7 DEF Probes
  <2>8. CASE Clears(p)
    BY <2>8 DEF Clears
  <2>9. CASE Yields(p)
    BY <2>9 DEF Yields
  <2> QED
    BY <1>2, <2>1, <2>2, <2>3, <2>4, <2>5, <2>6, <2>7, <2>8, <2>9 DEF Acquire
<1>3. ASSUME NEW p \in Failing, WriteFails(p) PROVE LockTyped'
  BY <1>3 DEF WriteFails
<1>4. ASSUME NEW p \in Leavers, Leaves(p) PROVE LockTyped'
  BY <1>4 DEF Leaves
<1>5. ASSUME NEW p \in Mortals, Dies(p) PROVE LockTyped'
  BY <1>5 DEF Dies, Active
<1>6. CASE UNCHANGED runVars
  BY <1>6 DEF runVars
<1> QED
  BY <1>1, <1>2, <1>3, <1>4, <1>5, <1>6 DEF LockNext

\* Whoever is gone stays gone, and the platform does not change.
LEMMA NextGone ==
  ASSUME LockTyped, [LockNext]_runVars
  PROVE  atomic' = atomic /\ (NoneGone' => NoneGone)
<1> USE RunLockAssumption DEF LockTyped, LockTypeOK, NoneGone, Goes, pathVars
<1>1. ASSUME NEW p \in Runs, Starts(p) PROVE atomic' = atomic /\ (NoneGone' => NoneGone)
  BY <1>1 DEF Starts
<1>2. ASSUME NEW p \in Runs, Acquire(p) PROVE atomic' = atomic /\ (NoneGone' => NoneGone)
  <2>1. CASE Creates(p)
    BY <2>1 DEF Creates
  <2>2. CASE LocksCreated(p)
    BY <2>2 DEF LocksCreated
  <2>3. CASE WritesPid(p)
    BY <2>3 DEF WritesPid
  <2>4. CASE FindsFile(p)
    BY <2>4 DEF FindsFile
  <2>5. CASE OpensForOwner(p)
    BY <2>5 DEF OpensForOwner
  <2>6. CASE ReadsOwner(p)
    BY <2>6 DEF ReadsOwner
  <2>7. CASE Probes(p)
    BY <2>7 DEF Probes
  <2>8. CASE Clears(p)
    BY <2>8 DEF Clears
  <2>9. CASE Yields(p)
    BY <2>9 DEF Yields
  <2> QED
    BY <1>2, <2>1, <2>2, <2>3, <2>4, <2>5, <2>6, <2>7, <2>8, <2>9 DEF Acquire
<1>3. ASSUME NEW p \in Failing, WriteFails(p) PROVE atomic' = atomic /\ (NoneGone' => NoneGone)
  BY <1>3 DEF WriteFails
<1>4. ASSUME NEW p \in Leavers, Leaves(p) PROVE atomic' = atomic /\ (NoneGone' => NoneGone)
  BY <1>4 DEF Leaves
<1>5. ASSUME NEW p \in Mortals, Dies(p) PROVE atomic' = atomic /\ (NoneGone' => NoneGone)
  BY <1>5 DEF Dies, Active
<1>6. CASE UNCHANGED runVars
  BY <1>6 DEF runVars
<1> QED
  BY <1>1, <1>2, <1>3, <1>4, <1>5, <1>6 DEF LockNext

\* Won is inductive while nobody is gone.
LEMMA NextWon == LockTyped /\ WonByOne /\ [LockNext]_runVars => WonByOne'
<1> SUFFICES ASSUME LockTyped, atomic, Won, [LockNext]_runVars, NoneGone' PROVE Won'
  BY NextGone DEF WonByOne
<1> USE RunLockAssumption DEF LockTyped, LockTypeOK, Won, Goes, ClosesFile, pathVars
<1>1. ASSUME NEW p \in Runs, Starts(p) PROVE Won'
  BY <1>1 DEF Starts
<1>2. ASSUME NEW p \in Runs, Acquire(p) PROVE Won'
  <2>1. CASE Creates(p)
    BY <2>1 DEF Creates, NewFiles
  <2>2. CASE LocksCreated(p)
    BY <2>2 DEF LocksCreated
  <2>3. CASE WritesPid(p)
    BY <2>3 DEF WritesPid
  <2>4. CASE FindsFile(p)
    BY <2>4 DEF FindsFile
  <2>5. CASE OpensForOwner(p)
    BY <2>5 DEF OpensForOwner
  <2>6. CASE ReadsOwner(p)
    BY <2>6 DEF ReadsOwner
  <2>7. CASE Probes(p)
    BY <2>7 DEF Probes
  <2>8. CASE Clears(p)
    BY <2>8 DEF Clears
  <2>9. CASE Yields(p)
    BY <2>9 DEF Yields
  <2> QED
    BY <1>2, <2>1, <2>2, <2>3, <2>4, <2>5, <2>6, <2>7, <2>8, <2>9 DEF Acquire
<1>3. ASSUME NEW p \in Failing, WriteFails(p) PROVE Won'
  BY <1>3 DEF WriteFails, NoneGone
<1>4. ASSUME NEW p \in Leavers, Leaves(p) PROVE Won'
  BY <1>4 DEF Leaves, NoneGone
<1>5. ASSUME NEW p \in Mortals, Dies(p) PROVE Won'
  BY <1>5 DEF Dies, Active, NoneGone
<1>6. CASE UNCHANGED runVars
  BY <1>6 DEF runVars
<1> QED
  BY <1>1, <1>2, <1>3, <1>4, <1>5, <1>6 DEF LockNext

\* The files, the flocks and the processes always have their types.
THEOREM LockTypeCorrect == LockSpec => []LockTypeOK
<1>1. LockTyped => LockTypeOK
  BY DEF LockTyped
<1> QED
  BY InitSound, LockNextTyped, <1>1, PTL DEF LockSpec

\* Of any number of processes that take the lock while none releases it, dies or
\* fails, at most one gets it, where the flock covers the file from its creation.
THEOREM OneWinner == LockSpec => []OneStarterWins
<1>1. WonByOne => OneStarterWins
  BY DEF WonByOne, Won, OneStarterWins, OneRun, Holders
<1> QED
  BY InitSound, LockNextTyped, NextWon, <1>1, PTL DEF LockSpec

\* Meanwhile the path leads to a file with the winner's pid.
THEOREM WinnerNamed == LockSpec => []HolderNamed
<1>1. WonByOne => HolderNamed
  BY DEF WonByOne, Won, HolderNamed, Holders
<1> QED
  BY InitSound, LockNextTyped, NextWon, <1>1, PTL DEF LockSpec

=============================================================================
