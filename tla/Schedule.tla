------------------------------ MODULE Schedule ------------------------------
(***************************************************************************)
(* `clanker schedule`: the sweeps and manual runs of                       *)
(* src/src/schedule/runner.zig and the edits of                            *)
(* src/tools/zig/schedule.zig, separate processes on one store.  A native  *)
(* session holds the store's lock and is one step; a guest loads the store *)
(* in one step and writes it in another if it is still what was loaded     *)
(* (both as CasWrite shows).                                               *)
(***************************************************************************)
EXTENDS Naturals, FiniteSets

CONSTANTS
  Sweepers,   \* cron's `run-due` invocations, each of them repeated
  Runners,    \* `schedule run <id>`, once each
  Editors,    \* guests, one request each
  Killable,   \* sweepers and runners that may be killed
  Failing,    \* sweepers and runners whose writes may fail
  Ids,        \* bound on the ids: 1..n
  MaxNow,     \* bound on the clock
  MaxTries,   \* guest attempts: 3 in the code
  MaxFails,   \* bound on the failed writes of a process
  Crons,      \* what a spec means: the set of its windows
  Given,      \* entries at the start
  EditIds, EditCrons,  \* the ids and specs an editor may name
  NoEntry, Nobody

Times  == 1..MaxNow
Native == Sweepers \cup Runners
Procs  == Native \cup Editors

Entry == [cron : Crons, enabled : BOOLEAN, from : Times,
          status : {"none", "running", "ended"}]
Stores == [Ids -> Entry \cup {NoEntry}]
Work   == [id : Ids, gen : Nat, ran : BOOLEAN]

\* What an editor may ask.
Requests == [op : {"add", "remove", "enable", "disable", "update"},
             id : EditIds, cron : EditCrons]

ASSUME ScheduleAssumption ==
  /\ MaxNow \in Nat \ {0} /\ MaxTries \in Nat \ {0} /\ MaxFails \in Nat
  /\ Ids \subseteq Nat \ {0} /\ Given \subseteq Ids /\ Crons \subseteq SUBSET Nat
  /\ Sweepers \cap Runners = {} /\ Native \cap Editors = {} /\ Nobody \notin Procs
  /\ Killable \subseteq Native /\ Failing \subseteq Native
  /\ EditIds \subseteq Ids /\ EditCrons \subseteq Crons
  /\ NoEntry \notin Entry

VARIABLES
  now,       \* wall clock
  store,     \* state/schedule.json; `from` is last_run, or created before that is set
  ledger,    \* state/schedule/log.jsonl: the jobs with a record
  lost,      \* history: the jobs with a record that could not be written
  sweeping,  \* the holder of run-due.lock
  pc,
  clock,     \* the time each process read when it started
  about,     \* what each runner and editor was asked
  seen,      \* the store an editor loaded
  tries,     \* its attempts, or a native process's failed writes
  work,      \* what a native process has claimed and not recorded
  \* history:
  gen,       \* how often each id was given; <<id, gen[id]>> is a job
  decided,   \* ids whose last acknowledged decision was to enable
  claims,    \* windows that a sweep has claimed
  again,     \* jobs with a window claimed twice
  rewound,   \* jobs whose `from` was moved back
  orphans    \* jobs whose run was cut short or could not be recorded

procVars == <<pc, clock, about, seen, tries, work>>
history  == <<gen, decided, claims, again, rewound, orphans>>
vars == <<now, store, ledger, lost, sweeping, procVars, history>>

Run(i) == [op |-> "run", id |-> i, cron |-> {}]
Listed == {i \in Ids : store[i] # NoEntry}
Job(i) == <<i, gen[i]>>
Jobs   == Ids \X Nat

Init ==
  /\ now = 1
  /\ decided \in SUBSET Given
  /\ \E c \in [Given -> Crons] :
       store = [i \in Ids |-> IF i \in Given
                THEN [cron |-> c[i], enabled |-> i \in decided, from |-> 1, status |-> "none"]
                ELSE NoEntry]
  /\ ledger = {} /\ lost = {} /\ sweeping = Nobody
  /\ pc = [p \in Procs |-> "idle"] /\ clock = [p \in Procs |-> 0]
  /\ about = [p \in Procs |-> Nobody] /\ seen = [p \in Procs |-> NoEntry]
  /\ tries = [p \in Procs |-> 0] /\ work = [p \in Procs |-> {}]
  /\ gen = [i \in Ids |-> IF i \in Given THEN 1 ELSE 0]
  /\ claims = {} /\ again = {} /\ rewound = {} /\ orphans = {}

-----------------------------------------------------------------------------
(* Time and the pure rules. *)

Ticks ==
  /\ now < MaxNow /\ now' = now + 1
  /\ UNCHANGED <<store, ledger, lost, sweeping, procVars, history>>

\* The windows after `from` that have come.
WindowsDue(e, t) == {w \in e.cron : e.from < w /\ w <= t}

\* dueAt: nextAfter is the least of them.
IsDue(e, t) == e.enabled /\ WindowsDue(e, t) # {}
FirstDue(e, t) == {w \in WindowsDue(e, t) : \A v \in WindowsDue(e, t) : w <= v}

DueIds(t) == {i \in Listed : IsDue(store[i], t)}

Claimed(e, t) == [e EXCEPT !.from = t, !.status = "running"]

\* The jobs whose window an operator's command takes back.
Rewinds(i, t) == IF t < store[i].from THEN {Job(i)} ELSE {}

-----------------------------------------------------------------------------
(* Sweeps and manual runs. *)

\* A process reads the clock as its command starts.
Starts(p, a, l) ==
  /\ pc[p] = "idle"
  /\ clock' = [clock EXCEPT ![p] = now]
  /\ about' = [about EXCEPT ![p] = a]
  /\ pc' = [pc EXCEPT ![p] = l]
  /\ UNCHANGED <<now, store, ledger, lost, sweeping, seen, tries, work, history>>

\* What a process knows ends with its call.
Forgets(p) ==
  /\ clock' = [clock EXCEPT ![p] = 0]
  /\ about' = [about EXCEPT ![p] = Nobody]

\* The lock is not dropped.
BugDrops(p) == UNCHANGED sweeping

\* A sweep's lock is closed as its call ends, or by the kernel.
Drops(p) == sweeping' = IF sweeping = p THEN Nobody ELSE sweeping

Ends(p) ==
  /\ pc' = [pc EXCEPT ![p] = IF p \in Sweepers THEN "idle" ELSE "done"]
  /\ Drops(p) /\ Forgets(p)

\* acquireRunLock does not wait: a second sweep goes home.
Locks(s) ==
  /\ pc[s] = "lock"
  /\ IF sweeping = Nobody
     THEN sweeping' = s /\ pc' = [pc EXCEPT ![s] = "claim"] /\ UNCHANGED <<clock, about>>
     ELSE Ends(s)
  /\ UNCHANGED <<now, store, ledger, lost, seen, tries, work, history>>

GoesOn(p) == pc' = [pc EXCEPT ![p] = "fire"] /\ UNCHANGED <<sweeping, clock, about>>

\* The due set is decided and fired, and written back only with the outcome.
BugClaims(s) ==
  LET due == DueIds(clock[s])
      won == UNION {{Job(i)} \X FirstDue(store[i], clock[s]) : i \in due}
  IN /\ pc[s] = "claim"
     /\ work' = [work EXCEPT ![s] = {[id |-> i, gen |-> gen[i], ran |-> FALSE] : i \in due}]
     /\ claims' = claims \cup won
     /\ again' = again \cup {c[1] : c \in won \cap claims}
     /\ IF due = {} THEN Ends(s) ELSE GoesOn(s)
     /\ UNCHANGED <<now, store, ledger, lost, seen, tries, gen, decided, rewound, orphans>>

\* Phase one: every due entry is written back as already run.
Claims(s) ==
  LET due == DueIds(clock[s])
      won == UNION {{Job(i)} \X FirstDue(store[i], clock[s]) : i \in due}
  IN /\ pc[s] = "claim"
     /\ store' = [i \in Ids |-> IF i \in due THEN Claimed(store[i], clock[s]) ELSE store[i]]
     /\ work' = [work EXCEPT ![s] = {[id |-> i, gen |-> gen[i], ran |-> FALSE] : i \in due}]
     /\ claims' = claims \cup won
     /\ again' = again \cup {c[1] : c \in won \cap claims}
     /\ IF due = {} THEN Ends(s) ELSE GoesOn(s)
     /\ UNCHANGED <<now, ledger, lost, seen, tries, gen, decided, rewound, orphans>>

\* runOne claims its entry whatever its schedule says, without run-due.lock.
ClaimsOne(r) ==
  LET i == about[r].id
  IN /\ pc[r] = "one"
     /\ IF i \notin Listed
        THEN Ends(r) /\ UNCHANGED <<store, work, rewound>>
        ELSE /\ store' = [store EXCEPT ![i] = Claimed(@, clock[r])]
             /\ work' = [work EXCEPT ![r] = {[id |-> i, gen |-> gen[i], ran |-> FALSE]}]
             /\ rewound' = rewound \cup Rewinds(i, clock[r])
             /\ GoesOn(r)
     /\ UNCHANGED <<now, ledger, lost, seen, tries, gen, decided, claims, again, orphans>>

Keeps(p, j) == ledger' = ledger \cup {j} /\ UNCHANGED <<lost, tries>>
Misses(p, j) ==
  /\ p \in Failing /\ tries[p] < MaxFails /\ tries' = [tries EXCEPT ![p] = @ + 1]
  /\ lost' = lost \cup {j} /\ UNCHANGED ledger

\* appendRecord: a ledger that cannot be read or written costs the record, not
\* the sweep.
Appends(p, j) == Keeps(p, j) \/ Misses(p, j)

\* Only the last run of a sweep is recorded.
BugFires(p) ==
  /\ pc[p] = "fire"
  /\ \E c \in work[p] :
       /\ ~c.ran /\ \A d \in work[p] : d.ran \/ c.id <= d.id
       /\ work' = [work EXCEPT ![p] = (@ \ {c}) \cup {[c EXCEPT !.ran = TRUE]}]
       /\ IF \A d \in work[p] \ {c} : d.ran THEN Appends(p, <<c.id, c.gen>>)
                                           ELSE UNCHANGED <<ledger, lost, tries>>
       /\ pc' = [pc EXCEPT ![p] = IF \A d \in work[p] \ {c} : d.ran
                                  THEN "record" ELSE "fire"]
  /\ UNCHANGED <<now, store, sweeping, clock, about, seen, history>>

\* fireOne: the claims are run in the order of the list, and each leaves a
\* record; one that ends in an error does not stop the next.
Fires(p) ==
  /\ pc[p] = "fire"
  /\ \E c \in work[p] :
       /\ ~c.ran /\ \A d \in work[p] : d.ran \/ c.id <= d.id
       /\ work' = [work EXCEPT ![p] = (@ \ {c}) \cup {[c EXCEPT !.ran = TRUE]}]
       /\ Appends(p, <<c.id, c.gen>>)
       /\ pc' = [pc EXCEPT ![p] = IF \A d \in work[p] \ {c} : d.ran
                                  THEN "record" ELSE "fire"]
  /\ UNCHANGED <<now, store, sweeping, clock, about, seen, history>>

Recorded(ids) == [i \in Ids |-> IF i \in ids \cap Listed THEN [store[i] EXCEPT !.status = "ended"]
                                ELSE store[i]]

\* The first outcome only.
BugRecords(p) ==
  /\ pc[p] = "record"
  /\ store' = Recorded({c.id : c \in {d \in work[p] : \A e \in work[p] : d.id <= e.id}})
  /\ work' = [work EXCEPT ![p] = {}]
  /\ Ends(p)
  /\ UNCHANGED <<now, ledger, lost, seen, tries, history>>

\* Phase two re-reads the store and finds each entry by its id.
Records(p) ==
  /\ pc[p] = "record"
  /\ store' = Recorded({c.id : c \in work[p]})
  /\ work' = [work EXCEPT ![p] = {}]
  /\ Ends(p)
  /\ UNCHANGED <<now, ledger, lost, seen, tries, history>>

CutsShort(p) ==
  /\ orphans' = orphans \cup {<<c.id, c.gen>> : c \in work[p]}
  /\ work' = [work EXCEPT ![p] = {}]
  /\ UNCHANGED <<now, store, ledger, lost, seen, gen, decided, claims, again, rewound>>

\* A lock that cannot be opened and a store that cannot be read or saved end the call.
SaveFails(p) ==
  /\ pc[p] \in {"lock", "claim", "one", "record"} /\ tries[p] < MaxFails
  /\ tries' = [tries EXCEPT ![p] = @ + 1]
  /\ CutsShort(p) /\ Ends(p)

\* A killed process.
Dies(p) ==
  /\ pc[p] \in {"lock", "claim", "one", "fire", "record"}
  /\ pc' = [pc EXCEPT ![p] = "dead"]
  /\ Drops(p) /\ Forgets(p) /\ CutsShort(p) /\ UNCHANGED tries

-----------------------------------------------------------------------------
(* Edits: load, change, write if nothing else was written. *)

Loads(p) ==
  LET r == about[p]
  IN /\ pc[p] = "load"
     /\ IF r.op = "add" \/ r.id \in Listed
        THEN /\ seen' = [seen EXCEPT ![p] = store]
             /\ pc' = [pc EXCEPT ![p] = "store"]
             /\ UNCHANGED <<sweeping, clock, about>>
        ELSE Ends(p) /\ UNCHANGED seen
     /\ UNCHANGED <<now, store, ledger, lost, tries, work, history>>

\* ck_fs_write_if
Writes(p, s) == store = seen[p] /\ store' = s

Acknowledged(p) ==
  /\ Ends(p) /\ seen' = [seen EXCEPT ![p] = NoEntry]
  /\ UNCHANGED <<now, ledger, lost, tries, work, claims, again, orphans>>

\* nextId
NextId(s) == LET used == {i \in Ids : s[i] # NoEntry}
             IN IF used = {} THEN 1 ELSE 1 + CHOOSE i \in used : \A j \in used : j <= i

Adds(p) ==
  LET i == NextId(seen[p])
  IN /\ pc[p] = "store" /\ about[p].op = "add" /\ i \in Ids
     /\ Writes(p, [seen[p] EXCEPT ![i] = [cron |-> about[p].cron, enabled |-> TRUE,
                                         from |-> clock[p], status |-> "none"]])
     /\ gen' = [gen EXCEPT ![i] = @ + 1]
     /\ decided' = decided \cup {i}
     /\ Acknowledged(p) /\ UNCHANGED rewound

Removes(p) ==
  /\ pc[p] = "store" /\ about[p].op = "remove"
  /\ Writes(p, [seen[p] EXCEPT ![about[p].id] = NoEntry])
  /\ Acknowledged(p) /\ UNCHANGED <<gen, decided, rewound>>

\* Enabling what was disabled counts from now, not from the pause.
SetsEnabled(p) ==
  LET i  == about[p].id
      on == about[p].op = "enable"
      resumes == on /\ ~seen[p][i].enabled
  IN /\ pc[p] = "store" /\ about[p].op \in {"enable", "disable"}
     /\ Writes(p, [seen[p] EXCEPT ![i].enabled = on,
                                  ![i].from = IF resumes THEN clock[p] ELSE @])
     /\ decided' = IF on THEN decided \cup {i} ELSE decided \ {i}
     /\ rewound' = IF resumes THEN rewound \cup Rewinds(i, clock[p]) ELSE rewound
     /\ Acknowledged(p) /\ UNCHANGED gen

\* The entry is built anew.
BugUpdates(p) ==
  /\ pc[p] = "store" /\ about[p].op = "update"
  /\ Writes(p, [seen[p] EXCEPT ![about[p].id].cron = about[p].cron, ![about[p].id].enabled = TRUE])
  /\ Acknowledged(p) /\ UNCHANGED <<gen, decided, rewound>>

\* update keeps the identity, the dates and the switch.
Updates(p) ==
  /\ pc[p] = "store" /\ about[p].op = "update"
  /\ Writes(p, [seen[p] EXCEPT ![about[p].id].cron = about[p].cron])
  /\ Acknowledged(p) /\ UNCHANGED <<gen, decided, rewound>>

Mismatches(p) ==
  /\ pc[p] = "store" /\ store # seen[p]
  /\ tries' = [tries EXCEPT ![p] = @ + 1] /\ seen' = [seen EXCEPT ![p] = NoEntry]
  /\ IF tries[p] + 1 < MaxTries
     THEN pc' = [pc EXCEPT ![p] = "load"] /\ UNCHANGED <<sweeping, clock, about>>
     ELSE Ends(p)
  /\ UNCHANGED <<now, store, ledger, lost, work, history>>

-----------------------------------------------------------------------------

Sweep(s) == Starts(s, Nobody, "lock") \/ Locks(s) \/ Claims(s) \/ Fires(s) \/ Records(s)
RunOne(r) == (\E i \in Ids : Starts(r, Run(i), "one")) \/ ClaimsOne(r) \/ Fires(r) \/ Records(r)
Edit(p) ==
  \/ \E q \in Requests : Starts(p, q, "load")
  \/ Loads(p) \/ Adds(p) \/ Removes(p) \/ SetsEnabled(p) \/ Updates(p) \/ Mismatches(p)

Next ==
  \/ Ticks
  \/ \E s \in Sweepers : Sweep(s)
  \/ \E r \in Runners : RunOne(r)
  \/ \E p \in Editors : Edit(p)
  \/ \E p \in Killable : Dies(p)
  \/ \E p \in Failing : SaveFails(p)

\* cron goes on calling run-due, a call goes on, and a run ends.
Fairness == \A s \in Sweepers : WF_vars(Sweep(s))

Spec == Init /\ [][Next]_vars
FairSpec == Spec /\ Fairness

-----------------------------------------------------------------------------
(* Properties. *)

\* Every variable has its type.
TypeOK ==
  /\ now \in Times /\ clock \in [Procs -> 0..MaxNow]
  /\ store \in Stores /\ ledger \subseteq Jobs /\ lost \subseteq Jobs
  /\ sweeping \in Sweepers \cup {Nobody}
  /\ pc \in [Procs -> {"idle", "lock", "claim", "one", "fire", "record", "load", "store",
                       "done", "dead"}]
  /\ about \in [Procs -> Requests \cup {Run(i) : i \in Ids} \cup {Nobody}]
  /\ seen \in [Procs -> Stores \cup {NoEntry}]
  /\ tries \in [Procs -> Nat]
  /\ work \in [Procs -> SUBSET Work]
  /\ gen \in [Ids -> Nat] /\ decided \subseteq Ids
  /\ claims \subseteq Jobs \X Nat
  /\ again \subseteq Jobs /\ rewound \subseteq Jobs /\ orphans \subseteq Jobs

\* runner.zig:17: a claimed window is not fired again, whatever was killed,
\* edited or run in between; the exception is a job whose last run an
\* operator's command moved back, with a clock it had read too early.
ClaimedOnce == again \subseteq rewound

\* An enable or a disable that was acknowledged stands: no sweep's outcome and
\* no other edit takes it back.
DecisionSurvives == \A i \in Listed : store[i].enabled <=> i \in decided

\* An entry listed as running has a run, unless that was cut short.
RunningHasARun ==
  \A i \in Listed : store[i].status = "running" =>
    Job(i) \in orphans \/ \E p \in Native : \E c \in work[p] : <<c.id, c.gen>> = Job(i)

\* An entry listed with an outcome, ok or error, has its record in the ledger,
\* unless writing that failed; only under an id that was given twice may the
\* outcome be another job's.
OutcomeHasARecord ==
  \A i \in Listed : store[i].status = "ended" => Job(i) \in ledger \cup lost \/ gen[i] > 1

\* schedule_logic.zig:146: an id is never reused, so that it keeps meaning the
\* job the ledger recorded.
IdKeepsItsMeaning == \A i \in Listed : \A j \in ledger : j[1] = i => j = Job(i)

\* A due entry is claimed, disabled, removed or re-dated, whoever is killed.
DueIsServed == \A i \in Ids : i \in DueIds(now) ~> i \notin DueIds(now)
=============================================================================
