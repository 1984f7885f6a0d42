--------------------------- MODULE ScheduleProofs ---------------------------
(***************************************************************************)
(* Theorems about Schedule, for any number of sweeps, runners, editors,    *)
(* ids and any clock.                                                      *)
(***************************************************************************)
EXTENDS Schedule, TLAPS

PCs == {"idle", "lock", "claim", "one", "fire", "record", "load", "store", "done", "dead"}

\* A process that has started has read the clock and knows what it was asked,
\* an editor at its write has loaded a store with the entry it changes, and
\* only a process that fires or records has work.
HasLoaded(p) == about[p].op # "add" => seen[p][about[p].id] # NoEntry

PlacedAt(p) ==
  /\ pc[p] \in {"lock", "claim", "one", "fire", "record", "load", "store"} => clock[p] \in Times
  /\ pc[p] = "one" => about[p].id \in Ids
  /\ pc[p] \in {"load", "store"} => about[p] \in Requests
  /\ pc[p] = "store" => seen[p] \in Stores /\ HasLoaded(p)
  /\ p \in Native /\ pc[p] \notin {"fire", "record"} => work[p] = {}
  /\ p \in Editors => pc[p] \in {"idle", "load", "store", "done"}

Placed == \A p \in Procs : PlacedAt(p)
Typed  == TypeOK /\ Placed

-----------------------------------------------------------------------------
(* Entries, stores and steps. *)

\* A claimed entry is an entry.
LEMMA ClaimedEntry ==
  ASSUME NEW e \in Entry, NEW t \in Times
  PROVE  Claimed(e, t) \in Entry
BY DEF Claimed, Entry

\* Outcomes leave a store a store.
LEMMA RecordedStore ==
  ASSUME store \in Stores, NEW ids
  PROVE  Recorded(ids) \in Stores
<1>1. ASSUME NEW i \in Ids PROVE Recorded(ids)[i] \in Entry \cup {NoEntry}
  <2>1. CASE i \in ids \cap Listed
    <3>1. store[i] \in Entry
      BY <2>1 DEF Listed, Stores
    <3> QED
      BY <2>1, <3>1 DEF Recorded, Entry
  <2>2. CASE i \notin ids \cap Listed
    BY <2>2 DEF Recorded, Stores
  <2> QED
    BY <2>1, <2>2
<1> QED
  BY <1>1 DEF Recorded, Stores

\* So does what an edit changes.
LEMMA EditedStore ==
  ASSUME NEW s \in Stores, NEW i \in Ids
  PROVE  /\ [s EXCEPT ![i] = NoEntry] \in Stores
         /\ \A e \in Entry : [s EXCEPT ![i] = e] \in Stores
         /\ s[i] # NoEntry => /\ \A c \in Crons : [s EXCEPT ![i].cron = c] \in Stores
                              /\ \A b \in BOOLEAN, t \in Times :
                                   [s EXCEPT ![i].enabled = b, ![i].from = t] \in Stores
<1>1. \A e \in Entry \cup {NoEntry} : [s EXCEPT ![i] = e] \in Stores
  BY DEF Stores
<1>2. ASSUME s[i] # NoEntry, NEW c \in Crons PROVE [s EXCEPT ![i].cron = c] \in Stores
  <2>1. [s[i] EXCEPT !.cron = c] \in Entry
    BY <1>2 DEF Stores, Entry
  <2> QED
    BY <1>1, <2>1
<1>3. ASSUME s[i] # NoEntry, NEW b \in BOOLEAN, NEW t \in Times
      PROVE [s EXCEPT ![i].enabled = b, ![i].from = t] \in Stores
  <2>1. [[s[i] EXCEPT !.enabled = b] EXCEPT !.from = t] \in Entry
    BY <1>3 DEF Stores, Entry
  <2>2. [s EXCEPT ![i].enabled = b, ![i].from = t]
          = [s EXCEPT ![i] = [[s[i] EXCEPT !.enabled = b] EXCEPT !.from = t]]
    BY DEF Stores
  <2> QED
    BY <1>1, <2>1, <2>2
<1> QED
  BY <1>1, <1>2, <1>3

\* A step of one process leaves the others where they are.
LEMMA OthersPlaced ==
  ASSUME Placed, NEW p \in Procs, PlacedAt(p)',
         \A q \in Procs \ {p} : /\ pc'[q] = pc[q] /\ clock'[q] = clock[q] /\ about'[q] = about[q]
                               /\ seen'[q] = seen[q] /\ work'[q] = work[q]
  PROVE  Placed'
BY DEF Placed, PlacedAt, HasLoaded

\* A call that ends leaves its process typed and with nothing to do.
LEMMA EndsTyped ==
  ASSUME TypeOK, NEW p \in Procs, Ends(p)
  PROVE  /\ pc' \in [Procs -> PCs] /\ clock' \in [Procs -> 0..MaxNow]
         /\ about' \in [Procs -> Requests \cup {Run(i) : i \in Ids} \cup {Nobody}]
         /\ sweeping' \in Sweepers \cup {Nobody}
         /\ pc'[p] \in {"idle", "done"}
         /\ \A q \in Procs \ {p} : pc'[q] = pc[q] /\ clock'[q] = clock[q] /\ about'[q] = about[q]
<1>1. 0 \in 0..MaxNow
  BY ScheduleAssumption
<1>2. /\ pc \in [Procs -> PCs] /\ clock \in [Procs -> 0..MaxNow]
      /\ about \in [Procs -> Requests \cup {Run(i) : i \in Ids} \cup {Nobody}]
      /\ sweeping \in Sweepers \cup {Nobody}
  BY DEF TypeOK, PCs
<1> QED
  BY <1>1, <1>2 DEF Ends, Drops, Forgets, PCs

\* What a request names.
LEMMA RequestFields ==
  ASSUME NEW r \in Requests
  PROVE  r.id \in Ids /\ r.cron \in Crons
BY ScheduleAssumption DEF Requests

-----------------------------------------------------------------------------
(* Type correctness. *)

\* Starting.
LEMMA StartsTyped ==
  ASSUME Typed, NEW p \in Procs, NEW a, NEW l, Starts(p, a, l),
         \/ p \in Sweepers /\ a = Nobody /\ l = "lock"
         \/ p \in Runners /\ l = "one" /\ \E i \in Ids : a = Run(i)
         \/ p \in Editors /\ l = "load" /\ a \in Requests
  PROVE  Typed'
<1>0. TypeOK /\ Placed /\ PlacedAt(p)
  BY DEF Typed, Placed
<1>1. now \in Times /\ now \in 0..MaxNow
  BY <1>0 DEF TypeOK, Times
<1>2. a \in Requests \cup {Run(i) : i \in Ids} \cup {Nobody} /\ l \in PCs
  BY DEF PCs
<1>3. l = "one" => a.id \in Ids
  BY DEF Run
<1>4. /\ pc' \in [Procs -> PCs] /\ clock' \in [Procs -> 0..MaxNow]
      /\ about' \in [Procs -> Requests \cup {Run(i) : i \in Ids} \cup {Nobody}]
      /\ pc[p] = "idle" /\ pc'[p] = l /\ clock'[p] = now /\ about'[p] = a
      /\ \A q \in Procs \ {p} : pc'[q] = pc[q] /\ clock'[q] = clock[q] /\ about'[q] = about[q]
  BY <1>0, <1>1, <1>2 DEF Starts, TypeOK, PCs
<1>5. UNCHANGED <<now, store, ledger, lost, sweeping, seen, tries, work, history>>
  BY DEF Starts
<1>6. PlacedAt(p)'
  BY <1>0, <1>1, <1>3, <1>4, <1>5, ScheduleAssumption DEF PlacedAt, Native, Procs
<1>7. Placed'
  BY <1>0, <1>4, <1>5, <1>6, OthersPlaced
<1>8. TypeOK'
  BY <1>0, <1>4, <1>5 DEF TypeOK, PCs, history, Jobs
<1> QED
  BY <1>7, <1>8 DEF Typed

\* The run lock.
LEMMA LocksTyped ==
  ASSUME Typed, NEW p \in Sweepers, Locks(p)
  PROVE  Typed'
<1>0. p \in Procs /\ TypeOK /\ Placed /\ PlacedAt(p)
  BY DEF Typed, Placed, Procs, Native
<1>1. UNCHANGED <<now, store, ledger, lost, seen, tries, work, history>>
  BY DEF Locks
<1>2. CASE sweeping = Nobody
  <2>1. sweeping' = p /\ pc' = [pc EXCEPT ![p] = "claim"] /\ UNCHANGED <<clock, about>> /\ pc[p] = "lock"
    BY <1>2 DEF Locks
  <2>2. PlacedAt(p)'
    BY <1>0, <1>1, <2>1, ScheduleAssumption DEF PlacedAt, TypeOK, Native, Procs
  <2>3. Placed'
    BY <1>0, <1>1, <2>1, <2>2, OthersPlaced DEF TypeOK
  <2> QED
    BY <1>0, <1>1, <2>1, <2>3 DEF Typed, TypeOK, history, Jobs
<1>3. CASE sweeping # Nobody
  <2>1. Ends(p) /\ pc[p] = "lock"
    BY <1>3 DEF Locks
  <2>2. PlacedAt(p)'
    BY <1>0, <1>1, <2>1, EndsTyped, ScheduleAssumption DEF PlacedAt, Native, Procs
  <2>3. Placed'
    BY <1>0, <1>1, <2>1, <2>2, EndsTyped, OthersPlaced
  <2> QED
    BY <1>0, <1>1, <2>1, <2>3, EndsTyped DEF Typed, TypeOK, history, Jobs, PCs
<1> QED
  BY <1>2, <1>3

\* Phase one.
LEMMA ClaimsTyped ==
  ASSUME Typed, NEW p \in Sweepers, Claims(p)
  PROVE  Typed'
<1> DEFINE due == DueIds(clock[p])
           won == UNION {{Job(i)} \X FirstDue(store[i], clock[p]) : i \in due}
           new == {[id |-> i, gen |-> gen[i], ran |-> FALSE] : i \in due}
<1>0. p \in Procs /\ TypeOK /\ Placed /\ PlacedAt(p)
  BY DEF Typed, Placed, Procs, Native
<1>1. pc[p] = "claim" /\ clock[p] \in Times
  BY <1>0 DEF Claims, PlacedAt
<1>2. \A i \in due : i \in Ids /\ store[i] \in Entry
  BY <1>0 DEF DueIds, Listed, TypeOK, Stores
<1>3. store' \in Stores
  <2>1. \A i \in due : Claimed(store[i], clock[p]) \in Entry
    BY <1>1, <1>2, ClaimedEntry
  <2>2. store' = [i \in Ids |-> IF i \in due THEN Claimed(store[i], clock[p]) ELSE store[i]]
    BY DEF Claims
  <2>3. store \in Stores
    BY <1>0 DEF TypeOK
  <2> HIDE DEF due
  <2> QED
    BY <2>1, <2>2, <2>3 DEF Stores
<1>4. new \subseteq Work
  <2>1. gen \in [Ids -> Nat]
    BY <1>0 DEF TypeOK
  <2>2. \A i \in Ids : [id |-> i, gen |-> gen[i], ran |-> FALSE] \in Work
    BY <2>1 DEF Work
  <2> HIDE DEF due
  <2> QED
    BY <1>2, <2>2
<1>5. work' = [work EXCEPT ![p] = new]
  BY DEF Claims
<1>6. work' \in [Procs -> SUBSET Work] /\ work'[p] = new /\ \A q \in Procs \ {p} : work'[q] = work[q]
  <2> HIDE DEF new
  <2> QED
    BY <1>0, <1>4, <1>5 DEF TypeOK
<1>7. won \subseteq Jobs \X Nat
  <2>1. \A i \in due : Job(i) \in Jobs
    BY <1>0, <1>2 DEF TypeOK, Job, Jobs
  <2>2. \A i \in due : FirstDue(store[i], clock[p]) \subseteq Nat
    BY <1>2, ScheduleAssumption DEF FirstDue, WindowsDue, Entry
  <2> HIDE DEF due
  <2> QED
    BY <2>1, <2>2
<1>8. claims' \subseteq Jobs \X Nat /\ again' \subseteq Jobs
  <2>1. claims' = claims \cup won /\ again' = again \cup {c[1] : c \in won \cap claims}
    BY DEF Claims
  <2>2. claims \subseteq Jobs \X Nat /\ again \subseteq Jobs
    BY <1>0 DEF TypeOK
  <2> HIDE DEF won
  <2> QED
    BY <1>7, <2>1, <2>2
<1>9. UNCHANGED <<now, ledger, lost, seen, tries, gen, decided, rewound, orphans>>
  BY DEF Claims
<1>10. CASE due = {}
  <2>1. Ends(p) /\ work'[p] = {}
    BY <1>6, <1>10 DEF Claims
  <2> HIDE DEF due, won, new
  <2>2. PlacedAt(p)'
    BY <1>0, <1>1, <1>9, <2>1, EndsTyped, ScheduleAssumption DEF PlacedAt, Native, Procs
  <2>3. Placed'
    BY <1>0, <1>6, <1>9, <2>1, <2>2, EndsTyped, OthersPlaced
  <2> QED
    BY <1>0, <1>3, <1>6, <1>8, <1>9, <2>1, <2>3, EndsTyped DEF Typed, TypeOK, Jobs, PCs
<1>11. CASE due # {}
  <2>1. pc' = [pc EXCEPT ![p] = "fire"] /\ UNCHANGED <<sweeping, clock, about>>
    BY <1>11 DEF Claims, GoesOn
  <2> HIDE DEF due, won, new
  <2>2. PlacedAt(p)'
    BY <1>0, <1>1, <1>9, <2>1, ScheduleAssumption DEF PlacedAt, Native, Procs, TypeOK
  <2>3. Placed'
    BY <1>0, <1>6, <1>9, <2>1, <2>2, OthersPlaced DEF TypeOK
  <2> QED
    BY <1>0, <1>3, <1>6, <1>8, <1>9, <2>1, <2>3 DEF Typed, TypeOK, Jobs
<1> QED
  BY <1>10, <1>11

\* A manual run.
LEMMA ClaimsOneTyped ==
  ASSUME Typed, NEW p \in Runners, ClaimsOne(p)
  PROVE  Typed'
<1> DEFINE i == about[p].id
           c == [id |-> i, gen |-> gen[i], ran |-> FALSE]
<1>0. p \in Procs /\ TypeOK /\ Placed /\ PlacedAt(p)
  BY DEF Typed, Placed, Procs, Native
<1>1. pc[p] = "one" /\ clock[p] \in Times /\ i \in Ids
  BY <1>0 DEF ClaimsOne, PlacedAt
<1>2. UNCHANGED <<now, ledger, lost, seen, tries, gen, decided, claims, again, orphans>>
  BY DEF ClaimsOne
<1>3. CASE i \notin Listed
  <2>1. Ends(p) /\ UNCHANGED <<store, work, rewound>>
    BY <1>3 DEF ClaimsOne
  <2>2. PlacedAt(p)'
    BY <1>0, <1>1, <1>2, <2>1, EndsTyped, ScheduleAssumption DEF PlacedAt, Native, Procs
  <2>3. Placed'
    BY <1>0, <1>2, <2>1, <2>2, EndsTyped, OthersPlaced
  <2> QED
    BY <1>0, <1>2, <2>1, <2>3, EndsTyped DEF Typed, TypeOK, Jobs, PCs
<1>4. CASE i \in Listed
  <2>1. /\ store' = [store EXCEPT ![i] = Claimed(@, clock[p])]
        /\ work' = [work EXCEPT ![p] = {c}]
        /\ rewound' = rewound \cup Rewinds(i, clock[p])
        /\ pc' = [pc EXCEPT ![p] = "fire"] /\ UNCHANGED <<sweeping, clock, about>>
    BY <1>4 DEF ClaimsOne, GoesOn
  <2>2. store' \in Stores
    <3>1. store \in Stores /\ store[i] \in Entry
      BY <1>0, <1>4 DEF TypeOK, Listed, Stores
    <3> QED
      BY <1>1, <2>1, <3>1, ClaimedEntry, EditedStore
  <2>3. c \in Work /\ Job(i) \in Jobs
    BY <1>0, <1>1 DEF TypeOK, Work, Job, Jobs
  <2>4. rewound' \subseteq Jobs
    BY <1>0, <2>1, <2>3 DEF TypeOK, Rewinds
  <2> HIDE DEF i, c
  <2>5. work' \in [Procs -> SUBSET Work] /\ \A q \in Procs \ {p} : work'[q] = work[q]
    BY <1>0, <2>1, <2>3 DEF TypeOK
  <2>6. PlacedAt(p)'
    BY <1>0, <1>1, <1>2, <2>1, ScheduleAssumption DEF PlacedAt, Native, Procs, TypeOK
  <2>7. Placed'
    BY <1>0, <1>2, <2>1, <2>5, <2>6, OthersPlaced DEF TypeOK
  <2> QED
    BY <1>0, <1>2, <2>1, <2>2, <2>4, <2>5, <2>7 DEF Typed, TypeOK, Jobs
<1> QED
  BY <1>3, <1>4

\* A run and its record.
LEMMA FiresTyped ==
  ASSUME Typed, NEW p \in Native, Fires(p)
  PROVE  Typed'
<1>0. p \in Procs /\ TypeOK /\ Placed /\ PlacedAt(p)
  BY DEF Typed, Placed, Procs, Native
<1>1. PICK c \in work[p] :
        /\ work' = [work EXCEPT ![p] = (work[p] \ {c}) \cup {[c EXCEPT !.ran = TRUE]}]
        /\ Appends(p, <<c.id, c.gen>>)
        /\ pc' = [pc EXCEPT ![p] = IF \A d \in work[p] \ {c} : d.ran THEN "record" ELSE "fire"]
  BY DEF Fires
<1>2. /\ pc[p] = "fire"
      /\ UNCHANGED <<now, store, sweeping, clock, about, seen, history>>
  BY DEF Fires
<1>3. work \in [Procs -> SUBSET Work] /\ pc \in [Procs -> PCs] /\ ledger \subseteq Jobs
  BY <1>0 DEF TypeOK, PCs
<1>4. c \in Work
  BY <1>0, <1>3
<1>5. [c EXCEPT !.ran = TRUE] \in Work /\ <<c.id, c.gen>> \in Jobs
  BY <1>4 DEF Work, Jobs
<1>6. work' \in [Procs -> SUBSET Work] /\ \A q \in Procs \ {p} : work'[q] = work[q]
  BY <1>0, <1>1, <1>3, <1>5
<1>7. /\ pc' \in [Procs -> PCs] /\ pc'[p] \in {"fire", "record"}
      /\ \A q \in Procs \ {p} : pc'[q] = pc[q]
  BY <1>0, <1>1, <1>3 DEF PCs
<1>8. ledger' \subseteq Jobs /\ lost' \subseteq Jobs /\ tries' \in [Procs -> Nat]
  <2>1. lost \subseteq Jobs /\ tries \in [Procs -> Nat]
    BY <1>0 DEF TypeOK
  <2>2. CASE Keeps(p, <<c.id, c.gen>>)
    BY <1>3, <1>5, <2>1, <2>2 DEF Keeps
  <2>3. CASE Misses(p, <<c.id, c.gen>>)
    <3>1. tries[p] + 1 \in Nat /\ tries' = [tries EXCEPT ![p] = tries[p] + 1]
      BY <1>0, <2>1, <2>3 DEF Misses
    <3>2. tries' \in [Procs -> Nat]
      BY <2>1, <3>1
    <3>3. ledger' = ledger /\ lost' = lost \cup {<<c.id, c.gen>>}
      BY <2>3 DEF Misses
    <3> QED
      BY <1>3, <1>5, <2>1, <3>2, <3>3
  <2> QED
    BY <1>1, <2>2, <2>3 DEF Appends
<1>9. PlacedAt(p)'
  BY <1>0, <1>2, <1>7, ScheduleAssumption DEF PlacedAt, Procs
<1>10. Placed'
  BY <1>0, <1>2, <1>6, <1>7, <1>9, OthersPlaced
<1> QED
  BY <1>0, <1>2, <1>6, <1>7, <1>8, <1>10 DEF Typed, TypeOK, history, Jobs, PCs

\* Phase two.
LEMMA RecordsTyped ==
  ASSUME Typed, NEW p \in Native, Records(p)
  PROVE  Typed'
<1>0. p \in Procs /\ TypeOK /\ Placed /\ PlacedAt(p)
  BY DEF Typed, Placed, Procs, Native
<1>1. /\ Ends(p) /\ work' = [work EXCEPT ![p] = {}]
      /\ UNCHANGED <<now, ledger, lost, seen, tries, history>>
  BY DEF Records
<1>2. store' \in Stores
  BY <1>0, RecordedStore DEF Records, TypeOK
<1>3. work' \in [Procs -> SUBSET Work] /\ work'[p] = {} /\ \A q \in Procs \ {p} : work'[q] = work[q]
  BY <1>0, <1>1 DEF TypeOK
<1>4. PlacedAt(p)'
  BY <1>0, <1>1, <1>3, EndsTyped, ScheduleAssumption DEF PlacedAt, Procs
<1>5. Placed'
  BY <1>0, <1>1, <1>3, <1>4, EndsTyped, OthersPlaced
<1> QED
  BY <1>0, <1>1, <1>2, <1>3, <1>5, EndsTyped DEF Typed, TypeOK, history, Jobs, PCs

\* What a run that was cut short leaves.
LEMMA CutsShortTyped ==
  ASSUME TypeOK, NEW p \in Procs, CutsShort(p)
  PROVE  /\ orphans' \subseteq Jobs /\ work' \in [Procs -> SUBSET Work] /\ work'[p] = {}
         /\ \A q \in Procs \ {p} : work'[q] = work[q]
<1>1. /\ orphans' = orphans \cup {<<c.id, c.gen>> : c \in work[p]}
      /\ work' = [work EXCEPT ![p] = {}]
  BY DEF CutsShort
<1>2. work[p] \subseteq Work /\ orphans \subseteq Jobs /\ work \in [Procs -> SUBSET Work]
  BY DEF TypeOK
<1>3. \A c \in work[p] : <<c.id, c.gen>> \in Jobs
  BY <1>2 DEF Work, Jobs
<1> QED
  BY <1>1, <1>2, <1>3

\* A failed save.
LEMMA SaveFailsTyped ==
  ASSUME Typed, NEW p \in Native, SaveFails(p)
  PROVE  Typed'
<1>0. p \in Procs /\ TypeOK /\ Placed /\ PlacedAt(p)
  BY DEF Typed, Placed, Procs, Native
<1>1. /\ Ends(p) /\ CutsShort(p) /\ tries' = [tries EXCEPT ![p] = @ + 1]
      /\ UNCHANGED <<now, store, ledger, lost, seen, gen, decided, claims, again, rewound>>
  BY DEF SaveFails, CutsShort
<1>2. tries' \in [Procs -> Nat]
  BY <1>0, <1>1 DEF TypeOK
<1>3. PlacedAt(p)'
  BY <1>0, <1>1, CutsShortTyped, EndsTyped, ScheduleAssumption DEF PlacedAt, Procs
<1>4. Placed'
  BY <1>0, <1>1, <1>3, CutsShortTyped, EndsTyped, OthersPlaced
<1> QED
  BY <1>0, <1>1, <1>2, <1>4, CutsShortTyped, EndsTyped DEF Typed, TypeOK, Jobs, PCs

\* A kill.
LEMMA DiesTyped ==
  ASSUME Typed, NEW p \in Native, Dies(p)
  PROVE  Typed'
<1>0. p \in Procs /\ TypeOK /\ Placed /\ PlacedAt(p)
  BY DEF Typed, Placed, Procs, Native
<1>1. /\ CutsShort(p) /\ Drops(p) /\ Forgets(p) /\ pc' = [pc EXCEPT ![p] = "dead"]
      /\ UNCHANGED <<now, store, ledger, lost, seen, tries, gen, decided, claims, again, rewound>>
  BY DEF Dies, CutsShort
<1>2. p \notin Editors /\ 0 \in 0..MaxNow
  BY ScheduleAssumption
<1>3. /\ pc' \in [Procs -> PCs] /\ clock' \in [Procs -> 0..MaxNow]
      /\ about' \in [Procs -> Requests \cup {Run(i) : i \in Ids} \cup {Nobody}]
      /\ sweeping' \in Sweepers \cup {Nobody} /\ pc'[p] = "dead"
      /\ \A q \in Procs \ {p} : pc'[q] = pc[q] /\ clock'[q] = clock[q] /\ about'[q] = about[q]
  BY <1>0, <1>1, <1>2 DEF TypeOK, PCs, Drops, Forgets
<1>4. PlacedAt(p)'
  BY <1>0, <1>1, <1>2, <1>3, CutsShortTyped DEF PlacedAt
<1>5. Placed'
  BY <1>0, <1>1, <1>3, <1>4, CutsShortTyped, OthersPlaced
<1> QED
  BY <1>0, <1>1, <1>3, <1>5, CutsShortTyped DEF Typed, TypeOK, Jobs, PCs

\* A load.
LEMMA LoadsTyped ==
  ASSUME Typed, NEW p \in Editors, Loads(p)
  PROVE  Typed'
<1>0. p \in Procs /\ TypeOK /\ Placed /\ PlacedAt(p)
  BY DEF Typed, Placed, Procs, Native
<1>1. UNCHANGED <<now, store, ledger, lost, tries, work, history>> /\ pc[p] = "load"
  BY DEF Loads
<1>2. store \in Stores /\ about[p] \in Requests
  BY <1>0, <1>1 DEF TypeOK, PlacedAt
<1>3. CASE about[p].op = "add" \/ about[p].id \in Listed
  <2>1. /\ seen' = [seen EXCEPT ![p] = store] /\ pc' = [pc EXCEPT ![p] = "store"]
        /\ UNCHANGED <<sweeping, clock, about>>
    BY <1>3 DEF Loads
  <2>2. /\ pc'[p] = "store" /\ seen'[p] = store /\ pc' \in [Procs -> PCs]
        /\ seen' \in [Procs -> Stores \cup {NoEntry}]
        /\ \A q \in Procs \ {p} : pc'[q] = pc[q] /\ seen'[q] = seen[q]
    BY <1>0, <1>2, <2>1 DEF TypeOK, PCs
  <2>3. about[p].op # "add" => store[about[p].id] # NoEntry
    BY <1>3 DEF Listed
  <2>4. PlacedAt(p)'
    BY <1>0, <1>1, <1>2, <2>1, <2>2, <2>3, ScheduleAssumption DEF PlacedAt, HasLoaded
  <2>5. Placed'
    BY <1>0, <1>1, <2>1, <2>2, <2>4, OthersPlaced
  <2> QED
    BY <1>0, <1>1, <2>1, <2>2, <2>5 DEF Typed, TypeOK, history, Jobs, PCs
<1>4. CASE ~(about[p].op = "add" \/ about[p].id \in Listed)
  <2>1. Ends(p) /\ UNCHANGED seen
    BY <1>4 DEF Loads
  <2>2. PlacedAt(p)'
    BY <1>0, <1>1, <2>1, EndsTyped, ScheduleAssumption DEF PlacedAt
  <2>3. Placed'
    BY <1>0, <1>1, <2>1, <2>2, EndsTyped, OthersPlaced
  <2> QED
    BY <1>0, <1>1, <2>1, <2>3, EndsTyped DEF Typed, TypeOK, history, Jobs, PCs
<1> QED
  BY <1>3, <1>4

\* An acknowledged write, whatever it changed.
LEMMA AcknowledgedTyped ==
  ASSUME Typed, NEW p \in Editors, Acknowledged(p), store' \in Stores,
         gen' \in [Ids -> Nat], decided' \subseteq Ids, rewound' \subseteq Jobs
  PROVE  Typed'
<1>0. p \in Procs /\ TypeOK /\ Placed /\ PlacedAt(p)
  BY DEF Typed, Placed, Procs, Native
<1>1. /\ Ends(p) /\ seen' = [seen EXCEPT ![p] = NoEntry]
      /\ UNCHANGED <<now, ledger, lost, tries, work, claims, again, orphans>>
  BY DEF Acknowledged
<1>2. seen' \in [Procs -> Stores \cup {NoEntry}] /\ \A q \in Procs \ {p} : seen'[q] = seen[q]
  BY <1>0, <1>1 DEF TypeOK
<1>3. p \notin Native
  BY ScheduleAssumption
<1>4. pc'[p] \in {"idle", "done"}
  BY <1>0, <1>1, EndsTyped
<1>5. PlacedAt(p)'
  BY <1>3, <1>4 DEF PlacedAt
<1>6. Placed'
  BY <1>0, <1>1, <1>2, <1>5, EndsTyped, OthersPlaced
<1> QED
  BY <1>0, <1>1, <1>2, <1>6, EndsTyped DEF Typed, TypeOK, Jobs, PCs

\* An add.
LEMMA AddsTyped ==
  ASSUME Typed, NEW p \in Editors, Adds(p)
  PROVE  Typed'
<1>0. p \in Procs /\ TypeOK /\ Placed /\ PlacedAt(p)
  BY DEF Typed, Placed, Procs, Native
<1>1. pc[p] = "store"
  BY DEF Adds
<1>2. /\ seen[p] \in Stores /\ about[p] \in Requests /\ clock[p] \in Times
      /\ HasLoaded(p)
  BY <1>0, <1>1 DEF PlacedAt
<1>3. about[p].id \in Ids /\ about[p].cron \in Crons
  BY <1>2, RequestFields
<1>4. gen \in [Ids -> Nat] /\ decided \subseteq Ids /\ rewound \subseteq Jobs
  BY <1>0 DEF TypeOK
<1>5. NextId(seen[p]) \in Ids /\ Acknowledged(p)
      /\ gen' = [gen EXCEPT ![NextId(seen[p])] = @ + 1]
      /\ decided' = decided \cup {NextId(seen[p])} /\ UNCHANGED rewound
  BY DEF Adds
<1>6. [cron |-> about[p].cron, enabled |-> TRUE, from |-> clock[p], status |-> "none"] \in Entry
  BY <1>2, <1>3 DEF Entry
<1>7. store' \in Stores
  BY <1>2, <1>5, <1>6, EditedStore DEF Adds, Writes
<1>8. gen' \in [Ids -> Nat]
  BY <1>4, <1>5
<1> QED
  BY <1>4, <1>5, <1>7, <1>8, AcknowledgedTyped

\* A remove.
LEMMA RemovesTyped ==
  ASSUME Typed, NEW p \in Editors, Removes(p)
  PROVE  Typed'
<1>0. p \in Procs /\ TypeOK /\ Placed /\ PlacedAt(p)
  BY DEF Typed, Placed, Procs, Native
<1>1. pc[p] = "store"
  BY DEF Removes
<1>2. /\ seen[p] \in Stores /\ about[p] \in Requests /\ clock[p] \in Times
      /\ HasLoaded(p)
  BY <1>0, <1>1 DEF PlacedAt
<1>3. about[p].id \in Ids /\ about[p].cron \in Crons
  BY <1>2, RequestFields
<1>4. gen \in [Ids -> Nat] /\ decided \subseteq Ids /\ rewound \subseteq Jobs
  BY <1>0 DEF TypeOK
<1>5. store' \in Stores
  BY <1>2, <1>3, EditedStore DEF Removes, Writes
<1> QED
  BY <1>4, <1>5, AcknowledgedTyped DEF Removes

\* An enable or a disable.
LEMMA SetsEnabledTyped ==
  ASSUME Typed, NEW p \in Editors, SetsEnabled(p)
  PROVE  Typed'
<1>0. p \in Procs /\ TypeOK /\ Placed /\ PlacedAt(p)
  BY DEF Typed, Placed, Procs, Native
<1>1. pc[p] = "store"
  BY DEF SetsEnabled
<1>2. /\ seen[p] \in Stores /\ about[p] \in Requests /\ clock[p] \in Times
      /\ HasLoaded(p)
  BY <1>0, <1>1 DEF PlacedAt
<1>3. about[p].id \in Ids /\ about[p].cron \in Crons
  BY <1>2, RequestFields
<1>4. gen \in [Ids -> Nat] /\ decided \subseteq Ids /\ rewound \subseteq Jobs
  BY <1>0 DEF TypeOK
<1> DEFINE i == about[p].id
           on == about[p].op = "enable"
           t == IF on /\ ~seen[p][i].enabled THEN clock[p] ELSE seen[p][i].from
<1>5. seen[p][i] \in Entry
  BY <1>2, <1>3 DEF SetsEnabled, Stores, HasLoaded
<1>6. t \in Times /\ on \in BOOLEAN
  BY <1>2, <1>5 DEF Entry
<1>7. store' = [seen[p] EXCEPT ![i].enabled = on, ![i].from = t]
  BY <1>2, <1>3 DEF SetsEnabled, Writes, Stores
<1>8. seen[p][i] # NoEntry
  BY <1>2 DEF SetsEnabled, HasLoaded
<1>9. store' \in Stores
  <2> HIDE DEF on, t, i
  <2> QED
    BY <1>2, <1>3, <1>6, <1>7, <1>8, EditedStore DEF i
<1>10. Rewinds(i, clock[p]) \subseteq Jobs
  BY <1>3, <1>4 DEF Rewinds, Job, Jobs
<1>11. decided' \subseteq Ids /\ rewound' \subseteq Jobs
  BY <1>3, <1>4, <1>10 DEF SetsEnabled
<1> QED
  BY <1>4, <1>9, <1>11, AcknowledgedTyped DEF SetsEnabled

\* An update.
LEMMA UpdatesTyped ==
  ASSUME Typed, NEW p \in Editors, Updates(p)
  PROVE  Typed'
<1>0. p \in Procs /\ TypeOK /\ Placed /\ PlacedAt(p)
  BY DEF Typed, Placed, Procs, Native
<1>1. pc[p] = "store"
  BY DEF Updates
<1>2. /\ seen[p] \in Stores /\ about[p] \in Requests /\ clock[p] \in Times
      /\ HasLoaded(p)
  BY <1>0, <1>1 DEF PlacedAt
<1>3. about[p].id \in Ids /\ about[p].cron \in Crons
  BY <1>2, RequestFields
<1>4. gen \in [Ids -> Nat] /\ decided \subseteq Ids /\ rewound \subseteq Jobs
  BY <1>0 DEF TypeOK
<1>5. seen[p][about[p].id] # NoEntry
  BY <1>2 DEF Updates, HasLoaded
<1>6. store' \in Stores
  BY <1>2, <1>3, <1>5, EditedStore DEF Updates, Writes
<1> QED
  BY <1>4, <1>6, AcknowledgedTyped DEF Updates

\* A refused write.
LEMMA MismatchesTyped ==
  ASSUME Typed, NEW p \in Editors, Mismatches(p)
  PROVE  Typed'
<1>0. p \in Procs /\ TypeOK /\ Placed /\ PlacedAt(p)
  BY DEF Typed, Placed, Procs, Native
<1>1. /\ tries' = [tries EXCEPT ![p] = @ + 1] /\ seen' = [seen EXCEPT ![p] = NoEntry]
      /\ UNCHANGED <<now, store, ledger, lost, work, history>> /\ pc[p] = "store"
  BY DEF Mismatches
<1>2. tries' \in [Procs -> Nat] /\ seen' \in [Procs -> Stores \cup {NoEntry}]
      /\ \A q \in Procs \ {p} : seen'[q] = seen[q]
  BY <1>0, <1>1 DEF TypeOK
<1>3. p \notin Native
  BY ScheduleAssumption
<1>4. CASE tries[p] + 1 < MaxTries
  <2>1. pc' = [pc EXCEPT ![p] = "load"] /\ UNCHANGED <<sweeping, clock, about>>
    BY <1>4 DEF Mismatches
  <2>2. PlacedAt(p)'
    BY <1>0, <1>1, <1>3, <2>1 DEF PlacedAt, TypeOK
  <2>3. Placed'
    BY <1>0, <1>1, <1>2, <2>1, <2>2, OthersPlaced DEF TypeOK
  <2> QED
    BY <1>0, <1>1, <1>2, <2>1, <2>3 DEF Typed, TypeOK, history, Jobs
<1>5. CASE ~(tries[p] + 1 < MaxTries)
  <2>1. Ends(p)
    BY <1>5 DEF Mismatches
  <2>2. PlacedAt(p)'
    BY <1>0, <1>1, <1>3, <2>1, EndsTyped DEF PlacedAt
  <2>3. Placed'
    BY <1>0, <1>1, <1>2, <2>1, <2>2, EndsTyped, OthersPlaced
  <2> QED
    BY <1>0, <1>1, <1>2, <2>1, <2>3, EndsTyped DEF Typed, TypeOK, history, Jobs, PCs
<1> QED
  BY <1>4, <1>5

\* The clock.
LEMMA TicksTyped == Typed /\ Ticks => Typed'
<1> SUFFICES ASSUME Typed, Ticks PROVE Typed'
  OBVIOUS
<1>1. now' \in Times
  BY ScheduleAssumption DEF Typed, TypeOK, Ticks, Times
<1>2. UNCHANGED <<store, ledger, lost, sweeping, procVars, history>>
  BY DEF Ticks
<1>3. Placed'
  BY <1>2 DEF Typed, Placed, PlacedAt, HasLoaded, procVars
<1> QED
  BY <1>1, <1>2, <1>3 DEF Typed, TypeOK, procVars, history, Jobs

\* Every step keeps the types.
LEMMA NextTyped == Typed /\ [Next]_vars => Typed'
<1> SUFFICES ASSUME Typed, [Next]_vars PROVE Typed'
  OBVIOUS
<1>1. ASSUME NEW p \in Sweepers, Sweep(p) PROVE Typed'
  <2>1. CASE Starts(p, Nobody, "lock")
    BY <2>1, StartsTyped DEF Procs, Native
  <2> QED
    BY <1>1, <2>1, LocksTyped, ClaimsTyped, FiresTyped, RecordsTyped DEF Sweep, Native
<1>2. ASSUME NEW p \in Runners, RunOne(p) PROVE Typed'
  <2>1. ASSUME NEW i \in Ids, Starts(p, Run(i), "one") PROVE Typed'
    BY <2>1, StartsTyped DEF Procs, Native
  <2> QED
    BY <1>2, <2>1, ClaimsOneTyped, FiresTyped, RecordsTyped DEF RunOne, Native
<1>3. ASSUME NEW p \in Editors, Edit(p) PROVE Typed'
  <2>1. ASSUME NEW q \in Requests, Starts(p, q, "load") PROVE Typed'
    BY <2>1, StartsTyped DEF Procs
  <2> QED
    BY <1>3, <2>1, LoadsTyped, AddsTyped, RemovesTyped, SetsEnabledTyped, UpdatesTyped, MismatchesTyped
    DEF Edit
<1>4. CASE UNCHANGED vars
  BY <1>4 DEF vars, procVars, history, Typed, TypeOK, Placed, PlacedAt, HasLoaded, Jobs
<1> QED
  BY <1>1, <1>2, <1>3, <1>4, DiesTyped, SaveFailsTyped, TicksTyped, ScheduleAssumption DEF Next

\* The initial state is typed.
LEMMA InitTyped == Init => Typed
<1> SUFFICES ASSUME Init PROVE Typed
  OBVIOUS
<1>1. 1 \in Times /\ 0 \in 0..MaxNow
  BY ScheduleAssumption DEF Times
<1>2. store \in Stores
  <2>1. PICK c \in [Given -> Crons] :
          store = [i \in Ids |-> IF i \in Given
                   THEN [cron |-> c[i], enabled |-> i \in decided, from |-> 1, status |-> "none"]
                   ELSE NoEntry]
    BY DEF Init
  <2>2. \A i \in Given : [cron |-> c[i], enabled |-> i \in decided, from |-> 1, status |-> "none"] \in Entry
    BY <1>1 DEF Entry
  <2> QED
    BY <2>1, <2>2 DEF Stores
<1>3. /\ pc \in [Procs -> PCs] /\ clock \in [Procs -> 0..MaxNow]
      /\ tries \in [Procs -> Nat] /\ work \in [Procs -> SUBSET Work] /\ gen \in [Ids -> Nat]
      /\ seen \in [Procs -> Stores \cup {NoEntry}]
  BY <1>1 DEF Init, PCs
<1>4. about \in [Procs -> Requests \cup {Run(i) : i \in Ids} \cup {Nobody}]
  BY DEF Init
<1>5. now \in Times /\ ledger \subseteq Jobs /\ lost \subseteq Jobs /\ sweeping \in Sweepers \cup {Nobody} /\ decided \subseteq Ids
  BY <1>1, ScheduleAssumption DEF Init
<1>6. claims \subseteq Jobs \X Nat /\ again \subseteq Jobs /\ rewound \subseteq Jobs /\ orphans \subseteq Jobs
  BY DEF Init
<1>7. \A p \in Procs : pc[p] = "idle" /\ work[p] = {}
  BY DEF Init
<1>8. Placed
  BY <1>7 DEF Placed, PlacedAt
<1> QED
  BY <1>2, <1>3, <1>4, <1>5, <1>6, <1>8 DEF Typed, TypeOK, PCs

\* The store, the ledger and every process keep their types in every run.
THEOREM TypeCorrect == Spec => []TypeOK
<1>1. Spec => []Typed
  BY InitTyped, NextTyped, PTL DEF Spec
<1>2. Typed => TypeOK
  BY DEF Typed
<1> QED
  BY <1>1, <1>2, PTL

-----------------------------------------------------------------------------
(* What the steps do to the list of entries. *)

\* Phase one re-dates the due entries and no others.
LEMMA ClaimsEffect ==
  ASSUME Typed, NEW p \in Sweepers, Claims(p)
  PROVE  /\ UNCHANGED <<ledger, lost, gen, decided, rewound, orphans>>
         /\ clock[p] \in Nat /\ work[p] = {} /\ Listed' = Listed
         /\ \A i \in DueIds(clock[p]) : /\ i \in Listed /\ store'[i].from = clock[p]
                                        /\ store'[i].enabled = store[i].enabled
                                        /\ store'[i].status = "running"
         /\ \A i \in Ids \ DueIds(clock[p]) : store'[i] = store[i]
<1>0. TypeOK /\ PlacedAt(p) /\ p \in Procs /\ p \in Native
  BY DEF Typed, Placed, Procs, Native
<1>1. clock[p] \in Times /\ work[p] = {}
  BY <1>0 DEF PlacedAt, Claims
<1>2. UNCHANGED <<ledger, lost, gen, decided, rewound, orphans>> /\ clock[p] \in Nat
  BY <1>1 DEF Claims, Times
<1>3. store' = [i \in Ids |-> IF i \in DueIds(clock[p]) THEN Claimed(store[i], clock[p]) ELSE store[i]]
  BY DEF Claims
<1>4. \A i \in DueIds(clock[p]) : i \in Listed /\ i \in Ids /\ store[i] \in Entry
  BY <1>0 DEF DueIds, Listed, TypeOK, Stores
<1>5. \A i \in DueIds(clock[p]) : Claimed(store[i], clock[p]) \in Entry
  BY <1>1, <1>4, ClaimedEntry
<1>6. \A i \in DueIds(clock[p]) : /\ store'[i].from = clock[p]
                                  /\ store'[i].enabled = store[i].enabled
                                  /\ store'[i].status = "running"
  BY <1>3, <1>4 DEF Claimed, Entry
<1>7. \A i \in Ids \ DueIds(clock[p]) : store'[i] = store[i]
  BY <1>3
<1>8. \A i \in DueIds(clock[p]) : store'[i] # NoEntry
  BY <1>3, <1>4, <1>5, ScheduleAssumption
<1>9. Listed' = Listed
  BY <1>4, <1>7, <1>8 DEF Listed
<1> QED
  BY <1>1, <1>2, <1>4, <1>6, <1>7, <1>9

\* A manual run re-dates its entry.
LEMMA ClaimsOneEffect ==
  ASSUME Typed, NEW p \in Runners, ClaimsOne(p)
  PROVE  /\ UNCHANGED <<ledger, lost, gen, decided, claims, again, orphans>>
         /\ clock[p] \in Nat /\ work[p] = {} /\ Listed' = Listed
         /\ \/ UNCHANGED <<store, rewound, work>>
            \/ \E i \in Listed :
                 /\ store'[i].from = clock[p] /\ store'[i].enabled = store[i].enabled
                 /\ store'[i].status = "running"
                 /\ \A j \in Ids \ {i} : store'[j] = store[j]
                 /\ rewound' = rewound \cup Rewinds(i, clock[p])
                 /\ work' = [work EXCEPT ![p] = {[id |-> i, gen |-> gen[i], ran |-> FALSE]}]
<1> DEFINE i == about[p].id
<1>0. TypeOK /\ PlacedAt(p) /\ p \in Procs /\ p \in Native
  BY DEF Typed, Placed, Procs, Native
<1>1. clock[p] \in Times /\ i \in Ids /\ work[p] = {}
  BY <1>0 DEF PlacedAt, ClaimsOne
<1>2. UNCHANGED <<ledger, lost, gen, decided, claims, again, orphans>> /\ clock[p] \in Nat
  BY <1>1 DEF ClaimsOne, Times
<1>3. CASE i \notin Listed
  <2>1. UNCHANGED <<store, rewound, work>>
    BY <1>3 DEF ClaimsOne
  <2> QED
    BY <1>1, <1>2, <2>1 DEF Listed
<1>4. CASE i \in Listed
  <2>1. /\ store' = [store EXCEPT ![i] = Claimed(@, clock[p])]
        /\ rewound' = rewound \cup Rewinds(i, clock[p])
        /\ work' = [work EXCEPT ![p] = {[id |-> i, gen |-> gen[i], ran |-> FALSE]}]
    BY <1>4 DEF ClaimsOne
  <2> HIDE DEF i
  <2>2. store[i] \in Entry /\ store \in Stores
    BY <1>0, <1>4 DEF Listed, TypeOK, Stores
  <2>3. /\ store'[i] = Claimed(store[i], clock[p])
        /\ \A j \in Ids \ {i} : store'[j] = store[j]
    BY <1>1, <2>1, <2>2 DEF Stores
  <2>4. store'[i] # NoEntry
    BY <1>1, <2>2, <2>3, ClaimedEntry, ScheduleAssumption
  <2>5. /\ store'[i].from = clock[p] /\ store'[i].enabled = store[i].enabled
        /\ store'[i].status = "running"
    BY <2>2, <2>3 DEF Claimed, Entry
  <2>6. Listed' = Listed
    BY <1>1, <1>4, <2>3, <2>4 DEF Listed
  <2> QED
    BY <1>1, <1>2, <1>4, <2>1, <2>3, <2>5, <2>6
<1> QED
  BY <1>3, <1>4

\* Phase two changes the status of what it ran.
LEMMA RecordsEffect ==
  ASSUME Typed, NEW p \in Native, Records(p)
  PROVE  /\ UNCHANGED <<ledger, lost, history>> /\ Listed' = Listed
         /\ work' = [work EXCEPT ![p] = {}] /\ pc[p] = "record"
         /\ \A i \in Listed : /\ store'[i].from = store[i].from /\ store'[i].enabled = store[i].enabled
                              /\ IF \E c \in work[p] : c.id = i
                                 THEN store'[i].status = "ended" ELSE store'[i] = store[i]
<1> DEFINE ids == {c.id : c \in work[p]}
<1>0. store \in Stores
  BY DEF Typed, TypeOK
<1>1. store' = [i \in Ids |-> IF i \in ids \cap Listed THEN [store[i] EXCEPT !.status = "ended"] ELSE store[i]]
  BY DEF Records, Recorded
<1>2. UNCHANGED <<ledger, lost, history>> /\ work' = [work EXCEPT ![p] = {}] /\ pc[p] = "record"
  BY DEF Records
<1>3. \A i : i \in ids <=> \E c \in work[p] : c.id = i
  OBVIOUS
<1> HIDE DEF ids
<1>4. \A i \in Listed : i \in Ids /\ store[i] \in Entry
  BY <1>0 DEF Listed, Stores
<1>5. ASSUME NEW i \in ids \cap Listed
      PROVE  /\ i \in Ids /\ store'[i] # NoEntry
             /\ store'[i].from = store[i].from /\ store'[i].enabled = store[i].enabled
             /\ store'[i].status = "ended"
  <2> DEFINE e == [store[i] EXCEPT !.status = "ended"]
  <2>1. e \in Entry /\ e.from = store[i].from /\ e.enabled = store[i].enabled /\ e.status = "ended"
    BY <1>4 DEF Entry
  <2>2. i \in Ids /\ store'[i] = e
    BY <1>1, <1>4
  <2> HIDE DEF e
  <2> QED
    BY <2>1, <2>2, ScheduleAssumption
<1>6. \A i \in Ids : i \notin ids \cap Listed => store'[i] = store[i]
  BY <1>1
<1>7. Listed' = Listed
  BY <1>4, <1>5, <1>6 DEF Listed
<1>8. ASSUME NEW i \in Listed
      PROVE  /\ store'[i].from = store[i].from /\ store'[i].enabled = store[i].enabled
             /\ IF \E c \in work[p] : c.id = i
                THEN store'[i].status = "ended" ELSE store'[i] = store[i]
  BY <1>3, <1>4, <1>5, <1>6
<1> QED
  BY <1>2, <1>7, <1>8

Edits(p) == Adds(p) \/ Removes(p) \/ SetsEnabled(p) \/ Updates(p)

\* An edit changes the entry it is about; only a resumption re-dates it, only
\* an add gives an id, and a new entry was never run.
LEMMA EditEffect ==
  ASSUME Typed, NEW p \in Editors, Edits(p)
  PROVE  /\ UNCHANGED <<ledger, lost, work, claims, again, orphans>>
         /\ \E i \in Ids :
              /\ \A j \in Ids \ {i} : store'[j] = store[j]
              /\ \/ /\ gen' = [gen EXCEPT ![i] = @ + 1] /\ decided' = decided \cup {i}
                    /\ rewound' = rewound /\ store'[i] # NoEntry
                    /\ store'[i].enabled = TRUE /\ store'[i].status = "none"
                 \/ /\ UNCHANGED <<gen, decided, rewound>> /\ store'[i] = NoEntry
                 \/ /\ gen' = gen /\ i \in Listed /\ store'[i] # NoEntry
                    /\ store'[i].status = store[i].status
                    /\ store'[i].enabled \in BOOLEAN
                    /\ decided' = IF store'[i].enabled THEN decided \cup {i} ELSE decided \ {i}
                    /\ \/ store'[i].from = store[i].from /\ rewound \subseteq rewound'
                       \/ /\ store'[i].from = clock[p] /\ clock[p] \in Nat
                          /\ rewound' = rewound \cup Rewinds(i, clock[p])
                 \/ /\ UNCHANGED <<gen, decided, rewound>> /\ i \in Listed /\ store'[i] # NoEntry
                    /\ store'[i].status = store[i].status /\ store'[i].from = store[i].from
                    /\ store'[i].enabled = store[i].enabled
<1>0. TypeOK /\ PlacedAt(p) /\ store = seen[p] /\ pc[p] = "store"
  BY DEF Typed, Placed, Procs, Edits, Adds, Removes, SetsEnabled, Updates, Writes
<1>1. /\ store \in Stores /\ clock[p] \in Times /\ about[p] \in Requests
      /\ HasLoaded(p) /\ clock[p] \in Nat
  BY <1>0 DEF TypeOK, PlacedAt, Times
<1>2. about[p].id \in Ids /\ about[p].cron \in Crons
  BY <1>1, RequestFields
<1>3. UNCHANGED <<ledger, lost, work, claims, again, orphans>>
  BY DEF Edits, Adds, Removes, SetsEnabled, Updates, Acknowledged
<1>4. CASE Adds(p)
  <2> DEFINE i == NextId(seen[p])
             e == [cron |-> about[p].cron, enabled |-> TRUE, from |-> clock[p], status |-> "none"]
  <2>1. /\ i \in Ids /\ store' = [store EXCEPT ![i] = e] /\ gen' = [gen EXCEPT ![i] = @ + 1]
        /\ decided' = decided \cup {i} /\ rewound' = rewound
    BY <1>0, <1>4 DEF Adds, Writes
  <2>2. e \in Entry /\ e.enabled = TRUE /\ e.status = "none"
    BY <1>1, <1>2 DEF Entry
  <2> HIDE DEF i, e
  <2>3. store'[i] = e /\ \A j \in Ids \ {i} : store'[j] = store[j]
    BY <1>1, <2>1 DEF Stores
  <2> QED
    BY <1>3, <2>1, <2>2, <2>3, ScheduleAssumption
<1>5. CASE Removes(p)
  <2>1. store' = [store EXCEPT ![about[p].id] = NoEntry] /\ UNCHANGED <<gen, decided, rewound>>
    BY <1>0, <1>5 DEF Removes, Writes
  <2>2. store'[about[p].id] = NoEntry /\ \A j \in Ids \ {about[p].id} : store'[j] = store[j]
    BY <1>1, <1>2, <2>1 DEF Stores
  <2> QED
    BY <1>2, <1>3, <2>1, <2>2
<1>6. CASE SetsEnabled(p)
  <2> DEFINE i == about[p].id
             on == about[p].op = "enable"
             resumes == on /\ ~store[i].enabled
             t == IF resumes THEN clock[p] ELSE store[i].from
             e == [[store[i] EXCEPT !.enabled = on] EXCEPT !.from = t]
  <2>1. i \in Listed /\ store[i] \in Entry
    BY <1>0, <1>1, <1>2, <1>6 DEF SetsEnabled, HasLoaded, Listed, Stores
  <2>2. /\ store' = [store EXCEPT ![i].enabled = on, ![i].from = t]
        /\ gen' = gen /\ decided' = IF on THEN decided \cup {i} ELSE decided \ {i}
        /\ rewound' = IF resumes THEN rewound \cup Rewinds(i, clock[p]) ELSE rewound
    BY <1>0, <1>1, <1>2, <1>6 DEF SetsEnabled, Writes, Stores
  <2>3. on \in BOOLEAN /\ t \in Times
    BY <1>1, <2>1 DEF Entry
  <2>4. resumes => t = clock[p]
    OBVIOUS
  <2>5. ~resumes => t = store[i].from
    OBVIOUS
  <2> HIDE DEF t, on, resumes
  <2>6. e \in Entry /\ e.enabled = on /\ e.from = t /\ e.status = store[i].status
    BY <2>1, <2>3 DEF Entry
  <2>7. store'[i] = e /\ \A j \in Ids \ {i} : store'[j] = store[j]
    BY <1>1, <1>2, <2>2 DEF Stores
  <2> HIDE DEF i, e
  <2>8. store'[i].enabled = on /\ store'[i].from = t /\ store'[i].status = store[i].status /\ store'[i] # NoEntry
    BY <2>6, <2>7, ScheduleAssumption
  <2>9. \/ store'[i].from = store[i].from /\ rewound \subseteq rewound'
        \/ /\ store'[i].from = clock[p] /\ clock[p] \in Nat
           /\ rewound' = rewound \cup Rewinds(i, clock[p])
    BY <1>1, <2>2, <2>4, <2>5, <2>8
  <2>10. i \in Ids
    BY <1>2 DEF i
  <2> QED
    BY <1>3, <2>1, <2>2, <2>3, <2>7, <2>8, <2>9, <2>10
<1>7. CASE Updates(p)
  <2> DEFINE i == about[p].id
             e == [store[i] EXCEPT !.cron = about[p].cron]
  <2>1. i \in Listed /\ store[i] \in Entry
    BY <1>0, <1>1, <1>2, <1>7 DEF Updates, HasLoaded, Listed, Stores
  <2>2. store' = [store EXCEPT ![i] = e] /\ UNCHANGED <<gen, decided, rewound>>
    BY <1>0, <1>7 DEF Updates, Writes
  <2>3. e \in Entry /\ e.status = store[i].status /\ e.from = store[i].from /\ e.enabled = store[i].enabled
    BY <1>2, <2>1 DEF Entry
  <2> HIDE DEF e
  <2>4. store'[i] = e /\ \A j \in Ids \ {i} : store'[j] = store[j]
    BY <1>1, <1>2, <2>2 DEF Stores
  <2> QED
    BY <1>2, <1>3, <2>1, <2>2, <2>3, <2>4, ScheduleAssumption
<1> QED
  BY <1>4, <1>5, <1>6, <1>7 DEF Edits


-----------------------------------------------------------------------------
(* The steps by what they touch. *)

NoneRecords == \A q \in Native : pc'[q] = "record" => pc[q] = "record"
Quiet == UNCHANGED <<store, ledger, lost, work, gen, decided, claims, again, rewound, orphans>>

\* A call that ends, and any other new place but phase two.
LEMMA EndsQuietly ==
  ASSUME Typed, NEW p \in Procs, Ends(p)
  PROVE  NoneRecords
BY DEF Typed, TypeOK, Ends, NoneRecords, Native, Procs

LEMMA MovesQuietly ==
  ASSUME Typed, NEW p \in Procs, NEW l, l # "record", pc' = [pc EXCEPT ![p] = l]
  PROVE  NoneRecords
BY DEF Typed, TypeOK, NoneRecords, Native, Procs

\* Every step is one of six kinds.
LEMMA Cases ==
  ASSUME Typed, [Next]_vars
  PROVE  \/ Quiet /\ NoneRecords
         \/ \E p \in Sweepers : Claims(p)
         \/ \E p \in Runners : ClaimsOne(p)
         \/ \E p \in Native : Fires(p) \/ Records(p)
         \/ \E p \in Native : CutsShort(p) /\ NoneRecords
         \/ \E p \in Editors : Edits(p)
<1>1. ASSUME NEW p \in Procs, NEW a, NEW l \in {"lock", "one", "load"}, Starts(p, a, l)
      PROVE  Quiet /\ NoneRecords
  <2>1. pc' = [pc EXCEPT ![p] = l] /\ l # "record"
    BY <1>1 DEF Starts
  <2> QED
    BY <1>1, <2>1, MovesQuietly DEF Starts, Quiet, history
<1>2. ASSUME NEW p \in Sweepers, Locks(p) PROVE Quiet /\ NoneRecords
  <2>1. p \in Procs
    BY DEF Procs, Native
  <2>2. Ends(p) \/ pc' = [pc EXCEPT ![p] = "claim"]
    BY <1>2 DEF Locks
  <2> QED
    BY <1>2, <2>1, <2>2, EndsQuietly, MovesQuietly DEF Locks, Quiet, history
<1>3. ASSUME NEW p \in Editors, Loads(p) PROVE Quiet /\ NoneRecords
  <2>1. p \in Procs
    BY DEF Procs
  <2>2. Ends(p) \/ pc' = [pc EXCEPT ![p] = "store"]
    BY <1>3 DEF Loads
  <2> QED
    BY <1>3, <2>1, <2>2, EndsQuietly, MovesQuietly DEF Loads, Quiet, history
<1>4. ASSUME NEW p \in Editors, Mismatches(p) PROVE Quiet /\ NoneRecords
  <2>1. p \in Procs
    BY DEF Procs
  <2>2. Ends(p) \/ pc' = [pc EXCEPT ![p] = "load"]
    BY <1>4 DEF Mismatches
  <2> QED
    BY <1>4, <2>1, <2>2, EndsQuietly, MovesQuietly DEF Mismatches, Quiet, history
<1>5. ASSUME NEW p \in Killable, Dies(p) PROVE p \in Native /\ CutsShort(p) /\ NoneRecords
  <2>1. p \in Native /\ p \in Procs
    BY ScheduleAssumption DEF Procs
  <2>2. CutsShort(p) /\ pc' = [pc EXCEPT ![p] = "dead"]
    BY <1>5 DEF Dies
  <2> QED
    BY <2>1, <2>2, MovesQuietly
<1>6. ASSUME NEW p \in Failing, SaveFails(p) PROVE p \in Native /\ CutsShort(p) /\ NoneRecords
  <2>1. p \in Native /\ p \in Procs
    BY ScheduleAssumption DEF Procs
  <2>2. CutsShort(p) /\ Ends(p)
    BY <1>6 DEF SaveFails
  <2> QED
    BY <2>1, <2>2, EndsQuietly
<1>7. Ticks \/ UNCHANGED vars => Quiet /\ NoneRecords
  BY DEF Ticks, vars, procVars, history, Quiet, NoneRecords
<1>8. CASE \E s \in Sweepers : Sweep(s)
  BY <1>1, <1>2, <1>8 DEF Sweep, Native, Procs
<1>9. CASE \E r \in Runners : RunOne(r)
  BY <1>1, <1>9 DEF RunOne, Native, Procs
<1>10. CASE \E p \in Editors : Edit(p)
  BY <1>1, <1>3, <1>4, <1>10 DEF Edit, Edits, Procs
<1> QED
  BY <1>5, <1>6, <1>7, <1>8, <1>9, <1>10 DEF Next

-----------------------------------------------------------------------------
(* A claimed window is not fired again. *)

\* Every claimed window is of a job that was given, and behind its entry.
Spent ==
  /\ again \subseteq rewound
  /\ \A c \in claims : c[1][2] <= gen[c[1][1]]
  /\ \A c \in claims, i \in Listed :
       c[1] = Job(i) /\ Job(i) \notin rewound => c[2] <= store[i].from

\* What a claim is made of.
LEMMA ClaimParts ==
  ASSUME TypeOK, NEW c \in claims
  PROVE  c[1] = <<c[1][1], c[1][2]>> /\ c[1][1] \in Ids /\ c[1][2] \in Nat /\ c[2] \in Nat
BY DEF TypeOK, Jobs

\* A listed entry counts from a time.
LEMMA ListedEntry ==
  ASSUME TypeOK, NEW i \in Listed
  PROVE  /\ i \in Ids /\ store[i] \in Entry /\ store[i].from \in Nat /\ gen[i] \in Nat
         /\ store[i].cron \subseteq Nat
<1>1. i \in Ids /\ store[i] \in Entry
  BY DEF Listed, TypeOK, Stores
<1>2. store[i].from \in Nat /\ store[i].cron \in Crons
  BY <1>1 DEF Entry, Times
<1> QED
  BY <1>1, <1>2, ScheduleAssumption DEF TypeOK

\* A due entry's window is after the time it counts from and not after the sweep's.
LEMMA DueWindow ==
  ASSUME TypeOK, NEW t \in Nat, NEW i \in DueIds(t)
  PROVE  /\ i \in Listed /\ store[i].from < t
         /\ \A w \in FirstDue(store[i], t) : w \in Nat /\ store[i].from < w /\ w <= t
<1>1. i \in Listed /\ WindowsDue(store[i], t) # {}
  BY DEF DueIds, IsDue
<1>2. \A w \in WindowsDue(store[i], t) : w \in Nat /\ store[i].from < w /\ w <= t
  BY <1>1, ListedEntry DEF WindowsDue
<1>3. FirstDue(store[i], t) \subseteq WindowsDue(store[i], t)
  BY DEF FirstDue
<1>4. store[i].from \in Nat
  BY <1>1, ListedEntry
<1>5. PICK w \in WindowsDue(store[i], t) : TRUE
  BY <1>1
<1>6. w \in Nat /\ store[i].from < w /\ w <= t
  BY <1>2, <1>5
<1>7. store[i].from < t
  BY <1>4, <1>6
<1> QED
  BY <1>1, <1>2, <1>3, <1>7

\* Phase one: the windows it claims were not claimed, and are behind afterwards.
LEMMA ClaimsSpend ==
  ASSUME Typed, Spent, NEW p \in Sweepers, Claims(p)
  PROVE  Spent'
<1> DEFINE t == clock[p]
           due == DueIds(t)
           won == UNION {{Job(i)} \X FirstDue(store[i], t) : i \in due}
<1>0. TypeOK
  BY DEF Typed
<1>1. claims' = claims \cup won /\ again' = again \cup {c[1] : c \in won \cap claims}
  BY DEF Claims
<1>2. /\ gen' = gen /\ rewound' = rewound /\ t \in Nat /\ Listed' = Listed
      /\ \A i \in due : i \in Listed /\ store'[i].from = t
      /\ \A i \in Ids \ due : store'[i] = store[i]
  BY ClaimsEffect
<1>3. ASSUME NEW c \in won
      PROVE  \E i \in due : c[1] = Job(i) /\ c[2] \in FirstDue(store[i], t)
  OBVIOUS
<1>4. \A i \in due : /\ i \in Listed /\ store[i].from < t /\ store[i].from \in Nat
                     /\ \A w \in FirstDue(store[i], t) : w \in Nat /\ store[i].from < w /\ w <= t
  BY <1>0, <1>2, DueWindow, ListedEntry
<1> HIDE DEF t, due, won
<1>5. ASSUME NEW c \in won \cap claims PROVE c[1] \in rewound
  <2>1. PICK i \in due : c[1] = Job(i) /\ c[2] \in FirstDue(store[i], t)
    BY <1>3
  <2>2. i \in Listed /\ store[i].from \in Nat /\ c[2] \in Nat /\ store[i].from < c[2]
    BY <1>4, <2>1
  <2>3. ~(c[2] <= store[i].from)
    BY <2>2
  <2> QED
    BY <2>1, <2>2, <2>3 DEF Spent
<1>6. again' \subseteq rewound'
  BY <1>1, <1>2, <1>5 DEF Spent
<1>7. ASSUME NEW c \in claims' PROVE c[1][2] <= gen'[c[1][1]]
  <2>1. CASE c \in claims
    BY <1>2, <2>1 DEF Spent
  <2>2. CASE c \in won
    <3>1. PICK i \in due : c[1] = Job(i)
      BY <1>3, <2>2
    <3>2. gen[i] \in Nat
      BY <1>0, <1>4, <3>1, ListedEntry
    <3> QED
      BY <1>2, <3>1, <3>2 DEF Job
  <2> QED
    BY <1>1, <2>1, <2>2
<1>8. ASSUME NEW c \in claims', NEW i \in Listed', c[1] = Job(i)', Job(i)' \notin rewound'
      PROVE  c[2] <= store'[i].from
  <2>0. c[1] = Job(i) /\ Job(i) \notin rewound /\ i \in Listed /\ i \in Ids
    BY <1>2, <1>8 DEF Job, Listed
  <2>1. CASE c \in claims
    <3>1. c[2] <= store[i].from /\ c[2] \in Nat /\ store[i].from \in Nat
      BY <1>0, <2>0, <2>1, ClaimParts, ListedEntry DEF Spent
    <3>2. CASE i \in due
      <4>1. store'[i].from = t /\ store[i].from < t
        BY <1>2, <1>4, <3>2
      <4> QED
        BY <1>2, <3>1, <4>1
    <3>3. CASE i \notin due
      <4>1. store'[i] = store[i]
        BY <1>2, <2>0, <3>3
      <4> QED
        BY <3>1, <4>1
    <3> QED
      BY <3>2, <3>3
  <2>2. CASE c \in won
    <3>1. PICK j \in due : c[1] = Job(j) /\ c[2] \in FirstDue(store[j], t)
      BY <1>3, <2>2
    <3>2. i = j
      BY <2>0, <3>1 DEF Job
    <3> QED
      BY <1>2, <1>4, <3>1, <3>2
  <2> QED
    BY <1>1, <2>1, <2>2
<1> QED
  BY <1>6, <1>7, <1>8 DEF Spent

\* An entry that is dated anew is dated forward, or its job is in rewound.
LEMMA RedatedSpend ==
  ASSUME Typed, Spent, NEW i \in Listed, NEW t \in Nat,
         UNCHANGED <<claims, again, gen>>, rewound' = rewound \cup Rewinds(i, t),
         store'[i].from = t, \A j \in Ids \ {i} : store'[j] = store[j]
  PROVE  Spent'
<1>0. TypeOK
  BY DEF Typed
<1>1. again' \subseteq rewound' /\ \A c \in claims' : c[1][2] <= gen'[c[1][1]]
  BY DEF Spent
<1>2. ASSUME NEW c \in claims', NEW j \in Listed', c[1] = Job(j)', Job(j)' \notin rewound'
      PROVE  c[2] <= store'[j].from
  <2>0. c \in claims /\ c[1] = Job(j) /\ Job(j) \notin rewound /\ j \in Ids
    BY <1>2 DEF Job, Listed
  <2>1. CASE j = i
    <3>1. c[2] <= store[i].from /\ c[2] \in Nat /\ store[i].from \in Nat
      BY <1>0, <2>0, <2>1, ClaimParts, ListedEntry DEF Spent
    <3>2. ~(t < store[i].from)
      BY <1>2, <2>1 DEF Rewinds, Job
    <3> QED
      BY <2>1, <3>1, <3>2
  <2>2. CASE j # i
    <3>1. store'[j] = store[j] /\ j \in Listed
      BY <1>2, <2>0, <2>2 DEF Listed
    <3> QED
      BY <2>0, <3>1 DEF Spent
  <2> QED
    BY <2>1, <2>2
<1> QED
  BY <1>1, <1>2 DEF Spent

\* An entry that keeps its date keeps its windows behind.
LEMMA KeptSpend ==
  ASSUME Typed, Spent, UNCHANGED <<claims, again, gen>>, rewound \subseteq rewound',
         \A j \in Listed' : j \in Listed /\ store'[j].from = store[j].from
  PROVE  Spent'
<1>1. again' \subseteq rewound' /\ \A c \in claims' : c[1][2] <= gen'[c[1][1]]
  BY DEF Spent
<1>2. ASSUME NEW c \in claims', NEW j \in Listed', c[1] = Job(j)', Job(j)' \notin rewound'
      PROVE  c[2] <= store'[j].from
  <2>1. c \in claims /\ c[1] = Job(j) /\ Job(j) \notin rewound
    BY <1>2 DEF Job
  <2>2. j \in Listed /\ store'[j].from = store[j].from
    OBVIOUS
  <2> QED
    BY <2>1, <2>2 DEF Spent
<1> QED
  BY <1>1, <1>2 DEF Spent

\* An id given again is another job.
LEMMA GivenSpend ==
  ASSUME Typed, Spent, NEW i \in Ids, UNCHANGED <<claims, again, rewound>>,
         gen' = [gen EXCEPT ![i] = @ + 1], \A j \in Ids \ {i} : store'[j] = store[j]
  PROVE  Spent'
<1>0. TypeOK /\ gen \in [Ids -> Nat]
  BY DEF Typed, TypeOK
<1>1. again' \subseteq rewound'
  BY DEF Spent
<1>2. ASSUME NEW c \in claims' PROVE c[1][2] <= gen'[c[1][1]]
  <2>1. c[1][1] \in Ids /\ c[1][2] \in Nat /\ c[1][2] <= gen[c[1][1]]
    BY <1>0, ClaimParts DEF Spent
  <2> QED
    BY <1>0, <2>1
<1>3. ASSUME NEW c \in claims', NEW j \in Listed', c[1] = Job(j)', Job(j)' \notin rewound'
      PROVE  c[2] <= store'[j].from
  <2>0. j \in Ids /\ c \in claims /\ c[1] = <<j, gen'[j]>>
    BY <1>3 DEF Listed, Job
  <2>1. c[1][1] = j /\ c[1][2] = gen'[j] /\ c[1][2] <= gen[j]
    BY <2>0 DEF Spent
  <2>2. j # i
    BY <1>0, <2>0, <2>1
  <2>3. store'[j] = store[j] /\ gen'[j] = gen[j] /\ j \in Listed
    BY <1>0, <1>3, <2>0, <2>2 DEF Listed
  <2>4. c[1] = Job(j) /\ Job(j) \notin rewound
    BY <1>3, <2>0, <2>3 DEF Job
  <2> QED
    BY <2>0, <2>3, <2>4 DEF Spent
<1> QED
  BY <1>1, <1>2, <1>3 DEF Spent

LEMMA EditsSpend ==
  ASSUME Typed, Spent, NEW p \in Editors, Edits(p)
  PROVE  Spent'
<1>1. UNCHANGED <<claims, again>>
  BY EditEffect
<1>2. PICK i \in Ids :
        /\ \A j \in Ids \ {i} : store'[j] = store[j]
        /\ \/ gen' = [gen EXCEPT ![i] = @ + 1] /\ rewound' = rewound
           \/ UNCHANGED <<gen, rewound>> /\ store'[i] = NoEntry
           \/ /\ gen' = gen /\ i \in Listed
              /\ \/ store'[i].from = store[i].from /\ rewound \subseteq rewound'
                 \/ /\ store'[i].from = clock[p] /\ clock[p] \in Nat
                    /\ rewound' = rewound \cup Rewinds(i, clock[p])
           \/ UNCHANGED <<gen, rewound>> /\ i \in Listed /\ store'[i].from = store[i].from
  BY EditEffect
<1>3. CASE gen' = [gen EXCEPT ![i] = @ + 1] /\ rewound' = rewound
  BY <1>1, <1>2, <1>3, GivenSpend
<1>4. CASE UNCHANGED <<gen, rewound>> /\ store'[i] = NoEntry
  <2>1. \A j \in Listed' : j \in Listed /\ store'[j].from = store[j].from
    BY <1>2, <1>4 DEF Listed
  <2> QED
    BY <1>1, <1>4, <2>1, KeptSpend
<1>5. CASE gen' = gen /\ i \in Listed /\ store'[i].from = store[i].from /\ rewound \subseteq rewound'
  <2>1. \A j \in Listed' : j \in Listed /\ store'[j].from = store[j].from
    BY <1>2, <1>5 DEF Listed
  <2> QED
    BY <1>1, <1>5, <2>1, KeptSpend
<1>6. CASE /\ gen' = gen /\ i \in Listed /\ store'[i].from = clock[p] /\ clock[p] \in Nat
           /\ rewound' = rewound \cup Rewinds(i, clock[p])
  BY <1>1, <1>2, <1>6, RedatedSpend
<1> QED
  BY <1>2, <1>3, <1>4, <1>5, <1>6

\* Every step keeps what is claimed behind.
LEMMA NextSpend == Typed /\ Spent /\ [Next]_vars => Spent'
<1> SUFFICES ASSUME Typed, Spent, [Next]_vars PROVE Spent'
  OBVIOUS
<1>1. CASE Quiet
  BY <1>1 DEF Quiet, Spent, Listed, Job
<1>2. ASSUME NEW p \in Runners, ClaimsOne(p) PROVE Spent'
  <2>1. /\ UNCHANGED <<gen, claims, again>> /\ clock[p] \in Nat
        /\ \/ UNCHANGED <<store, rewound>>
           \/ \E i \in Listed : /\ store'[i].from = clock[p]
                                /\ \A j \in Ids \ {i} : store'[j] = store[j]
                                /\ rewound' = rewound \cup Rewinds(i, clock[p])
    BY <1>2, ClaimsOneEffect
  <2>2. CASE UNCHANGED <<store, rewound>>
    BY <2>1, <2>2 DEF Spent, Listed, Job
  <2> QED
    BY <2>1, <2>2, RedatedSpend
<1>3. ASSUME NEW p \in Native, Fires(p) \/ CutsShort(p) PROVE Spent'
  BY <1>3 DEF Fires, CutsShort, history, Spent, Listed, Job
<1>4. ASSUME NEW p \in Native, Records(p) PROVE Spent'
  <2>1. /\ UNCHANGED <<claims, again, gen, rewound>>
        /\ \A j \in Listed' : j \in Listed /\ store'[j].from = store[j].from
    BY <1>4, RecordsEffect DEF history
  <2> QED
    BY <2>1, KeptSpend
<1> QED
  BY <1>1, <1>2, <1>3, <1>4, Cases, ClaimsSpend, EditsSpend

\* No window of a job is claimed by two sweeps, whatever is killed, edited or
\* run in between, unless a command dated the job back.
THEOREM NeverTwice == Spec => []ClaimedOnce
<1>1. Init => Spent
  BY DEF Init, Spent
<1>2. Spec => [](Typed /\ Spent)
  BY <1>1, InitTyped, NextTyped, NextSpend, PTL DEF Spec
<1>3. Spent => ClaimedOnce
  BY DEF Spent, ClaimedOnce
<1> QED
  BY <1>2, <1>3, PTL

-----------------------------------------------------------------------------
(* An acknowledged decision stands. *)

\* Every step keeps the switches as they were last decided.
LEMMA NextDecided == Typed /\ DecisionSurvives /\ [Next]_vars => DecisionSurvives'
<1> SUFFICES ASSUME Typed, DecisionSurvives, [Next]_vars PROVE DecisionSurvives'
  OBVIOUS
<1>0. ASSUME decided' = decided,
             \A i \in Listed' : i \in Listed /\ store'[i].enabled = store[i].enabled
      PROVE  DecisionSurvives'
  BY <1>0 DEF DecisionSurvives
<1>1. CASE Quiet
  BY <1>1 DEF Quiet, DecisionSurvives, Listed
<1>2. ASSUME NEW p \in Sweepers, Claims(p) PROVE DecisionSurvives'
  <2>1. /\ decided' = decided /\ Listed' = Listed
        /\ \A i \in DueIds(clock[p]) : store'[i].enabled = store[i].enabled
        /\ \A i \in Ids \ DueIds(clock[p]) : store'[i] = store[i]
    BY <1>2, ClaimsEffect
  <2>2. Listed \subseteq Ids
    BY DEF Listed
  <2> QED
    BY <1>0, <2>1, <2>2
<1>3. ASSUME NEW p \in Runners, ClaimsOne(p) PROVE DecisionSurvives'
  <2>1. /\ decided' = decided /\ Listed' = Listed
        /\ \/ store' = store
           \/ \E i \in Listed : /\ store'[i].enabled = store[i].enabled
                                /\ \A j \in Ids \ {i} : store'[j] = store[j]
    BY <1>3, ClaimsOneEffect
  <2>2. Listed \subseteq Ids
    BY DEF Listed
  <2> QED
    BY <1>0, <2>1, <2>2
<1>4. ASSUME NEW p \in Native, Fires(p) \/ CutsShort(p) PROVE DecisionSurvives'
  BY <1>4 DEF Fires, CutsShort, history, DecisionSurvives, Listed
<1>5. ASSUME NEW p \in Native, Records(p) PROVE DecisionSurvives'
  BY <1>0, <1>5, RecordsEffect DEF history
<1>6. ASSUME NEW p \in Editors, Edits(p) PROVE DecisionSurvives'
  <2>1. PICK i \in Ids :
          /\ \A j \in Ids \ {i} : store'[j] = store[j]
          /\ \/ decided' = decided \cup {i} /\ store'[i].enabled = TRUE
             \/ decided' = decided /\ store'[i] = NoEntry
             \/ /\ store'[i].enabled \in BOOLEAN
                /\ decided' = IF store'[i].enabled THEN decided \cup {i} ELSE decided \ {i}
             \/ decided' = decided /\ i \in Listed /\ store'[i].enabled = store[i].enabled
    BY <1>6, EditEffect
  <2>2. \A j \in Ids \ {i} : (j \in Listed' <=> j \in Listed) /\ (j \in decided' <=> j \in decided)
    BY <2>1 DEF Listed
  <2>3. i \in Listed' => (store'[i].enabled <=> i \in decided')
    BY <2>1 DEF Listed, DecisionSurvives
  <2>4. ASSUME NEW j \in Listed' PROVE store'[j].enabled <=> j \in decided'
    BY <2>1, <2>2, <2>3 DEF Listed, DecisionSurvives
  <2> QED
    BY <2>4 DEF DecisionSurvives
<1> QED
  BY <1>1, <1>2, <1>3, <1>4, <1>5, <1>6, Cases

\* No outcome of a run and no other edit takes back an acknowledged enable or
\* disable.
THEOREM DecisionKept == Spec => []DecisionSurvives
<1>1. Init => DecisionSurvives
  <2> SUFFICES ASSUME Init, NEW i \in Listed PROVE store[i].enabled <=> i \in decided
    BY DEF DecisionSurvives
  <2>1. PICK c \in [Given -> Crons] :
          store = [j \in Ids |-> IF j \in Given
                   THEN [cron |-> c[j], enabled |-> j \in decided, from |-> 1, status |-> "none"]
                   ELSE NoEntry]
    BY DEF Init
  <2>2. i \in Ids /\ i \in Given
    BY <2>1 DEF Listed
  <2> QED
    BY <2>1, <2>2
<1> QED
  BY <1>1, InitTyped, NextTyped, NextDecided, PTL DEF Spec

-----------------------------------------------------------------------------
(* What is listed as running, and what is listed with an outcome. *)

\* A process has claimed the job that an id now stands for.
Runs(q, i) == \E c \in work[q] : <<c.id, c.gen>> = Job(i)

\* A claim of a process keeps its job when it has run.
LEMMA FiresEffect ==
  ASSUME Typed, NEW p \in Native, Fires(p)
  PROVE  \E c \in work[p] :
           /\ work' = [work EXCEPT ![p] = (work[p] \ {c}) \cup {[c EXCEPT !.ran = TRUE]}]
           /\ ledger' \cup lost' = ledger \cup lost \cup {<<c.id, c.gen>>}
           /\ [c EXCEPT !.ran = TRUE].id = c.id /\ [c EXCEPT !.ran = TRUE].gen = c.gen
           /\ pc' = [pc EXCEPT ![p] = IF \A d \in work[p] \ {c} : d.ran THEN "record" ELSE "fire"]
           /\ c \in Work
<1>1. PICK c \in work[p] :
        /\ work' = [work EXCEPT ![p] = (work[p] \ {c}) \cup {[c EXCEPT !.ran = TRUE]}]
        /\ ledger' \cup lost' = ledger \cup lost \cup {<<c.id, c.gen>>}
        /\ pc' = [pc EXCEPT ![p] = IF \A d \in work[p] \ {c} : d.ran THEN "record" ELSE "fire"]
  BY DEF Fires, Appends, Keeps, Misses
<1>2. c \in Work
  BY DEF Typed, TypeOK, Procs
<1>3. [c EXCEPT !.ran = TRUE].id = c.id /\ [c EXCEPT !.ran = TRUE].gen = c.gen
  BY <1>2 DEF Work
<1> QED
  BY <1>1, <1>2, <1>3

\* What a process has claimed stays as it is when another fires or records.
LEMMA OthersWork ==
  ASSUME Typed, NEW p \in Native, NEW v, work' = [work EXCEPT ![p] = v]
  PROVE  work'[p] = v /\ \A q \in Native \ {p} : work'[q] = work[q]
BY DEF Typed, TypeOK, Procs

\* A claim leaves its entries running, each with a claim that stands for it.
LEMMA ClaimedRuns ==
  ASSUME Typed, NEW p \in Native, NEW ids \in SUBSET Listed, work[p] = {}, gen' = gen,
         work' = [work EXCEPT ![p] = {[id |-> i, gen |-> gen[i], ran |-> FALSE] : i \in ids}]
  PROVE  /\ \A i \in ids : Runs(p, i)'
         /\ \A i, q : q \in Native /\ Runs(q, i) => Runs(q, i)'
<1>1. ASSUME NEW i \in ids PROVE Runs(p, i)'
  <2> DEFINE c == [id |-> i, gen |-> gen[i], ran |-> FALSE]
  <2>1. c \in work'[p] /\ c.id = i /\ c.gen = gen[i]
    BY OthersWork
  <2> QED
    BY <2>1 DEF Runs, Job
<1>2. ASSUME NEW i, NEW q \in Native, Runs(q, i) PROVE Runs(q, i)'
  <2>1. q # p
    BY <1>2 DEF Runs
  <2>2. work'[q] = work[q]
    BY <2>1, OthersWork
  <2> QED
    BY <1>2, <2>2 DEF Runs, Job
<1> QED
  BY <1>1, <1>2

\* RunningHasARun with Runs.
Running(i) == Job(i) \in orphans \/ \E q \in Native : Runs(q, i)

LEMMA RunningIs == RunningHasARun <=> \A i \in Listed : store[i].status = "running" => Running(i)
BY DEF RunningHasARun, Running, Runs

LEMMA NextRunning == Typed /\ RunningHasARun /\ [Next]_vars => RunningHasARun'
<1> SUFFICES ASSUME Typed, RunningHasARun, [Next]_vars,
                    NEW i \in Listed', store'[i].status = "running"
             PROVE  Running(i)'
  BY DEF RunningHasARun, Running, Runs
<1>0. i \in Ids
  BY DEF Listed
<1>1. i \in Listed /\ store[i].status = "running" => Running(i)
  BY RunningIs
<1>2. CASE Quiet
  BY <1>1, <1>2 DEF Quiet, Running, Runs, Job, Listed
<1>3. ASSUME NEW p \in Sweepers, Claims(p) PROVE Running(i)'
  <2> DEFINE due == DueIds(clock[p])
  <2>1. /\ gen' = gen /\ orphans' = orphans /\ work[p] = {} /\ Listed' = Listed /\ p \in Native
        /\ \A j \in due : j \in Listed
        /\ \A j \in Ids \ due : store'[j] = store[j]
    BY <1>3, ClaimsEffect DEF Native
  <2>2. work' = [work EXCEPT ![p] = {[id |-> j, gen |-> gen[j], ran |-> FALSE] : j \in due}]
    BY <1>3 DEF Claims
  <2> HIDE DEF due
  <2>3. /\ \A j \in due : Runs(p, j)'
        /\ \A j, q : q \in Native /\ Runs(q, j) => Runs(q, j)'
    BY <2>1, <2>2, ClaimedRuns
  <2>4. CASE i \in due
    BY <2>1, <2>3, <2>4 DEF Running
  <2>5. CASE i \notin due
    <3>1. Running(i)
      BY <1>0, <1>1, <2>1, <2>5
    <3> QED
      BY <2>1, <2>3, <3>1 DEF Running, Job
  <2> QED
    BY <2>4, <2>5
<1>4. ASSUME NEW p \in Runners, ClaimsOne(p) PROVE Running(i)'
  <2>1. /\ gen' = gen /\ orphans' = orphans /\ work[p] = {} /\ Listed' = Listed /\ p \in Native
        /\ \/ UNCHANGED <<store, work>>
           \/ \E k \in Listed :
                /\ \A j \in Ids \ {k} : store'[j] = store[j]
                /\ work' = [work EXCEPT ![p] = {[id |-> k, gen |-> gen[k], ran |-> FALSE]}]
    BY <1>4, ClaimsOneEffect DEF Native
  <2>2. CASE UNCHANGED <<store, work>>
    BY <1>1, <2>1, <2>2 DEF Running, Runs, Job
  <2>3. ASSUME NEW k \in Listed, \A j \in Ids \ {k} : store'[j] = store[j],
               work' = [work EXCEPT ![p] = {[id |-> k, gen |-> gen[k], ran |-> FALSE]}]
        PROVE  Running(i)'
    <3>1. {[id |-> j, gen |-> gen[j], ran |-> FALSE] : j \in {k}}
            = {[id |-> k, gen |-> gen[k], ran |-> FALSE]}
      OBVIOUS
    <3>2. {k} \in SUBSET Listed
      OBVIOUS
    <3>3. Runs(p, k)' /\ \A j, q : q \in Native /\ Runs(q, j) => Runs(q, j)'
      BY <2>1, <2>3, <3>1, <3>2, ClaimedRuns
    <3>4. CASE i = k
      BY <2>1, <3>3, <3>4 DEF Running
    <3>5. CASE i # k
      <4>1. Running(i)
        BY <1>0, <1>1, <2>1, <2>3, <3>5
      <4> QED
        BY <2>1, <3>3, <4>1 DEF Running, Job
    <3> QED
      BY <3>4, <3>5
  <2> QED
    BY <2>1, <2>2, <2>3
<1>5. ASSUME NEW p \in Native, Fires(p) PROVE Running(i)'
  <2>1. UNCHANGED <<store, gen, orphans>>
    BY <1>5 DEF Fires, history
  <2>2. Running(i) /\ Job(i)' = Job(i)
    BY <1>1, <2>1 DEF Listed, Job
  <2>3. PICK c \in work[p] :
          /\ work' = [work EXCEPT ![p] = (work[p] \ {c}) \cup {[c EXCEPT !.ran = TRUE]}]
          /\ [c EXCEPT !.ran = TRUE].id = c.id /\ [c EXCEPT !.ran = TRUE].gen = c.gen
    BY <1>5, FiresEffect
  <2> DEFINE d == [c EXCEPT !.ran = TRUE]
  <2>4. d.id = c.id /\ d.gen = c.gen
    BY <2>3
  <2>5. /\ work'[p] = (work[p] \ {c}) \cup {d}
        /\ \A q \in Native \ {p} : work'[q] = work[q]
    BY <2>3, OthersWork
  <2> HIDE DEF d
  <2>6. \A q \in Native : Runs(q, i) => Runs(q, i)'
    BY <2>2, <2>4, <2>5 DEF Runs
  <2> QED
    BY <2>1, <2>2, <2>6 DEF Running
<1>6. ASSUME NEW p \in Native, Records(p) PROVE Running(i)'
  <2>1. /\ gen' = gen /\ orphans' = orphans /\ Listed' = Listed
        /\ work' = [work EXCEPT ![p] = {}]
        /\ \A j \in Listed : IF \E c \in work[p] : c.id = j
                             THEN store'[j].status = "ended" ELSE store'[j] = store[j]
    BY <1>6, RecordsEffect DEF history
  <2>2. ~(\E c \in work[p] : c.id = i) /\ store'[i] = store[i] /\ i \in Listed
    BY <2>1
  <2>3. Running(i) /\ Job(i)' = Job(i)
    BY <1>1, <2>1, <2>2 DEF Job
  <2>4. ~Runs(p, i)
    BY <2>2 DEF Runs, Job
  <2>5. \A q \in Native \ {p} : work'[q] = work[q]
    BY <2>1, OthersWork
  <2>6. \A q \in Native : Runs(q, i) => Runs(q, i)'
    BY <2>3, <2>4, <2>5 DEF Runs
  <2> QED
    BY <2>1, <2>3, <2>6 DEF Running
<1>7. ASSUME NEW p \in Native, CutsShort(p) PROVE Running(i)'
  <2>1. /\ UNCHANGED <<store, gen>> /\ work' = [work EXCEPT ![p] = {}]
        /\ orphans' = orphans \cup {<<c.id, c.gen>> : c \in work[p]}
    BY <1>7 DEF CutsShort
  <2>2. Running(i) /\ Job(i)' = Job(i)
    BY <1>1, <2>1 DEF Listed, Job
  <2>3. Runs(p, i) => Job(i) \in orphans'
    BY <2>1 DEF Runs
  <2>4. \A q \in Native \ {p} : work'[q] = work[q]
    BY <2>1, OthersWork
  <2>5. \A q \in Native \ {p} : Runs(q, i) => Runs(q, i)'
    BY <2>2, <2>4 DEF Runs
  <2> QED
    BY <2>1, <2>2, <2>3, <2>5 DEF Running
<1>8. ASSUME NEW p \in Editors, Edits(p) PROVE Running(i)'
  <2>1. PICK k \in Ids :
          /\ UNCHANGED <<work, orphans>>
          /\ \A j \in Ids \ {k} : store'[j] = store[j]
          /\ \/ gen' = [gen EXCEPT ![k] = @ + 1] /\ store'[k].status = "none"
             \/ gen' = gen /\ store'[k] = NoEntry
             \/ gen' = gen /\ k \in Listed /\ store'[k].status = store[k].status
    BY <1>8, EditEffect
  <2>2. i \in Listed /\ store[i].status = "running" /\ gen'[i] = gen[i]
    BY <1>0, <2>1 DEF Typed, TypeOK, Listed
  <2> QED
    BY <1>1, <2>1, <2>2 DEF Running, Runs, Job
<1> QED
  BY <1>2, <1>3, <1>4, <1>5, <1>6, <1>7, <1>8, Cases

\* What is listed as running has a run, or its run was cut short.
THEOREM RunningRuns == Spec => []RunningHasARun
<1>1. Init => RunningHasARun
  <2> SUFFICES ASSUME Init, NEW i \in Listed PROVE store[i].status # "running"
    BY DEF RunningHasARun
  <2>1. PICK c \in [Given -> Crons] :
          store = [j \in Ids |-> IF j \in Given
                   THEN [cron |-> c[j], enabled |-> j \in decided, from |-> 1, status |-> "none"]
                   ELSE NoEntry]
    BY DEF Init
  <2>2. i \in Ids /\ i \in Given
    BY <2>1 DEF Listed
  <2> QED
    BY <2>1, <2>2
<1> QED
  BY <1>1, InitTyped, NextTyped, NextRunning, PTL DEF Spec

\* A claim is of a job that was given, and one that has run has its record.
Backed(c) == /\ c.id \in Ids /\ c.gen \in Nat /\ 1 <= c.gen /\ c.gen <= gen[c.id]
             /\ c.ran => <<c.id, c.gen>> \in ledger \cup lost

Outcomes ==
  /\ OutcomeHasARecord
  /\ \A i \in Listed : 1 <= gen[i]
  /\ \A p \in Native : \A c \in work[p] : Backed(c)
  /\ \A p \in Native : pc[p] = "record" => \A c \in work[p] : c.ran

\* More records, and ids given again, leave a claim backed.
LEMMA StaysBacked ==
  ASSUME TypeOK, TypeOK', NEW c, Backed(c), ledger \cup lost \subseteq ledger' \cup lost', \A i \in Ids : gen[i] <= gen'[i]
  PROVE  Backed(c)'
<1>1. c.id \in Ids /\ c.gen \in Nat /\ 1 <= c.gen /\ c.gen <= gen[c.id]
  BY DEF Backed
<1>2. gen[c.id] \in Nat /\ gen'[c.id] \in Nat /\ gen[c.id] <= gen'[c.id]
  BY <1>1 DEF TypeOK
<1>3. c.gen <= gen'[c.id]
  BY <1>1, <1>2
<1> QED
  BY <1>1, <1>3 DEF Backed

\* A claim that is made is backed.
LEMMA ClaimsBacked ==
  ASSUME Typed, Outcomes, NEW p \in Native, NEW ids \in SUBSET Listed, UNCHANGED <<gen, ledger, lost>>,
         pc[p] # "record", pc'[p] # "record", NEW l, pc' = [pc EXCEPT ![p] = l],
         work' = [work EXCEPT ![p] = {[id |-> i, gen |-> gen[i], ran |-> FALSE] : i \in ids}]
  PROVE  /\ \A q \in Native : \A c \in work'[q] : Backed(c)'
         /\ \A q \in Native : pc'[q] = "record" => \A c \in work'[q] : c.ran
<1>0. \A c : Backed(c) => Backed(c)'
  BY DEF Backed
<1>1. /\ work'[p] = {[id |-> i, gen |-> gen[i], ran |-> FALSE] : i \in ids}
      /\ \A q \in Native \ {p} : work'[q] = work[q] /\ pc'[q] = pc[q]
  BY OthersWork DEF Typed, TypeOK, Procs
<1>2. ASSUME NEW i \in ids PROVE Backed([id |-> i, gen |-> gen[i], ran |-> FALSE])
  <2>1. i \in Ids /\ gen[i] \in Nat /\ 1 <= gen[i]
    BY DEF Typed, TypeOK, Listed, Outcomes
  <2> QED
    BY <2>1 DEF Backed
<1>3. ASSUME NEW q \in Native, NEW c \in work'[q] PROVE Backed(c)'
  <2>1. CASE q = p
    BY <1>0, <1>1, <1>2, <2>1
  <2>2. CASE q # p
    BY <1>0, <1>1, <2>2 DEF Outcomes
  <2> QED
    BY <2>1, <2>2
<1>4. ASSUME NEW q \in Native, pc'[q] = "record", NEW c \in work'[q] PROVE c.ran
  BY <1>1, <1>4 DEF Outcomes
<1> QED
  BY <1>3, <1>4

\* Entries whose status and job stay keep their records.
LEMMA OutcomesKept ==
  ASSUME Typed, Outcomes, ledger \cup lost \subseteq ledger' \cup lost', gen' = gen,
         \A i \in Listed' : /\ i \in Listed
                            /\ store'[i].status = "ended" => store[i].status = "ended"
  PROVE  OutcomeHasARecord' /\ \A i \in Listed' : 1 <= gen'[i]
BY DEF Outcomes, OutcomeHasARecord, Job

LEMMA NextOutcomes == Typed /\ Outcomes /\ Typed' /\ [Next]_vars => Outcomes'
<1> SUFFICES ASSUME Typed, Outcomes, Typed', [Next]_vars PROVE Outcomes'
  OBVIOUS
<1>0. TypeOK /\ TypeOK' /\ Placed
  BY DEF Typed
<1>a. ASSUME gen' = gen, NEW c, Backed(c), ledger \cup lost \subseteq ledger' \cup lost' PROVE Backed(c)'
  BY <1>a DEF Backed
<1>1. CASE Quiet /\ NoneRecords
  <2>1. UNCHANGED <<store, ledger, lost, work, gen>>
    BY <1>1 DEF Quiet
  <2>2. \A p \in Native : \A c \in work'[p] : Backed(c)'
    BY <1>a, <2>1 DEF Outcomes
  <2>3. OutcomeHasARecord' /\ \A i \in Listed' : 1 <= gen'[i]
    BY <2>1, OutcomesKept DEF Listed
  <2>4. \A p \in Native : pc'[p] = "record" => \A c \in work'[p] : c.ran
    BY <1>1, <2>1 DEF NoneRecords, Outcomes
  <2> QED
    BY <2>2, <2>3, <2>4 DEF Outcomes
<1>2. ASSUME NEW p \in Sweepers, Claims(p) PROVE Outcomes'
  <2> DEFINE due == DueIds(clock[p])
  <2>0. p \in Native /\ p \in Procs
    BY DEF Native, Procs
  <2>1. /\ UNCHANGED <<gen, ledger, lost>> /\ Listed' = Listed
        /\ \A j \in due : j \in Listed /\ store'[j].status = "running"
        /\ \A j \in Ids \ due : store'[j] = store[j]
    BY <1>2, ClaimsEffect
  <2>2. /\ work' = [work EXCEPT ![p] = {[id |-> j, gen |-> gen[j], ran |-> FALSE] : j \in due}]
        /\ pc[p] = "claim"
    BY <1>2 DEF Claims
  <2>3. \E l : l # "record" /\ pc' = [pc EXCEPT ![p] = l]
    <3>1. Ends(p) \/ GoesOn(p)
      BY <1>2 DEF Claims
    <3>2. CASE Ends(p)
      <4>1. pc' = [pc EXCEPT ![p] = "idle"] \/ pc' = [pc EXCEPT ![p] = "done"]
        BY <3>2 DEF Ends
      <4> QED
        BY <4>1
    <3>3. CASE GoesOn(p)
      BY <3>3 DEF GoesOn
    <3> QED
      BY <3>1, <3>2, <3>3
  <2>4. PICK l : l # "record" /\ pc' = [pc EXCEPT ![p] = l]
    BY <2>3
  <2>5. pc'[p] # "record" /\ pc[p] # "record"
    BY <1>0, <2>0, <2>2, <2>4 DEF TypeOK
  <2> HIDE DEF due
  <2>6. /\ \A q \in Native : \A c \in work'[q] : Backed(c)'
        /\ \A q \in Native : pc'[q] = "record" => \A c \in work'[q] : c.ran
    BY <2>0, <2>1, <2>2, <2>4, <2>5, ClaimsBacked
  <2>7. \A j \in Listed' : j \in Listed /\ (store'[j].status = "ended" => store[j].status = "ended")
    BY <2>1 DEF Listed
  <2>8. OutcomeHasARecord' /\ \A j \in Listed' : 1 <= gen'[j]
    BY <2>1, <2>7, OutcomesKept
  <2> QED
    BY <2>6, <2>8 DEF Outcomes
<1>3. ASSUME NEW p \in Runners, ClaimsOne(p) PROVE Outcomes'
  <2>0. p \in Native /\ p \in Procs
    BY DEF Native, Procs
  <2>1. /\ UNCHANGED <<gen, ledger, lost>> /\ Listed' = Listed
        /\ \/ UNCHANGED <<store, work>>
           \/ \E k \in Listed :
                /\ \A j \in Ids \ {k} : store'[j] = store[j]
                /\ store'[k].status = "running"
                /\ work' = [work EXCEPT ![p] = {[id |-> k, gen |-> gen[k], ran |-> FALSE]}]
    BY <1>3, ClaimsOneEffect
  <2>2. pc[p] = "one" /\ (Ends(p) \/ GoesOn(p))
    BY <1>3 DEF ClaimsOne
  <2>3. \E l : l # "record" /\ pc' = [pc EXCEPT ![p] = l]
    <3>1. CASE Ends(p)
      <4>1. pc' = [pc EXCEPT ![p] = "idle"] \/ pc' = [pc EXCEPT ![p] = "done"]
        BY <3>1 DEF Ends
      <4> QED
        BY <4>1
    <3>2. CASE GoesOn(p)
      BY <3>2 DEF GoesOn
    <3> QED
      BY <2>2, <3>1, <3>2
  <2>4. PICK l : l # "record" /\ pc' = [pc EXCEPT ![p] = l]
    BY <2>3
  <2>5. pc'[p] # "record" /\ pc[p] # "record"
    BY <1>0, <2>0, <2>2, <2>4 DEF TypeOK
  <2>6. CASE UNCHANGED <<store, work>>
    <3>1. OutcomeHasARecord' /\ \A j \in Listed' : 1 <= gen'[j]
      BY <2>1, <2>6, OutcomesKept
    <3>2. \A q \in Native : \A c \in work'[q] : Backed(c)'
      BY <1>a, <2>1, <2>6 DEF Outcomes
    <3>3. \A q \in Native : pc'[q] = "record" => \A c \in work'[q] : c.ran
      BY <1>0, <2>4, <2>5, <2>6 DEF Outcomes, TypeOK, Native, Procs
    <3> QED
      BY <3>1, <3>2, <3>3 DEF Outcomes
  <2>7. ASSUME NEW k \in Listed, \A j \in Ids \ {k} : store'[j] = store[j],
               store'[k].status = "running",
               work' = [work EXCEPT ![p] = {[id |-> k, gen |-> gen[k], ran |-> FALSE]}]
        PROVE  Outcomes'
    <3>1. {[id |-> j, gen |-> gen[j], ran |-> FALSE] : j \in {k}}
            = {[id |-> k, gen |-> gen[k], ran |-> FALSE]}
      OBVIOUS
    <3>2. {k} \in SUBSET Listed
      OBVIOUS
    <3>3. /\ \A q \in Native : \A c \in work'[q] : Backed(c)'
          /\ \A q \in Native : pc'[q] = "record" => \A c \in work'[q] : c.ran
      BY <2>0, <2>1, <2>4, <2>5, <2>7, <3>1, <3>2, ClaimsBacked
    <3>4. \A j \in Listed' : j \in Listed /\ (store'[j].status = "ended" => store[j].status = "ended")
      BY <2>1, <2>7 DEF Listed
    <3>5. OutcomeHasARecord' /\ \A j \in Listed' : 1 <= gen'[j]
      BY <2>1, <3>4, OutcomesKept
    <3> QED
      BY <3>3, <3>5 DEF Outcomes
  <2> QED
    BY <2>1, <2>6, <2>7
<1>4. ASSUME NEW p \in Native, Fires(p) PROVE Outcomes'
  <2>1. UNCHANGED <<store, gen>>
    BY <1>4 DEF Fires, history
  <2>2. PICK c \in work[p] :
          /\ work' = [work EXCEPT ![p] = (work[p] \ {c}) \cup {[c EXCEPT !.ran = TRUE]}]
          /\ ledger' \cup lost' = ledger \cup lost \cup {<<c.id, c.gen>>}
          /\ [c EXCEPT !.ran = TRUE].id = c.id /\ [c EXCEPT !.ran = TRUE].gen = c.gen
          /\ pc' = [pc EXCEPT ![p] = IF \A d \in work[p] \ {c} : d.ran THEN "record" ELSE "fire"]
          /\ c \in Work
    BY <1>4, FiresEffect
  <2> DEFINE e == [c EXCEPT !.ran = TRUE]
  <2>3. e.id = c.id /\ e.gen = c.gen /\ e.ran = TRUE
    BY <2>2 DEF Work
  <2>4. /\ work'[p] = (work[p] \ {c}) \cup {e}
        /\ \A q \in Native \ {p} : work'[q] = work[q]
    BY <2>2, OthersWork
  <2>5. /\ \A q \in Native \ {p} : pc'[q] = pc[q]
        /\ pc'[p] = "record" => \A d \in work[p] \ {c} : d.ran
    BY <1>0, <2>2 DEF TypeOK, Native, Procs
  <2>6. ledger \cup lost \subseteq ledger' \cup lost' /\ <<e.id, e.gen>> \in ledger' \cup lost'
    BY <2>2, <2>3
  <2> HIDE DEF e
  <2>7. \A d : Backed(d) => Backed(d)'
    BY <1>a, <2>1, <2>6
  <2>8. Backed(e)'
    <3>1. Backed(c)
      BY DEF Outcomes
    <3> QED
      BY <2>1, <2>3, <2>6, <3>1 DEF Backed
  <2>9. ASSUME NEW q \in Native, NEW d \in work'[q] PROVE Backed(d)'
    BY <2>4, <2>7, <2>8 DEF Outcomes
  <2>10. ASSUME NEW q \in Native, pc'[q] = "record", NEW d \in work'[q] PROVE d.ran
    BY <2>3, <2>4, <2>5, <2>10 DEF Outcomes
  <2>11. OutcomeHasARecord' /\ \A i \in Listed' : 1 <= gen'[i]
    BY <2>1, <2>6, OutcomesKept DEF Listed
  <2> QED
    BY <2>9, <2>10, <2>11 DEF Outcomes
<1>5. ASSUME NEW p \in Native, Records(p) PROVE Outcomes'
  <2>1. /\ UNCHANGED <<gen, ledger, lost>> /\ Listed' = Listed
        /\ work' = [work EXCEPT ![p] = {}] /\ pc[p] = "record"
        /\ \A j \in Listed : IF \E c \in work[p] : c.id = j
                             THEN store'[j].status = "ended" ELSE store'[j] = store[j]
    BY <1>5, RecordsEffect DEF history
  <2>2. work'[p] = {} /\ \A q \in Native \ {p} : work'[q] = work[q]
    BY <2>1, OthersWork
  <2>3. NoneRecords
    BY <1>5, EndsQuietly DEF Records, Procs
  <2>4. ASSUME NEW q \in Native, NEW d \in work'[q] PROVE Backed(d)'
    BY <1>a, <2>1, <2>2 DEF Outcomes
  <2>5. ASSUME NEW q \in Native, pc'[q] = "record", NEW d \in work'[q] PROVE d.ran
    BY <2>2, <2>3, <2>5 DEF Outcomes, NoneRecords
  <2>6. ASSUME NEW i \in Listed', store'[i].status = "ended"
        PROVE  (Job(i) \in ledger \cup lost \/ gen[i] > 1)'
    <3>0. i \in Listed /\ i \in Ids /\ gen[i] \in Nat
      BY <1>0, <2>1 DEF Listed, TypeOK
    <3>1. CASE \E c \in work[p] : c.id = i
      <4>1. PICK c \in work[p] : c.id = i
        BY <3>1
      <4>2. c.ran /\ Backed(c)
        BY <2>1 DEF Outcomes
      <4>3. <<i, c.gen>> \in ledger \cup lost /\ c.gen \in Nat /\ 1 <= c.gen /\ c.gen <= gen[i]
        BY <4>1, <4>2 DEF Backed
      <4>4. gen[i] > 1 \/ c.gen = gen[i]
        BY <3>0, <4>3
      <4> QED
        BY <2>1, <4>3, <4>4 DEF Job
    <3>2. CASE ~(\E c \in work[p] : c.id = i)
      <4>1. store[i].status = "ended"
        BY <2>1, <2>6, <3>0, <3>2
      <4> QED
        BY <2>1, <3>0, <4>1 DEF Outcomes, OutcomeHasARecord, Job
    <3> QED
      BY <3>1, <3>2
  <2>7. OutcomeHasARecord' /\ \A i \in Listed' : 1 <= gen'[i]
    BY <2>1, <2>6 DEF OutcomeHasARecord, Outcomes
  <2> QED
    BY <2>4, <2>5, <2>7 DEF Outcomes
<1>6. ASSUME NEW p \in Native, CutsShort(p), NoneRecords PROVE Outcomes'
  <2>1. UNCHANGED <<store, ledger, lost, gen>> /\ work' = [work EXCEPT ![p] = {}]
    BY <1>6 DEF CutsShort
  <2>2. work'[p] = {} /\ \A q \in Native \ {p} : work'[q] = work[q]
    BY <2>1, OthersWork
  <2>3. ASSUME NEW q \in Native, NEW d \in work'[q] PROVE Backed(d)'
    BY <1>a, <2>1, <2>2 DEF Outcomes
  <2>4. ASSUME NEW q \in Native, pc'[q] = "record", NEW d \in work'[q] PROVE d.ran
    BY <1>6, <2>2, <2>4 DEF Outcomes, NoneRecords
  <2>5. OutcomeHasARecord' /\ \A i \in Listed' : 1 <= gen'[i]
    BY <2>1, OutcomesKept DEF Listed
  <2> QED
    BY <2>3, <2>4, <2>5 DEF Outcomes
<1>7. ASSUME NEW p \in Editors, Edits(p) PROVE Outcomes'
  <2>1. PICK k \in Ids :
          /\ UNCHANGED <<ledger, lost, work>>
          /\ \A j \in Ids \ {k} : store'[j] = store[j]
          /\ \/ gen' = [gen EXCEPT ![k] = @ + 1] /\ store'[k].status = "none"
             \/ gen' = gen /\ store'[k] = NoEntry
             \/ gen' = gen /\ k \in Listed /\ store'[k].status = store[k].status
    BY <1>7, EditEffect
  <2>2. /\ \A j \in Ids : gen[j] <= gen'[j] /\ gen[j] \in Nat /\ gen'[j] \in Nat
        /\ \A j \in Ids \ {k} : gen'[j] = gen[j]
    BY <1>0, <2>1 DEF TypeOK
  <2>3. \A q \in Native : \A c \in work'[q] : Backed(c)'
    BY <1>0, <2>1, <2>2, StaysBacked DEF Outcomes
  <2>4. \A q \in Native : pc'[q] = pc[q]
    <3>1. p \in Procs /\ p \notin Native
      BY ScheduleAssumption DEF Procs
    <3>2. Ends(p)
      BY <1>7 DEF Edits, Adds, Removes, SetsEnabled, Updates, Acknowledged
    <3> QED
      BY <1>0, <3>1, <3>2 DEF Ends, TypeOK, Procs
  <2>5. \A q \in Native : pc'[q] = "record" => \A c \in work'[q] : c.ran
    BY <2>1, <2>4 DEF Outcomes
  <2>6. ASSUME gen' = gen, \A j \in Listed' : j \in Listed /\ store'[j].status = store[j].status
        PROVE  Outcomes'
    <3>1. OutcomeHasARecord' /\ \A i \in Listed' : 1 <= gen'[i]
      BY <2>1, <2>6, OutcomesKept
    <3> QED
      BY <2>3, <2>5, <3>1 DEF Outcomes
  <2>7. CASE gen' = gen /\ store'[k] = NoEntry
    BY <2>1, <2>6, <2>7 DEF Listed
  <2>8. CASE gen' = gen /\ k \in Listed /\ store'[k].status = store[k].status
    BY <2>1, <2>6, <2>8 DEF Listed
  <2>9. CASE gen' = [gen EXCEPT ![k] = @ + 1] /\ store'[k].status = "none"
    <3>1. 1 <= gen'[k]
      BY <1>0, <2>2, <2>9 DEF TypeOK
    <3>2. \A j \in Listed' : j = k \/ (j \in Listed /\ store'[j] = store[j] /\ gen'[j] = gen[j])
      BY <2>1, <2>2 DEF Listed
    <3>3. \A j \in Listed' : 1 <= gen'[j]
      BY <3>1, <3>2 DEF Outcomes
    <3>4. OutcomeHasARecord'
      BY <2>1, <2>9, <3>2 DEF Outcomes, OutcomeHasARecord, Job
    <3> QED
      BY <2>3, <2>5, <3>3, <3>4 DEF Outcomes
  <2> QED
    BY <2>1, <2>7, <2>8, <2>9
<1> QED
  BY <1>1, <1>2, <1>3, <1>4, <1>5, <1>6, <1>7, Cases

\* An entry with an outcome has its record, unless its id was given twice.
THEOREM OutcomeRecorded == Spec => []OutcomeHasARecord
<1>1. Init => Outcomes
  <2> SUFFICES ASSUME Init PROVE Outcomes
    OBVIOUS
  <2>1. PICK c \in [Given -> Crons] :
          store = [j \in Ids |-> IF j \in Given
                   THEN [cron |-> c[j], enabled |-> j \in decided, from |-> 1, status |-> "none"]
                   ELSE NoEntry]
    BY DEF Init
  <2>2. \A i \in Listed : i \in Ids /\ i \in Given /\ store[i].status = "none"
    BY <2>1 DEF Listed
  <2>3. \A i \in Listed : 1 <= gen[i]
    BY <2>2 DEF Init
  <2>4. \A p \in Native : work[p] = {}
    BY DEF Init, Procs
  <2> QED
    BY <2>2, <2>3, <2>4 DEF Outcomes, OutcomeHasARecord
<1>2. Typed /\ Outcomes /\ [Next]_vars => (Typed /\ Outcomes)'
  BY NextTyped, NextOutcomes
<1>3. Spec => [](Typed /\ Outcomes)
  BY <1>1, <1>2, InitTyped, PTL DEF Spec
<1>4. Outcomes => OutcomeHasARecord
  BY DEF Outcomes
<1> QED
  BY <1>3, <1>4, PTL
=============================================================================
