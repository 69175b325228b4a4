------------------------ MODULE SnapshotStore_proofs ------------------------
(***************************************************************************)
(* Proofs about SnapshotStore, for every number of processes, snapshots    *)
(* and series and every retention policy: what retention spares and        *)
(* bounds, and what a diff compares.                                       *)
(***************************************************************************)
EXTENDS SnapshotStore, FiniteSetTheorems, TLAPS

\* What the processes share.  Ids are never given twice, so a row that is not
\* in the table never comes back.
Table ==
  /\ saved \in SUBSET Rows /\ db \subseteq saved
  /\ IsFiniteSet(saved)
  /\ \A r, s \in saved : r.id = s.id => r = s
  /\ \A r \in saved : r.id <= lastId
  /\ lastId \in 0..MaxSaves /\ clock \in 0..MaxClock
  /\ erased \subseteq saved

\* What a process keeps.
Memory ==
  /\ pc \in [Procs -> {"idle", "lookup", "hit", "served", "stamp", "commit",
                       "preview", "list", "delete", "reported", "baseline",
                       "oldMeta", "oldLoad", "newest", "newMeta", "newLoad", "diffed"}]
  /\ want \in [Procs -> SUBSET Keys]
  /\ stamp \in [Procs -> 0..MaxClock]
  /\ horizon \in [Procs -> 0..MaxSaves]
  /\ doomed \in [Procs -> SUBSET Rows] /\ report \in [Procs -> SUBSET Rows]
  /\ base \in [Procs -> SUBSET Rows] /\ newest \in [Procs -> SUBSET Rows]
  /\ old \in [Procs -> SUBSET Assets] /\ new \in [Procs -> SUBSET Assets]

\* All that the others can do to a process: rows come with new ids, rows go.
Others ==
  /\ saved \subseteq saved' /\ lastId <= lastId' /\ clock <= clock'
  /\ \A r \in saved' \ saved : r.id > lastId
  /\ db' \ db \subseteq saved' \ saved

Local(p) == <<pc[p], want[p], stamp[p], horizon[p], doomed[p], report[p],
              base[p], newest[p], old[p], new[p]>>

\* What process p does next.
Step(p) ==
  \/ \E k \in Keys : BeginAudit(p, k)
  \/ Lookup(p) \/ LoadHit(p) \/ Stamp(p)
  \/ \E assets \in Estates : Commit(p, assets)
  \/ BeginPrune(p) \/ Preview(p) \/ ListAudits(p) \/ DeleteBatch(p)
  \/ \E keys \in {Keys} \cup {{k} : k \in Keys}, t \in 0..MaxClock : BeginDiff(p, keys, t)
  \/ PickBaseline(p) \/ PickNewest(p) \/ LoadOld(p) \/ LoadNew(p)
  \/ GetAudit(p, "oldMeta", base[p], "oldLoad")
  \/ GetAudit(p, "newMeta", newest[p], "newLoad")
  \/ Leave(p)

Idle(p) ==
  /\ pc'[p] = "idle" /\ doomed'[p] = {} /\ report'[p] = {} /\ base'[p] = {} /\ newest'[p] = {}

LEMMA ExitIdles ==
  ASSUME Memory, NEW p \in Procs, Exit(p)
  PROVE  Idle(p)
  BY DEF Memory, Exit, Goto, Idle

-----------------------------------------------------------------------------
(* The table.                                                              *)

LEMMA CommitAddsRow ==
  ASSUME Table, Memory, NEW p \in Procs, NEW assets \in Estates, Commit(p, assets)
  PROVE  \E r \in Rows : /\ r.id = lastId + 1 /\ lastId' = lastId + 1
                         /\ db' = db \cup {r} /\ saved' = saved \cup {r}
  <1>1. PICK k \in want[p] :
          LET r == [id |-> NextId, at |-> stamp[p], key |-> k, assets |-> assets] IN
          db' = db \cup {r} /\ saved' = saved \cup {r} /\ lastId' = r.id
    BY DEF Commit
  <1>. DEFINE r == [id |-> NextId, at |-> stamp[p], key |-> k, assets |-> assets]
  <1>2. lastId + 1 \in 1..MaxSaves
    BY StoreAssumption DEF Commit, Table
  <1>3. r \in Rows
    BY <1>2, StoreAssumption DEF Rows, NextId, Memory
  <1>. QED
    BY <1>1, <1>3 DEF NextId

LEMMA TableStep == Table /\ Memory /\ [StoreNext]_vars => Table' /\ Others
  <1>. SUFFICES ASSUME Table, Memory, [StoreNext]_vars PROVE Table' /\ Others
    OBVIOUS
  <1>0. lastId \in Int /\ clock \in Int
    BY DEF Table
  <1>1. CASE UNCHANGED <<dbVars, clock>>
    BY <1>0, <1>1 DEF Table, Others, dbVars
  <1>2. CASE Tick
    BY <1>0, <1>2, StoreAssumption DEF Tick, Table, Others, dbVars
  <1>3. CASE ClearAudits \/ \E r \in db : DeleteAudit(r)
    BY <1>0, <1>3 DEF ClearAudits, DeleteAudit, Table, Others
  <1>4. ASSUME NEW p \in Procs, NEW assets \in Estates, Commit(p, assets)
        PROVE  Table' /\ Others
    <2>1. PICK r \in Rows : /\ r.id = lastId + 1 /\ lastId' = lastId + 1
                            /\ db' = db \cup {r} /\ saved' = saved \cup {r}
      BY <1>4, CommitAddsRow
    <2>2. UNCHANGED <<clock, erased>> /\ lastId < MaxSaves
      BY <1>4 DEF Commit
    <2>3. IsFiniteSet(saved')
      BY <2>1, FS_AddElement DEF Table
    <2>4. \A s \in saved : s.id \in Int
      BY DEF Table, Rows
    <2>5. \A s, t \in saved' : s.id = t.id => s = t
      BY <1>0, <2>1, <2>4 DEF Table
    <2>6. \A s \in saved' : s.id <= lastId'
      BY <1>0, <2>1, <2>4 DEF Table
    <2>7. lastId' \in 0..MaxSaves
      BY <1>0, <2>1, <2>2, StoreAssumption DEF Table
    <2>. QED
      BY <1>0, <2>1, <2>2, <2>3, <2>5, <2>6, <2>7 DEF Table, Others
  <1>5. ASSUME NEW p \in Procs, DeleteBatch(p) PROVE Table' /\ Others
    BY <1>0, <1>5 DEF DeleteBatch, Table, Others
  <1>6. ASSUME NEW p \in Procs, Step(p) PROVE Table' /\ Others
    BY <1>1, <1>4, <1>5, <1>6
    DEF Step, BeginAudit, Lookup, LoadHit, Stamp, BeginPrune, Preview, ListAudits, BeginDiff,
        PickBaseline, PickNewest, LoadOld, LoadNew, GetAudit, Leave
  <1>. QED
    BY <1>1, <1>2, <1>3, <1>6 DEF StoreNext, Step, vars

\* One process moves at a time.
LEMMA OthersRest ==
  ASSUME Memory, [StoreNext]_vars, NEW p \in Procs
  PROVE  Step(p) \/ UNCHANGED Local(p)
  <1>1. ASSUME UNCHANGED <<pc, want, stamp, retVars, pickVars>> PROVE UNCHANGED Local(p)
    BY <1>1 DEF Local, retVars, pickVars
  <1>2. ASSUME NEW q \in Procs, Step(q), q # p PROVE UNCHANGED Local(p)
    BY <1>2
    DEF Step, BeginAudit, Lookup, LoadHit, Stamp, Commit, BeginPrune, Preview, ListAudits,
        DeleteBatch, BeginDiff, PickBaseline, PickNewest, LoadOld, LoadNew, GetAudit, Leave,
        Exit, Goto, Local, Memory, retVars, pickVars
  <1>. QED
    BY <1>1, <1>2 DEF StoreNext, Step, Tick, ClearAudits, DeleteAudit, vars

-----------------------------------------------------------------------------
(* Retention.                                                              *)

\* Why a row may go: the policy has no room for it, now and from now on.
Due(r) ==
  \/ MaxAge > 0 /\ r.at + MaxAge < clock
  \/ KeepLast > 0 /\ Rank(r, saved) >= KeepLast

\* What process p saw of the table, and why it left a row of it alone.
Seen(p) == {r \in db : r.id <= horizon[p]}
Kept(p, r) ==
  /\ KeepLast > 0 => Rank(r, Seen(p)) < KeepLast
  /\ MaxAge > 0 => r.at + MaxAge >= stamp[p]

Deleting == {"delete", "reported"}

Retained(p) ==
  /\ doomed[p] \subseteq report[p] /\ report[p] \subseteq saved
  /\ horizon[p] <= lastId
  /\ \A r \in doomed[p] : Due(r)
  /\ pc[p] \in Deleting =>
       /\ \A r \in report[p] : r \in doomed[p] \/ ~Exists(r)
       /\ \A r \in Seen(p) : r \in doomed[p] \/ Kept(p, r)
  /\ pc[p] = "reported" => doomed[p] = {}

LEMMA RankMonotone ==
  ASSUME NEW S, IsFiniteSet(S), NEW T \in SUBSET S, NEW r
  PROVE  Rank(r, T) \in Nat /\ Rank(r, S) \in Nat /\ Rank(r, T) <= Rank(r, S)
  <1>. DEFINE AheadIn(rows) == {s \in rows : s.key = r.key /\ Newer(s, r)}
  <1>1. IsFiniteSet(AheadIn(S)) /\ IsFiniteSet(AheadIn(T))
    BY FS_Subset
  <1>2. AheadIn(T) \subseteq AheadIn(S)
    OBVIOUS
  <1>3. Cardinality(AheadIn(T)) <= Cardinality(AheadIn(S))
    BY <1>1, <1>2, FS_Subset
  <1>. QED
    BY <1>1, <1>3, FS_CardinalityType DEF Rank

\* Time passes and rows are saved: what is due stays due.
LEMMA DueStays ==
  ASSUME Table, Table', Others, NEW r \in saved, Due(r)
  PROVE  Due(r)'
  <1>1. Rank(r, saved) \in Nat /\ Rank(r, saved') \in Nat /\ Rank(r, saved) <= Rank(r, saved')
    BY RankMonotone DEF Table, Others
  <1>2. r.at \in Int /\ clock \in Int /\ clock' \in Int /\ clock <= clock'
    BY DEF Table, Others, Rows
  <1>3. Rank(r, saved)' = Rank(r, saved')
    BY DEF Rank, Newer
  <1>4. KeepLast \in Int /\ MaxAge \in Int
    BY StoreAssumption
  <1>. QED
    BY <1>1, <1>2, <1>3, <1>4 DEF Due

\* A row that is gone stays gone, and nobody slips in below a horizon.
LEMMA GoneStays ==
  ASSUME Table, Table', Others
  PROVE  /\ \A r \in saved : ~Exists(r) => ~Exists(r)'
         /\ \A r \in saved : r \notin db => r \notin db'
         /\ \A h \in Int : h <= lastId =>
              {r \in db' : r.id <= h} \subseteq {r \in db : r.id <= h}
  <1>1. \A r \in saved' : r.id \in Int
    BY DEF Table, Rows
  <1>2. lastId \in Int
    BY DEF Table
  <1>3. \A r \in db' : r \in db \/ r.id > lastId
    BY DEF Others
  <1>4. \A r \in saved : r.id <= lastId /\ r \in saved'
    BY DEF Table, Others
  <1>5. \A r \in saved, s \in db' : s.id = r.id => s \in db
    BY <1>1, <1>2, <1>3, <1>4
  <1>6. \A r \in db', h \in Int : h <= lastId /\ r.id <= h => r \in db
    BY <1>1, <1>2, <1>3 DEF Table
  <1>. QED
    BY <1>5, <1>6 DEF Exists

\* Rows that leave the table only make room for those that stay.
LEMMA KeptStays ==
  ASSUME Table, Table', Memory, Memory', Others, NEW p \in Procs, horizon[p] <= lastId,
         UNCHANGED <<horizon[p], stamp[p]>>,
         NEW r, Kept(p, r)
  PROVE  Kept(p, r)'
  <1>1. horizon[p] \in Int
    BY DEF Memory
  <1>2. Seen(p)' \subseteq Seen(p)
    BY <1>1, GoneStays DEF Seen
  <1>3. IsFiniteSet(Seen(p))
    BY FS_Subset DEF Seen, Table
  <1>4. /\ Rank(r, Seen(p)) \in Nat /\ Rank(r, Seen(p)') \in Nat
        /\ Rank(r, Seen(p)') <= Rank(r, Seen(p))
    BY <1>2, <1>3, RankMonotone
  <1>5. Rank(r, Seen(p))' = Rank(r, Seen(p)')
    BY DEF Rank, Newer
  <1>6. KeepLast \in Int
    BY StoreAssumption
  <1>. QED
    BY <1>4, <1>5, <1>6 DEF Kept

\* What others do, and what p does before it lists, leaves p's plan valid.
LEMMA PlanStays ==
  ASSUME Table, Table', Memory, Memory', Others, NEW p \in Procs, Retained(p),
         UNCHANGED <<doomed[p], report[p], horizon[p]>>,
         UNCHANGED <<pc[p], stamp[p]>> \/ pc'[p] \notin Deleting
  PROVE  Retained(p)'
  <1>1. report[p] \subseteq saved' /\ horizon[p] <= lastId'
    BY DEF Retained, Table, Memory, Others
  <1>2. \A r \in doomed[p] : Due(r)'
    BY DueStays DEF Retained
  <1>3. ASSUME UNCHANGED <<pc[p], stamp[p]>>, pc[p] \in Deleting
        PROVE  /\ \A r \in report[p] : r \in doomed[p] \/ ~Exists(r)'
               /\ \A r \in Seen(p)' : r \in doomed[p] \/ Kept(p, r)'
    <2>1. \A r \in report[p] : r \in doomed[p] \/ ~Exists(r)'
      BY <1>3, GoneStays DEF Retained
    <2>2. horizon[p] \in Int /\ horizon[p] <= lastId
      BY DEF Memory, Retained
    <2>3. Seen(p)' \subseteq Seen(p)
      BY <2>2, GoneStays DEF Seen
    <2>4. \A r : Kept(p, r) => Kept(p, r)'
      BY <1>3, <2>2, KeptStays
    <2>. QED
      BY <1>3, <2>1, <2>3, <2>4 DEF Retained
  <1>. QED
    BY <1>1, <1>2, <1>3 DEF Retained, Deleting

LEMMA ListedIsDue ==
  ASSUME Table, Memory, NEW p \in Procs, ListAudits(p), ~Exit(p), Table', Memory', Others
  PROVE  Retained(p)'
  <1>1. PICK now \in stamp[p]..clock :
          LET rows == Doomed(db, now) IN
          /\ doomed' = [doomed EXCEPT ![p] = rows]
          /\ report' = [report EXCEPT ![p] = rows]
          /\ horizon' = [horizon EXCEPT ![p] = lastId]
          /\ stamp' = [stamp EXCEPT ![p] = now]
          /\ Goto(p, "delete")
    BY DEF ListAudits
  <1>. DEFINE rows == Doomed(db, now)
  <1>2. /\ doomed'[p] = rows /\ report'[p] = rows /\ horizon'[p] = lastId
        /\ stamp'[p] = now /\ pc'[p] = "delete"
    BY <1>1 DEF Memory, Goto
  <1>3. UNCHANGED <<db, saved, lastId, clock>>
    BY DEF ListAudits, dbVars
  <1>4. rows \subseteq db
    BY DEF Doomed
  <1>5. now \in Int /\ now <= clock /\ clock \in Int
    BY DEF Memory, Table
  <1>6. KeepLast \in Int /\ MaxAge \in Int
    BY StoreAssumption
  <1>7. \A r \in db : /\ r.at \in Int
                      /\ Rank(r, db) \in Nat /\ Rank(r, saved) \in Nat
                      /\ Rank(r, db) <= Rank(r, saved)
    BY RankMonotone DEF Table, Rows
  <1>8. ASSUME NEW r \in rows PROVE Due(r)'
    <2>1. \/ KeepLast > 0 /\ Rank(r, db) >= KeepLast
          \/ MaxAge > 0 /\ r.at + MaxAge < now
      BY DEF Doomed
    <2>2. Due(r)
      BY <1>4, <1>5, <1>6, <1>7, <2>1 DEF Due
    <2>. QED
      BY <1>3, <1>4, <2>2, DueStays DEF Table
  <1>9. Seen(p)' = db
    <2>1. \A r \in db : r.id <= lastId
      BY DEF Table
    <2>. QED
      BY <1>2, <1>3, <2>1 DEF Seen
  <1>10. ASSUME NEW r \in db, r \notin rows PROVE Kept(p, r)'
    <2>1. /\ KeepLast > 0 => ~(Rank(r, db) >= KeepLast)
          /\ MaxAge > 0 => ~(r.at + MaxAge < now)
      BY <1>10 DEF Doomed
    <2>2. Rank(r, Seen(p))' = Rank(r, db)
      BY <1>9 DEF Rank, Newer
    <2>. QED
      BY <1>2, <1>5, <1>6, <1>7, <2>1, <2>2 DEF Kept
  <1>11. horizon'[p] <= lastId'
    BY <1>2, <1>3 DEF Table
  <1>. QED
    BY <1>2, <1>3, <1>4, <1>8, <1>9, <1>10, <1>11 DEF Retained, Deleting, Table

LEMMA BatchKeepsPlan ==
  ASSUME Table, Memory, NEW p \in Procs, Retained(p), DeleteBatch(p), Table', Memory', Others
  PROVE  Retained(p)'
  <1>. DEFINE chunk == Chunk(doomed[p])
  <1>1. /\ db' = {r \in db : \A s \in chunk : s.id # r.id}
        /\ doomed'[p] = doomed[p] \ chunk /\ pc[p] \in Deleting
        /\ pc'[p] = IF doomed[p] \subseteq chunk THEN "reported" ELSE "delete"
        /\ UNCHANGED <<lastId, saved, clock, report[p], horizon[p], stamp[p]>>
    BY DEF DeleteBatch, Memory, Goto, Deleting
  <1>2. chunk \subseteq doomed[p]
    BY DEF Chunk
  <1>3. \A r \in doomed'[p] : Due(r)'
    BY <1>1, <1>2, DueStays DEF Retained
  <1>4. ASSUME NEW r \in report[p], r \notin doomed'[p] PROVE ~Exists(r)'
    <2>1. CASE r \in chunk
      BY <1>1, <2>1 DEF Exists
    <2>2. CASE r \notin chunk
      <3>1. ~Exists(r) /\ r \in saved
        BY <1>1, <1>4, <2>2 DEF Retained
      <3>. QED
        BY <3>1, GoneStays
    <2>. QED
      BY <2>1, <2>2
  <1>5. horizon[p] \in Int /\ horizon[p] <= lastId
    BY DEF Memory, Retained
  <1>6. ASSUME NEW r \in Seen(p)', r \notin doomed'[p] PROVE Kept(p, r)'
    <2>1. r \in Seen(p) /\ r \notin chunk
      BY <1>1, <1>5, GoneStays DEF Seen
    <2>2. Kept(p, r)
      BY <1>1, <1>6, <2>1 DEF Retained
    <2>. QED
      BY <1>1, <1>5, <2>2, KeptStays
  <1>7. pc'[p] = "reported" => doomed'[p] = {}
    BY <1>1
  <1>. QED
    BY <1>1, <1>2, <1>3, <1>4, <1>5, <1>6, <1>7 DEF Retained

LEMMA RetainedStep ==
  ASSUME Table, Table', Memory, Memory', Others, [StoreNext]_vars, NEW p \in Procs, Retained(p)
  PROVE  Retained(p)'
  <1>1. CASE UNCHANGED Local(p)
    BY <1>1, PlanStays DEF Local
  <1>2. CASE Exit(p)
    <2>1. pc'[p] = "idle" /\ doomed'[p] = {} /\ report'[p] = {} /\ horizon'[p] = 0
      BY <1>2 DEF Exit, Goto, Memory
    <2>. QED
      BY <2>1 DEF Retained, Deleting, Table
  <1>3. CASE ListAudits(p) /\ ~Exit(p)
    BY <1>3, ListedIsDue
  <1>4. CASE DeleteBatch(p)
    BY <1>4, BatchKeepsPlan
  <1>5. CASE Step(p) /\ ~Exit(p) /\ ~ListAudits(p) /\ ~DeleteBatch(p)
    <2>1. UNCHANGED <<doomed[p], report[p], horizon[p]>> /\ pc'[p] \notin Deleting
      BY <1>5
      DEF Step, BeginAudit, Lookup, LoadHit, Stamp, Commit, BeginPrune, Preview, BeginDiff,
          PickBaseline, PickNewest, LoadOld, LoadNew, GetAudit, Leave, Goto, Deleting, Memory,
          retVars, pickVars
    <2>. QED
      BY <2>1, PlanStays
  <1>. QED
    BY <1>1, <1>2, <1>3, <1>4, <1>5, OthersRest

\* What leaves the table is due, or was removed by hand.
LEMMA SparesStep ==
  ASSUME Table, Table', Memory, Others, \A p \in Procs : Retained(p),
         RetentionSpares, [StoreNext]_vars
  PROVE  RetentionSpares'
  <1>1. erased \subseteq erased'
    BY DEF StoreNext, Tick, ClearAudits, DeleteAudit, BeginAudit, Lookup, LoadHit, Stamp, Commit,
           BeginPrune, Preview, ListAudits, DeleteBatch, BeginDiff, PickBaseline, PickNewest,
           LoadOld, LoadNew, GetAudit, Leave, vars, dbVars
  <1>2. ASSUME NEW r \in saved, r \notin db PROVE r \in erased' \/ Due(r)'
    BY <1>1, <1>2, DueStays DEF RetentionSpares, Due
  <1>3. ASSUME NEW r \in db, r \notin db' PROVE r \in erased' \/ Due(r)'
    <2>1. CASE ClearAudits \/ \E s \in db : DeleteAudit(s)
      BY <1>3, <2>1 DEF ClearAudits, DeleteAudit
    <2>2. ASSUME NEW p \in Procs, DeleteBatch(p) PROVE Due(r)'
      <3>1. PICK s \in Chunk(doomed[p]) : s.id = r.id
        BY <1>3, <2>2 DEF DeleteBatch
      <3>2. s \in doomed[p] /\ s \in saved
        BY <3>1 DEF Chunk, Retained
      <3>3. r = s
        BY <3>1, <3>2 DEF Table
      <3>. QED
        BY <3>2, <3>3, DueStays DEF Retained
    <2>3. ASSUME NEW p \in Procs, NEW assets \in Estates, Commit(p, assets) PROVE FALSE
      BY <1>3, <2>3, CommitAddsRow
    <2>. QED
      BY <1>3, <2>1, <2>2, <2>3
      DEF StoreNext, Tick, BeginAudit, Lookup, LoadHit, Stamp, BeginPrune, Preview, ListAudits,
          BeginDiff, PickBaseline, PickNewest, LoadOld, LoadNew, GetAudit, Leave, vars, dbVars
  <1>4. saved' \ saved \subseteq db'
    <2>1. ASSUME NEW p \in Procs, NEW assets \in Estates, Commit(p, assets)
          PROVE  saved' \ saved \subseteq db'
      BY <2>1, CommitAddsRow
    <2>. QED
      BY <2>1
      DEF StoreNext, Tick, ClearAudits, DeleteAudit, BeginAudit, Lookup, LoadHit, Stamp,
          BeginPrune, Preview, ListAudits, DeleteBatch, BeginDiff, PickBaseline, PickNewest,
          LoadOld, LoadNew, GetAudit, Leave, vars, dbVars
  <1>5. \A r \in saved' \ db' : r \in erased' \/ Due(r)'
    BY <1>2, <1>3, <1>4
  <1>. QED
    BY <1>5 DEF RetentionSpares, Due

-----------------------------------------------------------------------------
(* What a reader picks and loads.                                          *)

One(rows) == \A r, s \in rows : r = s

\* A baseline and a second row that `diff` may compare.
Comparable(p) ==
  \A r \in base[p], s \in newest[p] :
    /\ r.key = s.key /\ r.id # s.id
    /\ Newer(s, r) \/ r \notin db

Paired == {"newMeta", "newLoad", "diffed"}
Loading == {"oldMeta", "oldLoad", "newest"} \cup Paired

Picked(p) ==
  /\ base[p] \subseteq saved /\ newest[p] \subseteq saved
  /\ One(base[p]) /\ One(newest[p])
  /\ pc[p] \in Loading => \A r \in base[p] : r.at <= stamp[p]
  /\ pc[p] \in {"served", "newest"} \cup Paired => Loaded(old[p], base[p])
  /\ pc[p] \in Paired => Comparable(p)
  /\ pc[p] = "diffed" => Loaded(new[p], newest[p])

LEMMA FirstIsOne ==
  ASSUME NEW rows \in SUBSET Rows
  PROVE  First(rows) \subseteq rows /\ One(First(rows))
  <1>1. ASSUME NEW r \in First(rows), NEW s \in First(rows), r # s PROVE FALSE
    <2>1. Newer(r, s) /\ Newer(s, r)
      BY <1>1 DEF First
    <2>2. r.at \in Int /\ s.at \in Int /\ r.id \in Int /\ s.id \in Int
      BY <1>1 DEF First, Rows
    <2>. QED
      BY <2>1, <2>2 DEF Newer
  <1>. QED
    BY <1>1 DEF First, One

\* The second query of a load finds the row's assets, or nothing.
LEMMA LoadFinds ==
  ASSUME Table, NEW r \in saved
  PROVE  LoadAssets(r) = IF r \in db THEN r.assets ELSE {}
  <1>1. {t \in db : t.id = r.id} = IF r \in db THEN {r} ELSE {}
    BY DEF Table
  <1>2. CASE r \in db
    <2>1. {s.assets : s \in {t \in db : t.id = r.id}} = {r.assets}
      BY <1>1, <1>2
    <2>. QED
      BY <1>2, <2>1 DEF LoadAssets
  <1>3. CASE r \notin db
    <2>1. {s.assets : s \in {t \in db : t.id = r.id}} = {}
      BY <1>1, <1>3
    <2>. QED
      BY <1>3, <2>1 DEF LoadAssets
  <1>. QED
    BY <1>2, <1>3

LEMMA PicksStay ==
  ASSUME Table, Table', Memory, Others, NEW p \in Procs, Picked(p),
         UNCHANGED <<base[p], newest[p], old[p], new[p]>>,
         UNCHANGED <<pc[p], stamp[p]>>
  PROVE  Picked(p)'
  <1>1. base[p] \subseteq saved' /\ newest[p] \subseteq saved'
    BY DEF Picked, Others
  <1>2. Loaded(old[p], base[p]) => Loaded(old[p], base[p])'
    BY GoneStays DEF Loaded, Others
  <1>3. Loaded(new[p], newest[p]) => Loaded(new[p], newest[p])'
    BY GoneStays DEF Loaded, Others
  <1>4. pc[p] \in Paired => Comparable(p)'
    BY GoneStays DEF Picked, Comparable, Newer
  <1>. QED
    BY <1>1, <1>2, <1>3, <1>4 DEF Picked, One

LEMMA PickedStep ==
  ASSUME Table, Table', Memory, Memory', Others, [StoreNext]_vars, NEW p \in Procs, Picked(p)
  PROVE  Picked(p)'
  <1>. USE DEF Loading, Paired
  <1>1. CASE UNCHANGED Local(p)
    BY <1>1, PicksStay DEF Local
  <1>2. CASE Exit(p)
    <2>1. pc'[p] = "idle" /\ base'[p] = {} /\ newest'[p] = {}
      BY <1>2, ExitIdles DEF Idle
    <2>. QED
      BY <2>1 DEF Picked, One
  <1>3. ASSUME UNCHANGED <<base[p], newest[p]>>,
               pc'[p] \notin Loading \cup {"served"}
        PROVE  Picked(p)'
    BY <1>3 DEF Picked, One, Others
  <1>4. CASE \/ \E k \in Keys : BeginAudit(p, k)
             \/ \E keys \in {Keys} \cup {{k} : k \in Keys}, t \in 0..MaxClock :
                  BeginDiff(p, keys, t)
             \/ Stamp(p) \/ (\E assets \in Estates : Commit(p, assets)) \/ BeginPrune(p)
             \/ DeleteBatch(p)
    BY <1>3, <1>4
    DEF BeginAudit, BeginDiff, Stamp, Commit, BeginPrune, DeleteBatch, Goto, Memory, pickVars
  <1>5. CASE (Preview(p) \/ ListAudits(p)) /\ ~Exit(p)
    BY <1>3, <1>5 DEF Preview, ListAudits, Goto, Memory, pickVars
  <1>6. CASE Lookup(p)
    <2>. DEFINE fresh == {r \in db : r.key \in want[p] /\ r.at + CacheMaxAge >= clock}
    <2>1. /\ base'[p] = First(fresh) /\ pc'[p] \in {"stamp", "hit"}
          /\ UNCHANGED <<newest[p], saved>>
      BY <1>6 DEF Lookup, Goto, Memory, dbVars
    <2>2. fresh \in SUBSET Rows /\ fresh \subseteq saved
      BY DEF Table
    <2>3. First(fresh) \subseteq saved /\ One(First(fresh))
      BY <2>2, FirstIsOne
    <2>. QED
      BY <2>1, <2>3 DEF Picked, One
  <1>7. CASE PickBaseline(p) /\ ~Exit(p)
    <2>1. /\ base'[p] = AuditBefore(p) /\ pc'[p] = "oldMeta"
          /\ UNCHANGED <<newest[p], saved, stamp[p]>>
      BY <1>7 DEF PickBaseline, Goto, Memory, dbVars
    <2>2. AuditBefore(p) \subseteq {r \in db : r.at <= stamp[p]} /\ One(AuditBefore(p))
      BY FirstIsOne DEF AuditBefore, Table
    <2>. QED
      BY <2>1, <2>2 DEF Picked, One, Table
  <1>8. CASE PickNewest(p) /\ ~Exit(p)
    <2>1. /\ newest'[p] = NewestAudit(p) /\ pc[p] = "newest" /\ pc'[p] = "newMeta"
          /\ UNCHANGED <<base[p], old[p], saved, db, stamp[p]>>
          /\ \E r \in NewestAudit(p) : \A s \in base[p] : r.id # s.id
      BY <1>8 DEF PickNewest, Goto, Memory, dbVars
    <2>. DEFINE series == {r \in db : \E s \in base[p] : r.key = s.key}
    <2>2. series \in SUBSET Rows
      BY DEF Table
    <2>3. NewestAudit(p) \subseteq series /\ One(NewestAudit(p))
      BY <2>2, FirstIsOne DEF NewestAudit
    <2>4. ASSUME NEW r \in base[p], NEW s \in NewestAudit(p)
          PROVE  r.key = s.key /\ r.id # s.id /\ (Newer(s, r) \/ r \notin db)
      <3>1. r.key = s.key
        BY <2>3, <2>4 DEF Picked, One
      <3>2. r.id # s.id
        BY <2>1, <2>3, <2>4 DEF One
      <3>3. r \in db => r \in series
        BY <2>4
      <3>. QED
        BY <2>4, <3>1, <3>2, <3>3 DEF NewestAudit, First
    <2>5. Comparable(p)'
      BY <2>1, <2>4 DEF Comparable, Newer
    <2>6. Loaded(old[p], base[p])'
      BY <2>1 DEF Picked, Loaded
    <2>. QED
      BY <2>1, <2>3, <2>5, <2>6 DEF Picked, One, Table
  <1>9. CASE LoadHit(p) \/ LoadOld(p)
    <2>1. PICK r \in base[p] : old' = [old EXCEPT ![p] = LoadAssets(r)]
      BY <1>9 DEF LoadHit, LoadOld
    <2>2. old'[p] = IF r \in db THEN r.assets ELSE {}
      BY <2>1, LoadFinds DEF Picked, Memory
    <2>3. /\ UNCHANGED <<db, saved, stamp[p], base[p], newest[p]>>
          /\ pc'[p] = "served" \/ (pc[p] = "oldLoad" /\ pc'[p] = "newest")
      BY <1>9 DEF LoadHit, LoadOld, Goto, Memory, dbVars
    <2>4. Loaded(old[p], base[p])'
      BY <2>1, <2>2, <2>3 DEF Picked, Loaded, One
    <2>. QED
      BY <2>3, <2>4 DEF Picked, One
  <1>10. CASE LoadNew(p)
    <2>1. PICK r \in newest[p] : new' = [new EXCEPT ![p] = LoadAssets(r)]
      BY <1>10 DEF LoadNew
    <2>2. new'[p] = IF r \in db THEN r.assets ELSE {}
      BY <2>1, LoadFinds DEF Picked, Memory
    <2>3. /\ UNCHANGED <<db, saved, stamp[p], base[p], newest[p], old[p]>>
          /\ pc[p] = "newLoad" /\ pc'[p] = "diffed"
      BY <1>10 DEF LoadNew, Goto, Memory, dbVars
    <2>4. Loaded(new[p], newest[p])'
      BY <2>1, <2>2, <2>3 DEF Picked, Loaded, One
    <2>5. Loaded(old[p], base[p])' /\ Comparable(p)'
      BY <2>3 DEF Picked, Loaded, Comparable, Newer
    <2>. QED
      BY <2>3, <2>4, <2>5 DEF Picked, One
  <1>11. CASE /\ ~Exit(p)
              /\ \/ GetAudit(p, "oldMeta", base[p], "oldLoad")
                 \/ GetAudit(p, "newMeta", newest[p], "newLoad")
    <2>1. /\ UNCHANGED <<db, saved, stamp[p], base[p], newest[p], old[p], new[p]>>
          /\ \/ pc[p] = "oldMeta" /\ pc'[p] = "oldLoad"
             \/ pc[p] = "newMeta" /\ pc'[p] = "newLoad"
      BY <1>11 DEF GetAudit, Goto, Memory, dbVars, pickVars
    <2>2. Loaded(old[p], base[p]) => Loaded(old[p], base[p])'
      BY <2>1 DEF Loaded
    <2>3. Comparable(p) => Comparable(p)'
      BY <2>1 DEF Comparable, Newer
    <2>. QED
      BY <2>1, <2>2, <2>3 DEF Picked, One
  <1>12. CASE Leave(p)
    BY <1>2, <1>12 DEF Leave
  <1>. QED
    BY <1>1, <1>2, <1>4, <1>5, <1>6, <1>7, <1>8, <1>9, <1>10, <1>11, <1>12, OthersRest DEF Step

-----------------------------------------------------------------------------
(* Types, and the theorems.                                                *)

LEMMA MemoryStep == Table /\ Memory /\ Table' /\ [StoreNext]_vars => Memory'
  <1>. SUFFICES ASSUME Table, Memory, Table', [StoreNext]_vars PROVE Memory'
    OBVIOUS
  <1>1. ASSUME UNCHANGED <<pc, want, stamp, retVars, pickVars>> PROVE Memory'
    BY <1>1 DEF Memory, retVars, pickVars
  <1>2. ASSUME NEW p \in Procs, Exit(p) PROVE Memory'
    BY <1>2, StoreAssumption DEF Memory, Exit, Goto
  <1>3. \A rows \in SUBSET Rows : First(rows) \in SUBSET Rows
    BY DEF First
  <1>4. ASSUME NEW p \in Procs, NEW k \in Keys, BeginAudit(p, k) PROVE Memory'
    BY <1>4 DEF BeginAudit, Memory, Goto, retVars, pickVars
  <1>5. ASSUME NEW p \in Procs, Lookup(p) PROVE Memory'
    <2>. DEFINE fresh == {r \in db : r.key \in want[p] /\ r.at + CacheMaxAge >= clock}
    <2>1. First(fresh) \in SUBSET Rows
      BY <1>3 DEF Table
    <2>. QED
      BY <1>5, <2>1 DEF Lookup, Memory, Goto, retVars
  <1>6. \A r \in Rows : LoadAssets(r) \in SUBSET Assets
    BY StoreAssumption DEF LoadAssets, Table, Rows
  <1>7. ASSUME NEW p \in Procs, LoadHit(p) \/ LoadOld(p) \/ LoadNew(p) PROVE Memory'
    BY <1>6, <1>7 DEF LoadHit, LoadOld, LoadNew, Memory, Goto, retVars
  <1>8. ASSUME NEW p \in Procs, Stamp(p) \/ BeginPrune(p) PROVE Memory'
    BY <1>8 DEF Stamp, BeginPrune, Memory, Table, Goto, retVars, pickVars
  <1>9. ASSUME NEW p \in Procs, NEW assets \in Estates, Commit(p, assets) PROVE Memory'
    BY <1>9 DEF Commit, Memory, Goto, retVars, pickVars
  <1>10. ASSUME NEW p \in Procs, Preview(p) PROVE Memory'
    BY <1>2, <1>10 DEF Preview, Memory, Table, Goto, retVars, pickVars
  <1>11. ASSUME NEW p \in Procs, ListAudits(p), ~Exit(p) PROVE Memory'
    <2>1. PICK now \in stamp[p]..clock :
            LET rows == Doomed(db, now) IN
            /\ doomed' = [doomed EXCEPT ![p] = rows]
            /\ report' = [report EXCEPT ![p] = rows]
            /\ horizon' = [horizon EXCEPT ![p] = lastId]
            /\ stamp' = [stamp EXCEPT ![p] = now]
            /\ Goto(p, "delete")
            /\ UNCHANGED <<want, pickVars>>
      BY <1>11 DEF ListAudits
    <2>2. Doomed(db, now) \in SUBSET Rows
      BY DEF Doomed, Table
    <2>3. now \in 0..MaxClock /\ lastId \in 0..MaxSaves
      BY StoreAssumption DEF Table, Memory
    <2>. QED
      BY <2>1, <2>2, <2>3 DEF Memory, Goto, pickVars
  <1>12. ASSUME NEW p \in Procs, DeleteBatch(p) PROVE Memory'
    <2>1. doomed[p] \ Chunk(doomed[p]) \in SUBSET Rows
      BY DEF Memory
    <2>. QED
      BY <1>12, <2>1 DEF DeleteBatch, Memory, Goto, pickVars
  <1>13. ASSUME NEW p \in Procs,
                NEW keys \in {Keys} \cup {{k} : k \in Keys}, NEW t \in 0..MaxClock,
                BeginDiff(p, keys, t)
         PROVE  Memory'
    BY <1>13 DEF BeginDiff, Memory, Goto, retVars, pickVars
  <1>14. ASSUME NEW p \in Procs, PickBaseline(p) PROVE Memory'
    <2>1. AuditBefore(p) \in SUBSET Rows
      BY <1>3 DEF AuditBefore, Table
    <2>. QED
      BY <1>2, <1>14, <2>1 DEF PickBaseline, Memory, Goto, retVars
  <1>15. ASSUME NEW p \in Procs, PickNewest(p) PROVE Memory'
    <2>1. NewestAudit(p) \in SUBSET Rows
      BY <1>3 DEF NewestAudit, Table
    <2>. QED
      BY <1>2, <1>15, <2>1 DEF PickNewest, Memory, Goto, retVars
  <1>16. ASSUME NEW p \in Procs,
                \/ GetAudit(p, "oldMeta", base[p], "oldLoad")
                \/ GetAudit(p, "newMeta", newest[p], "newLoad")
         PROVE  Memory'
    BY <1>2, <1>16 DEF GetAudit, Memory, Goto, retVars, pickVars
  <1>. QED
    BY <1>1, <1>2, <1>4, <1>5, <1>7, <1>8, <1>9, <1>10, <1>11, <1>12, <1>13, <1>14, <1>15, <1>16
    DEF StoreNext, Tick, ClearAudits, DeleteAudit, Leave, vars

\* What holds between any two statements of any processes.
StoreInv ==
  /\ Table /\ Memory
  /\ \A p \in Procs : Retained(p) /\ Picked(p)
  /\ RetentionSpares

LEMMA StoreInvInit == StoreInit => StoreInv
  <1>. SUFFICES ASSUME StoreInit PROVE StoreInv
    OBVIOUS
  <1>1. Table
    BY FS_EmptySet, StoreAssumption DEF StoreInit, Table
  <1>2. Memory
    BY StoreAssumption DEF StoreInit, Memory
  <1>3. \A p \in Procs : Retained(p) /\ Picked(p)
    BY DEF StoreInit, Retained, Picked, One, Deleting, Loading, Paired
  <1>4. RetentionSpares
    BY DEF StoreInit, RetentionSpares
  <1>. QED
    BY <1>1, <1>2, <1>3, <1>4 DEF StoreInv

LEMMA StoreInvStep == StoreInv /\ [StoreNext]_vars => StoreInv'
  <1>. SUFFICES ASSUME StoreInv, [StoreNext]_vars PROVE StoreInv'
    OBVIOUS
  <1>1. Table' /\ Others
    BY TableStep DEF StoreInv
  <1>2. Memory'
    BY <1>1, MemoryStep DEF StoreInv
  <1>3. \A p \in Procs : Retained(p)' /\ Picked(p)'
    BY <1>1, <1>2, RetainedStep, PickedStep DEF StoreInv
  <1>4. RetentionSpares'
    BY <1>1, SparesStep DEF StoreInv
  <1>. QED
    BY <1>1, <1>2, <1>3, <1>4 DEF StoreInv

LEMMA StoreInvariant == StoreSpec => []StoreInv
  BY StoreInvInit, StoreInvStep, PTL DEF StoreSpec

\* Every variable keeps its type, and no two stored snapshots share an id.
THEOREM StoreTypeCorrect == StoreSpec => []StoreTypeOK
  <1>1. StoreInv => StoreTypeOK
    BY DEF StoreInv, Table, Memory, StoreTypeOK
  <1>. QED
    BY <1>1, StoreInvariant, PTL

\* However many processes save, prune, remove and die at the same time, and
\* whatever the policy: retention takes only what is too old, superseded by
\* KeepLast newer ones of its series, or was removed by hand.
THEOREM RetentionTakesOnlyTheDue == StoreSpec => []RetentionSpares
  <1>1. StoreInv => RetentionSpares
    BY DEF StoreInv
  <1>. QED
    BY <1>1, StoreInvariant, PTL

\* When ApplyRetention returns, what it saw of the table keeps the policy.
THEOREM RetentionIsThorough == StoreSpec => []RetentionBounds
  <1>1. StoreInv => RetentionBounds
    BY DEF StoreInv, Retained, Deleting, Seen, Kept, RetentionBounds
  <1>. QED
    BY <1>1, StoreInvariant, PTL

\* What a prune names is gone for good, whichever ids are given later.
THEOREM PrunedIsGone == StoreSpec => []ReportedIsGone
  <1>1. StoreInv => ReportedIsGone
    BY DEF StoreInv, Retained, Deleting, ReportedIsGone
  <1>. QED
    BY <1>1, StoreInvariant, PTL

\* Whatever is deleted in between its statements, a diff that completes
\* compares two snapshots of one series in their order.
THEOREM DiffsCompareOneSeries == StoreSpec => []DiffIsComparable
  <1>1. StoreInv => DiffIsComparable
    BY DEF StoreInv, Picked, Comparable, Loading, Paired, DiffIsComparable
  <1>. QED
    BY <1>1, StoreInvariant, PTL
=============================================================================
