---------------------------- MODULE SnapshotStore ---------------------------
(***************************************************************************)
(* The snapshot cache: one SQLite file (src/internal/store) that several   *)
(* auditor processes open at once - a scheduled `audit --cache`, a `cache  *)
(* prune`, `cache rm` or `cache clear`, a `diff --since`.                  *)
(*                                                                         *)
(* SQLite makes each statement, and SaveAudit's transaction, one step.     *)
(* What a command does in several statements is several steps here, and    *)
(* other processes run between them.  Deleting an audits row takes its     *)
(* asset rows with it (ON DELETE CASCADE), so a row carries its assets.    *)
(***************************************************************************)
EXTENDS Naturals, FiniteSets

CONSTANTS
  Procs,       \* auditor processes
  Auditors,    \* those that run `audit --cache`,
  Pruners,     \* `cache prune`,
  Differs,     \* or `diff --since`, again and again
  Keys,        \* provider sets, as providerKey spells them
  Assets,      \* assets a snapshot may hold
  Estates,     \* what an audit may find, each a set of assets
  KeepLast,    \* the retention policy; 0 is no limit on that axis
  MaxAge,
  CacheMaxAge, \* --cache-max-age; 0 never reads the cache
  Batch,       \* sqlBatch, ids per DELETE
  MaxSaves,    \* bounds: snapshots ever saved, and the wall clock
  MaxClock

ASSUME StoreAssumption ==
  /\ Auditors \cup Pruners \cup Differs \subseteq Procs
  /\ Estates \subseteq SUBSET Assets
  /\ KeepLast \in Nat /\ MaxAge \in Nat /\ CacheMaxAge \in Nat
  /\ Batch \in Nat \ {0}
  /\ MaxSaves \in Nat /\ MaxClock \in Nat

VARIABLES
  db,       \* the audits table with its asset rows
  lastId,   \* sqlite_sequence of the AUTOINCREMENT id
  clock,    \* unix seconds
  pc,       \* per process, what it does next
  want,     \* per process, the provider sets its query accepts
  stamp,    \* per process, a time it read from the clock or --since
  horizon,  \* per process, lastId when it listed the audits
  doomed,   \* per process, listed rows not yet deleted
  report,   \* per process, the rows ApplyRetention will return
  base,     \* per process, the row (at most one) its query picked first
  newest,   \* per process, the second row `diff` picked
  old,      \* per process, what it loaded for base
  new,      \* per process, what it loaded for newest
  saved,    \* history: every row ever committed
  erased    \* history: rows removed by `cache rm` and `cache clear`

dbVars   == <<db, lastId, saved, erased>>
pickVars == <<base, newest, old, new>>
retVars  == <<horizon, doomed, report>>
vars == <<dbVars, clock, pc, want, stamp, retVars, pickVars>>

Rows == [id : 1..MaxSaves, at : 0..MaxClock, key : Keys, assets : Estates]

StoreTypeOK ==
  /\ \A r, s \in db : r.id = s.id => r = s
  /\ db \in SUBSET Rows /\ saved \in SUBSET Rows /\ erased \in SUBSET Rows
  /\ lastId \in 0..MaxSaves /\ clock \in 0..MaxClock
  /\ pc \in [Procs -> {"idle", "lookup", "hit", "served", "stamp", "commit",
                       "preview", "list", "delete", "reported", "baseline",
                       "oldMeta", "oldLoad", "newest", "newMeta", "newLoad", "diffed"}]
  /\ want \in [Procs -> SUBSET Keys]
  /\ stamp \in [Procs -> 0..MaxClock]
  /\ horizon \in [Procs -> 0..MaxSaves]
  /\ doomed \in [Procs -> SUBSET Rows] /\ report \in [Procs -> SUBSET Rows]
  /\ base \in [Procs -> SUBSET Rows] /\ newest \in [Procs -> SUBSET Rows]
  /\ old \in [Procs -> SUBSET Assets] /\ new \in [Procs -> SUBSET Assets]

StoreInit ==
  /\ db = {} /\ lastId = 0 /\ clock = 0 /\ saved = {} /\ erased = {}
  /\ pc = [p \in Procs |-> "idle"]
  /\ want = [p \in Procs |-> {}]
  /\ stamp = [p \in Procs |-> 0]
  /\ horizon = [p \in Procs |-> 0]
  /\ doomed = [p \in Procs |-> {}] /\ report = [p \in Procs |-> {}]
  /\ base = [p \in Procs |-> {}] /\ newest = [p \in Procs |-> {}]
  /\ old = [p \in Procs |-> {}] /\ new = [p \in Procs |-> {}]

-----------------------------------------------------------------------------
(* Queries.                                                                *)

\* ORDER BY run_at DESC, id DESC: s comes before r.
Newer(s, r) == s.at > r.at \/ (s.at = r.at /\ s.id > r.id)

\* The first row of a selection in that order (LIMIT 1), as a set.
First(rows) == {r \in rows : \A s \in rows \ {r} : Newer(r, s)}

\* How many rows of its own series come before r: the index in its bucket.
Rank(r, rows) == Cardinality({s \in rows : s.key = r.key /\ Newer(s, r)})

\* Mutant of Doomed: the rank counts over all series.
DoomedGlobally(rows, now) ==
  {r \in rows : \/ KeepLast > 0 /\ Cardinality({s \in rows : Newer(s, r)}) >= KeepLast
                \/ MaxAge > 0 /\ r.at + MaxAge < now}

\* Mutant of Doomed: `i > p.KeepLast`.
DoomedOffByOne(rows, now) ==
  {r \in rows : \/ KeepLast > 0 /\ Rank(r, rows) > KeepLast
                \/ MaxAge > 0 /\ r.at + MaxAge < now}

\* AuditsToPrune: a snapshot has to survive both axes to be kept.
Doomed(rows, now) ==
  {r \in rows : \/ KeepLast > 0 /\ Rank(r, rows) >= KeepLast
                \/ MaxAge > 0 /\ r.at + MaxAge < now}

\* SELECT ... FROM assets WHERE audit_id = r.id: no rows when r is gone.
LoadAssets(r) == UNION {s.assets : s \in {t \in db : t.id = r.id}}

\* GetAudit finds the id.
Exists(r) == \E s \in db : s.id = r.id

Goto(p, where) == pc' = [pc EXCEPT ![p] = where]

\* The process exits; a run that starts later knows nothing of this one.
Exit(p) ==
  /\ Goto(p, "idle")
  /\ want' = [want EXCEPT ![p] = {}]
  /\ stamp' = [stamp EXCEPT ![p] = 0]
  /\ horizon' = [horizon EXCEPT ![p] = 0]
  /\ doomed' = [doomed EXCEPT ![p] = {}]
  /\ report' = [report EXCEPT ![p] = {}]
  /\ base' = [base EXCEPT ![p] = {}]
  /\ newest' = [newest EXCEPT ![p] = {}]
  /\ old' = [old EXCEPT ![p] = {}]
  /\ new' = [new EXCEPT ![p] = {}]

-----------------------------------------------------------------------------
(* audit --cache: LatestAudit, then SaveAudit and applyRetention.          *)

BeginAudit(p, k) ==
  /\ pc[p] = "idle" /\ p \in Auditors
  /\ Goto(p, IF CacheMaxAge > 0 THEN "lookup" ELSE "stamp")
  /\ want' = [want EXCEPT ![p] = {k}]
  /\ UNCHANGED <<dbVars, clock, stamp, retVars, pickVars>>

\* LatestAudit's first query; without a fresh row the audit runs live.
Lookup(p) ==
  LET fresh == {r \in db : r.key \in want[p] /\ r.at + CacheMaxAge >= clock} IN
  /\ pc[p] = "lookup"
  /\ base' = [base EXCEPT ![p] = First(fresh)]
  /\ Goto(p, IF fresh = {} THEN "stamp" ELSE "hit")
  /\ UNCHANGED <<dbVars, clock, want, stamp, retVars, newest, old, new>>

\* Its second query, after which the snapshot is served as fresh.
LoadHit(p) ==
  /\ pc[p] = "hit"
  /\ \E r \in base[p] : old' = [old EXCEPT ![p] = LoadAssets(r)]
  /\ Goto(p, "served")
  /\ UNCHANGED <<dbVars, clock, want, stamp, retVars, base, newest, new>>

\* SaveAudit reads the clock before its INSERT waits for the write lock.
Stamp(p) ==
  /\ pc[p] = "stamp" /\ lastId < MaxSaves
  /\ stamp' = [stamp EXCEPT ![p] = clock]
  /\ Goto(p, "commit")
  /\ UNCHANGED <<dbVars, clock, want, retVars, pickVars>>

\* Mutant of NextId: INTEGER PRIMARY KEY without AUTOINCREMENT.
NextIdReused == 1 + Cardinality({i \in 1..lastId : \E r \in db : r.id >= i})

\* Mutant of NextId: the id of the insert before.
NextIdStale == lastId

\* AUTOINCREMENT: past every id ever given, deleted ones included.
NextId == lastId + 1

\* The transaction: the audits row and all its asset rows.
Commit(p, assets) ==
  /\ pc[p] = "commit" /\ lastId < MaxSaves
  /\ \E k \in want[p] :
       LET r == [id |-> NextId, at |-> stamp[p], key |-> k, assets |-> assets] IN
       db' = db \cup {r} /\ saved' = saved \cup {r} /\ lastId' = r.id
  /\ Goto(p, "list")
  /\ want' = [want EXCEPT ![p] = {}]
  /\ UNCHANGED <<clock, stamp, retVars, pickVars, erased>>

-----------------------------------------------------------------------------
(* cache prune, and the retention that follows every save.                 *)

BeginPrune(p) ==
  /\ pc[p] = "idle" /\ p \in Pruners
  /\ KeepLast > 0 \/ MaxAge > 0         \* prunePolicy refuses an empty policy
  /\ Goto(p, "preview")
  /\ stamp' = [stamp EXCEPT ![p] = clock]
  /\ UNCHANGED <<dbVars, clock, want, retVars, pickVars>>

\* AuditsToPrune for the preview: "Nothing to prune", --dry-run, or go on.
Preview(p) ==
  /\ pc[p] = "preview"
  /\ \/ /\ Doomed(db, stamp[p]) # {}
        /\ Goto(p, "list")
        /\ stamp' = [stamp EXCEPT ![p] = clock]
        /\ UNCHANGED <<want, retVars, pickVars>>
     \/ Exit(p)
  /\ UNCHANGED <<dbVars, clock>>

\* AuditsToPrune inside ApplyRetention: one SELECT; its `now` was read between
\* the command's last reading of the clock and this one.
ListAudits(p) ==
  /\ pc[p] = "list"
  /\ \E now \in stamp[p]..clock :
       LET rows == Doomed(db, now) IN
       IF rows = {} THEN Exit(p)
       ELSE /\ doomed' = [doomed EXCEPT ![p] = rows]
            /\ report' = [report EXCEPT ![p] = rows]
            /\ horizon' = [horizon EXCEPT ![p] = lastId]
            /\ stamp' = [stamp EXCEPT ![p] = now]
            /\ Goto(p, "delete")
            /\ UNCHANGED <<want, pickVars>>
  /\ UNCHANGED <<dbVars, clock>>

\* The first Batch rows, newest first.
Chunk(rows) == {r \in rows : Cardinality({s \in rows : Newer(s, r)}) < Batch}

\* deleteAudits: one DELETE ... WHERE id IN (...) per chunk.
DeleteBatch(p) ==
  LET chunk == Chunk(doomed[p]) IN
  /\ pc[p] = "delete"
  /\ db' = {r \in db : \A s \in chunk : s.id # r.id}
  /\ doomed' = [doomed EXCEPT ![p] = @ \ chunk]
  /\ Goto(p, IF doomed[p] \subseteq chunk THEN "reported" ELSE "delete")
  /\ UNCHANGED <<lastId, saved, erased, clock, want, stamp, horizon, report, pickVars>>

-----------------------------------------------------------------------------
(* cache rm, cache clear: one statement each.                              *)

DeleteAudit(r) ==
  /\ r \in db
  /\ db' = db \ {r} /\ erased' = erased \cup {r}
  /\ UNCHANGED <<lastId, saved, clock, pc, want, stamp, retVars, pickVars>>

ClearAudits ==
  /\ db # {}
  /\ db' = {} /\ erased' = erased \cup db
  /\ UNCHANGED <<lastId, saved, clock, pc, want, stamp, retVars, pickVars>>

-----------------------------------------------------------------------------
(* diff --since t: storedDiffPair.                                         *)

\* --provider names one set; without it any series may hold the baseline.
BeginDiff(p, keys, since) ==
  /\ pc[p] = "idle" /\ p \in Differs
  /\ Goto(p, "baseline")
  /\ want' = [want EXCEPT ![p] = keys]
  /\ stamp' = [stamp EXCEPT ![p] = since]
  /\ UNCHANGED <<dbVars, clock, retVars, pickVars>>

AuditBefore(p) == First({r \in db : r.key \in want[p] /\ r.at <= stamp[p]})

PickBaseline(p) ==
  /\ pc[p] = "baseline"
  /\ IF AuditBefore(p) = {} THEN Exit(p)            \* noBaselineError
     ELSE /\ base' = [base EXCEPT ![p] = AuditBefore(p)]
          /\ Goto(p, "oldMeta")
          /\ UNCHANGED <<want, stamp, retVars, newest, old, new>>
  /\ UNCHANGED <<dbVars, clock>>

\* Mutant of NewestAudit: the newest snapshot of any series that was wanted.
NewestOfAny(p) == First({r \in db : r.key \in want[p]})

\* The newest row of the baseline's own provider set.
NewestAudit(p) == First({r \in db : \E s \in base[p] : r.key = s.key})

\* Nothing stored, or only the baseline itself: refused.
PickNewest(p) ==
  /\ pc[p] = "newest"
  /\ IF \E r \in NewestAudit(p) : \A s \in base[p] : r.id # s.id
     THEN /\ newest' = [newest EXCEPT ![p] = NewestAudit(p)]
          /\ Goto(p, "newMeta")
          /\ UNCHANGED <<want, stamp, retVars, base, old, new>>
     ELSE Exit(p)
  /\ UNCHANGED <<dbVars, clock>>

\* AuditAssets, first query: GetAudit, or "audit not found".
GetAudit(p, here, row, next) ==
  /\ pc[p] = here
  /\ IF \E r \in row : Exists(r)
     THEN Goto(p, next) /\ UNCHANGED <<want, stamp, retVars, pickVars>>
     ELSE Exit(p)
  /\ UNCHANGED <<dbVars, clock>>

\* Its second query: loadAssets.
LoadOld(p) ==
  /\ pc[p] = "oldLoad"
  /\ \E r \in base[p] : old' = [old EXCEPT ![p] = LoadAssets(r)]
  /\ Goto(p, "newest")
  /\ UNCHANGED <<dbVars, clock, want, stamp, retVars, base, newest, new>>

LoadNew(p) ==
  /\ pc[p] = "newLoad"
  /\ \E r \in newest[p] : new' = [new EXCEPT ![p] = LoadAssets(r)]
  /\ Goto(p, "diffed")
  /\ UNCHANGED <<dbVars, clock, want, stamp, retVars, base, newest, old>>

-----------------------------------------------------------------------------
\* A process returns, is killed, or gives up on an error of the database.
Leave(p) ==
  /\ pc[p] # "idle"
  /\ Exit(p)
  /\ UNCHANGED <<dbVars, clock>>

Tick ==
  /\ clock < MaxClock /\ clock' = clock + 1
  /\ UNCHANGED <<dbVars, pc, want, stamp, retVars, pickVars>>

StoreNext ==
  \/ Tick \/ ClearAudits
  \/ \E r \in db : DeleteAudit(r)
  \/ \E p \in Procs :
       \/ \E k \in Keys : BeginAudit(p, k)
       \/ Lookup(p) \/ LoadHit(p) \/ Stamp(p)
       \/ \E assets \in Estates : Commit(p, assets)
       \/ BeginPrune(p) \/ Preview(p) \/ ListAudits(p) \/ DeleteBatch(p)
       \/ \E keys \in {Keys} \cup {{k} : k \in Keys}, t \in 0..MaxClock :
            BeginDiff(p, keys, t)
       \/ PickBaseline(p) \/ PickNewest(p) \/ LoadOld(p) \/ LoadNew(p)
       \/ GetAudit(p, "oldMeta", base[p], "oldLoad")
       \/ GetAudit(p, "newMeta", newest[p], "newLoad")
       \/ Leave(p)

StoreSpec == StoreInit /\ [][StoreNext]_vars

-----------------------------------------------------------------------------
(* Properties.                                                             *)

\* Retention never eats what it should keep, whoever saves, prunes or dies at
\* the same time: a snapshot that is gone was removed by hand, is older than
\* MaxAge, or has KeepLast newer ones in its own series.
RetentionSpares ==
  \A r \in saved \ db :
    \/ r \in erased
    \/ MaxAge > 0 /\ r.at + MaxAge < clock
    \/ KeepLast > 0 /\ Rank(r, saved) >= KeepLast

\* Retention bounds the cache: when it returns, no series holds more than
\* KeepLast of the snapshots that were there when it looked, and none of them
\* is older than the cutoff it looked with.
RetentionBounds ==
  \A p \in Procs : pc[p] = "reported" =>
    LET rows == {r \in db : r.id <= horizon[p]} IN
    /\ KeepLast > 0 => \A r \in rows : Rank(r, rows) < KeepLast
    /\ MaxAge > 0 => \A r \in rows : r.at + MaxAge >= stamp[p]

\* "The returned slice is what was actually removed": none of the snapshots
\* prune names is still there, or ever comes back.
ReportedIsGone ==
  \A p \in Procs : pc[p] = "reported" =>
    \A r \in report[p] : ~Exists(r)

\* What `diff` and a cache hit load is one snapshot as it was saved, unless it
\* was deleted meanwhile.  A diff that completes compares two different ones of
\* one series, the baseline not after --since, and never a newer one with an
\* older one unless the baseline was deleted while the command ran.
Loaded(side, row) ==
  \A r \in row : r \in saved /\ (side = r.assets \/ (side = {} /\ r \notin db))
DiffIsComparable ==
  \A p \in Procs :
    /\ pc[p] \in {"served", "diffed"} => Loaded(old[p], base[p])
    /\ pc[p] = "diffed" => Loaded(new[p], newest[p])
    /\ pc[p] = "diffed" =>
       \A r \in base[p], s \in newest[p] :
          /\ r.key = s.key /\ r.id # s.id /\ r.at <= stamp[p]
          /\ Newer(s, r) \/ r \notin db

\* AuditAssets fails when no audit has the id, "distinct from an existing audit
\* that saved zero assets, which yields an empty slice": what a reader was
\* given without an error is what was saved.
LoadIsWhole ==
  \A p \in Procs : pc[p] = "diffed" =>
    /\ \A r \in base[p] : old[p] = r.assets
    /\ \A r \in newest[p] : new[p] = r.assets
=============================================================================
