-------------------------------- MODULE Memory --------------------------------
(* The cross-session memory (memory/manager.py): the index and the daily files *)
(* on disk, and per agent a manager with its cache of the index, the weights   *)
(* it has not written yet and its flush thread.  Each operation holds the      *)
(* manager's write lock (RwLock); several managers share one directory.        *)
EXTENDS Integers, FiniteSets

CONSTANTS
  Managers,      \* the MemoryManagers on one directory
  Sessions,      \* session ids
  MaxId,         \* bound: ids of the index
  MaxHits,       \* bound: weight changes
  MaxTouches,    \* bound: edits of the files from outside
  MaxMemCrashes, \* bound: ends of the process
  Careless       \* whether a clean-up or a failed save may come while weights are not written yet

VARIABLES
  index,         \* index.json: per id the entry
  md,            \* daily files: per day and id, whose conversation the block holds
  today,         \* 0, or 1 when the retention of day 0 is over
  lastClean,     \* last_cleanup_date, -1 at first
  cache,         \* per manager: the index it holds, and whether the files have changed since
  deltas,        \* per manager: _pending_deltas
  dirty,         \* per manager: _dirty
  memWork,       \* per manager: what its thread that saves is doing, for which id
  matched,       \* per manager: ids a search has found and not yet rewarded
  hits,          \* history: per id, the weight its entry was given
  budget         \* what is left of the bounds

memVars == <<index, md, today, lastClean, cache, deltas, dirty, memWork, matched, hits, budget>>

EntryIds == 1..MaxId
None == [sess |-> "none", day |-> 0, weight |-> 0]
EntryListed(x) == {i \in EntryIds : x[i].sess # "none"}
NoDeltas == [i \in EntryIds |-> 0]
MemResting == [at |-> "idle", id |-> 0]
LockFree(m) == memWork[m].at \in {"idle", "gate"}
MemSpend(what) == budget[what] > 0 /\ budget' = [budget EXCEPT ![what] = @ - 1]

\* A plausible slip: what is not written yet is lost when the files have changed.
CacheRebuiltBare(m) == index

\* _rebuild_cache_from_disk: the weights not yet written are applied again.
CacheRebuilt(m) == [i \in EntryIds |-> [index[i] EXCEPT !.weight = IF index[i].sess = "none" THEN 0 ELSE @ + deltas[m][i]]]

\* _ensure_fresh_locked, _refresh_if_stale: by the signature of the files.
Fresh(m) == IF cache[m].stale THEN CacheRebuilt(m) ELSE cache[m].index

\* m holds x; when it has written, the others' caches are stale.
Holds(m, x, wrote) == cache' = [k \in Managers |->
  IF k = m THEN [index |-> x, stale |-> FALSE] ELSE [cache[k] EXCEPT !.stale = @ \/ wrote]]

\* A plausible slip: ids are counted.
NextIdCounted(x) == Cardinality(EntryListed(x)) + 1

\* The next id after the largest.
NextId(x) == IF EntryListed(x) = {} THEN 1 ELSE 1 + CHOOSE i \in EntryListed(x) : \A j \in EntryListed(x) : j <= i
-----------------------------------------------------------------------------
\* save_conversation: the entry of this session and day, or a new one, goes to the index first.
SaveIndex(m, s) ==
  /\ memWork[m] = MemResting
  /\ LET x == Fresh(m)
         same == {i \in EntryListed(x) : x[i].sess = s /\ x[i].day = today}
         i == IF same # {} THEN CHOOSE j \in same : \A k \in same : j <= k ELSE NextId(x)
         y == IF same # {} THEN x ELSE [x EXCEPT ![i] = [sess |-> s, day |-> today, weight |-> 0]] IN
     /\ i \in EntryIds /\ index' = y /\ Holds(m, y, TRUE)
     /\ hits' = IF same # {} THEN hits ELSE [hits EXCEPT ![i] = 0]
     /\ memWork' = [memWork EXCEPT ![m] = [at |-> "block", id |-> i]]
  /\ UNCHANGED <<md, today, lastClean, deltas, dirty, matched, budget>>

\* _update_or_append_daily under the lock of the file; everything is on disk now.
SaveBlock(m) ==
  /\ memWork[m].at = "block"
  /\ LET i == memWork[m].id IN
     md' = [md EXCEPT ![today][i] = cache[m].index[i].sess] /\ Holds(m, cache[m].index, TRUE)
  /\ deltas' = [deltas EXCEPT ![m] = NoDeltas] /\ dirty' = [dirty EXCEPT ![m] = FALSE]
  /\ memWork' = [memWork EXCEPT ![m].at = "gate"]
  /\ UNCHANGED <<index, today, lastClean, matched, hits, budget>>

\* The daily file cannot be written: the entry is in the index, the weights still count as not written.
BlockFails(m) ==
  /\ memWork[m].at = "block" /\ (Careless \/ deltas[m] = NoDeltas) /\ memWork' = [memWork EXCEPT ![m] = MemResting]
  /\ UNCHANGED <<index, md, today, lastClean, cache, deltas, dirty, matched, hits, budget>>

\* _maybe_auto_cleanup, once a day; the entries of day 0 that have no weight are out of retention on day 1.
Expired(x) == {i \in EntryListed(x) : x[i].day < today /\ x[i].weight <= 0}

CleanIndex(m) ==
  /\ memWork[m].at = "gate" /\ (Careless \/ deltas[m] = NoDeltas)
  /\ IF lastClean = today \/ Expired(Fresh(m)) = {}
     THEN memWork' = [memWork EXCEPT ![m] = MemResting] /\ lastClean' = today /\ UNCHANGED <<index, cache>>
     ELSE LET kept == [i \in EntryIds |-> IF i \in Expired(Fresh(m)) THEN None ELSE Fresh(m)[i]] IN
          /\ index' = kept /\ Holds(m, kept, TRUE)
          /\ memWork' = [memWork EXCEPT ![m].at = "blocks"] /\ UNCHANGED lastClean
  /\ UNCHANGED <<md, today, deltas, dirty, matched, hits, budget>>

\* _remove_entry_blocks of what has left the index, then the date
CleanBlocks(m) ==
  /\ memWork[m].at = "blocks" /\ lastClean' = today
  /\ md' = [md EXCEPT ![0] = [i \in EntryIds |-> IF cache[m].index[i].sess = "none" THEN "none" ELSE md[0][i]]]
  /\ Holds(m, cache[m].index, TRUE) /\ memWork' = [memWork EXCEPT ![m] = MemResting]
  /\ UNCHANGED <<index, today, deltas, dirty, matched, hits, budget>>
-----------------------------------------------------------------------------
\* search: what was found under the read lock is rewarded later under the write lock.
Search(m) ==
  /\ LockFree(m) /\ matched[m] = {} /\ MemSpend("hits") /\ Holds(m, Fresh(m), FALSE)
  /\ \E found \in SUBSET EntryListed(Fresh(m)) : found # {} /\ matched' = [matched EXCEPT ![m] = found]
  /\ UNCHANGED <<index, md, today, lastClean, deltas, dirty, memWork, hits>>

Weighted(m, x, stale, ids, delta) ==
  LET held == ids \cap EntryListed(x) IN
  /\ cache' = [cache EXCEPT ![m] = [stale |-> stale, index |->
       [i \in EntryIds |-> IF i \in held THEN [x[i] EXCEPT !.weight = @ + delta] ELSE x[i]]]]
  /\ deltas' = [deltas EXCEPT ![m] = [i \in EntryIds |-> IF i \in held THEN @[i] + delta ELSE @[i]]]
  /\ hits' = [i \in EntryIds |-> IF i \in held THEN hits[i] + delta ELSE hits[i]]
  /\ dirty' = [dirty EXCEPT ![m] = TRUE]

\* _apply_hits takes the cached index as it is.
ApplyHits(m) ==
  /\ LockFree(m) /\ matched[m] # {} /\ Weighted(m, cache[m].index, cache[m].stale, matched[m], 1) /\ matched' = [matched EXCEPT ![m] = {}]
  /\ UNCHANGED <<index, md, today, lastClean, memWork, budget>>

\* update_weight of the memory_update tool, on the index as it is now
UpdateWeight(m, i, delta) ==
  /\ LockFree(m) /\ i \in EntryListed(Fresh(m)) /\ MemSpend("hits") /\ Weighted(m, Fresh(m), FALSE, {i}, delta)
  /\ UNCHANGED <<index, md, today, lastClean, memWork, matched>>

\* A plausible slip: the flush leaves the deltas, which are then applied twice.
FlushedDeltasKept(m) == deltas

\* What is written needs no second application.
FlushedDeltas(m) == [deltas EXCEPT ![m] = NoDeltas]

\* _flush writes the cached index as it is, without a look at the files.
Flush(m) ==
  /\ LockFree(m) /\ dirty[m] /\ index' = cache[m].index /\ dirty' = [dirty EXCEPT ![m] = FALSE]
  /\ deltas' = FlushedDeltas(m) /\ Holds(m, cache[m].index, TRUE)
  /\ UNCHANGED <<md, today, lastClean, memWork, matched, hits, budget>>
-----------------------------------------------------------------------------
\* Somebody edits a file; days pass; the process ends, and weights that were not written are lost.
Touched ==
  /\ MemSpend("touches") /\ cache' = [m \in Managers |-> [cache[m] EXCEPT !.stale = TRUE]]
  /\ UNCHANGED <<index, md, today, lastClean, deltas, dirty, memWork, matched, hits>>

DayPasses ==
  /\ today = 0 /\ \A m \in Managers : memWork[m] = MemResting
  /\ today' = 1 /\ UNCHANGED <<index, md, lastClean, cache, deltas, dirty, memWork, matched, hits, budget>>

MemCrash ==
  /\ MemSpend("crashes") /\ hits' = [i \in EntryIds |-> index[i].weight]
  /\ cache' = [m \in Managers |-> [index |-> [i \in EntryIds |-> None], stale |-> TRUE]]
  /\ deltas' = [m \in Managers |-> NoDeltas] /\ dirty' = [m \in Managers |-> FALSE]
  /\ memWork' = [m \in Managers |-> MemResting] /\ matched' = [m \in Managers |-> {}]
  /\ UNCHANGED <<index, md, today, lastClean>>

MemInit ==
  /\ index = [i \in EntryIds |-> None] /\ md = [d \in 0..1 |-> [i \in EntryIds |-> "none"]] /\ today = 0 /\ lastClean = -1
  /\ cache = [m \in Managers |-> [index |-> index, stale |-> TRUE]] /\ deltas = [m \in Managers |-> NoDeltas]
  /\ dirty = [m \in Managers |-> FALSE] /\ memWork = [m \in Managers |-> MemResting]
  /\ matched = [m \in Managers |-> {}] /\ hits = NoDeltas
  /\ budget = [hits |-> MaxHits, touches |-> MaxTouches, crashes |-> MaxMemCrashes]

MemNext ==
  \/ \E m \in Managers :
       \/ SaveBlock(m) \/ BlockFails(m) \/ CleanIndex(m) \/ CleanBlocks(m) \/ Search(m) \/ ApplyHits(m) \/ Flush(m)
       \/ \E s \in Sessions : SaveIndex(m, s)
       \/ \E i \in EntryIds, delta \in {1, -1} : UpdateWeight(m, i, delta)
  \/ Touched \/ DayPasses \/ MemCrash

MemSpec == MemInit /\ [][MemNext]_memVars
-----------------------------------------------------------------------------
\* Types.
MemTypeOK ==
  /\ \A i \in EntryIds : index[i].sess \in Sessions \cup {"none"} /\ index[i].weight \in -MaxHits..MaxHits /\ index[i].day \in 0..1
  /\ \A m \in Managers : matched[m] \subseteq EntryIds /\ memWork[m].at \in {"idle", "block", "gate", "blocks"}

\* Every weight a search or the model gave an entry is counted once, whatever was rebuilt or written in between
\* (manager.py:778).
WeightsAreCounted == \A m \in Managers : LockFree(m) => \A i \in EntryListed(Fresh(m)) : Fresh(m)[i].weight = hits[i]

\* The block an entry points at holds that entry's conversation.
BlockIsOwn == \A i \in EntryListed(index) : (\A m \in Managers : LockFree(m)) =>
  md[index[i].day][i] \in {index[i].sess, "none"}

\* Deviation of the code (see the README): only the clean-up takes an entry out of the index.
EntriesStay == [][\A i \in EntryListed(index) : index'[i].sess = index[i].sess \/ \E m \in Managers : CleanIndex(m)]_memVars
=============================================================================
