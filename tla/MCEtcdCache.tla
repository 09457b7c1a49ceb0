---------------------------- MODULE MCEtcdCache ----------------------------
(***************************************************************************)
(* The Cache on its own, driven the way its two callers drive it: seeded   *)
(* with a GetEntries result (distinct keys) and advanced with arbitrary    *)
(* watch batches of at most MaxBatch events.  Cache is an exported type    *)
(* and UpdateByWatchEvent an exported method, so any batch is a legal      *)
(* call.  step is a ghost that records which call the last step was and,  *)
(* for a batch, the batch.                                                 *)
(***************************************************************************)
EXTENDS EtcdCache, FiniteSets

CONSTANTS MaxBatch

VARIABLE step

vars == <<instances, panicked, step>>

\* The keys a batch deletes.
DeletedBy(b) == {b[i].key : i \in {j \in DOMAIN b : b[j].op = DELETE}}

Batches == UNION {[1..n -> WatchEvent] : n \in 0..MaxBatch}

\* Results of one etcd range read: each key at most once, in some order.
Snapshots == {s \in UNION {[1..n -> KvEntry] : n \in 0..Cardinality(Keys)} :
                 IsInjective(KeyOrder(s))}

Init ==
    /\ instances = <<>>
    /\ panicked = FALSE
    /\ step = [kind |-> "none"]

Seed(kv) ==
    /\ UpdateByKvPair(kv)
    /\ step' = [kind |-> "snapshot"]

Watch(wev) ==
    /\ UpdateByWatchEvent(wev)
    /\ step' = [kind |-> "watch", batch |-> wev]

Next ==
    \/ \E kv \in Snapshots : Seed(kv)
    \/ \E wev \in Batches : Watch(wev)

Spec == Init /\ [][Next]_vars

-----------------------------------------------------------------------------
TypeOK ==
    /\ instances \in Seq(KvEntry)
    /\ panicked \in BOOLEAN
    /\ step.kind \in {"none", "snapshot", "watch"}

\* Spec 3: Cache.instances holds at most one entry per key, whatever
\* sequence of snapshots and batches UpdateByKvPair/UpdateByWatchEvent saw.
NoDuplicateKeys == IsInjective(KeyOrder(instances))

\* Spec 4.2 / 8: a batch moves no surviving entry.  The keys present before
\* the batch and not deleted by it keep their relative order, and every
\* key added by the batch comes after all of them.
BatchKeepsOrder ==
    [][ (step'.kind = "watch" /\ ~panicked') =>
          LET kept == {k \in ToSet(KeyOrder(instances)) : k \notin DeletedBy(step'.batch)}
              before == SelectSeq(KeyOrder(instances), LAMBDA k : k \in kept)
              after == KeyOrder(instances')
          IN after = before \o SelectSeq(after, LAMBDA k : k \notin kept)
      ]_vars

\* Spec 4.2: read as a map from key to value, the cache behaves as the
\* abstract KeyValueMap: UpdateByKvPair replaces it, and UpdateByWatchEvent
\* applies exactly the puts and deletes of its batch, in order.  A batch
\* that panics ends the process: the map's Halt.
AbstractCall ==
    CASE panicked -> [kind |-> "halt"]
      [] step.kind = "watch" -> [kind |-> "advance", batch |-> step.batch]
      [] step.kind = "snapshot" -> [kind |-> "replace"]
      [] OTHER -> [kind |-> "none"]

KVM == INSTANCE KeyValueMap WITH image <- AsMap(instances), call <- AbstractCall

CacheRefinesKeyValueMap == KVM!Spec

=============================================================================
