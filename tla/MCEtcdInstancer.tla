-------------------------- MODULE MCEtcdInstancer --------------------------
(***************************************************************************)
(* Properties of the Instancer and the keyspace it watches.                *)
(***************************************************************************)
EXTENDS EtcdInstancer

\* One batch of every key, in some order: keys are interchangeable in this
\* model, so the other orders give the same behaviours up to renaming.
MCBatchKeyLists == {CHOOSE s \in [1 .. Cardinality(Keys) -> Keys] : IsInjective(s)}

TypeOK ==
    /\ instances \in Seq(KvEntry)
    /\ panicked \in BOOLEAN
    /\ hist \in Seq(WatchEvent)
    /\ Len(hist) <= MaxRev
    /\ ctorPc \in {"idle", "done"}
    /\ loopPc \in {"none", "select", "exited"}
    /\ watchPc \in {"none", "dialing", "recv", "send", "done"}
    /\ {snapRev, watchFrom, wpos, applied, notified} \subseteq 0..MaxRev
    /\ pending \in Seq(WatchEvent)
    /\ {snapOk, quit, callback} \subseteq BOOLEAN
    /\ bdPc \in {"idle", "deleting", "returned"}
    /\ bdKeys \in Seq(Keys)

\* The cache is the keyspace as of the last applied revision, except on
\* keys written between GetEntries and the creation of the watch in
\* WatchPrefix: no other key is ever missing, stale or extra, whatever
\* batches etcd groups and however the three goroutines interleave.
DivergenceOnlyFromGap ==
    (ctorPc = "done" /\ ~panicked) =>
        \A k \in Keys : AsMap(instances)[k] = StoreAt(applied)[k] \/ k \in GapKeys

\* The key of the event UpdateByWatchEvent panicked on: the first prefix of
\* the batch (still in pending, the cache left as before it) that panics.
PanicKey ==
    LET Panics(j) == ApplyBatch(instances, SubSeq(pending, 1, j)).panic
    IN  pending[CHOOSE j \in DOMAIN pending : Panics(j) /\ ~Panics(j - 1)].key

\* UpdateByWatchEvent panics only on the event of a key written in the gap
\* between GetEntries and the watch: a watch that continued exactly from
\* the snapshot would never deliver the delete of a key the cache does not
\* hold, so the key the loop panics on is always one of the gap's keys.
PanicOnlyFromGap == panicked => PanicKey \in GapKeys

\* Every revision committed after the watch was created is eventually
\* applied to the cache, unless the Instancer is stopped, the process
\* panicked or etcd ended the watch.
CatchUp ==
    \A r \in 1 .. MaxRev :
        (watchPc \in {"recv", "send"} /\ watchFrom < r /\ r <= Len(hist))
            ~> (applied >= r \/ quit \/ panicked \/ watchPc = "done")

\* Spec 4.2: deleting a key the cache does not hold "must not panic".  Here
\* the batches are the ones a real etcd watch delivers after a successful
\* GetEntries in NewInstancer.
NoPanic == snapOk => ~panicked

(* Spec 5: every blocking watch task observes a cancellation signal and   *)
(* exits promptly, and Stop() is one of the triggers.  Stop only closes    *)
(* quitc, which WatchPrefix never reads: its context wctx is cancelled by  *)
(* client.close() alone, so after Stop the WatchPrefix goroutine stays in  *)
(* range wch, or blocked in ch <- evSlice once loop has returned.          *)
StopEndsWatch == quit ~> (watchPc = "done" \/ panicked)
=============================================================================
