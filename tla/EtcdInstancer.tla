---------------------------- MODULE EtcdInstancer ----------------------------
(***************************************************************************)
(* The Instancer of package etcdv3 (src/etcdv3/instancer.go) over the      *)
(* client's GetEntries and WatchPrefix (src/etcdv3/client.go), with the    *)
(* etcd keyspace under the watched prefix as its environment.              *)
(*                                                                         *)
(* Three goroutines of the program are modelled: the caller of            *)
(* NewInstancer (ctorPc), the goroutine running loop (loopPc) and the one  *)
(* running WatchPrefix (watchPc).  Other processes write the keyspace:     *)
(* every etcd write is one revision, and hist[r] is the event of revision  *)
(* r.  The channel ch between WatchPrefix and loop is unbuffered: pending  *)
(* is the batch WatchPrefix is blocked sending.                            *)
(*                                                                         *)
(* A failed GetEntries leaves the cache empty, which is the keyspace at    *)
(* revision 0 (the keyspace starts empty), so it is recorded as a          *)
(* snapshot at revision 0.                                                 *)
(***************************************************************************)
EXTENDS EtcdCache, FiniteSets

CONSTANTS
    MaxRev,        \* bound on the number of etcd writes in a behaviour
    BatchKeyLists  \* the key lists a client passes to BatchDelete

VARIABLES
    hist,       \* hist[r]: the event etcd committed at revision r
    ctorPc,     \* "idle" before NewInstancer, "done" after it
    snapOk,     \* GetEntries succeeded (ghost)
    snapRev,    \* revision of the snapshot GetEntries returned (ghost)
    loopPc,     \* loop goroutine: "none", "select", "exited"
    watchPc,    \* WatchPrefix goroutine: "none", "dialing", "recv", "send", "done"
    watchFrom,  \* revision current when the etcd watch was created (ghost)
    wpos,       \* last revision the watch has handed to WatchPrefix
    pending,    \* evSlice WatchPrefix is sending on ch
    applied,    \* last revision whose events the cache has applied (ghost)
    quit,       \* quitc closed by Stop
    callback,   \* a subscriber callback is set
    notified,   \* last revision handed to the callback (ghost)
    bdPc,       \* a client's BatchDelete: "idle", "deleting", "returned"
    bdKeys      \* the keys its loop has still to delete

vars == <<instances, panicked, hist, ctorPc, snapOk, snapRev, loopPc, watchPc,
          watchFrom, wpos, pending, applied, quit, callback, notified, bdPc, bdKeys>>

KVM == INSTANCE KeyValueMap WITH image <- AsMap(instances), call <- "none", MaxBatch <- 0

EmptyMap == [k \in Keys |-> Absent]

\* The keyspace after revision r.
StoreAt(r) == KVM!ApplyBatchToMap(EmptyMap, SubSeq(hist, 1, r))

Store == StoreAt(Len(hist))

\* Results of GetEntries on image m: one KvEntry per present key.  etcd
\* returns them sorted by key; keys are model values, so any order.
EntriesOf(m) ==
    {s \in UNION {[1..n -> KvEntry] : n \in 0..Cardinality(Keys)} :
        IsInjective(KeyOrder(s)) /\ AsMap(s) = m}

Init ==
    /\ instances = <<>>
    /\ panicked = FALSE
    /\ hist = <<>>
    /\ ctorPc = "idle"
    /\ snapOk = FALSE
    /\ snapRev = 0
    /\ loopPc = "none"
    /\ watchPc = "none"
    /\ watchFrom = 0
    /\ wpos = 0
    /\ pending = <<>>
    /\ applied = 0
    /\ quit = FALSE
    /\ callback = FALSE
    /\ notified = 0
    /\ bdPc = "idle"
    /\ bdKeys = <<>>

-----------------------------------------------------------------------------
(* The environment: clients (this package's client, in other processes)   *)
(* put and delete keys under the prefix.  A call whose RPC fails returns   *)
(* the error and commits nothing.  Deleting an absent key returns          *)
(* Deleted = 0 and creates no revision and no event in etcd.               *)

\* The event etcd commits for a delete of key k, when k is present.
DeleteEvent(k) == [op |-> DELETE, key |-> k, val |-> Store[k]]

(* client.Put: c.kv.Put(c.ctx, key, val, WithPrevKV()). *)
EtcdPut(k, v) ==
    /\ Len(hist) < MaxRev
    /\ hist' = Append(hist, [op |-> PUT, key |-> k, val |-> v])
    /\ UNCHANGED <<bdPc, bdKeys, instances, panicked, ctorPc, snapOk, snapRev, loopPc, watchPc,
                   watchFrom, wpos, pending, applied, quit, callback, notified>>

(* client.Delete of a non-empty key: c.cli.Delete(c.ctx, key). *)
EtcdDelete(k) ==
    /\ Len(hist) < MaxRev
    /\ Store[k] # Absent
    /\ hist' = Append(hist, DeleteEvent(k))
    /\ UNCHANGED <<bdPc, bdKeys, instances, panicked, ctorPc, snapOk, snapRev, loopPc, watchPc,
                   watchFrom, wpos, pending, applied, quit, callback, notified>>

(* c.Delete(k) inside BatchDelete, succeeding: a revision if k is present. *)
DeleteOk(k) ==
    IF Store[k] # Absent
    THEN Len(hist) < MaxRev /\ hist' = Append(hist, DeleteEvent(k))
    ELSE UNCHANGED hist

(* c.Delete(k) returning an error: etcd may have committed the delete     *)
(* before the response was lost.                                           *)
DeleteFailed(k) ==
    \/ UNCHANGED hist
    \/ Store[k] # Absent /\ Len(hist) < MaxRev /\ hist' = Append(hist, DeleteEvent(k))

(* One turn of for i := range keys on the keys ks still to do: on success  *)
(* the next key, or return nil after the last; on an error BatchDelete     *)
(* returns it at once, the keys before stay deleted (no rollback) and the  *)
(* keys after are never tried.                                             *)
BatchDeleteTurn(ks) ==
    \/ /\ DeleteOk(Head(ks))
       /\ bdKeys' = Tail(ks)
       /\ bdPc' = IF Tail(ks) = <<>> THEN "returned" ELSE "deleting"
    \/ /\ DeleteFailed(Head(ks))
       /\ bdKeys' = Tail(ks)
       /\ bdPc' = "returned"

(* client.BatchDelete(keys), with a list of distinct keys, through its     *)
(* first delete: nothing shared happens before that RPC.                   *)
BatchDeleteStart(ks) ==
    /\ bdPc = "idle"
    /\ BatchDeleteTurn(ks)
    /\ UNCHANGED <<instances, panicked, ctorPc, snapOk, snapRev, loopPc, watchPc,
                   watchFrom, wpos, pending, applied, quit, callback, notified>>

BatchDeleteKey ==
    /\ bdPc = "deleting"
    /\ BatchDeleteTurn(bdKeys)
    /\ UNCHANGED <<instances, panicked, ctorPc, snapOk, snapRev, loopPc, watchPc,
                   watchFrom, wpos, pending, applied, quit, callback, notified>>

-----------------------------------------------------------------------------
(* NewInstancer: GetEntries (an error is only logged), UpdateByKvPair,     *)
(* go s.loop().  loop then makes ch and starts go WatchPrefix.             *)

NewInstancer ==
    /\ ctorPc = "idle"
    /\ \E ok \in BOOLEAN :
         /\ snapOk' = ok
         /\ snapRev' = IF ok THEN Len(hist) ELSE 0
         /\ \E kv \in IF ok THEN EntriesOf(Store) ELSE {<<>>} : UpdateByKvPair(kv)
    /\ ctorPc' = "done"
    /\ loopPc' = "select"
    /\ watchPc' = "dialing"
    /\ applied' = snapRev'
    /\ UNCHANGED <<bdPc, bdKeys, hist, watchFrom, wpos, pending, quit, callback, notified>>

(* Mutation: the watch created at the current revision inclusive (an      *)
(* off-by-one in the start revision), re-delivering that revision.        *)
WatchCreateInclusive ==
    /\ ~panicked
    /\ watchPc = "dialing"
    /\ watchFrom' = Len(hist)
    /\ wpos' = IF Len(hist) > 0 THEN Len(hist) - 1 ELSE 0
    /\ watchPc' = "recv"
    /\ UNCHANGED <<bdPc, bdKeys, instances, panicked, hist, ctorPc, snapOk, snapRev, loopPc,
                   pending, applied, quit, callback, notified>>

(* WatchPrefix: c.watcher.Watch(wctx, prefix, WithPrefix(), WithRev(0))    *)
(* creates the watch at etcd's current revision: it reports the events of  *)
(* later revisions only.                                                   *)
WatchCreate ==
    /\ ~panicked
    /\ watchPc = "dialing"
    /\ watchFrom' = Len(hist)
    /\ wpos' = Len(hist)
    /\ watchPc' = "recv"
    /\ UNCHANGED <<bdPc, bdKeys, instances, panicked, hist, ctorPc, snapOk, snapRev, loopPc,
                   pending, applied, quit, callback, notified>>

(* Mutations: evSlice rebuilt per event, so only the last event of a      *)
(* response is sent; and the position advanced one revision too far.       *)
WatchRecvLastEventOnly ==
    /\ ~panicked
    /\ watchPc = "recv"
    /\ wpos < Len(hist)
    /\ \E j \in wpos + 1 .. Len(hist) :
         /\ pending' = <<hist[j]>>
         /\ wpos' = j
    /\ watchPc' = "send"
    /\ UNCHANGED <<bdPc, bdKeys, instances, panicked, hist, ctorPc, snapOk, snapRev, loopPc,
                   watchFrom, applied, quit, callback, notified>>

WatchRecvOverrun ==
    /\ ~panicked
    /\ watchPc = "recv"
    /\ wpos < Len(hist)
    /\ \E j \in wpos + 1 .. Len(hist) :
         /\ pending' = SubSeq(hist, wpos + 1, j)
         /\ wpos' = j + 1
    /\ watchPc' = "send"
    /\ UNCHANGED <<bdPc, bdKeys, instances, panicked, hist, ctorPc, snapOk, snapRev, loopPc,
                   watchFrom, applied, quit, callback, notified>>

(* for wr := range wch: one WatchResponse carries the events of one or     *)
(* more consecutive revisions; they are copied into evSlice and sent.      *)
WatchRecv ==
    /\ ~panicked
    /\ watchPc = "recv"
    /\ wpos < Len(hist)
    /\ \E j \in wpos + 1 .. Len(hist) :
         /\ pending' = SubSeq(hist, wpos + 1, j)
         /\ wpos' = j
    /\ watchPc' = "send"
    /\ UNCHANGED <<bdPc, bdKeys, instances, panicked, hist, ctorPc, snapOk, snapRev, loopPc,
                   watchFrom, applied, quit, callback, notified>>

(* wr.Canceled, or wch closed: WatchPrefix returns.  Nothing restarts it.  *)
WatchEnd ==
    /\ ~panicked
    /\ watchPc \in {"dialing", "recv"}
    /\ watchPc' = "done"
    /\ UNCHANGED <<bdPc, bdKeys, instances, panicked, hist, ctorPc, snapOk, snapRev, loopPc,
                   watchFrom, wpos, pending, applied, quit, callback, notified>>

(* Mutation: the batch only taken from ch once a callback is subscribed.  *)
LoopReceiveOnlySubscribed ==
    /\ ~panicked
    /\ loopPc = "select"
    /\ watchPc = "send"
    /\ callback
    /\ UpdateByWatchEvent(pending)
    /\ applied' = wpos
    /\ notified' = wpos
    /\ watchPc' = "recv"
    /\ UNCHANGED <<bdPc, bdKeys, hist, ctorPc, snapOk, snapRev, loopPc, watchFrom, wpos, pending,
                   quit, callback>>

(* loop: case wev := <-ch: UpdateByWatchEvent, then the callback if set.   *)
LoopReceive ==
    /\ ~panicked
    /\ loopPc = "select"
    /\ watchPc = "send"
    /\ UpdateByWatchEvent(pending)
    /\ applied' = wpos
    /\ notified' = IF callback THEN wpos ELSE notified
    /\ watchPc' = "recv"
    /\ UNCHANGED <<bdPc, bdKeys, hist, ctorPc, snapOk, snapRev, loopPc, watchFrom, wpos, pending,
                   quit, callback>>

(* loop: case <-s.quitc: return.  When ch is ready too, select picks       *)
(* either case at random: both actions are enabled.                        *)
LoopQuit ==
    /\ ~panicked
    /\ loopPc = "select"
    /\ quit
    /\ loopPc' = "exited"
    /\ UNCHANGED <<bdPc, bdKeys, instances, panicked, hist, ctorPc, snapOk, snapRev, watchPc,
                   watchFrom, wpos, pending, applied, quit, callback, notified>>

(* Stop: close(s.quitc).  A second Stop panics; callers call it once.      *)
Stop ==
    /\ ~panicked
    /\ ctorPc = "done"
    /\ ~quit
    /\ quit' = TRUE
    /\ UNCHANGED <<bdPc, bdKeys, instances, panicked, hist, ctorPc, snapOk, snapRev, loopPc, watchPc,
                   watchFrom, wpos, pending, applied, callback, notified>>

(* Subscribe: s.callback = callback. *)
Subscribe ==
    /\ ~panicked
    /\ ctorPc = "done"
    /\ ~callback
    /\ callback' = TRUE
    /\ UNCHANGED <<bdPc, bdKeys, instances, panicked, hist, ctorPc, snapOk, snapRev, loopPc, watchPc,
                   watchFrom, wpos, pending, applied, quit, notified>>

Next ==
    \/ \E k \in Keys, v \in Values : EtcdPut(k, v)
    \/ \E k \in Keys : EtcdDelete(k)
    \/ \E ks \in BatchKeyLists : BatchDeleteStart(ks)
    \/ BatchDeleteKey
    \/ NewInstancer
    \/ WatchCreate
    \/ WatchRecv
    \/ WatchEnd
    \/ LoopReceive
    \/ LoopQuit
    \/ Stop
    \/ Subscribe

(* The Go scheduler runs every runnable goroutine and etcd delivers the    *)
(* events of a live watch: the goroutines' own steps are weakly fair.      *)
(* Writes by other clients, cancellation of the watch and the user's       *)
(* calls are not.                                                          *)
Fairness ==
    /\ WF_vars(WatchCreate)
    /\ WF_vars(WatchRecv)
    /\ WF_vars(LoopReceive)
    /\ WF_vars(LoopQuit)

Spec == Init /\ [][Next]_vars /\ Fairness

-----------------------------------------------------------------------------
\* The keys written by revisions a+1..b.
KeysWritten(a, b) == {hist[r].key : r \in a + 1 .. b}

\* The keys written between the snapshot and the creation of the watch:
\* their events reach neither GetEntries nor the watch.
GapKeys ==
    IF watchPc \in {"none", "dialing"} THEN {} ELSE KeysWritten(snapRev, watchFrom)
=============================================================================
