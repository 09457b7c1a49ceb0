----------------------------- MODULE EtcdCache -----------------------------
(***************************************************************************)
(* The Cache of package etcdv3 (src/etcdv3/cache.go): the slice Instances  *)
(* of KvEntry, replaced by UpdateByKvPair and advanced by                  *)
(* UpdateByWatchEvent.  Both take the write lock for their whole body, so  *)
(* each is one atomic step.  A KvEntry is a record [key, val]; the pointer *)
(* identity of *KvEntry is abstracted away.                                *)
(*                                                                         *)
(* The delete branch computes append(c.Instances[:i], c.Instances[i+1:]...)*)
(* with the index GetKvEntry returns, which is -1 for a key the cache does *)
(* not hold: s[:-1] is a run-time panic in Go.  A panic inside the locked  *)
(* section kills the process, so the partial batch is never observed: the  *)
(* model keeps Instances as it was and sets panicked, after which nothing  *)
(* of this cache runs again.                                               *)
(***************************************************************************)
EXTENDS Naturals, Sequences, SequencesExt

CONSTANTS Keys, Values, Absent

ASSUME Absent \notin Values

\* mvccpb.PUT and mvccpb.DELETE, the values WatchPrefix stores in OpType.
PUT == 0
DELETE == 1

KvEntry == [key : Keys, val : Values]

WatchEvent == [op : {PUT, DELETE}, key : Keys, val : Values]

VARIABLES instances, panicked

cacheVars == <<instances, panicked>>

(***************************************************************************)
(* GetKvEntry: the Go index (0-based) of the first entry with the event's  *)
(* key, or -1.  SelectInSeq returns the 1-based index or 0.                *)
(***************************************************************************)
GetKvEntry(inst, k) == SelectInSeq(inst, LAMBDA o : o.key = k) - 1

\* The result of applying part of a batch: the slice, or a panic.
Ok(inst) == [panic |-> FALSE, inst |-> inst]
Panicked(inst) == [panic |-> TRUE, inst |-> inst]

(***************************************************************************)
(* Mutations of the code below, each a plausible slip in cache.go, used to *)
(* show that the properties checked of the cache can detect it.            *)
(***************************************************************************)
\* append(c.Instances[:i], c.Instances[i+1:]...) written as a swap-remove.
RemoveGoIndexSwapLast(s, i) ==
    IF i < 0 THEN Panicked(s)
    ELSE Ok(SubSeq([s EXCEPT ![i + 1] = s[Len(s)]], 1, Len(s) - 1))

\* The lookup dropped: every put appends.
ApplyPutAlwaysAppend(inst, e) == Ok(Append(inst, [key |-> e.key, val |-> e.val]))

\* The in-place kv.Value = e.Kv.Value dropped.
ApplyPutNoUpdate(inst, e) ==
    LET i == GetKvEntry(inst, e.key) IN
    IF i = -1 THEN Ok(Append(inst, [key |-> e.key, val |-> e.val])) ELSE Ok(inst)

\* The whole event appended instead of its Kv.
ApplyPutWholeEvent(inst, e) ==
    LET i == GetKvEntry(inst, e.key) IN
    IF i = -1 THEN Ok(Append(inst, e)) ELSE Ok([inst EXCEPT ![i + 1].val = e.val])

\* append(s[:i], s[i+1:]...) for a Go index i; s[:i] panics when i < 0.
RemoveGoIndex(s, i) ==
    IF i < 0 THEN Panicked(s) ELSE Ok(RemoveAt(s, i + 1))

(***************************************************************************)
(* One iteration of the loop in UpdateByWatchEvent.                        *)
(***************************************************************************)
ApplyPut(inst, e) ==
    LET i == GetKvEntry(inst, e.key) IN
    IF i = -1 THEN Ok(Append(inst, [key |-> e.key, val |-> e.val]))
              ELSE Ok([inst EXCEPT ![i + 1].val = e.val])

ApplyDelete(inst, e) ==
    LET i == GetKvEntry(inst, e.key) IN
    IF i = 0 /\ Len(inst) = 1 THEN Ok(<<>>)
                              ELSE RemoveGoIndex(inst, i)

ApplyEvent(inst, e) ==
    IF e.op = PUT THEN ApplyPut(inst, e) ELSE ApplyDelete(inst, e)

RECURSIVE ApplyBatch(_, _)
ApplyBatch(inst, wev) ==
    IF wev = <<>> THEN Ok(inst)
    ELSE LET r == ApplyEvent(inst, Head(wev)) IN
         IF r.panic THEN r ELSE ApplyBatch(r.inst, Tail(wev))

(***************************************************************************)
(* The two exported mutators.  kv is what GetEntries returns: the entries  *)
(* of one etcd range read, so no key occurs twice (or <<>> on error).      *)
(***************************************************************************)
UpdateByKvPair(kv) ==
    /\ ~panicked
    /\ instances' = kv
    /\ UNCHANGED panicked

UpdateByWatchEvent(wev) ==
    /\ ~panicked
    /\ LET r == ApplyBatch(instances, wev) IN
       /\ instances' = IF r.panic THEN instances ELSE r.inst
       /\ panicked' = r.panic

\* The cache as the map it stands for: the value of the first entry per key.
AsMap(inst) ==
    [k \in Keys |-> LET i == GetKvEntry(inst, k) IN
                    IF i = -1 THEN Absent ELSE inst[i + 1].val]

\* The keys of a slice, in slice order.
KeyOrder(inst) == [i \in DOMAIN inst |-> inst[i].key]
=============================================================================
