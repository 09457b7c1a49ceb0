---------------------------- MODULE MCOrmRegistry ----------------------------
(***************************************************************************)
(* orm.Get for TLC: three goroutines asking for the same name.             *)
(***************************************************************************)
EXTENDS OrmRegistry, TLC

CallerSymmetry == Permutations(Callers)

\* Get returns a *DB: the type assertion on a nil result would panic.
TypeOK ==
    /\ pc \in [Callers -> {"check", "do", "wait", "open", "store", "finish", "done"}]
    /\ got \in [Callers -> {NoPool} \cup Pools]
    /\ \A c \in Callers : pc[c] = "done" => got[c] \in Pools
    /\ dbs \in {NoPool} \cup Pools
    /\ flight \in Callers \cup {None}
    /\ waiters \subseteq Callers
    /\ opened \in 0 .. Cardinality(Callers)
    /\ panicked \in BOOLEAN

(* Get opens one pool per name: a caller whose RLock check missed before  *)
(* the leader stored dbs[name], and whose sfg.Do starts after the leader's *)
(* fn returned, opens a second pool and overwrites dbs[name]; the first    *)
(* pool, already returned to other callers, is never closed.               *)
OnePoolPerName == opened <= 1
=============================================================================
