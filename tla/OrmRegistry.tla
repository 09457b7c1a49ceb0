----------------------------- MODULE OrmRegistry -----------------------------
(***************************************************************************)
(* orm.Get (src/database/orm/orm.go) for one database name, called once by *)
(* each of several goroutines.  Get reads dbs under rwl.RLock; on a miss   *)
(* it calls sfg.Do(name, fn), where fn opens a gorm pool and stores it in  *)
(* dbs under rwl.Lock.  singleflight runs fn for the first caller (the     *)
(* leader) and makes callers arriving while it runs wait for its result;  *)
(* once fn has returned, the key is forgotten and a later Do runs fn       *)
(* again.  Pools are numbered in the order they are opened; 0 is nil.      *)
(***************************************************************************)
EXTENDS Naturals, FiniteSets

CONSTANTS Callers, None

ASSUME None \notin Callers

Pools == 1 .. Cardinality(Callers)
NoPool == 0

VARIABLES
    pc,        \* pc[c]: "check", "do", "wait", "open", "store", "finish", "done"
    got,       \* got[c]: the pool c's Get holds (newDB for the leader)
    dbs,       \* dbs[name]
    flight,    \* the leader whose fn is running for name, or None
    waiters,   \* callers blocked in sfg.Do on that flight
    opened,    \* pools gorm.Open has made
    panicked   \* gorm.Open or db.DB() failed: panic(err.Error())

vars == <<pc, got, dbs, flight, waiters, opened, panicked>>

Init ==
    /\ pc = [c \in Callers |-> "check"]
    /\ got = [c \in Callers |-> NoPool]
    /\ dbs = NoPool
    /\ flight = None
    /\ waiters = {}
    /\ opened = 0
    /\ panicked = FALSE

(* Mutation: the ok of dbs[name] ignored, returning the nil entry. *)
CheckIgnoresOk(c) ==
    /\ ~panicked
    /\ pc[c] = "check"
    /\ got' = [got EXCEPT ![c] = dbs]
    /\ pc' = [pc EXCEPT ![c] = "done"]
    /\ UNCHANGED <<dbs, flight, waiters, opened, panicked>>

(* rwl.RLock(); if db, ok := dbs[name]; ok { return db }; rwl.RUnlock() *)
Check(c) ==
    /\ ~panicked
    /\ pc[c] = "check"
    /\ IF dbs # NoPool
       THEN /\ got' = [got EXCEPT ![c] = dbs]
            /\ pc' = [pc EXCEPT ![c] = "done"]
       ELSE /\ pc' = [pc EXCEPT ![c] = "do"]
            /\ UNCHANGED got
    /\ UNCHANGED <<dbs, flight, waiters, opened, panicked>>

(* sfg.Do(name, fn): join the running call, or lead a new one. *)
Do(c) ==
    /\ ~panicked
    /\ pc[c] = "do"
    /\ IF flight # None
       THEN /\ waiters' = waiters \cup {c}
            /\ pc' = [pc EXCEPT ![c] = "wait"]
            /\ UNCHANGED flight
       ELSE /\ flight' = c
            /\ pc' = [pc EXCEPT ![c] = "open"]
            /\ UNCHANGED waiters
    /\ UNCHANGED <<got, dbs, opened, panicked>>

(* fn: config.NewDbConfig, gorm.Open, db.DB() and the pool settings; an    *)
(* error panics.                                                           *)
Open(c) ==
    /\ ~panicked
    /\ pc[c] = "open"
    /\ \/ /\ opened' = opened + 1
          /\ got' = [got EXCEPT ![c] = opened + 1]
          /\ pc' = [pc EXCEPT ![c] = "store"]
          /\ UNCHANGED panicked
       \/ /\ panicked' = TRUE
          /\ UNCHANGED <<opened, got, pc>>
    /\ UNCHANGED <<dbs, flight, waiters>>

(* fn: rwl.Lock(); dbs[name] = newDB *)
Store(c) ==
    /\ ~panicked
    /\ pc[c] = "store"
    /\ dbs' = got[c]
    /\ pc' = [pc EXCEPT ![c] = "finish"]
    /\ UNCHANGED <<got, flight, waiters, opened, panicked>>

(* fn returns: singleflight hands its result to the waiters, forgets the  *)
(* key, and every caller returns its *DB.                                    *)
Finish(c) ==
    /\ ~panicked
    /\ pc[c] = "finish"
    /\ flight' = None
    /\ waiters' = {}
    /\ got' = [w \in Callers |-> IF w \in waiters THEN got[c] ELSE got[w]]
    /\ pc' = [w \in Callers |-> IF w \in waiters \cup {c} THEN "done" ELSE pc[w]]
    /\ UNCHANGED <<dbs, opened, panicked>>

Next ==
    \E c \in Callers :
        \/ Check(c)
        \/ Do(c)
        \/ Open(c)
        \/ Store(c)
        \/ Finish(c)

\* Every running goroutine runs; a Get in progress completes.
Fairness == \A c \in Callers : WF_vars(Check(c) \/ Do(c) \/ Open(c) \/ Store(c) \/ Finish(c))

Spec == Init /\ [][Next]_vars /\ Fairness
=============================================================================
