-------------------------- MODULE MCEtcdDiscovery --------------------------
(***************************************************************************)
(* An Instancer's watch and a Registrar on one client, for TLC.  The       *)
(* Registrar's properties are those of MCEtcdRegistrar.                    *)
(***************************************************************************)
EXTENDS EtcdDiscovery, MCEtcdRegistrar

DiscTypeOK ==
    /\ TypeOK
    /\ watchPc \in WatchPcs
    /\ watcher \in {"nil", "open", "closed"}
    /\ curWatched \in BOOLEAN
    /\ watchClosed \in BOOLEAN
    /\ wcfSet \in BOOLEAN
    /\ wcfCalled \in BOOLEAN
    /\ deregAfterStart \in BOOLEAN

(* Spec 5: Deregister is a cancellation trigger, and every blocking watch  *)
(* task observes it and exits.  A WatchPrefix that had made its context    *)
(* when close() ran ends, whichever watcher it came to run on: close()     *)
(* closes c.watcher and calls c.wcf, and the watch may have read c.watcher *)
(* before or after a Register replaced it.                                 *)
DeregisterEndsWatch == deregAfterStart ~> watchPc = "ended"

(* Spec 5: Stop() and Deregister() are the only cancellation triggers (and *)
(* the context given to NewClient ends everything).  An Instancer's watch  *)
(* on a client it shares with a Registrar ends only after Deregister's     *)
(* close() or the client context's cancellation.  Register's               *)
(* c.watcher.Close() breaks this: the first registration, or any           *)
(* re-registration AutoCheckService makes after a lost lease, closes the   *)
(* watcher the watch runs on, and nothing restarts it.                     *)
WatchEndsOnlyOnCancellation ==
    watchPc = "ended" => userPc = "deregistered" \/ cancelled
=============================================================================
