---------------------------- MODULE EtcdDiscovery ----------------------------
(***************************************************************************)
(* An Instancer and a Registrar sharing one client (src/etcdv3/client.go): *)
(* the Registrar of EtcdRegistrar, and the WatchPrefix goroutine that the  *)
(* Instancer's loop starts.  They share the client's fields c.watcher,     *)
(* c.wctx and c.wcf: WatchPrefix sets all three, Register closes and       *)
(* replaces c.watcher, close() (in Deregister) closes c.watcher and calls  *)
(* c.wcf.  The batches the watch carries are EtcdInstancer's concern; here *)
(* only whether the watch lives matters.                                   *)
(*                                                                         *)
(* Watcher handles are told apart only by what matters to the watch: the  *)
(* state of the handle in c.watcher and whether it is the one the watch    *)
(* runs on.  Closing a watcher closes the channels of its watches, and     *)
(* Watch on a closed watcher returns a closed channel; either way the      *)
(* range in WatchPrefix ends.  The goroutines' accesses to the fields are  *)
(* unsynchronised in the code; each is one atomic step here.               *)
(***************************************************************************)
EXTENDS EtcdRegistrar

WatchPcs == {"idle", "ctx", "new_watcher", "watch", "watching", "ended"}

VARIABLES
    watchPc,          \* the WatchPrefix goroutine; "idle" before NewInstancer
    watcher,          \* c.watcher: "nil", or its handle "open" or "closed"
    curWatched,       \* c.watcher is the handle the watch runs on
    watchClosed,      \* the handle the watch runs on has been closed
    wcfSet,           \* c.wcf is non-nil
    wcfCalled,        \* c.wcf() has been called: c.wctx is done
    deregAfterStart   \* ghost: close() ran after WatchPrefix's line 291

watchVars == <<watchPc, watcher, curWatched, watchClosed, wcfSet, wcfCalled,
               deregAfterStart>>

dvars == <<vars, watchVars>>

DiscInit ==
    /\ Init
    /\ watchPc = "idle"
    /\ watcher = "nil"
    /\ curWatched = FALSE
    /\ watchClosed = FALSE
    /\ wcfSet = FALSE
    /\ wcfCalled = FALSE
    /\ deregAfterStart = FALSE

-----------------------------------------------------------------------------
(* The watch's side: NewInstancer starts loop, which runs WatchPrefix.     *)
InstancerStart ==
    /\ watchPc = "idle"
    /\ watchPc' = "ctx"
    /\ UNCHANGED <<vars, watcher, curWatched, watchClosed, wcfSet, wcfCalled,
                   deregAfterStart>>

(* c.wctx, c.wcf = context.WithCancel(c.ctx) *)
WatchCtx ==
    /\ watchPc = "ctx"
    /\ wcfSet' = TRUE
    /\ watchPc' = "new_watcher"
    /\ UNCHANGED <<vars, watcher, curWatched, watchClosed, wcfCalled,
                   deregAfterStart>>

(* c.watcher = clientv3.NewWatcher(c.cli); the handle it replaces is not  *)
(* closed.                                                                 *)
WatchNewWatcher ==
    /\ watchPc = "new_watcher"
    /\ watcher' = "open"
    /\ curWatched' = FALSE
    /\ watchPc' = "watch"
    /\ UNCHANGED <<vars, watchClosed, wcfSet, wcfCalled, deregAfterStart>>

(* wch := c.watcher.Watch(c.wctx, ...): the field is read again, and may   *)
(* by now hold a watcher a Register made.                                  *)
WatchCall ==
    /\ watchPc = "watch"
    /\ curWatched' = TRUE
    /\ watchClosed' = (watcher = "closed")
    /\ watchPc' = "watching"
    /\ UNCHANGED <<vars, watcher, wcfSet, wcfCalled, deregAfterStart>>

(* for wr := range wch ends: the watcher was closed, or c.wctx is done     *)
(* (by c.wcf or because its parent c.ctx was cancelled).                   *)
WatchEnd ==
    /\ watchPc = "watching"
    /\ watchClosed \/ wcfCalled \/ cancelled
    /\ watchPc' = "ended"
    /\ UNCHANGED <<vars, watcher, curWatched, watchClosed, wcfSet, wcfCalled,
                   deregAfterStart>>

-----------------------------------------------------------------------------
(* c.watcher.Close() when c.watcher is non-nil. *)
CloseWatcher ==
    /\ watchClosed' = (watchClosed \/ (curWatched /\ watcher # "nil"))

(* client.Register up to the Grant, with its watcher lines: the current    *)
(* watcher, if any, is closed and replaced by a fresh one.                 *)
DiscRegNewLessor(who) ==
    /\ RegNewLessor(who)
    /\ CloseWatcher
    /\ watcher' = "open"
    /\ curWatched' = FALSE
    /\ UNCHANGED <<watchPc, wcfSet, wcfCalled, deregAfterStart>>

(* Mutation: close() closes the lessor and the watcher but forgets c.wcf. *)
DiscDeregCloseNoCancel ==
    /\ DeregClose
    /\ CloseWatcher
    /\ watcher' = IF watcher = "nil" THEN "nil" ELSE "closed"
    /\ deregAfterStart' = (watchPc \notin {"idle", "ctx"})
    /\ UNCHANGED <<watchPc, curWatched, wcfSet, wcfCalled>>

(* close(): the lessor (DeregClose), then c.watcher.Close() if non-nil,    *)
(* then c.wcf() if non-nil.                                                *)
DiscDeregClose ==
    /\ DeregClose
    /\ CloseWatcher
    /\ watcher' = IF watcher = "nil" THEN "nil" ELSE "closed"
    /\ wcfCalled' = (wcfCalled \/ wcfSet)
    /\ deregAfterStart' = (watchPc \notin {"idle", "ctx"})
    /\ UNCHANGED <<watchPc, curWatched, wcfSet>>

(* Every other step of the Registrar and of etcd leaves the watch alone;  *)
(* cancelling c.ctx also ends c.wctx, which WatchEnd reads.               *)
RegistrarOther ==
    /\ \/ \E who \in Executors : RegGrant(who) \/ RegPut(who) \/ RegKeepAlive(who)
       \/ DrainerSeesClose \/ DrainerSeesDone \/ DrainerSend
       \/ LoopRecv \/ TimerFire
       \/ UserRegister \/ UserDeregister \/ DeregDelete
       \/ \E l \in Leases : LeaseLost(l) \/ LeaseTimeout(l)
       \/ CtxCancel
    /\ UNCHANGED watchVars

WatchStep == WatchCtx \/ WatchNewWatcher \/ WatchCall \/ WatchEnd

DiscNext ==
    \/ \E who \in Executors : DiscRegNewLessor(who)
    \/ DiscDeregClose
    \/ RegistrarOther
    \/ InstancerStart
    \/ WatchStep

(* EtcdRegistrar's fairness, over the composed steps, and the WatchPrefix  *)
(* goroutine runs.  NewInstancer is the user's call: not forced.           *)
DiscFairness ==
    /\ \A who \in Executors :
          WF_dvars(DiscRegNewLessor(who) \/ ((RegGrant(who) \/ RegPut(who)
                                              \/ RegKeepAlive(who))
                                             /\ UNCHANGED watchVars))
    /\ WF_dvars(DrainerSeesClose /\ UNCHANGED watchVars)
    /\ WF_dvars(DrainerSeesDone /\ UNCHANGED watchVars)
    /\ WF_dvars(DrainerSend /\ UNCHANGED watchVars)
    /\ WF_dvars(LoopRecv /\ UNCHANGED watchVars)
    /\ WF_dvars(TimerFire /\ UNCHANGED watchVars)
    /\ WF_dvars(DeregDelete /\ UNCHANGED watchVars)
    /\ WF_dvars(DiscDeregClose)
    /\ \A l \in Leases : WF_dvars(LeaseTimeout(l) /\ UNCHANGED watchVars)
    /\ WF_dvars(WatchStep)

DiscSpec == DiscInit /\ [][DiscNext]_dvars /\ DiscFairness
=============================================================================
