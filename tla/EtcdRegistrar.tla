---------------------------- MODULE EtcdRegistrar ----------------------------
(***************************************************************************)
(* The Registrar of package etcdv3 (src/etcdv3/registrar.go) over the      *)
(* client's Register, Deregister and close (src/etcdv3/client.go), with    *)
(* etcd's leases as environment.  One service key is registered.           *)
(*                                                                         *)
(* Goroutines: the user (userPc), who calls Registrar.Register once and    *)
(* may later call Deregister; the AutoCheckService loops, counted per      *)
(* program counter in loopAt because they are identical; the keepalive    *)
(* drainers started by client.Register (drainers waiting in select,        *)
(* drainSend blocked on servCheckChan); the time.AfterFunc callbacks of    *)
(* failed re-registrations (timers).  checkServ has capacity 1 (sig).      *)
(*                                                                         *)
(* Every lessor but c.leaser has been closed (Register closes the old one  *)
(* before making a new one, close() closes it), and closing a lessor       *)
(* closes its keepalive channels, so the open keepalive channels (chOpen)  *)
(* all belong to c.leaser.  A keepalive channel is named by its lease.     *)
(***************************************************************************)
EXTENDS Naturals, FiniteSets

CONSTANTS
    MaxLeases,  \* bound on the leases etcd grants in a behaviour
    MaxFaults   \* bound on lost leases and failed etcd calls in a behaviour

Leases == 1 .. MaxLeases
NoLease == 0            \* clientv3.NoLease; also "key absent" and "nil channel"

RegPcs == {"reg_lessor", "reg_grant", "reg_put", "reg_keepalive"}
LoopPcs == {"select"} \cup RegPcs
UserPcs == {"start", "registered", "failed", "dereg_delete", "dereg_close",
            "deregistered"} \cup RegPcs

VARIABLES
    keyLease,   \* the lease the service key is bound to in etcd, NoLease if absent
    alive,      \* leases granted and not yet expired
    nextLease,  \* leases granted so far (ids are 1, 2, ...)
    leaseID,    \* c.leaseID
    leaserOpen, \* c.leaser is set and not closed
    chOpen,     \* leases whose keepalive channel is open
    hbch,       \* c.hbch: the lease of the channel it holds, NoLease for nil
    cancelled,  \* the client's context c.ctx is done
    userPc,
    loopAt,     \* loopAt[pc]: AutoCheckService goroutines at pc
    drainers,   \* keepalive goroutines in select
    drainSend,  \* keepalive goroutines blocked in servCheckChan <- struct{}{}
    sig,        \* signals buffered in r.checkServ (capacity 1)
    timers,     \* AfterFunc callbacks not yet delivered to r.checkServ
    faults      \* environment faults used so far

vars == <<keyLease, alive, nextLease, leaseID, leaserOpen, chOpen, hbch,
          cancelled, userPc, loopAt, drainers, drainSend, sig, timers, faults>>

Init ==
    /\ keyLease = NoLease
    /\ alive = {}
    /\ nextLease = 0
    /\ leaseID = NoLease
    /\ leaserOpen = FALSE
    /\ chOpen = {}
    /\ hbch = NoLease
    /\ cancelled = FALSE
    /\ userPc = "start"
    /\ loopAt = [p \in LoopPcs |-> 0]
    /\ drainers = 0
    /\ drainSend = 0
    /\ sig = 0
    /\ timers = 0
    /\ faults = 0

-----------------------------------------------------------------------------
(* Register runs on the user's goroutine ("user") or on an                 *)
(* AutoCheckService loop ("loop"); At and Goto read and move its pc.       *)

Executors == {"user", "loop"}

At(who, pc) == IF who = "user" THEN userPc = pc ELSE loopAt[pc] > 0

Goto(who, from, to) ==
    IF who = "user"
    THEN userPc' = to /\ UNCHANGED loopAt
    ELSE loopAt' = [loopAt EXCEPT ![from] = @ - 1, ![to] = @ + 1] /\ UNCHANGED userPc

(* Mutation: the failed re-registration is not retried (no AfterFunc).    *)
RegisterFailsNoRetry(who, from) ==
    /\ Goto(who, from, IF who = "user" THEN "failed" ELSE "select")
    /\ UNCHANGED timers

(* Registrar.Register returning an error: logged; in AutoCheckService the  *)
(* retry is scheduled with time.AfterFunc(3*time.Second, ...).             *)
RegisterFails(who, from) ==
    /\ Goto(who, from, IF who = "user" THEN "failed" ELSE "select")
    /\ timers' = IF who = "loop" THEN timers + 1 ELSE timers

\* An etcd call may fail while the fault budget lasts, and always fails
\* once c.ctx is done.
CallFails == cancelled \/ faults < MaxFaults

FaultCost == IF cancelled THEN faults ELSE faults + 1

(* client.Register up to the Grant: validation (the service is valid),     *)
(* c.leaser.Close() and clientv3.NewLease, the same for the watcher, the   *)
(* default TTLOption.  No etcd call.                                       *)
RegNewLessor(who) ==
    /\ At(who, "reg_lessor")
    /\ leaserOpen' = TRUE
    /\ chOpen' = {}
    /\ Goto(who, "reg_lessor", "reg_grant")
    /\ UNCHANGED <<keyLease, alive, nextLease, leaseID, hbch, cancelled,
                   drainers, drainSend, sig, timers, faults>>

(* c.leaser.Grant: c.leaseID = grantResp.ID, or return err. *)
RegGrant(who) ==
    /\ At(who, "reg_grant")
    /\ \/ /\ nextLease < MaxLeases
          /\ ~cancelled
          /\ nextLease' = nextLease + 1
          /\ alive' = alive \cup {nextLease + 1}
          /\ leaseID' = nextLease + 1
          /\ Goto(who, "reg_grant", "reg_put")
          /\ UNCHANGED <<timers, faults>>
       \/ /\ CallFails
          /\ faults' = FaultCost
          /\ RegisterFails(who, "reg_grant")
          /\ UNCHANGED <<nextLease, alive, leaseID>>
    /\ UNCHANGED <<keyLease, leaserOpen, chOpen, hbch, cancelled, drainers,
                   drainSend, sig>>

(* c.kv.Put(s.Key, s.Value, WithLease(c.leaseID)); etcd refuses a lease    *)
(* that has expired.                                                       *)
RegPut(who) ==
    /\ At(who, "reg_put")
    /\ \/ /\ ~cancelled
          /\ leaseID \in alive
          /\ keyLease' = leaseID
          /\ Goto(who, "reg_put", "reg_keepalive")
          /\ UNCHANGED <<timers, faults>>
       \/ /\ leaseID \notin alive
          /\ RegisterFails(who, "reg_put")
          /\ UNCHANGED <<keyLease, faults>>
       \/ /\ CallFails
          /\ faults' = FaultCost
          /\ RegisterFails(who, "reg_put")
          /\ UNCHANGED keyLease
    /\ UNCHANGED <<alive, nextLease, leaseID, leaserOpen, chOpen, hbch, cancelled,
                   drainers, drainSend, sig>>

(* Mutation: the keepalive channel treated as open even for a lease etcd  *)
(* has already expired.                                                    *)
RegKeepAliveOnDeadLease(who) ==
    /\ At(who, "reg_keepalive")
    /\ \/ /\ leaserOpen
          /\ ~cancelled
          /\ hbch' = leaseID
          /\ chOpen' = chOpen \cup {leaseID}
          /\ drainers' = drainers + 1
          /\ IF who = "user"
             THEN /\ userPc' = "registered"
                  /\ loopAt' = [loopAt EXCEPT !["select"] = @ + 1]
             ELSE /\ loopAt' = [loopAt EXCEPT !["reg_keepalive"] = @ - 1,
                                              !["select"] = @ + 2]
                  /\ UNCHANGED userPc
          /\ UNCHANGED timers
       \/ /\ ~leaserOpen \/ cancelled
          /\ hbch' = NoLease
          /\ RegisterFails(who, "reg_keepalive")
          /\ UNCHANGED <<chOpen, drainers>>
    /\ UNCHANGED <<keyLease, alive, nextLease, leaseID, leaserOpen, cancelled,
                   drainSend, sig, faults>>

(* c.hbch, err = c.leaser.KeepAlive(c.ctx, c.leaseID), then the drainer    *)
(* goroutine; back in Registrar.Register, go r.AutoCheckService().         *)
(* KeepAlive on a closed lessor or a done context returns an error (the    *)
(* channel it returns is never read).  On a lease etcd no longer has, the *)
(* channel is closed at its first response.                                *)
RegKeepAlive(who) ==
    /\ At(who, "reg_keepalive")
    /\ \/ /\ leaserOpen
          /\ ~cancelled
          /\ hbch' = leaseID
          /\ chOpen' = IF leaseID \in alive THEN chOpen \cup {leaseID} ELSE chOpen
          /\ drainers' = drainers + 1
          /\ IF who = "user"
             THEN /\ userPc' = "registered"
                  /\ loopAt' = [loopAt EXCEPT !["select"] = @ + 1]
             ELSE /\ loopAt' = [loopAt EXCEPT !["reg_keepalive"] = @ - 1,
                                              !["select"] = @ + 2]
                  /\ UNCHANGED userPc
          /\ UNCHANGED timers
       \/ /\ ~leaserOpen \/ cancelled
          /\ hbch' = NoLease
          /\ RegisterFails(who, "reg_keepalive")
          /\ UNCHANGED <<chOpen, drainers>>
    /\ UNCHANGED <<keyLease, alive, nextLease, leaseID, leaserOpen, cancelled,
                   drainSend, sig, faults>>

-----------------------------------------------------------------------------
(* The drainer: select { case r := <-c.hbch: ... case <-c.ctx.Done(): }.   *)
(* It reads the field c.hbch at every select.  A closed channel yields     *)
(* nil: the drainer signals servCheckChan and returns.  When both cases    *)
(* are ready select picks either.  Keepalive responses change nothing.     *)
DrainerSeesClose ==
    /\ drainers > 0
    /\ hbch # NoLease
    /\ hbch \notin chOpen
    /\ drainers' = drainers - 1
    /\ drainSend' = drainSend + 1
    /\ UNCHANGED <<keyLease, alive, nextLease, leaseID, leaserOpen, chOpen, hbch,
                   cancelled, userPc, loopAt, sig, timers, faults>>

DrainerSeesDone ==
    /\ drainers > 0
    /\ cancelled
    /\ drainers' = drainers - 1
    /\ UNCHANGED <<keyLease, alive, nextLease, leaseID, leaserOpen, chOpen, hbch,
                   cancelled, userPc, loopAt, drainSend, sig, timers, faults>>

(* Mutation: the drainer goes back to its select after signalling, the    *)
(* dead loop the return after servCheckChan <- struct{}{} avoids.          *)
DrainerSendNoReturn ==
    /\ drainSend > 0
    /\ sig = 0
    /\ sig' = 1
    /\ drainSend' = drainSend - 1
    /\ drainers' = drainers + 1
    /\ UNCHANGED <<keyLease, alive, nextLease, leaseID, leaserOpen, chOpen, hbch,
                   cancelled, userPc, loopAt, timers, faults>>

DrainerSend ==
    /\ drainSend > 0
    /\ sig = 0
    /\ sig' = 1
    /\ drainSend' = drainSend - 1
    /\ UNCHANGED <<keyLease, alive, nextLease, leaseID, leaserOpen, chOpen, hbch,
                   cancelled, userPc, loopAt, drainers, timers, faults>>

(* AutoCheckService: case <-r.checkServ: err := r.Register() ... *)
LoopRecv ==
    /\ loopAt["select"] > 0
    /\ sig = 1
    /\ sig' = 0
    /\ loopAt' = [loopAt EXCEPT !["select"] = @ - 1, !["reg_lessor"] = @ + 1]
    /\ UNCHANGED <<keyLease, alive, nextLease, leaseID, leaserOpen, chOpen, hbch,
                   cancelled, userPc, drainers, drainSend, timers, faults>>

(* The AfterFunc callback: r.checkServ <- struct{}{} (blocks while full). *)
TimerFire ==
    /\ timers > 0
    /\ sig = 0
    /\ sig' = 1
    /\ timers' = timers - 1
    /\ UNCHANGED <<keyLease, alive, nextLease, leaseID, leaserOpen, chOpen, hbch,
                   cancelled, userPc, loopAt, drainers, drainSend, faults>>

-----------------------------------------------------------------------------
(* The user: Register once, Deregister later.                              *)
UserRegister ==
    /\ userPc = "start"
    /\ userPc' = "reg_lessor"
    /\ UNCHANGED <<keyLease, alive, nextLease, leaseID, leaserOpen, chOpen, hbch,
                   cancelled, loopAt, drainers, drainSend, sig, timers, faults>>

UserDeregister ==
    /\ userPc \in {"registered", "failed"}
    /\ userPc' = "dereg_delete"
    /\ UNCHANGED <<keyLease, alive, nextLease, leaseID, leaserOpen, chOpen, hbch,
                   cancelled, loopAt, drainers, drainSend, sig, timers, faults>>

(* client.Deregister: c.cli.Delete(c.ctx, s.Key, WithIgnoreLease()); an    *)
(* error is returned (and logged by the Registrar) after the deferred      *)
(* close.                                                                  *)
DeregDelete ==
    /\ userPc = "dereg_delete"
    /\ \/ /\ ~cancelled
          /\ keyLease' = NoLease
          /\ UNCHANGED faults
       \/ /\ CallFails
          /\ faults' = FaultCost
          /\ UNCHANGED keyLease
    /\ userPc' = "dereg_close"
    /\ UNCHANGED <<alive, nextLease, leaseID, leaserOpen, chOpen, hbch, cancelled,
                   loopAt, drainers, drainSend, sig, timers>>

(* close(): c.leaser.Close() closes its keepalive channels; the watcher    *)
(* and wcf are the Instancer's concern.  Then Registrar.Deregister closes  *)
(* r.quit if it is non-nil: it is never set, so nothing happens.           *)
DeregClose ==
    /\ userPc = "dereg_close"
    /\ leaserOpen' = FALSE
    /\ chOpen' = {}
    /\ userPc' = "deregistered"
    /\ UNCHANGED <<keyLease, alive, nextLease, leaseID, hbch, cancelled, loopAt,
                   drainers, drainSend, sig, timers, faults>>

-----------------------------------------------------------------------------
(* etcd and the network.                                                   *)
\* Goroutines inside client.Register.
Registering ==
    (IF userPc \in RegPcs THEN 1 ELSE 0)
    + loopAt["reg_lessor"] + loopAt["reg_grant"] + loopAt["reg_put"]
    + loopAt["reg_keepalive"]

Expire(l) ==
    /\ alive' = alive \ {l}
    /\ keyLease' = IF keyLease = l THEN NoLease ELSE keyLease
    /\ chOpen' = chOpen \ {l}

\* A kept-alive lease is lost (keepalives fail for longer than the TTL).
LeaseLost(l) ==
    /\ l \in chOpen
    /\ faults < MaxFaults
    /\ Expire(l)
    /\ faults' = faults + 1
    /\ UNCHANGED <<nextLease, leaseID, leaserOpen, hbch, cancelled, userPc, loopAt,
                   drainers, drainSend, sig, timers>>

\* A lease nobody keeps alive reaches its TTL.  For the lease a Register
\* has just been granted that takes calls slower than the TTL: a fault.
TimeoutCost(l) == IF l = leaseID /\ Registering > 0 THEN 1 ELSE 0

LeaseTimeout(l) ==
    /\ l \in alive
    /\ l \notin chOpen
    /\ faults + TimeoutCost(l) <= MaxFaults
    /\ Expire(l)
    /\ faults' = faults + TimeoutCost(l)
    /\ UNCHANGED <<nextLease, leaseID, leaserOpen, hbch, cancelled, userPc, loopAt,
                   drainers, drainSend, sig, timers>>

\* The context given to NewClient is cancelled: keepalives stop.
CtxCancel ==
    /\ ~cancelled
    /\ cancelled' = TRUE
    /\ chOpen' = {}
    /\ UNCHANGED <<keyLease, alive, nextLease, leaseID, leaserOpen, hbch, userPc,
                   loopAt, drainers, drainSend, sig, timers, faults>>

-----------------------------------------------------------------------------
RegStep(who) ==
    \/ RegNewLessor(who)
    \/ RegGrant(who)
    \/ RegPut(who)
    \/ RegKeepAlive(who)

Next ==
    \/ \E who \in Executors : RegStep(who)
    \/ DrainerSeesClose
    \/ DrainerSeesDone
    \/ DrainerSend
    \/ LoopRecv
    \/ TimerFire
    \/ UserRegister
    \/ UserDeregister
    \/ DeregDelete
    \/ DeregClose
    \/ \E l \in Leases : LeaseLost(l) \/ LeaseTimeout(l)
    \/ CtxCancel

(* Runnable goroutines run, started etcd calls complete, AfterFunc fires   *)
(* and an unrenewed lease reaches its TTL.  The user's calls, lost leases  *)
(* and cancellation are not forced.                                        *)
Fairness ==
    /\ \A who \in Executors : WF_vars(RegStep(who))
    /\ WF_vars(DrainerSeesClose)
    /\ WF_vars(DrainerSeesDone)
    /\ WF_vars(DrainerSend)
    /\ WF_vars(LoopRecv)
    /\ WF_vars(TimerFire)
    /\ WF_vars(DeregDelete)
    /\ WF_vars(DeregClose)
    /\ \A l \in Leases : WF_vars(LeaseTimeout(l))

Spec == Init /\ [][Next]_vars /\ Fairness

-----------------------------------------------------------------------------
\* The service key is in etcd on a lease that is being kept alive and
\* watched by a drainer.
Healthy ==
    /\ keyLease # NoLease
    /\ keyLease \in chOpen
    /\ hbch = keyLease
    /\ drainers = 1
=============================================================================
