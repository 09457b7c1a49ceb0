-------------------------- MODULE MCEtcdRegistrar --------------------------
(***************************************************************************)
(* The Registrar with its client and etcd's leases, for TLC.               *)
(***************************************************************************)
EXTENDS EtcdRegistrar

TypeOK ==
    /\ keyLease \in {NoLease} \cup Leases
    /\ alive \subseteq 1 .. nextLease
    /\ nextLease \in 0 .. MaxLeases
    /\ leaseID \in {NoLease} \cup Leases
    /\ leaserOpen \in BOOLEAN
    /\ chOpen \subseteq alive
    /\ hbch \in {NoLease} \cup Leases
    /\ cancelled \in BOOLEAN
    /\ userPc \in UserPcs
    /\ loopAt \in [LoopPcs -> 0 .. MaxLeases]
    /\ drainers \in Nat /\ drainSend \in Nat /\ timers \in Nat
    /\ sig \in 0 .. 1
    /\ faults \in 0 .. MaxFaults

(* Spec 4.4: a closed keepalive channel results in exactly one             *)
(* re-registration attempt.  The drainer goroutines, the signals they and  *)
(* the AfterFunc callbacks post to checkServ, and the goroutines inside     *)
(* client.Register together hold at most one "token": however leases are   *)
(* lost, calls fail and Deregister interleaves, there is never a second    *)
(* concurrent Register (which would race on c.leaser, c.leaseID, c.hbch)   *)
(* nor a second drainer reading c.hbch.                                    *)
SingleRecoveryToken ==
    drainers + drainSend + timers + sig + Registering <= 1

(* Spec 1 / 4.4: once the user's Register has succeeded, and as long as    *)
(* Deregister is not called and the client's context is not cancelled,     *)
(* a lost lease (or a failed re-registration) is always followed by the    *)
(* key being back in etcd on a kept-alive lease watched by one drainer:    *)
(* AutoCheckService's retry through AfterFunc does not give up.            *)
RegistrationRestored ==
    (userPc = "registered" /\ ~Healthy)
        ~> (Healthy \/ userPc \in {"dereg_delete", "dereg_close", "deregistered"}
                    \/ cancelled)

(* Spec 4.1: Deregister deletes the service's key, so that the instance    *)
(* disappears from discovery: once it has returned, this process never     *)
(* writes the key again (a failed Delete may leave it until its lease      *)
(* expires).  The keepalive drainer sees the channel      *)
(* close() closes and signals checkServ; AutoCheckService, which nothing   *)
(* stops (r.quit is never made), registers the key again.                  *)
DeregisterIsFinal ==
    [][userPc = "deregistered" => keyLease' \in {NoLease, keyLease}]_vars
=============================================================================
