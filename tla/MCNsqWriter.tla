---------------------------- MODULE MCNsqWriter ----------------------------
(***************************************************************************)
(* The NSQ producer pool for TLC: three producers, two publishing          *)
(* goroutines and one Close.                                               *)
(***************************************************************************)
EXTENDS NsqWriter, TLC

CONSTANTS p1, p2, p3

\* The pool NewProducerPool builds for three addrs.
MCPool == <<p1, p2, p3>>

PublisherSymmetry == Permutations(Publishers)

\* Hash values at the edges of the int32 view: both extremes, a negative
\* value whose remainder is negative, zero and a positive one.
MCHashSample == {MinInt32, -7, -1, 0, 5, MaxInt32}

TypeOK ==
    /\ arr \in [1 .. N -> ProducerSet]
    /\ plen \in 0 .. N
    /\ stopped \subseteq ProducerSet
    /\ pubPc \in [Publishers -> {"idle", "publish"}]
    /\ pubProd \in [Publishers -> ProducerSet \cup {None}]
    /\ closePc \in {"idle", "loop", "unpub", "done"}
    /\ closeN \in 0 .. N /\ closeI \in 0 .. N
    /\ closeP \in ProducerSet \cup {None}
    /\ balancer \in Balancers
    /\ offset \in 0 .. 2 ^ Width - 1
    /\ crash \in {"none", "getProducer", "GetProducer"}
    /\ faults \in 0 .. MaxFaults

(* w.producers stays a partition of the pool with the stopped producers:  *)
(* whatever the interleaving of failing publishes (each calling           *)
(* unPubFunc) with Close's unlocked reads of the shifting backing array,  *)
(* the live slice holds each producer at most once, never a stopped one,   *)
(* and a producer leaves it only by being stopped.                         *)
PoolPartition ==
    /\ IsInjective(Live)
    /\ ToSet(Live) \cap stopped = {}
    /\ ToSet(Live) \cup stopped = ProducerSet

(* Close releases the pool: once its loop is over, every producer has      *)
(* been stopped.  The range reads arr[i] after earlier unPubFunc calls     *)
(* have shifted the array, so it skips every other producer.               *)
CloseStopsAll == closePc = "done" => stopped = ProducerSet

(* The balancer's partition always names a producer of the pool.  Each    *)
(* balancer turns a 32-bit hash into an index through its own mix of      *)
(* int32 and uint32 conversions, remainders and sign fix-ups; whatever    *)
(* the key, hash and pool size, w.producers[...] in getProducer must not  *)
(* panic with an index out of range.                                       *)
BalancedIndexInRange == crash # "getProducer"
=============================================================================
