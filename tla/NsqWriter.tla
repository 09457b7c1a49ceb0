------------------------------ MODULE NsqWriter ------------------------------
(***************************************************************************)
(* The producer pool of package nsq (src/mq/nsq/pub.go): the writer made   *)
(* by NewProducerPool, used by concurrent publishing goroutines and closed *)
(* by Close.                                                               *)
(*                                                                         *)
(* w.producers is a slice header (length plen) over a backing array arr   *)
(* that never grows after construction.  unPubFunc removes a producer with *)
(* append(w.producers[:i], w.producers[i+1:]...), which shifts the later   *)
(* elements down inside the same array and leaves the last slot as it was. *)
(* Close ranges over w.producers without taking w.mu: the range evaluates  *)
(* the header once and reads arr[i] at each iteration.  Indices are        *)
(* 1-based here.                                                           *)
(***************************************************************************)
EXTENDS NsqBalancer, SequencesExt

CONSTANTS
    Pool,        \* the producers NewProducerPool made, one per addr, in order
    Publishers,  \* goroutines calling Publish (MultiPublish, PublishDelay alike)
    MaxFaults,   \* bound on failed publishes of a running producer
    Balancers,   \* the balancers NewProducerPool may be given (a subset of Kinds)
    HashSample,  \* int32 views of hash values a key may have
    None

ProducerSet == ToSet(Pool)
N == Len(Pool)

ASSUME /\ IsInjective(Pool) /\ None \notin ProducerSet
       /\ Balancers \subseteq Kinds
       /\ HashSample \subseteq MinInt32 .. MaxInt32

VARIABLES
    arr,       \* backing array of w.producers
    plen,      \* len(w.producers)
    stopped,   \* producers whose pub.Stop() has been called
    pubPc,     \* pubPc[u]: "idle" or "publish"
    pubProd,   \* pubProd[u]: the producer getProducer returned to u
    closePc,   \* "idle", "loop", "unpub", "done"
    closeN,    \* the length the range in Close evaluated
    closeI,    \* Close's loop index (iterations done)
    closeP,    \* the element Close read
    balancer,  \* w.balancer
    offset,    \* the round-robin offset inside w.balancer
    crash,     \* "none", or the function whose panic ended the process
    faults

vars == <<arr, plen, stopped, pubPc, pubProd, closePc, closeN, closeI, closeP,
          balancer, offset, crash, faults>>

Alive == crash = "none"

\* The live slice w.producers.
Live == SubSeq(arr, 1, plen)

(* NewProducerPool: one producer per addr, appended by addProducer; the    *)
(* balancer given, or a new RoundRobin (offset 0).                          *)
Init ==
    /\ arr = Pool
    /\ plen = N
    /\ stopped = {}
    /\ pubPc = [u \in Publishers |-> "idle"]
    /\ pubProd = [u \in Publishers |-> None]
    /\ closePc = "idle"
    /\ closeN = 0
    /\ closeI = 0
    /\ closeP = None
    /\ balancer \in Balancers
    /\ offset = 0
    /\ crash = "none"
    /\ faults = 0

(***************************************************************************)
(* Mutations of unPubFunc, each a plausible slip in pub.go.                *)
(***************************************************************************)
\* The length decremented outside the found branch.
UnPubAlwaysShrink(p) ==
    LET i == SelectInSeq(Live, LAMBDA q : q = p) IN
    /\ stopped' = IF i = 0 THEN stopped ELSE stopped \cup {p}
    /\ arr' = [j \in 1 .. N |-> IF i <= j /\ j < plen THEN arr[j + 1] ELSE arr[j]]
    /\ plen' = plen - 1

\* pub.pub.Stop() dropped.
UnPubNoStop(p) ==
    LET i == SelectInSeq(Live, LAMBDA q : q = p) IN
    IF i = 0 THEN UNCHANGED <<arr, plen, stopped>>
    ELSE /\ arr' = [j \in 1 .. N |-> IF i <= j /\ j < plen THEN arr[j + 1] ELSE arr[j]]
         /\ plen' = plen - 1
         /\ UNCHANGED stopped

\* The removal dropped: the producer is stopped but stays in the pool.
UnPubNoRemove(p) ==
    LET i == SelectInSeq(Live, LAMBDA q : q = p) IN
    IF i = 0 THEN UNCHANGED <<arr, plen, stopped>>
    ELSE /\ stopped' = stopped \cup {p}
         /\ UNCHANGED <<arr, plen>>

(* producer.unPubFunc(), under w.mu: find p in w.producers by identity,    *)
(* stop it and cut it out; nothing if it is no longer there.               *)
UnPub(p) ==
    LET i == SelectInSeq(Live, LAMBDA q : q = p) IN
    IF i = 0 THEN UNCHANGED <<arr, plen, stopped>>
    ELSE /\ stopped' = stopped \cup {p}
         /\ arr' = [j \in 1 .. N |-> IF i <= j /\ j < plen THEN arr[j + 1] ELSE arr[j]]
         /\ plen' = plen - 1

-----------------------------------------------------------------------------
(* getProducer, under w.mu: an error for an empty pool (Publish returns it *)
(* and nothing changes, so it is not a step); the only producer; or        *)
(* w.producers[Balance(k, loadCachedNodes(plen)...)], where an index out   *)
(* of range panics.  Producers are never nil.  The caller passes no key,   *)
(* an empty one or bytes; h is the key's hash and r a random number.       *)
GetProducerForPublish(u) ==
    /\ Alive
    /\ pubPc[u] = "idle"
    /\ plen > 0
    /\ \E key \in KeyKinds, h \in HashSample, r \in 0 .. N - 1 :
         LET i == IF plen = 1 THEN 0
                  ELSE Balance(balancer, key, CachedNodes(plen), offset, h, r)
         IN /\ offset' = IF plen = 1 THEN offset ELSE NextOffset(balancer, key, offset)
            /\ IF 0 <= i /\ i < plen
               THEN /\ pubProd' = [pubProd EXCEPT ![u] = arr[i + 1]]
                    /\ pubPc' = [pubPc EXCEPT ![u] = "publish"]
                    /\ UNCHANGED crash
               ELSE /\ crash' = "getProducer"
                    /\ UNCHANGED <<pubProd, pubPc>>
    /\ UNCHANGED <<arr, plen, stopped, closePc, closeN, closeI, closeP, balancer,
                   faults>>

(* producer.pub.Publish succeeds: only a running producer can. *)
PublishOk(u) ==
    /\ Alive
    /\ pubPc[u] = "publish"
    /\ pubProd[u] \notin stopped
    /\ pubPc' = [pubPc EXCEPT ![u] = "idle"]
    /\ pubProd' = [pubProd EXCEPT ![u] = None]
    /\ UNCHANGED <<arr, plen, stopped, closePc, closeN, closeI, closeP, balancer,
                   offset, crash, faults>>

(* producer.pub.Publish fails (a stopped producer returns ErrStopped; a    *)
(* running one may fail while faults last): producer.unPubFunc().          *)
PublishFail(u) ==
    /\ Alive
    /\ pubPc[u] = "publish"
    /\ pubProd[u] \in stopped \/ faults < MaxFaults
    /\ faults' = IF pubProd[u] \in stopped THEN faults ELSE faults + 1
    /\ UnPub(pubProd[u])
    /\ pubPc' = [pubPc EXCEPT ![u] = "idle"]
    /\ pubProd' = [pubProd EXCEPT ![u] = None]
    /\ UNCHANGED <<closePc, closeN, closeI, closeP, balancer, offset, crash>>

(* The exported GetProducer: it returns nil when getProducer found a       *)
(* producer, and dereferences the nil producer when it did not.            *)
GetProducer ==
    /\ Alive
    /\ plen = 0
    /\ crash' = "GetProducer"
    /\ UNCHANGED <<arr, plen, stopped, pubPc, pubProd, closePc, closeN, closeI,
                   closeP, balancer, offset, faults>>

-----------------------------------------------------------------------------
(* Close: for _, p := range w.producers { p.unPubFunc() }, by one caller.  *)
CloseStart ==
    /\ Alive
    /\ closePc = "idle"
    /\ closeN' = plen
    /\ closeI' = 0
    /\ closePc' = "loop"
    /\ UNCHANGED <<arr, plen, stopped, pubPc, pubProd, closeP, balancer, offset,
                   crash, faults>>

\* Iteration closeI reads arr[closeI] (0-based), unlocked.
CloseRead ==
    /\ Alive
    /\ closePc = "loop"
    /\ IF closeI < closeN
       THEN /\ closeP' = arr[closeI + 1]
            /\ closePc' = "unpub"
       ELSE /\ closePc' = "done"
            /\ UNCHANGED closeP
    /\ UNCHANGED <<arr, plen, stopped, pubPc, pubProd, closeN, closeI, balancer,
                   offset, crash, faults>>

CloseUnPub ==
    /\ Alive
    /\ closePc = "unpub"
    /\ UnPub(closeP)
    /\ closeI' = closeI + 1
    /\ closePc' = "loop"
    /\ UNCHANGED <<pubPc, pubProd, closeN, closeP, balancer, offset, crash, faults>>

Next ==
    \/ \E u \in Publishers : GetProducerForPublish(u) \/ PublishOk(u) \/ PublishFail(u)
    \/ GetProducer
    \/ CloseStart
    \/ CloseRead
    \/ CloseUnPub

Spec == Init /\ [][Next]_vars
=============================================================================
