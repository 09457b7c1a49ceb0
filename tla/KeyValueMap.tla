---------------------------- MODULE KeyValueMap ----------------------------
(***************************************************************************)
(* What the etcdv3 Cache promises (spec 4.2): an image of a keyspace as a  *)
(* map from keys to values, replaced wholesale by a snapshot or advanced   *)
(* by a batch of watch events applied in order, where a put sets the key,  *)
(* a delete removes it and deleting an absent key changes nothing.  call   *)
(* is the last call made: a snapshot, a batch b, or the end of the         *)
(* process, after which the image no longer changes.                       *)
(***************************************************************************)
EXTENDS Naturals, Sequences

CONSTANTS Keys, Values, Absent, PUT, DELETE, MaxBatch

VARIABLES image, call

Event == [op : {PUT, DELETE}, key : Keys, val : Values]

Batches == UNION {[1..n -> Event] : n \in 0..MaxBatch}

Images == [Keys -> Values \cup {Absent}]

\* One event of a batch on the map.
ApplyToMap(m, e) ==
    [m EXCEPT ![e.key] = IF e.op = PUT THEN e.val ELSE Absent]

RECURSIVE ApplyBatchToMap(_, _)
ApplyBatchToMap(m, b) ==
    IF b = <<>> THEN m ELSE ApplyBatchToMap(ApplyToMap(m, Head(b)), Tail(b))

Init ==
    /\ image = [k \in Keys |-> Absent]
    /\ call = [kind |-> "none"]

Replace ==
    /\ call.kind # "halt"
    /\ call' = [kind |-> "replace"]
    /\ image' \in Images

Advance ==
    /\ call.kind # "halt"
    /\ \E b \in Batches :
         /\ call' = [kind |-> "advance", batch |-> b]
         /\ image' = ApplyBatchToMap(image, b)

Halt ==
    /\ call.kind # "halt"
    /\ call' = [kind |-> "halt"]
    /\ UNCHANGED image

Next == Replace \/ Advance \/ Halt

Spec == Init /\ [][Next]_<<image, call>>
=============================================================================
