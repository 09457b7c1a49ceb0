----------------------------- MODULE CacheReader -----------------------------
(***************************************************************************)
(* A lookup in the Cache (src/etcdv3/cache.go) racing the watch loop that  *)
(* updates it.  GetKvEntry is exported and takes no lock, and mtx is       *)
(* unexported, so a caller of Cached() cannot take it either: its reads of *)
(* c.Instances interleave with UpdateByWatchEvent's writes.                *)
(*                                                                         *)
(* Go's memory is modelled at the level of the slice: a header (backing    *)
(* array and length) and the array's pointer-sized slots, each read or     *)
(* written atomically.  Only keys matter to the lookup, so a slot holds    *)
(* the key of its entry (values are updated in place in the entry and     *)
(* never move).  range c.Instances reads the header once; a reader whose   *)
(* array is replaced (append growing it, or the Instances = nil of the     *)
(* last delete) keeps reading the old array, which nobody writes again:   *)
(* rArr is then a frozen copy.                                             *)
(***************************************************************************)
EXTENDS Naturals, FiniteSets, Sequences, SequencesExt

CONSTANTS
    Keys,
    Nil,        \* a slot past the length that never held an entry
    NoEntry,    \* GetKvEntry's nil, -1
    Crash,      \* an index out of range: the process panics
    MaxWrites   \* bound on the events the writer applies in a behaviour

VARIABLES
    arr,      \* the backing array of c.Instances: its slots, Len(arr) = cap
    n,        \* len(c.Instances)
    wPc,      \* the writer: "idle", or "shift" inside a delete's copy
    wJ,       \* the next slot (0-based) the delete's copy writes
    writes,   \* events applied so far
    rPc,      \* the reader: "idle", "scan", "done"
    rKey,     \* the key it looks up
    rLive,    \* the reader's range holds the live array
    rArr,     \* else the frozen array it holds
    rLen,     \* the length its range read
    rI,       \* the index of its next read
    rFound,   \* o.Key matched at index rI
    rGot,     \* the key of the entry returned, NoEntry for nil, -1, or Crash
    rAbsent   \* ghost: rKey was absent from the cache at some point of the call

vars == <<arr, n, wPc, wJ, writes, rPc, rKey, rLive, rArr, rLen, rI, rFound, rGot, rAbsent>>

\* The entries of the cache: the first n slots.
Live == SubSeq(arr, 1, n)

Present(k) == k \in ToSet(Live)

\* A step of the writer ends an interval in which the key may be missing.
NoteAbsence ==
    rAbsent' = (rAbsent \/ (rPc = "scan" /\ ~(rKey \in ToSet(SubSeq(arr', 1, n')))))

\* When the writer replaces the array, a reader ranging over it keeps it.
Freeze ==
    IF rPc = "scan" /\ rLive
    THEN rLive' = FALSE /\ rArr' = arr
    ELSE UNCHANGED <<rLive, rArr>>

\* UpdateByKvPair in NewInstancer: an array of exactly the snapshot's size.
Init ==
    /\ arr \in {s \in UNION {[1 .. m -> Keys] : m \in 0 .. Cardinality(Keys)} : IsInjective(s)}
    /\ n = Len(arr)
    /\ wPc = "idle"
    /\ wJ = 0
    /\ writes = 0
    /\ rPc = "idle"
    /\ rKey \in Keys
    /\ rLive = TRUE
    /\ rArr = <<>>
    /\ rLen = 0
    /\ rI = 0
    /\ rFound = FALSE
    /\ rGot = NoEntry
    /\ rAbsent = FALSE

-----------------------------------------------------------------------------
(* The writer: UpdateByWatchEvent applying one event.                      *)

\* append's new capacity for a full slice of cap c (doubling, from 1).
GrownCap(c) == IF c = 0 THEN 1 ELSE 2 * c

(* A put of a key the cache lacks: c.Instances = append(c.Instances, e.Kv),*)
(* in place when there is room, else into a new array of doubled capacity. *)
WritePutNew(k) ==
    /\ wPc = "idle"
    /\ writes < MaxWrites
    /\ ~Present(k)
    /\ IF n < Len(arr)
       THEN /\ arr' = [arr EXCEPT ![n + 1] = k]
            /\ UNCHANGED <<rLive, rArr>>
       ELSE /\ arr' = Live \o <<k>> \o [i \in 1 .. GrownCap(n) - n - 1 |-> Nil]
            /\ Freeze
    /\ n' = n + 1
    /\ writes' = writes + 1
    /\ UNCHANGED <<wPc, wJ, rPc, rKey, rLen, rI, rFound, rGot>>
    /\ NoteAbsence

(* A delete of a key the cache holds, at index i.  The sole entry: the     *)
(* slice becomes nil.  Otherwise append(c.Instances[:i], c.Instances[i+1:]...)*)
(* copies the tail down one slot (memmove, upward for an overlapping copy  *)
(* to a lower address); the header is stored after the copy.              *)
WriteDelete(k) ==
    /\ wPc = "idle"
    /\ writes < MaxWrites
    /\ Present(k)
    /\ LET i == SelectInSeq(Live, LAMBDA x : x = k) - 1 IN
       IF i = 0 /\ n = 1
       THEN /\ arr' = <<>>
            /\ n' = 0
            /\ Freeze
            /\ UNCHANGED <<wPc, wJ>>
       ELSE /\ wPc' = "shift"
            /\ wJ' = i
            /\ UNCHANGED <<arr, n, rLive, rArr>>
    /\ writes' = writes + 1
    /\ UNCHANGED <<rPc, rKey, rLen, rI, rFound, rGot>>
    /\ NoteAbsence

(* One slot of the copy: s[j] = s[j+1]. *)
WriteShift ==
    /\ wPc = "shift"
    /\ wJ < n - 1
    /\ arr' = [arr EXCEPT ![wJ + 1] = arr[wJ + 2]]
    /\ wJ' = wJ + 1
    /\ UNCHANGED <<n, wPc, writes, rPc, rKey, rLive, rArr, rLen, rI, rFound, rGot>>
    /\ NoteAbsence

(* The copy is done: c.Instances = s[:len-1]. *)
WriteShrink ==
    /\ wPc = "shift"
    /\ wJ = n - 1
    /\ n' = n - 1
    /\ wPc' = "idle"
    /\ UNCHANGED <<arr, wJ, writes, rPc, rKey, rLive, rArr, rLen, rI, rFound, rGot>>
    /\ NoteAbsence

-----------------------------------------------------------------------------
(* The reader: GetKvEntry(ev) from a caller of Cached(), without the lock. *)

(* for i, o := range c.Instances: the header is read once. *)
ReadStart(k) ==
    /\ rPc \in {"idle", "done"}
    /\ rPc' = "scan"
    /\ rKey' = k
    /\ rLive' = TRUE
    /\ rArr' = <<>>
    /\ rLen' = n
    /\ rI' = 0
    /\ rFound' = FALSE
    /\ rGot' = NoEntry
    /\ rAbsent' = ~Present(k)
    /\ UNCHANGED <<arr, n, wPc, wJ, writes>>

\* The array the reader's range holds.
RArray == IF rLive THEN arr ELSE rArr

(* if o.Key == ev.Kv.Key: the element o of the range's array; after the  *)
(* last index, return nil, -1.                                             *)
ReadStep ==
    /\ rPc = "scan"
    /\ ~rFound
    /\ IF rI = rLen
       THEN /\ rPc' = "done"
            /\ UNCHANGED <<rI, rFound>>
       ELSE IF RArray[rI + 1] = rKey
            THEN /\ rFound' = TRUE
                 /\ UNCHANGED <<rPc, rI>>
            ELSE /\ rI' = rI + 1
                 /\ UNCHANGED <<rPc, rFound>>
    /\ UNCHANGED <<arr, n, wPc, wJ, writes, rKey, rLive, rArr, rLen, rGot, rAbsent>>

(* return c.Instances[i], i: the field is read again, so the entry comes   *)
(* from the slice as it is now.                                            *)
ReadReturn ==
    /\ rPc = "scan"
    /\ rFound
    /\ rGot' = IF rI < n THEN arr[rI + 1] ELSE Crash
    /\ rPc' = "done"
    /\ UNCHANGED <<arr, n, wPc, wJ, writes, rKey, rLive, rArr, rLen, rI, rFound, rAbsent>>

Next ==
    \/ \E k \in Keys : WritePutNew(k) \/ WriteDelete(k) \/ ReadStart(k)
    \/ WriteShift
    \/ WriteShrink
    \/ ReadStep
    \/ ReadReturn

Spec == Init /\ [][Next]_vars
=============================================================================
