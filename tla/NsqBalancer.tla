----------------------------- MODULE NsqBalancer -----------------------------
(***************************************************************************)
(* The balancers of package nsq (src/mq/nsq/balancer.go) as operators.     *)
(* A balancer maps a key and the partitions 0 .. n-1 (loadCachedNodes) to *)
(* a partition.  The hash functions (FNV-1a, CRC32, murmur2) are left      *)
(* abstract: a call receives the hash's 32 bits as the int32 value h that  *)
(* int32(hasher.Sum32()) denotes, so that the code's signed and unsigned   *)
(* conversions can be computed within TLC's integers.  The uint32 offset  *)
(* of RoundRobin is kept modulo 2^Width.                                   *)
(*                                                                         *)
(* Indexing a slice out of range panics in Go; GoIndex returns -1 then,    *)
(* which the caller's own index check turns into the panic.                *)
(***************************************************************************)
EXTENDS Integers, Sequences

CONSTANT Width   \* bits of RoundRobin.offset (32 in the code)

MaxInt32 == 2147483647
MinInt32 == -MaxInt32 - 1

\* The balancers NewProducerPool may be given; the Consistent field of
\* CRC32Balancer and Murmur2Balancer is part of the kind.
Kinds == {"RoundRobin", "Hash", "ReferenceHash", "CRC32", "CRC32Consistent",
          "Murmur2", "Murmur2Consistent"}

\* The key getProducer passes: nil (no key), an empty non-nil slice, or bytes.
NilKey == "nil"
EmptyKey == "empty"
BytesKey == "bytes"
KeyKinds == {NilKey, EmptyKey, BytesKey}

\* loadCachedNodes(n): a prefix of the cached slice 0, 1, 2, ..., i.e. 0 .. n-1.
CachedNodes(n) == [i \in 1 .. n |-> i - 1]

\* partitions[i] in Go.
GoIndex(parts, i) == IF 0 <= i /\ i < Len(parts) THEN parts[i + 1] ELSE -1

\* x % n on int32 in Go, for n > 0: the sign follows x.  (x + n) keeps
\* the negation of MinInt32 within range.
GoRem(x, n) == IF x >= 0 THEN x % n ELSE -((-(x + n)) % n)

\* int32(h) & 0x7fffffff.
Mask31(h) == IF h >= 0 THEN h ELSE (h + MaxInt32) + 1

\* uint32(h) % uint32(n): the unsigned value is h + 2^32 when h < 0.
URem(h, n) ==
    IF h >= 0 THEN h % n
    ELSE ((h % n) + (((65536 % n) * (65536 % n)) % n)) % n

-----------------------------------------------------------------------------
(* RoundRobin.balance: offset := atomic.AddUint32(&rr.offset, 1) - 1.      *)
RoundRobinBalance(parts, off) == GoIndex(parts, off % Len(parts))

(* randomBalancer.Balance, mock unset: partitions[rand.Int() % len], r >= 0. *)
RandomBalance(parts, r) == GoIndex(parts, r % Len(parts))

(* Mutation: the sign fix-up of Hash.Balance dropped. *)
HashBalanceNoAbs(parts, h) == GoRem(h, Len(parts))

(* Hash.Balance with a key: int32 remainder, negated when negative; the    *)
(* result is returned as the partition itself.                             *)
HashBalance(parts, h) ==
    LET p == GoRem(h, Len(parts)) IN IF p < 0 THEN -p ELSE p

(* ReferenceHash.Balance with a key. *)
ReferenceHashBalance(parts, h) == GoRem(Mask31(h), Len(parts))

(* CRC32Balancer.Balance on a hashed key: unsigned remainder. *)
CRC32Balance(parts, h) == GoIndex(parts, URem(h, Len(parts)))

(* Murmur2Balancer.Balance on a hashed key. *)
Murmur2Balance(parts, h) == GoIndex(parts, Mask31(h) % Len(parts))

(* Which path a balancer takes for a key: the round robin, the random one  *)
(* or the hash.  CRC32 treats nil and empty keys alike (librdkafka);       *)
(* murmur2 only nil.                                                        *)
UsesRoundRobin(kind, key) == kind = "RoundRobin" \/ (kind = "Hash" /\ key = NilKey)

UsesRandom(kind, key) ==
    \/ kind = "ReferenceHash" /\ key = NilKey
    \/ kind = "CRC32" /\ key \in {NilKey, EmptyKey}
    \/ kind = "Murmur2" /\ key = NilKey

(* Balance(key, partitions...) of each kind, given the round-robin offset  *)
(* before the increment, the hash h and the random number r.               *)
Balance(kind, key, parts, off, h, r) ==
    CASE UsesRoundRobin(kind, key)              -> RoundRobinBalance(parts, off)
      [] UsesRandom(kind, key)                  -> RandomBalance(parts, r)
      [] kind = "Hash"                          -> HashBalance(parts, h)
      [] kind = "ReferenceHash"                 -> ReferenceHashBalance(parts, h)
      [] kind \in {"CRC32", "CRC32Consistent"}  -> CRC32Balance(parts, h)
      [] OTHER                                  -> Murmur2Balance(parts, h)

\* The offset after a call: only the round-robin path increments it.
NextOffset(kind, key, off) ==
    IF UsesRoundRobin(kind, key) THEN (off + 1) % (2 ^ Width) ELSE off
=============================================================================
