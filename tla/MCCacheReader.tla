--------------------------- MODULE MCCacheReader ---------------------------
(***************************************************************************)
(* A lookup through Cached() racing the watch loop's updates, for TLC.     *)
(***************************************************************************)
EXTENDS CacheReader

(* Spec 3 and 5: the Cache is read by consumers of Cached() concurrently   *)
(* with the watch loop, and readers are protected by the read lock.  So a  *)
(* lookup (GetKvEntry) returns the entry of the key it was asked for, and  *)
(* returns nil, -1 only if the key was missing from the cache at some      *)
(* point of the call.  With no lock for readers to take, a delete ahead of *)
(* the key shifts it under the reader's index: the range passes it by, or  *)
(* return c.Instances[i] reads the slice again and hands back the next     *)
(* key's entry, or indexes past the shortened slice and panics.            *)
LookupIsCorrect ==
    rPc = "done" => IF rFound THEN rGot = rKey ELSE rAbsent
=============================================================================
