# TLA+ models of gopkg's concurrent components

This directory holds TLA+ specifications, checked with TLC, of the parts of
the repository that run concurrently or recover from failures:
* the etcd service-discovery package `src/etcdv3` (spec.md section 1);
* the NSQ producer pool `src/mq/nsq/pub.go`;
* the ORM pool registry `src/database/orm/orm.go`, after the package
  initialisation of `src/config/config.go` that it depends on.

The modules are translated from the Go source. Each definition that models
code is listed in `PROJECT.json` ("map"), with the lines it stands for.

## The system

`src/etcdv3` has four parts:

* **client** (`client.go`): a façade over an etcd `clientv3` connection.
  - `GetEntries` reads a prefix at one revision.
  - `WatchPrefix` blocks for the life of a watch. It starts the watch at the
    current revision and sends each response's events as one batch on an
    unbuffered channel.
  - `Register` replaces the lessor and the watcher, grants a lease, puts the
    key on it and starts `KeepAlive`. It then starts a *drainer* goroutine,
    which signals `servCheckChan` once when the keepalive channel closes.
  - `Deregister` deletes the key, then `close()` closes the lessor, the
    watcher and the watch context.
* **Cache** (`cache.go`): a slice of `KvEntry`, guarded by an RWMutex.
  - `UpdateByKvPair` replaces it.
  - `UpdateByWatchEvent` applies a batch, looking each key up with
    `GetKvEntry` (index or -1).
* **Instancer** (`instancer.go`):
  - `NewInstancer` seeds the Cache from `GetEntries`, then starts `loop`.
  - `loop` starts `WatchPrefix` and applies every batch it receives, then calls
    the subscriber callback. It returns when `Stop` closes `quitc`.
* **Registrar** (`registrar.go`):
  - `Register` calls `client.Register`. On success it starts
    `AutoCheckService`.
  - `AutoCheckService` waits on `checkServ` (capacity 1) and re-registers. On
    failure it schedules a new signal with `time.AfterFunc(3s)`.
  - `Deregister` calls `client.Deregister`.

They interact through channels and through the client's shared fields:

* Instancer → client → Cache.
* Registrar → client → drainer → `checkServ` → Registrar.

Etcd itself is the environment of every module:
* a revision history of puts and deletes;
* leases that expire or are lost;
* calls that fail.

## Modules

| Module | Models | State | Actions |
|---|---|---|---|
| `KeyValueMap` | what the Cache promises (spec 4.2) | `image`: key → value or `Absent`; `call`: the last call | `Replace`, `Advance` by a batch, `Halt` |
| `EtcdCache` | `cache.go` | `instances`: sequence of `[key, val]`; `panicked` | `UpdateByKvPair`, `UpdateByWatchEvent` (each one step: the whole body runs under `c.mtx`) |
| `MCEtcdCache` | the Cache driven by any legal calls | + `step` (ghost: the last call) | `Seed(kv)`, `Watch(wev)` |
| `EtcdInstancer` | `instancer.go` + `GetEntries`/`WatchPrefix` + the writes `Put`/`Delete`/`BatchDelete` | `hist` (event of each revision), the goroutines' pcs, `bdPc`/`bdKeys` (a `BatchDelete` in progress), `wpos`, `pending` (batch being sent on `ch`), `quit`, `callback`; ghosts `snapOk`, `snapRev`, `watchFrom`, `applied`, `notified` | `EtcdPut`, `EtcdDelete`, `BatchDeleteStart`, `BatchDeleteKey`, `NewInstancer`, `WatchCreate`, `WatchRecv`, `WatchEnd`, `LoopReceive`, `LoopQuit`, `Stop`, `Subscribe` |
| `EtcdRegistrar` | `registrar.go` + `client.Register/Deregister/close` + etcd leases | `keyLease`, `alive`, `leaseID`, `leaserOpen`, `chOpen` (open keepalive channels), `hbch`, `cancelled`, `userPc`, `loopAt` (AutoCheckService loops per pc), `drainers`, `drainSend`, `sig` (`checkServ` buffer), `timers` (pending AfterFuncs), `faults` | `RegNewLessor`, `RegGrant`, `RegPut`, `RegKeepAlive` (for the user or a loop), `DrainerSeesClose`, `DrainerSeesDone`, `DrainerSend`, `LoopRecv`, `TimerFire`, `UserRegister`, `UserDeregister`, `DeregDelete`, `DeregClose`, `LeaseLost`, `LeaseTimeout`, `CtxCancel` |
| `CacheReader` | `cache.go`: `GetKvEntry` called without the lock, racing the watch loop's updates | `arr` (backing array's slots, keys only), `n` (length), writer pc `wPc`/`wJ` (the delete's copy), reader `rKey`, `rLive`/`rArr` (array its range holds), `rLen`, `rI`, `rFound`, `rGot`; ghost `rAbsent` | `WritePutNew`, `WriteDelete`, `WriteShift`, `WriteShrink`, `ReadStart`, `ReadStep`, `ReadReturn` |
| `EtcdDiscovery` | an Instancer's `WatchPrefix` and the Registrar on one client: `EtcdRegistrar` plus the fields `c.watcher`, `c.wctx`, `c.wcf` | + `watchPc`, `watcher` (`"nil"`, `"open"`, `"closed"`), `curWatched` (is `c.watcher` the watched handle), `watchClosed`, `wcfSet`, `wcfCalled`; ghost `deregAfterStart` | `InstancerStart`, `WatchCtx` (291), `WatchNewWatcher` (292), `WatchCall` (294), `WatchEnd`, `DiscRegNewLessor` (Register with its watcher lines), `DiscDeregClose` (close with watcher and `wcf`), `RegistrarOther` (the rest, watch untouched) |
| `NsqBalancer` | `balancer.go`: each `Balance` as an operator | none (pure) | `RoundRobinBalance`, `HashBalance`, `ReferenceHashBalance`, `RandomBalance`, `CRC32Balance`, `Murmur2Balance`, dispatched by `Balance(kind, key, ...)` |
| `NsqWriter` | `pub.go`: the pool of `NewProducerPool` | `arr` (backing array of `w.producers`), `plen` (its length), `stopped`, publishers' pcs and chosen producer, Close's loop (`closeN`, `closeI`, `closeP`), `balancer` (the kind configured), `offset` (RoundRobin's counter), `crash` (which panic ended the process, if any), `faults` | `GetProducerForPublish`, `PublishOk`, `PublishFail` (calls `UnPub`), `GetProducer`, `CloseStart`, `CloseRead`, `CloseUnPub` |
| `OrmRegistry` | `orm.Get` for one name, one call per goroutine | `pc`, `got` per caller; `dbs`, `flight` (running fn's leader), `waiters`, `opened`, `panicked` | `Check`, `Do`, `Open`, `Store`, `Finish` |
| `ConfigInit` | `config.go`: `init()`, `File`, `Error`, `NewDbConfig` | `cfgPc`, `configErr`, `files` (names loaded), `listing` (what `os.ReadDir` returned), `idx`, `getSet` (`Get` non-nil) | `InitPath`, `InitStat`, `InitReadDir`, `InitLoadSkip`, `InitLoadOk`, `InitLoadFail`, `InitLoadEnd`, `InitCheck` |
| `OrmConfig` | a process importing `orm`: config's init, then `orm.Get` | both modules' variables | `ConfigStep` (init alone, before main), `GetStep(c)` with `OcOpen` (fn's `NewDbConfig` panics without the default file) |
| `MCEtcdInstancer`, `MCCacheReader`, `MCEtcdRegistrar`, `MCEtcdDiscovery`, `MCNsqWriter`, `MCOrmRegistry`, `MCOrmConfig` | properties and constants for TLC | | |

### Modelling decisions

**Cache**

* A Go panic inside the locked section kills the process. The cache keeps the
  slice it had and sets `panicked`, after which no action of the process runs.
* `GetKvEntry` is `SelectInSeq` shifted to Go's 0-based index.
* `append(s[:i], s[i+1:]...)` is `RemoveAt` for `i ≥ 0` and a panic for
  `i < 0`.

**Cache readers**

* `mtx` is unexported and `GetKvEntry` takes no lock, so readers of
  `Cached()` cannot synchronise with the loop. `CacheReader` models memory at
  the level the race is visible:
  - the slice header (array, length);
  - pointer-sized slots, each read or written atomically.
* A slot holds its entry's key. Values are updated inside the entry and
  never move.
* `append(s[:i], s[i+1:]...)` is a `memmove` of the tail, one slot per step,
  upward. The header is stored after the copy.
* `append` to a full slice copies into a new array of doubled capacity.
  `Instances = nil` also gives up the array. A reader holding the old array
  keeps reading it, and nobody writes that array again.
* `return c.Instances[i], i` reads the field again.

**Instancer**

* Each etcd write is one revision. A delete of an absent key makes no revision,
  as in etcd.
* `WatchRecv` hands over any non-empty run of consecutive revisions: one watch
  response.
* A failed `GetEntries` leaves the cache empty. That equals a snapshot at
  revision 0, because the keyspace starts empty.
* The callback is a ghost: the revision last handed to it. It changes no state
  of the model.

**Registrar**

* Every lessor but `c.leaser` is closed, because `Register` closes the old one
  and `close()` closes the current one. Closing a lessor closes its keepalive
  channels, so `RegNewLessor` and `DeregClose` empty `chOpen`.
* A keepalive channel is named by its lease.
* Faults are drawn from `faults < MaxFaults`:
  - a kept-alive lease lost;
  - Grant, Put or Delete failing;
  - a new lease timing out before its keepalive starts.
* An unrenewed lease (after its lessor was closed) times out for free.
* After cancellation every etcd call fails.
* AutoCheckService loops are identical, so they are counted per program
  counter rather than named.

**NSQ pool**

* `w.producers` is a slice header over an array that never grows after
  construction. `UnPub` finds the producer by identity, stops it and shifts
  the later elements down, leaving the last slot as it was.
* `Close` takes no lock. Its `range` evaluates the length once (`CloseStart`)
  and reads the array at each iteration (`CloseRead`), so the reads interleave
  with other steps. `unPubFunc` itself runs under `w.mu` and is one step.
* `getProducer` calls the configured balancer on the cached partitions
  `0 .. len-1`, with a key that is nil, empty or non-empty, a hash drawn from
  a sample of int32 values (the extremes, -1, 0 and small values) and, for the
  random balancer, any `rand.Int()`. The hash functions themselves are not
  computed: only the conversions the code applies to their 32 bits are.
  Go's `%` truncates toward zero, so `GoRem` follows the sign of the dividend;
  `uint32(h)` is `h + 2^32` for negative `h`.
* An index outside the slice panics (`crash`), in the balancer
  (`partitions[i]`) or at `w.producers[i]`.
* RoundRobin's `offset` is kept modulo `2^Width` (`Width = 2`), so its wrap is
  reached.
* A publish to a stopped producer fails (go-nsq returns `ErrStopped`); a
  publish to a running one may fail while `faults < MaxFaults`.

**ORM registry**

* singleflight is the leader, whose fn runs, and the waiters, who get its
  result; the key is forgotten when fn returns (`Finish`).
* A failure of `gorm.Open` or `db.DB()` is `panic`, which ends the process.

**Configuration loading**

* `init` is sequential and runs before main. Its inputs are chosen
  nondeterministically at the step that reads them:
  * whether `os.Getwd` fails (when `CONF_PATH` is unset);
  * whether the conf directory exists;
  * whether `filepath.Abs` fails;
  * whether `os.ReadDir` fails;
  * the entries it lists;
  * whether viper reads each config file.
* `os.ReadDir` sorts entries by name. Any order of the model's names is the
  sorted order of some real names, so every order of the listing is tried.
* A name is a model value. Its suffix is whether it is in `ConfigNames`.
* The values derived from the default file (`App`, `Env`, `DbMode`) and the
  keys' values are data and are left out.
* `OrmConfig` starts the `Get` goroutines only when `init` is done.
  `NewDbConfig`, the first call of the singleflight fn, dereferences
  `File(defaultFile)` and panics when `init` did not load it.

**Shared client**

* Watcher handles are told apart only by what the watch needs: the state of
  the one in `c.watcher` and whether it is the one the watch runs on. Closing
  a watcher ends its watches; `Watch` on a closed watcher returns a closed
  channel.
* `WatchPrefix` line 294 reads `c.watcher` again, so a `Register` between 292
  and 294 makes the watch run on Register's watcher.
* The fields are written by two goroutines without synchronisation (a data
  race in Go); each access is one atomic step.
* `c.wctx` is a child of `c.ctx`: cancelling the client's context ends it.

## Runs

| Run | Config | Expect | What it shows |
|---|---|---|---|
| `cache_mirror` | `MCEtcdCache.cfg` | pass | See "cache_mirror" below. |
| `cache_lookup_race` | `MCCacheReader.cfg` | violation | See "cache_lookup_race" below. |
| `instancer_mirror` | `MCEtcdInstancer.cfg` | pass | See "instancer_mirror" below. |
| `instancer_gap_panic` | `MCEtcdInstancer_NoPanic.cfg` | violation | See "instancer_gap_panic" below. |
| `instancer_stop_leaks_watch` | `MCEtcdInstancer_StopEndsWatch.cfg` | violation | After `Stop`, the WatchPrefix goroutine never ends, because nothing cancels `wctx`. |
| `discovery_shared_client` | `MCEtcdDiscovery.cfg` | pass | See "discovery_shared_client" below. |
| `register_kills_watch` | `MCEtcdDiscovery_WatchEnds.cfg` | violation | See "register_kills_watch" below. |
| `registrar_deregister_resurrects` | `MCEtcdRegistrar_DeregisterIsFinal.cfg` | violation | See "registrar_deregister_resurrects" below. |
| `nsq_pool` | `MCNsqWriter.cfg` | pass | Publishes failing concurrently and `Close` keep each producer either live exactly once or stopped (`PoolPartition`). Every one of the seven balancers, as the pool shrinks and on any key and hash, returns an index in range: `getProducer` never panics (`BalancedIndexInRange`). |
| `nsq_close_skips` | `MCNsqWriter_CloseStopsAll.cfg` | violation | Even alone, `Close` over three producers stops p1 and p3 and leaves p2 running: the range reads the array `unPubFunc` shifted. |
| `orm_get` | `MCOrmConfig.cfg` | pass | Over every outcome of config's `init`, `Get` is set only after the whole conf directory loaded (`GetImpliesCompleteLoad`). The run also reaches `orm.Get` panicking in the flight's `fn` when `init` did not load the default file. |
| `orm_second_pool` | `MCOrmRegistry_OnePoolPerName.cfg` | violation | A `Get` that missed the map before the first flight stored its pool runs a second flight and opens a second pool for the name. |

**cache_mirror** checks every sequence of snapshots and batches of up to two
events:
* no duplicate keys;
* surviving entries keep their order, and new ones come last;
* the cache read as a map refines `KeyValueMap`: each batch applies exactly its
  puts and deletes.

**cache_lookup_race**: spec 3 and 5 say readers of `Cached()` run under the
read lock; the code gives them none. TLC's shortest trace:
* the cache holds one entry;
* a lookup's range matches it;
* the loop deletes it (`c.Instances = nil`);
* `return c.Instances[0]` indexes the nil slice, and the process panics.

Other traces return the next key's entry, or pass over a key that a delete
ahead of it shifted under the reader's index.

**instancer_mirror** checks four things:
* the cache differs from the store at the applied revision only on keys
  written in the snapshot-to-watch gap;
* the key whose delete panics `UpdateByWatchEvent` is always one of those
  gap keys (`PanicOnlyFromGap`: the panicking event is found from the batch
  still in `pending` and the cache left as it was before the batch);
* every write after the watch's start is eventually applied, unless the watch
  ended, `Stop` was called or the process panicked (`CatchUp`, under weak
  fairness);
* the type invariant.

The writers include one `BatchDelete` of both keys. Its loop deletes key by
key, and each delete is its own revision. A `Delete` that returns an error may
still have been committed. The error ends the loop with an arbitrary prefix
of the keys deleted and no rollback (spec 4.1). The properties above hold
across every such partial batch. A failure that was committed and one that was
not reach the cache the same way: through the watch, or not at all.

**instancer_gap_panic**: after a successful snapshot, a key put in the gap stays
missing from the cache, and when it is later deleted the process panics. The
panic is in `UpdateByWatchEvent`: a delete of a key the cache lacks evaluates
`append(c.Instances[:-1], ...)` (`cache.go:41`), where spec 4.2 promises a
no-op. The trace is: empty snapshot → put k1 → watch
created → delete k1 → panic.

**discovery_shared_client** runs the Registrar with an Instancer's watch on
the same client, and checks the Registrar's two properties and one of the
watch:
* `SingleRecoveryToken`: drainers, blocked signals, the buffered signal,
  pending AfterFuncs and running Registers never exceed one. So there is never
  a second drainer or a concurrent `Register`, which spec 5 forbids.
* `RegistrationRestored`: after the user's successful Register, the key comes
  back on a kept-alive lease watched by one drainer. This must hold unless
  `Deregister` or cancellation intervenes.
* `DeregisterEndsWatch`: a watch whose context existed when `close()` ran
  ends, whether it runs on the watcher `WatchPrefix` made or on one a
  `Register` put in `c.watcher` before line 294.

**register_kills_watch**: `NewInstancer` starts the watch; the user's first
`Register` closes `c.watcher` (`client.go:329`), which is the watcher the
watch runs on, and the watch ends without `Deregister` or cancellation.
Re-registrations after a lost lease do the same. Nothing restarts the watch,
so the Instancer's cache is stale for good. Spec 5 names `Stop()` and
`Deregister()` as the only cancellation triggers.

**registrar_deregister_resurrects**: after `Deregister` returns, the drainer
sees the channel `close()` closed and signals. AutoCheckService then puts the
key back.

Each property of a passing run has a mutant in `PROJECT.json`: an operator
defined before the definition it replaces, which TLC shows the property
catches. For example:
* a swap-remove instead of `append(s[:i], s[i+1:]...)`;
* an in-place value update dropped;
* the watch starting one revision early;
* the drainer not returning after its signal (the "dead loop" the code's
  comment mentions);
* the AfterFunc retry dropped.

## Bounds

**MCEtcdCache**: 3 keys, 2 values, batches of at most 2 events.
* Three keys are the least for which order preservation on delete differs from
  a swap-remove.
* Two events give put-then-delete and put-then-put within a batch (spec 8).

**MCEtcdInstancer**: 2 keys, 2 values, `MaxRev = 3` writes.
* The shortest gap panic needs a write before NewInstancer, a gap write and a
  later delete.
* Three revisions also allow multi-revision watch responses.
* One `BatchDelete` list, of both keys in one order. Keys are interchangeable,
  so the other order gives the same behaviours up to renaming.
* Entering `BatchDelete` and its first `Delete` are one step, because nothing
  shared happens between them.
* About 386,000 states, 2.5 min with two workers.

**MCEtcdRegistrar**: `MaxFaults = 2`, `MaxLeases = 4`.
* Two faults allow a loss during the recovery from a loss, or a failed call in
  the middle of a re-registration.
* Each fault costs at most one lease, the first registration one, and the
  re-registration after Deregister one. So leases never run out before faults
  do.
* 3,314 states (the Registrar alone, as the two violation runs use it).

**MCEtcdDiscovery**: the bounds of MCEtcdRegistrar; the watch adds one
goroutine, started at any point of the Registrar's behaviour. 41,120 states,
15 s.

**MCCacheReader**: 3 keys, initial caches of 0 to 3 entries (as
`UpdateByKvPair` leaves them, length = capacity), 2 writes, one reader doing
repeated lookups. One delete shows the panic and the wrong entry. A miss
needs three keys and one delete, or two keys and a delete followed by a put.

**MCNsqWriter**: 3 producers, 2 publishers (symmetric), `MaxFaults = 2`.
Two failures and a Close empty the pool, so `GetProducer` on an empty pool is
reached.
* Three producers are the least for which a shift moves an unvisited element
  under Close's index.
* Two publishers can fail on the same producer.
* All seven balancer kinds, the three key kinds, hashes
  `{MinInt32, -7, -1, 0, 5, MaxInt32}` and `Width = 2` (the round-robin
  counter wraps after four calls). Pool sizes 3, 2 and 1 are all reached,
  so each remainder is taken against several lengths. 23,784 states, 5 s.

**MCOrmRegistry** / **MCOrmConfig**: 3 callers, so there can be a leader, a
waiter and a caller arriving after the flight ended. The conf directory lists
up to three entries: the default file, another config file and a non-config
file. With every order tried, there are directories where:
* a failing file comes before the default file;
* a failing file comes after it;
* the default file is missing.

`orm_get` reaches 5,966 states in 2 s.

Deadlock checking is off in the etcd, NSQ and ORM configs, for these reasons:
* A panic ends the process.
* Writes and faults are bounded, so every behaviour ends with every goroutine
  blocked in a select, which is the program's idle state.
* Publishers and Gets are finite calls that end; a finished program is a
  terminal state.


Two more defects were met while modelling and are left to unit tests rather
than runs:
* `GetProducer` (`pub.go:107`) has its nil check inverted. It returns nil when
  a producer was found, and dereferences nil when the pool is empty.
* `client.Register` grants `int64(s.TTL.ttl.Seconds())` (`client.go:340`),
  which truncates: a 500ms ttl asks etcd for a 0s lease. That is a pure
  conversion in one call.

## Fairness

Weak fairness is assumed for the steps of runnable goroutines and for etcd
answering calls already made:
* the Instancer's `WatchCreate`, `WatchRecv`, `LoopReceive`, `LoopQuit`;
* the Registrar's Register steps, drainers, `LoopRecv`, `TimerFire`, the
  Deregister steps, and `LeaseTimeout` of an unrenewed lease;
* the WatchPrefix goroutine's steps in `EtcdDiscovery` (making the context
  and the watcher, calling Watch, leaving the range once its channel closes);
* each ORM caller's steps (one per goroutine in `Get`), and config's `init`,
  which runs to its end before main. No ORM property depends on this: the
  waits of `Get` are singleflight's, not orm.go's, so no liveness property of
  the ORM is checked.

The Go scheduler runs every runnable goroutine, and a lease that nobody renews
expires after its TTL.

`CacheReader` assumes no fairness: its property is an invariant.
The NSQ model assumes no fairness: its properties are invariants.

The following are never forced:
* writes by clients (`Put`, `Delete`, the steps of a `BatchDelete`);
* the user's calls (`NewInstancer`, `Stop`, `Subscribe`, `Register`,
  `Deregister`);
* lost leases, cancellation and the end of a watch.

## Not modelled, and the plan

* **AutoCheckService loops.** Every successful `Registrar.Register`, retries
  included, starts another `AutoCheckService` (`registrar.go:41`), and none
  exits. The registrar model has these loops (`loopAt` counts them), and TLC
  reaches two after one recovery. The run that showed it gave way to
  `cache_lookup_race`, because the project is limited to twelve runs. The
  extra loops do not break `SingleRecoveryToken`.
* **Cache readers other than `GetKvEntry`**: a consumer ranging over
  `Instances` directly races the same way; `CacheReader` stands for both.
* **Shared client, the watch's batches.** `EtcdDiscovery` composes the
  Registrar with the watch's life only; the cache and the batches stay in
  `EtcdInstancer`, which checks them without a Registrar. Composing the two in
  full would multiply two state spaces and add no interaction: the
  Registrar touches the watch only through `c.watcher` and `c.wcf`.
* **TTL option** (`NewTTLOption`, the Grant TTL): pure conversions in one
  call, with nothing to interleave; see the truncation above.
* **Deregister before the watch's context.** `close()` calls `c.wcf` only if
  `WatchPrefix` has set it. A watch started after that point survives
  `Deregister`. The model has these behaviours, but nothing in its state tells
  that watch apart from one the user started after `Deregister`.
* **Retry storm.** After cancellation, retries never stop. The behaviours are
  in the model, but no run checks them, because spec 9 documents this.
* **Plain KV operations, in part.** `Get` changes no state. `PutJSON` only adds
  `json.Marshal`. `Delete`'s `ErrNoKey` for an empty key is not modelled,
  because keys are model values and none of them is empty. `Put`, `Delete` and
  `BatchDelete` are modelled as the writers in `EtcdInstancer`.
* **Hash functions** (FNV-1a, CRC32, murmur2): the balancers receive an
  abstract 32-bit hash. Computing the functions would add nothing to the
  index check, which depends only on the conversions. `murmur2` is this
  repository's own code, but it multiplies `uint32` values modulo 2^32.
  TLC's integers are 32-bit signed, so each product would need multi-limb
  arithmetic written by hand, which would copy the code rather than
  abstract it.
* **NewProducer** (a pool of one) is the same code as the pool with N = 1.
* **Config reloading.** `WatchConfig` and `OnConfigChange` hand the files to
  viper's and fsnotify's goroutines. After a reload, `App`, `Env`, `DbMode`
  and `Get` keep the values `init` derived. This is listed as a hazard, not
  modelled: the package holds no state that the reload changes.
* **ReadDir failure.** `init` then returns with `configErr` nil, so `Error()`
  would dereference nil. Nothing in the repository calls `Error()`, so no run
  checks it.
* **Registrar quit channel.** `Registrar.quit` is never made, so the
  `close(r.quit)` in `Deregister` (`registrar.go:69-74`) never runs. The model
  therefore ends `Deregister` at the client's `close()`. The consequence,
  loops that outlive `Deregister`, is what `registrar_deregister_resurrects`
  shows.
* **asynq wrappers.** Two hazards are listed in `PROJECT.json` but not
  modelled:
  * `reader.Run` ranges over the hooks map without the lock that `AddHook`
    takes;
  * `NewWriter` shares one `sync.Once` client among all writers, so one
    writer's `Close` closes it for all of them.
  The first is decided by Go's map runtime, and the second is sequential and
  unit-testable. `reader.Close` tests `r.reader == nil` the wrong way round,
  so it never shuts the server down.
* **Everything else** (log, ginx, ecode, drivers, kafka wrappers,
  ip2region, tgbotapi): sequential glue over vendor clients, out of the scope
  of spec section 1.
