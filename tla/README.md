# A TLA+ model of arcus-c-client

arcus-c-client is the C/C++ client library for ARCUS: a cluster of memcached
servers whose membership (the *cache list*) is kept in ZooKeeper. It is a fork
of libmemcached with three additions: the ZooKeeper client and its manager
thread (`libmemcached/arcus.cc`), replication groups
(`libmemcached/rgroup.cc`), and the collection commands
(`libmemcached/collection.cc`).

This directory models the parts of the library that are hard to test: code run
by several threads or processes, code driven by callbacks, code that has to
survive lost sessions, failing allocations and servers that come and go, and
the bookkeeping that matches answers with requests. Source paths below are
relative to `src/libmemcached/`. The build modelled is the one with ZooKeeper
and replication (`LIBMEMCACHED_WITH_ZK_INTEGRATION`, `ENABLE_REPLICATION`,
`POOL_UPDATE_SERVERLIST`, `POOL_MORE_CONCURRENCY`,
`UPDATE_HASH_RING_OF_FETCHED_MC`, `IMMEDIATELY_RECONNECT`), the text protocol,
and TCP.

## The system

| part | source | state | operations | what is hard |
|---|---|---|---|---|
| connection pool | `util/pool.cc` | the master handle, idle members in two lists and two stacks, `cur_size`, `wait_count`, two locks | fetch, release, behavior_set, repopulate, use_single_server, update_cachelist, update_member, destroy | the updater drops the mutex while it works on a member; waiters and timeouts; clones that fail half way |
| ZooKeeper manager | `arcus.cc` | session, requests, `azk_count`, `lock_arcus`, the manager thread | arcus_connect, arcus_close, reconnect, reading the list, the two watchers | three threads; one-shot watches; sessions that expire at any moment; joins under a lock |
| list for forked children | `arcus.cc` | shared memory with version and list, the child's version and handles | proxy_update_cachelist, check_for_update | a lock that does not exclude; versions read before and after the data |
| connections | `connect.cc`, `io.cc`, `quit.cc`, `do.cc`, `initialize_query.cc`, `response.cc`, `fetch.cc` | socket, write buffer, `cursor_active`, retry time | connect, write, flush, drain, read, fetch, quit | requests without replies, requests that are buffered, replies still on the wire |
| commands | `storage.cc`, `get.cc`, `delete.cc`, `touch.cc`, `auto.cc`, `exist.cc`, `collection.cc` | outstanding answers per server | one function per command | which of them drain, buffer, reply, and follow a switchover |
| piped commands | `collection.cc`, `response.cc` | batch, array of responses, loop index | piped insert, piped exist, piped bulk insert | a switchover in the middle of a batch; statuses gathered over batches and servers |
| replication groups | `rgroup.cc` | groups, their master and slaves | update, switchover, prune | changes of roles seen in any order |
| server list and ring | `hosts.cc`, `hash.cc`, `server*.cc`, `memcached.cc` | hosts, ketama points, reference counts | push, prune, update_cachelist, dispatch | merging an old and a new list; sharing of the ring |

The manager learns of a list and applies it to the master handle of a pool
(`Pool!UpdateCall` is where the manager enters); the pool spreads it over its
members; a forked child takes it from shared memory instead. Each member of a
pool is a handle as `Client` models it. `PROJECT.json` lists every component,
also those without a model, and the hazards of the code at the lines where
they bite.

## Modules

`Pool` — the connection pool. What the code does under `pool->mutex` is one
action; `master_lock`, which spans several such sections, is a variable with
the value `"leaked"` when a call returns without dropping it. A `memcached_st`
is reduced to its two versions, its list, its flags and whether it has a
server manager. `used_mc`, `used_bk`, `mc_pool` and `bk_pool` are sequences;
`used_mc_tail` is kept beside the list because the code can let it dangle.
`fetch` is one action for each place it finds a member (`FetchFromBkList` ..
`FetchGrow`), one for giving up and one for waiting. An update of the cache
list is `UpdateCall`, then `UpdateInit`, `UpdateNoChange` or `UpdateBegin`, and
then one action for each member (`UpdateListMember`, `UpdatePoolMember`).
Two set-up calls change the master without a lock and without a new version:
`memcached_pool_use_single_server` (`UseSingleServer`, `SingleServerPush`,
`SingleServerRepopulate`) and `do_arcus_init` (`Attach`, `AttachManager`); each
is several steps, and fetch and release run in between. Failing allocations and
rejected settings are choices enabled by constants. `Undefined` is the end of
the process where the code uses freed memory (`util/pool.cc:631` reads
`mc_next` of a member just freed) or clones a master whose list is being
replaced; the other outcome, that it turns out well, is the ordinary action.

`ZkManager` — the manager thread, the application thread in `arcus_connect`
and `arcus_close`, and the completion thread of the ZooKeeper library with the
watchers it calls. `pc` says where each is. Critical sections of `lock_arcus`,
`zk_mgr.lock` and `azk_mtx` are single actions, with one exception:
`zookeeper_close` is called with `lock_arcus` held and joins the completion
thread, so `lock` records who does so. The session, the watch and the order of
events are an environment modelled from what `arcus.cc` relies on: a server of
the ensemble may show a list older than the newest (`view`), a watch may be
removed, or used up by an event that is not a change of the children (`Spent`).
`lapses` records what the code has let go: an `arcus_close` that overtook the
manager thread, a list dropped for want of memory, the end of a session reported
while no manager was running. `ManagerCrash` is the end of a manager thread
whose `arcus_st` has been freed under it.

`Proxy` — the cache list in memory shared with forked children. `flock` on an
inherited descriptor excludes nobody, so reading and writing go piece by piece;
the list has three parts (the beginning of the string, its end, the size), so
that a copy can be torn. With `MayFail` a list may be too long for the child's
buffer, memory may be missing, and an update of a handle may fail half way; the
code notes the version all the same, and `missed` records that. `Overrun` is the
child's end when the size it read is older than the string, so that the array
it allocates is too small.

`Client` — one handle, its connections and its commands. A connection is
`open`, `cursor_active`, the requests in its write buffer, the requests sent
and not answered, and whether it is disabled until its retry time. Each command
is a record saying how it uses the connection, one definition per C function.
A call goes through `drain`, `send`, `read` and `fetch`; nodes answer with item
lines and a last line, with `SWITCHOVER` when they are not the master of their
group, or not at all. A `SWITCHOVER` names a peer, rightly or wrongly, or none,
and then `rgroup->replicas[1]` (`first_slave`) is taken; `Swap` exchanges the two
replicas. `call.astray` says that the call follows a `SWITCHOVER` that did not
name the master. `cursor_active` counts modulo `Wrap`.

`Pipe` — the piped collection commands over several servers: the loop that
fills batches, the `RESPONSE` list, retrying after a switchover, and the
summary `piped_rc`. A server is a group of `R` replicas and `leader` the index
of its master among the client's replicas. When a batch of one is answered
`SWITCHOVER` the index goes back too far (`lone`); from the first item it goes
to -1 and the length to `SIZE_MAX`, and then the process may end (`Crash`) or go
on with what lies before the arrays (`Stray`).

`MCPool`, `MCZkManager`, `MCProxy` and `MCClient` instantiate the modules for
TLC (`Pipe` needs no instance). `ListFacts` (lemmas on the sequences of the
pool), `PoolProofs`, `ProxyProofs` and `ClientProofs` hold the theorems. A
definition preceded by a comment "Mutant" is a deliberately wrong version of
the one that follows; replacing the one by the other must break the property
named in `PROJECT.json`.

## Runs

| run | instance | what it shows |
|---|---|---|
| `pool` | 2 threads, 3 members, 2 lists, 1 flag, 2 setting changes, 3 list changes; symmetric (2.2 million states) | accounting, exclusiveness, wake-ups, lock discipline; idle and fetched members have the current list, equal versions mean equal contents, members in use are left alone, but for what a set-up call is changing |
| `pool_faults` | 1 thread, 2 members, every failure, destroy; fair | the accounting and locking invariants on every failure path; updates and settings end unless the lock has leaked |
| `pool_leak` | 2 threads, settings may be rejected | violated: `BehaviorSetReturns` |
| `zk_manager` | 2 faults at any point, 1 further list, a retry delay of 2 polls; fair (190 thousand states) | requests and watches are not lost, the handle is not used after its end, the list is followed, an expired session replaced, calls return |
| `zk_close_hangs` | the same, with memory | violated: `CallsReturn` |
| `proxy` | 2 threads, 2 lists, every failure; fair (770 thousand states) | torn copies do not stay; the child follows |
| `proxy_pool_lost` | the same, without failures | violated: `PoolCaughtUp` |
| `client` | groups of 3 and of 1, six commands of different kinds, 2 unanswered requests per connection, 1 failover; fair (730 thousand states) | the count of answers, own answers, at most one execution, no futile wait, calls return |
| `client_buffered` | the same, with buffering in blocking mode | violated: `NoFutileWait` |
| `pipe` | up to 4 items (3 of a bulk) in batches of 2 on 2 groups of 3, 2 failovers; fair (1.1 million states) | order, statuses, summary, termination |
| `pipe_lone` | up to 3 items, 1 failover | violated: `LoneInOrder` |
| `pipe_bulk` | the same | violated: `BulkSummarised` |

Why the bounds suffice. Pool: with three members one can be in use, one in the
updater's hand and one idle or queued, and two threads are enough for one to
wait while the other releases; the two versions need to differ by two only for
a member that missed one change and got the next. With one flag and no failing
allocation no member can miss a setting and be stamped by the next; the hazard
list says what happens otherwise. Manager: an error needs a lost session and a
failure while reconnecting; the counter `azk_count` goes wrong, where it does,
with two. Proxy: a torn copy takes parts of two successive lists, and a third
cannot make it more torn. Client: the order of the replicas in the list is fixed
(`Listed`), because the failover may go to either slave and the peer named is
any; one failover makes the master's place differ from where the client looks,
which is where the wrong and the unnamed peers matter. The instance with two
failovers (5.5 million states), too long for the regular run, holds as well.
Two unanswered requests make the difference between "the last answer"
and "an older one"; `Wrap` is larger than any legal count, so that a decrement
below zero shows as a large count, as in the code. Pipe: four items in batches
of two have a first, a full and a short batch, and the batch of one; two
failovers let a batch be divided twice. A bulk of three items on two servers has
a batch of two and a batch of one in either order, and all on one server.

Fairness. A thread that can go on does: threads that hold or get a lock
(`Pool`), the threads of the client and the ensemble's repair or end of a lost
session (`ZkManager`), the parent's write once begun and the child's calls
(`Proxy`), the call in progress, whose waits all have a time limit (`Client`,
`Pipe`), and a node that takes what was sent to it (`Pipe`). Nobody is assumed
to begin anything: no list need change, no thread need fetch.

Exceptions are stated by what happened, never by an assumption that it does not.
Manager: `Caught`, a watcher waits for `lock_arcus` while its holder waits in
`zookeeper_close` for that watcher (run `zk_close_hangs`); `Deaf`, the watch was
used up by an event the watcher does not act on (`arcus.cc:1150`); and the three
`lapses`. "overtaken" needs `arcus_connect` to return before the thread it
created has run, and `arcus_close` to be called then: `running` is not yet set
(`arcus.cc:1312`), so the thread is not waited for. "ignored": the session ended
while no manager was running, and the watcher asks nobody. "dropped": the gap the
code notes at `arcus.cc:1113`. Proxy: `missed`, and the child that died of an
overrun. Client and pipe: `Returns` and `Ends` except a call that is sent astray
infinitely often, and comes off it infinitely often only to be sent astray again;
in a group of three, two slaves whose `SWITCHOVER` names nobody can do that,
since "the first slave" is then the other slave. Pool: the two set-up calls
(`Relisting`, `Attaching`).

Deadlock is checked except where the system may really stop: a pool that is
destroyed, leaked or at its bounds, a closed or hanging manager, and a child that
has died of an overrun.

## What is proved

For every value of the constants, with TLAPS:

* `PoolProofs`: the pool's type invariant, `SizeAccounting`, `Exclusive`,
  `NoLostWakeup` and `TailPointer`. The inductive invariant `IInv` is their
  conjunction with `LockDiscipline` and `WaitersCounted`: that nobody sleeps
  beside an idle member needs `wait_count` to be exact, for the broadcast is
  skipped when it is zero; exact accounting needs exclusiveness, for only then
  does taking a member from one list leave the others alone; and both need to
  know what the updater holds. The assumptions are `PoolConstants`. Failing
  allocations, rejected settings, the set-up calls, destruction and the undefined
  end are included.
* `ProxyProofs`: `CaughtUp`, a child without a pool that has noted the
  parent's version has that version's list in one piece, unless it failed to
  take that list over (`missed`). Failures are included. The parent writes the
  list before the version and the child reads the version before the list, so
  each part lies between the version noted and what is shared (`IInv`). When
  the version noted is the parent's and the parent is idle, both ends agree.
* `ClientProofs`: `Balanced`, `cursor_active` is the number of answers owed.
  The inductive invariant adds that a call reads only from an open connection
  with nothing left to send (`ReadsOpen`, `FetchesSent`) and which commands can
  be at which place (`Consistent`). The theorems assume `Disciplined`: the
  program calls `memcached_fetch` only when no request is in a write buffer,
  and while replies are off uses only commands that have a "noreply" form.
  Without the first, a failed flush ignored at `response.cc:952` takes the
  count below zero; without the second, answers arrive that nobody counted.
  Nodes, groups, the order of their replicas, the peers named, commands and modes
  are arbitrary.

## What is only model-checked

All liveness properties; the pool's freshness and version properties; all of
`ZkManager` and `Pipe`; `OwnSuccess`, `AtMostOnce` and `NoFutileWait` of
`Client`; `KverTellsList` of `Proxy`. Liveness is out of the prover's reach;
the others are candidates for further proofs.

## Where code and documents disagree

* A rejected flag in `memcached_pool_behavior_set` leaves `master_lock` locked
  (`util/pool.cc:656`).
* `zookeeper_close` under `lock_arcus` and a watcher waiting for `lock_arcus`
  wait for each other (`arcus.cc:736`).
* A pooled child notes the version of a list that was not copied
  (`arcus.cc:784`).
* With buffering in blocking mode, reading commands wait for answers to
  requests that were not sent (`initialize_query.cc:134`).
* A switchover answered to a batch of one goes back one item too far
  (`collection.cc:2864`).
* The summary of a bulk insert looks at as many results as the last server had
  items (`collection.cc:3142`).

## What is not modelled

Replication groups beyond the switchover, the server list and the ketama ring,
`bop_mget` and `bop_smget`, `memcached_purge`, `memcached_version` and
`memcached_dump`, auto ejection, the binary protocol, UDP, SASL, the parser of
configuration strings, the hash functions, the server-side protocol library,
the command line tools and the tests. `PROJECT.json` gives the reason for each.
Time is not modelled: a timed wait may end at any moment. Of what the comment at
`arcus.cc:1317` warns of, the model has the order of `zookeeper_close` and
`zoo_wget_children`, not the hang inside the library.

## The plan

1. `RGroup`: building groups from the cache list, merging an old with a new
   list, and the role changes that arrive in any order; the ring with its
   reference count, and `Pool` and `Client` on top of it.
2. Pure algorithms against reference definitions: the search of the ring, the
   merge of `bop_smget`.
3. `Client`: `memcached_purge`, `memcached_version`, the failure limit; the
   commands without a "noreply" form in no_reply mode.
4. Abstract specifications: a list service that `ZkManager` with `Pool`
   implements (a client sees published lists in order), and a command service
   that `Client` implements (each call executed at most once, or reported
   failed).
5. Theorems: `OwnSuccess` and `AtMostOnce` of `Client`, `InOrder` of `Pipe`,
   `NoLostRequest`, `Attentive` and `ManagerHasArcus` of `ZkManager`, and the
   version properties of `Pool`.
