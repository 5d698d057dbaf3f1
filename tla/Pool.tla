-------------------------------- MODULE Pool --------------------------------
(***************************************************************************)
(* The connection pool of libmemcachedutil (libmemcached/util/pool.cc),    *)
(* built with LIBMEMCACHED_WITH_ZK_INTEGRATION, POOL_UPDATE_SERVERLIST,    *)
(* POOL_MORE_CONCURRENCY and UPDATE_HASH_RING_OF_FETCHED_MC.               *)
(*                                                                         *)
(* A pool owns clones ("members") of a master handle.  Application threads *)
(* fetch and release members.  The thread that learned of a new cache list *)
(* updates the master and then every idle member, one at a time, dropping  *)
(* pool->mutex while it works on a member, so that fetch and release run   *)
(* in between.                                                             *)
(*                                                                         *)
(* pool->mutex is a critical section: everything the code does between     *)
(* taking and dropping it is one action.  pool->master_lock spans several  *)
(* of those sections and is a variable.                                    *)
(***************************************************************************)
EXTENDS Integers, FiniteSets, SequencesExt

CONSTANTS
  Threads,           \* application threads
  Members,           \* addresses of memcached_st objects cloned by the pool
  NoMember,          \* the NULL pointer
  Lists,             \* contents a cache list can have
  NoServers,         \* the empty one
  Flags,             \* behaviour flags of memcached_behavior_set
  ArcusFlags,        \* those do_arcus_init sets
  MaxArg,            \* the max argument of memcached_pool_create
  Initial,           \* its initial argument
  OwnsMaster,        \* created by memcached_pool(), which owns the master
  AllocMayFail,      \* memory allocation may fail in a clone or an update
  BehaviorMayFail,   \* memcached_behavior_set may reject the caller's values
  MayDestroy,        \* the application may destroy the pool
  MaxVersion,        \* bound: settings changes and re-populations
  MaxKetamaVersion   \* bound: cache list changes

\* pool.cc:104, "+1 for internal fetch".
MaxSize == MaxArg + 1

ASSUME PoolConstants ==
  /\ MaxArg \in Nat \ {0} /\ Initial \in 1..MaxArg
  /\ IsFiniteSet(Members) /\ Cardinality(Members) >= MaxSize
  /\ IsFiniteSet(Threads)
  /\ NoMember \notin Members
  /\ NoServers \in Lists /\ ArcusFlags \subseteq Flags
  /\ OwnsMaster \in BOOLEAN /\ AllocMayFail \in BOOLEAN
  /\ BehaviorMayFail \in BOOLEAN /\ MayDestroy \in BOOLEAN
  /\ MaxVersion \in Nat /\ MaxKetamaVersion \in Nat

VARIABLES
  master,       \* the master handle: versions, cache list, settings, manager
  mem,          \* the handle stored at each member address
  used_mc,      \* used_mc_head .. : list of released members, head first
  used_mc_tail, \* the used_mc_tail pointer
  used_bk,      \* used_bk_head .. : released members not updated yet
  mc_pool,      \* mc_pool[0..mc_top]: stack of members never released
  bk_pool,      \* bk_pool[0..bk_top]: such members not updated yet
  cur_size,
  wait_count,
  pc,           \* where each application thread is
  borrowed,     \* members the application holds
  upd,          \* where the one call is that sets the pool up or updates its list
  newlist,      \* the cache list it brings
  hand,         \* the member it is updating outside pool->mutex
  initializing, \* arcus->zk.is_initializing: no list has been applied yet
  master_lock,  \* "free", "held", or "leaked" by a call that has returned
  gone          \* "no", what memcached_pool_destroy returned, or "undefined"

vars == <<master, mem, used_mc, used_mc_tail, used_bk, mc_pool, bk_pool,
          cur_size, wait_count, pc, borrowed, upd, newlist, hand,
          initializing, master_lock, gone>>

\* What the pool reads or writes of a memcached_st: configure.version,
\* configure.ketama_version, its cache list, its settings, and whether
\* server_manager is set.
Handle == [ver : Nat, kver : Nat, list : Lists, beh : [Flags -> BOOLEAN],
           mgr : BOOLEAN]

-----------------------------------------------------------------------------
(* The helpers of pool.cc. *)

\* Mutants: a clone that misses server_manager; one that misses a setting.
CloneWithoutManager(m) == [m EXCEPT !.mgr = FALSE]
CloneWithoutSettings(m) == [m EXCEPT !.beh = [f \in Flags |-> FALSE]]

\* memcached_clone(NULL, master) copies versions, list, settings and manager.
memcached_clone(m) == m

\* memcached_behavior_set on one handle.
memcached_behavior_set(r, f, v) == [r EXCEPT !.beh = [@ EXCEPT ![f] = v]]

\* Mutants: the new version is recorded but the list is not; neither is.
UpdateVersionOnly(r, m) == {[r EXCEPT !.kver = m.kver]}
UpdateNothing(r, m) == {r}

\* member_update_cachelist: what can become of member r.  A failed update
\* leaves some list behind and the member's ketama version alone.
member_update_cachelist(r, m) ==
  {[r EXCEPT !.list = m.list, !.kver = m.kver]} \cup
  {[r EXCEPT !.list = l] : l \in IF AllocMayFail THEN Lists ELSE {}}

\* Mutant: a single waiter is taken for none.
BroadcastToSeveral ==
  IF wait_count > 1
  THEN [t \in Threads |-> IF pc[t] = "wait" THEN "woken" ELSE pc[t]]
  ELSE pc

\* pthread_cond_broadcast, which mc_list_add and mc_pool_add call only when
\* somebody is counted as waiting.
Broadcast ==
  IF wait_count > 0
  THEN [t \in Threads |-> IF pc[t] = "wait" THEN "woken" ELSE pc[t]]
  ELSE pc

\* Mutant: the first member pushed does not become the tail.
AddHeadKeepsTail(m) ==
  used_mc' = <<m>> \o used_mc /\ UNCHANGED used_mc_tail /\ pc' = Broadcast

\* mc_list_add(pool, true, mc): push on the head side.
mc_list_add_head(m) ==
  /\ used_mc' = <<m>> \o used_mc
  /\ used_mc_tail' = IF used_mc_tail = NoMember THEN m ELSE used_mc_tail
  /\ pc' = Broadcast

\* Mutant: the new node becomes the tail but is not linked.
AddTailUnlinked(m) ==
  /\ used_mc' = IF used_mc_tail = NoMember THEN <<m>> ELSE used_mc
  /\ used_mc_tail' = m /\ pc' = Broadcast

\* mc_list_add(pool, false, mc): link after used_mc_tail.  When the tail
\* pointer is not the last node, the new node is not reachable from the head.
mc_list_add_tail(m) ==
  /\ used_mc' = IF used_mc_tail = NoMember THEN <<m>>
                ELSE IF used_mc # <<>> /\ used_mc_tail = Last(used_mc)
                THEN Append(used_mc, m)
                ELSE used_mc
  /\ used_mc_tail' = m
  /\ pc' = Broadcast

mc_pool_add(m) ==
  /\ mc_pool' = Append(mc_pool, m)
  /\ pc' = Broadcast

Owned == ToSet(used_mc) \cup ToSet(used_bk) \cup ToSet(mc_pool)
         \cup ToSet(bk_pool) \cup borrowed \cup ({hand} \ {NoMember})
Unowned == Members \ Owned

\* A handle as memcached_create leaves it: the master when the pool is created,
\* and what the model keeps at an address the pool does not own.
Blank == [ver |-> 0, kver |-> 0, list |-> NoServers,
          beh |-> [f \in Flags |-> FALSE], mgr |-> FALSE]

-----------------------------------------------------------------------------
(* memcached_pool_create: init() clones until initial members exist or a   *)
(* clone fails.                                                            *)

Init ==
  /\ master = Blank
  /\ \E k \in (IF AllocMayFail THEN 0 ELSE Initial)..Initial :
       \E s \in Injection(1..k, Members) :
         /\ mc_pool = s
         /\ cur_size = k
         /\ mem = [m \in Members |->
                     IF m \in ToSet(s) THEN memcached_clone(master) ELSE Blank]
  /\ used_mc = <<>> /\ used_mc_tail = NoMember
  /\ used_bk = <<>> /\ bk_pool = <<>>
  /\ wait_count = 0
  /\ pc = [t \in Threads |-> "run"]
  /\ borrowed = {}
  /\ upd = "idle" /\ newlist = master.list /\ hand = NoMember
  /\ initializing = TRUE
  /\ master_lock = "free"
  /\ gone = "no"

-----------------------------------------------------------------------------
(* memcached_pool_st::fetch.  A thread enters with pc "run", or re-enters  *)
(* the loop with pc "woken" after pthread_cond_timedwait returned 0.       *)

updater == <<upd, newlist, hand, initializing, master_lock, gone>>

MayFetch(t) == gone = "no" /\ pc[t] \in {"run", "woken"}

\* Mutant: wait_count goes down also for a thread that never waited.
FetchReturnsUncounted(t) ==
  /\ wait_count' = wait_count - 1
  /\ pc' = [pc EXCEPT ![t] = "run"]

\* Leaving the loop: a thread that had waited is no longer counted.
FetchReturns(t) ==
  /\ wait_count' = IF pc[t] = "woken" THEN wait_count - 1 ELSE wait_count
  /\ pc' = [pc EXCEPT ![t] = "run"]

\* mc_list_get, first half: a member whose update is still due is updated here.
FetchFromBkList(t) ==
  /\ MayFetch(t) /\ used_bk # <<>>
  /\ used_bk' = Tail(used_bk)
  /\ borrowed' = borrowed \cup {Head(used_bk)}
  /\ \E r \in member_update_cachelist(mem[Head(used_bk)], master) :
       mem' = [mem EXCEPT ![Head(used_bk)] = r]
  /\ FetchReturns(t)
  /\ UNCHANGED <<master, used_mc, used_mc_tail, mc_pool, bk_pool, cur_size,
                 updater>>

\* Mutant: the member handed out stays in the list.
FetchFromListKeeps(t) ==
  /\ MayFetch(t) /\ used_bk = <<>> /\ used_mc # <<>>
  /\ borrowed' = borrowed \cup {Head(used_mc)}
  /\ FetchReturns(t)
  /\ UNCHANGED <<master, mem, used_mc, used_mc_tail, used_bk, mc_pool, bk_pool,
                 cur_size, updater>>

\* mc_list_get, second half.
FetchFromList(t) ==
  /\ MayFetch(t) /\ used_bk = <<>> /\ used_mc # <<>>
  /\ used_mc' = Tail(used_mc)
  /\ used_mc_tail' = IF Tail(used_mc) = <<>> THEN NoMember ELSE used_mc_tail
  /\ borrowed' = borrowed \cup {Head(used_mc)}
  /\ FetchReturns(t)
  /\ UNCHANGED <<master, mem, used_bk, mc_pool, bk_pool, cur_size, updater>>

\* mc_pool_get, first half.
FetchFromBkPool(t) ==
  /\ MayFetch(t) /\ used_bk = <<>> /\ used_mc = <<>> /\ bk_pool # <<>>
  /\ bk_pool' = Front(bk_pool)
  /\ borrowed' = borrowed \cup {Last(bk_pool)}
  /\ \E r \in member_update_cachelist(mem[Last(bk_pool)], master) :
       mem' = [mem EXCEPT ![Last(bk_pool)] = r]
  /\ FetchReturns(t)
  /\ UNCHANGED <<master, used_mc, used_mc_tail, used_bk, mc_pool, cur_size,
                 updater>>

\* mc_pool_get, second half.
FetchFromPool(t) ==
  /\ MayFetch(t) /\ used_bk = <<>> /\ used_mc = <<>> /\ bk_pool = <<>>
  /\ mc_pool # <<>>
  /\ mc_pool' = Front(mc_pool)
  /\ borrowed' = borrowed \cup {Last(mc_pool)}
  /\ FetchReturns(t)
  /\ UNCHANGED <<master, mem, used_mc, used_mc_tail, used_bk, bk_pool,
                 cur_size, updater>>

NoneIdle == used_bk = <<>> /\ used_mc = <<>> /\ bk_pool = <<>> /\ mc_pool = <<>>

\* grow_pool succeeds and the next turn of the loop takes the new member.
FetchGrow(t) ==
  /\ MayFetch(t) /\ NoneIdle /\ cur_size < MaxSize
  /\ \E m \in Unowned :
       /\ mem' = [mem EXCEPT ![m] = memcached_clone(master)]
       /\ borrowed' = borrowed \cup {m}
  /\ cur_size' = cur_size + 1
  /\ FetchReturns(t)
  /\ UNCHANGED <<master, used_mc, used_mc_tail, used_bk, mc_pool, bk_pool,
                 updater>>

\* Mutant: a thread that times out stays counted.
FetchNullCounted(t) ==
  /\ gone = "no"
  /\ \/ pc[t] = "run" /\ NoneIdle /\ cur_size >= MaxSize
     \/ pc[t] \in {"wait", "woken"}
  /\ pc' = [pc EXCEPT ![t] = "run"]
  /\ UNCHANGED <<master, mem, used_mc, used_mc_tail, used_bk, mc_pool, bk_pool,
                 cur_size, wait_count, borrowed, updater>>

\* grow_pool fails: MEMCACHED_MEMORY_ALLOCATION_FAILURE.  Or the pool is
\* exhausted and the caller does not wait: MEMCACHED_NOTFOUND.  Or
\* pthread_cond_timedwait timed out: MEMCACHED_TIMEOUT, even when a member
\* came back meanwhile.
FetchNull(t) ==
  /\ gone = "no"
  /\ \/ pc[t] \in {"run", "woken"} /\ NoneIdle /\ cur_size < MaxSize /\ AllocMayFail
     \/ pc[t] = "run" /\ NoneIdle /\ cur_size >= MaxSize
     \/ pc[t] \in {"wait", "woken"}
  /\ wait_count' = IF pc[t] = "run" THEN wait_count ELSE wait_count - 1
  /\ pc' = [pc EXCEPT ![t] = "run"]
  /\ UNCHANGED <<master, mem, used_mc, used_mc_tail, used_bk, mc_pool, bk_pool,
                 cur_size, borrowed, updater>>

\* pthread_cond_timedwait.  A woken thread that finds nothing waits again
\* (wait_count-- and wait_count++ in the same critical section).
FetchWait(t) ==
  /\ MayFetch(t) /\ NoneIdle /\ cur_size >= MaxSize
  /\ wait_count' = IF pc[t] = "woken" THEN wait_count ELSE wait_count + 1
  /\ pc' = [pc EXCEPT ![t] = "wait"]
  /\ UNCHANGED <<master, mem, used_mc, used_mc_tail, used_bk, mc_pool, bk_pool,
                 cur_size, borrowed, updater>>

\* POSIX lets pthread_cond_timedwait return 0 without a broadcast.
SpuriousWakeup(t) ==
  /\ gone = "no" /\ pc[t] = "wait"
  /\ pc' = [pc EXCEPT ![t] = "woken"]
  /\ UNCHANGED <<master, mem, used_mc, used_mc_tail, used_bk, mc_pool, bk_pool,
                 cur_size, wait_count, borrowed, updater>>

-----------------------------------------------------------------------------
(* memcached_pool_st::release.  A member with an old version is replaced   *)
(* by a clone, which takes its place and, in the model, its address.  If   *)
(* the clone fails the old member stays.                                   *)

Release(m) ==
  /\ gone = "no" /\ m \in borrowed
  /\ \E r \in IF mem[m].ver # master.ver
              THEN {memcached_clone(master)}
                   \cup (IF AllocMayFail THEN {mem[m]} ELSE {})
              ELSE IF mem[m].kver # master.kver
              THEN member_update_cachelist(mem[m], master)
              ELSE {mem[m]} :
       mem' = [mem EXCEPT ![m] = r]
  /\ borrowed' = borrowed \ {m}
  /\ mc_list_add_head(m)
  /\ UNCHANGED <<master, used_bk, mc_pool, bk_pool, cur_size, wait_count,
                 updater>>

-----------------------------------------------------------------------------
(* memcached_pool_behavior_set: takes master_lock, then mutex.  A call     *)
(* that has to wait for master_lock has pc "bset".                         *)

BehaviorSetCall(t) ==
  /\ gone = "no" /\ pc[t] = "run" /\ master.ver < MaxVersion
  /\ pc' = [pc EXCEPT ![t] = "bset"]
  /\ UNCHANGED <<master, mem, used_mc, used_mc_tail, used_bk, mc_pool, bk_pool,
                 cur_size, wait_count, borrowed, updater>>

\* memcached_behavior_set rejects the values on the master: the function
\* unlocks mutex and returns, and master_lock stays locked.
BehaviorSetFails(t) ==
  /\ gone = "no" /\ pc[t] = "bset" /\ master_lock = "free" /\ BehaviorMayFail
  /\ master_lock' = "leaked"
  /\ pc' = [pc EXCEPT ![t] = "run"]
  /\ UNCHANGED <<master, mem, used_mc, used_mc_tail, used_bk, mc_pool, bk_pool,
                 cur_size, wait_count, borrowed, upd, newlist, hand,
                 initializing, gone>>

\* A list of n members splits into those that stay and those that go, both in
\* list order: the positions keep[1] < keep[2] < .. and drop[1] < drop[2] < ..
AtPositions(s, f) == [i \in DOMAIN f |-> s[f[i]]]
Increasing(f) == \A i, j \in DOMAIN f : i < j => f[i] < f[j]
IsSplit(n, keep, drop) ==
  /\ Increasing(keep) /\ Increasing(drop)
  /\ \A p \in 1..n : (\E i \in DOMAIN keep : keep[i] = p)
                     # (\E i \in DOMAIN drop : drop[i] = p)

\* The flag is set on every idle member.  In mc_pool a member that
\* refuses it is replaced by a clone, or kept as it is when the clone fails.
\* In used_mc such a member is freed (mc_list_behavior_set) and the pool is
\* grown again by as many clones as the allocator gives.  The freed addresses
\* serve for the new clones.  used_mc_tail is cleared only when the list ends
\* up empty: if the last node goes and an earlier one stays, it dangles.
BehaviorSet(t, f, v) ==
  /\ gone = "no" /\ pc[t] = "bset" /\ master_lock = "free"
  /\ master' = [memcached_behavior_set(master, f, v) EXCEPT !.ver = @ + 1]
  /\ LET n == Len(used_mc) IN
     \E k \in (IF AllocMayFail THEN 0 ELSE n)..n :
     \E g \in (IF AllocMayFail THEN 0 ELSE n - k)..(n - k) :
     \E keep \in [1..k -> 1..n], drop \in [1..(n - k) -> 1..n] :
       /\ IsSplit(n, keep, drop)
       /\ used_mc' = AtPositions(used_mc, keep)
       /\ used_mc_tail' = IF k = 0 THEN NoMember ELSE used_mc_tail
       /\ mc_pool' = mc_pool \o SubSeq(AtPositions(used_mc, drop), 1, g)
       /\ cur_size' = cur_size - (n - k) + g
  /\ \E failed \in SUBSET (IF AllocMayFail THEN ToSet(mc_pool) ELSE {}) :
     \E kept \in SUBSET failed :
       mem' = [x \in Members |->
         IF x \in kept THEN mem[x]
         ELSE IF x \in failed THEN memcached_clone(master')
         ELSE IF x \in ToSet(mc_pool) \cup ToSet(used_mc')
         THEN [memcached_behavior_set(mem[x], f, v) EXCEPT !.ver = master'.ver]
         ELSE IF x \in ToSet(mc_pool') THEN memcached_clone(master')
         ELSE IF x \in ToSet(used_mc) THEN Blank
         ELSE mem[x]]
  /\ pc' = [pc EXCEPT ![t] = "run"]
  /\ UNCHANGED <<used_bk, bk_pool, wait_count, borrowed, updater>>

-----------------------------------------------------------------------------
(* Replacing every idle member by a clone of master m: mc_pool in place,   *)
(* the members of used_mc freed and as many new ones pushed on mc_pool.    *)

ReplaceIdle(m) ==
  \E g \in (IF AllocMayFail THEN 0 ELSE Len(used_mc))..Len(used_mc),
     kept \in SUBSET (IF AllocMayFail THEN ToSet(mc_pool) ELSE {}) :
    /\ used_mc' = <<>> /\ used_mc_tail' = NoMember
    /\ mc_pool' = mc_pool \o SubSeq(used_mc, 1, g)
    /\ cur_size' = cur_size - Len(used_mc) + g
    /\ mem' = [x \in Members |->
                 IF x \in ToSet(mc_pool') \ kept THEN memcached_clone(m)
                 ELSE IF x \in ToSet(used_mc) THEN Blank
                 ELSE mem[x]]

\* memcached_pool_repopulate.
Repopulate ==
  /\ gone = "no" /\ master_lock = "free"
  /\ master.ver < MaxVersion /\ master.kver < MaxKetamaVersion
  /\ master' = [master EXCEPT !.ver = @ + 1, !.kver = @ + 1]
  /\ ReplaceIdle(master')
  /\ UNCHANGED <<used_bk, bk_pool, wait_count, pc, borrowed, updater>>

\* memcached_pool_use_single_server, a set-up call: no cache list update runs
\* beside it.  It empties the master's list and pushes the new one without a
\* lock and without a new version, and then repopulates.
UseSingleServer(l) ==
  /\ gone = "no" /\ upd = "idle" /\ ~master.mgr /\ l # NoServers
  /\ master.ver < MaxVersion /\ master.kver < MaxKetamaVersion
  /\ master' = [master EXCEPT !.list = NoServers]
  /\ upd' = "push" /\ newlist' = l
  /\ UNCHANGED <<mem, used_mc, used_mc_tail, used_bk, mc_pool, bk_pool, cur_size,
                 wait_count, pc, borrowed, hand, initializing, master_lock, gone>>

\* memcached_server_push.  When it fails, the call returns and nothing tells the
\* members of what has become of the master's list.
SingleServerPush ==
  /\ upd = "push"
  /\ \/ master' = [master EXCEPT !.list = newlist] /\ upd' = "repopulate"
     \/ /\ AllocMayFail /\ upd' = "idle"
        /\ \E l \in {master.list, newlist} : master' = [master EXCEPT !.list = l]
  /\ UNCHANGED <<mem, used_mc, used_mc_tail, used_bk, mc_pool, bk_pool, cur_size,
                 wait_count, pc, borrowed, newlist, hand, initializing,
                 master_lock, gone>>

SingleServerRepopulate ==
  /\ upd = "repopulate" /\ master_lock = "free"
  /\ master' = [master EXCEPT !.ver = @ + 1, !.kver = @ + 1]
  /\ ReplaceIdle(master')
  /\ upd' = "idle"
  /\ UNCHANGED <<used_bk, bk_pool, wait_count, pc, borrowed, newlist, hand,
                 initializing, master_lock, gone>>

-----------------------------------------------------------------------------
(* The cache list updater: the manager thread (or, behind a proxy, the     *)
(* application thread that noticed a new version) calls                    *)
(* memcached_pool_update_cachelist with lock_arcus held, so there is one   *)
(* updater at a time.                                                      *)

\* arcus_pool_connect: do_arcus_init sets its flags on the master without a lock
\* and without a new version ...
Attach ==
  /\ gone = "no" /\ upd = "idle" /\ ~master.mgr
  /\ master' = [master EXCEPT !.beh = [f \in Flags |-> f \in ArcusFlags \/ @[f]]]
  /\ upd' = "attach"
  /\ UNCHANGED <<mem, used_mc, used_mc_tail, used_bk, mc_pool, bk_pool, cur_size,
                 wait_count, pc, borrowed, newlist, hand, initializing,
                 master_lock, gone>>

\* ... and then its server_manager, if there is memory for it.
AttachManager ==
  /\ upd = "attach" /\ upd' = "idle"
  /\ \/ master' = [master EXCEPT !.mgr = TRUE]
     \/ AllocMayFail /\ UNCHANGED master
  /\ UNCHANGED <<mem, used_mc, used_mc_tail, used_bk, mc_pool, bk_pool, cur_size,
                 wait_count, pc, borrowed, newlist, hand, initializing,
                 master_lock, gone>>

UpdateCall(l) ==
  /\ gone = "no" /\ upd = "idle" /\ master.mgr
  /\ initializing => master.ver < MaxVersion
  /\ master.kver < MaxKetamaVersion
  /\ upd' = "call" /\ newlist' = l
  /\ UNCHANGED <<master, mem, used_mc, used_mc_tail, used_bk, mc_pool, bk_pool,
                 cur_size, wait_count, pc, borrowed, hand, initializing,
                 master_lock, gone>>

\* The first list (init): versions go up whatever memcached_update_cachelist
\* returns, and all idle members are replaced.
UpdateInit ==
  /\ upd = "call" /\ master_lock = "free" /\ initializing
  /\ \E l \in {newlist} \cup (IF AllocMayFail THEN {master.list} ELSE {}) :
       master' = [master EXCEPT !.ver = @ + 1, !.kver = @ + 1, !.list = l]
  /\ ReplaceIdle(master')
  /\ initializing' = FALSE
  /\ upd' = "idle"
  /\ UNCHANGED <<used_bk, bk_pool, wait_count, pc, borrowed, newlist, hand,
                 master_lock, gone>>

\* Mutant: the early return keeps the lock.
NoChangeKeepsLock ==
  /\ upd = "call" /\ master_lock = "free" /\ ~initializing
  /\ newlist = master.list
  /\ upd' = "idle" /\ master_lock' = "held"
  /\ UNCHANGED <<master, mem, used_mc, used_mc_tail, used_bk, mc_pool, bk_pool,
                 cur_size, wait_count, pc, borrowed, newlist, hand,
                 initializing, gone>>

\* memcached_update_cachelist reports no change, or fails, perhaps after it
\* has changed the master's list.
UpdateNoChange ==
  /\ upd = "call" /\ master_lock = "free" /\ ~initializing
  /\ \/ newlist = master.list /\ master' = master
     \/ /\ newlist # master.list /\ AllocMayFail
        /\ \E l \in {master.list, newlist} : master' = [master EXCEPT !.list = l]
  /\ upd' = "idle"
  /\ UNCHANGED <<mem, used_mc, used_mc_tail, used_bk, mc_pool, bk_pool,
                 cur_size, wait_count, pc, borrowed, newlist, hand,
                 initializing, master_lock, gone>>

\* Mutant: the lock is kept when the update is over.
TakeNextKeepsLock(bk, bp) ==
  \/ /\ bk # <<>>
     /\ hand' = Head(bk) /\ used_bk' = Tail(bk) /\ bk_pool' = bp
     /\ upd' = "list" /\ master_lock' = "held"
  \/ /\ bk = <<>> /\ bp # <<>>
     /\ hand' = Last(bp) /\ used_bk' = bk /\ bk_pool' = Front(bp)
     /\ upd' = "pool" /\ master_lock' = "held"
  \/ /\ bk = <<>> /\ bp = <<>>
     /\ hand' = NoMember /\ used_bk' = bk /\ bk_pool' = bp
     /\ upd' = "idle" /\ master_lock' = "held"

\* Take the next member to update: from the list bk, then from the stack bp.
\* When both are drained the update is over and both locks are dropped.
TakeNext(bk, bp) ==
  \/ /\ bk # <<>>
     /\ hand' = Head(bk) /\ used_bk' = Tail(bk) /\ bk_pool' = bp
     /\ upd' = "list" /\ master_lock' = "held"
  \/ /\ bk = <<>> /\ bp # <<>>
     /\ hand' = Last(bp) /\ used_bk' = bk /\ bk_pool' = Front(bp)
     /\ upd' = "pool" /\ master_lock' = "held"
  \/ /\ bk = <<>> /\ bp = <<>>
     /\ hand' = NoMember /\ used_bk' = bk /\ bk_pool' = bp
     /\ upd' = "idle" /\ master_lock' = "free"

\* The list changed: all idle members become due for an update.  (bk_pool is
\* overwritten only when mc_pool has members.)
UpdateBegin ==
  /\ upd = "call" /\ master_lock = "free" /\ ~initializing
  /\ newlist # master.list
  /\ master' = [master EXCEPT !.kver = @ + 1, !.list = newlist]
  /\ used_mc' = <<>> /\ used_mc_tail' = NoMember
  /\ mc_pool' = <<>>
  /\ TakeNext(used_mc, IF mc_pool = <<>> THEN bk_pool ELSE mc_pool)
  /\ UNCHANGED <<mem, cur_size, wait_count, pc, borrowed, newlist,
                 initializing, gone>>

\* mc_list_update_cachelist: the member in hand was updated outside mutex;
\* mutex is taken again, the member goes to the tail of used_mc.
UpdateListMember ==
  /\ upd = "list"
  /\ \E r \in member_update_cachelist(mem[hand], master) :
       mem' = [mem EXCEPT ![hand] = r]
  /\ mc_list_add_tail(hand)
  /\ TakeNext(used_bk, bk_pool)
  /\ UNCHANGED <<master, mc_pool, cur_size, wait_count, borrowed, newlist,
                 initializing, gone>>

\* mc_pool_update_cachelist.
UpdatePoolMember ==
  /\ upd = "pool"
  /\ \E r \in member_update_cachelist(mem[hand], master) :
       mem' = [mem EXCEPT ![hand] = r]
  /\ mc_pool_add(hand)
  /\ TakeNext(used_bk, bk_pool)
  /\ UNCHANGED <<master, used_mc, used_mc_tail, cur_size, wait_count, borrowed,
                 newlist, initializing, gone>>

\* arcus_server_check_for_update on a member in use, before each operation:
\* memcached_pool_update_member under lock_arcus.
UpdateMember(m) ==
  /\ gone = "no" /\ m \in borrowed /\ upd = "idle"
  /\ mem[m].mgr /\ mem[m].kver # master.kver
  /\ \E r \in member_update_cachelist(mem[m], master) :
       mem' = [mem EXCEPT ![m] = r]
  /\ UNCHANGED <<master, used_mc, used_mc_tail, used_bk, mc_pool, bk_pool,
                 cur_size, wait_count, pc, borrowed, updater>>

\* memcached_pool_destroy: frees every idle member and the pool, and returns
\* the master unless the pool owns it.  The manager thread is stopped and no
\* thread is inside a pool function; members may still be in use.
Destroy ==
  /\ MayDestroy /\ gone = "no" /\ upd = "idle" /\ \A t \in Threads : pc[t] = "run"
  /\ gone' = IF OwnsMaster THEN "null" ELSE "master"
  /\ used_mc' = <<>> /\ used_mc_tail' = NoMember
  /\ used_bk' = <<>> /\ mc_pool' = <<>> /\ bk_pool' = <<>>
  /\ UNCHANGED <<master, mem, cur_size, wait_count, pc, borrowed, upd, newlist,
                 hand, initializing, master_lock>>

\* What the code leaves undefined: mc_list_behavior_set reads the mc_next of a
\* member it has just freed when an earlier one stays; a member is cloned while
\* memcached_pool_use_single_server replaces the master's list.  Both may turn
\* out well, as above, or be the end of the process.
Undefined ==
  /\ gone = "no"
  /\ \/ /\ AllocMayFail /\ master_lock = "free" /\ Len(used_mc) > 1
        /\ \E t \in Threads : pc[t] = "bset"
     \/ /\ upd = "push" /\ NoneIdle /\ cur_size < MaxSize
        /\ \E t \in Threads : pc[t] \in {"run", "woken"}
     \/ upd = "push" /\ \E m \in borrowed : mem[m].ver # master.ver
  /\ gone' = "undefined" /\ upd' = "idle"
  /\ pc' = [t \in Threads |-> "run"] /\ wait_count' = 0
  /\ UNCHANGED <<master, mem, used_mc, used_mc_tail, used_bk, mc_pool, bk_pool,
                 cur_size, borrowed, newlist, hand, initializing, master_lock>>

-----------------------------------------------------------------------------
Fetch(t) ==
  \/ FetchFromBkList(t) \/ FetchFromList(t) \/ FetchFromBkPool(t)
  \/ FetchFromPool(t) \/ FetchGrow(t) \/ FetchNull(t) \/ FetchWait(t)

Updater == UpdateInit \/ UpdateNoChange \/ UpdateBegin
           \/ UpdateListMember \/ UpdatePoolMember
SetUp == SingleServerPush \/ SingleServerRepopulate \/ AttachManager

Next ==
  \/ \E t \in Threads : \/ Fetch(t) \/ SpuriousWakeup(t) \/ BehaviorSetCall(t)
                        \/ BehaviorSetFails(t)
                        \/ \E f \in Flags, v \in BOOLEAN : BehaviorSet(t, f, v)
  \/ \E m \in Members : Release(m) \/ UpdateMember(m)
  \/ \E l \in Lists : UpdateCall(l) \/ UseSingleServer(l)
  \/ Repopulate \/ Attach \/ SetUp \/ Updater \/ Destroy \/ Undefined

Spec == Init /\ [][Next]_vars

\* Threads make progress: whoever holds or gets master_lock goes on.
FairSpec ==
  /\ Spec
  /\ WF_vars(Updater) /\ WF_vars(SetUp)
  /\ \A t \in Threads :
       WF_vars(\/ BehaviorSetFails(t)
               \/ \E f \in Flags, v \in BOOLEAN : BehaviorSet(t, f, v))

-----------------------------------------------------------------------------
(* Properties *)

\* The places of upd at which master_lock is not held.
Unlocked == {"idle", "push", "repopulate", "attach", "call"}

\* Type invariant.
TypeOK ==
  /\ master \in Handle /\ mem \in [Members -> Handle]
  /\ used_mc \in Seq(Members) /\ used_mc_tail \in Members \cup {NoMember}
  /\ used_bk \in Seq(Members)
  /\ mc_pool \in Seq(Members) /\ bk_pool \in Seq(Members)
  /\ cur_size \in Nat /\ wait_count \in Nat
  /\ pc \in [Threads -> {"run", "wait", "woken", "bset"}]
  /\ borrowed \in SUBSET Members
  /\ upd \in Unlocked \cup {"list", "pool"}
  /\ newlist \in Lists /\ hand \in Members \cup {NoMember}
  /\ initializing \in BOOLEAN
  /\ master_lock \in {"free", "held", "leaked"}
  /\ gone \in {"no", "master", "null", "undefined"}

InHand == IF hand = NoMember THEN 0 ELSE 1

\* cur_size counts exactly the members that exist, wherever they are (idle,
\* waiting for an update, being updated outside the mutex, in use): none is
\* lost, none is counted twice, and max_size is never exceeded.
SizeAccounting ==
  gone = "no" =>
    /\ cur_size = Len(used_mc) + Len(used_bk) + Len(mc_pool) + Len(bk_pool)
                  + Cardinality(borrowed) + InHand
    /\ cur_size <= MaxSize

\* A member is in one place only: two threads never hold the same connection,
\* and nobody holds one that is idle or being updated.
Exclusive ==
  /\ IsInjective(used_mc) /\ IsInjective(used_bk)
  /\ IsInjective(mc_pool) /\ IsInjective(bk_pool)
  /\ ToSet(used_mc) \cap (ToSet(used_bk) \cup ToSet(mc_pool) \cup ToSet(bk_pool)
                          \cup borrowed \cup {hand}) = {}
  /\ ToSet(used_bk) \cap (ToSet(mc_pool) \cup ToSet(bk_pool) \cup borrowed
                          \cup {hand}) = {}
  /\ ToSet(mc_pool) \cap (ToSet(bk_pool) \cup borrowed \cup {hand}) = {}
  /\ ToSet(bk_pool) \cap (borrowed \cup {hand}) = {}
  /\ hand \notin borrowed

\* No lost wake-up: while a thread sleeps in fetch there is no member it could
\* have taken and no room to grow.  Every path that returns a member wakes it.
NoLostWakeup ==
  (\E t \in Threads : pc[t] = "wait") => NoneIdle /\ cur_size = MaxSize

\* wait_count is the number of threads between wait_count++ and wait_count--.
Waiters == {t \in Threads : pc[t] \in {"wait", "woken"}}
WaitersCounted == wait_count = Cardinality(Waiters)

\* When the updater appends to used_mc, used_mc_tail is the last node: the
\* dangling tail mc_list_behavior_set may leave behind is never followed.
TailPointer ==
  upd = "list" => used_mc_tail = IF used_mc = <<>> THEN NoMember ELSE Last(used_mc)

\* master_lock is held exactly while the updater works on a member outside
\* mutex, members wait for their update only then, and the list is drained
\* before the stack.
LockDiscipline ==
  /\ (master_lock = "held") <=> upd \in {"list", "pool"}
  /\ (hand # NoMember) <=> upd \in {"list", "pool"}
  /\ upd \in Unlocked => used_bk = <<>> /\ bk_pool = <<>>
  /\ upd = "pool" => used_bk = <<>>
  /\ gone # "no" => upd = "idle" /\ \A t \in Threads : pc[t] = "run"

\* The inductive invariant: each part needs the others.
IInv ==
  /\ TypeOK /\ LockDiscipline /\ WaitersCounted /\ TailPointer
  /\ Exclusive /\ SizeAccounting /\ NoLostWakeup

\* While memcached_pool_use_single_server is between its unlocked change of the
\* master's list and the repopulation, and while do_arcus_init's settings and
\* server_manager are not yet followed by the first list, the master is ahead of
\* its versions.
Relisting == upd \in {"push", "repopulate"}
Attaching == upd = "attach" \/ (master.mgr /\ initializing)

SameList(h) == h.list = master.list \/ Relisting
SameSettings(h) ==
  \A f \in Flags : h.beh[f] = master.beh[f] \/ (f \in ArcusFlags /\ Attaching)

\* Idle members that are not queued for an update are exact copies of the
\* master, also while an update is running beside fetches and releases (when
\* no allocation fails, and but for what the set-up calls are changing).
FreshIdle ==
  gone = "no" /\ ~AllocMayFail =>
    \A m \in ToSet(used_mc) \cup ToSet(mc_pool) :
      /\ mem[m].ver = master.ver /\ mem[m].kver = master.kver
      /\ SameList(mem[m]) /\ SameSettings(mem[m])
      /\ mem[m].mgr = master.mgr \/ Attaching

\* Equal ketama versions mean equal cache lists: a member that missed a change
\* is recognised by release and by arcus_server_check_for_update (when no
\* allocation fails, and but for the window of memcached_pool_use_single_server).
ListVersionFaithful ==
  gone = "no" /\ ~AllocMayFail =>
    \A m \in Owned : mem[m].kver = master.kver => SameList(mem[m])

\* docs/man/memcached_pool_create.3:106: "memcached_pool_behavior_set() is used
\* to get/set behavior flags on all connections in the pool."  Release tells
\* stale connections by their version, so equal versions must mean equal flags
\* (when no allocation fails, and but for the flags of do_arcus_init until the
\* first list).
SettingsVersionFaithful ==
  gone = "no" /\ ~AllocMayFail =>
    \A m \in Owned : mem[m].ver = master.ver => SameSettings(mem[m])

\* A handle in use is changed by nobody but its user.
BorrowedUntouched ==
  [][\A m \in borrowed \cap borrowed' : mem'[m] = mem[m] \/ UpdateMember(m)]_vars

\* Fetch hands out members that have the master's current list, also in the
\* middle of an update; only memcached_pool_use_single_server has a moment in
\* which it does not (when no allocation fails).
FetchedIsCurrent ==
  [][~AllocMayFail => \A m \in borrowed' \ borrowed : SameList(mem[m])']_vars

\* A cache list update comes to its end and memcached_pool_behavior_set returns,
\* whatever the other threads do and whatever fails, unless a rejected setting
\* has left master_lock locked (or the process ends on what is undefined).
UpdateTerminates == (upd # "idle") ~> (upd = "idle" \/ master_lock = "leaked")
OnlyLeakBlocks ==
  \A t \in Threads : (pc[t] = "bset") ~> (pc[t] # "bset" \/ master_lock = "leaked")

\* docs/man/memcached_pool_create.3:119: with invalid parameters the functions
\* return MEMCACHED_INVALID_ARGUMENTS; memcached_pool_behavior_set returns.
BehaviorSetReturns == \A t \in Threads : (pc[t] = "bset") ~> (pc[t] # "bset")

=============================================================================
