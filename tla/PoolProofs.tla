----------------------------- MODULE PoolProofs -----------------------------
(***************************************************************************)
(* Proofs about Pool, for every number of threads and members, every       *)
(* max_size and every pattern of failures.                                 *)
(***************************************************************************)
EXTENDS Pool, ListFacts

-----------------------------------------------------------------------------
(* Facts used by several actions. *)

\* A thread that stops waiting, or starts to.
LEMMA WaiterFacts ==
  ASSUME TypeOK, WaitersCounted, NEW t \in Threads
  PROVE  /\ (pc' = [pc EXCEPT ![t] = "run"] \/ pc' = [pc EXCEPT ![t] = "bset"])
              => Waiters' = Waiters \ {t}
         /\ (pc' = [pc EXCEPT ![t] = "wait"] \/ pc' = [pc EXCEPT ![t] = "woken"])
              => Waiters' = Waiters \cup {t}
         /\ t \notin Waiters => Cardinality(Waiters \cup {t}) = wait_count + 1
         /\ t \in Waiters => /\ Cardinality(Waiters \ {t}) = wait_count - 1
                             /\ wait_count > 0
<1>1. pc' = [pc EXCEPT ![t] = "run"] \/ pc' = [pc EXCEPT ![t] = "bset"]
        => Waiters' = Waiters \ {t}
  BY DEF TypeOK, Waiters
<1>2. pc' = [pc EXCEPT ![t] = "wait"] \/ pc' = [pc EXCEPT ![t] = "woken"]
        => Waiters' = Waiters \cup {t}
  BY DEF TypeOK, Waiters
<1>3. Waiters \in SUBSET Threads /\ IsFiniteSet(Threads)
  BY PoolConstants DEF Waiters
<1> QED BY <1>1, <1>2, <1>3, CardFacts DEF WaitersCounted

\* After a broadcast nobody sleeps, and the same threads are counted.
LEMMA BroadcastFacts ==
  ASSUME TypeOK, WaitersCounted, pc' = Broadcast
  PROVE  /\ pc' \in [Threads -> {"run", "wait", "woken", "bset"}]
         /\ Waiters' = Waiters
         /\ \A t \in Threads : pc'[t] # "wait"
         /\ \A t \in Threads : pc[t] = "run" => pc'[t] = "run"
<1>1. Waiters \in SUBSET Threads /\ IsFiniteSet(Threads)
  BY PoolConstants DEF Waiters
<1>2. wait_count \in Nat
  BY DEF TypeOK
<1>3. CASE wait_count > 0
  BY <1>3 DEF Broadcast, TypeOK, Waiters
<1>4. CASE wait_count = 0
  <2>1. \A t \in Threads : t \notin Waiters
    <3> SUFFICES ASSUME NEW t \in Threads, t \in Waiters PROVE FALSE
      OBVIOUS
    <3>1. Cardinality(Waiters) > 0
      BY <1>1, CardFacts, Zenon
    <3> QED BY <3>1, <1>4 DEF WaitersCounted
  <2>2. pc' = pc
    BY <1>4 DEF Broadcast
  <2> QED BY <2>1, <2>2 DEF Waiters, TypeOK
<1> QED BY <1>2, <1>3, <1>4

\* member_update_cachelist leaves a handle, whether it succeeds or fails.
LEMMA HandleFacts ==
  ASSUME NEW r \in Handle, NEW m \in Handle, NEW q \in member_update_cachelist(r, m)
  PROVE  q \in Handle
BY ZenonT(30) DEF Handle, member_update_cachelist

\* What the operations write into the master and into members is a handle.
LEMMA MasterFacts ==
  ASSUME NEW m \in Handle, NEW l \in Lists
  PROVE  /\ [m EXCEPT !.kver = @ + 1, !.list = l] \in Handle
         /\ [m EXCEPT !.ver = @ + 1, !.kver = @ + 1, !.list = l] \in Handle
         /\ [m EXCEPT !.ver = @ + 1, !.kver = @ + 1] \in Handle
         /\ m.list \in Lists /\ m.ver \in Nat
         /\ Blank \in Handle
<1> DEFINE W(x) == [m EXCEPT !.ver = x]
           K(r, x) == [r EXCEPT !.kver = x]
           L(r, x) == [r EXCEPT !.list = x]
<1>1. m.ver + 1 \in Nat /\ m.kver + 1 \in Nat /\ m.list \in Lists /\ m.ver \in Nat
  BY DEF Handle
<1>2. \A x \in Nat : W(x) \in Handle /\ W(x).kver = m.kver
  BY DEF Handle
<1>3. \A r \in Handle : \A x \in Nat : K(r, x) \in Handle
  BY DEF Handle
<1>4. \A r \in Handle : L(r, l) \in Handle
  BY DEF Handle
<1>5. K(m, m.kver + 1) \in Handle /\ L(K(m, m.kver + 1), l) \in Handle
  BY <1>1, <1>3, <1>4, Zenon
<1>7. /\ K(W(m.ver + 1), W(m.ver + 1).kver + 1) \in Handle
      /\ L(K(W(m.ver + 1), W(m.ver + 1).kver + 1), l) \in Handle
  BY <1>1, <1>2, <1>3, <1>4, ZenonT(30)
<1>8. Blank \in Handle
  BY PoolConstants DEF Blank, Handle
<1> QED BY <1>1, <1>5, <1>7, <1>8

\* A flag set on a handle, and the version stamped on it, leave a handle.
LEMMA SettingFacts ==
  ASSUME NEW r \in Handle, NEW f \in Flags, NEW v \in BOOLEAN, NEW n \in Nat
  PROVE  /\ [memcached_behavior_set(r, f, v) EXCEPT !.ver = n] \in Handle
         /\ [memcached_behavior_set(r, f, v) EXCEPT !.ver = @ + 1] \in Handle
<1> DEFINE b == [r.beh EXCEPT ![f] = v]
           q == [r EXCEPT !.beh = b]
<1>1. b \in [Flags -> BOOLEAN]
  BY DEF Handle
<1>2. q \in Handle
  BY <1>1 DEF Handle
<1>3. q = memcached_behavior_set(r, f, v)
  BY DEF memcached_behavior_set
<1> HIDE DEF q
<1>4. q.ver + 1 \in Nat /\ \A x \in Nat : [q EXCEPT !.ver = x] \in Handle
  BY <1>2 DEF Handle
<1> QED BY <1>3, <1>4

\* Leaving fetch.
LEMMA FetchReturnsFacts ==
  ASSUME IInv, NEW t \in Threads, MayFetch(t), FetchReturns(t)
  PROVE  /\ pc' \in [Threads -> {"run", "wait", "woken", "bset"}]
         /\ wait_count' \in Nat /\ WaitersCounted'
         /\ \A u \in Threads : pc'[u] = "wait" => pc[u] = "wait"
         /\ gone = "no"
<1>1. TypeOK /\ WaitersCounted
  BY DEF IInv
<1>2. /\ pc' \in [Threads -> {"run", "wait", "woken", "bset"}]
      /\ \A u \in Threads : pc'[u] = "wait" => pc[u] = "wait"
  BY <1>1 DEF FetchReturns, TypeOK
<1>3. Waiters' = Waiters \ {t} /\ gone = "no"
  BY <1>1, WaiterFacts, ZenonT(30) DEF FetchReturns, MayFetch
<1>4. CASE pc[t] = "woken"
  <2>1. t \in Waiters
    BY <1>4 DEF Waiters
  <2>2. Cardinality(Waiters \ {t}) = wait_count - 1 /\ wait_count > 0
    BY <1>1, <2>1, WaiterFacts, ZenonT(30)
  <2>3. wait_count' = wait_count - 1
    BY <1>4 DEF FetchReturns
  <2> QED BY <1>1, <1>2, <1>3, <2>2, <2>3 DEF WaitersCounted, TypeOK
<1>5. CASE pc[t] = "run"
  <2>1. Waiters' = Waiters
    BY <1>3, <1>5 DEF Waiters
  <2>2. wait_count' = wait_count
    BY <1>5 DEF FetchReturns
  <2> QED BY <1>1, <1>2, <1>3, <2>1, <2>2, ZenonT(30) DEF WaitersCounted, TypeOK
<1> QED BY <1>4, <1>5 DEF MayFetch

-----------------------------------------------------------------------------
(* memcached_pool_st::fetch preserves the invariant. *)

\* A fetch that takes an idle member: what remains to be shown of each way.
LEMMA HandOut ==
  ASSUME IInv, NEW t \in Threads, MayFetch(t), FetchReturns(t), ~NoneIdle,
         NEW m \in Members, m \notin borrowed, borrowed' = borrowed \cup {m},
         UNCHANGED <<master, cur_size, updater>>,
         mem' \in [Members -> Handle],
         used_mc' \in Seq(Members), used_mc_tail' \in Members \cup {NoMember},
         used_bk' \in Seq(Members), mc_pool' \in Seq(Members),
         bk_pool' \in Seq(Members),
         Len(used_mc') + Len(used_bk') + Len(mc_pool') + Len(bk_pool')
           = Len(used_mc) + Len(used_bk) + Len(mc_pool) + Len(bk_pool) - 1,
         used_bk' = used_bk \/ used_bk # <<>>, bk_pool' = bk_pool \/ bk_pool # <<>>,
         TailPointer', Exclusive'
  PROVE  IInv'
<1>1. TypeOK /\ LockDiscipline /\ WaitersCounted /\ SizeAccounting /\ NoLostWakeup
  BY DEF IInv
<1>2. /\ pc' \in [Threads -> {"run", "wait", "woken", "bset"}]
      /\ wait_count' \in Nat /\ WaitersCounted'
      /\ \A u \in Threads : pc'[u] = "wait" => pc[u] = "wait"
      /\ gone = "no"
  BY FetchReturnsFacts
<1>3. TypeOK'
  BY <1>1, <1>2 DEF TypeOK, updater
<1>4. LockDiscipline'
  BY <1>1, <1>2 DEF LockDiscipline, TypeOK, updater
<1>5. SizeAccounting'
  <2>1. borrowed \in SUBSET Members /\ IsFiniteSet(Members)
    BY <1>1, PoolConstants DEF TypeOK
  <2>2. Cardinality(borrowed') = Cardinality(borrowed) + 1 /\ Cardinality(borrowed) \in Nat
    BY <2>1, CardFacts, ZenonT(30)
  <2>3. InHand' = InHand /\ InHand \in Nat
    BY DEF InHand, updater
  <2>4. /\ Len(used_mc) \in Nat /\ Len(mc_pool) \in Nat /\ Len(bk_pool) \in Nat
        /\ Len(used_bk) \in Nat
        /\ Len(used_mc') \in Nat /\ Len(mc_pool') \in Nat /\ Len(bk_pool') \in Nat
        /\ Len(used_bk') \in Nat
    BY <1>1 DEF TypeOK
  <2> QED BY <1>1, <1>2, <2>2, <2>3, <2>4 DEF SizeAccounting, updater
<1>6. NoLostWakeup'
  BY <1>1, <1>2 DEF NoLostWakeup
<1> QED BY <1>2, <1>3, <1>4, <1>5, <1>6 DEF IInv

\* Fetch takes a released member whose update is due.
LEMMA FetchFromBkListStep ==
  ASSUME IInv, NEW t \in Threads, FetchFromBkList(t)
  PROVE  IInv'
<1> DEFINE m == Head(used_bk)
<1> USE DEF FetchFromBkList
<1>1. TypeOK /\ TailPointer /\ Exclusive
  BY DEF IInv
<1>2. used_bk \in Seq(Members) /\ used_bk # <<>>
  BY <1>1 DEF TypeOK
<1>3. /\ used_bk' = Tail(used_bk) /\ used_bk' \in Seq(Members) /\ m \in Members
      /\ Len(used_bk') = Len(used_bk) - 1 /\ Len(used_bk) \in Nat \ {0}
      /\ ToSet(used_bk) = {m} \cup ToSet(used_bk')
      /\ IsInjective(used_bk) => IsInjective(used_bk') /\ m \notin ToSet(used_bk')
  BY <1>2, TailFacts
<1>4. mem' \in [Members -> Handle]
  BY <1>1, <1>3, HandleFacts DEF TypeOK
<1>5. TailPointer'
  BY <1>1 DEF TailPointer, updater
<1>6. m \notin borrowed /\ Exclusive'
  BY <1>1, <1>3 DEF Exclusive, updater
<1>7. /\ Len(used_mc') + Len(used_bk') + Len(mc_pool') + Len(bk_pool')
           = Len(used_mc) + Len(used_bk) + Len(mc_pool) + Len(bk_pool) - 1
      /\ used_mc' \in Seq(Members) /\ mc_pool' \in Seq(Members)
      /\ bk_pool' \in Seq(Members) /\ used_mc_tail' \in Members \cup {NoMember}
  BY <1>1, <1>3 DEF TypeOK
<1> QED BY <1>2, <1>3, <1>4, <1>5, <1>6, <1>7, HandOut, ZenonT(30) DEF NoneIdle

\* Fetch takes a released member; the tail pointer is cleared with the last one.
LEMMA FetchFromListStep ==
  ASSUME IInv, NEW t \in Threads, FetchFromList(t)
  PROVE  IInv'
<1> DEFINE m == Head(used_mc)
<1> USE DEF FetchFromList
<1>1. TypeOK /\ TailPointer /\ Exclusive
  BY DEF IInv
<1>2. used_mc \in Seq(Members) /\ used_mc # <<>>
  BY <1>1 DEF TypeOK
<1>3. /\ used_mc' = Tail(used_mc) /\ used_mc' \in Seq(Members) /\ m \in Members
      /\ Len(used_mc') = Len(used_mc) - 1 /\ Len(used_mc) \in Nat \ {0}
      /\ ToSet(used_mc) = {m} \cup ToSet(used_mc')
      /\ IsInjective(used_mc) => IsInjective(used_mc') /\ m \notin ToSet(used_mc')
      /\ used_mc' # <<>> => Last(used_mc') = Last(used_mc)
  BY <1>2, TailFacts
<1>4. mem' \in [Members -> Handle] /\ used_mc_tail' \in Members \cup {NoMember}
  BY <1>1 DEF TypeOK
<1>5. TailPointer'
  BY <1>1, <1>2, <1>3 DEF TailPointer, updater
<1>6. m \notin borrowed /\ Exclusive'
  BY <1>1, <1>3 DEF Exclusive, updater
<1>7. /\ Len(used_mc') + Len(used_bk') + Len(mc_pool') + Len(bk_pool')
           = Len(used_mc) + Len(used_bk) + Len(mc_pool) + Len(bk_pool) - 1
      /\ used_bk' \in Seq(Members) /\ mc_pool' \in Seq(Members)
      /\ bk_pool' \in Seq(Members)
  BY <1>1, <1>3 DEF TypeOK
<1> QED BY <1>2, <1>3, <1>4, <1>5, <1>6, <1>7, HandOut, ZenonT(30) DEF NoneIdle

\* Fetch takes a member never released whose update is due.
LEMMA FetchFromBkPoolStep ==
  ASSUME IInv, NEW t \in Threads, FetchFromBkPool(t)
  PROVE  IInv'
<1> DEFINE m == Last(bk_pool)
<1> USE DEF FetchFromBkPool
<1>1. TypeOK /\ TailPointer /\ Exclusive
  BY DEF IInv
<1>2. bk_pool \in Seq(Members) /\ bk_pool # <<>>
  BY <1>1 DEF TypeOK
<1>3. /\ bk_pool' = Front(bk_pool) /\ bk_pool' \in Seq(Members) /\ m \in Members
      /\ Len(bk_pool') = Len(bk_pool) - 1 /\ Len(bk_pool) \in Nat \ {0}
      /\ ToSet(bk_pool) = {m} \cup ToSet(bk_pool')
      /\ IsInjective(bk_pool) => IsInjective(bk_pool') /\ m \notin ToSet(bk_pool')
  BY <1>2, FrontFacts
<1>4. mem' \in [Members -> Handle]
  BY <1>1, <1>3, HandleFacts DEF TypeOK
<1>5. TailPointer'
  BY <1>1 DEF TailPointer, updater
<1>6. m \notin borrowed /\ Exclusive'
  BY <1>1, <1>3 DEF Exclusive, updater
<1>7. /\ Len(used_mc') + Len(used_bk') + Len(mc_pool') + Len(bk_pool')
           = Len(used_mc) + Len(used_bk) + Len(mc_pool) + Len(bk_pool) - 1
      /\ used_mc' \in Seq(Members) /\ mc_pool' \in Seq(Members)
      /\ used_bk' \in Seq(Members) /\ used_mc_tail' \in Members \cup {NoMember}
  BY <1>1, <1>3 DEF TypeOK
<1> QED BY <1>2, <1>3, <1>4, <1>5, <1>6, <1>7, HandOut DEF NoneIdle

\* Fetch takes a member never released.
LEMMA FetchFromPoolStep ==
  ASSUME IInv, NEW t \in Threads, FetchFromPool(t)
  PROVE  IInv'
<1> DEFINE m == Last(mc_pool)
<1> USE DEF FetchFromPool
<1>1. TypeOK /\ TailPointer /\ Exclusive
  BY DEF IInv
<1>2. mc_pool \in Seq(Members) /\ mc_pool # <<>>
  BY <1>1 DEF TypeOK
<1>3. /\ mc_pool' = Front(mc_pool) /\ mc_pool' \in Seq(Members) /\ m \in Members
      /\ Len(mc_pool') = Len(mc_pool) - 1 /\ Len(mc_pool) \in Nat \ {0}
      /\ ToSet(mc_pool) = {m} \cup ToSet(mc_pool')
      /\ IsInjective(mc_pool) => IsInjective(mc_pool') /\ m \notin ToSet(mc_pool')
  BY <1>2, FrontFacts
<1>4. mem' \in [Members -> Handle]
  BY <1>1 DEF TypeOK
<1>5. TailPointer'
  BY <1>1 DEF TailPointer, updater
<1>6. m \notin borrowed /\ Exclusive'
  BY <1>1, <1>3 DEF Exclusive, updater
<1>7. /\ Len(used_mc') + Len(used_bk') + Len(mc_pool') + Len(bk_pool')
           = Len(used_mc) + Len(used_bk) + Len(mc_pool) + Len(bk_pool) - 1
      /\ used_mc' \in Seq(Members) /\ bk_pool' \in Seq(Members)
      /\ used_bk' \in Seq(Members) /\ used_mc_tail' \in Members \cup {NoMember}
  BY <1>1, <1>3 DEF TypeOK
<1> QED BY <1>2, <1>3, <1>4, <1>5, <1>6, <1>7, HandOut DEF NoneIdle

\* The address of the new member is one that the pool does not own.
LEMMA FetchGrowStep ==
  ASSUME IInv, NEW t \in Threads, FetchGrow(t)
  PROVE  IInv'
<1> USE DEF FetchGrow
<1>1. TypeOK /\ LockDiscipline /\ TailPointer /\ Exclusive /\ SizeAccounting /\ NoLostWakeup
  BY DEF IInv
<1>2. /\ pc' \in [Threads -> {"run", "wait", "woken", "bset"}]
      /\ wait_count' \in Nat /\ WaitersCounted'
      /\ \A u \in Threads : pc'[u] = "wait" => pc[u] = "wait"
      /\ gone = "no"
  BY FetchReturnsFacts
<1>3. PICK m \in Unowned : /\ mem' = [mem EXCEPT ![m] = memcached_clone(master)]
                           /\ borrowed' = borrowed \cup {m}
  BY ZenonT(30)
<1>4. m \in Members /\ m \notin ToSet(used_mc) /\ m \notin ToSet(used_bk)
      /\ m \notin ToSet(mc_pool) /\ m \notin ToSet(bk_pool) /\ m \notin borrowed
      /\ m # hand
  BY PoolConstants DEF Unowned, Owned
<1>5. TypeOK'
  <2>1. mem' \in [Members -> Handle]
    BY <1>1, <1>3, <1>4 DEF TypeOK, memcached_clone
  <2> QED BY <1>1, <1>2, <1>3, <1>4, <2>1 DEF TypeOK, updater
<1>6. LockDiscipline' /\ TailPointer'
  BY <1>1, <1>2 DEF LockDiscipline, TailPointer, TypeOK, updater
<1>7. Exclusive'
  BY <1>1, <1>3, <1>4 DEF Exclusive, updater
<1>8. SizeAccounting'
  <2>1. borrowed \in SUBSET Members /\ IsFiniteSet(Members)
    BY <1>1, PoolConstants DEF TypeOK
  <2>2. Cardinality(borrowed') = Cardinality(borrowed) + 1 /\ Cardinality(borrowed) \in Nat
    BY <1>3, <1>4, <2>1, CardFacts
  <2>3. InHand' = InHand /\ InHand \in Nat
    BY DEF InHand, updater
  <2>4. /\ Len(used_mc) \in Nat /\ Len(mc_pool) \in Nat /\ Len(bk_pool) \in Nat
        /\ Len(used_bk) \in Nat /\ MaxSize \in Nat /\ cur_size \in Nat
    BY <1>1, PoolConstants DEF TypeOK, MaxSize
  <2> QED BY <1>1, <1>2, <2>2, <2>3, <2>4 DEF SizeAccounting, updater
<1>9. NoLostWakeup'
  <2>1. cur_size # MaxSize
    BY <1>1, PoolConstants DEF MaxSize, TypeOK
  <2> QED BY <1>1, <1>2, <2>1 DEF NoLostWakeup
<1> QED BY <1>2, <1>5, <1>6, <1>7, <1>8, <1>9 DEF IInv

\* Steps that move no member.
LEMMA PcStep ==
  ASSUME IInv, gone = "no",
         UNCHANGED <<master, mem, used_mc, used_mc_tail, used_bk, mc_pool, bk_pool,
                     cur_size, borrowed, upd, newlist, hand, initializing, gone>>,
         master_lock' \in {"free", "held", "leaked"},
         (master_lock' = "held") <=> (master_lock = "held"),
         pc' \in [Threads -> {"run", "wait", "woken", "bset"}],
         wait_count' \in Nat, WaitersCounted', NoLostWakeup'
  PROVE  IInv'
<1>1. TypeOK /\ LockDiscipline /\ TailPointer /\ Exclusive /\ SizeAccounting
  BY DEF IInv
<1>2. TypeOK'
  BY <1>1 DEF TypeOK
<1>3. LockDiscipline' /\ TailPointer'
  BY <1>1 DEF LockDiscipline, TailPointer
<1>4. Exclusive' /\ SizeAccounting'
  BY <1>1 DEF Exclusive, SizeAccounting, InHand
<1> QED BY <1>2, <1>3, <1>4 DEF IInv

\* A fetch that returns NULL is no longer counted as waiting.
LEMMA FetchNullStep ==
  ASSUME IInv, NEW t \in Threads, FetchNull(t)
  PROVE  IInv'
<1> USE DEF FetchNull
<1>1. TypeOK /\ WaitersCounted /\ NoLostWakeup
  BY DEF IInv
<1>2. Waiters' = Waiters \ {t}
  BY <1>1, WaiterFacts, ZenonT(30)
<1>3. wait_count' \in Nat /\ WaitersCounted'
  <2>1. CASE pc[t] = "run"
    <3>1. Waiters' = Waiters
      BY <1>2, <2>1 DEF Waiters
    <3> QED BY <1>1, <2>1, <3>1 DEF WaitersCounted, TypeOK
  <2>2. CASE pc[t] # "run"
    <3>1. t \in Waiters
      BY <2>2 DEF Waiters
    <3>2. Cardinality(Waiters \ {t}) = wait_count - 1 /\ wait_count > 0
      BY <1>1, <3>1, WaiterFacts, ZenonT(30)
    <3> QED BY <1>1, <1>2, <2>2, <3>2 DEF WaitersCounted, TypeOK
  <2> QED BY <2>1, <2>2
<1>4. /\ pc' \in [Threads -> {"run", "wait", "woken", "bset"}]
      /\ \A u \in Threads : pc'[u] = "wait" => pc[u] = "wait"
  BY <1>1 DEF TypeOK
<1>5. NoLostWakeup'
  BY <1>1, <1>4 DEF NoLostWakeup, NoneIdle
<1> QED BY <1>1, <1>3, <1>4, <1>5, PcStep DEF updater, TypeOK

\* A fetch goes to sleep only with nothing idle and the pool full.
LEMMA FetchWaitStep ==
  ASSUME IInv, NEW t \in Threads, FetchWait(t)
  PROVE  IInv'
<1> USE DEF FetchWait
<1>1. TypeOK /\ WaitersCounted /\ SizeAccounting
  BY DEF IInv
<1>2. Waiters' = Waiters \cup {t} /\ gone = "no"
  BY <1>1, WaiterFacts, ZenonT(30) DEF MayFetch
<1>3. wait_count' \in Nat /\ WaitersCounted'
  <2>1. CASE pc[t] = "woken"
    <3>1. Waiters' = Waiters
      BY <1>2, <2>1 DEF Waiters
    <3> QED BY <1>1, <2>1, <3>1 DEF WaitersCounted, TypeOK
  <2>2. CASE pc[t] = "run"
    <3>1. t \notin Waiters
      BY <2>2 DEF Waiters
    <3>2. Cardinality(Waiters \cup {t}) = wait_count + 1
      BY <1>1, <3>1, WaiterFacts, ZenonT(30)
    <3> QED BY <1>1, <1>2, <2>2, <3>2 DEF WaitersCounted, TypeOK
  <2> QED BY <2>1, <2>2 DEF MayFetch
<1>4. pc' \in [Threads -> {"run", "wait", "woken", "bset"}]
  BY <1>1 DEF TypeOK
<1>5. NoLostWakeup'
  <2>1. cur_size = MaxSize
    BY <1>1, <1>2, PoolConstants DEF SizeAccounting, TypeOK, MaxSize
  <2> QED BY <2>1 DEF NoLostWakeup, NoneIdle
<1> QED BY <1>1, <1>2, <1>3, <1>4, <1>5, PcStep DEF updater, TypeOK

\* A wake-up without a broadcast.
LEMMA SpuriousWakeupStep ==
  ASSUME IInv, NEW t \in Threads, SpuriousWakeup(t)
  PROVE  IInv'
<1> USE DEF SpuriousWakeup
<1>1. TypeOK /\ WaitersCounted /\ NoLostWakeup
  BY DEF IInv
<1>2. Waiters' = Waiters \cup {t} /\ t \in Waiters
  BY <1>1, WaiterFacts DEF Waiters
<1>3. wait_count' \in Nat /\ WaitersCounted'
  <2>1. Waiters' = Waiters
    BY <1>2
  <2> QED BY <1>1, <2>1 DEF WaitersCounted, TypeOK
<1>4. /\ pc' \in [Threads -> {"run", "wait", "woken", "bset"}]
      /\ \A u \in Threads : pc'[u] = "wait" => pc[u] = "wait"
  BY <1>1 DEF TypeOK
<1>5. NoLostWakeup'
  BY <1>1, <1>4 DEF NoLostWakeup, NoneIdle
<1> QED BY <1>1, <1>3, <1>4, <1>5, PcStep DEF updater, TypeOK

\* memcached_pool_behavior_set, up to and without the change of settings.
LEMMA BehaviorSetCallStep ==
  ASSUME IInv, NEW t \in Threads, BehaviorSetCall(t) \/ BehaviorSetFails(t)
  PROVE  IInv'
<1> USE DEF BehaviorSetCall, BehaviorSetFails
<1>1. TypeOK /\ WaitersCounted /\ NoLostWakeup
  BY DEF IInv
<1>2. Waiters' = Waiters \ {t} /\ t \notin Waiters
  BY <1>1, WaiterFacts, ZenonT(30) DEF Waiters
<1>3. wait_count' \in Nat /\ WaitersCounted'
  <2>1. Waiters' = Waiters
    BY <1>2
  <2> QED BY <1>1, <2>1 DEF WaitersCounted, TypeOK
<1>4. /\ pc' \in [Threads -> {"run", "wait", "woken", "bset"}]
      /\ \A u \in Threads : pc'[u] = "wait" => pc[u] = "wait"
  BY <1>1 DEF TypeOK
<1>5. NoLostWakeup'
  BY <1>1, <1>4 DEF NoLostWakeup, NoneIdle
<1> QED BY <1>1, <1>3, <1>4, <1>5, PcStep DEF updater, TypeOK

-----------------------------------------------------------------------------
(* memcached_pool_st::release. *)

\* Release pushes the member on the list and wakes all waiters.
LEMMA ReleaseStep ==
  ASSUME IInv, NEW m \in Members, Release(m)
  PROVE  IInv'
<1> USE DEF Release, mc_list_add_head
<1>1. TypeOK /\ LockDiscipline /\ WaitersCounted /\ TailPointer /\ Exclusive
      /\ SizeAccounting
  BY DEF IInv
<1>2. /\ used_mc' = <<m>> \o used_mc /\ used_mc' \in Seq(Members)
      /\ Len(used_mc') = Len(used_mc) + 1
      /\ ToSet(used_mc') = {m} \cup ToSet(used_mc)
      /\ IsInjective(used_mc) /\ m \notin ToSet(used_mc) => IsInjective(used_mc')
      /\ used_mc' # <<>>
      /\ Last(used_mc') = IF used_mc = <<>> THEN m ELSE Last(used_mc)
  <2>1. used_mc \in Seq(Members) /\ used_mc' = <<m>> \o used_mc
    BY <1>1 DEF TypeOK
  <2>2. /\ used_mc' \in Seq(Members) /\ Len(used_mc') = Len(used_mc) + 1
        /\ ToSet(used_mc') = {m} \cup ToSet(used_mc)
        /\ IsInjective(used_mc) /\ m \notin ToSet(used_mc) => IsInjective(used_mc')
    BY <2>1, ConsFacts
  <2>3. Last(used_mc') = IF used_mc = <<>> THEN m ELSE Last(used_mc)
    <3>1. used_mc # <<>> => Last(used_mc') = Last(used_mc)
      BY <2>1, ConsFacts
    <3>2. Last(<<m>> \o <<>>) = m
      BY <2>1, ConsFacts
    <3> QED BY <2>1, <3>1, <3>2, ZenonT(30)
  <2> QED BY <2>1, <2>2, <2>3, EmptyFacts
<1>3. /\ pc' \in [Threads -> {"run", "wait", "woken", "bset"}]
      /\ Waiters' = Waiters /\ \A t \in Threads : pc'[t] # "wait"
  BY <1>1, BroadcastFacts, ZenonT(30)
<1>4. TypeOK'
  <2>1. mem' \in [Members -> Handle]
    BY <1>1, HandleFacts DEF TypeOK, memcached_clone
  <2> QED BY <1>1, <1>2, <1>3, <2>1, ZenonT(30) DEF TypeOK, updater
<1>5. LockDiscipline' /\ WaitersCounted'
  BY <1>1, <1>3, ZenonT(30) DEF LockDiscipline, WaitersCounted, updater
<1>6. TailPointer'
  <2>2. used_mc # <<>> => Last(used_mc) # NoMember
    BY <1>1, PoolConstants, FrontFacts DEF TypeOK
  <2> QED BY <1>1, <1>2, <2>2 DEF TailPointer, updater
<1>7. Exclusive'
  BY <1>1, <1>2 DEF Exclusive, updater
<1>8. SizeAccounting'
  <2>1. borrowed \in SUBSET Members /\ IsFiniteSet(Members)
    BY <1>1, PoolConstants, ZenonT(30) DEF TypeOK
  <2>2. Cardinality(borrowed') = Cardinality(borrowed) - 1 /\ Cardinality(borrowed) \in Nat
    BY <2>1, CardFacts, ZenonT(30)
  <2>3. InHand' = InHand /\ InHand \in Nat
    BY DEF InHand, updater
  <2>4. /\ Len(used_mc) \in Nat /\ Len(mc_pool) \in Nat /\ Len(bk_pool) \in Nat
        /\ Len(used_bk) \in Nat
    BY <1>1 DEF TypeOK
  <2> QED BY <1>1, <1>2, <2>2, <2>3, <2>4 DEF SizeAccounting, updater
<1>9. NoLostWakeup'
  BY <1>3 DEF NoLostWakeup
<1> QED BY <1>4, <1>5, <1>6, <1>7, <1>8, <1>9 DEF IInv

-----------------------------------------------------------------------------
(* Steps that change handles only. *)

\* Steps that change handles and move no member preserve the invariant.
LEMMA HandleStep ==
  ASSUME IInv, gone = "no", master' \in Handle, mem' \in [Members -> Handle],
         UNCHANGED <<used_mc, used_mc_tail, used_bk, mc_pool, bk_pool, cur_size,
                     wait_count, pc, borrowed, hand, initializing, master_lock, gone>>,
         newlist' \in Lists, (upd' \in Unlocked /\ upd \in Unlocked) \/ upd' = upd
  PROVE  IInv'
<1>1. TypeOK /\ LockDiscipline /\ WaitersCounted /\ TailPointer /\ Exclusive
      /\ SizeAccounting /\ NoLostWakeup
  BY DEF IInv
<1>2. TypeOK'
  BY <1>1, ZenonT(30) DEF TypeOK
<1>3. LockDiscipline' /\ TailPointer'
  BY <1>1 DEF LockDiscipline, TailPointer, Unlocked
<1>4. Exclusive' /\ SizeAccounting'
  BY <1>1, ZenonT(30) DEF Exclusive, SizeAccounting, InHand
<1>5. WaitersCounted' /\ NoLostWakeup'
  BY <1>1 DEF WaitersCounted, Waiters, NoLostWakeup, NoneIdle
<1> QED BY <1>2, <1>3, <1>4, <1>5 DEF IInv

\* A member in use is updated by its user.
LEMMA UpdateMemberStep ==
  ASSUME IInv, NEW m \in Members, UpdateMember(m)
  PROVE  IInv'
<1>1. TypeOK
  BY DEF IInv
<1>2. mem' \in [Members -> Handle] /\ master' \in Handle /\ newlist' \in Lists
  BY <1>1, HandleFacts DEF TypeOK, UpdateMember, updater
<1> QED BY <1>2, HandleStep DEF UpdateMember, updater

\* do_arcus_init: the flags on the master, and then its manager.
LEMMA AttachStep ==
  ASSUME IInv, Attach
  PROVE  IInv'
<1>1. TypeOK
  BY DEF IInv
<1>2. master' \in Handle
  <2>1. [f \in Flags |-> f \in ArcusFlags \/ master.beh[f]] \in [Flags -> BOOLEAN]
    BY <1>1 DEF TypeOK, Handle
  <2>2. \A b \in [Flags -> BOOLEAN] : [master EXCEPT !.beh = b] \in Handle
    BY <1>1 DEF TypeOK, Handle
  <2> QED BY <2>1, <2>2, ZenonT(30) DEF Attach
<1>3. mem' \in [Members -> Handle] /\ newlist' \in Lists
  BY <1>1 DEF TypeOK, Attach
<1> QED BY <1>2, <1>3, HandleStep DEF Attach, Unlocked

LEMMA AttachManagerStep ==
  ASSUME IInv, AttachManager
  PROVE  IInv'
<1>1. TypeOK /\ LockDiscipline
  BY DEF IInv
<1>2. master' \in Handle
  <2>1. master \in Handle /\ [master EXCEPT !.mgr = TRUE] \in Handle
    BY <1>1 DEF TypeOK, Handle
  <2> QED BY <2>1 DEF AttachManager
<1>3. mem' \in [Members -> Handle] /\ newlist' \in Lists
  BY <1>1 DEF TypeOK, AttachManager
<1>4. gone = "no"
  BY <1>1 DEF LockDiscipline, TypeOK, AttachManager
<1> QED BY <1>2, <1>3, <1>4, HandleStep DEF AttachManager, Unlocked

\* memcached_pool_use_single_server changes the master's list.
LEMMA UseSingleServerStep ==
  ASSUME IInv, NEW l \in Lists, UseSingleServer(l)
  PROVE  IInv'
<1>1. TypeOK
  BY DEF IInv
<1>2. master' \in Handle
  <2>1. \A x \in Lists : [master EXCEPT !.list = x] \in Handle
    BY <1>1 DEF TypeOK, Handle
  <2> QED BY <2>1, PoolConstants DEF UseSingleServer
<1>3. mem' \in [Members -> Handle] /\ newlist' \in Lists
  BY <1>1 DEF TypeOK, UseSingleServer
<1> QED BY <1>2, <1>3, HandleStep DEF UseSingleServer, Unlocked

LEMMA SingleServerPushStep ==
  ASSUME IInv, SingleServerPush
  PROVE  IInv'
<1>1. TypeOK /\ LockDiscipline
  BY DEF IInv
<1>2. master' \in Handle
  <2>1. newlist \in Lists /\ master.list \in Lists
    BY <1>1 DEF TypeOK, Handle
  <2>2. \A x \in Lists : [master EXCEPT !.list = x] \in Handle
    BY <1>1 DEF TypeOK, Handle
  <2> QED BY <2>1, <2>2 DEF SingleServerPush
<1>3. mem' \in [Members -> Handle] /\ newlist' \in Lists
  BY <1>1 DEF TypeOK, SingleServerPush
<1>4. gone = "no"
  BY <1>1 DEF LockDiscipline, TypeOK, SingleServerPush
<1>5. upd \in Unlocked /\ upd' \in Unlocked
  BY DEF SingleServerPush, Unlocked
<1> QED BY <1>2, <1>3, <1>4, <1>5, HandleStep DEF SingleServerPush

\* The updater arrives and waits for master_lock.
LEMMA UpdateCallStep ==
  ASSUME IInv, NEW l \in Lists, UpdateCall(l)
  PROVE  IInv'
<1>1. TypeOK
  BY DEF IInv
<1>2. master' \in Handle /\ mem' \in [Members -> Handle]
  BY <1>1 DEF TypeOK, UpdateCall
<1> QED BY <1>2, HandleStep DEF UpdateCall, Unlocked

\* The list did not change, or its update failed.
LEMMA UpdateNoChangeStep ==
  ASSUME IInv, UpdateNoChange
  PROVE  IInv'
<1>1. TypeOK /\ LockDiscipline
  BY DEF IInv
<1>2. master' \in Handle
  <2>1. master \in Handle /\ newlist \in Lists /\ master.list \in Lists
    BY <1>1 DEF TypeOK, Handle
  <2>2. \A l \in Lists : [master EXCEPT !.list = l] \in Handle
    BY <2>1 DEF Handle
  <2> QED BY <2>1, <2>2 DEF UpdateNoChange
<1>4. mem' \in [Members -> Handle] /\ newlist' \in Lists
  BY <1>1 DEF TypeOK, UpdateNoChange
<1>3. gone = "no"
  BY <1>1 DEF LockDiscipline, TypeOK, UpdateNoChange
<1> QED BY <1>2, <1>3, <1>4, HandleStep DEF UpdateNoChange, Unlocked

-----------------------------------------------------------------------------
(* The cache list updater. *)

\* The member taken next leaves the rest of list and stack as they were.
LEMMA TakeNextFacts ==
  ASSUME NEW bk \in Seq(Members), NEW bp \in Seq(Members), TakeNext(bk, bp)
  PROVE  /\ hand' \in Members \cup {NoMember}
         /\ used_bk' \in Seq(Members) /\ bk_pool' \in Seq(Members)
         /\ upd' \in {"idle", "list", "pool"}
         /\ master_lock' = IF upd' = "idle" THEN "free" ELSE "held"
         /\ (hand' # NoMember) <=> upd' \in {"list", "pool"}
         /\ upd' = "idle" => used_bk' = <<>> /\ bk_pool' = <<>>
         /\ upd' = "pool" => used_bk' = <<>>
         /\ upd' = "list" => bk # <<>>
         /\ bk = <<>> /\ bp = <<>> => upd' = "idle"
         /\ Len(used_bk') + Len(bk_pool') + InHand' = Len(bk) + Len(bp)
         /\ InHand' \in Nat
         /\ ToSet(used_bk') \subseteq ToSet(bk) /\ ToSet(bk_pool') \subseteq ToSet(bp)
         /\ hand' \in ToSet(bk) \cup ToSet(bp) \cup {NoMember}
         /\ IsInjective(bk) /\ IsInjective(bp) /\ ToSet(bk) \cap ToSet(bp) = {}
              => /\ IsInjective(used_bk') /\ IsInjective(bk_pool')
                 /\ hand' \notin ToSet(used_bk') \cup ToSet(bk_pool')
<1>0. NoMember \notin Members /\ Len(bk) \in Nat /\ Len(bp) \in Nat
  BY PoolConstants
<1>1. CASE bk # <<>>
  <2>1. hand' = Head(bk) /\ used_bk' = Tail(bk) /\ bk_pool' = bp
        /\ upd' = "list" /\ master_lock' = "held"
    BY <1>1 DEF TakeNext
  <2>2. /\ Tail(bk) \in Seq(Members) /\ Head(bk) \in Members
        /\ Len(Tail(bk)) = Len(bk) - 1
        /\ ToSet(bk) = {Head(bk)} \cup ToSet(Tail(bk))
        /\ IsInjective(bk) => IsInjective(Tail(bk)) /\ Head(bk) \notin ToSet(Tail(bk))
    BY <1>1, TailFacts
  <2>3. InHand' = 1
    BY <1>0, <2>1, <2>2 DEF InHand
  <2> QED BY <1>0, <1>1, <2>1, <2>2, <2>3
<1>2. CASE bk = <<>> /\ bp # <<>>
  <2>1. hand' = Last(bp) /\ used_bk' = <<>> /\ bk_pool' = Front(bp)
        /\ upd' = "pool" /\ master_lock' = "held"
    BY <1>2 DEF TakeNext
  <2>2. /\ Front(bp) \in Seq(Members) /\ Last(bp) \in Members
        /\ Len(Front(bp)) = Len(bp) - 1
        /\ ToSet(bp) = {Last(bp)} \cup ToSet(Front(bp))
        /\ IsInjective(bp) => IsInjective(Front(bp)) /\ Last(bp) \notin ToSet(Front(bp))
    BY <1>2, FrontFacts
  <2>3. InHand' = 1
    BY <1>0, <2>1, <2>2 DEF InHand
  <2> QED BY <1>0, <1>2, <2>1, <2>2, <2>3, EmptyFacts
<1>3. CASE bk = <<>> /\ bp = <<>>
  <2>1. hand' = NoMember /\ used_bk' = <<>> /\ bk_pool' = <<>>
        /\ upd' = "idle" /\ master_lock' = "free"
    BY <1>3 DEF TakeNext
  <2>2. InHand' = 0
    BY <2>1 DEF InHand
  <2> QED BY <1>3, <2>1, <2>2, EmptyFacts
<1> QED BY <1>1, <1>2, <1>3, ZenonT(30)

\* All idle members become due and the first is taken in hand.
LEMMA UpdateBeginStep ==
  ASSUME IInv, UpdateBegin
  PROVE  IInv'
<1> USE DEF UpdateBegin
<1>1. TypeOK /\ LockDiscipline /\ WaitersCounted /\ Exclusive /\ SizeAccounting
      /\ NoLostWakeup
  BY DEF IInv
<1>2. used_bk = <<>> /\ bk_pool = <<>> /\ hand = NoMember /\ gone = "no"
  BY <1>1 DEF LockDiscipline, TypeOK
<1>3. used_mc \in Seq(Members) /\ mc_pool \in Seq(Members) /\ TakeNext(used_mc, mc_pool)
  BY <1>1, <1>2 DEF TypeOK
<1>4. /\ hand' \in Members \cup {NoMember}
      /\ used_bk' \in Seq(Members) /\ bk_pool' \in Seq(Members)
      /\ upd' \in {"idle", "list", "pool"}
      /\ master_lock' = IF upd' = "idle" THEN "free" ELSE "held"
      /\ (hand' # NoMember) <=> upd' \in {"list", "pool"}
      /\ upd' = "idle" => used_bk' = <<>> /\ bk_pool' = <<>>
      /\ upd' = "pool" => used_bk' = <<>>
      /\ used_mc = <<>> /\ mc_pool = <<>> => upd' = "idle"
      /\ Len(used_bk') + Len(bk_pool') + InHand' = Len(used_mc) + Len(mc_pool)
      /\ InHand' \in Nat
  BY <1>3, TakeNextFacts
<1>5. /\ ToSet(used_bk') \subseteq ToSet(used_mc) /\ ToSet(bk_pool') \subseteq ToSet(mc_pool)
      /\ hand' \in ToSet(used_mc) \cup ToSet(mc_pool) \cup {NoMember}
      /\ IsInjective(used_mc) /\ IsInjective(mc_pool) /\ ToSet(used_mc) \cap ToSet(mc_pool) = {}
           => /\ IsInjective(used_bk') /\ IsInjective(bk_pool')
              /\ hand' \notin ToSet(used_bk') \cup ToSet(bk_pool')
  BY <1>3, TakeNextFacts
<1>6. TypeOK'
  <2>1. master' \in Handle
    BY <1>1, MasterFacts, PoolConstants, ZenonT(30) DEF TypeOK
  <2> QED BY <1>1, <1>4, <2>1, EmptyFacts, ZenonT(30) DEF TypeOK, Unlocked
<1>7. LockDiscipline'
  BY <1>2, <1>4 DEF LockDiscipline, Unlocked
<1>8. WaitersCounted' /\ TailPointer'
  BY <1>1 DEF WaitersCounted, Waiters, TailPointer
<1>9. Exclusive'
  <2>1. ToSet(used_mc') = {} /\ ToSet(mc_pool') = {} /\ IsInjective(used_mc')
        /\ IsInjective(mc_pool')
    BY EmptyFacts
  <2>2. borrowed' = borrowed /\ NoMember \notin borrowed
    BY <1>1, PoolConstants DEF TypeOK
  <2> QED BY <1>1, <1>5, <2>1, <2>2 DEF Exclusive
<1>10. SizeAccounting'
  <2>1. InHand = 0 /\ Len(used_bk) = 0 /\ Len(bk_pool) = 0
        /\ Len(used_mc') = 0 /\ Len(mc_pool') = 0
    BY <1>2, EmptyFacts DEF InHand
  <2>2. Cardinality(borrowed) \in Nat
    BY <1>1, PoolConstants, CardFacts, ZenonT(30) DEF TypeOK
  <2>3. Len(used_mc) \in Nat /\ Len(mc_pool) \in Nat
        /\ Len(used_bk') \in Nat /\ Len(bk_pool') \in Nat
    BY <1>3, <1>4
  <2> QED BY <1>1, <1>2, <1>4, <2>1, <2>2, <2>3 DEF SizeAccounting
<1>11. NoLostWakeup'
  BY <1>1, <1>4 DEF NoLostWakeup, NoneIdle
<1> QED BY <1>6, <1>7, <1>8, <1>9, <1>10, <1>11 DEF IInv

\* A member whose update is done goes back; what each of the two ways shows of
\* its list or stack.
LEMMA PutBack ==
  ASSUME IInv, upd \in {"list", "pool"}, hand \in Members, TakeNext(used_bk, bk_pool),
         mem' \in [Members -> Handle], pc' = Broadcast,
         UNCHANGED <<master, cur_size, wait_count, borrowed, newlist, initializing, gone>>,
         used_mc' \in Seq(Members), used_mc_tail' \in Members \cup {NoMember},
         mc_pool' \in Seq(Members),
         Len(used_mc') + Len(mc_pool') = Len(used_mc) + Len(mc_pool) + 1,
         IsInjective(used_mc'), IsInjective(mc_pool'),
         ToSet(used_mc') \cup ToSet(mc_pool') = ToSet(used_mc) \cup ToSet(mc_pool) \cup {hand},
         ToSet(used_mc') \cap ToSet(mc_pool') = {},
         TailPointer'
  PROVE  IInv'
<1>1. TypeOK /\ LockDiscipline /\ WaitersCounted /\ Exclusive /\ SizeAccounting
  BY DEF IInv
<1>2. gone = "no" /\ gone' = "no"
  BY <1>1, ZenonT(30) DEF LockDiscipline, TypeOK
<1>3. used_bk \in Seq(Members) /\ bk_pool \in Seq(Members)
  BY <1>1 DEF TypeOK
<1>4. /\ hand' \in Members \cup {NoMember}
      /\ used_bk' \in Seq(Members) /\ bk_pool' \in Seq(Members)
      /\ upd' \in {"idle", "list", "pool"}
      /\ master_lock' = IF upd' = "idle" THEN "free" ELSE "held"
      /\ (hand' # NoMember) <=> upd' \in {"list", "pool"}
      /\ upd' = "idle" => used_bk' = <<>> /\ bk_pool' = <<>>
      /\ upd' = "pool" => used_bk' = <<>>
      /\ Len(used_bk') + Len(bk_pool') + InHand' = Len(used_bk) + Len(bk_pool)
      /\ InHand' \in Nat
  BY <1>3, TakeNextFacts, ZenonT(30)
<1>5. /\ ToSet(used_bk') \subseteq ToSet(used_bk) /\ ToSet(bk_pool') \subseteq ToSet(bk_pool)
      /\ hand' \in ToSet(used_bk) \cup ToSet(bk_pool) \cup {NoMember}
      /\ IsInjective(used_bk) /\ IsInjective(bk_pool) /\ ToSet(used_bk) \cap ToSet(bk_pool) = {}
           => /\ IsInjective(used_bk') /\ IsInjective(bk_pool')
              /\ hand' \notin ToSet(used_bk') \cup ToSet(bk_pool')
  BY <1>3, TakeNextFacts, ZenonT(30)
<1>6. /\ pc' \in [Threads -> {"run", "wait", "woken", "bset"}]
      /\ Waiters' = Waiters /\ \A t \in Threads : pc'[t] # "wait"
  BY <1>1, BroadcastFacts, ZenonT(30)
<1>7. TypeOK'
  BY <1>1, <1>4, <1>6, ZenonT(30) DEF TypeOK, Unlocked
<1>8. LockDiscipline' /\ WaitersCounted' /\ NoLostWakeup'
  BY <1>1, <1>2, <1>4, <1>6, ZenonT(30) DEF LockDiscipline, Unlocked, WaitersCounted, NoLostWakeup
<1>9. Exclusive'
  <2>1. /\ NoMember \notin borrowed /\ NoMember \notin ToSet(used_mc')
        /\ NoMember \notin ToSet(mc_pool')
    <3>1. borrowed \subseteq Members
      BY <1>1 DEF TypeOK
    <3>2. ToSet(used_mc') \subseteq Members /\ ToSet(mc_pool') \subseteq Members
      BY ElementFacts, ZenonT(30)
    <3> QED BY ONLY <3>1, <3>2, PoolConstants
  <2>2. /\ (ToSet(used_mc') \cup ToSet(mc_pool'))
             \cap (ToSet(used_bk) \cup ToSet(bk_pool) \cup borrowed) = {}
        /\ ToSet(used_bk) \cap ToSet(bk_pool) = {}
        /\ (ToSet(used_bk) \cup ToSet(bk_pool)) \cap borrowed = {}
        /\ IsInjective(used_bk) /\ IsInjective(bk_pool)
    BY <1>1, ZenonT(30) DEF Exclusive
  <2> QED BY <1>5, <2>1, <2>2 DEF Exclusive
<1>10. SizeAccounting'
  <2>1. InHand = 1 /\ Cardinality(borrowed) \in Nat
    <3>1. InHand = 1
      BY PoolConstants DEF InHand
    <3>2. borrowed \subseteq Members /\ IsFiniteSet(Members)
      BY <1>1, PoolConstants DEF TypeOK
    <3>3. Cardinality(borrowed) \in Nat
      BY ONLY <3>2, CardFacts, Zenon
    <3> QED BY ONLY <3>1, <3>3
  <2>2. Len(used_mc) \in Nat /\ Len(mc_pool) \in Nat /\ Len(used_bk) \in Nat
        /\ Len(bk_pool) \in Nat
        /\ Len(used_mc') \in Nat /\ Len(mc_pool') \in Nat /\ Len(used_bk') \in Nat
        /\ Len(bk_pool') \in Nat
    <3>1. used_mc \in Seq(Members) /\ mc_pool \in Seq(Members)
      BY <1>1 DEF TypeOK
    <3>2. used_mc' \in Seq(Members) /\ mc_pool' \in Seq(Members)
      OBVIOUS
    <3>3. used_bk' \in Seq(Members) /\ bk_pool' \in Seq(Members)
      BY <1>4
    <3> QED BY ONLY <1>3, <3>1, <3>2, <3>3
  <2>3. cur_size = Len(used_mc) + Len(used_bk) + Len(mc_pool) + Len(bk_pool)
                   + Cardinality(borrowed) + 1
    BY <1>1, <1>2, <2>1 DEF SizeAccounting
  <2>4. PICK h \in Nat : h = InHand'
    BY <1>4
  <2>5. /\ Len(used_mc') + Len(mc_pool') = Len(used_mc) + Len(mc_pool) + 1
        /\ Len(used_bk') + Len(bk_pool') + h = Len(used_bk) + Len(bk_pool)
    BY <1>4, <2>4
  <2>6. cur_size = Len(used_mc') + Len(used_bk') + Len(mc_pool') + Len(bk_pool')
                    + Cardinality(borrowed) + h
    <3>1. PICK k \in Nat : k = Cardinality(borrowed)
      BY <2>1
    <3>2. cur_size = Len(used_mc) + Len(used_bk) + Len(mc_pool) + Len(bk_pool) + k + 1
      BY ONLY <2>3, <3>1
    <3>3. cur_size = Len(used_mc') + Len(used_bk') + Len(mc_pool') + Len(bk_pool') + k + h
      BY ONLY <2>2, <2>5, <3>2
    <3> QED BY ONLY <3>1, <3>3
  <2> QED BY <1>1, <1>2, <2>4, <2>6 DEF SizeAccounting
<1> QED BY <1>7, <1>8, <1>9, <1>10 DEF IInv

\* A released member comes back from its update.
LEMMA UpdateListMemberStep ==
  ASSUME IInv, UpdateListMember
  PROVE  IInv'
<1> USE DEF UpdateListMember, mc_list_add_tail
<1>1. TypeOK /\ LockDiscipline /\ TailPointer /\ Exclusive
  BY DEF IInv
<1>2. hand \in Members /\ used_mc \in Seq(Members) /\ NoMember \notin Members
  BY <1>1, PoolConstants, ZenonT(30) DEF TypeOK, LockDiscipline
<1>3. used_mc_tail = IF used_mc = <<>> THEN NoMember ELSE Last(used_mc)
  BY <1>1 DEF TailPointer
<1>4. used_mc # <<>> => Last(used_mc) # NoMember
  BY <1>2, FrontFacts
<1>5. used_mc' = Append(used_mc, hand)
  <2>1. CASE used_mc = <<>>
    BY <1>2, <1>3, <2>1
  <2>2. CASE used_mc # <<>>
    BY <1>3, <1>4, <2>2
  <2> QED BY <2>1, <2>2
<1>6. /\ used_mc' \in Seq(Members) /\ Len(used_mc') = Len(used_mc) + 1
      /\ ToSet(used_mc') = {hand} \cup ToSet(used_mc)
      /\ IsInjective(used_mc) /\ hand \notin ToSet(used_mc) => IsInjective(used_mc')
      /\ used_mc' # <<>> /\ Last(used_mc') = hand
  <2> DEFINE a == Append(used_mc, hand)
  <2>1. /\ a \in Seq(Members) /\ Len(a) = Len(used_mc) + 1
        /\ ToSet(a) = {hand} \cup ToSet(used_mc)
        /\ IsInjective(used_mc) /\ hand \notin ToSet(used_mc) => IsInjective(a)
        /\ a # <<>> /\ Last(a) = hand
    BY ONLY <1>2, AppendFacts
  <2> QED BY ONLY <1>5, <2>1
<1>7. mem' \in [Members -> Handle]
  BY <1>1, <1>2, HandleFacts DEF TypeOK
<1>8. TailPointer'
  BY <1>6 DEF TailPointer
<1>9. /\ IsInjective(used_mc') /\ IsInjective(mc_pool')
      /\ ToSet(used_mc') \cup ToSet(mc_pool') = ToSet(used_mc) \cup ToSet(mc_pool) \cup {hand}
      /\ ToSet(used_mc') \cap ToSet(mc_pool') = {}
  BY <1>1, <1>6, ZenonT(30) DEF Exclusive
<1>10. /\ Len(used_mc') + Len(mc_pool') = Len(used_mc) + Len(mc_pool) + 1
       /\ mc_pool' \in Seq(Members)
  BY <1>1, <1>6 DEF TypeOK
<1> QED BY <1>2, <1>6, <1>7, <1>8, <1>9, <1>10, PutBack, ZenonT(30)

\* A member never released comes back from its update.
LEMMA UpdatePoolMemberStep ==
  ASSUME IInv, UpdatePoolMember
  PROVE  IInv'
<1> USE DEF UpdatePoolMember, mc_pool_add
<1>1. TypeOK /\ LockDiscipline /\ Exclusive
  BY DEF IInv
<1>2. hand \in Members /\ mc_pool \in Seq(Members) /\ used_bk = <<>>
  BY <1>1, ZenonT(30) DEF TypeOK, LockDiscipline
<1>3. /\ mc_pool' \in Seq(Members) /\ Len(mc_pool') = Len(mc_pool) + 1
      /\ ToSet(mc_pool') = {hand} \cup ToSet(mc_pool)
      /\ IsInjective(mc_pool) /\ hand \notin ToSet(mc_pool) => IsInjective(mc_pool')
  BY <1>2, AppendFacts, ZenonT(30)
<1>4. mem' \in [Members -> Handle]
  BY <1>1, <1>2, HandleFacts DEF TypeOK
<1>5. TailPointer'
  BY <1>2 DEF TailPointer, TakeNext
<1>6. /\ IsInjective(used_mc') /\ IsInjective(mc_pool')
      /\ ToSet(used_mc') \cup ToSet(mc_pool') = ToSet(used_mc) \cup ToSet(mc_pool) \cup {hand}
      /\ ToSet(used_mc') \cap ToSet(mc_pool') = {}
  BY <1>1, <1>3, ZenonT(30) DEF Exclusive
<1>7. /\ Len(used_mc') + Len(mc_pool') = Len(used_mc) + Len(mc_pool) + 1
      /\ used_mc' \in Seq(Members) /\ used_mc_tail' \in Members \cup {NoMember}
  BY <1>1, <1>3 DEF TypeOK
<1> QED BY <1>2, <1>3, <1>4, <1>5, <1>6, <1>7, PutBack, ZenonT(30)

-----------------------------------------------------------------------------
(* Replacing the idle members: memcached_pool_repopulate, the first cache  *)
(* list, memcached_pool_use_single_server.                                 *)

\* Freed members are not counted, new ones are; nobody waits while members
\* are there to be replaced.
LEMMA ReplaceIdleStep ==
  ASSUME IInv, upd \in Unlocked, upd' \in Unlocked, gone = "no",
         NEW m \in Handle, ReplaceIdle(m), master' \in Handle,
         initializing' \in BOOLEAN, newlist' = newlist,
         UNCHANGED <<used_bk, bk_pool, wait_count, pc, borrowed, hand, master_lock, gone>>
  PROVE  IInv'
<1> USE DEF ReplaceIdle
<1>1. TypeOK /\ LockDiscipline /\ WaitersCounted /\ Exclusive /\ SizeAccounting
      /\ NoLostWakeup
  BY DEF IInv
<1>2. PICK g \in (IF AllocMayFail THEN 0 ELSE Len(used_mc))..Len(used_mc),
           kept \in SUBSET (IF AllocMayFail THEN ToSet(mc_pool) ELSE {}) :
        /\ used_mc' = <<>> /\ used_mc_tail' = NoMember
        /\ mc_pool' = mc_pool \o SubSeq(used_mc, 1, g)
        /\ cur_size' = cur_size - Len(used_mc) + g
        /\ mem' = [x \in Members |->
                     IF x \in ToSet(mc_pool') \ kept THEN memcached_clone(m)
                     ELSE IF x \in ToSet(used_mc) THEN Blank
                     ELSE mem[x]]
  BY Zenon
<1>3. used_mc \in Seq(Members) /\ mc_pool \in Seq(Members) /\ g \in 0..Len(used_mc)
      /\ Len(used_mc) \in Nat /\ Len(mc_pool) \in Nat
  BY <1>1 DEF TypeOK
<1>4. DEFINE p == SubSeq(used_mc, 1, g)
<1>5. /\ p \in Seq(Members) /\ Len(p) = g /\ ToSet(p) \subseteq ToSet(used_mc)
      /\ IsInjective(used_mc) => IsInjective(p)
  BY <1>3, PrefixFacts, ZenonT(30)
<1>6. /\ mc_pool' \in Seq(Members) /\ Len(mc_pool') = Len(mc_pool) + g
      /\ ToSet(mc_pool') = ToSet(mc_pool) \cup ToSet(p)
      /\ IsInjective(mc_pool) /\ IsInjective(p) /\ ToSet(mc_pool) \cap ToSet(p) = {}
           => IsInjective(mc_pool')
  <2>1. mc_pool' = mc_pool \o p
    BY <1>2, ZenonT(30)
  <2> HIDE DEF p
  <2> DEFINE c == mc_pool \o p
  <2>2. /\ c \in Seq(Members) /\ Len(c) = Len(mc_pool) + g
        /\ ToSet(c) = ToSet(mc_pool) \cup ToSet(p)
        /\ IsInjective(mc_pool) /\ IsInjective(p) /\ ToSet(mc_pool) \cap ToSet(p) = {}
             => IsInjective(c)
    BY ONLY <1>3, <1>5, ConcatFacts
  <2> QED BY ONLY <2>1, <2>2
<1> HIDE DEF p
<1>7. used_bk = <<>> /\ bk_pool = <<>> /\ hand = NoMember
  BY <1>1, ZenonT(30) DEF LockDiscipline, TypeOK, Unlocked
<1>8. SizeAccounting' /\ cur_size' \in Nat
  <2>1. PICK k \in Nat : k = Cardinality(borrowed)
    BY <1>1, PoolConstants, CardFacts, ZenonT(30) DEF TypeOK
  <2>2. InHand = 0 /\ InHand' = 0 /\ Len(used_bk) = 0 /\ Len(bk_pool) = 0 /\ Len(used_mc') = 0
        /\ Len(used_bk') = 0 /\ Len(bk_pool') = 0
    BY <1>2, <1>7, EmptyFacts, ZenonT(30) DEF InHand
  <2>3. cur_size = Len(used_mc) + Len(mc_pool) + k /\ cur_size <= MaxSize
    BY <1>1, <1>3, <2>1, <2>2 DEF SizeAccounting
  <2>4. MaxSize \in Nat /\ g \in Nat /\ g <= Len(used_mc)
    BY <1>3, PoolConstants DEF MaxSize
  <2>5. cur_size' = Len(mc_pool') + k /\ cur_size' <= MaxSize /\ cur_size' \in Nat
    <3>1. cur_size' = cur_size - Len(used_mc) + g /\ Len(mc_pool') = Len(mc_pool) + g
      BY <1>2, <1>6, ZenonT(30)
    <3> QED BY ONLY <1>3, <2>3, <2>4, <3>1, k \in Nat
  <2> QED BY <1>6, <2>1, <2>2, <2>5 DEF SizeAccounting
<1>9. TypeOK'
  <2>1. mem' \in [Members -> Handle]
    <3>1. Blank \in Handle /\ memcached_clone(m) \in Handle
      BY MasterFacts, PoolConstants, ZenonT(30) DEF memcached_clone
    <3> QED BY <1>1, <1>2, <3>1, ZenonT(30) DEF TypeOK
  <2> QED BY <1>1, <1>2, <1>6, <1>8, <2>1, EmptyFacts, ZenonT(30) DEF TypeOK
<1>10. LockDiscipline' /\ WaitersCounted' /\ TailPointer'
  BY <1>1, <1>7, ZenonT(30) DEF LockDiscipline, Unlocked, WaitersCounted, Waiters, TailPointer
<1>11. Exclusive'
  <2>1. ToSet(used_mc') = {} /\ IsInjective(used_mc')
    BY <1>2, EmptyFacts, ZenonT(30)
  <2> QED BY <1>1, <1>5, <1>6, <2>1, ZenonT(30) DEF Exclusive
<1>12. NoLostWakeup'
  <2> SUFFICES ASSUME NoneIdle, cur_size = MaxSize
               PROVE  NoneIdle' /\ cur_size' = MaxSize
    BY <1>1 DEF NoLostWakeup
  <2>1. Len(used_mc) = 0 /\ Len(mc_pool) = 0 /\ g = 0
    BY <1>3, EmptyFacts DEF NoneIdle
  <2>2. mc_pool' = <<>>
    BY <1>3, <1>6, <2>1, EmptyFacts
  <2>3. cur_size' = cur_size
    BY <1>1, <1>2, <2>1 DEF TypeOK
  <2> QED BY <1>2, <2>2, <2>3, ZenonT(30) DEF NoneIdle
<1> QED BY <1>8, <1>9, <1>10, <1>11, <1>12 DEF IInv

\* memcached_pool_repopulate.
LEMMA RepopulateStep ==
  ASSUME IInv, Repopulate
  PROVE  IInv'
<1>1. TypeOK /\ LockDiscipline
  BY DEF IInv
<1>2. master' \in Handle
  BY <1>1, MasterFacts, PoolConstants, ZenonT(30) DEF TypeOK, Repopulate
<1>3. upd \in Unlocked
  BY <1>1 DEF LockDiscipline, TypeOK, Repopulate
<1> QED BY <1>1, <1>2, <1>3, ReplaceIdleStep DEF Repopulate, updater, TypeOK

\* memcached_pool_use_single_server, at its end.
LEMMA SingleServerRepopulateStep ==
  ASSUME IInv, SingleServerRepopulate
  PROVE  IInv'
<1>1. TypeOK /\ LockDiscipline
  BY DEF IInv
<1>2. master' \in Handle
  BY <1>1, MasterFacts, PoolConstants, ZenonT(30) DEF TypeOK, SingleServerRepopulate
<1>3. gone = "no" /\ upd \in Unlocked /\ upd' \in Unlocked
  BY <1>1 DEF LockDiscipline, TypeOK, SingleServerRepopulate, Unlocked
<1> QED BY <1>1, <1>2, <1>3, ReplaceIdleStep DEF SingleServerRepopulate, TypeOK

\* The first cache list.
LEMMA UpdateInitStep ==
  ASSUME IInv, UpdateInit
  PROVE  IInv'
<1>1. TypeOK /\ LockDiscipline
  BY DEF IInv
<1>2. master' \in Handle
  <2>1. master \in Handle /\ newlist \in Lists /\ master.list \in Lists
    BY <1>1 DEF TypeOK, Handle
  <2> QED BY <2>1, MasterFacts, PoolConstants DEF UpdateInit
<1>3. gone = "no" /\ upd \in Unlocked /\ upd' \in Unlocked
  BY <1>1 DEF LockDiscipline, TypeOK, UpdateInit, Unlocked
<1> QED BY <1>1, <1>2, <1>3, ReplaceIdleStep, ZenonT(30) DEF UpdateInit

-----------------------------------------------------------------------------
(* memcached_pool_behavior_set. *)

\* The flag is set on the idle members; some are freed, some cloned anew.
LEMMA BehaviorSetStep ==
  ASSUME IInv, NEW t \in Threads, NEW f \in Flags, NEW v \in BOOLEAN,
         BehaviorSet(t, f, v)
  PROVE  IInv'
<1>1. TypeOK /\ LockDiscipline /\ WaitersCounted /\ Exclusive /\ SizeAccounting
      /\ NoLostWakeup
  BY DEF IInv
<1>2. /\ gone = "no" /\ pc[t] = "bset" /\ master_lock = "free"
      /\ master' = [memcached_behavior_set(master, f, v) EXCEPT !.ver = @ + 1]
      /\ pc' = [pc EXCEPT ![t] = "run"]
      /\ UNCHANGED <<used_bk, bk_pool, wait_count, borrowed, updater>>
  BY DEF BehaviorSet
<1>3. used_mc \in Seq(Members) /\ mc_pool \in Seq(Members) /\ Len(used_mc) \in Nat
      /\ Len(mc_pool) \in Nat
  BY <1>1 DEF TypeOK
<1>3a. \A q \in Seq(Members) :
         /\ mc_pool \o q \in Seq(Members)
         /\ Len(mc_pool \o q) = Len(mc_pool) + Len(q)
         /\ ToSet(mc_pool \o q) = ToSet(mc_pool) \cup ToSet(q)
         /\ IsInjective(mc_pool) /\ IsInjective(q) /\ ToSet(mc_pool) \cap ToSet(q) = {}
              => IsInjective(mc_pool \o q)
  BY ONLY <1>3, ConcatFacts
<1>4. PICK k \in (IF AllocMayFail THEN 0 ELSE Len(used_mc))..Len(used_mc) :
      \E g \in (IF AllocMayFail THEN 0 ELSE Len(used_mc) - k)..(Len(used_mc) - k) :
      \E keep \in [1..k -> 1..Len(used_mc)], drop \in [1..(Len(used_mc) - k) -> 1..Len(used_mc)] :
        /\ IsSplit(Len(used_mc), keep, drop)
        /\ used_mc' = AtPositions(used_mc, keep)
        /\ used_mc_tail' = IF k = 0 THEN NoMember ELSE used_mc_tail
        /\ mc_pool' = mc_pool \o SubSeq(AtPositions(used_mc, drop), 1, g)
        /\ cur_size' = cur_size - (Len(used_mc) - k) + g
  BY ZenonT(30) DEF BehaviorSet
<1>5. PICK n \in Nat, e \in Nat : n = Len(used_mc) /\ e = n - k /\ n = k + e
  <2>1. Len(used_mc) - k \in Nat /\ Len(used_mc) = k + (Len(used_mc) - k)
    BY <1>3
  <2> QED BY <1>3, <2>1, Zenon
<1>6. PICK g \in (IF AllocMayFail THEN 0 ELSE e)..e :
      \E keep \in [1..k -> 1..n], drop \in [1..e -> 1..n] :
        /\ IsSplit(n, keep, drop)
        /\ used_mc' = AtPositions(used_mc, keep)
        /\ used_mc_tail' = IF k = 0 THEN NoMember ELSE used_mc_tail
        /\ mc_pool' = mc_pool \o SubSeq(AtPositions(used_mc, drop), 1, g)
        /\ cur_size' = cur_size - e + g
  BY <1>4, <1>5, ZenonT(30)
<1>6a. PICK keep \in [1..k -> 1..n], drop \in [1..e -> 1..n] :
        /\ IsSplit(n, keep, drop)
        /\ used_mc' = AtPositions(used_mc, keep)
        /\ used_mc_tail' = IF k = 0 THEN NoMember ELSE used_mc_tail
        /\ mc_pool' = mc_pool \o SubSeq(AtPositions(used_mc, drop), 1, g)
        /\ cur_size' = cur_size - e + g
  BY <1>6, ZenonT(30)
<1>6b. k \in Nat /\ g \in Nat /\ g <= e
  BY <1>3, <1>5
<1> DEFINE c == AtPositions(used_mc, keep)
           a == AtPositions(used_mc, drop)
           d == SubSeq(a, 1, g)
<1>7. /\ c \in Seq(Members) /\ Len(c) = k /\ a \in Seq(Members) /\ Len(a) = e
      /\ ToSet(c) \subseteq ToSet(used_mc) /\ ToSet(a) \subseteq ToSet(used_mc)
      /\ IsInjective(used_mc) => /\ IsInjective(c) /\ IsInjective(a)
                                 /\ ToSet(c) \cap ToSet(a) = {}
  <2>1. /\ \A i \in 1..k : keep[i] \in 1..n /\ used_mc[keep[i]] \in Members
        /\ \A i \in 1..e : drop[i] \in 1..n /\ used_mc[drop[i]] \in Members
    BY <1>3, <1>5, ElementOfSeq, ZenonT(30)
  <2>2. /\ c \in [1..k -> Members] /\ \A i \in 1..k : c[i] = used_mc[keep[i]]
        /\ a \in [1..e -> Members] /\ \A i \in 1..e : a[i] = used_mc[drop[i]]
    BY <2>1, ZenonT(30) DEF AtPositions
  <2> HIDE DEF c, a
  <2>3. /\ c \in Seq(Members) /\ Len(c) = k /\ DOMAIN c = 1..k
        /\ a \in Seq(Members) /\ Len(a) = e /\ DOMAIN a = 1..e
        /\ DOMAIN used_mc = 1..n
    <3>1. c \in Seq(Members) /\ Len(c) = k /\ DOMAIN c = 1..k
      BY ONLY <1>6b, <2>2
    <3>2. a \in Seq(Members) /\ Len(a) = e /\ DOMAIN a = 1..e
      BY ONLY <2>2, e \in Nat
    <3>3. DOMAIN used_mc = 1..n
      BY ONLY <1>3, <1>5
    <3> QED BY <3>1, <3>2, <3>3
  <2>4. ToSet(c) \subseteq ToSet(used_mc) /\ ToSet(a) \subseteq ToSet(used_mc)
    BY <2>1, <2>2, <2>3 DEF ToSet
  <2>5. Increasing(keep) /\ Increasing(drop) /\ DOMAIN keep = 1..k /\ DOMAIN drop = 1..e
    BY <1>6a DEF IsSplit
  <2>6. ASSUME IsInjective(used_mc)
        PROVE  IsInjective(c) /\ IsInjective(a) /\ ToSet(c) \cap ToSet(a) = {}
    <3>1. ASSUME NEW i \in 1..k, NEW j \in 1..k, c[i] = c[j] PROVE i = j
      <4>1. keep[i] = keep[j] /\ keep[i] \in Int
        BY <3>1, <2>1, <2>2, <2>3, <2>6 DEF IsInjective
      <4>2. ~(i < j) /\ ~(j < i)
        BY <2>5, <4>1 DEF Increasing
      <4> QED BY <4>2, <1>6b
    <3>2. ASSUME NEW i \in 1..e, NEW j \in 1..e, a[i] = a[j] PROVE i = j
      <4>1. drop[i] = drop[j] /\ drop[i] \in Int
        BY <3>2, <2>1, <2>2, <2>3, <2>6 DEF IsInjective
      <4>2. ~(i < j) /\ ~(j < i)
        BY <2>5, <4>1 DEF Increasing
      <4> QED BY <4>2
    <3>3. ASSUME NEW i \in 1..k, NEW j \in 1..e, c[i] = a[j] PROVE FALSE
      <4>1. keep[i] = drop[j] /\ keep[i] \in 1..n
        BY <3>3, <2>1, <2>2, <2>3, <2>6 DEF IsInjective
      <4>2. (\E x \in DOMAIN keep : keep[x] = keep[i]) # (\E x \in DOMAIN drop : drop[x] = keep[i])
        BY <1>6a, <4>1, Zenon DEF IsSplit
      <4> QED BY <2>5, <4>1, <4>2
    <3>4. IsInjective(c) /\ IsInjective(a)
      BY <2>3, <3>1, <3>2 DEF IsInjective
    <3>5. ToSet(c) \cap ToSet(a) = {}
      BY <2>3, <3>3 DEF ToSet
    <3> QED BY <3>4, <3>5
  <2> QED BY <2>3, <2>4, <2>6, ZenonT(30)
<1>8. /\ used_mc' \in Seq(Members) /\ Len(used_mc') = k
      /\ ToSet(used_mc') \subseteq ToSet(used_mc)
      /\ IsInjective(used_mc) => IsInjective(used_mc')
  BY <1>6a, <1>7
<1> HIDE DEF a
<1>9. /\ d \in Seq(Members) /\ Len(d) = g /\ ToSet(d) \subseteq ToSet(a)
      /\ IsInjective(a) => IsInjective(d)
  <2>1. g \in 0..Len(a) /\ a \in Seq(Members)
    BY <1>6b, <1>7
  <2> QED BY ONLY <2>1, PrefixFacts
<1> HIDE DEF d
<1>10. IsInjective(used_mc) => ToSet(used_mc') \cap ToSet(d) = {}
  BY <1>6a, <1>7, <1>9
<1>11. /\ mc_pool' \in Seq(Members) /\ Len(mc_pool') = Len(mc_pool) + g
       /\ ToSet(mc_pool') = ToSet(mc_pool) \cup ToSet(d)
       /\ IsInjective(mc_pool) /\ IsInjective(d) /\ ToSet(mc_pool) \cap ToSet(d) = {}
            => IsInjective(mc_pool')
  <2> DEFINE z == mc_pool \o d
  <2>1. /\ z \in Seq(Members) /\ Len(z) = Len(mc_pool) + g
        /\ ToSet(z) = ToSet(mc_pool) \cup ToSet(d)
        /\ IsInjective(mc_pool) /\ IsInjective(d) /\ ToSet(mc_pool) \cap ToSet(d) = {}
             => IsInjective(z)
    <3>1. mc_pool \in Seq(Members) /\ d \in Seq(Members) /\ Len(d) = g
      BY <1>3, <1>9
    <3>2. Len(z) = Len(mc_pool) + Len(d)
      BY ONLY <3>1, <1>3a, ZenonT(30)
    <3>3. /\ z \in Seq(Members) /\ ToSet(z) = ToSet(mc_pool) \cup ToSet(d)
          /\ IsInjective(mc_pool) /\ IsInjective(d) /\ ToSet(mc_pool) \cap ToSet(d) = {}
               => IsInjective(z)
      BY ONLY <3>1, <1>3a
    <3> QED BY ONLY <3>1, <3>2, <3>3
  <2>2. mc_pool' = z
    BY <1>6a DEF a, d
  <2> QED BY ONLY <2>1, <2>2
<1>12. used_bk = <<>> /\ bk_pool = <<>> /\ hand = NoMember /\ upd \in Unlocked
  BY <1>1, <1>2 DEF LockDiscipline, TypeOK
<1>13. SizeAccounting' /\ cur_size' \in Nat
  <2>1. PICK q \in Nat : q = Cardinality(borrowed)
    BY <1>1, PoolConstants, CardFacts, ZenonT(30) DEF TypeOK
  <2>2. InHand = 0 /\ InHand' = 0 /\ Len(used_bk) = 0 /\ Len(bk_pool) = 0
        /\ Len(used_bk') = 0 /\ Len(bk_pool') = 0
    BY <1>2, <1>12, EmptyFacts DEF InHand, updater
  <2>3. cur_size = n + Len(mc_pool) + q /\ cur_size <= MaxSize
    BY <1>1, <1>2, <1>3, <1>5, <2>1, <2>2 DEF SizeAccounting
  <2>4. MaxSize \in Nat /\ Len(mc_pool) \in Nat
    BY <1>3, PoolConstants DEF MaxSize
  <2>5. /\ cur_size' = Len(used_mc') + Len(mc_pool') + q
        /\ cur_size' <= MaxSize /\ cur_size' \in Nat
    <3>1. /\ cur_size' = cur_size - e + g /\ Len(mc_pool') = Len(mc_pool) + g
          /\ Len(used_mc') = k /\ n = k + e /\ g <= e
      BY <1>5, <1>6a, <1>6b, <1>8, <1>11
    <3> QED BY ONLY <1>6b, <2>3, <2>4, <3>1, q \in Nat, n \in Nat, e \in Nat
  <2>6. Cardinality(borrowed') = q /\ Len(used_mc') \in Nat /\ Len(mc_pool') \in Nat
    BY <1>2, <1>8, <1>11, <2>1
  <2> QED BY <2>2, <2>5, <2>6 DEF SizeAccounting
<1>14. TypeOK'
  <2>1. master' \in Handle
    BY <1>1, <1>2, SettingFacts, Zenon DEF TypeOK
  <2>2. mem' \in [Members -> Handle]
    <3>1. Blank \in Handle /\ memcached_clone(master') \in Handle /\ master'.ver \in Nat
      BY <1>1, <2>1, MasterFacts, PoolConstants, Zenon DEF TypeOK, memcached_clone
    <3>2. \A x \in Members :
            /\ mem[x] \in Handle
            /\ [memcached_behavior_set(mem[x], f, v) EXCEPT !.ver = master'.ver] \in Handle
      BY <1>1, <3>1, SettingFacts, Zenon DEF TypeOK
    <3> QED BY <3>1, <3>2, ZenonT(30) DEF BehaviorSet
  <2>3. pc' \in [Threads -> {"run", "wait", "woken", "bset"}]
        /\ used_mc_tail' \in Members \cup {NoMember}
    BY <1>1, <1>2, <1>6a, ZenonT(30) DEF TypeOK
  <2> QED BY <1>1, <1>2, <1>8, <1>11, <1>13, <2>1, <2>2, <2>3 DEF TypeOK, updater
<1>15. WaitersCounted'
  <2>1. Waiters' = Waiters \ {t} /\ t \notin Waiters
    BY <1>1, <1>2, WaiterFacts DEF Waiters
  <2>2. Waiters' = Waiters
    BY <2>1
  <2> QED BY <1>1, <1>2, <2>2 DEF WaitersCounted
<1>16. LockDiscipline' /\ TailPointer'
  BY <1>1, <1>2, <1>12 DEF LockDiscipline, TailPointer, updater
<1>17. Exclusive'
  <2>1. borrowed' = borrowed /\ hand' = hand /\ used_bk' = used_bk /\ bk_pool' = bk_pool
    BY <1>2 DEF updater
  <2>2. ToSet(d) \subseteq ToSet(used_mc) /\ (IsInjective(used_mc) => IsInjective(d))
    BY <1>7, <1>9
  <2> QED BY <1>1, <1>8, <1>10, <1>11, <2>1, <2>2 DEF Exclusive
<1>18. NoLostWakeup'
  <2>1. \A u \in Threads : pc'[u] = "wait" => pc[u] = "wait"
    BY <1>1, <1>2 DEF TypeOK
  <2> SUFFICES ASSUME NoneIdle, cur_size = MaxSize
               PROVE  NoneIdle' /\ cur_size' = MaxSize
    BY <1>1, <2>1, ZenonT(30) DEF NoLostWakeup
  <2>2. n = 0 /\ Len(mc_pool) = 0
    BY <1>5, EmptyFacts DEF NoneIdle
  <2>3. k = 0 /\ g = 0 /\ e = 0
    BY <1>5, <1>6b, <2>2
  <2>4. used_mc' = <<>> /\ mc_pool' = <<>>
    BY <1>8, <1>11, <2>2, <2>3, EmptyFacts
  <2>5. cur_size' = cur_size
    BY <1>1, <1>6a, <2>2, <2>3 DEF TypeOK
  <2> QED BY <1>2, <2>4, <2>5 DEF NoneIdle
<1> QED BY <1>13, <1>14, <1>15, <1>16, <1>17, <1>18 DEF IInv

-----------------------------------------------------------------------------
(* memcached_pool_destroy and memcached_pool_create. *)

\* The pool is destroyed.
LEMMA DestroyStep ==
  ASSUME IInv, Destroy
  PROVE  IInv'
<1> USE DEF Destroy
<1>1. TypeOK /\ LockDiscipline /\ WaitersCounted /\ Exclusive
  BY DEF IInv
<1>2. /\ TypeOK' /\ gone' # "no"
  BY <1>1, EmptyFacts DEF TypeOK
<1>3. LockDiscipline' /\ TailPointer' /\ SizeAccounting' /\ WaitersCounted'
  BY <1>1, <1>2 DEF LockDiscipline, TailPointer, SizeAccounting, WaitersCounted, Waiters
<1>4. Exclusive'
  BY <1>1, EmptyFacts DEF Exclusive
<1>5. NoLostWakeup'
  BY DEF NoLostWakeup
<1> QED BY <1>2, <1>3, <1>4, <1>5 DEF IInv

\* The process ends on what the code leaves undefined.
LEMMA UndefinedStep ==
  ASSUME IInv, Undefined
  PROVE  IInv'
<1> USE DEF Undefined
<1>1. TypeOK /\ LockDiscipline /\ Exclusive
  BY DEF IInv
<1>2. /\ pc' \in [Threads -> {"run", "wait", "woken", "bset"}]
      /\ \A t \in Threads : pc'[t] = "run"
  OBVIOUS
<1>3. TypeOK' /\ gone' = "undefined" /\ upd' = "idle"
  BY <1>1, <1>2 DEF TypeOK, Unlocked
<1>4. WaitersCounted'
  <2>1. Waiters' = {}
    BY <1>2 DEF Waiters
  <2> QED BY <2>1, FS_EmptySet DEF WaitersCounted
<1>5. upd \in Unlocked /\ upd' \in Unlocked
  BY <1>1, <1>3 DEF LockDiscipline, TypeOK, Unlocked
<1>6. LockDiscipline' /\ TailPointer' /\ SizeAccounting' /\ NoLostWakeup'
  BY <1>1, <1>2, <1>3, <1>5 DEF LockDiscipline, TailPointer, SizeAccounting,
     NoLostWakeup, Unlocked
<1>7. Exclusive'
  BY <1>1 DEF Exclusive
<1> QED BY <1>3, <1>4, <1>6, <1>7 DEF IInv

\* The pool as memcached_pool_create leaves it, whatever clones failed.
LEMMA InitInvariant == Init => IInv
<1> SUFFICES ASSUME Init PROVE IInv
  OBVIOUS
<1>1. PICK k \in (IF AllocMayFail THEN 0 ELSE Initial)..Initial :
        \E s \in Injection(1..k, Members) :
          /\ mc_pool = s
          /\ cur_size = k
          /\ mem = [m \in Members |->
                      IF m \in ToSet(s) THEN memcached_clone(master) ELSE Blank]
  BY DEF Init
<1>2. k \in Nat /\ k <= MaxSize
  BY PoolConstants DEF MaxSize
<1>3. mc_pool \in [1..k -> Members] /\ IsInjective(mc_pool) /\ cur_size = k
  BY <1>1 DEF Injection, IsInjective
<1>4. mc_pool \in Seq(Members) /\ Len(mc_pool) = k
  BY <1>2, <1>3
<1>5. Blank \in Handle /\ master \in Handle /\ master.list \in Lists
  <2>2. Blank \in Handle
    BY PoolConstants DEF Blank, Handle
  <2> QED BY <2>2 DEF Init, Handle
<1>6. mem \in [Members -> Handle]
  BY <1>1, <1>5 DEF memcached_clone
<1>7. TypeOK
  BY <1>2, <1>3, <1>4, <1>5, <1>6, EmptyFacts DEF Init, TypeOK, Unlocked
<1>8. LockDiscipline /\ TailPointer
  BY DEF Init, LockDiscipline, TailPointer
<1>9. WaitersCounted /\ NoLostWakeup
  <2>1. Waiters = {} /\ \A t \in Threads : pc[t] # "wait"
    BY DEF Init, Waiters
  <2> QED BY <2>1, FS_EmptySet DEF Init, WaitersCounted, NoLostWakeup
<1>10. Exclusive
  <2>1. ToSet(mc_pool) \subseteq Members
    BY <1>4, ElementOfSeq DEF ToSet
  <2> QED BY <1>3, <2>1, EmptyFacts, PoolConstants DEF Init, Exclusive
<1>11. SizeAccounting
  <2>1. Cardinality(borrowed) = 0 /\ InHand = 0
    BY FS_EmptySet DEF Init, InHand
  <2> QED BY <1>2, <1>3, <1>4, <2>1, EmptyFacts DEF Init, SizeAccounting
<1> QED BY <1>7, <1>8, <1>9, <1>10, <1>11 DEF IInv

\* Every step of every thread preserves the inductive invariant.
LEMMA NextInvariant == IInv /\ [Next]_vars => IInv'
<1> SUFFICES ASSUME IInv, [Next]_vars PROVE IInv'
  OBVIOUS
<1>1. ASSUME NEW t \in Threads, Fetch(t) PROVE IInv'
  BY <1>1, FetchFromBkListStep, FetchFromListStep, FetchFromBkPoolStep, FetchFromPoolStep,
     FetchGrowStep, FetchNullStep, FetchWaitStep DEF Fetch
<1>2. ASSUME NEW t \in Threads,
             SpuriousWakeup(t) \/ BehaviorSetCall(t) \/ BehaviorSetFails(t)
               \/ \E f \in Flags, v \in BOOLEAN : BehaviorSet(t, f, v)
      PROVE  IInv'
  BY <1>2, SpuriousWakeupStep, BehaviorSetCallStep, BehaviorSetStep
<1>3. ASSUME NEW m \in Members, Release(m) \/ UpdateMember(m) PROVE IInv'
  BY <1>3, ReleaseStep, UpdateMemberStep
<1>4. ASSUME NEW l \in Lists, UpdateCall(l) \/ UseSingleServer(l) PROVE IInv'
  BY <1>4, UpdateCallStep, UseSingleServerStep
<1>5. CASE Updater
  BY <1>5, UpdateInitStep, UpdateNoChangeStep, UpdateBeginStep, UpdateListMemberStep,
     UpdatePoolMemberStep DEF Updater
<1>6. CASE Repopulate \/ Attach \/ SetUp \/ Destroy \/ Undefined
  BY <1>6, RepopulateStep, AttachStep, AttachManagerStep, SingleServerPushStep,
     SingleServerRepopulateStep, DestroyStep, UndefinedStep DEF SetUp
<1>7. CASE UNCHANGED vars
  <2>1. TypeOK' /\ LockDiscipline' /\ WaitersCounted' /\ TailPointer'
    BY <1>7 DEF IInv, vars, TypeOK, LockDiscipline, WaitersCounted, Waiters, TailPointer
  <2>2. Exclusive' /\ SizeAccounting' /\ NoLostWakeup'
    BY <1>7 DEF IInv, vars, Exclusive, SizeAccounting, InHand, NoLostWakeup, NoneIdle
  <2> QED BY <2>1, <2>2 DEF IInv
<1> QED BY <1>1, <1>2, <1>3, <1>4, <1>5, <1>6, <1>7 DEF Next

-----------------------------------------------------------------------------
(* The theorems. *)

\* The inductive invariant holds in every state of the pool.
THEOREM PoolInvariant == Spec => []IInv
BY InitInvariant, NextInvariant, PTL DEF Spec

\* Every variable of the pool keeps its type: in particular cur_size and
\* wait_count, unsigned in pool.cc, never go below zero.
THEOREM PoolTypeCorrect == Spec => []TypeOK
<1>1. IInv => TypeOK
  BY DEF IInv
<1> QED BY <1>1, PoolInvariant, PTL

\* No member is lost, counted twice or created beyond max_size.
THEOREM PoolSizeAccounting == Spec => []SizeAccounting
<1>1. IInv => SizeAccounting
  BY DEF IInv
<1> QED BY <1>1, PoolInvariant, PTL

\* No connection is ever in two hands.
THEOREM PoolExclusive == Spec => []Exclusive
<1>1. IInv => Exclusive
  BY DEF IInv
<1> QED BY <1>1, PoolInvariant, PTL

\* No thread sleeps in fetch while there is a member or room for one.
THEOREM PoolNoLostWakeup == Spec => []NoLostWakeup
<1>1. IInv => NoLostWakeup
  BY DEF IInv
<1> QED BY <1>1, PoolInvariant, PTL

\* The tail pointer is right whenever the updater follows it.
THEOREM PoolTailPointer == Spec => []TailPointer
<1>1. IInv => TailPointer
  BY DEF IInv
<1> QED BY <1>1, PoolInvariant, PTL
=============================================================================
