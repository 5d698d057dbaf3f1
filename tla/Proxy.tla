------------------------------- MODULE Proxy -------------------------------
(***************************************************************************)
(* The cache list of a pre-forking server (libmemcached/arcus.cc).  The    *)
(* parent process (arcus_proxy_create) writes each list it gets from       *)
(* ZooKeeper into memory it shares with its children; a child              *)
(* (arcus_proxy_connect) looks at the version there before each operation  *)
(* (arcus_server_check_for_update) and takes over a list it has not seen.  *)
(*                                                                         *)
(* Both sides bracket their accesses with proc_mutex_lock, a flock on the  *)
(* one descriptor they all inherit.  A flock belongs to the open file, not *)
(* to the process, so it excludes nobody here: a list is written and       *)
(* copied piece by piece, and the pieces interleave.  The list is modelled *)
(* as three parts, the beginning of the string, its end and the size, each *)
(* of them the version it belongs to.                                      *)
(***************************************************************************)
EXTENDS Integers

CONSTANTS
  Threads,      \* the child's threads, each with a handle of its own
  Solo,         \* the thread of a child that has no pool
  MayFail,      \* memory may be missing, a list may be too long for the buffer
  MaxVersion    \* bound: lists the parent publishes

ASSUME ProxyConstants == Solo \in Threads /\ MayFail \in BOOLEAN /\ MaxVersion \in Nat

VARIABLES
  pooled,           \* arcus->pool: the handles are members of a pool with a
                    \* master, or else there is one handle, its own master
  version,          \* proxy.data->version
  serverlist,       \* proxy.data->serverlist and size
  writer,           \* where the parent is in do_arcus_proxy_update_cachelist
  current_version,  \* the child's proxy.current_version
  master,           \* the master handle: its list and ketama_version
  member,           \* the handle of each thread, likewise
  pc,               \* where each thread is in arcus_server_check_for_update
  seen,             \* its local variable version
  copy,             \* the buffer of do_arcus_zk_update_cachelist_by_string
  missed            \* history: a list has not been taken over ("skipped"), or not
                    \* whole ("failed"), and no later one has been; else "no"

vars == <<pooled, version, serverlist, writer, current_version, master, member, pc,
          seen, copy, missed>>

Version == 0..MaxVersion
Published(v) == <<v, v, v>>
Handle == [list : Version \X Version \X Version, kver : Nat]

\* arcus_proxy_create, fork, arcus_proxy_connect (whose own check is the
\* child's first).
Init ==
  /\ pooled \in BOOLEAN
  /\ version = 0 /\ serverlist = Published(0) /\ writer = "idle"
  /\ current_version = 0
  /\ master = [list |-> Published(0), kver |-> 0]
  /\ member = [t \in Threads |-> master]
  /\ pc = [t \in Threads |-> "idle"]
  /\ seen = [t \in Threads |-> 0]
  /\ copy = [t \in Threads |-> Published(0)]
  /\ missed = "no"

-----------------------------------------------------------------------------
(* The parent: do_arcus_proxy_update_cachelist. *)

parent == <<version, serverlist, writer>>
child == <<pooled, current_version, master, member, pc, seen, copy, missed>>

WriteFirst ==
  /\ writer = "idle" /\ version < MaxVersion
  /\ serverlist' = <<version + 1, serverlist[2], serverlist[3]>> /\ writer' = "half"
  /\ UNCHANGED <<version, child>>

WriteLast ==
  /\ writer = "half"
  /\ serverlist' = <<serverlist[1], version + 1, serverlist[3]>> /\ writer' = "list"
  /\ UNCHANGED <<version, child>>

WriteSize ==
  /\ writer = "list"
  /\ serverlist' = <<serverlist[1], serverlist[2], version + 1>> /\ writer' = "written"
  /\ UNCHANGED <<version, child>>

\* Mutant: the version goes up before the list is written.
VersionFirst ==
  /\ writer = "half"
  /\ version' = version + 1 /\ writer' = "idle"
  /\ UNCHANGED <<serverlist, child>>

WriteVersion ==
  /\ writer = "written"
  /\ version' = version + 1 /\ writer' = "idle"
  /\ UNCHANGED <<serverlist, child>>

-----------------------------------------------------------------------------
(* The child: arcus_server_check_for_update by thread t. *)

\* Mutant: the ketama version stays.
UpdateListOnly(h, l) == [h EXCEPT !.list = l]

\* memcached_update_cachelist: the ketama version goes up when the list changes.
UpdateHandle(h, l) == IF h.list = l THEN h ELSE [list |-> l, kver |-> h.kver + 1]

\* The version is compared without the lock.
CheckVersion(t) ==
  /\ pc[t] = "idle" /\ (pooled \/ t = Solo)
  /\ pc' = [pc EXCEPT ![t] = IF version # current_version THEN "read" ELSE "member"]
  /\ UNCHANGED <<pooled, parent, current_version, master, member, seen, copy, missed>>

ReadVersion(t) ==
  /\ pc[t] = "read"
  /\ seen' = [seen EXCEPT ![t] = version]
  /\ pc' = [pc EXCEPT ![t] = "size"]
  /\ UNCHANGED <<pooled, parent, current_version, master, member, copy, missed>>

\* "update the master just once": a member that is behind its master leaves the
\* master alone.
ReadSize(t) ==
  /\ pc[t] = "size"
  /\ copy' = [copy EXCEPT ![t] = <<@[1], @[2], serverlist[3]>>]
  /\ pc' = [pc EXCEPT ![t] = IF pooled /\ master.kver # member[t].kver
                             THEN "store" ELSE "copy"]
  /\ UNCHANGED <<pooled, parent, current_version, master, member, seen, missed>>

\* An early return of do_arcus_zk_update_cachelist_by_string: the list is not
\* taken over, and the caller notes its version all the same.
Skip(t) ==
  /\ MayFail
  /\ missed' = IF missed = "failed" THEN "failed" ELSE "skipped"
  /\ pc' = [pc EXCEPT ![t] = "store"]

\* The string is longer than the buffer, or its copy begins.
CopyFirst(t) ==
  /\ pc[t] = "copy"
  /\ \/ Skip(t) /\ UNCHANGED copy
     \/ /\ copy' = [copy EXCEPT ![t] = <<serverlist[1], @[2], @[3]>>]
        /\ pc' = [pc EXCEPT ![t] = "copying"] /\ UNCHANGED missed
  /\ UNCHANGED <<pooled, parent, current_version, master, member, seen>>

\* The copy ends, and there is memory for serverinfo or not.
CopyLast(t) ==
  /\ pc[t] = "copying"
  /\ copy' = [copy EXCEPT ![t] = <<@[1], serverlist[2], @[3]>>]
  /\ \/ Skip(t)
     \/ pc' = [pc EXCEPT ![t] = "update"] /\ UNCHANGED missed
  /\ UNCHANGED <<pooled, parent, current_version, master, member, seen>>

\* serverinfo has room for size + 1 servers.  When the size is that of an older
\* list than the string, parsing may leave it: the process dies of it, or goes on.
Overrun(t) ==
  /\ pc[t] = "update" /\ \E i \in 1..2 : copy[t][3] < copy[t][i]
  /\ pc' = [u \in Threads |-> "dead"]
  /\ UNCHANGED <<pooled, parent, current_version, master, member, seen, copy, missed>>

\* What a failed memcached_update_cachelist leaves: the old list, it without the
\* servers that went, or the new one without its ring.  The ketama version stays,
\* but for a pool's first list.
FailedHandle(h, l) ==
  [list : {h.list, Published(0), l},
   kver : {IF pooled /\ h.kver = 0 THEN 1 ELSE h.kver}]

\* do_arcus_update_cachelist under lock_arcus, which ignores the error.  Without
\* a pool the handle is its own master.
Update(t) ==
  /\ pc[t] = "update"
  /\ \/ /\ master' = UpdateHandle(master, copy[t])
        /\ missed' = IF master.list = copy[t] THEN missed ELSE "no"
     \/ MayFail /\ master' \in FailedHandle(master, copy[t]) /\ missed' = "failed"
  /\ member' = IF pooled THEN member ELSE [member EXCEPT ![t] = master']
  /\ pc' = [pc EXCEPT ![t] = "store"]
  /\ UNCHANGED <<pooled, parent, current_version, seen, copy>>

\* Mutant: the version is read again when it is stored.
StoreLatest(t) ==
  /\ pc[t] = "store"
  /\ current_version' = version
  /\ pc' = [pc EXCEPT ![t] = "member"]
  /\ UNCHANGED <<pooled, parent, master, member, seen, copy, missed>>

StoreVersion(t) ==
  /\ pc[t] = "store"
  /\ current_version' = seen[t]
  /\ pc' = [pc EXCEPT ![t] = "member"]
  /\ UNCHANGED <<pooled, parent, master, member, seen, copy, missed>>

\* memcached_pool_update_member under lock_arcus, for a member that is behind; a
\* failed one stays behind and is tried again by the next check.
UpdateMember(t) ==
  /\ pc[t] = "member"
  /\ IF pooled /\ master.kver # member[t].kver
     THEN \/ member' = [member EXCEPT ![t] = master]
          \/ /\ MayFail
             /\ \E l \in {Published(0), master.list} :
                  member' = [member EXCEPT ![t] = [list |-> l, kver |-> @.kver]]
     ELSE UNCHANGED member
  /\ pc' = [pc EXCEPT ![t] = "idle"]
  /\ UNCHANGED <<pooled, parent, current_version, master, seen, copy, missed>>

-----------------------------------------------------------------------------
Parent == WriteFirst \/ WriteLast \/ WriteSize \/ WriteVersion
Check(t) == CheckVersion(t) \/ ReadVersion(t) \/ ReadSize(t) \/ CopyFirst(t)
            \/ CopyLast(t) \/ Overrun(t) \/ Update(t) \/ StoreVersion(t) \/ UpdateMember(t)

Next == Parent \/ \E t \in Threads : Check(t)

Spec == Init /\ [][Next]_vars

\* The parent finishes what it began, and the child's threads keep calling.
FairSpec == Spec /\ WF_vars(WriteLast \/ WriteSize \/ WriteVersion)
                 /\ \A t \in Threads : WF_vars(Check(t))

-----------------------------------------------------------------------------
(* Properties *)

\* Type invariant.
TypeOK ==
  /\ pooled \in BOOLEAN
  /\ version \in Version /\ current_version \in Version
  /\ serverlist \in Version \X Version \X Version
  /\ writer \in {"idle", "half", "list", "written"}
  /\ master \in Handle /\ member \in [Threads -> Handle]
  /\ pc \in [Threads -> {"idle", "read", "size", "copy", "copying", "update", "store", "member",
                          "dead"}]
  /\ seen \in [Threads -> Version]
  /\ copy \in [Threads -> Version \X Version \X Version]
  /\ missed \in {"no", "skipped", "failed"}

\* A child that is up to date with the version has the list of that version, in
\* one piece, unless it failed to take that list over: a list copied while the
\* parent was writing does not stay, and a later list makes up for a failure.
UpToDate ==
  (writer = "idle" /\ current_version = version /\ \A t \in Threads : pc[t] = "idle")
    => master.list = Published(version)
CaughtUp == (~pooled /\ missed = "no") => UpToDate

\* docs/user-guide/02-arcus-c-client.md:255-256: a child process gets the cache
\* list through the parent's handle, also when it uses a pool.
PoolCaughtUp == pooled => UpToDate

\* A member with the master's ketama version has the master's list: the second
\* half of the check misses no change, but for what a failed update of the master
\* has left.
KverTellsList ==
  missed # "failed" =>
    \A t \in Threads : member[t].kver = master.kver => member[t].list = master.list

\* Why CaughtUp holds although the lock excludes nobody: the parent writes the
\* list before the version and the child reads the version before the list, so
\* each part a child has is at least as new as the version it has noted, and at
\* most as new as what is in the shared memory.
WriterOrder ==
  \/ writer = "idle" /\ serverlist = Published(version)
  \/ /\ version < MaxVersion
     /\ \/ writer = "half" /\ serverlist = <<version + 1, version, version>>
        \/ writer = "list" /\ serverlist = <<version + 1, version + 1, version>>
        \/ writer = "written" /\ serverlist = Published(version + 1)
Part(a, l, i) == a <= l[i] /\ l[i] <= serverlist[i]
Between(a, l) == \A i \in 1..3 : Part(a, l, i)
ReaderOrder(t) ==
  /\ seen[t] <= version /\ current_version <= version
  /\ (missed = "no" /\ pc[t] # "store") => Between(current_version, master.list)
  /\ pc[t] \in {"copy", "copying"} => Part(seen[t], copy[t], 3)
  /\ pc[t] = "copying" => Part(seen[t], copy[t], 1)
  /\ pc[t] = "update" => Between(seen[t], copy[t])
  /\ (missed = "no" /\ pc[t] = "store") => Between(seen[t], master.list)
IInv ==
  /\ TypeOK /\ WriterOrder
  /\ ~pooled => /\ ReaderOrder(Solo)
               /\ \A t \in Threads : pc[t] \in {"idle", "dead"} \/ t = Solo

\* When the parent has published its last list, a child without a pool comes to
\* have it, unless it failed to take it over (nobody tries again before the next
\* version) or died of a size older than the list.
Follows ==
  <>[](\/ pooled \/ version < MaxVersion \/ missed # "no" \/ pc[Solo] = "dead"
       \/ master.list = Published(MaxVersion))

=============================================================================
