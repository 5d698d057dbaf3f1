----------------------------- MODULE ZkManager -----------------------------
(***************************************************************************)
(* How a client follows the cache list in ZooKeeper (libmemcached/         *)
(* arcus.cc).  Three threads share an arcus_st: the application thread,    *)
(* which calls arcus_connect and arcus_close; the manager thread, which    *)
(* reads the list, applies it and reconnects after an expired session; and *)
(* the completion thread of the ZooKeeper library, which runs the watchers.*)
(*                                                                         *)
(* A critical section of lock_arcus, of zk_mgr.lock or of azk_mtx is one   *)
(* action.  The exception is zookeeper_close, which is called with         *)
(* lock_arcus held and waits for the completion thread: lock is the thread *)
(* that does so.  The ZooKeeper library and service are external and       *)
(* modelled by what arcus.cc relies on.                                    *)
(***************************************************************************)
EXTENDS Integers, Sequences

CONSTANTS
  MaxList,       \* bound: changes of the cache list
  MaxFaults,     \* bound: failed calls, time-outs, lost and expired sessions
  RetryDelay,    \* ARCUS_ZK_RETRY_RECONNECT_DELAY_IN_MS, in polls of 100 ms
  AllocMayFail   \* applying a list may fail for want of memory

ASSUME ManagerConstants ==
  /\ MaxList \in Nat /\ MaxFaults \in Nat /\ RetryDelay \in Nat \ {0}
  /\ AllocMayFail \in BOOLEAN

VARIABLES
  live,            \* the master's server_manager is set
  lock,            \* the thread in zookeeper_close, or "none"
  pc,              \* where each of the three threads is
  zk,              \* the session behind zk.handle; "closed": no handle
  events,          \* what the completion thread has still to deliver
  watch,           \* list version the child watch was set at, NoWatch, or Spent on
                   \* an event the watcher ignores
  view,            \* the oldest list the session's server may still show
  zklist,          \* version of the cache list in ZooKeeper
  fetched,         \* the version zoo_wget_children returned last
  applied,         \* the version applied to the master; 0 before the first
  is_initializing,
  conn_result,     \* "ok" or "auth_failed"
  azk_count,
  running, reqstop, notification,
  request,         \* zk_mgr.request
  zkreq,           \* the manager's copy of it
  zk_retry, reconnect_retry, elapsed,
  result,          \* what the last arcus_connect returned
  faults,          \* faults so far
  lapses           \* history: what the code has let go, see Lapses

client == <<applied, is_initializing, fetched, lapses>>
mgr == <<running, reqstop, zkreq, zk_retry, reconnect_retry, elapsed>>
mailbox == <<notification, request>>
session == <<zk, events, watch, view>>
vars == <<live, lock, pc, session, zklist, client, conn_result, azk_count, mgr,
          mailbox, result, faults>>

NoWatch == -1
Spent == -2

\* "overtaken"  arcus_close came before the manager thread had set running
\* "dropped"    the list read last was not applied for want of memory
\* "ignored"    the end of the session was reported while no manager was running
Lapses == {"overtaken", "dropped", "ignored"}

NoRequest == [reconnect |-> FALSE, update |-> FALSE]
Callers == {"user", "manager"}    \* who runs do_arcus_zk_connect and _close

Handle == zk # "closed"
At(p, l) == pc[p] = l
Go(p, l) == pc' = [pc EXCEPT ![p] = l]

\* A failure the environment may choose.
Fault == faults < MaxFaults /\ faults' = faults + 1
NoFault == UNCHANGED faults

\* The manager's last two places: the thread has ended, or never began.
Ended == {"none", "ended"}

Init ==
  /\ live = FALSE /\ lock = "none"
  /\ pc = [user |-> "idle", manager |-> "none", watcher |-> "idle"]
  /\ zk = "closed" /\ events = <<>> /\ watch = NoWatch /\ view = 1
  /\ zklist = 1 /\ fetched = 0 /\ applied = 0
  /\ is_initializing = FALSE /\ conn_result = "ok" /\ azk_count = 0
  /\ running = FALSE /\ reqstop = FALSE /\ notification = FALSE
  /\ request = NoRequest /\ zkreq = NoRequest
  /\ zk_retry = FALSE /\ reconnect_retry = FALSE /\ elapsed = 0
  /\ result = "none" /\ faults = 0 /\ lapses = {}

-----------------------------------------------------------------------------
(* do_arcus_zk_manager_wakeup.  A thread in pthread_cond_wait ("sleep") is *)
(* signalled; one in the timed wait ("nap") may wake at any time anyway.   *)

\* Mutant: the signal goes out only for a request that is already pending.
WakeupLate(p, l) ==
  /\ notification' = TRUE
  /\ pc' = [pc EXCEPT ![p] = l,
                      !["manager"] = IF notification /\ @ = "sleep"
                                     THEN "woken" ELSE @]

do_arcus_zk_manager_wakeup(p, l) ==
  /\ notification' = TRUE
  /\ pc' = [pc EXCEPT ![p] = l,
                      !["manager"] = IF ~notification /\ @ = "sleep"
                                     THEN "woken" ELSE @]

-----------------------------------------------------------------------------
(* do_arcus_zk_connect, run by the application on the first connection and *)
(* by the manager when it reconnects.                                      *)

\* Where a caller goes when do_arcus_zk_connect has failed.
ConnectFailed(p) ==
  IF p = "user"
  THEN Go(p, "idle") /\ result' = "error" /\ UNCHANGED reconnect_retry
  ELSE Go(p, "loop") /\ reconnect_retry' = TRUE /\ UNCHANGED result

ConnectCount(p) ==
  /\ At(p, "count")
  /\ azk_count' = azk_count + 1
  /\ Go(p, "init")
  /\ UNCHANGED <<live, lock, session, zklist, client, conn_result, mgr, mailbox,
                 result, faults>>

\* zookeeper_init returns a handle that connects in the background, to a server
\* that may be behind the one of the last session.
ConnectInit(p) ==
  /\ At(p, "init") /\ lock = "none" /\ ~Handle /\ live
  /\ zk' = "connecting" /\ view' = 1 /\ Go(p, "await")
  /\ UNCHANGED <<live, lock, events, watch, zklist, client, conn_result,
                 azk_count, mgr, mailbox, result, faults>>

\* It returns NULL: azk_count stays one too high.
ConnectInitFails(p) ==
  /\ At(p, "init") /\ lock = "none" /\ live /\ Fault
  /\ ConnectFailed(p)
  /\ UNCHANGED <<live, lock, session, zklist, client, conn_result, azk_count,
                 running, reqstop, zkreq, zk_retry, elapsed, mailbox>>

\* wait_count returns because azk_count has come down to 0.
ConnectAwait(p) ==
  /\ At(p, "await") /\ azk_count <= 0
  /\ Go(p, "validate")
  /\ UNCHANGED <<live, lock, session, zklist, client, conn_result, azk_count,
                 mgr, mailbox, result, faults>>

\* wait_count times out; there is no event to wait for when arcus_close has
\* closed the handle meanwhile.
ConnectTimeout(p) ==
  /\ At(p, "await") /\ azk_count > 0
  /\ IF zk = "closed" THEN NoFault ELSE Fault
  /\ azk_count' = azk_count - 1
  /\ Go(p, "abandon")
  /\ UNCHANGED <<live, lock, session, zklist, client, conn_result, mgr, mailbox,
                 result>>

\* conn_result, then zoo_exists in do_arcus_cluster_validation_check.  A
\* synchronous call of the library returns once the session is decided.
ConnectValidate(p) ==
  /\ At(p, "validate") /\ lock = "none"
  /\ \/ /\ conn_result = "ok" /\ zk = "connected"
        /\ Go(p, "info") /\ NoFault
     \/ /\ conn_result # "ok" \/ zk \in {"expired", "auth_failed", "closed"}
        /\ Go(p, "abandon") /\ NoFault
     \/ Fault /\ Go(p, "abandon")
  /\ UNCHANGED <<live, lock, session, zklist, client, conn_result, azk_count,
                 mgr, mailbox, result>>

\* do_add_client_info creates the client's znode.  After a reconnection
\* do_arcus_zk_process_reconnect asks for the list, because the new session has
\* no watch; after the first one the application starts the manager.
ConnectInfo(p) ==
  /\ At(p, "info") /\ zk = "connected"
  /\ IF p = "user"
     THEN Go(p, "start") /\ UNCHANGED <<request, zk_retry>>
     ELSE /\ Go(p, "loop")
          /\ request' = [request EXCEPT !.update = TRUE]
          /\ zk_retry' = TRUE
  /\ UNCHANGED <<live, lock, session, zklist, client, conn_result, azk_count,
                 running, reqstop, zkreq, reconnect_retry, elapsed,
                 notification, result, faults>>

ConnectInfoFails(p) ==
  /\ At(p, "info")
  /\ \/ zk \in {"expired", "auth_failed", "closed"} /\ NoFault
     \/ Fault
  /\ Go(p, "abandon")
  /\ UNCHANGED <<live, lock, session, zklist, client, conn_result, azk_count,
                 mgr, mailbox, result>>

-----------------------------------------------------------------------------
(* zookeeper_close.  The caller takes lock_arcus and keeps it until the    *)
(* completion thread is between two watchers; the session's events and     *)
(* watches go with the handle.                                             *)

\* Taking lock_arcus in order to close the handle.
CloseLock(p) == lock = "none" /\ lock' = p

zookeeper_close(p) ==
  /\ lock = p /\ At("watcher", "idle")
  /\ lock' = "none"
  /\ zk' = "closed" /\ events' = <<>> /\ watch' = NoWatch
  /\ lapses' = lapses \ {"ignored"}

\* The end of a failed do_arcus_zk_connect.
ConnectAbandon(p) ==
  /\ At(p, "abandon") /\ CloseLock(p)
  /\ Go(p, "abandoning")
  /\ UNCHANGED <<live, session, zklist, client, conn_result, azk_count, mgr,
                 mailbox, result, faults>>

ConnectAbandoned(p) ==
  /\ At(p, "abandoning") /\ zookeeper_close(p)
  /\ ConnectFailed(p)
  /\ UNCHANGED <<live, view, zklist, applied, is_initializing, fetched,
                 conn_result, azk_count, running, reqstop, zkreq, zk_retry,
                 elapsed, mailbox, faults>>

\* do_arcus_zk_close: the count is cleared before lock_arcus is taken.
CloseClear(p) ==
  /\ At(p, "clear")
  /\ azk_count' = 0 /\ Go(p, "close")
  /\ UNCHANGED <<live, lock, session, zklist, client, conn_result, mgr, mailbox,
                 result, faults>>

CloseBegin(p) ==
  /\ At(p, "close") /\ CloseLock(p) /\ live
  /\ conn_result' = "ok" /\ Go(p, "closing")
  /\ UNCHANGED <<live, session, zklist, client, azk_count, mgr, mailbox, result,
                 faults>>

\* The handle is gone in any case; zookeeper_close may still report an error.
\* The manager then tries the whole reconnection again, and arcus_close
\* returns with the arcus_st in place.
CloseDone(p) ==
  /\ At(p, "closing") /\ zookeeper_close(p)
  /\ \/ /\ NoFault
        /\ Go(p, IF p = "user" THEN "free" ELSE "count")
        /\ UNCHANGED reconnect_retry
     \/ /\ Handle /\ Fault
        /\ Go(p, IF p = "user" THEN "idle" ELSE "loop")
        /\ reconnect_retry' = (p = "manager" \/ reconnect_retry)
  /\ UNCHANGED <<live, view, zklist, applied, is_initializing, fetched,
                 conn_result, azk_count, running, reqstop, zkreq, zk_retry,
                 elapsed, mailbox, result>>

\* do_arcus_zk_close and do_arcus_zk_connect return an error when the server
\* manager is gone.
NoArcus(p) ==
  /\ pc[p] \in {"close", "init"} /\ lock = "none" /\ ~live
  /\ ConnectFailed(p)
  /\ UNCHANGED <<live, lock, session, zklist, client, conn_result, azk_count,
                 running, reqstop, zkreq, zk_retry, elapsed, mailbox, faults>>

-----------------------------------------------------------------------------
(* The application thread: arcus_connect and arcus_close.                  *)

\* do_arcus_init makes a new arcus_st.
ArcusConnect ==
  /\ At("user", "idle") /\ ~live /\ lock = "none" /\ At("manager", "none")
  /\ live' = TRUE /\ is_initializing' = TRUE /\ conn_result' = "ok"
  /\ result' = "none"
  /\ Go("user", "count")
  /\ UNCHANGED <<lock, session, zklist, applied, fetched, lapses, azk_count, mgr,
                 mailbox, faults>>

\* ARCUS_ALREADY_INITIATED is reported as success, whatever became of the call
\* that initiated it.
ArcusConnectAgain ==
  /\ At("user", "idle") /\ live /\ lock = "none"
  /\ result' = "ok"
  /\ UNCHANGED <<live, lock, pc, session, zklist, client, conn_result,
                 azk_count, mgr, mailbox, faults>>

\* do_arcus_zk_manager_start: create the thread and ask for the list.
ManagerStart ==
  /\ At("user", "start") /\ lock = "none" /\ Handle
  /\ request' = [request EXCEPT !.update = TRUE]
  /\ notification' = TRUE
  /\ pc' = [pc EXCEPT !["user"] = "started", !["manager"] = "begin"]
  /\ UNCHANGED <<live, lock, session, zklist, client, conn_result, azk_count,
                 mgr, result, faults>>

\* pthread_create fails: the handle is closed under the same lock.
ManagerStartFails ==
  /\ At("user", "start") /\ Handle /\ Fault
  /\ CloseLock("user") /\ Go("user", "abandoning")
  /\ UNCHANGED <<live, session, zklist, client, conn_result, azk_count, mgr,
                 mailbox, result>>

\* pthread_cond_timedwait on cond_arcus is not in a loop: it ends with the
\* broadcast that clears is_initializing, by time-out, or by a wake-up meant for
\* somebody else (cond_arcus is shared by all clients of the process), also before
\* the manager thread has run at all.
ManagerStarted ==
  /\ At("user", "started") /\ lock = "none"
  /\ result' \in IF is_initializing THEN {"ok", "error"} ELSE {"ok"}
  /\ Go("user", "idle")
  /\ UNCHANGED <<live, lock, session, zklist, client, conn_result, azk_count,
                 mgr, mailbox, faults>>

\* arcus_close, do_arcus_zk_manager_stop: a manager that is not running is
\* taken for stopped.
ArcusClose ==
  /\ At("user", "idle") /\ live /\ lock = "none"
  /\ IF running
     THEN reqstop' = TRUE /\ Go("user", "stop")
     ELSE Go("user", "clear") /\ UNCHANGED reqstop
  /\ lapses' = IF At("manager", "begin") THEN lapses \cup {"overtaken"} ELSE lapses
  /\ UNCHANGED <<live, lock, session, zklist, applied, is_initializing, fetched,
                 conn_result, azk_count, running, zkreq, zk_retry, reconnect_retry,
                 elapsed, mailbox, result, faults>>

ManagerStop ==
  /\ At("user", "stop")
  /\ do_arcus_zk_manager_wakeup("user", "stopping")
  /\ UNCHANGED <<live, lock, session, zklist, client, conn_result, azk_count,
                 mgr, request, result, faults>>

\* Mutant: the application does not wait for the thread's end.
ManagerNotAwaited ==
  /\ At("user", "stopping")
  /\ Go("user", "clear")
  /\ UNCHANGED <<live, lock, session, zklist, client, conn_result, azk_count,
                 mgr, mailbox, result, faults>>

\* The loop with usleep ends.
ManagerStopped ==
  /\ At("user", "stopping") /\ ~running
  /\ Go("user", "clear")
  /\ UNCHANGED <<live, lock, session, zklist, client, conn_result, azk_count,
                 mgr, mailbox, result, faults>>

\* free(arcus).  The model lets the application connect once.
ArcusFree ==
  /\ At("user", "free") /\ lock = "none"
  /\ live' = FALSE /\ Go("user", "done")
  /\ UNCHANGED <<lock, session, zklist, client, conn_result, azk_count, mgr,
                 mailbox, result, faults>>

-----------------------------------------------------------------------------
(* arcus_zk_manager_thread_main. *)

ManagerBegin ==
  /\ At("manager", "begin") /\ live
  /\ running' = TRUE /\ Go("manager", "loop")
  /\ UNCHANGED <<live, lock, session, zklist, client, conn_result, azk_count,
                 reqstop, zkreq, zk_retry, reconnect_retry, elapsed, mailbox,
                 result, faults>>

\* The server manager is NULL when the thread begins, or is freed under it: the
\* process may die of it, or go on with what the memory still holds.
ManagerCrash ==
  /\ ~live /\ pc["manager"] \notin Ended \cup {"crashed"} /\ lock # "manager"
  /\ Go("manager", "crashed")
  /\ UNCHANGED <<live, lock, session, zklist, client, conn_result, azk_count,
                 mgr, mailbox, result, faults>>

\* Leaving the inner loop: the requests are copied and cleared.
TakeRequest ==
  /\ notification' = FALSE
  /\ zkreq' = request /\ request' = NoRequest
  /\ Go("manager", "process")

\* Mutant: a failed zoo_wget_children or a reconnection is not polled for.
ManagerLoopNoNap ==
  /\ pc["manager"] \in {"loop", "woken"}
  /\ \/ /\ reqstop /\ Go("manager", "stop") /\ UNCHANGED <<zkreq, mailbox>>
     \/ /\ ~reqstop /\ notification /\ TakeRequest
     \/ /\ ~reqstop /\ ~notification
        /\ Go("manager", "sleep")
        /\ UNCHANGED <<zkreq, mailbox>>
  /\ UNCHANGED <<live, lock, session, zklist, client, conn_result, azk_count,
                 running, reqstop, zk_retry, reconnect_retry, elapsed, result,
                 faults>>

ManagerLoop ==
  /\ pc["manager"] \in {"loop", "woken"}
  /\ \/ /\ reqstop /\ Go("manager", "stop") /\ UNCHANGED <<zkreq, mailbox>>
     \/ /\ ~reqstop /\ notification /\ TakeRequest
     \/ /\ ~reqstop /\ ~notification
        /\ Go("manager", IF zk_retry \/ reconnect_retry THEN "nap" ELSE "sleep")
        /\ UNCHANGED <<zkreq, mailbox>>
  /\ UNCHANGED <<live, lock, session, zklist, client, conn_result, azk_count,
                 running, reqstop, zk_retry, reconnect_retry, elapsed, result,
                 faults>>

SpuriousWakeup ==
  /\ At("manager", "sleep") /\ Go("manager", "woken")
  /\ UNCHANGED <<live, lock, session, zklist, client, conn_result, azk_count,
                 mgr, mailbox, result, faults>>

\* The timed wait ends, by signal or after 100 ms, and leaves the loop.
ManagerPoll ==
  /\ At("manager", "nap")
  /\ TakeRequest
  /\ zk_retry' = FALSE
  /\ elapsed' = IF reconnect_retry THEN elapsed + 1 ELSE elapsed
  /\ UNCHANGED <<live, lock, session, zklist, client, conn_result, azk_count,
                 running, reqstop, reconnect_retry, result, faults>>

\* Mutant: the time since the last attempt is not reset.
ManagerProcessNoReset ==
  /\ At("manager", "process")
  /\ IF reqstop THEN Go("manager", "stop") /\ UNCHANGED reconnect_retry
     ELSE IF reconnect_retry
     THEN IF elapsed < RetryDelay
          THEN Go("manager", "loop") /\ UNCHANGED reconnect_retry
          ELSE Go("manager", "clear") /\ reconnect_retry' = FALSE
     ELSE /\ Go("manager", IF zkreq.reconnect THEN "clear"
                           ELSE IF zkreq.update THEN "wget" ELSE "loop")
          /\ UNCHANGED reconnect_retry
  /\ UNCHANGED <<live, lock, session, zklist, client, conn_result, azk_count,
                 running, reqstop, zkreq, zk_retry, elapsed, mailbox, result,
                 faults>>

\* A reconnection comes first and makes an update request superfluous; one
\* that failed is tried again only after the delay.
ManagerProcess ==
  /\ At("manager", "process")
  /\ \/ /\ reqstop /\ Go("manager", "stop")
        /\ UNCHANGED <<reconnect_retry, elapsed>>
     \/ /\ ~reqstop /\ reconnect_retry /\ elapsed < RetryDelay
        /\ Go("manager", "loop") /\ UNCHANGED <<reconnect_retry, elapsed>>
     \/ /\ ~reqstop /\ reconnect_retry /\ elapsed >= RetryDelay
        /\ Go("manager", "clear") /\ reconnect_retry' = FALSE /\ elapsed' = 0
     \/ /\ ~reqstop /\ ~reconnect_retry
        /\ Go("manager", IF zkreq.reconnect THEN "clear"
                         ELSE IF zkreq.update /\ live THEN "wget"
                         ELSE "loop")
        /\ UNCHANGED <<reconnect_retry, elapsed>>
  /\ UNCHANGED <<live, lock, session, zklist, client, conn_result, azk_count,
                 running, reqstop, zkreq, zk_retry, mailbox, result, faults>>

\* Mutant: the list is read without setting a watch.
WgetWithoutWatch ==
  /\ At("manager", "wget") /\ zk = "connected"
  /\ fetched' \in view..zklist /\ view' = fetched'
  /\ Go("manager", "apply")
  /\ UNCHANGED <<live, lock, zk, events, watch, zklist, applied, lapses,
                 is_initializing, conn_result, azk_count, mgr, mailbox, result,
                 faults>>

\* zoo_wget_children reads the list the session's server has and sets the watch
\* there in one operation.
Wget ==
  /\ At("manager", "wget") /\ zk = "connected"
  /\ fetched' \in view..zklist /\ view' = fetched' /\ watch' = fetched'
  /\ Go("manager", "apply")
  /\ UNCHANGED <<live, lock, zk, events, zklist, applied, is_initializing, lapses,
                 conn_result, azk_count, mgr, mailbox, result, faults>>

WgetFails ==
  /\ At("manager", "wget")
  /\ \/ zk \in {"lost", "expired", "auth_failed", "closed"} /\ NoFault
     \/ zk = "connected" /\ Fault
  /\ request' = [request EXCEPT !.update = TRUE]
  /\ zk_retry' = TRUE
  /\ Go("manager", "loop")
  /\ UNCHANGED <<live, lock, session, zklist, client, conn_result, azk_count,
                 running, reqstop, zkreq, reconnect_retry, elapsed,
                 notification, result>>

\* do_arcus_zk_update_cachelist, with the list copied earlier.  Memory may be
\* missing for the list or in the update: nobody tries again.
Apply ==
  /\ At("manager", "apply") /\ lock = "none"
  /\ \/ /\ live /\ applied' = fetched /\ is_initializing' = FALSE
        /\ lapses' = lapses \ {"dropped"} /\ NoFault
     \/ /\ live /\ AllocMayFail /\ Fault
        /\ is_initializing' \in {is_initializing, FALSE}
        /\ lapses' = lapses \cup {"dropped"} /\ UNCHANGED applied
     \/ ~live /\ NoFault /\ UNCHANGED <<applied, is_initializing, lapses>>
  /\ Go("manager", "loop")
  /\ UNCHANGED <<live, lock, session, zklist, fetched, conn_result, azk_count,
                 mgr, mailbox, result>>

ManagerEnd ==
  /\ At("manager", "stop")
  /\ running' = FALSE /\ Go("manager", "ended")
  /\ UNCHANGED <<live, lock, session, zklist, client, conn_result, azk_count,
                 reqstop, zkreq, zk_retry, reconnect_retry, elapsed, mailbox,
                 result, faults>>

-----------------------------------------------------------------------------
(* The watchers, run one after the other by the completion thread.         *)

Deliver ==
  /\ At("watcher", "idle") /\ events # <<>>
  /\ Go("watcher", Head(events)) /\ events' = Tail(events)
  /\ UNCHANGED <<live, lock, zk, watch, view, zklist, client, conn_result, azk_count,
                 mgr, mailbox, result, faults>>

\* do_arcus_zk_watcher_global, up to where it drops lock_arcus.
WatcherGlobal ==
  /\ pc["watcher"] \in {"CONNECTED", "CONNECTING", "EXPIRED", "AUTH_FAILED"}
  /\ lock = "none"
  /\ conn_result' = IF At("watcher", "AUTH_FAILED") /\ live /\ Handle
                    THEN "auth_failed" ELSE conn_result
  /\ Go("watcher", IF ~live \/ ~Handle \/ At("watcher", "CONNECTING") THEN "idle"
                   ELSE IF At("watcher", "CONNECTED") THEN "count_down"
                   ELSE IF At("watcher", "EXPIRED") THEN "expired"
                   ELSE "auth_failed")
  /\ UNCHANGED <<live, lock, session, zklist, client, azk_count, mgr, mailbox,
                 result, faults>>

\* Mutant: an expired session is only noted.
WatcherIgnores ==
  /\ pc["watcher"] \in {"expired", "auth_failed"}
  /\ Go("watcher", IF At("watcher", "expired") THEN "idle" ELSE "count_down")
  /\ UNCHANGED <<live, lock, session, zklist, client, conn_result, azk_count,
                 mgr, mailbox, result, faults>>

\* The rest: ask a running manager to reconnect; nobody else will.
WatcherReconnect ==
  /\ pc["watcher"] \in {"expired", "auth_failed"}
  /\ LET next == IF At("watcher", "expired") THEN "idle" ELSE "count_down"
     IN IF running
        THEN /\ request' = [request EXCEPT !.reconnect = TRUE]
             /\ do_arcus_zk_manager_wakeup("watcher", next) /\ UNCHANGED lapses
        ELSE /\ Go("watcher", next) /\ UNCHANGED mailbox
             /\ lapses' = lapses \cup {"ignored"}
  /\ UNCHANGED <<live, lock, session, zklist, applied, is_initializing, fetched,
                 conn_result, azk_count, mgr, result, faults>>

\* inc_count(-1).
WatcherCountDown ==
  /\ At("watcher", "count_down")
  /\ azk_count' = azk_count - 1 /\ Go("watcher", "idle")
  /\ UNCHANGED <<live, lock, session, zklist, client, conn_result, mgr, mailbox,
                 result, faults>>

\* do_arcus_zk_watcher_cachelist returns on an event it does not know, and looks
\* at the arcus_st under lock_arcus on one it knows ...
WatcherCachelist ==
  /\ \/ At("watcher", "DELETED") /\ Go("watcher", "idle")
     \/ /\ pc["watcher"] \in {"CHILD", "NOTWATCHING"} /\ lock = "none"
        /\ Go("watcher", IF live THEN "child" ELSE "idle")
  /\ UNCHANGED <<live, lock, session, zklist, client, conn_result, azk_count,
                 mgr, mailbox, result, faults>>

\* ... and at the handle without it.
WatcherUpdate ==
  /\ At("watcher", "child")
  /\ IF Handle
     THEN /\ request' = [request EXCEPT !.update = TRUE]
          /\ do_arcus_zk_manager_wakeup("watcher", "idle")
     ELSE Go("watcher", "idle") /\ UNCHANGED mailbox
  /\ UNCHANGED <<live, lock, session, zklist, client, conn_result, azk_count,
                 mgr, result, faults>>

-----------------------------------------------------------------------------
(* The ZooKeeper service and the library's session.                        *)

environment == <<live, lock, pc, client, conn_result, azk_count, mgr, mailbox,
                 result>>

ZkConnected ==
  /\ zk \in {"connecting", "lost"}
  /\ zk' = "connected" /\ events' = Append(events, "CONNECTED")
  /\ UNCHANGED <<environment, watch, view, zklist, faults>>

ZkLost ==
  /\ zk = "connected" /\ Fault
  /\ zk' = "lost" /\ events' = Append(events, "CONNECTING")
  /\ UNCHANGED <<environment, watch, view, zklist>>

ZkExpired ==
  /\ zk = "lost"
  /\ zk' = "expired" /\ events' = Append(events, "EXPIRED") /\ watch' = NoWatch
  /\ UNCHANGED <<environment, view, zklist, faults>>

ZkAuthFailed ==
  /\ zk \in {"connecting", "lost"} /\ Fault
  /\ zk' = "auth_failed" /\ events' = Append(events, "AUTH_FAILED")
  /\ watch' = NoWatch
  /\ UNCHANGED <<environment, view, zklist>>

ZkListChanges ==
  /\ zklist < MaxList
  /\ zklist' = zklist + 1
  /\ UNCHANGED <<environment, session, faults>>

\* A watch fires once, when the session is there to tell; the next read sees the
\* change that fired it.
ZkWatchFires ==
  /\ zk = "connected" /\ watch \in 0..(zklist - 1)
  /\ watch' = NoWatch /\ view' = watch + 1 /\ events' = Append(events, "CHILD")
  /\ UNCHANGED <<environment, zk, zklist, faults>>

\* The server gives up the watch, or the znode is deleted and created again.
ZkWatchRemoved ==
  /\ zk = "connected" /\ watch \in Nat /\ Fault
  /\ watch' = NoWatch /\ events' = Append(events, "NOTWATCHING")
  /\ UNCHANGED <<environment, zk, view, zklist>>

ZkNodeDeleted ==
  /\ zk = "connected" /\ watch \in Nat /\ Fault
  /\ watch' = Spent /\ events' = Append(events, "DELETED")
  /\ UNCHANGED <<environment, zk, view, zklist>>

-----------------------------------------------------------------------------
Connect(p) ==
  \/ ConnectCount(p) \/ ConnectInit(p) \/ ConnectAwait(p) \/ ConnectTimeout(p)
  \/ ConnectValidate(p) \/ ConnectInfo(p) \/ ConnectInfoFails(p)
  \/ ConnectAbandon(p) \/ ConnectAbandoned(p)
Close(p) == CloseClear(p) \/ CloseBegin(p) \/ CloseDone(p) \/ NoArcus(p)

User == ManagerStart \/ ManagerStarted \/ ManagerStop \/ ManagerStopped \/ ArcusFree
Manager == ManagerBegin \/ ManagerCrash \/ ManagerLoop \/ ManagerPoll \/ ManagerProcess
           \/ Wget \/ WgetFails \/ Apply \/ ManagerEnd
Watcher == Deliver \/ WatcherGlobal \/ WatcherReconnect \/ WatcherCountDown
           \/ WatcherCachelist \/ WatcherUpdate
ZooKeeper == ZkConnected \/ ZkLost \/ ZkExpired \/ ZkAuthFailed
             \/ ZkListChanges \/ ZkWatchFires \/ ZkWatchRemoved \/ ZkNodeDeleted

Next ==
  \/ \E p \in Callers : Connect(p) \/ ConnectInitFails(p) \/ Close(p)
  \/ ArcusConnect \/ ArcusConnectAgain \/ ArcusClose \/ ManagerStartFails
  \/ User \/ Manager \/ SpuriousWakeup \/ Watcher \/ ZooKeeper

Spec == Init /\ [][Next]_vars

\* Threads run, the ensemble is reachable again after each fault, and ZooKeeper
\* delivers a watch that is due.  A loss of the session is repaired or ends it.
FairSpec ==
  /\ Spec
  /\ \A p \in Callers : WF_vars(Connect(p)) /\ WF_vars(Close(p))
  /\ WF_vars(User) /\ WF_vars(Manager) /\ WF_vars(Watcher)
  /\ WF_vars(ZkConnected \/ ZkExpired) /\ WF_vars(ZkWatchFires)

-----------------------------------------------------------------------------
(* Properties *)

Sessions == {"closed", "connecting", "connected", "lost", "expired", "auth_failed"}
SessionEvents == {"CONNECTED", "CONNECTING", "EXPIRED", "AUTH_FAILED", "CHILD",
                  "NOTWATCHING", "DELETED"}
ConnectPlaces == {"count", "init", "await", "validate", "info", "abandon",
                  "abandoning", "clear", "close", "closing"}
Requests == [reconnect : BOOLEAN, update : BOOLEAN]

\* Type invariant.
TypeOK ==
  /\ live \in BOOLEAN /\ lock \in Callers \cup {"none"}
  /\ pc \in [user : ConnectPlaces \cup {"idle", "start", "started", "stop",
                                        "stopping", "free", "done"},
             manager : ConnectPlaces \cup {"none", "begin", "loop", "sleep", "nap",
                              "woken", "process", "wget", "apply", "stop", "ended",
                              "crashed"},
             watcher : SessionEvents \cup {"idle", "expired", "auth_failed",
                                           "count_down", "child"}]
  /\ zk \in Sessions /\ events \in Seq(SessionEvents)
  /\ watch \in Nat \cup {NoWatch, Spent} /\ view \in 1..zklist
  /\ zklist \in Nat /\ fetched \in Nat /\ applied \in Nat
  /\ is_initializing \in BOOLEAN /\ conn_result \in {"ok", "auth_failed"}
  /\ azk_count \in Int
  /\ running \in BOOLEAN /\ reqstop \in BOOLEAN /\ notification \in BOOLEAN
  /\ request \in Requests /\ zkreq \in Requests
  /\ zk_retry \in BOOLEAN /\ reconnect_retry \in BOOLEAN /\ elapsed \in 0..RetryDelay
  /\ result \in {"none", "ok", "error"} /\ faults \in 0..MaxFaults
  /\ lapses \subseteq Lapses

\* One of the events is still to be delivered, or its watcher is at work.
Pending(es, places) ==
  pc["watcher"] \in es \cup places \/ \E i \in 1..Len(events) : events[i] \in es

\* No request is lost: while the manager thread sleeps without a time-out,
\* nothing is asked of it, and a request to stop is about to be signalled.
NoLostRequest ==
  At("manager", "sleep") =>
    /\ ~notification /\ request = NoRequest
    /\ reqstop => At("user", "stop")

\* No change of the cluster is lost: while the manager thread sleeps without a
\* time-out, the list it read last is applied, unless memory was missing for it,
\* and is the one it watches, or the event that will wake it is under way; and a
\* dead session has its event under way.  The watch is gone for good only when
\* another event than a change of the children used it up (arcus.cc:1150).  A
\* client closed before its manager ran has no session.
Attentive ==
  At("manager", "sleep") /\ "overtaken" \notin lapses =>
    /\ applied = fetched \/ "dropped" \in lapses
    /\ \/ /\ zk \in {"connected", "lost"}
          /\ watch \in {fetched, Spent} \/ Pending({"CHILD", "NOTWATCHING"}, {"child"})
       \/ zk = "expired" /\ Pending({"EXPIRED"}, {"expired"})
       \/ zk = "auth_failed" /\ Pending({"AUTH_FAILED"}, {"auth_failed"})

\* arcus.cc:1317: "Do not call zookeeper_close (do_arcus_zk_close) and
\* zoo_wget_children at the same time."  Only an arcus_close that finds running
\* not yet set (arcus.cc:1312) does not wait for the thread.
CloseApartFromWget ==
  ~(lock = "user" /\ At("manager", "wget")) \/ "overtaken" \in lapses

\* The manager thread uses the arcus_st only while it exists, and calls
\* zoo_wget_children only with a handle, with the same one exception.
ManagerHasArcus ==
  \/ /\ pc["manager"] \notin Ended => live
     /\ At("manager", "wget") => Handle
  \/ "overtaken" \in lapses

\* What the liveness properties have to except besides lapses: a watcher waits
\* for lock_arcus while the holder waits in zookeeper_close for the watcher; the
\* watch is used up by an event that the watcher does not act on.
Caught == lock # "none" /\ ~At("watcher", "idle")
Deaf == watch = Spent

\* Whatever happens to the session, a running client comes to have the list of
\* the cluster and stays with it, unless it is being closed.
ListFollowed ==
  <>[](running => \/ applied = zklist \/ reqstop \/ Caught \/ Deaf
                  \/ lapses # {})

\* arcus.cc:1229: "SESSION_STATE=EXPIRED_SESSION, create a new client after
\* closing expired one".
ExpiredReplaced ==
  (zk = "expired") ~> \/ zk # "expired" \/ Caught
                      \/ lapses \cap {"ignored", "overtaken"} # {}

\* arcus_connect and arcus_close return: nothing but a watcher caught in
\* zookeeper_close can keep them.
Returned == pc["user"] \in {"idle", "done"}
OnlyCloseHangs == ~Returned ~> (Returned \/ Caught)

\* arcus.cc:301, "Clean up the Arcus manager and ZooKeeper client": arcus_close,
\* like arcus_connect, returns.
CallsReturn == ~Returned ~> Returned

=============================================================================
