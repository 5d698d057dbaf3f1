------------------------------- MODULE Client -------------------------------
(***************************************************************************)
(* One memcached_st handle and its connections: how a request is put into  *)
(* the write buffer, sent, answered and matched with its answer, in the    *)
(* text protocol over TCP.  The library matches answers to requests by     *)
(* counting: cursor_active of a connection goes up by one with each        *)
(* request and down by one with each answer read, and a call takes the     *)
(* answer that brings the count down to zero for its own.                  *)
(*                                                                         *)
(* A reply is a number of item lines (VALUE, STAT, ATTR) and a last line.  *)
(* A request in a buffer, or sent and not answered, is a record:           *)
(*   tag    the call it is of: the one in progress, an mget or another     *)
(*   items  the number of item lines its reply can still have              *)
(*   ok     the node executed it, being the master of its group            *)
(* A node that is not the master answers SWITCHOVER and does nothing; the  *)
(* answer may name the node to go to.                                      *)
(***************************************************************************)
EXTENDS Integers, Sequences

CONSTANTS
  Nodes,        \* cache nodes
  NoNode,       \* not a node
  Groups,       \* replication groups: a partition of Nodes
  Listed,       \* the replicas of each group in the order of the cache list
  Program,      \* commands the program uses
  Quietly,      \* those it uses while MEMCACHED_BEHAVIOR_NOREPLY is set
  Modes,        \* the settings <<MEMCACHED_BEHAVIOR_BUFFER_REQUESTS,
                \* MEMCACHED_BEHAVIOR_NO_BLOCK>> it uses
  Orderly,      \* it fetches what an mget has asked for only when no request
                \* is in a write buffer
  Wrap,         \* cursor_active counts modulo Wrap (2^32 in the code)
  MaxItems,     \* bound: item lines in a reply
  MaxPending,   \* bound: requests without an answer on a connection
  MaxMoves      \* bound: changes of a group's master

VARIABLES
  conn,             \* the connection to each node
  master,           \* rgroup->replicas[0] of each group
  first_slave,      \* rgroup->replicas[1], or NoNode
  no_reply, buffer_requests, no_block,     \* ptr->flags
  call,             \* the call in progress, or the result of the last one
  leaders,          \* the nodes that really are masters
  moves

flags == <<no_reply, buffer_requests, no_block>>
servers == <<leaders, moves>>
vars == <<conn, master, first_slave, flags, call, servers>>

-----------------------------------------------------------------------------
(* The commands, by what they do to a connection:                          *)
(*   drains    the answers still outstanding are read first                *)
(*   noreply   " noreply" is appended when no_reply is set                 *)
(*   buffered  kept in the write buffer when buffer_requests is set        *)
(*   items     the answer has item lines                                   *)
(*   reads     how the call reads its answer: "reply" not at all when      *)
(*             no_reply is set, "always" in any case, "fetch" with         *)
(*             memcached_fetch_result until that has no more, "one" item   *)
(*             of it, or "later" when the program fetches it               *)
(*   follows   a SWITCHOVER is followed to the node it names               *)

memcached_send_ascii(verb) ==
  [drains |-> FALSE, noreply |-> TRUE, buffered |-> verb = "SET_OP", items |-> FALSE,
   reads |-> "reply", follows |-> TRUE]
ascii_delete ==
  [drains |-> FALSE, noreply |-> TRUE, buffered |-> TRUE, items |-> FALSE,
   reads |-> "reply", follows |-> TRUE]
ascii_touch == ascii_delete
text_incr_decr == [ascii_delete EXCEPT !.buffered = FALSE]
memcached_flush_textual == [text_incr_decr EXCEPT !.follows = FALSE]

ascii_get_by_key ==
  [drains |-> TRUE, noreply |-> FALSE, buffered |-> FALSE, items |-> TRUE,
   reads |-> "fetch", follows |-> FALSE]
ascii_gat_by_key == [ascii_get_by_key EXCEPT !.reads = "always", !.follows = TRUE]
memcached_get_attrs == [ascii_get_by_key EXCEPT !.reads = "always"]
ascii_exist == [memcached_get_attrs EXCEPT !.drains = FALSE]
ascii_stats_fetch == ascii_exist
memcached_fetch_result == [ascii_get_by_key EXCEPT !.reads = "one"]
memcached_mget_by_key == [ascii_get_by_key EXCEPT !.reads = "later"]

do_coll_create == [ascii_delete EXCEPT !.drains = TRUE]
\* The " noreply" is printed with the creation attributes.
do_coll_insert(attributes) == [do_coll_create EXCEPT !.noreply = attributes]
do_coll_delete == do_coll_create
do_coll_update == do_coll_create
do_coll_arithmetic == do_coll_create
do_coll_exist == [do_coll_create EXCEPT !.follows = FALSE]
memcached_set_attrs == [do_coll_create EXCEPT !.noreply = FALSE]
do_coll_get == [do_coll_create EXCEPT !.noreply = FALSE, !.items = TRUE]
do_bop_find_position == [do_coll_exist EXCEPT !.noreply = FALSE]
do_bop_get_by_position == [do_bop_find_position EXCEPT !.items = TRUE]
do_bop_find_position_with_get == do_bop_get_by_position
do_coll_count == do_bop_find_position

Commands ==
  {memcached_send_ascii("SET_OP"), memcached_send_ascii("ADD_OP"), ascii_delete, ascii_touch,
   text_incr_decr, memcached_flush_textual,
   ascii_get_by_key, ascii_gat_by_key, memcached_get_attrs, ascii_exist, ascii_stats_fetch,
   do_coll_create, do_coll_insert(TRUE), do_coll_insert(FALSE),
   do_coll_delete, do_coll_update, do_coll_arithmetic, do_coll_exist, memcached_set_attrs,
   do_coll_get, do_bop_find_position, do_bop_get_by_position,
   do_bop_find_position_with_get, do_coll_count}

ASSUME ClientConstants ==
  /\ \A g \in Groups : g \subseteq Nodes /\ g # {}
  /\ \A n \in Nodes : \E g \in Groups : n \in g
  /\ \A g, h \in Groups : g = h \/ g \cap h = {}
  /\ Listed \in [Groups -> Seq(Nodes)]
  /\ \A g \in Groups : /\ Len(Listed[g]) > 0 /\ \A i \in DOMAIN Listed[g] : Listed[g][i] \in g
                       /\ Len(Listed[g]) > 1 => Listed[g][1] # Listed[g][2]
  /\ NoNode \notin Nodes
  /\ Program \subseteq Commands /\ Quietly \subseteq Program
  /\ Modes \subseteq BOOLEAN \X BOOLEAN /\ Orderly \in BOOLEAN
  /\ Wrap \in Nat /\ MaxPending \in Nat /\ MaxPending + 1 < Wrap
  /\ MaxItems \in Nat /\ MaxMoves \in Nat

-----------------------------------------------------------------------------
(* A connection *)

Increment(c) == [c EXCEPT !.cursor_active = IF @ + 1 = Wrap THEN 0 ELSE @ + 1]
Decrement(c) == [c EXCEPT !.cursor_active = IF @ = 0 THEN Wrap - 1 ELSE @ - 1]

\* memcached_quit_server.  After an io_death the node is not tried again before
\* its retry time, unless memcached_server_set_immediate_reconnect was called.
Closed(disabled) ==
  [open |-> FALSE, cursor_active |-> 0, buffered |-> <<>>, pending |-> <<>>,
   disabled |-> disabled]

\* Requests s reach node n.
Served(n, s) == [i \in DOMAIN s |-> [s[i] EXCEPT !.ok = n \in leaders]]
\* io_flush: the write buffer is sent.
Flushed(n, c) ==
  [c EXCEPT !.buffered = <<>>, !.pending = @ \o Served(n, c.buffered)]

\* The requests of a call that has returned are no longer its own.
Retag(s, old) == [i \in DOMAIN s |-> IF s[i].tag = old THEN [s[i] EXCEPT !.tag = "old"] ELSE s[i]]
Forget(f, old) ==
  [n \in Nodes |-> [f[n] EXCEPT !.buffered = Retag(@, old), !.pending = Retag(@, old)]]

Masters == {master[g] : g \in Groups}

\* memcached_read_one_response: what the next line from a node can be, in the
\* reply to a request with which tag, and what becomes of the connection.  A
\* SWITCHOVER names the peer to go to, not always rightly, or none.
Line(c, rc, tag) == [conn |-> c, rc |-> rc, tag |-> tag, peer |-> NoNode]
Lines(c) ==
  LET h == Head(c.pending)
      rest == [Decrement(c) EXCEPT !.pending = Tail(@)]
  IN IF ~c.open THEN {Line(Decrement(c), "LOST", "none")}
     ELSE {Line(Closed(TRUE), "LOST", "none")} \cup
          (IF c.pending = <<>> THEN {}
           ELSE {Line(Closed(FALSE), "SERVER_ERROR", h.tag)} \cup
                (IF h.ok THEN {Line(rest, rc, h.tag) : rc \in {"OK", "FAIL", "E2BIG"}}
                 ELSE {[Line(rest, "SWITCHOVER", h.tag) EXCEPT !.peer = p] :
                         p \in Nodes \cup {NoNode}}) \cup
                (IF h.ok /\ h.items > 0
                 THEN {Line([c EXCEPT !.pending[1].items = @ - 1], "ITEM", h.tag)} ELSE {}))

\* Mutant: no loop over the older answers.
ReadOne == {}

\* The answers memcached_response and memcached_coll_response pass over while an
\* older request is unanswered; with any other they return.
Passed == {"OK", "FAIL", "ITEM"}

\* Mutant: the connection that failed is tried again, too.
FollowsLost(rc) == rc \in {"SWITCHOVER", "LOST"} /\ call.cmd.follows

\* The answer sends the call to another node of its group.
Follows(rc) == rc = "SWITCHOVER" /\ call.cmd.follows

\* Mutants: the peer is looked up among all nodes; the group keeps its master.
AnyPeer(g, n, peer) == IF peer = NoNode THEN {first_slave[g]} ELSE {peer}
SamePeer(g, n, peer) == {n}

\* textual_switchover_peer_check, memcached_rgroup_switchover: the node of group g
\* to take the place of n at the head of the replicas.  Without a name that is the
\* first slave; a name that is not of another replica gives none, and the call
\* then returns the answer.
Peers(g, n, peer) ==
  IF peer = NoNode THEN {first_slave[g]} \cap g ELSE {peer} \cap (g \ {n})

\* do_rgroup_server_switchover: n, the head of the replicas, and peer change places.
Swap(g, n, peer) ==
  /\ master' = [master EXCEPT ![g] = peer]
  /\ first_slave' = [first_slave EXCEPT ![g] = IF @ = peer THEN n ELSE @]

-----------------------------------------------------------------------------
(* A call: "drain", "send" and "read" are before, in and after             *)
(* memcached_vdo; in "fetch" memcached_fetch_result looks for a connection *)
(* to read from.  runs counts the masters that have executed it, and clear *)
(* says that no node of its groups owed an answer when it began.  astray   *)
(* says that it is about to send its request again, to a node that the     *)
(* answer did not name, or that is not the master.                         *)

Waiting(n) == Len(conn[n].pending) + Len(conn[n].buffered)

NoCommand == memcached_send_ascii("SET_OP")
Idle == call.pc = "idle"
Goto(pc) == call' = [call EXCEPT !.pc = pc]
Start(cmd, todo, pc) ==
  call' = [pc |-> pc, cmd |-> cmd, todo |-> todo, rc |-> "none", tag |-> "none", runs |-> 0,
           astray |-> FALSE, clear |-> \A g \in todo : \A n \in g : Waiting(n) = 0]

\* The call returns, leaving the connections as in f.
Return(f, rc, tag) ==
  /\ conn' = Forget(f, "own")
  /\ call' = [pc |-> "idle", cmd |-> NoCommand, todo |-> {}, rc |-> rc, tag |-> tag,
              runs |-> call.runs, astray |-> FALSE, clear |-> call.clear]

Begin(cmd, g) ==
  /\ Idle /\ (no_reply => cmd \in Quietly)
  /\ (buffer_requests \/ no_reply) => Waiting(master[g]) < MaxPending
  /\ Start(cmd, {g}, IF cmd.drains THEN "drain" ELSE "send")
  /\ UNCHANGED <<conn, master, first_slave, flags, servers>>

\* memcached_mget: its answers are fetched by later calls.
BeginMget(todo) ==
  /\ Idle /\ todo # {}
  /\ Start(memcached_mget_by_key, todo, "drain")
  /\ conn' = Forget(conn, "mget")
  /\ UNCHANGED <<master, first_slave, flags, servers>>

BeginFetch ==
  /\ Idle /\ (Orderly => \A n \in Masters : conn[n].buffered = <<>>)
  /\ Start(memcached_fetch_result, {}, "fetch")
  /\ UNCHANGED <<conn, master, first_slave, flags, servers>>

\* Mutant: answers are read with requests left in the write buffer.
NeverUnsent(n) == FALSE

\* In non-blocking mode the write buffer is sent before an answer is read.
Unsent(n) == no_block /\ conn[n].buffered # <<>>
SendBuffer(n) ==
  \E c \in {Flushed(n, conn[n]), Closed(TRUE)} : conn' = [conn EXCEPT ![n] = c]

\* "We need to remove any data sitting in the queue before we start our get."
Drain ==
  /\ call.pc = "drain"
  /\ \/ /\ \A n \in Masters : conn[n].cursor_active = 0
        /\ Goto("send") /\ UNCHANGED conn
     \/ \E n \in Masters :
          /\ conn[n].cursor_active # 0
          /\ IF Unsent(n) THEN SendBuffer(n)
             ELSE \E l \in Lines(conn[n]) : conn' = [conn EXCEPT ![n] = l.conn]
          /\ UNCHANGED call
  /\ UNCHANGED <<master, first_slave, flags, servers>>

\* The request to group g cannot be sent.
NotSent(g, f, rc) ==
  IF call.todo = {g} THEN Return(f, rc, "none")
  ELSE conn' = f /\ call' = [call EXCEPT !.todo = @ \ {g}]

\* memcached_connect: no attempt is made before the retry time.  The version
\* exchange of a new connection is part of it, and may fail.
Connect(g) ==
  LET n == master[g] IN
  /\ call.pc = "send" /\ g \in call.todo /\ ~conn[n].open
  /\ \/ conn[n].disabled /\ NotSent(g, conn, "DISABLED")
     \/ ~conn[n].disabled /\ NotSent(g, [conn EXCEPT ![n] = Closed(TRUE)], "LOST")
     \/ ~conn[n].disabled /\ NotSent(g, [conn EXCEPT ![n] = Closed(FALSE)], "SERVER_ERROR")
     \/ /\ ~conn[n].disabled /\ conn[n].cursor_active = 0
        /\ conn' = [conn EXCEPT ![n].open = TRUE] /\ UNCHANGED call
  /\ UNCHANGED <<master, first_slave, flags, servers>>

\* The request, and whether the node answers it.
Request == [tag |-> IF call.cmd.reads = "later" THEN "mget" ELSE "own",
            items |-> IF call.cmd.items THEN MaxItems ELSE 0, ok |-> FALSE]
Answered == ~(no_reply /\ call.cmd.noreply)
Buffers == buffer_requests /\ call.cmd.buffered

\* Mutant: a request without a reply is counted, too.
WrittenCounted(c) ==
  IF Answered THEN [Increment(c) EXCEPT !.buffered = Append(@, Request)] ELSE Increment(c)

Written(c) ==
  LET counted == IF no_reply /\ call.cmd.reads # "later" THEN c ELSE Increment(c)
  IN IF Answered THEN [counted EXCEPT !.buffered = Append(@, Request)] ELSE counted

\* memcached_vdo (memcached_mget_by_key counts its request itself).  A request
\* that is to stay in the write buffer may fill it, and is sent then.
Send(g) ==
  LET n == master[g]
      sent == Flushed(n, Written(conn[n]))
  IN
  /\ call.pc = "send" /\ g \in call.todo /\ conn[n].open /\ Waiting(n) <= MaxPending
  /\ \/ NotSent(g, [conn EXCEPT ![n] = Closed(TRUE)], "LOST")
     \/ /\ Buffers
        /\ \E c \in {Written(conn[n]), sent} :
             Return([conn EXCEPT ![n] = c], "BUFFERED", "none")
     \/ /\ ~Buffers /\ call.cmd.reads = "later"
        /\ NotSent(g, [conn EXCEPT ![n] = sent], "OK")
     \/ /\ ~Buffers /\ call.cmd.reads = "reply" /\ no_reply
        /\ Return([conn EXCEPT ![n] = sent], "OK", "none")
     \/ /\ ~Buffers /\ ~(call.cmd.reads = "reply" /\ no_reply) /\ call.cmd.reads # "later"
        /\ conn' = [conn EXCEPT ![n] = sent]
        /\ call' = [call EXCEPT !.pc = IF call.cmd.reads = "fetch" THEN "fetch" ELSE "read",
                                !.runs = IF n \in leaders THEN @ + 1 ELSE @, !.astray = FALSE]
  /\ UNCHANGED <<master, first_slave, flags, servers>>

Fetches == call.cmd.reads \in {"fetch", "one"}

\* What the call does with the line l from n, the answer of memcached_response.
Answer(g, n, l) ==
  LET f == [conn EXCEPT ![n] = l.conn] IN
  \/ /\ l.rc = "ITEM" /\ call.cmd.reads # "one"
     /\ conn' = f
     /\ call' = [call EXCEPT !.pc = IF Fetches THEN "fetch" ELSE "read",
                             !.rc = l.rc, !.tag = l.tag]
     /\ UNCHANGED <<master, first_slave>>
  \/ /\ Fetches /\ l.rc = "OK"
     /\ conn' = [f EXCEPT ![n].cursor_active = 0] /\ Goto("fetch") /\ UNCHANGED <<master, first_slave>>
  \/ /\ Fetches /\ l.rc \in {"FAIL", "LOST"}
     /\ conn' = f /\ Goto("fetch") /\ UNCHANGED <<master, first_slave>>
  \/ /\ Follows(l.rc)
     /\ \E peer \in Peers(g, n, l.peer) : Swap(g, n, peer)
     /\ conn' = f
     /\ call' = [call EXCEPT !.pc = "send", !.astray = l.peer \notin leaders]
  \/ /\ ~(Fetches /\ l.rc \in {"OK", "FAIL"})
     /\ ~(l.rc = "ITEM" /\ call.cmd.reads # "one")
     /\ ~(Follows(l.rc) /\ Peers(g, n, l.peer) # {})
     /\ Return(f, l.rc, l.tag) /\ UNCHANGED <<master, first_slave>>

\* memcached_response, memcached_coll_response: one line of the loop.
Read ==
  /\ call.pc = "read"
  /\ \E g \in call.todo :
       LET n == master[g] IN
       IF Unsent(n) THEN SendBuffer(n) /\ UNCHANGED <<call, master, first_slave>>
       ELSE \E l \in Lines(conn[n]) :
              IF conn[n].cursor_active > 1 /\ l.rc \in Passed
              THEN conn' = [conn EXCEPT ![n] = l.conn] /\ UNCHANGED <<call, master, first_slave>>
              ELSE Answer(g, n, l)
  /\ UNCHANGED <<flags, servers>>

\* memcached_io_get_readable_server.  With several candidates it polls, and the
\* poll may time out.
Readable(n) == conn[n].cursor_active > 0 \/ conn[n].pending # <<>>
Fetch ==
  /\ call.pc = "fetch"
  /\ \/ \E g \in Groups :
          /\ Readable(master[g])
          /\ call' = [call EXCEPT !.pc = "read", !.todo = {g}]
          /\ UNCHANGED conn
     \/ /\ \A g \in Groups : Readable(master[g]) => \E h \in Groups \ {g} : Readable(master[h])
        /\ Return(conn, IF call.rc = "ITEM" THEN "OK" ELSE "FAIL", call.tag)
  /\ UNCHANGED <<master, first_slave, flags, servers>>

-----------------------------------------------------------------------------
(* Other calls, and the world *)

SetNoReply(b) ==
  /\ Idle /\ no_reply' = b
  /\ UNCHANGED <<conn, master, first_slave, buffer_requests, no_block, call, servers>>

\* send_quit: what is in the write buffers is sent, and the connections to the
\* masters are closed.
Quit ==
  /\ Idle
  /\ conn' = [n \in Nodes |-> IF n \in Masters THEN Closed(FALSE) ELSE conn[n]]
  /\ UNCHANGED <<master, first_slave, call, servers>>

\* MEMCACHED_BEHAVIOR_BUFFER_REQUESTS, MEMCACHED_BEHAVIOR_NO_BLOCK.
SetMode(m) ==
  /\ Quit /\ (m[1] = buffer_requests \/ m[2] = no_block)
  /\ buffer_requests' = m[1] /\ no_block' = m[2]
  /\ UNCHANGED no_reply

memcached_flush_buffers ==
  /\ Idle
  /\ \E failed \in SUBSET Masters :
       conn' = [n \in Nodes |-> IF n \notin Masters \/ conn[n].buffered = <<>> THEN conn[n]
                                ELSE IF n \in failed THEN Closed(TRUE) ELSE Flushed(n, conn[n])]
  /\ UNCHANGED <<master, first_slave, flags, call, servers>>

\* The retry time of a node passes.
RetryTime(n) ==
  /\ conn[n].disabled
  /\ conn' = [conn EXCEPT ![n].disabled = FALSE]
  /\ UNCHANGED <<master, first_slave, flags, call, servers>>

\* Another node of the group becomes its master.
Failover(g) ==
  /\ moves < MaxMoves
  /\ \E n \in g \ leaders : leaders' = (leaders \ g) \cup {n}
  /\ moves' = moves + 1
  /\ UNCHANGED <<conn, master, first_slave, flags, call>>

Init ==
  /\ conn = [n \in Nodes |-> Closed(FALSE)]
  /\ master = [g \in Groups |-> Listed[g][1]]
  /\ first_slave = [g \in Groups |-> IF Len(Listed[g]) > 1 THEN Listed[g][2] ELSE NoNode]
  /\ no_reply = FALSE /\ buffer_requests = FALSE /\ no_block = FALSE
  /\ call = [pc |-> "idle", cmd |-> NoCommand, todo |-> {}, rc |-> "none",
             tag |-> "none", runs |-> 0, astray |-> FALSE, clear |-> TRUE]
  /\ leaders = {master[g] : g \in Groups} /\ moves = 0

Work == Drain \/ Read \/ Fetch \/ \E g \in Groups : Connect(g) \/ Send(g)
Next ==
  \/ Work
  \/ \E g \in Groups, cmd \in Program : Begin(cmd, g)
  \/ \E todo \in SUBSET Groups : BeginMget(todo)
  \/ BeginFetch
  \/ \E b \in BOOLEAN : SetNoReply(b)
  \/ \E m \in Modes : SetMode(m)
  \/ Quit /\ UNCHANGED flags
  \/ memcached_flush_buffers
  \/ \E n \in Nodes : RetryTime(n)
  \/ \E g \in Groups : Failover(g)

Spec == Init /\ [][Next]_vars

\* A call goes on until it returns: each of its waits has a time limit.
FairSpec == Spec /\ WF_vars(Work)

-----------------------------------------------------------------------------
(* Properties *)

Tag == {"own", "mget", "old"}
ReturnCode == {"none", "OK", "FAIL", "ITEM", "E2BIG", "SWITCHOVER", "SERVER_ERROR", "LOST",
               "DISABLED", "BUFFERED"}
Queued == [tag : Tag, items : 0..MaxItems, ok : BOOLEAN]
Connection == [open : BOOLEAN, cursor_active : 0..Wrap-1, buffered : Seq(Queued),
               pending : Seq(Queued), disabled : BOOLEAN]
Command == [drains : BOOLEAN, noreply : BOOLEAN, buffered : BOOLEAN, items : BOOLEAN,
            reads : {"reply", "always", "fetch", "one", "later"}, follows : BOOLEAN]
Call == [pc : {"idle", "drain", "send", "read", "fetch"}, cmd : Command, todo : SUBSET Groups,
         rc : ReturnCode, tag : Tag \cup {"none"}, runs : Nat, astray : BOOLEAN,
         clear : BOOLEAN]

\* Type invariant.
TypeOK ==
  /\ conn \in [Nodes -> Connection]
  /\ master \in [Groups -> Nodes] /\ \A g \in Groups : master[g] \in g
  /\ first_slave \in [Groups -> Nodes \cup {NoNode}]
  /\ \A g \in Groups : first_slave[g] \in (g \cup {NoNode}) \ {master[g]}
  /\ no_reply \in BOOLEAN /\ buffer_requests \in BOOLEAN /\ no_block \in BOOLEAN
  /\ call \in Call
  /\ leaders \subseteq Nodes /\ moves \in Nat

\* cursor_active of a connection is the number of answers the node still owes on
\* it, those to requests in the write buffer included; a closed one has none.
Balanced ==
  \A n \in Nodes : /\ conn[n].cursor_active = Waiting(n)
                   /\ ~conn[n].open => Waiting(n) = 0

\* Why the count stays right: a call reads only from an open connection with
\* nothing left to send, and a request is counted just when it is answered.
ReadsOpen ==
  call.pc = "read" => \A g \in call.todo : conn[master[g]].open /\ ~Unsent(master[g])
FetchesSent ==
  (Fetches /\ call.pc \in {"send", "read", "fetch"}) => \A g \in Groups : ~Unsent(master[g])
Consistent ==
  /\ Fetches => call.cmd.drains /\ ~call.cmd.follows
  /\ call.cmd.reads = "one" => call.pc \notin {"drain", "send"}
  /\ call.pc = "fetch" => Fetches
  /\ call.pc = "read" => call.cmd.reads # "later"
  /\ (call.pc \in {"drain", "send", "read"} /\ call.cmd.reads # "later")
       => \E g \in Groups : call.todo = {g}
  /\ call.cmd.reads = "later" => ~call.cmd.noreply
  /\ (no_reply /\ call.pc # "idle" /\ call.cmd.reads \notin {"one", "later"})
       => call.cmd.noreply
IInv == TypeOK /\ Balanced /\ ReadsOpen /\ FetchesSent /\ Consistent

\* A call that reports success was executed, and reports the answer to its own
\* request and not one to an earlier request on the connection.
OwnSuccess ==
  (Idle /\ call.rc = "OK" /\ call.tag # "none") => call.tag = "own" /\ call.runs >= 1

\* A call whose group owes no older answer is executed at most once, however
\* often it is told to switch over and sends its request again.
AtMostOnce == call.clear => call.runs <= 1

\* docs/man/memcached_behavior_set.3:183, "Any action that gets data causes this
\* buffer to be be sent to the remote connection": the library does not wait for
\* an answer to a request it has yet to send.
NoFutileWait ==
  \A g \in Groups :
    LET n == master[g] IN
    (/\ conn[n].open /\ ~Unsent(n)
     /\ \/ call.pc = "drain" /\ conn[n].cursor_active # 0
        \/ call.pc = "read" /\ g \in call.todo) => conn[n].pending # <<>>

\* Every call returns, once the groups have come to rest, unless it is misdirected
\* again and again: goto do_action has no limit, and in a group of three the
\* SWITCHOVERs of the two slaves, when they name nobody, send it from the one to
\* the other and never to the master.
Returns == (~Idle ~> Idle) \/ ([]<>call.astray /\ []<>~call.astray)

=============================================================================
