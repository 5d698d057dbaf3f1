-------------------------------- MODULE Pipe --------------------------------
(***************************************************************************)
(* Piped collection commands (libmemcached/collection.cc): a list of items *)
(* is sent in batches, each answered by one RESPONSE list, or by a plain   *)
(* line when the batch is a single item.  A node that stops being master   *)
(* in the middle answers SWITCHOVER to the next item and drops the rest of *)
(* the batch; the call goes on from there with another replica.            *)
(*   "insert"  do_coll_piped_insert: all items to the server of one key    *)
(*   "exist"   do_coll_piped_exist: likewise, and no switchover            *)
(*   "bulk"    do_coll_piped_insert_bulk: one item for each of many keys,  *)
(*             server by server                                            *)
(***************************************************************************)
EXTENDS Integers, Sequences, SequencesExt

CONSTANTS
  Kinds,      \* which of the three
  N, NBulk,   \* bounds: items for one key, and keys of a bulk insert
  Batch,      \* MEMCACHED_COLL_MAX_PIPED_CMD_SIZE (500 in the code)
  S,          \* bound: number of servers
  R,          \* replicas of a server's group (RGROUP_MAX_REPLICA is 3)
  MaxMoves    \* bound: failovers

ASSUME PipeConstants ==
  /\ Kinds \subseteq {"insert", "exist", "bulk"}
  /\ N \in Nat \ {0} /\ NBulk \in 1..N /\ Batch \in Nat \ {0, 1} /\ S \in Nat \ {0}
  /\ R \in 2..3 /\ MaxMoves \in Nat

Items == 1..N
Servers == 1..S

\* What the memory before the caller's arrays makes of an item.
Stray == 0

VARIABLES
  kind,
  keys,                    \* server_to_keys: the items each server gets
  server,                  \* i of the loop over the servers
  j,                       \* the loop variable, from 0
  requested_items,
  pipe_buffer,
  responses,               \* the array ptr->pipe_responses
  pipe_responses_length,
  rc,
  occurred,                \* failure_occurred, success_occurred
  results,                 \* what the caller gets, by item
  piped_rc,
  pc,
  inbox,                   \* items on the way to a server
  answers,                 \* statuses it has for the batch so far
  leader,                  \* the index in rgroup->replicas of the group's master
  log,                     \* items the group has executed, in order
  outcome,                 \* what came of each
  moves,
  lone,                    \* a batch of one item has been answered SWITCHOVER, and
                           \* whether the index went below the arrays then
  astray                   \* about to try a replica that was not the master

loop == <<j, requested_items, pipe_buffer>>
answered == <<responses, pipe_responses_length>>
ending == <<occurred, results, piped_rc>>
nodes == <<inbox, answers, leader, log, outcome, moves>>
history == <<lone, astray>>
vars == <<kind, keys, server, loop, answered, rc, ending, pc, nodes, history>>

List == keys[server]
Statuses(k) == IF k = "exist" THEN {"EXIST", "NOT_EXIST", "FAIL"} ELSE {"STORED", "FAIL"}
ToList(X) == SetToSortSeq(X, <)

\* The items of the call.
Given == UNION {ToSet(keys[s]) : s \in Servers}

\* The servers that get items, from s on.
Following(s) == {t \in Servers : t > s /\ keys[t] # <<>>}
First(X) == CHOOSE t \in X : \A u \in X : t <= u

Init ==
  /\ kind \in Kinds
  /\ \E n \in 1..(IF kind = "bulk" THEN NBulk ELSE N) : \E f \in [1..n -> Servers] :
       /\ kind # "bulk" => \A i \in 1..n : f[i] = 1
       /\ keys = [s \in Servers |-> ToList({i \in 1..n : f[i] = s})]
  /\ server = First(Following(0))
  /\ j = 0 /\ requested_items = 0 /\ pipe_buffer = <<>>
  /\ responses = [i \in Items |-> "none"] /\ pipe_responses_length = 0
  /\ rc = "SUCCESS" /\ occurred = [failure |-> FALSE, success |-> FALSE]
  /\ results = [i \in Items |-> "none"] /\ piped_rc = "none" /\ pc = "next"
  /\ inbox = [s \in Servers |-> <<>>] /\ answers = [s \in Servers |-> <<>>]
  /\ leader = [s \in Servers |-> 0]
  /\ log = [s \in Servers |-> <<>>] /\ outcome = [i \in Items \cup {Stray} |-> "none"]
  /\ moves = 0 /\ lone = "no" /\ astray = FALSE

-----------------------------------------------------------------------------
(* Requests: internal_coll_piped_insert, internal_coll_piped_exist *)

\* Mutant: no limit on a batch.
PipedToEnd == j + 1 < Len(List)

\* ptr->flags.piped for the item that is next.
piped == requested_items + 1 < Batch /\ j + 1 < Len(List)

More == pc = "next" /\ j < Len(List)
Sent(q) == [inbox EXCEPT ![server] = @ \o q]
Advance == IF piped THEN pc' = "next" /\ j' = j + 1 ELSE pc' = "fetch" /\ j' = j

\* The item at index j.  For -1 memcached_index_array_get leaves key_index as it
\* was, that of the server's only item; an insert reads what is before the arrays.
Item == IF j >= 0 THEN List[j + 1] ELSE IF kind = "bulk" THEN List[1] ELSE Stray

\* The request goes into the pipe buffer if it fits.
Buffering ==
  /\ More /\ piped
  /\ requested_items' = requested_items + 1
  /\ pipe_buffer' = Append(pipe_buffer, Item) /\ Advance
  /\ astray' = FALSE
  /\ UNCHANGED <<kind, lone, keys, server, answered, rc, ending, nodes>>

Flushing ==
  /\ More
  /\ requested_items' = requested_items + 1
  /\ inbox' = Sent(Append(pipe_buffer, Item)) /\ pipe_buffer' = <<>> /\ Advance
  /\ astray' = FALSE
  /\ UNCHANGED <<kind, lone, keys, server, answered, rc, ending, answers, leader, log, outcome, moves>>

\* memcached_vdo fails; the node may have got the requests.
NotSent ==
  /\ More
  /\ requested_items' = requested_items + 1
  /\ inbox' \in {inbox, Sent(Append(pipe_buffer, Item))}
  /\ rc' = "LOST" /\ pc' = "server"
  /\ UNCHANGED <<kind, history, keys, server, j, pipe_buffer, answered, ending, answers, leader, log,
                 outcome, moves>>

\* Once the index has been below the arrays the process may end at any moment: a
\* read or write there, a summary of SIZE_MAX responses, the heap at the next free.
Crash ==
  /\ lone = "below" /\ pc \notin {"done", "crashed"}
  /\ pc' = "crashed"
  /\ UNCHANGED <<kind, history, keys, server, loop, answered, rc, ending, nodes>>

-----------------------------------------------------------------------------
(* The nodes *)

Last1(q) == IF q = <<>> THEN "none" ELSE q[Len(q)]
Stopped(s) == Last1(answers[s]) \in {"SWITCHOVER", "ERROR"}

\* A node takes the next item: as master it executes it, or fails badly, which
\* ends the pipe.
Serve(s) ==
  /\ inbox[s] # <<>>
  /\ inbox' = [inbox EXCEPT ![s] = Tail(@)]
  /\ \/ Stopped(s) /\ UNCHANGED <<answers, log, outcome>>
     \/ /\ ~Stopped(s) /\ leader[s] = 0
        /\ \E st \in Statuses(kind) :
             /\ answers' = [answers EXCEPT ![s] = Append(@, st)]
             /\ log' = [log EXCEPT ![s] = Append(@, Head(inbox[s]))]
             /\ outcome' = [outcome EXCEPT ![Head(inbox[s])] = st]
     \/ /\ ~Stopped(s)
        /\ answers' = [answers EXCEPT ![s] = Append(@, IF leader[s] = 0 THEN "ERROR" ELSE "SWITCHOVER")]
        /\ UNCHANGED <<log, outcome>>
  /\ UNCHANGED <<kind, history, keys, server, loop, answered, rc, ending, pc, leader, moves>>

Failover(s) ==
  /\ moves < MaxMoves /\ moves' = moves + 1
  /\ \E r \in 0..R-1 : r # leader[s] /\ leader' = [leader EXCEPT ![s] = r]
  /\ UNCHANGED <<kind, history, keys, server, loop, answered, rc, ending, pc, inbox, answers, log,
                 outcome>>

-----------------------------------------------------------------------------
(* Answers *)

\* Mutant: each list starts at the beginning of the array.
StoredFirst(offset, q) ==
  [i \in Items |-> IF i \in 1..Len(q) THEN q[i] ELSE responses[i]]

\* Statuses q go into the array from offset on.
Stored(offset, q) ==
  [i \in Items |-> IF i - offset \in 1..Len(q) THEN q[i - offset] ELSE responses[i]]

\* get_status_of_coll_pipe_response compares the whole line with "SWITCHOVER":
\* with the address of the peer behind it the status is not recognised.
Parsed(q, named) ==
  [i \in 1..Len(q) |-> IF q[i] = "SWITCHOVER" /\ named THEN "UNDEFINED" ELSE q[i]]

\* textual_coll_piped_response_fetch: the list, or what comes of it before the
\* connection fails, and the last line.
LastLine(named) ==
  IF ~Stopped(server) THEN "SUCCESS"
  ELSE IF Last1(answers[server]) = "SWITCHOVER" /\ ~named THEN "SWITCHOVER" ELSE "PIPE_ERROR"
Received(k, named, code) ==
  /\ responses' = Stored(pipe_responses_length, SubSeq(Parsed(answers[server], named), 1, k))
  /\ pipe_responses_length' = pipe_responses_length + k
  /\ rc' = code

\* What the loop does with the answer.
Break == pc' = "server" /\ UNCHANGED <<loop, occurred, leader>>
Continue ==
  /\ pc' = "next" /\ j' = j + 1 /\ requested_items' = 0
  /\ occurred' = [occurred EXCEPT !.success = TRUE]
  /\ UNCHANGED <<pipe_buffer, leader>>
Answer == IF rc' = "SUCCESS" THEN Continue ELSE Break
HaveAnswer == pc = "fetch" /\ inbox[server] = <<>>
Taken == answers' = [answers EXCEPT ![server] = <<>>]

FetchList ==
  /\ HaveAnswer /\ requested_items > 1 /\ Taken
  /\ \E named \in BOOLEAN :
       \/ \E k \in 0..Len(answers[server]) : Received(k, named, "LOST")
       \/ /\ ~(LastLine(named) = "SWITCHOVER" /\ kind # "exist")
          /\ Received(Len(answers[server]), named, LastLine(named))
  /\ Answer
  /\ UNCHANGED <<kind, history, keys, server, results, piped_rc, inbox, log, outcome, moves>>

\* The plain answer to a batch of one.
FetchOne ==
  /\ HaveAnswer /\ requested_items = 1 /\ Taken
  /\ \E st \in {answers[server][1], "LOST"} :
       /\ responses' = Stored(pipe_responses_length, <<st>>)
       /\ rc' = IF st \in {"STORED", "EXIST", "NOT_EXIST"} THEN "SUCCESS" ELSE st
  /\ pipe_responses_length' = pipe_responses_length + 1
  /\ Answer
  /\ UNCHANGED <<kind, history, keys, server, results, piped_rc, inbox, log, outcome, moves>>

\* Mutant: the item that was answered SWITCHOVER is skipped.
RetryAfter(length) == length

\* "try again from the last request": the length is that of the answers to this
\* and the earlier batches.
RetryFrom(length) == length - 1

\* Mutant: the replicas keep their places.
NotSwitched(c) == leader

\* do_rgroup_server_switchover: the first replica and the one at c change places.
Switched(c) ==
  [leader EXCEPT ![server] = IF @ = 0 THEN c ELSE IF @ = c THEN 0 ELSE @]

\* memcached_rgroup_switchover: the first slave; the plain answer to a batch of one
\* may also name a replica.
Peers == IF requested_items = 1 THEN 1..R-1 ELSE {1}

\* The loop goes back; from the first item to -1, and the length to SIZE_MAX.
Retry ==
  /\ HaveAnswer /\ kind # "exist" /\ Last1(answers[server]) = "SWITCHOVER" /\ Taken
  /\ rc' = "SWITCHOVER"
  /\ LET n == IF requested_items = 1 THEN 0 ELSE Len(answers[server])
     IN /\ responses' = Stored(pipe_responses_length, SubSeq(answers[server], 1, n))
        /\ pipe_responses_length' = RetryFrom(pipe_responses_length + n)
  /\ j' = pipe_responses_length' /\ requested_items' = 0 /\ pc' = "next"
  /\ lone' = IF j' < 0 THEN "below" ELSE IF requested_items = 1 /\ lone = "no" THEN "yes" ELSE lone
  /\ \E c \in Peers : leader' = Switched(c) /\ astray' = (c # leader[server])
  /\ UNCHANGED <<kind, keys, server, pipe_buffer, ending, inbox, log, outcome, moves>>

-----------------------------------------------------------------------------
(* The end: do_aggregate_pipe_responses, and what the caller gets *)

AggregateExist(res, st) ==
  CASE st = "EXIST" /\ res = "MAXIMUM_RETURN" -> "ALL_EXIST"
    [] st = "EXIST" /\ res = "ALL_NOT_EXIST" -> "SOME_EXIST"
    [] st = "NOT_EXIST" /\ res = "MAXIMUM_RETURN" -> "ALL_NOT_EXIST"
    [] st = "NOT_EXIST" /\ res = "ALL_EXIST" -> "SOME_EXIST"
    [] st \in {"EXIST", "NOT_EXIST"} /\ res = "ALL_FAILURE" -> "SOME_SUCCESS"
    [] st \notin {"EXIST", "NOT_EXIST"} /\ res = "MAXIMUM_RETURN" -> "ALL_FAILURE"
    [] st \notin {"EXIST", "NOT_EXIST"} /\ res \notin {"ALL_FAILURE", "MAXIMUM_RETURN"} -> "SOME_SUCCESS"
    [] OTHER -> res

\* Mutant: failures after a success do not count.
AggregateFirst(res, st) ==
  CASE st = "STORED" /\ res = "MAXIMUM_RETURN" -> "ALL_SUCCESS"
    [] st = "STORED" /\ res = "ALL_FAILURE" -> "SOME_SUCCESS"
    [] st # "STORED" /\ res = "MAXIMUM_RETURN" -> "ALL_FAILURE"
    [] OTHER -> res

AggregateInsert(res, st) ==
  CASE st = "STORED" /\ res = "MAXIMUM_RETURN" -> "ALL_SUCCESS"
    [] st = "STORED" /\ res = "ALL_FAILURE" -> "SOME_SUCCESS"
    [] st # "STORED" /\ res = "MAXIMUM_RETURN" -> "ALL_FAILURE"
    [] st # "STORED" /\ res \notin {"ALL_FAILURE", "MAXIMUM_RETURN"} -> "SOME_SUCCESS"
    [] OTHER -> res
Aggregate(code, q) ==
  LET start == IF code # "SUCCESS" THEN "ALL_FAILURE" ELSE "MAXIMUM_RETURN"
  IN IF kind = "exist" THEN FoldLeft(AggregateExist, start, q)
     ELSE FoldLeft(AggregateInsert, start, q)

LoopOver == pc = "server" \/ (pc = "next" /\ j >= Len(List))

\* After an error the answers that did not come are MEMCACHED_MAXIMUM_RETURN; a
\* length of SIZE_MAX hides that any are missing, and a summary of that many
\* responses goes on beyond them until it meets what looks like a success.
Failed == rc # "SUCCESS"
Padded ==
  [i \in Items |-> IF Failed /\ pipe_responses_length >= 0 /\ i > pipe_responses_length THEN "none"
                   ELSE responses[i]]
Summed(code, q, length) ==
  IF length < 0 THEN "SOME_SUCCESS" ELSE Aggregate(code, SubSeq(q, 1, length))

Finish ==
  /\ LoopOver /\ kind # "bulk"
  /\ piped_rc' = Summed(rc, responses, pipe_responses_length)
  /\ results' = Padded
  /\ pc' = "done"
  /\ UNCHANGED <<kind, history, keys, server, loop, answered, rc, occurred, nodes>>

\* The results of one server.
Collected ==
  [i \in Items |-> IF \E x \in DOMAIN List : List[x] = i
                   THEN Padded[CHOOSE x \in DOMAIN List : List[x] = i] ELSE results[i]]

NextServer ==
  /\ LoopOver /\ kind = "bulk" /\ Following(server) # {}
  /\ occurred' = [occurred EXCEPT !.failure = @ \/ Failed]
  /\ results' = Collected /\ responses' = Padded
  /\ server' = First(Following(server))
  /\ j' = 0 /\ requested_items' = 0 /\ pipe_buffer' = <<>> /\ pipe_responses_length' = 0
  /\ pc' = "next"
  /\ UNCHANGED <<kind, history, keys, rc, piped_rc, nodes>>

\* The number of responses is that of the last server.
FinishBulk ==
  /\ LoopOver /\ kind = "bulk" /\ Following(server) = {}
  /\ occurred' = [occurred EXCEPT !.failure = @ \/ Failed]
  /\ results' = Collected /\ responses' = Padded
  /\ pipe_responses_length' = IF Failed /\ pipe_responses_length \in 0..Len(List) THEN Len(List)
                              ELSE pipe_responses_length
  /\ rc' = IF ~occurred.success THEN "FAILURE"
           ELSE IF occurred'.failure THEN "SOME_ERRORS" ELSE "SUCCESS"
  /\ piped_rc' = Summed(rc', results', pipe_responses_length')
  /\ pc' = "done"
  /\ UNCHANGED <<kind, history, keys, server, loop, nodes>>

Over == pc \in {"done", "crashed"} /\ UNCHANGED vars

Call == Buffering \/ Flushing \/ NotSent \/ Crash \/ FetchList \/ FetchOne \/ Retry
        \/ Finish \/ NextServer \/ FinishBulk
Next == Call \/ Over \/ \E s \in Servers : Serve(s) \/ Failover(s)

Spec == Init /\ [][Next]_vars

\* The nodes take what is sent to them, and the call goes on.
FairSpec == Spec /\ WF_vars(Call) /\ \A s \in Servers : WF_vars(Serve(s))

-----------------------------------------------------------------------------
(* Properties *)

Codes == {"none", "STORED", "EXIST", "NOT_EXIST", "FAIL", "ERROR", "SWITCHOVER", "UNDEFINED",
          "LOST"}

\* Type invariant: the loop variable and the length of the responses pass neither
\* the end of the arrays nor, but for -1 and SIZE_MAX (here -1), their beginning.
TypeOK ==
  /\ kind \in Kinds /\ server \in Servers /\ requested_items \in 0..Batch
  /\ pipe_responses_length \in -1..N /\ j \in -1..N
  /\ responses \in [Items -> Codes] /\ results \in [Items -> Codes]
  /\ pc \in {"next", "fetch", "server", "done", "crashed"} /\ lone \in {"no", "yes", "below"}

\* A group executes its items in order, each once and none left out: also when
\* a switchover divides a batch.  (Not when a batch of one is answered SWITCHOVER.)
Executed == \A s \in Servers : IsPrefix(log[s], keys[s])
InOrder == lone = "no" => Executed

\* collection.cc:2864, "try again from the last request": a switchover answered to
\* a batch of one does not make the group execute an item again.
LoneInOrder == lone = "yes" => Executed

\* A status the caller gets for an item is the one the node gave it, and when
\* the call succeeds every item has one.
Faithful ==
  (pc = "done" /\ lone = "no") =>
    \A i \in Given : /\ results[i] \in Statuses(kind) => results[i] = outcome[i]
                     /\ rc = "SUCCESS" => results[i] \in Statuses(kind)

\* The summary is that of the results, as long as the length is not SIZE_MAX.
Count(st) == {i \in Given : results[i] \in st}
Summary ==
  LET ok == rc = "SUCCESS" IN
  IF kind = "exist" THEN
    CASE ok /\ Count({"EXIST"}) = Given -> "ALL_EXIST"
      [] ok /\ Count({"NOT_EXIST"}) = Given -> "ALL_NOT_EXIST"
      [] ok /\ Count({"EXIST", "NOT_EXIST"}) = Given /\ Count({"EXIST"}) \notin {{}, Given} -> "SOME_EXIST"
      [] Count({"EXIST", "NOT_EXIST"}) = {} -> "ALL_FAILURE"
      [] OTHER -> "SOME_SUCCESS"
  ELSE IF ok /\ Count({"STORED"}) = Given THEN "ALL_SUCCESS"
  ELSE IF Count({"STORED"}) = {} THEN "ALL_FAILURE" ELSE "SOME_SUCCESS"
Summarised == (pc = "done" /\ kind # "bulk" /\ pipe_responses_length >= 0) => piped_rc = Summary

\* docs/user-guide/04-list-API.md:448, piped_rc holds the overall result of the
\* bulk store.  (Batches of one that are answered SWITCHOVER are left to LoneInOrder.)
BulkSummarised == (pc = "done" /\ kind = "bulk" /\ lone = "no") => piped_rc = Summary

\* Every call ends, unless it is sent again and again to a replica that is not the
\* master: in a group of three the two slaves, answering SWITCHOVER without a peer,
\* do so for ever.
Ends == <>(pc \in {"done", "crashed"}) \/ ([]<>astray /\ []<>~astray)

=============================================================================
