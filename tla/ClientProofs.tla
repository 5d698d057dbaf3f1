---------------------------- MODULE ClientProofs ----------------------------
(***************************************************************************)
(* The count of outstanding answers is right for every set of nodes and    *)
(* every program that, while MEMCACHED_BEHAVIOR_NOREPLY is set, uses only  *)
(* commands that ask for no reply, and fetches the answers of an mget only *)
(* when nothing is in a write buffer.                                      *)
(***************************************************************************)
EXTENDS Client, SequenceTheorems, TLAPS

Owed(c) == Len(c.pending) + Len(c.buffered)
Good(c) ==
  /\ c \in Connection
  /\ c.cursor_active = Owed(c)
  /\ ~c.open => Owed(c) = 0

-----------------------------------------------------------------------------
(* One connection *)

\* A connection with the right count.
Built(o, k, b, p, d) ==
  [open |-> o, cursor_active |-> k, buffered |-> b, pending |-> p, disabled |-> d]
LEMMA BuiltFields ==
  ASSUME NEW o, NEW k, NEW b, NEW p, NEW d
  PROVE  /\ Built(o, k, b, p, d).open = o /\ Built(o, k, b, p, d).cursor_active = k
         /\ Built(o, k, b, p, d).buffered = b /\ Built(o, k, b, p, d).pending = p
         /\ Built(o, k, b, p, d).disabled = d
  BY DEF Built

LEMMA BuiltGood ==
  ASSUME NEW o \in BOOLEAN, NEW k \in 0..Wrap-1, NEW b \in Seq(Queued), NEW p \in Seq(Queued),
         NEW d \in BOOLEAN, k = Len(p) + Len(b), ~o => Len(p) + Len(b) = 0
  PROVE  Good(Built(o, k, b, p, d))
  BY DEF Good, Owed, Connection, Built

LEMMA GoodFields ==
  ASSUME NEW c, Good(c)
  PROVE  \E o \in BOOLEAN, k \in 0..Wrap-1, b \in Seq(Queued), p \in Seq(Queued), d \in BOOLEAN :
           c = Built(o, k, b, p, d) /\ k = Len(p) + Len(b) /\ (~o => Len(p) + Len(b) = 0)
  <1>1. /\ c.open \in BOOLEAN /\ c.cursor_active \in 0..Wrap-1 /\ c.disabled \in BOOLEAN
        /\ c.buffered \in Seq(Queued) /\ c.pending \in Seq(Queued)
        /\ c.cursor_active = Len(c.pending) + Len(c.buffered)
        /\ ~c.open => Len(c.pending) + Len(c.buffered) = 0
    BY DEF Good, Owed, Connection
  <1>2. c = Built(c.open, c.cursor_active, c.buffered, c.pending, c.disabled)
    BY DEF Good, Connection, Built
  <1> QED BY <1>1, <1>2, Zenon

\* A closed connection owes nothing (memcached_quit_server).
LEMMA ClosedGood ==
  ASSUME NEW b \in BOOLEAN
  PROVE  Good(Closed(b)) /\ Closed(b).buffered = <<>>
  BY ClientConstants DEF Good, Closed, Connection, Owed, ClientConstants

\* Requests that reach a node stay requests.
LEMMA RequestServed ==
  ASSUME NEW q \in Queued, NEW b \in BOOLEAN
  PROVE  [q EXCEPT !.ok = b] \in Queued
  BY DEF Queued

LEMMA ServedType ==
  ASSUME NEW n, NEW s \in Seq(Queued)
  PROVE  Served(n, s) \in Seq(Queued) /\ Len(Served(n, s)) = Len(s)
  <1>1. (n \in leaders) \in BOOLEAN
    OBVIOUS
  <1>2. \A i \in 1..Len(s) : s[i] \in Queued
    BY ElementOfSeq
  <1>3. \A i \in 1..Len(s) : [s[i] EXCEPT !.ok = n \in leaders] \in Queued
    BY <1>1, <1>2, RequestServed, Zenon
  <1>4. DOMAIN s = 1..Len(s)
    OBVIOUS
  <1> QED BY <1>3, <1>4 DEF Served

\* io_flush moves requests and answers none.
LEMMA FlushedBuilt ==
  ASSUME NEW n, NEW o \in BOOLEAN, NEW k \in 0..Wrap-1, NEW b \in Seq(Queued),
         NEW p \in Seq(Queued), NEW d \in BOOLEAN
  PROVE  Flushed(n, Built(o, k, b, p, d)) = Built(o, k, <<>>, p \o Served(n, b), d)
  <1> DEFINE c == Built(o, k, b, p, d)
  <1>1. c.pending = p /\ c.buffered = b
    BY BuiltFields
  <1>2. Flushed(n, c) = [[c EXCEPT !.buffered = <<>>] EXCEPT !.pending = c.pending \o Served(n, c.buffered)]
    BY BuiltFields DEF Flushed
  <1> HIDE DEF c
  <1>3. Flushed(n, c) = [[c EXCEPT !.buffered = <<>>] EXCEPT !.pending = p \o Served(n, b)]
    BY <1>1, <1>2
  <1>4. PICK q, none, e : /\ q = p \o Served(n, b) /\ none = <<>>
                          /\ e = [[c EXCEPT !.buffered = none] EXCEPT !.pending = q]
    BY Zenon
  <1>5. PICK z : z = c
    OBVIOUS
  <1>6. z = Built(o, k, b, p, d) /\ e = [[z EXCEPT !.buffered = none] EXCEPT !.pending = q]
    BY <1>4, <1>5 DEF c
  <1>7. e = Built(o, k, none, q, d)
    BY ONLY <1>6, Zenon DEF Built
  <1> QED BY <1>3, <1>4, <1>7 DEF c

LEMMA FlushedGood ==
  ASSUME NEW n, NEW c, Good(c)
  PROVE  /\ Good(Flushed(n, c)) /\ Flushed(n, c).open = c.open
         /\ Flushed(n, c).buffered = <<>>
  <1>1. PICK o \in BOOLEAN, k \in 0..Wrap-1, b \in Seq(Queued), p \in Seq(Queued), d \in BOOLEAN :
          c = Built(o, k, b, p, d) /\ k = Len(p) + Len(b) /\ (~o => Len(p) + Len(b) = 0)
    BY GoodFields
  <1>2. PICK s : s = Served(n, b)
    OBVIOUS
  <1>3. s \in Seq(Queued) /\ Len(s) = Len(b)
    BY <1>2, ServedType
  <1>4. p \o s \in Seq(Queued) /\ Len(p \o s) = Len(p) + Len(b)
    BY ONLY <1>3, p \in Seq(Queued)
  <1>5. Flushed(n, c) = Built(o, k, <<>>, p \o s, d)
    BY <1>1, <1>2, FlushedBuilt
  <1>6. Good(Built(o, k, <<>>, p \o s, d))
    <2>1. k = Len(p \o s) + Len(<<>>) /\ (~o => Len(p \o s) + Len(<<>>) = 0)
          /\ <<>> \in Seq(Queued)
      BY <1>1, <1>4
    <2> QED BY <2>1, <1>4, BuiltGood, Zenon
  <1>7. c.open = o
    BY <1>1 DEF Built
  <1> QED BY <1>5, <1>6, <1>7 DEF Built

\* What is forgotten about a request leaves it a request.
LEMMA RetagType ==
  ASSUME NEW s \in Seq(Queued), NEW old
  PROVE  Retag(s, old) \in Seq(Queued) /\ Len(Retag(s, old)) = Len(s)
  <1>1. \A i \in 1..Len(s) :
          (IF s[i].tag = old THEN [s[i] EXCEPT !.tag = "old"] ELSE s[i]) \in Queued
    <2>1. \A i \in 1..Len(s) : s[i] \in Queued
      BY ElementOfSeq
    <2> QED BY <2>1 DEF Queued, Tag
  <1>2. DOMAIN s = 1..Len(s)
    OBVIOUS
  <1> QED BY <1>1, <1>2 DEF Retag

\* A call that returns leaves the counts alone.
LEMMA RetagGood ==
  ASSUME NEW c, Good(c), NEW old,
         NEW e, e = [c EXCEPT !.buffered = Retag(c.buffered, old), !.pending = Retag(c.pending, old)]
  PROVE  Good(e) /\ e.open = c.open /\ (c.buffered = <<>> => e.buffered = <<>>)
  <1>1. PICK o \in BOOLEAN, k \in 0..Wrap-1, b \in Seq(Queued), p \in Seq(Queued), d \in BOOLEAN :
          c = Built(o, k, b, p, d) /\ k = Len(p) + Len(b) /\ (~o => Len(p) + Len(b) = 0)
    BY GoodFields
  <1>2. c.buffered = b /\ c.pending = p /\ c.open = o
    BY <1>1 DEF Built
  <1>3. PICK x, y : x = Retag(b, old) /\ y = Retag(p, old)
    OBVIOUS
  <1>4. x \in Seq(Queued) /\ Len(x) = Len(b) /\ y \in Seq(Queued) /\ Len(y) = Len(p)
    BY <1>3, RetagType
  <1>5. e = [[c EXCEPT !.buffered = x] EXCEPT !.pending = y]
    BY <1>2, <1>3
  <1>6. e = Built(o, k, x, y, d)
    BY ONLY <1>1, <1>5, Zenon DEF Built
  <1>7. Good(Built(o, k, x, y, d))
    BY <1>1, <1>4, BuiltGood, Zenon
  <1>8. b = <<>> => x = <<>>
    BY <1>4
  <1>9. e.open = o /\ e.buffered = x
    BY ONLY <1>6, BuiltFields
  <1> QED BY <1>2, <1>6, <1>7, <1>8, <1>9

LEMMA ForgetGood ==
  ASSUME NEW f, NEW old, \A n \in Nodes : Good(f[n])
  PROVE  /\ \A n \in Nodes : Good(Forget(f, old)[n])
         /\ \A n \in Nodes : /\ Forget(f, old)[n].open = f[n].open
                             /\ f[n].buffered = <<>> => Forget(f, old)[n].buffered = <<>>
         /\ Forget(f, old) \in [Nodes -> Connection]
  <1>1. ASSUME NEW n \in Nodes
        PROVE  /\ Good(Forget(f, old)[n])
               /\ Forget(f, old)[n].open = f[n].open
               /\ f[n].buffered = <<>> => Forget(f, old)[n].buffered = <<>>
    <2>1. Forget(f, old)[n] = [f[n] EXCEPT !.buffered = Retag(f[n].buffered, old),
                                           !.pending = Retag(f[n].pending, old)]
      BY <1>1 DEF Forget, Good, Connection
    <2>2. PICK e : e = Forget(f, old)[n]
      OBVIOUS
    <2>3. PICK c : c = f[n]
      OBVIOUS
    <2>4. Good(c) /\ e = [c EXCEPT !.buffered = Retag(c.buffered, old),
                                  !.pending = Retag(c.pending, old)]
      BY <2>1, <2>2, <2>3, <1>1
    <2>5. Good(e) /\ e.open = c.open /\ (c.buffered = <<>> => e.buffered = <<>>)
      BY <2>4, RetagGood, ZenonT(30)
    <2> QED BY <2>2, <2>3, <2>5
  <1>2. Forget(f, old) = [n \in Nodes |-> Forget(f, old)[n]]
    BY DEF Forget
  <1>3. \A n \in Nodes : Forget(f, old)[n] \in Connection
    BY <1>1, Zenon DEF Good
  <1> QED BY <1>1, <1>2, <1>3

\* Each request is counted just when it is answered.
LEMMA WrittenGood ==
  ASSUME TypeOK, Consistent, call.pc = "send", NEW c, Good(c), c.open, Owed(c) <= MaxPending
  PROVE  Good(Written(c)) /\ Written(c).open
  <1>1. PICK r : r = Request /\ r \in Queued
    <2>1. PICK t, i : /\ t = IF call.cmd.reads = "later" THEN "mget" ELSE "own"
                      /\ i = IF call.cmd.items THEN MaxItems ELSE 0
      OBVIOUS
    <2>2. t \in Tag /\ i \in 0..MaxItems
      BY ONLY <2>1, ClientConstants DEF ClientConstants, Tag
    <2>3. Request = [tag |-> t, items |-> i, ok |-> FALSE]
      BY <2>1 DEF Request
    <2>4. Request \in Queued
      BY ONLY <2>2, <2>3 DEF Queued
    <2> QED BY <2>4
  <1>2. PICK o \in BOOLEAN, k \in 0..Wrap-1, b \in Seq(Queued), p \in Seq(Queued), d \in BOOLEAN :
          c = Built(o, k, b, p, d) /\ k = Len(p) + Len(b) /\ (~o => Len(p) + Len(b) = 0)
    BY GoodFields
  <1>3. c.open = o /\ c.cursor_active = k /\ c.buffered = b /\ c.pending = p
    BY ONLY <1>2, BuiltFields
  <1>4. PICK x : x = Append(b, r)
    BY Zenon
  <1>5. x \in Seq(Queued) /\ Len(x) = Len(b) + 1
    BY <1>1, <1>2, <1>4
  <1>6. k + 1 < Wrap /\ k \in Nat
    <2>1. k <= MaxPending
      BY <1>2, <1>3, Zenon DEF Owed
    <2> QED BY ONLY <2>1, k \in 0..Wrap-1, ClientConstants DEF ClientConstants
  <1>7. PICK m : m = k + 1
    OBVIOUS
  <1>8. Increment(c) = [c EXCEPT !.cursor_active = m]
    BY <1>3, <1>6, <1>7, ClientConstants DEF Increment, ClientConstants
  <1>9. Increment(c) = Built(o, m, b, p, d)
    BY ONLY <1>2, <1>8 DEF Built
  <1>10. Answered <=> ~(no_reply /\ call.cmd.reads # "later")
    BY DEF Consistent, Answered, TypeOK, Command
  <1>11. CASE Answered
    <2>1. Written(c) = [Increment(c) EXCEPT !.buffered = Append(Increment(c).buffered, r)]
      BY <1>1, <1>10, <1>11, Zenon DEF Written
    <2>2. Increment(c).buffered = b
      BY <1>9, BuiltFields
    <2>3. Written(c) = [Increment(c) EXCEPT !.buffered = x]
      BY <1>4, <2>1, <2>2
    <2>4. Written(c) = Built(o, m, x, p, d)
      BY ONLY <1>9, <2>3 DEF Built
    <2>5. m \in 0..Wrap-1 /\ m = Len(p) + Len(x)
      BY <1>2, <1>5, <1>6, <1>7, ClientConstants DEF ClientConstants
    <2>6. Good(Built(o, m, x, p, d))
      BY <2>5, <1>2, <1>3, <1>5, BuiltGood, ZenonT(30)
    <2>7. Written(c).open = o
      BY ONLY <2>4, BuiltFields
    <2> QED BY <2>4, <2>6, <2>7, <1>3
  <1>12. CASE ~Answered
    BY <1>10, <1>12 DEF Written
  <1> QED BY <1>11, <1>12

LEMMA LineFields ==
  ASSUME NEW c, NEW rc, NEW tag
  PROVE  Line(c, rc, tag).conn = c /\ Line(c, rc, tag).rc = rc /\ Line(c, rc, tag).tag = tag
  BY DEF Line

LEMMA SwitchoverFields ==
  ASSUME NEW c, NEW tag, NEW peer
  PROVE  LET l == [Line(c, "SWITCHOVER", tag) EXCEPT !.peer = peer]
         IN l.conn = c /\ l.rc = "SWITCHOVER" /\ l.tag = tag
  BY DEF Line

\* One line from a node: an item leaves the count, the last line of a reply
\* takes one off, and an error closes the connection.
LEMMA LinesGood ==
  ASSUME NEW c, Good(c), c.open, NEW l \in Lines(c)
  PROVE  /\ Good(l.conn)
         /\ l.rc \notin {"LOST", "SERVER_ERROR"} => l.conn.open
         /\ l.conn.buffered \in {<<>>, c.buffered}
         /\ l.rc = "OK" => l.conn.cursor_active = c.cursor_active - 1
         /\ l.rc = "ITEM" => l.conn.cursor_active = c.cursor_active
         /\ l.rc \in ReturnCode /\ l.tag \in Tag \cup {"none"}
  <1>1. PICK o \in BOOLEAN, k \in 0..Wrap-1, b \in Seq(Queued), p \in Seq(Queued), d \in BOOLEAN :
          c = Built(o, k, b, p, d) /\ k = Len(p) + Len(b) /\ (~o => Len(p) + Len(b) = 0)
    BY GoodFields
  <1>2. c.open = o /\ c.cursor_active = k /\ c.buffered = b /\ c.pending = p
    BY ONLY <1>1, BuiltFields
  <1>3. PICK h, rest, item : /\ h = Head(p)
                             /\ rest = [Decrement(c) EXCEPT !.pending = Tail(Decrement(c).pending)]
                             /\ item = [c EXCEPT !.pending[1].items = c.pending[1].items - 1]
    BY Zenon
  <1>4. \/ l = Line(Closed(TRUE), "LOST", "none")
        \/ p # <<>> /\ l = Line(Closed(FALSE), "SERVER_ERROR", h.tag)
        \/ p # <<>> /\ \E rc \in {"OK", "FAIL", "E2BIG"} : l = Line(rest, rc, h.tag)
        \/ p # <<>> /\ \E peer \in Nodes \cup {NoNode} :
                          l = [Line(rest, "SWITCHOVER", h.tag) EXCEPT !.peer = peer]
        \/ p # <<>> /\ h.items > 0 /\ l = Line(item, "ITEM", h.tag)
    BY <1>2, <1>3, Zenon DEF Lines
  <1>5. CASE l = Line(Closed(TRUE), "LOST", "none")
    <2>1. l.conn = Closed(TRUE) /\ l.rc = "LOST" /\ l.tag = "none"
      BY ONLY <1>5 DEF Line
    <2>2. Good(Closed(TRUE)) /\ Closed(TRUE).buffered = <<>>
      BY ClosedGood, ZenonT(30)
    <2> QED BY <2>1, <2>2, Zenon DEF ReturnCode
  <1>6. ASSUME p # <<>> PROVE h \in Queued /\ h.tag \in Tag /\ h.items \in 0..MaxItems
    <2>1. h \in Queued
      BY <1>3, <1>6
    <2>2. h.tag \in Tag /\ h.items \in 0..MaxItems
      BY ONLY <2>1 DEF Queued
    <2> QED BY <2>1, <2>2
  <1>7. CASE p # <<>> /\ l = Line(Closed(FALSE), "SERVER_ERROR", h.tag)
    <2>1. l.conn = Closed(FALSE) /\ l.rc = "SERVER_ERROR" /\ l.tag = h.tag
      BY ONLY <1>7 DEF Line
    <2>2. Good(Closed(FALSE)) /\ Closed(FALSE).buffered = <<>>
      BY ClosedGood, ZenonT(30)
    <2> QED BY <2>1, <2>2, <1>6, <1>7, ZenonT(30) DEF ReturnCode
  <1>8. CASE \/ p # <<>> /\ \E rc \in {"OK", "FAIL", "E2BIG"} : l = Line(rest, rc, h.tag)
             \/ p # <<>> /\ \E peer \in Nodes \cup {NoNode} :
                               l = [Line(rest, "SWITCHOVER", h.tag) EXCEPT !.peer = peer]
    <2>1. PICK q, m : q = Tail(p) /\ m = k - 1
      BY ZenonT(30)
    <2>2. q \in Seq(Queued) /\ Len(q) = Len(p) - 1 /\ Len(p) > 0
      BY <1>8, <2>1
    <2>3. k > 0 /\ m \in 0..Wrap-1 /\ m = Len(q) + Len(b) /\ Len(p) + Len(b) # 0
      BY ONLY <1>1, <2>1, <2>2, k \in 0..Wrap-1, p \in Seq(Queued), b \in Seq(Queued),
              ClientConstants DEF ClientConstants
    <2>4. Decrement(c) = [c EXCEPT !.cursor_active = m]
      BY <1>2, <2>1, <2>3 DEF Decrement
    <2>5. Decrement(c) = Built(o, m, b, p, d)
      BY ONLY <1>1, <2>4 DEF Built
    <2>6. Decrement(c).pending = p
      BY ONLY <2>5, BuiltFields
    <2>7. rest = [Decrement(c) EXCEPT !.pending = q]
      BY <1>3, <2>1, <2>6
    <2>8. rest = Built(o, m, b, q, d)
      BY ONLY <2>5, <2>7 DEF Built
    <2>9. o = TRUE
      BY <1>1, <2>3
    <2>10. Good(Built(o, m, b, q, d))
      BY <2>2, <2>3, <2>9, BuiltGood, ZenonT(30)
    <2>11. rest.open = o /\ rest.buffered = b /\ rest.cursor_active = m
      BY ONLY <2>8, BuiltFields
    <2>12. \E rc \in {"OK", "FAIL", "E2BIG", "SWITCHOVER"} :
             l.conn = rest /\ l.rc = rc /\ l.tag = h.tag
      <3>1. CASE \E rc \in {"OK", "FAIL", "E2BIG"} : l = Line(rest, rc, h.tag)
        BY <3>1, LineFields
      <3>2. CASE \E peer \in Nodes \cup {NoNode} :
                   l = [Line(rest, "SWITCHOVER", h.tag) EXCEPT !.peer = peer]
        BY <3>2, SwitchoverFields
      <3> QED BY <1>8, <3>1, <3>2
    <2>13. PICK rc \in {"OK", "FAIL", "E2BIG", "SWITCHOVER"} :
             l.conn = rest /\ l.rc = rc /\ l.tag = h.tag
      BY <2>12
    <2>14. rc \notin {"ITEM", "LOST", "SERVER_ERROR"} /\ rc \in ReturnCode
      BY DEF ReturnCode
    <2>15. Good(l.conn) /\ l.conn.open /\ l.conn.buffered = c.buffered
           /\ l.conn.cursor_active = c.cursor_active - 1
      BY ONLY <1>2, <2>1, <2>8, <2>9, <2>10, <2>11, <2>13, Zenon
    <2> QED BY <1>6, <1>8, <2>13, <2>14, <2>15
  <1>9. CASE p # <<>> /\ h.items > 0 /\ l = Line(item, "ITEM", h.tag)
    <2>1. PICK x, q : x = [h EXCEPT !.items = h.items - 1] /\ q = [p EXCEPT ![1] = x]
      BY Zenon
    <2>2. PICK i : i = h.items - 1
      OBVIOUS
    <2>3. i \in 0..MaxItems
      BY <1>6, <1>9, <2>2, ClientConstants DEF ClientConstants
    <2>4. x \in Queued
      <3>1. h \in Queued /\ x = [h EXCEPT !.items = i]
        BY <1>6, <1>9, <2>1, <2>2
      <3> QED BY ONLY <3>1, <2>3, Zenon DEF Queued
    <2>5. q \in Seq(Queued) /\ Len(q) = Len(p) /\ Len(p) > 0 /\ h = p[1]
      BY <1>3, <1>9, <2>1, <2>4
    <2>6. item = [c EXCEPT !.pending = q]
      BY <1>2, <1>3, <2>1, <2>5
    <2>7. item = Built(o, k, b, q, d)
      BY ONLY <1>1, <2>6 DEF Built
    <2>8. o = TRUE
      BY <1>1, <2>5
    <2>9. Good(Built(o, k, b, q, d))
      BY <1>1, <2>5, <2>8, BuiltGood, ZenonT(30)
    <2>10. item.open = o /\ item.buffered = b /\ item.cursor_active = k
      BY ONLY <2>7, BuiltFields
    <2>11. l.conn = item /\ l.rc = "ITEM" /\ l.tag = h.tag
      BY <1>9, LineFields
    <2>12. Good(l.conn) /\ l.conn.open /\ l.conn.buffered = c.buffered
           /\ l.conn.cursor_active = c.cursor_active
      BY ONLY <1>2, <2>7, <2>8, <2>9, <2>10, <2>11, Zenon
    <2> QED BY <1>6, <1>9, <2>11, <2>12 DEF ReturnCode
  <1> QED BY <1>4, <1>5, <1>7, <1>8, <1>9, Zenon

-----------------------------------------------------------------------------
(* All connections *)

Sound(f) == f \in [Nodes -> Connection] /\ \A n \in Nodes : Good(f[n])

LEMMA SoundBalanced ==
  ASSUME TypeOK
  PROVE  Balanced <=> Sound(conn)
  BY ZenonT(30) DEF TypeOK, Balanced, Sound, Good, Owed, Waiting

LEMMA PutSound ==
  ASSUME NEW f, Sound(f), NEW n \in Nodes, NEW c, Good(c)
  PROVE  /\ Sound([f EXCEPT ![n] = c])
         /\ [f EXCEPT ![n] = c][n] = c
         /\ \A m \in Nodes \ {n} : [f EXCEPT ![n] = c][m] = f[m]
  <1>1. c \in Connection
    BY DEF Good
  <1>2. f \in [Nodes -> Connection]
    BY DEF Sound
  <1>3. \A m \in Nodes \ {n} : [f EXCEPT ![n] = c][m] = f[m]
    BY <1>2
  <1>4. [f EXCEPT ![n] = c][n] = c
    BY <1>2
  <1>5. [f EXCEPT ![n] = c] \in [Nodes -> Connection]
    BY <1>1, <1>2
  <1>6. \A m \in Nodes : Good([f EXCEPT ![n] = c][m])
    BY <1>3, <1>4 DEF Sound
  <1> QED BY <1>3, <1>4, <1>5, <1>6 DEF Sound

LEMMA ForgetSound ==
  ASSUME NEW f, Sound(f), NEW old
  PROVE  Sound(Forget(f, old))
  BY ForgetGood DEF Sound

-----------------------------------------------------------------------------
(* The steps *)

\* What a command does is what the call relies on.
LEMMA CommandFacts ==
  ASSUME NEW cmd \in Commands
  PROVE  /\ cmd \in Command /\ cmd.reads \in {"reply", "always", "fetch"}
         /\ cmd.reads = "fetch" => cmd.drains /\ ~cmd.follows
  <1> DEFINE Fit(c) == c \in Command /\ c.reads \in {"reply", "always", "fetch"}
                       /\ (c.reads = "fetch" => c.drains /\ ~c.follows)
  <1>1. Fit(memcached_send_ascii("SET_OP")) /\ Fit(memcached_send_ascii("ADD_OP"))
    BY DEF memcached_send_ascii, Command
  <1>2. ascii_delete \in Command /\ ascii_delete.reads = "reply"
    BY DEF ascii_delete, Command
  <1>3. ascii_touch \in Command /\ ascii_touch.reads = "reply"
    BY <1>2 DEF ascii_touch
  <1>4. text_incr_decr \in Command /\ text_incr_decr.reads = "reply"
    BY ONLY <1>2, Zenon DEF text_incr_decr, Command
  <1>5. memcached_flush_textual \in Command /\ memcached_flush_textual.reads = "reply"
    BY ONLY <1>4, ZenonT(30) DEF memcached_flush_textual, Command
  <1>6. Fit(ascii_get_by_key)
    BY DEF ascii_get_by_key, Command
  <1>7. ascii_gat_by_key \in Command /\ ascii_gat_by_key.reads = "always"
    BY Zenon DEF ascii_gat_by_key, ascii_get_by_key, Command
  <1>8. memcached_get_attrs \in Command /\ memcached_get_attrs.reads = "always"
    BY ZenonT(30) DEF memcached_get_attrs, ascii_get_by_key, Command
  <1>9. ascii_exist \in Command /\ ascii_exist.reads = "always"
    BY ONLY <1>8, ZenonT(30) DEF ascii_exist, Command
  <1>10. ascii_stats_fetch \in Command /\ ascii_stats_fetch.reads = "always"
    BY <1>9 DEF ascii_stats_fetch
  <1>12. do_coll_create \in Command /\ do_coll_create.reads = "reply"
    BY ONLY <1>2, ZenonT(30) DEF do_coll_create, Command
  <1>13. ASSUME NEW b \in BOOLEAN
         PROVE  do_coll_insert(b) \in Command /\ do_coll_insert(b).reads = "reply"
    BY ONLY <1>12, b \in BOOLEAN DEF do_coll_insert, Command
  <1>14. /\ do_coll_delete = do_coll_create /\ do_coll_update = do_coll_create
         /\ do_coll_arithmetic = do_coll_create
    BY DEF do_coll_delete, do_coll_update, do_coll_arithmetic
  <1>15. do_coll_exist \in Command /\ do_coll_exist.reads = "reply"
    BY ONLY <1>12, ZenonT(30) DEF do_coll_exist, Command
  <1>16. memcached_set_attrs \in Command /\ memcached_set_attrs.reads = "reply"
    BY ONLY <1>12, Zenon DEF memcached_set_attrs, Command
  <1>17. do_coll_get \in Command /\ do_coll_get.reads = "reply"
    BY ONLY <1>12, Zenon DEF do_coll_get, Command
  <1>18. do_bop_find_position \in Command /\ do_bop_find_position.reads = "reply"
    BY ONLY <1>15, ZenonT(30) DEF do_bop_find_position, Command
  <1>19. do_bop_get_by_position \in Command /\ do_bop_get_by_position.reads = "reply"
    BY ONLY <1>18, ZenonT(30) DEF do_bop_get_by_position, Command
  <1>20. /\ do_bop_find_position_with_get = do_bop_get_by_position
         /\ do_coll_count = do_bop_find_position
    BY DEF do_bop_find_position_with_get, do_coll_count
  <1>21. \A c \in Command : c.reads \in {"reply", "always"} => Fit(c)
    OBVIOUS
  <1>22. /\ Fit(ascii_delete) /\ Fit(ascii_touch) /\ Fit(text_incr_decr)
         /\ Fit(memcached_flush_textual) /\ Fit(ascii_gat_by_key) /\ Fit(memcached_get_attrs)
         /\ Fit(ascii_exist) /\ Fit(ascii_stats_fetch)
    <2> HIDE DEF Fit
    <2> QED BY <1>2, <1>3, <1>4, <1>5, <1>7, <1>8, <1>9, <1>10, <1>21
  <1>23. /\ Fit(do_coll_create) /\ Fit(do_coll_insert(TRUE)) /\ Fit(do_coll_insert(FALSE))
         /\ Fit(do_coll_exist) /\ Fit(memcached_set_attrs) /\ Fit(do_coll_get)
         /\ Fit(do_bop_find_position) /\ Fit(do_bop_get_by_position)
    <2> HIDE DEF Fit
    <2>1. do_coll_insert(TRUE) \in Command /\ do_coll_insert(TRUE).reads = "reply"
      BY <1>13, ZenonT(30)
    <2>2. do_coll_insert(FALSE) \in Command /\ do_coll_insert(FALSE).reads = "reply"
      BY <1>13, Zenon
    <2> QED BY <2>1, <2>2, <1>12, <1>15, <1>16, <1>17, <1>18, <1>19, <1>21, ZenonT(30)
  <1>24. Fit(cmd)
    <2> HIDE DEF Fit
    <2> QED BY <1>1, <1>6, <1>14, <1>20, <1>22, <1>23, ZenonT(30) DEF Commands
  <1> QED BY <1>24

LEMMA MoreCommandFacts ==
  /\ NoCommand \in Command /\ NoCommand.reads = "reply"
  /\ memcached_mget_by_key \in Command /\ memcached_mget_by_key.reads = "later"
  /\ ~memcached_mget_by_key.noreply
  /\ memcached_fetch_result \in Command /\ memcached_fetch_result.reads = "one"
  /\ memcached_fetch_result.drains /\ ~memcached_fetch_result.follows
  BY ZenonT(30) DEF NoCommand, memcached_mget_by_key, memcached_fetch_result, ascii_get_by_key,
         memcached_send_ascii, Command

Rest == /\ master \in [Groups -> Nodes] /\ \A g \in Groups : master[g] \in g
        /\ first_slave \in [Groups -> Nodes \cup {NoNode}]
        /\ \A g \in Groups : first_slave[g] \in (g \cup {NoNode}) \ {master[g]}
        /\ no_reply \in BOOLEAN /\ buffer_requests \in BOOLEAN /\ no_block \in BOOLEAN
        /\ leaders \subseteq Nodes /\ moves \in Nat

LEMMA InvParts ==
  IInv <=> Sound(conn) /\ call \in Call /\ Rest /\ ReadsOpen /\ FetchesSent /\ Consistent
  <1>1. TypeOK /\ Balanced <=> Sound(conn) /\ call \in Call /\ Rest
    <2>1. TypeOK <=> conn \in [Nodes -> Connection] /\ call \in Call /\ Rest
      BY DEF TypeOK, Rest
    <2>2. Sound(conn) => conn \in [Nodes -> Connection]
      BY DEF Sound
    <2> QED BY <2>1, <2>2, SoundBalanced
  <1> QED BY <1>1 DEF IInv

LEMMA InvPartsNext ==
  IInv' <=> (Sound(conn) /\ call \in Call /\ Rest /\ ReadsOpen /\ FetchesSent /\ Consistent)'
  BY InvParts, PTL

\* Fields of a call that is changed in place.
LEMMA CallFields ==
  ASSUME call \in Call
  PROVE  /\ call.pc \in {"idle", "drain", "send", "read", "fetch"} /\ call.cmd \in Command
         /\ call.todo \in SUBSET Groups /\ call.rc \in ReturnCode
         /\ call.tag \in Tag \cup {"none"} /\ call.runs \in Nat /\ call.astray \in BOOLEAN
         /\ call.clear \in BOOLEAN
  BY DEF Call

LEMMA MasterNodes ==
  ASSUME Rest, NEW g \in Groups
  PROVE  master[g] \in Nodes
  BY DEF Rest

\* A call returns.
LEMMA ReturnInv ==
  ASSUME IInv, NEW f, Sound(f), NEW rc \in ReturnCode, NEW tag \in Tag \cup {"none"},
         Return(f, rc, tag), Rest'
  PROVE  IInv'
  <1>1. Sound(conn')
    BY ForgetSound DEF Return
  <1>2. PICK r, c : r = call.runs /\ c = call.clear
    OBVIOUS
  <1>3. r \in Nat /\ c \in BOOLEAN
    BY <1>2, InvParts, CallFields, ZenonT(30)
  <1>4. call' = [pc |-> "idle", cmd |-> NoCommand, todo |-> {}, rc |-> rc, tag |-> tag,
                 runs |-> r, astray |-> FALSE, clear |-> c]
    BY <1>2, ZenonT(30) DEF Return
  <1>5. call' \in Call
    BY <1>3, <1>4, MoreCommandFacts, ZenonT(30) DEF Call
  <1>6. call'.pc = "idle" /\ call'.cmd.reads = "reply"
    BY <1>4, MoreCommandFacts, ZenonT(30)
  <1>7. ReadsOpen' /\ FetchesSent' /\ Consistent'
    BY <1>6 DEF ReadsOpen, FetchesSent, Consistent, Fetches
  <1> QED BY <1>1, <1>5, <1>7, InvPartsNext

\* A connection that changes while the call stays where it is.
LEMMA ChangeInv ==
  ASSUME IInv, NEW n \in Nodes, NEW c, Good(c), conn' = [conn EXCEPT ![n] = c],
         UNCHANGED <<master, first_slave, flags, call, servers>>,
         call.pc # "read" \/ c.open, c.buffered \in {<<>>, conn[n].buffered}
  PROVE  IInv'
  <1>1. Sound(conn) /\ call \in Call /\ Rest /\ ReadsOpen /\ FetchesSent /\ Consistent
    BY InvParts
  <1>2. Sound(conn')
    BY <1>1, PutSound
  <1>3. conn'[n] = c /\ \A m \in Nodes \ {n} : conn'[m] = conn[m]
    BY <1>1, PutSound
  <1>4. \A m \in Nodes : ~Unsent(m) => ~Unsent(m)'
    BY <1>3 DEF Unsent, flags
  <1>5. \A g \in Groups : master[g] \in Nodes
    BY <1>1, MasterNodes
  <1>6. ReadsOpen'
    <2>1. ASSUME call.pc = "read", NEW g \in call.todo
          PROVE  conn'[master[g]].open /\ ~Unsent(master[g])'
      <3>1. g \in Groups
        BY <1>1, <2>1, CallFields
      <3>2. conn[master[g]].open /\ ~Unsent(master[g]) /\ c.open
        BY <1>1, <2>1 DEF ReadsOpen
      <3>3. ~Unsent(master[g])'
        BY <3>1, <3>2, <1>4, <1>5 DEF Unsent
      <3> QED BY <3>1, <3>2, <3>3, <1>3, <1>5
    <2> QED BY <2>1 DEF ReadsOpen, Unsent
  <1>7. FetchesSent'
    BY <1>1, <1>4, <1>5 DEF FetchesSent, Fetches, Unsent
  <1>8. Consistent' /\ Rest' /\ call' \in Call
    BY <1>1 DEF Consistent, Fetches, Rest, flags, servers
  <1> QED BY <1>2, <1>6, <1>7, <1>8, InvPartsNext

\* A call that goes on.
LEMMA CallPut ==
  ASSUME call \in Call, NEW x \in {"idle", "drain", "send", "read", "fetch"}
  PROVE  /\ [call EXCEPT !.pc = x] \in Call /\ [call EXCEPT !.pc = x].pc = x
         /\ [call EXCEPT !.pc = x].cmd = call.cmd /\ [call EXCEPT !.pc = x].todo = call.todo
  BY DEF Call

\* Nothing is left to send on a connection that owes nothing.
LEMMA NothingUnsent ==
  ASSUME NEW c, Good(c), c.cursor_active = 0
  PROVE  c.buffered = <<>>
  <1>1. PICK o \in BOOLEAN, k \in 0..Wrap-1, b \in Seq(Queued), p \in Seq(Queued), d \in BOOLEAN :
          c = Built(o, k, b, p, d) /\ k = Len(p) + Len(b) /\ (~o => Len(p) + Len(b) = 0)
    BY GoodFields
  <1>2. c.cursor_active = k /\ c.buffered = b
    BY ONLY <1>1, BuiltFields
  <1>3. Len(b) = 0
    BY <1>1, <1>2
  <1> QED BY <1>2, <1>3

\* A connection that owes an answer is open.
LEMMA OwingOpen ==
  ASSUME NEW c, Good(c), c.cursor_active # 0 \/ c.pending # <<>>
  PROVE  c.open
  <1>1. PICK o \in BOOLEAN, k \in 0..Wrap-1, b \in Seq(Queued), p \in Seq(Queued), d \in BOOLEAN :
          c = Built(o, k, b, p, d) /\ k = Len(p) + Len(b) /\ (~o => Len(p) + Len(b) = 0)
    BY GoodFields
  <1>2. c.cursor_active = k /\ c.pending = p /\ c.open = o
    BY ONLY <1>1, BuiltFields
  <1>3. ASSUME k = 0 PROVE p = <<>>
    <2>1. Len(p) = 0
      BY <1>1, <1>3
    <2> QED BY <2>1
  <1> QED BY <1>1, <1>2, <1>3

LEMMA DrainInv ==
  ASSUME IInv, Drain
  PROVE  IInv'
  <1>1. Sound(conn) /\ call \in Call /\ Rest /\ ReadsOpen /\ FetchesSent /\ Consistent
    BY InvParts
  <1>2. call.pc = "drain" /\ UNCHANGED <<master, first_slave, flags, servers>>
    BY DEF Drain
  <1>3. \A n \in Nodes : Good(conn[n])
    BY <1>1 DEF Sound
  <1>4. \A g \in Groups : master[g] \in Nodes /\ master[g] \in Masters
    BY <1>1, MasterNodes DEF Masters
  <1>5. \A n \in Masters : n \in Nodes
    BY <1>4 DEF Masters
  <1>6. CASE /\ \A n \in Masters : conn[n].cursor_active = 0
             /\ Goto("send") /\ UNCHANGED conn
    <2>1. \A n \in Masters : conn[n].buffered = <<>>
      BY <1>3, <1>5, <1>6, NothingUnsent
    <2>2. \A g \in Groups : ~Unsent(master[g])'
      BY <1>2, <1>4, <1>6, <2>1 DEF Unsent
    <2>3. call' \in Call /\ call'.pc = "send" /\ call'.cmd = call.cmd /\ call'.todo = call.todo
      BY <1>1, <1>6, CallPut DEF Goto
    <2>4. ReadsOpen'
      BY <2>3 DEF ReadsOpen
    <2>5. FetchesSent'
      BY <2>2 DEF FetchesSent
    <2>6. Consistent' /\ Rest'
      BY <1>1, <1>2, <2>3 DEF Consistent, Fetches, Rest, flags, servers
    <2>7. Sound(conn')
      BY <1>1, <1>6
    <2> QED BY <2>3, <2>4, <2>5, <2>6, <2>7, InvPartsNext
  <1>7. ASSUME NEW n \in Masters,
               /\ conn[n].cursor_active # 0
               /\ IF Unsent(n) THEN SendBuffer(n)
                  ELSE \E l \in Lines(conn[n]) : conn' = [conn EXCEPT ![n] = l.conn]
               /\ UNCHANGED call
        PROVE  IInv'
    <2>1. n \in Nodes /\ Good(conn[n])
      BY <1>3, <1>5
    <2>2. conn[n].open
      BY <2>1, <1>7, OwingOpen
    <2>3. CASE Unsent(n)
      <3>1. PICK c \in {Flushed(n, conn[n]), Closed(TRUE)} : conn' = [conn EXCEPT ![n] = c]
        BY <1>7, <2>3 DEF SendBuffer
      <3>2. Good(Flushed(n, conn[n])) /\ Flushed(n, conn[n]).buffered = <<>>
        BY <2>1, FlushedGood
      <3>3. Good(Closed(TRUE)) /\ Closed(TRUE).buffered = <<>>
        BY ClosedGood
      <3>4. Good(c) /\ c.buffered = <<>>
        BY <3>2, <3>3
      <3> QED BY <1>2, <1>7, <2>1, <3>1, <3>4, ChangeInv
    <2>4. CASE ~Unsent(n)
      <3>1. PICK l \in Lines(conn[n]) : conn' = [conn EXCEPT ![n] = l.conn]
        BY <1>7, <2>4
      <3>2. Good(l.conn) /\ l.conn.buffered \in {<<>>, conn[n].buffered}
        BY <2>1, <2>2, LinesGood
      <3> QED BY <1>2, <1>7, <2>1, <3>1, <3>2, ChangeInv
    <2> QED BY <2>3, <2>4
  <1> QED BY <1>6, <1>7 DEF Drain

LEMMA RestKept ==
  ASSUME Rest, UNCHANGED <<master, first_slave, flags, servers>>
  PROVE  Rest'
  BY DEF Rest, flags, servers

\* Only an mget goes on when one of its groups cannot be asked.
LEMMA NotSentInv ==
  ASSUME IInv, call.pc = "send", NEW g \in call.todo, NEW f, Sound(f), NEW rc \in ReturnCode,
         NotSent(g, f, rc), UNCHANGED <<master, first_slave, flags, servers>>
  PROVE  IInv'
  <1>1. Sound(conn) /\ call \in Call /\ Rest /\ ReadsOpen /\ FetchesSent /\ Consistent
    BY InvParts
  <1>2. Rest'
    BY <1>1, RestKept
  <1>3. CASE call.todo = {g}
    BY <1>2, <1>3, ReturnInv DEF NotSent
  <1>4. CASE call.todo # {g}
    <2>1. conn' = f /\ call' = [call EXCEPT !.todo = call.todo \ {g}]
      BY <1>4 DEF NotSent
    <2>2. call.cmd.reads = "later"
      BY <1>1, <1>4 DEF Consistent
    <2>3. call' \in Call /\ call'.pc = "send" /\ call'.cmd = call.cmd
      BY <1>1, <2>1 DEF Call
    <2>4. ReadsOpen' /\ FetchesSent'
      BY <2>2, <2>3 DEF ReadsOpen, FetchesSent, Fetches
    <2>5. Consistent'
      BY <1>1, <2>2, <2>3 DEF Consistent, Fetches, flags
    <2> QED BY <1>2, <2>1, <2>3, <2>4, <2>5, InvPartsNext
  <1> QED BY <1>3, <1>4

LEMMA OpenedGood ==
  ASSUME NEW c, Good(c), NEW e, e = [c EXCEPT !.open = TRUE]
  PROVE  Good(e) /\ e.open /\ e.buffered = c.buffered
  <1>1. PICK o \in BOOLEAN, k \in 0..Wrap-1, b \in Seq(Queued), p \in Seq(Queued), d \in BOOLEAN :
          c = Built(o, k, b, p, d) /\ k = Len(p) + Len(b) /\ (~o => Len(p) + Len(b) = 0)
    BY GoodFields
  <1>2. PICK x : x = TRUE
    OBVIOUS
  <1>3. e = [c EXCEPT !.open = x] /\ x \in BOOLEAN
    BY <1>2
  <1>4. e = Built(x, k, b, p, d)
    BY ONLY <1>1, <1>3 DEF Built
  <1>5. Good(Built(x, k, b, p, d))
    BY <1>1, <1>2, <1>3, BuiltGood
  <1>6. e.open = x /\ e.buffered = b
    BY ONLY <1>4, BuiltFields
  <1>7. c.buffered = b
    BY ONLY <1>1, BuiltFields
  <1> QED BY <1>2, <1>4, <1>5, <1>6, <1>7

LEMMA ConnectInv ==
  ASSUME IInv, NEW g \in Groups, Connect(g)
  PROVE  IInv'
  <1>1. Sound(conn) /\ call \in Call /\ Rest
    BY InvParts
  <1>2. PICK n : n = master[g]
    OBVIOUS
  <1>3. /\ call.pc = "send" /\ g \in call.todo /\ UNCHANGED <<master, first_slave, flags, servers>>
        /\ \/ conn[n].disabled /\ NotSent(g, conn, "DISABLED")
           \/ ~conn[n].disabled /\ NotSent(g, [conn EXCEPT ![n] = Closed(TRUE)], "LOST")
           \/ ~conn[n].disabled /\ NotSent(g, [conn EXCEPT ![n] = Closed(FALSE)], "SERVER_ERROR")
           \/ /\ ~conn[n].disabled /\ conn[n].cursor_active = 0
              /\ conn' = [conn EXCEPT ![n].open = TRUE] /\ UNCHANGED call
    BY <1>2 DEF Connect
  <1>4. n \in Nodes /\ Good(conn[n])
    BY <1>1, <1>2, MasterNodes DEF Sound
  <1>5. CASE NotSent(g, conn, "DISABLED")
    <2>1. "DISABLED" \in ReturnCode
      BY DEF ReturnCode
    <2> QED BY <1>1, <1>3, <1>5, <2>1, NotSentInv
  <1>6. CASE NotSent(g, [conn EXCEPT ![n] = Closed(TRUE)], "LOST")
    <2>1. "LOST" \in ReturnCode
      BY DEF ReturnCode
    <2>2. Good(Closed(TRUE))
      BY ClosedGood
    <2>3. Sound([conn EXCEPT ![n] = Closed(TRUE)])
      BY <1>1, <1>4, <2>2, PutSound
    <2> QED BY <1>3, <1>6, <2>1, <2>3, NotSentInv
  <1>7. CASE NotSent(g, [conn EXCEPT ![n] = Closed(FALSE)], "SERVER_ERROR")
    <2>1. "SERVER_ERROR" \in ReturnCode
      BY DEF ReturnCode
    <2>2. Good(Closed(FALSE))
      BY ClosedGood
    <2>3. Sound([conn EXCEPT ![n] = Closed(FALSE)])
      BY <1>1, <1>4, <2>2, PutSound
    <2> QED BY <1>3, <1>7, <2>1, <2>3, NotSentInv
  <1>8. CASE conn' = [conn EXCEPT ![n].open = TRUE] /\ UNCHANGED call
    <2>1. PICK e : e = [conn[n] EXCEPT !.open = TRUE]
      OBVIOUS
    <2>2. Good(e) /\ e.open /\ e.buffered = conn[n].buffered
      BY <1>4, <2>1, OpenedGood
    <2>3. conn' = [conn EXCEPT ![n] = e]
      BY <1>8, <2>1
    <2>4. UNCHANGED <<master, first_slave, flags, call, servers>>
      BY <1>3, <1>8
    <2>5. call.pc # "read" \/ e.open
      BY <2>2
    <2>6. e.buffered \in {<<>>, conn[n].buffered}
      BY <2>2
    <2> QED BY ONLY IInv, <1>4, <2>2, <2>3, <2>4, <2>5, <2>6, ChangeInv
  <1> QED BY <1>3, <1>5, <1>6, <1>7, <1>8

LEMMA SendInv ==
  ASSUME IInv, NEW g \in Groups, Send(g)
  PROVE  IInv'
  <1>1. Sound(conn) /\ call \in Call /\ Rest /\ ReadsOpen /\ FetchesSent /\ Consistent
    BY InvParts
  <1>2. PICK n, w, sent : n = master[g] /\ w = Written(conn[n]) /\ sent = Flushed(n, w)
    OBVIOUS
  <1>3. /\ call.pc = "send" /\ g \in call.todo /\ conn[n].open /\ Waiting(n) <= MaxPending
        /\ UNCHANGED <<master, first_slave, flags, servers>>
    BY <1>2 DEF Send
  <1>4. \/ NotSent(g, [conn EXCEPT ![n] = Closed(TRUE)], "LOST")
        \/ \E c \in {w, sent} : Return([conn EXCEPT ![n] = c], "BUFFERED", "none")
        \/ NotSent(g, [conn EXCEPT ![n] = sent], "OK")
        \/ Return([conn EXCEPT ![n] = sent], "OK", "none")
        \/ /\ call.cmd.reads # "later"
           /\ conn' = [conn EXCEPT ![n] = sent]
           /\ call' = [call EXCEPT !.pc = IF call.cmd.reads = "fetch" THEN "fetch" ELSE "read",
                                   !.runs = IF n \in leaders THEN call.runs + 1 ELSE call.runs,
                                   !.astray = FALSE]
    BY <1>2 DEF Send
  <1>5. n \in Nodes /\ Good(conn[n])
    BY <1>1, <1>2, MasterNodes DEF Sound
  <1>6. Good(w) /\ w.open
    <2>1. Owed(conn[n]) <= MaxPending
      BY <1>3 DEF Waiting, Owed
    <2>2. TypeOK
      BY DEF IInv
    <2> QED BY <1>1, <1>2, <1>3, <1>5, <2>1, <2>2, WrittenGood
  <1>7. Good(sent) /\ sent.open /\ sent.buffered = <<>>
    BY <1>2, <1>6, FlushedGood
  <1>8. Rest'
    BY <1>1, <1>3, RestKept
  <1>9. Good(Closed(TRUE))
    BY ClosedGood
  <1>10. /\ Sound([conn EXCEPT ![n] = w]) /\ Sound([conn EXCEPT ![n] = sent])
         /\ Sound([conn EXCEPT ![n] = Closed(TRUE)])
    <2>1. Sound([conn EXCEPT ![n] = w])
      BY <1>1, <1>5, <1>6, PutSound
    <2>2. Sound([conn EXCEPT ![n] = sent])
      BY <1>1, <1>5, <1>7, PutSound
    <2>3. Sound([conn EXCEPT ![n] = Closed(TRUE)])
      BY <1>1, <1>5, <1>9, PutSound
    <2> QED BY <2>1, <2>2, <2>3
  <1>11. "LOST" \in ReturnCode /\ "OK" \in ReturnCode /\ "BUFFERED" \in ReturnCode
         /\ "none" \in Tag \cup {"none"}
    BY DEF ReturnCode
  <1>12. CASE NotSent(g, [conn EXCEPT ![n] = Closed(TRUE)], "LOST")
    BY <1>3, <1>10, <1>11, <1>12, NotSentInv
  <1>13. CASE \E c \in {w, sent} : Return([conn EXCEPT ![n] = c], "BUFFERED", "none")
    <2>1. PICK c \in {w, sent} : Return([conn EXCEPT ![n] = c], "BUFFERED", "none")
      BY <1>13
    <2>2. PICK f : f = [conn EXCEPT ![n] = c]
      OBVIOUS
    <2>3. Sound(f) /\ Return(f, "BUFFERED", "none")
      BY <1>10, <2>1, <2>2
    <2> QED BY <1>8, <1>11, <2>3, ReturnInv
  <1>14. CASE NotSent(g, [conn EXCEPT ![n] = sent], "OK")
    BY <1>3, <1>10, <1>11, <1>14, NotSentInv
  <1>15. CASE Return([conn EXCEPT ![n] = sent], "OK", "none")
    BY <1>8, <1>10, <1>11, <1>15, ReturnInv
  <1>16. CASE /\ call.cmd.reads # "later"
              /\ conn' = [conn EXCEPT ![n] = sent]
              /\ call' = [call EXCEPT !.pc = IF call.cmd.reads = "fetch" THEN "fetch" ELSE "read",
                                      !.runs = IF n \in leaders THEN call.runs + 1 ELSE call.runs,
                                   !.astray = FALSE]
    <2>1. PICK x, r : /\ x = IF call.cmd.reads = "fetch" THEN "fetch" ELSE "read"
                      /\ r = IF n \in leaders THEN call.runs + 1 ELSE call.runs
      OBVIOUS
    <2>2. call.runs \in Nat
      BY <1>1, CallFields
    <2>3. x \in {"fetch", "read"} /\ r \in Nat /\ (x = "fetch" <=> call.cmd.reads = "fetch")
      BY <2>1, <2>2
    <2>4. call' = [call EXCEPT !.pc = x, !.runs = r, !.astray = FALSE]
      BY <1>16, <2>1
    <2>5. call' \in Call /\ call'.pc = x /\ call'.cmd = call.cmd /\ call'.todo = call.todo
      BY ONLY <1>1, <2>3, <2>4 DEF Call
    <2>6. call.todo = {g}
      BY <1>1, <1>3, <1>16 DEF Consistent
    <2>7. conn'[n] = sent /\ \A m \in Nodes \ {n} : conn'[m] = conn[m]
      BY <1>1, <1>5, <1>7, <1>16, PutSound
    <2>8. ~Unsent(n)' /\ \A m \in Nodes : ~Unsent(m) => ~Unsent(m)'
      BY <1>3, <1>7, <2>7 DEF Unsent, flags
    <2>9. ReadsOpen'
      BY <1>2, <1>3, <1>7, <2>5, <2>6, <2>7, <2>8 DEF ReadsOpen, Unsent
    <2>10. \A h \in Groups : master[h] \in Nodes
      BY <1>1, MasterNodes
    <2>11. FetchesSent'
      <3>1. ASSUME Fetches, NEW h \in Groups PROVE ~Unsent(master[h])'
        <4>1. ~Unsent(master[h])
          BY <1>1, <1>3, <3>1 DEF FetchesSent
        <4> QED BY <1>3, <2>8, <2>10, <4>1 DEF Unsent
      <3> QED BY <1>3, <2>5, <3>1 DEF FetchesSent, Fetches, Unsent
    <2>12. Consistent'
      BY <1>1, <1>3, <1>16, <2>3, <2>5, <2>6 DEF Consistent, Fetches, flags
    <2>13. Sound(conn')
      BY <1>10, <1>16
    <2> QED BY <1>8, <2>5, <2>9, <2>11, <2>12, <2>13, InvPartsNext
  <1> QED BY <1>4, <1>12, <1>13, <1>14, <1>15, <1>16

\* The last line of the answer a fetch waits for leaves nothing to count.
LEMMA ZeroKept ==
  ASSUME NEW c, Good(c), c.cursor_active = 0
  PROVE  [c EXCEPT !.cursor_active = 0] = c
  <1>1. PICK o \in BOOLEAN, k \in 0..Wrap-1, b \in Seq(Queued), p \in Seq(Queued), d \in BOOLEAN :
          c = Built(o, k, b, p, d) /\ k = Len(p) + Len(b) /\ (~o => Len(p) + Len(b) = 0)
    BY GoodFields
  <1>2. k = 0
    <2>1. c.cursor_active = k
      BY ONLY <1>1, BuiltFields
    <2> QED BY <2>1
  <1>3. PICK e : e = [c EXCEPT !.cursor_active = k]
    OBVIOUS
  <1>4. e = Built(o, k, b, p, d)
    BY ONLY <1>1, <1>3 DEF Built
  <1> QED BY <1>1, <1>2, <1>3, <1>4

\* A switchover keeps the head and the first slave of the replicas apart, and both
\* in the group.
LEMMA SwapRest ==
  ASSUME Rest, NEW g \in Groups, NEW n, n = master[g], NEW name, NEW peer \in Peers(g, n, name),
         Swap(g, n, peer), UNCHANGED <<flags, servers>>
  PROVE  Rest'
  <1>1. n \in g /\ g \subseteq Nodes /\ NoNode \notin Nodes
    BY ClientConstants DEF Rest, ClientConstants
  <1>2. peer \in g /\ peer # n
    BY <1>1 DEF Peers, Rest
  <1>3. PICK s : s = IF first_slave[g] = peer THEN n ELSE first_slave[g]
    OBVIOUS
  <1>4. s \in g \cup {NoNode} /\ s # peer
    BY <1>1, <1>2, <1>3 DEF Rest
  <1>5. /\ master' = [master EXCEPT ![g] = peer]
        /\ first_slave' = [first_slave EXCEPT ![g] = s]
    BY <1>3 DEF Swap
  <1>6. master' \in [Groups -> Nodes] /\ first_slave' \in [Groups -> Nodes \cup {NoNode}]
    BY <1>1, <1>2, <1>4, <1>5 DEF Rest
  <1>7. ASSUME NEW h \in Groups
        PROVE  master'[h] \in h /\ first_slave'[h] \in (h \cup {NoNode}) \ {master'[h]}
    <2>1. CASE h = g
      BY <1>2, <1>4, <1>5, <2>1 DEF Rest
    <2>2. CASE h # g
      BY <1>5, <2>2 DEF Rest
    <2> QED BY <2>1, <2>2
  <1> QED BY <1>6, <1>7 DEF Rest, flags, servers

\* A call reads a line and goes on.
LEMMA GoOnInv ==
  ASSUME IInv, call.pc = "read", NEW g \in Groups, call.todo = {g}, NEW n, n = master[g],
         NEW l \in Lines(conn[n]), conn' = [conn EXCEPT ![n] = l.conn],
         UNCHANGED <<flags, servers>>, Rest',
         NEW x \in {"send", "read", "fetch"}, call' \in Call, call'.pc = x,
         call'.cmd = call.cmd, call'.todo = call.todo,
         x = "send" => call.cmd.follows, x # "send" => UNCHANGED <<master, first_slave>>,
         x = "read" => l.rc = "ITEM", x = "fetch" => Fetches
  PROVE  IInv'
  <1>1. Sound(conn) /\ call \in Call /\ Rest /\ ReadsOpen /\ FetchesSent /\ Consistent
    BY InvParts
  <1>2. n \in Nodes /\ Good(conn[n])
    BY <1>1, MasterNodes DEF Sound
  <1>3. conn[n].open /\ ~Unsent(n)
    BY <1>1 DEF ReadsOpen
  <1>4. Good(l.conn) /\ l.conn.buffered \in {<<>>, conn[n].buffered}
        /\ (l.rc = "ITEM" => l.conn.open)
    BY <1>2, <1>3, LinesGood
  <1>5. Sound(conn')
    BY <1>1, <1>2, <1>4, PutSound
  <1>6. conn'[n] = l.conn /\ \A m \in Nodes \ {n} : conn'[m] = conn[m]
    BY <1>1, <1>2, <1>4, PutSound
  <1>7. \A m \in Nodes : ~Unsent(m) => ~Unsent(m)'
    BY <1>4, <1>6 DEF Unsent, flags
  <1>8. ReadsOpen'
    BY <1>2, <1>3, <1>4, <1>6, <1>7 DEF ReadsOpen, Unsent
  <1>9. \A h \in Groups : master[h] \in Nodes
    BY <1>1, MasterNodes
  <1>10. FetchesSent'
    <2>1. ASSUME Fetches PROVE x # "send"
      BY <1>1, <2>1 DEF Consistent
    <2>2. ASSUME Fetches, NEW h \in Groups PROVE ~Unsent(master[h])'
      <3>1. ~Unsent(master[h])
        BY <1>1, <2>2 DEF FetchesSent
      <3>2. UNCHANGED <<master, first_slave>>
        BY <2>1, <2>2
      <3> QED BY <1>7, <1>9, <3>1, <3>2 DEF Unsent
    <2> QED BY <2>2 DEF FetchesSent, Fetches, Unsent
  <1>11. Consistent'
    BY <1>1 DEF Consistent, Fetches, flags
  <1> QED BY <1>5, <1>8, <1>10, <1>11, InvPartsNext

LEMMA AnswerInv ==
  ASSUME IInv, call.pc = "read", NEW g \in Groups, call.todo = {g}, NEW n, n = master[g],
         NEW l \in Lines(conn[n]), ~(conn[n].cursor_active > 1 /\ l.rc \in Passed),
         Answer(g, n, l), UNCHANGED <<flags, servers>>
  PROVE  IInv'
  <1>1. Sound(conn) /\ call \in Call /\ Rest /\ ReadsOpen /\ FetchesSent /\ Consistent
    BY InvParts
  <1>2. n \in Nodes /\ Good(conn[n])
    BY <1>1, MasterNodes DEF Sound
  <1>3. conn[n].open
    BY <1>1 DEF ReadsOpen
  <1>4. /\ Good(l.conn) /\ l.rc \in ReturnCode /\ l.tag \in Tag \cup {"none"}
        /\ l.rc = "OK" => l.conn.cursor_active = conn[n].cursor_active - 1
    BY <1>2, <1>3, LinesGood
  <1>5. PICK f : f = [conn EXCEPT ![n] = l.conn]
    OBVIOUS
  <1>6. Sound(f) /\ f[n] = l.conn
    <2>1. Sound([conn EXCEPT ![n] = l.conn]) /\ [conn EXCEPT ![n] = l.conn][n] = l.conn
      BY <1>1, <1>2, <1>4, PutSound
    <2> QED BY <1>5, <2>1
  <1>7. UNCHANGED <<master, first_slave>> => Rest'
    BY <1>1, RestKept
  <1>8. CASE /\ l.rc = "ITEM" /\ conn' = f /\ UNCHANGED <<master, first_slave>>
             /\ call' = [call EXCEPT !.pc = IF Fetches THEN "fetch" ELSE "read",
                                     !.rc = l.rc, !.tag = l.tag]
    <2>1. PICK x, rc, tag : x = (IF Fetches THEN "fetch" ELSE "read") /\ rc = l.rc /\ tag = l.tag
      OBVIOUS
    <2>2. x \in {"send", "read", "fetch"} /\ x # "send" /\ (x = "fetch" => Fetches)
      BY <2>1
    <2>3. call' = [call EXCEPT !.pc = x, !.rc = rc, !.tag = tag]
      BY <1>8, <2>1
    <2>4. rc \in ReturnCode /\ tag \in Tag \cup {"none"}
      BY <1>4, <2>1
    <2>5. call' \in Call /\ call'.pc = x /\ call'.cmd = call.cmd /\ call'.todo = call.todo
      BY ONLY <1>1, <2>2, <2>3, <2>4 DEF Call
    <2> QED BY <1>5, <1>7, <1>8, <2>2, <2>5, GoOnInv
  <1>9. CASE Fetches /\ conn' = f /\ Goto("fetch") /\ UNCHANGED <<master, first_slave>>
    <2>1. call' \in Call /\ call'.pc = "fetch" /\ call'.cmd = call.cmd /\ call'.todo = call.todo
      BY <1>1, <1>9, CallPut DEF Goto
    <2> QED BY <1>5, <1>7, <1>9, <2>1, GoOnInv
  <1>10. CASE Fetches /\ l.rc = "OK" /\ conn' = [f EXCEPT ![n].cursor_active = 0]
              /\ Goto("fetch") /\ UNCHANGED <<master, first_slave>>
    <2>1. l.conn.cursor_active = 0
      <3>1. l.rc \in Passed
        BY <1>10 DEF Passed
      <3>2. PICK i, j : i = conn[n].cursor_active /\ j = l.conn.cursor_active
        OBVIOUS
      <3>3. i \in Nat /\ j \in Nat
        <4>1. i \in 0..Wrap-1
          BY <1>2, <3>2 DEF Good, Connection
        <4>2. j \in 0..Wrap-1
          BY <1>4, <3>2 DEF Good, Connection
        <4> QED BY ONLY <4>1, <4>2, ClientConstants DEF ClientConstants
      <3>4. ~(i > 1) /\ j = i - 1
        BY <1>4, <1>10, <3>1, <3>2
      <3>5. j = 0
        BY ONLY <3>3, <3>4
      <3> QED BY <3>2, <3>5
    <2>2. PICK e : e = [l.conn EXCEPT !.cursor_active = 0]
      OBVIOUS
    <2>3. e = l.conn
      BY <1>4, <2>1, <2>2, ZeroKept
    <2>4. conn' = [f EXCEPT ![n] = e]
      BY <1>6, <1>10, <2>2
    <2>5. f \in [Nodes -> Connection]
      BY <1>6 DEF Sound
    <2>6. conn' = f
      BY ONLY <1>2, <1>6, <2>3, <2>4, <2>5
    <2> QED BY <1>9, <1>10, <2>6
  <1>11. CASE /\ Follows(l.rc) /\ conn' = f
              /\ call' = [call EXCEPT !.pc = "send", !.astray = l.peer \notin leaders]
              /\ \E peer \in Peers(g, n, l.peer) : Swap(g, n, peer)
    <2>1. PICK b \in BOOLEAN : call' = [call EXCEPT !.pc = "send", !.astray = b]
      BY <1>11, (l.peer \notin leaders) \in BOOLEAN, Zenon
    <2>2. call' \in Call /\ call'.pc = "send" /\ call'.cmd = call.cmd /\ call'.todo = call.todo
      BY ONLY <1>1, <2>1, b \in BOOLEAN DEF Call
    <2>3. call.cmd.follows
      BY <1>11 DEF Follows
    <2>4. PICK peer \in Peers(g, n, l.peer) : Swap(g, n, peer)
      BY <1>11
    <2>5. Rest'
      BY <1>1, <2>4, SwapRest
    <2> QED BY <1>5, <1>11, <2>2, <2>3, <2>5, GoOnInv
  <1>12. CASE Return(f, l.rc, l.tag) /\ UNCHANGED <<master, first_slave>>
    BY <1>4, <1>6, <1>7, <1>12, ReturnInv
  <1> QED BY <1>5, <1>8, <1>9, <1>10, <1>11, <1>12 DEF Answer

LEMMA ReadInv ==
  ASSUME IInv, Read
  PROVE  IInv'
  <1>1. Sound(conn) /\ call \in Call /\ Rest /\ ReadsOpen /\ FetchesSent /\ Consistent
    BY InvParts
  <1>2. call.pc = "read" /\ UNCHANGED <<flags, servers>>
    BY DEF Read
  <1>3. PICK g \in call.todo :
          IF Unsent(master[g]) THEN SendBuffer(master[g]) /\ UNCHANGED <<call, master, first_slave>>
          ELSE \E l \in Lines(conn[master[g]]) :
                 IF conn[master[g]].cursor_active > 1 /\ l.rc \in Passed
                 THEN conn' = [conn EXCEPT ![master[g]] = l.conn] /\ UNCHANGED <<call, master, first_slave>>
                 ELSE Answer(g, master[g], l)
    BY DEF Read
  <1>4. PICK n : n = master[g]
    OBVIOUS
  <1>5. g \in Groups /\ call.todo = {g}
    BY <1>1, <1>2, CallFields DEF Consistent
  <1>6. n \in Nodes /\ Good(conn[n])
    BY <1>1, <1>4, <1>5, MasterNodes DEF Sound
  <1>7. conn[n].open /\ ~Unsent(n)
    BY <1>1, <1>2, <1>4 DEF ReadsOpen
  <1>8. PICK l \in Lines(conn[n]) :
          IF conn[n].cursor_active > 1 /\ l.rc \in Passed
          THEN conn' = [conn EXCEPT ![n] = l.conn] /\ UNCHANGED <<call, master, first_slave>>
          ELSE Answer(g, n, l)
    BY <1>3, <1>4, <1>7
  <1>9. CASE conn[n].cursor_active > 1 /\ l.rc \in Passed
    <2>1. conn' = [conn EXCEPT ![n] = l.conn] /\ UNCHANGED <<master, first_slave, flags, call, servers>>
      BY <1>2, <1>8, <1>9
    <2>2. l.rc \notin {"LOST", "SERVER_ERROR"}
      BY <1>9 DEF Passed
    <2>3. Good(l.conn) /\ l.conn.open /\ l.conn.buffered \in {<<>>, conn[n].buffered}
      BY <1>6, <1>7, <2>2, LinesGood
    <2> QED BY <1>6, <2>1, <2>3, ChangeInv
  <1>10. CASE ~(conn[n].cursor_active > 1 /\ l.rc \in Passed)
    <2>1. Answer(g, n, l)
      BY <1>8, <1>10
    <2> QED BY <1>2, <1>4, <1>5, <1>10, <2>1, AnswerInv
  <1> QED BY <1>9, <1>10

LEMMA FetchInv ==
  ASSUME IInv, Fetch
  PROVE  IInv'
  <1>1. Sound(conn) /\ call \in Call /\ Rest /\ ReadsOpen /\ FetchesSent /\ Consistent
    BY InvParts
  <1>2. call.pc = "fetch" /\ UNCHANGED <<master, first_slave, flags, servers>>
    BY DEF Fetch
  <1>3. Rest'
    BY <1>1, <1>2, RestKept
  <1>4. Fetches /\ call.cmd.reads # "later"
    BY <1>1, <1>2 DEF Consistent, Fetches
  <1>5. ASSUME NEW g \in Groups, Readable(master[g]), UNCHANGED conn,
               call' = [call EXCEPT !.pc = "read", !.todo = {g}]
        PROVE  IInv'
    <2>1. call' \in Call /\ call'.pc = "read" /\ call'.cmd = call.cmd /\ call'.todo = {g}
      BY <1>1, <1>5 DEF Call
    <2>2. master[g] \in Nodes /\ Good(conn[master[g]])
      BY <1>1, MasterNodes DEF Sound
    <2>3. conn[master[g]].cursor_active # 0 \/ conn[master[g]].pending # <<>>
      BY <1>5 DEF Readable
    <2>4. conn[master[g]].open
      BY <2>2, <2>3, OwingOpen
    <2>5. \A h \in Groups : ~Unsent(master[h])
      BY <1>1, <1>2, <1>4 DEF FetchesSent
    <2>6. ReadsOpen'
      BY <1>2, <1>5, <2>1, <2>4, <2>5 DEF ReadsOpen, Unsent, flags
    <2>7. FetchesSent'
      BY <1>2, <1>5, <2>5 DEF FetchesSent, Unsent, flags
    <2>8. Consistent'
      BY <1>1, <1>2, <1>4, <2>1 DEF Consistent, Fetches, flags
    <2> QED BY <1>1, <1>3, <1>5, <2>1, <2>6, <2>7, <2>8, InvPartsNext
  <1>6. CASE Return(conn, IF call.rc = "ITEM" THEN "OK" ELSE "FAIL", call.tag)
    <2>1. PICK rc, tag : rc = (IF call.rc = "ITEM" THEN "OK" ELSE "FAIL") /\ tag = call.tag
      OBVIOUS
    <2>2. rc \in ReturnCode
      BY <2>1 DEF ReturnCode
    <2>3. tag \in Tag \cup {"none"}
      BY <1>1, <2>1, CallFields
    <2>4. Return(conn, rc, tag)
      BY <1>6, <2>1
    <2> QED BY <1>1, <1>3, <2>2, <2>3, <2>4, ReturnInv
  <1> QED BY <1>5, <1>6 DEF Fetch

\* A call begins.
LEMMA StartInv ==
  ASSUME IInv, NEW cmd \in Command, NEW todo \in SUBSET Groups, NEW pc \in {"drain", "send", "fetch"},
         Start(cmd, todo, pc), Sound(conn'), UNCHANGED <<master, first_slave, flags, servers>>,
         cmd.reads \in {"fetch", "one"} => cmd.drains /\ ~cmd.follows,
         cmd.reads = "one" <=> pc = "fetch",
         pc = "send" => ~cmd.drains,
         pc = "fetch" => \A g \in Groups : ~Unsent(master[g])',
         cmd.reads \in {"one", "later"} \/ \E g \in Groups : todo = {g},
         cmd.reads = "later" => ~cmd.noreply,
         no_reply /\ cmd.reads \notin {"one", "later"} => cmd.noreply
  PROVE  IInv'
  <1>1. Rest'
    BY InvParts, RestKept
  <1>2. PICK c : c = \A g \in todo : \A n \in g : Waiting(n) = 0
    OBVIOUS
  <1>3. c \in BOOLEAN
    BY <1>2
  <1>4. call' = [pc |-> pc, cmd |-> cmd, todo |-> todo, rc |-> "none", tag |-> "none",
                 runs |-> 0, astray |-> FALSE, clear |-> c]
    BY <1>2 DEF Start
  <1>5. "none" \in ReturnCode
    BY DEF ReturnCode
  <1>6. call' \in Call /\ call'.pc = pc /\ call'.cmd = cmd /\ call'.todo = todo
    BY ONLY <1>3, <1>4, <1>5, cmd \in Command, todo \in SUBSET Groups,
            pc \in {"drain", "send", "fetch"} DEF Call
  <1>7. ReadsOpen'
    BY <1>6 DEF ReadsOpen
  <1>8. FetchesSent'
    BY <1>6 DEF FetchesSent, Fetches
  <1>9. Consistent'
    BY <1>6 DEF Consistent, Fetches, flags
  <1> QED BY <1>1, <1>6, <1>7, <1>8, <1>9, InvPartsNext

\* The program keeps to the rules under which the count is right.
Disciplined == Orderly /\ \A q \in Quietly : q.noreply

LEMMA BeginInv ==
  ASSUME IInv, Disciplined, NEW g \in Groups, NEW cmd \in Program, Begin(cmd, g)
  PROVE  IInv'
  <1>1. cmd \in Commands
    BY ClientConstants DEF ClientConstants
  <1>2. /\ cmd \in Command /\ cmd.reads \in {"reply", "always", "fetch"}
        /\ cmd.reads = "fetch" => cmd.drains /\ ~cmd.follows
    BY <1>1, CommandFacts
  <1>3. PICK pc : pc = IF cmd.drains THEN "drain" ELSE "send"
    OBVIOUS
  <1>4. pc \in {"drain", "send", "fetch"} /\ pc # "fetch" /\ (pc = "send" => ~cmd.drains)
    BY <1>3
  <1>5. Start(cmd, {g}, pc) /\ UNCHANGED <<conn, master, first_slave, flags, servers>>
        /\ (no_reply => cmd.noreply)
    BY <1>3 DEF Begin, Disciplined
  <1>6. Sound(conn')
    BY <1>5, InvParts
  <1>7. {g} \in SUBSET Groups
    OBVIOUS
  <1> QED BY <1>2, <1>4, <1>5, <1>6, <1>7, StartInv

LEMMA BeginMgetInv ==
  ASSUME IInv, NEW todo \in SUBSET Groups, BeginMget(todo)
  PROVE  IInv'
  <1>1. Sound(conn')
    BY InvParts, ForgetSound DEF BeginMget
  <1>2. Start(memcached_mget_by_key, todo, "drain") /\ UNCHANGED <<master, first_slave, flags, servers>>
    BY DEF BeginMget
  <1> QED BY <1>1, <1>2, MoreCommandFacts, StartInv

LEMMA BeginFetchInv ==
  ASSUME IInv, Disciplined, BeginFetch
  PROVE  IInv'
  <1>1. Sound(conn')
    BY InvParts DEF BeginFetch
  <1>2. Start(memcached_fetch_result, {}, "fetch") /\ UNCHANGED <<conn, master, first_slave, flags, servers>>
    BY DEF BeginFetch
  <1>3. \A g \in Groups : ~Unsent(master[g])'
    BY <1>2 DEF BeginFetch, Disciplined, Masters, Unsent
  <1> QED BY <1>1, <1>2, <1>3, MoreCommandFacts, StartInv

\* Between calls only the connections matter.
LEMMA IdleInv ==
  ASSUME IInv, Idle, UNCHANGED call, Sound(conn'), Rest'
  PROVE  IInv'
  <1>1. call \in Call /\ Consistent
    BY InvParts
  <1>2. call.pc = "idle"
    BY DEF Idle
  <1>3. ReadsOpen' /\ FetchesSent'
    BY <1>2 DEF ReadsOpen, FetchesSent
  <1>4. Consistent'
    BY <1>1, <1>2 DEF Consistent, Fetches
  <1> QED BY <1>1, <1>3, <1>4, InvPartsNext

LEMMA QuitSound ==
  ASSUME IInv, Quit
  PROVE  Sound(conn')
  <1>1. Sound(conn)
    BY InvParts
  <1>2. Good(Closed(FALSE))
    BY ClosedGood
  <1>3. Closed(FALSE) \in Connection
    BY <1>2 DEF Good
  <1> QED BY <1>1, <1>2, <1>3 DEF Quit, Sound

LEMMA FlushBuffersInv ==
  ASSUME IInv, memcached_flush_buffers
  PROVE  IInv'
  <1>1. Sound(conn) /\ Rest
    BY InvParts
  <1>2. PICK failed :
          conn' = [n \in Nodes |-> IF n \notin Masters \/ conn[n].buffered = <<>> THEN conn[n]
                                   ELSE IF n \in failed THEN Closed(TRUE) ELSE Flushed(n, conn[n])]
    BY DEF memcached_flush_buffers
  <1>3. Good(Closed(TRUE))
    BY ClosedGood
  <1>4. \A n \in Nodes : Good(conn[n]) /\ Good(Flushed(n, conn[n]))
    BY <1>1, FlushedGood DEF Sound
  <1>5. \A n \in Nodes : Good(conn'[n])
    BY <1>2, <1>3, <1>4
  <1>6. Sound(conn')
    <2>1. conn' = [n \in Nodes |-> conn'[n]]
      BY <1>2
    <2>2. \A n \in Nodes : conn'[n] \in Connection
      BY <1>5 DEF Good
    <2> QED BY <1>5, <2>1, <2>2 DEF Sound
  <1> QED BY <1>1, <1>6, RestKept, IdleInv DEF memcached_flush_buffers

LEMMA RetriedGood ==
  ASSUME NEW c, Good(c), NEW e, e = [c EXCEPT !.disabled = FALSE]
  PROVE  Good(e) /\ e.open = c.open /\ e.buffered = c.buffered
  <1>1. PICK o \in BOOLEAN, k \in 0..Wrap-1, b \in Seq(Queued), p \in Seq(Queued), d \in BOOLEAN :
          c = Built(o, k, b, p, d) /\ k = Len(p) + Len(b) /\ (~o => Len(p) + Len(b) = 0)
    BY GoodFields
  <1>2. PICK x : x = FALSE
    OBVIOUS
  <1>3. e = [c EXCEPT !.disabled = x] /\ x \in BOOLEAN
    BY <1>2
  <1>4. e = Built(o, k, b, p, x)
    BY ONLY <1>1, <1>3 DEF Built
  <1>5. Good(Built(o, k, b, p, x))
    BY <1>1, <1>3, BuiltGood
  <1>6. e.open = o /\ e.buffered = b
    BY ONLY <1>4, BuiltFields
  <1>7. c.open = o /\ c.buffered = b
    BY ONLY <1>1, BuiltFields
  <1> QED BY <1>4, <1>5, <1>6, <1>7

LEMMA RetryTimeInv ==
  ASSUME IInv, NEW n \in Nodes, RetryTime(n)
  PROVE  IInv'
  <1>1. PICK e : e = [conn[n] EXCEPT !.disabled = FALSE]
    OBVIOUS
  <1>2. Good(conn[n]) /\ conn' = [conn EXCEPT ![n] = e]
        /\ UNCHANGED <<master, first_slave, flags, call, servers>>
    BY <1>1, InvParts DEF RetryTime, Sound
  <1>3. Good(e) /\ e.open = conn[n].open /\ e.buffered = conn[n].buffered
    BY <1>1, <1>2, RetriedGood
  <1>4. Sound(conn) /\ call \in Call /\ Rest /\ ReadsOpen /\ FetchesSent /\ Consistent
    BY InvParts
  <1>5. Sound(conn')
    BY <1>2, <1>3, <1>4, PutSound
  <1>6. conn'[n] = e /\ \A i \in Nodes \ {n} : conn'[i] = conn[i]
    BY <1>2, <1>3, <1>4, PutSound
  <1>7. \A i \in Nodes : conn'[i].open = conn[i].open /\ conn'[i].buffered = conn[i].buffered
    BY <1>3, <1>6
  <1>8. \A g \in Groups : master[g] \in Nodes
    BY <1>4, MasterNodes
  <1>9. call.todo \subseteq Groups
    BY <1>4, CallFields
  <1>10. ReadsOpen'
    BY <1>2, <1>4, <1>7, <1>8, <1>9 DEF ReadsOpen, Unsent, flags
  <1>11. FetchesSent'
    BY <1>2, <1>4, <1>7, <1>8 DEF FetchesSent, Fetches, Unsent, flags
  <1>12. Consistent' /\ Rest' /\ call' \in Call
    BY <1>2, <1>4 DEF Consistent, Fetches, Rest, flags, servers
  <1> QED BY <1>5, <1>10, <1>11, <1>12, InvPartsNext

-----------------------------------------------------------------------------
(* The theorems *)

LEMMA InitInv ==
  ASSUME Init
  PROVE  IInv
  <1>1. Good(Closed(FALSE)) /\ Closed(FALSE) \in Connection
    BY ClosedGood DEF Good
  <1>2. Sound(conn)
    BY <1>1 DEF Init, Sound
  <1>3. "none" \in ReturnCode
    BY DEF ReturnCode
  <1>4. call = [pc |-> "idle", cmd |-> NoCommand, todo |-> {}, rc |-> "none",
                tag |-> "none", runs |-> 0, astray |-> FALSE, clear |-> TRUE]
    BY DEF Init
  <1>5. call \in Call
    BY <1>3, <1>4, MoreCommandFacts DEF Call
  <1>6. call.pc = "idle" /\ call.cmd.reads = "reply"
    BY <1>4, MoreCommandFacts
  <1>7. ReadsOpen /\ FetchesSent /\ Consistent
    BY <1>6 DEF ReadsOpen, FetchesSent, Consistent, Fetches
  <1>8. Rest
    <2>1. ASSUME NEW g \in Groups
          PROVE  master[g] \in g /\ first_slave[g] \in (g \cup {NoNode}) \ {master[g]}
      <3>1. PICK q \in Seq(Nodes) : q = Listed[g]
        BY ClientConstants DEF ClientConstants
      <3>2. /\ g \subseteq Nodes /\ NoNode \notin Nodes /\ Len(q) > 0
            /\ \A i \in DOMAIN q : q[i] \in g
            /\ Len(q) > 1 => q[1] # q[2]
        BY <3>1, ClientConstants DEF ClientConstants
      <3>3. master[g] = q[1] /\ first_slave[g] = IF Len(q) > 1 THEN q[2] ELSE NoNode
        BY <3>1 DEF Init
      <3>4. q[1] \in g /\ (Len(q) > 1 => q[2] \in g)
        BY <3>2
      <3> QED BY <3>2, <3>3, <3>4
    <2>2. \A g \in Groups : g \subseteq Nodes
      BY ClientConstants DEF ClientConstants
    <2>3. master \in [Groups -> Nodes] /\ first_slave \in [Groups -> Nodes \cup {NoNode}]
      <3>1. DOMAIN master = Groups /\ DOMAIN first_slave = Groups
        BY DEF Init
      <3>2. \A g \in Groups : master[g] \in Nodes /\ first_slave[g] \in Nodes \cup {NoNode}
        BY <2>1, <2>2
      <3>3. master = [g \in Groups |-> master[g]] /\ first_slave = [g \in Groups |-> first_slave[g]]
        BY <3>1 DEF Init
      <3> QED BY <3>2, <3>3
    <2>4. leaders \subseteq Nodes
      BY <2>3 DEF Init
    <2> QED BY <2>1, <2>3, <2>4 DEF Init, Rest
  <1> QED BY <1>2, <1>5, <1>7, <1>8, InvParts

LEMMA NextInv ==
  ASSUME IInv, Disciplined, [Next]_vars
  PROVE  IInv'
  <1>1. Sound(conn) /\ call \in Call /\ Rest /\ ReadsOpen /\ FetchesSent /\ Consistent
    BY InvParts
  <1>2. CASE Work
    BY <1>2, DrainInv, ReadInv, FetchInv, ConnectInv, SendInv DEF Work
  <1>3. CASE \E g \in Groups, cmd \in Program : Begin(cmd, g)
    BY <1>3, BeginInv
  <1>4. CASE \E todo \in SUBSET Groups : BeginMget(todo)
    BY <1>4, BeginMgetInv
  <1>5. CASE BeginFetch
    BY <1>5, BeginFetchInv
  <1>6. CASE \E b \in BOOLEAN : SetNoReply(b)
    <2>1. Rest' /\ UNCHANGED <<conn, call>> /\ Idle
      BY <1>1, <1>6 DEF SetNoReply, Rest, servers
    <2> QED BY <1>1, <2>1, IdleInv
  <1>7. CASE \E m \in Modes : SetMode(m)
    <2>1. Quit /\ Idle /\ UNCHANGED call
      BY <1>7 DEF SetMode, Quit
    <2>2. Rest'
      <3>1. PICK m \in Modes : SetMode(m)
        BY <1>7
      <3>2. m[1] \in BOOLEAN /\ m[2] \in BOOLEAN
        BY ClientConstants DEF ClientConstants
      <3> QED BY <1>1, <3>1, <3>2 DEF SetMode, Quit, Rest, servers
    <2> QED BY <2>1, <2>2, QuitSound, IdleInv
  <1>8. CASE Quit /\ UNCHANGED flags
    <2>1. Rest' /\ Idle /\ UNCHANGED call
      BY <1>1, <1>8 DEF Quit, Rest, flags, servers
    <2> QED BY <1>8, <2>1, QuitSound, IdleInv
  <1>9. CASE memcached_flush_buffers
    BY <1>9, FlushBuffersInv
  <1>10. CASE \E n \in Nodes : RetryTime(n)
    BY <1>10, RetryTimeInv
  <1>11. CASE \E g \in Groups : Failover(g)
    <2>1. UNCHANGED <<conn, master, first_slave, flags, call>>
      BY <1>11 DEF Failover
    <2>2. leaders' \subseteq Nodes /\ moves' \in Nat
      BY <1>1, <1>11, ClientConstants DEF Failover, Rest, ClientConstants
    <2>3. Rest'
      BY <1>1, <2>1, <2>2 DEF Rest, flags
    <2>4. ReadsOpen' /\ FetchesSent' /\ Consistent'
      BY <1>1, <2>1 DEF ReadsOpen, FetchesSent, Consistent, Fetches, Unsent, flags
    <2> QED BY <1>1, <2>1, <2>3, <2>4, InvPartsNext
  <1>12. CASE UNCHANGED vars
    <2>1. Rest'
      BY <1>1, <1>12, RestKept DEF vars
    <2>2. ReadsOpen' /\ FetchesSent' /\ Consistent'
      BY <1>1, <1>12 DEF ReadsOpen, FetchesSent, Consistent, Fetches, Unsent, flags, vars
    <2> QED BY <1>1, <1>12, <2>1, <2>2, InvPartsNext DEF vars
  <1> QED BY <1>2, <1>3, <1>4, <1>5, <1>6, <1>7, <1>8, <1>9, <1>10, <1>11, <1>12 DEF Next

\* For a disciplined program the whole invariant holds: a call reads only from
\* open connections on which everything has been sent, and the count is right.
THEOREM ClientInvariant ==
  ASSUME Disciplined
  PROVE  Spec => []IInv
  <1>1. Init => IInv
    BY InitInv
  <1>2. IInv /\ [Next]_vars => IInv'
    BY NextInv
  <1> QED BY <1>1, <1>2, PTL DEF Spec

\* For a disciplined program cursor_active of each connection is at all times
\* the number of answers its node still owes.
THEOREM ClientBalanced ==
  ASSUME Disciplined
  PROVE  Spec => []Balanced
  <1>1. IInv => Balanced
    BY DEF IInv
  <1> QED BY <1>1, ClientInvariant, PTL
=============================================================================
