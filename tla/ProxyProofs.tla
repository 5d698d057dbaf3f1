---------------------------- MODULE ProxyProofs ----------------------------
(***************************************************************************)
(* A child process without a pool never rests on a list that was copied    *)
(* while the parent was writing it, for any number of published lists,     *)
(* unless taking a list over has failed.                                   *)
(***************************************************************************)
EXTENDS Proxy, TLAPS

\* The shared memory and the child as they are after the fork.
LEMMA InitInvariant == Init => IInv
<1> SUFFICES ASSUME Init PROVE IInv
  OBVIOUS
<1>1. 0 \in Version /\ Published(0) \in Version \X Version \X Version
  BY ProxyConstants DEF Version, Published
<1>2. TypeOK
  BY <1>1 DEF Init, TypeOK, Handle
<1>3. WriterOrder
  BY DEF Init, WriterOrder
<1>4. Between(0, Published(0))
  BY DEF Init, Between, Part, Published
<1> QED BY <1>2, <1>3, <1>4, ProxyConstants DEF Init, IInv, ReaderOrder

\* The parent's steps: what is in the shared memory only gets newer.
LEMMA ParentStep ==
  ASSUME IInv, Parent
  PROVE  IInv'
<1>1. TypeOK /\ WriterOrder /\ MaxVersion \in Nat /\ UNCHANGED child
  BY ProxyConstants DEF IInv, Parent, WriteFirst, WriteLast, WriteSize, WriteVersion
<1>2. /\ version' \in Version /\ version <= version' /\ WriterOrder'
      /\ serverlist' \in Version \X Version \X Version
      /\ writer' \in {"idle", "half", "list", "written"}
      /\ \A i \in 1..3 : serverlist[i] <= serverlist'[i]
  <2>1. CASE WriteFirst
    BY <1>1, <2>1 DEF TypeOK, WriterOrder, Published, WriteFirst, Version
  <2>2. CASE WriteLast
    BY <1>1, <2>2 DEF TypeOK, WriterOrder, Published, WriteLast, Version
  <2>3. CASE WriteSize
    BY <1>1, <2>3 DEF TypeOK, WriterOrder, Published, WriteSize, Version
  <2>4. CASE WriteVersion
    BY <1>1, <2>4 DEF TypeOK, WriterOrder, Published, WriteVersion, Version
  <2> QED BY <2>1, <2>2, <2>3, <2>4 DEF Parent
<1>3. TypeOK'
  BY <1>1, <1>2 DEF TypeOK, Handle, child
<1>4. ASSUME ~pooled' PROVE /\ ReaderOrder(Solo)'
                              /\ \A t \in Threads : pc'[t] \in {"idle", "dead"} \/ t = Solo
  <2>1. ReaderOrder(Solo) /\ \A t \in Threads : pc[t] \in {"idle", "dead"} \/ t = Solo
    BY <1>1, <1>4 DEF IInv, child
  <2>2. /\ version \in Nat /\ version' \in Nat /\ current_version \in Nat /\ seen[Solo] \in Nat
        /\ \A i \in 1..3 : serverlist[i] \in Nat /\ serverlist'[i] \in Nat
                           /\ copy[Solo][i] \in Nat /\ master.list[i] \in Nat
    BY <1>1, <1>2, ProxyConstants DEF TypeOK, Handle, Version
  <2>3. UNCHANGED <<current_version, master, pc, seen, copy, missed>>
    BY <1>1 DEF child
  <2> QED BY <1>2, <2>1, <2>2, <2>3 DEF ReaderOrder, Between, Part
<1> QED BY <1>2, <1>3, <1>4 DEF IInv

\* The child's steps: what it takes over is between the version it has read
\* and what is in the shared memory.
LEMMA ChildStep ==
  ASSUME IInv, NEW t \in Threads, Check(t)
  PROVE  IInv'
<1>1. TypeOK /\ MaxVersion \in Nat /\ UNCHANGED <<pooled, version, serverlist, writer>>
  BY ProxyConstants DEF IInv, Check, CheckVersion, ReadVersion, ReadSize, CopyFirst, CopyLast,
     Overrun, Update, StoreVersion, UpdateMember, parent
<1>2. WriterOrder /\ WriterOrder'
  BY <1>1 DEF IInv, WriterOrder
<1>3. TypeOK'
  <2>1. CASE CheckVersion(t)
    BY <1>1, <2>1 DEF TypeOK, CheckVersion
  <2>2. CASE ReadVersion(t)
    BY <1>1, <2>2 DEF TypeOK, ReadVersion
  <2>3. CASE CopyFirst(t)
    BY <1>1, <2>3 DEF TypeOK, CopyFirst, Skip
  <2>4. CASE CopyLast(t)
    BY <1>1, <2>4 DEF TypeOK, CopyLast, Skip
  <2>5. CASE Update(t)
    <3>1. master' \in Handle
      <4>1. CASE master' = UpdateHandle(master, copy[t])
        BY <1>1, <4>1 DEF TypeOK, UpdateHandle, Handle
      <4>2. CASE master' \in FailedHandle(master, copy[t])
        <5>1. Published(0) \in Version \X Version \X Version
          BY ProxyConstants DEF Version, Published
        <5> QED BY <1>1, <4>2, <5>1 DEF TypeOK, FailedHandle, Handle
      <4> QED BY <2>5, <4>1, <4>2 DEF Update
    <3> QED BY <1>1, <2>5, <3>1 DEF TypeOK, Update
  <2>6. CASE StoreVersion(t)
    BY <1>1, <2>6 DEF TypeOK, StoreVersion
  <2>7. CASE UpdateMember(t)
    <3>1. Published(0) \in Version \X Version \X Version
      BY ProxyConstants DEF Version, Published
    <3>2. \A l \in {Published(0), master.list} : [list |-> l, kver |-> member[t].kver] \in Handle
      BY <1>1, <3>1 DEF TypeOK, Handle
    <3>3. member' = member \/ \E h \in Handle : member' = [member EXCEPT ![t] = h]
      BY <1>1, <2>7, <3>2 DEF TypeOK, UpdateMember
    <3>4. member' \in [Threads -> Handle]
      BY <1>1, <3>3 DEF TypeOK
    <3> QED BY <1>1, <2>7, <3>4 DEF TypeOK, UpdateMember
  <2>8. CASE ReadSize(t)
    BY <1>1, <2>8 DEF TypeOK, ReadSize
  <2>9. CASE Overrun(t)
    BY <1>1, <2>9 DEF TypeOK, Overrun
  <2> QED BY <2>1, <2>2, <2>3, <2>4, <2>5, <2>6, <2>7, <2>8, <2>9 DEF Check
<1>4. ASSUME ~pooled PROVE t = Solo /\ ReaderOrder(t)'
  <2>0. t = Solo
    BY <1>4 DEF IInv, Check, CheckVersion, ReadVersion, ReadSize, CopyFirst, CopyLast,
       Overrun, Update, StoreVersion, UpdateMember
  <2> SUFFICES ReaderOrder(t)'
    BY <2>0
  <2>1. ReaderOrder(t)
    BY <1>4, <2>0 DEF IInv
  <2>2. /\ version \in Nat /\ current_version \in Nat /\ seen[t] \in Nat
        /\ \A i \in 1..3 : serverlist[i] \in Nat /\ copy[t][i] \in Nat
                           /\ master.list[i] \in Nat
    BY <1>1 DEF TypeOK, Handle, Version
  <2>3. \A i \in 1..3 : version <= serverlist[i]
    BY <1>2, <2>2 DEF WriterOrder, Published
  <2>4. pc \in [Threads -> {"idle", "read", "size", "copy", "copying", "update",
                          "store", "member", "dead"}]
        /\ seen \in [Threads -> Version]
        /\ copy \in [Threads -> Version \X Version \X Version]
    BY <1>1 DEF TypeOK
  <2>5. CASE CheckVersion(t)
    <3>1. pc[t] = "idle" /\ pc'[t] \in {"read", "member"}
          /\ UNCHANGED <<current_version, master, seen, copy, missed>>
      BY <2>4, <2>5 DEF CheckVersion
    <3> QED BY <1>1, <2>1, <3>1 DEF ReaderOrder, Between, Part
  <2>6. CASE ReadVersion(t)
    <3>1. pc[t] = "read" /\ pc'[t] = "size" /\ seen'[t] = version
          /\ UNCHANGED <<current_version, master, copy, missed>>
      BY <1>1, <1>4, <2>4, <2>6 DEF ReadVersion
    <3> QED BY <1>1, <2>1, <2>2, <3>1 DEF ReaderOrder, Between, Part
  <2>7. CASE CopyFirst(t)
    <3>1. CASE Skip(t)
      <4>1. pc'[t] = "store" /\ missed' # "no" /\ UNCHANGED <<current_version, seen>>
        BY <2>4, <2>7, <3>1 DEF CopyFirst, Skip
      <4> QED BY <1>1, <2>1, <4>1 DEF ReaderOrder
    <3>2. CASE ~Skip(t)
      <4>1. pc[t] = "copy" /\ pc'[t] = "copying" /\ copy'[t][1] = serverlist[1]
            /\ copy'[t][3] = copy[t][3]
            /\ UNCHANGED <<current_version, master, seen, missed>>
        BY <2>4, <2>7, <3>2 DEF CopyFirst
      <4> QED BY <1>1, <2>1, <2>2, <2>3, <4>1 DEF ReaderOrder, Between, Part
    <3> QED BY <3>1, <3>2
  <2>8. CASE CopyLast(t)
    <3>1. CASE Skip(t)
      <4>1. pc'[t] = "store" /\ missed' # "no" /\ UNCHANGED <<current_version, seen>>
        BY <2>4, <2>8, <3>1 DEF CopyLast, Skip
      <4> QED BY <1>1, <2>1, <4>1 DEF ReaderOrder
    <3>2. CASE ~Skip(t)
      <4>1. pc[t] = "copying" /\ pc'[t] = "update" /\ copy'[t][1] = copy[t][1]
            /\ copy'[t][2] = serverlist[2] /\ copy'[t][3] = copy[t][3]
            /\ UNCHANGED <<current_version, master, seen, missed>>
        BY <2>4, <2>8, <3>2 DEF CopyLast
      <4> QED BY <1>1, <2>1, <2>2, <2>3, <4>1 DEF ReaderOrder, Between, Part
    <3> QED BY <3>1, <3>2
  <2>9. CASE Update(t)
    <3>1. pc[t] = "update" /\ pc'[t] = "store" /\ UNCHANGED <<current_version, seen, copy>>
      BY <2>4, <2>9 DEF Update
    <3>2. missed' = "no" => master'.list = copy[t]
      BY <1>1, <2>9 DEF Update, UpdateHandle, TypeOK, Handle
    <3> QED BY <1>1, <2>1, <3>1, <3>2 DEF ReaderOrder, Between, Part
  <2>10. CASE StoreVersion(t)
    <3>1. pc[t] = "store" /\ pc'[t] = "member" /\ current_version' = seen[t]
          /\ UNCHANGED <<master, seen, copy, missed>>
      BY <2>4, <2>10 DEF StoreVersion
    <3> QED BY <1>1, <2>1, <3>1 DEF ReaderOrder, Between, Part
  <2>11. CASE UpdateMember(t)
    <3>1. pc[t] = "member" /\ pc'[t] = "idle"
          /\ UNCHANGED <<current_version, master, seen, copy, missed>>
      BY <2>4, <2>11 DEF UpdateMember
    <3> QED BY <1>1, <2>1, <3>1 DEF ReaderOrder, Between, Part
  <2>12. CASE ReadSize(t)
    <3>1. pc[t] = "size" /\ pc'[t] = "copy" /\ copy'[t][3] = serverlist[3]
          /\ UNCHANGED <<current_version, master, seen, missed>>
      BY <1>1, <1>4, <2>4, <2>12 DEF ReadSize
    <3> QED BY <1>1, <2>1, <2>2, <2>3, <3>1 DEF ReaderOrder, Between, Part
  <2>13. CASE Overrun(t)
    <3>1. pc[t] = "update" /\ pc'[t] = "dead"
          /\ UNCHANGED <<current_version, master, seen, copy, missed>>
      BY <2>4, <2>13 DEF Overrun
    <3> QED BY <1>1, <2>1, <3>1 DEF ReaderOrder, Between, Part
  <2> QED BY <2>5, <2>6, <2>7, <2>8, <2>9, <2>10, <2>11, <2>12, <2>13 DEF Check
<1>5. \A u \in Threads : u # t => pc'[u] = pc[u] \/ pc'[u] = "dead"
  BY <1>1 DEF TypeOK, Check, CheckVersion, ReadVersion, ReadSize, CopyFirst, CopyLast, Skip,
     Overrun, Update, StoreVersion, UpdateMember
<1>6. ~pooled' => /\ ReaderOrder(Solo)'
                 /\ \A u \in Threads : pc'[u] \in {"idle", "dead"} \/ u = Solo
  BY <1>1, <1>4, <1>5 DEF IInv
<1> QED BY <1>2, <1>3, <1>6 DEF IInv

\* The inductive invariant of parent and child.
THEOREM ProxyInvariant == Spec => []IInv
<1>1. IInv /\ [Next]_vars => IInv'
  <2>1. ASSUME IInv, UNCHANGED vars PROVE IInv'
    BY <2>1 DEF vars, IInv, TypeOK, WriterOrder, ReaderOrder, Between, Part, Published
  <2> QED BY <2>1, ParentStep, ChildStep DEF Next
<1> QED BY <1>1, InitInvariant, PTL DEF Spec

\* A child without a pool that is up to date with the version has exactly the
\* list of that version, although the flock around the shared memory excludes
\* nobody (arcus_server_check_for_update, do_arcus_proxy_update_cachelist),
\* unless the last list it tried to take over was skipped or failed.
THEOREM ProxyCaughtUp == Spec => []CaughtUp
<1>1. IInv => CaughtUp
  <2> SUFFICES ASSUME IInv, ~pooled, missed = "no", writer = "idle", current_version = version,
                      \A t \in Threads : pc[t] = "idle"
               PROVE  master.list = Published(version)
    BY DEF CaughtUp, UpToDate
  <2>2. Between(version, master.list) /\ serverlist = Published(version)
    BY ProxyConstants DEF IInv, ReaderOrder, WriterOrder
  <2>3. version \in Nat /\ master.list \in Version \X Version \X Version
    BY ProxyConstants DEF IInv, TypeOK, Handle, Version
  <2>4. master.list[1] = version /\ master.list[2] = version /\ master.list[3] = version
    <3>1. \A i \in 1..3 : version <= master.list[i] /\ master.list[i] <= version
      BY <2>2 DEF Between, Part, Published
    <3> QED BY <2>3, <3>1, ProxyConstants DEF Version
  <2> QED BY <2>3, <2>4 DEF Published
<1> QED BY <1>1, ProxyInvariant, PTL
=============================================================================
