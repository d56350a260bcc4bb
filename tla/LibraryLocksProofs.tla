------------------------- MODULE LibraryLocksProofs ------------------------
(***************************************************************************)
(* Proofs about LibraryLocks: whatever the number of jobs and threads, the *)
(* locks make every transaction one atomic step, and a circle of waiting   *)
(* transactions contains a restore.                                        *)
(***************************************************************************)
EXTENDS LibraryLocks, FiniteSetTheorems, FunctionTheorems,
        SequenceTheorems, TLAPS

JobKinds == {"ask", "publish", "fail", "emit"}

\* Who runs what.
Proper(s) ==
    /\ IF tx[s].kind \in JobKinds THEN tx[s].of \in Jobs ELSE tx[s].of = None
    /\ s # Loop => tx[s].kind \in {"idle", "create", "drop", "restore"}
    /\ s = Loop => tx[s].kind \notin {"create", "restore"}
    /\ tx[s].done <= Len(Plan(s))

\* What a transaction has read stays true while it holds its locks.
Grounds(s) ==
    LET j == tx[s].of  n == tx[s].done
    IN /\ tx[s].kind = "ask" => job[j] = "none" /\ (n >= 3 => conversation = "open")
       /\ tx[s].kind = "publish" =>
              (n >= 3 => job[j] = "running") /\ (n >= 5 => conversation = "open")
       /\ tx[s].kind = "fail" => (n >= 2 => job[j] = "running")
       /\ tx[s].kind = "emit" => (n >= 4 => job[j] # "none")
       /\ tx[s].kind = "drop" => (n >= 3 => conversation = "open") /\ (n >= 4 => ~ Busy)
       /\ tx[s].kind = "restore" => (n >= 4 => Empty)

\* No two transactions hold locks that exclude each other.
Apart(s, t) ==
    \A i \in 1..tx[s].done, k \in 1..tx[t].done : ~ Conflict(Plan(s)[i], Plan(t)[k])

IInv ==
    /\ TypeOK
    /\ \A s \in Slots : Proper(s) /\ Grounds(s)
    /\ \A s, t \in Slots : s # t => Apart(s, t)

-----------------------------------------------------------------------------
(* The statements of the transactions                                      *)

LEMMA DeletesAll ==
  /\ Deletes \in Seq({Row(j) : j \in Jobs})
  /\ Len(Deletes) = Cardinality(Jobs) /\ Cardinality(Jobs) \in Nat
  /\ \A j \in Jobs : \E i \in 1..Cardinality(Jobs) : Deletes[i] = Row(j)
  <1>. DEFINE n == Cardinality(Jobs)
              All(q) == {q[i] : i \in DOMAIN q} = Jobs
              rows == CHOOSE q \in [1..n -> Jobs] : All(q)
  <1>1. n \in Nat /\ ExistsBijection(1..n, Jobs)
    BY LocksAssumption, FS_CardinalityType
  <1>2. PICK f \in Bijection(1..n, Jobs) : TRUE
    BY <1>1 DEF ExistsBijection
  <1>3. f \in [1..n -> Jobs] /\ \A j \in Jobs : \E i \in 1..n : f[i] = j
    BY <1>2 DEF Bijection, Injection, Surjection
  <1>4. All(f)
    <2>1. DOMAIN f = 1..n /\ \A i \in 1..n : f[i] \in Jobs
      BY <1>3
    <2>2. \A j \in Jobs : j \in {f[i] : i \in DOMAIN f}
      BY <1>3, <2>1
    <2>. QED BY <2>1, <2>2
  <1>5. rows \in [1..n -> Jobs] /\ All(rows)
    <2>1. f \in [1..n -> Jobs]
      BY <1>3
    <2>. HIDE DEF All, n
    <2>. QED BY <1>4, <2>1
  <1>6. Deletes = [i \in DOMAIN rows |-> Row(rows[i])]
    BY DEF Deletes
  <1>. HIDE DEF rows
  <1>7. Deletes \in [1..n -> {Row(j) : j \in Jobs}] /\ \A i \in 1..n : Deletes[i] = Row(rows[i])
    BY <1>5, <1>6
  <1>8. \A j \in Jobs : \E i \in 1..n : rows[i] = j
    BY <1>5
  <1>. HIDE DEF n
  <1>9. Deletes \in Seq({Row(j) : j \in Jobs}) /\ Len(Deletes) = n
    BY <1>1, <1>7
  <1>. QED BY <1>1, <1>7, <1>8, <1>9 DEF n

LEMMA DropPlan ==
  /\ Len(Drop_Statements) = 5 + Cardinality(Jobs) /\ Cardinality(Jobs) \in Nat
  /\ Drop_Statements[1] = Gate /\ Drop_Statements[2] = Table("records")
  /\ Drop_Statements[3] = Row("conversation") /\ Drop_Statements[4] = Table("research_jobs")
  /\ Drop_Statements[5] = Table("runtime_events")
  /\ \A i \in 6..(5 + Cardinality(Jobs)) : \E j \in Jobs : Drop_Statements[i] = Row(j)
  /\ \A j \in Jobs : \E i \in 6..(5 + Cardinality(Jobs)) : Drop_Statements[i] = Row(j)
  <1>. DEFINE head == <<Gate, Table("records"), Row("conversation"), Table("research_jobs"),
                        Table("runtime_events")>>
              n == Cardinality(Jobs)
              Locks == {Row(j) : j \in Jobs} \cup {head[i] : i \in 1..5}
  <1>1. Deletes \in Seq(Locks) /\ Len(Deletes) = n /\ n \in Nat
        /\ \A i \in 1..n : Deletes[i] \in {Row(j) : j \in Jobs}
    BY DeletesAll
  <1>2. head \in Seq(Locks) /\ Len(head) = 5
    OBVIOUS
  <1>3. Drop_Statements = head \o Deletes
    BY DEF Drop_Statements
  <1>4. head[1] = Gate /\ head[2] = Table("records") /\ head[3] = Row("conversation")
        /\ head[4] = Table("research_jobs") /\ head[5] = Table("runtime_events")
    OBVIOUS
  <1>5. \A j \in Jobs : \E i \in 1..n : Deletes[i] = Row(j)
    BY DeletesAll
  <1>. HIDE DEF head, n, Locks
  <1>. DEFINE all == head \o Deletes
  <1>11. /\ Len(all) = Len(head) + Len(Deletes)
        /\ \A i \in 1..(Len(head) + Len(Deletes)) :
              all[i] = IF i <= Len(head) THEN head[i] ELSE Deletes[i - Len(head)]
    BY <1>1, <1>2, ConcatProperties, Zenon
  <1>. HIDE DEF all
  <1>12. all = Drop_Statements
    BY <1>3 DEF all
  <1>6. Len(Drop_Statements) = 5 + n
    BY <1>1, <1>2, <1>11, <1>12
  <1>7. \A i \in 1..5 : Drop_Statements[i] = head[i]
    BY <1>1, <1>2, <1>11, <1>12
  <1>8. \A i \in 6..(5 + n) : Drop_Statements[i] = Deletes[i - 5]
    BY <1>1, <1>2, <1>11, <1>12
  <1>9. \A i \in 6..(5 + n) : \E j \in Jobs : Drop_Statements[i] = Row(j)
    <2>. TAKE i \in 6..(5 + n)
    <2>1. i - 5 \in 1..n
      BY <1>1
    <2>. QED BY <1>1, <1>8, <2>1
  <1>10. \A j \in Jobs : \E i \in 6..(5 + n) : Drop_Statements[i] = Row(j)
    <2>. TAKE j \in Jobs
    <2>1. PICK i \in 1..n : Deletes[i] = Row(j)
      BY <1>5
    <2>2. i + 5 \in 6..(5 + n) /\ (i + 5) - 5 = i
      BY <1>1
    <2>. QED BY <1>8, <2>1, <2>2
  <1>. QED BY <1>1, <1>4, <1>6, <1>7, <1>9, <1>10 DEF n

\* The statements of the transaction of s, by its kind.
LEMMA Plans ==
  ASSUME NEW s \in Slots
  PROVE  /\ tx[s].kind = "ask" => Plan(s) = Ask_Statements(tx[s].of)
         /\ tx[s].kind = "publish" => Plan(s) = Publish_Statements(tx[s].of)
         /\ tx[s].kind = "fail" => Plan(s) = Fail_Statements(tx[s].of)
         /\ tx[s].kind = "emit" => Plan(s) = Emit_Statements(tx[s].of)
         /\ tx[s].kind = "drop" => Plan(s) = Drop_Statements
         /\ tx[s].kind = "evict" => Plan(s) = Evict_Statements
         /\ tx[s].kind = "create" => Plan(s) = <<Gate, Table("records")>>
         /\ tx[s].kind = "restore" => Plan(s) = Restore_Statements
         /\ tx[s].kind = "idle" => Plan(s) = <<>>
  BY DEF Plan, Statements

\* How many statements there are.
LEMMA Lengths ==
  ASSUME NEW s \in Slots
  PROVE  /\ tx[s].kind \in {"ask", "emit", "evict", "restore"} => Len(Plan(s)) = 4
         /\ tx[s].kind = "publish" => Len(Plan(s)) = 6
         /\ tx[s].kind = "fail" => Len(Plan(s)) = 3
         /\ tx[s].kind = "create" => Len(Plan(s)) = 2
         /\ tx[s].kind = "idle" => Len(Plan(s)) = 0
         /\ tx[s].kind = "drop" => Len(Plan(s)) = 5 + Cardinality(Jobs) /\ Cardinality(Jobs) \in Nat
  BY Plans, DropPlan DEF Ask_Statements, Emit_Statements, Evict_Statements, Restore_Statements,
     Publish_Statements, Fail_Statements

LEMMA Typed ==
  ASSUME TypeOK, NEW s \in Slots
  PROVE  /\ tx[s] \in [kind : Kinds \cup {"idle"}, of : Jobs \cup {None}, done : Nat,
                       seen : SUBSET Jobs]
         /\ tx[s].done \in Nat /\ tx[s].kind \in Kinds \cup {"idle"}
         /\ tx[s].of \in Jobs \cup {None}
  BY DEF TypeOK

LEMMA HeldAt ==
  ASSUME TypeOK, NEW s \in Slots, NEW i \in 1..tx[s].done
  PROVE  Plan(s)[i] \in Held(s)
  BY DEF Held

\* The locks that matter, by the statement after which they are held.
LEMMA Holds ==
  ASSUME TypeOK, NEW s \in Slots
  PROVE  /\ tx[s].kind = "ask" /\ tx[s].done >= 3 =>
                Table("records") \in Held(s) /\ Row("conversation") \in Held(s)
         /\ tx[s].kind = "publish" /\ tx[s].done >= 3 =>
                Table("research_jobs") \in Held(s) /\ Row(tx[s].of) \in Held(s)
         /\ tx[s].kind = "publish" /\ tx[s].done >= 5 =>
                Table("records") \in Held(s) /\ Row("conversation") \in Held(s)
         /\ tx[s].kind = "fail" /\ tx[s].done >= 2 => Table("research_jobs") \in Held(s)
         /\ tx[s].kind = "fail" /\ tx[s].done >= 3 => Row(tx[s].of) \in Held(s)
         /\ tx[s].kind = "emit" /\ tx[s].done >= 4 =>
                Table("runtime_events") \in Held(s) /\ <<tx[s].of, "share">> \in Held(s)
         /\ tx[s].kind = "drop" /\ tx[s].done >= 3 =>
                Table("records") \in Held(s) /\ Row("conversation") \in Held(s)
         /\ tx[s].kind = "drop" /\ tx[s].done = Len(Plan(s)) => \A j \in Jobs : Row(j) \in Held(s)
         /\ tx[s].kind = "create" /\ tx[s].done >= 2 => Table("records") \in Held(s)
         /\ tx[s].kind = "restore" /\ tx[s].done >= 4 =>
                {<<"records", "all">>, <<"research_jobs", "all">>, <<"runtime_events", "all">>}
                    \subseteq Held(s)
  <1>. DEFINE n == tx[s].done
  <1>1. n \in Nat
    BY Typed
  <1>2. tx[s].kind = "ask" =>
            Plan(s)[2] = Table("records") /\ Plan(s)[3] = Row("conversation")
    BY Plans DEF Ask_Statements
  <1>3. tx[s].kind = "publish" =>
            /\ Plan(s)[2] = Table("research_jobs") /\ Plan(s)[3] = Row(tx[s].of)
            /\ Plan(s)[4] = Table("records") /\ Plan(s)[5] = Row("conversation")
    BY Plans DEF Publish_Statements
  <1>4. tx[s].kind = "fail" => Plan(s)[2] = Table("research_jobs") /\ Plan(s)[3] = Row(tx[s].of)
    BY Plans DEF Fail_Statements
  <1>5. tx[s].kind = "emit" =>
            Plan(s)[2] = Table("runtime_events") /\ Plan(s)[4] = <<tx[s].of, "share">>
    BY Plans DEF Emit_Statements
  <1>6. tx[s].kind = "drop" =>
            Plan(s)[2] = Table("records") /\ Plan(s)[3] = Row("conversation")
    BY Plans, DropPlan
  <1>7. tx[s].kind = "create" => Plan(s)[2] = Table("records")
    BY Plans
  <1>8. tx[s].kind = "restore" =>
            /\ Plan(s)[2] = <<"records", "all">> /\ Plan(s)[3] = <<"research_jobs", "all">>
            /\ Plan(s)[4] = <<"runtime_events", "all">>
    BY Plans DEF Restore_Statements
  <1>9. ASSUME tx[s].kind = "drop", n = Len(Plan(s)), NEW j \in Jobs PROVE Row(j) \in Held(s)
    <2>1. PICK i \in 6..(5 + Cardinality(Jobs)) : Drop_Statements[i] = Row(j)
      BY DropPlan
    <2>2. Plan(s) = Drop_Statements
      BY <1>9, Plans
    <2>3. Len(Plan(s)) = 5 + Cardinality(Jobs) /\ Cardinality(Jobs) \in Nat
      BY <1>9, Lengths
    <2>4. i \in 1..n
      BY <1>9, <2>1, <2>3
    <2>. QED BY <2>1, <2>2, <2>4, HeldAt
  <1>10. \A i \in {2, 3, 4, 5} : n >= i => i \in 1..n
    BY <1>1
  <1>. HIDE DEF n
  <1>11. \A i \in {2, 3, 4, 5} : n >= i => Plan(s)[i] \in Held(s)
    BY <1>10, HeldAt DEF n
  <1>12. /\ n >= 3 => n >= 2
         /\ n >= 4 => n >= 2 /\ n >= 3
         /\ n >= 5 => n >= 4
    BY <1>1
  <1>. QED BY <1>2, <1>3, <1>4, <1>5, <1>6, <1>7, <1>8, <1>9, <1>11, <1>12 DEF n

LEMMA Exclusive ==
  ASSUME IInv, NEW s \in Slots, NEW t \in Slots, s # t,
         NEW a \in Held(s), NEW b \in Held(t), Conflict(a, b)
  PROVE  FALSE
  BY DEF IInv, Held, Apart

LEMMA Conflicts ==
  /\ \A r : Conflict(Row(r), Row(r)) /\ Conflict(Row(r), <<r, "share">>) /\ Conflict(<<r, "share">>, Row(r))
  /\ \A t : /\ Conflict(Table(t), <<t, "all">>) /\ Conflict(<<t, "all">>, Table(t))
            /\ Conflict(<<t, "all">>, <<t, "all">>)
  BY DEF Conflict, Row, Table

-----------------------------------------------------------------------------
(* Steps that leave the rows alone                                         *)

LEMMA StatementsFinite ==
  ASSUME NEW kind \in Kinds \cup {"idle"}, NEW j
  PROVE  Len(Statements(kind, j)) \in Nat
  BY DropPlan DEF Statements, Kinds, Ask_Statements, Emit_Statements, Evict_Statements,
     Restore_Statements, Publish_Statements, Fail_Statements

LEMMA Others ==
  ASSUME TypeOK, NEW s \in Slots, NEW x, tx' = [tx EXCEPT ![s] = x],
         NEW t \in Slots, t # s
  PROVE  tx'[t] = tx[t] /\ Plan(t)' = Plan(t)
  BY DEF TypeOK, Plan

\* A transaction that has just begun or is over holds nothing.
LEMMA Fresh ==
  ASSUME IInv, NEW s \in Slots,
         NEW x \in [kind : Kinds \cup {"idle"}, of : Jobs \cup {None}, done : {0}, seen : {{}}],
         tx' = [tx EXCEPT ![s] = x],
         TypeOK',
         \A t \in Slots : t # s => Grounds(t)',
         x.kind = "ask" => job'[x.of] = "none",
         IF x.kind \in JobKinds THEN x.of \in Jobs ELSE x.of = None,
         s # Loop => x.kind \in {"idle", "create", "drop", "restore"},
         s = Loop => x.kind \notin {"create", "restore"}
  PROVE  IInv'
  <1>1. tx'[s] = x /\ x.done = 0
    BY DEF IInv, TypeOK
  <1>2. Plan(s)' = Statements(x.kind, x.of)
    BY <1>1 DEF Plan
  <1>3. Proper(s)'
    BY <1>1, <1>2, StatementsFinite DEF Proper
  <1>4. Grounds(s)'
    BY <1>1 DEF Grounds
  <1>5. ASSUME NEW t \in Slots, t # s PROVE Proper(t)' /\ Apart(s, t)' /\ Apart(t, s)'
    <2>1. tx'[t] = tx[t] /\ Plan(t)' = Plan(t)
      BY <1>5, Others DEF IInv
    <2>2. Proper(t)'
      BY <2>1 DEF IInv, Proper
    <2>3. 1..tx'[s].done = {}
      BY <1>1
    <2>. QED BY <2>2, <2>3 DEF Apart
  <1>6. ASSUME NEW t \in Slots, NEW u \in Slots, t # u, t # s, u # s PROVE Apart(t, u)'
    <2>1. tx'[t] = tx[t] /\ Plan(t)' = Plan(t) /\ tx'[u] = tx[u] /\ Plan(u)' = Plan(u)
      BY <1>6, Others DEF IInv
    <2>. QED BY <1>6, <2>1 DEF IInv, Apart
  <1>. QED BY <1>3, <1>4, <1>5, <1>6 DEF IInv

LEMMA IdleFresh ==
  Idle \in [kind : Kinds \cup {"idle"}, of : Jobs \cup {None}, done : {0}, seen : {{}}]
  BY DEF Idle

LEMMA SameGrounds ==
  ASSUME IInv, UNCHANGED data, NEW t \in Slots, tx'[t] = tx[t]
  PROVE  Grounds(t)'
  BY DEF IInv, Grounds, data, Busy, Empty

LEMMA RollbackKeeps ==
  ASSUME IInv, NEW s \in Slots, Rollback(s), TypeOK',
         \A t \in Slots : t # s => Grounds(t)'
  PROVE  IInv'
  <1>1. tx' = [tx EXCEPT ![s] = Idle]
    BY DEF Rollback
  <1>2. Idle.kind = "idle" /\ Idle.of = None
    BY DEF Idle
  <1>. QED BY <1>1, <1>2, IdleFresh, Fresh DEF JobKinds

LEMMA GiveUpKeeps ==
  ASSUME IInv, NEW s \in Slots, Rollback(s), UNCHANGED data
  PROVE  IInv'
  <1>1. tx' = [tx EXCEPT ![s] = Idle]
    BY DEF Rollback
  <1>2. TypeOK'
    BY <1>1, IdleFresh DEF IInv, TypeOK, data
  <1>3. ASSUME NEW t \in Slots, t # s PROVE Grounds(t)'
    BY <1>1, <1>3, Others, SameGrounds DEF IInv
  <1>. QED BY <1>2, <1>3, RollbackKeeps

LEMMA BeginKeeps ==
  ASSUME IInv, NEW s \in Slots, NEW kind \in Kinds, NEW j \in Jobs \cup {None}, Begin(s, kind, j)
  PROVE  IInv'
  <1>. DEFINE x == [Idle EXCEPT !.kind = kind, !.of = j]
  <1>1. /\ x \in [kind : Kinds \cup {"idle"}, of : Jobs \cup {None}, done : {0}, seen : {{}}]
        /\ x.kind = kind /\ x.of = j
    BY IdleFresh
  <1>2. tx' = [tx EXCEPT ![s] = x] /\ UNCHANGED data
    BY DEF Begin
  <1>. HIDE DEF x
  <1>3. TypeOK'
    BY <1>1, <1>2 DEF IInv, TypeOK, data
  <1>4. ASSUME NEW t \in Slots, t # s PROVE Grounds(t)'
    BY <1>2, <1>4, Others, SameGrounds DEF IInv
  <1>5. IF kind \in JobKinds THEN j \in Jobs ELSE j = None
    BY DEF Begin, JobKinds
  <1>6. kind = "ask" => job[j] = "none"
    BY DEF Begin
  <1>7. /\ s # Loop => kind \in {"create", "drop", "restore"}
        /\ s = Loop => kind \notin {"create", "restore"}
    BY DEF Begin
  <1>. QED BY <1>1, <1>2, <1>3, <1>4, <1>5, <1>6, <1>7, Fresh DEF data

\* The next statement gets its lock and finds what it needs.
LEMMA ExecuteKeeps ==
  ASSUME IInv, NEW s \in Slots, Execute(s)
  PROVE  IInv'
  <1>. DEFINE seen == IF Wanted(s) = Table("runtime_events") THEN event ELSE tx[s].seen
              n == tx[s].done
              x == [tx[s] EXCEPT !.done = n + 1, !.seen = seen]
  <1>1. CASE GivesUp(s, Wanted(s))
    BY <1>1, GiveUpKeeps DEF Execute
  <1>2. CASE ~ GivesUp(s, Wanted(s))
    <2>1. tx' = [tx EXCEPT ![s].done = @ + 1,
                           ![s].seen = IF Wanted(s) = Table("runtime_events") THEN event ELSE @]
          /\ UNCHANGED data
      BY <1>2 DEF Execute
    <2>2. tx \in [Slots -> [kind : Kinds \cup {"idle"}, of : Jobs \cup {None}, done : Nat,
                            seen : SUBSET Jobs]]
          /\ event \subseteq Jobs
      BY DEF IInv, TypeOK
    <2>3. tx' = [tx EXCEPT ![s] = x]
      BY <2>1, <2>2
    <2>4. /\ x \in [kind : Kinds \cup {"idle"}, of : Jobs \cup {None}, done : Nat,
                    seen : SUBSET Jobs]
          /\ x.kind = tx[s].kind /\ x.of = tx[s].of /\ x.done = n + 1
      <3>. DEFINE y == [tx[s] EXCEPT !.done = n + 1]
      <3>1. tx[s] \in [kind : Kinds \cup {"idle"}, of : Jobs \cup {None}, done : Nat,
                       seen : SUBSET Jobs]
        BY <2>2
      <3>2. /\ y \in [kind : Kinds \cup {"idle"}, of : Jobs \cup {None}, done : Nat,
                      seen : SUBSET Jobs]
            /\ y.kind = tx[s].kind /\ y.of = tx[s].of /\ y.done = n + 1
        BY <3>1
      <3>3. seen \in SUBSET Jobs
        BY <2>2, <3>1
      <3>. HIDE DEF seen
      <3>4. x = [y EXCEPT !.seen = seen]
        OBVIOUS
      <3>. QED BY <3>2, <3>3, <3>4
    <2>. HIDE DEF x
    <2>5. tx'[s] = x
      BY <2>2, <2>3
    <2>6. TypeOK'
      <3>1. UNCHANGED data /\ TypeOK
        BY <2>1 DEF IInv
      <3>2. tx' \in [Slots -> [kind : Kinds \cup {"idle"}, of : Jobs \cup {None}, done : Nat,
                              seen : SUBSET Jobs]]
        BY <2>2, <2>3, <2>4
      <3>. QED BY <3>1, <3>2 DEF TypeOK, data
    <2>7. Plan(s)' = Plan(s) /\ n \in Nat /\ n < Len(Plan(s))
      <3>1. tx[s].kind' = tx[s].kind /\ tx[s].of' = tx[s].of
        BY <2>4, <2>5
      <3>2. Plan(s)' = Plan(s)
        BY <3>1 DEF Plan
      <3>3. n \in Nat
        BY <2>2
      <3>4. n < Len(Plan(s))
        BY DEF Execute, Waiting
      <3>. QED BY <3>2, <3>3, <3>4
    <2>8. Len(Plan(s)) \in Nat
      BY <2>2, StatementsFinite DEF Plan
    <2>9. Proper(s)'
      BY <2>4, <2>5, <2>7, <2>8 DEF IInv, Proper
    <2>10. ASSUME NEW t \in Slots, t # s
           PROVE  Proper(t)' /\ Grounds(t)' /\ Apart(s, t)' /\ Apart(t, s)'
      <3>1. tx'[t] = tx[t] /\ Plan(t)' = Plan(t)
        BY <2>3, <2>10, Others DEF IInv
      <3>2. Proper(t)' /\ Grounds(t)'
        BY <2>1, <3>1, SameGrounds DEF IInv, Proper
      <3>3. ASSUME NEW k \in 1..tx[t].done
            PROVE  ~ Conflict(Wanted(s), Plan(t)[k]) /\ ~ Conflict(Plan(t)[k], Wanted(s))
        <4>1. ~ WaitsFor(s, t) /\ Waiting(s)
          BY DEF Execute
        <4>2. Plan(t)[k] \in Held(t)
          BY <3>3 DEF Held
        <4>3. ~ Conflict(Wanted(s), Plan(t)[k])
          BY <2>10, <4>1, <4>2 DEF WaitsFor
        <4>. QED BY <4>3 DEF Conflict
      <3>4. ASSUME NEW i \in 1..(n + 1), NEW k \in 1..tx[t].done
            PROVE  ~ Conflict(Plan(s)[i], Plan(t)[k]) /\ ~ Conflict(Plan(t)[k], Plan(s)[i])
        <4>1. CASE i = n + 1
          BY <3>3, <4>1 DEF Wanted
        <4>2. CASE i \in 1..n
          BY <2>10, <4>2 DEF IInv, Apart
        <4>. QED BY <2>7, <4>1, <4>2
      <3>. QED BY <2>4, <2>5, <2>7, <3>1, <3>2, <3>4 DEF Apart
    <2>11. ASSUME NEW t \in Slots, NEW u \in Slots, t # u, t # s, u # s PROVE Apart(t, u)'
      <3>1. tx'[t] = tx[t] /\ Plan(t)' = Plan(t) /\ tx'[u] = tx[u] /\ Plan(u)' = Plan(u)
        BY <2>3, <2>11, Others DEF IInv
      <3>. QED BY <2>11, <3>1 DEF IInv, Apart
    <2>12. Grounds(s)'
      <3>1. /\ Grounds(s) /\ conversation \in {"none", "open"}
            /\ tx[s].kind \in JobKinds => tx[s].of \in Jobs /\ job[tx[s].of] \in {"none", "running", "ended"}
        BY DEF IInv, Proper, TypeOK
      <3>2. CASE tx[s].kind = "ask"
        <4>1. n + 1 = 3 => conversation = "open"
          <5>1. n + 1 = 3 => Wanted(s) = Row("conversation")
            BY <2>7, <3>2, Plans DEF Wanted, Ask_Statements
          <5>. QED BY <1>2, <3>1, <3>2, <5>1 DEF GivesUp
        <4>. QED BY <2>1, <2>4, <2>5, <2>7, <3>1, <3>2, <4>1 DEF Grounds, data
      <3>3. CASE tx[s].kind = "publish"
        <4>1. n + 1 = 3 => job[tx[s].of] = "running"
          <5>1. n + 1 = 3 => Wanted(s) = Row(tx[s].of)
            BY <2>7, <3>3, Plans DEF Wanted, Publish_Statements
          <5>2. Row(tx[s].of) # Row("conversation")
            BY <3>1, <3>3, LocksAssumption DEF Row, JobKinds
          <5>. QED BY <1>2, <3>3, <5>1, <5>2 DEF GivesUp, GivesUp_Publish
        <4>2. n + 1 = 5 => conversation = "open"
          <5>1. n + 1 = 5 => Wanted(s) = Row("conversation")
            BY <2>7, <3>3, Plans DEF Wanted, Publish_Statements
          <5>2. Row(tx[s].of) # Row("conversation")
            BY <3>1, <3>3, LocksAssumption DEF Row, JobKinds
          <5>. QED BY <1>2, <3>1, <3>3, <5>1, <5>2 DEF GivesUp
        <4>. QED BY <2>1, <2>4, <2>5, <2>7, <3>1, <3>3, <4>1, <4>2 DEF Grounds, data
      <3>4. CASE tx[s].kind = "fail"
        <4>1. n + 1 = 2 => job[tx[s].of] = "running"
          <5>1. n + 1 = 2 => Wanted(s) = Table("research_jobs")
            BY <2>7, <3>4, Plans DEF Wanted, Fail_Statements
          <5>2. Row(tx[s].of) # Table("research_jobs")
            BY DEF Row, Table
          <5>. QED BY <1>2, <3>4, <5>1, <5>2 DEF GivesUp
        <4>. QED BY <2>1, <2>4, <2>5, <2>7, <3>1, <3>4, <4>1 DEF Grounds, data
      <3>5. CASE tx[s].kind = "emit"
        <4>1. n + 1 = 4 => job[tx[s].of] # "none"
          <5>1. n + 1 = 4 => Wanted(s)[1] = tx[s].of
            BY <2>7, <3>5, Plans DEF Wanted, Emit_Statements
          <5>. QED BY <1>2, <3>5, <5>1 DEF GivesUp
        <4>. QED BY <2>1, <2>4, <2>5, <2>7, <3>1, <3>5, <4>1 DEF Grounds, data
      <3>6. CASE tx[s].kind = "drop"
        <4>1. n + 1 = 3 => conversation = "open"
          <5>1. n + 1 = 3 => Wanted(s) = Row("conversation")
            BY <2>7, <3>6, Plans, DropPlan DEF Wanted
          <5>2. Row("conversation") # Table("research_jobs") /\ Row("conversation")[1] \notin Jobs
            BY LocksAssumption DEF Row, Table
          <5>. QED BY <1>2, <3>1, <3>6, <5>1, <5>2 DEF GivesUp
        <4>2. n + 1 = 4 => ~ Busy
          <5>1. n + 1 = 4 => Wanted(s) = Table("research_jobs")
            BY <2>7, <3>6, Plans, DropPlan DEF Wanted
          <5>2. Row("conversation") # Table("research_jobs") /\ Table("research_jobs")[1] \notin Jobs
            BY LocksAssumption DEF Row, Table
          <5>. QED BY <1>2, <3>6, <5>1, <5>2 DEF GivesUp
        <4>. QED BY <2>1, <2>4, <2>5, <2>7, <3>1, <3>6, <4>1, <4>2 DEF Grounds, data, Busy
      <3>7. CASE tx[s].kind = "restore"
        <4>1. n + 1 = 4 => Empty
          <5>1. n + 1 = 4 => Wanted(s) = <<"runtime_events", "all">>
            BY <2>7, <3>7, Plans DEF Wanted, Restore_Statements
          <5>. QED BY <1>2, <3>7, <5>1 DEF GivesUp, GivesUp_Restore
        <4>. QED BY <2>1, <2>4, <2>5, <2>7, <3>1, <3>7, <4>1 DEF Grounds, data, Empty
      <3>8. CASE tx[s].kind \notin JobKinds \cup {"drop", "restore"}
        BY <2>4, <2>5, <3>8 DEF Grounds, JobKinds
      <3>. QED BY <3>2, <3>3, <3>4, <3>5, <3>6, <3>7, <3>8 DEF JobKinds
    <2>. QED BY <2>6, <2>9, <2>10, <2>11, <2>12 DEF IInv
  <1>. QED BY <1>1, <1>2

-----------------------------------------------------------------------------
(* Commits                                                                 *)

\* What holds when all statements are done.
LEMMA AtCommit ==
  ASSUME IInv, NEW s \in Slots, ~ Waiting(s)
  PROVE  LET j == tx[s].of
         IN /\ tx[s].kind = "ask" =>
                   s = Loop /\ tx[s].done = 4 /\ j \in Jobs /\ job[j] = "none" /\ conversation = "open"
            /\ tx[s].kind = "publish" =>
                   s = Loop /\ tx[s].done = 6 /\ j \in Jobs /\ job[j] = "running" /\ conversation = "open"
            /\ tx[s].kind = "fail" =>
                   s = Loop /\ tx[s].done = 3 /\ j \in Jobs /\ job[j] = "running"
            /\ tx[s].kind = "emit" =>
                   s = Loop /\ tx[s].done = 4 /\ j \in Jobs /\ job[j] # "none"
            /\ tx[s].kind = "drop" =>
                   tx[s].done >= 4 /\ tx[s].done = Len(Plan(s)) /\ conversation = "open" /\ ~ Busy
            /\ tx[s].kind = "create" => tx[s].done = 2
            /\ tx[s].kind = "restore" => tx[s].done = 4 /\ Empty
            /\ tx[s].kind = "evict" => s = Loop
  <1>1. Proper(s) /\ Grounds(s) /\ tx[s].done \in Nat
    BY Typed DEF IInv
  <1>2. tx[s].kind # "idle" => tx[s].done = Len(Plan(s))
    <2>1. Len(Plan(s)) \in Nat
      BY Typed, StatementsFinite DEF Plan, IInv
    <2>. QED BY <1>1, <2>1 DEF Waiting, Proper
  <1>3. /\ tx[s].kind \in {"ask", "emit", "restore"} => tx[s].done = 4
        /\ tx[s].kind = "publish" => tx[s].done = 6
        /\ tx[s].kind = "fail" => tx[s].done = 3
        /\ tx[s].kind = "create" => tx[s].done = 2
        /\ tx[s].kind = "drop" => tx[s].done >= 4 /\ tx[s].done = Len(Plan(s))
    <2>1. \A n \in Nat : 5 + n >= 4
      OBVIOUS
    <2>. QED BY <1>2, <2>1, Lengths
  <1>4. /\ tx[s].kind \in JobKinds => s = Loop /\ tx[s].of \in Jobs
        /\ tx[s].kind = "evict" => s = Loop
    BY <1>1 DEF Proper, JobKinds
  <1>5. 3 <= 4 /\ 3 <= 6 /\ 5 <= 6 /\ 2 <= 3 /\ 4 >= 3 /\ 6 >= 3 /\ 6 >= 5 /\ 3 >= 2
        /\ \A n \in Nat : n >= 4 => n >= 3
    OBVIOUS
  <1>. QED BY <1>1, <1>3, <1>4, <1>5 DEF Grounds, JobKinds

\* What is held when all statements are done.
LEMMA HeldAtCommit ==
  ASSUME IInv, NEW s \in Slots, ~ Waiting(s)
  PROVE  /\ tx[s].kind = "ask" => Table("records") \in Held(s) /\ Row("conversation") \in Held(s)
         /\ tx[s].kind \in {"publish", "fail"} => Table("research_jobs") \in Held(s)
         /\ tx[s].kind = "emit" => Table("runtime_events") \in Held(s)
         /\ tx[s].kind = "drop" =>
                /\ Table("records") \in Held(s) /\ Row("conversation") \in Held(s)
                /\ \A k \in Jobs : Row(k) \in Held(s)
         /\ tx[s].kind = "create" => Table("records") \in Held(s)
         /\ tx[s].kind = "restore" => <<"records", "all">> \in Held(s)
  <1>1. TypeOK /\ tx[s].done \in Nat
    BY Typed DEF IInv
  <1>2. 4 >= 3 /\ 6 >= 3 /\ 3 >= 2 /\ 4 >= 4 /\ 2 >= 2 /\ \A n \in Nat : n >= 4 => n >= 3
    OBVIOUS
  <1>. QED BY <1>1, <1>2, AtCommit, Holds

LEMMA DataTypes ==
  ASSUME IInv
  PROVE  /\ conversation \in {"none", "open"} /\ restored \in BOOLEAN
         /\ job \in [Jobs -> {"none", "running", "ended"}] /\ event \subseteq Jobs
  BY DEF IInv, TypeOK

\* A commit is the transaction as one step.
LEMMA CommitIsAtomic ==
  ASSUME IInv, NEW s \in Slots, Commit(s)
  PROVE  LET j == tx[s].of
         IN /\ tx[s].kind = "ask" => Atomic!Ask(j)
            /\ tx[s].kind = "publish" => Atomic!Publish(j)
            /\ tx[s].kind = "fail" => Atomic!Fail(j)
            /\ tx[s].kind = "emit" => Atomic!Emit(j)
            /\ tx[s].kind = "drop" => Atomic!Drop
            /\ tx[s].kind = "create" => Atomic!Create
            /\ tx[s].kind = "restore" => Atomic!Restore
            /\ tx[s].kind \in {"evict", "idle"} => UNCHANGED data
  <1>. DEFINE j == tx[s].of
  <1>1. Effect(tx[s].kind, j) /\ ~ Waiting(s)
    BY DEF Commit
  <1>2. CASE tx[s].kind = "ask"
    <2>1. job' = [job EXCEPT ![j] = "running"] /\ conversation' = conversation
          /\ event' = event /\ restored' = restored
      BY <1>1, <1>2, DataTypes DEF Effect
    <2>. QED BY <1>1, <1>2, <2>1, AtCommit DEF Atomic!Ask
  <1>3. CASE tx[s].kind = "publish"
    <2>1. job' = [job EXCEPT ![j] = "ended"] /\ conversation' = conversation
          /\ event' = event \cup {j} /\ restored' = restored
      BY <1>1, <1>3, DataTypes DEF Effect
    <2>. QED BY <1>1, <1>3, <2>1, AtCommit DEF Atomic!Publish
  <1>4. CASE tx[s].kind = "fail"
    <2>1. job' = [job EXCEPT ![j] = "ended"] /\ conversation' = conversation
          /\ event' = event /\ restored' = restored
      BY <1>1, <1>4, DataTypes DEF Effect
    <2>. QED BY <1>1, <1>4, <2>1, AtCommit DEF Atomic!Fail
  <1>5. CASE tx[s].kind = "emit"
    <2>1. job' = job /\ conversation' = conversation
          /\ event' = event \cup {j} /\ restored' = restored
      BY <1>1, <1>5, DataTypes DEF Effect
    <2>. QED BY <1>1, <1>5, <2>1, AtCommit DEF Atomic!Emit
  <1>6. CASE tx[s].kind = "drop"
    <2>1. job' = [i \in Jobs |-> "none"] /\ conversation' = "none"
          /\ event' = {} /\ restored' = restored
      BY <1>1, <1>6, DataTypes DEF Effect
    <2>. QED BY <1>1, <1>6, <2>1, AtCommit DEF Atomic!Drop, Atomic!Busy, Busy
  <1>7. CASE tx[s].kind = "create"
    <2>1. job' = job /\ conversation' = "open" /\ event' = event /\ restored' = restored
      BY <1>1, <1>7, DataTypes DEF Effect
    <2>. QED BY <1>7, <2>1 DEF Atomic!Create
  <1>8. CASE tx[s].kind = "restore"
    <2>1. job' = job /\ conversation' = "open" /\ event' = event /\ restored' = TRUE
      BY <1>1, <1>8, DataTypes DEF Effect
    <2>. QED BY <1>1, <1>8, <2>1, AtCommit DEF Atomic!Restore, Atomic!Empty, Empty
  <1>9. CASE tx[s].kind \in {"evict", "idle"}
    BY <1>1, <1>9, DataTypes DEF Effect, data
  <1>. QED BY <1>2, <1>3, <1>4, <1>5, <1>6, <1>7, <1>8, <1>9

\* The commit of s takes nothing away from what another transaction has read: where
\* it would, the locks of the two exclude each other.
LEMMA CommitSpares ==
  ASSUME IInv, NEW s \in Slots, Commit(s), NEW t \in Slots, t # s
  PROVE  Grounds(t)'
  <1>. DEFINE i == tx[s].of
              j == tx[t].of
              n == tx[t].done
  <1>1. tx'[t] = tx[t] /\ ~ Waiting(s)
    BY Others DEF Commit, Rollback, IInv
  <1>2. TypeOK /\ n \in Nat /\ tx[s].kind \in Kinds \cup {"idle"} /\ Grounds(t) /\ Proper(t)
        /\ Proper(s)
    BY Typed DEF IInv
  <1>3. ASSUME NEW a \in Held(s), NEW b \in Held(t), Conflict(a, b) PROVE FALSE
    BY <1>3, Exclusive
  <1>4. tx[t].kind = "restore" /\ n >= 4 =>
            /\ <<"records", "all">> \in Held(t) /\ <<"research_jobs", "all">> \in Held(t)
            /\ <<"runtime_events", "all">> \in Held(t)
    BY <1>2, Holds
  <1>5. tx[t].kind = "restore" /\ n >= 4 =>
            /\ Table("records") \notin Held(s) /\ Table("research_jobs") \notin Held(s)
            /\ Table("runtime_events") \notin Held(s) /\ <<"records", "all">> \notin Held(s)
    BY <1>3, <1>4, Conflicts
  <1>6. CASE tx[s].kind = "ask"
    <2>1. s = Loop /\ i \in Jobs /\ Table("records") \in Held(s) /\ Row("conversation") \in Held(s)
      BY <1>1, <1>6, AtCommit, HeldAtCommit
    <2>2. tx[t].kind \in {"idle", "create", "drop", "restore"}
      BY <1>2, <2>1 DEF Proper
    <2>3. conversation' = conversation
      BY <1>6, CommitIsAtomic DEF Atomic!Ask
    <2>4. ~ (tx[t].kind = "drop" /\ n >= 3)
      BY <1>2, <1>3, <2>1, Holds, Conflicts
    <2>. QED BY <1>1, <1>2, <1>5, <2>1, <2>2, <2>3, <2>4 DEF Grounds
  <1>7. CASE tx[s].kind \in {"publish", "fail"}
    <2>1. s = Loop /\ i \in Jobs /\ Table("research_jobs") \in Held(s)
      BY <1>1, <1>7, AtCommit, HeldAtCommit
    <2>2. tx[t].kind \in {"idle", "create", "drop", "restore"}
      BY <1>2, <2>1 DEF Proper
    <2>3. conversation' = conversation /\ job' = [job EXCEPT ![i] = "ended"]
      BY <1>7, CommitIsAtomic DEF Atomic!Publish, Atomic!Fail
    <2>4. ~ Busy => ~ Busy'
      BY <2>1, <2>3, DataTypes DEF Busy
    <2>. QED BY <1>1, <1>2, <1>5, <2>1, <2>2, <2>3, <2>4 DEF Grounds
  <1>8. CASE tx[s].kind = "emit"
    <2>1. s = Loop /\ i \in Jobs /\ Table("runtime_events") \in Held(s)
      BY <1>1, <1>8, AtCommit, HeldAtCommit
    <2>2. tx[t].kind \in {"idle", "create", "drop", "restore"}
      BY <1>2, <2>1 DEF Proper
    <2>3. conversation' = conversation /\ job' = job
      BY <1>8, CommitIsAtomic DEF Atomic!Emit
    <2>. QED BY <1>1, <1>2, <1>5, <2>1, <2>2, <2>3 DEF Grounds, Busy
  <1>9. CASE tx[s].kind = "drop"
    <2>1. /\ ~ Busy /\ Table("records") \in Held(s) /\ Row("conversation") \in Held(s)
          /\ \A k \in Jobs : Row(k) \in Held(s)
      BY <1>1, <1>9, AtCommit, HeldAtCommit
    <2>2. job' = [k \in Jobs |-> "none"] /\ conversation' = "none"
      BY <1>9, CommitIsAtomic DEF Atomic!Drop
    <2>3. ~ (tx[t].kind \in {"ask", "drop"} /\ n >= 3)
      BY <1>2, <1>3, <2>1, Holds, Conflicts
    <2>4. ~ (tx[t].kind = "publish" /\ n >= 3) /\ ~ (tx[t].kind = "fail" /\ n >= 2)
      BY <1>2, <2>1 DEF Grounds, Busy, Proper, JobKinds
    <2>5. ~ (tx[t].kind = "emit" /\ n >= 4)
      <3>. SUFFICES ASSUME tx[t].kind = "emit", n >= 4 PROVE FALSE
        OBVIOUS
      <3>1. <<j, "share">> \in Held(t) /\ j \in Jobs
        BY <1>2, Holds DEF Proper, JobKinds
      <3>2. Row(j) \in Held(s) /\ Conflict(Row(j), <<j, "share">>)
        BY <2>1, <3>1, Conflicts
      <3>. QED BY <1>3, <3>1, <3>2
    <2>6. n >= 5 => n >= 3
      BY <1>2
    <2>7. n >= 4 => n >= 3
      BY <1>2
    <2>8. tx[t].kind = "ask" => j \in Jobs
      BY <1>2 DEF Proper, JobKinds
    <2>. QED BY <1>1, <1>2, <1>5, <2>1, <2>2, <2>3, <2>4, <2>5, <2>6, <2>7, <2>8 DEF Grounds
  <1>10. CASE tx[s].kind = "create"
    <2>1. Table("records") \in Held(s)
      BY <1>1, <1>10, AtCommit, HeldAtCommit
    <2>2. conversation' = "open" /\ job' = job
      BY <1>10, CommitIsAtomic DEF Atomic!Create
    <2>. QED BY <1>1, <1>2, <1>5, <2>1, <2>2 DEF Grounds, Busy
  <1>11. CASE tx[s].kind = "restore"
    <2>1. <<"records", "all">> \in Held(s)
      BY <1>1, <1>11, AtCommit, HeldAtCommit
    <2>2. conversation' = "open" /\ job' = job
      BY <1>11, CommitIsAtomic DEF Atomic!Restore
    <2>. QED BY <1>1, <1>2, <1>5, <2>1, <2>2 DEF Grounds, Busy
  <1>12. CASE tx[s].kind \in {"evict", "idle"}
    BY <1>1, <1>12, CommitIsAtomic, SameGrounds
  <1>. QED BY <1>2, <1>6, <1>7, <1>8, <1>9, <1>10, <1>11, <1>12 DEF Kinds

LEMMA CommitKeeps ==
  ASSUME IInv, NEW s \in Slots, Commit(s)
  PROVE  IInv'
  <1>1. tx' = [tx EXCEPT ![s] = Idle]
    BY DEF Commit, Rollback
  <1>2. tx' \in [Slots -> [kind : Kinds \cup {"idle"}, of : Jobs \cup {None}, done : Nat,
                           seen : SUBSET Jobs]]
    BY <1>1, IdleFresh DEF IInv, TypeOK
  <1>3. tx[s].of \in Jobs \/ tx[s].kind \notin JobKinds
    BY DEF IInv, Proper
  <1>4. /\ conversation' \in {"none", "open"} /\ restored' \in BOOLEAN
        /\ job' \in [Jobs -> {"none", "running", "ended"}] /\ event' \subseteq Jobs
    BY <1>3, DataTypes DEF Commit, Effect, JobKinds
  <1>5. TypeOK'
    BY <1>2, <1>4 DEF TypeOK
  <1>. QED BY <1>5, CommitSpares, RollbackKeeps DEF Commit

-----------------------------------------------------------------------------
(* The invariant, and that transactions are atomic                         *)

LEMMA InitInv == Init => IInv
  <1>. SUFFICES ASSUME Init PROVE IInv
    OBVIOUS
  <1>1. \A s \in Slots : tx[s] = Idle
    BY DEF Init
  <1>2. TypeOK
    <2>1. Idle \in [kind : Kinds \cup {"idle"}, of : Jobs \cup {None}, done : Nat,
                    seen : SUBSET Jobs]
      BY DEF Idle
    <2>. QED BY <2>1 DEF Init, TypeOK
  <1>3. ASSUME NEW s \in Slots PROVE Proper(s) /\ Grounds(s) /\ 1..tx[s].done = {}
    <2>1. tx[s].kind = "idle" /\ tx[s].of = None /\ tx[s].done = 0
      BY <1>1 DEF Idle
    <2>. QED BY <2>1, Lengths DEF Proper, Grounds, JobKinds
  <1>. QED BY <1>2, <1>3 DEF IInv, Apart

LEMMA StepInv == IInv /\ [Next]_vars => IInv'
  <1>. SUFFICES ASSUME IInv, [Next]_vars PROVE IInv'
    OBVIOUS
  <1>1. ASSUME NEW s \in Slots, Abort(s) PROVE IInv'
    BY <1>1, GiveUpKeeps DEF Abort
  <1>2. CASE UNCHANGED vars
    <2>1. data' = data /\ tx' = tx
      BY <1>2 DEF vars
    <2>2. \A t \in Slots : Plan(t)' = Plan(t)
      BY <2>1 DEF Plan
    <2>3. \A t \in Slots : Proper(t)' /\ Grounds(t)'
      BY <2>1, <2>2, SameGrounds DEF IInv, Proper
    <2>4. TypeOK'
      BY <2>1 DEF IInv, TypeOK, data
    <2>. QED BY <2>1, <2>2, <2>3, <2>4 DEF IInv, Apart
  <1>. QED BY <1>1, <1>2, BeginKeeps, ExecuteKeeps, CommitKeeps DEF Next

\* The rows, and what each transaction remembers, keep their shape (db.py).
THEOREM LocksTypeCorrect == Spec => []TypeOK
  <1>1. IInv => TypeOK
    BY DEF IInv
  <1>. QED BY <1>1, InitInv, StepInv, PTL DEF Spec

\* Statement by statement and under any interleaving, the transactions of db.py,
\* library_deletion.py and backup.py implement transactions that are one step each.
THEOREM TransactionsAreAtomic == Spec => AtomicSpec
  <1>1. Init => Atomic!Init
    BY DEF Init, Atomic!Init
  <1>2. IInv /\ [Next]_vars => [Atomic!Next]_<<conversation, job, event, restored>>
    <2>. SUFFICES ASSUME IInv, [Next]_vars, ~ UNCHANGED data PROVE Atomic!Next
      BY DEF data
    <2>1. PICK s \in Slots : Commit(s)
      BY DEF Next, vars, Begin, Execute, Abort
    <2>2. tx[s].kind \in JobKinds => tx[s].of \in Jobs
      BY DEF IInv, Proper
    <2>3. tx[s].kind \in Kinds \cup {"idle"}
      BY Typed DEF IInv
    <2>. QED BY <2>1, <2>2, <2>3, CommitIsAtomic DEF Atomic!Next, Kinds, JobKinds
  <1>. QED BY <1>1, <1>2, InitInv, StepInv, PTL DEF Spec, AtomicSpec, Atomic!Spec

-----------------------------------------------------------------------------
(* Circles                                                                 *)

Tables == {"records", "research_jobs", "runtime_events"}

\* Where the plans lock rows, and that only a restore locks whole tables.
LEMMA PlanShape ==
  ASSUME IInv, NEW t \in Slots, NEW i \in 1..Len(Plan(t)), tx[t].kind # "restore"
  PROVE  LET lock == Plan(t)[i]
         IN /\ lock[1] \in Tables => lock = Table(lock[1])
            /\ lock[1] = "conversation" =>
                   \/ tx[t].kind = "ask" /\ i = 3
                   \/ tx[t].kind = "publish" /\ i = 5
                   \/ tx[t].kind = "drop" /\ i = 3
            /\ lock[1] \in Jobs =>
                   \/ tx[t].kind \in {"publish", "fail"} /\ i = 3 /\ lock[1] = tx[t].of
                   \/ tx[t].kind = "emit" /\ i = 4
                   \/ tx[t].kind = "drop" /\ i >= 6
            /\ lock[1] = "gate" => i = 1 /\ (lock = Gate \/ tx[t].kind = "evict")
            /\ \/ lock[1] \in Tables \cup Jobs
               \/ lock[1] = "conversation"
               \/ lock[1] = "gate"
  <1>. DEFINE lock == Plan(t)[i]
              Shape ==
                 /\ lock[1] \in Tables => lock = Table(lock[1])
                 /\ lock[1] = "conversation" =>
                        \/ tx[t].kind = "ask" /\ i = 3
                        \/ tx[t].kind = "publish" /\ i = 5
                        \/ tx[t].kind = "drop" /\ i = 3
                 /\ lock[1] \in Jobs =>
                        \/ tx[t].kind \in {"publish", "fail"} /\ i = 3 /\ lock[1] = tx[t].of
                        \/ tx[t].kind = "emit" /\ i = 4
                        \/ tx[t].kind = "drop" /\ i >= 6
                 /\ lock[1] = "gate" => i = 1 /\ (lock = Gate \/ tx[t].kind = "evict")
                 /\ \/ lock[1] \in Tables \cup Jobs
                    \/ lock[1] = "conversation"
                    \/ lock[1] = "gate"
  <1>. USE LocksAssumption DEF Gate, Table, Row, Tables
  <1>1. tx[t].kind \in Kinds \cup {"idle"} /\ (tx[t].kind \in JobKinds => tx[t].of \in Jobs)
    BY Typed DEF IInv, Proper
  <1>2. CASE tx[t].kind = "ask"
    <2>1. i \in 1..4
      BY <1>2, Lengths
    <2>2. Plan(t) = Ask_Statements(tx[t].of)
      BY <1>2, Plans
    <2>3. i = 1 \/ i = 2 \/ i = 3 \/ i = 4
      BY <2>1
    <2>. QED BY <1>2, <2>2, <2>3 DEF Ask_Statements
  <1>3. CASE tx[t].kind = "publish"
    <2>1. i \in 1..6
      BY <1>3, Lengths
    <2>2. Plan(t) = Publish_Statements(tx[t].of)
      BY <1>3, Plans
    <2>3. i = 1 \/ i = 2 \/ i = 3 \/ i = 4 \/ i = 5 \/ i = 6
      BY <2>1
    <2>. QED BY <1>1, <1>3, <2>2, <2>3 DEF Publish_Statements, JobKinds
  <1>4. CASE tx[t].kind = "fail"
    <2>1. i \in 1..3
      BY <1>4, Lengths
    <2>2. Plan(t) = Fail_Statements(tx[t].of)
      BY <1>4, Plans
    <2>3. i = 1 \/ i = 2 \/ i = 3
      BY <2>1
    <2>. QED BY <1>1, <1>4, <2>2, <2>3 DEF Fail_Statements, JobKinds
  <1>5. CASE tx[t].kind = "emit"
    <2>1. i \in 1..4
      BY <1>5, Lengths
    <2>2. Plan(t) = Emit_Statements(tx[t].of)
      BY <1>5, Plans
    <2>3. i = 1 \/ i = 2 \/ i = 3 \/ i = 4
      BY <2>1
    <2>. QED BY <1>1, <1>5, <2>2, <2>3 DEF Emit_Statements, JobKinds
  <1>6. CASE tx[t].kind = "drop"
    <2>1. i \in 1..(5 + Cardinality(Jobs)) /\ Cardinality(Jobs) \in Nat
      BY <1>6, Lengths
    <2>2. Plan(t) = Drop_Statements
      BY <1>6, Plans
    <2>3. CASE i \in 6..(5 + Cardinality(Jobs))
      <3>1. PICK j \in Jobs : Drop_Statements[i] = Row(j)
        BY <2>3, DropPlan
      <3>2. i >= 6 /\ lock[1] = j
        BY <2>2, <2>3, <3>1
      <3>. QED BY <1>6, <3>2
    <2>4. CASE i = 1 \/ i = 2 \/ i = 3 \/ i = 4 \/ i = 5
      BY <1>6, <2>2, <2>4, DropPlan
    <2>. QED BY <2>1, <2>3, <2>4
  <1>7. CASE tx[t].kind = "evict"
    <2>1. i \in 1..4
      BY <1>7, Lengths
    <2>2. Plan(t) = Evict_Statements
      BY <1>7, Plans
    <2>3. i = 1 \/ i = 2 \/ i = 3 \/ i = 4
      BY <2>1
    <2>. QED BY <1>7, <2>2, <2>3 DEF Evict_Statements
  <1>8. CASE tx[t].kind = "create"
    <2>1. i \in 1..2
      BY <1>8, Lengths
    <2>2. Plan(t) = <<Gate, Table("records")>>
      BY <1>8, Plans
    <2>3. i = 1 \/ i = 2
      BY <2>1
    <2>. QED BY <1>8, <2>2, <2>3
  <1>9. CASE tx[t].kind = "idle"
    BY <1>9, Lengths
  <1>. QED BY <1>1, <1>2, <1>3, <1>4, <1>5, <1>6, <1>7, <1>8, <1>9 DEF Kinds

\* The transactions of the application cannot wait for each other in a circle,
\* although answers lock a job before its conversation and deletions the
\* conversation before its jobs (db.py, library_deletion.py).
THEOREM NoOrdinaryDeadlock == Spec => []OnlyRestoreDeadlocks
  <1>1. ASSUME IInv, NEW S \in SUBSET Slots, Stuck(S), \A s \in S : tx[s].kind # "restore"
        PROVE  FALSE
    <2>. DEFINE Next1(s) == tx[s].done + 1
    <2>1. ASSUME NEW s \in S
          PROVE  /\ s \in Slots /\ tx[s].done \in Nat /\ Next1(s) \in 1..Len(Plan(s))
                 /\ Wanted(s) = Plan(s)[Next1(s)]
                 /\ \A i \in 1..tx[s].done : i \in 1..Len(Plan(s))
                 /\ \A lock \in Held(s) : \E i \in 1..tx[s].done : lock = Plan(s)[i]
      <3>1. s \in Slots /\ tx[s].done \in Nat /\ Waiting(s) /\ Len(Plan(s)) \in Nat
        BY <1>1, Typed, StatementsFinite DEF IInv, Stuck, WaitsFor, Plan
      <3>. QED BY <3>1 DEF Waiting, Wanted, Held
    \* Nobody in the circle waits for a table.
    <2>2. ASSUME NEW s \in S PROVE Wanted(s)[1] \notin Tables
      <3>. SUFFICES ASSUME Wanted(s)[1] \in Tables PROVE FALSE
        OBVIOUS
      <3>1. Wanted(s) = Table(Wanted(s)[1])
        BY <1>1, <2>1, PlanShape
      <3>2. PICK t \in S : WaitsFor(s, t)
        BY <1>1 DEF Stuck
      <3>3. Wanted(s) # Gate
        BY DEF Gate, Tables
      <3>4. PICK lock \in Held(t) : Conflict(Wanted(s), lock)
        BY <3>2, <3>3 DEF WaitsFor
      <3>5. lock = Table(lock[1])
        <4>1. lock[1] \in Tables
          BY <3>4 DEF Conflict
        <4>. QED BY <1>1, <2>1, <4>1, PlanShape
      <3>. QED BY <3>1, <3>4, <3>5 DEF Conflict, Table
    \* A deletion that has come to the rows of jobs waits for nobody.
    <2>3. ASSUME NEW s \in S, tx[s].kind = "drop", tx[s].done >= 5 PROVE FALSE
      <3>1. PICK t \in S : WaitsFor(s, t)
        BY <1>1 DEF Stuck
      <3>2. Wanted(s)[1] \in Jobs
        <4>1. Next1(s) \in 6..(5 + Cardinality(Jobs)) /\ Plan(s) = Drop_Statements
          BY <2>1, <2>3, Lengths, Plans
        <4>2. PICK j \in Jobs : Drop_Statements[Next1(s)] = Row(j)
          BY <4>1, DropPlan
        <4>. QED BY <2>1, <4>1, <4>2 DEF Row
      <3>3. PICK lock \in Held(t) : Conflict(Wanted(s), lock)
        BY <3>1, <3>2, LocksAssumption DEF WaitsFor, Gate
      <3>4. lock[1] \in Jobs
        BY <3>2, <3>3 DEF Conflict
      <3>5. PICK i \in 1..tx[t].done : lock = Plan(t)[i]
        BY <2>1
      <3>6. \/ tx[t].kind \in {"publish", "fail"} /\ i = 3 /\ lock[1] = tx[t].of
            \/ tx[t].kind = "emit" /\ i = 4
            \/ tx[t].kind = "drop" /\ i >= 6
        BY <1>1, <2>1, <3>4, <3>5, PlanShape
      <3>7. tx[t].done \in Nat /\ tx[t].done < Len(Plan(t)) /\ i <= tx[t].done /\ t \in Slots
            /\ Len(Plan(t)) \in Nat /\ i \in Nat
        BY <2>1, <3>5, Typed, StatementsFinite DEF Plan, IInv
      <3>8. tx[t].kind # "fail" /\ tx[t].kind # "emit"
        <4>1. ASSUME NEW n \in {3, 4}, Len(Plan(t)) = n, i = n PROVE FALSE
          <5>1. tx[t].done < n /\ n <= tx[t].done /\ tx[t].done \in Nat /\ n \in Nat
            BY <3>7, <4>1
          <5>. QED BY <5>1
        <4>2. tx[t].kind = "fail" => Len(Plan(t)) = 3 /\ i = 3
          BY <3>6, <3>7, Lengths
        <4>3. tx[t].kind = "emit" => Len(Plan(t)) = 4 /\ i = 4
          BY <3>6, <3>7, Lengths
        <4>. QED BY <4>1, <4>2, <4>3
      <3>9. s # t /\ s \in Slots /\ ~ Busy
        BY <1>1, <2>1, <2>3, <3>1 DEF IInv, Grounds, WaitsFor
      <3>10. tx[t].kind # "publish"
        <4>. SUFFICES ASSUME tx[t].kind = "publish" PROVE FALSE
          OBVIOUS
        <4>1. tx[t].done >= 3
          BY <3>6, <3>7
        <4>2. tx[t].of \in Jobs
          BY <3>4, <3>6
        <4>3. Grounds(t) /\ job[tx[t].of] = "running"
          BY <1>1, <3>7, <4>1 DEF IInv, Grounds
        <4>. QED BY <3>9, <4>2, <4>3 DEF Busy
      <3>11. tx[t].kind = "drop" /\ tx[t].done >= 3 /\ tx[s].done >= 3
        <4>1. tx[t].kind = "drop" /\ i >= 6
          BY <3>6, <3>8, <3>10
        <4>2. tx[t].done >= 3
          BY <3>7, <4>1
        <4>3. tx[s].done \in Nat /\ tx[s].done >= 5
          BY <2>1, <2>3
        <4>. QED BY <4>1, <4>2, <4>3
      <3>12. Row("conversation") \in Held(s) /\ Row("conversation") \in Held(t)
        BY <1>1, <2>3, <3>7, <3>9, <3>11, Holds DEF IInv
      <3>. QED BY <1>1, <3>7, <3>9, <3>12, Exclusive, Conflicts
    \* So nobody waits for the conversation,
    <2>4. ASSUME NEW s \in S, Wanted(s)[1] = "conversation" PROVE FALSE
      <3>1. PICK t \in S : WaitsFor(s, t)
        BY <1>1 DEF Stuck
      <3>2. PICK lock \in Held(t) : Conflict(Wanted(s), lock)
        BY <2>4, <3>1 DEF WaitsFor, Gate
      <3>3. lock[1] = "conversation"
        BY <2>4, <3>2 DEF Conflict
      <3>4. PICK i \in 1..tx[t].done : lock = Plan(t)[i]
        BY <2>1
      <3>5. \/ tx[t].kind = "ask" /\ i = 3
            \/ tx[t].kind = "publish" /\ i = 5
            \/ tx[t].kind = "drop" /\ i = 3
        BY <1>1, <2>1, <3>3, <3>4, PlanShape
      <3>6. tx[t].done \in Nat /\ Next1(t) \in 1..Len(Plan(t)) /\ i <= tx[t].done /\ t \in Slots
        BY <2>1, <3>4
      <3>7. CASE tx[t].kind = "ask"
        <4>0. Len(Plan(t)) = 4 /\ i = 3
          BY <3>5, <3>6, <3>7, Lengths
        <4>1. Next1(t) = 4
          BY <3>6, <4>0
        <4>2. Wanted(t) = Table("research_jobs")
          BY <2>1, <3>7, <4>1, Plans DEF Ask_Statements
        <4>. QED BY <2>2, <4>2 DEF Table, Tables
      <3>8. CASE tx[t].kind = "publish"
        <4>0. Len(Plan(t)) = 6 /\ i = 5
          BY <3>5, <3>6, <3>8, Lengths
        <4>1. Next1(t) = 6
          BY <3>6, <4>0
        <4>2. Wanted(t) = Table("runtime_events")
          BY <2>1, <3>8, <4>1, Plans DEF Publish_Statements
        <4>. QED BY <2>2, <4>2 DEF Table, Tables
      <3>9. CASE tx[t].kind = "drop"
        <4>1. Next1(t) = 4 \/ Next1(t) = 5 \/ tx[t].done >= 5
          BY <3>5, <3>6, <3>9
        <4>2. Next1(t) = 4 => Wanted(t) = Table("research_jobs")
          BY <2>1, <3>9, Plans, DropPlan
        <4>3. Next1(t) = 5 => Wanted(t) = Table("runtime_events")
          BY <2>1, <3>9, Plans, DropPlan
        <4>. QED BY <2>2, <2>3, <3>9, <4>1, <4>2, <4>3 DEF Table, Tables
      <3>. QED BY <3>5, <3>7, <3>8, <3>9
    \* nor for the row of a job,
    <2>5. ASSUME NEW s \in S, Wanted(s)[1] \in Jobs PROVE FALSE
      <3>1. PICK t \in S : WaitsFor(s, t)
        BY <1>1 DEF Stuck
      <3>2. PICK lock \in Held(t) : Conflict(Wanted(s), lock)
        BY <2>5, <3>1, LocksAssumption DEF WaitsFor, Gate
      <3>3. lock[1] \in Jobs
        BY <2>5, <3>2 DEF Conflict
      <3>4. PICK i \in 1..tx[t].done : lock = Plan(t)[i]
        BY <2>1
      <3>5. tx[t].kind \in JobKinds \/ (tx[t].kind = "drop" /\ i >= 6)
        BY <1>1, <2>1, <3>3, <3>4, PlanShape DEF JobKinds
      <3>6. tx[s].kind \in JobKinds \/ (tx[s].kind = "drop" /\ Next1(s) >= 6)
        BY <1>1, <2>1, <2>5, PlanShape DEF JobKinds
      <3>7. tx[t].kind \in JobKinds => t = Loop
        BY <1>1, <2>1 DEF IInv, Proper, JobKinds
      <3>8. tx[s].kind \in JobKinds => s = Loop
        BY <1>1, <2>1 DEF IInv, Proper, JobKinds
      <3>9. tx[t].kind = "drop" /\ i >= 6 => tx[t].done >= 5
        BY <2>1, <3>4
      <3>10. tx[s].kind = "drop" /\ Next1(s) >= 6 => tx[s].done >= 5
        BY <2>1
      <3>11. s # t
        BY <3>1 DEF WaitsFor
      <3>. QED BY <2>3, <3>5, <3>6, <3>7, <3>8, <3>9, <3>10, <3>11
    \* but all of them for the gate, which none of them holds.
    <2>6. ASSUME NEW s \in S
          PROVE  tx[s].done = 0 /\ (Wanted(s) = Gate \/ tx[s].kind = "evict")
      <3>1. Wanted(s)[1] = "gate"
        BY <1>1, <2>1, <2>2, <2>4, <2>5, PlanShape
      <3>2. Next1(s) = 1 /\ (Wanted(s) = Gate \/ tx[s].kind = "evict")
        BY <1>1, <2>1, <3>1, PlanShape
      <3>. QED BY <2>1, <3>2
    <2>7. \A s \in S : Held(s) = {}
      BY <2>1, <2>6
    <2>8. PICK s \in S : TRUE
      BY <1>1 DEF Stuck
    <2>9. PICK t \in S : Wanted(t) = <<"gate", "all">>
      BY <1>1, <2>7, <2>8 DEF Stuck, WaitsFor
    <2>10. Wanted(t) # Gate
      BY <2>9 DEF Gate
    <2>. QED BY <1>1, <2>7, <2>10 DEF Stuck, WaitsFor
  <1>2. IInv => OnlyRestoreDeadlocks
    BY <1>1 DEF OnlyRestoreDeadlocks
  <1>. QED BY <1>2, InitInv, StepInv, PTL DEF Spec

-----------------------------------------------------------------------------
(* What maintenance reads, and what the rows refer to                      *)

\* Rows change in the step of a commit, whose transaction then holds the gate.
LEMMA DataStep ==
  ASSUME IInv, [Next]_vars, ~ UNCHANGED data
  PROVE  \E t \in Slots : /\ Commit(t) /\ tx[t].kind \notin {"evict", "idle"}
                          /\ Gate \in Held(t)
  <1>1. PICK t \in Slots : Commit(t)
    BY DEF Next, vars, Begin, Execute, Abort
  <1>2. tx[t].kind \in Kinds /\ tx[t].kind # "evict"
    BY <1>1, CommitIsAtomic, Typed DEF IInv
  <1>3. Plan(t)[1] = Gate /\ Len(Plan(t)) \in Nat /\ Len(Plan(t)) >= 1
    <2>1. Plan(t)[1] = Gate
      BY <1>2, Plans, DropPlan DEF Kinds, Ask_Statements, Publish_Statements, Fail_Statements,
         Emit_Statements, Restore_Statements
    <2>2. \A n \in Nat : 5 + n \in Nat /\ 5 + n >= 1
      OBVIOUS
    <2>. QED BY <1>2, <2>1, <2>2, Lengths DEF Kinds
  <1>4. tx[t].done \in Nat /\ tx[t].done >= 1
    BY <1>1, <1>3, Typed DEF IInv, Commit, Waiting
  <1>5. 1 \in 1..tx[t].done
    BY <1>4
  <1>6. Gate \in Held(t)
    BY <1>3, <1>5, HeldAt DEF IInv
  <1>. QED BY <1>1, <1>2, <1>6 DEF Kinds

\* Between the first and the last statement of maintenance no other transaction commits, so
\* what it reads of three tables is one state of the library (db.py, library_cache.py).
THEOREM MaintenanceReadsOneState == Spec => MaintenanceSeesOneState
  <1>. DEFINE Sees == \A s \in Slots : tx[s].kind = "evict" /\ tx[s].done > 0 => UNCHANGED data
  <1>1. ASSUME IInv, [Next]_vars PROVE Sees
    <2>. SUFFICES ASSUME NEW s \in Slots, tx[s].kind = "evict", tx[s].done > 0, ~ UNCHANGED data
                  PROVE  FALSE
      OBVIOUS
    <2>1. PICK t \in Slots : tx[t].kind # "evict" /\ Gate \in Held(t)
      BY <1>1, DataStep
    <2>2. Plan(s)[1] = <<"gate", "all">>
      BY Plans DEF Evict_Statements
    <2>3. 1 \in 1..tx[s].done
      BY <1>1, Typed DEF IInv
    <2>4. <<"gate", "all">> \in Held(s)
      BY <1>1, <2>2, <2>3, HeldAt DEF IInv
    <2>5. Conflict(<<"gate", "all">>, Gate)
      BY DEF Conflict, Gate
    <2>. QED BY <1>1, <2>1, <2>4, <2>5, Exclusive
  <1>2. IInv /\ [Next]_vars => [Sees]_vars
    BY <1>1
  <1>. QED BY <1>2, InitInv, StepInv, PTL DEF Spec, MaintenanceSeesOneState

\* One-step transactions keep the references.
LEMMA AtomicReferences ==
  ASSUME TypeOK, ReferencesHold, [Atomic!Next]_<<conversation, job, event, restored>>
  PROVE  ReferencesHold'
  <1>. USE DEF ReferencesHold, TypeOK
  <1>1. CASE Atomic!Create \/ Atomic!Drop \/ Atomic!Restore
    BY <1>1 DEF Atomic!Create, Atomic!Drop, Atomic!Restore
  <1>2. ASSUME NEW j \in Jobs, Atomic!Ask(j) PROVE ReferencesHold'
    BY <1>2 DEF Atomic!Ask
  <1>3. ASSUME NEW j \in Jobs, Atomic!Publish(j) PROVE ReferencesHold'
    BY <1>3 DEF Atomic!Publish
  <1>4. ASSUME NEW j \in Jobs, Atomic!Fail(j) PROVE ReferencesHold'
    BY <1>4 DEF Atomic!Fail
  <1>5. ASSUME NEW j \in Jobs, Atomic!Emit(j) PROVE ReferencesHold'
    BY <1>5 DEF Atomic!Emit
  <1>. QED BY <1>1, <1>2, <1>3, <1>4, <1>5 DEF Atomic!Next

\* No committed state has a job without its conversation or an event without its job:
\* it holds of one-step transactions, and these transactions are such (db.py,
\* library_deletion.py, backup.py).
THEOREM ReferencesAlwaysHold == Spec => []ReferencesHold
  <1>1. Init => ReferencesHold
    BY DEF Init, ReferencesHold
  <1>2. TypeOK /\ ReferencesHold /\ [Atomic!Next]_<<conversation, job, event, restored>>
            => ReferencesHold'
    BY AtomicReferences
  <1>3. Spec => Init /\ []TypeOK /\ [][Atomic!Next]_<<conversation, job, event, restored>>
    BY LocksTypeCorrect, TransactionsAreAtomic, PTL DEF Spec, AtomicSpec, Atomic!Spec
  <1>. QED BY <1>1, <1>2, <1>3, PTL

\* Ordinary transactions never come to a standstill: if none of those that are open
\* could go on, all of them would form a circle without a restore (db.py).
THEOREM NoStandstill == Spec => []SomeoneGoesOn
  <1>1. IInv /\ OnlyRestoreDeadlocks => SomeoneGoesOn
    <2>. SUFFICES ASSUME IInv, OnlyRestoreDeadlocks, NEW s0 \in Slots, tx[s0] # Idle,
                         \A s \in Slots : tx[s].kind # "restore",
                         \A s \in Slots : ~ CanGoOn(s)
                  PROVE  FALSE
      BY DEF SomeoneGoesOn
    <2>. DEFINE S == {s \in Slots : tx[s] # Idle}
    <2>1. \A s \in S : Waiting(s) /\ \E t \in Slots : WaitsFor(s, t)
      BY DEF CanGoOn
    <2>2. ASSUME NEW s \in Slots, NEW t \in Slots, WaitsFor(s, t) PROVE t \in S
      <3>. SUFFICES ASSUME tx[t] = Idle PROVE FALSE
        OBVIOUS
      <3>1. tx[t].kind = "idle" /\ tx[t].done = 0
        BY DEF Idle
      <3>2. Held(t) = {} /\ ~ Waiting(t)
        BY <3>1, Lengths DEF Held, Waiting
      <3>. QED BY <2>2, <3>2 DEF WaitsFor
    <2>3. Stuck(S)
      BY <2>1, <2>2 DEF Stuck
    <2>. QED BY <2>3 DEF OnlyRestoreDeadlocks
  <1>. QED BY <1>1, InitInv, StepInv, NoOrdinaryDeadlock, PTL DEF Spec
=============================================================================
