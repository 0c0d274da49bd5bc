--------------------------- MODULE PlatformProofs ---------------------------
(***************************************************************************)
(* The audit rows of a target are its history, and what platform           *)
(* operations report of their targets agrees with them, for every number   *)
(* of targets, requests, operations and faults.                            *)
(***************************************************************************)
EXTENDS PlatformOperations, FiniteSetTheorems, TLAPS

-----------------------------------------------------------------------------
(* The k-th element of a finite set of numbers *)

UpTo(S, i) == {j \in S : j <= i}

\* Counting up to its elements numbers a finite set of numbers.
LEMMA NthExists ==
    ASSUME NEW n \in Nat, NEW S \in SUBSET (1..n), NEW k \in 1..Cardinality(S)
    PROVE  \E i \in S : Cardinality(UpTo(S, i)) = k
<1>. DEFINE c == Cardinality(S)
            f == [i \in S |-> Cardinality(UpTo(S, i))]
<1>1. IsFiniteSet(S) /\ c \in Nat
  <2>1. IsFiniteSet(1..n)
    BY FS_Interval
  <2>. QED
    BY <2>1, FS_Subset, FS_CardinalityType
<1>2. ASSUME NEW i \in S
      PROVE  IsFiniteSet(UpTo(S, i)) /\ Cardinality(UpTo(S, i)) \in 1..c
  <2>1. UpTo(S, i) \in SUBSET S
    BY DEF UpTo
  <2>2. IsFiniteSet(UpTo(S, i)) /\ Cardinality(UpTo(S, i)) <= c
    BY <1>1, <2>1, FS_Subset
  <2>3. Cardinality(UpTo(S, i)) \in Nat
    BY <2>2, FS_CardinalityType
  <2>4. i \in UpTo(S, i)
    BY DEF UpTo
  <2>5. Cardinality(UpTo(S, i)) # 0
    BY <2>2, <2>4, FS_EmptySet
  <2>. QED
    BY <1>1, <2>2, <2>3, <2>5
<1>3. ASSUME NEW i \in S, NEW j \in S, i < j
      PROVE  Cardinality(UpTo(S, i)) # Cardinality(UpTo(S, j))
  <2>0. \A l \in S : l \in Int
    OBVIOUS
  <2>1. UpTo(S, i) \in SUBSET UpTo(S, j)
    <3>1. \A l \in S : l <= i => l <= j
      BY <1>3, <2>0
    <3>. QED
      BY <3>1 DEF UpTo
  <2>2. j \in UpTo(S, j) /\ j \notin UpTo(S, i)
    BY <1>3, <2>0 DEF UpTo
  <2>. QED
    BY <1>2, <2>1, <2>2, FS_Subset
<1>4. f \in [S -> 1..c]
  BY <1>2
<1>5. ASSUME NEW i \in S, NEW j \in S, f[i] = f[j]
      PROVE  i = j
  <2>1. i \in Int /\ j \in Int
    OBVIOUS
  <2>2. Cardinality(UpTo(S, i)) = Cardinality(UpTo(S, j))
    BY <1>5
  <2>3. ~(i < j) /\ ~(j < i)
    BY <1>3, <2>2
  <2>. QED
    BY <2>1, <2>3
<1>6. f \in Injection(S, 1..c)
  BY <1>4, <1>5 DEF Injection, IsInjective
<1>7. IsFiniteSet(1..c) /\ Cardinality(1..c) = c
  <2>1. IsFiniteSet(1..c) /\ Cardinality(1..c) = IF 1 > c THEN 0 ELSE c - 1 + 1
    BY SMTT(30), <1>1, FS_Interval
  <2>. QED
    BY <1>1, <2>1
<1>8. f \in Surjection(S, 1..c)
  <2>. HIDE DEF f, c
  <2>1. Cardinality(S) = Cardinality(1..c)
    BY <1>7 DEF c
  <2>. QED
    BY <1>1, <1>6, <1>7, <2>1, FS_Injection
<1>9. \E i \in S : f[i] = k
  BY <1>8 DEF Surjection
<1>. QED
  BY <1>9

\* The k-th elements come in order, and there are as many as the set has.
LEMMA NthFacts ==
    ASSUME NEW n \in Nat, NEW S \in SUBSET (1..n)
    PROVE  /\ \A k \in 1..Cardinality(S) : Nth(S, k) \in S
           /\ \A k \in 1..Cardinality(S) : k # 1 => \E j \in S : j < Nth(S, k)
           /\ Cardinality(S) \in Nat
           /\ Cardinality(S) = 0 <=> S = {}
<1>1. IsFiniteSet(S) /\ Cardinality(S) \in Nat
  <2>1. IsFiniteSet(1..n)
    BY FS_Interval
  <2>. QED
    BY <2>1, FS_Subset, FS_CardinalityType
<1>2. Cardinality(S) = 0 <=> S = {}
  BY <1>1, FS_EmptySet
<1>3. ASSUME NEW k \in 1..Cardinality(S)
      PROVE  Nth(S, k) \in S /\ Cardinality(UpTo(S, Nth(S, k))) = k
  <2>1. \E i \in S : Cardinality({j \in S : j <= i}) = k
    BY NthExists DEF UpTo
  <2>. QED
    BY <2>1 DEF Nth, UpTo
<1>4. ASSUME NEW k \in 1..Cardinality(S), k # 1
      PROVE  \E j \in S : j < Nth(S, k)
  <2>1. SUFFICES ASSUME \A j \in S : ~(j < Nth(S, k)) PROVE FALSE
    OBVIOUS
  <2>2. \A j \in S : j \in Int
    OBVIOUS
  <2>3. Nth(S, k) \in S
    BY <1>3
  <2>4. UpTo(S, Nth(S, k)) = {Nth(S, k)}
    <3>1. \A j \in S : j <= Nth(S, k) <=> j = Nth(S, k)
      <4>. DEFINE x == Nth(S, k)
      <4>1. x \in Int /\ \A j \in S : ~(j < x)
        BY <2>1, <2>2, <2>3
      <4>. HIDE DEF x
      <4>2. \A j \in S : j <= x <=> j = x
        BY <2>2, <4>1
      <4>. QED
        BY <4>2 DEF x
    <3>. QED
      BY <2>3, <3>1 DEF UpTo
  <2>5. Cardinality({Nth(S, k)}) = 1
    BY FS_Singleton
  <2>. QED
    BY <1>3, <1>4, <2>4, <2>5
<1>. QED
  BY <1>1, <1>2, <1>3, <1>4

-----------------------------------------------------------------------------
(* A step adds audit rows to a target *)

\* s is added to the audit rows of t: it tells what becomes of the value, and
\* each row that is not late names the value it replaces.
Adds(t, s) ==
    /\ trail'[t] = trail[t] \o s
    /\ value'[t] = IF s = <<>> THEN value[t] ELSE s[Len(s)].next
    /\ \A k \in 1..Len(s) : ~s[k].late => k = 1 /\ s[k].prev = value[t] /\ t \notin unaudited
    /\ t \in unaudited' <=> t \in unaudited /\ s = <<>>

\* A submission adds one audit row per item, in order.
LEMMA CommitRequestAdds ==
    ASSUME TrailTypeOK, RequestsFresh, NEW c \in Clients, CommitRequest(c), NEW t \in Targets
    PROVE  \E s \in Seq(Entries) :
              /\ Adds(t, s)
              /\ \A k \in 1..Len(s) : s[k].by = Absent
              /\ s = <<>> <=> Places(request[c], t) = {}
<1>. DEFINE q == request[c]
            S == Places(q, t)
            m == Cardinality(S)
            s == [k \in 1..m |-> ItemEntry(q, Nth(S, k))]
<1>1. /\ q \in Requests /\ q.items \in Seq(Items) /\ Len(q.items) \in Nat
      /\ q.before \in [Targets -> Values \cup {Absent}]
      /\ \A i \in 1..Len(q.items) : q.items[i] \in Items
  <2>1. q \in Requests
    BY DEF CommitRequest, TrailTypeOK
  <2>2. q.items \in Seq(Items) /\ q.before \in [Targets -> Values \cup {Absent}]
    BY <2>1 DEF Requests
  <2>. QED
    BY <2>1, <2>2
<1>2. S \in SUBSET (1..Len(q.items)) /\ \A i \in S : q.items[i].target = t
  BY DEF Places
<1>3. /\ \A k \in 1..m : Nth(S, k) \in S
      /\ \A k \in 1..m : k # 1 => \E j \in S : j < Nth(S, k)
      /\ m \in Nat /\ (m = 0 <=> S = {})
  <2>. HIDE DEF S
  <2>. QED
    BY <1>1, <1>2, NthFacts
<1>4. ASSUME NEW i \in S
      PROVE  /\ ItemEntry(q, i) \in Entries
             /\ ItemEntry(q, i).by = Absent /\ ItemEntry(q, i).next = q.items[i].next
             /\ ItemEntry(q, i).prev = q.before[t]
             /\ ItemEntry(q, i).late <=> t \in q.late \/ \E j \in S : j < i
  <2>1. q.items[i] \in Items /\ q.items[i].target = t
    BY <1>1, <1>2
  <2>2. q.items[i].next \in Values /\ q.before[t] \in Values \cup {Absent}
    BY <1>1, <2>1 DEF Items
  <2>. DEFINE late == t \in q.late \/ \E j \in S : j < i
  <2>3. ItemEntry(q, i)
          = [prev |-> q.before[t], next |-> q.items[i].next, by |-> Absent, late |-> late]
    BY <2>1 DEF ItemEntry, Entry
  <2>4. late \in BOOLEAN
    BY Zenon
  <2>. HIDE DEF late
  <2>5. ItemEntry(q, i).late = late
    BY <2>3
  <2>6. /\ ItemEntry(q, i) \in Entries
        /\ ItemEntry(q, i).by = Absent /\ ItemEntry(q, i).next = q.items[i].next
        /\ ItemEntry(q, i).prev = q.before[t]
    BY <2>2, <2>3, <2>4 DEF Entries
  <2>. QED
    BY <2>5, <2>6 DEF late
<1>5. s \in Seq(Entries) /\ Len(s) = m /\ \A k \in 1..m : s[k] = ItemEntry(q, Nth(S, k))
  <2>1. \A k \in 1..m : ItemEntry(q, Nth(S, k)) \in Entries
    BY <1>3, <1>4
  <2>. HIDE DEF S, m, q
  <2>. QED
    BY <1>3, <2>1
<1>6. s = <<>> <=> S = {}
  <2>. HIDE DEF S, m
  <2>1. s = <<>> <=> m = 0
    BY <1>3, <1>5
  <2>. QED
    BY <1>3, <2>1
<1>7. trail'[t] = trail[t] \o s
  BY DEF CommitRequest
<1>8. value'[t] = IF s = <<>> THEN value[t] ELSE s[Len(s)].next
  <2>1. value'[t] = IF S # {} THEN q.items[Nth(S, m)].next ELSE value[t]
    BY DEF CommitRequest
  <2>2. S # {} => m \in 1..m
    BY <1>3
  <2>3. S # {} => s[m].next = q.items[Nth(S, m)].next
    <3>. HIDE DEF s, S, m, q
    <3>. QED
      BY <1>3, <1>4, <1>5, <2>2
  <2>. HIDE DEF s, S, m, q
  <2>. QED
    BY <1>5, <1>6, <2>1, <2>3
<1>9. ASSUME NEW k \in 1..Len(s), ~s[k].late
      PROVE  k = 1 /\ s[k].prev = value[t] /\ t \notin unaudited
  <2>1. k \in 1..m /\ Nth(S, k) \in S
    BY <1>3, <1>5
  <2>2. /\ s[k].prev = q.before[t]
        /\ s[k].late <=> t \in q.late \/ \E j \in S : j < Nth(S, k)
    <3>. HIDE DEF s, S, m, q
    <3>. QED
      BY <1>4, <1>5, <2>1
  <2>3. t \notin q.late /\ ~(\E j \in S : j < Nth(S, k))
    BY <1>9, <2>2
  <2>4. q # Absent
    BY DEF CommitRequest
  <2>5. q.before[t] = value[t]
    BY <2>3, <2>4 DEF RequestsFresh
  <2>6. t \in Decisions
    BY <1>1, <1>2, <2>1 DEF Items
  <2>7. t \notin unaudited
    BY <2>6 DEF TrailTypeOK
  <2>. QED
    BY <1>3, <2>1, <2>2, <2>3, <2>5, <2>7
<1>10. \A k \in 1..Len(s) : s[k].by = Absent
  <2>. HIDE DEF s, S, m, q
  <2>. QED
    BY <1>3, <1>4, <1>5
<1>11. t \in unaudited' <=> t \in unaudited /\ S = {}
  <2>1. unaudited' = unaudited \ {u \in Targets : Places(q, u) # {}}
    BY DEF CommitRequest
  <2>. QED
    BY <2>1
<1>. HIDE DEF s
<1>. QED
  BY <1>5, <1>6, <1>7, <1>8, <1>9, <1>10, <1>11 DEF Adds

\* Rows added like that keep the history of a target.
LEMMA AddsHistory ==
    ASSUME TrailTypeOK, TrailIsHistory, NEW t \in Targets, NEW s \in Seq(Entries), Adds(t, s),
           initial' = initial
    PROVE  /\ \/ t \in unaudited'
              \/ value'[t] = IF trail'[t] = <<>> THEN initial'[t] ELSE trail'[t][Len(trail'[t])].next
           /\ \A i \in 1..Len(trail'[t]) : ~trail'[t][i].late =>
                 trail'[t][i].prev = IF i = 1 THEN initial'[t] ELSE trail'[t][i - 1].next
<1>. DEFINE u == trail[t]
            w == trail'[t]
            n == Len(u)
<1>1. /\ u \in Seq(Entries) /\ w = u \o s /\ n \in Nat /\ Len(s) \in Nat
      /\ Len(w) = n + Len(s)
      /\ \A i \in 1..n : w[i] = u[i]
      /\ \A k \in 1..Len(s) : w[n + k] = s[k]
      /\ u = <<>> <=> n = 0
      /\ s = <<>> <=> Len(s) = 0
      /\ w = <<>> <=> n + Len(s) = 0
  <2>1. u \in Seq(Entries) /\ w = u \o s
    BY DEF TrailTypeOK, Adds
  <2>. HIDE DEF u, w
  <2>. QED
    BY <2>1 DEF n
<1>2. /\ t \in unaudited \/ value[t] = IF u = <<>> THEN initial[t] ELSE u[n].next
      /\ \A i \in 1..n : ~u[i].late => u[i].prev = IF i = 1 THEN initial[t] ELSE u[i - 1].next
  BY DEF TrailIsHistory, LastNext
<1>3. /\ value'[t] = IF s = <<>> THEN value[t] ELSE s[Len(s)].next
      /\ \A k \in 1..Len(s) : ~s[k].late => k = 1 /\ s[k].prev = value[t] /\ t \notin unaudited
      /\ t \in unaudited' <=> t \in unaudited /\ s = <<>>
  BY DEF Adds
<1>4. t \in unaudited' \/ value'[t] = IF w = <<>> THEN initial[t] ELSE w[Len(w)].next
  <2>. HIDE DEF u, w, n
  <2>1. CASE s = <<>>
    <3>1. Len(w) = n /\ (w = <<>> <=> u = <<>>)
      BY <1>1, <2>1
    <3>2. u # <<>> => w[n] = u[n]
      BY <1>1
    <3>. QED
      BY <1>2, <1>3, <2>1, <3>1, <3>2
  <2>2. CASE s # <<>>
    <3>1. w # <<>> /\ w[Len(w)] = s[Len(s)]
      BY <1>1, <2>2
    <3>. QED
      BY <1>3, <2>2, <3>1
  <2>. QED
    BY <2>1, <2>2
<1>5. ASSUME NEW i \in 1..Len(w), ~w[i].late
      PROVE  w[i].prev = IF i = 1 THEN initial[t] ELSE w[i - 1].next
  <2>. HIDE DEF u, w, n
  <2>1. CASE i \in 1..n
    <3>1. w[i] = u[i] /\ (i # 1 => w[i - 1] = u[i - 1])
      BY <1>1, <2>1
    <3>. QED
      BY <1>2, <1>5, <2>1, <3>1
  <2>2. CASE i \notin 1..n
    <3>1. i - n \in 1..Len(s) /\ n + (i - n) = i
      BY <1>1, <2>2
    <3>2. w[i] = s[i - n]
      BY <1>1, <3>1
    <3>3. i - n = 1 /\ w[i].prev = value[t] /\ t \notin unaudited
      BY <1>3, <1>5, <3>1, <3>2
    <3>4. i = n + 1
      BY <1>1, <3>3
    <3>5. CASE n = 0
      BY <1>1, <1>2, <3>3, <3>4, <3>5
    <3>6. CASE n # 0
      <4>1. n \in 1..n /\ i - 1 = n /\ i # 1
        BY <1>1, <3>4, <3>6
      <4>2. w[n] = u[n]
        BY <1>1, <4>1
      <4>. QED
        BY <1>1, <1>2, <3>3, <3>6, <4>1, <4>2
    <3>. QED
      BY <3>5, <3>6
  <2>. QED
    BY <2>1, <2>2
<1>. QED
  BY <1>4, <1>5

-----------------------------------------------------------------------------
(* What an operation is and has reported, as long as it does not take a step *)

\* The handler is where it was.
Alike(r, q) ==
    /\ r.at = q.at /\ r.todo = q.todo /\ r.target = q.target
    /\ r.success = q.success /\ r.failed = q.failed

\* The audit rows of operation o are what they were.
SameChanges(o) == \A t \in Targets : ChangesBy(o, t)' = ChangesBy(o, t)

\* The rows of an operation name targets.
LEMMA RowFacts ==
    ASSUME TypeOK, NEW o \in Operations
    PROVE  /\ op[o] # Absent => op[o] \in Rows /\ op[o].targets \in SUBSET Targets
           /\ op[o] # Absent => op[o].success \in Nat /\ op[o].failed \in Nat
           /\ run[o] # Absent =>
                 /\ run[o] \in Runs
                 /\ run[o].at \in Steps /\ run[o].todo \in SUBSET Targets
                 /\ run[o].target \in Targets \cup {Absent}
                 /\ run[o].before \in Values \cup {Absent}
                 /\ run[o].late \in BOOLEAN
                 /\ run[o].success \in Nat /\ run[o].failed \in Nat
           /\ \A i \in item : i.op \in Operations /\ i.target \in Targets
<1>1. op[o] # Absent => op[o] \in Rows
  BY DEF TypeOK
<1>2. run[o] # Absent => run[o] \in Runs
  BY DEF TypeOK
<1>3. \A i \in item : i \in ItemRows
  BY DEF TypeOK
<1>. QED
  BY <1>1, <1>2, <1>3 DEF Rows, Runs, ItemRows

\* The row of an operation is as true as it was while no change is added; more
\* items may be written and more of them excused.
LEMMA KeepsRow ==
    ASSUME TypeOK, NEW o \in Operations, OperationFits(o), StatusFits(o),
           op'[o] = op[o], SameChanges(o),
           item \subseteq item', misreported \subseteq misreported'
    PROVE  OperationFits(o)' /\ StatusFits(o)'
<1>1. \A t \in Targets : ChangedBy(o, t)' <=> ChangedBy(o, t)
  BY DEF ChangedBy, SameChanges
<1>2. Exists(o)' <=> Exists(o)
  BY DEF Exists
<1>3. OperationFits(o)'
  BY <1>2 DEF OperationFits
<1>4. StatusFits(o)'
  <2>. SUFFICES ASSUME Exists(o), op[o].status # "RUNNING" PROVE StatusFits(o)'
    BY <1>2 DEF StatusFits
  <2>. DEFINE changed == {t \in op[o].targets : ChangedBy(o, t)}
              excused == {t \in op[o].targets : <<o, t>> \in misreported}
              excusedNow == {t \in op[o].targets : <<o, t>> \in misreported'}
  <2>1. /\ op[o].success + op[o].failed = Cardinality(op[o].targets)
        /\ op[o].status = "COMPLETED" => changed = op[o].targets
        /\ op[o].status = "FAILED" => changed \subseteq excused
        /\ op[o].status = "PARTIAL_FAILED" => changed # {} /\ changed \ excused # op[o].targets
    BY DEF StatusFits
  <2>2. \A t \in op[o].targets : ChangedBy(o, t)' <=> ChangedBy(o, t)
    BY <1>1, RowFacts DEF Exists
  <2>3. changed = {t \in op[o].targets : ChangedBy(o, t)'}
    BY <2>2
  <2>4. excused \subseteq excusedNow /\ changed \subseteq op[o].targets
    OBVIOUS
  <2>5. /\ op[o].success + op[o].failed = Cardinality(op[o].targets)
        /\ op[o].status = "COMPLETED" => changed = op[o].targets
        /\ op[o].status = "FAILED" => changed \subseteq excusedNow
        /\ op[o].status = "PARTIAL_FAILED" => changed # {} /\ changed \ excusedNow # op[o].targets
    <3>. HIDE DEF changed, excused, excusedNow
    <3>. QED
      BY <2>1, <2>4
  <2>. QED
    BY <2>3, <2>5 DEF StatusFits
<1>. QED
  BY <1>3, <1>4

\* So are the counts while the handler counts no target.
LEMMA KeepsCounts ==
    ASSUME TypeOK, NEW o \in Operations, CountsFit(o), RunFits(o),
           op'[o] = op[o], run[o] # Absent, run'[o] # Absent,
           run'[o].todo = run[o].todo,
           run'[o].success = run[o].success, run'[o].failed = run[o].failed,
           \A t \in op[o].targets \ run[o].todo : ChangedBy(o, t)' <=> ChangedBy(o, t),
           misreported \subseteq misreported'
    PROVE  CountsFit(o)'
<1>. DEFINE over == op[o].targets \ run[o].todo
<1>1. \A t \in over : Missed(o, t) => Missed(o, t)'
  BY DEF Missed
<1>2. /\ run[o].success + run[o].failed = Cardinality(over)
      /\ IF run[o].failed = 0 THEN \A t \in over : ChangedBy(o, t)
         ELSE \E t \in over : Missed(o, t)
      /\ IF run[o].success = 0 THEN \A t \in over : Missed(o, t)
         ELSE \E t \in over : ChangedBy(o, t)
  BY DEF CountsFit
<1>3. over = op'[o].targets \ run'[o].todo /\ \A t \in over : ChangedBy(o, t)' <=> ChangedBy(o, t)
  OBVIOUS
<1>4. /\ run'[o].success + run'[o].failed = Cardinality(over)
      /\ IF run'[o].failed = 0 THEN \A t \in over : ChangedBy(o, t)'
         ELSE \E t \in over : Missed(o, t)'
      /\ IF run'[o].success = 0 THEN \A t \in over : Missed(o, t)'
         ELSE \E t \in over : ChangedBy(o, t)'
  <2>. HIDE DEF over
  <2>. QED
    BY <1>1, <1>2, <1>3
<1>. QED
  BY <1>3, <1>4 DEF CountsFit

\* An operation whose row, handler, items and changes are what they were fits as
\* it did; its handler may have been lost, and more of it be excused.
LEMMA Keeps ==
    ASSUME TypeOK, NEW o \in Operations, Fits(o),
           op'[o] = op[o],
           run'[o] = Absent \/ (run[o] # Absent /\ Alike(run[o], run'[o])),
           SameChanges(o),
           item \subseteq item', \A i \in item' : i.op = o => i \in item,
           misreported \subseteq misreported'
    PROVE  Fits(o)'
<1>0. /\ op[o] # Absent => op[o].targets \in SUBSET Targets
      /\ \A i \in item : i.target \in Targets
      /\ run[o] # Absent => run[o].todo \in SUBSET Targets
  BY RowFacts
<1>1. \A t \in Targets : (ChangesBy(o, t)' = ChangesBy(o, t)) /\ (ChangedBy(o, t)' <=> ChangedBy(o, t))
  BY DEF ChangedBy, SameChanges
<1>2. Exists(o)' <=> Exists(o)
  BY DEF Exists
<1>3. \A t \in Targets : Missed(o, t) => Missed(o, t)'
  BY <1>1 DEF Missed
<1>4. OperationFits(o)' /\ StatusFits(o)'
  BY KeepsRow DEF Fits
<1>5. RunFits(o)'
  BY <1>2 DEF Fits, RunFits, Alike
<1>6. ASSUME run'[o] # Absent, NEW t \in Targets
      PROVE  Behind(o, t)' <=> Behind(o, t)
  BY <1>6 DEF Behind, Alike
<1>7. ChangesFit(o)'
  <2>1. ASSUME NEW t \in Targets
        PROVE  /\ \A i, j \in ChangesBy(o, t)' : i = j
               /\ ChangedBy(o, t)' => Exists(o)' /\ t \in op'[o].targets
    BY <1>1, <1>2 DEF Fits, ChangesFit
  <2>2. ASSUME NEW t \in Targets, run'[o] # Absent
        PROVE  /\ t \in run'[o].todo /\ ~Behind(o, t)' => ~ChangedBy(o, t)'
               /\ Behind(o, t)' /\ run'[o].at = "report" => ChangedBy(o, t)'
               /\ Behind(o, t)' /\ run'[o].at = "fail" => Missed(o, t)'
    <3>1. run[o] # Absent /\ Alike(run[o], run'[o])
      BY <2>2
    <3>2. /\ t \in run[o].todo /\ ~Behind(o, t) => ~ChangedBy(o, t)
          /\ Behind(o, t) /\ run[o].at = "report" => ChangedBy(o, t)
          /\ Behind(o, t) /\ run[o].at = "fail" => Missed(o, t)
      BY <3>1 DEF Fits, ChangesFit
    <3>. QED
      BY <1>1, <1>3, <1>6, <2>2, <3>1, <3>2 DEF Alike
  <2>. QED
    BY <2>1, <2>2 DEF ChangesFit
<1>8. ItemsFit(o)'
  <2>1. ASSUME NEW i \in item', i.op = o
        PROVE  /\ i.status = "SUCCEEDED" => ChangedBy(o, i.target)'
               /\ i.status = "FAILED" =>
                     /\ Missed(o, i.target)'
                     /\ Exists(o)'
                     /\ run'[o] # Absent => i.target \notin run'[o].todo
    <3>1. i \in item /\ i.target \in Targets
      BY <1>0, <2>1
    <3>2. /\ i.status = "SUCCEEDED" => ChangedBy(o, i.target)
          /\ i.status = "FAILED" =>
                /\ Missed(o, i.target)
                /\ Exists(o)
                /\ run[o] # Absent => i.target \notin run[o].todo
      BY <2>1, <3>1 DEF Fits, ItemsFit
    <3>. QED
      BY <1>1, <1>2, <1>3, <3>1, <3>2 DEF Alike
  <2>. QED
    BY <2>1 DEF ItemsFit
<1>9. CountsFit(o)'
  <2>1. run'[o] = Absent => CountsFit(o)'
    BY DEF CountsFit
  <2>2. ASSUME run'[o] # Absent PROVE CountsFit(o)'
    <3>1. run[o] # Absent /\ Alike(run[o], run'[o]) /\ Exists(o)
      BY <2>2 DEF Fits, RunFits
    <3>2. op[o].targets \subseteq Targets
      BY <1>0, <3>1 DEF Exists
    <3>. QED
      BY <1>1, <2>2, <3>1, <3>2, KeepsCounts DEF Fits, Alike
  <2>. QED
    BY <2>1, <2>2
<1>. QED
  BY <1>4, <1>5, <1>7, <1>8, <1>9 DEF Fits

-----------------------------------------------------------------------------
(* Who has changed what *)

\* Rows that others add are no changes by operation o.
LEMMA ForeignAdds ==
    ASSUME TrailTypeOK, NEW o, NEW t \in Targets, NEW s \in Seq(Entries), Adds(t, s),
           \A k \in 1..Len(s) : s[k].by # o
    PROVE  ChangesBy(o, t)' = ChangesBy(o, t)
<1>. DEFINE u == trail[t]
            w == trail'[t]
<1>1. u \in Seq(Entries) /\ w = u \o s
  BY DEF TrailTypeOK, Adds
<1>2. {i \in 1..Len(w) : w[i].by = o} = {i \in 1..Len(u) : u[i].by = o}
  <2>. HIDE DEF u, w
  <2>1. /\ Len(u) \in Nat /\ Len(s) \in Nat /\ Len(w) = Len(u) + Len(s)
        /\ \A i \in 1..Len(u) : w[i] = u[i]
        /\ \A k \in 1..Len(s) : w[Len(u) + k] = s[k]
    BY <1>1
  <2>2. ASSUME NEW i \in 1..Len(w), i \notin 1..Len(u)
        PROVE  w[i].by # o
    <3>1. i - Len(u) \in 1..Len(s) /\ Len(u) + (i - Len(u)) = i
      BY <2>1, <2>2
    <3>. QED
      BY <2>1, <3>1
  <2>3. 1..Len(u) \subseteq 1..Len(w)
    BY <2>1
  <2>. QED
    BY <2>1, <2>2, <2>3
<1>. QED
  BY <1>2 DEF ChangesBy

\* Where the audit rows stay, so do the changes.
LEMMA NothingAdded ==
    ASSUME NEW o, trail' = trail
    PROVE  SameChanges(o)
BY DEF SameChanges, ChangesBy

\* A submission is by no operation.
LEMMA RequestChanges ==
    ASSUME TrailTypeOK, RequestsFresh, NEW c \in Clients, CommitRequest(c), NEW o \in Operations
    PROVE  SameChanges(o)
<1>1. ASSUME NEW t \in Targets PROVE ChangesBy(o, t)' = ChangesBy(o, t)
  <2>1. PICK s \in Seq(Entries) : Adds(t, s) /\ \A k \in 1..Len(s) : s[k].by = Absent
    BY CommitRequestAdds
  <2>2. o # Absent
    BY AuditTrailAssumption
  <2>. QED
    BY <2>1, <2>2, ForeignAdds
<1>. QED
  BY <1>1 DEF SameChanges

\* The transaction of an operation adds one row to its target, by the operation.
LEMMA CommitAdds ==
    ASSUME TypeOK, RunsFresh, NEW o \in Operations, Fits(o), NEW step, Commit(o, step)
    PROVE  /\ run[o] # Absent /\ run[o].at = "write"
           /\ run[o].target \in run[o].todo /\ run[o].target \in Targets
           /\ op[o] # Absent /\ op[o].next \in Values
           /\ \E e \in Entries : e.by = o /\ Adds(run[o].target, <<e>>)
           /\ \A t \in Targets \ {run[o].target} : Adds(t, <<>>)
           /\ trail' \in [Targets -> Seq(Entries)]
           /\ value' \in [Targets -> Values \cup {Absent}]
<1>. DEFINE r == run[o]
            e == Entry(r.before, op[o].next, o, r.late)
<1>1. run[o] # Absent /\ run[o].at = "write"
  BY DEF Commit, At
<1>2. r.target \in r.todo /\ TableOf[r.target] = op[o].table /\ Exists(o) /\ r.target \in op[o].targets
  BY <1>1 DEF Fits, RunFits
<1>3. /\ r.target \in Targets /\ op[o] # Absent
      /\ r.before \in Values \cup {Absent} /\ r.late \in BOOLEAN
  BY <1>1, <1>2, RowFacts DEF Exists
<1>4. op[o].next \in Values
  <2>1. op[o].next \in ValuesOf[r.target]
    BY <1>2, <1>3 DEF Fits, OperationFits
  <2>. QED
    BY <1>3, <2>1 DEF Values
<1>5. e \in Entries /\ e.by = o /\ e.next = op[o].next /\ e.prev = r.before /\ e.late = r.late
  BY <1>3, <1>4 DEF Entry, Entries
<1>6. /\ value' = [value EXCEPT ![r.target] = e.next]
      /\ trail' = [trail EXCEPT ![r.target] = Append(@, e)]
      /\ unaudited' = unaudited \ {r.target}
  BY DEF Commit, Change
<1>7. ~r.late => r.before = value[r.target] /\ r.target \notin unaudited
  BY <1>1 DEF RunsFresh, At
<1>. HIDE DEF e, r
<1>8. value \in [Targets -> Values \cup {Absent}] /\ trail \in [Targets -> Seq(Entries)]
  BY DEF TypeOK, TrailTypeOK
<1>9. value'[r.target] = e.next /\ trail'[r.target] = Append(trail[r.target], e)
  BY <1>3, <1>6, <1>8
<1>10. Adds(r.target, <<e>>)
  <2>1. Append(trail[r.target], e) = trail[r.target] \o <<e>>
    BY <1>3, <1>5, <1>8
  <2>2. Len(<<e>>) = 1 /\ <<e>>[1] = e /\ <<e>> # <<>>
    OBVIOUS
  <2>. QED
    BY <1>5, <1>6, <1>7, <1>9, <2>1, <2>2 DEF Adds
<1>11. ASSUME NEW t \in Targets \ {r.target} PROVE Adds(t, <<>>)
  <2>1. value'[t] = value[t] /\ trail'[t] = trail[t] /\ trail[t] \in Seq(Entries)
    BY <1>6, <1>8
  <2>2. trail[t] \o <<>> = trail[t]
    BY <2>1
  <2>. QED
    BY <1>6, <2>1, <2>2 DEF Adds
<1>12. trail' \in [Targets -> Seq(Entries)] /\ value' \in [Targets -> Values \cup {Absent}]
  BY <1>3, <1>4, <1>5, <1>6, <1>8
<1>. QED
  BY <1>1, <1>2, <1>3, <1>4, <1>5, <1>10, <1>11, <1>12 DEF r

\* It is the one change by the operation.
LEMMA CommitChanges ==
    ASSUME TypeOK, RunsFresh, NEW o \in Operations, Fits(o), NEW step, Commit(o, step),
           NEW T \in Targets, run[o].target = T
    PROVE  /\ \A p \in Operations \ {o} : SameChanges(p)
           /\ \A t \in Targets \ {T} : ChangesBy(o, t)' = ChangesBy(o, t)
           /\ \A i, j \in ChangesBy(o, T)' : i = j
           /\ ChangedBy(o, T)' /\ ~ChangedBy(o, T)
<1>. DEFINE u == trail[T]
            w == trail'[T]
<1>1. /\ run[o] # Absent /\ run[o].at = "write" /\ T \in run[o].todo /\ T \in Targets
      /\ \A t \in Targets \ {T} : Adds(t, <<>>)
  BY CommitAdds
<1>2. PICK e \in Entries : e.by = o /\ Adds(T, <<e>>)
  BY CommitAdds
<1>3. TrailTypeOK
  BY DEF TypeOK
<1>4. ASSUME NEW p, NEW t \in Targets \ {T} PROVE ChangesBy(p, t)' = ChangesBy(p, t)
  <2>1. <<>> \in Seq(Entries) /\ \A k \in 1..Len(<<>>) : <<>>[k].by # p
    OBVIOUS
  <2>2. Adds(t, <<>>)
    BY <1>1
  <2>. QED
    BY <1>3, <2>1, <2>2, ForeignAdds
<1>5. ASSUME NEW p \in Operations \ {o} PROVE SameChanges(p)
  <2>1. <<e>> \in Seq(Entries) /\ \A k \in 1..Len(<<e>>) : <<e>>[k].by # p
    BY <1>2
  <2>2. ChangesBy(p, T)' = ChangesBy(p, T)
    BY <1>1, <1>2, <1>3, <2>1, ForeignAdds
  <2>. QED
    BY <1>4, <2>2 DEF SameChanges
<1>6. ~ChangedBy(o, T)
  <2>1. ~Behind(o, T)
    BY <1>1 DEF Behind
  <2>. QED
    BY <1>1, <2>1 DEF Fits, ChangesFit
<1>7. {i \in 1..Len(w) : w[i].by = o} = {Len(u) + 1}
  <2>1. u \in Seq(Entries) /\ w = u \o <<e>>
    BY <1>1, <1>2, <1>3 DEF TrailTypeOK, Adds
  <2>2. \A i \in 1..Len(u) : u[i].by # o
    BY <1>6 DEF ChangedBy, ChangesBy
  <2>. HIDE DEF u, w
  <2>3. /\ Len(u) \in Nat /\ Len(w) = Len(u) + 1
        /\ \A i \in 1..Len(u) : w[i] = u[i]
        /\ w[Len(u) + 1] = e
    BY <2>1
  <2>. QED
    BY <1>2, <2>2, <2>3
<1>8. ChangesBy(o, T)' = {Len(u) + 1}
  BY <1>7 DEF ChangesBy
<1>9. (\A i, j \in ChangesBy(o, T)' : i = j) /\ ChangedBy(o, T)'
  BY <1>8 DEF ChangedBy
<1>. QED
  BY <1>4, <1>5, <1>6, <1>9

-----------------------------------------------------------------------------
(* What has been read too early is marked as late *)

\* A request that is not late for a target has read the value that it still has.
LEMMA OutdateFacts ==
    ASSUME NEW R \in [Clients -> Requests \cup {Absent}], NEW T \in SUBSET Targets,
           \A c \in Clients : R[c] # Absent =>
              \A t \in Targets \ R[c].late : R[c].before[t] = value[t],
           \A t \in Targets \ T : value'[t] = value[t]
    PROVE  /\ Outdate(R, T) \in [Clients -> Requests \cup {Absent}]
           /\ \A c \in Clients : Outdate(R, T)[c] # Absent =>
                 \A t \in Targets \ Outdate(R, T)[c].late : Outdate(R, T)[c].before[t] = value'[t]
<1>1. ASSUME NEW c \in Clients, R[c] # Absent
      PROVE  /\ Outdate(R, T)[c] \in Requests
             /\ Outdate(R, T)[c].late = R[c].late \cup T
             /\ Outdate(R, T)[c].before = R[c].before
  <2>1. R[c] \in Requests
    BY <1>1
  <2>2. Outdate(R, T)[c] = [R[c] EXCEPT !.late = R[c].late \cup T]
    BY <1>1 DEF Outdate
  <2>. QED
    BY <2>1, <2>2 DEF Requests
<1>2. ASSUME NEW c \in Clients, R[c] = Absent
      PROVE  Outdate(R, T)[c] = Absent
  BY <1>2 DEF Outdate
<1>3. Outdate(R, T) \in [Clients -> Requests \cup {Absent}]
  <2>1. \A c \in Clients : Outdate(R, T)[c] \in Requests \cup {Absent}
    BY <1>1, <1>2
  <2>2. Outdate(R, T) = [c \in Clients |-> Outdate(R, T)[c]]
    BY DEF Outdate
  <2>. QED
    BY <2>1, <2>2
<1>4. ASSUME NEW c \in Clients, Outdate(R, T)[c] # Absent, NEW t \in Targets \ Outdate(R, T)[c].late
      PROVE  Outdate(R, T)[c].before[t] = value'[t]
  <2>1. R[c] # Absent
    BY <1>2, <1>4
  <2>2. t \in Targets \ R[c].late /\ t \notin T
    BY <1>1, <1>4, <2>1
  <2>. QED
    BY <1>1, <2>1, <2>2
<1>. QED
  BY <1>3, <1>4

\* The handlers stay where they are.
LEMMA OutdateRunsFacts ==
    ASSUME NEW R \in [Operations -> Runs \cup {Absent}], NEW T
    PROVE  /\ OutdateRuns(R, T) \in [Operations -> Runs \cup {Absent}]
           /\ \A o \in Operations :
                 IF R[o] = Absent THEN OutdateRuns(R, T)[o] = Absent
                 ELSE /\ OutdateRuns(R, T)[o] # Absent /\ Alike(R[o], OutdateRuns(R, T)[o])
                      /\ OutdateRuns(R, T)[o].before = R[o].before
                      /\ ~OutdateRuns(R, T)[o].late =>
                            ~R[o].late /\ ~(R[o].at = "write" /\ R[o].target \in T)
<1>1. ASSUME NEW o \in Operations, R[o] # Absent
      PROVE  /\ OutdateRuns(R, T)[o] \in Runs /\ Alike(R[o], OutdateRuns(R, T)[o])
             /\ OutdateRuns(R, T)[o].before = R[o].before
             /\ ~OutdateRuns(R, T)[o].late =>
                   ~R[o].late /\ ~(R[o].at = "write" /\ R[o].target \in T)
  <2>1. R[o] \in Runs
    BY <1>1
  <2>2. CASE R[o].at = "write" /\ R[o].target \in T
    <3>1. OutdateRuns(R, T)[o] = [R[o] EXCEPT !.late = TRUE]
      BY <1>1, <2>2 DEF OutdateRuns
    <3>. QED
      BY <2>1, <3>1 DEF Runs, Alike
  <2>3. CASE ~(R[o].at = "write" /\ R[o].target \in T)
    <3>1. OutdateRuns(R, T)[o] = R[o]
      BY <1>1, <2>3 DEF OutdateRuns
    <3>. QED
      BY <2>1, <2>3, <3>1 DEF Alike
  <2>. QED
    BY <2>2, <2>3
<1>2. ASSUME NEW o \in Operations, R[o] = Absent
      PROVE  OutdateRuns(R, T)[o] = Absent
  BY <1>2 DEF OutdateRuns
<1>3. OutdateRuns(R, T) \in [Operations -> Runs \cup {Absent}]
  <2>1. \A o \in Operations : OutdateRuns(R, T)[o] \in Runs \cup {Absent}
    BY <1>1, <1>2
  <2>2. OutdateRuns(R, T) = [o \in Operations |-> OutdateRuns(R, T)[o]]
    BY DEF OutdateRuns
  <2>. QED
    BY <2>1, <2>2
<1>. QED
  BY <1>1, <1>2, <1>3, PlatformOperationsAssumption

-----------------------------------------------------------------------------
(* Every step keeps the history of the targets *)

TrailInv == TrailTypeOK /\ TrailIsHistory /\ RequestsFresh

\* Steps that add no audit row.
LEMMA QuietTrail ==
    ASSUME TrailInv, UNCHANGED <<value, trail, owner, initial, unaudited>>,
           request' \in [Clients -> Requests \cup {Absent}],
           \A c \in Clients :
              \/ request'[c] = Absent \/ request'[c] = request[c]
              \/ \A t \in Targets \ request'[c].late : request'[c].before[t] = value[t]
    PROVE  TrailInv'
<1>1. TrailTypeOK'
  BY DEF TrailInv, TrailTypeOK
<1>2. TrailIsHistory'
  BY DEF TrailInv, TrailIsHistory, LastNext
<1>3. RequestsFresh'
  BY DEF TrailInv, RequestsFresh
<1>. QED
  BY <1>1, <1>2, <1>3 DEF TrailInv

\* A step after which every target has its rows, and requests that have read
\* before are late.
LEMMA AddingTrail ==
    ASSUME TrailInv, initial' = initial,
           owner' \in [Decisions -> Companies], unaudited' \in SUBSET unaudited,
           trail' \in [Targets -> Seq(Entries)], value' \in [Targets -> Values \cup {Absent}],
           \A t \in Targets : \E s \in Seq(Entries) : Adds(t, s),
           NEW R \in [Clients -> Requests \cup {Absent}], NEW T \in SUBSET Targets,
           \A c \in Clients : R[c] = Absent \/ R[c] = request[c],
           \A t \in Targets \ T : value'[t] = value[t],
           request' = Outdate(R, T)
    PROVE  TrailInv'
<1>1. \A c \in Clients : R[c] # Absent =>
         \A t \in Targets \ R[c].late : R[c].before[t] = value[t]
  <2>1. \A c \in Clients : request[c] # Absent =>
           \A t \in Targets \ request[c].late : request[c].before[t] = value[t]
    BY DEF TrailInv, RequestsFresh
  <2>2. \A c \in Clients : R[c] # Absent => R[c] = request[c]
    OBVIOUS
  <2>. QED
    BY <2>1, <2>2
<1>2. /\ request' \in [Clients -> Requests \cup {Absent}]
      /\ \A c \in Clients : request'[c] # Absent =>
            \A t \in Targets \ request'[c].late : request'[c].before[t] = value'[t]
  <2>1. /\ Outdate(R, T) \in [Clients -> Requests \cup {Absent}]
        /\ \A c \in Clients : Outdate(R, T)[c] # Absent =>
              \A t \in Targets \ Outdate(R, T)[c].late :
                 Outdate(R, T)[c].before[t] = value'[t]
    BY <1>1, OutdateFacts
  <2>. QED
    BY <2>1
<1>3. TrailTypeOK'
  BY <1>2 DEF TrailInv, TrailTypeOK
<1>4. RequestsFresh'
  BY <1>2 DEF RequestsFresh
<1>5. ASSUME NEW t \in Targets
      PROVE  /\ \/ t \in unaudited'
                \/ value'[t] = IF trail'[t] = <<>> THEN initial'[t] ELSE trail'[t][Len(trail'[t])].next
             /\ \A i \in 1..Len(trail'[t]) : ~trail'[t][i].late =>
                   trail'[t][i].prev = IF i = 1 THEN initial'[t] ELSE trail'[t][i - 1].next
  BY AddsHistory DEF TrailInv
<1>6. TrailIsHistory'
  BY <1>5 DEF TrailIsHistory, LastNext
<1>. QED
  BY <1>3, <1>4, <1>6 DEF TrailInv

\* The commit of a submission or override.
LEMMA StepCommitRequest ==
    ASSUME TrailInv, NEW c \in Clients, CommitRequest(c)
    PROVE  TrailInv'
<1>. DEFINE q == request[c]
            T == {t \in Targets : Places(q, t) # {}}
            R == [request EXCEPT ![c] = Absent]
<1>0. TrailTypeOK /\ RequestsFresh /\ request \in [Clients -> Requests \cup {Absent}]
  BY DEF TrailInv, TrailTypeOK
<1>1. ASSUME NEW t \in Targets
      PROVE  \E s \in Seq(Entries) : Adds(t, s) /\ (s = <<>> <=> Places(q, t) = {})
  <2>. HIDE DEF q
  <2>. QED
    BY <1>0, CommitRequestAdds DEF q
<1>2. ASSUME NEW t \in Targets
      PROVE  /\ trail'[t] \in Seq(Entries) /\ value'[t] \in Values \cup {Absent}
             /\ t \notin T => value'[t] = value[t]
  <2>1. PICK s \in Seq(Entries) : Adds(t, s) /\ (s = <<>> <=> Places(q, t) = {})
    BY <1>1
  <2>2. trail[t] \in Seq(Entries) /\ value[t] \in Values \cup {Absent}
    BY <1>0 DEF TrailTypeOK
  <2>3. trail'[t] \in Seq(Entries)
    BY <2>1, <2>2 DEF Adds
  <2>4. s # <<>> => s[Len(s)] \in Entries
    BY <2>1
  <2>5. s # <<>> => s[Len(s)].next \in Values
    BY <2>4 DEF Entries
  <2>. QED
    BY <2>1, <2>2, <2>3, <2>5 DEF Adds
<1>3. trail' \in [Targets -> Seq(Entries)] /\ value' \in [Targets -> Values \cup {Absent}]
  <2>1. trail' = [t \in Targets |-> trail'[t]] /\ value' = [t \in Targets |-> value'[t]]
    BY DEF CommitRequest
  <2>. QED
    BY <1>2, <2>1
<1>4. request' = Outdate(R, T) /\ initial' = initial /\ unaudited' \in SUBSET unaudited
  BY DEF CommitRequest
<1>7. owner' \in [Decisions -> Companies]
  <2>1. q.company \in Companies \cup {Absent} /\ owner \in [Decisions -> Companies]
    BY <1>0 DEF CommitRequest, TrailTypeOK, Requests
  <2>2. owner' = [t \in Decisions |->
            IF t \in T /\ q.company # Absent THEN q.company ELSE owner[t]]
    BY DEF CommitRequest
  <2>. HIDE DEF q, T
  <2>. QED
    BY <2>1, <2>2
<1>5. R \in [Clients -> Requests \cup {Absent}] /\ \A d \in Clients : R[d] = Absent \/ R[d] = request[d]
  BY <1>0
<1>6. T \in SUBSET Targets
  OBVIOUS
<1>. HIDE DEF R, T
<1>. QED
  BY <1>1, <1>2, <1>3, <1>4, <1>5, <1>6, <1>7, AddingTrail

\* The commit of an operation's transaction.
LEMMA StepCommit ==
    ASSUME IInv, NEW o \in Operations, NEW step, Commit(o, step)
    PROVE  TrailInv'
<1>. DEFINE x == run[o].target
<1>0. TypeOK /\ RunsFresh /\ Fits(o) /\ TrailInv /\ request \in [Clients -> Requests \cup {Absent}]
  BY DEF IInv, TypeOK, TrailTypeOK, TrailInv
<1>1. /\ x \in Targets
      /\ \E e \in Entries : Adds(x, <<e>>)
      /\ \A t \in Targets \ {x} : Adds(t, <<>>)
      /\ trail' \in [Targets -> Seq(Entries)] /\ value' \in [Targets -> Values \cup {Absent}]
  BY <1>0, CommitAdds
<1>2. /\ request' = Outdate(request, {x}) /\ initial' = initial
      /\ owner' \in [Decisions -> Companies] /\ unaudited' \in SUBSET unaudited
  BY <1>0 DEF Commit, Change, TypeOK, TrailTypeOK
<1>. HIDE DEF x
<1>3. ASSUME NEW t \in Targets PROVE \E s \in Seq(Entries) : Adds(t, s)
  <2>1. CASE t = x
    <3>1. PICK e \in Entries : Adds(x, <<e>>)
      BY <1>1
    <3>2. <<e>> \in Seq(Entries)
      OBVIOUS
    <3>. QED
      BY <2>1, <3>1, <3>2
  <2>2. CASE t # x
    <3>1. <<>> \in Seq(Entries)
      OBVIOUS
    <3>. QED
      BY <1>1, <2>2, <3>1
  <2>. QED
    BY <2>1, <2>2
<1>4. \A t \in Targets \ {x} : value'[t] = value[t]
  BY <1>1 DEF Adds
<1>5. {x} \in SUBSET Targets /\ \A c \in Clients : request[c] = Absent \/ request[c] = request[c]
  BY <1>1
<1>. QED
  BY <1>0, <1>1, <1>2, <1>3, <1>4, <1>5, AddingTrail

-----------------------------------------------------------------------------
(* The steps of a handler that touch no target *)

OpsTypeOK ==
    /\ op \in [Operations -> Rows \cup {Absent}]
    /\ item \in SUBSET ItemRows
    /\ run \in [Operations -> Runs \cup {Absent}]
    /\ misreported \in SUBSET (Operations \X Targets)

OpsInv == OpsTypeOK /\ RunsFresh /\ \A p \in Operations : Fits(p)

\* A step of operation o has only to keep o fitting.
LEMMA LocalStep ==
    ASSUME IInv, NEW o \in Operations, trail' = trail, value' = value, unaudited' = unaudited,
           op' \in [Operations -> Rows \cup {Absent}],
           run' \in [Operations -> Runs \cup {Absent}],
           \A p \in Operations \ {o} : op'[p] = op[p] /\ run'[p] = run[p],
           item \subseteq item', item' \subseteq ItemRows, \A i \in item' \ item : i.op = o,
           misreported \subseteq misreported', misreported' \subseteq Operations \X Targets,
           run'[o] # Absent /\ run'[o].at = "write" /\ ~run'[o].late =>
              run'[o].before = value[run'[o].target] /\ run'[o].target \notin unaudited,
           Fits(o)'
    PROVE  OpsInv'
<1>1. OpsTypeOK'
  BY DEF OpsTypeOK
<1>2. RunsFresh'
  <2>1. ASSUME NEW p \in Operations, run'[p] # Absent, run'[p].at = "write", ~run'[p].late
        PROVE  run'[p].before = value'[run'[p].target] /\ run'[p].target \notin unaudited'
    <3>1. CASE p = o
      BY <2>1, <3>1
    <3>2. CASE p # o
      BY <2>1, <3>2 DEF IInv, RunsFresh, At
    <3>. QED
      BY <3>1, <3>2
  <2>. QED
    BY <2>1 DEF RunsFresh, At
<1>3. ASSUME NEW p \in Operations PROVE Fits(p)'
  <2>1. CASE p = o
    BY <2>1
  <2>2. CASE p # o
    <3>1. op'[p] = op[p] /\ (run'[p] = Absent \/ (run[p] # Absent /\ Alike(run[p], run'[p])))
      BY <2>2 DEF Alike
    <3>2. \A i \in item' : i.op = p => i \in item
      BY <2>2
    <3>3. SameChanges(p)
      BY NothingAdded
    <3>4. TypeOK /\ Fits(p)
      BY DEF IInv
    <3>. QED
      BY <3>1, <3>2, <3>3, <3>4, Keeps
  <2>. QED
    BY <2>1, <2>2
<1>. QED
  BY <1>1, <1>2, <1>3 DEF OpsInv

\* What is known of a handler before it takes a step.
LEMMA Before ==
    ASSUME IInv, NEW o \in Operations, run[o] # Absent
    PROVE  /\ TypeOK /\ OpsTypeOK /\ Fits(o)
           /\ run[o] \in Runs /\ op[o] \in Rows /\ Exists(o)
           /\ op[o].targets \in SUBSET Targets /\ run[o].todo \in SUBSET op[o].targets
           /\ run[o].at # "next" \/ run[o].todo # op[o].targets =>
                 run[o].target \in op[o].targets /\ run[o].target \in Targets
           /\ \A t \in op[o].targets : t \in Targets
<1>1. TypeOK /\ OpsTypeOK /\ Fits(o)
  BY DEF IInv, TypeOK, OpsTypeOK
<1>2. Exists(o) /\ run[o].todo \in SUBSET op[o].targets
  BY <1>1 DEF Fits, RunFits
<1>3. run[o] \in Runs /\ op[o] \in Rows /\ op[o].targets \in SUBSET Targets
  BY <1>1, <1>2, RowFacts DEF Exists
<1>4. run[o].at # "next" \/ run[o].todo # op[o].targets => run[o].target \in op[o].targets
  BY <1>1 DEF Fits, RunFits
<1>. QED
  BY <1>1, <1>2, <1>3, <1>4

\* A handler turns to a target or gives it up: its counts stay.
LEMMA StepTurn ==
    ASSUME IInv, NEW o \in Operations, run[o] # Absent,
           NEW r \in Runs, run' = [run EXCEPT ![o] = r],
           trail' = trail, value' = value, unaudited' = unaudited, op' = op, item' = item, misreported' = misreported,
           r.todo = run[o].todo, r.success = run[o].success, r.failed = run[o].failed,
           r.at \in {"write", "fail"}, r.target \in r.todo,
           run[o].at = "next" \/ (run[o].at = "write" /\ r.target = run[o].target /\ r.at = "fail"),
           r.at = "write" => r.before = value[r.target] /\ TableOf[r.target] = op[o].table,
           r.at = "write" /\ ~r.late => r.target \notin unaudited
    PROVE  OpsInv'
<1>0. /\ TypeOK /\ OpsTypeOK /\ Fits(o) /\ Exists(o)
      /\ op[o].targets \in SUBSET Targets /\ run[o].todo \in SUBSET op[o].targets
  BY Before
<1>1. run'[o] = r /\ run' \in [Operations -> Runs \cup {Absent}] /\ r # Absent
      /\ \A p \in Operations \ {o} : op'[p] = op[p] /\ run'[p] = run[p]
  BY <1>0, PlatformOperationsAssumption DEF OpsTypeOK
<1>2. SameChanges(o)
  BY NothingAdded
<1>3. \A t \in Targets : (ChangesBy(o, t)' = ChangesBy(o, t)) /\ (ChangedBy(o, t)' <=> ChangedBy(o, t))
                         /\ (Missed(o, t)' <=> Missed(o, t))
  BY <1>2 DEF ChangedBy, SameChanges, Missed
<1>4. OperationFits(o)' /\ StatusFits(o)'
  BY <1>0, <1>2, KeepsRow DEF Fits
<1>5. op[o].status = "RUNNING" \/ r.todo = {}
  BY <1>0 DEF Fits, RunFits
<1>6. RunFits(o)'
  BY <1>0, <1>1, <1>5 DEF RunFits, Exists
<1>7. ChangesFit(o)'
  <2>1. ASSUME NEW t \in Targets
        PROVE  /\ \A i, j \in ChangesBy(o, t)' : i = j
               /\ ChangedBy(o, t)' => Exists(o)' /\ t \in op'[o].targets
    BY <1>0, <1>3 DEF Fits, ChangesFit, Exists
  <2>2. ASSUME NEW t \in Targets
        PROVE  /\ t \in r.todo => ~ChangedBy(o, t)'
    <3>1. ~Behind(o, t)
      BY DEF Behind
    <3>. QED
      BY <1>0, <1>3, <3>1 DEF Fits, ChangesFit
  <2>3. ASSUME NEW t \in Targets
        PROVE  Behind(o, t)' => t = r.target /\ r.at = "fail" /\ Missed(o, t)'
    <3>1. Behind(o, t)' => t = r.target /\ r.at = "fail"
      BY <1>1 DEF Behind
    <3>. QED
      BY <2>2, <3>1 DEF Missed
  <2>. QED
    BY <1>1, <2>1, <2>2, <2>3 DEF ChangesFit
<1>8. ItemsFit(o)'
  <2>1. \A i \in item : i.target \in Targets
    BY <1>0, RowFacts
  <2>. QED
    BY <1>0, <1>1, <1>3, <2>1 DEF Fits, ItemsFit, Exists
<1>9. CountsFit(o)'
  BY <1>0, <1>1, <1>3, KeepsCounts DEF Fits
<1>10. Fits(o)'
  BY <1>4, <1>6, <1>7, <1>8, <1>9 DEF Fits
<1>11. r.at = "write" /\ ~r.late => r.before = value[r.target] /\ r.target \notin unaudited
  OBVIOUS
<1>. QED
  BY <1>0, <1>1, <1>10, <1>11, LocalStep DEF OpsTypeOK

\* One more target that the handler is done with is counted.
LEMMA OverGrows ==
    ASSUME NEW targets \in SUBSET Targets, NEW todo \in SUBSET targets, NEW t \in todo
    PROVE  /\ targets \ (todo \ {t}) = (targets \ todo) \cup {t}
           /\ Cardinality(targets \ (todo \ {t})) = Cardinality(targets \ todo) + 1
           /\ Cardinality(targets \ todo) \in Nat
<1>1. targets \ (todo \ {t}) = (targets \ todo) \cup {t} /\ t \notin targets \ todo
  OBVIOUS
<1>2. IsFiniteSet(targets \ todo)
  BY AuditTrailAssumption, FS_Subset
<1>3. Cardinality((targets \ todo) \cup {t}) = Cardinality(targets \ todo) + 1
  BY <1>1, <1>2, FS_AddElement
<1>. QED
  BY <1>1, <1>2, <1>3, FS_CardinalityType

\* An item that agrees with the changes may be added.
LEMMA KeepsItems ==
    ASSUME TypeOK, NEW o \in Operations, ItemsFit(o), SameChanges(o), op'[o] = op[o],
           misreported \subseteq misreported',
           run[o] # Absent, run'[o] = Absent \/ run'[o].todo \subseteq run[o].todo,
           NEW t0 \in Targets, NEW status,
           item' \subseteq item \cup {[op |-> o, target |-> t0, status |-> status]},
           status = "SUCCEEDED" => ChangedBy(o, t0),
           status = "FAILED" =>
              Missed(o, t0)' /\ Exists(o) /\ (run'[o] = Absent \/ t0 \notin run'[o].todo)
    PROVE  ItemsFit(o)'
<1>1. \A t \in Targets : (ChangedBy(o, t)' <=> ChangedBy(o, t)) /\ (Missed(o, t) => Missed(o, t)')
  BY DEF ChangedBy, SameChanges, Missed
<1>2. Exists(o)' <=> Exists(o)
  BY DEF Exists
<1>3. ASSUME NEW i \in item', i.op = o
      PROVE  /\ i.status = "SUCCEEDED" => ChangedBy(o, i.target)'
             /\ i.status = "FAILED" =>
                   /\ Missed(o, i.target)'
                   /\ Exists(o)'
                   /\ run'[o] # Absent => i.target \notin run'[o].todo
  <2>1. CASE i \in item
    <3>1. i.target \in Targets
      BY <2>1, RowFacts
    <3>. QED
      BY <1>1, <1>2, <1>3, <2>1, <3>1 DEF ItemsFit
  <2>2. CASE i = [op |-> o, target |-> t0, status |-> status]
    <3>1. i.target = t0 /\ i.status = status
      BY <2>2
    <3>. QED
      BY <1>1, <1>2, <3>1
  <2>. QED
    BY <1>3, <2>1, <2>2
<1>. QED
  BY <1>3 DEF ItemsFit

\* createOperationItem SUCCEEDED keeps the invariant.
LEMMA StepReportDone ==
    ASSUME IInv, NEW o \in Operations, ReportDone(o)
    PROVE  OpsInv'
<1>. DEFINE T == run[o].target
            r == [run[o] EXCEPT !.at = "next", !.todo = run[o].todo \ {T},
                                !.success = run[o].success + 1]
            i0 == [op |-> o, target |-> T, status |-> "SUCCEEDED"]
<1>0. /\ run[o] # Absent /\ run[o].at = "report"
      /\ op' = op /\ misreported' = misreported /\ trail' = trail /\ value' = value /\ unaudited' = unaudited
      /\ item' = item \cup {i0}
  BY DEF ReportDone, At, AddItem, trailVars
<1>1. /\ TypeOK /\ OpsTypeOK /\ Fits(o) /\ Exists(o) /\ run[o] \in Runs
      /\ op[o].targets \in SUBSET Targets /\ run[o].todo \in SUBSET op[o].targets
      /\ T \in Targets /\ run[o].todo \in SUBSET Targets
  BY <1>0, Before
<1>2. /\ r \in Runs /\ r.at = "next" /\ r.todo = run[o].todo \ {T} /\ r.target = T
      /\ r.success = run[o].success + 1 /\ r.failed = run[o].failed /\ run[o].success \in Nat
      /\ run[o].failed \in Nat
  <2>1. /\ run[o].success \in Nat /\ run[o].failed \in Nat /\ run[o].success + 1 \in Nat
        /\ run[o].todo \ {T} \in SUBSET Targets /\ "next" \in Steps
    BY <1>0, <1>1, RowFacts DEF Steps
  <2>2. r.at = "next" /\ r.todo = run[o].todo \ {T} /\ r.target = T
        /\ r.success = run[o].success + 1 /\ r.failed = run[o].failed
    BY <1>1 DEF Runs
  <2>3. r \in Runs
    BY <1>1, <2>1 DEF Runs
  <2>. QED
    BY <2>1, <2>2, <2>3
<1>3. run' = [run EXCEPT ![o] = r]
  BY <1>1 DEF ReportDone, OpsTypeOK
<1>. HIDE DEF r
<1>4. run'[o] = r /\ run' \in [Operations -> Runs \cup {Absent}] /\ r # Absent
      /\ \A p \in Operations \ {o} : op'[p] = op[p] /\ run'[p] = run[p]
  BY <1>0, <1>1, <1>2, <1>3, PlatformOperationsAssumption DEF OpsTypeOK
<1>5. SameChanges(o)
  BY <1>0, NothingAdded
<1>6. \A t \in Targets : (ChangesBy(o, t)' = ChangesBy(o, t)) /\ (ChangedBy(o, t)' <=> ChangedBy(o, t))
                         /\ (Missed(o, t)' <=> Missed(o, t))
  BY <1>0, <1>5 DEF ChangedBy, SameChanges, Missed
<1>7. T \in run[o].todo /\ Behind(o, T) /\ ChangedBy(o, T)
  <2>1. T \in run[o].todo
    BY <1>0, <1>1 DEF Fits, RunFits
  <2>2. Behind(o, T)
    BY <1>0 DEF Behind
  <2>. QED
    BY <1>0, <1>1, <2>1, <2>2 DEF Fits, ChangesFit
<1>8. OperationFits(o)' /\ StatusFits(o)'
  BY <1>0, <1>1, <1>5, KeepsRow DEF Fits
<1>9. RunFits(o)'
  <2>1. op[o].status # "RUNNING" => run[o].todo = {}
    BY <1>0, <1>1 DEF Fits, RunFits
  <2>. QED
    BY <1>0, <1>1, <1>2, <1>4, <1>7, <2>1 DEF RunFits, Exists
<1>10. ChangesFit(o)'
  <2>1. ASSUME NEW t \in Targets
        PROVE  /\ \A i, j \in ChangesBy(o, t)' : i = j
               /\ ChangedBy(o, t)' => Exists(o)' /\ t \in op'[o].targets
    BY <1>0, <1>1, <1>6 DEF Fits, ChangesFit, Exists
  <2>2. ASSUME NEW t \in Targets
        PROVE  t \in r.todo => ~ChangedBy(o, t)'
    <3>1. t \in r.todo => t # T /\ t \in run[o].todo
      BY <1>2
    <3>2. t # T => ~Behind(o, t)
      BY DEF Behind
    <3>. QED
      BY <1>0, <1>1, <1>6, <3>1, <3>2 DEF Fits, ChangesFit
  <2>3. ASSUME NEW t \in Targets PROVE ~Behind(o, t)'
    BY <1>2, <1>4 DEF Behind
  <2>. QED
    BY <2>1, <2>2, <2>3, <1>4 DEF ChangesFit
<1>11. ItemsFit(o)'
  <2>1. item' \subseteq item \cup {[op |-> o, target |-> T, status |-> "SUCCEEDED"]}
    BY <1>0
  <2>2. run'[o].todo \subseteq run[o].todo /\ misreported \subseteq misreported'
    BY <1>0, <1>2, <1>4
  <2>3. ItemsFit(o) /\ op'[o] = op[o]
    BY <1>0, <1>1 DEF Fits
  <2>. HIDE DEF T
  <2>. QED
    BY <1>0, <1>1, <1>5, <1>7, <2>1, <2>2, <2>3, KeepsItems
<1>12. CountsFit(o)'
  <2>. DEFINE over == op[o].targets \ run[o].todo
              overNow == op'[o].targets \ run'[o].todo
  <2>1. overNow = over \cup {T} /\ Cardinality(overNow) = Cardinality(over) + 1
        /\ Cardinality(over) \in Nat
    <3>1. overNow = op[o].targets \ (run[o].todo \ {T})
      BY <1>0, <1>2, <1>4
    <3>2. T \in run[o].todo /\ op[o].targets \in SUBSET Targets /\ run[o].todo \in SUBSET op[o].targets
      BY <1>1, <1>7
    <3>. HIDE DEF T
    <3>3. /\ op[o].targets \ (run[o].todo \ {T}) = (op[o].targets \ run[o].todo) \cup {T}
          /\ Cardinality(op[o].targets \ (run[o].todo \ {T})) = Cardinality(op[o].targets \ run[o].todo) + 1
          /\ Cardinality(op[o].targets \ run[o].todo) \in Nat
      BY <3>2, OverGrows
    <3>. HIDE DEF overNow
    <3>. QED
      BY <3>1, <3>3
  <2>2. /\ run[o].success + run[o].failed = Cardinality(over)
        /\ IF run[o].failed = 0 THEN \A t \in over : ChangedBy(o, t)
           ELSE \E t \in over : Missed(o, t)
    BY <1>0, <1>1 DEF Fits, CountsFit
  <2>3. \A t \in over \cup {T} : t \in Targets
    BY <1>1
  <2>. HIDE DEF over, overNow, T
  <2>4. /\ r.success + r.failed = Cardinality(overNow)
        /\ r.success # 0 /\ \E t \in overNow : ChangedBy(o, t)'
    BY <1>2, <1>6, <1>7, <2>1, <2>2, <2>3
  <2>5. IF r.failed = 0 THEN \A t \in overNow : ChangedBy(o, t)'
        ELSE \E t \in overNow : Missed(o, t)'
    BY <1>2, <1>6, <1>7, <2>1, <2>2, <2>3
  <2>. QED
    BY <1>4, <2>4, <2>5 DEF CountsFit, overNow
<1>13. Fits(o)'
  BY <1>8, <1>9, <1>10, <1>11, <1>12 DEF Fits
<1>14. i0 \in ItemRows /\ i0.op = o
  BY <1>1 DEF ItemRows
<1>15. item \subseteq ItemRows /\ misreported \subseteq Operations \X Targets
       /\ op \in [Operations -> Rows \cup {Absent}]
  BY <1>1 DEF OpsTypeOK
<1>. HIDE DEF i0
<1>. QED
  BY <1>0, <1>2, <1>4, <1>13, <1>14, <1>15, LocalStep

\* A success whose item is not known to be written is taken for a failure.
LEMMA StepReportFails ==
    ASSUME IInv, NEW o \in Operations, ReportFails(o)
    PROVE  OpsInv'
<1>. DEFINE T == run[o].target
            r == [run[o] EXCEPT !.at = "fail"]
            i0 == [op |-> o, target |-> T, status |-> "SUCCEEDED"]
<1>0. /\ run[o] # Absent /\ run[o].at = "report"
      /\ op' = op /\ trail' = trail /\ value' = value /\ unaudited' = unaudited
      /\ item' = item \cup {i0} \/ item' = item
      /\ misreported' = misreported \cup {<<o, T>>}
  BY DEF ReportFails, At, AddItem, Misreport, trailVars
<1>1. /\ TypeOK /\ OpsTypeOK /\ Fits(o) /\ Exists(o) /\ run[o] \in Runs
      /\ op[o].targets \in SUBSET Targets /\ run[o].todo \in SUBSET op[o].targets
      /\ T \in Targets /\ T \in op[o].targets
  BY <1>0, Before
<1>2. /\ r \in Runs /\ r.at = "fail" /\ r.todo = run[o].todo /\ r.target = T
      /\ r.success = run[o].success /\ r.failed = run[o].failed
  BY <1>1 DEF Runs, Steps
<1>3. run' = [run EXCEPT ![o] = r]
  BY <1>1 DEF ReportFails, OpsTypeOK
<1>. HIDE DEF r
<1>4. run'[o] = r /\ run' \in [Operations -> Runs \cup {Absent}] /\ r # Absent
      /\ \A p \in Operations \ {o} : op'[p] = op[p] /\ run'[p] = run[p]
  BY <1>0, <1>1, <1>2, <1>3, PlatformOperationsAssumption DEF OpsTypeOK
<1>5. SameChanges(o)
  BY <1>0, NothingAdded
<1>6. \A t \in Targets : (ChangesBy(o, t)' = ChangesBy(o, t)) /\ (ChangedBy(o, t)' <=> ChangedBy(o, t))
  BY <1>0, <1>5 DEF ChangedBy, SameChanges
<1>7. T \in run[o].todo /\ Behind(o, T) /\ ChangedBy(o, T)
  <2>1. T \in run[o].todo
    BY <1>0, <1>1 DEF Fits, RunFits
  <2>2. Behind(o, T)
    BY <1>0 DEF Behind
  <2>. QED
    BY <1>0, <1>1, <2>1, <2>2 DEF Fits, ChangesFit
<1>8. OperationFits(o)' /\ StatusFits(o)'
  <2>1. item \subseteq item' /\ misreported \subseteq misreported' /\ op'[o] = op[o]
    BY <1>0
  <2>. QED
    BY <1>1, <1>5, <2>1, KeepsRow DEF Fits
<1>9. RunFits(o)'
  <2>1. op[o].status # "RUNNING" => run[o].todo = {}
    BY <1>0, <1>1 DEF Fits, RunFits
  <2>. QED
    BY <1>0, <1>1, <1>2, <1>4, <1>7, <2>1 DEF RunFits, Exists
<1>10. ChangesFit(o)'
  <2>1. ASSUME NEW t \in Targets
        PROVE  /\ \A i, j \in ChangesBy(o, t)' : i = j
               /\ ChangedBy(o, t)' => Exists(o)' /\ t \in op'[o].targets
    BY <1>0, <1>1, <1>6 DEF Fits, ChangesFit, Exists
  <2>2. ASSUME NEW t \in Targets
        PROVE  (Behind(o, t)' <=> t = T) /\ (t = T => Missed(o, t)')
    <3>1. Behind(o, t)' <=> t = T
      BY <1>2, <1>4 DEF Behind
    <3>2. <<o, T>> \in misreported'
      BY <1>0
    <3>. QED
      BY <3>1, <3>2 DEF Missed
  <2>3. ASSUME NEW t \in Targets, t # T
        PROVE  t \in r.todo => ~ChangedBy(o, t)'
    <3>1. ~Behind(o, t)
      BY <2>3 DEF Behind
    <3>. QED
      BY <1>0, <1>1, <1>2, <1>6, <3>1 DEF Fits, ChangesFit
  <2>. HIDE DEF T
  <2>. QED
    BY <2>1, <2>2, <2>3, <1>2, <1>4 DEF ChangesFit
<1>11. ItemsFit(o)'
  <2>1. item' \subseteq item \cup {[op |-> o, target |-> T, status |-> "SUCCEEDED"]}
    BY <1>0
  <2>2. run'[o].todo \subseteq run[o].todo /\ misreported \subseteq misreported'
    BY <1>0, <1>2, <1>4
  <2>3. ItemsFit(o) /\ op'[o] = op[o]
    BY <1>0, <1>1 DEF Fits
  <2>. HIDE DEF T
  <2>. QED
    BY <1>0, <1>1, <1>5, <1>7, <2>1, <2>2, <2>3, KeepsItems
<1>12. CountsFit(o)'
  <2>1. misreported \subseteq misreported' /\ op'[o] = op[o]
    BY <1>0
  <2>2. CountsFit(o) /\ RunFits(o)
    BY <1>1 DEF Fits
  <2>3. \A t \in op[o].targets \ run[o].todo : ChangedBy(o, t)' <=> ChangedBy(o, t)
    BY <1>1, <1>6
  <2>. QED
    BY <1>0, <1>1, <1>2, <1>4, <2>1, <2>2, <2>3, KeepsCounts
<1>13. Fits(o)'
  BY <1>8, <1>9, <1>10, <1>11, <1>12 DEF Fits
<1>14. i0 \in ItemRows /\ i0.op = o /\ <<o, T>> \in Operations \X Targets
  BY <1>1 DEF ItemRows
<1>15. item \subseteq ItemRows /\ misreported \subseteq Operations \X Targets
       /\ op \in [Operations -> Rows \cup {Absent}]
  BY <1>1 DEF OpsTypeOK
<1>. HIDE DEF i0, T
<1>16. /\ item \subseteq item' /\ item' \subseteq ItemRows /\ \A i \in item' \ item : i.op = o
       /\ misreported \subseteq misreported' /\ misreported' \subseteq Operations \X Targets
  BY <1>0, <1>14, <1>15
<1>. QED
  BY <1>0, <1>2, <1>4, <1>13, <1>15, <1>16, LocalStep

\* createOperationItem FAILED keeps the invariant.
LEMMA StepReportFailed ==
    ASSUME IInv, NEW o \in Operations, ReportFailed(o)
    PROVE  OpsInv'
<1>. DEFINE T == run[o].target
            success == IF op[o].single THEN 0 ELSE run[o].success
            r == [run[o] EXCEPT !.at = "next", !.todo = run[o].todo \ {T},
                                !.failed = run[o].failed + 1, !.success = success]
            i0 == [op |-> o, target |-> T, status |-> "FAILED"]
<1>0. /\ run[o] # Absent /\ run[o].at = "fail"
      /\ op' = op /\ misreported' = misreported /\ trail' = trail /\ value' = value /\ unaudited' = unaudited
      /\ item' = item \cup {i0}
  BY DEF ReportFailed, At, AddItem, trailVars
<1>1. /\ TypeOK /\ OpsTypeOK /\ Fits(o) /\ Exists(o) /\ run[o] \in Runs
      /\ op[o].targets \in SUBSET Targets /\ run[o].todo \in SUBSET op[o].targets
      /\ T \in Targets /\ T \in op[o].targets /\ run[o].todo \in SUBSET Targets
  BY <1>0, Before
<1>2. /\ r \in Runs /\ r.at = "next" /\ r.todo = run[o].todo \ {T} /\ r.target = T
      /\ r.success = success /\ r.failed = run[o].failed + 1
      /\ run[o].success \in Nat /\ run[o].failed \in Nat /\ success \in Nat
  <2>1. /\ run[o].success \in Nat /\ run[o].failed \in Nat /\ run[o].failed + 1 \in Nat
        /\ success \in Nat
        /\ run[o].todo \ {T} \in SUBSET Targets /\ "next" \in Steps
    BY <1>0, <1>1, RowFacts DEF Steps
  <2>. HIDE DEF success
  <2>2. r.at = "next" /\ r.todo = run[o].todo \ {T} /\ r.target = T
        /\ r.success = success /\ r.failed = run[o].failed + 1
    BY <1>1 DEF Runs
  <2>3. r \in Runs
    BY <1>1, <2>1 DEF Runs
  <2>. QED
    BY <2>1, <2>2, <2>3
<1>3. run' = [run EXCEPT ![o] = r]
  BY <1>1 DEF ReportFailed, OpsTypeOK
<1>. HIDE DEF r
<1>4. run'[o] = r /\ run' \in [Operations -> Runs \cup {Absent}] /\ r # Absent
      /\ \A p \in Operations \ {o} : op'[p] = op[p] /\ run'[p] = run[p]
  BY <1>0, <1>1, <1>2, <1>3, PlatformOperationsAssumption DEF OpsTypeOK
<1>5. SameChanges(o)
  BY <1>0, NothingAdded
<1>6. \A t \in Targets : (ChangesBy(o, t)' = ChangesBy(o, t)) /\ (ChangedBy(o, t)' <=> ChangedBy(o, t))
                         /\ (Missed(o, t)' <=> Missed(o, t))
  BY <1>0, <1>5 DEF ChangedBy, SameChanges, Missed
<1>7. Behind(o, T) /\ Missed(o, T)
  <2>1. Behind(o, T)
    BY <1>0 DEF Behind
  <2>. QED
    BY <1>0, <1>1, <2>1 DEF Fits, ChangesFit
<1>8. OperationFits(o)' /\ StatusFits(o)'
  BY <1>0, <1>1, <1>5, KeepsRow DEF Fits
<1>9. RunFits(o)'
  <2>1. op[o].status # "RUNNING" => run[o].todo = {}
    BY <1>0, <1>1 DEF Fits, RunFits
  <2>. QED
    BY <1>0, <1>1, <1>2, <1>4, <2>1 DEF RunFits, Exists
<1>10. ChangesFit(o)'
  <2>1. ASSUME NEW t \in Targets
        PROVE  /\ \A i, j \in ChangesBy(o, t)' : i = j
               /\ ChangedBy(o, t)' => Exists(o)' /\ t \in op'[o].targets
    BY <1>0, <1>1, <1>6 DEF Fits, ChangesFit, Exists
  <2>2. ASSUME NEW t \in Targets
        PROVE  t \in r.todo => ~ChangedBy(o, t)'
    <3>1. t \in r.todo => t # T /\ t \in run[o].todo
      BY <1>2
    <3>2. t # T => ~Behind(o, t)
      BY DEF Behind
    <3>. QED
      BY <1>0, <1>1, <1>6, <3>1, <3>2 DEF Fits, ChangesFit
  <2>3. ASSUME NEW t \in Targets PROVE ~Behind(o, t)'
    BY <1>2, <1>4 DEF Behind
  <2>. QED
    BY <2>1, <2>2, <2>3, <1>4 DEF ChangesFit
<1>11. ItemsFit(o)'
  <2>1. item' \subseteq item \cup {[op |-> o, target |-> T, status |-> "FAILED"]}
    BY <1>0
  <2>2. run'[o].todo \subseteq run[o].todo /\ misreported \subseteq misreported'
        /\ T \notin run'[o].todo
    BY <1>0, <1>2, <1>4
  <2>3. ItemsFit(o) /\ op'[o] = op[o]
    BY <1>0, <1>1 DEF Fits
  <2>. HIDE DEF T
  <2>. QED
    BY <1>0, <1>1, <1>5, <1>6, <1>7, <2>1, <2>2, <2>3, KeepsItems
<1>12. CountsFit(o)'
  <2>. DEFINE over == op[o].targets \ run[o].todo
              overNow == op'[o].targets \ run'[o].todo
  <2>0. overNow = op[o].targets \ (run[o].todo \ {T})
    BY <1>0, <1>2, <1>4
  <2>1. /\ run[o].success + run[o].failed = Cardinality(over)
        /\ IF run[o].success = 0 THEN \A t \in over : Missed(o, t)
           ELSE \E t \in over : ChangedBy(o, t)
    BY <1>0, <1>1 DEF Fits, CountsFit
  <2>2. T \in overNow /\ (\A t \in over \cup {T} : t \in Targets) /\ (\A t \in overNow : t \in Targets)
    BY <1>1, <2>0
  <2>3. CASE T \in run[o].todo
    <3>1. overNow = over \cup {T} /\ Cardinality(overNow) = Cardinality(over) + 1
          /\ Cardinality(over) \in Nat
      <4>1. T \in run[o].todo /\ op[o].targets \in SUBSET Targets /\ run[o].todo \in SUBSET op[o].targets
        BY <1>1, <2>3
      <4>. HIDE DEF T
      <4>2. /\ op[o].targets \ (run[o].todo \ {T}) = (op[o].targets \ run[o].todo) \cup {T}
            /\ Cardinality(op[o].targets \ (run[o].todo \ {T})) = Cardinality(op[o].targets \ run[o].todo) + 1
            /\ Cardinality(op[o].targets \ run[o].todo) \in Nat
        BY <4>1, OverGrows
      <4>. HIDE DEF overNow
      <4>. QED
        BY <2>0, <4>2
    <3>2. op[o].single => over = {} /\ run[o].success = 0 /\ run[o].failed = 0
      <4>1. op[o].single => \E t \in Targets : op[o].targets = {t}
        BY <1>1 DEF Fits, OperationFits
      <4>2. op[o].single => over = {}
        BY <1>1, <2>3, <4>1
      <4>3. Cardinality({}) = 0
        BY FS_EmptySet
      <4>4. run[o].success + run[o].failed = Cardinality(over)
        BY <2>1
      <4>. HIDE DEF over
      <4>5. op[o].single => Cardinality(over) = 0
        BY <4>2, <4>3
      <4>6. run[o].success + run[o].failed = 0 => run[o].success = 0 /\ run[o].failed = 0
        BY <1>2
      <4>. QED
        BY <4>2, <4>4, <4>5, <4>6
    <3>. HIDE DEF over, overNow, T
    <3>3. success = run[o].success
      BY <3>2
    <3>. HIDE DEF success
    <3>4. r.success + r.failed = Cardinality(overNow) /\ r.failed # 0
      BY <1>2, <2>1, <3>1, <3>3
    <3>5. \E t \in overNow : Missed(o, t)'
      BY <1>6, <1>7, <2>2
    <3>6. IF r.success = 0 THEN \A t \in overNow : Missed(o, t)'
          ELSE \E t \in overNow : ChangedBy(o, t)'
      BY <1>2, <1>6, <1>7, <2>1, <2>2, <3>1, <3>3
    <3>. QED
      BY <1>4, <3>4, <3>5, <3>6 DEF CountsFit, overNow
  <2>4. CASE T \notin run[o].todo
    <3>1. op[o].single /\ run[o].todo = {} /\ run[o].failed = 0
      BY <1>0, <1>1, <2>4 DEF Fits, RunFits
    <3>2. \E t \in Targets : op[o].targets = {t}
      BY <1>1, <3>1 DEF Fits, OperationFits
    <3>3. overNow = {T}
      BY <1>1, <2>0, <3>1, <3>2
    <3>4. Cardinality(overNow) = 1
      BY <3>3, FS_Singleton
    <3>. HIDE DEF overNow, T
    <3>5. r.success = 0 /\ r.failed = 1
      BY <1>2, <3>1
    <3>6. \A t \in overNow : Missed(o, t)'
      BY <1>6, <1>7, <2>2, <3>3
    <3>. QED
      BY <1>4, <2>2, <3>4, <3>5, <3>6 DEF CountsFit, overNow
  <2>. QED
    BY <2>3, <2>4
<1>13. Fits(o)'
  BY <1>8, <1>9, <1>10, <1>11, <1>12 DEF Fits
<1>14. i0 \in ItemRows /\ i0.op = o
  BY <1>1 DEF ItemRows
<1>15. item \subseteq ItemRows /\ misreported \subseteq Operations \X Targets
       /\ op \in [Operations -> Rows \cup {Absent}]
  BY <1>1 DEF OpsTypeOK
<1>. HIDE DEF i0
<1>. QED
  BY <1>0, <1>2, <1>4, <1>13, <1>14, <1>15, LocalStep

-----------------------------------------------------------------------------
(* The end of an operation *)

\* updateOperation: the counts of a handler that is done are those of its row.
LEMMA SettleFits ==
    ASSUME IInv, NEW o \in Operations, Finished(o), Settle(o), trail' = trail,
           misreported \subseteq misreported', item' = item
    PROVE  /\ op' \in [Operations -> Rows \cup {Absent}]
           /\ \A p \in Operations \ {o} : op'[p] = op[p]
           /\ op'[o] # Absent /\ op'[o].targets = op[o].targets /\ op'[o].single = op[o].single
           /\ op'[o].table = op[o].table
           /\ OperationFits(o)' /\ StatusFits(o)'
<1>. DEFINE final == FinalStatus(run[o])
            s == [op[o] EXCEPT !.status = final, !.success = run[o].success, !.failed = run[o].failed]
<1>0. run[o] # Absent /\ run[o].at = "next" /\ run[o].todo = {}
  BY DEF Finished, At
<1>1. /\ TypeOK /\ OpsTypeOK /\ Fits(o) /\ Exists(o) /\ op[o] \in Rows
      /\ op[o].targets \in SUBSET Targets
      /\ run[o].success \in Nat /\ run[o].failed \in Nat
  BY <1>0, Before, RowFacts
<1>2. final \in Statuses
  BY DEF FinalStatus, Statuses
<1>3. /\ s \in Rows /\ s.targets = op[o].targets /\ s.single = op[o].single /\ s.table = op[o].table
      /\ s.next = op[o].next /\ s.source = op[o].source /\ s.status = final
      /\ s.success = run[o].success /\ s.failed = run[o].failed
  <2>. HIDE DEF final
  <2>. QED
    BY <1>1, <1>2 DEF Rows
<1>4. op' = [op EXCEPT ![o] = s]
  BY <1>1 DEF Settle, OpsTypeOK
<1>. HIDE DEF s
<1>5. /\ op' \in [Operations -> Rows \cup {Absent}] /\ op'[o] = s /\ s # Absent
      /\ \A p \in Operations \ {o} : op'[p] = op[p]
  BY <1>1, <1>3, <1>4, PlatformOperationsAssumption DEF OpsTypeOK
<1>6. OperationFits(o)'
  BY <1>1, <1>3, <1>5 DEF Fits, OperationFits, Exists
<1>7. \A t \in Targets : (ChangedBy(o, t)' <=> ChangedBy(o, t)) /\ (Missed(o, t) => Missed(o, t)')
  <2>1. SameChanges(o)
    BY NothingAdded
  <2>. QED
    BY <2>1 DEF ChangedBy, SameChanges, Missed
<1>8. StatusFits(o)'
  <2>. DEFINE all == op[o].targets
              changed == {t \in all : ChangedBy(o, t)'}
              excused == {t \in all : <<o, t>> \in misreported'}
  <2>1. all \ run[o].todo = all
    BY <1>0
  <2>2. /\ run[o].success + run[o].failed = Cardinality(all)
        /\ IF run[o].failed = 0 THEN \A t \in all : ChangedBy(o, t)
           ELSE \E t \in all : Missed(o, t)
        /\ IF run[o].success = 0 THEN \A t \in all : Missed(o, t)
           ELSE \E t \in all : ChangedBy(o, t)
    BY <1>0, <1>1, <2>1 DEF Fits, CountsFit
  <2>3. /\ final = "COMPLETED" => run[o].failed = 0
        /\ final = "FAILED" => run[o].success = 0
        /\ final = "PARTIAL_FAILED" => run[o].failed # 0 /\ run[o].success # 0
    BY DEF FinalStatus
  <2>4. \A t \in all : Missed(o, t) => t \notin changed \/ t \in excused
    BY <1>1, <1>7 DEF Missed
  <2>5. \A t \in all : ChangedBy(o, t) => t \in changed
    BY <1>1, <1>7
  <2>6. changed \subseteq all
    OBVIOUS
  <2>7. /\ final = "COMPLETED" => changed = all
        /\ final = "FAILED" => changed \subseteq excused
        /\ final = "PARTIAL_FAILED" => changed # {} /\ changed \ excused # all
    <3>. HIDE DEF changed, excused, all, final
    <3>. QED
      BY <2>2, <2>3, <2>4, <2>5, <2>6
  <2>8. /\ changed = {t \in op'[o].targets : ChangedBy(o, t)'}
        /\ excused = {t \in op'[o].targets : <<o, t>> \in misreported'}
    BY <1>3, <1>5
  <2>9. op'[o].success + op'[o].failed = Cardinality(op'[o].targets)
    BY <1>3, <1>5, <2>2
  <2>10. op'[o].status = final /\ op'[o].targets = all
    BY <1>3, <1>5
  <2>. HIDE DEF changed, excused, all, final
  <2>. QED
    BY <2>7, <2>8, <2>9, <2>10 DEF StatusFits
<1>. QED
  BY <1>3, <1>5, <1>6, <1>8

\* What was changed and the items stay as true as they were.
LEMMA KeepsChanges ==
    ASSUME TypeOK, NEW o \in Operations, ChangesFit(o), ItemsFit(o), trail' = trail, item' = item,
           misreported \subseteq misreported', Exists(o), Exists(o)', op'[o].targets = op[o].targets
    PROVE  /\ \A t \in Targets : ChangedBy(o, t)' <=> ChangedBy(o, t)
           /\ \A t \in Targets : Missed(o, t) => Missed(o, t)'
           /\ \A t \in Targets : \A i, j \in ChangesBy(o, t)' : i = j
           /\ \A t \in Targets : ChangedBy(o, t)' => Exists(o)' /\ t \in op'[o].targets
           /\ run'[o] = Absent => ChangesFit(o)'
           /\ run'[o] = Absent \/ (run[o] # Absent /\ run'[o].todo \subseteq run[o].todo) => ItemsFit(o)'
<1>0. SameChanges(o)
  BY NothingAdded
<1>1. \A t \in Targets : (ChangesBy(o, t)' = ChangesBy(o, t)) /\ (ChangedBy(o, t)' <=> ChangedBy(o, t))
                         /\ (Missed(o, t) => Missed(o, t)')
  BY <1>0 DEF ChangedBy, SameChanges, Missed
<1>2. ASSUME NEW t \in Targets
      PROVE  /\ \A i, j \in ChangesBy(o, t)' : i = j
             /\ ChangedBy(o, t)' => Exists(o)' /\ t \in op'[o].targets
  BY <1>1 DEF ChangesFit
<1>3. run'[o] = Absent => ChangesFit(o)'
  BY <1>2 DEF ChangesFit
<1>4. ASSUME run'[o] = Absent \/ (run[o] # Absent /\ run'[o].todo \subseteq run[o].todo)
      PROVE  ItemsFit(o)'
  <2>1. ASSUME NEW i \in item', i.op = o
        PROVE  /\ i.status = "SUCCEEDED" => ChangedBy(o, i.target)'
               /\ i.status = "FAILED" =>
                     /\ Missed(o, i.target)'
                     /\ Exists(o)'
                     /\ run'[o] # Absent => i.target \notin run'[o].todo
    <3>1. i.target \in Targets
      BY RowFacts
    <3>. QED
      BY <1>1, <1>4, <2>1, <3>1 DEF ItemsFit
  <2>. QED
    BY <2>1 DEF ItemsFit
<1>. QED
  BY <1>1, <1>2, <1>3, <1>4

\* Finish keeps the invariant.
LEMMA StepFinish ==
    ASSUME IInv, NEW o \in Operations, Finish(o)
    PROVE  OpsInv'
<1>0. /\ Finished(o) /\ Settle(o) /\ run[o] # Absent
      /\ run' = [run EXCEPT ![o] = Absent]
      /\ trail' = trail /\ value' = value /\ unaudited' = unaudited /\ item' = item /\ misreported' = misreported
  BY DEF Finish, Finished, At, trailVars
<1>1. TypeOK /\ OpsTypeOK /\ Fits(o) /\ Exists(o)
  BY <1>0, Before
<1>2. /\ op' \in [Operations -> Rows \cup {Absent}]
      /\ \A p \in Operations \ {o} : op'[p] = op[p]
      /\ op'[o] # Absent /\ op'[o].targets = op[o].targets
      /\ OperationFits(o)' /\ StatusFits(o)'
  BY <1>0, SettleFits
<1>3. /\ run'[o] = Absent /\ run' \in [Operations -> Runs \cup {Absent}]
      /\ \A p \in Operations \ {o} : run'[p] = run[p]
  BY <1>0, <1>1 DEF OpsTypeOK
<1>4. RunFits(o)' /\ CountsFit(o)'
  BY <1>3 DEF RunFits, CountsFit
<1>5. ChangesFit(o)' /\ ItemsFit(o)'
  BY <1>0, <1>1, <1>2, <1>3, KeepsChanges DEF Fits, Exists
<1>6. Fits(o)'
  BY <1>2, <1>4, <1>5 DEF Fits
<1>. QED
  BY <1>0, <1>1, <1>2, <1>3, <1>6, LocalStep DEF OpsTypeOK

\* So does the end of a handler that writes no status.
LEMMA StepAbandon ==
    ASSUME IInv, NEW o \in Operations, Abandon(o)
    PROVE  OpsInv'
<1>0. /\ run[o] # Absent /\ run' = [run EXCEPT ![o] = Absent]
      /\ trail' = trail /\ value' = value /\ unaudited' = unaudited /\ item' = item /\ misreported' = misreported
      /\ op' = op
  BY DEF Abandon, Finished, At, trailVars
<1>1. TypeOK /\ OpsTypeOK /\ Fits(o)
  BY <1>0, Before
<1>2. /\ run'[o] = Absent /\ run' \in [Operations -> Runs \cup {Absent}]
      /\ \A p \in Operations \ {o} : run'[p] = run[p]
  BY <1>0, <1>1 DEF OpsTypeOK
<1>3. Fits(o)'
  BY <1>0, <1>1, <1>2, NothingAdded, Keeps
<1>. QED
  BY <1>0, <1>1, <1>2, <1>3, LocalStep DEF OpsTypeOK

\* So does the end of a single operation that takes its success for a failure.
LEMMA StepFinishMisleads ==
    ASSUME IInv, NEW o \in Operations, FinishMisleads(o)
    PROVE  OpsInv'
<1>. DEFINE T == run[o].target
            r == [run[o] EXCEPT !.at = "fail"]
<1>0. /\ run[o] # Absent /\ run[o].at = "next" /\ run[o].todo = {}
      /\ misreported' = misreported \cup {<<o, T>>}
      /\ trail' = trail /\ value' = value /\ unaudited' = unaudited /\ item' = item
  BY DEF FinishMisleads, Finished, At, Misreport, trailVars
<1>1. /\ TypeOK /\ OpsTypeOK /\ Fits(o) /\ Exists(o) /\ run[o] \in Runs
      /\ op[o].targets \in SUBSET Targets
  BY <1>0, Before
<1>2. op[o].single /\ run[o].failed = 0 /\ (Settle(o) \/ op' = op)
  BY DEF FinishMisleads
<1>3. T \in op[o].targets /\ T \in Targets
  <2>1. op[o].targets # {}
    BY <1>1, <1>2 DEF Fits, OperationFits
  <2>. QED
    BY <1>0, <2>1, Before
<1>4. /\ r \in Runs /\ r.at = "fail" /\ r.todo = {} /\ r.target = T
      /\ r.success = run[o].success /\ r.failed = run[o].failed
  BY <1>0, <1>1 DEF Runs, Steps
<1>5. run' = [run EXCEPT ![o] = r]
  BY <1>1 DEF FinishMisleads, OpsTypeOK
<1>. HIDE DEF r
<1>6. /\ run'[o] = r /\ run' \in [Operations -> Runs \cup {Absent}] /\ r # Absent
      /\ \A p \in Operations \ {o} : run'[p] = run[p]
  BY <1>1, <1>4, <1>5, PlatformOperationsAssumption DEF OpsTypeOK
<1>7. misreported \subseteq misreported' /\ misreported' \subseteq Operations \X Targets
  BY <1>0, <1>1, <1>3 DEF OpsTypeOK
<1>8. /\ op' \in [Operations -> Rows \cup {Absent}]
      /\ \A p \in Operations \ {o} : op'[p] = op[p]
      /\ op'[o] # Absent /\ op'[o].targets = op[o].targets /\ op'[o].single = op[o].single
      /\ op'[o].table = op[o].table
      /\ OperationFits(o)' /\ StatusFits(o)'
  <2>1. CASE Settle(o)
    <3>1. Finished(o)
      BY DEF FinishMisleads
    <3>. QED
      BY <1>0, <1>7, <2>1, <3>1, SettleFits
  <2>2. CASE op' = op
    <3>1. OperationFits(o)' /\ StatusFits(o)'
      BY <1>0, <1>1, <1>7, <2>2, NothingAdded, KeepsRow DEF Fits
    <3>. QED
      BY <1>1, <2>2, <3>1 DEF OpsTypeOK, Exists
  <2>. QED
    BY <1>2, <2>1, <2>2
<1>9. RunFits(o)'
  BY <1>2, <1>3, <1>4, <1>6, <1>8 DEF RunFits, Exists
<1>10. /\ \A t \in Targets : ChangedBy(o, t)' <=> ChangedBy(o, t)
       /\ \A t \in Targets : Missed(o, t) => Missed(o, t)'
       /\ \A t \in Targets : \A i, j \in ChangesBy(o, t)' : i = j
       /\ \A t \in Targets : ChangedBy(o, t)' => Exists(o)' /\ t \in op'[o].targets
       /\ ItemsFit(o)'
  <2>1. Exists(o)' /\ run'[o].todo \subseteq run[o].todo
    BY <1>0, <1>4, <1>6, <1>8 DEF Exists
  <2>. QED
    BY <1>0, <1>1, <1>7, <1>8, <2>1, KeepsChanges DEF Fits
<1>11. ChangesFit(o)'
  <2>1. ASSUME NEW t \in Targets
        PROVE  Behind(o, t)' => Missed(o, t)'
    <3>1. Behind(o, t)' => t = T
      BY <1>4, <1>6 DEF Behind
    <3>2. <<o, T>> \in misreported'
      BY <1>0
    <3>. QED
      BY <3>1, <3>2 DEF Missed
  <2>2. r.at # "report" /\ r.todo = {}
    BY <1>4
  <2>. QED
    BY <1>6, <1>10, <2>1, <2>2 DEF ChangesFit
<1>12. CountsFit(o)'
  <2>. DEFINE over == op[o].targets \ run[o].todo
  <2>1. /\ run[o].success + run[o].failed = Cardinality(over)
        /\ IF run[o].failed = 0 THEN \A t \in over : ChangedBy(o, t)
           ELSE \E t \in over : Missed(o, t)
        /\ IF run[o].success = 0 THEN \A t \in over : Missed(o, t)
           ELSE \E t \in over : ChangedBy(o, t)
    BY <1>0, <1>1 DEF Fits, CountsFit
  <2>2. over = op'[o].targets \ run'[o].todo /\ \A t \in over : t \in Targets
    BY <1>0, <1>1, <1>4, <1>6, <1>8
  <2>. HIDE DEF over
  <2>3. /\ run'[o].success + run'[o].failed = Cardinality(over)
        /\ IF run'[o].failed = 0 THEN \A t \in over : ChangedBy(o, t)'
           ELSE \E t \in over : Missed(o, t)'
        /\ IF run'[o].success = 0 THEN \A t \in over : Missed(o, t)'
           ELSE \E t \in over : ChangedBy(o, t)'
    BY <1>4, <1>6, <1>10, <2>1, <2>2
  <2>. QED
    BY <2>2, <2>3 DEF CountsFit
<1>13. Fits(o)'
  BY <1>8, <1>9, <1>10, <1>11, <1>12 DEF Fits
<1>. QED
  BY <1>0, <1>1, <1>4, <1>6, <1>7, <1>8, <1>13, LocalStep DEF OpsTypeOK

-----------------------------------------------------------------------------
(* The start of an operation and the change of a target *)

\* What a new operation is to do fits its targets.
Proper(single, table, targets, v, source) ==
    /\ single \in BOOLEAN /\ table \in Tables /\ targets \in SUBSET Targets
    /\ v \in Values \cup Overrides /\ source \in Operations \cup {Absent}
    /\ IF single THEN \E t \in Targets : targets = {t} ELSE table = "decision" /\ v \in Overrides
    /\ \A t \in targets : TableOf[t] = table => v \in ValuesOf[t]
    /\ source # Absent =>
          \A t \in targets : [op |-> source, target |-> t, status |-> "FAILED"] \in item

\* Create keeps the invariant, if it is proper.
LEMMA StepCreate ==
    ASSUME IInv, NEW o \in Operations, NEW single, NEW table, NEW targets, NEW v, NEW source,
           Create(o, single, table, targets, v, source),
           Proper(single, table, targets, v, source)
    PROVE  OpsInv'
<1>p. /\ single \in BOOLEAN /\ table \in Tables /\ targets \in SUBSET Targets
      /\ v \in Values \cup Overrides /\ source \in Operations \cup {Absent}
      /\ IF single THEN \E t \in Targets : targets = {t} ELSE table = "decision" /\ v \in Overrides
      /\ \A t \in targets : TableOf[t] = table => v \in ValuesOf[t]
      /\ source # Absent =>
            \A t \in targets : [op |-> source, target |-> t, status |-> "FAILED"] \in item
  BY DEF Proper
<1>. DEFINE x == [single |-> single, table |-> table, next |-> v, targets |-> targets,
                  source |-> source, status |-> "RUNNING", success |-> 0, failed |-> 0]
            r == [at |-> "next", todo |-> targets, target |-> Absent, before |-> Absent,
                  late |-> FALSE, success |-> 0, failed |-> 0]
<1>0. /\ op[o] = Absent /\ op' = [op EXCEPT ![o] = x] /\ run' = [run EXCEPT ![o] = r]
      /\ trail' = trail /\ value' = value /\ unaudited' = unaudited /\ item' = item /\ misreported' = misreported
  BY DEF Create, trailVars
<1>1. TypeOK /\ OpsTypeOK /\ Fits(o) /\ ~Exists(o)
  BY <1>0 DEF IInv, TypeOK, OpsTypeOK, Exists
<1>2. /\ x \in Rows /\ x.single = single /\ x.table = table /\ x.next = v /\ x.targets = targets
      /\ x.source = source /\ x.status = "RUNNING"
  BY <1>p DEF Rows, Statuses
<1>3. /\ r \in Runs /\ r.at = "next" /\ r.todo = targets /\ r.success = 0 /\ r.failed = 0
  BY <1>p DEF Runs, Steps
<1>. HIDE DEF x, r
<1>4. /\ op' \in [Operations -> Rows \cup {Absent}] /\ op'[o] = x /\ x # Absent
      /\ run' \in [Operations -> Runs \cup {Absent}] /\ run'[o] = r /\ r # Absent
      /\ \A p \in Operations \ {o} : op'[p] = op[p] /\ run'[p] = run[p]
  BY <1>0, <1>1, <1>2, <1>3, PlatformOperationsAssumption DEF OpsTypeOK
<1>5. \A t \in Targets : ~ChangedBy(o, t) /\ ~ChangedBy(o, t)' /\ ChangesBy(o, t)' = ChangesBy(o, t)
  <2>1. SameChanges(o)
    BY <1>0, NothingAdded
  <2>2. \A t \in Targets : ~ChangedBy(o, t)
    BY <1>1 DEF Fits, ChangesFit
  <2>. QED
    BY <2>1, <2>2 DEF SameChanges, ChangedBy
<1>6. OperationFits(o)'
  BY <1>p, <1>0, <1>2, <1>4 DEF OperationFits, Exists
<1>7. RunFits(o)'
  BY <1>2, <1>3, <1>4 DEF RunFits, Exists
<1>8. ChangesFit(o)'
  <2>1. ASSUME NEW t \in Targets
        PROVE  (\A i, j \in ChangesBy(o, t)' : i = j) /\ ~ChangedBy(o, t)' /\ ~Behind(o, t)'
    <3>1. ~Behind(o, t)'
      BY <1>3, <1>4 DEF Behind
    <3>. QED
      BY <1>1, <1>5, <3>1 DEF Fits, ChangesFit
  <2>. QED
    BY <2>1 DEF ChangesFit
<1>9. ItemsFit(o)'
  <2>1. ASSUME NEW i \in item, i.op = o PROVE i.status # "SUCCEEDED" /\ i.status # "FAILED"
    <3>1. i.target \in Targets
      BY <1>1, RowFacts
    <3>. QED
      BY <1>1, <1>5, <2>1, <3>1 DEF Fits, ItemsFit
  <2>. QED
    BY <1>0, <2>1 DEF ItemsFit
<1>10. CountsFit(o)'
  <2>1. op'[o].targets \ run'[o].todo = {}
    BY <1>2, <1>3, <1>4
  <2>2. Cardinality({}) = 0
    BY FS_EmptySet
  <2>3. run'[o].success = 0 /\ run'[o].failed = 0
    BY <1>3, <1>4
  <2>. QED
    BY <2>1, <2>2, <2>3 DEF CountsFit
<1>11. StatusFits(o)'
  BY <1>2, <1>4 DEF StatusFits
<1>12. Fits(o)'
  BY <1>6, <1>7, <1>8, <1>9, <1>10, <1>11 DEF Fits
<1>. QED
  BY <1>0, <1>1, <1>3, <1>4, <1>12, LocalStep DEF OpsTypeOK

\* The commit of a change keeps the invariant of operations.
LEMMA StepCommitOps ==
    ASSUME IInv, NEW o \in Operations, NEW step \in {"report", "fail"}, Commit(o, step),
           IF step = "report" THEN misreported' = misreported ELSE Misreport(o)
    PROVE  OpsInv'
<1>. DEFINE T == run[o].target
            r == [run[o] EXCEPT !.at = step]
            R == [run EXCEPT ![o] = r]
<1>0. TypeOK /\ OpsTypeOK /\ RunsFresh /\ Fits(o) /\ TrailTypeOK
  BY DEF IInv, TypeOK, OpsTypeOK
<1>1. /\ run[o] # Absent /\ run[o].at = "write" /\ T \in run[o].todo /\ T \in Targets
      /\ \A t \in Targets \ {T} : Adds(t, <<>>)
  BY <1>0, CommitAdds
<1>2. /\ run[o] \in Runs /\ Exists(o) /\ op[o].targets \in SUBSET Targets
      /\ run[o].todo \in SUBSET op[o].targets /\ T \in op[o].targets
  BY <1>1, Before
<1>3. /\ r \in Runs /\ r.at = step /\ r.todo = run[o].todo /\ r.target = T
      /\ r.success = run[o].success /\ r.failed = run[o].failed
  BY <1>2 DEF Runs, Steps
<1>4. /\ op' = op /\ item' = item
      /\ run' = OutdateRuns(R, {T})
  BY <1>0, <1>2 DEF Commit, OpsTypeOK
<1>5. R \in [Operations -> Runs \cup {Absent}] /\ R[o] = r /\ \A p \in Operations \ {o} : R[p] = run[p]
  <2>. HIDE DEF r
  <2>. QED
    BY <1>0, <1>3 DEF OpsTypeOK
<1>. HIDE DEF r, R
<1>6. /\ run' \in [Operations -> Runs \cup {Absent}]
      /\ \A p \in Operations :
            IF R[p] = Absent THEN run'[p] = Absent
            ELSE /\ run'[p] # Absent /\ Alike(R[p], run'[p])
                 /\ run'[p].before = R[p].before
                 /\ ~run'[p].late => ~R[p].late /\ ~(R[p].at = "write" /\ R[p].target \in {T})
  BY <1>4, <1>5, OutdateRunsFacts
<1>7. /\ run'[o] # Absent /\ run'[o].at = step /\ run'[o].todo = run[o].todo
      /\ run'[o].target = T /\ run'[o].success = run[o].success /\ run'[o].failed = run[o].failed
  BY <1>3, <1>5, <1>6, PlatformOperationsAssumption DEF Alike
<1>8. /\ \A p \in Operations \ {o} : SameChanges(p)
      /\ \A t \in Targets \ {T} : ChangesBy(o, t)' = ChangesBy(o, t)
      /\ \A t \in Targets : t = T =>
            (\A i, j \in ChangesBy(o, t)' : i = j) /\ ChangedBy(o, t)' /\ ~ChangedBy(o, t)
  <2>1. ASSUME NEW x \in Targets, x = T
        PROVE  /\ \A p \in Operations \ {o} : SameChanges(p)
               /\ \A t \in Targets \ {x} : ChangesBy(o, t)' = ChangesBy(o, t)
               /\ (\A i, j \in ChangesBy(o, x)' : i = j) /\ ChangedBy(o, x)' /\ ~ChangedBy(o, x)
    BY <1>0, <2>1, CommitChanges
  <2>. HIDE DEF T
  <2>. QED
    BY <1>1, <2>1
<1>9. /\ misreported \subseteq misreported' /\ misreported' \subseteq Operations \X Targets
      /\ step = "fail" => <<o, T>> \in misreported'
  BY <1>0, <1>1 DEF OpsTypeOK, Misreport
<1>10. \A t \in Targets \ {T} : (ChangedBy(o, t)' <=> ChangedBy(o, t)) /\ (Missed(o, t) => Missed(o, t)')
  BY <1>8, <1>9 DEF ChangedBy, Missed
<1>11. OperationFits(o)'
  BY <1>0, <1>4 DEF Fits, OperationFits, Exists
<1>12. op[o].status = "RUNNING"
  BY <1>0, <1>1 DEF Fits, RunFits
<1>13. StatusFits(o)'
  BY <1>4, <1>12 DEF StatusFits
<1>14. RunFits(o)'
  BY <1>1, <1>2, <1>4, <1>7, <1>12 DEF RunFits, Exists
<1>15. ChangesFit(o)'
  <2>1. ASSUME NEW t \in Targets
        PROVE  /\ \A i, j \in ChangesBy(o, t)' : i = j
               /\ ChangedBy(o, t)' => Exists(o)' /\ t \in op'[o].targets
    <3>1. CASE t = T
      BY <1>2, <1>4, <1>8, <3>1 DEF Exists
    <3>2. CASE t # T
      BY <1>0, <1>4, <1>8, <1>10, <3>2 DEF Fits, ChangesFit, Exists
    <3>. QED
      BY <3>1, <3>2
  <2>2. ASSUME NEW t \in Targets
        PROVE  Behind(o, t)' <=> t = T
    BY <1>7 DEF Behind
  <2>3. ASSUME NEW t \in Targets, t # T
        PROVE  t \in run'[o].todo => ~ChangedBy(o, t)'
    <3>1. ~Behind(o, t)
      BY <1>1 DEF Behind
    <3>. QED
      BY <1>0, <1>1, <1>7, <1>10, <2>3, <3>1 DEF Fits, ChangesFit
  <2>4. ASSUME NEW t \in Targets, t = T
        PROVE  ChangedBy(o, t)' /\ (run'[o].at = "fail" => Missed(o, t)')
    BY <1>7, <1>8, <1>9, <2>4 DEF Missed
  <2>. HIDE DEF T
  <2>. QED
    BY <2>1, <2>2, <2>3, <2>4 DEF ChangesFit
<1>16. ItemsFit(o)'
  <2>1. ASSUME NEW i \in item, i.op = o
        PROVE  /\ i.status = "SUCCEEDED" => ChangedBy(o, i.target)'
               /\ i.status = "FAILED" =>
                     /\ Missed(o, i.target)' /\ Exists(o)' /\ i.target \notin run'[o].todo
    <3>0. i.target \in Targets
      BY <1>0, RowFacts
    <3>1. CASE i.target = T
      <4>1. i.status # "FAILED"
        BY <1>0, <1>1, <2>1, <3>1 DEF Fits, ItemsFit
      <4>2. ChangedBy(o, i.target)'
        BY <1>8, <3>0, <3>1
      <4>. QED
        BY <4>1, <4>2
    <3>2. CASE i.target # T
      BY <1>0, <1>1, <1>2, <1>4, <1>7, <1>10, <2>1, <3>0, <3>2 DEF Fits, ItemsFit, Exists
    <3>. QED
      BY <3>1, <3>2
  <2>. QED
    BY <1>4, <2>1 DEF ItemsFit
<1>17. CountsFit(o)'
  <2>1. \A t \in op[o].targets \ run[o].todo : ChangedBy(o, t)' <=> ChangedBy(o, t)
    BY <1>1, <1>2, <1>10
  <2>. QED
    BY <1>0, <1>1, <1>4, <1>7, <1>9, <2>1, KeepsCounts DEF Fits
<1>18. ASSUME NEW p \in Operations PROVE Fits(p)'
  <2>1. CASE p = o
    BY <1>11, <1>13, <1>14, <1>15, <1>16, <1>17, <2>1 DEF Fits
  <2>2. CASE p # o
    <3>1. run'[p] = Absent \/ (run[p] # Absent /\ Alike(run[p], run'[p]))
      BY <1>5, <1>6, <2>2
    <3>2. TypeOK /\ Fits(p) /\ SameChanges(p)
      BY <1>8, <2>2 DEF IInv
    <3>. QED
      BY <1>4, <1>9, <3>1, <3>2, Keeps
  <2>. QED
    BY <2>1, <2>2
<1>19. RunsFresh'
  <2>1. ASSUME NEW p \in Operations, run'[p] # Absent, run'[p].at = "write", ~run'[p].late
        PROVE  run'[p].before = value'[run'[p].target] /\ run'[p].target \notin unaudited'
    <3>1. p # o
      BY <1>7, <2>1
    <3>2. R[p] # Absent /\ R[p] = run[p] /\ run[p].at = "write" /\ run'[p].target = run[p].target
      BY <1>5, <1>6, <2>1, <3>1 DEF Alike
    <3>3. ~run[p].late /\ run[p].target # T /\ run'[p].before = run[p].before
      BY <1>6, <2>1, <3>2
    <3>4. run[p].before = value[run[p].target] /\ run[p].target \notin unaudited
      BY <1>0, <3>2, <3>3 DEF RunsFresh, At
    <3>5. run[p].target \in Targets
      BY <3>2, Before
    <3>6. value'[run[p].target] = value[run[p].target] /\ run[p].target \notin unaudited'
      BY <1>1, <3>3, <3>4, <3>5 DEF Adds
    <3>. QED
      BY <3>2, <3>3, <3>4, <3>6
  <2>. QED
    BY <2>1 DEF RunsFresh, At
<1>20. OpsTypeOK'
  BY <1>0, <1>4, <1>6, <1>9 DEF OpsTypeOK
<1>. QED
  BY <1>18, <1>19, <1>20 DEF OpsInv

-----------------------------------------------------------------------------
(* Submissions and restarts *)

\* A step that moves no handler keeps the invariant of operations.
LEMMA QuietOps ==
    ASSUME IInv, op' = op, item' = item, misreported' = misreported,
           run' \in [Operations -> Runs \cup {Absent}],
           \A p \in Operations : run'[p] = Absent \/ (run[p] # Absent /\ Alike(run[p], run'[p])),
           \A p \in Operations : SameChanges(p),
           RunsFresh'
    PROVE  OpsInv'
<1>1. ASSUME NEW p \in Operations PROVE Fits(p)'
  BY Keeps DEF IInv
<1>2. OpsTypeOK'
  BY DEF IInv, TypeOK, OpsTypeOK
<1>. QED
  BY <1>1, <1>2 DEF OpsInv

\* A step that changes no target and leaves operations alone keeps the invariant.
LEMMA StepIdle ==
    ASSUME IInv, TrailInv', UNCHANGED <<value, trail, unaudited, opVars>>
    PROVE  TrailInv' /\ OpsInv'
<1>1. op' = op /\ item' = item /\ misreported' = misreported /\ run' = run
      /\ trail' = trail /\ value' = value /\ unaudited' = unaudited
  BY DEF opVars
<1>2. run \in [Operations -> Runs \cup {Absent}]
  BY DEF IInv, TypeOK
<1>3. RunsFresh'
  BY <1>1 DEF IInv, RunsFresh, At
<1>4. \A p \in Operations : SameChanges(p)
  BY <1>1, NothingAdded
<1>. QED
  BY <1>1, <1>2, <1>3, <1>4, QuietOps DEF Alike

\* The start of a submission or override: it is late for what it has not read.
LEMMA StepBegin ==
    ASSUME IInv, NEW c \in Clients, NEW company \in Companies \cup {Absent},
           NEW items \in Seq(Items), NEW unread \in SUBSET Targets,
           Begin(c, company, items, unread), UNCHANGED opVars
    PROVE  TrailInv' /\ OpsInv'
<1>. DEFINE before == [t \in Targets |-> IF t \in unread THEN Absent ELSE value[t]]
            q == [items |-> items, company |-> company, before |-> before, late |-> unread]
<1>0. TrailInv /\ request \in [Clients -> Requests \cup {Absent}]
      /\ value \in [Targets -> Values \cup {Absent}]
  BY DEF IInv, TypeOK, TrailInv, TrailTypeOK
<1>1. /\ before \in [Targets -> Values \cup {Absent}]
      /\ \A t \in Targets \ unread : before[t] = value[t]
  BY <1>0
<1>. HIDE DEF before
<1>2. q \in Requests /\ q.before = before /\ q.late = unread
  BY <1>1 DEF Requests
<1>3. /\ request' = [request EXCEPT ![c] = q]
      /\ UNCHANGED <<value, trail, owner, initial, unaudited>>
  BY DEF Begin, before
<1>. HIDE DEF q
<1>4. /\ request' \in [Clients -> Requests \cup {Absent}]
      /\ \A d \in Clients \ {c} : request'[d] = request[d]
      /\ request'[c] = q
  BY <1>0, <1>2, <1>3
<1>5. \A d \in Clients :
          \/ request'[d] = Absent \/ request'[d] = request[d]
          \/ \A t \in Targets \ request'[d].late : request'[d].before[t] = value[t]
  <2>1. \A t \in Targets \ request'[c].late : request'[c].before[t] = value[t]
    BY <1>1, <1>2, <1>4
  <2>. QED
    BY <1>4, <2>1
<1>6. TrailInv'
  BY <1>0, <1>3, <1>4, <1>5, QuietTrail
<1>. QED
  BY <1>3, <1>6, StepIdle

\* Its commit.
LEMMA StepCommitRequestOps ==
    ASSUME IInv, NEW c \in Clients, CommitRequest(c),
           run' = OutdateRuns(run, {t \in Targets : trail'[t] # trail[t]}),
           UNCHANGED <<op, item, misreported>>
    PROVE  TrailInv' /\ OpsInv'
<1>. DEFINE T == {t \in Targets : trail'[t] # trail[t]}
<1>0. /\ TrailInv /\ TrailTypeOK /\ RequestsFresh /\ RunsFresh
      /\ run \in [Operations -> Runs \cup {Absent}] /\ TypeOK
  BY DEF IInv, TypeOK, TrailInv, TrailTypeOK
<1>1. TrailInv'
  BY <1>0, StepCommitRequest
<1>2. /\ run' \in [Operations -> Runs \cup {Absent}]
      /\ \A o \in Operations :
            IF run[o] = Absent THEN run'[o] = Absent
            ELSE /\ run'[o] # Absent /\ Alike(run[o], run'[o])
                 /\ run'[o].before = run[o].before
                 /\ ~run'[o].late => ~run[o].late /\ ~(run[o].at = "write" /\ run[o].target \in T)
  <2>1. run' = OutdateRuns(run, T)
    OBVIOUS
  <2>. HIDE DEF T
  <2>2. /\ OutdateRuns(run, T) \in [Operations -> Runs \cup {Absent}]
        /\ \A o \in Operations :
              IF run[o] = Absent THEN OutdateRuns(run, T)[o] = Absent
              ELSE /\ OutdateRuns(run, T)[o] # Absent /\ Alike(run[o], OutdateRuns(run, T)[o])
                   /\ OutdateRuns(run, T)[o].before = run[o].before
                   /\ ~OutdateRuns(run, T)[o].late =>
                         ~run[o].late /\ ~(run[o].at = "write" /\ run[o].target \in T)
    BY <1>0, OutdateRunsFacts
  <2>. QED
    BY <2>1, <2>2
<1>3. ASSUME NEW t \in Targets \ T PROVE value'[t] = value[t] /\ (t \in unaudited' => t \in unaudited)
  <2>1. PICK s \in Seq(Entries) : Adds(t, s)
    BY <1>0, CommitRequestAdds
  <2>2. trail[t] \in Seq(Entries) /\ trail[t] \o s = trail[t]
    BY <1>0, <2>1 DEF Adds, TrailTypeOK
  <2>3. s = <<>>
    BY <2>2
  <2>. QED
    BY <2>1, <2>3 DEF Adds
<1>4. RunsFresh'
  <2>1. ASSUME NEW p \in Operations, run'[p] # Absent, run'[p].at = "write", ~run'[p].late
        PROVE  run'[p].before = value'[run'[p].target] /\ run'[p].target \notin unaudited'
    <3>1. run[p] # Absent /\ run[p].at = "write" /\ run'[p].target = run[p].target
          /\ run'[p].before = run[p].before /\ ~run[p].late /\ run[p].target \notin T
      BY <1>2, <2>1 DEF Alike
    <3>2. run[p].before = value[run[p].target] /\ run[p].target \notin unaudited
      BY <1>0, <3>1 DEF RunsFresh, At
    <3>3. run[p].target \in Targets
      BY <3>1, Before
    <3>. HIDE DEF T
    <3>4. value'[run[p].target] = value[run[p].target] /\ run[p].target \notin unaudited'
      BY <1>3, <3>1, <3>2, <3>3
    <3>. QED
      BY <3>1, <3>2, <3>4
  <2>. QED
    BY <2>1 DEF RunsFresh, At
<1>5. \A p \in Operations : SameChanges(p)
  BY <1>0, RequestChanges
<1>6. \A p \in Operations : run'[p] = Absent \/ (run[p] # Absent /\ Alike(run[p], run'[p]))
  BY <1>2
<1>7. OpsInv'
  BY <1>2, <1>4, <1>5, <1>6, QuietOps
<1>. QED
  BY <1>1, <1>7

\* A request that is rolled back.
LEMMA StepDrop ==
    ASSUME IInv, NEW c \in Clients, DropRequest(c), UNCHANGED opVars
    PROVE  TrailInv' /\ OpsInv'
<1>0. TrailInv /\ request \in [Clients -> Requests \cup {Absent}]
  BY DEF IInv, TypeOK, TrailInv, TrailTypeOK
<1>1. /\ request' = [request EXCEPT ![c] = Absent]
      /\ UNCHANGED <<value, trail, owner, initial, unaudited>>
  BY DEF DropRequest
<1>2. TrailInv'
  BY <1>0, <1>1, QuietTrail
<1>. QED
  BY <1>1, <1>2, StepIdle

\* A user who creates a company is unaudited, and whoever has read is late.
LEMMA StepCreateCompany ==
    ASSUME IInv, NEW t \in Targets, NEW v \in ValuesOf[t], CreateCompany(t, v),
           run' = OutdateRuns(run, {t}), UNCHANGED <<op, item, misreported>>
    PROVE  TrailInv' /\ OpsInv'
<1>0. /\ TrailTypeOK /\ TrailIsHistory /\ RequestsFresh /\ RunsFresh
      /\ request \in [Clients -> Requests \cup {Absent}]
      /\ run \in [Operations -> Runs \cup {Absent}] /\ TypeOK
  BY DEF IInv, TypeOK, TrailTypeOK
<1>1. /\ value' = [value EXCEPT ![t] = v] /\ request' = Outdate(request, {t})
      /\ unaudited' = unaudited \cup {t} /\ t \notin Decisions
      /\ UNCHANGED <<trail, owner, initial>>
  BY DEF CreateCompany, Decisions
<1>2. v \in Values /\ {t} \in SUBSET Targets
  BY DEF Values
<1>3. value' \in [Targets -> Values \cup {Absent}] /\ \A u \in Targets \ {t} : value'[u] = value[u]
  BY <1>0, <1>1, <1>2 DEF TrailTypeOK
<1>4. /\ request' \in [Clients -> Requests \cup {Absent}]
      /\ \A c \in Clients : request'[c] # Absent =>
            \A u \in Targets \ request'[c].late : request'[c].before[u] = value'[u]
  <2>1. \A c \in Clients : request[c] # Absent =>
           \A u \in Targets \ request[c].late : request[c].before[u] = value[u]
    BY <1>0 DEF RequestsFresh
  <2>2. /\ Outdate(request, {t}) \in [Clients -> Requests \cup {Absent}]
        /\ \A c \in Clients : Outdate(request, {t})[c] # Absent =>
              \A u \in Targets \ Outdate(request, {t})[c].late :
                 Outdate(request, {t})[c].before[u] = value'[u]
    BY <1>0, <1>2, <1>3, <2>1, OutdateFacts
  <2>. QED
    BY <1>1, <2>2
<1>5. TrailTypeOK'
  BY <1>0, <1>1, <1>3, <1>4 DEF TrailTypeOK
<1>6. TrailIsHistory'
  BY <1>0, <1>1, <1>3 DEF TrailIsHistory, LastNext
<1>7. RequestsFresh'
  BY <1>4 DEF RequestsFresh
<1>8. /\ run' \in [Operations -> Runs \cup {Absent}]
      /\ \A o \in Operations :
            IF run[o] = Absent THEN run'[o] = Absent
            ELSE /\ run'[o] # Absent /\ Alike(run[o], run'[o])
                 /\ run'[o].before = run[o].before
                 /\ ~run'[o].late => ~run[o].late /\ ~(run[o].at = "write" /\ run[o].target \in {t})
  BY <1>0, OutdateRunsFacts
<1>9. RunsFresh'
  <2>1. ASSUME NEW p \in Operations, run'[p] # Absent, run'[p].at = "write", ~run'[p].late
        PROVE  run'[p].before = value'[run'[p].target] /\ run'[p].target \notin unaudited'
    <3>1. run[p] # Absent /\ run[p].at = "write" /\ run'[p].target = run[p].target
          /\ run'[p].before = run[p].before /\ ~run[p].late /\ run[p].target # t
      BY <1>8, <2>1 DEF Alike
    <3>2. run[p].before = value[run[p].target] /\ run[p].target \notin unaudited
      BY <1>0, <3>1 DEF RunsFresh, At
    <3>3. run[p].target \in Targets
      BY <3>1, Before
    <3>. QED
      BY <1>1, <1>3, <3>1, <3>2, <3>3
  <2>. QED
    BY <2>1 DEF RunsFresh, At
<1>10. \A p \in Operations : SameChanges(p)
  BY <1>1, NothingAdded
<1>11. \A p \in Operations : run'[p] = Absent \/ (run[p] # Absent /\ Alike(run[p], run'[p]))
  BY <1>8
<1>12. OpsInv'
  BY <1>8, <1>9, <1>10, <1>11, QuietOps
<1>. QED
  BY <1>5, <1>6, <1>7, <1>12 DEF TrailInv

\* The restart of the API process.
LEMMA StepRestart ==
    ASSUME IInv, Restart
    PROVE  TrailInv' /\ OpsInv'
<1>0. TrailInv
  BY DEF IInv, TypeOK, TrailInv
<1>1. /\ run' = [o \in Operations |-> Absent] /\ request' = [c \in Clients |-> Absent]
      /\ value' = value /\ trail' = trail /\ initial' = initial
      /\ owner' = owner /\ unaudited' = unaudited
      /\ op' = op /\ item' = item /\ misreported' = misreported
  BY DEF Restart
<1>2. TrailInv'
  BY <1>0, <1>1, QuietTrail
<1>3. RunsFresh'
  BY <1>1 DEF RunsFresh, At
<1>4. \A p \in Operations : SameChanges(p)
  BY <1>1, NothingAdded
<1>5. OpsInv'
  BY <1>1, <1>3, <1>4, QuietOps
<1>. QED
  BY <1>2, <1>5

-----------------------------------------------------------------------------
(* Every step keeps the invariant *)

\* A request: a submission or an override begins, commits or is dropped.
LEMMA StepRequest ==
    ASSUME IInv, RequestStep
    PROVE  TrailInv' /\ OpsInv'
<1>1. ASSUME NEW c \in Clients, NEW n \in 1..MaxItems, NEW items \in [1..n -> Items],
             NEW k \in Companies, BeginSubmit(c, k, items), UNCHANGED opVars
      PROVE  TrailInv' /\ OpsInv'
  <2>1. items \in Seq(Items)
    BY <1>1, AuditTrailAssumption
  <2>2. HeldByOthers(k) \in SUBSET Targets
    BY DEF HeldByOthers, Decisions
  <2>. QED
    BY <1>1, <2>1, <2>2, StepBegin DEF BeginSubmit
<1>2. ASSUME NEW c \in Clients, NEW t \in Decisions, NEW v \in ValuesOf[t],
             BeginOverride(c, t, v), UNCHANGED opVars
      PROVE  TrailInv' /\ OpsInv'
  <2>1. t \in Targets /\ v \in Values
    BY <1>2 DEF Decisions, Values
  <2>2. [target |-> t, next |-> v] \in Items
    BY <2>1 DEF Items
  <2>3. <<[target |-> t, next |-> v]>> \in Seq(Items)
    BY <2>2
  <2>4. Begin(c, Absent, <<[target |-> t, next |-> v]>>, {})
    BY <1>2 DEF BeginOverride
  <2>5. Absent \in Companies \cup {Absent} /\ {} \in SUBSET Targets
    OBVIOUS
  <2>. QED
    BY <1>2, <2>3, <2>4, <2>5, StepBegin
<1>3. ASSUME NEW c \in Clients, CommitRequest(c),
             run' = OutdateRuns(run, {t \in Targets : trail'[t] # trail[t]}),
             UNCHANGED <<op, item, misreported>>
      PROVE  TrailInv' /\ OpsInv'
  BY <1>3, StepCommitRequestOps
<1>4. ASSUME NEW c \in Clients, DropRequest(c), UNCHANGED opVars
      PROVE  TrailInv' /\ OpsInv'
  BY <1>4, StepDrop
<1>5. ASSUME NEW t \in Targets, NEW v \in ValuesOf[t], CreateCompany(t, v),
             run' = OutdateRuns(run, {t}), UNCHANGED <<op, item, misreported>>
      PROVE  TrailInv' /\ OpsInv'
  BY <1>5, StepCreateCompany
<1>. QED
  BY <1>1, <1>2, <1>3, <1>4, <1>5 DEF RequestStep

\* Where the audit trail is left alone, it stays as it was.
LEMMA StepOwn ==
    ASSUME IInv, UNCHANGED trailVars, OpsInv'
    PROVE  TrailInv' /\ OpsInv'
<1>0. TrailInv /\ request \in [Clients -> Requests \cup {Absent}]
  BY DEF IInv, TypeOK, TrailInv, TrailTypeOK
<1>1. UNCHANGED <<value, trail, owner, request, initial, unaudited>>
  BY DEF trailVars
<1>. QED
  BY <1>0, <1>1, QuietTrail

\* A handler reads its next target, does not find it, or cannot change it.
LEMMA StepReads ==
    ASSUME IInv, NEW o \in Operations,
           (\E t \in Targets : ReadTarget(o, t) \/ MissTarget(o, t)) \/ WriteFails(o)
    PROVE  OpsInv'
<1>0. run[o] # Absent /\ run[o].at \in {"next", "write"}
  BY DEF ReadTarget, MissTarget, WriteFails, At
<1>1. run[o] \in Runs /\ Fits(o) /\ run \in [Operations -> Runs \cup {Absent}]
      /\ value \in [Targets -> Values \cup {Absent}]
  BY <1>0, Before DEF IInv, TypeOK, TrailTypeOK
<1>2. ASSUME NEW t \in Targets, ReadTarget(o, t) PROVE OpsInv'
  <2>. DEFINE late == t \in unaudited
              r == [run[o] EXCEPT !.at = "write", !.target = t, !.before = value[t], !.late = late]
  <2>0. late \in BOOLEAN
    OBVIOUS
  <2>2. run' = [run EXCEPT ![o] = r]
    BY <1>1, <1>2 DEF ReadTarget
  <2>4. late <=> t \in unaudited
    OBVIOUS
  <2>. HIDE DEF late
  <2>1. /\ r \in Runs /\ r.at = "write" /\ r.target = t /\ r.before = value[t] /\ r.late = late
        /\ r.todo = run[o].todo /\ r.success = run[o].success /\ r.failed = run[o].failed
    <3>1. value[t] \in Values \cup {Absent} /\ "write" \in Steps
      BY <1>1 DEF Steps
    <3>. QED
      BY <1>1, <2>0, <3>1 DEF Runs
  <2>3. /\ run[o].at = "next" /\ t \in run[o].todo /\ TableOf[t] = op[o].table
        /\ trail' = trail /\ value' = value /\ unaudited' = unaudited /\ op' = op /\ item' = item
        /\ misreported' = misreported
    BY <1>2 DEF ReadTarget, At, Found, trailVars
  <2>. HIDE DEF r
  <2>. QED
    BY <1>0, <2>1, <2>2, <2>3, <2>4, StepTurn
<1>3. ASSUME NEW t \in Targets, MissTarget(o, t) PROVE OpsInv'
  <2>. DEFINE r == [run[o] EXCEPT !.at = "fail", !.target = t]
  <2>1. /\ r \in Runs /\ r.at = "fail" /\ r.target = t
        /\ r.todo = run[o].todo /\ r.success = run[o].success /\ r.failed = run[o].failed
    BY <1>1 DEF Runs, Steps
  <2>2. run' = [run EXCEPT ![o] = r]
    BY <1>1, <1>3 DEF MissTarget
  <2>3. /\ run[o].at = "next" /\ t \in run[o].todo
        /\ trail' = trail /\ value' = value /\ unaudited' = unaudited /\ op' = op /\ item' = item
        /\ misreported' = misreported
    BY <1>3 DEF MissTarget, At, trailVars
  <2>. HIDE DEF r
  <2>. QED
    BY <1>0, <2>1, <2>2, <2>3, StepTurn
<1>4. ASSUME WriteFails(o) PROVE OpsInv'
  <2>. DEFINE r == [run[o] EXCEPT !.at = "fail"]
  <2>1. /\ r \in Runs /\ r.at = "fail" /\ r.target = run[o].target
        /\ r.todo = run[o].todo /\ r.success = run[o].success /\ r.failed = run[o].failed
    BY <1>1 DEF Runs, Steps
  <2>2. run' = [run EXCEPT ![o] = r]
    BY <1>1, <1>4 DEF WriteFails
  <2>3. /\ run[o].at = "write"
        /\ trail' = trail /\ value' = value /\ unaudited' = unaudited /\ op' = op /\ item' = item
        /\ misreported' = misreported
    BY <1>4 DEF WriteFails, At, trailVars
  <2>4. run[o].target \in run[o].todo
    BY <1>0, <1>1, <2>3 DEF Fits, RunFits
  <2>. HIDE DEF r
  <2>. QED
    BY <1>0, <2>1, <2>2, <2>3, <2>4, StepTurn
<1>. QED
  BY <1>2, <1>3, <1>4

\* The start of an operation by each of its endpoints.
LEMMA StepStart ==
    ASSUME IInv, NEW o \in Operations,
           \/ \E T \in SUBSET Targets, v \in Overrides : BatchOverride(o, T, v)
           \/ \E t \in Targets, v \in Values : Control(o, t, v)
           \/ \E source \in Operations : RetryFailed(o, source)
    PROVE  TrailInv' /\ OpsInv'
<1>0. TypeOK
  BY DEF IInv
<1>1. \A t \in Targets : TableOf[t] = "decision" => Overrides \subseteq ValuesOf[t]
  BY PlatformOperationsAssumption DEF Decisions
<1>2. "decision" \in Tables /\ Absent \notin Operations
  BY AuditTrailAssumption DEF Tables
<1>3. ASSUME NEW T \in SUBSET Targets, NEW v \in Overrides, BatchOverride(o, T, v)
      PROVE  TrailInv' /\ OpsInv'
  <2>1. Create(o, FALSE, "decision", T, v, Absent) /\ UNCHANGED trailVars
    BY <1>3 DEF BatchOverride, Create
  <2>2. OpsInv'
    <3>1. Proper(FALSE, "decision", T, v, Absent)
      BY <1>1, <1>2 DEF Proper
    <3>. QED
      BY <2>1, <3>1, StepCreate
  <2>. QED
    BY <2>1, <2>2, StepOwn
<1>4. ASSUME NEW t \in Targets, NEW v \in Values, Control(o, t, v)
      PROVE  TrailInv' /\ OpsInv'
  <2>1. Create(o, TRUE, TableOf[t], {t}, v, Absent) /\ v \in ValuesOf[t] /\ UNCHANGED trailVars
    BY <1>4 DEF Control, Create
  <2>2. TableOf[t] \in Tables /\ {t} \in SUBSET Targets
    BY AuditTrailAssumption
  <2>3. OpsInv'
    <3>1. Proper(TRUE, TableOf[t], {t}, v, Absent)
      BY <2>1, <2>2 DEF Proper
    <3>. QED
      BY <2>1, <3>1, StepCreate
  <2>. QED
    BY <2>1, <2>3, StepOwn
<1>5. ASSUME NEW source \in Operations, RetryFailed(o, source)
      PROVE  TrailInv' /\ OpsInv'
  <2>. DEFINE T == FailedTargets(source)
              v == IF op[source].single THEN "APPROVED" ELSE op[source].next
  <2>1. /\ op[source] # Absent /\ Create(o, FALSE, "decision", T, v, source)
        /\ UNCHANGED trailVars
    BY <1>5 DEF RetryFailed, Create
  <2>2. v \in Overrides
    <3>1. OperationFits(source) /\ op[source].single \in BOOLEAN
      BY <1>0, <2>1, RowFacts DEF IInv, Fits, Rows
    <3>. QED
      BY <2>1, <3>1 DEF OperationFits, Exists, Overrides
  <2>3. T \in SUBSET Targets
        /\ \A t \in T : [op |-> source, target |-> t, status |-> "FAILED"] \in item
    BY DEF FailedTargets
  <2>. HIDE DEF T, v
  <2>4. \A t \in T : TableOf[t] = "decision" => v \in ValuesOf[t]
    BY <1>1, <2>2, <2>3
  <2>5. OpsInv'
    <3>1. Proper(FALSE, "decision", T, v, source)
      BY <1>2, <2>2, <2>3, <2>4 DEF Proper
    <3>. QED
      BY <2>1, <3>1, StepCreate
  <2>. QED
    BY <2>1, <2>5, StepOwn
<1>. QED
  BY <1>3, <1>4, <1>5

\* The two commits of a handler's change.
LEMMA StepWrite ==
    ASSUME IInv, NEW o \in Operations, WriteTarget(o) \/ WriteMisleads(o)
    PROVE  TrailInv' /\ OpsInv'
<1>1. ASSUME WriteTarget(o) PROVE TrailInv' /\ OpsInv'
  <2>1. Commit(o, "report") /\ misreported' = misreported
    BY <1>1 DEF WriteTarget
  <2>. QED
    BY <2>1, StepCommit, StepCommitOps
<1>2. ASSUME WriteMisleads(o) PROVE TrailInv' /\ OpsInv'
  <2>1. Commit(o, "fail") /\ Misreport(o)
    BY <1>2 DEF WriteMisleads
  <2>. QED
    BY <2>1, StepCommit, StepCommitOps
<1>. QED
  BY <1>1, <1>2

\* The invariant is inductive.
LEMMA NextIInv == IInv /\ [Next]_vars => IInv'
<1>. SUFFICES ASSUME IInv, [Next]_vars PROVE IInv'
  OBVIOUS
<1>1. SUFFICES TrailInv' /\ OpsInv'
  BY DEF TrailInv, OpsInv, IInv, TypeOK, OpsTypeOK, StatusAgrees, Fits
<1>2. CASE UNCHANGED vars
  <2>1. UNCHANGED trailVars /\ UNCHANGED opVars
    BY <1>2 DEF vars
  <2>2. UNCHANGED <<value, trail, unaudited, opVars>>
    BY <2>1 DEF trailVars
  <2>3. TrailInv'
    <3>1. TrailInv /\ request \in [Clients -> Requests \cup {Absent}]
      BY DEF IInv, TypeOK, TrailInv, TrailTypeOK
    <3>2. UNCHANGED <<value, trail, owner, request, initial, unaudited>>
      BY <2>1 DEF trailVars
    <3>. QED
      BY <3>1, <3>2, QuietTrail
  <2>. QED
    BY <2>2, <2>3, StepIdle
<1>3. CASE RequestStep
  BY <1>3, StepRequest
<1>4. CASE Restart
  BY <1>4, StepRestart
<1>5. ASSUME NEW o \in Operations,
             \/ \E T \in SUBSET Targets, v \in Overrides : BatchOverride(o, T, v)
             \/ \E t \in Targets, v \in Values : Control(o, t, v)
             \/ \E source \in Operations : RetryFailed(o, source)
      PROVE  TrailInv' /\ OpsInv'
  BY <1>5, StepStart
<1>6. ASSUME NEW o \in Operations, WriteTarget(o) \/ WriteMisleads(o)
      PROVE  TrailInv' /\ OpsInv'
  BY <1>6, StepWrite
<1>7. ASSUME NEW o \in Operations,
             (\E t \in Targets : ReadTarget(o, t) \/ MissTarget(o, t)) \/ WriteFails(o)
      PROVE  TrailInv' /\ OpsInv'
  <2>1. UNCHANGED trailVars
    BY <1>7 DEF ReadTarget, MissTarget, WriteFails
  <2>2. OpsInv'
    BY <1>7, StepReads
  <2>. QED
    BY <2>1, <2>2, StepOwn
<1>8. ASSUME NEW o \in Operations,
             \/ ReportDone(o) \/ ReportFailed(o) \/ Finish(o)
             \/ ReportFails(o) \/ FinishMisleads(o) \/ Abandon(o)
      PROVE  TrailInv' /\ OpsInv'
  <2>1. UNCHANGED trailVars
    BY <1>8 DEF ReportDone, ReportFailed, Finish, ReportFails, FinishMisleads, Abandon
  <2>2. OpsInv'
    BY <1>8, StepReportDone, StepReportFailed, StepFinish, StepReportFails,
       StepFinishMisleads, StepAbandon
  <2>. QED
    BY <2>1, <2>2, StepOwn
<1>9. CASE Next
  <2>1. CASE Work
    BY <1>3, <1>5, <1>6, <1>7, <1>8, <2>1 DEF Work, Proceed
  <2>2. CASE Fault
    BY <1>4, <1>6, <1>7, <1>8, <2>2 DEF Fault, Falter
  <2>. QED
    BY <1>9, <2>1, <2>2 DEF Next
<1>. QED
  BY <1>2, <1>9

\* It holds at the start.
LEMMA InitIInv == Init => IInv
<1>. SUFFICES ASSUME Init PROVE IInv
  OBVIOUS
<1>1. /\ value \in [Targets -> Values \cup {Absent}]
      /\ trail = [t \in Targets |-> <<>>]
      /\ request = [c \in Clients |-> Absent] /\ initial = value
      /\ owner \in [Decisions -> Companies] /\ unaudited = {}
      /\ op = [o \in Operations |-> Absent] /\ item = {}
      /\ run = [o \in Operations |-> Absent] /\ misreported = {}
  BY DEF Init, InitTrail, InitOperations
<1>2. \A t \in Targets : trail[t] = <<>> /\ Len(trail[t]) = 0
  BY <1>1
<1>3. TypeOK
  BY <1>1 DEF TypeOK, TrailTypeOK
<1>4. TrailIsHistory
  BY <1>1, <1>2 DEF TrailIsHistory
<1>5. RequestsFresh /\ RunsFresh
  BY <1>1 DEF RequestsFresh, RunsFresh, At
<1>6. ASSUME NEW o \in Operations PROVE Fits(o)
  <2>1. ~Exists(o) /\ run[o] = Absent
    BY <1>1 DEF Exists
  <2>2. \A t \in Targets : ChangesBy(o, t) = {}
    BY <1>2 DEF ChangesBy
  <2>3. ChangesFit(o)
    BY <2>1, <2>2 DEF ChangesFit, ChangedBy
  <2>. QED
    BY <1>1, <2>1, <2>3
       DEF Fits, OperationFits, RunFits, ItemsFit, CountsFit, StatusFits
<1>. QED
  BY <1>3, <1>4, <1>5, <1>6 DEF IInv

\* The inductive invariant holds throughout: operation rows, items, counts and
\* handlers (platform-ops) fit the audit rows.
THEOREM AlwaysIInv == Spec => []IInv
BY InitIInv, NextIInv, PTL DEF Spec

\* The audit rows of every target are its history: the last holds its value, unless
\* a user has created a company since, and each that was not late names what the
\* one before left.
THEOREM HistoryAlways == Spec => []TrailIsHistory
<1>1. IInv => TrailIsHistory
  BY DEF IInv
<1>. QED
  BY <1>1, AlwaysIInv, PTL

\* Items, status and counts of an operation agree with the audit rows, but for
\* changes that had committed and were taken to have failed.
THEOREM ReportsAlwaysAgree == Spec => []ReportsAgree
<1>1. ASSUME IInv PROVE ReportsAgree
  <2>1. TypeOK /\ \A o \in Operations : Fits(o)
    BY <1>1 DEF IInv
  <2>2. StatusAgrees
    BY <2>1 DEF StatusAgrees, Fits
  <2>3. ASSUME NEW i \in item
        PROVE  /\ i.status = "SUCCEEDED" => Cardinality(ChangesBy(i.op, i.target)) = 1
               /\ i.status = "FAILED" =>
                     ~ChangedBy(i.op, i.target) \/ <<i.op, i.target>> \in misreported
    <3>. DEFINE o == i.op
                t == i.target
                S == ChangesBy(o, t)
    <3>1. o \in Operations /\ t \in Targets
      BY <2>1, <2>3 DEF TypeOK, ItemRows
    <3>2. ChangesFit(o) /\ ItemsFit(o)
      BY <2>1, <3>1 DEF Fits
    <3>3. \A a, b \in S : a = b
      BY <3>1, <3>2 DEF ChangesFit
    <3>4. i.status = "SUCCEEDED" => S # {}
      BY <3>2 DEF ItemsFit, ChangedBy
    <3>5. S # {} => Cardinality(S) = 1
      <4>. HIDE DEF S
      <4>1. ASSUME NEW a \in S PROVE Cardinality(S) = 1
        <5>1. S = {a}
          BY <3>3
        <5>. QED
          BY <5>1, FS_Singleton
      <4>. QED
        BY <4>1
    <3>6. i.status = "FAILED" => ~ChangedBy(o, t) \/ <<o, t>> \in misreported
      BY <3>2 DEF ItemsFit, Missed
    <3>. QED
      BY <3>4, <3>5, <3>6
  <2>4. ItemsAgree
    BY <2>3 DEF ItemsAgree
  <2>. QED
    BY <2>2, <2>4 DEF ReportsAgree
<1>. QED
  BY <1>1, AlwaysIInv, PTL

\* retryFailed changes nothing that the operation it retries has changed, unless
\* that one took its own change for failed.
THEOREM RetriesNeverRepeat == Spec => []RetryNeverRepeats
<1>1. ASSUME IInv PROVE RetryNeverRepeats
  <2>1. TypeOK /\ \A o \in Operations : Fits(o)
    BY <1>1 DEF IInv
  <2>2. ASSUME NEW o \in Operations, NEW t \in Targets,
               Exists(o), op[o].source # Absent, ChangedBy(o, t)
        PROVE  ~ChangedBy(op[o].source, t) \/ <<op[o].source, t>> \in misreported
    <3>. DEFINE s == op[o].source
                i == [op |-> s, target |-> t, status |-> "FAILED"]
    <3>1. s \in Operations
      BY <2>1, <2>2, RowFacts DEF Rows, Exists
    <3>2. t \in op[o].targets
      BY <2>1, <2>2 DEF Fits, ChangesFit
    <3>3. i \in item
      BY <2>1, <2>2, <3>2 DEF Fits, OperationFits
    <3>4. ItemsFit(s)
      BY <2>1, <3>1 DEF Fits
    <3>5. i.op = s /\ i.target = t /\ i.status = "FAILED"
      OBVIOUS
    <3>. HIDE DEF i
    <3>6. Missed(s, t)
      BY <3>3, <3>4, <3>5 DEF ItemsFit
    <3>. QED
      BY <3>6 DEF Missed
  <2>. QED
    BY <2>2 DEF RetryNeverRepeats
<1>. QED
  BY <1>1, AlwaysIInv, PTL
=============================================================================
