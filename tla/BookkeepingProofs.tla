------------------------- MODULE BookkeepingProofs -------------------------
(***************************************************************************)
(* The bookkeeping API keeps the promises of each of its parts, for every  *)
(* number of rows, fields, files, plans and requests.  First come the      *)
(* parts, each under its own specification: the rows and their edits, the  *)
(* plan limits, the attachments, the cache.  A request handler is at once  *)
(* a step of each part, or leaves it alone; so the whole keeps them all.   *)
(***************************************************************************)
EXTENDS Bookkeeping, FiniteSetTheorems, TLAPS

USE EditableRowsAssumption, PlanLimitsAssumption, AttachmentsAssumption

-----------------------------------------------------------------------------
(* The rows: the last edit of every field stands *)

\* The inductive invariant holds before any row exists.
LEMMA InitRowIInv == InitRows => RowIInv
BY DEF InitRows, RowIInv, RowTypeOK, LastEditStands, KeptIsCurrent, Exists

\* A row that comes to exist is as asked, and no edit in flight is of it.
LEMMA InsertRowIInv ==
    ASSUME RowIInv, NEW r \in Rows, NEW v \in Contents, Insert(r, v)
    PROVE  RowIInv'
<1>1. RowTypeOK'
  BY DEF RowIInv, RowTypeOK, Insert, Exists, Contents
<1>2. LastEditStands'
  BY DEF RowIInv, RowTypeOK, LastEditStands, Insert, Exists
<1>3. KeptIsCurrent'
  BY DEF RowIInv, RowTypeOK, KeptIsCurrent, Insert, Exists, Edits, AskedBy
<1>. QED
  BY <1>1, <1>2, <1>3 DEF RowIInv

\* A row that ceases to exist has nothing left to agree with.
LEMMA DeleteRowIInv ==
    ASSUME RowIInv, NEW r \in Rows, Delete(r)
    PROVE  RowIInv'
<1>1. RowTypeOK'
  BY DEF RowIInv, RowTypeOK, Delete, Exists
<1>2. LastEditStands' /\ KeptIsCurrent'
  BY DEF RowIInv, RowTypeOK, LastEditStands, KeptIsCurrent, Delete, Exists, Edits, AskedBy
<1>. QED
  BY <1>1, <1>2 DEF RowIInv

\* An edit that begins holds the row's values of the fields it leaves out.
LEMMA BeginEditRowIInv ==
    ASSUME RowIInv, NEW c \in Clients, NEW r \in Rows,
           NEW ask \in [Fields -> Values \cup {Keep}], BeginEdit(c, r, ask)
    PROVE  RowIInv'
<1>1. row[r] \in [Fields -> Values]
  BY DEF RowIInv, RowTypeOK, BeginEdit, Exists, Contents
<1>. DEFINE e == [row |-> r,
                  next |-> [f \in Fields |-> IF ask[f] = Keep THEN row[r][f] ELSE ask[f]],
                  ask |-> ask, stale |-> {}]
<1>2. e.next \in Contents
  BY <1>1 DEF Contents
<1>3. e \in Edits
  BY <1>2 DEF Edits
<1>4. edit' = [edit EXCEPT ![c] = e] /\ UNCHANGED <<row, asked, reverted>>
  BY DEF BeginEdit
<1>5. RowTypeOK'
  BY <1>3, <1>4 DEF RowIInv, RowTypeOK, Exists
<1>6. LastEditStands'
  BY <1>4 DEF RowIInv, LastEditStands, Exists
<1>7. asked[r] # Absent
  BY DEF RowIInv, RowTypeOK, BeginEdit
<1>8. /\ \A f \in AskedBy(e) : e.next[f] = e.ask[f]
      /\ \A f \in Fields \ AskedBy(e) : e.next[f] = row[r][f]
  BY DEF AskedBy
<1>9. KeptIsCurrent'
  BY <1>4, <1>7, <1>8 DEF RowIInv, RowTypeOK, KeptIsCurrent, Exists, AskedBy
<1>. QED
  BY <1>5, <1>6, <1>9 DEF RowIInv

\* A write outdates the other edits of the row, and changes nothing else of them.
LEMMA OutdateMeans ==
    ASSUME NEW edits \in [Clients -> Edits \cup {Absent}], NEW e \in Edits, NEW c \in Clients
    PROVE  LET after == Outdate(edits, e) IN
             /\ after \in [Clients -> Edits \cup {Absent}]
             /\ edits[c] = Absent => after[c] = Absent
             /\ after[c] # Absent =>
                    /\ edits[c] # Absent
                    /\ after[c].row = edits[c].row
                    /\ after[c].next = edits[c].next
                    /\ after[c].ask = edits[c].ask
                    /\ edits[c].stale \subseteq after[c].stale
                    /\ edits[c].row = e.row => AskedBy(e) \cup e.stale \subseteq after[c].stale
<1>. DEFINE mark(d) == [edits[d] EXCEPT !.stale = @ \cup AskedBy(e) \cup e.stale]
<1>1. AskedBy(e) \subseteq Fields /\ e.stale \subseteq Fields
  BY DEF AskedBy, Edits
<1>2. ASSUME NEW d \in Clients, edits[d] # Absent
      PROVE  /\ mark(d) \in Edits
             /\ mark(d).row = edits[d].row
             /\ mark(d).next = edits[d].next
             /\ mark(d).ask = edits[d].ask
             /\ mark(d).stale = edits[d].stale \cup AskedBy(e) \cup e.stale
  BY <1>1, <1>2 DEF Edits
<1>3. Outdate(edits, e) = [d \in Clients |->
          IF edits[d] # Absent /\ edits[d].row = e.row THEN mark(d) ELSE edits[d]]
  BY DEF Outdate
<1>. HIDE DEF mark
<1>. QED
  BY <1>2, <1>3

\* The row written is what was asked, but for the fields it puts back.
LEMMA CommitEditRowIInv ==
    ASSUME RowIInv, NEW c \in Clients, CommitEdit(c)
    PROVE  RowIInv'
<1>. DEFINE e == edit[c]
            rest == [edit EXCEPT ![c] = Absent]
            got == [f \in Fields |-> IF f \in AskedBy(e) THEN e.ask[f] ELSE asked[e.row][f]]
<1>1. e \in Edits /\ e # Absent /\ Exists(e.row)
  BY DEF CommitEdit, RowIInv, RowTypeOK
<1>2. /\ e.row \in Rows /\ e.next \in Contents /\ e.stale \subseteq Fields
      /\ e.ask \in [Fields -> Values \cup {Keep}]
      /\ rest \in [Clients -> Edits \cup {Absent}]
  BY <1>1 DEF Edits, RowIInv, RowTypeOK
<1>3. /\ row' = [row EXCEPT ![e.row] = e.next]
      /\ asked' = [asked EXCEPT ![e.row] = got]
      /\ reverted' = (reverted \ {<<e.row, f>> : f \in AskedBy(e)})
                          \cup {<<e.row, f>> : f \in e.stale \ AskedBy(e)}
      /\ edit' = Outdate(rest, e)
  BY DEF CommitEdit
<1>4. /\ asked[e.row] \in Contents
      /\ \A f \in AskedBy(e) : e.next[f] = e.ask[f]
      /\ \A f \in Fields \ (AskedBy(e) \cup e.stale) : e.next[f] = row[e.row][f]
  BY <1>1, <1>2 DEF RowIInv, RowTypeOK, KeptIsCurrent
<1>5. got \in Contents
  BY <1>2, <1>4 DEF AskedBy, Contents
<1>6. RowTypeOK'
  <2>1. edit' \in [Clients -> Edits \cup {Absent}]
    BY <1>1, <1>2, <1>3, OutdateMeans
  <2>2. row' \in [Rows -> Contents \cup {Absent}] /\ asked' \in [Rows -> Contents \cup {Absent}]
    BY <1>2, <1>3, <1>5 DEF RowIInv, RowTypeOK
  <2>3. reverted' \in SUBSET (Rows \X Fields)
    BY <1>2, <1>3 DEF RowIInv, RowTypeOK, AskedBy
  <2>4. got # Absent
    BY <1>5 DEF Contents
  <2>5. \A r \in Rows : Exists(r)' => asked'[r] # Absent
    BY <1>1, <1>2, <1>3, <2>4 DEF RowIInv, RowTypeOK, Exists
  <2>. QED
    BY <2>1, <2>2, <2>3, <2>5 DEF RowTypeOK
<1>7. LastEditStands'
  <2>. SUFFICES ASSUME NEW r \in Rows, NEW f \in Fields, Exists(r)', <<r, f>> \notin reverted'
                PROVE  row'[r][f] = asked'[r][f]
    BY DEF LastEditStands
  <2>1. CASE r # e.row
    BY <1>2, <1>3, <2>1 DEF RowIInv, RowTypeOK, LastEditStands, Exists
  <2>2. CASE r = e.row /\ f \in AskedBy(e)
    BY <1>2, <1>3, <1>4, <2>2 DEF RowIInv, RowTypeOK
  <2>3. CASE r = e.row /\ f \notin AskedBy(e)
    <3>1. f \notin e.stale /\ <<r, f>> \notin reverted
      BY <1>3, <2>3
    <3>2. row[r][f] = asked[r][f]
      BY <1>1, <2>3, <3>1 DEF RowIInv, LastEditStands
    <3>3. e.next[f] = row[r][f]
      BY <1>4, <2>3, <3>1
    <3>. QED
      BY <1>2, <1>3, <2>3, <3>2, <3>3 DEF RowIInv, RowTypeOK
  <2>. QED
    BY <2>1, <2>2, <2>3
<1>8. KeptIsCurrent'
  <2>. SUFFICES ASSUME NEW d \in Clients, edit'[d] # Absent
                PROVE  /\ asked'[edit'[d].row] # Absent
                       /\ \A f \in AskedBy(edit'[d]) : edit'[d].next[f] = edit'[d].ask[f]
                       /\ row'[edit'[d].row] # Absent =>
                             \A f \in Fields \ (AskedBy(edit'[d]) \cup edit'[d].stale) :
                                 edit'[d].next[f] = row'[edit'[d].row][f]
    BY DEF KeptIsCurrent, Exists, AskedBy
  <2>1. /\ rest[d] # Absent
        /\ edit'[d].row = rest[d].row
        /\ edit'[d].next = rest[d].next
        /\ edit'[d].ask = rest[d].ask
        /\ rest[d].stale \subseteq edit'[d].stale
        /\ rest[d].row = e.row => AskedBy(e) \cup e.stale \subseteq edit'[d].stale
    BY ZenonT(60), <1>1, <1>2, <1>3, OutdateMeans
  <2>2. d # c /\ rest[d] = edit[d] /\ edit[d] # Absent /\ edit[d] \in Edits
    BY <2>1 DEF RowIInv, RowTypeOK
  <2>3. /\ edit[d].row \in Rows
        /\ AskedBy(edit'[d]) = AskedBy(edit[d])
    BY <2>1, <2>2 DEF Edits, AskedBy
  <2>4. /\ asked[edit[d].row] # Absent
        /\ \A f \in AskedBy(edit[d]) : edit[d].next[f] = edit[d].ask[f]
        /\ Exists(edit[d].row) =>
              \A f \in Fields \ (AskedBy(edit[d]) \cup edit[d].stale) :
                  edit[d].next[f] = row[edit[d].row][f]
    BY <2>2 DEF RowIInv, KeptIsCurrent
  <2>5. got # Absent
    BY <1>5 DEF Contents
  <2>6. asked'[edit[d].row] # Absent
    BY <1>2, <1>3, <2>3, <2>4, <2>5 DEF RowIInv, RowTypeOK
  <2>7. ASSUME row'[edit[d].row] # Absent,
               NEW f \in Fields \ (AskedBy(edit[d]) \cup edit'[d].stale)
        PROVE  edit[d].next[f] = row'[edit[d].row][f]
    <3>1. CASE edit[d].row # e.row
      BY <1>3, <2>1, <2>2, <2>3, <2>4, <2>7, <3>1 DEF RowIInv, RowTypeOK, Exists
    <3>2. CASE edit[d].row = e.row
      <4>1. f \notin AskedBy(e) \cup e.stale \cup edit[d].stale
        BY <2>1, <2>2, <2>7, <3>2
      <4>2. edit[d].next[f] = row[e.row][f]
        BY <1>1, <2>4, <2>7, <3>2, <4>1
      <4>3. e.next[f] = row[e.row][f]
        BY <1>4, <4>1
      <4>. QED
        BY <1>2, <1>3, <3>2, <4>2, <4>3 DEF RowIInv, RowTypeOK
    <3>. QED
      BY <3>1, <3>2
  <2>. QED
    BY <2>1, <2>2, <2>3, <2>4, <2>6, <2>7
<1>. QED
  BY <1>6, <1>7, <1>8 DEF RowIInv

\* Edits that are dropped, all at once or one, change no row.
LEMMA DropRowIInv ==
    ASSUME RowIInv, UNCHANGED <<row, asked, reverted>>,
           edit' \in [Clients -> Edits \cup {Absent}],
           \A c \in Clients : edit'[c] \in {edit[c], Absent}
    PROVE  RowIInv'
<1>1. RowTypeOK' /\ LastEditStands'
  BY DEF RowIInv, RowTypeOK, LastEditStands, Exists
<1>2. KeptIsCurrent'
  BY DEF RowIInv, KeptIsCurrent, Exists, AskedBy
<1>. QED
  BY <1>1, <1>2 DEF RowIInv

\* An edit makes no row, and deletes none.
LEMMA EditKeepsRows ==
    ASSUME RowIInv, EditStep
    PROVE  \A r \in Rows : Exists(r)' <=> Exists(r)
<1>1. ASSUME NEW c \in Clients, CommitEdit(c), NEW r \in Rows
      PROVE  Exists(r)' <=> Exists(r)
  <2>1. edit[c] \in Edits /\ Exists(edit[c].row)
        /\ row' = [row EXCEPT ![edit[c].row] = edit[c].next]
    BY <1>1 DEF CommitEdit, RowIInv, RowTypeOK
  <2>2. edit[c].next # Absent
    BY <2>1 DEF Edits, Contents
  <2>. QED
    BY <2>1, <2>2 DEF Exists, RowIInv, RowTypeOK
<1>. QED
  BY <1>1 DEF EditStep, BeginEdit, DropEdit, Exists

\* Every step keeps the inductive invariant.
LEMMA StepRowIInv == RowIInv /\ [RowNext]_rowVars => RowIInv'
<1>. SUFFICES ASSUME RowIInv, [RowNext]_rowVars PROVE RowIInv'
  OBVIOUS
<1>1. CASE EditStep
  <2>1. PICK c \in Clients :
            \/ \E r \in Rows, ask \in [Fields -> Values \cup {Keep}] : BeginEdit(c, r, ask)
            \/ CommitEdit(c)
            \/ DropEdit(c)
    BY <1>1 DEF EditStep
  <2>2. CASE DropEdit(c)
    <3>1. /\ edit' \in [Clients -> Edits \cup {Absent}]
          /\ \A d \in Clients : edit'[d] \in {edit[d], Absent}
      BY <2>2 DEF DropEdit, RowIInv, RowTypeOK
    <3>. QED
      BY <2>2, <3>1, DropRowIInv DEF DropEdit
  <2>. QED
    BY <2>1, <2>2, BeginEditRowIInv, CommitEditRowIInv
<1>2. CASE \E r \in Rows, v \in Contents : Insert(r, v)
  BY <1>2, InsertRowIInv
<1>3. CASE \E r \in Rows : Delete(r)
  BY <1>3, DeleteRowIInv
<1>4. CASE RestartRows
  <2>1. /\ edit' \in [Clients -> Edits \cup {Absent}]
        /\ \A d \in Clients : edit'[d] \in {edit[d], Absent}
    BY <1>4 DEF RestartRows
  <2>. QED
    BY <1>4, <2>1, DropRowIInv DEF RestartRows
<1>5. CASE UNCHANGED rowVars
  <2>1. /\ edit' \in [Clients -> Edits \cup {Absent}]
        /\ \A d \in Clients : edit'[d] \in {edit[d], Absent}
    BY <1>5 DEF rowVars, RowIInv, RowTypeOK
  <2>. QED
    BY <1>5, <2>1, DropRowIInv DEF rowVars
<1>. QED
  BY <1>1, <1>2, <1>3, <1>4, <1>5 DEF RowNext

\* The inductive invariant of the rows, and with it their type correctness.
THEOREM RowsInductive == RowSpec => []RowIInv
<1>. QED
  BY InitRowIInv, StepRowIInv, PTL DEF RowSpec

\* A field of a transaction, transfer or account holds the value last asked for
\* it, unless an edit that left it out had read the row before that value was
\* written.
THEOREM EditsStand == RowSpec => []LastEditStands
<1>1. RowIInv => LastEditStands
  BY DEF RowIInv
<1>. QED
  BY RowsInductive, <1>1, PTL

-----------------------------------------------------------------------------
(* The plan limits: only rows no check answers for exceed the limit *)

\* Rows of one table in one period are finitely many, and fewer are fewer.
LEMMA InPeriodFinite ==
    ASSUME NEW S \in SUBSET Rows, NEW T \in SUBSET S
    PROVE  /\ IsFiniteSet(S) /\ IsFiniteSet(T)
           /\ Cardinality(S) \in Nat /\ Cardinality(T) \in Nat
           /\ Cardinality(T) <= Cardinality(S)
BY FS_Subset, FS_CardinalityType

\* A creation in flight is not the absence of one.
LEMMA CreationNotAbsent ==
    ASSUME NEW table \in Limited, NEW p \in Periods
    PROVE  [table |-> table, period |-> p, stale |-> FALSE] # Absent
<1>1. [table |-> table, period |-> p, stale |-> FALSE] \in Creations
  BY DEF Creations
<1>. QED
  BY <1>1

\* The invariant holds before any row exists.
LEMMA InitPlanIInv == InitRows /\ InitPlan => PlanIInv
<1>. SUFFICES ASSUME InitRows, InitPlan PROVE PlanIInv
  OBVIOUS
<1>1. PlanTypeOK
  BY DEF InitPlan, PlanTypeOK, Periods
<1>2. \A table \in Limited, p \in Periods : InPeriod(table, p) = {}
  BY DEF InitRows, InPeriod, RowsOf, Exists
<1>3. WithinLimit
  <2>. SUFFICES ASSUME NEW table \in Limited, NEW p \in Periods
                PROVE  Cardinality(InPeriod(table, p) \ unchecked) <= allowed[table]
    BY DEF WithinLimit
  <2>1. InPeriod(table, p) \ unchecked = {}
    BY <1>2
  <2>2. allowed[table] \in Nat
    BY <1>1 DEF PlanTypeOK
  <2>3. Cardinality({}) = 0
    BY FS_EmptySet
  <2>4. Cardinality(InPeriod(table, p) \ unchecked) = 0
    BY <2>1, <2>3, Zenon
  <2>. QED
    BY <2>2, <2>4
<1>4. RoomLeft
  <2>1. \A table \in Limited : Limit[plan][table] <= allowed[table]
    BY <1>1 DEF InitPlan, PlanTypeOK
  <2>2. ASSUME NEW c \in Clients, NEW table \in Limited, NEW p \in Periods
        PROVE  creating[c] # [table |-> table, period |-> p, stale |-> FALSE]
    BY CreationNotAbsent DEF InitPlan
  <2>. QED
    BY <2>1, <2>2 DEF RoomLeft
<1>. QED
  BY <1>1, <1>3, <1>4 DEF PlanIInv

\* A step that adds no row and no check keeps the limits, if the plan it leaves
\* allows no more than the largest limit so far.
LEMMA FewerPlanIInv ==
    ASSUME PlanIInv, PlanTypeOK',
           \A table \in Limited, p \in Periods : InPeriod(table, p)' \subseteq InPeriod(table, p),
           unchecked' = unchecked,
           \A table \in Limited : /\ allowed[table] <= allowed'[table]
                                  /\ Limit[plan'][table] <= allowed'[table],
           \A c \in Clients : creating'[c] \in {creating[c], Absent}
    PROVE  PlanIInv'
<1>1. ASSUME NEW table \in Limited
      PROVE  allowed[table] \in Nat /\ allowed'[table] \in Nat
  BY DEF PlanIInv, PlanTypeOK
<1>2. WithinLimit'
  <2>. SUFFICES ASSUME NEW table \in Limited, NEW p \in Periods
                PROVE  Cardinality(InPeriod(table, p)' \ unchecked') <= allowed'[table]
    BY DEF WithinLimit
  <2>. DEFINE S == InPeriod(table, p) \ unchecked
              T == InPeriod(table, p)' \ unchecked'
  <2>1. S \in SUBSET Rows /\ T \in SUBSET S
    BY DEF InPeriod, RowsOf
  <2>2. Cardinality(S) <= allowed[table]
    BY DEF PlanIInv, WithinLimit
  <2>. HIDE DEF S, T
  <2>3. Cardinality(T) <= allowed'[table]
    BY <1>1, <2>1, <2>2, InPeriodFinite
  <2>. QED
    BY <2>3 DEF T
<1>3. RoomLeft'
  <2>1. ASSUME NEW c \in Clients, NEW table \in Limited, NEW p \in Periods,
               creating'[c] = [table |-> table, period |-> p, stale |-> FALSE]
        PROVE  Cardinality(InPeriod(table, p)') < allowed'[table]
    <3>. DEFINE S == InPeriod(table, p)
                T == InPeriod(table, p)'
    <3>1. creating[c] = [table |-> table, period |-> p, stale |-> FALSE]
      BY <2>1, CreationNotAbsent
    <3>2. Cardinality(S) < allowed[table]
      BY <3>1 DEF PlanIInv, RoomLeft
    <3>3. S \in SUBSET Rows /\ T \in SUBSET S
      BY DEF InPeriod, RowsOf
    <3>. HIDE DEF S, T
    <3>4. Cardinality(T) < allowed'[table]
      BY <1>1, <3>2, <3>3, InPeriodFinite
    <3>. QED
      BY <3>4 DEF T
  <2>2. \A table \in Limited : Limit[plan'][table] <= allowed'[table]
    OBVIOUS
  <2>. QED
    BY <2>1, <2>2 DEF RoomLeft
<1>. QED
  BY <1>2, <1>3 DEF PlanIInv

\* A row that comes to exist is counted in its own table and period only.
LEMMA InsertInPeriod ==
    ASSUME RowTypeOK, NEW r \in Rows, NEW p \in Periods, NEW v \in Contents,
           Insert(r, v), period \in [Rows -> Periods], period' = [period EXCEPT ![r] = p]
    PROVE  \A table \in Limited, q \in Periods :
             /\ r \notin InPeriod(table, q)
             /\ table = TableOf[r] /\ q = p => InPeriod(table, q)' = InPeriod(table, q) \cup {r}
             /\ table # TableOf[r] \/ q # p => InPeriod(table, q)' = InPeriod(table, q)
<1>1. v # Absent /\ row' = [row EXCEPT ![r] = v] /\ row[r] = Absent
  BY DEF Insert, Exists, Contents
<1>. QED
  BY <1>1 DEF InPeriod, RowsOf, Exists, RowTypeOK

\* A row added keeps the limits, if it is one no check answers for or its table
\* and period had room, and the creations in flight know of it.
LEMMA InsertPlanIInv ==
    ASSUME RowIInv, PlanIInv, PlanTypeOK', NEW r \in Rows, NEW p \in Periods, NEW v \in Contents,
           Insert(r, v), period' = [period EXCEPT ![r] = p],
           UNCHANGED <<plan, allowed>>, unchecked \subseteq unchecked',
           unchecked' \subseteq unchecked \cup {r},
           TableOf[r] \in Limited /\ r \notin unchecked' =>
               Cardinality(InPeriod(TableOf[r], p)) < allowed[TableOf[r]],
           \A c \in Clients, table \in Limited, q \in Periods :
               creating'[c] = [table |-> table, period |-> q, stale |-> FALSE] =>
                   /\ creating[c] = creating'[c]
                   /\ table # TableOf[r] \/ q # p
    PROVE  PlanIInv'
<1>1. \A table \in Limited, q \in Periods :
             /\ r \notin InPeriod(table, q)
             /\ table = TableOf[r] /\ q = p => InPeriod(table, q)' = InPeriod(table, q) \cup {r}
             /\ table # TableOf[r] \/ q # p => InPeriod(table, q)' = InPeriod(table, q)
  <2>1. RowTypeOK /\ period \in [Rows -> Periods]
    BY DEF RowIInv, PlanIInv, PlanTypeOK
  <2>. QED
    BY <2>1, InsertInPeriod
<1>2. WithinLimit'
  <2>. SUFFICES ASSUME NEW table \in Limited, NEW q \in Periods
                PROVE  Cardinality(InPeriod(table, q)' \ unchecked') <= allowed[table]
    BY DEF WithinLimit
  <2>. DEFINE S == InPeriod(table, q)
              T == InPeriod(table, q)'
  <2>1. allowed[table] \in Nat /\ Cardinality(S \ unchecked) <= allowed[table]
    BY DEF PlanIInv, PlanTypeOK, WithinLimit
  <2>2. S \in SUBSET Rows
    BY DEF InPeriod, RowsOf
  <2>3. CASE table = TableOf[r] /\ q = p /\ r \notin unchecked'
    <3>1. T = S \cup {r} /\ r \notin S /\ Cardinality(S) < allowed[table]
      BY <1>1, <2>3
    <3>. HIDE DEF S, T
    <3>2. Cardinality(T) = Cardinality(S) + 1 /\ Cardinality(S) \in Nat /\ T \in SUBSET Rows
      BY <2>2, <3>1, FS_AddElement, InPeriodFinite
    <3>3. Cardinality(T \ unchecked') <= Cardinality(T) /\ Cardinality(T \ unchecked') \in Nat
      BY <3>2, InPeriodFinite
    <3>4. Cardinality(T \ unchecked') <= allowed[table]
      BY <2>1, <3>1, <3>2, <3>3
    <3>. QED
      BY <3>4 DEF T
  <2>4. CASE ~(table = TableOf[r] /\ q = p /\ r \notin unchecked')
    <3>1. T \ unchecked' \in SUBSET (S \ unchecked)
      BY <1>1, <2>4
    <3>. HIDE DEF S, T
    <3>2. Cardinality(T \ unchecked') <= allowed[table]
      BY <2>1, <2>2, <3>1, InPeriodFinite
    <3>. QED
      BY <3>2 DEF T
  <2>. QED
    BY <2>3, <2>4
<1>3. RoomLeft'
  <2>1. ASSUME NEW c \in Clients, NEW table \in Limited, NEW q \in Periods,
               creating'[c] = [table |-> table, period |-> q, stale |-> FALSE]
        PROVE  Cardinality(InPeriod(table, q)') < allowed[table]
    <3>1. creating[c] = [table |-> table, period |-> q, stale |-> FALSE]
          /\ (table # TableOf[r] \/ q # p)
      BY <2>1
    <3>. QED
      BY <1>1, <3>1 DEF PlanIInv, RoomLeft
  <2>2. \A table \in Limited : Limit[plan'][table] <= allowed'[table]
    BY DEF PlanIInv, RoomLeft
  <2>. QED
    BY <2>1, <2>2 DEF RoomLeft
<1>. QED
  BY <1>2, <1>3 DEF PlanIInv

\* An edit changes no row's table, period or existence.
LEMMA EditKeepsCounts ==
    ASSUME RowIInv, EditStep, period' = period
    PROVE  \A table, p : InPeriod(table, p)' = InPeriod(table, p)
BY EditKeepsRows DEF InPeriod, RowsOf, Exists

\* Every step keeps the invariant.
LEMMA StepPlanIInv ==
    RowIInv /\ PlanIInv /\ [PlanNext]_<<rowVars, planVars>> => PlanIInv'
<1>. SUFFICES ASSUME RowIInv, PlanIInv, [PlanNext]_<<rowVars, planVars>> PROVE PlanIInv'
  OBVIOUS
<1>1. /\ PlanTypeOK
      /\ \A table \in Limited : Limit[plan][table] <= allowed[table] /\ allowed[table] \in Nat
  BY DEF PlanIInv, PlanTypeOK, RoomLeft
<1>2. ASSUME UNCHANGED rowVars, period' = period
      PROVE  \A table, p : InPeriod(table, p)' = InPeriod(table, p)
  BY <1>2 DEF rowVars, InPeriod, RowsOf, Exists
<1>3. CASE UNCHANGED planVars /\ (EditStep \/ UNCHANGED rowVars)
  <2>1. PlanTypeOK'
    BY <1>1, <1>3 DEF planVars, PlanTypeOK
  <2>2. \A table, p : InPeriod(table, p)' = InPeriod(table, p)
    BY <1>2, <1>3, EditKeepsCounts DEF planVars
  <2>. QED
    BY <1>1, <1>3, <2>1, <2>2, FewerPlanIInv DEF planVars
<1>4. ASSUME NEW r \in Rows, Delete(r), UNCHANGED planVars
      PROVE  PlanIInv'
  <2>1. PlanTypeOK'
    BY <1>1, <1>4 DEF planVars, PlanTypeOK
  <2>2. \A table, p : InPeriod(table, p)' \subseteq InPeriod(table, p)
    BY <1>4 DEF planVars, Delete, InPeriod, RowsOf, Exists, RowIInv, RowTypeOK
  <2>. QED
    BY <1>1, <1>4, <2>1, <2>2, FewerPlanIInv DEF planVars
<1>5. CASE RestartRows /\ RestartPlan
  <2>1. PlanTypeOK'
    BY <1>1, <1>5 DEF RestartPlan, PlanTypeOK
  <2>2. \A table, p : InPeriod(table, p)' \subseteq InPeriod(table, p)
    BY <1>5 DEF RestartRows, RestartPlan, InPeriod, RowsOf, Exists
  <2>. QED
    BY <1>1, <1>5, <2>1, <2>2, FewerPlanIInv DEF RestartPlan
<1>6. ASSUME UNCHANGED rowVars,
             \/ \E c \in Clients : DropCreation(c)
             \/ NextMonth
      PROVE  PlanIInv'
  <2>1. PlanTypeOK' /\ UNCHANGED <<period, plan, allowed, unchecked>>
        /\ \A c \in Clients : creating'[c] \in {creating[c], Absent}
    BY <1>1, <1>6 DEF DropCreation, NextMonth, PlanTypeOK
  <2>2. \A table, p : InPeriod(table, p)' = InPeriod(table, p)
    BY <1>2, <1>6, <2>1
  <2>. QED
    BY <1>1, <2>1, <2>2, FewerPlanIInv
<1>7. ASSUME UNCHANGED rowVars, NEW p \in Plans, ChangePlan(p)
      PROVE  PlanIInv'
  <2>1. \A table \in Limited : Limit[p][table] \in Nat
    OBVIOUS
  <2>2. PlanTypeOK' /\ UNCHANGED <<period, creating, unchecked>>
    BY <1>1, <1>7, <2>1 DEF ChangePlan, PlanTypeOK, Larger
  <2>3. \A table \in Limited : /\ allowed[table] <= allowed'[table]
                               /\ Limit[plan'][table] <= allowed'[table]
    BY <1>1, <1>7, <2>1 DEF ChangePlan, Larger
  <2>4. \A table, q : InPeriod(table, q)' = InPeriod(table, q)
    BY <1>2, <1>7, <2>2
  <2>. QED
    BY <2>2, <2>3, <2>4, FewerPlanIInv
<1>8. ASSUME UNCHANGED rowVars, NEW c \in Clients, NEW table \in Limited, CheckAllowed(c, table)
      PROVE  PlanIInv'
  <2>. DEFINE k == [table |-> table, period |-> Counted(table), stale |-> FALSE]
  <2>1. Counted(table) \in Periods
    BY <1>1 DEF Counted, Periods, PlanTypeOK
  <2>2. creating' = [creating EXCEPT ![c] = k] /\ UNCHANGED <<period, now, plan, allowed, unchecked>>
    BY <1>8 DEF CheckAllowed
  <2>3. PlanTypeOK'
    BY <1>1, <2>1, <2>2 DEF PlanTypeOK, Creations
  <2>4. \A t, p : InPeriod(t, p)' = InPeriod(t, p)
    BY <1>2, <1>8, <2>2
  <2>5. WithinLimit'
    BY <2>2, <2>4 DEF PlanIInv, WithinLimit
  <2>6. ASSUME NEW d \in Clients, NEW t \in Limited, NEW p \in Periods,
               creating'[d] = [table |-> t, period |-> p, stale |-> FALSE]
        PROVE  Cardinality(InPeriod(t, p)) < allowed[t]
    <3>1. CASE d = c
      <4>1. t = table /\ p = Counted(table)
        BY <1>1, <2>2, <2>6, <3>1 DEF PlanTypeOK
      <4>2. Cardinality(InPeriod(table, Counted(table))) < Limit[plan][table]
        BY <1>8 DEF CheckAllowed
      <4>3. InPeriod(t, p) \in SUBSET Rows
        BY DEF InPeriod, RowsOf
      <4>4. Cardinality(InPeriod(t, p)) \in Nat
        BY <4>3, InPeriodFinite
      <4>5. Limit[plan][table] \in Nat
        BY <1>1 DEF PlanTypeOK
      <4>. QED
        BY <1>1, <4>1, <4>2, <4>4, <4>5
    <3>2. CASE d # c
      BY <2>2, <2>6, <3>2 DEF PlanIInv, RoomLeft
    <3>. QED
      BY <3>1, <3>2
  <2>7. RoomLeft'
    BY <1>1, <2>2, <2>4, <2>6 DEF RoomLeft
  <2>. QED
    BY <2>3, <2>5, <2>7 DEF PlanIInv
<1>9. ASSUME NEW creations \in [Clients -> Creations \cup {Absent}], NEW t, NEW q,
             NEW c \in Clients, NEW table, NEW p,
             Overtake(creations, t, q)[c] = [table |-> table, period |-> p, stale |-> FALSE],
             table \in Limited, p \in Periods
      PROVE  creations[c] = Overtake(creations, t, q)[c] /\ (table # t \/ p # q)
  BY <1>9, CreationNotAbsent DEF Overtake, Creations
<1>10. ASSUME NEW creations \in [Clients -> Creations \cup {Absent}], NEW t, NEW q
       PROVE  Overtake(creations, t, q) \in [Clients -> Creations \cup {Absent}]
  BY DEF Overtake, Creations
<1>11. ASSUME NEW r \in Rows, NEW p \in Periods, NEW v \in Contents, CreateUnchecked(r, p, v)
       PROVE  PlanIInv'
  <2>1. PlanTypeOK'
    BY <1>1, <1>10, <1>11 DEF CreateUnchecked, PlanTypeOK
  <2>2. /\ Insert(r, v) /\ period' = [period EXCEPT ![r] = p]
        /\ unchecked' = unchecked \cup {r}
        /\ creating' = Overtake(creating, TableOf[r], p)
        /\ UNCHANGED <<plan, allowed>>
    BY <1>11 DEF CreateUnchecked
  <2>3. ASSUME NEW d \in Clients, NEW table \in Limited, NEW q \in Periods,
               creating'[d] = [table |-> table, period |-> q, stale |-> FALSE]
        PROVE  creating[d] = creating'[d] /\ (table # TableOf[r] \/ q # p)
    BY <1>1, <1>9, <2>2, <2>3 DEF PlanTypeOK
  <2>. QED
    BY <2>1, <2>2, <2>3, InsertPlanIInv
<1>12. ASSUME NEW c \in Clients, NEW r \in Rows, NEW p \in Periods, NEW v \in Contents,
              CreateChecked(c, r, p, v)
       PROVE  PlanIInv'
  <2>. DEFINE k == creating[c]
              rest == [creating EXCEPT ![c] = Absent]
  <2>1. k \in Creations /\ TableOf[r] = k.table /\ rest \in [Clients -> Creations \cup {Absent}]
    BY <1>1, <1>12 DEF CreateChecked, PlanTypeOK
  <2>2. /\ Insert(r, v) /\ period' = [period EXCEPT ![r] = p]
        /\ unchecked' = IF k.stale \/ p # k.period THEN unchecked \cup {r} ELSE unchecked
        /\ creating' = Overtake(rest, k.table, p)
        /\ UNCHANGED <<now, plan, allowed>>
    BY <1>12 DEF CreateChecked
  <2>3. PlanTypeOK'
    BY <1>1, <1>10, <2>1, <2>2 DEF PlanTypeOK
  <2>4. TableOf[r] \in Limited /\ r \notin unchecked' =>
            Cardinality(InPeriod(TableOf[r], p)) < allowed[TableOf[r]]
    <3>. SUFFICES ASSUME r \notin unchecked'
                  PROVE  Cardinality(InPeriod(k.table, p)) < allowed[k.table]
      BY <2>1
    <3>1. p = k.period /\ ~k.stale
      BY <2>2
    <3>2. /\ k.table \in Limited
          /\ k = [table |-> k.table, period |-> p, stale |-> FALSE]
      BY <2>1, <3>1 DEF Creations
    <3>. QED
      BY <3>2 DEF PlanIInv, RoomLeft
  <2>5. ASSUME NEW d \in Clients, NEW table \in Limited, NEW q \in Periods,
               creating'[d] = [table |-> table, period |-> q, stale |-> FALSE]
        PROVE  creating[d] = creating'[d] /\ (table # TableOf[r] \/ q # p)
    <3>1. rest[d] = creating'[d] /\ (table # k.table \/ q # p)
      <4>1. /\ rest \in [Clients -> Creations \cup {Absent}]
            /\ creating' = Overtake(rest, k.table, p)
        BY <2>1, <2>2
      <4>. HIDE DEF rest, k
      <4>. QED
        BY <1>9, <2>5, <4>1
    <3>2. rest[d] # Absent
      BY <2>5, <3>1, CreationNotAbsent
    <3>. QED
      BY <1>1, <2>1, <3>1, <3>2 DEF PlanTypeOK
  <2>. QED
    BY <2>2, <2>3, <2>4, <2>5, InsertPlanIInv
<1>. QED
  BY <1>3, <1>4, <1>5, <1>6, <1>7, <1>8, <1>11, <1>12 DEF PlanNext, rowVars, planVars

\* The steps that touch the limits are steps of the rows.
LEMMA PlanStepsRows == [PlanNext]_<<rowVars, planVars>> => [RowNext]_rowVars
BY DEF PlanNext, RowNext, CreateChecked, CreateUnchecked, rowVars

\* The inductive invariant of the limits, and with it their type correctness.
THEOREM LimitsInductive == PlanSpec => [](RowIInv /\ PlanIInv)
<1>1. InitRows /\ InitPlan => RowIInv /\ PlanIInv
  BY InitRowIInv, InitPlanIInv
<1>2. RowIInv /\ PlanIInv /\ [PlanNext]_<<rowVars, planVars>> => (RowIInv /\ PlanIInv)'
  BY StepRowIInv, StepPlanIInv, PlanStepsRows
<1>. QED
  BY <1>1, <1>2, PTL DEF PlanSpec

\* The plan's limit is exceeded only by rows that were imported or posted by a
\* payment, dated in another month than the one counted, or created after
\* another creation had overtaken the count.
THEOREM LimitsHold == PlanSpec => []WithinLimit
<1>1. PlanIInv => WithinLimit
  BY DEF PlanIInv
<1>. QED
  BY LimitsInductive, <1>1, PTL

-----------------------------------------------------------------------------
(* The attachments: a row has its file, a file its row *)

\* The invariant holds before the first upload.
LEMMA InitFileIInv == InitFiles => FileIInv
BY DEF InitFiles, FileIInv, FileTypeOK, RowHasFile, OrphanOnlyWhenCut, FilingAgrees, At

\* An upload draws a key nothing has been stored under.
LEMMA BeginUploadFileIInv ==
    ASSUME FileIInv, NEW c \in Clients, NEW t \in Rows, NEW f \in Files,
           BeginUpload(c, t, f), UNCHANGED row
    PROVE  FileIInv'
<1>. DEFINE k == [step |-> "checked", file |-> f, row |-> t]
<1>1. /\ FileTypeOK /\ RowHasFile /\ OrphanOnlyWhenCut /\ FilingAgrees
      /\ k \in Filings
  BY DEF FileIInv, Filings, Steps
<1>2. /\ filing[c] = Absent /\ filing' = [filing EXCEPT ![c] = k]
      /\ f \notin used /\ used' = used \cup {f}
      /\ UNCHANGED <<stored, attached, stray, misled, row>>
  BY DEF BeginUpload
<1>3. FileTypeOK'
  BY <1>1, <1>2 DEF FileTypeOK
<1>4. RowHasFile'
  BY <1>1, <1>2 DEF RowHasFile, Exists
<1>5. OrphanOnlyWhenCut'
  BY <1>1, <1>2 DEF OrphanOnlyWhenCut, Working, FileTypeOK
<1>6. FilingAgrees'
  BY <1>1, <1>2 DEF FilingAgrees, At, FileTypeOK
<1>. QED
  BY <1>3, <1>4, <1>5, <1>6 DEF FileIInv

\* A deletion begins with a row that is there.
LEMMA BeginDeleteFileIInv ==
    ASSUME FileIInv, NEW c \in Clients, NEW f \in Files,
           BeginDeleteAttachment(c, f), UNCHANGED row
    PROVE  FileIInv'
<1>. DEFINE k == [step |-> "found", file |-> f, row |-> attached[f]]
<1>1. /\ FileTypeOK /\ RowHasFile /\ OrphanOnlyWhenCut /\ FilingAgrees
      /\ k \in Filings
  BY DEF FileIInv, FileTypeOK, BeginDeleteAttachment, Filings, Steps
<1>2. /\ filing[c] = Absent /\ filing' = [filing EXCEPT ![c] = k]
      /\ attached[f] # Absent
      /\ UNCHANGED <<stored, attached, used, stray, misled, row>>
  BY DEF BeginDeleteAttachment
<1>3. FileTypeOK'
  BY <1>1, <1>2 DEF FileTypeOK
<1>4. RowHasFile'
  BY <1>1, <1>2 DEF RowHasFile, Exists
<1>5. OrphanOnlyWhenCut'
  BY <1>1, <1>2 DEF OrphanOnlyWhenCut, Working, FileTypeOK
<1>6. FilingAgrees'
  <2>1. ASSUME NEW d \in Clients \ {c}, filing[d] # Absent, filing[d].file = f
        PROVE  filing[d].step \in {"undo", "found", "unlink"}
    <3>1. filing[d].step \in Steps
      BY <1>1, <2>1 DEF FileTypeOK, Filings
    <3>2. ~At(d, "checked") /\ ~At(d, "stored")
      BY <1>1, <1>2, <2>1 DEF FilingAgrees
    <3>. QED
      BY <2>1, <3>1, <3>2 DEF At, Steps
  <2>2. \A d \in Clients \ {c} : filing'[d] = filing[d]
    BY <1>1, <1>2 DEF FileTypeOK
  <2>3. filing'[c] = k
    BY <1>1, <1>2 DEF FileTypeOK
  <2>4. f \in used
    BY <1>1, <1>2 DEF FilingAgrees
  <2>5. \A d \in Clients : filing'[d] # Absent => filing'[d].file \in used'
    BY <1>1, <1>2, <2>2, <2>3, <2>4 DEF FilingAgrees
  <2>6. \A d \in Clients :
          /\ At(d, "stored")' => filing'[d].file \in stored'
          /\ At(d, "checked")' \/ At(d, "stored")' \/ At(d, "unlink")'
                => attached'[filing'[d].file] = Absent
          /\ At(d, "undo")' /\ filing'[d].file \notin misled'
                => attached'[filing'[d].file] = Absent
    BY <1>1, <1>2, <2>2, <2>3 DEF FilingAgrees, At
  <2>7. \A d, e \in Clients :
          d # e /\ filing'[d] # Absent /\ filing'[e] # Absent
              /\ filing'[d].file = filing'[e].file
              => {filing'[d].step, filing'[e].step} \subseteq {"undo", "found", "unlink"}
    BY <1>1, <2>1, <2>2, <2>3 DEF FilingAgrees
  <2>. QED
    BY <1>1, <1>2, <2>5, <2>6, <2>7 DEF FilingAgrees, At
<1>. QED
  BY <1>3, <1>4, <1>5, <1>6 DEF FileIInv

\* What the request in flight of c has to do with its file.
LEMMA RequestOf ==
    ASSUME FileIInv, NEW c \in Clients, filing[c] # Absent
    PROVE  /\ filing[c] \in Filings
           /\ filing[c].file \in Files /\ filing[c].row \in Rows /\ filing[c].step \in Steps
           /\ filing[c].file \in used
BY DEF FileIInv, FileTypeOK, FilingAgrees, Filings

\* A step of the request of c disturbs its own file only: what has to hold of
\* that file, for the invariant to hold of all.
LEMMA OwnFileOnly ==
    ASSUME FileIInv, NEW c \in Clients, filing[c] # Absent, UNCHANGED <<row, used>>,
           filing' \in [Clients -> Filings \cup {Absent}],
           \A d \in Clients \ {c} : filing'[d] = filing[d],
           filing'[c] = Absent \/ filing'[c].file = filing[c].file,
           stored' \subseteq Files, stray' \subseteq Files, misled' \subseteq Files,
           attached' \in [Files -> Rows \cup {Absent}],
           \A g \in Files \ {filing[c].file} :
               /\ g \in stored' <=> g \in stored
               /\ g \in stray' <=> g \in stray
               /\ g \in misled' <=> g \in misled
               /\ attached'[g] = attached[g],
           LET f == filing[c].file  k == filing'[c] IN
             /\ attached'[f] # Absent => Exists(attached'[f]) /\ (f \in stored' \/ f \in misled')
             /\ f \in stored' \ stray' =>
                   attached'[f] # Absent \/ (k # Absent /\ k.step \in {"stored", "undo", "unlink"})
                     \/ \E d \in Clients \ {c} : filing[d] # Absent /\ filing[d].file = f
                                                   /\ filing[d].step \in {"stored", "undo", "unlink"}
             /\ k # Absent =>
                   /\ k.step = "stored" => f \in stored'
                   /\ k.step \in {"checked", "stored", "unlink"} => attached'[f] = Absent
                   /\ k.step = "undo" /\ f \notin misled' => attached'[f] = Absent
             /\ \A d \in Clients \ {c} : filing[d] # Absent /\ filing[d].file = f =>
                   /\ filing[d].step \in {"undo", "found", "unlink"}
                   /\ filing[d].step = "unlink" => attached'[f] = Absent
                   /\ filing[d].step = "undo" /\ f \notin misled' => attached'[f] = Absent
                   /\ k # Absent => k.step \in {"undo", "found", "unlink"}
    PROVE  FileIInv'
<1>. DEFINE f == filing[c].file
            k == filing'[c]
<1>1. /\ FileTypeOK /\ RowHasFile /\ OrphanOnlyWhenCut /\ FilingAgrees
      /\ f \in Files /\ f \in used
  BY RequestOf DEF FileIInv
<1>2. /\ \A d \in Clients \ {c} : filing'[d] = filing[d]
      /\ \A d \in Clients : filing'[d] = IF d = c THEN k ELSE filing[d]
  BY <1>1 DEF FileTypeOK
<1>3. FileTypeOK'
  BY <1>1 DEF FileTypeOK
<1>4. RowHasFile'
  BY <1>1 DEF RowHasFile, Exists
<1>5. OrphanOnlyWhenCut'
  <2>. SUFFICES ASSUME NEW g \in Files, g \in stored', g \notin stray', attached'[g] = Absent
                PROVE  \E d \in Clients : filing'[d] # Absent /\ filing'[d].file = g
                            /\ filing'[d].step \in {"stored", "undo", "unlink"}
    BY <1>3 DEF FileTypeOK, OrphanOnlyWhenCut, Working
  <2>1. CASE g = f
    <3>1. CASE k # Absent /\ k.step \in {"stored", "undo", "unlink"}
      BY <1>2, <2>1, <3>1
    <3>2. CASE \E d \in Clients \ {c} : filing[d] # Absent /\ filing[d].file = f
                                          /\ filing[d].step \in {"stored", "undo", "unlink"}
      BY <1>2, <2>1, <3>2
    <3>. QED
      BY <2>1, <3>1, <3>2
  <2>2. CASE g # f
    <3>1. PICK d \in Clients : filing[d] # Absent /\ filing[d].file = g
                            /\ filing[d].step \in {"stored", "undo", "unlink"}
      BY <1>1, <2>2 DEF OrphanOnlyWhenCut, Working
    <3>. QED
      BY <1>2, <2>2, <3>1
  <2>. QED
    BY <2>1, <2>2
<1>6. FilingAgrees'
  <2>1. \A d \in Clients : filing'[d] # Absent => filing'[d].file \in used'
    BY <1>1, <1>2 DEF FilingAgrees
  <2>2. (\A g \in Files : attached'[g] # Absent => g \in used') /\ stored' \subseteq used'
    BY <1>1 DEF FilingAgrees
  <2>3. ASSUME NEW d \in Clients, filing'[d] # Absent
        PROVE  /\ filing'[d].step = "stored" => filing'[d].file \in stored'
               /\ filing'[d].step \in {"checked", "stored", "unlink"}
                     => attached'[filing'[d].file] = Absent
               /\ filing'[d].step = "undo" /\ filing'[d].file \notin misled'
                     => attached'[filing'[d].file] = Absent
    <3>1. CASE filing'[d].file = f
      BY <1>2, <2>3, <3>1
    <3>2. CASE filing'[d].file # f
      <4>1. d # c /\ filing'[d] = filing[d] /\ filing[d].file \in Files
        BY <1>1, <1>2, <2>3, <3>2 DEF FileTypeOK, Filings
      <4>2. /\ filing[d].step = "stored" => filing[d].file \in stored
            /\ filing[d].step \in {"checked", "stored", "unlink"} => attached[filing[d].file] = Absent
            /\ filing[d].step = "undo" /\ filing[d].file \notin misled
                  => attached[filing[d].file] = Absent
        BY <1>1, <2>3, <4>1 DEF FilingAgrees, At
      <4>. QED
        BY <3>2, <4>1, <4>2
    <3>. QED
      BY <3>1, <3>2
  <2>4. ASSUME NEW d \in Clients, NEW e \in Clients, d # e, filing'[d] # Absent,
               filing'[e] # Absent, filing'[d].file = filing'[e].file
        PROVE  {filing'[d].step, filing'[e].step} \subseteq {"undo", "found", "unlink"}
    <3>1. CASE d # c /\ e # c
      BY <1>1, <1>2, <2>4, <3>1 DEF FilingAgrees
    <3>2. CASE d = c \/ e = c
      BY <1>2, <2>4, <3>2
    <3>. QED
      BY <3>1, <3>2
  <2>. QED
    BY <2>1, <2>2, <2>3, <2>4 DEF FilingAgrees, At
<1>. QED
  BY <1>3, <1>4, <1>5, <1>6 DEF FileIInv

\* Every step of a request keeps the invariant.
LEMMA FileStepFileIInv ==
    ASSUME FileIInv, NEW c \in Clients, FileStep(c), UNCHANGED row
    PROVE  FileIInv'
<1>. DEFINE f == filing[c].file
<1>1. FileTypeOK /\ RowHasFile /\ OrphanOnlyWhenCut /\ FilingAgrees
  BY DEF FileIInv
<1>2. /\ filing[c] # Absent /\ filing[c] \in Filings
      /\ f \in Files /\ filing[c].row \in Rows /\ filing[c].step \in Steps /\ f \in used
  BY RequestOf DEF FileStep, PutFile, PutFails, CreateRow, CreateRowFails, CreateRowMisleads,
     DeleteRow, DeleteRowFails, Unlink, UnlinkFails, At
<1>3. ASSUME NEW step \in Steps, MoveTo(c, step)
      PROVE  /\ filing' \in [Clients -> Filings \cup {Absent}]
             /\ filing'[c] # Absent /\ filing'[c].file = f /\ filing'[c].step = step
             /\ \A d \in Clients \ {c} : filing'[d] = filing[d]
  <2>. DEFINE k == [filing[c] EXCEPT !.step = step]
  <2>1. k \in Filings /\ k.file = f /\ k.step = step
    BY <1>2 DEF Filings
  <2>2. filing' = [filing EXCEPT ![c] = k]
    BY <1>3 DEF MoveTo
  <2>. HIDE DEF k
  <2>. QED
    BY <1>1, <2>1, <2>2 DEF FileTypeOK
<1>4. ASSUME Done(c)
       PROVE  /\ filing' \in [Clients -> Filings \cup {Absent}]
              /\ filing'[c] = Absent
              /\ \A d \in Clients \ {c} : filing'[d] = filing[d]
  BY <1>1, <1>4 DEF Done, FileTypeOK
<1>5. ASSUME NEW d \in Clients, d # c, filing[d] # Absent, filing[d].file = f
      PROVE  /\ filing[c].step \in {"undo", "found", "unlink"}
             /\ filing[d].step \in {"undo", "found", "unlink"}
             /\ filing[d].step = "unlink" => attached[f] = Absent
             /\ filing[d].step = "undo" /\ f \notin misled => attached[f] = Absent
  <2>1. {filing[c].step, filing[d].step} \subseteq {"undo", "found", "unlink"}
    BY <1>1, <1>2, <1>5 DEF FilingAgrees
  <2>2. /\ filing[d].step = "unlink" => attached[f] = Absent
        /\ filing[d].step = "undo" /\ f \notin misled => attached[f] = Absent
    BY <1>1, <1>5 DEF FilingAgrees, At
  <2>. QED
    BY <2>1, <2>2
<1>6. /\ filing[c].step = "stored" => f \in stored
      /\ filing[c].step \in {"checked", "stored", "unlink"} => attached[f] = Absent
      /\ filing[c].step = "undo" /\ f \notin misled => attached[f] = Absent
  BY <1>1, <1>2 DEF FilingAgrees, At
<1>7. /\ attached[f] # Absent => Exists(attached[f]) /\ (f \in stored \/ f \in misled)
      /\ \A g \in Files : attached[g] \in Rows \cup {Absent}
      /\ attached \in [Files -> Rows \cup {Absent}]
      /\ stored \subseteq Files /\ stray \subseteq Files /\ misled \subseteq Files
  BY <1>1, <1>2 DEF RowHasFile, FileTypeOK
<1>8. f \in stored \ stray =>
        \/ attached[f] # Absent
        \/ filing[c].step \in {"stored", "undo", "unlink"}
        \/ \E d \in Clients \ {c} : filing[d] # Absent /\ filing[d].file = f
                                      /\ filing[d].step \in {"stored", "undo", "unlink"}
  <2>. SUFFICES ASSUME f \in stored, f \notin stray, attached[f] = Absent
                PROVE  \/ filing[c].step \in {"stored", "undo", "unlink"}
                       \/ \E d \in Clients \ {c} : filing[d] # Absent /\ filing[d].file = f
                             /\ filing[d].step \in {"stored", "undo", "unlink"}
    OBVIOUS
  <2>1. PICK d \in Clients : filing[d] # Absent /\ filing[d].file = f
                              /\ filing[d].step \in {"stored", "undo", "unlink"}
    BY <1>1 DEF OrphanOnlyWhenCut, Working
  <2>. QED
    BY <2>1
<1>9. CASE PutFile(c)
  <2>1. /\ filing[c].step = "checked" /\ MoveTo(c, "stored")
        /\ stored' = stored \cup {f}
        /\ UNCHANGED <<attached, used, stray, misled>>
    BY <1>9 DEF PutFile, At
  <2>2. /\ filing' \in [Clients -> Filings \cup {Absent}]
        /\ filing'[c] # Absent /\ filing'[c].file = f /\ filing'[c].step = "stored"
        /\ \A d \in Clients \ {c} : filing'[d] = filing[d]
    BY <1>3, <2>1 DEF Steps
  <2>3. \A d \in Clients \ {c} : filing[d] # Absent => filing[d].file # f
    BY <1>5, <2>1
  <2>4. /\ stored' \subseteq Files
        /\ \A g \in Files \ {f} : g \in stored' <=> g \in stored
        /\ f \in stored' /\ attached'[f] = Absent
    BY <1>2, <1>6, <1>7, <2>1
  <2>. QED
    BY <1>2, <1>7, <2>1, <2>2, <2>3, <2>4, OwnFileOnly
<1>10. CASE PutFails(c)
  <2>1. /\ filing[c].step = "checked" /\ Done(c)
        /\ \/ UNCHANGED <<stored, stray>>
           \/ stored' = stored \cup {f} /\ stray' = stray \cup {f}
        /\ UNCHANGED <<attached, used, misled>>
    BY <1>10 DEF PutFails, At
  <2>2. /\ filing' \in [Clients -> Filings \cup {Absent}]
        /\ filing'[c] = Absent
        /\ \A d \in Clients \ {c} : filing'[d] = filing[d]
    BY <1>4, <2>1
  <2>3. \A d \in Clients \ {c} : filing[d] # Absent => filing[d].file # f
    BY <1>5, <2>1
  <2>4. /\ stored' \subseteq Files
        /\ \A g \in Files \ {f} : g \in stored' <=> g \in stored
        /\ stray' \subseteq Files
        /\ \A g \in Files \ {f} : g \in stray' <=> g \in stray
        /\ attached'[f] = Absent
    BY <1>2, <1>6, <1>7, <2>1
  <2>5. f \notin stored' \ stray'
    BY <1>6, <1>8, <2>1, <2>3
  <2>. QED
    BY <1>2, <1>7, <2>1, <2>2, <2>3, <2>4, <2>5, OwnFileOnly
<1>11. CASE CreateRow(c)
  <2>1. /\ filing[c].step = "stored" /\ Done(c)
        /\ Exists(filing[c].row) /\ attached' = [attached EXCEPT ![f] = filing[c].row]
        /\ UNCHANGED <<stored, used, stray, misled>>
    BY <1>11 DEF CreateRow, At
  <2>2. /\ filing' \in [Clients -> Filings \cup {Absent}]
        /\ filing'[c] = Absent
        /\ \A d \in Clients \ {c} : filing'[d] = filing[d]
    BY <1>4, <2>1
  <2>3. \A d \in Clients \ {c} : filing[d] # Absent => filing[d].file # f
    BY <1>5, <2>1
  <2>4. /\ attached' \in [Files -> Rows \cup {Absent}]
        /\ \A g \in Files \ {f} : attached'[g] = attached[g]
        /\ attached'[f] # Absent /\ Exists(attached'[f]) /\ f \in stored
    BY <1>2, <1>6, <1>7, <2>1
  <2>. QED
    BY <1>2, <1>7, <2>1, <2>2, <2>3, <2>4, OwnFileOnly
<1>12. CASE CreateRowFails(c)
  <2>1. /\ filing[c].step = "stored" /\ MoveTo(c, "undo")
        /\ UNCHANGED <<stored, attached, used, stray, misled>>
    BY <1>12 DEF CreateRowFails, At
  <2>2. /\ filing' \in [Clients -> Filings \cup {Absent}]
        /\ filing'[c] # Absent /\ filing'[c].file = f /\ filing'[c].step = "undo"
        /\ \A d \in Clients \ {c} : filing'[d] = filing[d]
    BY <1>3, <2>1 DEF Steps
  <2>3. \A d \in Clients \ {c} : filing[d] # Absent => filing[d].file # f
    BY <1>5, <2>1
  <2>4. attached[f] = Absent
    BY <1>6, <2>1
  <2>. QED
    BY <1>2, <1>7, <2>1, <2>2, <2>3, <2>4, OwnFileOnly
<1>13. CASE CreateRowMisleads(c)
  <2>1. /\ filing[c].step = "stored" /\ MoveTo(c, "undo")
        /\ Exists(filing[c].row) /\ attached' = [attached EXCEPT ![f] = filing[c].row]
        /\ misled' = misled \cup {f}
        /\ UNCHANGED <<stored, used, stray>>
    BY <1>13 DEF CreateRowMisleads, At
  <2>2. /\ filing' \in [Clients -> Filings \cup {Absent}]
        /\ filing'[c] # Absent /\ filing'[c].file = f /\ filing'[c].step = "undo"
        /\ \A d \in Clients \ {c} : filing'[d] = filing[d]
    BY <1>3, <2>1 DEF Steps
  <2>3. \A d \in Clients \ {c} : filing[d] # Absent => filing[d].file # f
    BY <1>5, <2>1
  <2>4. /\ attached' \in [Files -> Rows \cup {Absent}]
        /\ \A g \in Files \ {f} : attached'[g] = attached[g]
        /\ attached'[f] # Absent /\ Exists(attached'[f]) /\ f \in stored
        /\ misled' \subseteq Files /\ f \in misled'
        /\ \A g \in Files \ {f} : g \in misled' <=> g \in misled
    BY <1>2, <1>6, <1>7, <2>1
  <2>. QED
    BY <1>2, <1>7, <2>1, <2>2, <2>3, <2>4, OwnFileOnly
<1>14. CASE DeleteRow(c)
  <2>1. /\ filing[c].step = "found" /\ MoveTo(c, "unlink")
        /\ attached' = [attached EXCEPT ![f] = Absent]
        /\ UNCHANGED <<stored, used, stray, misled>>
    BY <1>14 DEF DeleteRow, At
  <2>2. /\ filing' \in [Clients -> Filings \cup {Absent}]
        /\ filing'[c] # Absent /\ filing'[c].file = f /\ filing'[c].step = "unlink"
        /\ \A d \in Clients \ {c} : filing'[d] = filing[d]
    BY <1>3, <2>1 DEF Steps
  <2>3. \A d \in Clients \ {c} : filing[d] # Absent /\ filing[d].file = f =>
              /\ filing[d].step \in {"undo", "found", "unlink"}
              /\ filing[d].step = "unlink" => attached[f] = Absent
              /\ filing[d].step = "undo" /\ f \notin misled => attached[f] = Absent
    BY <1>5
  <2>4. /\ attached' \in [Files -> Rows \cup {Absent}]
        /\ \A g \in Files \ {f} : attached'[g] = attached[g]
        /\ attached'[f] = Absent
    BY <1>2, <1>7, <2>1
  <2>. QED
    BY <1>2, <1>7, <2>1, <2>2, <2>3, <2>4, OwnFileOnly
<1>15. CASE DeleteRowFails(c)
  <2>1. /\ filing[c].step = "found" /\ Done(c)
        /\ UNCHANGED <<stored, attached, used, stray, misled>>
    BY <1>15 DEF DeleteRowFails, At
  <2>2. /\ filing' \in [Clients -> Filings \cup {Absent}]
        /\ filing'[c] = Absent
        /\ \A d \in Clients \ {c} : filing'[d] = filing[d]
    BY <1>4, <2>1
  <2>3. \A d \in Clients \ {c} : filing[d] # Absent /\ filing[d].file = f =>
              /\ filing[d].step \in {"undo", "found", "unlink"}
              /\ filing[d].step = "unlink" => attached[f] = Absent
              /\ filing[d].step = "undo" /\ f \notin misled => attached[f] = Absent
    BY <1>5
  <2>4. f \in stored \ stray => attached[f] # Absent
            \/ \E d \in Clients \ {c} : filing[d] # Absent /\ filing[d].file = f
                                      /\ filing[d].step \in {"stored", "undo", "unlink"}
    BY <1>8, <2>1
  <2>. QED
    BY <1>2, <1>7, <2>1, <2>2, <2>3, <2>4, OwnFileOnly
<1>16. CASE Unlink(c)
  <2>1. /\ filing[c].step \in {"unlink", "undo"} /\ Done(c)
        /\ stored' = stored \ {f}
        /\ UNCHANGED <<attached, used, stray, misled>>
    BY <1>16 DEF Unlink, At
  <2>2. /\ filing' \in [Clients -> Filings \cup {Absent}]
        /\ filing'[c] = Absent
        /\ \A d \in Clients \ {c} : filing'[d] = filing[d]
    BY <1>4, <2>1
  <2>3. \A d \in Clients \ {c} : filing[d] # Absent /\ filing[d].file = f =>
              /\ filing[d].step \in {"undo", "found", "unlink"}
              /\ filing[d].step = "unlink" => attached[f] = Absent
              /\ filing[d].step = "undo" /\ f \notin misled => attached[f] = Absent
    BY <1>5
  <2>4. /\ stored' \subseteq Files
        /\ \A g \in Files \ {f} : g \in stored' <=> g \in stored
        /\ f \notin stored' /\ (attached'[f] = Absent \/ f \in misled)
    BY <1>2, <1>6, <1>7, <2>1
  <2>. QED
    BY <1>2, <1>7, <2>1, <2>2, <2>3, <2>4, OwnFileOnly
<1>17. CASE UnlinkFails(c)
  <2>1. /\ filing[c].step \in {"unlink", "undo"} /\ Done(c)
        /\ stray' = stray \cup {f}
        /\ UNCHANGED <<stored, attached, used, misled>>
    BY <1>17 DEF UnlinkFails, At
  <2>2. /\ filing' \in [Clients -> Filings \cup {Absent}]
        /\ filing'[c] = Absent
        /\ \A d \in Clients \ {c} : filing'[d] = filing[d]
    BY <1>4, <2>1
  <2>3. \A d \in Clients \ {c} : filing[d] # Absent /\ filing[d].file = f =>
              /\ filing[d].step \in {"undo", "found", "unlink"}
              /\ filing[d].step = "unlink" => attached[f] = Absent
              /\ filing[d].step = "undo" /\ f \notin misled => attached[f] = Absent
    BY <1>5
  <2>4. /\ stray' \subseteq Files
        /\ \A g \in Files \ {f} : g \in stray' <=> g \in stray
        /\ f \in stray'
    BY <1>2, <1>7, <2>1
  <2>. QED
    BY <1>2, <1>7, <2>1, <2>2, <2>3, <2>4, OwnFileOnly
<1>. QED
  BY <1>9, <1>10, <1>11, <1>12, <1>13, <1>14, <1>15, <1>16, <1>17 DEF FileStep

\* A transaction deleted takes its attachment rows with it.
LEMMA CascadeFileIInv ==
    ASSUME FileIInv, NEW r \in Rows, row' = [row EXCEPT ![r] = Absent], Exists(r), Cascade(r)
    PROVE  FileIInv'
<1>1. FileTypeOK /\ RowHasFile /\ OrphanOnlyWhenCut /\ FilingAgrees
  BY DEF FileIInv
<1>2. /\ attached' = [f \in Files |-> IF attached[f] = r THEN Absent ELSE attached[f]]
      /\ stray' = stray \cup {f \in Files : attached[f] = r}
      /\ UNCHANGED <<stored, used, filing, misled>>
  BY DEF Cascade
<1>3. FileTypeOK'
  BY <1>1, <1>2 DEF FileTypeOK
<1>4. RowHasFile'
  BY <1>1, <1>2 DEF RowHasFile, FileTypeOK, Exists
<1>5. OrphanOnlyWhenCut'
  BY <1>1, <1>2 DEF OrphanOnlyWhenCut, Working, FileTypeOK
<1>6. FilingAgrees'
  <2>1. \A f \in Files : attached[f] = Absent => attached'[f] = Absent
    BY <1>2
  <2>2. \A c \in Clients : filing[c] # Absent => filing[c].file \in Files
    BY <1>1 DEF FileTypeOK, Filings
  <2>. QED
    BY <1>1, <1>2, <2>1, <2>2 DEF FilingAgrees, At
<1>. QED
  BY <1>3, <1>4, <1>5, <1>6 DEF FileIInv

\* Rows that come to exist, and edits, leave the attachments what they name.
LEMMA RowsKeepFileIInv ==
    ASSUME FileIInv, UNCHANGED fileVars, \A r \in Rows : Exists(r) => Exists(r)'
    PROVE  FileIInv'
<1>1. FileTypeOK /\ RowHasFile /\ OrphanOnlyWhenCut /\ FilingAgrees
  BY DEF FileIInv
<1>2. UNCHANGED <<stored, attached, used, filing, stray, misled>>
  BY DEF fileVars
<1>3. RowHasFile'
  BY <1>1, <1>2 DEF RowHasFile, FileTypeOK, Exists
<1>4. FileTypeOK' /\ OrphanOnlyWhenCut' /\ FilingAgrees'
  BY <1>1, <1>2 DEF FileTypeOK, OrphanOnlyWhenCut, Working, FilingAgrees, At
<1>. QED
  BY <1>3, <1>4 DEF FileIInv

\* A restart leaves strays, and no row without its file.
LEMMA RestartFileIInv ==
    ASSUME FileIInv, RestartFiles, UNCHANGED row
    PROVE  FileIInv'
<1>1. FileTypeOK /\ RowHasFile /\ OrphanOnlyWhenCut /\ FilingAgrees
  BY DEF FileIInv
<1>2. PICK cut \in SUBSET {filing[c].file : c \in {d \in Clients : At(d, "checked")}} :
          /\ stored' = stored \cup cut
          /\ stray' = stray \cup cut \cup
                {filing[c].file : c \in {d \in Clients :
                    At(d, "stored") \/ At(d, "undo") \/ At(d, "unlink")}}
  BY DEF RestartFiles
<1>3. filing' = [c \in Clients |-> Absent] /\ UNCHANGED <<attached, used, misled>>
  BY DEF RestartFiles
<1>4. \A c \in Clients : filing[c] # Absent => filing[c].file \in Files /\ filing[c].file \in used
  BY RequestOf
<1>5. cut \subseteq Files /\ cut \subseteq used /\ stray' \subseteq Files
  BY <1>1, <1>2, <1>4 DEF At, FileTypeOK
<1>6. FileTypeOK'
  BY <1>1, <1>2, <1>3, <1>5 DEF FileTypeOK
<1>7. RowHasFile'
  BY <1>1, <1>2, <1>3 DEF RowHasFile, Exists
<1>8. OrphanOnlyWhenCut'
  <2>. SUFFICES ASSUME NEW f \in stored, f \notin stray'
                PROVE  attached[f] # Absent
    BY <1>2, <1>3 DEF OrphanOnlyWhenCut
  <2>1. ~Working(f, {"stored", "undo", "unlink"})
    BY <1>2 DEF Working, At
  <2>. QED
    BY <1>1, <1>2, <2>1 DEF OrphanOnlyWhenCut, FileTypeOK
<1>9. FilingAgrees'
  BY <1>1, <1>2, <1>3, <1>5 DEF FilingAgrees, At
<1>. QED
  BY <1>6, <1>7, <1>8, <1>9 DEF FileIInv

\* Every step keeps the invariant.
LEMMA StepFileIInv ==
    RowIInv /\ FileIInv /\ [FileNext]_<<rowVars, fileVars>> => FileIInv'
<1>. SUFFICES ASSUME RowIInv, FileIInv, [FileNext]_<<rowVars, fileVars>> PROVE FileIInv'
  OBVIOUS
<1>1. CASE UNCHANGED rowVars /\ \/ \E c \in Clients, t \in Rows, f \in Files : BeginUpload(c, t, f)
                                \/ \E c \in Clients, f \in Files : BeginDeleteAttachment(c, f)
                                \/ \E c \in Clients : FileStep(c)
  BY <1>1, BeginUploadFileIInv, BeginDeleteFileIInv, FileStepFileIInv DEF rowVars
<1>2. CASE UNCHANGED fileVars /\ (EditStep \/ UNCHANGED rowVars)
  BY <1>2, EditKeepsRows, RowsKeepFileIInv DEF rowVars, Exists
<1>3. ASSUME NEW r \in Rows, NEW v \in Contents, Insert(r, v), UNCHANGED fileVars
      PROVE  FileIInv'
  <2>1. v # Absent
    BY DEF Contents
  <2>2. \A q \in Rows : Exists(q) => Exists(q)'
    BY <1>3, <2>1 DEF Insert, Exists, RowIInv, RowTypeOK
  <2>. QED
    BY <1>3, <2>2, RowsKeepFileIInv
<1>4. ASSUME NEW r \in Rows, Delete(r), Cascade(r)
      PROVE  FileIInv'
  BY <1>4, CascadeFileIInv DEF Delete
<1>5. CASE RestartRows /\ RestartFiles
  BY <1>5, RestartFileIInv DEF RestartRows
<1>. QED
  BY <1>1, <1>2, <1>3, <1>4, <1>5 DEF FileNext, rowVars, fileVars

\* The steps that touch the attachments are steps of the rows.
LEMMA FileStepsRows == [FileNext]_<<rowVars, fileVars>> => [RowNext]_rowVars
BY DEF FileNext, RowNext, rowVars

\* The inductive invariant of the attachments, and with it their type correctness.
THEOREM FilesInductive == FileSpec => [](RowIInv /\ FileIInv)
<1>1. InitRows /\ InitFiles => RowIInv /\ FileIInv
  BY InitRowIInv, InitFileIInv
<1>2. RowIInv /\ FileIInv /\ [FileNext]_<<rowVars, fileVars>> => (RowIInv /\ FileIInv)'
  BY StepRowIInv, StepFileIInv, FileStepsRows
<1>. QED
  BY <1>1, <1>2, PTL DEF FileSpec

\* Every attachment row names a transaction that exists and a file that is on
\* the disk, but for a file whose row's creation was taken to have failed.
THEOREM RowsHaveFiles == FileSpec => []RowHasFile
<1>1. FileIInv => RowHasFile
  BY DEF FileIInv
<1>. QED
  BY FilesInductive, <1>1, PTL

\* Only a crash, a disk error or the deletion of its transaction leaves a file
\* that neither a row nor a request refers to.
THEOREM OrphansExplained == FileSpec => []OrphanOnlyWhenCut
<1>1. FileIInv => OrphanOnlyWhenCut
  BY DEF FileIInv
<1>. QED
  BY FilesInductive, <1>1, PTL

-----------------------------------------------------------------------------
(* The API as a whole *)

\* Every step is a step of the limits.
LEMMA StepsOfLimits == [Next]_bookVars => [PlanNext]_<<rowVars, planVars>>
<1>. SUFFICES ASSUME [Next]_bookVars PROVE [PlanNext]_<<rowVars, planVars>>
  OBVIOUS
<1>. USE DEF PlanNext, EditStep
<1>1. ASSUME NEW c \in Clients, NEW table \in Limited, BeginCreate(c, table)
      PROVE  PlanNext
  BY <1>1 DEF BeginCreate
<1>2. ASSUME NEW c \in Clients, NEW r \in Rows, NEW p \in Periods, NEW v \in Contents,
             CommitCreate(c, r, p, v)
      PROVE  PlanNext
  BY <1>2 DEF CommitCreate
<1>3. ASSUME NEW c \in Clients, NEW r \in Rows, NEW v \in Contents, CreateTransfer(c, r, v)
      PROVE  PlanNext
  BY <1>3 DEF CreateTransfer, Periods
<1>4. ASSUME NEW c \in Clients, NEW r \in Rows, NEW ask \in [Fields -> Values \cup {Keep}],
             BeginUpdate(c, r, ask)
      PROVE  PlanNext
  BY <1>4 DEF BeginUpdate
<1>5. ASSUME NEW c \in Clients, CommitUpdate(c) \/ Fail(c)
      PROVE  PlanNext
  BY <1>5 DEF CommitUpdate, Fail
<1>6. ASSUME NEW c \in Clients, NEW r \in Rows, Remove(c, r)
      PROVE  PlanNext
  BY <1>6 DEF Remove
<1>7. ASSUME \/ \E c \in Clients, t \in Rows, f \in Files : BeginFile(c, t, f)
             \/ \E c \in Clients : StepFile(c)
             \/ CacheStep \/ ExpireEntry
      PROVE  UNCHANGED <<rowVars, planVars>>
  BY <1>7 DEF BeginFile, StepFile, CacheStep, ExpireEntry
<1>8. ASSUME NEW r \in Rows, NEW p \in Periods, NEW v \in Contents, Post(r, p, v)
      PROVE  PlanNext
  BY <1>8 DEF Post
<1>9. ASSUME NEW p \in Plans, ChangeOfPlan(p)
      PROVE  PlanNext
  BY <1>9 DEF ChangeOfPlan
<1>10. ASSUME ChangeOfMonth \/ Restart
       PROVE  PlanNext
  BY <1>10 DEF ChangeOfMonth, Restart
<1>11. ASSUME UNCHANGED bookVars
       PROVE  UNCHANGED <<rowVars, planVars>>
  BY <1>11 DEF bookVars
<1>. QED
  BY <1>1, <1>2, <1>3, <1>4, <1>5, <1>6, <1>7, <1>8, <1>9, <1>10, <1>11 DEF Next

\* Every step is a step of the attachments.
LEMMA StepsOfFiles == [Next]_bookVars => [FileNext]_<<rowVars, fileVars>>
<1>. SUFFICES ASSUME [Next]_bookVars PROVE [FileNext]_<<rowVars, fileVars>>
  OBVIOUS
<1>. USE DEF FileNext, EditStep
<1>1. ASSUME NEW c \in Clients, NEW r \in Rows, NEW p \in Periods, NEW v \in Contents,
             CommitCreate(c, r, p, v)
      PROVE  FileNext
  BY <1>1 DEF CommitCreate, CreateChecked
<1>2. ASSUME NEW c \in Clients, NEW r \in Rows, NEW v \in Contents, CreateTransfer(c, r, v)
      PROVE  FileNext
  BY <1>2 DEF CreateTransfer, CreateUnchecked
<1>3. ASSUME NEW c \in Clients, NEW r \in Rows, NEW ask \in [Fields -> Values \cup {Keep}],
             BeginUpdate(c, r, ask)
      PROVE  FileNext
  BY <1>3 DEF BeginUpdate
<1>4. ASSUME NEW c \in Clients, CommitUpdate(c) \/ Fail(c)
      PROVE  FileNext \/ UNCHANGED <<rowVars, fileVars>>
  BY <1>4 DEF CommitUpdate, Fail
<1>5. ASSUME NEW c \in Clients, NEW r \in Rows, Remove(c, r)
      PROVE  FileNext
  BY <1>5 DEF Remove
<1>6. ASSUME NEW c \in Clients, NEW t \in Rows, NEW f \in Files, BeginFile(c, t, f)
      PROVE  FileNext
  BY <1>6 DEF BeginFile
<1>7. ASSUME NEW c \in Clients, StepFile(c)
      PROVE  FileNext
  BY <1>7 DEF StepFile
<1>8. ASSUME NEW r \in Rows, NEW p \in Periods, NEW v \in Contents, Post(r, p, v)
      PROVE  FileNext
  BY <1>8 DEF Post, CreateUnchecked
<1>9. ASSUME Restart
      PROVE  FileNext
  BY <1>9 DEF Restart
<1>10. ASSUME \/ \E c \in Clients, table \in Limited : BeginCreate(c, table)
              \/ \E p \in Plans : ChangeOfPlan(p)
              \/ ChangeOfMonth \/ CacheStep \/ ExpireEntry
              \/ UNCHANGED bookVars
       PROVE  UNCHANGED <<rowVars, fileVars>>
  BY <1>10 DEF BeginCreate, ChangeOfPlan, ChangeOfMonth, CacheStep, ExpireEntry, bookVars
<1>. QED
  BY <1>1, <1>2, <1>3, <1>4, <1>5, <1>6, <1>7, <1>8, <1>9, <1>10 DEF Next

\* Every step is a step of the cache.
LEMMA StepsOfCache == [Next]_bookVars => [Cache!CacheNext]_(Cache!cacheVars)
<1>. SUFFICES ASSUME [Next]_bookVars PROVE Cache!CacheNext \/ UNCHANGED cacheVars
  BY DEF cacheVars, Cache!cacheVars
<1>. USE DEF Cache!CacheNext
<1>1. ASSUME \/ \E c \in Clients, r \in Rows, p \in Periods, v \in Contents : CommitCreate(c, r, p, v)
             \/ \E c \in Clients, r \in Rows, v \in Contents : CreateTransfer(c, r, v)
             \/ \E c \in Clients : CommitUpdate(c)
             \/ \E c \in Clients, r \in Rows : Remove(c, r)
             \/ \E r \in Rows, p \in Periods, v \in Contents : Post(r, p, v)
      PROVE  Cache!CacheNext \/ UNCHANGED cacheVars
  BY <1>1 DEF CommitCreate, CreateTransfer, CommitUpdate, Remove, Post
<1>2. ASSUME \/ \E c \in Clients : StepFile(c)
             \/ CacheStep \/ ExpireEntry \/ Restart
      PROVE  Cache!CacheNext \/ UNCHANGED cacheVars
  BY <1>2 DEF StepFile, CacheStep, ExpireEntry, Restart
<1>3. ASSUME \/ \E c \in Clients, table \in Limited : BeginCreate(c, table)
             \/ \E c \in Clients, r \in Rows, ask \in [Fields -> Values \cup {Keep}] : BeginUpdate(c, r, ask)
             \/ \E c \in Clients : Fail(c)
             \/ \E c \in Clients, t \in Rows, f \in Files : BeginFile(c, t, f)
             \/ \E p \in Plans : ChangeOfPlan(p)
             \/ ChangeOfMonth
             \/ UNCHANGED bookVars
      PROVE  UNCHANGED cacheVars
  BY <1>3 DEF BeginCreate, BeginUpdate, Fail, BeginFile, ChangeOfPlan, ChangeOfMonth, bookVars
<1>. QED
  BY <1>1, <1>2, <1>3 DEF Next

\* The bookkeeping API implements its parts: under the interleaving of all of
\* them, each behaves as it does alone.
THEOREM ImplementsParts == Spec => RowSpec /\ PlanSpec /\ FileSpec /\ Cache!CacheSpec
<1>1. Init => InitRows /\ InitPlan /\ InitFiles /\ Cache!InitCache
  BY DEF Init
<1>2. [Next]_bookVars => [RowNext]_rowVars
  BY StepsOfLimits, PlanStepsRows
<1>. QED
  BY <1>1, <1>2, StepsOfLimits, StepsOfFiles, StepsOfCache, PTL
     DEF Spec, RowSpec, PlanSpec, FileSpec, Cache!CacheSpec

\* Every step of the cache keeps its invariant.
LEMMA StepCacheIInv == Cache!CacheIInv /\ [Cache!CacheNext]_(Cache!cacheVars) => Cache!CacheIInv'
<1>. SUFFICES ASSUME Cache!CacheIInv, [Cache!CacheNext]_(Cache!cacheVars) PROVE Cache!CacheIInv'
  OBVIOUS
<1>. USE DEF Cache!CacheIInv, Cache!CacheTypeOK, Cache!OutdatedOnlyWhenExcused,
             Cache!Freshness, Cache!Causes
<1>1. ASSUME NEW v \in Viewers, Cache!BeginFill(v) PROVE Cache!CacheIInv'
  BY <1>1 DEF Cache!BeginFill
<1>2. ASSUME NEW v \in Viewers, Cache!StoreFill(v) PROVE Cache!CacheIInv'
  BY <1>2 DEF Cache!StoreFill
<1>3. ASSUME NEW v \in Viewers, Cache!DropFill(v) PROVE Cache!CacheIInv'
  BY <1>3 DEF Cache!DropFill
<1>4. ASSUME NEW c \in Clients, Cache!WatchedWrite(c) PROVE Cache!CacheIInv'
  BY <1>4 DEF Cache!WatchedWrite, Cache!RowsChange, Cache!Outdated
<1>5. ASSUME NEW c \in Clients, Cache!HarmlessWrite(c) PROVE Cache!CacheIInv'
  BY <1>5 DEF Cache!HarmlessWrite
<1>6. ASSUME NEW c \in Clients, Cache!Answer(c) PROVE Cache!CacheIInv'
  BY <1>6 DEF Cache!Answer
<1>7. ASSUME NEW c \in Clients, Cache!Disconnect(c) PROVE Cache!CacheIInv'
  BY <1>7 DEF Cache!Disconnect
<1>8. CASE Cache!UnwatchedWrite
  BY <1>8 DEF Cache!UnwatchedWrite, Cache!RowsChange, Cache!Outdated
<1>9. CASE Cache!Expire
  BY <1>9 DEF Cache!Expire
<1>10. CASE Cache!RestartCache
  BY <1>10 DEF Cache!RestartCache
<1>11. CASE UNCHANGED Cache!cacheVars
  BY <1>11 DEF Cache!cacheVars
<1>. QED
  BY <1>1, <1>2, <1>3, <1>4, <1>5, <1>6, <1>7, <1>8, <1>9, <1>10, <1>11 DEF Cache!CacheNext

\* A viewer is served an old summary only while the write is still being
\* answered, or because the summary was computed across the write, the write is
\* not watched, or its client had gone - for every number of writes and viewers.
THEOREM SummariesExcused ==
    Cache!CacheSpec => [](Cache!CacheIInv /\ Cache!OutdatedOnlyWhenExcused)
<1>1. Cache!InitCache => Cache!CacheIInv
  BY DEF Cache!InitCache, Cache!CacheIInv, Cache!CacheTypeOK, Cache!OutdatedOnlyWhenExcused,
         Cache!Freshness, Cache!Causes
<1>2. Cache!CacheIInv => Cache!OutdatedOnlyWhenExcused
  BY DEF Cache!CacheIInv
<1>. QED
  BY <1>1, <1>2, StepCacheIInv, PTL DEF Cache!CacheSpec

\* The inductive invariants of the parts hold of the whole, and with them every
\* safety property of it.
THEOREM Inductive == Spec => []IInv
<1>1. PlanSpec => [](RowIInv /\ PlanIInv)
  BY LimitsInductive
<1>2. FileSpec => [](RowIInv /\ FileIInv)
  BY FilesInductive
<1>3. Cache!CacheSpec => []Cache!CacheIInv
  BY SummariesExcused, PTL
<1>. QED
  BY <1>1, <1>2, <1>3, ImplementsParts, PTL DEF IInv

\* The safety properties of the parts, of the bookkeeping API as a whole.
THEOREM Safe ==
    Spec => [](LastEditStands /\ WithinLimit /\ RowHasFile /\ OrphanOnlyWhenCut
                 /\ OutdatedOnlyWhenExcused)
<1>1. IInv => /\ LastEditStands /\ WithinLimit /\ RowHasFile /\ OrphanOnlyWhenCut
              /\ OutdatedOnlyWhenExcused
  BY DEF IInv, RowIInv, PlanIInv, FileIInv, Cache!CacheIInv, OutdatedOnlyWhenExcused
<1>. QED
  BY Inductive, <1>1, PTL
=============================================================================
