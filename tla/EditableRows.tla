---------------------------- MODULE EditableRows ----------------------------
(***************************************************************************)
(* The rows users keep by hand - transactions, fund transfers, accounts,   *)
(* stores - and the edits of them.  update of transaction.service.ts,      *)
(* fund-transfer.service.ts and accounts.service.ts all read the row and   *)
(* then write every editable field, putting back the value they read for a *)
(* field the request leaves out.                                           *)
(***************************************************************************)
EXTENDS Integers, FiniteSets

CONSTANTS
    Rows,          \* rows that may exist
    TableOf,       \* per row, the table it is a row of
    Fields,        \* editable fields (amount and memo, name and type)
    Values,        \* values of a field
    Clients,       \* API requests in flight at the same time
    Absent,        \* "no row", "no edit in flight"
    Keep           \* a field the request leaves out

Tables == {"Transaction", "FundTransfer", "Account", "Store"}

ASSUME EditableRowsAssumption ==
    /\ TableOf \in [Rows -> Tables]
    /\ Keep \notin Values
    /\ Absent \notin Rows
    /\ Absent \notin [Fields -> Values]

VARIABLES
    row,           \* per row, its editable fields, or Absent
    edit,          \* per client, the edit in flight, or Absent
    asked,         \* history: per row, the value last asked for, by field
    reverted       \* history: row and field put back by an edit that had read
                   \* it before another edit changed it

rowVars == <<row, edit, asked, reverted>>

Contents == [Fields -> Values]

\* next is what the edit will write; stale holds the fields that another edit
\* has written since the row was read.
Edits ==
    [row : Rows, next : Contents, ask : [Fields -> Values \cup {Keep}],
     stale : SUBSET Fields]

Exists(r) == row[r] # Absent
RowsOf(table) == {r \in Rows : TableOf[r] = table}

InitRows ==
    /\ row = [r \in Rows |-> Absent]
    /\ edit = [c \in Clients |-> Absent]
    /\ asked = [r \in Rows |-> Absent]
    /\ reverted = {}

\* A row comes to exist with contents v, or ceases to.  Ids are not reused.
Insert(r, v) ==
    /\ ~Exists(r)
    /\ asked[r] = Absent
    /\ row' = [row EXCEPT ![r] = v]
    /\ asked' = [asked EXCEPT ![r] = v]
    /\ UNCHANGED <<edit, reverted>>

Delete(r) ==
    /\ Exists(r)
    /\ row' = [row EXCEPT ![r] = Absent]
    /\ UNCHANGED <<edit, asked, reverted>>

\* Mutant: the fields the request leaves out are taken from v, not the row.
BeginEditBlank(c, r, ask) ==
    /\ edit[c] = Absent
    /\ Exists(r)
    /\ edit' = [edit EXCEPT ![c] =
          [row |-> r,
           next |-> [f \in Fields |->
               IF ask[f] = Keep THEN CHOOSE v \in Values : TRUE ELSE ask[f]],
           ask |-> ask, stale |-> {}]]
    /\ UNCHANGED <<row, asked, reverted>>

\* Mutant: the fields the request leaves out are written as they came.
BeginEditRaw(c, r, ask) ==
    /\ edit[c] = Absent
    /\ Exists(r)
    /\ edit' = [edit EXCEPT ![c] = [row |-> r, next |-> ask, ask |-> ask, stale |-> {}]]
    /\ UNCHANGED <<row, asked, reverted>>

\* The read: fields left out of the request keep the value read now.
BeginEdit(c, r, ask) ==
    /\ edit[c] = Absent
    /\ Exists(r)
    /\ edit' = [edit EXCEPT ![c] =
          [row |-> r,
           next |-> [f \in Fields |-> IF ask[f] = Keep THEN row[r][f] ELSE ask[f]],
           ask |-> ask, stale |-> {}]]
    /\ UNCHANGED <<row, asked, reverted>>

AskedBy(e) == {f \in Fields : e.ask[f] # Keep}

\* After e is written, the other edits of its row hold an old value of the
\* fields it wrote a new one to.
Outdate(edits, e) ==
    [c \in Clients |->
        IF edits[c] # Absent /\ edits[c].row = e.row
        THEN [edits[c] EXCEPT !.stale = @ \cup AskedBy(e) \cup e.stale]
        ELSE edits[c]]

\* The write of the whole row.
CommitEdit(c) ==
    /\ edit[c] # Absent
    /\ LET e == edit[c] r == e.row IN
        /\ Exists(r)
        /\ row' = [row EXCEPT ![r] = e.next]
        /\ asked' = [asked EXCEPT ![r] =
              [f \in Fields |-> IF f \in AskedBy(e) THEN e.ask[f] ELSE asked[r][f]]]
        /\ reverted' = (reverted \ {<<r, f>> : f \in AskedBy(e)})
                          \cup {<<r, f>> : f \in e.stale \ AskedBy(e)}
        /\ edit' = Outdate([edit EXCEPT ![c] = Absent], e)

\* The row was deleted since it was read, or the request fails.
DropEdit(c) ==
    /\ edit[c] # Absent
    /\ edit' = [edit EXCEPT ![c] = Absent]
    /\ UNCHANGED <<row, asked, reverted>>

\* The process restarts: the edits in flight are lost.
RestartRows ==
    /\ edit' = [c \in Clients |-> Absent]
    /\ UNCHANGED <<row, asked, reverted>>

-----------------------------------------------------------------------------
RowTypeOK ==
    /\ row \in [Rows -> Contents \cup {Absent}]
    /\ edit \in [Clients -> Edits \cup {Absent}]
    /\ asked \in [Rows -> Contents \cup {Absent}]
    /\ reverted \in SUBSET (Rows \X Fields)
    /\ \A r \in Rows : Exists(r) => asked[r] # Absent

\* A field holds the value last asked for it, unless an edit that left it out
\* had read the row before that value was written.
LastEditStands ==
    \A r \in Rows, f \in Fields :
        Exists(r) /\ <<r, f>> \notin reverted => row[r][f] = asked[r][f]

\* Strengthening: the row of an edit has existed, and the edit holds what was
\* asked for and, for the fields it leaves out, the row's value, except of those
\* written since.
KeptIsCurrent ==
    \A c \in Clients : edit[c] # Absent =>
        /\ asked[edit[c].row] # Absent
        /\ \A f \in AskedBy(edit[c]) : edit[c].next[f] = edit[c].ask[f]
        /\ Exists(edit[c].row) =>
              \A f \in Fields \ (AskedBy(edit[c]) \cup edit[c].stale) :
                  edit[c].next[f] = row[edit[c].row][f]

RowIInv == RowTypeOK /\ LastEditStands /\ KeptIsCurrent

\* The table alone: rows come and go, clients edit them.
EditStep ==
    \E c \in Clients :
        \/ \E r \in Rows, ask \in [Fields -> Values \cup {Keep}] : BeginEdit(c, r, ask)
        \/ CommitEdit(c)
        \/ DropEdit(c)

RowNext ==
    \/ EditStep
    \/ \E r \in Rows, v \in Contents : Insert(r, v)
    \/ \E r \in Rows : Delete(r)
    \/ RestartRows

RowSpec == InitRows /\ [][RowNext]_rowVars
=============================================================================
