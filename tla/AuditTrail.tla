----------------------------- MODULE AuditTrail -----------------------------
(***************************************************************************)
(* Values that are changed under audit: the decision of a reconciliation   *)
(* candidate, the status of a company, the company of a user.  Every       *)
(* change reads the value, writes the new one and adds a                   *)
(* ReconciliationDecisionAudit row with both, in one transaction; read     *)
(* committed isolation lets another change commit between the read and the *)
(* write.  Reviewers submit decisions in batches and administrators        *)
(* override single ones.  A user who creates a company is moved to it      *)
(* without an audit row.                                                   *)
(***************************************************************************)
EXTENDS Integers, Sequences, FiniteSets

CONSTANTS
    Targets,       \* rows that may be changed
    TableOf,       \* per target, the table of its row
    ValuesOf,      \* per target, the values it may be given
    Companies,     \* that submit decisions
    Clients,       \* requests to submit or override in flight at the same time
    Operations,    \* ids of platform operations
    MaxItems,      \* bound: decisions in one submission
    Absent         \* "no row", "no request in flight", "no operation"

Tables == {"decision", "company", "user"}
Decisions == {t \in Targets : TableOf[t] = "decision"}
Values == UNION {ValuesOf[t] : t \in Targets}

ASSUME AuditTrailAssumption ==
    /\ IsFiniteSet(Targets)
    /\ TableOf \in [Targets -> Tables]
    /\ \A t \in Targets : Absent \notin ValuesOf[t]
    /\ Absent \notin Operations \cup Targets \cup Companies
    /\ MaxItems \in Nat

VARIABLES
    value,         \* per target, the value of its row, or Absent
    trail,         \* per target, its audit rows in the order they committed
    owner,         \* per decision, the company its row was last submitted by
    request,       \* per client, the transaction in flight, or Absent
    initial,       \* history: per target, the value it started with
    unaudited      \* history: targets changed without an audit row since their last one

trailVars == <<value, trail, owner, request, initial, unaudited>>

\* late: another change of the target committed after this one had read it, what
\* it read had left no audit row, or it had not read a row of another company.
Entry(prev, next, by, late) == [prev |-> prev, next |-> next, by |-> by, late |-> late]

Entries == [prev : Values \cup {Absent}, next : Values,
            by : Operations \cup {Absent}, late : BOOLEAN]

Items == [target : Decisions, next : Values]

\* company: that of a submission; an override leaves a row with its own.
Requests ==
    [items : Seq(Items), company : Companies \cup {Absent},
     before : [Targets -> Values \cup {Absent}], late : SUBSET Targets]

InitTrail ==
    /\ value \in [Targets -> Values \cup {Absent}]
    /\ \A t \in Targets : value[t] \in ValuesOf[t] \cup (IF t \in Decisions THEN {Absent} ELSE {})
    /\ trail = [t \in Targets |-> <<>>]
    /\ owner \in [Decisions -> Companies]
    /\ request = [c \in Clients |-> Absent]
    /\ initial = value
    /\ unaudited = {}

LastNext(t) == trail[t][Len(trail[t])].next

\* The requests whose transaction has read a target in T have read too early.
Outdate(requests, T) ==
    [c \in Clients |->
        IF requests[c] # Absent THEN [requests[c] EXCEPT !.late = @ \cup T] ELSE Absent]

\* One target is changed: row and audit row.
Change(t, entry) ==
    /\ value' = [value EXCEPT ![t] = entry.next]
    /\ trail' = [trail EXCEPT ![t] = Append(@, entry)]
    /\ unaudited' = unaudited \ {t}

-----------------------------------------------------------------------------
\* A transaction starts that has read all targets but those in unread.
Begin(c, company, items, unread) ==
    /\ request[c] = Absent
    /\ request' = [request EXCEPT ![c] =
          [items |-> items, company |-> company,
           before |-> [t \in Targets |-> IF t \in unread THEN Absent ELSE value[t]],
           late |-> unread]]
    /\ UNCHANGED <<value, trail, owner, initial, unaudited>>

\* Decisions whose row another company holds.
HeldByOthers(company) == {t \in Decisions : value[t] # Absent /\ owner[t] # company}

\* Mutant: only the rows are looked up whose decision is not yet made.
BeginSubmitNew(c, company, items) ==
    /\ request[c] = Absent
    /\ request' = [request EXCEPT ![c] =
          [items |-> items, company |-> company, before |-> [t \in Targets |-> Absent],
           late |-> {}]]
    /\ UNCHANGED <<value, trail, owner, initial, unaudited>>

\* submitBatch: the existing decisions of the company are read for all items.
BeginSubmit(c, company, items) == Begin(c, company, items, HeldByOthers(company))

\* override reads the decision, of any company; it must exist for the update to
\* succeed.
BeginOverride(c, t, v) ==
    /\ value[t] # Absent
    /\ Begin(c, Absent, <<[target |-> t, next |-> v]>>, {})

\* Where a submission names a target, and the k-th of such places.
Places(q, t) == {i \in 1..Len(q.items) : q.items[i].target = t}
Nth(S, k) == CHOOSE i \in S : Cardinality({j \in S : j <= i}) = k

\* The audit row of an item, with the value read at the start: an item that
\* repeats a target is late by itself.
ItemEntry(q, i) ==
    LET t == q.items[i].target
    IN Entry(q.before[t], q.items[i].next, Absent, t \in q.late \/ \E j \in Places(q, t) : j < i)

\* The upserts in order, by persistence key alone, then one audit row per item.
CommitRequest(c) ==
    /\ request[c] # Absent
    /\ LET q == request[c]
           times(t) == Cardinality(Places(q, t))
           changed == {t \in Targets : Places(q, t) # {}}
       IN /\ value' = [t \in Targets |->
                IF t \in changed THEN q.items[Nth(Places(q, t), times(t))].next ELSE value[t]]
          /\ trail' = [t \in Targets |->
                trail[t] \o [k \in 1..times(t) |-> ItemEntry(q, Nth(Places(q, t), k))]]
          /\ owner' = [t \in Decisions |->
                IF t \in changed /\ q.company # Absent THEN q.company ELSE owner[t]]
          /\ request' = Outdate([request EXCEPT ![c] = Absent], changed)
          /\ unaudited' = unaudited \ changed
    /\ UNCHANGED initial

\* The transaction fails or is rolled back.
DropRequest(c) ==
    /\ request[c] # Absent
    /\ request' = [request EXCEPT ![c] = Absent]
    /\ UNCHANGED <<value, trail, owner, initial, unaudited>>

-----------------------------------------------------------------------------
\* createCompany: the user is moved to the company just created, and no audit row
\* is written.  The handler does so twice, in two transactions: this step again,
\* where another change has committed between them.
CreateCompany(t, v) ==
    /\ TableOf[t] = "user"
    /\ v \in ValuesOf[t] \ {"unassigned", value[t]}
    /\ value' = [value EXCEPT ![t] = v]
    /\ request' = Outdate(request, {t})
    /\ unaudited' = unaudited \cup {t}
    /\ UNCHANGED <<trail, owner, initial>>

-----------------------------------------------------------------------------
TrailTypeOK ==
    /\ value \in [Targets -> Values \cup {Absent}]
    /\ trail \in [Targets -> Seq(Entries)]
    /\ owner \in [Decisions -> Companies]
    /\ request \in [Clients -> Requests \cup {Absent}]
    /\ initial \in [Targets -> Values \cup {Absent}]
    /\ unaudited \in SUBSET (Targets \ Decisions)

\* The audit rows of a target tell its history: the last one holds its value,
\* unless a user has created a company since, and each names as previous value
\* what the one before left - but where a change had read the target before
\* another one committed, a submission names it twice or found its row with
\* another company, or the user had created a company.
TrailIsHistory ==
    \A t \in Targets :
        /\ t \in unaudited \/ value[t] = IF trail[t] = <<>> THEN initial[t] ELSE LastNext(t)
        /\ \A i \in 1..Len(trail[t]) : ~trail[t][i].late =>
              trail[t][i].prev = IF i = 1 THEN initial[t] ELSE trail[t][i - 1].next

\* What a request read still holds of the targets that it is not late for.
RequestsFresh ==
    \A c \in Clients : request[c] # Absent =>
        \A t \in Targets \ request[c].late : request[c].before[t] = value[t]
=============================================================================
