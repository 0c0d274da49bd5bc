----------------------------- MODULE PlanLimits -----------------------------
(***************************************************************************)
(* Creation of rows the workspace's plan limits: transactions by the month *)
(* they are dated in, accounts and stores by their number.  The services   *)
(* count, compare with the limit of the plan of the moment, and create in  *)
(* a later statement.  Import commits and payments create transactions     *)
(* without looking at the limit.                                           *)
(***************************************************************************)
EXTENDS EditableRows

CONSTANTS
    Months,        \* calendar months, 1 .. n
    Plans,         \* STARTER, STANDARD, PREMIUM
    Limit          \* per plan and limited table, the number of rows allowed

Limited == {"Transaction", "Account", "Store"}
Always == 0        \* the period of tables whose limit is not monthly
Periods == Months \cup {Always}

\* stale: a row was added to the period since it was counted.
Creations == [table : Limited, period : Periods, stale : BOOLEAN]

ASSUME PlanLimitsAssumption ==
    /\ Months \subseteq Nat \ {0}
    /\ Limit \in [Plans -> [Limited -> Nat]]
    /\ IsFiniteSet(Rows)
    /\ Absent \notin Creations

VARIABLES
    period,        \* per row, the month it is dated in (Always if not monthly)
    now,           \* the calendar month
    plan,          \* WorkspaceSubscription.planCode
    creating,      \* per client, the creation in flight, or Absent
    allowed,       \* history: per table, the largest limit so far
    unchecked      \* history: rows whose creation no check answers for

planVars == <<period, now, plan, creating, allowed, unchecked>>

InPeriod(table, p) == {r \in RowsOf(table) : Exists(r) /\ period[r] = p}
Counted(table) == IF table = "Transaction" THEN now ELSE Always
Larger(a, b) == IF a > b THEN a ELSE b

InitPlan ==
    /\ period = [r \in Rows |-> Always]
    /\ now \in Months
    /\ plan \in Plans
    /\ creating = [c \in Clients |-> Absent]
    /\ allowed = Limit[plan]
    /\ unchecked = {}

\* Mutant: the count of all rows may reach the limit.
CheckAllowedAtMost(c, table) ==
    /\ creating[c] = Absent
    /\ Cardinality(InPeriod(table, Counted(table))) <= Limit[plan][table]
    /\ creating' = [creating EXCEPT ![c] =
          [table |-> table, period |-> Counted(table), stale |-> FALSE]]
    /\ UNCHANGED <<period, now, plan, allowed, unchecked>>

\* assertTransactionCreateAllowed, assertAccountCreateAllowed,
\* assertStoreCreateAllowed: the plan and the count, then the comparison.  The
\* transactions counted are those dated in the present month.
CheckAllowed(c, table) ==
    /\ creating[c] = Absent
    /\ Cardinality(InPeriod(table, Counted(table))) < Limit[plan][table]
    /\ creating' = [creating EXCEPT ![c] =
          [table |-> table, period |-> Counted(table), stale |-> FALSE]]
    /\ UNCHANGED <<period, now, plan, allowed, unchecked>>

\* A row in table and period p makes the counts of the others out of date.
Overtake(creations, table, p) ==
    [c \in Clients |->
        IF creations[c] # Absent /\ creations[c].table = table /\ creations[c].period = p
        THEN [creations[c] EXCEPT !.stale = TRUE]
        ELSE creations[c]]

\* The row is created, dated p: a transaction carries the date of the request,
\* which need not be in the month that was counted.
CreateChecked(c, r, p, v) ==
    /\ creating[c] # Absent
    /\ LET k == creating[c] IN
        /\ TableOf[r] = k.table
        /\ p \in IF k.table = "Transaction" THEN Months ELSE {Always}
        /\ Insert(r, v)
        /\ period' = [period EXCEPT ![r] = p]
        /\ unchecked' = IF k.stale \/ p # k.period THEN unchecked \cup {r} ELSE unchecked
        /\ creating' = Overtake([creating EXCEPT ![c] = Absent], k.table, p)
        /\ UNCHANGED <<now, plan, allowed>>

DropCreation(c) ==
    /\ creating[c] # Absent
    /\ creating' = [creating EXCEPT ![c] = Absent]
    /\ UNCHANGED <<period, now, plan, allowed, unchecked>>

\* A transaction created by an import commit or a payment; a fund transfer.
CreateUnchecked(r, p, v) ==
    /\ \/ TableOf[r] = "Transaction" /\ p \in Months
       \/ TableOf[r] = "FundTransfer" /\ p = Always
    /\ Insert(r, v)
    /\ period' = [period EXCEPT ![r] = p]
    /\ unchecked' = unchecked \cup {r}
    /\ creating' = Overtake(creating, TableOf[r], p)
    /\ UNCHANGED <<now, plan, allowed>>

\* Billing changes the plan; the calendar goes on.
ChangePlan(p) ==
    /\ p # plan
    /\ plan' = p
    /\ allowed' = [t \in Limited |-> Larger(allowed[t], Limit[p][t])]
    /\ UNCHANGED <<period, now, creating, unchecked>>

NextMonth ==
    /\ now + 1 \in Months
    /\ now' = now + 1
    /\ UNCHANGED <<period, plan, creating, allowed, unchecked>>

RestartPlan ==
    /\ creating' = [c \in Clients |-> Absent]
    /\ UNCHANGED <<period, now, plan, allowed, unchecked>>

-----------------------------------------------------------------------------
PlanTypeOK ==
    /\ period \in [Rows -> Periods]
    /\ now \in Months
    /\ plan \in Plans
    /\ creating \in [Clients -> Creations \cup {Absent}]
    /\ allowed \in [Limited -> Nat]
    /\ unchecked \in SUBSET Rows

\* No month (and no number of accounts or stores) exceeds the largest limit the
\* workspace has had, but for rows no check answers for: imported or posted by a
\* payment, dated in another month than the one counted, or created after
\* another creation had overtaken the count.
WithinLimit ==
    \A table \in Limited, p \in Periods :
        Cardinality(InPeriod(table, p) \ unchecked) <= allowed[table]

\* Strengthening: a creation that has not been overtaken still has room.
RoomLeft ==
    /\ \A table \in Limited : Limit[plan][table] <= allowed[table]
    /\ \A c \in Clients, table \in Limited, p \in Periods :
          creating[c] = [table |-> table, period |-> p, stale |-> FALSE] =>
              Cardinality(InPeriod(table, p)) < allowed[table]

PlanIInv == PlanTypeOK /\ WithinLimit /\ RoomLeft

\* The tables and the limits alone.
PlanNext ==
    \/ /\ \/ \E c \in Clients, table \in Limited : CheckAllowed(c, table)
          \/ \E c \in Clients : DropCreation(c)
          \/ \E p \in Plans : ChangePlan(p)
          \/ NextMonth
       /\ UNCHANGED rowVars
    \/ \E c \in Clients, r \in Rows, p \in Periods, v \in Contents : CreateChecked(c, r, p, v)
    \/ \E r \in Rows, p \in Periods, v \in Contents : CreateUnchecked(r, p, v)
    \/ (EditStep \/ \E r \in Rows : Delete(r)) /\ UNCHANGED planVars
    \/ RestartRows /\ RestartPlan

PlanSpec == InitRows /\ InitPlan /\ [][PlanNext]_<<rowVars, planVars>>
=============================================================================
