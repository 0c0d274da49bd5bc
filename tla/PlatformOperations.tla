-------------------------- MODULE PlatformOperations --------------------------
(***************************************************************************)
(* Operations of platform administrators (platform-ops): batch overrides   *)
(* of reconciliation decisions, suspension and activation of companies,    *)
(* assignment of users.  An operation row is created RUNNING, each target  *)
(* is changed under audit in a transaction of its own, the outcome is      *)
(* written as an item in a later statement, and the status last.  The      *)
(* failed items of an operation can be retried as a new batch override.    *)
(***************************************************************************)
EXTENDS AuditTrail

VARIABLES
    op,            \* PlatformOperation rows, or Absent
    item,          \* PlatformOperationItem rows
    run,           \* per operation, the handler that carries it out, or Absent
    misreported    \* history: operation and target changed, reported as failed

opVars == <<op, item, run, misreported>>
vars == <<trailVars, opVars>>

Statuses == {"RUNNING", "COMPLETED", "PARTIAL_FAILED", "FAILED"}
Steps == {"next", "write", "report", "fail"}
Overrides == {"APPROVED", "REJECTED"}

\* single: suspend, activate, assign, unassign; table is where the handler
\* looks its targets up; source is the operation a retry comes from.
Rows ==
    [single : BOOLEAN, table : Tables, next : Values \cup Overrides, targets : SUBSET Targets,
     source : Operations \cup {Absent}, status : Statuses, success : Nat, failed : Nat]

Runs ==
    [at : Steps, todo : SUBSET Targets, target : Targets \cup {Absent},
     before : Values \cup {Absent}, late : BOOLEAN, success : Nat, failed : Nat]

ItemRows == [op : Operations, target : Targets, status : {"SUCCEEDED", "FAILED"}]

ASSUME PlatformOperationsAssumption ==
    /\ \A t \in Decisions : Overrides \subseteq ValuesOf[t]
    /\ Absent \notin Rows \cup Runs

InitOperations ==
    /\ op = [o \in Operations |-> Absent]
    /\ item = {}
    /\ run = [o \in Operations |-> Absent]
    /\ misreported = {}

Init == InitTrail /\ InitOperations

At(o, step) == run[o] # Absent /\ run[o].at = step

\* Operations that have read a target in T have read it too early.
OutdateRuns(runs, T) ==
    [o \in Operations |->
        IF runs[o] # Absent /\ runs[o].at = "write" /\ runs[o].target \in T
        THEN [runs[o] EXCEPT !.late = TRUE] ELSE runs[o]]

-----------------------------------------------------------------------------
(* Starting an operation                                                   *)

Create(o, single, table, targets, v, source) ==
    /\ op[o] = Absent
    /\ op' = [op EXCEPT ![o] =
          [single |-> single, table |-> table, next |-> v, targets |-> targets,
           source |-> source, status |-> "RUNNING", success |-> 0, failed |-> 0]]
    /\ run' = [run EXCEPT ![o] =
          [at |-> "next", todo |-> targets, target |-> Absent, before |-> Absent,
           late |-> FALSE, success |-> 0, failed |-> 0]]
    /\ UNCHANGED <<trailVars, item, misreported>>

\* batchOverride of a set of ids, which need not be those of decisions.
BatchOverride(o, targets, v) == Create(o, FALSE, "decision", targets, v, Absent)

\* suspend, activate, assign, unassign.
Control(o, t, v) ==
    /\ TableOf[t] # "decision"
    /\ v \in ValuesOf[t]
    /\ Create(o, TRUE, TableOf[t], {t}, v, Absent)

FailedTargets(o) == {t \in Targets : [op |-> o, target |-> t, status |-> "FAILED"] \in item}

\* Mutant: every target of the operation is carried out again.
RetryAll(o, source) ==
    /\ op[source] # Absent
    /\ Create(o, FALSE, "decision", op[source].targets,
              IF op[source].single THEN "APPROVED" ELSE op[source].next, source)

\* retryFailed: of an operation in any state and of any type, as a batch
\* override.  Only batch overrides record the value they were to give.
RetryFailed(o, source) ==
    /\ op[source] # Absent
    /\ Create(o, FALSE, "decision", FailedTargets(source),
              IF op[source].single THEN "APPROVED" ELSE op[source].next, source)

-----------------------------------------------------------------------------
(* Carrying it out                                                         *)

Found(o, t) == TableOf[t] = op[o].table /\ value[t] # Absent

\* Mutant: the previous value is taken from what is about to be written.
ReadTargetLater(o, t) ==
    /\ At(o, "next") /\ t \in run[o].todo
    /\ Found(o, t)
    /\ run' = [run EXCEPT ![o].at = "write", ![o].target = t, ![o].before = op[o].next,
                          ![o].late = t \in unaudited]
    /\ UNCHANGED <<trailVars, op, item, misreported>>

\* The transaction reads the next target.
ReadTarget(o, t) ==
    /\ At(o, "next") /\ t \in run[o].todo
    /\ Found(o, t)
    /\ run' = [run EXCEPT ![o].at = "write", ![o].target = t, ![o].before = value[t],
                          ![o].late = t \in unaudited]
    /\ UNCHANGED <<trailVars, op, item, misreported>>

\* NOT_FOUND, TENANT_NOT_FOUND, USER_NOT_FOUND.
MissTarget(o, t) ==
    /\ At(o, "next") /\ t \in run[o].todo
    /\ ~Found(o, t)
    /\ run' = [run EXCEPT ![o].at = "fail", ![o].target = t]
    /\ UNCHANGED <<trailVars, op, item, misreported>>

\* The update and its audit row commit; the handler goes on at step.
Commit(o, step) ==
    LET r == run[o] IN
        /\ At(o, "write")
        /\ Change(r.target, Entry(r.before, op[o].next, o, r.late))
        /\ request' = Outdate(request, {r.target})
        /\ run' = OutdateRuns([run EXCEPT ![o].at = step], {r.target})
        /\ UNCHANGED <<owner, initial, op, item>>

WriteTarget(o) == Commit(o, "report") /\ UNCHANGED misreported

Misreport(o) == misreported' = misreported \cup {<<o, run[o].target>>}

\* The transaction commits, and its answer is lost.
WriteMisleads(o) == Commit(o, "fail") /\ Misreport(o)

WriteFails(o) ==
    /\ At(o, "write")
    /\ run' = [run EXCEPT ![o].at = "fail"]
    /\ UNCHANGED <<trailVars, op, item, misreported>>

AddItem(o, status) == item' = item \cup {[op |-> o, target |-> run[o].target, status |-> status]}

\* createOperationItem SUCCEEDED
ReportDone(o) ==
    /\ At(o, "report")
    /\ AddItem(o, "SUCCEEDED")
    /\ run' = [run EXCEPT ![o].at = "next", ![o].todo = @ \ {run[o].target},
                          ![o].success = @ + 1]
    /\ UNCHANGED <<trailVars, op, misreported>>

\* The item could not be written, or its answer is lost: the catch that follows
\* takes the target to have failed.
ReportFails(o) ==
    /\ At(o, "report")
    /\ AddItem(o, "SUCCEEDED") \/ UNCHANGED item
    /\ run' = [run EXCEPT ![o].at = "fail"]
    /\ Misreport(o)
    /\ UNCHANGED <<trailVars, op>>

\* Mutant: the loop stops at the target that failed.
ReportFailedAgain(o) ==
    /\ At(o, "fail")
    /\ AddItem(o, "FAILED")
    /\ run' = [run EXCEPT ![o].at = "next", ![o].failed = Cardinality(run[o].todo)]
    /\ UNCHANGED <<trailVars, op, misreported>>

\* createOperationItem FAILED in the catch.  A single operation reports no
\* success besides.
ReportFailed(o) ==
    /\ At(o, "fail")
    /\ AddItem(o, "FAILED")
    /\ run' = [run EXCEPT ![o].at = "next", ![o].todo = @ \ {run[o].target},
                          ![o].failed = @ + 1,
                          ![o].success = IF op[o].single THEN 0 ELSE @]
    /\ UNCHANGED <<trailVars, op, misreported>>

\* Mutant: an operation with a success is reported as completed.
FinalStatusAnySuccess(r) ==
    IF r.success > 0 THEN "COMPLETED" ELSE IF r.failed = 0 THEN "COMPLETED" ELSE "FAILED"

FinalStatus(r) ==
    IF r.failed = 0 THEN "COMPLETED" ELSE IF r.success = 0 THEN "FAILED" ELSE "PARTIAL_FAILED"

Settle(o) ==
    op' = [op EXCEPT ![o].status = FinalStatus(run[o]), ![o].success = run[o].success,
                     ![o].failed = run[o].failed]

Finished(o) == At(o, "next") /\ run[o].todo = {}

\* updateOperation
Finish(o) ==
    /\ Finished(o)
    /\ Settle(o)
    /\ run' = [run EXCEPT ![o] = Absent]
    /\ UNCHANGED <<trailVars, item, misreported>>

\* It fails, or its answer is lost, and a single operation that had succeeded
\* goes to its catch.
FinishMisleads(o) ==
    /\ Finished(o) /\ op[o].single /\ run[o].failed = 0
    /\ Settle(o) \/ UNCHANGED op
    /\ run' = [run EXCEPT ![o].at = "fail"]
    /\ Misreport(o)
    /\ UNCHANGED <<trailVars, item>>

\* A statement outside the try fails: the handler ends, the row stays RUNNING.
Abandon(o) ==
    /\ At(o, "fail") \/ (Finished(o) /\ ~(op[o].single /\ run[o].failed = 0))
    /\ run' = [run EXCEPT ![o] = Absent]
    /\ UNCHANGED <<trailVars, op, item, misreported>>

-----------------------------------------------------------------------------
\* The steps of the handler when the database answers.
Proceed(o) ==
    \/ \E t \in Targets : ReadTarget(o, t) \/ MissTarget(o, t)
    \/ WriteTarget(o)
    \/ ReportDone(o)
    \/ ReportFailed(o)
    \/ Finish(o)

Falter(o) ==
    \/ WriteFails(o) \/ WriteMisleads(o) \/ ReportFails(o)
    \/ FinishMisleads(o) \/ Abandon(o)

\* Submissions, overrides and companies overtake the operations that have read a
\* target.
RequestStep ==
    \/ \E c \in Clients, n \in 1..MaxItems : \E items \in [1..n -> Items], k \in Companies :
          /\ \A i \in 1..n : items[i].next \in ValuesOf[items[i].target]
          /\ BeginSubmit(c, k, items)
          /\ UNCHANGED opVars
    \/ \E c \in Clients, t \in Decisions : \E v \in ValuesOf[t] :
          BeginOverride(c, t, v) /\ UNCHANGED opVars
    \/ \E c \in Clients :
          /\ CommitRequest(c)
          /\ run' = OutdateRuns(run, {t \in Targets : trail'[t] # trail[t]})
          /\ UNCHANGED <<op, item, misreported>>
    \/ \E c \in Clients : DropRequest(c) /\ UNCHANGED opVars
    \/ \E t \in Targets : \E v \in ValuesOf[t] :
          /\ CreateCompany(t, v)
          /\ run' = OutdateRuns(run, {t})
          /\ UNCHANGED <<op, item, misreported>>

\* The API process restarts: transactions roll back, handlers are lost.
Restart ==
    /\ run' = [o \in Operations |-> Absent]
    /\ request' = [c \in Clients |-> Absent]
    /\ UNCHANGED <<value, trail, owner, initial, unaudited, op, item, misreported>>

Work ==
    \/ RequestStep
    \/ \E o \in Operations, T \in SUBSET Targets, v \in Overrides : BatchOverride(o, T, v)
    \/ \E o \in Operations, t \in Targets, v \in Values : Control(o, t, v)
    \/ \E o, source \in Operations : RetryFailed(o, source)
    \/ \E o \in Operations : Proceed(o)

Fault == Restart \/ \E o \in Operations : Falter(o)

Next == Work \/ Fault

Spec == Init /\ [][Next]_vars

\* A handler that has been started goes on: the event loop runs it again
\* whenever the database has answered.
FairSpec == Spec /\ \A o \in Operations : WF_vars(Proceed(o))

-----------------------------------------------------------------------------
TypeOK ==
    /\ TrailTypeOK
    /\ op \in [Operations -> Rows \cup {Absent}]
    /\ item \in SUBSET ItemRows
    /\ run \in [Operations -> Runs \cup {Absent}]
    /\ misreported \in SUBSET (Operations \X Targets)

Exists(o) == op[o] # Absent
ChangesBy(o, t) == {i \in 1..Len(trail[t]) : trail[t][i].by = o}
ChangedBy(o, t) == ChangesBy(o, t) # {}

\* What an item says of its target is so: the audit rows hold one change by the
\* operation if it SUCCEEDED and none if it FAILED - but where a change that had
\* committed was taken to have failed.
ItemsAgree ==
    \A i \in item :
        /\ i.status = "SUCCEEDED" => Cardinality(ChangesBy(i.op, i.target)) = 1
        /\ i.status = "FAILED" =>
              ~ChangedBy(i.op, i.target) \/ <<i.op, i.target>> \in misreported

\* So is what the status and the counts of a settled operation say of all.
StatusFits(o) ==
    Exists(o) /\ op[o].status # "RUNNING" =>
        LET changed == {t \in op[o].targets : ChangedBy(o, t)}
            excused == {t \in op[o].targets : <<o, t>> \in misreported}
        IN /\ op[o].success + op[o].failed = Cardinality(op[o].targets)
           /\ op[o].status = "COMPLETED" => changed = op[o].targets
           /\ op[o].status = "FAILED" => changed \subseteq excused
           /\ op[o].status = "PARTIAL_FAILED" => changed # {} /\ changed \ excused # op[o].targets

StatusAgrees == \A o \in Operations : StatusFits(o)

ReportsAgree == ItemsAgree /\ StatusAgrees

\* A retry changes only what its source failed to change: the same override is
\* not applied by both, unless the source took its own for failed.
RetryNeverRepeats ==
    \A o \in Operations, t \in Targets :
        Exists(o) /\ op[o].source # Absent /\ ChangedBy(o, t)
            => ~ChangedBy(op[o].source, t) \/ <<op[o].source, t>> \in misreported

-----------------------------------------------------------------------------
(* The inductive invariant *)

\* What an operation is to do was fixed when it was created: a value that fits
\* its targets, for a retry the targets that its source reported as failed.
OperationFits(o) ==
    Exists(o) =>
        /\ IF op[o].single THEN \E t \in Targets : op[o].targets = {t}
           ELSE op[o].table = "decision" /\ op[o].next \in Overrides
        /\ \A t \in op[o].targets : TableOf[t] = op[o].table => op[o].next \in ValuesOf[t]
        /\ op[o].source # Absent =>
              \A t \in op[o].targets : [op |-> op[o].source, target |-> t, status |-> "FAILED"] \in item

\* A handler works on targets of its operation, one after the other.  Only that
\* of a single operation can fail after its last one.
RunFits(o) ==
    run[o] # Absent =>
        LET r == run[o] IN
        /\ Exists(o) /\ r.todo \subseteq op[o].targets
        /\ r.at # "next" \/ r.todo # op[o].targets => r.target \in op[o].targets
        /\ r.at \in {"write", "report"} => r.target \in r.todo
        /\ r.at = "write" => TableOf[r.target] = op[o].table
        /\ r.at = "fail" /\ r.target \notin r.todo =>
              op[o].single /\ r.todo = {} /\ r.failed = 0
        /\ op[o].status # "RUNNING" => r.todo = {}

\* Nothing was changed, or it is excused.
Missed(o, t) == ~ChangedBy(o, t) \/ <<o, t>> \in misreported

\* The handler has changed its target, or given it up.
Behind(o, t) == run[o].target = t /\ run[o].at \in {"report", "fail"}

\* Of a target an operation is done with, or never had, nothing is changed any
\* more; one that is still to do is not changed yet.
ChangesFit(o) ==
    \A t \in Targets :
        /\ \A i, j \in ChangesBy(o, t) : i = j
        /\ ChangedBy(o, t) => Exists(o) /\ t \in op[o].targets
        /\ run[o] # Absent =>
              /\ t \in run[o].todo /\ ~Behind(o, t) => ~ChangedBy(o, t)
              /\ Behind(o, t) /\ run[o].at = "report" => ChangedBy(o, t)
              /\ Behind(o, t) /\ run[o].at = "fail" => Missed(o, t)

\* Items are of targets that have been changed, or were taken to have failed and
\* are not tried again.
ItemsFit(o) ==
    \A i \in item : i.op = o =>
        /\ i.status = "SUCCEEDED" => ChangedBy(o, i.target)
        /\ i.status = "FAILED" =>
              /\ Missed(o, i.target)
              /\ Exists(o)
              /\ run[o] # Absent => i.target \notin run[o].todo

\* The counts so far are those of the targets the handler is done with.
CountsFit(o) ==
    run[o] # Absent =>
        LET r == run[o]
            over == op[o].targets \ r.todo
        IN
        /\ r.success + r.failed = Cardinality(over)
        /\ IF r.failed = 0 THEN \A t \in over : ChangedBy(o, t) ELSE \E t \in over : Missed(o, t)
        /\ IF r.success = 0 THEN \A t \in over : Missed(o, t) ELSE \E t \in over : ChangedBy(o, t)

Fits(o) ==
    OperationFits(o) /\ RunFits(o) /\ ChangesFit(o) /\ ItemsFit(o) /\ CountsFit(o) /\ StatusFits(o)

\* What a handler read still holds, and an audit row tells of it, unless it is late.
RunsFresh ==
    \A o \in Operations : At(o, "write") /\ ~run[o].late =>
        run[o].before = value[run[o].target] /\ run[o].target \notin unaudited

IInv ==
    /\ TypeOK
    /\ TrailIsHistory /\ RequestsFresh /\ RunsFresh
    /\ \A o \in Operations : Fits(o)

\* Every handler comes to an end, whatever fails on the way.
OperationEnds == \A o \in Operations : run[o] # Absent ~> run[o] = Absent
=============================================================================
