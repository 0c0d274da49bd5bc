------------------------ MODULE MCPlatformOperations ------------------------
(* Model-checking instance of PlatformOperations: two decisions, one of    *)
(* them not made yet, a company and a user.  A behaviour is of one of      *)
(* three mixes, chosen in its initial state: operations that overlap with  *)
(* submissions, operations on a user who creates companies, or an          *)
(* operation and its retries.                                              *)
EXTENDS PlatformOperations, TLC

CONSTANTS d1, d2, m1, u1, k1, k2, o1, o2, o3, MaxFaults

VARIABLES mix, faults

MCTableOf ==
    [t \in {d1, d2, m1, u1} |->
        CASE t = m1 -> "company" [] t = u1 -> "user" [] OTHER -> "decision"]
MCValuesOf ==
    [t \in {d1, d2, m1, u1} |->
        CASE t = m1 -> {"ACTIVE", "SUSPENDED"}
          [] t = u1 -> {"unassigned", "K1", "K2"}
          [] OTHER -> {"APPROVED", "REJECTED"}]

\* Bounds: ids are taken in order; operations that overlap are on one target
\* each; a third handler starts when the first has ended; a company is
\* suspended only, a decision approved, a user unassigned; one submission or
\* override, of REJECTED, or of APPROVED and REJECTED; as many faults (failures
\* and restarts) as MaxFaults.
NewOperation(o) == op'[o] # Absent /\ op[o] = Absent
Bound ==
    /\ op'[o2] # Absent => op'[o1] # Absent
    /\ op'[o3] # Absent => op'[o2] # Absent
    /\ \A o \in Operations : NewOperation(o) =>
          /\ op'[o].source = Absent => op'[o].next \in {"APPROVED", "SUSPENDED", "unassigned"}
          /\ mix = "overlap" =>
                op'[o].source = Absent /\ op'[o].targets \in {{d1}, {m1}} /\ o # o3
          /\ mix = "user" => op'[o].single /\ op'[o].targets = {u1} /\ o # o3
          /\ mix = "retry" =>
                /\ u1 \notin op'[o].targets
                /\ op'[o].source # Absent \/ o = o1
                /\ o = o3 => run[o1] = Absent
    /\ mix # "user" => value'[u1] = "K1"
    /\ \A c \in Clients : request'[c] # Absent /\ request[c] = Absent =>
          /\ mix = "overlap"
          /\ \A t \in Targets : \A i \in 1..Len(trail[t]) : trail[t][i].by # Absent
          /\ LET items == request'[c].items IN
                /\ items[Len(items)].next = "REJECTED"
                /\ Len(items) > 1 => items[1].next = "APPROVED"

MCInit ==
    /\ Init
    /\ value = (d1 :> "REJECTED" @@ d2 :> Absent @@ m1 :> "ACTIVE" @@ u1 :> "K1")
    /\ owner = [t \in {d1, d2} |-> k1]
    /\ mix \in {"overlap", "user", "retry"}
    /\ faults = 0

MCNext ==
    /\ \/ Work /\ UNCHANGED faults
       \/ Fault /\ faults' = faults + 1 /\ faults < MaxFaults
       \/ Restart /\ UNCHANGED <<vars, faults>>
    /\ Bound
    /\ UNCHANGED mix

MCvars == <<vars, mix, faults>>
MCSpec ==
    MCInit /\ [][MCNext]_MCvars
    /\ \A o \in Operations : WF_MCvars(Proceed(o) /\ UNCHANGED <<mix, faults>>)
=============================================================================
