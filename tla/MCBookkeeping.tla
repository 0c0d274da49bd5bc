--------------------------- MODULE MCBookkeeping ---------------------------
(* Model-checking instance of Bookkeeping.  A behaviour is of one of the   *)
(* mixes of rows and requests, chosen in its initial state: a bound on the *)
(* product of what the clients may do.                                     *)
EXTENDS Bookkeeping

CONSTANTS t1, t2, f1, a1, a2

VARIABLE mix

MCTableOf ==
    [r \in {t1, t2, f1, a1, a2} |->
        IF r \in {t1, t2} THEN "Transaction"
        ELSE IF r = f1 THEN "FundTransfer" ELSE "Account"]

MCLimit ==
    [p \in {"STARTER", "STANDARD"} |->
        [t \in Limited |-> IF p = "STARTER" THEN 1 ELSE 2]]

MCFields == {"amount", "memo"}

Blank == [f \in MCFields |-> 1]
Mix(rows, kinds, contents) == [rows |-> rows, kinds |-> kinds, contents |-> contents]

\* edit: rows are edited; limit: the plan and the month change; file: files are
\* attached; cache: summaries are computed.
Mixes ==
    { Mix({f1}, {"edit"}, Contents),
      Mix({t1, t2}, {"create", "limit"}, {Blank}),
      Mix({a1, a2}, {"create", "limit"}, {Blank}),
      Mix({t1}, {"file"}, {Blank}),
      Mix({t1}, {"edit", "cache"}, {Blank}) }

InMix ==
    /\ \A r \in Rows : row'[r] # Absent => r \in mix.rows /\ row'[r] \in mix.contents
    /\ \A r \in Rows : row'[r] # row[r] /\ row[r] = Absent => row'[r] = Blank
    /\ "file" \notin mix.kinds => used' = {}
    /\ (\E c \in Clients : edit'[c] # Absent) => "edit" \in mix.kinds
    /\ (\E c \in Clients : creating'[c] # Absent) => "create" \in mix.kinds
    /\ (\E v \in Viewers : fill'[v] # "none") => "cache" \in mix.kinds
    /\ <<plan, now>>' = <<plan, now>> \/ "limit" \in mix.kinds

MCInit == Init /\ plan = "STARTER" /\ now = 1 /\ mix \in Mixes
MCNext == Next /\ InMix /\ UNCHANGED mix
MCvars == <<bookVars, mix>>
MCSpec == MCInit /\ [][MCNext]_MCvars
=============================================================================
