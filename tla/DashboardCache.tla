--------------------------- MODULE DashboardCache ---------------------------
(***************************************************************************)
(* The in-process cache of dashboard summaries (dashboard-cache.ts,        *)
(* dashboard.controller.ts).  A summary is computed from rows read over    *)
(* several statements, then stored for 30 seconds.  A middleware clears    *)
(* the cache when the response to a write under one of its path prefixes   *)
(* has been sent; import commits and inventory are not under one.          *)
(***************************************************************************)
EXTENDS Integers

CONSTANTS
    Writers,       \* requests that may be answering a write
    Viewers        \* requests for the summary

VARIABLES
    entry,         \* the cached summary: none, or whether it shows the rows
    blame,         \* history: why the entry may be out of date
    fill,          \* per viewer, the summary being computed
    answering      \* writers whose write is committed, response not sent yet

cacheVars == <<entry, blame, fill, answering>>

Freshness == {"none", "current", "outdated"}
Causes == {"overlap", "unwatched", "disconnect"}

InitCache ==
    /\ entry = "none"
    /\ blame = {}
    /\ fill = [v \in Viewers |-> "none"]
    /\ answering = {}

\* A summary request that finds no entry reads the rows.  (One that finds an
\* entry returns it and changes nothing.)
BeginFill(v) ==
    /\ entry = "none"
    /\ fill[v] = "none"
    /\ fill' = [fill EXCEPT ![v] = "current"]
    /\ UNCHANGED <<entry, blame, answering>>

\* setCachedDashboard, whatever has been written since the rows were read.
StoreFill(v) ==
    /\ fill[v] # "none"
    /\ entry' = fill[v]
    /\ blame' = IF fill[v] = "outdated" THEN {"overlap"} ELSE {}
    /\ fill' = [fill EXCEPT ![v] = "none"]
    /\ UNCHANGED answering

\* A query of the summary fails: nothing is stored.
DropFill(v) ==
    /\ fill[v] # "none"
    /\ fill' = [fill EXCEPT ![v] = "none"]
    /\ UNCHANGED <<entry, blame, answering>>

Outdated(freshness) == IF freshness = "none" THEN "none" ELSE "outdated"

\* Rows the summary shows change.
RowsChange ==
    /\ entry' = Outdated(entry)
    /\ fill' = [v \in Viewers |-> Outdated(fill[v])]

\* A write of a handler under a watched prefix commits.
WatchedWrite(c) ==
    /\ RowsChange
    /\ answering' = answering \cup {c}
    /\ UNCHANGED blame

\* ... and one that changes no row the summary shows.
HarmlessWrite(c) ==
    /\ answering' = answering \cup {c}
    /\ UNCHANGED <<entry, blame, fill>>

\* A write no prefix covers: import commits, inventory.
UnwatchedWrite ==
    /\ RowsChange
    /\ blame' = IF entry = "none" THEN {} ELSE blame \cup {"unwatched"}
    /\ UNCHANGED answering

\* Mutant: the middleware has cleared the cache before the handler ran.
AnswerNoClear(c) ==
    /\ c \in answering
    /\ answering' = answering \ {c}
    /\ UNCHANGED <<entry, blame, fill>>

\* The response is sent ('finish'): the whole cache is cleared.
Answer(c) ==
    /\ c \in answering
    /\ answering' = answering \ {c}
    /\ entry' = "none"
    /\ blame' = {}
    /\ UNCHANGED fill

\* The client has gone before the response was sent: no 'finish', no clearing.
Disconnect(c) ==
    /\ c \in answering
    /\ answering' = answering \ {c}
    /\ blame' = IF entry = "none" THEN {} ELSE blame \cup {"disconnect"}
    /\ UNCHANGED <<entry, fill>>

\* 30 seconds after it was stored the entry is dropped on its next lookup.
Expire ==
    /\ entry # "none"
    /\ entry' = "none"
    /\ blame' = {}
    /\ UNCHANGED <<fill, answering>>

\* The process restarts with an empty cache.
RestartCache ==
    /\ entry' = "none"
    /\ blame' = {}
    /\ fill' = [v \in Viewers |-> "none"]
    /\ answering' = {}

-----------------------------------------------------------------------------
CacheTypeOK ==
    /\ entry \in Freshness
    /\ blame \in SUBSET Causes
    /\ fill \in [Viewers -> Freshness]
    /\ answering \in SUBSET Writers

\* A viewer is served an old summary only while the write is still being
\* answered, or because the summary was computed across the write, the write is
\* not watched, or its client had gone.
OutdatedOnlyWhenExcused == entry = "outdated" => blame # {} \/ answering # {}

CacheIInv == CacheTypeOK /\ OutdatedOnlyWhenExcused

CacheNext ==
    \/ \E v \in Viewers : BeginFill(v) \/ StoreFill(v) \/ DropFill(v)
    \/ \E c \in Writers : WatchedWrite(c) \/ HarmlessWrite(c) \/ Answer(c) \/ Disconnect(c)
    \/ UnwatchedWrite
    \/ Expire
    \/ RestartCache

CacheSpec == InitCache /\ [][CacheNext]_cacheVars
=============================================================================
