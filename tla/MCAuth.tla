------------------------------- MODULE MCAuth -------------------------------
(* Model-checking instance of Auth: two browsers, two requests at a time.  *)
(* The two parts do not touch each other, so a behaviour is of one of them, *)
(* chosen in its initial state.                                            *)
EXTENDS Auth, TLC

VARIABLE part

Symmetric == Permutations(Ids) \cup Permutations(Tabs) \cup Permutations(Browsers)

MCInit == Init /\ part \in {"sessions", "resets"}
MCNext ==
    /\ Next
    /\ IF part = "sessions" THEN UNCHANGED resetVars ELSE UNCHANGED sessionVars
    /\ UNCHANGED part
MCSpec == MCInit /\ [][MCNext]_<<authVars, part>>
=============================================================================
