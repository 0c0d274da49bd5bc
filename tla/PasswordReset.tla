--------------------------- MODULE PasswordReset ---------------------------
(***************************************************************************)
(* Password resets of one user (auth/password-reset.service.ts).  A        *)
(* request for a link counts the links of the last 15 minutes and creates  *)
(* one in a later statement; a reset checks its token, hashes the new      *)
(* password and stores both in a later transaction.                        *)
(***************************************************************************)
EXTENDS Naturals, FiniteSets

CONSTANTS
    Tokens,        \* password reset tokens that may be drawn
    Askers,        \* requests for a link in flight at the same time
    Resetters,     \* resets in flight at the same time
    MaxRecent,     \* links allowed in 15 minutes (5 in the code)
    NoToken        \* "no token"

ASSUME PasswordResetAssumption ==
    MaxRecent \in Nat /\ IsFiniteSet(Tokens) /\ NoToken \notin Tokens

\* recent: created less than 15 minutes ago; valid: less than 30.
Ages == {"none", "recent", "valid", "expired"}

VARIABLES
    age,           \* per token, its PasswordResetToken row
    used,          \* tokens whose usedAt is set
    asking,        \* per asker, "none", "counted" or - the count being out of
                   \* date - "overtaken"
    resetting,     \* per reset in flight, the token it has checked
    uncounted,     \* history: tokens created on a count that was out of date
    raced,         \* history: tokens two resets had checked at once
    repeated       \* history: tokens that set a password twice

resetVars == <<age, used, asking, resetting, uncounted, raced, repeated>>

Recent == {t \in Tokens : age[t] = "recent"}

ResetInit ==
    /\ age = [t \in Tokens |-> "none"]
    /\ used = {}
    /\ asking = [a \in Askers |-> "none"]
    /\ resetting = [r \in Resetters |-> NoToken]
    /\ uncounted = {}
    /\ raced = {}
    /\ repeated = {}

\* Mutant: the limit may be exceeded by one.
CountRecentAtMost(a) ==
    /\ asking[a] = "none"
    /\ Cardinality(Recent) <= MaxRecent
    /\ asking' = [asking EXCEPT ![a] = "counted"]
    /\ UNCHANGED <<age, used, resetting, uncounted, raced, repeated>>

\* rateLimitByEmail; a request at the limit is answered 429.
CountRecent(a) ==
    /\ asking[a] = "none"
    /\ Cardinality(Recent) < MaxRecent
    /\ asking' = [asking EXCEPT ![a] = "counted"]
    /\ UNCHANGED <<age, used, resetting, uncounted, raced, repeated>>

\* requestReset creates the token.
CreateToken(a, t) ==
    /\ asking[a] # "none"
    /\ age[t] = "none"
    /\ age' = [age EXCEPT ![t] = "recent"]
    /\ asking' = [b \in Askers |->
          IF b = a \/ asking[b] = "none" THEN "none" ELSE "overtaken"]
    /\ uncounted' = IF asking[a] = "overtaken" THEN uncounted \cup {t} ELSE uncounted
    /\ UNCHANGED <<used, resetting, raced, repeated>>

\* Mutant: a used token is accepted.
CheckTokenUsed(r, t) ==
    /\ resetting[r] = NoToken
    /\ age[t] \in {"recent", "valid"}
    /\ resetting' = [resetting EXCEPT ![r] = t]
    /\ raced' = IF \E o \in Resetters : resetting[o] = t THEN raced \cup {t} ELSE raced
    /\ UNCHANGED <<age, used, asking, uncounted, repeated>>

\* resetPassword: the token is looked up, and must be neither used nor expired.
CheckToken(r, t) ==
    /\ resetting[r] = NoToken
    /\ age[t] \in {"recent", "valid"}
    /\ t \notin used
    /\ resetting' = [resetting EXCEPT ![r] = t]
    /\ raced' = IF \E o \in Resetters : resetting[o] = t THEN raced \cup {t} ELSE raced
    /\ UNCHANGED <<age, used, asking, uncounted, repeated>>

\* The password is hashed; then one transaction stores it and marks the token,
\* whatever has become of the token meanwhile.
SetPassword(r) ==
    /\ resetting[r] # NoToken
    /\ resetting' = [resetting EXCEPT ![r] = NoToken]
    /\ used' = used \cup {resetting[r]}
    /\ repeated' = IF resetting[r] \in used THEN repeated \cup {resetting[r]} ELSE repeated
    /\ UNCHANGED <<age, asking, uncounted, raced>>

\* A statement fails, or the process restarts.
DropAsk(a) ==
    /\ asking[a] # "none"
    /\ asking' = [asking EXCEPT ![a] = "none"]
    /\ UNCHANGED <<age, used, resetting, uncounted, raced, repeated>>

DropReset(r) ==
    /\ resetting[r] # NoToken
    /\ resetting' = [resetting EXCEPT ![r] = NoToken]
    /\ UNCHANGED <<age, used, asking, uncounted, raced, repeated>>

\* 15 minutes pass, or 30.
Older(t) ==
    /\ age[t] \in {"recent", "valid"}
    /\ age' = [age EXCEPT ![t] = IF @ = "recent" THEN "valid" ELSE "expired"]
    /\ UNCHANGED <<used, asking, resetting, uncounted, raced, repeated>>

ResetNext ==
    \/ \E a \in Askers : CountRecent(a) \/ DropAsk(a)
    \/ \E a \in Askers, t \in Tokens : CreateToken(a, t)
    \/ \E r \in Resetters, t \in Tokens : CheckToken(r, t)
    \/ \E r \in Resetters : SetPassword(r) \/ DropReset(r)
    \/ \E t \in Tokens : Older(t)

ResetSpec == ResetInit /\ [][ResetNext]_resetVars

-----------------------------------------------------------------------------
ResetTypeOK ==
    /\ age \in [Tokens -> Ages]
    /\ used \in SUBSET Tokens
    /\ asking \in [Askers -> {"none", "counted", "overtaken"}]
    /\ resetting \in [Resetters -> Tokens \cup {NoToken}]
    /\ uncounted \in SUBSET Tokens
    /\ raced \in SUBSET Tokens
    /\ repeated \in SUBSET Tokens

\* No more links than the limit are created within 15 minutes, but for those
\* whose request had counted before another one created its own.
ResetsWithinLimit == Cardinality(Recent \ uncounted) <= MaxRecent

\* A token sets a password once, unless two resets had checked it before either
\* of them marked it.
TokenUsedOnceUnlessRaced == repeated \subseteq raced

\* Strengthening: a request nobody has overtaken has room for its link; a token
\* that a reset has checked, and no other reset at the same time, is not used.
ResetsPending ==
    /\ \A a \in Askers : asking[a] = "counted" => Cardinality(Recent) < MaxRecent
    /\ \A r \in Resetters : resetting[r] # NoToken => resetting[r] \notin used \ raced
    /\ \A q, r \in Resetters : q # r /\ resetting[q] # NoToken /\ resetting[q] = resetting[r]
          => resetting[q] \in raced

ResetIInv == ResetTypeOK /\ ResetsWithinLimit /\ TokenUsedOnceUnlessRaced /\ ResetsPending
=============================================================================
