------------------------------ MODULE Sessions ------------------------------
(***************************************************************************)
(* The refresh sessions of one user (auth/refresh.service.ts,              *)
(* refresh.controller.ts, auth.controller.ts).  A browser holds one        *)
(* session in a cookie that its tabs share.  A refresh checks the session, *)
(* and replaces it by a new one in a later transaction; the answer carries *)
(* the new cookie and may be lost.  A session presented after it has been  *)
(* revoked makes the server revoke all sessions of the user.               *)
(***************************************************************************)
EXTENDS Naturals, FiniteSets

CONSTANTS
    Ids,           \* jti's that may be drawn
    Browsers,
    Tabs,          \* requests that may be in flight at once, of any browser
    Absent         \* "no session", "no cookie", "no request"

\* sent: about to be checked; rotate, alarm, expire, revoke: about to write;
\* accepted, refused: about to be answered.
Steps == {"sent", "rotate", "alarm", "expire", "revoke", "accepted", "refused"}

\* shown is the cookie a request was sent with, next the session it answers with.
Requests == [browser : Browsers, step : Steps,
             shown : Ids \cup {Absent}, next : Ids \cup {Absent}]

\* parent: the session a rotation created it from.
Rows == [live : BOOLEAN, expired : BOOLEAN, replacedBy : Ids \cup {Absent},
         parent : Ids \cup {Absent}]

ASSUME SessionsAssumption == Absent \notin Ids \cup Rows \cup Requests

VARIABLES
    session,       \* RefreshSession rows, or Absent
    cookie,        \* per browser, the session of its __Host-lsrt cookie
    req,           \* per tab, the request in flight
    overlapped,    \* history: sessions created by the rotation of a session
                   \* that had been revoked since it was checked
    excused,       \* history: sessions one of whose requests had no answer, that
                   \* two requests presented at once, or that were revoked by a
                   \* logout or with all of the user
    alarmed        \* history: sessions presented after they were revoked

sessionVars == <<session, cookie, req, overlapped, excused, alarmed>>

SessionInit ==
    /\ session = [s \in Ids |-> Absent]
    /\ cookie = [b \in Browsers |-> Absent]
    /\ req = [t \in Tabs |-> Absent]
    /\ overlapped = {}
    /\ excused = {}
    /\ alarmed = {}

Exists(s) == session[s] # Absent
Live(s) == Exists(s) /\ session[s].live
At(t, step) == req[t] # Absent /\ req[t].step = step
Fresh(parent) == [live |-> TRUE, expired |-> FALSE, replacedBy |-> Absent, parent |-> parent]

\* A request is sent with the browser's cookie; one that is already on its way
\* with the same cookie is overlapped.
Send(t, b, step, shown) ==
    /\ req[t] = Absent
    /\ req' = [req EXCEPT ![t] = [browser |-> b, step |-> step,
                                    shown |-> shown, next |-> Absent]]
    /\ excused' = IF shown # Absent /\ \E u \in Tabs : req[u] # Absent /\ req[u].shown = shown
                 THEN excused \cup {shown} ELSE excused

MoveTo(t, step) == req' = [req EXCEPT ![t].step = step]

-----------------------------------------------------------------------------
(* POST /auth/login: a new session, whatever the browser holds.            *)
Login(t, b, s) ==
    /\ req[t] = Absent
    /\ ~Exists(s)
    /\ session' = [session EXCEPT ![s] = Fresh(Absent)]
    /\ req' = [req EXCEPT ![t] = [browser |-> b, step |-> "accepted",
                                    shown |-> Absent, next |-> s]]
    /\ UNCHANGED <<cookie, overlapped, excused, alarmed>>

-----------------------------------------------------------------------------
(* POST /auth/refresh *)

BeginRefresh(t, b) ==
    /\ cookie[b] # Absent
    /\ Send(t, b, "sent", cookie[b])
    /\ UNCHANGED <<session, cookie, overlapped, alarmed>>

\* Mutant: an expired session is not told from a revoked one.
CheckExpiredAsReuse(t) ==
    /\ At(t, "sent")
    /\ LET s == req[t].shown IN
          /\ MoveTo(t, IF Live(s) /\ ~session[s].expired THEN "rotate" ELSE "alarm")
          /\ alarmed' = IF Live(s) /\ ~session[s].expired THEN alarmed ELSE alarmed \cup {s}
    /\ UNCHANGED <<session, cookie, overlapped, excused>>

\* validateSessionOrReuse: the row is read; a revocation follows in a statement
\* of its own.
Check(t) ==
    /\ At(t, "sent")
    /\ LET s == req[t].shown IN
          /\ MoveTo(t, IF session[s].expired THEN "expire"
                       ELSE IF session[s].live THEN "rotate" ELSE "alarm")
          /\ alarmed' = IF session[s].expired \/ session[s].live THEN alarmed
                        ELSE alarmed \cup {s}
    /\ UNCHANGED <<session, cookie, overlapped, excused>>

\* Mutant: the session rotated is not revoked.
RotateKeeps(t, new) ==
    /\ At(t, "rotate")
    /\ ~Exists(new)
    /\ session' = [session EXCEPT ![new] = Fresh(req[t].shown)]
    /\ req' = [req EXCEPT ![t].step = "accepted", ![t].next = new]
    /\ UNCHANGED <<cookie, overlapped, excused, alarmed>>

\* rotateRefreshSession: the new session is created whether or not the old one
\* was still there to be replaced.
Rotate(t, new) ==
    /\ At(t, "rotate")
    /\ ~Exists(new)
    /\ LET s == req[t].shown IN
          /\ session' = [i \in Ids |->
                CASE i = new -> Fresh(s)
                  [] i = s /\ session[s].live ->
                        [session[s] EXCEPT !.live = FALSE, !.replacedBy = new]
                  [] OTHER -> session[i]]
          /\ overlapped' = IF session[s].live THEN overlapped ELSE overlapped \cup {new}
    /\ req' = [req EXCEPT ![t].step = "accepted", ![t].next = new]
    /\ UNCHANGED <<cookie, excused, alarmed>>

\* revokeUserAll
Sweep(t) ==
    /\ At(t, "alarm")
    /\ session' = [s \in Ids |-> IF Live(s) THEN [session[s] EXCEPT !.live = FALSE] ELSE session[s]]
    /\ excused' = excused \cup {s \in Ids : Live(s)}
    /\ MoveTo(t, "refused")
    /\ UNCHANGED <<cookie, overlapped, alarmed>>

\* revokeOne, of an expired session or of the one a logout presents.
RevokeOne(t) ==
    /\ At(t, "expire") \/ At(t, "revoke")
    /\ session' = [session EXCEPT ![req[t].shown].live = FALSE]
    /\ MoveTo(t, IF At(t, "expire") THEN "refused" ELSE "accepted")
    /\ excused' = IF At(t, "revoke") THEN excused \cup {req[t].shown} ELSE excused
    /\ UNCHANGED <<cookie, overlapped, alarmed>>

\* The database refuses the statement: the handler answers with an error; a
\* logout ignores it.
WriteFails(t) ==
    /\ \E step \in {"sent", "rotate", "alarm", "expire", "revoke"} : At(t, step)
    /\ MoveTo(t, IF At(t, "revoke") THEN "accepted" ELSE "refused")
    /\ UNCHANGED <<session, cookie, overlapped, excused, alarmed>>

-----------------------------------------------------------------------------
(* POST /auth/logout, with or without a cookie. *)
BeginLogout(t, b) ==
    /\ Send(t, b, IF cookie[b] = Absent THEN "accepted" ELSE "revoke", cookie[b])
    /\ UNCHANGED <<session, cookie, overlapped, alarmed>>

-----------------------------------------------------------------------------
\* Mutant: a refresh answers without the cookie of its new session.
AnswerWithoutCookie(t) ==
    /\ At(t, "accepted") \/ At(t, "refused")
    /\ cookie' = IF req[t].next = Absent \/ req[t].shown # Absent THEN cookie
                 ELSE [cookie EXCEPT ![req[t].browser] = req[t].next]
    /\ req' = [req EXCEPT ![t] = Absent]
    /\ UNCHANGED <<session, overlapped, excused, alarmed>>

\* The answer arrives.  It sets the cookie of a new session.  A logout or a refused
\* refresh answers with clearCookie, without the Secure attribute, which a browser
\* disregards for a cookie named __Host-: the old cookie stays.
Answer(t) ==
    /\ At(t, "accepted") \/ At(t, "refused")
    /\ cookie' = IF req[t].next = Absent THEN cookie
                 ELSE [cookie EXCEPT ![req[t].browser] = req[t].next]
    /\ req' = [req EXCEPT ![t] = Absent]
    /\ UNCHANGED <<session, overlapped, excused, alarmed>>

\* The answers of the tabs in T do not arrive.
Drop(T) ==
    /\ req' = [t \in Tabs |-> IF t \in T THEN Absent ELSE req[t]]
    /\ excused' = excused \cup ({req[t].shown : t \in {u \in T : req[u] # Absent}} \ {Absent})
    /\ UNCHANGED <<session, cookie, overlapped, alarmed>>

LoseAnswer(t) == (At(t, "accepted") \/ At(t, "refused")) /\ Drop({t})

\* The API process restarts.
Restart == Drop(Tabs)

\* 14 days pass: the row is as good as revoked, and the browser drops the cookie
\* unless a request is already on its way with it.
Expire(s) ==
    /\ Exists(s) /\ ~session[s].expired
    /\ session' = [session EXCEPT ![s].expired = TRUE]
    /\ cookie' = [b \in Browsers |-> IF cookie[b] = s THEN Absent ELSE cookie[b]]
    /\ UNCHANGED <<req, overlapped, excused, alarmed>>

Serve(t) ==
    \/ Check(t) \/ Sweep(t) \/ RevokeOne(t) \/ WriteFails(t)
    \/ \E s \in Ids : Rotate(t, s)

SessionNext ==
    \/ \E t \in Tabs, b \in Browsers, s \in Ids : Login(t, b, s)
    \/ \E t \in Tabs, b \in Browsers : BeginRefresh(t, b) \/ BeginLogout(t, b)
    \/ \E t \in Tabs : Serve(t)
    \/ \E t \in Tabs : Answer(t) \/ LoseAnswer(t)
    \/ Restart
    \/ \E s \in Ids : Expire(s)

SessionSpec == SessionInit /\ [][SessionNext]_sessionVars

-----------------------------------------------------------------------------
SessionTypeOK ==
    /\ session \in [Ids -> Rows \cup {Absent}]
    /\ cookie \in [Browsers -> Ids \cup {Absent}]
    /\ req \in [Tabs -> Requests \cup {Absent}]
    /\ \A h \in {overlapped, excused, alarmed} : h \subseteq Ids

\* Every session a refresh created is the recorded replacement of the one it was
\* created from, so that one session has one successor - unless that one was
\* revoked, by another refresh, a logout or an alarm, after it had been checked.
ChainIntact ==
    \A s \in Ids \ overlapped :
        Exists(s) /\ session[s].parent # Absent =>
            /\ session[session[s].parent].replacedBy = s
            /\ ~Live(session[s].parent)

\* A user is signed out everywhere only after an answer was lost, two tabs
\* presented the same session, the session presented had been logged out and its
\* cookie had stayed behind, or another browser had set off the alarm before: a
\* session replaced by a refresh, or expired, never sets it off on its own.
AlarmOnlyWhenExcused == alarmed \subseteq excused

\* Strengthening: requests present, and answer with, sessions that exist; the
\* session a request answers with is in no cookie and in no other request, and
\* a session is in one browser only.
Holding ==
    /\ \A b, c \in Browsers : cookie[b] # Absent =>
          Exists(cookie[b]) /\ (cookie[c] = cookie[b] => b = c)
    /\ \A t \in Tabs : req[t] # Absent =>
          LET k == req[t] IN
          /\ k.shown # Absent => Exists(k.shown)
          /\ k.step \in {"sent", "rotate", "alarm", "expire", "revoke"} => k.shown # Absent
          /\ k.step = "expire" => session[k.shown].expired
          /\ k.next # Absent => k.step = "accepted" /\ Exists(k.next)
          /\ k.next # Absent => Live(k.next) \/ k.next \in excused
          /\ \A b \in Browsers :
                /\ k.shown # Absent /\ cookie[b] = k.shown => b = k.browser
                /\ k.next # Absent => cookie[b] # k.next
          /\ \A u \in Tabs \ {t} : req[u] # Absent /\ k.next # Absent =>
                k.next # req[u].shown /\ k.next # req[u].next
          /\ k.next # k.shown \/ k.next = Absent

\* A session that cannot set off an alarm on its own.
Harmless(s) == Live(s) \/ session[s].expired \/ s \in excused

\* Strengthening: a session that has been revoked is in a cookie, or presented by
\* a request, for one of those reasons only, or its replacement is on its way.
PresentedIsLive ==
    /\ \A b \in Browsers : cookie[b] # Absent =>
          \/ Harmless(cookie[b])
          \/ \E t \in Tabs :
                req[t] # Absent /\ req[t].shown = cookie[b] /\ req[t].next # Absent
    /\ \A t \in Tabs :
          req[t] # Absent /\ req[t].shown # Absent /\ req[t].next = Absent
             => Harmless(req[t].shown)
    /\ \A t, u \in Tabs :
          t # u /\ req[t] # Absent /\ req[u] # Absent /\ req[t].shown # Absent
             /\ req[t].shown = req[u].shown => req[t].shown \in excused

\* Strengthening: the session a refresh replaced exists.
ParentsExist ==
    \A s \in Ids : Exists(s) /\ session[s].parent # Absent => Exists(session[s].parent)

SessionIInv ==
    /\ SessionTypeOK
    /\ Holding
    /\ PresentedIsLive
    /\ ParentsExist
    /\ ChainIntact
    /\ AlarmOnlyWhenExcused
=============================================================================
