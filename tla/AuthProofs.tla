----------------------------- MODULE AuthProofs -----------------------------
(***************************************************************************)
(* The chain of refresh sessions, its alarm, and the limits of password    *)
(* resets - for every number of browsers, requests, sessions and tokens.   *)
(***************************************************************************)
EXTENDS Auth, FiniteSetTheorems, TLAPS

USE SessionsAssumption, PasswordResetAssumption

\* A session revoked, or expired, keeps what else is known of it.
LEMMA Marked ==
    ASSUME NEW k \in Rows
    PROVE  /\ [k EXCEPT !.live = FALSE] \in Rows
           /\ [k EXCEPT !.live = FALSE] # Absent
           /\ [k EXCEPT !.live = FALSE].live = FALSE
           /\ [k EXCEPT !.live = FALSE].expired = k.expired
           /\ [k EXCEPT !.live = FALSE].parent = k.parent
           /\ [k EXCEPT !.live = FALSE].replacedBy = k.replacedBy
           /\ [k EXCEPT !.expired = TRUE] \in Rows
           /\ [k EXCEPT !.expired = TRUE] # Absent
           /\ [k EXCEPT !.expired = TRUE].live = k.live
           /\ [k EXCEPT !.expired = TRUE].expired = TRUE
           /\ [k EXCEPT !.expired = TRUE].parent = k.parent
           /\ [k EXCEPT !.expired = TRUE].replacedBy = k.replacedBy
BY DEF Rows

\* Revoking the sessions of R, or letting them expire, changes that only.
LEMMA MarkedAll ==
    ASSUME SessionTypeOK, NEW R \in SUBSET Ids, \A s \in R : session[s] # Absent,
           \/ session' = [s \in Ids |->
                  IF s \in R THEN [session[s] EXCEPT !.live = FALSE] ELSE session[s]]
           \/ session' = [s \in Ids |->
                  IF s \in R THEN [session[s] EXCEPT !.expired = TRUE] ELSE session[s]]
    PROVE  /\ session' \in [Ids -> Rows \cup {Absent}]
           /\ \A s \in Ids :
                 /\ session'[s] # Absent <=> session[s] # Absent
                 /\ session'[s].parent = session[s].parent
                 /\ session'[s].replacedBy = session[s].replacedBy
                 /\ s \notin R => session'[s] = session[s]
<1>1. \A s \in R : session[s] \in Rows
  BY DEF SessionTypeOK
<1>2. \A s \in Ids \ R : session'[s] = session[s]
  OBVIOUS
<1>3. CASE session' = [s \in Ids |->
               IF s \in R THEN [session[s] EXCEPT !.live = FALSE] ELSE session[s]]
  <2>1. \A s \in R : session'[s] = [session[s] EXCEPT !.live = FALSE]
    BY <1>3
  <2>2. ASSUME NEW s \in R
        PROVE  /\ session'[s] \in Rows
               /\ session'[s] # Absent
               /\ session'[s].parent = session[s].parent
               /\ session'[s].replacedBy = session[s].replacedBy
    <3>. DEFINE k == session[s]
    <3>1. k \in Rows /\ session'[s] = [k EXCEPT !.live = FALSE]
      BY <1>1, <2>1
    <3>. HIDE DEF k
    <3>2. /\ session'[s] \in Rows
          /\ session'[s].parent = k.parent /\ session'[s].replacedBy = k.replacedBy
      BY <3>1 DEF Rows
    <3>. QED
      BY <3>2 DEF k
  <2>. QED
    BY <1>2, <1>3, <2>2 DEF SessionTypeOK
<1>4. CASE session' = [s \in Ids |->
               IF s \in R THEN [session[s] EXCEPT !.expired = TRUE] ELSE session[s]]
  <2>1. \A s \in R : session'[s] = [session[s] EXCEPT !.expired = TRUE]
    BY <1>4
  <2>2. ASSUME NEW s \in R
        PROVE  /\ session'[s] \in Rows
               /\ session'[s] # Absent
               /\ session'[s].parent = session[s].parent
               /\ session'[s].replacedBy = session[s].replacedBy
    <3>. DEFINE k == session[s]
    <3>1. k \in Rows /\ session'[s] = [k EXCEPT !.expired = TRUE]
      BY <1>1, <2>1
    <3>. HIDE DEF k
    <3>2. /\ session'[s] \in Rows
          /\ session'[s].parent = k.parent /\ session'[s].replacedBy = k.replacedBy
      BY <3>1 DEF Rows
    <3>. QED
      BY <3>2 DEF k
  <2>. QED
    BY <1>2, <1>4, <2>2 DEF SessionTypeOK
<1>. QED
  BY <1>3, <1>4

\* A sign-in holds a session of its own.
LEMMA LoginPreserves ==
    ASSUME SessionIInv, NEW t \in Tabs, NEW b \in Browsers, NEW s \in Ids, Login(t, b, s)
    PROVE  SessionIInv'
<1>. USE DEF SessionIInv, Exists, Live, At, Harmless
<1>. DEFINE k == [browser |-> b, step |-> "accepted", shown |-> Absent, next |-> s]
            row == [live |-> TRUE, expired |-> FALSE, replacedBy |-> Absent, parent |-> Absent]
<1>0. k \in Requests /\ k # Absent /\ row \in Rows /\ row # Absent
  <2>1. k \in Requests /\ row \in Rows
    BY DEF Requests, Steps, Rows
  <2>. QED
    BY <2>1
<1>1. /\ req[t] = Absent /\ session[s] = Absent
      /\ req' = [req EXCEPT ![t] = k] /\ session' = [session EXCEPT ![s] = row]
      /\ UNCHANGED <<cookie, overlapped, excused, alarmed>>
  BY DEF Login, Fresh
<1>2. SessionTypeOK'
  BY <1>0, <1>1 DEF SessionTypeOK
<1>3. /\ session'[s] = row /\ \A i \in Ids \ {s} : session'[i] = session[i]
      /\ req'[t] = k /\ \A u \in Tabs \ {t} : req'[u] = req[u]
  BY <1>1 DEF SessionTypeOK
<1>4. /\ \A c \in Browsers : cookie[c] # s
      /\ \A u \in Tabs \ {t} : req[u] # Absent => req[u].shown # s /\ req[u].next # s
  BY <1>1 DEF SessionTypeOK, Holding, Requests
<1>. HIDE DEF k, row
<1>5. k.browser = b /\ k.step = "accepted" /\ k.shown = Absent /\ k.next = s /\ row.live
      /\ row.parent = Absent
  BY DEF k, row
<1>6. Holding'
  <2>1. \A c, d \in Browsers : cookie'[c] # Absent =>
            session'[cookie'[c]] # Absent /\ (cookie'[d] = cookie'[c] => c = d)
    BY <1>1, <1>3, <1>4 DEF SessionTypeOK, Holding
  <2>. QED
    BY <2>1, <1>0, <1>1, <1>3, <1>4, <1>5 DEF SessionTypeOK, Holding, Requests
<1>7. PresentedIsLive'
  BY <1>0, <1>1, <1>3, <1>4, <1>5 DEF SessionTypeOK, Holding, PresentedIsLive, Requests
<1>8. ParentsExist' /\ ChainIntact'
  BY <1>0, <1>1, <1>3, <1>5 DEF SessionTypeOK, ParentsExist, ChainIntact, Rows
<1>9. AlarmOnlyWhenExcused'
  BY <1>1 DEF AlarmOnlyWhenExcused
<1>. QED
  BY <1>2, <1>6, <1>7, <1>8, <1>9

\* A refresh presents what the browser holds.
LEMMA BeginRefreshPreserves ==
    ASSUME SessionIInv, NEW t \in Tabs, NEW b \in Browsers, BeginRefresh(t, b)
    PROVE  SessionIInv'
<1>. USE DEF SessionIInv, Exists, Live, At, Harmless, BeginRefresh, Send
<1>1. SessionTypeOK'
  BY DEF SessionTypeOK, Rows, Requests, Steps
<1>2. Holding'
  BY DEF SessionTypeOK, Holding, Rows, Requests, Steps
<1>3. PresentedIsLive'
  BY DEF SessionTypeOK, Holding, PresentedIsLive, Rows, Requests, Steps
<1>4. ParentsExist' /\ ChainIntact'
  BY DEF SessionTypeOK, Holding, ParentsExist, ChainIntact, Rows, Requests, Steps
<1>5. AlarmOnlyWhenExcused'
  BY DEF SessionTypeOK, PresentedIsLive, AlarmOnlyWhenExcused
<1>. QED
  BY <1>1, <1>2, <1>3, <1>4, <1>5

\* So does a logout.
LEMMA BeginLogoutPreserves ==
    ASSUME SessionIInv, NEW t \in Tabs, NEW b \in Browsers, BeginLogout(t, b)
    PROVE  SessionIInv'
<1>. USE DEF SessionIInv, Exists, Live, At, Harmless, BeginLogout, Send
<1>1. SessionTypeOK'
  BY DEF SessionTypeOK, Rows, Requests, Steps
<1>2. Holding'
  BY DEF SessionTypeOK, Holding, Rows, Requests, Steps
<1>3. PresentedIsLive'
  BY DEF SessionTypeOK, Holding, PresentedIsLive, Rows, Requests, Steps
<1>4. ParentsExist' /\ ChainIntact'
  BY DEF SessionTypeOK, Holding, ParentsExist, ChainIntact, Rows, Requests, Steps
<1>5. AlarmOnlyWhenExcused'
  BY DEF SessionTypeOK, PresentedIsLive, AlarmOnlyWhenExcused
<1>. QED
  BY <1>1, <1>2, <1>3, <1>4, <1>5

\* An alarm is excused: the session presented was revoked for a reason.
LEMMA CheckPreserves ==
    ASSUME SessionIInv, NEW t \in Tabs, Check(t)
    PROVE  SessionIInv'
<1>. USE DEF SessionIInv, Exists, Live, At, Harmless, Check, MoveTo
<1>1. SessionTypeOK'
  <2>1. req[t].shown \in Ids
    BY DEF SessionTypeOK, Holding, Requests
  <2>2. req' \in [Tabs -> Requests \cup {Absent}]
    BY DEF SessionTypeOK, Requests, Steps
  <2>. QED
    BY <2>1, <2>2 DEF SessionTypeOK
<1>2. Holding'
  BY DEF SessionTypeOK, Holding, Rows, Requests, Steps
<1>3. PresentedIsLive'
  BY DEF SessionTypeOK, Holding, PresentedIsLive, Rows, Requests, Steps
<1>4. ParentsExist' /\ ChainIntact'
  BY DEF SessionTypeOK, Holding, ParentsExist, ChainIntact, Rows, Requests, Steps
<1>5. AlarmOnlyWhenExcused'
  BY DEF SessionTypeOK, Holding, PresentedIsLive, AlarmOnlyWhenExcused
<1>. QED
  BY <1>1, <1>2, <1>3, <1>4, <1>5

\* A rotation records its new session as the replacement, or knows of the overlap.
LEMMA RotatePreserves ==
    ASSUME SessionIInv, NEW t \in Tabs, NEW new \in Ids, Rotate(t, new)
    PROVE  SessionIInv'
<1>. USE DEF SessionIInv, Exists, Live, At, Harmless
<1>. DEFINE s == req[t].shown
            row == [live |-> TRUE, expired |-> FALSE, replacedBy |-> Absent, parent |-> s]
            gone == [session[s] EXCEPT !.live = FALSE, !.replacedBy = new]
            k == [req[t] EXCEPT !.step = "accepted", !.next = new]
<1>1. /\ req[t] \in Requests /\ req[t] # Absent /\ req[t].step = "rotate" /\ s \in Ids
      /\ session[s] \in Rows /\ session[s] # Absent /\ session[new] = Absent /\ s # new
  BY DEF SessionTypeOK, Holding, Requests, Rotate
<1>2. /\ row \in Rows /\ row.live /\ row.parent = s
      /\ gone \in Rows /\ ~gone.live /\ gone.replacedBy = new /\ gone.parent = session[s].parent
      /\ gone.expired = session[s].expired
      /\ k \in Requests /\ k.browser = req[t].browser /\ k.step = "accepted"
      /\ k.shown = s /\ k.next = new
  BY <1>1 DEF Rows, Requests, Steps
<1>3. /\ session'[new] = row
      /\ session'[s] = IF session[s].live THEN gone ELSE session[s]
      /\ \A i \in Ids \ {new, s} : session'[i] = session[i]
      /\ session' \in [Ids -> Rows \cup {Absent}]
  <2>1. session' = [i \in Ids |->
            CASE i = new -> row
              [] i = s /\ session[s].live -> gone
              [] OTHER -> session[i]]
    BY DEF Rotate, Fresh
  <2>. HIDE DEF row, gone, s
  <2>. QED
    BY <1>1, <1>2, <2>1 DEF SessionTypeOK
<1>4. /\ req'[t] = k /\ \A u \in Tabs \ {t} : req'[u] = req[u]
      /\ req' \in [Tabs -> Requests \cup {Absent}]
      /\ UNCHANGED <<cookie, excused, alarmed>>
      /\ overlapped' = IF session[s].live THEN overlapped ELSE overlapped \cup {new}
  <2>1. req' = [req EXCEPT ![t].step = "accepted", ![t].next = new]
    BY DEF Rotate
  <2>2. req'[t] = k /\ \A u \in Tabs \ {t} : req'[u] = req[u]
    BY <2>1 DEF SessionTypeOK
  <2>. QED
    BY <1>1, <1>2, <2>1, <2>2 DEF SessionTypeOK, Rotate
<1>5. /\ \A c \in Browsers : cookie[c] # new
      /\ \A u \in Tabs \ {t} : req[u] # Absent => req[u].shown # new /\ req[u].next # new
      /\ \A i \in Ids : session[i] # Absent => session[i].parent # new
  BY <1>1 DEF SessionTypeOK, Holding, ParentsExist, Requests, Rows
<1>6. row # Absent /\ gone # Absent /\ k # Absent
  BY <1>2
<1>7. \A i \in Ids : session'[i] # Absent <=> session[i] # Absent \/ i = new
  BY <1>1, <1>3, <1>6
<1>. HIDE DEF row, gone, k, s
<1>8. SessionTypeOK'
  BY <1>1, <1>3, <1>4 DEF SessionTypeOK
<1>9. Holding'
  BY <1>1, <1>2, <1>3, <1>4, <1>5, <1>6, <1>7 DEF SessionTypeOK, Holding, Requests, s
<1>10. PresentedIsLive'
  BY <1>1, <1>2, <1>3, <1>4, <1>5, <1>6, <1>7 DEF SessionTypeOK, Holding, PresentedIsLive, Requests, s
<1>11. ParentsExist' /\ ChainIntact'
  BY <1>1, <1>2, <1>3, <1>4, <1>5, <1>6, <1>7 DEF SessionTypeOK, ParentsExist, ChainIntact, Rows
<1>12. AlarmOnlyWhenExcused'
  BY <1>4 DEF AlarmOnlyWhenExcused
<1>. QED
  BY <1>8, <1>9, <1>10, <1>11, <1>12

\* Sessions revoked with all of the user are excused.
LEMMA SweepPreserves ==
    ASSUME SessionIInv, NEW t \in Tabs, Sweep(t)
    PROVE  SessionIInv'
<1>. USE DEF SessionIInv, Exists, Live, At, Harmless
<1>. DEFINE R == {s \in Ids : Live(s)}
<1>1. /\ session' = [s \in Ids |-> IF s \in R THEN [session[s] EXCEPT !.live = FALSE] ELSE session[s]]
      /\ excused' = excused \cup R /\ R \in SUBSET Ids /\ \A s \in R : session[s] # Absent
      /\ \A s \in Ids \ R : ~Live(s)
      /\ req[t] # Absent /\ req[t].step = "alarm"
      /\ req' = [req EXCEPT ![t].step = "refused"]
      /\ UNCHANGED <<cookie, overlapped, alarmed>>
  BY DEF SessionTypeOK, Sweep, MoveTo
<1>2. /\ session' \in [Ids -> Rows \cup {Absent}]
      /\ \A i \in Ids :
            /\ session'[i] # Absent <=> session[i] # Absent
            /\ session'[i].parent = session[i].parent
            /\ session'[i].replacedBy = session[i].replacedBy
            /\ i \notin R => session'[i] = session[i]
  BY <1>1, MarkedAll
<1>3. /\ \A i \in Ids : session'[i] # Absent => session'[i].expired = session[i].expired
      /\ \A i \in R : ~session'[i].live
  <2>1. \A i \in R : session[i] \in Rows
    BY <1>1 DEF SessionTypeOK
  <2>. QED
    BY <1>1, <1>2, <2>1, Marked
<1>4. SessionTypeOK'
  BY SMTT(30), <1>1, <1>2 DEF SessionTypeOK, Requests, Steps
<1>5. Holding'
  BY <1>1, <1>2, <1>3 DEF SessionTypeOK, Holding, Requests, Steps
<1>6. PresentedIsLive'
  BY <1>1, <1>2, <1>3 DEF SessionTypeOK, Holding, PresentedIsLive, Requests, Steps
<1>7. ParentsExist' /\ ChainIntact'
  BY <1>1, <1>2, <1>3 DEF SessionTypeOK, ParentsExist, ChainIntact, Rows
<1>8. AlarmOnlyWhenExcused'
  BY <1>1 DEF AlarmOnlyWhenExcused
<1>. QED
  BY <1>4, <1>5, <1>6, <1>7, <1>8

\* A session revoked on its own has expired, or is excused by its logout.
LEMMA RevokeOnePreserves ==
    ASSUME SessionIInv, NEW t \in Tabs, RevokeOne(t)
    PROVE  SessionIInv'
<1>. USE DEF SessionIInv, Exists, Live, At, Harmless
<1>. DEFINE R == {req[t].shown}
<1>0. req[t] # Absent /\ req[t].step \in {"expire", "revoke"} /\ req[t].shown \in Ids
      /\ session[req[t].shown] # Absent
  BY DEF SessionTypeOK, Holding, Requests, RevokeOne
<1>1. /\ session' = [s \in Ids |-> IF s \in R THEN [session[s] EXCEPT !.live = FALSE] ELSE session[s]]
      /\ R \in SUBSET Ids /\ \A s \in R : session[s] # Absent
      /\ \E step \in {"refused", "accepted"} : req' = [req EXCEPT ![t].step = step]
      /\ excused' = IF req[t].step = "revoke" THEN excused \cup R ELSE excused
      /\ UNCHANGED <<cookie, overlapped, alarmed>>
  BY <1>0 DEF SessionTypeOK, RevokeOne, MoveTo
<1>2. /\ session' \in [Ids -> Rows \cup {Absent}]
      /\ \A i \in Ids :
            /\ session'[i] # Absent <=> session[i] # Absent
            /\ session'[i].parent = session[i].parent
            /\ session'[i].replacedBy = session[i].replacedBy
            /\ i \notin R => session'[i] = session[i]
  BY <1>1, MarkedAll
<1>3. /\ \A i \in Ids : session'[i] # Absent => session'[i].expired = session[i].expired
      /\ \A i \in R : ~session'[i].live
  <2>1. \A i \in R : session[i] \in Rows
    BY <1>1 DEF SessionTypeOK
  <2>. QED
    BY <1>1, <1>2, <2>1, Marked
<1>4. SessionTypeOK'
  BY <1>0, <1>1, <1>2 DEF SessionTypeOK, Requests, Steps
<1>5. Holding'
  BY <1>0, <1>1, <1>2, <1>3 DEF SessionTypeOK, Holding, Requests, Steps
<1>6. PresentedIsLive'
  BY <1>0, <1>1, <1>2, <1>3 DEF SessionTypeOK, Holding, PresentedIsLive, Requests, Steps
<1>7. ParentsExist' /\ ChainIntact'
  BY <1>0, <1>1, <1>2, <1>3 DEF SessionTypeOK, ParentsExist, ChainIntact, Rows
<1>8. AlarmOnlyWhenExcused'
  BY <1>1 DEF AlarmOnlyWhenExcused
<1>. QED
  BY <1>4, <1>5, <1>6, <1>7, <1>8

\* A statement that fails changes what the request will answer, and nothing else.
LEMMA WriteFailsPreserves ==
    ASSUME SessionIInv, NEW t \in Tabs, WriteFails(t)
    PROVE  SessionIInv'
<1>. USE DEF SessionIInv, Exists, Live, At, Harmless, WriteFails, MoveTo
<1>1. SessionTypeOK'
  BY DEF SessionTypeOK, Rows, Requests, Steps
<1>2. Holding'
  BY DEF SessionTypeOK, Holding, Rows, Requests, Steps
<1>3. PresentedIsLive'
  BY DEF SessionTypeOK, Holding, PresentedIsLive, Rows, Requests, Steps
<1>4. ParentsExist' /\ ChainIntact'
  BY DEF SessionTypeOK, Holding, ParentsExist, ChainIntact, Rows, Requests, Steps
<1>5. AlarmOnlyWhenExcused'
  BY DEF SessionTypeOK, PresentedIsLive, AlarmOnlyWhenExcused
<1>. QED
  BY <1>1, <1>2, <1>3, <1>4, <1>5

\* An answer leaves the browser with the session of the request, or with its old one.
LEMMA AnswerPreserves ==
    ASSUME SessionIInv, NEW t \in Tabs, Answer(t)
    PROVE  SessionIInv'
<1>. USE DEF SessionIInv, Exists, Live, At, Harmless, Answer
<1>1. SessionTypeOK'
  BY DEF SessionTypeOK, Rows, Requests, Steps
<1>2. Holding'
  BY DEF SessionTypeOK, Holding, Rows, Requests, Steps
<1>3. PresentedIsLive'
  BY DEF SessionTypeOK, Holding, PresentedIsLive, Rows, Requests, Steps
<1>4. ParentsExist' /\ ChainIntact'
  BY DEF SessionTypeOK, Holding, ParentsExist, ChainIntact, Rows, Requests, Steps
<1>5. AlarmOnlyWhenExcused'
  BY DEF SessionTypeOK, PresentedIsLive, AlarmOnlyWhenExcused
<1>. QED
  BY <1>1, <1>2, <1>3, <1>4, <1>5

\* Requests whose answers are lost excuse the sessions they presented.
LEMMA DropPreserves ==
    ASSUME SessionIInv, NEW T \in SUBSET Tabs, Drop(T)
    PROVE  SessionIInv'
<1>. USE DEF SessionIInv, Exists, Live, At, Harmless, Drop
<1>1. SessionTypeOK'
  BY DEF SessionTypeOK, Rows, Requests, Steps
<1>2. Holding'
  BY DEF SessionTypeOK, Holding, Rows, Requests, Steps
<1>3. PresentedIsLive'
  BY DEF SessionTypeOK, Holding, PresentedIsLive, Rows, Requests, Steps
<1>4. ParentsExist' /\ ChainIntact'
  BY DEF SessionTypeOK, Holding, ParentsExist, ChainIntact, Rows, Requests, Steps
<1>5. AlarmOnlyWhenExcused'
  BY DEF SessionTypeOK, PresentedIsLive, AlarmOnlyWhenExcused
<1>. QED
  BY <1>1, <1>2, <1>3, <1>4, <1>5

\* An expired session is in no cookie.
LEMMA ExpirePreserves ==
    ASSUME SessionIInv, NEW s \in Ids, Expire(s)
    PROVE  SessionIInv'
<1>. USE DEF SessionIInv, Exists, Live, At, Harmless
<1>. DEFINE R == {s}
<1>1. /\ session' = [i \in Ids |-> IF i \in R THEN [session[i] EXCEPT !.expired = TRUE] ELSE session[i]]
      /\ R \in SUBSET Ids /\ \A i \in R : session[i] # Absent
      /\ cookie' = [b \in Browsers |-> IF cookie[b] = s THEN Absent ELSE cookie[b]]
      /\ UNCHANGED <<req, overlapped, excused, alarmed>>
  BY DEF SessionTypeOK, Expire
<1>2. /\ session' \in [Ids -> Rows \cup {Absent}]
      /\ \A i \in Ids :
            /\ session'[i] # Absent <=> session[i] # Absent
            /\ session'[i].parent = session[i].parent
            /\ session'[i].replacedBy = session[i].replacedBy
            /\ i \notin R => session'[i] = session[i]
  BY <1>1, MarkedAll
<1>3. /\ \A i \in Ids : session'[i] # Absent => session'[i].live = session[i].live
        /\ session'[s].expired
  <2>1. \A i \in R : session[i] \in Rows
    BY <1>1 DEF SessionTypeOK
  <2>. QED
    BY <1>1, <1>2, <2>1, Marked
<1>4. SessionTypeOK'
  BY <1>1, <1>2 DEF SessionTypeOK, Requests, Steps
<1>5. Holding'
  BY <1>1, <1>2, <1>3 DEF SessionTypeOK, Holding, Requests, Steps
<1>6. PresentedIsLive'
  BY <1>1, <1>2, <1>3 DEF SessionTypeOK, Holding, PresentedIsLive, Requests, Steps
<1>7. ParentsExist' /\ ChainIntact'
  BY <1>1, <1>2, <1>3 DEF SessionTypeOK, ParentsExist, ChainIntact, Rows
<1>8. AlarmOnlyWhenExcused'
  BY <1>1 DEF AlarmOnlyWhenExcused
<1>. QED
  BY <1>4, <1>5, <1>6, <1>7, <1>8

\* Nothing is presented before anyone has signed in.
LEMMA InitSessionIInv == SessionInit => SessionIInv
BY DEF SessionInit, SessionIInv, SessionTypeOK, Holding, PresentedIsLive, ParentsExist,
       ChainIntact, AlarmOnlyWhenExcused, Exists, Live, At, Harmless

\* Every step of the sessions keeps the invariant.
LEMMA StepSessionIInv == SessionIInv /\ [SessionNext]_sessionVars => SessionIInv'
<1>. SUFFICES ASSUME SessionIInv, [SessionNext]_sessionVars PROVE SessionIInv'
  OBVIOUS
<1>1. CASE \E t \in Tabs, b \in Browsers, s \in Ids : Login(t, b, s)
  BY <1>1, LoginPreserves
<1>2. CASE \E t \in Tabs, b \in Browsers : BeginRefresh(t, b) \/ BeginLogout(t, b)
  BY <1>2, BeginRefreshPreserves, BeginLogoutPreserves
<1>3. CASE \E t \in Tabs : Serve(t)
  BY <1>3, CheckPreserves, SweepPreserves, RevokeOnePreserves, WriteFailsPreserves,
     RotatePreserves DEF Serve
<1>4. CASE \E t \in Tabs : Answer(t) \/ LoseAnswer(t)
  <2>1. \A t \in Tabs : {t} \in SUBSET Tabs
    OBVIOUS
  <2>. QED
    BY <1>4, <2>1, AnswerPreserves, DropPreserves DEF LoseAnswer
<1>5. CASE Restart
  <2>1. Tabs \in SUBSET Tabs
    OBVIOUS
  <2>. QED
    BY <1>5, <2>1, DropPreserves DEF Restart
<1>6. CASE \E s \in Ids : Expire(s)
  BY <1>6, ExpirePreserves
<1>7. CASE UNCHANGED sessionVars
  BY <1>7 DEF sessionVars, SessionIInv, SessionTypeOK, Holding, PresentedIsLive,
     ParentsExist, ChainIntact, AlarmOnlyWhenExcused, Exists, Live, At, Harmless
<1>. QED
  BY <1>1, <1>2, <1>3, <1>4, <1>5, <1>6, <1>7 DEF SessionNext

-----------------------------------------------------------------------------
\* Tokens are finitely many, and fewer are fewer.
LEMMA TokensFinite ==
    ASSUME NEW S \in SUBSET Tokens, NEW T \in SUBSET S
    PROVE  /\ IsFiniteSet(S) /\ IsFiniteSet(T)
           /\ Cardinality(S) \in Nat /\ Cardinality(T) \in Nat
           /\ Cardinality(T) <= Cardinality(S)
BY FS_Subset, FS_CardinalityType

\* No link, and no request for one.
LEMMA InitResetIInv == ResetInit => ResetIInv
<1>. SUFFICES ASSUME ResetInit PROVE ResetIInv
  OBVIOUS
<1>1. ResetTypeOK
  BY DEF ResetInit, ResetTypeOK, Ages
<1>2. Recent \ uncounted = {}
  BY DEF ResetInit, Recent
<1>3. ResetsWithinLimit
  BY <1>2, FS_EmptySet DEF ResetsWithinLimit
<1>. QED
  BY <1>1, <1>3 DEF ResetInit, ResetIInv, ResetsPending, TokenUsedOnceUnlessRaced

\* A step that creates no link keeps the limit.
LEMMA FewerLinks ==
    ASSUME ResetIInv, Recent' \subseteq Recent, uncounted' = uncounted,
           \A a \in Askers : asking'[a] = "counted" =>
              asking[a] = "counted" \/ Cardinality(Recent) < MaxRecent
    PROVE  /\ ResetsWithinLimit'
           /\ \A a \in Askers : asking'[a] = "counted" => Cardinality(Recent') < MaxRecent
<1>. DEFINE S == Recent \ uncounted
            T == Recent' \ uncounted'
<1>1. Recent \in SUBSET Tokens /\ Recent' \in SUBSET Recent
  BY DEF Recent
<1>2. S \in SUBSET Tokens /\ T \in SUBSET S
  BY <1>1
<1>3. Cardinality(S) <= MaxRecent
  BY DEF ResetIInv, ResetsWithinLimit
<1>. HIDE DEF S, T
<1>4. Cardinality(T) <= MaxRecent
  BY <1>2, <1>3, TokensFinite
<1>5. Cardinality(Recent') <= Cardinality(Recent) /\ Cardinality(Recent') \in Nat
      /\ Cardinality(Recent) \in Nat
  BY <1>1, TokensFinite
<1>6. \A a \in Askers : asking'[a] = "counted" => Cardinality(Recent) < MaxRecent
  BY DEF ResetIInv, ResetsPending
<1>. QED
  BY <1>4, <1>5, <1>6 DEF ResetsWithinLimit, T

\* A link created on a count nobody has overtaken is within the limit.
LEMMA CreateTokenPreserves ==
    ASSUME ResetIInv, NEW a \in Askers, NEW t \in Tokens, CreateToken(a, t)
    PROVE  ResetIInv'
<1>1. ResetTypeOK'
  BY DEF ResetIInv, ResetTypeOK, CreateToken, Ages
<1>. DEFINE S == Recent \ uncounted
            T == Recent' \ uncounted'
<1>2. Recent' = Recent \cup {t} /\ t \notin Recent /\ Recent \in SUBSET Tokens
  BY DEF CreateToken, Recent, ResetIInv, ResetTypeOK
<1>3. Cardinality(S) <= MaxRecent
  BY DEF ResetIInv, ResetsWithinLimit
<1>4. ASSUME asking[a] = "overtaken" PROVE ResetsWithinLimit'
  <2>1. T \in SUBSET S /\ S \in SUBSET Tokens
    BY <1>2, <1>4 DEF CreateToken
  <2>. HIDE DEF S, T
  <2>2. Cardinality(T) <= MaxRecent
    BY <2>1, <1>3, TokensFinite
  <2>. QED
    BY <2>2 DEF ResetsWithinLimit, T
<1>5. ASSUME asking[a] = "counted" PROVE ResetsWithinLimit'
  <2>1. Cardinality(Recent) < MaxRecent
    BY <1>5 DEF ResetIInv, ResetsPending
  <2>2. T \in SUBSET Recent' /\ Recent' \in SUBSET Tokens
    BY <1>2
  <2>3. IsFiniteSet(Recent) /\ Cardinality(Recent) \in Nat
    BY <1>2, TokensFinite
  <2>4. Cardinality(Recent') = Cardinality(Recent) + 1
    BY <1>2, <2>3, FS_AddElement
  <2>. HIDE DEF S, T
  <2>5. Cardinality(T) <= Cardinality(Recent') /\ Cardinality(T) \in Nat
    BY <2>2, TokensFinite
  <2>6. Cardinality(T) <= MaxRecent
    BY <2>1, <2>3, <2>4, <2>5
  <2>. QED
    BY <2>6 DEF ResetsWithinLimit, T
<1>6. ResetsWithinLimit'
  <2>1. asking[a] \in {"counted", "overtaken"}
    BY DEF ResetIInv, ResetTypeOK, CreateToken
  <2>. QED
    BY <1>4, <1>5, <2>1
<1>7. \A b \in Askers : asking'[b] # "counted"
  BY DEF CreateToken
<1>. QED
  BY <1>1, <1>6, <1>7 DEF ResetIInv, ResetsPending, TokenUsedOnceUnlessRaced, CreateToken

\* The other steps of the resets create no link.
LEMMA OtherResetPreserves ==
    ASSUME ResetIInv,
           \/ \E a \in Askers : CountRecent(a) \/ DropAsk(a)
           \/ \E r \in Resetters, t \in Tokens : CheckToken(r, t)
           \/ \E r \in Resetters : SetPassword(r) \/ DropReset(r)
           \/ \E t \in Tokens : Older(t)
           \/ UNCHANGED resetVars
    PROVE  ResetIInv'
<1>. USE DEF ResetIInv, CountRecent, DropAsk, CheckToken, SetPassword, DropReset, Older, resetVars
<1>1. ResetTypeOK'
  BY DEF ResetTypeOK, Ages
<1>2. Recent' \subseteq Recent /\ uncounted' = uncounted
  BY DEF Recent, ResetTypeOK
<1>3. \A a \in Askers : asking'[a] = "counted" =>
         asking[a] = "counted" \/ Cardinality(Recent) < MaxRecent
  BY DEF ResetTypeOK
<1>4. ResetsWithinLimit'
      /\ \A a \in Askers : asking'[a] = "counted" => Cardinality(Recent') < MaxRecent
  BY <1>2, <1>3, FewerLinks
<1>5. TokenUsedOnceUnlessRaced'
  BY DEF ResetTypeOK, ResetsPending, TokenUsedOnceUnlessRaced
<1>6. \A r \in Resetters : resetting'[r] # NoToken => resetting'[r] \notin used' \ raced'
  BY DEF ResetTypeOK, ResetsPending
<1>7. \A q, r \in Resetters :
          q # r /\ resetting'[q] # NoToken /\ resetting'[q] = resetting'[r]
             => resetting'[q] \in raced'
  BY DEF ResetTypeOK, ResetsPending
<1>. QED
  BY <1>1, <1>4, <1>5, <1>6, <1>7 DEF ResetsPending

\* Every step of the resets keeps the invariant.
LEMMA StepResetIInv == ResetIInv /\ [ResetNext]_resetVars => ResetIInv'
BY CreateTokenPreserves, OtherResetPreserves DEF ResetNext

-----------------------------------------------------------------------------
\* The inductive invariant of sessions and resets together.
THEOREM Inductive == Spec => []IInv
<1>1. Init => IInv
  BY InitSessionIInv, InitResetIInv DEF Init, IInv
<1>2. IInv /\ [Next]_authVars => IInv'
  <2>1. [Next]_authVars => [SessionNext]_sessionVars /\ [ResetNext]_resetVars
    BY DEF Next, authVars
  <2>. QED
    BY <2>1, StepSessionIInv, StepResetIInv DEF IInv
<1>. QED
  BY <1>1, <1>2, PTL DEF Spec

\* No presented session gets a second successor: the sessions of a browser form one
\* chain, except where two rotations of RefreshService overlapped.
THEOREM ChainsIntact == Spec => []ChainIntact
<1>1. IInv => ChainIntact
  BY DEF IInv, SessionIInv
<1>. QED
  BY Inductive, <1>1, PTL

\* A reuse alarm, which signs the user out everywhere, has its excuse in the history.
THEOREM AlarmsExcused == Spec => []AlarmOnlyWhenExcused
<1>1. IInv => AlarmOnlyWhenExcused
  BY DEF IInv, SessionIInv
<1>. QED
  BY Inductive, <1>1, PTL

\* No more reset links than the limit within one window, but for overlapping requests.
THEOREM ResetsLimited == Spec => []ResetsWithinLimit
<1>1. IInv => ResetsWithinLimit
  BY DEF IInv, ResetIInv
<1>. QED
  BY Inductive, <1>1, PTL

\* A reset token sets at most one password, but for overlapping requests.
THEOREM TokensUsedOnce == Spec => []TokenUsedOnceUnlessRaced
<1>1. IInv => TokenUsedOnceUnlessRaced
  BY DEF IInv, ResetIInv
<1>. QED
  BY Inductive, <1>1, PTL
=============================================================================
