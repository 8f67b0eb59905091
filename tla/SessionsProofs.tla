---------------------------- MODULE SessionsProofs --------------------------
(***************************************************************************)
(* The properties of Sessions for any tabs, users, sessions and times.     *)
(***************************************************************************)
EXTENDS Sessions, TLAPS

\* What a request under way carries from its SELECT and its test, and what no
\* other request takes away: the last use it read is a use still, and the time
\* it will write was soon enough after that one.
CarriesUse(r) ==
  /\ r.at <= now
  /\ r.pc \in {"looked", "touching"} => /\ r.found \in Seen
                                        /\ r.found.seen \in uses[r.token]
                                        /\ r.kind # "login"
  /\ r.pc = "touching" => /\ r.at < row[r.token].expires
                          /\ r.found.seen <= r.at
                          /\ r.at < r.found.seen + Idle

\* A request sent too late is late for good, and its SELECT tells so.
StaysLate(r) ==
  r.late => /\ r.pc \in {"none", "sent", "looked"}
            /\ r.kind # "login"
            /\ r.token \in Made
            /\ Over(r.token)
            /\ r.pc = "looked" => r.found.revoked \/ row[r.token].expires <= now

\* What performs is a form of the page its tab still shows.
OnItsPage(t) ==
  req[t].pc = "performing" => /\ req[t].kind \in {"post", "logout"}
                              /\ page[t] = req[t].token

RequestsInOrder ==
  \A t \in Tabs : CarriesUse(req[t]) /\ StaysLate(req[t]) /\ OnItsPage(t)

\* last_seen_at may be an old time, but never one without a use.
SeenIsUse == \A s \in Made : row[s].seen \in uses[s]

IInv == TypeOK /\ RequestsInOrder /\ SeenIsUse /\ OnlyUseKeepsAlive
-----------------------------------------------------------------------------

\* The requests as records, without what they refer to.
Requests ==
  [pc: {"none", "sent", "looked", "touching", "performing", "answering"},
   kind: {"page", "post", "logout", "login"},
   token: Made \cup {None}, found: Seen \cup {None}, at: 0..MaxTime, late: BOOLEAN]

\* A request that is none.
LEMMA NoRequestType ==
  NoRequest \in Requests /\ NoRequest.pc = "none" /\ NoRequest.late = FALSE /\ NoRequest.at = 0
BY TimesAssumption DEF NoRequest, Requests

\* The initial state satisfies the invariant.
LEMMA InitIInv == Init => IInv
<1> SUFFICES ASSUME Init PROVE IInv
  OBVIOUS
<1>1. Made = {}
  BY DEF Init, Made
<1>2. TypeOK
  BY <1>1, NoRequestType, TimesAssumption DEF Init, TypeOK, Requests
<1>3. RequestsInOrder
  <2> SUFFICES ASSUME NEW t \in Tabs
               PROVE  CarriesUse(req[t]) /\ StaysLate(req[t]) /\ OnItsPage(t)
    BY DEF RequestsInOrder
  <2>1. req[t] = NoRequest /\ now = 0
    BY DEF Init
  <2> QED
    BY <2>1, NoRequestType DEF CarriesUse, StaysLate, OnItsPage
<1>4. SeenIsUse /\ OnlyUseKeepsAlive
  BY <1>1 DEF SeenIsUse, OnlyUseKeepsAlive
<1> QED
  BY <1>2, <1>3, <1>4 DEF IInv

\* Every step of a tab is one of its actions.
TabStep(t) ==
  \/ \E kind \in {"page", "post", "logout"} : Send(t, kind)
  \/ SendLogin(t) \/ Receive(t)
  \/ LookUp(t) \/ Decide(t) \/ Touch(t) \/ Perform(t) \/ Fail(t)
  \/ \E u \in Users, s \in Ids : Login(t, u, s)

\* What a step does to the rows: a session, once made, stays, its user and its
\* expiry stay, a revocation stays, and its uses only grow.
LEMMA RowsGrow ==
  ASSUME TypeOK, Next
  PROVE  /\ row' \in [Ids -> Rows \cup {None}]
         /\ Made \subseteq Made'
         /\ \A s \in Made : /\ row'[s] \in Rows
                            /\ row'[s].user = row[s].user
                            /\ row'[s].expires = row[s].expires
                            /\ row[s].revoked => row'[s].revoked
                            /\ uses[s] \subseteq uses'[s]
         /\ now' \in 0..MaxTime /\ now <= now'
<1>0. None \notin Rows
  BY NoneAssumption
<1>t. ASSUME NEW s \in Made PROVE s \in Ids /\ row[s] \in Rows
  BY DEF TypeOK, Made
<1>u. now \in Nat /\ now \in 0..MaxTime
  BY TimesAssumption DEF TypeOK
<1>1. CASE Tick
  BY <1>1, <1>t, <1>u, TimesAssumption DEF Tick, TypeOK, Made
<1>2. ASSUME NEW t \in Tabs, TabStep(t)
      PROVE  /\ row' \in [Ids -> Rows \cup {None}]
             /\ \A s \in Made : /\ row'[s] \in Rows
                                /\ row'[s].user = row[s].user
                                /\ row'[s].expires = row[s].expires
                                /\ row[s].revoked => row'[s].revoked
                                /\ uses[s] \subseteq uses'[s]
             /\ now' = now
  <2>1. CASE Touch(t)
    <3> DEFINE s == req[t].token
    <3>1. s \in Made /\ req[t].at \in 0..MaxTime /\ now' = now
      BY <2>1 DEF Touch, TypeOK
    <3>2. /\ row' = [row EXCEPT ![s].seen = req[t].at]
          /\ uses' = [uses EXCEPT ![s] = @ \cup {req[t].at}]
      BY <2>1 DEF Touch
    <3>3. [row[s] EXCEPT !.seen = req[t].at] \in Rows
      BY <3>1, <1>t DEF Rows
    <3>4. row' = [row EXCEPT ![s] = [row[s] EXCEPT !.seen = req[t].at]]
      BY <3>2
    <3> QED
      BY <3>1, <3>2, <3>3, <3>4, <1>t DEF TypeOK, Rows
  <2>2. CASE Perform(t)
    <3> DEFINE s == req[t].token
    <3>1. s \in Made /\ now' = now /\ uses' = uses
      BY <2>2 DEF Perform, TypeOK
    <3>2. [row[s] EXCEPT !.revoked = TRUE] \in Rows
      BY <3>1, <1>t DEF Rows
    <3>3. row' = row \/ row' = [row EXCEPT ![s] = [row[s] EXCEPT !.revoked = TRUE]]
      BY <2>2 DEF Perform
    <3> QED
      BY <3>1, <3>2, <3>3, <1>t DEF TypeOK, Rows
  <2>3. ASSUME NEW u \in Users, NEW s \in Ids, Login(t, u, s)
        PROVE  /\ row' \in [Ids -> Rows \cup {None}]
               /\ \A v \in Made : row'[v] = row[v] /\ uses'[v] = uses[v]
               /\ now' = now
    <3> DEFINE new == [user |-> u, seen |-> now, expires |-> now + Absolute, revoked |-> FALSE]
    <3>1. new \in Rows
      BY <1>u, TimesAssumption DEF Rows
    <3>2. row' = [row EXCEPT ![s] = new] /\ s \notin Made /\ now' = now /\ uses' = [uses EXCEPT ![s] = {now}]
      BY <2>3 DEF Login
    <3> HIDE DEF new
    <3> QED
      BY <3>1, <3>2, <1>t DEF TypeOK
  <2>4. CASE \/ \E kind \in {"page", "post", "logout"} : Send(t, kind)
             \/ SendLogin(t) \/ Receive(t) \/ LookUp(t) \/ Decide(t) \/ Fail(t)
    <3>1. row' = row /\ uses' = uses /\ now' = now
      BY <2>4 DEF Send, SendLogin, Receive, LookUp, Decide, Fail
    <3> QED
      BY <3>1, <1>t DEF TypeOK
  <2> QED
    BY <1>2, <2>1, <2>2, <2>3, <2>4, <1>t DEF TabStep
<1>3. \/ Tick
      \/ \E t \in Tabs : TabStep(t)
  BY DEF Next, TabStep
<1>4. CASE \E t \in Tabs : TabStep(t)
  <2>1. /\ row' \in [Ids -> Rows \cup {None}] /\ now' = now
        /\ \A s \in Made : /\ row'[s] \in Rows
                           /\ row'[s].user = row[s].user
                           /\ row'[s].expires = row[s].expires
                           /\ row[s].revoked => row'[s].revoked
                           /\ uses[s] \subseteq uses'[s]
    BY <1>2, <1>4
  <2>2. \A s \in Made : s \in Made'
    BY <2>1, <1>0 DEF Made
  <2> QED
    BY <2>1, <2>2, <1>u
<1> QED
  BY <1>1, <1>3, <1>4

\* What the browser holds: its requests, its cookie and the pages of its tabs.
Recognising == {"looked", "touching", "performing"}

Typed ==
  /\ req \in [Tabs -> Requests]
  /\ \A t \in Tabs : req[t].pc \in Recognising => req[t].token \in Made
  /\ page \in [Tabs -> Made \cup {None}]
  /\ cookie \in Made \cup {None}

\* A step refers to sessions that are made, and only to those: the request of
\* its tab is made of the old one and of what the step read, and the others stay.
LEMMA RequestMoves ==
  ASSUME TypeOK, RequestsInOrder, Next
  PROVE  Typed'
<1>0. Made \subseteq Made' /\ Requests \subseteq Requests'
  BY RowsGrow DEF Requests
<1>1. /\ req \in [Tabs -> Requests] /\ cookie \in Made \cup {None}
      /\ page \in [Tabs -> Made \cup {None}] /\ now \in 0..MaxTime
      /\ \A t \in Tabs : req[t].pc \in Recognising => req[t].token \in Made
  BY DEF TypeOK, Requests, Recognising
<1>n. NoRequest \in Requests' /\ NoRequest.pc = "none"
  BY NoRequestType, <1>0
<1>2. CASE Tick
  BY <1>2, <1>0, <1>1 DEF Tick, Typed
<1>3. ASSUME NEW t \in Tabs, NEW r \in Requests', req' = [req EXCEPT ![t] = r],
             r.pc \in Recognising => r.token \in Made',
             cookie' \in Made' \cup {None},
             NEW p \in Made' \cup {None}, page' = [page EXCEPT ![t] = p] \/ page' = page
      PROVE  Typed'
  BY <1>3, <1>0, <1>1 DEF Typed
<1>4. ASSUME NEW t \in Tabs, Dismissed(t), cookie' = cookie
      PROVE  Typed'
  BY <1>3, <1>4, <1>0, <1>1, <1>n DEF Dismissed, Recognising
<1>5. ASSUME NEW t \in Tabs, TabStep(t)
      PROVE  Typed'
  <2>t. req[t] \in Requests
    BY <1>1
  <2>1. ASSUME NEW kind \in {"page", "post", "logout"}, Send(t, kind)
        PROVE  Typed'
    <3> DEFINE r == [NoRequest EXCEPT !.pc = "sent", !.kind = kind, !.token = cookie,
                                      !.late = cookie # None /\ Over(cookie)]
    <3>1. r \in Requests' /\ r.pc = "sent"
      BY <1>0, <1>1, NoRequestType DEF Requests
    <3>2. req' = [req EXCEPT ![t] = r] /\ page' = page /\ cookie' = cookie
      BY <2>1 DEF Send
    <3> HIDE DEF r
    <3> QED
      BY <3>1, <3>2, <1>3, <1>0, <1>1 DEF Recognising
  <2>2. CASE SendLogin(t)
    <3> DEFINE r == [NoRequest EXCEPT !.pc = "sent", !.kind = "login"]
    <3>1. r \in Requests' /\ r.pc = "sent"
      BY <1>0, NoRequestType DEF Requests
    <3> QED
      BY <3>1, <2>2, <1>3, <1>0, <1>1 DEF SendLogin, Recognising
  <2>3. CASE Receive(t)
    <3>1. req[t].token \in Made' \cup {None}
      BY <2>t, <1>0 DEF Requests
    <3>2. /\ req' = [req EXCEPT ![t] = NoRequest]
          /\ cookie' \in {req[t].token, None, cookie}
          /\ \/ page' = [page EXCEPT ![t] = req[t].token]
             \/ page' = [page EXCEPT ![t] = None]
      BY <2>3 DEF Receive
    <3> QED
      BY <3>1, <3>2, <1>3, <1>0, <1>1, <1>n DEF Recognising
  <2>4. CASE LookUp(t)
    <3> DEFINE s == req[t].token
               r == [req[t] EXCEPT !.pc = "looked", !.found = [seen |-> row[s].seen, revoked |-> row[s].revoked]]
    <3>1. CASE s # None /\ req' = [req EXCEPT ![t] = r] /\ UNCHANGED page
      <4>1. s \in Made /\ row[s] \in Rows
        BY <3>1, <2>t DEF Requests, TypeOK, Made
      <4>2. [seen |-> row[s].seen, revoked |-> row[s].revoked] \in Seen
        BY <4>1 DEF Rows, Seen
      <4>3. r \in Requests' /\ r.token \in Made'
        BY <4>1, <4>2, <2>t, <1>0 DEF Requests
      <4> HIDE DEF r
      <4> QED
        BY <4>3, <3>1, <2>4, <1>3, <1>0, <1>1 DEF LookUp
    <3>2. CASE Dismissed(t)
      BY <3>2, <2>4, <1>4 DEF LookUp
    <3> QED
      BY <3>1, <3>2, <2>4 DEF LookUp
  <2>5. CASE Decide(t)
    <3> DEFINE r == [req[t] EXCEPT !.pc = "touching", !.at = now]
    <3>1. CASE req' = [req EXCEPT ![t] = r] /\ UNCHANGED page
      <4>1. r \in Requests' /\ r.token \in Made'
        BY <2>5, <2>t, <1>0, <1>1 DEF Requests, Decide, Recognising
      <4> HIDE DEF r
      <4> QED
        BY <4>1, <3>1, <2>5, <1>3, <1>0, <1>1 DEF Decide
    <3>2. CASE Dismissed(t)
      BY <3>2, <2>5, <1>4 DEF Decide
    <3> QED
      BY <3>1, <3>2, <2>5 DEF Decide
  <2>6. CASE Touch(t)
    <3> DEFINE r == [req[t] EXCEPT !.pc = IF req[t].kind = "page" THEN "answering" ELSE "performing"]
    <3>1. CASE req' = [req EXCEPT ![t] = r] /\ UNCHANGED page
      <4>1. r \in Requests' /\ r.token \in Made'
        BY <2>6, <2>t, <1>0, <1>1 DEF Requests, Touch, Recognising
      <4> HIDE DEF r
      <4> QED
        BY <4>1, <3>1, <2>6, <1>3, <1>0, <1>1 DEF Touch
    <3>2. CASE Dismissed(t)
      BY <3>2, <2>6, <1>4 DEF Touch
    <3> QED
      BY <3>1, <3>2, <2>6 DEF Touch
  <2>7. CASE Perform(t)
    <3> DEFINE r == [req[t] EXCEPT !.pc = "answering"]
    <3>1. r \in Requests' /\ r.pc = "answering"
      BY <2>t, <1>0 DEF Requests
    <3>2. req' = [req EXCEPT ![t] = r] /\ page' = page /\ cookie' = cookie
      BY <2>7 DEF Perform
    <3> HIDE DEF r
    <3> QED
      BY <3>1, <3>2, <1>3, <1>0, <1>1 DEF Recognising
  <2>8. CASE Fail(t)
    BY <2>8, <1>4 DEF Fail
  <2>9. ASSUME NEW u \in Users, NEW s \in Ids, Login(t, u, s)
        PROVE  Typed'
    <3> DEFINE new == [user |-> u, seen |-> now, expires |-> now + Absolute, revoked |-> FALSE]
               r == [req[t] EXCEPT !.pc = "answering", !.token = s]
    <3>1. new \in Rows
      BY <1>1, TimesAssumption DEF Rows
    <3>2. row' = [row EXCEPT ![s] = new] /\ req' = [req EXCEPT ![t] = r] /\ page' = page /\ cookie' = cookie
      BY <2>9 DEF Login
    <3>3. s \in Made'
      <4>1. row'[s] = new
        BY <3>2 DEF TypeOK
      <4> HIDE DEF new
      <4> QED
        BY <4>1, <3>1, NoneAssumption DEF Made
    <3>4. r \in Requests' /\ r.pc = "answering"
      BY <3>3, <2>t, <1>0 DEF Requests
    <3> HIDE DEF r, new
    <3> QED
      BY <3>2, <3>4, <1>3, <1>0, <1>1 DEF Recognising
  <2> QED
    BY <1>5, <2>1, <2>2, <2>3, <2>4, <2>5, <2>6, <2>7, <2>8, <2>9 DEF TabStep
<1>6. Tick \/ \E t \in Tabs : TabStep(t)
  BY DEF Next, TabStep
<1> QED
  BY <1>2, <1>5, <1>6

\* Every step keeps the types.
LEMMA TypeStep ==
  ASSUME TypeOK, RequestsInOrder, Next
  PROVE  TypeOK'
<1>1. /\ row' \in [Ids -> Rows \cup {None}] /\ now' \in 0..MaxTime /\ now <= now'
      /\ now \in Int /\ uses \in [Ids -> SUBSET (0..now)]
  BY RowsGrow DEF TypeOK
<1>2. Typed'
  BY RequestMoves
<1>3. uses' \in [Ids -> SUBSET (0..now')]
  <2>1. CASE uses' = uses
    BY <2>1, <1>1
  <2>2. ASSUME NEW t \in Tabs, Touch(t) PROVE uses' \in [Ids -> SUBSET (0..now')]
    <3>1. req[t].token \in Ids /\ req[t].at \in 0..now
      BY <2>2, <1>1 DEF TypeOK, Touch, Made, RequestsInOrder, CarriesUse
    <3>2. uses' = [uses EXCEPT ![req[t].token] = @ \cup {req[t].at}] /\ now' = now
      BY <2>2 DEF Touch
    <3> QED
      BY <3>1, <3>2, <1>1
  <2>3. ASSUME NEW t \in Tabs, NEW u \in Users, NEW s \in Ids, Login(t, u, s)
        PROVE  uses' \in [Ids -> SUBSET (0..now')]
    <3>1. uses' = [uses EXCEPT ![s] = {now}] /\ now' = now /\ now \in 0..now
      BY <2>3, TimesAssumption DEF Login, TypeOK
    <3> QED
      BY <3>1, <1>1
  <2> QED
    BY <2>1, <2>2, <2>3 DEF Next, Tick, Send, SendLogin, Receive, LookUp, Decide, Perform, Fail
<1> QED
  BY <1>1, <1>2, <1>3 DEF TypeOK, Typed, Requests, Recognising

\* A session whose end has come does not come back.
LEMMA OverStays ==
  ASSUME TypeOK, Next, NEW s \in Made, Over(s)
  PROVE  Over(s)'
<1>1. row[s] \in Rows /\ row'[s] \in Rows /\ now \in Int /\ now' \in Int
  BY RowsGrow DEF TypeOK, Made
<1> QED
  BY <1>1, RowsGrow DEF Over, Rows

\* What a request carries, and that its page is still shown, outlasts the steps
\* of the other tabs and of the clock.
LEMMA OthersKeepRequest ==
  ASSUME TypeOK, RequestsInOrder, Next, NEW t \in Tabs, req'[t] = req[t], page'[t] = page[t]
  PROVE  CarriesUse(req[t])' /\ StaysLate(req[t])' /\ OnItsPage(t)'
<1>1. CarriesUse(req[t]) /\ StaysLate(req[t]) /\ OnItsPage(t)
  BY DEF RequestsInOrder
<1>2. now \in Int /\ now' \in Int /\ now <= now' /\ req[t].at \in Int
  BY RowsGrow DEF TypeOK
<1>3. CarriesUse(req[t])'
  <2>1. req[t].pc \in {"looked", "touching"} => req[t].token \in Made
    BY DEF TypeOK
  <2> QED
    BY <1>1, <1>2, <2>1, RowsGrow DEF CarriesUse
<1>4. StaysLate(req[t])'
  <2>1. ASSUME req[t].late
        PROVE  /\ req[t].token \in Made' /\ Over(req[t].token)'
               /\ row[req[t].token].expires <= now => row'[req[t].token].expires <= now'
    <3>1. req[t].token \in Made /\ Over(req[t].token)
      BY <1>1, <2>1 DEF StaysLate
    <3>2. row[req[t].token] \in Rows /\ row[req[t].token].expires \in Int
      BY <3>1 DEF TypeOK, Made, Rows
    <3> QED
      BY <3>1, <3>2, <1>2, RowsGrow, OverStays
  <2> QED
    BY <1>1, <2>1 DEF StaysLate
<1>5. OnItsPage(t)'
  BY <1>1 DEF OnItsPage
<1> QED
  BY <1>3, <1>4, <1>5

\* A step of a tab leaves its request in order.
LEMMA OwnStepKeepsRequest ==
  ASSUME TypeOK, RequestsInOrder, SeenIsUse, Next, NEW t \in Tabs, TabStep(t)
  PROVE  CarriesUse(req[t])' /\ StaysLate(req[t])' /\ OnItsPage(t)'
<1> DEFINE s == req[t].token
<1>1. /\ CarriesUse(req[t]) /\ StaysLate(req[t]) /\ OnItsPage(t)
      /\ req[t] \in Requests /\ req \in [Tabs -> Requests]
      /\ req[t].pc \in Recognising => s \in Made /\ row[s] \in Rows /\ row[s].expires \in Int
      /\ page \in [Tabs -> Made \cup {None}] /\ cookie \in Made \cup {None}
  BY DEF RequestsInOrder, TypeOK, Requests, Recognising, Made, Rows
<1>2. /\ now \in 0..MaxTime /\ now \in Nat /\ 0 <= now
      /\ uses \in [Ids -> SUBSET (0..now)]
  BY TimesAssumption DEF TypeOK
<1>3. ASSUME req'[t].pc = "none" \/ req'[t].pc = "answering", ~ req'[t].late, req'[t].at <= now'
      PROVE  CarriesUse(req[t])' /\ StaysLate(req[t])' /\ OnItsPage(t)'
  BY <1>3 DEF CarriesUse, StaysLate, OnItsPage
<1>4. ASSUME req'[t] = NoRequest, now' = now
      PROVE  CarriesUse(req[t])' /\ StaysLate(req[t])' /\ OnItsPage(t)'
  BY <1>4, <1>3, <1>2, NoRequestType
<1>5. ASSUME NEW kind \in {"page", "post", "logout"}, Send(t, kind)
      PROVE  CarriesUse(req[t])' /\ StaysLate(req[t])' /\ OnItsPage(t)'
  <2>1. /\ req'[t] = [NoRequest EXCEPT !.pc = "sent", !.kind = kind, !.token = cookie,
                                        !.late = cookie # None /\ Over(cookie)]
        /\ row' = row /\ now' = now
    BY <1>5, <1>1 DEF Send
  <2>2. /\ req'[t].pc = "sent" /\ req'[t].kind = kind /\ req'[t].token = cookie
        /\ req'[t].late = (cookie # None /\ Over(cookie)) /\ req'[t].at = 0
    BY <2>1 DEF NoRequest
  <2>3. StaysLate(req[t])'
    BY <2>1, <2>2, <1>1 DEF StaysLate, Over, Made
  <2> QED
    BY <2>1, <2>2, <2>3, <1>2 DEF CarriesUse, OnItsPage
<1>6. CASE SendLogin(t)
  <2>1. /\ req'[t] = [NoRequest EXCEPT !.pc = "sent", !.kind = "login"] /\ now' = now
    BY <1>6, <1>1 DEF SendLogin
  <2>2. req'[t].pc = "sent" /\ ~ req'[t].late /\ req'[t].at = 0
    BY <2>1 DEF NoRequest
  <2> QED
    BY <2>1, <2>2, <1>2 DEF CarriesUse, StaysLate, OnItsPage
<1>7. CASE Receive(t) \/ Fail(t)
  <2>1. req'[t] = NoRequest /\ now' = now
    BY <1>7, <1>1 DEF Receive, Fail, Dismissed
  <2> QED
    BY <2>1, <1>4
<1>8. CASE LookUp(t)
  <2> DEFINE found == [seen |-> row[s].seen, revoked |-> row[s].revoked]
  <2>1. CASE Dismissed(t)
    BY <2>1, <1>8, <1>1, <1>4 DEF Dismissed, LookUp
  <2>2. CASE s # None /\ req' = [req EXCEPT ![t].pc = "looked", ![t].found = found]
    <3>1. /\ row' = row /\ now' = now /\ uses' = uses
          /\ req'[t] = [req[t] EXCEPT !.pc = "looked", !.found = found]
      BY <2>2, <1>8, <1>1 DEF LookUp
    <3>2. /\ req'[t].pc = "looked" /\ req'[t].found = found /\ req'[t].token = s
          /\ req'[t].late = req[t].late /\ req'[t].at = req[t].at /\ req'[t].kind = req[t].kind
      BY <3>1, <1>1 DEF Requests
    <3>3. s \in Made /\ row[s] \in Rows
      BY <2>2, <1>1 DEF Requests, TypeOK, Made
    <3>4. found \in Seen /\ found.seen \in uses[s] /\ found.revoked = row[s].revoked
      BY <3>3 DEF Rows, Seen, SeenIsUse
    <3> HIDE DEF found
    <3>5. CarriesUse(req[t])'
      BY <3>1, <3>2, <3>4, <1>1, <1>8 DEF CarriesUse, LookUp
    <3>6. StaysLate(req[t])'
      BY <3>1, <3>2, <3>3, <3>4, <1>1 DEF StaysLate, Over, Made
    <3> QED
      BY <3>2, <3>5, <3>6 DEF OnItsPage
  <2> QED
    BY <1>8, <2>1, <2>2 DEF LookUp
<1>9. CASE Decide(t)
  <2>1. CASE Dismissed(t)
    BY <2>1, <1>9, <1>1, <1>4 DEF Dismissed, Decide
  <2>2. CASE /\ ~ Refused(s, req[t].found)
             /\ req' = [req EXCEPT ![t].pc = "touching", ![t].at = now]
    <3>1. /\ row' = row /\ now' = now /\ uses' = uses /\ req[t].pc = "looked"
          /\ req'[t] = [req[t] EXCEPT !.pc = "touching", !.at = now]
      BY <2>2, <1>9, <1>1 DEF Decide
    <3>2. /\ req'[t].pc = "touching" /\ req'[t].found = req[t].found /\ req'[t].token = s
          /\ req'[t].late = req[t].late /\ req'[t].at = now
      BY <3>1, <1>1 DEF Requests
    <3>3. /\ req[t].found \in Seen /\ req[t].found.seen \in uses[s] /\ req'[t].kind # "login"
          /\ s \in Ids /\ row[s].expires \in Int
      BY <3>1, <1>1 DEF CarriesUse, Recognising, Made, Requests
    <3>4. req[t].found.seen \in 0..now
      BY <3>3, <1>2
    <3>5. now < row[s].expires /\ now < req[t].found.seen + Idle /\ ~ req[t].found.revoked
      BY <2>2, <3>3, <3>4, <1>2, TimesAssumption DEF Refused
    <3>6. CarriesUse(req[t])'
      BY <3>1, <3>2, <3>3, <3>4, <3>5, <1>2 DEF CarriesUse
    <3>7. ~ req[t].late
      BY <3>1, <3>3, <3>5, <1>1, <1>2 DEF StaysLate
    <3> QED
      BY <3>2, <3>6, <3>7 DEF StaysLate, OnItsPage
  <2> QED
    BY <1>9, <2>1, <2>2 DEF Decide
<1>10. CASE Touch(t)
  <2>1. CASE Dismissed(t)
    BY <2>1, <1>10, <1>1, <1>4 DEF Dismissed, Touch
  <2>2. CASE /\ Matches(t)
             /\ req' = [req EXCEPT ![t].pc = IF req[t].kind = "page" THEN "answering" ELSE "performing"]
             /\ UNCHANGED page
    <3>1. /\ req'[t] = [req[t] EXCEPT !.pc = IF req[t].kind = "page" THEN "answering" ELSE "performing"]
          /\ now' = now /\ req[t].pc = "touching" /\ page'[t] = page[t]
      BY <2>2, <1>10, <1>1 DEF Touch
    <3>2. /\ req'[t].pc = IF req[t].kind = "page" THEN "answering" ELSE "performing"
          /\ req'[t].token = s /\ req'[t].kind = req[t].kind
          /\ req'[t].late = req[t].late /\ req'[t].at = req[t].at
      BY <3>1, <1>1 DEF Requests
    <3>3. ~ req[t].late /\ req[t].kind # "login"
      BY <3>1, <1>1 DEF StaysLate, CarriesUse
    <3>4. req[t].kind # "page" => page[t] = s /\ req[t].kind \in {"post", "logout"}
      BY <2>2, <3>3, <1>1 DEF Matches, Requests
    <3> QED
      BY <3>1, <3>2, <3>3, <3>4, <1>1 DEF CarriesUse, StaysLate, OnItsPage
  <2> QED
    BY <1>10, <2>1, <2>2 DEF Touch
<1>11. CASE Perform(t)
  <2>1. req'[t].pc = "answering" /\ req'[t].late = req[t].late /\ req'[t].at = req[t].at /\ now' = now
    BY <1>11, <1>1 DEF Perform, Requests
  <2>2. ~ req[t].late
    BY <1>11, <1>1 DEF Perform, StaysLate
  <2> QED
    BY <2>1, <2>2, <1>1, <1>3 DEF CarriesUse
<1>12. ASSUME NEW u \in Users, NEW v \in Ids, Login(t, u, v)
       PROVE  CarriesUse(req[t])' /\ StaysLate(req[t])' /\ OnItsPage(t)'
  <2>1. req'[t].pc = "answering" /\ req'[t].late = req[t].late /\ req'[t].at = req[t].at /\ now' = now
    BY <1>12, <1>1 DEF Login, Requests
  <2>2. ~ req[t].late
    BY <1>12, <1>1 DEF Login, StaysLate
  <2> QED
    BY <2>1, <2>2, <1>1, <1>3 DEF CarriesUse
<1> QED
  BY <1>5, <1>6, <1>7, <1>8, <1>9, <1>10, <1>11, <1>12 DEF TabStep

\* Every step leaves the requests of all tabs in order: a step of the clock or
\* of another tab touches neither the request of a tab nor its page.
LEMMA RequestsStep ==
  ASSUME TypeOK, RequestsInOrder, SeenIsUse, Next
  PROVE  RequestsInOrder'
<1> SUFFICES ASSUME NEW t \in Tabs
             PROVE  CarriesUse(req[t])' /\ StaysLate(req[t])' /\ OnItsPage(t)'
  BY DEF RequestsInOrder
<1>1. CASE TabStep(t)
  BY <1>1, OwnStepKeepsRequest
<1>2. CASE Tick
  BY <1>2, OthersKeepRequest DEF Tick
<1>3. ASSUME NEW v \in Tabs, TabStep(v), v # t
      PROVE  req'[t] = req[t] /\ page'[t] = page[t]
  BY <1>3 DEF TypeOK, TabStep, Send, SendLogin, Receive, LookUp, Decide, Touch, Perform,
              Fail, Login, Dismissed
<1> QED
  BY <1>1, <1>2, <1>3, OthersKeepRequest DEF Next, TabStep

\* Every step leaves each session a use at its last_seen_at, and each of its uses
\* soon enough after another: Touch adds the time its request carries, and Login
\* the first one.
LEMMA UsesStep ==
  ASSUME TypeOK, RequestsInOrder, SeenIsUse, OnlyUseKeepsAlive, Next
  PROVE  SeenIsUse' /\ OnlyUseKeepsAlive'
<1> DEFINE Alive(s) ==
      \A at \in uses[s] :
        /\ at < row[s].expires
        /\ \/ at = row[s].expires - Absolute
           \/ \E before \in uses[s] : before < at /\ at < before + Idle
<1> SUFFICES ASSUME NEW s \in Made' PROVE (row[s].seen \in uses[s])' /\ Alive(s)'
  BY DEF SeenIsUse, OnlyUseKeepsAlive
<1>0. /\ s \in Ids /\ row \in [Ids -> Rows \cup {None}] /\ uses \in [Ids -> SUBSET (0..now)]
      /\ \A t \in Tabs : req[t].pc \in {"touching", "performing"} => req[t].token \in Made
  BY DEF Made, TypeOK
<1>1. /\ s \in Made => row[s].seen \in uses[s] /\ Alive(s)
      /\ s \in Made => row[s] \in Rows /\ row[s].expires \in Int
      /\ uses[s] \in SUBSET (0..now) /\ now \in Nat
  BY TimesAssumption DEF SeenIsUse, OnlyUseKeepsAlive, TypeOK, Made, Rows
<1>2. CASE row'[s] = row[s] /\ uses'[s] = uses[s]
  BY <1>1, <1>2 DEF Made
<1>3. ASSUME NEW t \in Tabs, Touch(t), s = req[t].token
      PROVE  (row[s].seen \in uses[s])' /\ Alive(s)'
  <2> DEFINE at == req[t].at
             before == req[t].found.seen
  <2>1. /\ s \in Made /\ row'[s] = [row[s] EXCEPT !.seen = at] /\ uses'[s] = uses[s] \cup {at}
    BY <1>3, <1>0 DEF Touch
  <2>2. row'[s].seen = at /\ row'[s].expires = row[s].expires
    BY <2>1, <1>1 DEF Rows
  <2>3. /\ before \in uses[s] /\ at < row[s].expires /\ before <= at /\ at < before + Idle
        /\ at \in Int /\ before \in Int
    BY <1>3, <1>1 DEF Touch, RequestsInOrder, CarriesUse, TypeOK
  <2>4. CASE at = before
    <3>1. uses'[s] = uses[s]
      BY <2>1, <2>3, <2>4
    <3> QED
      BY <3>1, <2>1, <2>2, <2>3, <2>4, <1>1
  <2>5. CASE before < at
    <3> SUFFICES ASSUME NEW x \in uses'[s]
                 PROVE  /\ x < row'[s].expires
                        /\ \/ x = row'[s].expires - Absolute
                           \/ \E y \in uses'[s] : y < x /\ y \in Int /\ x < y + Idle
      BY <2>1, <2>2
    <3>1. CASE x = at
      BY <3>1, <2>1, <2>2, <2>3, <2>5
    <3>2. CASE x \in uses[s]
      BY <3>2, <2>1, <2>2, <1>1
    <3> QED
      BY <3>1, <3>2, <2>1
  <2> QED
    BY <2>3, <2>4, <2>5
<1>4. ASSUME NEW t \in Tabs, Perform(t), s = req[t].token
      PROVE  (row[s].seen \in uses[s])' /\ Alive(s)'
  <2>1. /\ s \in Made /\ row'[s] \in {row[s], [row[s] EXCEPT !.revoked = TRUE]} /\ uses'[s] = uses[s]
    BY <1>4, <1>0 DEF Perform
  <2>2. row'[s].seen = row[s].seen /\ row'[s].expires = row[s].expires
    BY <2>1, <1>1 DEF Rows
  <2> QED
    BY <2>1, <2>2, <1>1
<1>5. ASSUME NEW t \in Tabs, NEW u \in Users, Login(t, u, s)
      PROVE  (row[s].seen \in uses[s])' /\ Alive(s)'
  <2>1. /\ row'[s] = [user |-> u, seen |-> now, expires |-> now + Absolute, revoked |-> FALSE]
        /\ uses'[s] = {now}
    BY <1>5, <1>0 DEF Login
  <2>2. row'[s].expires = now + Absolute /\ row'[s].seen = now
    BY <2>1
  <2>3. now < row'[s].expires /\ now = row'[s].expires - Absolute
    BY <2>2, <1>1, TimesAssumption
  <2>4. \A x \in uses'[s] : x = now
    BY <2>1
  <2>5. row'[s].seen \in uses'[s]
    BY <2>1, <2>2
  <2>6. Alive(s)'
    BY <2>3, <2>4
  <2> QED
    BY <2>5, <2>6
<1>6. \/ row'[s] = row[s] /\ uses'[s] = uses[s]
      \/ \E t \in Tabs : s = req[t].token /\ (Touch(t) \/ Perform(t))
      \/ \E t \in Tabs, u \in Users : Login(t, u, s)
  <2>1. ASSUME NEW t \in Tabs, Touch(t) \/ Perform(t), s # req[t].token
        PROVE  row'[s] = row[s] /\ uses'[s] = uses[s]
    BY <2>1, <1>0 DEF Touch, Perform
  <2>2. ASSUME NEW t \in Tabs, NEW u \in Users, NEW v \in Ids, Login(t, u, v), v # s
        PROVE  row'[s] = row[s] /\ uses'[s] = uses[s]
    BY <2>2, <1>0 DEF Login
  <2> QED
    BY <2>1, <2>2, <1>0 DEF Next, Tick, Send, SendLogin, Receive, LookUp, Decide, Fail
<1> HIDE DEF Alive
<1> QED
  BY <1>2, <1>3, <1>4, <1>5, <1>6

\* The invariant is inductive.
LEMMA StepIInv == IInv /\ [Next]_vars => IInv'
<1> SUFFICES ASSUME IInv, [Next]_vars PROVE IInv'
  OBVIOUS
<1>1. CASE Next
  BY <1>1, TypeStep, RequestsStep, UsesStep DEF IInv
<1>2. CASE UNCHANGED vars
  BY <1>2 DEF vars, IInv, TypeOK, RequestsInOrder, CarriesUse, StaysLate, OnItsPage, Over,
              SeenIsUse, OnlyUseKeepsAlive, Made
<1> QED
  BY <1>1, <1>2

\* The invariant holds of every run.
LEMMA IInvHolds == Spec => []IInv
<1>1. Init => IInv
  BY InitIInv
<1>2. IInv /\ [Next]_vars => IInv'
  BY StepIInv
<1> QED
  BY <1>1, <1>2, PTL DEF Spec
-----------------------------------------------------------------------------

\* Rows, requests, pages and the cookie are what auth.py and a browser can hold;
\* a token in a cookie, a page or a request is that of a session that was made.
THEOREM TypeInvariant == Spec => []TypeOK
<1>1. IInv => TypeOK
  BY DEF IInv
<1> QED
  BY <1>1, IInvHolds, PTL

\* A logout or the absolute expiry is final: no request sent after it passes
\* current_session, whatever the requests sent before it write meanwhile.
THEOREM EndIsFinalForAll == Spec => []EndIsFinal
<1>1. IInv => EndIsFinal
  BY DEF IInv, RequestsInOrder, StaysLate, EndIsFinal
<1> QED
  BY <1>1, IInvHolds, PTL

\* A session is alive only because of its login or of a use less than the idle
\* time before, although last_seen_at is written late and may move back.
THEOREM OnlyUseKeepsAliveForAll == Spec => []OnlyUseKeepsAlive
<1>1. IInv => OnlyUseKeepsAlive
  BY DEF IInv
<1> QED
  BY <1>1, IInvHolds, PTL

\* A form acts as the user of the page it was on, and a logout ends the session
\* of that page and no other: validate_csrf compares with the csrf token of the
\* session the cookie named when the form was sent.
THEOREM ActsForItsPageForAll == Spec => ActsForItsPage
<1> DEFINE Act(t) == Perform(t) =>
      /\ page[t] # None
      /\ row[req[t].token].user = row[page[t]].user
      /\ \A s \in Made : row'[s].revoked /\ ~ row[s].revoked => page[t] = s
<1>1. ASSUME IInv, Next, NEW t \in Tabs PROVE Act(t)
  <2> SUFFICES ASSUME Perform(t) PROVE
        /\ page[t] # None
        /\ row[req[t].token].user = row[page[t]].user
        /\ \A s \in Made : row'[s].revoked /\ ~ row[s].revoked => page[t] = s
    OBVIOUS
  <2>1. page[t] = req[t].token /\ req[t].token \in Made
    BY <1>1 DEF IInv, RequestsInOrder, OnItsPage, Perform, TypeOK
  <2>2. page[t] # None
    BY <2>1, NoneAssumption DEF Made
  <2>3. ASSUME NEW s \in Made, s # req[t].token PROVE row'[s] = row[s]
    BY <1>1, <2>1, <2>3 DEF Perform, IInv, TypeOK, Made
  <2> QED
    BY <2>1, <2>2, <2>3
<1>2. IInv /\ [Next]_vars => [\A t \in Tabs : Act(t)]_vars
  BY <1>1
<1> QED
  BY <1>2, IInvHolds, PTL DEF Spec, ActsForItsPage
=============================================================================
