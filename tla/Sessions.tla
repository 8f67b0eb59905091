------------------------------ MODULE Sessions ------------------------------
(***************************************************************************)
(* Browser sessions: login, logout, current_session and validate_csrf of   *)
(* auth.py, called by every handler of main.py, with the tabs of a browser *)
(* that shares one cookie between them.                                    *)
(*                                                                         *)
(* A row of user_sessions stands for its token and its csrf token too:     *)
(* both are random and never change.  Every SELECT, test and commit of a   *)
(* request is a step of its own, and so is the arrival of its answer.      *)
(***************************************************************************)
EXTENDS Integers

CONSTANTS
  Tabs,      \* tabs of the browser, each with one request under way at most
  Users,     \* those who may log in with their password
  Ids,       \* bound: the sessions that can be made
  Idle,      \* settings.idle_minutes
  Absolute,  \* settings.absolute_hours
  MaxTime,   \* bound: the clock
  None

ASSUME TimesAssumption == Idle \in Nat \ {0} /\ Absolute \in Nat \ {0} /\ MaxTime \in Nat

VARIABLES
  row,     \* user_sessions: row[s], or None while there is no such session
  cookie,  \* the session whose token is in the browser's cookie, or None
  page,    \* page[t]: the session whose csrf token tab t shows, or None
  req,     \* req[t]: the request of tab t
  now,     \* utcnow()
  uses     \* history: uses[s], the times at which s was made or recognised

vars == <<row, cookie, page, req, now, uses>>

Made == {s \in Ids : row[s] # None}

Seen == [seen: 0..MaxTime, revoked: BOOLEAN]

Rows == [user: Users, seen: 0..MaxTime, expires: Absolute..(MaxTime + Absolute), revoked: BOOLEAN]

ASSUME NoneAssumption == None \notin Users \cup Ids \cup Rows \cup Seen

NoRequest == [pc |-> "none", kind |-> "page", token |-> None, found |-> None, at |-> 0, late |-> FALSE]

TypeOK ==
  /\ row \in [Ids -> Rows \cup {None}]
  /\ cookie \in Made \cup {None}
  /\ page \in [Tabs -> Made \cup {None}]
  /\ req \in [Tabs -> [pc: {"none", "sent", "looked", "touching", "performing", "answering"},
                       kind: {"page", "post", "logout", "login"},
                       token: Made \cup {None}, found: Seen \cup {None},
                       at: 0..MaxTime, late: BOOLEAN]]
  /\ \A t \in Tabs : req[t].pc \in {"looked", "touching", "performing"} => req[t].token \in Made
  /\ now \in 0..MaxTime
  /\ uses \in [Ids -> SUBSET (0..now)]

Init ==
  /\ row = [s \in Ids |-> None]
  /\ cookie = None
  /\ page = [t \in Tabs |-> None]
  /\ req = [t \in Tabs |-> NoRequest]
  /\ now = 0
  /\ uses = [s \in Ids |-> {}]

\* the test of current_session, on what its SELECT returned
Refused(s, found) ==
  \/ found.revoked
  \/ row[s].expires <= now
  \/ found.seen + Idle <= now

\* What no request may be recognised for any more: s is revoked or too old.
Over(s) == row[s].revoked \/ row[s].expires <= now

\* A slip: the session of the cookie is trusted.
MatchesAny(t) == TRUE

\* validate_csrf's comparison; a page needs none
Matches(t) == req[t].kind = "page" \/ page[t] = req[t].token

-----------------------------------------------------------------------------
(* Slips: what a plausible bug would turn a definition below into.         *)

\* the whole row is written, as it was read
TouchWholeRow(t) ==
  /\ req[t].pc = "touching"
  /\ LET s == req[t].token IN
       /\ row' = [row EXCEPT ![s].seen = req[t].at, ![s].revoked = req[t].found.revoked]
       /\ uses' = [uses EXCEPT ![s] = @ \cup {req[t].at}]
  /\ req' = [req EXCEPT ![t] = IF ~ Matches(t) THEN NoRequest
                               ELSE [@ EXCEPT !.pc = IF @ = "page" THEN "answering" ELSE "performing"]]
  /\ UNCHANGED <<cookie, page, now>>

\* a refused request counts as a use, too
DecideRefreshing(t) ==
  /\ req[t].pc = "looked"
  /\ IF Refused(req[t].token, req[t].found)
     THEN /\ req' = [req EXCEPT ![t] = NoRequest]
          /\ row' = [row EXCEPT ![req[t].token].seen = now]
          /\ page' = [page EXCEPT ![t] = None]
     ELSE /\ req' = [req EXCEPT ![t].pc = "touching", ![t].at = now]
          /\ UNCHANGED <<row, page>>
  /\ UNCHANGED <<cookie, now, uses>>

\* a request without a cookie is not turned away
LookUpWithoutCookie(t) ==
  /\ req[t].pc = "sent"
  /\ req[t].kind # "login"
  /\ req' = [req EXCEPT ![t].pc = "looked", ![t].found = [seen |-> now, revoked |-> FALSE]]
  /\ UNCHANGED <<row, cookie, page, now, uses>>

-----------------------------------------------------------------------------
(* The browser.                                                            *)

\* A page is asked for, or a form of the page the tab shows is sent.
Send(t, kind) ==
  /\ req[t].pc = "none"
  /\ kind # "page" => page[t] # None
  /\ req' = [req EXCEPT ![t] = [NoRequest EXCEPT
               !.pc = "sent", !.kind = kind, !.token = cookie,
               !.late = cookie # None /\ Over(cookie)]]
  /\ UNCHANGED <<row, cookie, page, now, uses>>

SendLogin(t) ==
  /\ req[t].pc = "none"
  /\ req' = [req EXCEPT ![t] = [NoRequest EXCEPT !.pc = "sent", !.kind = "login"]]
  /\ page' = [page EXCEPT ![t] = None]
  /\ UNCHANGED <<row, cookie, now, uses>>

\* Answers arrive in any order.  login's sets the cookie, logout's deletes it,
\* whatever it is by then.
Receive(t) ==
  /\ req[t].pc = "answering"
  /\ cookie' = CASE req[t].kind = "login" -> req[t].token
                 [] req[t].kind = "logout" -> None
                 [] OTHER -> cookie
  /\ page' = [page EXCEPT ![t] = IF req[t].kind = "page" THEN req[t].token ELSE None]
  /\ req' = [req EXCEPT ![t] = NoRequest]
  /\ UNCHANGED <<row, now, uses>>

-----------------------------------------------------------------------------
(* The handlers.                                                           *)

\* A request that ends with nothing done after its last commit: 401, 403, an
\* error of the database, a process that dies, an answer that is lost.
Dismissed(t) ==
  /\ req' = [req EXCEPT ![t] = NoRequest]
  /\ page' = [page EXCEPT ![t] = None]

\* current_session, lines 34-37
LookUp(t) ==
  /\ req[t].pc = "sent"
  /\ req[t].kind # "login"
  /\ \/ req[t].token = None /\ Dismissed(t)
     \/ /\ req[t].token # None
        /\ req' = [req EXCEPT ![t].pc = "looked",
                     ![t].found = [seen |-> row[req[t].token].seen, revoked |-> row[req[t].token].revoked]]
        /\ UNCHANGED page
  /\ UNCHANGED <<row, cookie, now, uses>>

\* lines 38-46
Decide(t) ==
  /\ req[t].pc = "looked"
  /\ \/ Refused(req[t].token, req[t].found) /\ Dismissed(t)
     \/ /\ ~ Refused(req[t].token, req[t].found)
        /\ req' = [req EXCEPT ![t].pc = "touching", ![t].at = now]
        /\ UNCHANGED page
  /\ UNCHANGED <<row, cookie, now, uses>>

\* The commit of line 47 writes last_seen_at alone; validate_csrf compares
\* after it.
Touch(t) ==
  /\ req[t].pc = "touching"
  /\ LET s == req[t].token IN
       /\ row' = [row EXCEPT ![s].seen = req[t].at]
       /\ uses' = [uses EXCEPT ![s] = @ \cup {req[t].at}]
  /\ \/ ~ Matches(t) /\ Dismissed(t)
     \/ /\ Matches(t)
        /\ req' = [req EXCEPT ![t].pc = IF req[t].kind = "page" THEN "answering" ELSE "performing"]
        /\ UNCHANGED page
  /\ UNCHANGED <<cookie, now>>

\* The rest of a handler: logout revokes the session, any other acts as its
\* user.
Perform(t) ==
  /\ req[t].pc = "performing"
  /\ row' = IF req[t].kind = "logout" THEN [row EXCEPT ![req[t].token].revoked = TRUE] ELSE row
  /\ req' = [req EXCEPT ![t].pc = "answering"]
  /\ UNCHANGED <<cookie, page, now, uses>>

\* The password is right: another session, beside those there are.
Login(t, u, s) ==
  /\ req[t].pc = "sent" /\ req[t].kind = "login"
  /\ s \notin Made
  /\ row' = [row EXCEPT ![s] = [user |-> u, seen |-> now, expires |-> now + Absolute, revoked |-> FALSE]]
  /\ uses' = [uses EXCEPT ![s] = {now}]
  /\ req' = [req EXCEPT ![t].pc = "answering", ![t].token = s]
  /\ UNCHANGED <<cookie, page, now>>

Fail(t) ==
  /\ req[t].pc # "none"
  /\ Dismissed(t)
  /\ UNCHANGED <<row, cookie, now, uses>>

Tick ==
  /\ now < MaxTime
  /\ now' = now + 1
  /\ UNCHANGED <<row, cookie, page, req, uses>>

Next ==
  \/ Tick
  \/ \E t \in Tabs :
       \/ \E kind \in {"page", "post", "logout"} : Send(t, kind)
       \/ SendLogin(t) \/ Receive(t)
       \/ LookUp(t) \/ Decide(t) \/ Touch(t) \/ Perform(t) \/ Fail(t)
       \/ \E u \in Users, s \in Ids : Login(t, u, s)

Spec == Init /\ [][Next]_vars

-----------------------------------------------------------------------------
(* Properties.                                                             *)

\* What is sent after a logout has been committed, or after the absolute
\* expiry, is not recognised, although requests sent before go on, write
\* last_seen_at after the logout and are even answered.
EndIsFinal ==
  \A t \in Tabs : req[t].late => req[t].pc \in {"none", "sent", "looked"}

\* Only use keeps a session alive: it is recognised at a time only if it was
\* made or recognised less than the idle time before, and never at or after
\* its absolute expiry; a refused request counts for nothing, although
\* last_seen_at is written from old reads, late, and may move back.
OnlyUseKeepsAlive ==
  \A s \in Made : \A at \in uses[s] :
    /\ at < row[s].expires
    /\ \/ at = row[s].expires - Absolute
       \/ \E before \in uses[s] : before < at /\ at < before + Idle

\* A form acts for the user whose page it was on, and a session ends by a form
\* of its own, although the tabs share one cookie, users change in another tab
\* and answers arrive late.
ActsForItsPage ==
  [][\A t \in Tabs : Perform(t) =>
       /\ page[t] # None
       /\ row[req[t].token].user = row[page[t]].user
       /\ \A s \in Made : row'[s].revoked /\ ~ row[s].revoked => page[t] = s]_vars
=============================================================================
