------------------------------ MODULE Accounts ------------------------------
(***************************************************************************)
(* Signing in and staying signed in: the refresh tokens of one account      *)
(* (app/services/auth_service.py), the endpoints that issue, rotate and      *)
(* revoke them (app/api/v1/auth.py), and the browser that holds the cookie   *)
(* and refreshes it at most once at a time per tab (frontend/lib/api.ts).    *)
(*                                                                           *)
(* Under READ COMMITTED every statement sees what was committed when it      *)
(* began.  A request reads first and commits later: two refreshes with one   *)
(* cookie may both find its row live, and the UPDATE that revokes an         *)
(* account's rows passes over those that are committed after it began.  A    *)
(* row found revoked counts as reuse and revokes every row of the account;   *)
(* the 401 that follows leaves the browser its cookie.                       *)
(***************************************************************************)
EXTENDS Naturals, Sequences, FiniteSets

CONSTANTS
    Devices,        \* browsers signed in to the account, one cookie jar each
    Tabs,           \* their open tabs
    DeviceOf,       \* the browser a tab belongs to
    MaxTokens,      \* bound on the rows issued
    MaxChanges      \* bound on password changes

ASSUME TabsAssumption   == DeviceOf \in [Tabs -> Devices]
ASSUME NobodyAssumption == "nobody" \notin Devices
ASSUME BoundsAssumption == MaxTokens \in Nat /\ MaxChanges \in Nat

VARIABLES
    hashed_pw,      \* which password is stored: the number of changes so far
    refresh_tokens, \* the rows, in the order they were inserted
    cookie,         \* the refresh token each browser holds, 0 for none
    refreshing,     \* per tab: its refreshInFlight
    form,           \* per browser: a sign-in, sign-out or password change
    disturbed,      \* history: browsers that had two such requests at once, or
                    \* that an answer never reached
    reused          \* history: browsers that presented a token they had
                    \* themselves ended

accountVars == <<hashed_pw, refresh_tokens, cookie, refreshing, form, disturbed, reused>>

\* A row of refresh_tokens: what revoked it, and of its history: the password
\* its user last proved to know (a rotation inherits that of the row it
\* replaces), the latest password change that it, or a row it replaced, was
\* under way together with, and the browser that ended it.
RefreshToken ==
    [pw : 0..MaxChanges, over : 0..MaxChanges,
     revoked : {"live", "rotated", "logout", "password", "family"},
     by : Devices \cup {"nobody"}]

\* A request under way: what it has read, the password stored at that moment, the
\* rows its UPDATE saw, and the cookie its answer sets.
Request ==
    [op : {"idle", "refresh", "login", "logout", "password"},
     step : {"sent", "read", "marked", "answered"},
     token : 0..MaxTokens, seen : {"unread", "live", "expired", "revoked"},
     since : 0..MaxChanges, upto : 0..MaxTokens]

Idle == [op |-> "idle", step |-> "sent", token |-> 0, seen |-> "unread", since |-> 0, upto |-> 0]

Sent(op, token) == [Idle EXCEPT !.op = op, !.token = token]

\* An answer that sets the cookie, or deletes it when token is 0.
Answer(r, token) == [Idle EXCEPT !.op = r.op, !.step = "answered", !.token = token]

AccountsTypeOK ==
    /\ hashed_pw \in 0..MaxChanges
    /\ refresh_tokens \in Seq(RefreshToken)
    /\ Len(refresh_tokens) <= MaxTokens
    /\ cookie \in [Devices -> 0..MaxTokens]
    /\ refreshing \in [Tabs -> Request]
    /\ form \in [Devices -> Request]
    /\ disturbed \subseteq Devices
    /\ reused \subseteq Devices

InFlight(d) ==
    form[d].op # "idle" \/ \E t \in Tabs : DeviceOf[t] = d /\ refreshing[t].op # "idle"

Race(d) == disturbed' = IF InFlight(d) THEN disturbed \cup {d} ELSE disturbed

Live(i) == refresh_tokens[i].revoked = "live"

\* Is a password change between its UPDATE and its commit?
Changing == \E d \in Devices : form[d].op = "password" /\ form[d].step = "marked"

\* The latest password change a request is under way together with, which has
\* read the stored password as since and commits now.
Overlapped(since, otherwise) ==
    IF Changing THEN hashed_pw + 1 ELSE IF since # hashed_pw THEN hashed_pw ELSE otherwise

Ended(row, how, d) ==
    IF row.revoked = "live" THEN [row EXCEPT !.revoked = how, !.by = d] ELSE row

\* Every row up to the last one the UPDATE saw, if it is still live.
RevokedAll(upto, how, d) ==
    [i \in DOMAIN refresh_tokens |->
        IF i <= upto THEN Ended(refresh_tokens[i], how, d) ELSE refresh_tokens[i]]

RevokedOne(j, how, d) ==
    [i \in DOMAIN refresh_tokens |->
        IF i = j THEN Ended(refresh_tokens[i], how, d) ELSE refresh_tokens[i]]

\* issue_refresh_token: one more row.
Issue(rows, pw, over) ==
    Append(rows, [pw |-> pw, over |-> over, revoked |-> "live", by |-> "nobody"])

MayIssue == Len(refresh_tokens) < MaxTokens

-----------------------------------------------------------------------------
(* POST /auth/refresh, sent by a tab on a 401 *)

\* refreshSession: one at a time per tab; the browser attaches its cookie.
SendRefresh(t) ==
    LET d == DeviceOf[t] IN
    /\ refreshing[t].op = "idle"
    /\ cookie[d] # 0
    /\ refreshing' = [refreshing EXCEPT ![t] = Sent("refresh", cookie[d])]
    /\ Race(d)
    /\ UNCHANGED <<hashed_pw, refresh_tokens, cookie, form, reused>>

\* rotate_refresh_token reads the row.  Time is not kept: a live row may turn
\* out to have expired.
ReadToken(t) ==
    /\ refreshing[t].op = "refresh" /\ refreshing[t].step = "sent"
    /\ \E seen \in {"live", "expired", "revoked"} :
        /\ (seen = "revoked") <=> ~Live(refreshing[t].token)
        /\ refreshing' = [refreshing EXCEPT ![t].step = "read", ![t].seen = seen,
                                            ![t].since = hashed_pw]
    /\ UNCHANGED <<hashed_pw, refresh_tokens, cookie, form, disturbed, reused>>

RotateUnanswered(t) ==
    LET r == refreshing[t]  row == refresh_tokens[r.token] IN
    /\ r.step = "read" /\ r.seen = "live" /\ MayIssue
    /\ refresh_tokens' = Issue(RevokedOne(r.token, "rotated", DeviceOf[t]),
                               row.pw, Overlapped(r.since, row.over))
    /\ refreshing' = [refreshing EXCEPT ![t] = Answer(r, r.token)]
    /\ UNCHANGED reused

\* A row read live is revoked, whatever has happened to it since, and another
\* one is issued in its place.
Rotate(t) ==
    LET r == refreshing[t]  row == refresh_tokens[r.token] IN
    /\ r.step = "read" /\ r.seen = "live" /\ MayIssue
    /\ refresh_tokens' = Issue(RevokedOne(r.token, "rotated", DeviceOf[t]),
                               row.pw, Overlapped(r.since, row.over))
    /\ refreshing' = [refreshing EXCEPT ![t] = Answer(r, Len(refresh_tokens) + 1)]
    /\ UNCHANGED reused

\* A row read revoked: an UPDATE of every row that is live ...
FindFamily(t) ==
    /\ refreshing[t].step = "read" /\ refreshing[t].seen = "revoked"
    /\ refreshing' = [refreshing EXCEPT ![t].step = "marked", ![t].upto = Len(refresh_tokens)]
    /\ UNCHANGED <<refresh_tokens, reused>>

\* ... and its commit: the whole family goes.  The request is over for the browser
\* as it stands: delete_cookie is said to the response that the HTTPException then
\* replaces, so the 401 carries no cookie.
RevokeFamily(t) ==
    LET r == refreshing[t]  d == DeviceOf[t] IN
    /\ r.step = "marked"
    /\ refresh_tokens' = RevokedAll(r.upto, "family", d)
    /\ refreshing' = [refreshing EXCEPT ![t] = Idle]
    /\ reused' = IF refresh_tokens[r.token].by = d THEN reused \cup {d} ELSE reused

RefuseExpired(t) ==
    /\ refreshing[t].step = "read" /\ refreshing[t].seen = "expired"
    /\ refreshing' = [refreshing EXCEPT ![t] = Idle]
    /\ UNCHANGED <<refresh_tokens, reused>>

CommitRefresh(t) ==
    /\ refreshing[t].op = "refresh"
    /\ Rotate(t) \/ FindFamily(t) \/ RevokeFamily(t) \/ RefuseExpired(t)
    /\ UNCHANGED <<hashed_pw, cookie, form, disturbed>>

-----------------------------------------------------------------------------
(* POST /auth/login, /auth/logout and /auth/me/password *)

Login(d) ==
    /\ form[d].op = "idle"
    /\ form' = [form EXCEPT ![d] = Sent("login", 0)]
    /\ Race(d)
    /\ UNCHANGED <<hashed_pw, refresh_tokens, cookie, refreshing, reused>>

\* A wrong password leaves the tokens and the cookies alone.
WrongPassword(d) ==
    /\ form[d].op = "login" /\ form[d].step = "sent"
    /\ form' = [form EXCEPT ![d] = Idle]
    /\ UNCHANGED <<hashed_pw, refresh_tokens, cookie, refreshing, disturbed, reused>>

\* login reads the account and verifies the password it was sent ...
VerifyPassword(d) ==
    /\ form[d].op = "login" /\ form[d].step = "sent"
    /\ form' = [form EXCEPT ![d].step = "read", ![d].since = hashed_pw]
    /\ UNCHANGED <<hashed_pw, refresh_tokens, cookie, refreshing, disturbed, reused>>

\* ... and inserts and commits its row, whatever the password is by then.
IssueSession(d) ==
    /\ form[d].op = "login" /\ form[d].step = "read"
    /\ MayIssue
    /\ refresh_tokens' = Issue(refresh_tokens, form[d].since, Overlapped(form[d].since, 0))
    /\ form' = [form EXCEPT ![d] = Answer(@, Len(refresh_tokens) + 1)]
    /\ UNCHANGED <<hashed_pw, cookie, refreshing, disturbed, reused>>

\* A sign-out or a password change carries the cookie it was sent with.
Submit(d, op) ==
    /\ form[d].op = "idle"
    /\ cookie[d] # 0
    /\ form' = [form EXCEPT ![d] = Sent(op, cookie[d])]
    /\ Race(d)
    /\ UNCHANGED <<hashed_pw, refresh_tokens, cookie, refreshing, reused>>

Logout(d) ==
    /\ form[d].op = "logout" /\ form[d].step = "sent"
    /\ refresh_tokens' = RevokedOne(form[d].token, "logout", d)
    /\ form' = [form EXCEPT ![d] = Answer(@, 0)]
    /\ UNCHANGED <<hashed_pw, cookie, refreshing, disturbed, reused>>

\* The current password was right when it was checked.  The UPDATE of the account,
\* which one change at a time can hold, and then that of its live rows ...
MarkSessions(d) ==
    /\ form[d].op = "password" /\ form[d].step = "sent"
    /\ ~Changing /\ hashed_pw < MaxChanges
    /\ form' = [form EXCEPT ![d].step = "marked", ![d].upto = Len(refresh_tokens)]
    /\ UNCHANGED <<hashed_pw, refresh_tokens, cookie, refreshing, disturbed, reused>>

ChangePasswordOnly(d) ==
    /\ form[d].op = "password" /\ form[d].step = "marked" /\ MayIssue
    /\ hashed_pw' = hashed_pw + 1
    /\ refresh_tokens' = Issue(RevokedOne(form[d].token, "password", d), hashed_pw + 1, 0)
    /\ form' = [form EXCEPT ![d] = Answer(@, Len(refresh_tokens) + 1)]
    /\ UNCHANGED <<cookie, refreshing, disturbed, reused>>

\* ... are committed with the caller's new row.
ChangePassword(d) ==
    /\ form[d].op = "password" /\ form[d].step = "marked" /\ MayIssue
    /\ hashed_pw' = hashed_pw + 1
    /\ refresh_tokens' = Issue(RevokedAll(form[d].upto, "password", d), hashed_pw + 1, 0)
    /\ form' = [form EXCEPT ![d] = Answer(@, Len(refresh_tokens) + 1)]
    /\ UNCHANGED <<cookie, refreshing, disturbed, reused>>

\* The current password did not match: nothing is written.
RefuseChange(d) ==
    /\ form[d].op = "password" /\ form[d].step = "sent"
    /\ form' = [form EXCEPT ![d] = Idle]
    /\ UNCHANGED <<hashed_pw, refresh_tokens, cookie, refreshing, disturbed, reused>>

-----------------------------------------------------------------------------
(* The answers, which may overtake each other or be lost on the way *)

Arrives(d, r) == cookie' = [cookie EXCEPT ![d] = r.token] /\ UNCHANGED disturbed

GoesMissing(d) == disturbed' = disturbed \cup {d} /\ UNCHANGED cookie

RefreshAnswer(t) ==
    /\ refreshing[t].step = "answered"
    /\ Arrives(DeviceOf[t], refreshing[t]) \/ GoesMissing(DeviceOf[t])
    /\ refreshing' = [refreshing EXCEPT ![t] = Idle]
    /\ UNCHANGED <<hashed_pw, refresh_tokens, form, reused>>

FormAnswer(d) ==
    /\ form[d].step = "answered"
    /\ Arrives(d, form[d]) \/ GoesMissing(d)
    /\ form' = [form EXCEPT ![d] = Idle]
    /\ UNCHANGED <<hashed_pw, refresh_tokens, refreshing, reused>>

-----------------------------------------------------------------------------

AccountsInit ==
    /\ hashed_pw = 0
    /\ refresh_tokens = <<>>
    /\ cookie = [d \in Devices |-> 0]
    /\ refreshing = [t \in Tabs |-> Idle]
    /\ form = [d \in Devices |-> Idle]
    /\ disturbed = {} /\ reused = {}

Refresh(t) == SendRefresh(t) \/ ReadToken(t) \/ CommitRefresh(t) \/ RefreshAnswer(t)

SignIn(d) == Login(d) \/ WrongPassword(d) \/ VerifyPassword(d) \/ IssueSession(d)

SettleForm(d) ==
    \/ \E op \in {"logout", "password"} : Submit(d, op)
    \/ Logout(d)
    \/ MarkSessions(d)
    \/ ChangePassword(d)
    \/ RefuseChange(d)
    \/ FormAnswer(d)

AccountsNext ==
    \/ \E t \in Tabs : Refresh(t)
    \/ \E d \in Devices : SignIn(d) \/ SettleForm(d)

AccountsSpec == AccountsInit /\ [][AccountsNext]_accountVars

-----------------------------------------------------------------------------
(* Properties *)

\* A password change signs out everyone who was signed in, but for requests under
\* way: a row of an older password that is still live was committed by a sign-in
\* or a refresh that had begun before the last change was over and ended after its
\* UPDATE had begun, or replaces such a row (change_password, login,
\* rotate_refresh_token).
NothingOlderSurvives ==
    \A i \in DOMAIN refresh_tokens :
        Live(i) /\ refresh_tokens[i].pw < hashed_pw => refresh_tokens[i].over >= hashed_pw

\* A browser presents a token it has itself ended only after two of its requests
\* overlapped or an answer was lost.  A token another browser's password change
\* or alarm has ended it may present again and again, and each time every session
\* of the account ends: nothing is claimed of that (rotate_refresh_token, logout,
\* refreshSession).
AlarmNeedsACause == reused \subseteq disturbed

=============================================================================
