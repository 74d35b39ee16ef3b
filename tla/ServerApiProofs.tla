--------------------------- MODULE ServerApiProofs ---------------------------
(***************************************************************************)
(* What the handlers around a run keep, each about its own part and for any  *)
(* number of users, tabs, projects, conversations and settings: a password   *)
(* change ends the sessions that were not under way with it, and an alarm    *)
(* has a cause; a turn of conversation goes on with reports of its own       *)
(* project that were approved; an Offline run calls nobody else, and a page  *)
(* that says "not ready" is right; and the live stream of a run shows every  *)
(* row it has passed.                                                        *)
(***************************************************************************)
EXTENDS Accounts, ProjectMemory, ModelSetup, EventStream, SequenceFacts, SequenceTheorems

Rows == Seq(RefreshToken)

\* The number of rows.
Count == Len(refresh_tokens)

\* Rows of which some were revoked by browser d.
Revocation(rows, d) ==
    /\ rows \in Rows /\ Len(rows) = Count
    /\ \A i \in 1..Count :
        /\ rows[i].pw = refresh_tokens[i].pw /\ rows[i].over = refresh_tokens[i].over
        /\ ~Live(i) => rows[i] = refresh_tokens[i]
        /\ rows[i].by = refresh_tokens[i].by \/ rows[i].by = d

\* What every step of browser d does to the rows: some are revoked, one may be new.
RowsMove(d) ==
    /\ refresh_tokens' \in Rows
    /\ Count' = Count \/ (Count' = Count + 1 /\ Count' <= MaxTokens)
    /\ \A i \in 1..Count :
        /\ refresh_tokens'[i].pw = refresh_tokens[i].pw
        /\ refresh_tokens'[i].over = refresh_tokens[i].over
        /\ ~Live(i) => ~Live(i)' /\ refresh_tokens'[i].by = refresh_tokens[i].by
        /\ refresh_tokens'[i].by = refresh_tokens[i].by \/ refresh_tokens'[i].by = d

\* The row that is new.
NewRow(pw, over) ==
    /\ Count' = Count + 1 /\ Count' \in 1..MaxTokens
    /\ refresh_tokens'[Count + 1].pw = pw /\ refresh_tokens'[Count + 1].over = over
    /\ refresh_tokens'[Count + 1].by = "nobody"

\* A row that is ended keeps its past, and one that had ended is left alone.
LEMMA EndedFacts ==
    ASSUME NEW row \in RefreshToken, NEW how \in {"rotated", "logout", "password", "family"},
           NEW d \in Devices
    PROVE  /\ Ended(row, how, d) \in RefreshToken
           /\ Ended(row, how, d).pw = row.pw /\ Ended(row, how, d).over = row.over
           /\ row.revoked # "live" => Ended(row, how, d) = row
           /\ Ended(row, how, d).by = row.by \/ Ended(row, how, d).by = d
           /\ Ended(row, how, d).revoked # "live"
BY DEF Ended, RefreshToken

LEMMA RowFacts ==
    ASSUME refresh_tokens \in Rows
    PROVE  /\ Count \in Nat /\ DOMAIN refresh_tokens = 1..Count
           /\ \A i \in 1..Count : refresh_tokens[i] \in RefreshToken
BY DEF Rows, Count

LEMMA RevokedAllFacts ==
    ASSUME refresh_tokens \in Rows, NEW how \in {"rotated", "logout", "password", "family"},
           NEW d \in Devices, NEW upto \in Nat
    PROVE  /\ Revocation(RevokedAll(upto, how, d), d)
           /\ \A i \in 1..Count : i <= upto => RevokedAll(upto, how, d)[i].revoked # "live"
<1> DEFINE f == [i \in 1..Count |->
                    IF i <= upto THEN Ended(refresh_tokens[i], how, d) ELSE refresh_tokens[i]]
<1>1. RevokedAll(upto, how, d) = f
  BY RowFacts DEF RevokedAll
<1>2. \A i \in 1..Count :
        /\ f[i] \in RefreshToken
        /\ f[i].pw = refresh_tokens[i].pw /\ f[i].over = refresh_tokens[i].over
        /\ ~Live(i) => f[i] = refresh_tokens[i]
        /\ f[i].by = refresh_tokens[i].by \/ f[i].by = d
        /\ i <= upto => f[i].revoked # "live"
  BY RowFacts, EndedFacts DEF Live
<1>3. f \in Rows /\ Len(f) = Count
  BY <1>2, RowFacts DEF Rows
<1> HIDE DEF f
<1>. QED  BY <1>1, <1>2, <1>3 DEF Revocation

LEMMA RevokedOneFacts ==
    ASSUME refresh_tokens \in Rows, NEW how \in {"rotated", "logout", "password", "family"},
           NEW d \in Devices, NEW j
    PROVE  Revocation(RevokedOne(j, how, d), d)
<1> DEFINE f == [i \in 1..Count |->
                    IF i = j THEN Ended(refresh_tokens[i], how, d) ELSE refresh_tokens[i]]
<1>1. RevokedOne(j, how, d) = f
  BY RowFacts DEF RevokedOne
<1>2. \A i \in 1..Count :
        /\ f[i] \in RefreshToken
        /\ f[i].pw = refresh_tokens[i].pw /\ f[i].over = refresh_tokens[i].over
        /\ ~Live(i) => f[i] = refresh_tokens[i]
        /\ f[i].by = refresh_tokens[i].by \/ f[i].by = d
  BY RowFacts, EndedFacts DEF Live
<1>3. f \in Rows /\ Len(f) = Count
  BY <1>2, RowFacts DEF Rows
<1> HIDE DEF f
<1>. QED  BY <1>1, <1>2, <1>3 DEF Revocation

LEMMA NoneRevoked ==
    ASSUME refresh_tokens \in Rows, NEW d
    PROVE  Revocation(refresh_tokens, d)
BY DEF Revocation, Count

\* Rows revoked and written, and none issued.
LEMMA RevokedMove ==
    ASSUME NEW d, NEW rows, Revocation(rows, d), refresh_tokens' = rows
    PROVE  RowsMove(d) /\ Count' = Count
BY DEF Revocation, RowsMove, Live, Count

LEMMA SameRows ==
    ASSUME refresh_tokens \in Rows, refresh_tokens' = refresh_tokens, NEW d
    PROVE  RowsMove(d) /\ Count' = Count
BY NoneRevoked, RevokedMove

\* Rows revoked and written, and one issued.
LEMMA IssuedMove ==
    ASSUME refresh_tokens \in Rows, NEW d, NEW rows, Revocation(rows, d), MayIssue,
           NEW pw \in 0..MaxChanges, NEW over \in 0..MaxChanges,
           refresh_tokens' = Issue(rows, pw, over)
    PROVE  RowsMove(d) /\ NewRow(pw, over)
<1> DEFINE row == [pw |-> pw, over |-> over, revoked |-> "live", by |-> "nobody"]
<1>1. row \in RefreshToken /\ row.pw = pw /\ row.over = over /\ row.by = "nobody"
  BY DEF RefreshToken
<1>2. rows \in Rows /\ Len(rows) = Count /\ Count \in Nat /\ Count < MaxTokens
  BY RowFacts DEF Revocation, MayIssue, Count
<1>3. refresh_tokens' = Append(rows, row)
  BY DEF Issue
<1> HIDE DEF row
<1>4. /\ refresh_tokens' \in Rows /\ Count' = Count + 1
      /\ \A i \in 1..Count : refresh_tokens'[i] = rows[i]
      /\ refresh_tokens'[Count + 1] = row
  BY <1>1, <1>2, <1>3 DEF Rows, Count
<1>5. \A i \in 1..Count :
        /\ refresh_tokens'[i].pw = refresh_tokens[i].pw
        /\ refresh_tokens'[i].over = refresh_tokens[i].over
        /\ ~Live(i) => refresh_tokens'[i] = refresh_tokens[i]
        /\ refresh_tokens'[i].by = refresh_tokens[i].by \/ refresh_tokens'[i].by = d
  BY <1>4 DEF Revocation
<1>6. \A i \in 1..Count :
        ~Live(i) => ~Live(i)' /\ refresh_tokens'[i].by = refresh_tokens[i].by
  BY <1>5 DEF Live
<1>7. Count' <= MaxTokens /\ Count' \in 1..MaxTokens
  BY <1>2, <1>4, BoundsAssumption
<1>8. RowsMove(d)
  BY <1>4, <1>5, <1>6, <1>7 DEF RowsMove
<1>. QED  BY <1>1, <1>4, <1>7, <1>8 DEF NewRow

-----------------------------------------------------------------------------
(* Requests and types *)

Marked(d) == form[d].op = "password" /\ form[d].step = "marked"

\* The row of an account is held by one change at a time.
OneChange ==
    \A d \in Devices : Marked(d) =>
        hashed_pw < MaxChanges /\ \A e \in Devices : Marked(e) => e = d

\* A request that names rows among n, and has a step only when there is one.
Within(r, n) ==
    /\ r.token \in 0..n /\ r.upto \in 0..n
    /\ r.step # "sent" => r.op # "idle"
    /\ r.op = "refresh" => r.token # 0

TypeInv ==
    /\ hashed_pw \in 0..MaxChanges
    /\ refresh_tokens \in Rows /\ Count <= MaxTokens
    /\ cookie \in [Devices -> 0..Count]
    /\ refreshing \in [Tabs -> Request] /\ form \in [Devices -> Request]
    /\ \A t \in Tabs : Within(refreshing[t], Count) /\ refreshing[t].op \in {"idle", "refresh"}
    /\ \A d \in Devices : Within(form[d], Count)
    /\ OneChange
    /\ disturbed \subseteq Devices /\ reused \subseteq Devices

LEMMA Bounds ==
    ASSUME TypeInv
    PROVE  Count \in 0..MaxTokens /\ 0..Count \subseteq 0..MaxTokens /\ MaxTokens \in Nat
           /\ MaxChanges \in Nat
BY RowFacts, BoundsAssumption DEF TypeInv

LEMMA IdleIs ==
    /\ Idle \in Request /\ \A n \in Nat : Within(Idle, n)
    /\ Idle.op = "idle" /\ Idle.token = 0 /\ Idle.step = "sent" /\ Idle.seen = "unread"
    /\ Idle.since = 0 /\ Idle.upto = 0
BY BoundsAssumption DEF Idle, Request, Within

LEMMA SentIs ==
    ASSUME NEW op \in {"refresh", "login", "logout", "password"}, NEW k \in 0..MaxTokens
    PROVE  /\ Sent(op, k) \in Request
           /\ Sent(op, k).op = op /\ Sent(op, k).token = k /\ Sent(op, k).step = "sent"
           /\ Sent(op, k).seen = "unread" /\ Sent(op, k).since = 0 /\ Sent(op, k).upto = 0
BY IdleIs DEF Sent, Request

LEMMA AnswerIs ==
    ASSUME NEW r \in Request, NEW k \in 0..MaxTokens
    PROVE  /\ Answer(r, k) \in Request
           /\ Answer(r, k).op = r.op /\ Answer(r, k).token = k
           /\ Answer(r, k).step = "answered" /\ Answer(r, k).seen = "unread"
           /\ Answer(r, k).since = 0 /\ Answer(r, k).upto = 0
BY IdleIs DEF Answer, Request

LEMMA MarkedIs ==
    ASSUME NEW r \in Request, NEW k \in 0..MaxTokens
    PROVE  LET q == [r EXCEPT !.step = "marked", !.upto = k] IN
           /\ q \in Request /\ q.step = "marked" /\ q.upto = k
           /\ q.op = r.op /\ q.token = r.token /\ q.seen = r.seen /\ q.since = r.since
BY DEF Request

LEMMA BegunIs ==
    ASSUME NEW r \in Request, NEW w \in 0..MaxChanges
    PROVE  LET q == [r EXCEPT !.step = "read", !.since = w] IN
           /\ q \in Request /\ q.step = "read" /\ q.seen = r.seen /\ q.since = w
           /\ q.op = r.op /\ q.token = r.token /\ q.upto = r.upto
BY DEF Request

LEMMA OverlappedType ==
    ASSUME TypeInv, NEW since \in 0..MaxChanges, NEW otherwise \in 0..MaxChanges
    PROVE  Overlapped(since, otherwise) \in 0..MaxChanges
BY Bounds DEF Overlapped, TypeInv, OneChange, Changing, Marked

\* A step of one tab, and of one browser's form.
TabStep(t) == form' = form /\ \A u \in Tabs \ {t} : refreshing'[u] = refreshing[u]

FormStep(d) == refreshing' = refreshing /\ \A e \in Devices \ {d} : form'[e] = form[e]

\* What the steps leave to the sets of browsers and to the cookies.
JarsTyped ==
    /\ cookie' \in [Devices -> 0..Count']
    /\ disturbed' \subseteq Devices /\ reused' \subseteq Devices

LEMMA CookiesStay ==
    ASSUME TypeInv, NEW d, RowsMove(d), cookie' = cookie
    PROVE  cookie' \in [Devices -> 0..Count']
BY Bounds DEF TypeInv, RowsMove

LEMMA StillWithin ==
    ASSUME TypeInv, NEW d, RowsMove(d), NEW r, Within(r, Count)
    PROVE  Within(r, Count')
BY Bounds DEF RowsMove, Within

LEMMA TabTypes ==
    ASSUME TypeInv, NEW t \in Tabs, NEW d, RowsMove(d), JarsTyped, hashed_pw' = hashed_pw,
           TabStep(t), refreshing' \in [Tabs -> Request],
           Within(refreshing'[t], Count'), refreshing'[t].op \in {"idle", "refresh"}
    PROVE  TypeInv'
<1>1. refresh_tokens' \in Rows /\ Count' <= MaxTokens
  BY Bounds DEF TypeInv, RowsMove
<1>2. \A u \in Tabs : Within(refreshing[u], Count)' /\ refreshing'[u].op \in {"idle", "refresh"}
  BY StillWithin DEF TypeInv, TabStep
<1>3. \A e \in Devices : Within(form[e], Count)'
  BY StillWithin DEF TypeInv, TabStep
<1>4. OneChange'
  BY DEF TypeInv, OneChange, Marked, TabStep
<1>. QED  BY <1>1, <1>2, <1>3, <1>4 DEF TypeInv, JarsTyped, TabStep

LEMMA FormTypes ==
    ASSUME TypeInv, NEW d \in Devices, RowsMove(d), JarsTyped, hashed_pw' \in 0..MaxChanges,
           FormStep(d), form' \in [Devices -> Request], Within(form'[d], Count'),
           hashed_pw' = hashed_pw \/ Marked(d),
           Marked(d)' => ~Changing /\ hashed_pw < MaxChanges /\ hashed_pw' = hashed_pw
    PROVE  TypeInv'
<1>1. refresh_tokens' \in Rows /\ Count' <= MaxTokens
  BY Bounds DEF TypeInv, RowsMove
<1>2. \A u \in Tabs : Within(refreshing[u], Count)' /\ refreshing'[u].op \in {"idle", "refresh"}
  BY StillWithin DEF TypeInv, FormStep
<1>3. \A e \in Devices : Within(form[e], Count)'
  BY StillWithin DEF TypeInv, FormStep
<1>4. OneChange'
  <2>1. \A e \in Devices \ {d} : Marked(e)' <=> Marked(e)
    BY DEF Marked, FormStep
  <2>2. Changing <=> \E e \in Devices : Marked(e)
    BY DEF Changing, Marked
  <2>. QED  BY <2>1, <2>2 DEF TypeInv, OneChange
<1>. QED  BY <1>1, <1>2, <1>3, <1>4 DEF TypeInv, JarsTyped, FormStep

-----------------------------------------------------------------------------
(* What each step does *)

LEMMA PutTab ==
    ASSUME TypeInv, NEW t \in Tabs, NEW q \in Request,
           refreshing' = [refreshing EXCEPT ![t] = q], form' = form
    PROVE  TabStep(t) /\ refreshing' \in [Tabs -> Request] /\ refreshing'[t] = q
BY DEF TypeInv, TabStep

LEMMA PutForm ==
    ASSUME TypeInv, NEW d \in Devices, NEW q \in Request,
           form' = [form EXCEPT ![d] = q], refreshing' = refreshing
    PROVE  FormStep(d) /\ form' \in [Devices -> Request] /\ form'[d] = q
BY DEF TypeInv, FormStep

LEMMA SendRefreshFacts ==
    ASSUME TypeInv, NEW t \in Tabs, SendRefresh(t)
    PROVE  /\ TabStep(t) /\ refreshing' \in [Tabs -> Request] /\ RowsMove(DeviceOf[t])
           /\ refreshing[t].op = "idle" /\ refreshing'[t].op = "refresh"
           /\ refreshing'[t].step = "sent" /\ refreshing'[t].token = cookie[DeviceOf[t]]
           /\ refreshing'[t].seen = "unread" /\ refreshing'[t].since = 0
           /\ refreshing'[t].upto = 0 /\ cookie[DeviceOf[t]] \in 1..Count
           /\ Count' = Count
<1>1. cookie[DeviceOf[t]] \in 1..Count /\ cookie[DeviceOf[t]] \in 0..MaxTokens
  <2>1. cookie[DeviceOf[t]] # 0
    BY DEF SendRefresh
  <2>2. DeviceOf[t] \in Devices /\ cookie \in [Devices -> 0..Count]
    BY TabsAssumption DEF TypeInv
  <2>. QED  BY <2>1, <2>2, Bounds
<1> DEFINE q == Sent("refresh", cookie[DeviceOf[t]])
<1>2. /\ q \in Request /\ q.op = "refresh" /\ q.token = cookie[DeviceOf[t]]
      /\ q.step = "sent" /\ q.seen = "unread" /\ q.since = 0 /\ q.upto = 0
  BY <1>1, SentIs
<1>3. refreshing' = [refreshing EXCEPT ![t] = q] /\ form' = form
      /\ refresh_tokens' = refresh_tokens /\ refreshing[t].op = "idle"
  BY DEF SendRefresh
<1>4. RowsMove(DeviceOf[t]) /\ Count' = Count
  BY <1>3, SameRows DEF TypeInv
<1> HIDE DEF q
<1>. QED  BY <1>1, <1>2, <1>3, <1>4, PutTab

LEMMA ReadTokenFacts ==
    ASSUME TypeInv, NEW t \in Tabs, ReadToken(t)
    PROVE  /\ TabStep(t) /\ refreshing' \in [Tabs -> Request] /\ RowsMove(DeviceOf[t])
           /\ refreshing[t].op = "refresh" /\ refreshing[t].step = "sent"
           /\ refreshing'[t].op = "refresh" /\ refreshing'[t].step = "read"
           /\ refreshing'[t].token = refreshing[t].token
           /\ refreshing'[t].upto = refreshing[t].upto
           /\ refreshing'[t].since = hashed_pw
           /\ refreshing'[t].seen = "revoked" <=> ~Live(refreshing[t].token)
           /\ refreshing[t].token \in 1..Count
           /\ refresh_tokens' = refresh_tokens /\ Count' = Count
<1>1. PICK seen \in {"live", "expired", "revoked"} :
        /\ (seen = "revoked") <=> ~Live(refreshing[t].token)
        /\ refreshing' = [refreshing EXCEPT ![t].step = "read", ![t].seen = seen,
                                            ![t].since = hashed_pw]
  BY DEF ReadToken
<1> DEFINE q == [refreshing[t] EXCEPT !.step = "read", !.seen = seen, !.since = hashed_pw]
<1>2. /\ q \in Request /\ q.step = "read" /\ q.seen = seen /\ q.since = hashed_pw
      /\ q.op = refreshing[t].op /\ q.token = refreshing[t].token
      /\ q.upto = refreshing[t].upto
  <2>1. /\ refreshing[t] \in Request /\ hashed_pw \in 0..MaxChanges
        /\ seen \in {"unread", "live", "expired", "revoked"}
    BY DEF TypeInv
  <2>. QED  BY <2>1 DEF Request
<1>3. /\ form' = form /\ refresh_tokens' = refresh_tokens
      /\ refreshing[t].op = "refresh" /\ refreshing[t].step = "sent"
  BY DEF ReadToken
<1>4. refreshing' = [refreshing EXCEPT ![t] = q]
  BY <1>1 DEF TypeInv
<1>5. refreshing[t].token \in 1..Count
  BY <1>3, Bounds DEF TypeInv, Within
<1>6. RowsMove(DeviceOf[t]) /\ Count' = Count
  BY <1>3, SameRows DEF TypeInv
<1> HIDE DEF q
<1>. QED  BY <1>1, <1>2, <1>3, <1>4, <1>5, <1>6, PutTab

LEMMA RotateFacts ==
    ASSUME TypeInv, NEW t \in Tabs, CommitRefresh(t), Rotate(t)
    PROVE  /\ TabStep(t) /\ refreshing' \in [Tabs -> Request] /\ RowsMove(DeviceOf[t])
           /\ refreshing[t].op = "refresh" /\ refreshing'[t].op = "refresh"
           /\ refreshing[t].step = "read" /\ refreshing[t].seen = "live"
           /\ refreshing[t].token \in 1..Count
           /\ refreshing'[t].step = "answered" /\ refreshing'[t].seen = "unread"
           /\ refreshing'[t].token = Count + 1 /\ refreshing'[t].since = 0
           /\ refreshing'[t].upto = 0
           /\ NewRow(refresh_tokens[refreshing[t].token].pw,
                     Overlapped(refreshing[t].since, refresh_tokens[refreshing[t].token].over))
<1> DEFINE r == refreshing[t]
           j == r.token
           pw == refresh_tokens[j].pw
           over == Overlapped(r.since, refresh_tokens[j].over)
           rows == RevokedOne(j, "rotated", DeviceOf[t])
<1>1. /\ form' = form /\ r.op = "refresh" /\ r.step = "read" /\ r.seen = "live" /\ MayIssue
      /\ refresh_tokens' = Issue(rows, pw, over)
      /\ refreshing' = [refreshing EXCEPT ![t] = Answer(r, Count + 1)]
  BY DEF CommitRefresh, Rotate, Count
<1>2. r \in Request /\ j \in 1..Count /\ r.since \in 0..MaxChanges /\ refresh_tokens \in Rows
  BY <1>1, Bounds DEF TypeInv, Within, Request
<1>3. pw \in 0..MaxChanges /\ over \in 0..MaxChanges
  <2>1. refresh_tokens[j] \in RefreshToken
    BY <1>2, RowFacts
  <2>2. pw \in 0..MaxChanges /\ refresh_tokens[j].over \in 0..MaxChanges
    BY <2>1 DEF RefreshToken
  <2> HIDE DEF r
  <2>. QED  BY <1>2, <2>2, OverlappedType
<1>4. Revocation(rows, DeviceOf[t])
  BY <1>2, TabsAssumption, RevokedOneFacts
<1> HIDE DEF rows, pw, over
<1>5. RowsMove(DeviceOf[t]) /\ NewRow(pw, over)
  BY <1>1, <1>2, <1>3, <1>4, IssuedMove
<1>6. Count + 1 \in 0..MaxTokens
  BY <1>5, Bounds DEF NewRow
<1>7. /\ Answer(r, Count + 1) \in Request /\ Answer(r, Count + 1).op = r.op
      /\ Answer(r, Count + 1).token = Count + 1 /\ Answer(r, Count + 1).step = "answered"
      /\ Answer(r, Count + 1).seen = "unread" /\ Answer(r, Count + 1).since = 0
      /\ Answer(r, Count + 1).upto = 0
  BY <1>2, <1>6, AnswerIs
<1>8. /\ TabStep(t) /\ refreshing' \in [Tabs -> Request]
      /\ refreshing'[t] = Answer(r, Count + 1)
  BY <1>1, <1>7, PutTab
<1>. QED  BY <1>1, <1>2, <1>5, <1>7, <1>8 DEF pw, over

LEMMA FindFamilyFacts ==
    ASSUME TypeInv, NEW t \in Tabs, CommitRefresh(t), FindFamily(t)
    PROVE  /\ TabStep(t) /\ refreshing' \in [Tabs -> Request] /\ RowsMove(DeviceOf[t])
           /\ refreshing[t].op = "refresh" /\ refreshing[t].step = "read"
           /\ refreshing[t].seen = "revoked"
           /\ refreshing'[t].op = "refresh" /\ refreshing'[t].step = "marked"
           /\ refreshing'[t].token = refreshing[t].token
           /\ refreshing'[t].seen = refreshing[t].seen
           /\ refreshing'[t].since = refreshing[t].since
           /\ refreshing'[t].upto = Count /\ refresh_tokens' = refresh_tokens
           /\ Count' = Count
<1> DEFINE q == [refreshing[t] EXCEPT !.step = "marked", !.upto = Count]
<1>1. /\ refresh_tokens' = refresh_tokens /\ form' = form
      /\ refreshing[t].op = "refresh" /\ refreshing[t].step = "read"
      /\ refreshing[t].seen = "revoked"
      /\ refreshing' = [refreshing EXCEPT ![t].step = "marked", ![t].upto = Count]
  BY DEF CommitRefresh, FindFamily, Count
<1>2. /\ q \in Request /\ q.step = "marked" /\ q.upto = Count
      /\ q.op = refreshing[t].op /\ q.token = refreshing[t].token
      /\ q.seen = refreshing[t].seen /\ q.since = refreshing[t].since
  <2>1. refreshing[t] \in Request /\ Count \in 0..MaxTokens
    BY Bounds DEF TypeInv
  <2>. QED  BY <2>1, MarkedIs
<1>3. refreshing' = [refreshing EXCEPT ![t] = q]
  BY <1>1 DEF TypeInv
<1>4. RowsMove(DeviceOf[t]) /\ Count' = Count
  BY <1>1, SameRows DEF TypeInv
<1> HIDE DEF q
<1>. QED  BY <1>1, <1>2, <1>3, <1>4, PutTab

LEMMA RevokeFamilyFacts ==
    ASSUME TypeInv, NEW t \in Tabs, CommitRefresh(t), RevokeFamily(t)
    PROVE  /\ TabStep(t) /\ refreshing' \in [Tabs -> Request] /\ RowsMove(DeviceOf[t])
           /\ refreshing[t].op = "refresh" /\ refreshing[t].step = "marked"
           /\ refreshing'[t] = Idle /\ Count' = Count
<1>1. /\ form' = form /\ refreshing[t].op = "refresh" /\ refreshing[t].step = "marked"
      /\ refreshing' = [refreshing EXCEPT ![t] = Idle]
      /\ refresh_tokens' = RevokedAll(refreshing[t].upto, "family", DeviceOf[t])
  BY DEF CommitRefresh, RevokeFamily
<1>2. Revocation(RevokedAll(refreshing[t].upto, "family", DeviceOf[t]), DeviceOf[t])
  <2>1. refreshing[t].upto \in Nat /\ refresh_tokens \in Rows
    BY Bounds DEF TypeInv, Within
  <2>. QED  BY <2>1, TabsAssumption, RevokedAllFacts
<1>3. RowsMove(DeviceOf[t]) /\ Count' = Count
  BY <1>1, <1>2, RevokedMove
<1>. QED  BY <1>1, <1>3, IdleIs, PutTab

LEMMA RefuseExpiredFacts ==
    ASSUME TypeInv, NEW t \in Tabs, CommitRefresh(t), RefuseExpired(t)
    PROVE  /\ TabStep(t) /\ refreshing' \in [Tabs -> Request] /\ RowsMove(DeviceOf[t])
           /\ refreshing[t].op = "refresh" /\ refreshing[t].step = "read"
           /\ refreshing'[t] = Idle /\ refresh_tokens' = refresh_tokens /\ Count' = Count
<1>1. /\ form' = form /\ refreshing[t].op = "refresh" /\ refreshing[t].step = "read"
      /\ refreshing' = [refreshing EXCEPT ![t] = Idle] /\ refresh_tokens' = refresh_tokens
  BY DEF CommitRefresh, RefuseExpired
<1>. QED  BY <1>1, SameRows, IdleIs, PutTab DEF TypeInv

LEMMA RefreshAnswerFacts ==
    ASSUME TypeInv, NEW t \in Tabs, RefreshAnswer(t)
    PROVE  /\ TabStep(t) /\ refreshing' \in [Tabs -> Request] /\ RowsMove(DeviceOf[t])
           /\ refreshing[t].op # "idle" /\ refreshing[t].step = "answered"
           /\ refreshing'[t] = Idle /\ refresh_tokens' = refresh_tokens /\ Count' = Count
<1>1. /\ form' = form /\ refreshing[t].step = "answered"
      /\ refreshing' = [refreshing EXCEPT ![t] = Idle] /\ refresh_tokens' = refresh_tokens
  BY DEF RefreshAnswer
<1>2. refreshing[t].op # "idle"
  BY <1>1 DEF TypeInv, Within
<1>. QED  BY <1>1, <1>2, SameRows, IdleIs, PutTab DEF TypeInv

\* A form that takes another value, and rows that stay.
LEMMA FormFacts ==
    ASSUME TypeInv, NEW d \in Devices, NEW q \in Request,
           form' = [form EXCEPT ![d] = q], refreshing' = refreshing,
           refresh_tokens' = refresh_tokens
    PROVE  /\ FormStep(d) /\ form' \in [Devices -> Request] /\ form'[d] = q
           /\ RowsMove(d) /\ Count' = Count
BY PutForm, SameRows DEF TypeInv

LEMMA LoginFacts ==
    ASSUME TypeInv, NEW d \in Devices, Login(d)
    PROVE  /\ FormStep(d) /\ form' \in [Devices -> Request] /\ RowsMove(d)
           /\ form[d].op = "idle" /\ form'[d].op = "login" /\ form'[d].step = "sent"
           /\ form'[d].token = 0 /\ form'[d].since = 0 /\ form'[d].upto = 0
           /\ Count' = Count
<1> DEFINE q == Sent("login", 0)
<1>1. /\ q \in Request /\ q.op = "login" /\ q.token = 0 /\ q.step = "sent"
      /\ q.since = 0 /\ q.upto = 0
  BY Bounds, SentIs
<1>2. /\ form' = [form EXCEPT ![d] = q] /\ refreshing' = refreshing
      /\ refresh_tokens' = refresh_tokens /\ form[d].op = "idle"
  BY DEF Login
<1> HIDE DEF q
<1>. QED  BY <1>1, <1>2, FormFacts

LEMMA SubmitFacts ==
    ASSUME TypeInv, NEW d \in Devices, NEW op \in {"logout", "password"}, Submit(d, op)
    PROVE  /\ FormStep(d) /\ form' \in [Devices -> Request] /\ RowsMove(d)
           /\ form[d].op = "idle" /\ form'[d].op = op /\ form'[d].step = "sent"
           /\ form'[d].token = cookie[d] /\ form'[d].since = 0 /\ form'[d].upto = 0
           /\ Count' = Count
<1> DEFINE q == Sent(op, cookie[d])
<1>1. /\ q \in Request /\ q.op = op /\ q.token = cookie[d] /\ q.step = "sent"
      /\ q.since = 0 /\ q.upto = 0
  <2>1. cookie[d] \in 0..MaxTokens
    BY Bounds DEF TypeInv
  <2>2. op \in {"refresh", "login", "logout", "password"}
    OBVIOUS
  <2>. QED  BY <2>1, <2>2, SentIs
<1>2. /\ form' = [form EXCEPT ![d] = q] /\ refreshing' = refreshing
      /\ refresh_tokens' = refresh_tokens /\ form[d].op = "idle"
  BY DEF Submit
<1> HIDE DEF q
<1>. QED  BY <1>1, <1>2, FormFacts

\* A form that is refused, or whose answer is over.
LEMMA FormOverFacts ==
    ASSUME TypeInv, NEW d \in Devices, WrongPassword(d) \/ RefuseChange(d) \/ FormAnswer(d)
    PROVE  /\ FormStep(d) /\ form' \in [Devices -> Request] /\ RowsMove(d)
           /\ form[d].op # "idle" /\ form'[d] = Idle /\ Count' = Count
<1>1. /\ form' = [form EXCEPT ![d] = Idle] /\ refreshing' = refreshing
      /\ refresh_tokens' = refresh_tokens
  BY DEF WrongPassword, RefuseChange, FormAnswer
<1>2. form[d].op # "idle"
  BY DEF WrongPassword, RefuseChange, FormAnswer, TypeInv, Within
<1>. QED  BY <1>1, <1>2, IdleIs, FormFacts

LEMMA VerifyPasswordFacts ==
    ASSUME TypeInv, NEW d \in Devices, VerifyPassword(d)
    PROVE  /\ FormStep(d) /\ form' \in [Devices -> Request] /\ RowsMove(d)
           /\ form[d].op = "login" /\ form'[d].op = "login"
           /\ form[d].step = "sent" /\ form'[d].step = "read"
           /\ form'[d].token = form[d].token /\ form'[d].since = hashed_pw
           /\ form'[d].upto = form[d].upto /\ Count' = Count
<1> DEFINE q == [form[d] EXCEPT !.step = "read", !.since = hashed_pw]
<1>1. /\ q \in Request /\ q.op = form[d].op /\ q.token = form[d].token /\ q.step = "read"
      /\ q.since = hashed_pw /\ q.upto = form[d].upto
  <2>1. form[d] \in Request /\ hashed_pw \in 0..MaxChanges
    BY DEF TypeInv
  <2>. QED  BY <2>1, BegunIs
<1>2. /\ form' = [form EXCEPT ![d] = q] /\ refreshing' = refreshing
      /\ refresh_tokens' = refresh_tokens /\ form[d].op = "login" /\ form[d].step = "sent"
  BY DEF VerifyPassword, TypeInv
<1> HIDE DEF q
<1>. QED  BY <1>1, <1>2, FormFacts

LEMMA MarkSessionsFacts ==
    ASSUME TypeInv, NEW d \in Devices, MarkSessions(d)
    PROVE  /\ FormStep(d) /\ form' \in [Devices -> Request] /\ RowsMove(d)
           /\ form[d].op = "password" /\ form'[d].op = "password"
           /\ form[d].step = "sent" /\ form'[d].step = "marked"
           /\ form'[d].token = form[d].token /\ form'[d].since = form[d].since
           /\ form'[d].upto = Count /\ Count' = Count
<1> DEFINE q == [form[d] EXCEPT !.step = "marked", !.upto = Count]
<1>1. /\ q \in Request /\ q.op = form[d].op /\ q.token = form[d].token /\ q.step = "marked"
      /\ q.since = form[d].since /\ q.upto = Count
  <2>1. form[d] \in Request /\ Count \in 0..MaxTokens
    BY Bounds DEF TypeInv
  <2>. QED  BY <2>1, MarkedIs
<1>2. /\ form' = [form EXCEPT ![d] = q] /\ refreshing' = refreshing
      /\ refresh_tokens' = refresh_tokens /\ form[d].op = "password" /\ form[d].step = "sent"
  BY DEF MarkSessions, TypeInv, Count
<1> HIDE DEF q
<1>. QED  BY <1>1, <1>2, FormFacts

\* A form that is answered.
LEMMA AnsweredFacts ==
    ASSUME TypeInv, NEW d \in Devices, NEW k \in 0..MaxTokens,
           form' = [form EXCEPT ![d] = Answer(@, k)], refreshing' = refreshing
    PROVE  /\ FormStep(d) /\ form' \in [Devices -> Request]
           /\ form'[d].op = form[d].op /\ form'[d].step = "answered"
           /\ form'[d].token = k /\ form'[d].since = 0 /\ form'[d].upto = 0
<1> DEFINE q == Answer(form[d], k)
<1>1. /\ q \in Request /\ q.op = form[d].op /\ q.token = k /\ q.step = "answered"
      /\ q.since = 0 /\ q.upto = 0
  <2>1. form[d] \in Request
    BY DEF TypeInv
  <2>. QED  BY <2>1, AnswerIs
<1>2. form' = [form EXCEPT ![d] = q]
  OBVIOUS
<1> HIDE DEF q
<1>. QED  BY <1>1, <1>2, PutForm

LEMMA LogoutFacts ==
    ASSUME TypeInv, NEW d \in Devices, Logout(d)
    PROVE  /\ FormStep(d) /\ form' \in [Devices -> Request] /\ RowsMove(d)
           /\ form[d].op = "logout" /\ form'[d].op = "logout"
           /\ form[d].step = "sent" /\ form'[d].step = "answered"
           /\ form'[d].token = 0 /\ form'[d].since = 0 /\ form'[d].upto = 0
           /\ Count' = Count
<1>1. /\ form' = [form EXCEPT ![d] = Answer(@, 0)] /\ refreshing' = refreshing
      /\ refresh_tokens' = RevokedOne(form[d].token, "logout", d)
      /\ form[d].op = "logout" /\ form[d].step = "sent"
  BY DEF Logout
<1>2. Revocation(RevokedOne(form[d].token, "logout", d), d)
  BY RevokedOneFacts DEF TypeInv
<1>3. RowsMove(d) /\ Count' = Count
  BY <1>1, <1>2, RevokedMove
<1>4. 0 \in 0..MaxTokens
  BY Bounds
<1>. QED  BY <1>1, <1>3, <1>4, AnsweredFacts

LEMMA IssueSessionFacts ==
    ASSUME TypeInv, NEW d \in Devices, IssueSession(d)
    PROVE  /\ FormStep(d) /\ form' \in [Devices -> Request] /\ RowsMove(d)
           /\ form[d].op = "login" /\ form'[d].op = "login"
           /\ form[d].step = "read" /\ form'[d].step = "answered"
           /\ form'[d].token = Count + 1 /\ form'[d].since = 0 /\ form'[d].upto = 0
           /\ NewRow(form[d].since, Overlapped(form[d].since, 0))
<1> DEFINE over == Overlapped(form[d].since, 0)
<1>1. /\ form' = [form EXCEPT ![d] = Answer(@, Count + 1)] /\ refreshing' = refreshing
      /\ refresh_tokens' = Issue(refresh_tokens, form[d].since, over)
      /\ form[d].op = "login" /\ form[d].step = "read" /\ MayIssue
  BY DEF IssueSession, Count
<1>2. form[d].since \in 0..MaxChanges /\ over \in 0..MaxChanges
  <2>1. form[d].since \in 0..MaxChanges /\ 0 \in 0..MaxChanges
    BY Bounds DEF TypeInv, Request
  <2>. QED  BY <2>1, OverlappedType
<1> HIDE DEF over
<1>3. RowsMove(d) /\ NewRow(form[d].since, over)
  BY <1>1, <1>2, NoneRevoked, IssuedMove DEF TypeInv
<1>4. Count + 1 \in 0..MaxTokens
  BY <1>3, Bounds DEF NewRow
<1>. QED  BY <1>1, <1>3, <1>4, AnsweredFacts DEF over

LEMMA ChangePasswordFacts ==
    ASSUME TypeInv, NEW d \in Devices, ChangePassword(d)
    PROVE  /\ FormStep(d) /\ form' \in [Devices -> Request] /\ RowsMove(d)
           /\ Marked(d) /\ form'[d].op = "password" /\ form'[d].step = "answered"
           /\ form'[d].token = Count + 1 /\ form'[d].since = 0 /\ form'[d].upto = 0
           /\ hashed_pw' = hashed_pw + 1 /\ hashed_pw + 1 \in 0..MaxChanges
           /\ NewRow(hashed_pw + 1, 0)
           /\ \A i \in 1..Count : i <= form[d].upto => ~Live(i)'
<1> DEFINE rows == RevokedAll(form[d].upto, "password", d)
<1>1. /\ form' = [form EXCEPT ![d] = Answer(@, Count + 1)] /\ refreshing' = refreshing
      /\ refresh_tokens' = Issue(rows, hashed_pw + 1, 0)
      /\ Marked(d) /\ MayIssue /\ hashed_pw' = hashed_pw + 1
  BY DEF ChangePassword, Count, Marked
<1>2. /\ refresh_tokens \in Rows /\ form[d].upto \in Nat /\ 0 \in 0..MaxChanges
      /\ hashed_pw + 1 \in 0..MaxChanges
  BY <1>1, Bounds DEF TypeInv, Within, OneChange
<1>3. Revocation(rows, d) /\ \A i \in 1..Count : i <= form[d].upto => rows[i].revoked # "live"
  BY <1>2, RevokedAllFacts
<1> HIDE DEF rows
<1>4. RowsMove(d) /\ NewRow(hashed_pw + 1, 0)
  BY <1>1, <1>2, <1>3, IssuedMove
<1>5. Count + 1 \in 0..MaxTokens
  BY <1>4, Bounds DEF NewRow
<1>6. \A i \in 1..Count : refresh_tokens'[i] = rows[i]
  BY <1>1, <1>2, <1>3 DEF Issue, Revocation, Rows
<1>7. \A i \in 1..Count : i <= form[d].upto => ~Live(i)'
  BY <1>3, <1>6 DEF Live
<1>8. /\ FormStep(d) /\ form' \in [Devices -> Request]
      /\ form'[d].op = form[d].op /\ form'[d].step = "answered"
      /\ form'[d].token = Count + 1 /\ form'[d].since = 0 /\ form'[d].upto = 0
  BY <1>1, <1>5, AnsweredFacts
<1>. QED  BY <1>1, <1>2, <1>4, <1>7, <1>8 DEF Marked

-----------------------------------------------------------------------------
(* The types are kept *)

LEMMA TypesStart == AccountsInit => TypeInv
<1> SUFFICES ASSUME AccountsInit PROVE TypeInv
  OBVIOUS
<1>1. refresh_tokens \in Rows /\ Count = 0
  BY DEF AccountsInit, Rows, Count
<1>2. OneChange
  BY IdleIs DEF AccountsInit, OneChange, Marked
<1>. QED  BY <1>1, <1>2, IdleIs, BoundsAssumption DEF AccountsInit, TypeInv

LEMMA NewPlace ==
    ASSUME TypeInv, NEW pw, NEW over, NewRow(pw, over)
    PROVE  Count + 1 \in 0..Count' /\ Count + 1 # 0 /\ 0 \in 0..Count'
BY Bounds DEF NewRow

LEMMA RaceTypes ==
    ASSUME TypeInv, NEW d \in Devices, Race(d)
    PROVE  disturbed' \subseteq Devices
BY DEF Race, TypeInv

LEMMA ArrivalTypes ==
    ASSUME TypeInv, NEW d \in Devices, NEW r, r.token \in 0..Count, Count' = Count,
           Arrives(d, r) \/ GoesMissing(d), reused' = reused
    PROVE  JarsTyped
BY DEF Arrives, GoesMissing, TypeInv, JarsTyped

LEMMA RefreshTypes ==
    ASSUME TypeInv, NEW t \in Tabs, Refresh(t)
    PROVE  TypeInv'
<1> DEFINE d == DeviceOf[t]
<1>0. d \in Devices /\ Within(refreshing[t], Count) /\ Count \in Nat
  BY TabsAssumption, Bounds DEF TypeInv
<1>1. CASE SendRefresh(t)
  <2>1. JarsTyped /\ hashed_pw' = hashed_pw
    BY <1>0, <1>1, RaceTypes, CookiesStay, SendRefreshFacts DEF SendRefresh, JarsTyped, TypeInv
  <2>2. Within(refreshing'[t], Count')
    BY <1>0, <1>1, SendRefreshFacts DEF Within
  <2>. QED  BY <1>1, <2>1, <2>2, SendRefreshFacts, TabTypes
<1>2. CASE ReadToken(t)
  <2>1. JarsTyped /\ hashed_pw' = hashed_pw
    BY <1>2, CookiesStay, ReadTokenFacts DEF ReadToken, JarsTyped, TypeInv
  <2>2. Within(refreshing'[t], Count')
    BY <1>0, <1>2, ReadTokenFacts DEF Within
  <2>. QED  BY <1>2, <2>1, <2>2, ReadTokenFacts, TabTypes
<1>3. CASE CommitRefresh(t)
  <2>0. cookie' = cookie /\ hashed_pw' = hashed_pw /\ disturbed' \subseteq Devices
    BY <1>3 DEF CommitRefresh, TypeInv
  <2>1. CASE Rotate(t)
    <3>1. JarsTyped
      BY <1>3, <2>0, <2>1, CookiesStay, RotateFacts DEF Rotate, JarsTyped, TypeInv
    <3>2. Within(refreshing'[t], Count')
      BY <1>0, <1>3, <2>1, RotateFacts, NewPlace DEF Within
    <3>. QED  BY <1>3, <2>0, <2>1, <3>1, <3>2, RotateFacts, TabTypes
  <2>2. CASE FindFamily(t)
    <3>1. JarsTyped
      BY <1>3, <2>0, <2>2, CookiesStay, FindFamilyFacts DEF FindFamily, JarsTyped, TypeInv
    <3>2. Within(refreshing'[t], Count')
      BY <1>0, <1>3, <2>2, FindFamilyFacts DEF Within
    <3>. QED  BY <1>3, <2>0, <2>2, <3>1, <3>2, FindFamilyFacts, TabTypes
  <2>3. CASE RevokeFamily(t)
    <3>1. JarsTyped
      BY <1>0, <1>3, <2>0, <2>3, CookiesStay, RevokeFamilyFacts DEF RevokeFamily, JarsTyped, TypeInv
    <3>. QED  BY <1>0, <1>3, <2>0, <2>3, <3>1, RevokeFamilyFacts, IdleIs, TabTypes
  <2>4. CASE RefuseExpired(t)
    <3>1. JarsTyped
      BY <1>3, <2>0, <2>4, CookiesStay, RefuseExpiredFacts DEF RefuseExpired, JarsTyped, TypeInv
    <3>. QED  BY <1>0, <1>3, <2>0, <2>4, <3>1, RefuseExpiredFacts, IdleIs, TabTypes
  <2>. QED  BY <1>3, <2>1, <2>2, <2>3, <2>4 DEF CommitRefresh
<1>4. CASE RefreshAnswer(t)
  <2>1. JarsTyped /\ hashed_pw' = hashed_pw
    BY <1>0, <1>4, RefreshAnswerFacts, ArrivalTypes DEF RefreshAnswer, Within
  <2>. QED  BY <1>0, <1>4, <2>1, RefreshAnswerFacts, IdleIs, TabTypes
<1>. QED  BY <1>1, <1>2, <1>3, <1>4 DEF Refresh

LEMMA SignInTypes ==
    ASSUME TypeInv, NEW d \in Devices, SignIn(d)
    PROVE  TypeInv'
<1>0. Within(form[d], Count) /\ Count \in Nat /\ hashed_pw \in 0..MaxChanges
  BY Bounds DEF TypeInv
<1>1. CASE Login(d)
  <2>1. JarsTyped /\ hashed_pw' = hashed_pw
    BY <1>1, RaceTypes, CookiesStay, LoginFacts DEF Login, JarsTyped, TypeInv
  <2>2. Within(form'[d], Count') /\ ~Marked(d)'
    BY <1>0, <1>1, LoginFacts DEF Within, Marked
  <2>. QED  BY <1>0, <1>1, <2>1, <2>2, LoginFacts, FormTypes
<1>2. CASE WrongPassword(d)
  <2>1. JarsTyped /\ hashed_pw' = hashed_pw
    BY <1>2, CookiesStay, FormOverFacts DEF WrongPassword, JarsTyped, TypeInv
  <2>2. Within(form'[d], Count') /\ ~Marked(d)'
    BY <1>0, <1>2, FormOverFacts, IdleIs DEF Marked
  <2>. QED  BY <1>0, <1>2, <2>1, <2>2, FormOverFacts, FormTypes
<1>3. CASE VerifyPassword(d)
  <2>1. JarsTyped /\ hashed_pw' = hashed_pw
    BY <1>3, CookiesStay, VerifyPasswordFacts DEF VerifyPassword, JarsTyped, TypeInv
  <2>2. Within(form'[d], Count') /\ ~Marked(d)'
    BY <1>0, <1>3, VerifyPasswordFacts DEF Within, Marked
  <2>. QED  BY <1>0, <1>3, <2>1, <2>2, VerifyPasswordFacts, FormTypes
<1>4. CASE IssueSession(d)
  <2>1. JarsTyped /\ hashed_pw' = hashed_pw
    BY <1>4, CookiesStay, IssueSessionFacts DEF IssueSession, JarsTyped, TypeInv
  <2>2. Within(form'[d], Count') /\ ~Marked(d)'
    BY <1>0, <1>4, IssueSessionFacts, NewPlace DEF Within, Marked
  <2>. QED  BY <1>0, <1>4, <2>1, <2>2, IssueSessionFacts, FormTypes
<1>. QED  BY <1>1, <1>2, <1>3, <1>4 DEF SignIn

LEMMA SettleTypes ==
    ASSUME TypeInv, NEW d \in Devices, SettleForm(d)
    PROVE  TypeInv'
<1>0. Within(form[d], Count) /\ Count \in Nat /\ hashed_pw \in 0..MaxChanges /\ cookie[d] \in 0..Count
  BY Bounds DEF TypeInv
<1>1. ASSUME NEW op \in {"logout", "password"}, Submit(d, op)  PROVE TypeInv'
  <2>1. JarsTyped /\ hashed_pw' = hashed_pw
    BY <1>1, RaceTypes, CookiesStay, SubmitFacts DEF Submit, JarsTyped, TypeInv
  <2>2. Within(form'[d], Count') /\ ~Marked(d)'
    BY <1>0, <1>1, SubmitFacts DEF Within, Marked
  <2>. QED  BY <1>0, <1>1, <2>1, <2>2, SubmitFacts, FormTypes
<1>2. CASE Logout(d)
  <2>1. JarsTyped /\ hashed_pw' = hashed_pw
    BY <1>2, CookiesStay, LogoutFacts DEF Logout, JarsTyped, TypeInv
  <2>2. Within(form'[d], Count') /\ ~Marked(d)'
    BY <1>0, <1>2, LogoutFacts DEF Within, Marked
  <2>. QED  BY <1>0, <1>2, <2>1, <2>2, LogoutFacts, FormTypes
<1>3. CASE MarkSessions(d)
  <2>1. /\ JarsTyped /\ hashed_pw' = hashed_pw /\ ~Changing /\ hashed_pw < MaxChanges
    BY <1>3, CookiesStay, MarkSessionsFacts DEF MarkSessions, JarsTyped, TypeInv
  <2>2. Within(form'[d], Count')
    BY <1>0, <1>3, MarkSessionsFacts DEF Within
  <2>. QED  BY <1>0, <1>3, <2>1, <2>2, MarkSessionsFacts, FormTypes
<1>4. CASE ChangePassword(d)
  <2>1. JarsTyped
    BY <1>4, CookiesStay, ChangePasswordFacts DEF ChangePassword, JarsTyped, TypeInv
  <2>2. Within(form'[d], Count') /\ ~Marked(d)'
    BY <1>0, <1>4, ChangePasswordFacts, NewPlace DEF Within, Marked
  <2>. QED  BY <1>0, <1>4, <2>1, <2>2, ChangePasswordFacts, FormTypes
<1>5. CASE RefuseChange(d)
  <2>1. JarsTyped /\ hashed_pw' = hashed_pw
    BY <1>5, CookiesStay, FormOverFacts DEF RefuseChange, JarsTyped, TypeInv
  <2>2. Within(form'[d], Count') /\ ~Marked(d)'
    BY <1>0, <1>5, FormOverFacts, IdleIs DEF Marked
  <2>. QED  BY <1>0, <1>5, <2>1, <2>2, FormOverFacts, FormTypes
<1>6. CASE FormAnswer(d)
  <2>1. JarsTyped /\ hashed_pw' = hashed_pw
    BY <1>0, <1>6, FormOverFacts, ArrivalTypes DEF FormAnswer, Within
  <2>2. Within(form'[d], Count') /\ ~Marked(d)'
    BY <1>0, <1>6, FormOverFacts, IdleIs DEF Marked
  <2>. QED  BY <1>0, <1>6, <2>1, <2>2, FormOverFacts, FormTypes
<1>. QED  BY <1>1, <1>2, <1>3, <1>4, <1>5, <1>6 DEF SettleForm

LEMMA TypesStep == TypeInv /\ [AccountsNext]_accountVars => TypeInv'
<1>1. CASE UNCHANGED accountVars
  BY <1>1 DEF accountVars, TypeInv, OneChange, Marked, Count
<1>. QED  BY <1>1, RefreshTypes, SignInTypes, SettleTypes DEF AccountsNext

\* Every row, cookie and request is of its kind, a request never carries a token
\* that has no row, and the account's row is held by one change at a time.
THEOREM AccountsTyped == AccountsSpec => []TypeInv
BY TypesStart, TypesStep, PTL DEF AccountsSpec

-----------------------------------------------------------------------------
(* A password change ends every earlier session *)

\* A row of an older password was under way with the last change.
Accounted(i) ==
    /\ refresh_tokens[i].pw <= hashed_pw
    /\ Live(i) /\ refresh_tokens[i].pw < hashed_pw => refresh_tokens[i].over >= hashed_pw

\* No request has read a password that is not stored yet.
ReadBefore ==
    /\ \A t \in Tabs : refreshing[t].since <= hashed_pw
    /\ \A d \in Devices : form[d].since <= hashed_pw

\* The rows a change passes over were under way together with it.
PassedOver ==
    \A d \in Devices : Marked(d) => \A i \in 1..Count :
        i > form[d].upto /\ Live(i) => refresh_tokens[i].over >= hashed_pw + 1

\* A row that was read live is of the password stored then, or accounted for.
ReadLive ==
    \A t \in Tabs :
        refreshing[t].step = "read" /\ refreshing[t].seen = "live"
        /\ refreshing[t].since = hashed_pw =>
            LET row == refresh_tokens[refreshing[t].token] IN
            row.pw = hashed_pw \/ row.over >= hashed_pw

Older == (\A i \in 1..Count : Accounted(i)) /\ ReadBefore /\ PassedOver /\ ReadLive

LEMMA OlderStart == AccountsInit => Older
<1> SUFFICES ASSUME AccountsInit PROVE Older
  OBVIOUS
<1>1. Count = 0
  BY DEF AccountsInit, Count
<1>. QED  BY <1>1, IdleIs DEF AccountsInit, Older, Accounted, ReadBefore, PassedOver, ReadLive, Marked

\* A row that is new has its password, or its overlap, accounted for.
Accountable(pw, over) ==
    /\ pw <= hashed_pw /\ (pw < hashed_pw => over >= hashed_pw)
    /\ Changing => over >= hashed_pw + 1

\* The rows after a step that changes no password.
LEMMA RowsOlder ==
    ASSUME TypeInv, Older, NEW d, RowsMove(d), hashed_pw' = hashed_pw,
           Count' = Count \/ \E pw, over : NewRow(pw, over) /\ Accountable(pw, over)
    PROVE  /\ \A i \in 1..Count' : Accounted(i)'
           /\ Changing => \A i \in 1..Count' : i > Count => refresh_tokens'[i].over >= hashed_pw + 1
<1>0. Count \in Nat /\ hashed_pw \in Nat
  BY Bounds DEF TypeInv
<1>1. \A i \in 1..Count : Accounted(i)'
  BY DEF RowsMove, Older, Accounted
<1>2. CASE Count' = Count
  BY <1>0, <1>1, <1>2
<1>3. ASSUME NEW pw, NEW over, NewRow(pw, over), Accountable(pw, over)
      PROVE  /\ Count' = Count + 1 /\ \A k : k = Count + 1 => Accounted(k)'
             /\ Changing => refresh_tokens'[Count + 1].over >= hashed_pw + 1
  <2>1. /\ Count' = Count + 1
        /\ refresh_tokens'[Count + 1].pw = pw /\ refresh_tokens'[Count + 1].over = over
    BY <1>3 DEF NewRow
  <2>2. ASSUME NEW k, k = Count + 1  PROVE Accounted(k)'
    <3>1. refresh_tokens'[k].pw = pw /\ refresh_tokens'[k].over = over
      BY <2>1, <2>2
    <3>. QED  BY <1>3, <3>1 DEF Accountable, Accounted
  <2>. QED  BY <1>3, <2>1, <2>2 DEF Accountable
<1>4. \A i \in 1..(Count + 1) : i \in 1..Count \/ i = Count + 1
  BY <1>0
<1>5. CASE \E pw, over : NewRow(pw, over) /\ Accountable(pw, over)
  <2>1. /\ Count' = Count + 1 /\ \A k : k = Count + 1 => Accounted(k)'
        /\ Changing => refresh_tokens'[Count + 1].over >= hashed_pw + 1
    BY <1>3, <1>5
  <2>2. \A i \in 1..Count' : i \in 1..Count \/ i = Count + 1
    BY <1>4, <2>1
  <2>3. \A i \in 1..Count' : Accounted(i)'
    BY <1>1, <2>1, <2>2
  <2>4. \A i \in 1..Count' : i > Count => i = Count + 1
    BY <1>0, <2>2
  <2>. QED  BY <2>1, <2>3, <2>4
<1>. QED  BY <1>2, <1>5

LEMMA TabOlder ==
    ASSUME TypeInv, TypeInv', Older, NEW t \in Tabs, NEW d, RowsMove(d), TabStep(t),
           hashed_pw' = hashed_pw, refreshing'[t].since <= hashed_pw,
           refreshing'[t].step = "read" /\ refreshing'[t].seen = "live"
           /\ refreshing'[t].since = hashed_pw =>
                Live(refreshing'[t].token) /\ refreshing'[t].token \in 1..Count,
           Count' = Count \/ \E pw, over : NewRow(pw, over) /\ Accountable(pw, over)
    PROVE  Older'
<1>0. Count \in Nat /\ hashed_pw \in Nat
  BY Bounds DEF TypeInv
<1>1. \A i \in 1..Count' : Accounted(i)'
  BY RowsOlder
<1>2. ReadBefore'
  BY DEF Older, ReadBefore, TabStep
<1>3. PassedOver'
  <2> SUFFICES ASSUME NEW e \in Devices, Marked(e)', NEW i \in 1..Count',
                      i > form'[e].upto, Live(i)'
               PROVE  refresh_tokens'[i].over >= hashed_pw' + 1
    BY DEF PassedOver
  <2>1. Marked(e) /\ form'[e] = form[e] /\ Changing
    BY DEF Marked, TabStep, Changing
  <2>2. CASE i > Count
    BY <2>1, <2>2, RowsOlder
  <2>3. CASE i \in 1..Count
    BY <2>1, <2>3 DEF RowsMove, Older, PassedOver
  <2>. QED  BY <1>0, <2>2, <2>3 DEF RowsMove
<1>4. ReadLive'
  <2> SUFFICES ASSUME NEW u \in Tabs, refreshing'[u].step = "read",
                      refreshing'[u].seen = "live", refreshing'[u].since = hashed_pw
               PROVE  LET row == refresh_tokens'[refreshing'[u].token] IN
                      row.pw = hashed_pw \/ row.over >= hashed_pw
    BY DEF ReadLive
  <2>1. refreshing'[u].token \in 1..Count /\
        LET row == refresh_tokens[refreshing'[u].token] IN
        row.pw = hashed_pw \/ row.over >= hashed_pw
    <3>1. CASE u = t
      <4>1. /\ Live(refreshing'[t].token) /\ refreshing'[t].token \in 1..Count
            /\ Accounted(refreshing'[t].token)
        BY <3>1 DEF Older
      <4>2. refresh_tokens[refreshing'[t].token].pw \in Nat
        BY <4>1, RowFacts DEF TypeInv, RefreshToken
      <4>. QED  BY <1>0, <3>1, <4>1, <4>2 DEF Accounted
    <3>2. CASE u # t
      <4>1. refreshing'[u] = refreshing[u]
        BY <3>2 DEF TabStep
      <4>2. refreshing[u].op = "refresh" /\ refreshing[u].token \in 1..Count
        BY <1>0, <4>1 DEF TypeInv, Within
      <4>. QED  BY <4>1, <4>2 DEF Older, ReadLive
    <3>. QED  BY <3>1, <3>2
  <2>. QED  BY <2>1 DEF RowsMove
<1>. QED  BY <1>1, <1>2, <1>3, <1>4 DEF Older

LEMMA FormOlder ==
    ASSUME TypeInv, Older, NEW d \in Devices, RowsMove(d), FormStep(d),
           hashed_pw' = hashed_pw, form'[d].since <= hashed_pw,
           Marked(d)' => form'[d].upto = Count /\ Count' = Count,
           Count' = Count \/ \E pw, over : NewRow(pw, over) /\ Accountable(pw, over)
    PROVE  Older'
<1>0. Count \in Nat /\ hashed_pw \in Nat
  BY Bounds DEF TypeInv
<1>1. \A i \in 1..Count' : Accounted(i)'
  BY RowsOlder
<1>2. ReadBefore'
  BY DEF Older, ReadBefore, FormStep
<1>3. PassedOver'
  <2> SUFFICES ASSUME NEW e \in Devices, Marked(e)', NEW i \in 1..Count',
                      i > form'[e].upto, Live(i)'
               PROVE  refresh_tokens'[i].over >= hashed_pw' + 1
    BY DEF PassedOver
  <2>1. e # d
    BY <1>0
  <2>2. Marked(e) /\ form'[e] = form[e] /\ Changing
    BY <2>1 DEF Marked, FormStep, Changing
  <2>3. CASE i > Count
    BY <2>2, <2>3, RowsOlder
  <2>4. CASE i \in 1..Count
    BY <2>2, <2>4 DEF RowsMove, Older, PassedOver
  <2>. QED  BY <1>0, <2>3, <2>4 DEF RowsMove
<1>4. ReadLive'
  <2>1. \A u \in Tabs : refreshing'[u] = refreshing[u]
    BY DEF FormStep
  <2>2. \A u \in Tabs : refreshing[u].step = "read" => refreshing[u].token \in 1..Count
    BY <1>0 DEF TypeInv, Within
  <2>. QED  BY <2>1, <2>2 DEF Older, ReadLive, RowsMove
<1>. QED  BY <1>1, <1>2, <1>3, <1>4 DEF Older

\* What a request that commits is together with.
LEMMA OverlappedFacts ==
    ASSUME TypeInv, NEW since \in 0..hashed_pw, NEW otherwise \in Nat, NEW pw \in 0..hashed_pw,
           since = hashed_pw => pw = hashed_pw \/ otherwise >= hashed_pw
    PROVE  Accountable(pw, Overlapped(since, otherwise))
BY Bounds DEF Accountable, Overlapped, TypeInv

LEMMA RotateOlder ==
    ASSUME TypeInv, TypeInv', Older, NEW t \in Tabs, CommitRefresh(t), Rotate(t)
    PROVE  Older'
<1> DEFINE r == refreshing[t]
           row == refresh_tokens[r.token]
           over == Overlapped(r.since, row.over)
<1>1. /\ r.token \in 1..Count /\ r.step = "read" /\ r.seen = "live" /\ NewRow(row.pw, over)
      /\ TabStep(t) /\ RowsMove(DeviceOf[t]) /\ refreshing'[t].step = "answered"
      /\ refreshing'[t].since = 0
  BY RotateFacts
<1>2. hashed_pw' = hashed_pw /\ hashed_pw \in Nat
  BY Bounds DEF CommitRefresh, TypeInv
<1>3. row.pw \in 0..hashed_pw /\ r.since \in 0..hashed_pw /\ row.over \in Nat
  <2>1. row \in RefreshToken /\ Accounted(r.token) /\ r \in Request /\ r.since <= hashed_pw
    BY <1>1, RowFacts DEF TypeInv, Older, ReadBefore
  <2>2. row.pw \in Nat /\ row.pw <= hashed_pw /\ r.since \in Nat /\ row.over \in Nat
    BY <2>1 DEF RefreshToken, Request, Accounted
  <2>. QED  BY <1>2, <2>1, <2>2
<1>4. r.since = hashed_pw => row.pw = hashed_pw \/ row.over >= hashed_pw
  BY <1>1 DEF Older, ReadLive
<1>5. Accountable(row.pw, over)
  BY <1>3, <1>4, OverlappedFacts
<1> HIDE DEF row, over, r
<1>6. \E p, o : NewRow(p, o) /\ Accountable(p, o)
  BY <1>1, <1>5
<1>. QED  BY <1>1, <1>2, <1>6, TabOlder

LEMMA IssueSessionOlder ==
    ASSUME TypeInv, Older, NEW d \in Devices, IssueSession(d)
    PROVE  Older'
<1> DEFINE since == form[d].since
           over == Overlapped(since, 0)
<1>1. /\ FormStep(d) /\ RowsMove(d) /\ form'[d].step = "answered" /\ form'[d].since = 0
      /\ NewRow(since, over)
  BY IssueSessionFacts
<1>2. hashed_pw' = hashed_pw /\ hashed_pw \in Nat
  BY Bounds DEF IssueSession, TypeInv
<1>3. since \in 0..hashed_pw
  <2>1. form[d] \in Request /\ since <= hashed_pw
    BY DEF TypeInv, Older, ReadBefore
  <2>2. since \in Nat
    BY <2>1 DEF Request
  <2>. QED  BY <1>2, <2>1, <2>2
<1>4. Accountable(since, over)
  BY <1>3, OverlappedFacts
<1> HIDE DEF since, over
<1>5. \E p, o : NewRow(p, o) /\ Accountable(p, o)
  BY <1>1, <1>4
<1>. QED  BY <1>1, <1>2, <1>5, FormOlder DEF Marked

\* The rows the UPDATE saw are ended, and the others were passed over.
LEMMA ChangePasswordOlder ==
    ASSUME TypeInv, TypeInv', Older, NEW d \in Devices, ChangePassword(d)
    PROVE  Older'
<1>0. /\ Count \in Nat /\ hashed_pw \in Nat /\ hashed_pw' = hashed_pw + 1
      /\ FormStep(d) /\ RowsMove(d) /\ Marked(d) /\ NewRow(hashed_pw + 1, 0)
      /\ form'[d].step = "answered" /\ form'[d].since = 0
      /\ \A i \in 1..Count : i <= form[d].upto => ~Live(i)'
  BY ChangePasswordFacts, Bounds DEF TypeInv
<1>1. ASSUME NEW i \in 1..Count  PROVE Accounted(i)'
  <2>1. /\ refresh_tokens'[i].pw = refresh_tokens[i].pw
        /\ refresh_tokens'[i].over = refresh_tokens[i].over
        /\ Live(i)' => Live(i)
    BY <1>0 DEF RowsMove
  <2>2. refresh_tokens[i].pw \in Nat /\ refresh_tokens[i].pw <= hashed_pw
    BY RowFacts DEF TypeInv, RefreshToken, Older, Accounted
  <2>3. form[d].upto \in Nat
    BY <1>0 DEF TypeInv, Within
  <2>4. Live(i)' => refresh_tokens[i].over >= hashed_pw + 1
    BY <1>0, <2>1, <2>3 DEF Older, PassedOver
  <2>. QED  BY <1>0, <2>1, <2>2, <2>4 DEF Accounted
<1>2. ASSUME NEW k, k = Count + 1  PROVE Accounted(k)'
  <2>1. refresh_tokens'[k].pw = hashed_pw'
    BY <1>0, <1>2 DEF NewRow
  <2>. QED  BY <1>0, <2>1 DEF Accounted
<1>3. \A i \in 1..Count' : Accounted(i)'
  <2>1. \A i \in 1..(Count + 1) : i \in 1..Count \/ i = Count + 1
    BY <1>0
  <2>2. Count' = Count + 1
    BY <1>0 DEF NewRow
  <2>. QED  BY <1>1, <1>2, <2>1, <2>2
<1>4. ReadBefore'
  <2>1. /\ \A t \in Tabs : refreshing[t].since \in Nat
        /\ \A e \in Devices : form[e].since \in Nat
    BY DEF TypeInv, Request
  <2>. QED  BY <1>0, <2>1 DEF Older, ReadBefore, FormStep
<1>5. PassedOver'
  BY <1>0 DEF PassedOver, Marked, FormStep, TypeInv, OneChange
<1>6. ReadLive'
  <2>1. \A t \in Tabs : refreshing'[t].since # hashed_pw'
    BY <1>0 DEF FormStep, Older, ReadBefore, TypeInv, Request
  <2>. QED  BY <2>1 DEF ReadLive
<1>. QED  BY <1>3, <1>4, <1>5, <1>6 DEF Older

LEMMA OlderStep ==
    ASSUME TypeInv, TypeInv', Older, [AccountsNext]_accountVars
    PROVE  Older'
<1>0. hashed_pw \in Nat /\ hashed_pw <= hashed_pw /\ 0 <= hashed_pw
  BY Bounds DEF TypeInv
<1>1. ASSUME NEW t \in Tabs, SendRefresh(t)  PROVE Older'
  BY <1>0, <1>1, SendRefreshFacts, TabOlder DEF SendRefresh
<1>2. ASSUME NEW t \in Tabs, ReadToken(t)  PROVE Older'
  BY <1>0, <1>2, ReadTokenFacts, TabOlder DEF ReadToken
<1>3. ASSUME NEW t \in Tabs, CommitRefresh(t)  PROVE Older'
  <2>0. hashed_pw' = hashed_pw /\ refreshing[t].since <= hashed_pw
    BY <1>3 DEF CommitRefresh, Older, ReadBefore
  <2>1. CASE FindFamily(t)
    BY <1>3, <2>0, <2>1, FindFamilyFacts, TabOlder
  <2>2. CASE RevokeFamily(t)
    BY <1>0, <1>3, <2>0, <2>2, RevokeFamilyFacts, TabOlder, IdleIs
  <2>3. CASE RefuseExpired(t)
    BY <1>0, <1>3, <2>0, <2>3, RefuseExpiredFacts, TabOlder, IdleIs
  <2>. QED  BY <1>3, <2>1, <2>2, <2>3, RotateOlder DEF CommitRefresh
<1>4. ASSUME NEW t \in Tabs, RefreshAnswer(t)  PROVE Older'
  BY <1>0, <1>4, RefreshAnswerFacts, TabOlder, IdleIs DEF RefreshAnswer
<1>5. ASSUME NEW d \in Devices, Login(d)  PROVE Older'
  BY <1>0, <1>5, LoginFacts, FormOlder DEF Login, Marked
<1>6. ASSUME NEW d \in Devices, WrongPassword(d) \/ RefuseChange(d) \/ FormAnswer(d)
      PROVE  Older'
  <2>1. hashed_pw' = hashed_pw
    BY <1>6 DEF WrongPassword, RefuseChange, FormAnswer
  <2>. QED  BY <1>0, <1>6, <2>1, FormOverFacts, FormOlder, IdleIs DEF Marked
<1>7. ASSUME NEW d \in Devices, VerifyPassword(d)  PROVE Older'
  BY <1>0, <1>7, VerifyPasswordFacts, FormOlder, ZenonT(60) DEF VerifyPassword, Marked
<1>8. ASSUME NEW d \in Devices, NEW op \in {"logout", "password"}, Submit(d, op)  PROVE Older'
  BY <1>0, <1>8, SubmitFacts, FormOlder, ZenonT(60) DEF Submit, Marked
<1>9. ASSUME NEW d \in Devices, Logout(d)  PROVE Older'
  BY <1>0, <1>9, LogoutFacts, FormOlder DEF Logout, Marked
<1>10. ASSUME NEW d \in Devices, MarkSessions(d)  PROVE Older'
  <2>1. hashed_pw' = hashed_pw /\ form[d].since <= hashed_pw
    BY <1>10 DEF MarkSessions, Older, ReadBefore
  <2>. QED  BY <1>10, <2>1, MarkSessionsFacts, FormOlder
<1>11. CASE UNCHANGED accountVars
  BY <1>11 DEF accountVars, Older, Accounted, Live, ReadBefore, PassedOver, ReadLive, Marked, Count
<1>. QED  BY <1>1, <1>2, <1>3, <1>4, <1>5, <1>6, <1>7, <1>8, <1>9, <1>10, <1>11,
             IssueSessionOlder, ChangePasswordOlder
          DEF AccountsNext, Refresh, SignIn, SettleForm

\* However many browsers and tabs there are and however their requests interleave
\* with the two statements of a password change: a session of an older password
\* was under way together with the last change.
THEOREM PasswordEndsSessions == AccountsSpec => []NothingOlderSurvives
<1>1. TypeInv /\ Older => NothingOlderSurvives
  BY RowFacts DEF TypeInv, Older, Accounted, NothingOlderSurvives
<1>. QED  BY <1>1, AccountsTyped, OlderStart, OlderStep, PTL DEF AccountsSpec

-----------------------------------------------------------------------------
(* The alarm: what is known of a browser that was never disturbed *)

\* A token the browser did not end itself.
NotOwn(d, k) == k = 0 \/ refresh_tokens[k].by # d

\* A request before its answer carries the cookie the browser still has; an answer
\* brings a token the browser has not used.
InHand(r, d) ==
    IF r.step = "answered" THEN NotOwn(d, r.token)
    ELSE (r.op = "login" \/ r.token = cookie[d]) /\ NotOwn(d, cookie[d])

\* One request at a time.
OneRequest(d) ==
    \A t \in Tabs : DeviceOf[t] = d /\ refreshing[t].op # "idle" =>
        /\ form[d].op = "idle"
        /\ \A u \in Tabs : DeviceOf[u] = d /\ refreshing[u].op # "idle" => u = t

Calm(d) ==
    /\ OneRequest(d)
    /\ \A t \in Tabs : DeviceOf[t] = d /\ refreshing[t].op # "idle" => InHand(refreshing[t], d)
    /\ form[d].op # "idle" => InHand(form[d], d)
    /\ ~InFlight(d) => NotOwn(d, cookie[d])

\* A row that was read as revoked is revoked.
SeenRevoked ==
    \A t \in Tabs : refreshing[t].seen = "revoked" \/ refreshing[t].step = "marked" =>
        refreshing[t].token \in 1..Count /\ ~Live(refreshing[t].token)

AlarmInv ==
    /\ SeenRevoked
    /\ \A d \in Devices \ disturbed : Calm(d)
    /\ AlarmNeedsACause

LEMMA AlarmStarts == AccountsInit => AlarmInv
BY IdleIs DEF AccountsInit, AlarmInv, SeenRevoked, Calm, OneRequest, InFlight, NotOwn,
       AlarmNeedsACause

\* What a step of one browser leaves to the others.
LEMMA OthersStayCalm ==
    ASSUME TypeInv, AlarmInv, NEW d \in Devices, RowsMove(d), SeenRevoked',
           \A e \in Devices \ {d} :
                /\ cookie'[e] = cookie[e] /\ form'[e] = form[e]
                /\ \A t \in Tabs : DeviceOf[t] = e => refreshing'[t] = refreshing[t],
           disturbed \subseteq disturbed', reused' \subseteq disturbed',
           d \notin disturbed' => Calm(d)'
    PROVE  AlarmInv'
<1>1. ASSUME NEW e \in Devices \ {d}, NEW k \in 0..Count, NotOwn(e, k)  PROVE NotOwn(e, k)'
  BY <1>1 DEF NotOwn, RowsMove
<1>2. ASSUME NEW e \in Devices \ {d}, Calm(e)  PROVE Calm(e)'
  <2>0. /\ cookie'[e] = cookie[e] /\ form'[e] = form[e]
        /\ \A t \in Tabs : DeviceOf[t] = e => refreshing'[t] = refreshing[t]
        /\ cookie[e] \in 0..Count /\ form[e].token \in 0..Count
        /\ \A t \in Tabs : refreshing[t].token \in 0..Count
    BY DEF TypeInv, Within
  <2>1. NotOwn(e, cookie[e]) => NotOwn(e, cookie[e])'
    <3>1. PICK k \in 0..Count : k = cookie[e]
      BY <2>0
    <3>. QED  BY <1>1, <2>0, <3>1
  <2>2. ASSUME NEW r, r.token \in 0..Count, InHand(r, e)  PROVE InHand(r, e)'
    <3>1. NotOwn(e, r.token) => NotOwn(e, r.token)'
      BY <1>1, <2>2
    <3>. QED  BY <2>0, <2>1, <2>2, <3>1 DEF InHand
  <2>3. form[e].op # "idle" => InHand(form[e], e)'
    <3>1. PICK r : r = form[e]
      OBVIOUS
    <3>. QED  BY <1>2, <2>0, <2>2, <3>1 DEF Calm
  <2>4. ASSUME NEW t \in Tabs, DeviceOf[t] = e, refreshing[t].op # "idle"
        PROVE  InHand(refreshing[t], e)'
    <3>1. PICK r : r = refreshing[t]
      OBVIOUS
    <3>. QED  BY <1>2, <2>0, <2>2, <2>4, <3>1 DEF Calm
  <2>5. (InFlight(e)' <=> InFlight(e)) /\ OneRequest(e)'
    BY <1>2, <2>0 DEF InFlight, Calm, OneRequest
  <2>. QED  BY <1>2, <2>0, <2>1, <2>3, <2>4, <2>5 DEF Calm
<1>. QED  BY <1>2 DEF AlarmInv, AlarmNeedsACause

\* A tab's own step: it was the request under way, or there was none.
LEMMA TabAlarm ==
    ASSUME TypeInv, AlarmInv, NEW t \in Tabs, TabStep(t), RowsMove(DeviceOf[t]),
           \A e \in Devices \ {DeviceOf[t]} : cookie'[e] = cookie[e],
           disturbed \subseteq disturbed', reused' \subseteq disturbed',
           refreshing'[t].seen = "revoked" \/ refreshing'[t].step = "marked" =>
                refreshing'[t].token \in 1..Count /\ ~Live(refreshing'[t].token),
           DeviceOf[t] \notin disturbed' =>
                /\ refreshing[t].op # "idle" \/ ~InFlight(DeviceOf[t])
                /\ IF refreshing'[t].op = "idle" THEN NotOwn(DeviceOf[t], cookie[DeviceOf[t]])'
                                                 ELSE InHand(refreshing[t], DeviceOf[t])'
    PROVE  AlarmInv'
<1> DEFINE d == DeviceOf[t]
<1>0. d \in Devices /\ Count \in Nat
  BY TabsAssumption, Bounds
<1>1. SeenRevoked'
  BY <1>0 DEF AlarmInv, SeenRevoked, TabStep, RowsMove
<1>2. ASSUME d \notin disturbed'  PROVE Calm(d)'
  <2>1. Calm(d)
    BY <1>0, <1>2 DEF AlarmInv
  <2>2. /\ \A u \in Tabs \ {t} : DeviceOf[u] = d => refreshing'[u].op = "idle"
        /\ form'[d].op = "idle"
    BY <1>2, <2>1 DEF Calm, OneRequest, InFlight, TabStep
  <2>3. OneRequest(d)' /\ form'[d].op = "idle"
    BY <2>2 DEF OneRequest
  <2>4. \A u \in Tabs : DeviceOf[u] = d /\ refreshing'[u].op # "idle" => InHand(refreshing[u], d)'
    BY <1>2, <2>2
  <2>5. ~InFlight(d)' => NotOwn(d, cookie[d])'
    BY <1>2 DEF InFlight
  <2>. QED  BY <2>3, <2>4, <2>5 DEF Calm
<1>3. \A e \in Devices \ {d} :
        /\ cookie'[e] = cookie[e] /\ form'[e] = form[e]
        /\ \A u \in Tabs : DeviceOf[u] = e => refreshing'[u] = refreshing[u]
  BY DEF TabStep
<1> HIDE DEF d
<1>. QED  BY <1>0, <1>1, <1>2, <1>3, OthersStayCalm DEF d

LEMMA FormAlarm ==
    ASSUME TypeInv, AlarmInv, NEW d \in Devices, FormStep(d), RowsMove(d),
           \A e \in Devices \ {d} : cookie'[e] = cookie[e],
           disturbed \subseteq disturbed', reused' = reused,
           d \notin disturbed' =>
                /\ form[d].op # "idle" \/ ~InFlight(d)
                /\ IF form'[d].op = "idle" THEN NotOwn(d, cookie[d])' ELSE InHand(form[d], d)'
    PROVE  AlarmInv'
<1>1. SeenRevoked'
  BY Bounds DEF AlarmInv, SeenRevoked, FormStep, RowsMove
<1>2. ASSUME d \notin disturbed'  PROVE Calm(d)'
  <2>1. Calm(d)
    BY <1>2 DEF AlarmInv
  <2>2. \A u \in Tabs : DeviceOf[u] = d => refreshing'[u].op = "idle"
    BY <1>2, <2>1 DEF Calm, OneRequest, InFlight, FormStep
  <2>3. OneRequest(d)'
    BY <2>2 DEF OneRequest
  <2>5. ~InFlight(d)' => NotOwn(d, cookie[d])'
    BY <1>2 DEF InFlight
  <2>. QED  BY <1>2, <2>2, <2>3, <2>5 DEF Calm
<1>3. \A e \in Devices \ {d} :
        /\ cookie'[e] = cookie[e] /\ form'[e] = form[e]
        /\ \A u \in Tabs : DeviceOf[u] = e => refreshing'[u] = refreshing[u]
  BY DEF FormStep
<1>4. reused' \subseteq disturbed'
  BY DEF AlarmInv, AlarmNeedsACause
<1>. QED  BY <1>1, <1>2, <1>3, <1>4, OthersStayCalm

\* The request of a browser that was never disturbed.
LEMMA TabInHand ==
    ASSUME AlarmInv, NEW t \in Tabs, refreshing[t].op = "refresh", DeviceOf[t] \notin disturbed
    PROVE  InHand(refreshing[t], DeviceOf[t])
BY TabsAssumption DEF AlarmInv, Calm

LEMMA FormInHand ==
    ASSUME AlarmInv, NEW d \in Devices, form[d].op # "idle", d \notin disturbed
    PROVE  InHand(form[d], d)
BY DEF AlarmInv, Calm

\* A request is sent.
LEMMA RaceFacts ==
    ASSUME AlarmInv, NEW d \in Devices, Race(d)
    PROVE  /\ disturbed \subseteq disturbed'
           /\ d \notin disturbed' => ~InFlight(d) /\ NotOwn(d, cookie[d])
BY DEF Race, AlarmInv, Calm

LEMMA RefreshAlarm ==
    ASSUME TypeInv, AlarmInv, NEW t \in Tabs, Refresh(t)
    PROVE  AlarmInv'
<1> DEFINE d == DeviceOf[t]
<1>0. d \in Devices /\ Count \in Nat /\ reused \subseteq disturbed
  BY TabsAssumption, Bounds DEF AlarmInv, AlarmNeedsACause
<1>1. CASE SendRefresh(t)
  <2>1. /\ cookie' = cookie /\ reused' = reused /\ refresh_tokens' = refresh_tokens
        /\ disturbed \subseteq disturbed'
        /\ d \notin disturbed' => ~InFlight(d) /\ NotOwn(d, cookie[d])
    BY <1>0, <1>1, RaceFacts DEF SendRefresh
  <2>2. d \notin disturbed' => InHand(refreshing[t], d)'
    BY <1>1, <2>1, SendRefreshFacts DEF InHand, NotOwn
  <2>. QED  BY <1>0, <1>1, <2>1, <2>2, SendRefreshFacts, TabAlarm
<1>2. CASE ReadToken(t)
  <2>1. /\ cookie' = cookie /\ reused' = reused /\ refresh_tokens' = refresh_tokens
        /\ disturbed' = disturbed
    BY <1>2 DEF ReadToken
  <2>2. d \notin disturbed' => InHand(refreshing[t], d)'
    BY <1>2, <2>1, ReadTokenFacts, TabInHand DEF InHand, NotOwn
  <2>. QED  BY <1>0, <1>2, <2>1, <2>2, ReadTokenFacts, TabAlarm
<1>3. CASE CommitRefresh(t)
  <2>0. cookie' = cookie /\ disturbed' = disturbed
    BY <1>3 DEF CommitRefresh
  <2>1. CASE Rotate(t)
    <3>1. reused' = reused
      BY <2>1 DEF Rotate
    <3>2. InHand(refreshing[t], d)'
      <4>1. refresh_tokens'[refreshing'[t].token].by = "nobody"
        BY <1>3, <2>1, RotateFacts DEF NewRow
      <4>. QED  BY <1>0, <1>3, <2>1, <4>1, RotateFacts, NobodyAssumption DEF InHand, NotOwn
    <3>. QED  BY <1>0, <1>3, <2>0, <2>1, <3>1, <3>2, RotateFacts, TabAlarm
  <2>2. CASE FindFamily(t)
    <3>1. reused' = reused /\ refresh_tokens' = refresh_tokens
      BY <2>2 DEF FindFamily
    <3>2. d \notin disturbed' => InHand(refreshing[t], d)'
      BY <1>3, <2>0, <2>2, <3>1, FindFamilyFacts, TabInHand DEF InHand, NotOwn
    <3>3. refreshing[t].token \in 1..Count /\ ~Live(refreshing[t].token)
      BY <1>3, <2>2, FindFamilyFacts DEF AlarmInv, SeenRevoked
    <3>. QED  BY <1>0, <1>3, <2>0, <2>2, <3>1, <3>2, <3>3, FindFamilyFacts, TabAlarm
  <2>3. CASE RevokeFamily(t)
    <3>1. d \notin disturbed => refreshing[t].token = cookie[d] /\ NotOwn(d, cookie[d])
      BY <1>3, <2>3, RevokeFamilyFacts, TabInHand DEF InHand, TypeInv
    <3>2. refreshing[t].token \in 1..Count /\ ~Live(refreshing[t].token)
      BY <1>3, <2>3, RevokeFamilyFacts DEF AlarmInv, SeenRevoked
    <3>3. reused' = IF refresh_tokens[refreshing[t].token].by = d
                    THEN reused \cup {d} ELSE reused
      BY <2>3 DEF RevokeFamily
    <3>4. reused' \subseteq disturbed'
      BY <1>0, <2>0, <3>1, <3>2, <3>3 DEF NotOwn
    <3>5. d \notin disturbed' => NotOwn(d, cookie[d])'
      BY <1>3, <2>0, <2>3, <3>1, <3>2, RevokeFamilyFacts DEF NotOwn, RowsMove
    <3>. QED  BY <1>0, <1>3, <2>0, <2>3, <3>4, <3>5, RevokeFamilyFacts, IdleIs, TabAlarm
  <2>4. CASE RefuseExpired(t)
    <3>1. reused' = reused /\ refresh_tokens' = refresh_tokens
      BY <2>4 DEF RefuseExpired
    <3>2. d \notin disturbed' => NotOwn(d, cookie[d])'
      BY <1>3, <2>0, <2>4, <3>1, RefuseExpiredFacts, TabInHand DEF InHand, NotOwn
    <3>. QED  BY <1>0, <1>3, <2>0, <2>4, <3>1, <3>2, RefuseExpiredFacts, IdleIs, TabAlarm
  <2>. QED  BY <1>3, <2>1, <2>2, <2>3, <2>4 DEF CommitRefresh
<1>4. CASE RefreshAnswer(t)
  <2>1. /\ reused' = reused /\ refresh_tokens' = refresh_tokens
        /\ Arrives(d, refreshing[t]) \/ GoesMissing(d)
    BY <1>4 DEF RefreshAnswer
  <2>2. /\ disturbed \subseteq disturbed'
        /\ \A e \in Devices \ {d} : cookie'[e] = cookie[e]
        /\ d \notin disturbed' => d \notin disturbed /\ cookie'[d] = refreshing[t].token
    BY <1>0, <2>1 DEF Arrives, GoesMissing, TypeInv
  <2>3. refreshing[t].op = "refresh"
    BY <1>4, RefreshAnswerFacts DEF TypeInv
  <2>4. d \notin disturbed' => NotOwn(d, cookie[d])'
    BY <1>4, <2>1, <2>2, <2>3, RefreshAnswerFacts, TabInHand DEF InHand, NotOwn
  <2>. QED  BY <1>0, <1>4, <2>1, <2>2, <2>4, RefreshAnswerFacts, IdleIs, TabAlarm
<1>. QED  BY <1>1, <1>2, <1>3, <1>4 DEF Refresh

\* A token that is new was ended by nobody.
LEMMA NewIsNotOwn ==
    ASSUME NEW d \in Devices, NEW pw, NEW over, NewRow(pw, over),
           form'[d].step = "answered", form'[d].token = Count + 1
    PROVE  InHand(form[d], d)'
<1>1. refresh_tokens'[form'[d].token].by = "nobody"
  BY DEF NewRow
<1>. QED  BY <1>1, NobodyAssumption DEF InHand, NotOwn

LEMMA SignInAlarm ==
    ASSUME TypeInv, AlarmInv, NEW d \in Devices, SignIn(d)
    PROVE  AlarmInv'
<1>1. CASE Login(d)
  <2>1. /\ cookie' = cookie /\ reused' = reused /\ refresh_tokens' = refresh_tokens
        /\ disturbed \subseteq disturbed'
        /\ d \notin disturbed' => ~InFlight(d) /\ NotOwn(d, cookie[d])
    BY <1>1, RaceFacts DEF Login
  <2>2. d \notin disturbed' => InHand(form[d], d)'
    BY <1>1, <2>1, LoginFacts DEF InHand, NotOwn
  <2>. QED  BY <1>1, <2>1, <2>2, LoginFacts, FormAlarm
<1>2. CASE WrongPassword(d)
  <2>1. /\ cookie' = cookie /\ reused' = reused /\ refresh_tokens' = refresh_tokens
        /\ disturbed' = disturbed /\ form[d].step = "sent"
    BY <1>2 DEF WrongPassword
  <2>2. d \notin disturbed' => NotOwn(d, cookie[d])'
    BY <1>2, <2>1, FormOverFacts, FormInHand DEF InHand, NotOwn
  <2>. QED  BY <1>2, <2>1, <2>2, FormOverFacts, IdleIs, FormAlarm
<1>3. CASE VerifyPassword(d)
  <2>1. /\ cookie' = cookie /\ reused' = reused /\ refresh_tokens' = refresh_tokens
        /\ disturbed' = disturbed
    BY <1>3 DEF VerifyPassword
  <2>2. d \notin disturbed' => InHand(form[d], d)'
    BY <1>3, <2>1, VerifyPasswordFacts, FormInHand DEF InHand, NotOwn
  <2>. QED  BY <1>3, <2>1, <2>2, VerifyPasswordFacts, FormAlarm
<1>4. CASE IssueSession(d)
  <2>1. cookie' = cookie /\ reused' = reused /\ disturbed' = disturbed
    BY <1>4 DEF IssueSession
  <2>2. InHand(form[d], d)'
    BY <1>4, IssueSessionFacts, NewIsNotOwn
  <2>. QED  BY <1>4, <2>1, <2>2, IssueSessionFacts, FormAlarm
<1>. QED  BY <1>1, <1>2, <1>3, <1>4 DEF SignIn

LEMMA SettleAlarm ==
    ASSUME TypeInv, AlarmInv, NEW d \in Devices, SettleForm(d)
    PROVE  AlarmInv'
<1>1. ASSUME NEW op \in {"logout", "password"}, Submit(d, op)  PROVE AlarmInv'
  <2>1. /\ cookie' = cookie /\ reused' = reused /\ refresh_tokens' = refresh_tokens
        /\ disturbed \subseteq disturbed'
        /\ d \notin disturbed' => ~InFlight(d) /\ NotOwn(d, cookie[d])
    BY <1>1, RaceFacts DEF Submit
  <2>2. d \notin disturbed' => InHand(form[d], d)'
    BY <1>1, <2>1, SubmitFacts DEF InHand, NotOwn
  <2>. QED  BY <1>1, <2>1, <2>2, SubmitFacts, FormAlarm
<1>2. CASE Logout(d)
  <2>1. cookie' = cookie /\ reused' = reused /\ disturbed' = disturbed
    BY <1>2 DEF Logout
  <2>2. InHand(form[d], d)'
    BY <1>2, LogoutFacts DEF InHand, NotOwn
  <2>. QED  BY <1>2, <2>1, <2>2, LogoutFacts, FormAlarm
<1>3. CASE MarkSessions(d)
  <2>1. /\ cookie' = cookie /\ reused' = reused /\ refresh_tokens' = refresh_tokens
        /\ disturbed' = disturbed
    BY <1>3 DEF MarkSessions
  <2>2. d \notin disturbed' => InHand(form[d], d)'
    BY <1>3, <2>1, MarkSessionsFacts, FormInHand DEF InHand, NotOwn
  <2>. QED  BY <1>3, <2>1, <2>2, MarkSessionsFacts, FormAlarm
<1>4. CASE ChangePassword(d)
  <2>1. cookie' = cookie /\ reused' = reused /\ disturbed' = disturbed
    BY <1>4 DEF ChangePassword
  <2>2. InHand(form[d], d)'
    BY <1>4, ChangePasswordFacts, NewIsNotOwn
  <2>3. form[d].op # "idle"
    BY <1>4, ChangePasswordFacts DEF Marked
  <2>. QED  BY <1>4, <2>1, <2>2, <2>3, ChangePasswordFacts, FormAlarm
<1>5. CASE RefuseChange(d)
  <2>1. /\ cookie' = cookie /\ reused' = reused /\ refresh_tokens' = refresh_tokens
        /\ disturbed' = disturbed /\ form[d].step = "sent"
    BY <1>5 DEF RefuseChange
  <2>2. d \notin disturbed' => NotOwn(d, cookie[d])'
    BY <1>5, <2>1, FormOverFacts, FormInHand DEF InHand, NotOwn
  <2>. QED  BY <1>5, <2>1, <2>2, FormOverFacts, IdleIs, FormAlarm
<1>6. CASE FormAnswer(d)
  <2>1. /\ reused' = reused /\ refresh_tokens' = refresh_tokens /\ form[d].step = "answered"
        /\ Arrives(d, form[d]) \/ GoesMissing(d)
    BY <1>6 DEF FormAnswer
  <2>2. /\ disturbed \subseteq disturbed'
        /\ \A e \in Devices \ {d} : cookie'[e] = cookie[e]
        /\ d \notin disturbed' => d \notin disturbed /\ cookie'[d] = form[d].token
    BY <2>1 DEF Arrives, GoesMissing, TypeInv
  <2>3. d \notin disturbed' => NotOwn(d, cookie[d])'
    BY <1>6, <2>1, <2>2, FormOverFacts, FormInHand DEF InHand, NotOwn
  <2>. QED  BY <1>6, <2>1, <2>2, <2>3, FormOverFacts, IdleIs, FormAlarm
<1>. QED  BY <1>1, <1>2, <1>3, <1>4, <1>5, <1>6 DEF SettleForm

LEMMA AlarmStutters ==
    ASSUME AlarmInv, UNCHANGED accountVars
    PROVE  AlarmInv'
<1>. USE DEF accountVars
<1>1. SeenRevoked'
  BY DEF AlarmInv, SeenRevoked, Live, Count
<1>2. \A d \in Devices : Calm(d) => Calm(d)'
  BY DEF Calm, OneRequest, InFlight, InHand, NotOwn
<1>. QED  BY <1>1, <1>2 DEF AlarmInv, AlarmNeedsACause

LEMMA AlarmStep == TypeInv /\ AlarmInv /\ [AccountsNext]_accountVars => AlarmInv'
BY RefreshAlarm, SignInAlarm, SettleAlarm, AlarmStutters DEF AccountsNext

\* Whatever the browsers and tabs, a browser that sends one request at a time
\* and receives every answer never presents a token it has ended itself.
THEOREM AlarmHasACause == AccountsSpec => []AlarmNeedsACause
<1>1. AlarmInv => AlarmNeedsACause
  BY DEF AlarmInv
<1>. QED  BY <1>1, AccountsTyped, AlarmStarts, AlarmStep, PTL DEF AccountsSpec

-----------------------------------------------------------------------------
(* Project memory *)

ReportStatus == {"none", "OPEN", "FAILED", "COMPLETED", "gone"}
Approvals    == {"never", "stands", "taken back"}
TurnSteps    == {"idle", "asked", "near", "grounded", "written", "streaming", "over"}
IngestSteps  == {"none", "approved", "embedding"}

\* A report a human has approved, sent back or deleted since or not.
WasApproved(r) == approval[r] # "never"

Types ==
    /\ report \in [Reports -> ReportStatus]
    /\ approval \in [Reports -> Approvals]
    /\ memory_chunks \subseteq [report : Reports, model : Models]
    /\ ingest \in [Reports -> [step : IngestSteps, model : Models \cup {"none"}]]
    /\ \A r \in Reports : ingest[r].step = "embedding" => ingest[r].model \in Models
    /\ turn \in [Turns -> [step : TurnSteps, in : Chats \cup {"nowhere"}]]
    /\ cites \in [Turns -> SUBSET Reports]

ChunksWereApproved == \A c \in memory_chunks : WasApproved(c.report)

IngestWasApproved ==
    \A r \in Reports : ingest[r].step \in {"approved", "embedding"} => WasApproved(r)

\* Between the search and the lookup of its reports.
HitsWereApproved ==
    \A t \in Turns : turn[t].step = "near" =>
        \A r \in cites[t] : Home[r] = Home[turn[t].in] /\ WasApproved(r)

MemoryInv == Types /\ ChunksWereApproved /\ IngestWasApproved /\ HitsWereApproved

-----------------------------------------------------------------------------

LEMMA MemoryStarts == MemoryInit => MemoryInv
BY DEF MemoryInit, MemoryInv, Types, ChunksWereApproved, IngestWasApproved,
       HitsWereApproved, ReportStatus, Approvals, TurnSteps, IngestSteps, NoTurn, NoIngest

\* A step that leaves the turns alone, takes no approval back, and starts or
\* records the ingestion of approved reports only.
LEMMA RowsStep ==
    ASSUME MemoryInv, Types', turn' = turn, cites' = cites,
           \A r \in Reports : WasApproved(r) => WasApproved(r)',
           \A r \in Reports : ingest'[r].step \in {"approved", "embedding"} =>
                ingest[r].step \in {"approved", "embedding"} \/ WasApproved(r)',
           \A c \in memory_chunks' : c \in memory_chunks \/ WasApproved(c.report)'
    PROVE  MemoryInv'
<1>1. ChunksWereApproved'
  BY DEF MemoryInv, Types, ChunksWereApproved
<1>2. IngestWasApproved'
  BY DEF MemoryInv, IngestWasApproved
<1>3. HitsWereApproved'
  BY DEF MemoryInv, Types, HitsWereApproved
<1>. QED  BY <1>1, <1>2, <1>3 DEF MemoryInv

\* A step of one turn that leaves the reports and their chunks alone.
LEMMA TurnStep ==
    ASSUME MemoryInv, Types', NEW t \in Turns,
           reportVars' = reportVars, memory_chunks' = memory_chunks, ingest' = ingest,
           \A s \in Turns \ {t} : turn'[s] = turn[s] /\ cites'[s] = cites[s],
           turn'[t].step # "near"
    PROVE  MemoryInv'
<1>1. ChunksWereApproved' /\ IngestWasApproved'
  BY DEF MemoryInv, ChunksWereApproved, IngestWasApproved, WasApproved, reportVars
<1>2. HitsWereApproved'
  BY DEF MemoryInv, HitsWereApproved, WasApproved, reportVars
<1>. QED  BY <1>1, <1>2 DEF MemoryInv

LEMMA AtFacts ==
    ASSUME Types, NEW t \in Turns, NEW s \in TurnSteps, At(t, s)
    PROVE  /\ turn' \in [Turns -> [step : TurnSteps, in : Chats \cup {"nowhere"}]]
           /\ turn'[t].step = s /\ turn'[t].in = turn[t].in
           /\ \A u \in Turns \ {t} : turn'[u] = turn[u]
BY DEF Types, At

\* An ingestion that is over leaves the others as they are.
LEMMA IngestCleared ==
    ASSUME Types, NEW r \in Reports, ingest' = [ingest EXCEPT ![r] = NoIngest]
    PROVE  /\ ingest' \in [Reports -> [step : IngestSteps, model : Models \cup {"none"}]]
           /\ \A q \in Reports : ingest'[q].step # "none" => ingest'[q] = ingest[q] /\ q # r
<1>1. NoIngest \in [step : IngestSteps, model : Models \cup {"none"}] /\ NoIngest.step = "none"
  BY DEF NoIngest, IngestSteps
<1>2. ingest \in [Reports -> [step : IngestSteps, model : Models \cup {"none"}]]
  BY DEF Types
<1>3. ingest'[r] = NoIngest /\ \A q \in Reports \ {r} : ingest'[q] = ingest[q]
  BY <1>2
<1>. QED  BY <1>1, <1>2, <1>3

\* Everything that belongs to a project goes, or nothing does.
LEMMA DeletionTyped ==
    ASSUME Types, NEW p \in Projects, DeleteProject(p)
    PROVE  Types'
<1>1. report' \in [Reports -> ReportStatus] /\ memory_chunks' \subseteq memory_chunks
  BY DEF Types, DeleteProject, ReportStatus
<1>2. UNCHANGED <<approval, ingest, turn, cites>>
  BY DEF DeleteProject, Forget, turnVars
<1>. QED  BY <1>1, <1>2 DEF Types

\* The rows of a report that is indexed are its own.
LEMMA ReplacedChunks ==
    ASSUME memory_chunks \subseteq [report : Reports, model : Models],
           NEW r \in Reports, NEW m \in Models, memory_chunks' = Replaced(r, m)
    PROVE  /\ memory_chunks' \subseteq [report : Reports, model : Models]
           /\ \A c \in memory_chunks' : c \in memory_chunks \/ c.report = r
<1>1. memory_chunks' = {c \in memory_chunks : c.report # r} \cup {[report |-> r, model |-> m]}
  BY DEF Replaced
<1>2. [report |-> r, model |-> m] \in [report : Reports, model : Models]
  OBVIOUS
<1>3. [report |-> r, model |-> m].report = r
  OBVIOUS
<1>. QED  BY <1>1, <1>2, <1>3

LEMMA RowsActions ==
    ASSUME MemoryInv,
           \/ \E h \in Threads : CreateThread(h) \/ DeleteThread(h)
           \/ \E r \in Reports : CreateRun(r) \/ Proceed(r) \/ DeleteReport(r)
                                  \/ Approve(r) \/ Rework(r) \/ Reject(r) \/ IndexApproved(r)
           \/ \E p \in Projects : CheckProject(p) \/ DeleteProject(p)
    PROVE  MemoryInv'
<1>. USE DEF MemoryInv, Types, WasApproved, ReportStatus, Approvals, IngestSteps, NoIngest, reportVars
<1>1. ASSUME NEW h \in Threads, CreateThread(h) \/ DeleteThread(h)  PROVE MemoryInv'
  BY <1>1, RowsStep DEF CreateThread, DeleteThread, Forget, turnVars
<1>2. ASSUME NEW r \in Reports, CreateRun(r) \/ Proceed(r)  PROVE MemoryInv'
  BY <1>2, RowsStep DEF CreateRun, Proceed, turnVars
<1>9. ASSUME NEW r \in Reports, Rework(r) \/ Reject(r)  PROVE MemoryInv'
  <2>1. \A q \in Reports : WasApproved(q) => WasApproved(q)'
    BY <1>9 DEF Rework, Reject, TakenBack
  <2>2. Types'
    BY <1>9 DEF Rework, Reject, TakenBack, turnVars
  <2>. QED  BY <1>9, <2>1, <2>2, RowsStep DEF Rework, Reject, turnVars
<1>3. ASSUME NEW r \in Reports, Approve(r)  PROVE MemoryInv'
  <2>1. Types'
    BY <1>3 DEF Approve, turnVars
  <2>2. \A q \in Reports : ingest'[q].step \in {"approved", "embedding"} =>
            ingest[q].step \in {"approved", "embedding"} \/ WasApproved(q)'
    BY <1>3 DEF Approve
  <2>3. \A q \in Reports : WasApproved(q) => WasApproved(q)'
    BY <1>3 DEF Approve
  <2>. QED  BY <1>3, <2>1, <2>2, <2>3, RowsStep DEF Approve, turnVars
<1>4. ASSUME NEW r \in Reports, DeleteReport(r)  PROVE MemoryInv'
  BY <1>4, RowsStep DEF DeleteReport, Forget
<1>5. ASSUME NEW r \in Reports, StartIngest(r)  PROVE MemoryInv'
  <2>1. \/ ingest' = [ingest EXCEPT ![r] = NoIngest]
        \/ \E m \in Models :
             ingest' = [ingest EXCEPT ![r] = [step |-> "embedding", model |-> m]]
    BY <1>5 DEF StartIngest
  <2>2. ingest[r].step = "approved"
    BY <1>5 DEF StartIngest
  <2>3. Types'
    <3>1. CASE ingest' = [ingest EXCEPT ![r] = NoIngest]
      BY <1>5, <3>1 DEF StartIngest, rowVars, turnVars
    <3>2. ASSUME NEW m \in Models,
                 ingest' = [ingest EXCEPT ![r] = [step |-> "embedding", model |-> m]]
          PROVE  Types'
      BY <1>5, <3>2 DEF StartIngest, rowVars, turnVars
    <3>. QED  BY <2>1, <3>1, <3>2
  <2>4. \A q \in Reports : ingest'[q].step \in {"approved", "embedding"} =>
            ingest[q].step \in {"approved", "embedding"}
    BY <2>1, <2>2
  <2>. QED  BY <1>5, <2>3, <2>4, RowsStep DEF StartIngest, rowVars, turnVars
<1>6. ASSUME NEW r \in Reports, WriteChunks(r)  PROVE MemoryInv'
  <2>1. ingest[r].step = "embedding" /\ WasApproved(r)
    BY <1>6 DEF WriteChunks, IngestWasApproved
  <2>2. ingest' = [ingest EXCEPT ![r] = NoIngest]
    BY <1>6 DEF WriteChunks
  <2>5. UNCHANGED <<rowVars, turnVars>>
    BY <1>6 DEF WriteChunks
  <2>6. ingest' \in [Reports -> [step : IngestSteps, model : Models \cup {"none"}]]
    BY <2>2, IngestCleared
  <2>7. \A q \in Reports : ingest'[q].step # "none" => ingest'[q] = ingest[q]
    BY <2>2, IngestCleared
  <2>3. CASE memory_chunks' = memory_chunks
    <3>1. Types'
      BY <2>3, <2>5, <2>6, <2>7 DEF rowVars, turnVars
    <3>. QED  BY <2>3, <2>5, <2>7, <3>1, RowsStep DEF rowVars, turnVars
  <2>4. CASE memory_chunks' = Replaced(r, ingest[r].model)
    <3>1. ingest[r].model \in Models
      BY <2>1
    <3>3. /\ memory_chunks' \subseteq [report : Reports, model : Models]
          /\ \A c \in memory_chunks' : c \in memory_chunks \/ c.report = r
      BY <2>4, <3>1, ReplacedChunks
    <3>2. Types'
      BY <2>5, <2>6, <2>7, <3>3 DEF rowVars, turnVars
    <3>4. UNCHANGED <<approval, turn, cites>>
      BY <2>5 DEF rowVars, turnVars
    <3>5. /\ \A q \in Reports : WasApproved(q) => WasApproved(q)'
          /\ \A c \in memory_chunks' : c \in memory_chunks \/ WasApproved(c.report)'
      BY <2>1, <3>3, <3>4
    <3>6. \A q \in Reports : ingest'[q].step \in {"approved", "embedding"} =>
              ingest[q].step \in {"approved", "embedding"}
      BY <2>7
    <3>. QED  BY <3>2, <3>4, <3>5, <3>6, RowsStep
  <2>. QED  BY <1>6, <2>3, <2>4 DEF WriteChunks
<1>7. ASSUME NEW p \in Projects, CheckProject(p)  PROVE MemoryInv'
  BY <1>7, RowsStep DEF CheckProject, turnVars
<1>8. ASSUME NEW p \in Projects, DeleteProject(p)  PROVE MemoryInv'
  <2>1. Types'
    BY <1>8, DeletionTyped
  <2>2. /\ UNCHANGED <<approval, ingest, turn, cites>>
        /\ \A c \in memory_chunks' : c \in memory_chunks
    BY <1>8 DEF DeleteProject, Forget, turnVars
  <2>. QED  BY <2>1, <2>2, RowsStep
<1>. QED  BY <1>1, <1>2, <1>3, <1>4, <1>5, <1>6, <1>7, <1>8, <1>9 DEF IndexApproved

LEMMA TurnActions ==
    ASSUME MemoryInv, NEW t \in Turns, Turn(t)
    PROVE  MemoryInv'
<1>. USE DEF MemoryInv, rowVars, reportVars
<1>1. ASSUME NEW c \in Chats, Ask(t, c)  PROVE MemoryInv'
  <2>1. Types'
    BY <1>1 DEF Ask, Types, TurnSteps
  <2>. QED  BY <1>1, <2>1, TurnStep DEF Ask, Types
<1>2. CASE NoProvider(t)
  <2>1. Types' /\ turn'[t].step # "near" /\ \A s \in Turns \ {t} : turn'[s] = turn[s]
    BY <1>2, AtFacts DEF NoProvider, Types, TurnSteps
  <2>. QED  BY <1>2, <2>1, TurnStep DEF NoProvider, Types
<1>3. CASE Nearest(t)
  <2>0. PICK m \in Models : \E hits \in SUBSET Candidates(t, m) :
            cites' = [cites EXCEPT ![t] = {c.report : c \in hits}]
    BY <1>3 DEF Nearest
  <2>1. PICK hits \in SUBSET Candidates(t, m) :
            cites' = [cites EXCEPT ![t] = {c.report : c \in hits}]
    BY <2>0
  <2>2. At(t, "near") /\ UNCHANGED <<report, approval>> /\ memory_chunks' = memory_chunks /\ ingest' = ingest
    BY <1>3 DEF Nearest
  <2>3. \A c \in hits : c \in memory_chunks /\ c.report \in Reports
                        /\ Home[c.report] = Home[turn[t].in] /\ WasApproved(c.report)
    BY DEF Candidates, Types, ChunksWereApproved
  <2>4. /\ cites' \in [Turns -> SUBSET Reports]
        /\ \A s \in Turns \ {t} : cites'[s] = cites[s]
        /\ cites'[t] = {c.report : c \in hits}
    BY <2>1, <2>3 DEF Types
  <2>5. Types' /\ turn'[t].in = turn[t].in /\ \A s \in Turns \ {t} : turn'[s] = turn[s]
    BY <2>2, <2>4, AtFacts DEF Types, TurnSteps
  <2>6. HitsWereApproved'
    BY <2>2, <2>3, <2>4, <2>5 DEF HitsWereApproved, WasApproved
  <2>7. ChunksWereApproved' /\ IngestWasApproved'
    BY <2>2 DEF ChunksWereApproved, IngestWasApproved, WasApproved
  <2>. QED  BY <2>5, <2>6, <2>7
<1>4. CASE Resolve(t)
  <2>1. At(t, "grounded") /\ cites' = [cites EXCEPT ![t] = Resolved(@)]
    BY <1>4 DEF Resolve
  <2>2. Types' /\ turn'[t].step # "near" /\ \A s \in Turns \ {t} : turn'[s] = turn[s]
    BY <1>4, <2>1, AtFacts DEF Resolve, Resolved, Types, TurnSteps
  <2>. QED  BY <1>4, <2>1, <2>2, TurnStep DEF Resolve, Types
<1>5. CASE WriteQuestion(t)
  <2>1. PICK s \in {"written", "over"} : At(t, s)
    BY <1>5 DEF WriteQuestion
  <2>2. Types' /\ turn'[t].step # "near" /\ \A u \in Turns \ {t} : turn'[u] = turn[u]
    BY <1>5, <2>1, AtFacts DEF WriteQuestion, Types, TurnSteps
  <2>. QED  BY <1>5, <2>2, TurnStep DEF WriteQuestion, Types
<1>6. CASE ReadHistory(t)
  <2>1. Types' /\ turn'[t].step # "near" /\ \A s \in Turns \ {t} : turn'[s] = turn[s]
    BY <1>6, AtFacts DEF ReadHistory, Types, TurnSteps
  <2>. QED  BY <1>6, <2>1, TurnStep DEF ReadHistory, Types
<1>7. CASE WriteAnswer(t)
  <2>1. Types' /\ turn'[t].step # "near" /\ \A s \in Turns \ {t} : turn'[s] = turn[s]
    BY <1>7, AtFacts DEF WriteAnswer, Types, TurnSteps
  <2>. QED  BY <1>7, <2>1, TurnStep DEF WriteAnswer, Types
<1>. QED  BY <1>1, <1>2, <1>3, <1>4, <1>5, <1>6, <1>7 DEF Turn

LEMMA MemoryStutters == MemoryInv /\ UNCHANGED memoryVars => MemoryInv'
BY DEF MemoryInv, Types, ChunksWereApproved, IngestWasApproved, HitsWereApproved,
       WasApproved, memoryVars

LEMMA MemoryPreserved == MemoryInv /\ [MemoryNext]_memoryVars => MemoryInv'
BY RowsActions, TurnActions, MemoryStutters DEF MemoryNext

\* Chunks, ingestions under way and the hits of a search concern reports that were
\* approved only, and a search's hits are of its conversation's project, whatever
\* becomes of a report's status after its approval.
THEOREM ApprovedMemory == MemorySpec => []MemoryInv
BY MemoryStarts, MemoryPreserved, PTL DEF MemorySpec

-----------------------------------------------------------------------------

\* The step that settles a turn's excerpts.
Settles(t) == turn[t].step = "near" /\ turn'[t].step = "grounded"

LEMMA OnlyResolveSettles ==
    ASSUME MemoryInv, [MemoryNext]_memoryVars, NEW t \in Turns, Settles(t)
    PROVE  Resolve(t)
<1>. USE DEF Settles
<1>1. turn' # turn
  OBVIOUS
<1>2. PICK s \in Turns : Turn(s)
  BY <1>1 DEF MemoryNext, memoryVars, CreateThread, DeleteThread, Forget, CreateRun,
         Proceed, Approve, Rework, Reject, DeleteReport, IndexApproved, StartIngest, WriteChunks, CheckProject,
         DeleteProject, turnVars
<1>3. \A u \in Turns \ {s} : turn'[u] = turn[u]
  BY <1>2 DEF Turn, Ask, NoProvider, Nearest, Resolve, WriteQuestion, ReadHistory,
         WriteAnswer, At, MemoryInv, Types
<1>4. s = t
  BY <1>3
<1>5. \A c \in Chats : ~Ask(t, c)
  BY DEF Ask
<1>6. ~(NoProvider(t) \/ Nearest(t) \/ ReadHistory(t) \/ WriteAnswer(t))
  BY DEF NoProvider, Nearest, ReadHistory, WriteAnswer
<1>7. ~WriteQuestion(t)
  BY DEF WriteQuestion
<1>. QED  BY <1>2, <1>4, <1>5, <1>6, <1>7 DEF Turn

LEMMA SettledHits ==
    MemoryInv /\ [MemoryNext]_memoryVars =>
        [\A t \in Turns : turn[t].step = "near" /\ turn'[t].step = "grounded" =>
            \A r \in cites'[t] :
                /\ Home[r] = Home[turn[t].in]
                /\ approval[r] # "never" /\ report[r] \in Held]_memoryVars
<1>. SUFFICES ASSUME MemoryInv, [MemoryNext]_memoryVars,
                     NEW t \in Turns, Settles(t), NEW r \in cites'[t]
              PROVE  Home[r] = Home[turn[t].in] /\ approval[r] # "never" /\ report[r] \in Held
  BY DEF Settles
<1>1. cites'[t] = Resolved(cites[t])
  BY OnlyResolveSettles DEF Resolve, MemoryInv, Types
<1>2. r \in cites[t] /\ report[r] \notin {"none", "gone"}
  BY <1>1 DEF Resolved
<1>3. Home[r] = Home[turn[t].in] /\ WasApproved(r)
  BY <1>2 DEF Settles, MemoryInv, HitsWereApproved
<1>4. r \in Reports
  BY <1>2 DEF MemoryInv, Types
<1>. QED  BY <1>2, <1>3, <1>4 DEF WasApproved, MemoryInv, Types, ReportStatus, Held

\* The excerpts a turn goes on with come from reports of its own project that were
\* approved and are still there, whatever reviews came later, for any number of projects, reports, conversations and turns.
THEOREM TurnsCiteApproved == MemorySpec => CitedWasApproved
BY ApprovedMemory, SettledHits, PTL DEF MemorySpec, CitedWasApproved

-----------------------------------------------------------------------------
(* A conversation's history *)

ChatMessages == [turn : Turns, role : {"user", "assistant"}]

Gone(c) == IF c \in Threads THEN chat_thread[c] = "gone" ELSE report[c] = "gone"

\* A question is being answered and the history not read yet.
Pending(t) == turn[t].step \in {"asked", "near", "grounded", "written"}

\* A turn that shares its conversation knows the others it met.
Alone(t) == t \notin overlapped /\ turn[t].step \in Busy => Others(t, turn[t].in) = {}

\* The question of t is the last message of c, and its row is there once written.
AtTheEnd(t, c) ==
    /\ There(c) /\ places[c] # <<>> /\ places[c][Len(places[c])] = Message(t, "user")
    /\ turn[t].step = "written" => Message(t, "user") \in committed

\* So it is for a turn that has its conversation to itself, unless the
\* conversation has been deleted, which leaves no message of it.
QuestionLast(t) ==
    LET c == turn[t].in IN
    t \notin overlapped /\ Pending(t) => (Gone(c) /\ places[c] = <<>>) \/ AtTheEnd(t, c)

WindowFits(t) ==
    t \notin overlapped /\ window[t] # <<>> => window[t][Len(window[t])] = Message(t, "user")

ConversationsTyped ==
    /\ chat_thread \in [Threads -> {"none", "live", "gone"}]
    /\ places \in [Chats -> Seq(ChatMessages)]
    /\ DOMAIN window = Turns
    /\ \A t \in Turns : turn[t].step \in Busy => turn[t].in \in Chats

TurnFits(t) == Alone(t) /\ QuestionLast(t) /\ WindowFits(t)

ConversationInv == ConversationsTyped /\ \A t \in Turns : TurnFits(t)

LEMMA ConversationStarts == MemoryInit => ConversationInv
BY DEF MemoryInit, ConversationInv, ConversationsTyped, TurnFits, Alone, QuestionLast, Pending,
       WindowFits, NoTurn, Busy

\* A conversation that lost its messages has no history.
LEMMA NothingVisible ==
    ASSUME NEW c \in Chats, places[c] = <<>>
    PROVE  RecentTurns(c) = <<>>
<1>. DEFINE v == Visible(c)
<1>1. <<>> \in Seq({}) /\ v = Among(<<>>, committed)
  BY DEF Visible
<1>. HIDE DEF v
<1>2. v \in Seq({})
  BY <1>1, AmongHolds
<1>3. v = <<>>
  BY <1>2
<1>4. RecentTurns(c) = SubSeq(v, IF Len(v) > HistoryLimit THEN Len(v) - HistoryLimit + 1 ELSE 1, Len(v))
  BY DEF RecentTurns, v
<1>5. Len(v) = 0 /\ ~(0 > HistoryLimit)
  BY <1>3, HistoryAssumption
<1>. QED  BY <1>3, <1>4, <1>5

\* A history ends with the last message of its conversation, if that is there.
LEMMA HistoryEnds ==
    ASSUME NEW c \in Chats, places[c] \in Seq(ChatMessages), places[c] # <<>>,
           NEW x, x = places[c][Len(places[c])], x \in committed
    PROVE  RecentTurns(c)[Len(RecentTurns(c))] = x
<1>. DEFINE v == Visible(c)
<1>1. PICK S, s, T : S = ChatMessages /\ s = places[c] /\ T = committed
  OBVIOUS
<1>2. v = Among(s, T) /\ s \in Seq(S) /\ s # <<>> /\ x = s[Len(s)] /\ x \in T
  BY <1>1 DEF Visible
<1>. HIDE DEF v
<1>4. Len(v) # 0 /\ v[Len(v)] = x
  BY <1>2, AmongEnd
<1>5. v \in Seq(ChatMessages)
  BY <1>1, <1>2, AmongHolds
<1>. DEFINE n == Len(v)
            m == IF n > HistoryLimit THEN n - HistoryLimit + 1 ELSE 1
            w == SubSeq(v, m, n)
<1>6. RecentTurns(c) = w
  BY DEF RecentTurns, v
<1>7. n \in Nat /\ m \in 1..n
  BY <1>4, <1>5, HistoryAssumption
<1>8. Len(w) = n - m + 1 /\ w[n - m + 1] = v[m + (n - m + 1) - 1] /\ m + (n - m + 1) - 1 = n
  <2>. HIDE DEF m, n
  <2>1. n - m + 1 \in 1..(n - m + 1) /\ m + (n - m + 1) - 1 = n
    BY <1>7
  <2>2. m \in 1..Len(v) + 1 /\ n \in m - 1..Len(v)
    BY <1>7 DEF n
  <2>. QED  BY <1>5, <1>7, <2>1, <2>2 DEF n
<1>. HIDE DEF w, m, n
<1>. QED  BY <1>4, <1>6, <1>8 DEF n

-----------------------------------------------------------------------------

\* A step that takes no turn may delete conversations, the open ones among those it
\* empties being gone then, and opens or closes no other that was open or gone.
LEMMA ConversationRows ==
    ASSUME ConversationInv, MemoryInv, NEW cs,
           chat_thread' \in [Threads -> {"none", "live", "gone"}],
           turn' = turn, window' = window, overlapped' = overlapped,
           committed' = {m \in committed : turn[m.turn].in \notin cs},
           places' = [c \in Chats |-> IF c \in cs THEN <<>> ELSE places[c]],
           \A c \in Chats : Gone(c) => Gone(c)',
           \A c \in Chats : There(c) => IF c \in cs THEN Gone(c)' ELSE There(c)'
    PROVE  ConversationInv'
<1>1. ConversationsTyped'
  BY DEF ConversationInv, ConversationsTyped
<1>2. ASSUME NEW t \in Turns PROVE TurnFits(t)'
  <2>1. Alone(t)' /\ WindowFits(t)'
    BY DEF ConversationInv, TurnFits, Alone, WindowFits, Others
  <2>2. QuestionLast(t)'
    <3>0. PICK c : c = turn[t].in
      OBVIOUS
    <3>. SUFFICES ASSUME t \notin overlapped, Pending(t)
         PROVE  (Gone(c)' /\ places'[c] = <<>>) \/ AtTheEnd(t, c)'
      BY <3>0 DEF QuestionLast, Pending
    <3>1. c \in Chats
      BY <3>0 DEF ConversationInv, ConversationsTyped, Pending, Busy
    <3>2. CASE Gone(c) /\ places[c] = <<>>
      BY <3>1, <3>2
    <3>3. CASE AtTheEnd(t, c) /\ c \in cs
      BY <3>1, <3>3 DEF AtTheEnd
    <3>4. CASE AtTheEnd(t, c) /\ c \notin cs
      <4>1. places'[c] = places[c] /\ There(c)'
        BY <3>1, <3>4 DEF AtTheEnd
      <4>2. turn[t].step = "written" => Message(t, "user") \in committed'
        BY <3>0, <3>4 DEF AtTheEnd, Message
      <4>. QED  BY <3>4, <4>1, <4>2 DEF AtTheEnd
    <3>. QED  BY <3>0, <3>2, <3>3, <3>4 DEF ConversationInv, TurnFits, QuestionLast
  <2>. QED  BY <2>1, <2>2 DEF TurnFits
<1>. QED  BY <1>1, <1>2 DEF ConversationInv

\* So it is if no conversation is deleted.
LEMMA ConversationStays ==
    ASSUME ConversationInv, MemoryInv,
           chat_thread' \in [Threads -> {"none", "live", "gone"}], turnVars' = turnVars,
           \A c \in Chats : (Gone(c) => Gone(c)') /\ (There(c) => There(c)')
    PROVE  ConversationInv'
<1>. DEFINE cs == {}
<1>1. committed' = {m \in committed : turn[m.turn].in \notin cs}
  BY DEF turnVars
<1>2. places' = [c \in Chats |-> IF c \in cs THEN <<>> ELSE places[c]]
  BY DEF turnVars, ConversationInv, ConversationsTyped
<1>3. UNCHANGED <<turn, window, overlapped>>
  BY DEF turnVars
<1>4. \A c \in Chats : There(c) => IF c \in cs THEN Gone(c)' ELSE There(c)'
  OBVIOUS
<1>. HIDE DEF cs
<1>. QED  BY <1>1, <1>2, <1>3, <1>4, ConversationRows

LEMMA ConversationRowsActions ==
    ASSUME ConversationInv, MemoryInv,
           \/ \E h \in Threads : CreateThread(h) \/ DeleteThread(h)
           \/ \E r \in Reports : CreateRun(r) \/ Proceed(r) \/ DeleteReport(r)
                                  \/ Approve(r) \/ Rework(r) \/ Reject(r) \/ IndexApproved(r)
           \/ \E p \in Projects : CheckProject(p) \/ DeleteProject(p)
    PROVE  ConversationInv'
<1>0. /\ chat_thread \in [Threads -> {"none", "live", "gone"}]
      /\ report \in [Reports -> ReportStatus]
      /\ \A c \in Chats : c \in Threads \/ (c \in Reports /\ c \notin Threads)
      /\ \A r \in Reports : r \notin Threads
  BY ConversationAssumption DEF ConversationInv, ConversationsTyped, MemoryInv, Types
<1>1. ASSUME NEW h \in Threads, CreateThread(h) PROVE ConversationInv'
  <2>1. \A c \in Chats : (Gone(c) => Gone(c)') /\ (There(c) => There(c)')
    BY <1>0, <1>1 DEF CreateThread, reportVars, Gone, There, Held
  <2>2. chat_thread' \in [Threads -> {"none", "live", "gone"}] /\ turnVars' = turnVars
    BY <1>0, <1>1 DEF CreateThread
  <2>. QED  BY <2>1, <2>2, ConversationStays
<1>2. ASSUME NEW h \in Threads, DeleteThread(h) PROVE ConversationInv'
  <2>. DEFINE cs == {h}
  <2>1. \A c \in Chats : Gone(c) => Gone(c)'
    BY <1>0, <1>2 DEF DeleteThread, reportVars, Gone
  <2>2. \A c \in Chats : There(c) => IF c \in cs THEN Gone(c)' ELSE There(c)'
    BY <1>0, <1>2 DEF DeleteThread, reportVars, Gone, There, Held
  <2>3. chat_thread' \in [Threads -> {"none", "live", "gone"}]
    BY <1>0, <1>2 DEF DeleteThread
  <2>4. Forget(cs)
    BY <1>2 DEF DeleteThread
  <2>. HIDE DEF cs
  <2>. QED  BY <2>1, <2>2, <2>3, <2>4, ConversationRows DEF Forget
<1>3. ASSUME NEW r \in Reports,
            CreateRun(r) \/ Proceed(r) \/ Approve(r) \/ Rework(r) \/ Reject(r)
      PROVE ConversationInv'
  <2>1. \A c \in Chats : (Gone(c) => Gone(c)') /\ (There(c) => There(c)')
    BY <1>0, <1>3 DEF CreateRun, Proceed, Approve, Rework, Reject, Gone, There, Held
  <2>2. chat_thread' \in [Threads -> {"none", "live", "gone"}] /\ turnVars' = turnVars
    BY <1>0, <1>3 DEF CreateRun, Proceed, Approve, Rework, Reject
  <2>. QED  BY <2>1, <2>2, ConversationStays
<1>4. ASSUME NEW r \in Reports, DeleteReport(r) PROVE ConversationInv'
  <2>. DEFINE cs == {r}
  <2>1. \A c \in Chats : Gone(c) => Gone(c)'
    BY <1>0, <1>4 DEF DeleteReport, Gone
  <2>2. \A c \in Chats : There(c) => IF c \in cs THEN Gone(c)' ELSE There(c)'
    BY <1>0, <1>4 DEF DeleteReport, Gone, There, Held
  <2>3. chat_thread' \in [Threads -> {"none", "live", "gone"}]
    BY <1>0, <1>4 DEF DeleteReport
  <2>4. Forget(cs)
    BY <1>4 DEF DeleteReport
  <2>. HIDE DEF cs
  <2>. QED  BY <2>1, <2>2, <2>3, <2>4, ConversationRows DEF Forget
<1>5. ASSUME NEW r \in Reports, IndexApproved(r) PROVE ConversationInv'
  <2>1. UNCHANGED <<rowVars, turnVars>>
    BY <1>5 DEF IndexApproved, StartIngest, WriteChunks
  <2>2. \A c \in Chats : (Gone(c) => Gone(c)') /\ (There(c) => There(c)')
    BY <2>1 DEF rowVars, Gone, There
  <2>. QED  BY <1>0, <2>1, <2>2, ConversationStays DEF rowVars
<1>6. ASSUME NEW p \in Projects, CheckProject(p) PROVE ConversationInv'
  <2>1. UNCHANGED <<report, chat_thread, turnVars>>
    BY <1>6 DEF CheckProject, reportVars
  <2>2. \A c \in Chats : (Gone(c) => Gone(c)') /\ (There(c) => There(c)')
    BY <2>1 DEF Gone, There
  <2>. QED  BY <1>0, <2>1, <2>2, ConversationStays
<1>7. ASSUME NEW p \in Projects, DeleteProject(p) PROVE ConversationInv'
  <2>1. CASE UNCHANGED <<report, chat_thread, turnVars>>
    <3>1. \A c \in Chats : (Gone(c) => Gone(c)') /\ (There(c) => There(c)')
      BY <2>1 DEF Gone, There
    <3>. QED  BY <1>0, <2>1, <3>1, ConversationStays
  <2>. DEFINE cs == {c \in Threads \cup Reports : Home[c] = p}
  <2>2. CASE /\ report' = [r \in Reports |-> IF Home[r] = p /\ report[r] # "none" THEN "gone" ELSE report[r]]
             /\ chat_thread' = [h \in Threads |-> IF Home[h] = p /\ chat_thread[h] # "none" THEN "gone" ELSE chat_thread[h]]
             /\ Forget(cs)
    <3>1. \A c \in Chats : Gone(c) => Gone(c)'
      BY <1>0, <2>2 DEF Gone
    <3>2. \A c \in Chats : There(c) => IF c \in cs THEN Gone(c)' ELSE There(c)'
      BY <1>0, <2>2 DEF Gone, There, Held
    <3>3. chat_thread' \in [Threads -> {"none", "live", "gone"}]
      BY <1>0, <2>2
    <3>. HIDE DEF cs
    <3>. QED  BY <2>2, <3>1, <3>2, <3>3, ConversationRows DEF Forget
  <2>. QED  BY <1>7, <2>1, <2>2 DEF DeleteProject
<1>. QED  BY <1>1, <1>2, <1>3, <1>4, <1>5, <1>6, <1>7

-----------------------------------------------------------------------------

\* What a turn does leaves the conversations open or gone as they are.
LEMMA TurnsOpenNothing ==
    ASSUME NEW t \in Turns, Turn(t)
    PROVE  UNCHANGED rowVars /\ \A c : (Gone(c)' <=> Gone(c)) /\ (There(c)' <=> There(c))
<1>1. UNCHANGED rowVars
  BY DEF Turn, Ask, NoProvider, Nearest, Resolve, WriteQuestion, ReadHistory, WriteAnswer
<1>. QED  BY <1>1 DEF rowVars, Gone, There

\* Another turn's step keeps what t relies on: it touches the conversation of t
\* only if the two have met there.
LEMMA OtherTurnKeeps ==
    ASSUME ConversationInv, MemoryInv, NEW s \in Turns, NEW t \in Turns, s # t, Turn(s)
    PROVE  TurnFits(t)'
<1>c. PICK c : c = turn[t].in
  OBVIOUS
<1>. USE <1>c
<1>0. /\ turn \in [Turns -> [step : TurnSteps, in : Chats \cup {"nowhere"}]]
      /\ places \in [Chats -> Seq(ChatMessages)] /\ DOMAIN window = Turns
      /\ TurnFits(t)
      /\ turn[t].step \in Busy => c \in Chats
  BY DEF ConversationInv, ConversationsTyped, MemoryInv, Types
<1>1. turn'[t] = turn[t] /\ window'[t] = window[t]
  BY <1>0 DEF Turn, Ask, NoProvider, Nearest, Resolve, WriteQuestion, ReadHistory, WriteAnswer, At
<1>2. overlapped \subseteq overlapped' /\ committed \subseteq committed'
  BY DEF Turn, Ask, NoProvider, Nearest, Resolve, WriteQuestion, ReadHistory, WriteAnswer
<1>3. ASSUME t \notin overlapped', turn[t].step \in Busy
      PROVE  Others(t, c)' = {} /\ places'[c] = places[c]
  <2>1. Others(t, c) = {} /\ t \notin overlapped
    BY <1>0, <1>2, <1>3 DEF TurnFits, Alone
  <2>2. ASSUME NEW d \in Chats, Ask(s, d) PROVE d # c
    BY <1>0, <1>2, <1>3, <2>2 DEF Ask, Others
  <2>3. ~(turn[s].in = c /\ turn[s].step \in Busy)
    BY <2>1 DEF Others
  <2>4. \/ \E d \in Chats : Ask(s, d)
        \/ /\ turn[s].step \in Busy
           /\ turn'[s].in = turn[s].in
           /\ places' = places \/ (turn[s].step = "written" /\ places' = [places EXCEPT ![turn[s].in] = Append(@, Message(s, "assistant"))])
    BY <1>0 DEF Turn, NoProvider, Nearest, Resolve, WriteQuestion, ReadHistory, WriteAnswer, At, Busy, Take
  <2>5. \A u \in Turns \ {s} : turn'[u] = turn[u]
    BY <1>0 DEF Turn, Ask, NoProvider, Nearest, Resolve, WriteQuestion, ReadHistory, WriteAnswer, At
  <2>6. turn'[s].in # c \/ turn'[s].step \notin Busy
    <3>1. ASSUME NEW d \in Chats, Ask(s, d) PROVE turn'[s].in = d
      BY <1>0, <3>1 DEF Ask
    <3>. QED  BY <2>2, <2>3, <2>4, <3>1
  <2>7. places'[c] = places[c]
    <3>1. c \in Chats
      BY <1>0, <1>3
    <3>2. ASSUME NEW d \in Chats, Ask(s, d) PROVE places'[c] = places[c]
      <4>1. d # c /\ places' = [places EXCEPT ![d] = Append(@, Message(s, "user"))]
        BY <2>2, <3>2 DEF Ask, Take
      <4>. QED  BY <1>0, <3>1, <4>1
    <3>. QED  BY <1>0, <2>3, <2>4, <3>1, <3>2
  <2>8. Others(t, c)' = {}
    <3>. SUFFICES ASSUME NEW u \in Turns \ {t}, turn'[u].in = c, turn'[u].step \in Busy PROVE FALSE
      BY <1>1 DEF Others
    <3>. QED  BY <2>1, <2>5, <2>6 DEF Others
  <2>. QED  BY <2>7, <2>8
<1>4. Alone(t)'
  BY <1>1, <1>3 DEF Alone
<1>5. WindowFits(t)'
  BY <1>0, <1>1, <1>2 DEF TurnFits, WindowFits
<1>6. QuestionLast(t)'
  <2>. SUFFICES ASSUME t \notin overlapped', Pending(t)
       PROVE  (Gone(c)' /\ places'[c] = <<>>) \/ AtTheEnd(t, c)'
    BY <1>1 DEF QuestionLast, Pending
  <2>1. turn[t].step \in Busy
    BY DEF Pending, Busy
  <2>2. places'[c] = places[c] /\ t \notin overlapped
    BY <1>2, <1>3, <2>1
  <2>3. (Gone(c)' <=> Gone(c)) /\ (There(c)' <=> There(c))
    BY TurnsOpenNothing
  <2>4. (Gone(c) /\ places[c] = <<>>) \/ AtTheEnd(t, c)
    BY <1>0, <2>2 DEF TurnFits, QuestionLast
  <2>. QED  BY <1>1, <1>2, <2>2, <2>3, <2>4 DEF AtTheEnd
<1>. QED  BY <1>4, <1>5, <1>6 DEF TurnFits

\* A turn's own step.
LEMMA OwnStepKeeps ==
    ASSUME ConversationInv, MemoryInv, NEW t \in Turns, Turn(t)
    PROVE  TurnFits(t)' /\ ConversationsTyped'
<1>c. PICK c : c = turn[t].in
  OBVIOUS
<1>. USE <1>c
<1>0. /\ turn \in [Turns -> [step : TurnSteps, in : Chats \cup {"nowhere"}]]
      /\ places \in [Chats -> Seq(ChatMessages)] /\ DOMAIN window = Turns
      /\ chat_thread \in [Threads -> {"none", "live", "gone"}]
      /\ Alone(t) /\ QuestionLast(t) /\ WindowFits(t)
      /\ \A u \in Turns : turn[u].step \in Busy => turn[u].in \in Chats
  BY DEF ConversationInv, ConversationsTyped, MemoryInv, Types, TurnFits
<1>1. ASSUME NEW d \in Chats, Ask(t, d) PROVE TurnFits(t)' /\ ConversationsTyped'
  <2>1. /\ turn' = [turn EXCEPT ![t] = [step |-> "asked", in |-> d]]
        /\ places' = [places EXCEPT ![d] = Append(@, Message(t, "user"))]
        /\ overlapped' = IF Others(t, d) = {} THEN overlapped ELSE overlapped \cup {t} \cup Others(t, d)
        /\ window' = window /\ There(d)' /\ chat_thread' = chat_thread
    BY <1>1, TurnsOpenNothing DEF Ask, Take, Open, rowVars
  <2>2. /\ turn'[t].step = "asked" /\ turn'[t].in = d
        /\ \A u \in Turns \ {t} : turn'[u] = turn[u]
    BY <1>0, <2>1
  <2>3. Others(t, d)' = Others(t, d)
    BY <2>2 DEF Others
  <2>4. Alone(t)'
    BY <2>1, <2>2, <2>3 DEF Alone
  <2>5. WindowFits(t)'
    BY <1>0, <2>1 DEF WindowFits
  <2>6. Message(t, "user") \in ChatMessages
    BY DEF Message, ChatMessages
  <2>7. /\ places'[d] \in Seq(ChatMessages) /\ places'[d] # <<>>
        /\ places'[d][Len(places'[d])] = Message(t, "user")
    <3>1. PICK old \in Seq(ChatMessages) : old = places[d] /\ places'[d] = Append(old, Message(t, "user"))
      BY <1>0, <2>1
    <3>. QED  BY <2>6, <3>1
  <2>8. places' \in [Chats -> Seq(ChatMessages)]
    BY <1>0, <2>1, <2>7
  <2>9. QuestionLast(t)'
    BY <2>1, <2>2, <2>7 DEF QuestionLast, AtTheEnd
  <2>10. ConversationsTyped'
    BY <1>0, <2>1, <2>2, <2>8 DEF ConversationsTyped
  <2>. QED  BY <2>4, <2>5, <2>9, <2>10 DEF TurnFits
\* Steps that go on with the question, or end the turn.
<1>2. ASSUME NEW s \in TurnSteps, At(t, s), UNCHANGED <<places, overlapped, chat_thread>>,
             committed \subseteq committed', turn[t].step \in Busy,
             window' = window \/ window' = [window EXCEPT ![t] = <<>>],
             s \in {"asked", "near", "grounded", "written"} => Pending(t),
             s = "written" => turn[t].step = "written" \/ Message(t, "user") \in committed'
      PROVE  TurnFits(t)' /\ ConversationsTyped'
  <2>1. /\ turn'[t].step = s /\ turn'[t].in = c
        /\ \A u \in Turns \ {t} : turn'[u] = turn[u]
    BY <1>0, <1>2 DEF At
  <2>2. Others(t, c)' = Others(t, c)
    BY <2>1 DEF Others
  <2>3. Alone(t)'
    BY <1>0, <1>2, <2>1, <2>2 DEF Alone
  <2>4. WindowFits(t)'
    BY <1>0, <1>2 DEF WindowFits
  <2>5. QuestionLast(t)'
    <3>. SUFFICES ASSUME t \notin overlapped, Pending(t)'
         PROVE  (Gone(c)' /\ places'[c] = <<>>) \/ AtTheEnd(t, c)'
      BY <1>2, <2>1 DEF QuestionLast
    <3>1. Pending(t)
      BY <1>2, <2>1 DEF Pending
    <3>2. (Gone(c) /\ places[c] = <<>>) \/ AtTheEnd(t, c)
      BY <1>0, <3>1 DEF QuestionLast
    <3>3. (Gone(c)' <=> Gone(c)) /\ (There(c)' <=> There(c))
      BY TurnsOpenNothing
    <3>. QED  BY <1>2, <2>1, <3>2, <3>3 DEF AtTheEnd
  <2>6. ConversationsTyped'
    <3>1. DOMAIN window' = Turns
      BY <1>0, <1>2
    <3>. QED  BY <1>0, <1>2, <2>1, <3>1 DEF ConversationsTyped
  <2>. QED  BY <2>3, <2>4, <2>5, <2>6 DEF TurnFits
<1>3. CASE NoProvider(t) \/ Nearest(t) \/ Resolve(t) \/ WriteQuestion(t) \/ WriteAnswer(t)
  <2>1. UNCHANGED <<places, overlapped, chat_thread>>
    BY <1>3 DEF NoProvider, Nearest, Resolve, WriteQuestion, WriteAnswer, rowVars
  <2>2. committed \subseteq committed' /\ turn[t].step \in Busy
    BY <1>3 DEF NoProvider, Nearest, Resolve, WriteQuestion, WriteAnswer, Busy
  <2>3. window' = window \/ window' = [window EXCEPT ![t] = <<>>]
    BY <1>3 DEF NoProvider, Nearest, Resolve, WriteQuestion, WriteAnswer
  <2>4. \/ At(t, "over")
        \/ At(t, "near") /\ Pending(t)
        \/ At(t, "grounded") /\ Pending(t)
        \/ At(t, "written") /\ Pending(t) /\ Message(t, "user") \in committed'
    BY <1>3 DEF NoProvider, Nearest, Resolve, WriteQuestion, WriteAnswer, Pending
  <2>5. {"over", "near", "grounded", "written"} \subseteq TurnSteps
    BY DEF TurnSteps
  <2>. QED  BY <1>2, <2>1, <2>2, <2>3, <2>4, <2>5
<1>4. CASE ReadHistory(t)
  <2>1. /\ turn[t].step = "written" /\ At(t, "streaming")
        /\ window' = [window EXCEPT ![t] = RecentTurns(c)]
        /\ places' = [places EXCEPT ![c] = Append(@, Message(t, "assistant"))]
        /\ UNCHANGED <<overlapped, chat_thread>>
    BY <1>4 DEF ReadHistory, Take, rowVars
  <2>2. /\ turn'[t].step = "streaming" /\ turn'[t].in = c
        /\ \A u \in Turns \ {t} : turn'[u] = turn[u]
    BY <1>0, <2>1 DEF At
  <2>3. c \in Chats /\ Pending(t) /\ turn[t].step \in Busy
    BY <1>0, <2>1 DEF Busy, Pending
  <2>4. Alone(t)'
    <3>1. Others(t, c)' = Others(t, c)
      BY <2>2 DEF Others
    <3>. QED  BY <1>0, <2>1, <2>2, <2>3, <3>1 DEF Alone
  <2>5. QuestionLast(t)'
    BY <2>2 DEF QuestionLast, Pending
  <2>6. places' \in [Chats -> Seq(ChatMessages)]
    <3>1. Message(t, "assistant") \in ChatMessages
      BY DEF Message, ChatMessages
    <3>2. Append(places[c], Message(t, "assistant")) \in Seq(ChatMessages)
      BY <1>0, <2>3, <3>1
    <3>. QED  BY <1>0, <2>1, <3>2
  <2>7. ConversationsTyped'
    BY <1>0, <2>1, <2>2, <2>3, <2>6 DEF ConversationsTyped
  <2>8. WindowFits(t)'
    <3>. SUFFICES ASSUME t \notin overlapped, RecentTurns(c) # <<>>
         PROVE  RecentTurns(c)[Len(RecentTurns(c))] = Message(t, "user")
      <4>1. window'[t] = RecentTurns(c)
        BY <1>0, <2>1
      <4>. QED  BY <2>1, <4>1 DEF WindowFits
    <3>1. places[c] # <<>>
      BY <2>3, NothingVisible
    <3>2. AtTheEnd(t, c)
      BY <1>0, <2>3, <3>1 DEF QuestionLast
    <3>3. Message(t, "user") \in committed /\ Message(t, "user") = places[c][Len(places[c])]
      BY <2>1, <3>2 DEF AtTheEnd
    <3>4. places[c] \in Seq(ChatMessages)
      BY <1>0, <2>3
    <3>. QED  BY <2>3, <3>1, <3>3, <3>4, HistoryEnds
  <2>. QED  BY <2>4, <2>5, <2>7, <2>8 DEF TurnFits
<1>. QED  BY <1>1, <1>3, <1>4 DEF Turn

LEMMA ConversationPreserved ==
    MemoryInv /\ ConversationInv /\ [MemoryNext]_memoryVars => ConversationInv'
<1>. SUFFICES ASSUME MemoryInv, ConversationInv, [MemoryNext]_memoryVars PROVE ConversationInv'
  OBVIOUS
<1>1. ASSUME NEW s \in Turns, Turn(s) PROVE ConversationInv'
  <2>1. ConversationsTyped' /\ TurnFits(s)'
    BY <1>1, OwnStepKeeps
  <2>2. \A t \in Turns \ {s} : TurnFits(t)'
    BY <1>1, OtherTurnKeeps
  <2>. QED  BY <2>1, <2>2 DEF ConversationInv
<1>2. CASE UNCHANGED memoryVars
  <2>1. UNCHANGED <<chat_thread, report, turnVars>>
    BY <1>2 DEF memoryVars, turnVars
  <2>2. \A c \in Chats : (Gone(c) => Gone(c)') /\ (There(c) => There(c)')
    BY <2>1 DEF Gone, There
  <2>. QED  BY <2>1, <2>2, ConversationStays DEF ConversationInv, ConversationsTyped
<1>. QED  BY <1>1, <1>2, ConversationRowsActions DEF MemoryNext

\* A turn that had its conversation to itself is shown a history that ends with
\* the question it asked: for any number of conversations and turns, whatever is
\* deleted meanwhile, and however long the conversation.
THEOREM HistoryEndsWithQuestion == MemorySpec => []WindowEndsWithQuestion
<1>1. ConversationInv => WindowEndsWithQuestion
  BY DEF ConversationInv, TurnFits, WindowFits, WindowEndsWithQuestion
<1>. QED  BY <1>1, ApprovedMemory, ConversationStarts, ConversationPreserved, PTL DEF MemorySpec

-----------------------------------------------------------------------------
(* Model setup: an Offline run's calls *)

\* The run has said whether it is Offline.
AttemptMade ==
    attempt # <<>> => /\ DOMAIN attempt = {1} /\ DOMAIN attempt[1] = {"routing", "offline"}
                      /\ attempt[1].offline \in BOOLEAN

\* What a segment dials under is what its run said.
DiallingAsSaid ==
    dialling # <<>> => attempt # <<>> /\ dialling[1].offline = attempt[1].offline

\* What OfflineStays needs of the steps before a call.
OfflineInv == AttemptMade /\ DiallingAsSaid /\ OfflineStays

LEMMA OfflineStarts == SetupInit => OfflineInv
BY DEF SetupInit, OfflineInv, AttemptMade, DiallingAsSaid, OfflineStays

\* A call that is not refused is made here or not under an Offline run.
LEMMA NotRefusedIsHere ==
    ASSUME NEW cfg, NEW r \in AgentRoles, ~Refused(cfg), cfg.offline
    PROVE  Endpoint(cfg, cfg.models[r]) = "here"
<1>1. ~Leaves(cfg, cfg.models[r])
  BY DEF Refused
<1>. QED  BY <1>1 DEF Leaves, Endpoint

LEMMA SegmentStays == OfflineInv /\ Segment => OfflineInv'
<1>. SUFFICES ASSUME OfflineInv, Segment PROVE OfflineInv'
  OBVIOUS
<1>. DEFINE models == RoutingOf(attempt[1].routing)
            cfg    == ConfigOf(models, attempt[1].offline)
<1>1. /\ attempt # <<>> /\ attempt' = [attempt EXCEPT ![1].routing = <<models>>]
      /\ dialling' = <<cfg>> /\ called' = called
  BY DEF Segment
<1>2. /\ DOMAIN attempt = {1} /\ DOMAIN attempt[1] = {"routing", "offline"}
      /\ attempt[1].offline \in BOOLEAN
  BY <1>1 DEF OfflineInv, AttemptMade
<1>3. cfg.offline = attempt[1].offline
  BY DEF ConfigOf
<1>. HIDE DEF models, cfg
<1>4. /\ DOMAIN attempt' = {1} /\ DOMAIN attempt'[1] = {"routing", "offline"}
      /\ attempt'[1].offline = attempt[1].offline
  BY <1>1, <1>2
<1>5. attempt' # <<>>
  BY <1>4
<1>6. dialling'[1] = cfg
  BY <1>1
<1>. QED
  BY <1>1, <1>2, <1>3, <1>4, <1>5, <1>6 DEF OfflineInv, AttemptMade, DiallingAsSaid, OfflineStays

LEMMA CallStays == \A r \in AgentRoles : OfflineInv /\ Call(r) => OfflineInv'
<1>. SUFFICES ASSUME NEW r \in AgentRoles, OfflineInv, Call(r) PROVE OfflineInv'
  OBVIOUS
<1>. DEFINE cfg  == dialling[1]
            call == [route |-> cfg.models[r], at |-> Endpoint(cfg, cfg.models[r]),
                     offline |-> attempt[1].offline]
<1>1. dialling # <<>> /\ ~Refused(cfg) /\ called' = <<call>> /\ UNCHANGED <<attempt, dialling>>
  BY DEF Call
<1>2. cfg.offline = attempt[1].offline
  BY <1>1 DEF OfflineInv, DiallingAsSaid
<1>3. call.offline => call.at = "here"
  BY <1>1, <1>2, NotRefusedIsHere
<1>. HIDE DEF call
<1>4. called'[1] = call
  BY <1>1
<1>. QED  BY <1>1, <1>3, <1>4 DEF OfflineInv, AttemptMade, DiallingAsSaid, OfflineStays

LEMMA OfflineStep == OfflineInv /\ [SetupNext]_setupVars => OfflineInv'
<1>. SUFFICES ASSUME OfflineInv, [SetupNext]_setupVars PROVE OfflineInv'
  OBVIOUS
<1>1. CASE UNCHANGED <<attempt, dialling, called>>
  BY <1>1 DEF OfflineInv, AttemptMade, DiallingAsSaid, OfflineStays
<1>2. CASE UNCHANGED <<attempt, called>> /\ dialling' = <<>>
  BY <1>2 DEF OfflineInv, AttemptMade, DiallingAsSaid, OfflineStays
<1>3. ASSUME NEW f \in {<<>>} \cup {<<g>> : g \in Asked}, NEW off \in BOOLEAN, AskForRun(f, off)
      PROVE  OfflineInv'
  <2>. DEFINE made == [routing |-> IF f = <<>> THEN <<>> ELSE Validated(f[1]), offline |-> off]
  <2>1. attempt = <<>> /\ attempt' = <<made>> /\ UNCHANGED <<dialling, called>>
    BY <1>3 DEF AskForRun
  <2>2. DOMAIN made = {"routing", "offline"} /\ made.offline \in BOOLEAN
    OBVIOUS
  <2>. HIDE DEF made
  <2>3. attempt'[1] = made /\ DOMAIN attempt' = {1}
    BY <2>1
  <2>. QED  BY <2>1, <2>2, <2>3 DEF OfflineInv, AttemptMade, DiallingAsSaid, OfflineStays
<1>4. CASE \/ LocalServerChanges \/ ClearRouting
           \/ \E p \in {"cloud", "custom"} : RemoveKey(p) \/ \E a \in {"none", "here", "away"} : SetKey(p, a)
           \/ \E a \in {"none", "here", "away"} : SaveEndpoint(a)
           \/ \E f \in Asked \cup LocalPresets : SetRouting(f)
  <2>1. UNCHANGED <<attempt, dialling, called>>
    BY <1>4 DEF LocalServerChanges, ClearRouting, RemoveKey, SetKey, SaveEndpoint, SetRouting
  <2>. QED  BY <1>1, <2>1
<1>5. CASE Upgrade \/ EndSegment
  BY <1>2, <1>5 DEF Upgrade, EndSegment
<1>6. CASE UNCHANGED setupVars
  BY <1>1, <1>6 DEF setupVars
<1>. QED
  BY <1>3, <1>4, <1>5, <1>6, SegmentStays, CallStays DEF SetupNext

\* "Every model call a run makes stays on this machine": whatever keys, settings
\* and builds change between the segments of an Offline run.
THEOREM OfflineCallsStay == SetupSpec => []OfflineStays
<1>1. OfflineInv => OfflineStays
  BY DEF OfflineInv
<1>. QED  BY <1>1, OfflineStarts, OfflineStep, PTL DEF SetupSpec

-----------------------------------------------------------------------------
(* Model setup: what the page says *)

\* Readiness and the making of a client read the same settings at one moment, so
\* this needs no history: a page that says no has found what a role lacks.
LEMMA NotReadyNow == NotReadyIsTrue
<1>. DEFINE models == RoutingOf(<<>>)
            cfg    == ConfigOf(models, FALSE)
<1>. SUFFICES ASSUME ~Ready, Desktop \/ CustomAddress = "none"
              PROVE  \E r \in AgentRoles : ~(Buildable(cfg, cfg.models[r]) /\ Answers(cfg, r))
  BY DEF NotReadyIsTrue
<1>1. cfg.models = models /\ cfg.keys = ProviderKeys /\ cfg.address = CustomAddress
  BY DEF ConfigOf
<1>2. ~HasCloudKey /\ ChatModels = {}
  BY DEF Ready
<1>. HIDE DEF cfg, models
<1>3. CASE ProviderKeys = {} /\ CustomAddress = "none"
  <2>1. PICK r \in AgentRoles : TRUE
    BY SetupAssumption
  <2>2. CASE cfg.models[r].provider = "ollama"
    BY <1>2, <2>2 DEF Answers
  <2>3. CASE cfg.models[r].provider = "custom"
    BY <1>1, <1>3, <2>3 DEF Buildable
  <2>4. CASE cfg.models[r].provider \notin Keyless
    BY <1>1, <1>3, <2>4 DEF Buildable
  <2>. QED  BY <2>2, <2>3, <2>4 DEF Keyless
<1>4. CASE MissingKey(models)
  <2>1. PICK r \in AgentRoles : models[r].provider \notin Keyless /\ ProviderKeys = {}
    BY <1>4 DEF MissingKey
  <2>. QED  BY <1>1, <2>1 DEF Buildable
<1>. QED  BY <1>2, <1>3, <1>4 DEF HasCloudKey, models

\* A page that says research cannot run does not lock a user out of a setup that
\* would: whatever the deployment, the keys, the routing and the local server.
THEOREM NotReadyTrue == SetupSpec => []NotReadyIsTrue
<1>. QED  BY NotReadyNow, PTL

-----------------------------------------------------------------------------
(* The live stream: types *)

Writing == [pc : {"idle", "queued", "flushed", "committed"}, event : EventRecord]
Connection == [pc : {"closed", "authorised", "subscribed", "replay", "tail", "hungup"},
               after : Nat, done : BOOLEAN,
               backlog : Seq(EventRecord), live : Seq(EventRecord), seen : Nat]
PageRecord == [key : Suspended \cup {"RUNNING"}, due : BOOLEAN]

\* Names of gates and of the statuses a run is parked at.
LEMMA GateNames ==
    /\ Gates = {"PLAN_READY", "HITL_READY"}
    /\ Parked = {"AWAITING_PLAN", "AWAITING_REVIEW"}
    /\ \A g \in Gates : GATE_PARKS_AT[g] \in Parked
<1>1. Gates = {"PLAN_READY", "HITL_READY"}
  BY DEF Gates, GATE_PARKS_AT
<1>2. /\ GATE_PARKS_AT["PLAN_READY"] = "AWAITING_PLAN"
      /\ GATE_PARKS_AT["HITL_READY"] = "AWAITING_REVIEW"
  BY DEF GATE_PARKS_AT
<1> QED
  BY <1>1, <1>2 DEF Parked

\* The states an emitter and a listener rest in are well typed.
LEMMA IdleTypes == Silent \in Writing /\ Closed \in Connection /\ HungUp \in Connection
<1>1. <<>> \in Seq(EventRecord)
  OBVIOUS
<1>2. Event(0, "agent_log") \in EventRecord
  BY DEF Event, EventRecord, EventTypes, TerminalStop
<1> QED
  BY <1>1, <1>2 DEF Silent, Closed, HungUp, Writing, Connection

\* Publishing an event keeps the type of the connection.
LEMMA PublishedType ==
    ASSUME TypeOK, NEW event \in EventRecord
    PROVE  Published(event) \in Connection
<1>1. stream \in Connection
  BY DEF TypeOK, Connection
<1>2. Append(stream.live, event) \in Seq(EventRecord)
  BY <1>1, AppendProperties DEF Connection
<1> QED
  BY <1>1, <1>2 DEF Published, Connection

\* The last event shown is a number, 0 before there is one.
LEMMA LastSeenType == ASSUME TypeOK PROVE LastSeen \in Nat
<1>1. CASE view = <<>>
  BY <1>1 DEF LastSeen
<1>2. CASE view # <<>>
  <2>1. view \in Seq(Nat) /\ Len(view) \in 1 .. Len(view)
    BY <1>2 DEF TypeOK
  <2> QED
    BY <1>2, <2>1 DEF LastSeen, Last
<1> QED
  BY <1>1, <1>2

\* Every variable keeps its type when the worker's side moves.
LEMMA WorkerType ==
    ASSUME TypeOK, NEW e \in Emitters,
           BeginWrite(e) \/ BeginAnnounce(e) \/ Write(e) \/ PublishFails(e)
    PROVE  TypeOK'
<1>1. emitter[e] \in Writing /\ emitter \in [Emitters -> Writing]
  BY DEF TypeOK, Writing
<1>2. emitter[e].event \in EventRecord /\ emitter[e].event.id \in Nat
  BY <1>1 DEF Writing, EventRecord
<1>3. CASE BeginWrite(e)
  <2>1. [pc |-> "queued", event |-> Event(0, "agent_log")] \in Writing
    BY DEF Writing, Event, EventRecord, EventTypes, TerminalStop
  <2>2. emitter' \in [Emitters -> Writing]
    BY <1>1, <1>3, <2>1 DEF BeginWrite
  <2> QED
    BY <1>3, <2>2 DEF BeginWrite, TypeOK, Writing, broker, client
<1>4. CASE BeginAnnounce(e)
  <2>1. outcome \in EventTypes
    BY <1>4, GateNames DEF BeginAnnounce, TypeOK, EventTypes, TerminalStop
  <2>2. [pc |-> "queued", event |-> Event(0, outcome)] \in Writing
    BY <2>1 DEF Writing, Event, EventRecord
  <2>3. emitter' \in [Emitters -> Writing]
    BY <1>1, <1>4, <2>2 DEF BeginAnnounce
  <2> QED
    BY <1>4, <2>3 DEF BeginAnnounce, TypeOK, Writing, broker, client
<1>5. CASE FlushRow(e)
  <2>1. nextId \in Nat
    BY DEF TypeOK
  <2>2. emitter' \in [Emitters -> Writing]
    BY <1>1, <1>5, <2>1 DEF FlushRow, Writing, EventRecord
  <2> QED
    BY <1>5, <2>1, <2>2 DEF FlushRow, TypeOK, Writing, broker, client
<1>6. CASE CommitRow(e)
  <2>1. log' \in Seq(EventRecord)
    BY <1>2, <1>6, AppendProperties DEF CommitRow, TypeOK
  <2>2. emitter' \in [Emitters -> Writing]
    BY <1>1, <1>6 DEF CommitRow, Writing
  <2> QED
    BY <1>6, <2>1, <2>2 DEF CommitRow, TypeOK, Writing, broker, client
<1>7. CASE PublishRow(e)
  <2>1. stream' \in Connection
    BY <1>2, <1>7, PublishedType DEF PublishRow
  <2>2. emitter' \in [Emitters -> Writing]
    BY <1>1, <1>7, IdleTypes DEF PublishRow
  <2>3. sent' \subseteq Nat
    BY <1>2, <1>7 DEF PublishRow, TypeOK
  <2> QED
    BY <1>7, <2>1, <2>2, <2>3 DEF PublishRow, TypeOK, Writing, Connection, broker, client
<1>8. CASE PublishFails(e)
  <2>1. emitter' \in [Emitters -> Writing]
    BY <1>1, <1>8, IdleTypes DEF PublishFails
  <2> QED
    BY <1>8, <2>1 DEF PublishFails, TypeOK, Writing, broker, client
<1> QED
  BY <1>3, <1>4, <1>5, <1>6, <1>7, <1>8 DEF Write

\* ... and when the driver or a decision moves.
LEMMA DriverType ==
    ASSUME TypeOK,
           \/ Settle \/ Unwind \/ MarkFailed \/ PublishFailure \/ Crash
           \/ Resume \/ ApproveReport \/ TakeTask \/ Cancel
    PROVE  TypeOK'
<1> DEFINE Statuses == Suspended \cup {"RUNNING"}
<1>1. CASE Settle
  <2>1. /\ status' \in Statuses /\ filed' \subseteq Gates
        /\ outcome' \in TerminalStop
    <3>1. status \in Statuses /\ filed \subseteq Gates
      BY DEF TypeOK
    <3>2. \A gate \in IF filed = {} THEN Gates ELSE {"HITL_READY"} :
             gate \in Gates /\ GATE_PARKS_AT[gate] \in Suspended
      BY GateNames DEF Suspended
    <3> QED
      BY <1>1, <3>1, <3>2 DEF Settle, Suspended, TerminalStop
  <2> QED
    BY <1>1, <2>1 DEF Settle, TypeOK, broker, client
<1>2. CASE Unwind
  BY <1>2 DEF Unwind, TypeOK, broker, client
<1>3. CASE MarkFailed
  BY <1>3 DEF MarkFailed, TypeOK, Suspended, broker, client
<1>4. CASE PublishFailure
  <2>1. Event(0, "FAILED") \in EventRecord
    BY DEF Event, EventRecord, EventTypes, TerminalStop
  <2>2. stream' \in Connection
    BY <1>4, <2>1, PublishedType DEF PublishFailure
  <2> QED
    BY <1>4, <2>2 DEF PublishFailure, TypeOK, Connection, broker, client
<1>5. CASE Crash
  <2>1. emitter' \in [Emitters -> Writing]
    BY <1>5, IdleTypes DEF Crash
  <2> QED
    BY <1>5, <2>1 DEF Crash, TypeOK, Writing, broker, client
<1>0. ASSUME Decided PROVE page' \in PageRecord
  BY <1>0 DEF Decided, TypeOK, PageRecord
<1>6. CASE Resume
  <2>1. page' \in PageRecord
    BY <1>0, <1>6 DEF Resume
  <2> QED
    BY <1>6, <2>1 DEF Resume, TypeOK, PageRecord, worker
<1>7. CASE TakeTask
  BY <1>7, ZenonT(90) DEF TakeTask, TypeOK, client
<1>8. CASE Cancel
  <2>1. page' \in PageRecord
    BY <1>0, <1>8 DEF Cancel
  <2> QED
    BY <1>8, <2>1 DEF Cancel, TypeOK, Suspended, PageRecord, worker, broker
<1>9. CASE ApproveReport
  <2>1. page' \in PageRecord
    BY <1>0, <1>9 DEF ApproveReport
  <2> QED
    BY <1>9, <2>1 DEF ApproveReport, TypeOK, Suspended, PageRecord, worker, broker
<1> QED
  BY <1>1, <1>2, <1>3, <1>4, <1>5, <1>6, <1>7, <1>8, <1>9

\* ... and when the listener does.
LEMMA ListenerType ==
    ASSUME TypeOK, Listen \/ Fetch \/ Reload \/ Drop \/ TurnAway
    PROVE  TypeOK'
<1>1. stream \in Connection /\ page \in PageRecord /\ Fetched \in PageRecord
  BY DEF TypeOK, Connection, PageRecord, Fetched
<1>2. ASSUME stream' \in Connection, page' \in PageRecord, view' \in Seq(Nat), drops' \in Nat,
             UNCHANGED <<status, broker, worker>>
      PROVE  TypeOK'
  BY <1>2 DEF TypeOK, Connection, PageRecord, broker, worker
<1>3. ASSUME NEW event \in EventRecord, Show(event)
      PROVE  view' \in Seq(Nat) /\ page' \in PageRecord
  <2>1. event.id \in Nat /\ view \in Seq(Nat)
    BY DEF EventRecord, TypeOK
  <2>2. view' \in Seq(Nat)
    BY <1>3, <2>1, AppendProperties DEF Show
  <2>3. page' \in PageRecord
    BY <1>1, <1>3 DEF Show, PageRecord
  <2> QED
    BY <2>2, <2>3
<1>4. CASE Connect
  <2>1. stream' \in Connection
    <3> DEFINE settled == status \in Suspended
    <3>1. settled \in BOOLEAN /\ LastSeen \in Nat
      BY LastSeenType
    <3>2. stream' = [Closed EXCEPT !.pc = "authorised", !.after = LastSeen, !.seen = LastSeen,
                                   !.done = settled]
      BY <1>4 DEF Connect
    <3> HIDE DEF settled
    <3> QED
      BY <3>1, <3>2, IdleTypes DEF Connection
  <2> QED
    BY <1>1, <1>2, <1>4, <2>1 DEF Connect, client, TypeOK
<1>5. CASE Subscribe
  BY <1>1, <1>2, <1>5 DEF Subscribe, client, TypeOK, Connection
<1>6. CASE Snapshot
  <2>1. Backlog \in Seq(EventRecord)
    <3> DEFINE known == {i \in DOMAIN log : log[i].id <= stream.after}
    <3>1. log \in Seq(EventRecord) /\ DOMAIN log = 1 .. Len(log) /\ Len(log) \in Nat
      BY DEF TypeOK
    <3>2. IsFiniteSet(1 .. Len(log)) /\ known \subseteq 1 .. Len(log)
      BY <3>1, FS_Interval
    <3>3. Cardinality(known) \in Nat
      BY <3>2, FS_Subset, FS_CardinalityType
    <3> HIDE DEF known
    <3>4. SubSeq(log, Cardinality(known) + 1, Len(log)) \in Seq(EventRecord)
      BY <3>1, <3>3, SubSeqProperties
    <3> QED
      BY <3>4 DEF Backlog, known
  <2>2. stream' \in Connection
    BY <1>1, <1>6, <2>1 DEF Snapshot, Connection
  <2> QED
    BY <1>1, <1>2, <1>6, <2>2 DEF Snapshot, client, TypeOK
<1>7. CASE Replay
  <2>1. Head(stream.backlog) \in EventRecord /\ Tail(stream.backlog) \in Seq(EventRecord)
    BY <1>1, <1>7, HeadTailProperties DEF Replay, Connection
  <2>2. stream' \in Connection
    <3>1. [stream EXCEPT !.backlog = Tail(@), !.seen = Head(stream.backlog).id] \in Connection
      BY <1>1, <2>1 DEF Connection, EventRecord
    <3> QED
      BY <1>7, <3>1, IdleTypes DEF Replay, After
  <2>3. view' \in Seq(Nat) /\ page' \in PageRecord
    BY <1>3, <1>7, <2>1 DEF Replay
  <2> QED
    BY <1>2, <1>7, <2>2, <2>3 DEF Replay, TypeOK
<1>8. CASE EndReplay
  BY <1>1, <1>2, <1>8, IdleTypes DEF EndReplay, client, TypeOK, Connection
<1>9. CASE TailLive
  <2> DEFINE event == Head(stream.live)
             rest  == [stream EXCEPT !.live = Tail(@)]
  <2>1. event \in EventRecord /\ Tail(stream.live) \in Seq(EventRecord)
    BY <1>1, <1>9, HeadTailProperties DEF TailLive, Connection
  <2>2. rest \in Connection /\ event.id \in Nat
    BY <1>1, <2>1 DEF Connection, EventRecord
  <2>3. [rest EXCEPT !.seen = IF event.id = 0 THEN @ ELSE event.id] \in Connection
    BY <2>2 DEF Connection
  <2>4. stream' \in Connection /\ view' \in Seq(Nat) /\ page' \in PageRecord
    <3>1. CASE ~Fresh(event)
      BY <1>1, <1>9, <2>2, <3>1 DEF TailLive, TypeOK
    <3>2. CASE Fresh(event)
      BY <1>3, <1>9, <2>1, <2>3, <3>2, IdleTypes DEF TailLive, After
    <3> QED
      BY <3>1, <3>2
  <2> QED
    BY <1>2, <1>9, <2>4 DEF TailLive, TypeOK
<1>10. CASE Fetch
  <2>1. <<>> \in Seq(Nat)
    OBVIOUS
  <2> QED
    BY <1>1, <1>2, <1>10, <2>1, IdleTypes DEF Fetch, TypeOK
<1>11. CASE Reload
  <2>1. <<>> \in Seq(Nat)
    OBVIOUS
  <2> QED
    BY <1>1, <1>2, <1>11, <2>1, IdleTypes DEF Reload, TypeOK
<1>12. CASE Drop
  BY <1>1, <1>2, <1>12, IdleTypes DEF Drop, TypeOK
<1>13. CASE TurnAway
  BY <1>1, <1>2, <1>13, IdleTypes DEF TurnAway, TypeOK
<1> QED
  BY <1>4, <1>5, <1>6, <1>7, <1>8, <1>9, <1>10, <1>11, <1>12, <1>13 DEF Listen

\* So does every step.
LEMMA TypeStep == ASSUME TypeOK, [Next]_vars PROVE TypeOK'
<1>1. CASE UNCHANGED vars
  BY <1>1 DEF vars, worker, broker, client, TypeOK
<1> QED
  BY <1>1, WorkerType, DriverType, ListenerType DEF Next

\* And the stream starts out that way.
LEMMA TypeInit == ASSUME Init PROVE TypeOK
<1>1. <<>> \in Seq(EventRecord) /\ <<>> \in Seq(Nat)
  OBVIOUS
<1>2. emitter \in [Emitters -> Writing] /\ stream \in Connection
  BY IdleTypes DEF Init
<1> QED
  BY <1>1, <1>2 DEF Init, TypeOK, Suspended, Fetched, Writing, Connection

-----------------------------------------------------------------------------
(* The writer's side *)

\* Rows are committed in the order their ids were drawn.
IdsInOrder ==
    /\ nextId > 0
    /\ \A i \in DOMAIN log : 0 < log[i].id /\ log[i].id < nextId
    /\ \A i, j \in DOMAIN log : i < j => log[i].id < log[j].id

\* Between drawing an id and publishing it an emitter holds the write lock: its
\* row is the next one, and then the last one, and nobody has heard of it.
UnderLock == \A e \in Emitters :
    /\ emitter[e].pc \in {"flushed", "committed"} => writer = e
    /\ emitter[e].pc = "flushed" =>
         /\ 0 < emitter[e].event.id /\ emitter[e].event.id < nextId
         /\ \A i \in DOMAIN log : log[i].id < emitter[e].event.id
    /\ emitter[e].pc = "committed" =>
         /\ log # <<>> /\ emitter[e].event = log[Len(log)]
         /\ emitter[e].event.id \notin sent

\* "The row is durable before anybody hears of it."
SentAreLogged == \A id \in sent : \E i \in DOMAIN log : log[i].id = id

WriterInv == IdsInOrder /\ UnderLock /\ SentAreLogged

\* The rows of a sequence of events are events.
LEMMA RowTypes ==
    ASSUME NEW s \in Seq(EventRecord)
    PROVE  \A i \in DOMAIN s : s[i] \in EventRecord /\ s[i].id \in Nat
<1>1. \A i \in DOMAIN s : s[i] \in EventRecord
  BY ElementOfSeq
<1>2. \A event \in EventRecord : event.id \in Nat
  BY DEF EventRecord
<1> QED
  BY <1>1, <1>2

\* The numbers the reader's side is about.
LEMMA ReaderTypes ==
    ASSUME TypeOK
    PROVE  /\ log \in Seq(EventRecord) /\ Len(log) \in Nat /\ DOMAIN log = 1 .. Len(log)
           /\ \A i \in DOMAIN log : log[i] \in EventRecord /\ log[i].id \in Nat
           /\ stream \in Connection /\ stream.seen \in Nat /\ stream.after \in Nat
           /\ stream.live \in Seq(EventRecord) /\ stream.backlog \in Seq(EventRecord)
           /\ \A j \in DOMAIN stream.live : stream.live[j].id \in Nat
           /\ sent \subseteq Nat /\ LastSeen \in Nat
           /\ view \in Seq(Nat) /\ DOMAIN view = 1 .. Len(view)
<1>1. stream \in Connection /\ log \in Seq(EventRecord) /\ view \in Seq(Nat) /\ sent \subseteq Nat
  BY DEF TypeOK, Connection
<1>2. stream.live \in Seq(EventRecord) /\ stream.backlog \in Seq(EventRecord)
      /\ stream.seen \in Nat /\ stream.after \in Nat
  BY <1>1 DEF Connection
<1>3. \A i \in DOMAIN log : log[i] \in EventRecord /\ log[i].id \in Nat
  BY <1>1, RowTypes
<1>4. \A j \in DOMAIN stream.live : stream.live[j].id \in Nat
  BY <1>2, RowTypes
<1>5. /\ Len(log) \in Nat /\ DOMAIN log = 1 .. Len(log) 
      /\ DOMAIN view = 1 .. Len(view)
  BY <1>1
<1> QED
  BY <1>1, <1>2, <1>3, <1>4, <1>5, LastSeenType

\* A committed row comes last and disturbs none before it.
LEMMA LogGrows ==
    ASSUME TypeOK, NEW e \in Emitters, CommitRow(e)
    PROVE  /\ log' = Append(log, emitter[e].event) /\ log' # <<>>
           /\ DOMAIN log = 1 .. Len(log) /\ DOMAIN log' = 1 .. Len(log) + 1
           /\ Len(log') = Len(log) + 1 /\ Len(log) \in Nat
           /\ \A i \in DOMAIN log : log'[i] = log[i]
           /\ log'[Len(log) + 1] = emitter[e].event
<1>1. emitter[e].event \in EventRecord /\ log \in Seq(EventRecord)
  BY DEF TypeOK
<1> QED
  BY <1>1, AppendProperties DEF CommitRow

\* An emitter that takes a step leaves the others where they are.
LEMMA OthersStay ==
    ASSUME TypeOK, NEW e \in Emitters,
           BeginWrite(e) \/ BeginAnnounce(e) \/ Write(e) \/ PublishFails(e)
    PROVE  \A f \in Emitters \ {e} : emitter'[f] = emitter[f]
BY DEF TypeOK, BeginWrite, BeginAnnounce, Write, FlushRow, CommitRow, PublishRow, PublishFails

\* The ids stay in order and what is published is a row, whoever writes.
LEMMA WriterStep == ASSUME TypeOK, WriterInv, [Next]_vars PROVE WriterInv'
<1>1. emitter \in [Emitters -> Writing] /\ nextId \in Nat
  BY DEF TypeOK, Writing
<1>2. ASSUME UNCHANGED <<nextId, log, sent, writer>>,
             \A e \in Emitters : emitter'[e] = emitter[e] \/ emitter'[e].pc \in {"idle", "queued"}
      PROVE  WriterInv'
  BY <1>2 DEF WriterInv, IdsInOrder, UnderLock, SentAreLogged
<1>3. ASSUME NEW e \in Emitters, BeginWrite(e) \/ BeginAnnounce(e) PROVE WriterInv'
  <2>1. emitter'[e].pc = "queued"
    BY <1>1, <1>3 DEF BeginWrite, BeginAnnounce
  <2> QED
    BY <1>2, <1>3, <2>1, OthersStay DEF BeginWrite, BeginAnnounce
<1>4. ASSUME NEW e \in Emitters, FlushRow(e) PROVE WriterInv'
  <2>1. /\ emitter'[e].pc = "flushed" /\ emitter'[e].event.id = nextId
        /\ writer' = e /\ nextId' = nextId + 1 /\ UNCHANGED <<log, sent>>
    BY <1>1, <1>4 DEF FlushRow, Writing, EventRecord
  <2>2. \A f \in Emitters \ {e} :
          emitter'[f] = emitter[f] /\ emitter[f].pc \notin {"flushed", "committed"}
    BY <1>4, OthersStay, StreamAssumption DEF Write, WriterInv, UnderLock, FlushRow
  <2>3. IdsInOrder' /\ SentAreLogged'
    <3>1. \A i \in DOMAIN log : log[i].id \in Nat
      BY ReaderTypes
    <3> QED
      BY <1>1, <2>1, <3>1 DEF WriterInv, IdsInOrder, SentAreLogged
  <2>4. UnderLock'
    BY <1>1, <2>1, <2>2 DEF WriterInv, IdsInOrder, UnderLock
  <2> QED
    BY <2>3, <2>4 DEF WriterInv
<1>5. ASSUME NEW e \in Emitters, CommitRow(e) PROVE WriterInv'
  <2> DEFINE id == emitter[e].event.id
  <2>1. /\ emitter'[e].pc = "committed" /\ emitter'[e].event = emitter[e].event
        /\ UNCHANGED <<writer, nextId, sent>> /\ emitter[e].pc = "flushed"
    BY <1>1, <1>5 DEF CommitRow, Writing
  <2>2. /\ id \in Nat /\ 0 < id /\ id < nextId
        /\ \A i \in DOMAIN log : log[i].id < id
    BY <1>1, <2>1 DEF WriterInv, UnderLock, Writing, EventRecord
  <2>3. id \notin sent
    BY <2>2 DEF WriterInv, SentAreLogged
  <2>4. IdsInOrder'
    BY <1>5, <2>1, <2>2, LogGrows DEF WriterInv, IdsInOrder
  <2>5. SentAreLogged'
    BY <1>5, <2>1, LogGrows DEF WriterInv, SentAreLogged
  <2>6. \A f \in Emitters \ {e} :
          emitter'[f] = emitter[f] /\ emitter[f].pc \notin {"flushed", "committed"}
    BY <1>5, <2>1, OthersStay DEF Write, WriterInv, UnderLock
  <2>7. UnderLock'
    BY <1>5, <2>1, <2>3, <2>6, LogGrows DEF WriterInv, UnderLock
  <2> QED
    BY <2>4, <2>5, <2>7 DEF WriterInv
<1>6. ASSUME NEW e \in Emitters, PublishRow(e) \/ PublishFails(e) PROVE WriterInv'
  <2>1. /\ emitter'[e].pc = "idle" /\ emitter[e].pc = "committed"
        /\ UNCHANGED <<nextId, log>>
        /\ sent' = sent \/ sent' = sent \cup {emitter[e].event.id}
    BY <1>1, <1>6 DEF PublishRow, PublishFails, Silent
  <2>2. \A f \in Emitters \ {e} :
          emitter'[f] = emitter[f] /\ emitter[f].pc \notin {"flushed", "committed"}
    BY <1>6, <2>1, OthersStay DEF Write, WriterInv, UnderLock
  <2>3. \E i \in DOMAIN log : log[i].id = emitter[e].event.id
    BY <2>1 DEF WriterInv, UnderLock, TypeOK
  <2> QED
    BY <2>1, <2>2, <2>3 DEF WriterInv, IdsInOrder, UnderLock, SentAreLogged
<1>7. CASE Crash
  <2>1. \A e \in Emitters : emitter'[e].pc = "idle"
    BY <1>7 DEF Crash, Silent
  <2> QED
    BY <1>7, <2>1 DEF Crash, WriterInv, IdsInOrder, UnderLock, SentAreLogged
<1>8. CASE \/ Settle \/ Unwind \/ MarkFailed \/ PublishFailure
           \/ Resume \/ ApproveReport \/ TakeTask \/ Cancel
           \/ Listen \/ Fetch \/ Reload \/ Drop \/ TurnAway \/ UNCHANGED vars
  <2>1. UNCHANGED <<nextId, log, sent, writer, emitter>>
    BY <1>8 DEF Settle, Unwind, MarkFailed, PublishFailure, Resume, ApproveReport, TakeTask, Cancel,
       Listen, Connect, Subscribe, Snapshot, Replay, EndReplay, TailLive, Fetch, Reload, Drop,
       TurnAway, vars, worker
  <2> QED
    BY <1>2, <2>1
<1> QED
  BY <1>3, <1>4, <1>5, <1>6, <1>7, <1>8 DEF Next, Write

-----------------------------------------------------------------------------
(* The reader's side *)

ViewInOrder == \A i, j \in DOMAIN view : i < j => view[i] < view[j]

CursorLogged == view # <<>> => \E i \in DOMAIN log : log[i].id = LastSeen

\* What was published up to the cursor has been shown.
Honest == \A id \in sent : id <= LastSeen => \E j \in DOMAIN view : view[j] = id

\* A connection goes on from what the page shows.
Following ==
    /\ stream.pc \notin {"closed", "hungup"} => stream.seen = LastSeen
    /\ stream.pc \in {"authorised", "subscribed"} => stream.after = LastSeen

\* What is left of the backlog is the rows that follow the cursor, up to those
\* committed since the snapshot.
BacklogFollows ==
    /\ stream.pc = "replay" => \E k \in 0 .. Len(log) :
         /\ k + Len(stream.backlog) <= Len(log)
         /\ \A i \in DOMAIN log : log[i].id <= stream.seen <=> i <= k
         /\ \A j \in DOMAIN stream.backlog : stream.backlog[j] = log[k + j]
    /\ stream.pc = "tail" => stream.backlog = <<>>

\* The channel delivers rows in order, and nothing that was not published.
LiveInOrder ==
    /\ \A j \in DOMAIN stream.live : stream.live[j].id = 0 \/ stream.live[j].id \in sent
    /\ \A i, j \in DOMAIN stream.live :
         i < j /\ stream.live[i].id # 0 /\ stream.live[j].id # 0
           => stream.live[i].id < stream.live[j].id

\* Subscribed before the snapshot: no published row is between the two.
Covered == stream.pc \in {"replay", "tail"} => \A id \in sent :
    \/ id <= stream.seen
    \/ \E j \in DOMAIN stream.backlog : stream.backlog[j].id = id
    \/ \E j \in DOMAIN stream.live : stream.live[j].id = id

ShownInv  == ViewInOrder /\ CursorLogged /\ Honest
ReaderInv == ShownInv /\ Following /\ BacklogFollows /\ LiveInOrder /\ Covered

\* The cursor is not past the last row.
LEMMA CursorWithin ==
    ASSUME TypeOK, IdsInOrder, CursorLogged
    PROVE  LastSeen = 0 \/ (log # <<>> /\ LastSeen <= log[Len(log)].id)
<1>1. CASE view = <<>>
  BY <1>1 DEF LastSeen
<1>2. CASE view # <<>>
  <2>1. PICK i \in DOMAIN log : log[i].id = LastSeen
    BY <1>2 DEF CursorLogged
  <2>2. i = Len(log) \/ (i < Len(log) /\ log[i].id < log[Len(log)].id)
    BY <2>1, ReaderTypes DEF IdsInOrder
  <2> QED
    BY <2>1, <2>2, ReaderTypes
<1> QED
  BY <1>1, <1>2

\* A commit adds a row past every cursor.
LEMMA CommitReader ==
    ASSUME TypeOK, WriterInv, ReaderInv, NEW e \in Emitters, CommitRow(e)
    PROVE  ReaderInv'
<1> DEFINE id == emitter[e].event.id
<1>1. UNCHANGED <<sent, stream, view>> /\ LastSeen' = LastSeen
  BY DEF CommitRow, client, LastSeen
<1>2. id \in Nat /\ 0 < id /\ \A i \in DOMAIN log : log[i].id < id
  BY DEF CommitRow, WriterInv, UnderLock, TypeOK, EventRecord
<1>3. stream.pc \notin {"closed", "hungup"} => stream.seen < id
  <2>1. /\ IdsInOrder /\ CursorLogged
        /\ stream.pc \notin {"closed", "hungup"} => stream.seen = LastSeen
    BY DEF ReaderInv, ShownInv, WriterInv, Following
  <2>2. log # <<>> => Len(log) \in DOMAIN log /\ log[Len(log)].id \in Nat
    BY ReaderTypes
  <2> QED
    BY <1>2, <2>1, <2>2, CursorWithin, ReaderTypes, SMTT(30)
<1>4. BacklogFollows'
  <2>1. ASSUME stream.pc = "replay"
        PROVE  \E k \in 0 .. Len(log') :
                 /\ k + Len(stream.backlog) <= Len(log')
                 /\ \A i \in DOMAIN log' : log'[i].id <= stream.seen <=> i <= k
                 /\ \A j \in DOMAIN stream.backlog : stream.backlog[j] = log'[k + j]
    <3>1. PICK k \in 0 .. Len(log) :
            /\ k + Len(stream.backlog) <= Len(log)
            /\ \A i \in DOMAIN log : log[i].id <= stream.seen <=> i <= k
            /\ \A j \in DOMAIN stream.backlog : stream.backlog[j] = log[k + j]
      BY <2>1 DEF ReaderInv, BacklogFollows
    <3>2. k \in 0 .. Len(log') /\ k + Len(stream.backlog) <= Len(log')
      BY <3>1, LogGrows, ReaderTypes
    <3>3. \A i \in DOMAIN log' : log'[i].id <= stream.seen <=> i <= k
      <4>1. ASSUME NEW i \in DOMAIN log PROVE log'[i].id <= stream.seen <=> i <= k
        BY <3>1, LogGrows
      <4>2. log'[Len(log) + 1].id = id /\ ~(id <= stream.seen) /\ ~(Len(log) + 1 <= k)
        <5>1. stream.seen < id
          BY <1>3, <2>1
        <5>2. ~(id <= stream.seen)
          BY <1>2, <5>1, ReaderTypes
        <5> QED
          BY <3>1, <5>2, LogGrows, ReaderTypes
      <4>3. \A i \in DOMAIN log' : i \in DOMAIN log \/ i = Len(log) + 1
        BY LogGrows, ReaderTypes
      <4> QED
        BY <4>1, <4>2, <4>3
    <3>4. \A j \in DOMAIN stream.backlog : stream.backlog[j] = log'[k + j]
      <4>1. \A j \in DOMAIN stream.backlog : k + j \in DOMAIN log
        BY <3>1, ReaderTypes
      <4> QED
        BY <3>1, <4>1, LogGrows
    <3> QED
      BY <3>2, <3>3, <3>4
  <2> QED
    BY <1>1, <2>1 DEF ReaderInv, BacklogFollows
<1>5. CursorLogged'
  BY <1>1, LogGrows DEF ReaderInv, ShownInv, CursorLogged
<1> QED
  BY <1>1, <1>4, <1>5 DEF ReaderInv, ShownInv, ViewInOrder, Honest, Following, LiveInOrder, Covered

\* What is published goes to the end of the channel, and is a later row than
\* all that went there before, or no row.
LEMMA PublishReader ==
    ASSUME TypeOK, WriterInv, ReaderInv, NEW event \in EventRecord,
           stream' = Published(event), UNCHANGED <<log, view>>,
           \/ event.id = 0 /\ sent' = sent
           \/ /\ log # <<>> /\ event.id = log[Len(log)].id
              /\ event.id \notin sent /\ sent' = sent \cup {event.id}
    PROVE  ReaderInv'
<1> DEFINE id == event.id
<1>1. id \in Nat /\ LastSeen' = LastSeen
  BY DEF EventRecord, LastSeen
<1>2. /\ stream'.pc = stream.pc /\ stream'.seen = stream.seen /\ stream'.after = stream.after
      /\ stream'.backlog = stream.backlog
      /\ (stream'.live = stream.live /\ ~Subscribed) \/ stream'.live = Append(stream.live, event)
  BY ReaderTypes DEF Published, Connection
<1>3. ViewInOrder' /\ CursorLogged' /\ Following' /\ BacklogFollows'
  BY <1>1, <1>2 DEF ReaderInv, ShownInv, ViewInOrder, CursorLogged, Following, BacklogFollows
<1>4. Honest'
  <2>1. ASSUME log # <<>>, id = log[Len(log)].id, id <= LastSeen
        PROVE  \E j \in DOMAIN view : view[j] = id
    <3>1. 0 < id
      BY <2>1, ReaderTypes DEF WriterInv, IdsInOrder
    <3>2. LastSeen = id
      BY <1>1, <2>1, <3>1, CursorWithin, ReaderTypes DEF ReaderInv, ShownInv, WriterInv
    <3> QED
      BY <3>1, <3>2, ReaderTypes DEF LastSeen, Last
  <2> QED
    BY <1>1, <2>1 DEF ReaderInv, ShownInv, Honest
<1>5. \A i \in sent : i < id \/ id = 0
  <2>1. ASSUME NEW i \in sent, id # 0 PROVE i < id
    <3>1. PICK k \in DOMAIN log : log[k].id = i
      BY DEF WriterInv, SentAreLogged
    <3>2. id = log[Len(log)].id /\ i # id /\ Len(log) \in DOMAIN log
      BY <2>1, <3>1, ReaderTypes
    <3>3. k < Len(log)
      BY <3>1, <3>2, ReaderTypes
    <3> QED
      BY <3>1, <3>2, <3>3, ReaderTypes DEF WriterInv, IdsInOrder
  <2> QED
    BY <2>1
<1>6. CASE stream'.live = stream.live /\ ~Subscribed
  <2>1. LiveInOrder'
    BY <1>6 DEF ReaderInv, LiveInOrder
  <2>2. Covered'
    BY <1>2, <1>6 DEF Covered, Subscribed
  <2> QED
    BY <1>3, <1>4, <2>1, <2>2 DEF ReaderInv, ShownInv
<1>7. CASE stream'.live = Append(stream.live, event)
  <2>1. /\ DOMAIN stream.live = 1 .. Len(stream.live) /\ Len(stream.live) \in Nat
        /\ DOMAIN stream'.live = 1 .. Len(stream.live) + 1
        /\ \A j \in DOMAIN stream.live : stream'.live[j] = stream.live[j]
        /\ stream'.live[Len(stream.live) + 1] = event
    BY <1>7, ReaderTypes, AppendProperties
  <2>2. LiveInOrder'
    <3>1. \A j \in DOMAIN stream'.live : stream'.live[j].id = 0 \/ stream'.live[j].id \in sent'
      BY <2>1 DEF ReaderInv, LiveInOrder
    <3>2. ASSUME NEW i \in DOMAIN stream'.live, NEW j \in DOMAIN stream'.live, i < j,
                 stream'.live[i].id # 0, stream'.live[j].id # 0
          PROVE  stream'.live[i].id < stream'.live[j].id
      <4>1. i \in DOMAIN stream.live /\ stream'.live[i] = stream.live[i]
        BY <2>1, <3>2
      <4>2. CASE j \in DOMAIN stream.live
        BY <2>1, <3>2, <4>1, <4>2 DEF ReaderInv, LiveInOrder
      <4>3. CASE j = Len(stream.live) + 1
        <5>1. stream.live[i].id \in sent /\ stream'.live[j] = event
          BY <2>1, <3>2, <4>1, <4>3 DEF ReaderInv, LiveInOrder
        <5> QED
          BY <1>5, <3>2, <4>1, <5>1
      <4> QED
        BY <2>1, <4>2, <4>3
    <3> QED
      BY <3>1, <3>2 DEF LiveInOrder
  <2>3. Covered'
    BY <1>2, <2>1 DEF ReaderInv, Covered
  <2> QED
    BY <1>3, <1>4, <2>2, <2>3 DEF ReaderInv, ShownInv
<1> QED
  BY <1>2, <1>3, <1>4, <1>6, <1>7 DEF ReaderInv, ShownInv

\* Showing the next event that was not shown moves an honest cursor to it.
LEMMA ShowNext ==
    ASSUME TypeOK, ShownInv, NEW event \in EventRecord, Show(event), UNCHANGED <<log, sent>>,
           event.id > LastSeen, \E i \in DOMAIN log : log[i].id = event.id,
           \A id \in sent : id <= LastSeen \/ id >= event.id
    PROVE  LastSeen' = event.id /\ ShownInv'
<1>1. event.id \in Nat /\ event.id > 0 /\ view' = Append(view, event.id)
  <2>1. event.id \in Nat /\ LastSeen \in Nat
    BY ReaderTypes DEF EventRecord
  <2>2. event.id > 0 /\ event.id # 0
    BY <2>1
  <2> QED
    BY <2>1, <2>2 DEF Show
<1>2. /\ view' # <<>> /\ DOMAIN view' = 1 .. Len(view) + 1 /\ Len(view') = Len(view) + 1
      /\ Len(view) \in Nat
      /\ \A i \in DOMAIN view : view'[i] = view[i]
      /\ view'[Len(view) + 1] = event.id
  <2>1. view \in Seq(Nat) /\ DOMAIN view = 1 .. Len(view)
    BY ReaderTypes
  <2> QED
    BY <1>1, <2>1, AppendProperties
<1>3. LastSeen' = event.id
  BY <1>2 DEF LastSeen, Last
<1>4. \A i \in DOMAIN view : view[i] \in Nat /\ view[i] < event.id
  <2>1. ASSUME NEW i \in DOMAIN view PROVE view[i] \in Nat /\ view[i] <= LastSeen
    <3>1. view # <<>> /\ LastSeen = view[Len(view)]
      BY <2>1, ReaderTypes DEF LastSeen, Last
    <3>2. view[i] \in Nat /\ view[Len(view)] \in Nat /\ Len(view) \in DOMAIN view
      BY <2>1, <3>1, ReaderTypes, ElementOfSeq
    <3>3. i = Len(view) \/ i < Len(view)
      BY <2>1, ReaderTypes
    <3> QED
      BY <2>1, <3>1, <3>2, <3>3 DEF ShownInv, ViewInOrder
  <2> QED
    BY <1>1, <2>1, ReaderTypes
<1>5. ViewInOrder'
  <2>1. ASSUME NEW i \in DOMAIN view', NEW j \in DOMAIN view', i < j
        PROVE  view'[i] < view'[j]
    <3>1. i \in DOMAIN view
      BY <1>2, <2>1, ReaderTypes
    <3>2. CASE j \in DOMAIN view
      BY <1>2, <2>1, <3>1, <3>2 DEF ShownInv, ViewInOrder
    <3>3. CASE j = Len(view) + 1
      BY <1>2, <1>4, <3>1, <3>3
    <3> QED
      BY <1>2, <3>2, <3>3, ReaderTypes
  <2> QED
    BY <2>1 DEF ViewInOrder
<1>6. CursorLogged'
  BY <1>3 DEF CursorLogged
<1>7. Honest'
  <2>1. ASSUME NEW id \in sent, id <= event.id
        PROVE  \E j \in DOMAIN view' : view'[j] = id
    <3>1. id \in Nat
      BY ReaderTypes
    <3>2. CASE id <= LastSeen
      BY <1>2, <3>2, ReaderTypes DEF ShownInv, Honest
    <3>3. CASE id >= event.id
      BY <1>1, <1>2, <2>1, <3>1, <3>3
    <3> QED
      BY <3>2, <3>3
  <2> QED
    BY <1>3, <2>1 DEF Honest
<1> QED
  BY <1>3, <1>5, <1>6, <1>7 DEF ShownInv

\* What the listener leaves alone.
LEMMA ListenerKeeps ==
    ASSUME Listen \/ Fetch \/ Reload \/ Drop \/ TurnAway
    PROVE  UNCHANGED <<log, sent>>
BY DEF Listen, Connect, Subscribe, Snapshot, Replay, EndReplay, TailLive, Fetch, Reload, Drop,
   TurnAway, worker

\* A connection that ended says nothing more.
LEMMA ClosedReader ==
    ASSUME stream' \in {Closed, HungUp}, ShownInv'
    PROVE  ReaderInv'
<1>1. stream'.pc \in {"closed", "hungup"} /\ stream'.live = <<>>
  BY DEF Closed, HungUp
<1> QED
  BY <1>1 DEF ReaderInv, Following, BacklogFollows, LiveInOrder, Covered

\* What the page shows stands while it shows nothing new.
LEMMA ShownStays ==
    ASSUME ShownInv, UNCHANGED <<log, sent, view>>
    PROVE  ShownInv' /\ LastSeen' = LastSeen
<1>1. LastSeen' = LastSeen
  BY DEF LastSeen
<1> QED
  BY <1>1 DEF ShownInv, ViewInOrder, CursorLogged, Honest

\* The backlog is the rows past the cursor, all of them.
LEMMA SnapshotReader ==
    ASSUME TypeOK, WriterInv, ReaderInv, Snapshot
    PROVE  ReaderInv'
<1> DEFINE known == {i \in DOMAIN log : log[i].id <= stream.after}
           k     == Cardinality(known)
<1>1. /\ UNCHANGED <<log, sent, view>> /\ stream.pc = "subscribed"
      /\ stream'.pc = "replay" /\ stream'.backlog = SubSeq(log, k + 1, Len(log))
      /\ stream'.live = stream.live /\ stream'.seen = stream.seen
  BY ReaderTypes DEF Snapshot, Backlog, Connection, worker, client
<1>2. stream.seen = LastSeen /\ stream.after = LastSeen
  BY <1>1 DEF ReaderInv, Following
<1>3. known \in SUBSET (1 .. Len(log)) /\ Len(log) \in Nat
  BY ReaderTypes
<1>4. \A i, j \in 1 .. Len(log) : i <= j /\ j \in known => i \in known
  <2>1. ASSUME NEW i \in 1 .. Len(log), NEW j \in 1 .. Len(log), i < j
        PROVE  log[i].id < log[j].id /\ log[i].id \in Nat /\ log[j].id \in Nat
    BY <2>1, ReaderTypes DEF WriterInv, IdsInOrder
  <2> QED
    BY <2>1, ReaderTypes
<1>5. k \in 0 .. Len(log) /\ known = 1 .. k
  <2> HIDE DEF known
  <2> QED
    BY <1>3, <1>4, FirstOnes
<1>6. \A i \in DOMAIN log : log[i].id <= stream.seen <=> i <= k
  BY <1>2, <1>5, ReaderTypes
<1>7. /\ Len(stream'.backlog) = Len(log) - k
      /\ DOMAIN stream'.backlog = 1 .. Len(log) - k
      /\ \A j \in 1 .. Len(log) - k : stream'.backlog[j] = log[k + j]
  <2> HIDE DEF k
  <2> DEFINE n == Len(log)
  <2>1. log \in Seq(EventRecord) /\ n \in Nat
    BY ReaderTypes
  <2>2. k + 1 \in 1 .. n + 1 /\ n \in (k + 1) - 1 .. n
    BY <1>5, <2>1
  <2>3. /\ SubSeq(log, k + 1, n) \in Seq(EventRecord)
        /\ Len(SubSeq(log, k + 1, n)) = IF k + 1 <= n THEN n - (k + 1) + 1 ELSE 0
        /\ \A j \in 1 .. n - (k + 1) + 1 : SubSeq(log, k + 1, n)[j] = log[(k + 1) + j - 1]
    BY <2>1, <2>2, SubSeqProperties
  <2>4. /\ (IF k + 1 <= n THEN n - (k + 1) + 1 ELSE 0) = n - k
        /\ n - (k + 1) + 1 = n - k
        /\ \A j \in 1 .. n - k : (k + 1) + j - 1 = k + j
    BY <1>5, <2>1
  <2> HIDE DEF n
  <2> QED
    BY <1>1, <2>3, <2>4 DEF n
<1> HIDE DEF k, known
<1>8. BacklogFollows'
  <2>1. k \in 0 .. Len(log') /\ k + Len(stream'.backlog) <= Len(log')
    BY <1>1, <1>3, <1>5, <1>7
  <2>2. \A j \in DOMAIN stream'.backlog : stream'.backlog[j] = log'[k + j]
    BY <1>1, <1>7
  <2>3. \A i \in DOMAIN log' : log'[i].id <= stream'.seen <=> i <= k
    BY <1>1, <1>6
  <2> QED
    BY <1>1, <2>1, <2>2, <2>3 DEF BacklogFollows
<1>9. Covered'
  <2>1. ASSUME NEW id \in sent, ~(id <= stream.seen)
        PROVE  \E j \in DOMAIN stream'.backlog : stream'.backlog[j].id = id
    <3>1. PICK i \in DOMAIN log : log[i].id = id
      BY DEF WriterInv, SentAreLogged
    <3>2. i - k \in 1 .. Len(log) - k /\ k + (i - k) = i
      BY <1>5, <1>6, <2>1, <3>1, ReaderTypes
    <3> QED
      BY <1>7, <3>1, <3>2
  <2> QED
    BY <1>1, <2>1 DEF Covered
<1>10. ShownInv' /\ LastSeen' = LastSeen
  BY <1>1, ShownStays DEF ReaderInv
<1>11. Following' /\ LiveInOrder'
  BY <1>1, <1>2, <1>10 DEF Following, LiveInOrder, ReaderInv
<1> QED
  BY <1>8, <1>9, <1>10, <1>11 DEF ReaderInv

\* Replaying shows the row that follows the cursor.
LEMMA ReplayReader ==
    ASSUME TypeOK, WriterInv, ReaderInv, Replay
    PROVE  ReaderInv'
<1> DEFINE row == Head(stream.backlog)
<1>1. UNCHANGED <<log, sent>> /\ stream.pc = "replay" /\ stream.backlog # <<>> /\ Show(row)
  BY ListenerKeeps DEF Replay, Listen
<1>2. PICK k \in 0 .. Len(log) :
        /\ k + Len(stream.backlog) <= Len(log)
        /\ \A i \in DOMAIN log : log[i].id <= stream.seen <=> i <= k
        /\ \A j \in DOMAIN stream.backlog : stream.backlog[j] = log[k + j]
  BY <1>1 DEF ReaderInv, BacklogFollows
<1>3. /\ DOMAIN stream.backlog = 1 .. Len(stream.backlog) /\ Len(stream.backlog) \in Nat \ {0}
      /\ row = stream.backlog[1] /\ Len(Tail(stream.backlog)) = Len(stream.backlog) - 1
      /\ DOMAIN Tail(stream.backlog) = 1 .. Len(stream.backlog) - 1
      /\ \A j \in 1 .. Len(stream.backlog) - 1 : Tail(stream.backlog)[j] = stream.backlog[j + 1]
  BY <1>1, ReaderTypes, HeadTailProperties
<1>4. k + 1 \in DOMAIN log /\ row = log[k + 1] /\ row \in EventRecord /\ row.id \in Nat
  <2>1. 1 \in DOMAIN stream.backlog /\ k + 1 \in 1 .. Len(log)
    BY <1>2, <1>3
  <2>2. k + 1 \in DOMAIN log
    BY <2>1, ReaderTypes
  <2>3. row = log[k + 1]
    BY <1>2, <1>3, <2>1
  <2> QED
    BY <2>2, <2>3, ReaderTypes
<1>5. row.id > stream.seen /\ stream.seen = LastSeen
  <2>1. ~(row.id <= stream.seen)
    BY <1>2, <1>4
  <2>2. stream.seen \in Nat
    BY ReaderTypes
  <2> QED
    BY <1>1, <1>4, <2>1, <2>2 DEF ReaderInv, Following
<1>6. \A i \in DOMAIN log : log[i].id <= row.id <=> i <= k + 1
  <2>1. ASSUME NEW i \in DOMAIN log
        PROVE  /\ i < k + 1 => log[i].id < row.id
               /\ k + 1 < i => row.id < log[i].id
    BY <1>4 DEF WriterInv, IdsInOrder
  <2>2. ASSUME NEW i \in DOMAIN log PROVE i \in Nat /\ log[i].id \in Nat
    BY ReaderTypes
  <2>3. ASSUME NEW i \in DOMAIN log PROVE log[i].id <= row.id <=> i <= k + 1
    <3>1. i < k + 1 \/ i = k + 1 \/ k + 1 < i
      BY <1>2, <2>2
    <3> QED
      BY <1>2, <1>4, <2>1, <2>2, <3>1
  <2> QED
    BY <2>3
<1>7. \A id \in sent : id <= LastSeen \/ id >= row.id
  <2>1. ASSUME NEW id \in sent, ~(id <= LastSeen) PROVE id >= row.id
    <3>1. PICK i \in DOMAIN log : log[i].id = id
      BY DEF WriterInv, SentAreLogged
    <3>2. ~(i <= k)
      BY <1>2, <1>5, <2>1, <3>1
    <3>3. i = k + 1 \/ ~(i <= k + 1)
      BY <3>2, ReaderTypes
    <3> QED
      BY <1>4, <1>6, <3>1, <3>3, ReaderTypes, SMTT(30)
  <2> QED
    BY <2>1
<1>8. LastSeen' = row.id /\ ShownInv'
  BY <1>1, <1>4, <1>5, <1>7, ShowNext DEF ReaderInv
<1>9. CASE stream' \in {Closed, HungUp}
  BY <1>8, <1>9, ClosedReader
<1>10. CASE stream' \notin {Closed, HungUp}
  <2>1. /\ stream'.pc = "replay" /\ stream'.backlog = Tail(stream.backlog)
        /\ stream'.seen = row.id /\ stream'.live = stream.live
    <3>1. stream' = [stream EXCEPT !.backlog = Tail(@), !.seen = row.id]
      BY <1>10 DEF Replay, After
    <3> QED
      BY <1>1, <3>1, ReaderTypes DEF Connection
  <2>2. Following' /\ LiveInOrder'
    BY <1>1, <1>8, <2>1 DEF ReaderInv, Following, LiveInOrder
  <2>3. BacklogFollows'
    <3>1. k + 1 \in 0 .. Len(log') /\ (k + 1) + Len(stream'.backlog) <= Len(log')
      <4>1. Len(log) \in Nat /\ Len(stream'.backlog) = Len(stream.backlog) - 1
        BY <1>3, <2>1, ReaderTypes
      <4>2. /\ k \in 0 .. Len(log) /\ k + Len(stream.backlog) <= Len(log)
            /\ Len(stream.backlog) \in Nat /\ Len(stream.backlog) >= 1 /\ log' = log
        BY <1>1, <1>2, <1>3
      <4>. DEFINE n == Len(stream.backlog)
                  m == Len(stream'.backlog)
                  l == Len(log)
      <4>3. k \in 0 .. l /\ l \in Nat /\ n \in Nat /\ n >= 1 /\ m = n - 1 /\ k + n <= l
        BY <4>1, <4>2
      <4>4. k + 1 \in 0 .. l /\ (k + 1) + m <= l
        <5> HIDE DEF n, m, l
        <5> QED
          BY <4>3
      <4> QED
        BY <4>2, <4>4
    <3>2. \A i \in DOMAIN log' : log'[i].id <= stream'.seen <=> i <= k + 1
      BY <1>1, <1>6, <2>1
    <3>3. \A j \in DOMAIN stream'.backlog : stream'.backlog[j] = log'[(k + 1) + j]
      <4>1. PICK b, t : b = stream.backlog /\ t = Tail(b)
        OBVIOUS
      <4>2. /\ DOMAIN b = 1 .. Len(b) /\ Len(b) \in Nat \ {0} /\ DOMAIN t = 1 .. Len(b) - 1
            /\ \A j \in 1 .. Len(b) - 1 : t[j] = b[j + 1]
            /\ \A j \in DOMAIN b : b[j] = log[k + j]
        BY <1>2, <1>3, <4>1
      <4>3. ASSUME NEW j \in DOMAIN t PROVE t[j] = log[(k + 1) + j]
        <5>1. j \in 1 .. Len(b) - 1 /\ j + 1 \in DOMAIN b /\ k + (j + 1) = (k + 1) + j
          BY <4>2
        <5>2. t[j] = b[j + 1] /\ b[j + 1] = log[k + (j + 1)]
          BY <4>2, <5>1
        <5> QED
          BY <5>1, <5>2
      <4> QED
        BY <1>1, <2>1, <4>1, <4>3
    <3> QED
      BY <2>1, <3>1, <3>2, <3>3 DEF BacklogFollows
  <2>4. Covered'
    <3>1. ASSUME NEW id \in sent
          PROVE  \/ id <= row.id
                 \/ \E j \in DOMAIN stream'.backlog : stream'.backlog[j].id = id
                 \/ \E j \in DOMAIN stream'.live : stream'.live[j].id = id
      <4>1. CASE id <= stream.seen
        BY <1>4, <1>5, <4>1, ReaderTypes
      <4>2. ASSUME NEW j \in DOMAIN stream.backlog, stream.backlog[j].id = id
            PROVE  id <= row.id \/ \E i \in DOMAIN stream'.backlog : stream'.backlog[i].id = id
        <5>1. CASE j = 1
          BY <1>3, <1>4, <4>2, <5>1
        <5>2. CASE j # 1
          <6>1. j - 1 \in 1 .. Len(stream.backlog) - 1 /\ (j - 1) + 1 = j
            BY <1>3, <4>2, <5>2
          <6> QED
            BY <1>3, <2>1, <4>2, <6>1
        <5> QED
          BY <5>1, <5>2
      <4>3. ASSUME \E j \in DOMAIN stream.live : stream.live[j].id = id
            PROVE  \E j \in DOMAIN stream'.live : stream'.live[j].id = id
        BY <2>1, <4>3
      <4> QED
        BY <1>1, <4>1, <4>2, <4>3 DEF ReaderInv, Covered
    <3> QED
      BY <1>1, <2>1, <3>1 DEF Covered
  <2> QED
    BY <1>8, <2>2, <2>3, <2>4 DEF ReaderInv
<1> QED
  BY <1>9, <1>10

\* The live channel shows the next published row that the backlog did not.
LEMMA TailReader ==
    ASSUME TypeOK, WriterInv, ReaderInv, TailLive
    PROVE  ReaderInv'
<1> DEFINE event == Head(stream.live)
           last  == IF event.id = 0 THEN stream.seen ELSE event.id
<1>1. UNCHANGED <<log, sent>> /\ stream.pc = "tail" /\ stream.live # <<>>
  BY ListenerKeeps DEF TailLive, Listen
<1>2. stream.seen = LastSeen /\ stream.backlog = <<>>
  BY <1>1 DEF ReaderInv, Following, BacklogFollows
<1>3. /\ DOMAIN stream.live = 1 .. Len(stream.live) /\ Len(stream.live) \in Nat \ {0}
      /\ event = stream.live[1] /\ event \in EventRecord /\ event.id \in Nat
      /\ DOMAIN Tail(stream.live) = 1 .. Len(stream.live) - 1
      /\ \A j \in 1 .. Len(stream.live) - 1 : Tail(stream.live)[j] = stream.live[j + 1]
  BY <1>1, ReaderTypes, HeadTailProperties
<1>4. \A id \in sent : \E i \in DOMAIN log : log[i].id = id /\ id > 0 /\ id \in Nat
  BY ReaderTypes DEF WriterInv, SentAreLogged, IdsInOrder
<1>5. \A id \in sent : \/ id <= LastSeen
                       \/ \E j \in DOMAIN stream.live : stream.live[j].id = id
  BY <1>1, <1>2 DEF ReaderInv, Covered
<1>6. ASSUME NEW seen, ShownInv', LastSeen' = seen,
             stream'.pc = "tail", stream'.backlog = stream.backlog,
             stream'.live = Tail(stream.live), stream'.seen = seen,
             \A id \in sent : id <= LastSeen => id <= seen,
             event.id # 0 => event.id <= seen
      PROVE  ReaderInv'
  <2>1. Following' /\ BacklogFollows'
    BY <1>2, <1>6 DEF Following, BacklogFollows
  <2>2. \A j \in DOMAIN stream'.live :
          j + 1 \in DOMAIN stream.live /\ stream'.live[j] = stream.live[j + 1] /\ j \in Nat
    BY <1>3, <1>6
  <2>3. LiveInOrder'
    <3>1. \A i, j \in DOMAIN stream'.live : i < j => i + 1 < j + 1
      BY <2>2
    <3> QED
      BY <1>1, <2>2, <3>1 DEF ReaderInv, LiveInOrder
  <2>4. Covered'
    <3>1. ASSUME NEW id \in sent, ~(id <= seen)
          PROVE  \E j \in DOMAIN stream'.live : stream'.live[j].id = id
      <4>1. PICK j \in DOMAIN stream.live : stream.live[j].id = id
        BY <1>5, <1>6, <3>1
      <4>2. j # 1
        BY <1>3, <1>4, <1>6, <3>1, <4>1
      <4>3. j - 1 \in 1 .. Len(stream.live) - 1 /\ (j - 1) + 1 = j
        BY <1>3, <4>1, <4>2
      <4> QED
        BY <1>3, <1>6, <4>1, <4>3
    <3> QED
      BY <1>1, <1>6, <3>1 DEF Covered
  <2> QED
    BY <1>6, <2>1, <2>3, <2>4 DEF ReaderInv
<1>7. CASE ~Fresh(event)
  <2>1. /\ UNCHANGED view /\ stream'.pc = "tail" /\ stream'.backlog = stream.backlog
        /\ stream'.live = Tail(stream.live) /\ stream'.seen = stream.seen
    BY <1>1, <1>7, ReaderTypes DEF TailLive, Connection
  <2>2. event.id # 0 /\ event.id <= stream.seen
    BY <1>3, <1>7, ReaderTypes DEF Fresh
  <2>3. ShownInv' /\ LastSeen' = LastSeen
    BY <1>1, <2>1, ShownStays DEF ReaderInv
  <2> QED
    BY <1>2, <1>6, <2>1, <2>2, <2>3
<1>8. CASE Fresh(event)
  <2>1. /\ Show(event)
        /\ \/ stream' \in {Closed, HungUp}
           \/ stream' = [[stream EXCEPT !.live = Tail(@)] EXCEPT
                            !.seen = IF event.id = 0 THEN @ ELSE event.id]
    BY <1>8 DEF TailLive, After
  <2>2. LastSeen' = last /\ ShownInv' /\ LastSeen <= last
    <3>1. CASE event.id = 0
      <4>1. UNCHANGED view
        BY <2>1, <3>1 DEF Show
      <4> QED
        BY <1>1, <1>2, <3>1, <4>1, ShownStays, ReaderTypes DEF ReaderInv
    <3>2. CASE event.id # 0
      <4>1. event.id > LastSeen
        BY <1>2, <1>8, <3>2 DEF Fresh
      <4>2. \E i \in DOMAIN log : log[i].id = event.id
        BY <1>3, <1>4, <3>2 DEF ReaderInv, LiveInOrder
      <4>3. ASSUME NEW id \in sent, ~(id <= LastSeen) PROVE id >= event.id
        <5>1. PICK j \in DOMAIN stream.live : stream.live[j].id = id
          BY <1>5, <4>3
        <5>2. j = 1 \/ 1 < j
          BY <1>3, <5>1
        <5>3. 1 < j => event.id < id
          BY <1>3, <1>4, <3>2, <5>1 DEF ReaderInv, LiveInOrder
        <5> QED
          BY <1>3, <1>4, <5>1, <5>2, <5>3
      <4>4. LastSeen' = event.id /\ ShownInv'
        BY <1>1, <1>3, <2>1, <4>1, <4>2, <4>3, ShowNext DEF ReaderInv
      <4> QED
        BY <1>3, <3>2, <4>1, <4>4, ReaderTypes
    <3> QED
      BY <3>1, <3>2
  <2>3. CASE stream' \in {Closed, HungUp}
    BY <2>2, <2>3, ClosedReader
  <2>4. CASE stream' \notin {Closed, HungUp}
    <3>1. /\ stream'.pc = "tail" /\ stream'.backlog = stream.backlog
          /\ stream'.live = Tail(stream.live) /\ stream'.seen = last
      BY <1>1, <2>1, <2>4, ReaderTypes DEF Connection
    <3>2. \A id \in sent : id <= LastSeen => id <= last
      BY <1>2, <1>3, <2>2, ReaderTypes
    <3>3. event.id # 0 => event.id <= last
      BY <1>3
    <3> QED
      BY <1>6, <2>2, <3>1, <3>2, <3>3
  <2> QED
    BY <2>3, <2>4
<1> QED
  BY <1>7, <1>8

\* The reader's side is kept by every step of the writer, the driver, the
\* network and the page.
LEMMA ReaderStep == ASSUME TypeOK, WriterInv, ReaderInv, [Next]_vars PROVE ReaderInv'
<1>1. ASSUME UNCHANGED <<log, sent, stream, view>> PROVE ReaderInv'
  <2>1. ShownInv' /\ LastSeen' = LastSeen
    BY <1>1, ShownStays DEF ReaderInv
  <2> QED
    BY <1>1, <2>1 DEF ReaderInv, Following, BacklogFollows, LiveInOrder, Covered
<1>2. ASSUME NEW e \in Emitters, PublishRow(e) PROVE ReaderInv'
  <2>1. /\ emitter[e].event \in EventRecord /\ log # <<>>
        /\ emitter[e].event = log[Len(log)] /\ emitter[e].event.id \notin sent
    BY <1>2 DEF PublishRow, WriterInv, UnderLock, TypeOK
  <2>2. /\ stream' = Published(emitter[e].event) /\ UNCHANGED <<log, view>>
        /\ sent' = sent \cup {emitter[e].event.id}
    BY <1>2 DEF PublishRow, client
  <2> QED
    BY <2>1, <2>2, PublishReader
<1>3. CASE PublishFailure
  <2>1. Event(0, "FAILED") \in EventRecord /\ Event(0, "FAILED").id = 0
    BY DEF Event, EventRecord, EventTypes, TerminalStop
  <2>2. stream' = Published(Event(0, "FAILED")) /\ UNCHANGED <<log, view, sent>>
    BY <1>3 DEF PublishFailure, client
  <2> QED
    BY <2>1, <2>2, PublishReader
<1>4. CASE \/ \E e \in Emitters : BeginWrite(e) \/ BeginAnnounce(e) \/ FlushRow(e) \/ PublishFails(e)
           \/ Settle \/ Unwind \/ MarkFailed \/ Crash
           \/ Resume \/ ApproveReport \/ TakeTask \/ Cancel \/ UNCHANGED vars
  BY <1>1, <1>4 DEF BeginWrite, BeginAnnounce, FlushRow, PublishFails, Settle, Unwind, MarkFailed,
     Crash, Resume, ApproveReport, TakeTask, Cancel, vars, worker, client
<1>5. CASE Connect
  <2>1. UNCHANGED <<log, sent, view>>
    BY <1>5 DEF Connect, worker, client
  <2>2. /\ stream'.pc = "authorised" /\ stream'.seen = LastSeen /\ stream'.after = LastSeen
        /\ stream'.live = <<>>
    BY <1>5 DEF Connect, Closed
  <2>3. ShownInv' /\ LastSeen' = LastSeen
    BY <2>1, ShownStays DEF ReaderInv
  <2> QED
    BY <2>2, <2>3 DEF ReaderInv, Following, BacklogFollows, LiveInOrder, Covered
<1>6. CASE Subscribe
  <2>1. UNCHANGED <<log, sent, view>> /\ stream.pc = "authorised"
    BY <1>6 DEF Subscribe, worker, client
  <2>2. /\ stream'.pc = "subscribed" /\ stream'.seen = stream.seen /\ stream'.after = stream.after
        /\ stream'.live = stream.live
    BY <1>6, ReaderTypes DEF Subscribe, Connection
  <2>3. ShownInv' /\ LastSeen' = LastSeen
    BY <2>1, ShownStays DEF ReaderInv
  <2> QED
    BY <2>1, <2>2, <2>3 DEF ReaderInv, Following, BacklogFollows, LiveInOrder, Covered
<1>7. CASE EndReplay
  <2>1. UNCHANGED <<log, sent, view>> /\ stream.pc = "replay" /\ stream.backlog = <<>>
    BY <1>7 DEF EndReplay, worker, client
  <2>2. ShownInv' /\ LastSeen' = LastSeen
    BY <2>1, ShownStays DEF ReaderInv
  <2>3. CASE stream' = Closed
    BY <2>2, <2>3, ClosedReader
  <2>4. CASE stream' = [stream EXCEPT !.pc = "tail"]
    <3>1. /\ stream'.pc = "tail" /\ stream'.seen = stream.seen /\ stream'.live = stream.live
          /\ stream'.backlog = stream.backlog
      BY <2>4, ReaderTypes DEF Connection
    <3> QED
      BY <2>1, <2>2, <3>1 DEF ReaderInv, Following, BacklogFollows, LiveInOrder, Covered
  <2> QED
    BY <1>7, <2>3, <2>4 DEF EndReplay
<1>8. CASE Drop \/ TurnAway
  <2>1. UNCHANGED <<log, sent, view>> /\ stream' \in {Closed, HungUp}
    BY <1>8 DEF Drop, TurnAway, worker
  <2> QED
    BY <2>1, ShownStays, ClosedReader DEF ReaderInv
<1>9. ASSUME UNCHANGED <<log, sent>>, stream' = Closed, view' = <<>> PROVE ReaderInv'
  <2>1. ViewInOrder' /\ CursorLogged' /\ LastSeen' = 0
    BY <1>9 DEF ViewInOrder, CursorLogged, LastSeen
  <2>2. \A id \in sent : id \in Nat /\ id > 0
    BY ReaderTypes DEF WriterInv, SentAreLogged, IdsInOrder
  <2>3. Honest'
    BY <1>9, <2>1, <2>2 DEF Honest
  <2> QED
    BY <1>9, <2>1, <2>3, ClosedReader DEF ShownInv
<1>10. CASE Fetch \/ Reload
  <2>1. \/ UNCHANGED <<log, sent, stream, view>>
        \/ UNCHANGED <<log, sent>> /\ stream' = Closed /\ view' = <<>>
    BY <1>10 DEF Fetch, Reload, worker
  <2> QED
    BY <1>1, <1>9, <2>1
<1> QED
  BY <1>2, <1>3, <1>4, <1>5, <1>6, <1>7, <1>8, <1>10, CommitReader, SnapshotReader, ReplayReader,
     TailReader DEF Next, Write, Listen

\* Over any number of connections, drops and resumes, emitters and crashes, a
\* page shows events in id order and none twice, and has shown every published
\* row up to its cursor (agent_log_sink, stream_run, sse_frames).
THEOREM CursorHonesty == Spec => []CursorIsHonest
<1>1. Init => TypeOK /\ WriterInv /\ ReaderInv
  <2>1. Init => WriterInv
    BY DEF Init, WriterInv, IdsInOrder, UnderLock, SentAreLogged, Silent
  <2>2. Init => ReaderInv
    BY DEF Init, ReaderInv, ShownInv, ViewInOrder, CursorLogged, Honest, Following, BacklogFollows,
       LiveInOrder, Covered, Closed
  <2> QED
    BY <2>1, <2>2, TypeInit
<1>2. TypeOK /\ WriterInv /\ ReaderInv /\ [Next]_vars => (TypeOK /\ WriterInv /\ ReaderInv)'
  BY TypeStep, WriterStep, ReaderStep
<1>3. TypeOK /\ ReaderInv => CursorIsHonest
  <2> SUFFICES ASSUME TypeOK, ReaderInv PROVE CursorIsHonest
    OBVIOUS
  <2>1. \A i \in DOMAIN log : log[i].id < LastSeen => log[i].id <= LastSeen
    BY ReaderTypes
  <2> QED
    BY <2>1 DEF ReaderInv, ShownInv, ViewInOrder, Honest, CursorIsHonest
<1> QED
  BY <1>1, <1>2, <1>3, PTL DEF Spec

=============================================================================
