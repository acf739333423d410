--------------------------- MODULE SignInProofs ---------------------------
(***************************************************************************)
(* Proofs about Sessions, for any managers, workers and screens, any limit *)
(* and any number of answers under way: nothing is done with the rights of *)
(* a session that was ended or is idle, and what a manager does leaves the *)
(* worker signed in, whichever answer comes last; about AttendanceLogin,   *)
(* for any window, limit and lockout: an account is locked only because    *)
(* enough failures close to each other locked it; and about WorkerRoster,  *)
(* for any names, rows, records and requests: what a request read about    *)
(* the managers and the names holds when it writes, unless two of a kind   *)
(* overlapped.                                                             *)
(***************************************************************************)
EXTENDS Integers, Sessions, AttendanceLogin, WorkerRoster, FiniteSetTheorems, TLAPS

(***************************************************************************)
(* The inductive invariant.  A cookie lives in a screen or in an answer on *)
(* its way there, and an old one may arrive long after the server moved on,*)
(* so each part is about all of them.                                      *)
(***************************************************************************)
Cookies   == [mgr : Accounts \cup {Nobody}, token : Nat, seen : Nat,
              worker : Workers \cup {Nobody}, active : Nat]
Tokens    == 1..MaxTokens
Histories == [ended : SUBSET Tokens, used : [Tokens -> Nat],
              worker : [Screens -> Workers \cup {Nobody}], plain : SUBSET Screens,
              served : [ended : BOOLEAN, idle : BOOLEAN]]

SessionsTyped ==
    /\ managers \in [Accounts -> [token : Nat, may : BOOLEAN]]
    /\ cookies \in [Screens -> Cookies]
    /\ answers \subseteq [screen : Screens, cookie : Cookies \cup {Same}]
    /\ now \in Nat /\ tokens \in 0..MaxTokens
    /\ history \in Histories

(* The token of a manager was handed out, was not ended, and is no other's.*)
TokensAreLive(of, count, ended) ==
    /\ \A t \in ended : t <= count
    /\ \A m \in Accounts : of[m].token <= count /\ of[m].token \notin ended
    /\ \A m, n \in Accounts : of[m].token = of[n].token /\ of[m].token # 0 => m = n

(* A cookie of a manager has a token that was handed out, and does not say *)
(* that the session was used later than it was.                            *)
Backed(c, count, used) ==
    c.mgr # Nobody => c.token \in 1..count /\ c.seen <= used[c.token]

(* The worker a screen has, once the answer under way is there.            *)
Follows(c, s) ==
    IF c = Same THEN cookies[s].worker = history.worker[s] ELSE c.worker = history.worker[s]

SessionsInv ==
    /\ SessionsTyped
    /\ TokensAreLive(managers, tokens, history.ended)
    /\ \A s \in Screens : Backed(cookies[s], tokens, history.used)
    /\ \A a \in answers : Backed(a.cookie, tokens, history.used)
    /\ \A t \in Tokens : history.used[t] <= now
    /\ \A s \in history.plain :
         /\ \A a, b \in Of(s) : a = b
         /\ \A a \in Of(s) : Follows(a.cookie, s)
         /\ Of(s) = {} => cookies[s].worker = history.worker[s]
    /\ NoEndedSession /\ NoIdleSession

(* An answer without a cookie is no cookie.                                *)
LEMMA SameIsNoCookie ==
    Same \notin Cookies /\ Same.mgr = Nobody /\ Same.token = 0 /\ Same.seen = 0
BY SessionsAssumption DEF Same, Empty, Cookies, Nobody

(***************************************************************************)
(* What a request must see to, besides sending its answer.                 *)
(***************************************************************************)
Honest(s, cookie, h) ==
    /\ tokens' \in 0..MaxTokens /\ tokens <= tokens'
    /\ managers' \in [Accounts -> [token : Nat, may : BOOLEAN]]
    /\ h \in Histories
    /\ TokensAreLive(managers', tokens', h.ended)
    /\ cookie \in Cookies \cup {Same} /\ Backed(cookie, tokens', h.used)
    /\ \A t \in Tokens : history.used[t] <= h.used[t] /\ h.used[t] <= now
    /\ h.plain = history.plain
    /\ \/ h.worker = history.worker /\ (cookie = Same \/ cookie.worker = cookies[s].worker)
       \/ cookie # Same /\ h.worker = [history.worker EXCEPT ![s] = cookie.worker]
    /\ ~ h.served.ended /\ ~ h.served.idle

LEMMA AnswersTyped ==
    ASSUME SessionsTyped, NEW s \in Screens, NEW cookie \in Cookies \cup {Same},
           NEW h \in Histories, Answer(s, cookie, h)
    PROVE  /\ answers' \subseteq [screen : Screens, cookie : Cookies \cup {Same}]
           /\ history' \in Histories
           /\ history'.ended = h.ended /\ history'.used = h.used
           /\ history'.worker = h.worker /\ history'.served = h.served
           /\ history'.plain = IF Of(s) = {} THEN h.plain ELSE h.plain \ {s}
           /\ cookies' = cookies /\ now' = now
<1> DEFINE Sent == [screen : Screens, cookie : Cookies \cup {Same}]
<1>1. answers' = answers \cup {[screen |-> s, cookie |-> cookie]}
  BY DEF Answer
<1>2. [screen |-> s, cookie |-> cookie] \in Sent
  OBVIOUS
<1>3. answers \subseteq Sent
  BY DEF SessionsTyped
<1>4. answers' \subseteq Sent
  BY <1>1, <1>2, <1>3
<1>5. history' = [h EXCEPT !.plain = IF Of(s) = {} THEN @ ELSE @ \ {s}]
  BY DEF Answer
<1>6. QED
  BY <1>4, <1>5 DEF Answer, Histories

LEMMA HonestRequest ==
    ASSUME SessionsInv, NEW s \in Screens, NEW cookie, NEW h,
           Honest(s, cookie, h), Answer(s, cookie, h)
    PROVE  SessionsInv'
<1>1. /\ SessionsTyped /\ h \in Histories /\ cookie \in Cookies \cup {Same}
      /\ tokens \in Nat /\ tokens' \in Nat /\ tokens <= tokens' /\ now \in Nat
  BY SessionsAssumption DEF SessionsInv, SessionsTyped, Honest
<1>2. /\ answers' \subseteq [screen : Screens, cookie : Cookies \cup {Same}]
      /\ history' \in Histories
      /\ history'.ended = h.ended /\ history'.used = h.used
      /\ history'.worker = h.worker /\ history'.served = h.served
      /\ history'.plain = IF Of(s) = {} THEN h.plain ELSE h.plain \ {s}
      /\ cookies' = cookies /\ now' = now
  BY <1>1, AnswersTyped
<1>3. answers' = answers \cup {[screen |-> s, cookie |-> cookie]}
  BY DEF Answer
<1>4. SessionsTyped'
  BY <1>1, <1>2 DEF SessionsTyped, Honest
<1>5. TokensAreLive(managers, tokens, history.ended)'
  BY <1>2 DEF Honest, TokensAreLive
<1>6. \A c : c \in Cookies \cup {Same} /\ Backed(c, tokens, history.used)
               => Backed(c, tokens', history'.used)
  <2> SUFFICES ASSUME NEW c \in Cookies \cup {Same}, Backed(c, tokens, history.used),
                      c.mgr # Nobody
               PROVE  c.token \in 1..tokens' /\ c.seen <= history'.used[c.token]
    BY DEF Backed
  <2>1. c \in Cookies
    BY SameIsNoCookie
  <2>2. c.token \in 1..tokens /\ c.seen <= history.used[c.token] /\ c.seen \in Nat
    BY <2>1 DEF Backed, Cookies
  <2>3. c.token \in Tokens
    BY <2>2, <1>1, SessionsAssumption DEF Tokens, SessionsTyped
  <2>4. history.used[c.token] <= h.used[c.token]
    BY <2>3 DEF Honest
  <2>5. history.used[c.token] \in Nat /\ h.used[c.token] \in Nat
    BY <2>3, <1>1 DEF SessionsTyped, Histories
  <2>6. c.seen <= h.used[c.token]
    BY <2>2, <2>4, <2>5
  <2>7. QED
    BY <1>1, <1>2, <2>2, <2>6
<1>7. \A r \in Screens : Backed(cookies[r], tokens, history.used)'
  BY <1>1, <1>2, <1>6 DEF SessionsInv, SessionsTyped
<1>8. \A a \in answers' : Backed(a.cookie, tokens', history'.used)
  <2>1. Backed(cookie, tokens', history'.used)
    BY <1>2 DEF Honest
  <2>2. \A a \in answers : /\ a.cookie \in Cookies \cup {Same}
                            /\ Backed(a.cookie, tokens, history.used)
    BY DEF SessionsInv, SessionsTyped
  <2>3. QED
    BY <1>3, <1>6, <2>1, <2>2
<1>9. \A t \in Tokens : history'.used[t] <= now'
  BY <1>2 DEF Honest
<1>10. ASSUME NEW r \in history'.plain
       PROVE  /\ \A a, b \in Of(r)' : a = b
              /\ \A a \in Of(r)' : Follows(a.cookie, r)'
              /\ Of(r)' = {} => cookies'[r].worker = history'.worker[r]
  <2>1. r \in history.plain /\ r \in Screens /\ h.plain = history.plain
    BY <1>1, <1>2 DEF Honest, Histories
  <2>2. CASE r # s
    <3>1. Of(r)' = Of(r)
      BY <1>3, <2>2 DEF Of
    <3>2. history'.worker[r] = history.worker[r]
      BY <1>1, <1>2, <2>1, <2>2 DEF Honest, SessionsTyped, Histories
    <3>3. QED
      BY <1>2, <2>1, <3>1, <3>2 DEF SessionsInv, Follows
  <2>3. CASE r = s
    <3>1. Of(s) = {}
      BY <1>2, <2>1, <2>3
    <3>2. Of(s)' = {[screen |-> s, cookie |-> cookie]}
      BY <1>3, <3>1 DEF Of
    <3>3. cookies[s].worker = history.worker[s]
      BY <2>1, <2>3, <3>1 DEF SessionsInv
    <3>4. history.worker \in [Screens -> Workers \cup {Nobody}]
      BY <1>1 DEF SessionsTyped, Histories
    <3>5. IF cookie = Same THEN cookies[s].worker = h.worker[s] ELSE cookie.worker = h.worker[s]
      BY <3>3, <3>4 DEF Honest
    <3>6. Follows(cookie, s)'
      BY <1>2, <3>5 DEF Follows
    <3>7. /\ \A a \in Of(s)' : a.cookie = cookie /\ a.screen = s
          /\ \A a, b \in Of(s)' : a = b
          /\ Of(s)' # {}
      BY <3>2
    <3>8. \A a \in Of(s)' : Follows(a.cookie, s)'
      BY <3>6, <3>7
    <3>9. QED
      BY <2>3, <3>7, <3>8
  <2>4. QED
    BY <2>2, <2>3
<1>11. NoEndedSession' /\ NoIdleSession'
  BY <1>2 DEF Honest, NoEndedSession, NoIdleSession
<1>12. QED
  BY <1>4, <1>5, <1>7, <1>8, <1>9, <1>10, <1>11 DEF SessionsInv

(***************************************************************************)
(* The cookies and the histories that the handlers make.                   *)
(***************************************************************************)
LEMMA ScreenHasCookie ==
    ASSUME SessionsInv, NEW s \in Screens
    PROVE  /\ cookies[s] \in Cookies /\ cookies[s] # Same
           /\ Backed(cookies[s], tokens, history.used)
           /\ history \in Histories /\ now \in Nat /\ tokens \in Nat /\ tokens <= MaxTokens
           /\ MaxTokens \in Nat
           /\ managers \in [Accounts -> [token : Nat, may : BOOLEAN]]
BY SameIsNoCookie, SessionsAssumption DEF SessionsInv, SessionsTyped

(* Alive reads the cookie a screen has: its token is the one of a manager. *)
LEMMA AliveIsLive ==
    ASSUME SessionsInv, NEW s \in Screens, Alive(cookies[s])
    PROVE  /\ cookies[s].mgr \in Accounts
           /\ cookies[s].token \in Tokens /\ cookies[s].token # 0
           /\ cookies[s].token <= tokens
           /\ managers[cookies[s].mgr].token = cookies[s].token
           /\ cookies[s].token \notin history.ended
           /\ now - history.used[cookies[s].token] <= Idle
<1>1. /\ cookies[s] \in Cookies /\ Backed(cookies[s], tokens, history.used)
      /\ history \in Histories /\ now \in Nat /\ tokens \in Nat /\ tokens <= MaxTokens
      /\ MaxTokens \in Nat
  BY ScreenHasCookie
<1>2. cookies[s].mgr # Nobody /\ now - cookies[s].seen <= Idle
  BY DEF Alive
<1>3. cookies[s].mgr \in Accounts /\ cookies[s].seen \in Nat
  BY <1>1, <1>2 DEF Cookies
<1>4. managers[cookies[s].mgr].token = cookies[s].token
  BY DEF Alive
<1>5. cookies[s].token \in 1..tokens /\ cookies[s].seen <= history.used[cookies[s].token]
  BY <1>1, <1>2 DEF Backed
<1>6. cookies[s].token \in Tokens
  BY <1>1, <1>5 DEF Tokens
<1>7. history.used[cookies[s].token] \in Nat
  BY <1>1, <1>6 DEF Histories
<1>8. cookies[s].token \notin history.ended
  BY <1>3, <1>4 DEF SessionsInv, TokensAreLive
<1>9. now - history.used[cookies[s].token] <= Idle
  BY <1>1, <1>2, <1>3, <1>5, <1>7, SessionsAssumption
<1>10. QED
  BY <1>1, <1>3, <1>4, <1>5, <1>6, <1>8, <1>9

(* A request with the rights of a manager is carried out: nothing ended,   *)
(* nothing idle, and the session was used now.                             *)
LEMMA ServedFields ==
    ASSUME SessionsInv, NEW s \in Screens, Alive(cookies[s])
    PROVE  /\ Served(cookies[s]) \in Histories
           /\ Served(cookies[s]).used = [history.used EXCEPT ![cookies[s].token] = now]
           /\ Served(cookies[s]).ended = history.ended
           /\ Served(cookies[s]).worker = history.worker
           /\ Served(cookies[s]).plain = history.plain
           /\ Served(cookies[s]).served = history.served
<1> DEFINE c == cookies[s]
           of == [history.served EXCEPT !.ended = @ \/ c.token \in history.ended,
                                        !.idle = @ \/ now - history.used[c.token] > Idle]
<1>1. /\ c.token \in Tokens /\ c.token \notin history.ended
      /\ now - history.used[c.token] <= Idle
  BY AliveIsLive
<1>2. history \in Histories /\ now \in Nat
  BY ScreenHasCookie
<1>3. history.used[c.token] \in Nat
  BY <1>1, <1>2 DEF Histories
<1>4. ~ (now - history.used[c.token] > Idle)
  BY <1>1, <1>2, <1>3, SessionsAssumption
<1>5. history.served \in [ended : BOOLEAN, idle : BOOLEAN]
  BY <1>2 DEF Histories
<1>6. of = [ended |-> history.served.ended, idle |-> history.served.idle]
  BY <1>1, <1>4, <1>5
<1>7. of = history.served
  BY <1>5, <1>6
<1>8. Served(c) = [history EXCEPT !.served = of, !.used = [history.used EXCEPT ![c.token] = now]]
  BY <1>2 DEF Served, Histories
<1>9. [history.used EXCEPT ![c.token] = now] \in [Tokens -> Nat]
  BY <1>1, <1>2 DEF Histories
<1> HIDE DEF of
<1>10. QED
  BY <1>2, <1>5, <1>7, <1>8, <1>9 DEF Histories

LEMMA EndedFields ==
    ASSUME SessionsInv, NEW t \in Nat, t <= tokens
    PROVE  /\ Ended(t) \in Histories
           /\ Ended(t).ended = history.ended \cup ({t} \ {0})
           /\ Ended(t).used = history.used /\ Ended(t).worker = history.worker
           /\ Ended(t).plain = history.plain /\ Ended(t).served = history.served
<1>1. history \in Histories /\ tokens \in 0..MaxTokens /\ MaxTokens \in Nat
  BY SessionsAssumption DEF SessionsInv, SessionsTyped
<1>2. {t} \ {0} \subseteq Tokens
  BY <1>1 DEF Tokens
<1>3. Ended(t) = [history EXCEPT !.ended = history.ended \cup ({t} \ {0})]
  BY DEF Ended
<1>4. QED
  BY <1>1, <1>2, <1>3 DEF Histories

LEMMA TouchedFields ==
    ASSUME NEW c \in Cookies, NEW u \in Nat
    PROVE  /\ Cleared(c) \in Cookies /\ Cleared(c).mgr = Nobody /\ Cleared(c).worker = c.worker
           /\ [c EXCEPT !.seen = u] \in Cookies
           /\ [c EXCEPT !.seen = u].mgr = c.mgr /\ [c EXCEPT !.seen = u].token = c.token
           /\ [c EXCEPT !.seen = u].seen = u /\ [c EXCEPT !.seen = u].worker = c.worker
BY DEF Cookies, Cleared, Nobody

(***************************************************************************)
(* The requests                                                            *)
(***************************************************************************)
(* What get_current_user() brings back is the cookie, cleared or touched.  *)
LEMMA CurrentUserKeeps ==
    ASSUME SessionsInv, NEW s \in Screens, NEW required \in BOOLEAN
    PROVE  /\ CurrentUser(cookies[s], required) \in Cookies \cup {Same}
           /\ \/ CurrentUser(cookies[s], required) = Same
              \/ CurrentUser(cookies[s], required).worker = cookies[s].worker
           /\ CurrentUser(cookies[s], required).mgr # Nobody
                => /\ CurrentUser(cookies[s], required).token = cookies[s].token
                   /\ CurrentUser(cookies[s], required).mgr = cookies[s].mgr
                   /\ \/ CurrentUser(cookies[s], required).seen = cookies[s].seen
                      \/ /\ CurrentUser(cookies[s], required).seen = now
                         /\ required /\ Alive(cookies[s])
<1> DEFINE c == cookies[s]
<1>1. c \in Cookies /\ now \in Nat
  BY ScreenHasCookie
<1>2. /\ Cleared(c) \in Cookies /\ Cleared(c).mgr = Nobody /\ Cleared(c).worker = c.worker
      /\ [c EXCEPT !.seen = now] \in Cookies
      /\ [c EXCEPT !.seen = now].mgr = c.mgr /\ [c EXCEPT !.seen = now].token = c.token
      /\ [c EXCEPT !.seen = now].seen = now /\ [c EXCEPT !.seen = now].worker = c.worker
  BY <1>1, TouchedFields
<1> DEFINE seen == [c EXCEPT !.seen = now]
<1>3. Touch(c, required) = IF required THEN seen ELSE c
  BY DEF Touch
<1> HIDE DEF seen, c
<1>4. CASE c.mgr = Nobody
  BY <1>4, SameIsNoCookie DEF CurrentUser, c
<1>5. CASE c.mgr # Nobody /\ ~ Alive(c)
  BY <1>2, <1>5 DEF CurrentUser, c
<1>6. CASE c.mgr # Nobody /\ Alive(c) /\ required
  BY <1>2, <1>3, <1>6 DEF CurrentUser, c, seen
<1>7. CASE c.mgr # Nobody /\ Alive(c) /\ ~ required
  BY <1>2, <1>3, <1>7, SameIsNoCookie DEF CurrentUser, c
<1>8. QED
  BY <1>4, <1>5, <1>6, <1>7

LEMMA UnchangedIsLive ==
    ASSUME SessionsInv
    PROVE  /\ TokensAreLive(managers, tokens, history.ended)
           /\ \A t \in Tokens : history.used[t] <= now
           /\ \A t \in Tokens : history.used[t] \in Nat
           /\ ~ history.served.ended /\ ~ history.served.idle
           /\ tokens \in 0..MaxTokens
BY DEF SessionsInv, SessionsTyped, Histories, NoEndedSession, NoIdleSession

(* A request that changes neither tokens nor the history.                  *)
LEMMA PlainRequest ==
    ASSUME SessionsInv, NEW s \in Screens, NEW cookie \in Cookies \cup {Same},
           UNCHANGED <<managers, tokens>>, Answer(s, cookie, history),
           Backed(cookie, tokens, history.used),
           cookie = Same \/ cookie.worker = cookies[s].worker
    PROVE  SessionsInv'
<1>1. Honest(s, cookie, history)
  BY ScreenHasCookie, UnchangedIsLive DEF Honest
<1>2. QED
  BY <1>1, HonestRequest

LEMMA PeekStep ==
    ASSUME SessionsInv, NEW s \in Screens, Peek(s)
    PROVE  SessionsInv'
<1> DEFINE cookie == CurrentUser(cookies[s], FALSE)
<1>1. /\ cookie \in Cookies \cup {Same}
      /\ cookie = Same \/ cookie.worker = cookies[s].worker
      /\ cookie.mgr # Nobody => /\ cookie.token = cookies[s].token
                                /\ cookie.mgr = cookies[s].mgr
                                /\ cookie.seen = cookies[s].seen
  BY CurrentUserKeeps
<1> HIDE DEF cookie
<1>2. Backed(cookie, tokens, history.used)
  BY <1>1, ScreenHasCookie DEF Backed
<1>3. UNCHANGED <<managers, tokens>> /\ Answer(s, cookie, history)
  BY DEF Peek, cookie
<1>4. QED
  BY <1>1, <1>2, <1>3, PlainRequest

LEMMA UseStep ==
    ASSUME SessionsInv, NEW s \in Screens, Use(s)
    PROVE  SessionsInv'
<1> DEFINE c == cookies[s]
           cookie == CurrentUser(c, TRUE)
<1>1. /\ cookie \in Cookies \cup {Same}
      /\ cookie = Same \/ cookie.worker = cookies[s].worker
      /\ cookie.mgr # Nobody => /\ cookie.token = c.token
                                /\ cookie.mgr = c.mgr
                                /\ cookie.seen = c.seen \/ (cookie.seen = now /\ Alive(c))
  BY CurrentUserKeeps
<1>2. /\ UNCHANGED <<managers, tokens>>
      /\ Answer(s, cookie, IF Alive(c) THEN Served(c) ELSE history)
  BY DEF Use
<1> HIDE DEF cookie
<1>3. Backed(c, tokens, history.used)
  BY ScreenHasCookie
<1>4. CASE ~ Alive(c)
  <2>1. Backed(cookie, tokens, history.used)
    BY <1>1, <1>3, <1>4 DEF Backed
  <2>2. QED
    BY <1>1, <1>2, <1>4, <2>1, PlainRequest
<1>5. CASE Alive(c)
  <2>1. /\ Served(c) \in Histories
        /\ Served(c).used = [history.used EXCEPT ![c.token] = now]
        /\ Served(c).ended = history.ended /\ Served(c).worker = history.worker
        /\ Served(c).plain = history.plain /\ Served(c).served = history.served
    BY <1>5, ServedFields
  <2>2. c.token \in Tokens
    BY <1>5, AliveIsLive
  <2>3. history.used \in [Tokens -> Nat] /\ now \in Nat /\ c \in Cookies
    BY ScreenHasCookie DEF Histories
  <2>4. \A t \in Tokens : history.used[t] <= Served(c).used[t] /\ Served(c).used[t] <= now
    BY <2>1, <2>2, <2>3, UnchangedIsLive
  <2>5. Backed(cookie, tokens, Served(c).used)
    <3>1. SUFFICES ASSUME cookie.mgr # Nobody
                   PROVE  cookie.token \in 1..tokens /\ cookie.seen <= Served(c).used[cookie.token]
      BY DEF Backed
    <3>2. cookie.token = c.token /\ c.mgr # Nobody
      BY <1>1, <3>1
    <3>3. c.token \in 1..tokens /\ c.seen <= history.used[c.token]
      BY <1>3, <3>2 DEF Backed
    <3>4. history.used[c.token] <= now /\ history.used[c.token] \in Nat /\ c.seen \in Nat
      BY <2>2, <2>3, UnchangedIsLive DEF Cookies
    <3>5. cookie.seen <= now
      BY <1>1, <2>3, <3>1, <3>3, <3>4
    <3>6. QED
      BY <2>1, <2>2, <2>3, <3>2, <3>3, <3>5
  <2>6. Honest(s, cookie, Served(c))
    BY <1>1, <1>2, <2>1, <2>4, <2>5, ScreenHasCookie, UnchangedIsLive DEF Honest
  <2>7. QED
    BY <1>2, <1>5, <2>6, HonestRequest
<1>6. QED
  BY <1>4, <1>5

LEMMA LoginStep ==
    ASSUME SessionsInv, NEW s \in Screens, NEW m \in Accounts, Login(s, m)
    PROVE  SessionsInv'
<1> DEFINE c == cookies[s]
           t == tokens + 1
           cookie == [c EXCEPT !.mgr = m, !.token = t, !.seen = now]
           e == Ended(managers[m].token)
           h == [e EXCEPT !.used[t] = now]
<1>1. /\ tokens < MaxTokens /\ tokens' = t
      /\ managers' = [managers EXCEPT ![m].token = t]
      /\ Answer(s, cookie, h)
  BY DEF Login
<1>2. /\ c \in Cookies /\ history \in Histories /\ now \in Nat /\ tokens \in Nat
      /\ MaxTokens \in Nat /\ managers \in [Accounts -> [token : Nat, may : BOOLEAN]]
  BY ScreenHasCookie
<1>3. t \in Tokens /\ t \in Nat /\ t # 0 /\ t \in 0..MaxTokens /\ tokens <= t /\ t \in 1..t
  BY <1>1, <1>2 DEF Tokens
<1>4. TokensAreLive(managers, tokens, history.ended)
  BY UnchangedIsLive
<1>5. managers[m].token \in Nat /\ managers[m].token <= tokens
  BY <1>2, <1>4 DEF TokensAreLive
<1>6. /\ e \in Histories /\ e.ended = history.ended \cup ({managers[m].token} \ {0})
      /\ e.used = history.used /\ e.worker = history.worker
      /\ e.plain = history.plain /\ e.served = history.served
  BY <1>5, EndedFields
<1> HIDE DEF e
<1>7. /\ h \in Histories /\ h.used = [history.used EXCEPT ![t] = now]
      /\ h.ended = e.ended /\ h.worker = history.worker
      /\ h.plain = history.plain /\ h.served = history.served
  <2> HIDE DEF t
  <2>1. h = [e EXCEPT !.used = [history.used EXCEPT ![t] = now]]
    BY <1>6 DEF Histories
  <2>2. [history.used EXCEPT ![t] = now] \in [Tokens -> Nat]
    BY <1>2, <1>3 DEF Histories
  <2>3. QED
    BY <1>6, <2>1, <2>2 DEF Histories
<1>8. /\ cookie \in Cookies /\ cookie.token = t /\ cookie.seen = now
      /\ cookie.worker = c.worker
  <2> HIDE DEF t, c
  <2>1. QED
    BY <1>2, <1>3 DEF Cookies
<1> HIDE DEF h, cookie
<1>9. \A u \in Tokens : history.used[u] <= h.used[u] /\ h.used[u] <= now
  BY <1>2, <1>3, <1>7, UnchangedIsLive DEF Histories
<1>10. Backed(cookie, tokens', h.used)
  BY <1>1, <1>2, <1>3, <1>7, <1>8 DEF Backed, Histories
<1>11. /\ managers' \in [Accounts -> [token : Nat, may : BOOLEAN]]
       /\ managers'[m].token = t /\ \A n \in Accounts : n # m => managers'[n] = managers[n]
  BY <1>1, <1>2, <1>3
<1>12. TokensAreLive(managers', tokens', h.ended)
  <2>1. \A u \in h.ended : u <= tokens
    BY <1>4, <1>5, <1>6, <1>7 DEF TokensAreLive
  <2>2. h.ended \subseteq Nat
    BY <1>7 DEF Histories, Tokens
  <2>3. \A u \in h.ended : u <= t /\ u # t
    BY <1>2, <2>1, <2>2
  <2>4. \A n \in Accounts : n # m =>
           /\ managers[n].token \in Nat /\ managers[n].token <= tokens
           /\ managers[n].token \notin h.ended
    BY <1>2, <1>4, <1>6, <1>7 DEF TokensAreLive
  <2>5. \A n \in Accounts : n # m => managers[n].token <= t /\ managers[n].token # t
    BY <1>2, <2>4
  <2>6. QED
    BY <1>1, <1>2, <1>3, <1>4, <1>11, <2>3, <2>4, <2>5 DEF TokensAreLive
<1>13. Honest(s, cookie, h)
  BY <1>1, <1>3, <1>7, <1>8, <1>9, <1>10, <1>11, <1>12, UnchangedIsLive DEF Honest
<1>14. QED
  BY <1>1, <1>13, HonestRequest

LEMMA LoginRefusedStep ==
    ASSUME SessionsInv, NEW s \in Screens, NEW m \in Accounts, LoginRefused(s, m)
    PROVE  SessionsInv'
<1>1. UNCHANGED <<managers, tokens>> /\ Answer(s, Same, history)
  BY DEF LoginRefused
<1>2. Backed(Same, tokens, history.used)
  BY SameIsNoCookie DEF Backed
<1>3. QED
  BY <1>1, <1>2, PlainRequest

LEMMA ChangePasswordStep ==
    ASSUME SessionsInv, NEW s \in Screens, ChangePassword(s)
    PROVE  SessionsInv'
<1> DEFINE c == cookies[s]
           t == tokens + 1
           cookie == [c EXCEPT !.token = t, !.seen = now]
           v == Served(c)
           h == [v EXCEPT !.ended = @ \cup {c.token}, !.used[t] = now]
<1>1. /\ Alive(c) /\ tokens < MaxTokens /\ tokens' = t
      /\ managers' = [managers EXCEPT ![c.mgr].token = t]
      /\ Answer(s, cookie, h)
  BY DEF ChangePassword
<1>2. /\ c \in Cookies /\ history \in Histories /\ now \in Nat /\ tokens \in Nat
      /\ MaxTokens \in Nat /\ managers \in [Accounts -> [token : Nat, may : BOOLEAN]]
  BY ScreenHasCookie
<1>3. /\ t \in Tokens /\ t \in Nat /\ t # 0 /\ t \in 0..MaxTokens /\ tokens <= t /\ t \in 1..t
      /\ ~ (t <= tokens)
  BY <1>1, <1>2 DEF Tokens
<1>4. TokensAreLive(managers, tokens, history.ended)
  BY UnchangedIsLive
<1>5. /\ c.mgr \in Accounts /\ c.token \in Tokens /\ c.token # 0 /\ c.token <= tokens
      /\ managers[c.mgr].token = c.token
  BY <1>1, AliveIsLive
<1>6. /\ v \in Histories /\ v.used = [history.used EXCEPT ![c.token] = now]
      /\ v.ended = history.ended /\ v.worker = history.worker
      /\ v.plain = history.plain /\ v.served = history.served
  BY <1>1, ServedFields
<1> HIDE DEF v
<1>7. /\ h \in Histories /\ h.used = [v.used EXCEPT ![t] = now]
      /\ h.ended = history.ended \cup {c.token} /\ h.worker = history.worker
      /\ h.plain = history.plain /\ h.served = history.served
  <2> HIDE DEF t, c
  <2>1. h = [v EXCEPT !.ended = v.ended \cup {c.token}, !.used = [v.used EXCEPT ![t] = now]]
    BY <1>6 DEF Histories
  <2>2. [v.used EXCEPT ![t] = now] \in [Tokens -> Nat] /\ v.ended \cup {c.token} \subseteq Tokens
    BY <1>2, <1>3, <1>5, <1>6 DEF Histories
  <2>3. QED
    BY <1>6, <2>1, <2>2 DEF Histories
<1>8. /\ cookie \in Cookies /\ cookie.token = t /\ cookie.seen = now
      /\ cookie.worker = c.worker
  <2> HIDE DEF t, c
  <2>1. QED
    BY <1>2, <1>3, <1>5 DEF Cookies
<1> HIDE DEF h, cookie
<1>9. \A u \in Tokens : history.used[u] <= h.used[u] /\ h.used[u] <= now
  <2>1. \A u \in Tokens : h.used[u] \in {history.used[u], now} /\ history.used[u] \in Nat
    BY <1>2, <1>3, <1>5, <1>6, <1>7 DEF Histories
  <2>2. QED
    BY <1>2, <2>1, UnchangedIsLive
<1>10. Backed(cookie, tokens', h.used)
  <2>1. h.used[t] = now
    BY <1>3, <1>6, <1>7 DEF Histories
  <2>2. QED
    BY <1>1, <1>2, <1>3, <1>8, <2>1 DEF Backed
<1>11. /\ managers' \in [Accounts -> [token : Nat, may : BOOLEAN]]
       /\ managers'[c.mgr].token = t
       /\ \A n \in Accounts : n # c.mgr => managers'[n] = managers[n]
  BY <1>1, <1>2, <1>3, <1>5
<1>12. TokensAreLive(managers', tokens', h.ended)
  <2>1. \A u \in h.ended : u <= tokens
    BY <1>4, <1>5, <1>7 DEF TokensAreLive
  <2>2. h.ended \subseteq Nat
    BY <1>7 DEF Histories, Tokens
  <2>3. \A u \in h.ended : u <= t /\ u # t
    BY <1>2, <2>1, <2>2
  <2>4. \A n \in Accounts : n # c.mgr =>
           /\ managers[n].token \in Nat /\ managers[n].token <= tokens
           /\ managers[n].token \notin h.ended
    BY <1>2, <1>4, <1>5, <1>7 DEF TokensAreLive
  <2>5. \A n \in Accounts : n # c.mgr => managers[n].token <= t /\ managers[n].token # t
    BY <1>2, <2>4
  <2>6. QED
    BY <1>1, <1>2, <1>3, <1>4, <1>5, <1>11, <2>3, <2>4, <2>5 DEF TokensAreLive
<1>13. Honest(s, cookie, h)
  BY <1>1, <1>3, <1>7, <1>8, <1>9, <1>10, <1>11, <1>12, UnchangedIsLive DEF Honest
<1>14. QED
  BY <1>1, <1>13, HonestRequest

(* A manager has no token any more, and the one there was is ended.        *)
LEMMA EndingIsLive ==
    ASSUME SessionsInv, NEW m \in Accounts, NEW new \in [token : {0}, may : BOOLEAN],
           managers' = [managers EXCEPT ![m] = new]
    PROVE  /\ managers' \in [Accounts -> [token : Nat, may : BOOLEAN]]
           /\ TokensAreLive(managers', tokens, Ended(managers[m].token).ended)
<1>1. /\ managers \in [Accounts -> [token : Nat, may : BOOLEAN]]
      /\ TokensAreLive(managers, tokens, history.ended)
      /\ tokens \in Nat /\ history \in Histories
  BY DEF SessionsInv, SessionsTyped
<1>2. managers[m].token \in Nat /\ managers[m].token <= tokens
  BY <1>1 DEF TokensAreLive
<1>3. Ended(managers[m].token).ended = history.ended \cup ({managers[m].token} \ {0})
  BY <1>2, EndedFields
<1>4. /\ managers' \in [Accounts -> [token : Nat, may : BOOLEAN]]
      /\ managers'[m].token = 0
      /\ \A n \in Accounts : n # m => managers'[n] = managers[n]
  BY <1>1
<1>5. 0 \notin history.ended
  BY <1>1 DEF Histories, Tokens
<1>6. QED
  BY <1>1, <1>2, <1>3, <1>4, <1>5 DEF TokensAreLive

LEMMA LogoutStep ==
    ASSUME SessionsInv, NEW s \in Screens, Logout(s)
    PROVE  SessionsInv'
<1> DEFINE c == cookies[s]
           h == Ended(c.token)
<1>1. /\ tokens' = tokens
      /\ Answer(s, Cleared(c), IF Alive(c) THEN h ELSE history)
      /\ managers' = IF Alive(c) THEN [managers EXCEPT ![c.mgr].token = 0] ELSE managers
  BY DEF Logout
<1>2. c \in Cookies
  BY ScreenHasCookie
<1>3. Cleared(c) \in Cookies /\ Cleared(c).mgr = Nobody /\ Cleared(c).worker = c.worker
  BY <1>2, TouchedFields, SessionsAssumption
<1>4. \A used : Backed(Cleared(c), tokens, used)
  BY <1>3 DEF Backed
<1>5. CASE ~ Alive(c)
  BY <1>1, <1>3, <1>4, <1>5, PlainRequest
<1>6. CASE Alive(c)
  <2>1. /\ c.mgr \in Accounts /\ c.token \in Nat /\ c.token <= tokens
        /\ managers[c.mgr].token = c.token
    BY <1>6, AliveIsLive DEF Tokens
  <2>2. /\ h \in Histories /\ h.used = history.used /\ h.worker = history.worker
        /\ h.plain = history.plain /\ h.served = history.served
    BY <2>1, EndedFields
  <2> DEFINE new == [managers[c.mgr] EXCEPT !.token = 0]
  <2>3. new \in [token : {0}, may : BOOLEAN]
    BY <2>1, ScreenHasCookie
  <2>4. managers' = [managers EXCEPT ![c.mgr] = new]
    BY <1>1, <1>6
  <2> HIDE DEF new
  <2>5. /\ managers' \in [Accounts -> [token : Nat, may : BOOLEAN]]
        /\ TokensAreLive(managers', tokens, h.ended)
    BY <2>1, <2>3, <2>4, EndingIsLive
  <2> HIDE DEF h
  <2>6. /\ tokens' \in 0..MaxTokens /\ tokens <= tokens'
        /\ TokensAreLive(managers', tokens', h.ended)
        /\ Backed(Cleared(c), tokens', h.used)
        /\ \A t \in Tokens : history.used[t] <= h.used[t] /\ h.used[t] <= now
    BY <1>1, <1>4, <2>2, <2>5, ScreenHasCookie, UnchangedIsLive
  <2>7. Honest(s, Cleared(c), h)
    BY <1>3, <2>2, <2>5, <2>6, UnchangedIsLive DEF Honest
  <2>8. QED
    BY <1>1, <1>6, <2>7, HonestRequest
<1>7. QED
  BY <1>5, <1>6

LEMMA WorksStep ==
    ASSUME SessionsInv, NEW s \in Screens, NEW w \in Workers \cup {Nobody}, Works(s, w)
    PROVE  SessionsInv'
<1> DEFINE c == cookies[s]
           d == IF w = Nobody THEN 0 ELSE now
           cookie == [c EXCEPT !.worker = w, !.active = d]
           h == [history EXCEPT !.worker[s] = w]
<1>1. UNCHANGED <<managers, tokens>> /\ Answer(s, cookie, h)
  BY DEF Works
<1>2. /\ c \in Cookies /\ history \in Histories /\ d \in Nat /\ tokens \in Nat
      /\ Backed(c, tokens, history.used)
  BY ScreenHasCookie
<1> HIDE DEF d
<1>3. /\ cookie \in Cookies /\ cookie.worker = w /\ cookie.mgr = c.mgr
      /\ cookie.token = c.token /\ cookie.seen = c.seen
  <2> HIDE DEF c
  <2>1. QED
    BY <1>2 DEF Cookies
<1>4. /\ h \in Histories /\ h.worker = [history.worker EXCEPT ![s] = w]
      /\ h.used = history.used /\ h.ended = history.ended
      /\ h.plain = history.plain /\ h.served = history.served
  <2>1. h = [history EXCEPT !.worker = [history.worker EXCEPT ![s] = w]]
    BY <1>2 DEF Histories
  <2>2. [history.worker EXCEPT ![s] = w] \in [Screens -> Workers \cup {Nobody}]
    BY <1>2 DEF Histories
  <2>3. QED
    BY <1>2, <2>1, <2>2 DEF Histories
<1> HIDE DEF h, cookie
<1>5. Backed(cookie, tokens', h.used)
  BY <1>1, <1>2, <1>3, <1>4 DEF Backed
<1>6. /\ tokens' \in 0..MaxTokens /\ tokens <= tokens'
      /\ managers' \in [Accounts -> [token : Nat, may : BOOLEAN]]
      /\ TokensAreLive(managers', tokens', h.ended)
      /\ \A t \in Tokens : history.used[t] <= h.used[t] /\ h.used[t] <= now
  BY <1>1, <1>2, <1>4, ScreenHasCookie, UnchangedIsLive
<1>7. Honest(s, cookie, h)
  BY <1>3, <1>4, <1>5, <1>6, SameIsNoCookie, UnchangedIsLive DEF Honest
<1>8. QED
  BY <1>1, <1>7, HonestRequest

LEMMA HeartbeatStep ==
    ASSUME SessionsInv, NEW s \in Screens, Heartbeat(s)
    PROVE  SessionsInv'
<1> DEFINE c == cookies[s]
           renewed == [c EXCEPT !.active = now]
<1>1. \/ Works(s, Nobody)
      \/ /\ UNCHANGED <<managers, tokens>>
         /\ Answer(s, Same, history) \/ Answer(s, renewed, history)
  BY DEF Heartbeat
<1>2. c \in Cookies /\ now \in Nat /\ Backed(c, tokens, history.used)
  BY ScreenHasCookie
<1>3. c.worker \in Workers \cup {Nobody}
  BY <1>2 DEF Cookies
<1>4. /\ renewed \in Cookies /\ renewed.worker = c.worker /\ renewed.mgr = c.mgr
      /\ renewed.token = c.token /\ renewed.seen = c.seen
  <2> HIDE DEF c
  <2>1. QED
    BY <1>2, <1>3 DEF Cookies
<1> HIDE DEF renewed
<1>5. Backed(renewed, tokens, history.used) /\ Backed(Same, tokens, history.used)
  BY <1>2, <1>4, SameIsNoCookie DEF Backed
<1>6. QED
  BY <1>1, <1>4, <1>5, WorksStep, PlainRequest

(***************************************************************************)
(* The answers, and what the server does without a request of the screen   *)
(***************************************************************************)
LEMMA ReceiveStep ==
    ASSUME SessionsInv, NEW a \in answers, Receive(a)
    PROVE  SessionsInv'
<1> DEFINE s == a.screen
           new == IF a.cookie = Same THEN cookies[s] ELSE a.cookie
<1>1. /\ answers' = answers \ {a} /\ cookies' = [cookies EXCEPT ![s] = new]
      /\ managers' = managers /\ now' = now /\ tokens' = tokens /\ history' = history
  BY DEF Receive
<1>2. a \in [screen : Screens, cookie : Cookies \cup {Same}]
  BY DEF SessionsInv, SessionsTyped
<1>3. s \in Screens /\ a.cookie \in Cookies \cup {Same}
  BY <1>2
<1>4. new \in Cookies /\ Backed(new, tokens, history.used)
  BY <1>3, ScreenHasCookie DEF SessionsInv
<1>5. /\ cookies' \in [Screens -> Cookies] /\ cookies'[s] = new
      /\ \A r \in Screens : r # s => cookies'[r] = cookies[r]
  BY <1>1, <1>3, <1>4 DEF SessionsInv, SessionsTyped
<1>6. SessionsTyped'
  BY <1>1, <1>5 DEF SessionsInv, SessionsTyped
<1>7. /\ \A r \in Screens : Backed(cookies'[r], tokens', history'.used)
      /\ \A b \in answers' : Backed(b.cookie, tokens', history'.used)
  BY <1>1, <1>4, <1>5 DEF SessionsInv
<1>8. \A r \in Screens : Of(r)' = Of(r) \ {a}
  BY <1>1 DEF Of
<1>9. ASSUME NEW r \in history'.plain
      PROVE  /\ \A b, c \in Of(r)' : b = c
             /\ \A b \in Of(r)' : Follows(b.cookie, r)'
             /\ Of(r)' = {} => cookies'[r].worker = history'.worker[r]
  <2>1. /\ r \in history.plain /\ r \in Screens
        /\ \A b, c \in Of(r) : b = c
        /\ \A b \in Of(r) : Follows(b.cookie, r)
        /\ Of(r) = {} => cookies[r].worker = history.worker[r]
    BY <1>1 DEF SessionsInv, SessionsTyped, Histories
  <2>2. CASE r # s
    <3>1. Of(r)' = Of(r)
      BY <1>8, <2>1, <2>2 DEF Of
    <3>2. QED
      BY <1>1, <1>5, <2>1, <2>2, <3>1 DEF Follows
  <2>3. CASE r = s
    <3>1. a \in Of(r)
      BY <2>3 DEF Of
    <3>2. Of(r)' = {}
      BY <1>8, <2>1, <3>1
    <3>3. new.worker = history.worker[r]
      BY <2>1, <2>3, <3>1 DEF Follows
    <3>4. QED
      BY <1>1, <1>5, <2>3, <3>2, <3>3
  <2>4. QED
    BY <2>2, <2>3
<1>10. /\ TokensAreLive(managers, tokens, history.ended)'
       /\ \A t \in Tokens : history'.used[t] <= now'
       /\ NoEndedSession' /\ NoIdleSession'
  BY <1>1 DEF SessionsInv, NoEndedSession, NoIdleSession
<1>11. QED
  BY <1>6, <1>7, <1>9, <1>10 DEF SessionsInv

LEMMA LoseStep ==
    ASSUME SessionsInv, NEW a \in answers, Lose(a)
    PROVE  SessionsInv'
<1>1. /\ answers' = answers \ {a} /\ history' = [history EXCEPT !.plain = @ \ {a.screen}]
      /\ cookies' = cookies /\ managers' = managers /\ now' = now /\ tokens' = tokens
  BY DEF Lose
<1>2. history \in Histories
  BY DEF SessionsInv, SessionsTyped
<1>3. /\ history' \in Histories /\ history'.plain = history.plain \ {a.screen}
      /\ history'.ended = history.ended /\ history'.used = history.used
      /\ history'.worker = history.worker /\ history'.served = history.served
  BY <1>1, <1>2 DEF Histories
<1>4. SessionsTyped'
  BY <1>1, <1>3 DEF SessionsInv, SessionsTyped
<1>5. \A r \in history'.plain : r \in history.plain /\ Of(r)' = Of(r)
  BY <1>1, <1>3 DEF Of
<1>6. \A r \in history'.plain :
         /\ \A b, c \in Of(r)' : b = c
         /\ \A b \in Of(r)' : Follows(b.cookie, r)'
         /\ Of(r)' = {} => cookies'[r].worker = history'.worker[r]
  BY <1>1, <1>3, <1>5 DEF SessionsInv, Follows
<1>7. /\ TokensAreLive(managers, tokens, history.ended)'
      /\ \A t \in Tokens : history'.used[t] <= now'
      /\ NoEndedSession' /\ NoIdleSession'
      /\ \A r \in Screens : Backed(cookies'[r], tokens', history'.used)
      /\ \A b \in answers' : Backed(b.cookie, tokens', history'.used)
  BY <1>1, <1>3 DEF SessionsInv, NoEndedSession, NoIdleSession
<1>8. QED
  BY <1>4, <1>6, <1>7 DEF SessionsInv

(* The server changes its managers, the clock and what was ended: cookies, *)
(* answers and workers are as they were.                                   *)
LEMMA ServerStep ==
    ASSUME SessionsInv, UNCHANGED <<cookies, answers, tokens>>,
           managers' \in [Accounts -> [token : Nat, may : BOOLEAN]],
           now' \in Nat, now <= now', history' \in Histories,
           history'.used = history.used, history'.worker = history.worker,
           history'.plain = history.plain, history'.served = history.served,
           TokensAreLive(managers', tokens, history'.ended)
    PROVE  SessionsInv'
<1>1. SessionsTyped'
  BY DEF SessionsInv, SessionsTyped
<1>2. \A r \in Screens : Of(r)' = Of(r)
  BY DEF Of
<1>3. history.plain \subseteq Screens
  BY DEF SessionsInv, SessionsTyped, Histories
<1>4. \A r \in history'.plain :
         /\ \A b, c \in Of(r)' : b = c
         /\ \A b \in Of(r)' : Follows(b.cookie, r)'
         /\ Of(r)' = {} => cookies'[r].worker = history'.worker[r]
  BY <1>2, <1>3 DEF SessionsInv, Follows
<1>5. \A t \in Tokens : history'.used[t] <= now'
  BY DEF SessionsInv, SessionsTyped, Histories
<1>6. /\ TokensAreLive(managers, tokens, history.ended)'
      /\ NoEndedSession' /\ NoIdleSession'
      /\ \A r \in Screens : Backed(cookies'[r], tokens', history'.used)
      /\ \A b \in answers' : Backed(b.cookie, tokens', history'.used)
  BY DEF SessionsInv, NoEndedSession, NoIdleSession
<1>7. QED
  BY <1>1, <1>4, <1>5, <1>6 DEF SessionsInv

LEMMA EndSessionsStep ==
    ASSUME SessionsInv, NEW m \in Accounts, NEW may \in BOOLEAN, EndSessions(m, may)
    PROVE  SessionsInv'
<1> DEFINE new == [token |-> 0, may |-> may]
<1>1. /\ managers' = [managers EXCEPT ![m] = new] /\ history' = Ended(managers[m].token)
      /\ UNCHANGED <<cookies, answers, now, tokens>>
  BY DEF EndSessions
<1>2. new \in [token : {0}, may : BOOLEAN]
  OBVIOUS
<1>3. /\ managers \in [Accounts -> [token : Nat, may : BOOLEAN]] /\ now \in Nat
      /\ managers[m].token <= tokens
  BY DEF SessionsInv, SessionsTyped, TokensAreLive
<1>4. /\ history' \in Histories
      /\ history'.used = history.used /\ history'.worker = history.worker
      /\ history'.plain = history.plain /\ history'.served = history.served
  BY <1>1, <1>3, EndedFields
<1> HIDE DEF new
<1>5. /\ managers' \in [Accounts -> [token : Nat, may : BOOLEAN]]
      /\ TokensAreLive(managers', tokens, history'.ended)
  BY <1>1, <1>2, EndingIsLive
<1>6. now' \in Nat /\ now <= now'
  BY <1>1, <1>3
<1>7. QED
  BY <1>1, <1>4, <1>5, <1>6, ServerStep

LEMMA GrantStep ==
    ASSUME SessionsInv, NEW m \in Accounts, Grant(m)
    PROVE  SessionsInv'
<1>1. /\ managers' = [managers EXCEPT ![m].may = TRUE]
      /\ UNCHANGED <<cookies, answers, now, tokens, history>>
  BY DEF Grant
<1>2. /\ managers \in [Accounts -> [token : Nat, may : BOOLEAN]] /\ now \in Nat
      /\ history \in Histories /\ TokensAreLive(managers, tokens, history.ended)
  BY DEF SessionsInv, SessionsTyped
<1>3. /\ managers' \in [Accounts -> [token : Nat, may : BOOLEAN]]
      /\ \A n \in Accounts : managers'[n].token = managers[n].token
  BY <1>1, <1>2
<1>4. TokensAreLive(managers', tokens, history'.ended)
  BY <1>1, <1>2, <1>3 DEF TokensAreLive
<1>5. now' \in Nat /\ now <= now' /\ history' \in Histories
  BY <1>1, <1>2
<1>6. QED
  BY <1>1, <1>3, <1>4, <1>5, ServerStep

LEMMA LaterStep ==
    ASSUME SessionsInv, Later
    PROVE  SessionsInv'
<1>1. /\ managers \in [Accounts -> [token : Nat, may : BOOLEAN]] /\ now \in Nat
      /\ history \in Histories /\ TokensAreLive(managers, tokens, history.ended)
  BY DEF SessionsInv, SessionsTyped
<1>2. now' \in Nat /\ now <= now'
  BY <1>1 DEF Later
<1>3. QED
  BY <1>1, <1>2, ServerStep DEF Later

(***************************************************************************)
(* The theorems                                                            *)
(***************************************************************************)
LEMMA SessionsBegin ==
    SessionsInit => SessionsInv
<1>1. SUFFICES ASSUME SessionsInit PROVE SessionsInv
  OBVIOUS
<1>2. /\ managers = [m \in Accounts |-> [token |-> 0, may |-> TRUE]]
      /\ cookies = [s \in Screens |-> Empty] /\ answers = {} /\ now = 0 /\ tokens = 0
      /\ history = [ended |-> {}, used |-> [t \in 1..MaxTokens |-> 0],
                    worker |-> [s \in Screens |-> Nobody], plain |-> Screens,
                    served |-> [ended |-> FALSE, idle |-> FALSE]]
  BY <1>1 DEF SessionsInit
<1>3. Empty \in Cookies /\ Empty.mgr = Nobody /\ Empty.worker = Nobody
  BY DEF Empty, Cookies
<1>4. SessionsTyped
  BY <1>2, <1>3, SessionsAssumption DEF SessionsTyped, Histories, Tokens
<1>5. /\ TokensAreLive(managers, tokens, history.ended)
      /\ \A t \in Tokens : history.used[t] <= now
      /\ NoEndedSession /\ NoIdleSession
  BY <1>2 DEF TokensAreLive, Tokens, NoEndedSession, NoIdleSession
<1>6. /\ \A s \in Screens : Backed(cookies[s], tokens, history.used)
      /\ \A a \in answers : Backed(a.cookie, tokens, history.used)
      /\ \A s \in Screens : Of(s) = {} /\ cookies[s].worker = history.worker[s]
  BY <1>2, <1>3 DEF Backed, Of
<1>7. QED
  BY <1>2, <1>4, <1>5, <1>6 DEF SessionsInv

LEMMA SessionsKept ==
    SessionsInv /\ [SessionsNext]_sessionVars => SessionsInv'
<1>1. SUFFICES ASSUME SessionsInv, [SessionsNext]_sessionVars
               PROVE  SessionsInv'
  OBVIOUS
<1>2. CASE UNCHANGED sessionVars
  BY <1>1, <1>2 DEF sessionVars, SessionsInv, SessionsTyped, Of, Follows,
                    NoEndedSession, NoIdleSession
<1>3. ASSUME NEW s \in Screens, NEW m \in Accounts, Login(s, m) \/ LoginRefused(s, m)
      PROVE  SessionsInv'
  BY <1>1, <1>3, LoginStep, LoginRefusedStep
<1>4. ASSUME NEW s \in Screens, Use(s) \/ Peek(s) \/ ChangePassword(s) \/ Logout(s)
      PROVE  SessionsInv'
  BY <1>1, <1>4, UseStep, PeekStep, ChangePasswordStep, LogoutStep
<1>5. ASSUME NEW s \in Screens,
             (\E w \in Workers : WorkerLogin(s, w)) \/ WorkerLogout(s) \/ Heartbeat(s)
      PROVE  SessionsInv'
  BY <1>1, <1>5, WorksStep, HeartbeatStep DEF WorkerLogin, WorkerLogout
<1>6. ASSUME NEW a \in answers, Receive(a) \/ Lose(a)
      PROVE  SessionsInv'
  BY <1>1, <1>6, ReceiveStep, LoseStep
<1>7. ASSUME NEW m \in Accounts, EndSessions(m, TRUE) \/ EndSessions(m, FALSE) \/ Grant(m)
      PROVE  SessionsInv'
  BY <1>1, <1>7, EndSessionsStep, GrantStep
<1>8. CASE Later
  BY <1>1, <1>8, LaterStep
<1>9. QED
  BY <1>1, <1>2, <1>3, <1>4, <1>5, <1>6, <1>7, <1>8 DEF SessionsNext

(* A session that was ended has no rights any more, whatever cookie a late *)
(* answer brings back, for the token of a manager is never one that was    *)
(* ended; nor has one that was idle too long, for no cookie, wherever it   *)
(* is, says it was used later than it was.  And where requests do not      *)
(* overlap and answers are not lost, the worker at a screen is the one who *)
(* signed in there last, whatever a manager did (auth.py, blend_session.py)*)
THEOREM SessionsEndInTime == SessionsSpec => []SessionsEnd
<1>1. SessionsInv => SessionsEnd
  BY DEF SessionsInv, SessionsEnd, WorkerStays
<1>2. QED
  BY SessionsBegin, SessionsKept, <1>1, PTL DEF SessionsSpec

---------------------------------------------------------------------------
(***************************************************************************)
(* The attendance page: why an account is locked.                          *)
(***************************************************************************)
Times == Seq(0..MaxSteps)

(* n is the number of latest failures that are close to each other.        *)
IsClose(times, n) ==
    /\ n \in 0..Len(times)
    /\ \A i \in (Len(times) - n + 1)..(Len(times) - 1) : times[i + 1] - times[i] <= Window
    /\ n = Len(times) \/ (n > 0 /\ times[Len(times) - n + 1] - times[Len(times) - n] > Window)

(* There is one such number at most, and Close is it.                      *)
LEMMA CloseIs ==
  ASSUME NEW times \in Times, NEW n, IsClose(times, n)
  PROVE  Close(times) = n
<1> DEFINE k == Len(times)
<1>1. k \in Nat /\ \A i \in 1..k : times[i] \in Nat
  BY LoginAssumption DEF Times
<1>2. ASSUME NEW m, NEW o, IsClose(times, m), IsClose(times, o), m < o
      PROVE  FALSE
  <2>1. /\ m \in 0..k /\ o \in 0..k /\ m # k /\ m > 0
        /\ times[k - m + 1] - times[k - m] > Window
    BY <1>1, <1>2 DEF IsClose
  <2>2. k - m \in (k - o + 1)..(k - 1)
    BY <1>1, <1>2, <2>1
  <2>3. \A i \in (k - o + 1)..(k - 1) : times[i + 1] - times[i] <= Window
    BY <1>2 DEF IsClose
  <2>4. k - m \in 1..k /\ (k - m) + 1 \in 1..k /\ (k - m) + 1 = k - m + 1
    BY <1>1, <2>1
  <2>5. times[k - m + 1] - times[k - m] <= Window
    BY <2>2, <2>3, <2>4
  <2>6. times[k - m + 1] - times[k - m] \in Int /\ Window \in Int
    BY <1>1, <2>4, LoginAssumption
  <2> QED
    BY <2>1, <2>5, <2>6
<1>3. \A m : IsClose(times, m) => m = n
  <2> TAKE m
  <2> HAVE IsClose(times, m)
  <2>1. m \in Nat /\ n \in Nat
    BY <1>1 DEF IsClose
  <2> QED
    BY <1>2, <2>1
<1>4. Close(times) = CHOOSE m \in 0..Len(times) : IsClose(times, m)
  BY DEF Close, IsClose
<1>5. n \in 0..Len(times)
  BY DEF IsClose
<1> QED
  BY <1>3, <1>4, <1>5

(* One failure more.                                                       *)
LEMMA CloseGrows ==
  ASSUME NEW times \in Times, NEW n, IsClose(times, n), NEW t \in 0..MaxSteps
  PROVE  /\ Append(times, t) \in Times
         /\ times = <<>> \/ t - times[Len(times)] > Window => IsClose(Append(times, t), 1)
         /\ times # <<>> /\ ~ (t - times[Len(times)] > Window) => IsClose(Append(times, t), n + 1)
<1> DEFINE k == Len(times)
<1> DEFINE longer == Append(times, t)
<1>1. /\ k \in Nat /\ n \in 0..k /\ longer \in Times /\ Len(longer) = k + 1
      /\ longer[k + 1] = t /\ \A i \in 1..k : longer[i] = times[i] /\ times[i] \in Nat
  BY LoginAssumption DEF Times, IsClose
<1>2. times = <<>> <=> k = 0
  BY DEF Times
<1>3. ASSUME times = <<>> \/ t - times[k] > Window
      PROVE  IsClose(longer, 1)
  <2> HIDE DEF longer
  <2>1. \A i \in (k + 1 - 1 + 1)..(k + 1 - 1) : FALSE
    BY <1>1
  <2>2. k # 0 => longer[k + 1 - 1 + 1] - longer[k + 1 - 1] > Window
    BY <1>1, <1>2, <1>3
  <2> QED
    BY <1>1, <2>1, <2>2 DEF IsClose
<1>4. ASSUME times # <<>>, ~ (t - times[k] > Window)
      PROVE  IsClose(longer, n + 1)
  <2> HIDE DEF longer
  <2>1. k > 0 /\ t - times[k] <= Window
    BY <1>1, <1>2, <1>4, LoginAssumption
  <2>2. n > 0
    BY <1>1, <2>1 DEF IsClose
  <2>3. ASSUME NEW i \in (k + 1 - (n + 1) + 1)..(k + 1 - 1)
        PROVE  longer[i + 1] - longer[i] <= Window
    <3>1. CASE i = k
      BY <1>1, <2>1, <3>1
    <3>2. CASE i # k
      <4>1. i \in (k - n + 1)..(k - 1) /\ i \in 1..k /\ i + 1 \in 1..k
        BY <1>1, <3>2
      <4>2. times[i + 1] - times[i] <= Window
        BY <4>1 DEF IsClose
      <4> QED
        BY <1>1, <4>1, <4>2
    <3> QED
      BY <3>1, <3>2
  <2>4. n + 1 = k + 1 \/ (n + 1 > 0 /\ longer[k + 1 - (n + 1) + 1] - longer[k + 1 - (n + 1)] > Window)
    <3>1. CASE n = k
      BY <3>1
    <3>2. CASE n # k
      <4>1. times[k - n + 1] - times[k - n] > Window
        BY <3>2 DEF IsClose
      <4>2. /\ k + 1 - (n + 1) + 1 = k - n + 1 /\ k + 1 - (n + 1) = k - n
            /\ k - n \in 1..k /\ k - n + 1 \in 1..k
        BY <1>1, <2>2, <3>2
      <4> QED
        BY <1>1, <4>1, <4>2
    <3> QED
      BY <3>1, <3>2
  <2> QED
    BY <1>1, <2>3, <2>4 DEF IsClose
<1> QED
  BY <1>1, <1>3, <1>4

LEMMA LastIsTime ==
  ASSUME NEW times \in Times, times # <<>>
  PROVE  times[Len(times)] \in 0..MaxSteps
<1> DEFINE T == 0..MaxSteps
<1>1. times \in Seq(T)
  BY DEF Times
<1> HIDE DEF T
<1>2. Len(times) \in 1..Len(times)
  BY <1>1
<1>3. times[Len(times)] \in T
  BY <1>1, <1>2
<1> QED
  BY <1>3 DEF T

(***************************************************************************)
(* The count of an account is that of its failures close to each other,    *)
(* so that it is below the limit; a lock has its cause.                    *)
(***************************************************************************)
AccountRows == [reset : BOOLEAN, failed : Nat, locked : Nat, last : Nat]
LoginTyped ==
    /\ account \in AccountRows
    /\ time \in 0..MaxSteps
    /\ loginHistory \in [wrong : Times, cause : Times, own : BOOLEAN]

Counted ==
    /\ loginHistory.wrong # <<>> => account.last = loginHistory.wrong[Len(loginHistory.wrong)]
    /\ account # NoAccount => /\ account.failed < MaxFailed
                              /\ IsClose(loginHistory.wrong, account.failed)
    /\ account = NoAccount => loginHistory.wrong = <<>>
HasCause == account.locked > time => \E n : n >= MaxFailed /\ IsClose(loginHistory.cause, n)

LoginInv == LoginTyped /\ Counted /\ HasCause /\ OwnPasswordStays

LEMMA NothingIsClose == <<>> \in Times /\ IsClose(<<>>, 0)
<1>1. <<>> \in Times /\ Len(<<>>) = 0
  BY DEF Times
<1> QED
  BY <1>1 DEF IsClose

LEMMA LoginInitially == LoginInit => LoginInv
<1> SUFFICES ASSUME LoginInit PROVE LoginInv
  OBVIOUS
<1>1. LoginTyped
  BY NothingIsClose, LoginAssumption DEF LoginInit, LoginTyped, AccountRows, NoAccount, Never
<1>2. Counted /\ HasCause /\ OwnPasswordStays
  BY NothingIsClose DEF LoginInit, Counted, HasCause, OwnPasswordStays, NoAccount
<1> QED
  BY <1>1, <1>2 DEF LoginInv

(* The failures are forgotten and the count with them.                     *)
Forgets ==
    /\ account' \in AccountRows /\ account'.failed = 0 /\ account'.locked = 0
    /\ loginHistory' \in [wrong : Times, cause : Times, own : BOOLEAN]
    /\ loginHistory'.wrong = <<>>
    /\ loginHistory'.own = loginHistory.own
    /\ time' = time

LEMMA ForgettingIsFair ==
  ASSUME LoginInv, Forgets
  PROVE  LoginInv'
<1>1. LoginTyped'
  BY DEF LoginInv, LoginTyped, Forgets
<1>2. Counted'
  BY NothingIsClose, LoginAssumption DEF Forgets, Counted
<1>3. HasCause' /\ OwnPasswordStays'
  BY DEF LoginInv, LoginTyped, Forgets, HasCause, OwnPasswordStays
<1> QED
  BY <1>1, <1>2, <1>3 DEF LoginInv

LEMMA FailingIsFair ==
  ASSUME LoginInv, LoginFails
  PROVE  LoginInv'
<1> DEFINE wrong == Append(loginHistory.wrong, time)
<1>1. /\ account # NoAccount /\ time' = time /\ time \in 0..MaxSteps
      /\ loginHistory.wrong \in Times /\ loginHistory.cause \in Times /\ loginHistory.own \in BOOLEAN
      /\ account \in AccountRows /\ account.failed \in Nat /\ account.last \in Nat
  BY DEF LoginFails, Open, LoginInv, LoginTyped, AccountRows
<1>2. /\ IsClose(loginHistory.wrong, account.failed)
      /\ loginHistory.wrong # <<>> => account.last = loginHistory.wrong[Len(loginHistory.wrong)]
  BY <1>1 DEF LoginInv, Counted
<1>3. wrong \in Times /\ IsClose(wrong, Attempts) /\ Attempts \in Nat
  <2>1. CASE loginHistory.wrong = <<>>
    <3>1. account.failed = 0
      BY <1>1, <1>2, <2>1 DEF IsClose
    <3>2. Attempts = 1
      BY <3>1 DEF Attempts
    <3> QED
      BY <1>1, <1>2, <2>1, <3>2, CloseGrows
  <2>2. CASE loginHistory.wrong # <<>>
    <3>1. account.last # Never
      <4>1. loginHistory.wrong[Len(loginHistory.wrong)] \in 0..MaxSteps
        BY <1>1, <2>2, LastIsTime
      <4> QED
        BY <1>2, <2>2, <4>1, LoginAssumption
    <3>2. CASE time - account.last > Window
      <4>1. Attempts = 1
        BY <3>2 DEF Attempts
      <4> QED
        BY <1>1, <1>2, <2>2, <3>2, <4>1, CloseGrows
    <3>3. CASE ~ (time - account.last > Window)
      <4>1. Attempts = account.failed + 1
        BY <3>1, <3>3 DEF Attempts
      <4> QED
        BY <1>1, <1>2, <2>2, <3>3, <4>1, CloseGrows
    <3> QED
      BY <3>2, <3>3
  <2> QED
    BY <2>1, <2>2
<1> HIDE DEF wrong
<1>4. CASE Attempts >= MaxFailed
  <2> DEFINE new == [account EXCEPT !.failed = 0, !.locked = time + Lockout, !.last = Never]
  <2>1. account' = new /\ loginHistory' = [loginHistory EXCEPT !.wrong = <<>>, !.cause = wrong]
    BY <1>4 DEF LoginFails, wrong
  <2>2. new \in AccountRows /\ new.failed = 0
    <3>1. time + Lockout \in Nat /\ Never \in Nat
      BY <1>1, LoginAssumption DEF Never
    <3>2. account \in AccountRows
      BY <1>1
    <3> QED
      BY <3>1, <3>2 DEF AccountRows
  <2>3. /\ loginHistory' \in [wrong : Times, cause : Times, own : BOOLEAN]
        /\ loginHistory'.wrong = <<>> /\ loginHistory'.cause = wrong
        /\ loginHistory'.own = loginHistory.own
    BY <1>1, <1>3, <2>1, NothingIsClose DEF LoginInv, LoginTyped
  <2> HIDE DEF new
  <2>4. LoginTyped' /\ OwnPasswordStays'
    BY <1>1, <2>1, <2>2, <2>3 DEF LoginInv, LoginTyped, OwnPasswordStays
  <2>5. Counted'
    BY <2>1, <2>2, <2>3, NothingIsClose, LoginAssumption DEF Counted
  <2>6. HasCause'
    BY <1>3, <1>4, <2>3 DEF HasCause
  <2> QED
    BY <2>4, <2>5, <2>6 DEF LoginInv
<1>5. CASE ~ (Attempts >= MaxFailed)
  <2> DEFINE new == [account EXCEPT !.failed = Attempts, !.locked = 0, !.last = time]
  <2>1. account' = new /\ loginHistory' = [loginHistory EXCEPT !.wrong = wrong]
    BY <1>5 DEF LoginFails, wrong
  <2>2. new \in AccountRows /\ new.failed = Attempts /\ new.locked = 0 /\ new.last = time
    <3>1. time \in Nat /\ Attempts \in Nat
      BY <1>1, <1>3, LoginAssumption
    <3>2. account \in AccountRows
      BY <1>1
    <3> QED
      BY <3>1, <3>2 DEF AccountRows
  <2>3. /\ loginHistory' \in [wrong : Times, cause : Times, own : BOOLEAN]
        /\ loginHistory'.wrong = wrong /\ loginHistory'.own = loginHistory.own
    BY <1>1, <1>3, <2>1 DEF LoginInv, LoginTyped
  <2>4. wrong # <<>> /\ wrong[Len(wrong)] = time
    BY <1>1 DEF wrong, Times
  <2> HIDE DEF new
  <2>5. LoginTyped' /\ OwnPasswordStays'
    BY <1>1, <2>1, <2>2, <2>3 DEF LoginInv, LoginTyped, OwnPasswordStays
  <2>6. Counted'
    <3>1. account'.failed < MaxFailed /\ account'.last = time
      BY <1>3, <1>5, <2>1, <2>2, LoginAssumption
    <3>2. IsClose(loginHistory'.wrong, account'.failed)
      BY <1>3, <2>1, <2>2, <2>3
    <3>3. account' # NoAccount
      BY <1>1, <3>1, LoginAssumption DEF NoAccount
    <3> QED
      BY <2>3, <2>4, <3>1, <3>2, <3>3 DEF Counted
  <2>7. HasCause'
    BY <1>1, <2>1, <2>2, LoginAssumption DEF HasCause
  <2> QED
    BY <2>5, <2>6, <2>7 DEF LoginInv
<1> QED
  BY <1>4, <1>5

LEMMA AttendanceLoginStep ==
  ASSUME LoginInv, [LoginNext]_loginVars
  PROVE  LoginInv'
<1>1. /\ account \in AccountRows /\ account.reset \in BOOLEAN /\ time \in 0..MaxSteps
      /\ loginHistory \in [wrong : Times, cause : Times, own : BOOLEAN]
      /\ loginHistory.own = TRUE
  BY DEF LoginInv, LoginTyped, AccountRows, OwnPasswordStays
<1>2. ASSUME NEW reset \in BOOLEAN, SetPassword(reset)
      PROVE  account' \in AccountRows /\ account'.failed = 0 /\ account'.locked = 0
  BY <1>1, <1>2 DEF SetPassword, AccountRows
<1>3. ASSUME account' = [account EXCEPT !.failed = 0, !.locked = 0, !.last = Never]
      PROVE  account' \in AccountRows /\ account'.failed = 0 /\ account'.locked = 0
  <2> DEFINE new == [account EXCEPT !.failed = 0, !.locked = 0, !.last = Never]
  <2>1. account \in AccountRows /\ Never \in Nat
    BY <1>1 DEF Never
  <2>2. new \in AccountRows /\ new.failed = 0 /\ new.locked = 0
    BY <2>1 DEF AccountRows
  <2> QED
    BY <1>3, <2>2
<1>4. ASSUME loginHistory' = [loginHistory EXCEPT !.wrong = <<>>]
      PROVE  /\ loginHistory' \in [wrong : Times, cause : Times, own : BOOLEAN]
             /\ loginHistory'.wrong = <<>> /\ loginHistory'.own = loginHistory.own
  BY <1>1, <1>4, NothingIsClose
<1>5. ASSUME NEW s \in Pages, NEW given \in BOOLEAN, ChangeOwnPassword(s, given)
      PROVE  LoginInv'
  <2>1. /\ SetPassword(FALSE) /\ time' = time /\ (account.reset \/ given)
        /\ loginHistory' = [loginHistory EXCEPT !.wrong = <<>>, !.own = @ /\ (account.reset \/ given)]
    BY <1>5 DEF ChangeOwnPassword, MayChange
  <2>2. /\ loginHistory' \in [wrong : Times, cause : Times, own : BOOLEAN]
        /\ loginHistory'.wrong = <<>> /\ loginHistory'.own = loginHistory.own
    BY <1>1, <2>1, NothingIsClose
  <2>3. Forgets
    BY <1>2, <2>1, <2>2 DEF Forgets
  <2> QED
    BY <2>3, ForgettingIsFair
<1>6. ASSUME \/ \E s \in Pages : LoginSucceeds(s)
             \/ IssueTemporary \/ Unlock
      PROVE  LoginInv'
  <2>1. loginHistory' = [loginHistory EXCEPT !.wrong = <<>>] /\ time' = time
    BY <1>6 DEF LoginSucceeds, IssueTemporary, Unlock
  <2>2. account' \in AccountRows /\ account'.failed = 0 /\ account'.locked = 0
    <3>1. CASE IssueTemporary
      BY <1>2, <3>1 DEF IssueTemporary
    <3>2. CASE (\E s \in Pages : LoginSucceeds(s)) \/ Unlock
      <4>1. account' = [account EXCEPT !.failed = 0, !.locked = 0, !.last = Never]
        BY <3>2 DEF LoginSucceeds, Unlock
      <4> QED
        BY <1>3, <4>1
    <3> QED
      BY <1>6, <3>1, <3>2
  <2>3. /\ loginHistory' \in [wrong : Times, cause : Times, own : BOOLEAN]
        /\ loginHistory'.wrong = <<>> /\ loginHistory'.own = loginHistory.own
    BY <1>4, <2>1
  <2>4. Forgets
    BY <2>1, <2>2, <2>3 DEF Forgets
  <2> QED
    BY <2>4, ForgettingIsFair
<1>7. ASSUME account' = account, loginHistory' = loginHistory, time' \in time..MaxSteps
      PROVE  LoginInv'
  <2>1. LoginTyped' /\ Counted' /\ OwnPasswordStays'
    BY <1>1, <1>7, LoginAssumption DEF LoginInv, LoginTyped, Counted, OwnPasswordStays
  <2>2. account.locked \in Nat /\ time \in Nat /\ time' \in Nat /\ time <= time'
    BY <1>1, <1>7, LoginAssumption DEF AccountRows
  <2>3. HasCause'
    BY <1>7, <2>2 DEF LoginInv, HasCause
  <2> QED
    BY <2>1, <2>3 DEF LoginInv
<1>8. CASE \/ \E s \in Pages : SignOut(s) \/ View(s)
           \/ StepPasses \/ UNCHANGED loginVars
  BY <1>1, <1>7, <1>8, LoginAssumption DEF SignOut, View, StepPasses, loginVars
<1> QED
  BY <1>5, <1>6, <1>8, FailingIsFair DEF LoginNext

(* A person is locked out only for as many wrong passwords as the limit,   *)
(* each soon after the one before, of which none was followed by a right   *)
(* one, a new password or a manager's help; and a password that an         *)
(* employee chose is replaced by one who gives it or by a manager only,    *)
(* whatever other pages remember (attendance_auth.py).                     *)
THEOREM LockoutIsFair == LoginSpec => []LoginIsFair
<1>1. LoginInv => LoginIsFair
  <2> SUFFICES ASSUME LoginInv PROVE LoginIsFair
    OBVIOUS
  <2>1. loginHistory.wrong \in Times /\ loginHistory.cause \in Times /\ account.failed \in Nat
    BY DEF LoginInv, LoginTyped, AccountRows
  <2>2. Close(loginHistory.wrong) < MaxFailed
    <3>1. CASE account = NoAccount
      BY <2>1, <3>1, NothingIsClose, CloseIs, LoginAssumption DEF LoginInv, Counted
    <3>2. CASE account # NoAccount
      BY <2>1, <3>2, CloseIs DEF LoginInv, Counted
    <3> QED
      BY <3>1, <3>2
  <2>3. account.locked > time => Close(loginHistory.cause) >= MaxFailed
    BY <2>1, CloseIs DEF LoginInv, HasCause
  <2> QED
    BY <2>2, <2>3 DEF LoginInv, LoginIsFair, LockedByFailures
<1>2. LoginInv /\ [LoginNext]_loginVars => LoginInv'
  BY AttendanceLoginStep
<1> QED
  BY <1>1, <1>2, LoginInitially, PTL DEF LoginSpec

(***************************************************************************)
(* WorkerRoster.  What a request read stays true until it writes, as long  *)
(* as no other of its kind came between: another manager than the one it   *)
(* takes the rights from, and the name that the records are found under.   *)
(***************************************************************************)
RosterRows == [name : WorkerNames, active : BOOLEAN, manager : BOOLEAN]
RosterAsks ==
    [op : {"grant", "revoke", "reactivate", "delete"}, id : Nat]
        \cup [op : {"update"}, id : Nat, old : WorkerNames, new : WorkerNames,
              active : {TRUE, FALSE, NoName}]

RosterTyped ==
    /\ nextId \in Nat /\ DOMAIN worker \subseteq 1..nextId
    /\ worker \in [DOMAIN worker -> RosterRows]
    /\ records \in Seq([name : WorkerNames, by : 1..nextId, fresh : BOOLEAN])
    /\ screen \in [BlendScreens -> [name : WorkerNames, by : 1..nextId] \cup {NoName}]
    /\ request \in [RosterRequests -> RosterAsks \cup {NoName}]
    /\ overlap \in [rights : BOOLEAN, names : BOOLEAN]

IsRenaming(q) == q.op = "update" /\ q.new # q.old

RightsKept ==
    ~ overlap.rights =>
        /\ ManagerRemains
        /\ \A k, l \in InFlight : TakesRights(request[k]) /\ TakesRights(request[l]) => k = l
        /\ \A k \in InFlight :
              TakesRights(request[k]) /\ ~ IsRenaming(request[k])
              => \E j \in Managers : j # request[k].id

NamesKept ==
    ~ overlap.names =>
        /\ RenameCarriesRecords
        /\ \A k, l \in InFlight : ChangesName(request[k]) /\ ChangesName(request[l]) => k = l
        /\ \A k \in InFlight :
              IsRenaming(request[k])
              => /\ request[k].id \in DOMAIN worker
                 /\ worker[request[k].id].name = request[k].old

RosterInv == RosterTyped /\ OneNameEach /\ RightsKept /\ NamesKept

LEMMA RosterStarts == ASSUME RosterInit PROVE RosterInv
<1>1. PICK n \in WorkerNames : worker = [i \in {1} |-> [name |-> n, active |-> TRUE, manager |-> TRUE]]
  BY DEF RosterInit
<1>2. RosterTyped
  BY <1>1 DEF RosterInit, RosterTyped, RosterRows
<1>3. 1 \in Managers /\ OneNameEach
  BY <1>1 DEF Managers, OneNameEach
<1>4. InFlight = {}
  BY DEF InFlight, RosterInit
<1>5. RenameCarriesRecords
  BY DEF RenameCarriesRecords, RosterInit
<1> QED
  BY <1>2, <1>3, <1>4, <1>5 DEF RosterInv, RightsKept, NamesKept, ManagerRemains

(* Not the last manager: there is another one.                             *)
LEMMA OtherManager ==
    ASSUME RosterTyped, NEW i, ManagerRemains, ~ LastManager(i)
    PROVE  \E j \in Managers : j # i
<1>1. CASE i \in Managers
  <2>1. ~ (Cardinality(Managers) <= 1)
    BY <1>1 DEF LastManager, Row, Managers
  <2>2. Managers # {i}
    BY <2>1, FS_Singleton
  <2> QED
    BY <1>1, <2>2
<1>2. CASE i \notin Managers
  BY <1>2 DEF ManagerRemains
<1> QED
  BY <1>1, <1>2

(* Reading puts one more request under way, and changes nothing else.      *)
LEMMA ReadKeeps ==
    ASSUME RosterInv, NEW m \in RosterRequests, NEW q \in RosterAsks, Read(m, q),
           ~ overlap.rights /\ TakesRights(q) /\ ~ IsRenaming(q)
              => \E j \in Managers : j # q.id,
           IsRenaming(q) => q.id \in DOMAIN worker /\ worker[q.id].name = q.old
    PROVE  RosterInv'
<1> DEFINE inFlight == InFlight
<1>1. /\ request' = [request EXCEPT ![m] = q] /\ request' \in [RosterRequests -> RosterAsks \cup {NoName}]
      /\ UNCHANGED <<worker, nextId, records, screen>>
      /\ request \in [RosterRequests -> RosterAsks \cup {NoName}]
      /\ overlap \in [rights : BOOLEAN, names : BOOLEAN]
  BY DEF Read, RosterInv, RosterTyped
<1>2. /\ request'[m] = q
      /\ \A k \in RosterRequests : k # m => request'[k] = request[k]
  BY <1>1
<1>3. InFlight' \subseteq inFlight \cup {m} /\ inFlight \subseteq RosterRequests
  BY <1>2 DEF InFlight
<1>4. /\ ManagerRemains' = ManagerRemains /\ Managers' = Managers
      /\ RenameCarriesRecords' = RenameCarriesRecords /\ OneNameEach' = OneNameEach
  BY <1>1 DEF ManagerRemains, Managers, RenameCarriesRecords, OneNameEach
<1>5. /\ overlap' \in [rights : BOOLEAN, names : BOOLEAN]
      /\ ~ overlap'.rights => /\ ~ overlap.rights
                              /\ TakesRights(q) => \A k \in inFlight : ~ TakesRights(request[k])
      /\ ~ overlap'.names  => /\ ~ overlap.names
                              /\ ChangesName(q) => \A k \in inFlight : ~ ChangesName(request[k])
  BY <1>1 DEF Read
<1>6. RosterTyped'
  BY <1>1, <1>5 DEF RosterInv, RosterTyped
<1>7. RightsKept'
  <2> SUFFICES ASSUME ~ overlap'.rights
               PROVE  /\ ManagerRemains'
                      /\ \A k, l \in InFlight' : TakesRights(request'[k]) /\ TakesRights(request'[l]) => k = l
                      /\ \A k \in InFlight' :
                            TakesRights(request'[k]) /\ ~ IsRenaming(request'[k])
                            => \E j \in Managers' : j # request'[k].id
    BY DEF RightsKept
  <2>1. /\ ManagerRemains
        /\ \A k, l \in inFlight : TakesRights(request[k]) /\ TakesRights(request[l]) => k = l
        /\ \A k \in inFlight : TakesRights(request[k]) /\ ~ IsRenaming(request[k])
                               => \E j \in Managers : j # request[k].id
    BY <1>5 DEF RosterInv, RightsKept
  <2> HIDE DEF inFlight
  <2>2. \A k, l \in InFlight' : TakesRights(request'[k]) /\ TakesRights(request'[l]) => k = l
    BY <1>2, <1>3, <1>5, <2>1
  <2>3. \A k \in InFlight' : TakesRights(request'[k]) /\ ~ IsRenaming(request'[k])
                             => \E j \in Managers' : j # request'[k].id
    BY <1>2, <1>3, <1>4, <1>5, <2>1
  <2> QED
    BY <1>4, <2>1, <2>2, <2>3
<1>8. NamesKept'
  <2> SUFFICES ASSUME ~ overlap'.names
               PROVE  /\ RenameCarriesRecords'
                      /\ \A k, l \in InFlight' : ChangesName(request'[k]) /\ ChangesName(request'[l]) => k = l
                      /\ \A k \in InFlight' :
                            IsRenaming(request'[k])
                            => /\ request'[k].id \in DOMAIN worker'
                               /\ worker'[request'[k].id].name = request'[k].old
    BY DEF NamesKept
  <2>1. /\ RenameCarriesRecords
        /\ \A k, l \in inFlight : ChangesName(request[k]) /\ ChangesName(request[l]) => k = l
        /\ \A k \in inFlight : IsRenaming(request[k])
              => request[k].id \in DOMAIN worker /\ worker[request[k].id].name = request[k].old
    BY <1>5 DEF RosterInv, NamesKept
  <2> HIDE DEF inFlight
  <2>2. \A k, l \in InFlight' : ChangesName(request'[k]) /\ ChangesName(request'[l]) => k = l
    BY <1>2, <1>3, <1>5, <2>1
  <2>3. \A k \in InFlight' : IsRenaming(request'[k])
              => request'[k].id \in DOMAIN worker' /\ worker'[request'[k].id].name = request'[k].old
    BY <1>1, <1>2, <1>3, <2>1
  <2> QED
    BY <1>4, <2>1, <2>2, <2>3
<1> QED
  BY <1>4, <1>6, <1>7, <1>8 DEF RosterInv

(* Any other step answers a request or starts none.  It may take away the  *)
(* rights of a manager, or a name, if no request that does so is left.     *)
RightsFollow ==
    ~ overlap.rights =>
        /\ ManagerRemains'
        /\ Managers \subseteq Managers' \/ \A k \in InFlight' : ~ TakesRights(request[k])
NamesFollow ==
    ~ overlap.names =>
        /\ RenameCarriesRecords'
        /\ \/ \A i \in DOMAIN worker : i \in DOMAIN worker' /\ worker'[i].name = worker[i].name
           \/ \A k \in InFlight' : ~ ChangesName(request[k])

LEMMA StepKeeps ==
    ASSUME RosterInv, RosterTyped', OneNameEach', overlap' = overlap,
           InFlight' \subseteq InFlight, \A k \in InFlight' : request'[k] = request[k],
           RightsFollow, NamesFollow
    PROVE  RosterInv'
<1>1. RightsKept'
  <2> SUFFICES ASSUME ~ overlap.rights
               PROVE  /\ ManagerRemains'
                      /\ \A k, l \in InFlight' : TakesRights(request'[k]) /\ TakesRights(request'[l]) => k = l
                      /\ \A k \in InFlight' :
                            TakesRights(request'[k]) /\ ~ IsRenaming(request'[k])
                            => \E j \in Managers' : j # request'[k].id
    BY DEF RightsKept
  <2>1. /\ \A k, l \in InFlight : TakesRights(request[k]) /\ TakesRights(request[l]) => k = l
        /\ \A k \in InFlight : TakesRights(request[k]) /\ ~ IsRenaming(request[k])
                               => \E j \in Managers : j # request[k].id
    BY DEF RosterInv, RightsKept
  <2>2. /\ ManagerRemains'
        /\ Managers \subseteq Managers' \/ \A k \in InFlight' : ~ TakesRights(request[k])
    BY DEF RightsFollow
  <2> QED
    BY <2>1, <2>2
<1>2. NamesKept'
  <2> SUFFICES ASSUME ~ overlap.names
               PROVE  /\ RenameCarriesRecords'
                      /\ \A k, l \in InFlight' : ChangesName(request'[k]) /\ ChangesName(request'[l]) => k = l
                      /\ \A k \in InFlight' :
                            IsRenaming(request'[k])
                            => /\ request'[k].id \in DOMAIN worker'
                               /\ worker'[request'[k].id].name = request'[k].old
    BY DEF NamesKept
  <2>1. /\ \A k, l \in InFlight : ChangesName(request[k]) /\ ChangesName(request[l]) => k = l
        /\ \A k \in InFlight : IsRenaming(request[k])
              => request[k].id \in DOMAIN worker /\ worker[request[k].id].name = request[k].old
    BY DEF RosterInv, NamesKept
  <2>2. /\ RenameCarriesRecords'
        /\ \/ \A i \in DOMAIN worker : i \in DOMAIN worker' /\ worker'[i].name = worker[i].name
           \/ \A k \in InFlight' : ~ ChangesName(request[k])
    BY DEF NamesFollow
  <2>3. \A k \in InFlight' : IsRenaming(request[k]) => ChangesName(request[k])
    BY DEF IsRenaming, ChangesName
  <2> QED
    BY <2>1, <2>2, <2>3
<1> QED
  BY <1>1, <1>2 DEF RosterInv

(* What answering a request leaves under way.                              *)
LEMMA AnswersOne ==
    ASSUME RosterInv, NEW m \in RosterRequests, NEW name, Writes(m, name)
    PROVE  /\ request[m] \in RosterAsks /\ request[m].op = name
           /\ request' \in [RosterRequests -> RosterAsks \cup {NoName}]
           /\ UNCHANGED <<nextId, screen, overlap>>
           /\ InFlight' = InFlight \ {m} /\ \A k \in InFlight' : request'[k] = request[k]
           /\ ~ overlap.rights /\ TakesRights(request[m]) => \A k \in InFlight' : ~ TakesRights(request[k])
           /\ ~ overlap.names /\ ChangesName(request[m]) => \A k \in InFlight' : ~ ChangesName(request[k])
<1>1. /\ request \in [RosterRequests -> RosterAsks \cup {NoName}]
      /\ request' = [request EXCEPT ![m] = NoName] /\ request[m] # NoName /\ m \in InFlight
      /\ request[m].op = name /\ UNCHANGED <<nextId, screen, overlap>>
  BY DEF Writes, InFlight, RosterInv, RosterTyped
<1>2. /\ request'[m] = NoName /\ \A k \in RosterRequests : k # m => request'[k] = request[k]
      /\ request' \in [RosterRequests -> RosterAsks \cup {NoName}]
  BY <1>1
<1>3. InFlight' = InFlight \ {m} /\ \A k \in InFlight' : request'[k] = request[k]
  BY <1>2 DEF InFlight
<1>4. ~ overlap.rights /\ TakesRights(request[m]) => \A k \in InFlight' : ~ TakesRights(request[k])
  BY <1>1, <1>3 DEF RosterInv, RightsKept
<1>5. ~ overlap.names /\ ChangesName(request[m]) => \A k \in InFlight' : ~ ChangesName(request[k])
  BY <1>1, <1>3 DEF RosterInv, NamesKept
<1> QED
  BY <1>1, <1>2, <1>3, <1>4, <1>5

(* The steps of a blend screen.                                            *)
LEMMA ScreenSteps ==
    ASSUME RosterInv,
           \/ \E n \in WorkerNames : Register(n)
           \/ \E s \in BlendScreens : \/ \E i \in DOMAIN worker : PickWorker(s, i)
                                      \/ LeaveScreen(s) \/ SaveRecord(s)
    PROVE  RosterInv'
<1> DEFINE BlendRecords(n) == [name : WorkerNames, by : 1..n, fresh : BOOLEAN]
           Cookie(n)       == [name : WorkerNames, by : 1..n]
<1>0. /\ RosterTyped /\ OneNameEach /\ RightsKept /\ NamesKept /\ nextId \in Nat
      /\ worker \in [DOMAIN worker -> RosterRows] /\ DOMAIN worker \subseteq 1..nextId
      /\ records \in Seq(BlendRecords(nextId))
      /\ screen \in [BlendScreens -> Cookie(nextId) \cup {NoName}]
      /\ (~ overlap.rights => ManagerRemains) /\ (~ overlap.names => RenameCarriesRecords)
  BY DEF RosterInv, RosterTyped, RightsKept, NamesKept
<1>1. ASSUME NEW n \in WorkerNames, Register(n) PROVE RosterInv'
  <2>1. /\ nextId' = nextId + 1 /\ UNCHANGED <<records, screen, request, overlap>>
        /\ DOMAIN worker' = DOMAIN worker \cup {nextId + 1}
        /\ \A i \in DOMAIN worker : worker'[i] = worker[i] /\ i # nextId + 1
        /\ worker'[nextId + 1] = [name |-> n, active |-> TRUE, manager |-> FALSE]
        /\ worker' = [i \in DOMAIN worker' |-> worker'[i]]
    BY <1>0, <1>1 DEF Register
  <2>2. OneNameEach'
    <3>1. \A i \in DOMAIN worker : worker[i].name # n
      BY <1>1 DEF Register, Listed
    <3> QED
      BY <1>0, <2>1, <3>1 DEF OneNameEach
  <2>3. RosterTyped'
    <3>0. [name |-> n, active |-> TRUE, manager |-> FALSE] \in RosterRows
      BY DEF RosterRows
    <3>1. \A i \in DOMAIN worker' : worker'[i] \in RosterRows
      BY <1>0, <2>1, <3>0
    <3>2. worker' \in [DOMAIN worker' -> RosterRows]
      BY <2>1, <3>1
    <3>3. nextId' \in Nat /\ 1..nextId \subseteq 1..nextId' /\ DOMAIN worker' \subseteq 1..nextId'
      BY <1>0, <2>1
    <3>4. BlendRecords(nextId) \subseteq BlendRecords(nextId') /\ Cookie(nextId) \subseteq Cookie(nextId')
      BY <3>3
    <3> HIDE DEF BlendRecords, Cookie
    <3>5. records' \in Seq(BlendRecords(nextId'))
      BY <1>0, <2>1, <3>4
    <3>6. screen' \in [BlendScreens -> Cookie(nextId') \cup {NoName}]
      BY <1>0, <2>1, <3>4
    <3> QED
      BY <1>0, <2>1, <3>2, <3>3, <3>5, <3>6 DEF RosterTyped, BlendRecords, Cookie
  <2>4. Managers \subseteq Managers'
    BY <2>1 DEF Managers
  <2>5. RenameCarriesRecords => RenameCarriesRecords'
    <3>1. \A b \in BlendRecords(nextId) : b.by \in 1..nextId
      OBVIOUS
    <3> HIDE DEF BlendRecords
    <3>2. \A r \in 1..Len(records) : records[r].by \in 1..nextId
      BY <1>0, <3>1
    <3> QED
      BY <1>0, <2>1, <3>2 DEF RenameCarriesRecords
  <2>6. RightsFollow /\ NamesFollow
    BY <1>0, <2>1, <2>4, <2>5 DEF RightsFollow, NamesFollow, ManagerRemains
  <2>7. InFlight' = InFlight
    BY <2>1 DEF InFlight
  <2> QED
    BY <2>1, <2>2, <2>3, <2>6, <2>7, StepKeeps
<1>2. ASSUME UNCHANGED <<worker, nextId, request, overlap>>,
             records' \in Seq(BlendRecords(nextId)),
             screen' \in [BlendScreens -> Cookie(nextId) \cup {NoName}],
             RenameCarriesRecords => RenameCarriesRecords'
      PROVE  RosterInv'
  <2>1. RosterTyped'
    BY <1>0, <1>2 DEF RosterTyped
  <2>2. OneNameEach' /\ InFlight' = InFlight /\ Managers' = Managers
    BY <1>0, <1>2 DEF OneNameEach, InFlight, Managers
  <2>3. RightsFollow /\ NamesFollow
    BY <1>0, <1>2, <2>2 DEF RightsFollow, NamesFollow, ManagerRemains
  <2> QED
    BY <1>2, <2>1, <2>2, <2>3, StepKeeps
<1>3. ASSUME NEW s \in BlendScreens, NEW i \in DOMAIN worker, PickWorker(s, i) PROVE RosterInv'
  <2> DEFINE c == [name |-> worker[i].name, by |-> i]
  <2>1. c \in Cookie(nextId) /\ worker[i].name \in WorkerNames
    BY <1>0 DEF RosterRows
  <2>2. screen' = [screen EXCEPT ![s] = c] /\ UNCHANGED <<worker, nextId, records, request, overlap>>
    BY <1>3 DEF PickWorker
  <2>3. RenameCarriesRecords => RenameCarriesRecords'
    BY <2>2 DEF RenameCarriesRecords
  <2> QED
    BY <1>0, <1>2, <2>1, <2>2, <2>3
<1>4. ASSUME NEW s \in BlendScreens, LeaveScreen(s) PROVE RosterInv'
  <2>1. screen' = [screen EXCEPT ![s] = NoName] /\ UNCHANGED <<worker, nextId, records, request, overlap>>
    BY <1>4 DEF LeaveScreen
  <2>2. RenameCarriesRecords => RenameCarriesRecords'
    BY <2>1 DEF RenameCarriesRecords
  <2> QED
    BY <1>0, <1>2, <2>1, <2>2
<1>5. ASSUME NEW s \in BlendScreens, SaveRecord(s) PROVE RosterInv'
  <2> DEFINE own == Row(screen[s].by).name = screen[s].name
             row == [name |-> screen[s].name, by |-> screen[s].by, fresh |-> own]
  <2>1. screen[s] \in Cookie(nextId) /\ own \in BOOLEAN
    BY <1>0, <1>5 DEF SaveRecord
  <2>2. records' = Append(records, row) /\ UNCHANGED <<worker, nextId, screen, request, overlap>>
    BY <1>5 DEF SaveRecord
  <2>3. row.name = screen[s].name /\ row.by = screen[s].by /\ row.fresh = own
    OBVIOUS
  <2>4. own => (row.by \in DOMAIN worker => row.name = worker[row.by].name)
    BY <2>3 DEF Row
  <2>5. row \in BlendRecords(nextId)
    BY <2>1
  <2> HIDE DEF row, own
  <2>6. /\ records' \in Seq(BlendRecords(nextId)) /\ Len(records') = Len(records) + 1
        /\ records'[Len(records) + 1] = row
        /\ \A r \in 1..Len(records) : records'[r] = records[r]
    BY <1>0, <2>2, <2>5
  <2>7. RenameCarriesRecords => RenameCarriesRecords'
    <3> SUFFICES ASSUME RenameCarriesRecords, NEW r \in 1..Len(records'),
                        records'[r].fresh, records'[r].by \in DOMAIN worker
                 PROVE  records'[r].name = worker[records'[r].by].name
      BY <2>2 DEF RenameCarriesRecords
    <3>1. CASE r = Len(records) + 1
      BY <2>3, <2>4, <2>6, <3>1
    <3>2. CASE r \in 1..Len(records)
      BY <2>6, <3>2 DEF RenameCarriesRecords
    <3> QED
      BY <1>0, <2>6, <3>1, <3>2
  <2> QED
    BY <1>0, <1>2, <2>2, <2>6, <2>7
<1> QED
  BY <1>1, <1>3, <1>4, <1>5

(***************************************************************************)
(* What the requests read.                                                 *)
(***************************************************************************)
LEMMA RosterReads ==
    ASSUME RosterInv, NEW m \in RosterRequests,
           \/ ReadUpdate(m) \/ ReadGrant(m) \/ ReadRevoke(m) \/ ReadReactivate(m) \/ ReadDelete(m)
    PROVE  RosterInv'
<1>0. /\ RosterTyped /\ nextId \in Nat /\ DOMAIN worker \subseteq Nat
      /\ \A i \in DOMAIN worker : worker[i].name \in WorkerNames
      /\ ~ overlap.rights => ManagerRemains
  BY DEF RosterInv, RosterTyped, RosterRows, RightsKept
<1>1. CASE ReadUpdate(m)
  <2>1. PICK i \in DOMAIN worker, by \in Actors, n \in WorkerNames, active \in {TRUE, FALSE, NoName} :
          /\ active = FALSE => n # worker[i].name \/ ~ LastManager(i)
          /\ Read(m, [op |-> "update", id |-> i, old |-> worker[i].name, new |-> n, active |-> active])
    BY <1>1 DEF ReadUpdate
  <2> DEFINE q == [op |-> "update", id |-> i, old |-> worker[i].name, new |-> n, active |-> active]
  <2>2. q \in RosterAsks
    BY <1>0 DEF RosterAsks
  <2>3. /\ q.op = "update" /\ q.id = i /\ q.old = worker[i].name /\ q.new = n /\ q.active = active
        /\ Read(m, q)
    BY <2>1
  <2> HIDE DEF q
  <2>4. ~ overlap.rights /\ TakesRights(q) /\ ~ IsRenaming(q) => \E j \in Managers : j # q.id
    BY <1>0, <2>1, <2>3, OtherManager DEF TakesRights, IsRenaming
  <2>5. IsRenaming(q) => q.id \in DOMAIN worker /\ worker[q.id].name = q.old
    BY <2>3
  <2> QED
    BY <2>2, <2>3, <2>4, <2>5, ReadKeeps
<1>2. ASSUME NEW op \in {"grant", "revoke", "reactivate", "delete"}, NEW i \in DOMAIN worker,
             Read(m, [op |-> op, id |-> i]),
             op # "grant" /\ ~ overlap.rights => \E j \in Managers : j # i
      PROVE  RosterInv'
  <2> DEFINE q == [op |-> op, id |-> i]
  <2>1. q \in RosterAsks /\ q.op = op /\ q.id = i /\ Read(m, q)
    BY <1>0, <1>2 DEF RosterAsks
  <2> HIDE DEF q
  <2>2. ~ overlap.rights /\ TakesRights(q) /\ ~ IsRenaming(q) => \E j \in Managers : j # q.id
    BY <1>2, <2>1 DEF TakesRights
  <2>3. ~ IsRenaming(q)
    BY <1>2, <2>1 DEF IsRenaming
  <2> QED
    BY <2>1, <2>2, <2>3, ReadKeeps
<1>3. CASE ReadGrant(m)
  BY <1>2, <1>3 DEF ReadGrant
<1>4. CASE ReadRevoke(m)
  <2>1. PICK i \in DOMAIN worker : ~ LastManager(i) /\ Read(m, [op |-> "revoke", id |-> i])
    BY <1>4 DEF ReadRevoke
  <2>2. ~ overlap.rights => \E j \in Managers : j # i
    BY <1>0, <2>1, OtherManager
  <2> QED
    BY <1>2, <2>1, <2>2
<1>5. CASE ReadReactivate(m)
  <2>1. PICK i \in DOMAIN worker : ~ worker[i].active /\ Read(m, [op |-> "reactivate", id |-> i])
    BY <1>5 DEF ReadReactivate
  <2>2. ~ overlap.rights => \E j \in Managers : j # i
    BY <1>0, <2>1 DEF ManagerRemains, Managers
  <2> QED
    BY <1>2, <2>1, <2>2
<1>6. CASE ReadDelete(m)
  <2>1. PICK i \in DOMAIN worker : ~ worker[i].manager /\ Read(m, [op |-> "delete", id |-> i])
    BY <1>6 DEF ReadDelete
  <2>2. ~ overlap.rights => \E j \in Managers : j # i
    BY <1>0, <2>1 DEF ManagerRemains, Managers
  <2> QED
    BY <1>2, <2>1, <2>2
<1> QED
  BY <1>1, <1>3, <1>4, <1>5, <1>6

(***************************************************************************)
(* What they write.                                                        *)
(***************************************************************************)
(* The manager that a request saw besides the one it takes rights from.    *)
LEMMA OneIsLeft ==
    ASSUME RosterInv, NEW m \in RosterRequests, NEW name, Writes(m, name), TakesRights(request[m]),
           ~ overlap.rights => \E j \in Managers : j # request[m].id,
           \A j \in DOMAIN worker : j # request[m].id => j \in DOMAIN worker' /\ worker'[j] = worker[j]
    PROVE  RightsFollow
<1>1. ~ overlap.rights => ManagerRemains'
  BY DEF ManagerRemains, Managers
<1>2. ~ overlap.rights => \A k \in InFlight' : ~ TakesRights(request[k])
  BY AnswersOne
<1> QED
  BY <1>1, <1>2 DEF RightsFollow

LEMMA NoneIsLost ==
    ASSUME RosterInv, \A j \in Managers : j \in DOMAIN worker' /\ worker'[j].active /\ worker'[j].manager
    PROVE  RightsFollow
<1>1. Managers \subseteq Managers'
  BY DEF Managers
<1> QED
  BY <1>1 DEF RosterInv, RightsKept, RightsFollow, ManagerRemains

LEMMA OneRowChanges ==
    ASSUME RosterInv, NEW i, NEW row, worker' = Updated(i, row),
           i \in DOMAIN worker => row \in RosterRows
    PROVE  /\ DOMAIN worker' = DOMAIN worker /\ worker' \in [DOMAIN worker' -> RosterRows]
           /\ i \in DOMAIN worker => worker'[i] = row
           /\ \A j \in DOMAIN worker : j # i => worker'[j] = worker[j]
BY DEF RosterInv, RosterTyped, Updated

(* A write that leaves the names alone.                                    *)
LEMMA NameStays ==
    ASSUME RosterInv, NEW m \in RosterRequests, NEW name, Writes(m, name), UNCHANGED records,
           DOMAIN worker' = DOMAIN worker, worker' \in [DOMAIN worker' -> RosterRows],
           \A j \in DOMAIN worker : worker'[j].name = worker[j].name, RightsFollow
    PROVE  RosterInv'
<1>1. /\ UNCHANGED <<nextId, screen, overlap, records>> /\ InFlight' \subseteq InFlight
      /\ request' \in [RosterRequests -> RosterAsks \cup {NoName}]
      /\ \A k \in InFlight' : request'[k] = request[k]
  BY AnswersOne
<1>2. RosterTyped'
  BY <1>1 DEF RosterInv, RosterTyped
<1>3. OneNameEach'
  BY DEF RosterInv, OneNameEach
<1>4. NamesFollow
  BY <1>1 DEF RosterInv, NamesKept, NamesFollow, RenameCarriesRecords
<1> QED
  BY <1>1, <1>2, <1>3, <1>4, StepKeeps

LEMMA RightsWrites ==
    ASSUME RosterInv, NEW m \in RosterRequests, WriteGrant(m) \/ WriteRevoke(m) \/ WriteReactivate(m)
    PROVE  RosterInv'
<1> DEFINE i == request[m].id
<1>0. \A j \in DOMAIN worker : worker[j] \in RosterRows /\ Row(j) = worker[j]
  BY DEF RosterInv, RosterTyped, Row
<1>1. CASE WriteGrant(m)
  <2> DEFINE row == [Row(i) EXCEPT !.manager = TRUE]
  <2>1. Writes(m, "grant") /\ UNCHANGED records /\ worker' = Updated(i, row)
    BY <1>1 DEF WriteGrant
  <2>2. i \in DOMAIN worker => /\ row \in RosterRows /\ row.name = worker[i].name
                               /\ row.active = worker[i].active /\ row.manager
    BY <1>0 DEF RosterRows
  <2> HIDE DEF i, row
  <2>3. /\ DOMAIN worker' = DOMAIN worker /\ worker' \in [DOMAIN worker' -> RosterRows]
        /\ i \in DOMAIN worker => worker'[i] = row
        /\ \A j \in DOMAIN worker : j # i => worker'[j] = worker[j]
    BY <2>1, <2>2, OneRowChanges
  <2>4. RightsFollow
    BY <2>2, <2>3, NoneIsLost DEF Managers
  <2> QED
    BY <2>1, <2>2, <2>3, <2>4, NameStays
<1>2. ASSUME NEW name, Writes(m, name), NEW row, UNCHANGED records, worker' = Updated(i, row),
             i \in DOMAIN worker => row \in RosterRows /\ row.name = worker[i].name,
             name \in {"revoke", "reactivate"}
      PROVE  RosterInv'
  <2>1. /\ DOMAIN worker' = DOMAIN worker /\ worker' \in [DOMAIN worker' -> RosterRows]
        /\ i \in DOMAIN worker => worker'[i] = row
        /\ \A j \in DOMAIN worker : j # i => worker'[j] = worker[j]
    BY <1>2, OneRowChanges
  <2>2. request[m].op = name /\ m \in InFlight
    BY <1>2 DEF Writes
  <2>3. TakesRights(request[m]) /\ ~ IsRenaming(request[m])
    BY <1>2, <2>2 DEF TakesRights, IsRenaming
  <2>4. ~ overlap.rights => \E j \in Managers : j # i
    BY <2>2, <2>3 DEF RosterInv, RightsKept
  <2>5. RightsFollow
    BY <1>2, <2>1, <2>3, <2>4, OneIsLeft
  <2> QED
    BY <1>2, <2>1, <2>5, NameStays
<1>3. CASE WriteRevoke(m)
  <2> DEFINE row == [Row(i) EXCEPT !.manager = FALSE]
  <2>1. Writes(m, "revoke") /\ UNCHANGED records /\ worker' = Updated(i, row)
    BY <1>3 DEF WriteRevoke
  <2>2. i \in DOMAIN worker => row \in RosterRows /\ row.name = worker[i].name
    BY <1>0 DEF RosterRows
  <2> HIDE DEF i, row
  <2> QED
    BY <1>2, <2>1, <2>2
<1>4. CASE WriteReactivate(m)
  <2> DEFINE row == [Row(i) EXCEPT !.active = TRUE, !.manager = FALSE]
  <2>1. Writes(m, "reactivate") /\ UNCHANGED records /\ worker' = Updated(i, row)
    BY <1>4 DEF WriteReactivate
  <2>2. i \in DOMAIN worker => row \in RosterRows /\ row.name = worker[i].name
    BY <1>0 DEF RosterRows
  <2> HIDE DEF i, row
  <2> QED
    BY <1>2, <2>1, <2>2
<1> QED
  BY <1>1, <1>3, <1>4

LEMMA DeleteWrites == ASSUME RosterInv, NEW m \in RosterRequests, WriteDelete(m) PROVE RosterInv'
<1> DEFINE i == request[m].id
<1>1. /\ Writes(m, "delete") /\ UNCHANGED records /\ m \in InFlight /\ request[m].op = "delete"
      /\ worker' = [j \in DOMAIN worker \ {i} |-> worker[j]]
  BY DEF WriteDelete, Writes
<1>2. /\ UNCHANGED <<nextId, screen, overlap, records>> /\ InFlight' \subseteq InFlight
      /\ request' \in [RosterRequests -> RosterAsks \cup {NoName}]
      /\ \A k \in InFlight' : request'[k] = request[k]
  BY <1>1, AnswersOne
<1>3. TakesRights(request[m]) /\ ChangesName(request[m]) /\ ~ IsRenaming(request[m])
  BY <1>1 DEF TakesRights, ChangesName, IsRenaming
<1>4. ~ overlap.names => \A k \in InFlight' : ~ ChangesName(request[k])
  BY <1>1, <1>3, AnswersOne
<1>5. ~ overlap.rights => \E j \in Managers : j # i
  BY <1>1, <1>3 DEF RosterInv, RightsKept
<1> HIDE DEF i
<1>6. /\ DOMAIN worker' = DOMAIN worker \ {i}
      /\ \A j \in DOMAIN worker' : worker'[j] = worker[j]
      /\ worker' = [j \in DOMAIN worker' |-> worker'[j]]
  BY <1>1
<1>7. RightsFollow
  BY <1>1, <1>3, <1>5, <1>6, OneIsLeft DEF i
<1>8. RosterTyped'
  BY <1>2, <1>6 DEF RosterInv, RosterTyped
<1>9. OneNameEach'
  BY <1>6 DEF RosterInv, OneNameEach
<1>10. NamesFollow
  BY <1>2, <1>4, <1>6 DEF RosterInv, NamesKept, NamesFollow, RenameCarriesRecords
<1> QED
  BY <1>2, <1>7, <1>8, <1>9, <1>10, StepKeeps

(* A new name goes to the row and to all the records of the old one.       *)
LEMMA UpdateWrites == ASSUME RosterInv, NEW m \in RosterRequests, WriteUpdate(m) PROVE RosterInv'
<1> DEFINE q       == request[m]
           i       == q.id
           renames == q.new # q.old
           refused == renames /\ (NameTaken(i, q.new) \/ (q.active = FALSE /\ LastManager(i)))
           row     == [Row(i) EXCEPT !.name   = IF renames THEN q.new ELSE @,
                                     !.active = IF q.active = NoName THEN @ ELSE q.active]
<1>0. /\ Writes(m, "update") /\ q.op = "update" /\ m \in InFlight
      /\ \A j \in DOMAIN worker : worker[j] \in RosterRows /\ Row(j) = worker[j]
      /\ worker \in [DOMAIN worker -> RosterRows]
  BY DEF WriteUpdate, Writes, RosterInv, RosterTyped, Row
<1>1. /\ q \in RosterAsks /\ UNCHANGED <<nextId, screen, overlap>> /\ InFlight' \subseteq InFlight
      /\ request' \in [RosterRequests -> RosterAsks \cup {NoName}]
      /\ \A k \in InFlight' : request'[k] = request[k]
      /\ ~ overlap.names /\ ChangesName(q) => \A k \in InFlight' : ~ ChangesName(request[k])
  BY <1>0, AnswersOne
<1>2. q.old \in WorkerNames /\ q.new \in WorkerNames /\ q.active \in {TRUE, FALSE, NoName}
  BY <1>0, <1>1 DEF RosterAsks
<1>3. CASE refused
  <2>1. UNCHANGED <<worker, records>>
    BY <1>3 DEF WriteUpdate
  <2>2. RightsFollow
    BY <2>1, NoneIsLost DEF Managers
  <2> QED
    BY <1>0, <2>1, <2>2, NameStays
<1>4. CASE ~ refused
  <2>1. worker' = Updated(i, row) /\ records' = IF renames THEN RecordsRenamed(q.old, q.new) ELSE records
    BY <1>4 DEF WriteUpdate
  <2>2. i \in DOMAIN worker =>
          /\ row \in RosterRows /\ row.name = (IF renames THEN q.new ELSE worker[i].name)
          /\ row.manager = worker[i].manager
          /\ q.active # FALSE => (worker[i].active => row.active)
    BY <1>0, <1>2 DEF RosterRows
  <2>3. renames => ~ NameTaken(i, q.new) /\ (q.active = FALSE => ~ LastManager(i))
    BY <1>4
  <2>4. /\ renames <=> IsRenaming(q)
        /\ renames <=> ChangesName(q)
        /\ TakesRights(q) <=> q.active = FALSE
    BY <1>0 DEF IsRenaming, ChangesName, TakesRights
  <2> HIDE DEF row, refused, i
  <2>a. worker' = Updated(i, row) /\ (i \in DOMAIN worker => row \in RosterRows)
    BY <2>1, <2>2
  <2>5. /\ DOMAIN worker' = DOMAIN worker /\ worker' \in [DOMAIN worker' -> RosterRows]
        /\ i \in DOMAIN worker => worker'[i] = row
        /\ \A j \in DOMAIN worker : j # i => worker'[j] = worker[j]
    BY <2>a, OneRowChanges
  <2>6. RightsFollow
    <3>1. CASE q.active # FALSE
      BY <2>2, <2>5, <3>1, NoneIsLost DEF Managers
    <3>2. CASE q.active = FALSE
      <4>1. ~ overlap.rights => ManagerRemains /\ RosterTyped
        BY DEF RosterInv, RightsKept
      <4>2. ~ overlap.rights => \E j \in Managers : j # i
        <5>1. CASE renames
          BY <2>3, <3>2, <4>1, <5>1, OtherManager
        <5>2. CASE ~ renames
          BY <1>0, <2>4, <3>2, <5>2 DEF RosterInv, RightsKept, i
        <5> QED
          BY <5>1, <5>2
      <4> QED
        BY <1>0, <2>4, <2>5, <3>2, <4>2, OneIsLeft DEF i
    <3> QED
      BY <3>1, <3>2
  <2>7. CASE ~ renames
    <3>1. \A j \in DOMAIN worker : worker'[j].name = worker[j].name
      BY <2>2, <2>5, <2>7
    <3> QED
      BY <1>0, <2>1, <2>5, <2>6, <2>7, <3>1, NameStays
  <2>8. CASE renames
    <3> DEFINE Rows == [name : WorkerNames, by : 1..nextId, fresh : BOOLEAN]
    <3>1. records' = RecordsRenamed(q.old, q.new) /\ records \in Seq(Rows)
      BY <2>1, <2>8 DEF RosterInv, RosterTyped
    <3>2. \A b \in Rows : /\ [b EXCEPT !.name = q.new] \in Rows
                          /\ [b EXCEPT !.name = q.new].name = q.new
                          /\ [b EXCEPT !.name = q.new].by = b.by
                          /\ [b EXCEPT !.name = q.new].fresh = b.fresh
      BY <1>2
    <3> HIDE DEF Rows
    <3>3. /\ records' = [r \in 1..Len(records) |->
                           IF records[r].name = q.old THEN [records[r] EXCEPT !.name = q.new] ELSE records[r]]
          /\ Len(records) \in Nat /\ \A r \in 1..Len(records) : records[r] \in Rows
      BY <3>1 DEF RecordsRenamed
    <3>4. \A r \in 1..Len(records) :
            /\ records'[r] \in Rows
            /\ records'[r].name = (IF records[r].name = q.old THEN q.new ELSE records[r].name)
            /\ records'[r].by = records[r].by /\ records'[r].fresh = records[r].fresh
      BY <3>2, <3>3
    <3>5. records' \in Seq(Rows) /\ Len(records') = Len(records)
      BY <3>3, <3>4
    <3>6. RosterTyped'
      BY <1>1, <2>5, <3>5 DEF RosterInv, RosterTyped, Rows
    <3>7. OneNameEach'
      <4>1. \A j \in DOMAIN worker : i \in DOMAIN worker /\ j # i => worker[j].name # q.new
        BY <2>3, <2>8 DEF NameTaken
      <4>2. i \in DOMAIN worker => worker'[i].name = q.new
        BY <2>2, <2>5, <2>8
      <4>3. \A j, k \in DOMAIN worker : worker[j].name = worker[k].name => j = k
        BY DEF RosterInv, OneNameEach
      <4> QED
        BY <2>5, <4>1, <4>2, <4>3 DEF OneNameEach
    <3>8. NamesFollow
      <4> SUFFICES ASSUME ~ overlap.names
                   PROVE  RenameCarriesRecords' /\ \A k \in InFlight' : ~ ChangesName(request[k])
        BY DEF NamesFollow
      <4>1. /\ RenameCarriesRecords /\ i \in DOMAIN worker /\ worker[i].name = q.old
            /\ \A j, k \in DOMAIN worker : worker[j].name = worker[k].name => j = k
        BY <1>0, <2>4, <2>8 DEF RosterInv, NamesKept, OneNameEach, i
      <4>2. worker'[i].name = q.new
        BY <2>2, <2>5, <2>8, <4>1
      <4> SUFFICES ASSUME NEW r \in 1..Len(records), records[r].fresh, records[r].by \in DOMAIN worker
                   PROVE  records'[r].name = worker'[records[r].by].name
        BY <1>1, <2>4, <2>5, <2>8, <3>4, <3>5 DEF RenameCarriesRecords
      <4>3. records[r].name = worker[records[r].by].name
        BY <4>1 DEF RenameCarriesRecords
      <4>4. CASE records[r].by = i
        BY <3>4, <4>1, <4>2, <4>3, <4>4
      <4>5. CASE records[r].by # i
        BY <2>5, <3>4, <4>1, <4>3, <4>5
      <4> QED
        BY <4>4, <4>5
    <3> QED
      BY <1>1, <2>6, <3>6, <3>7, <3>8, StepKeeps
  <2> QED
    BY <2>7, <2>8
<1> QED
  BY <1>3, <1>4

(* A name is one worker's; a manager remains as long as no two requests    *)
(* that take away rights overlapped; and what a worker saved is found      *)
(* under the worker's present name as long as no two that change names did *)
(* (worker_routes.py, worker_service.py).                                  *)
THEOREM RosterStaysKept == RosterSpec => []RosterIsKept
<1>1. RosterInit => RosterInv
  BY RosterStarts
<1>2. RosterInv /\ [RosterNext]_rosterVars => RosterInv'
  <2> SUFFICES ASSUME RosterInv, [RosterNext]_rosterVars PROVE RosterInv'
    OBVIOUS
  <2>1. CASE UNCHANGED rosterVars
    BY <2>1 DEF rosterVars, RosterInv, RosterTyped, OneNameEach, RightsKept, NamesKept, ManagerRemains,
                Managers, InFlight, RenameCarriesRecords
  <2>2. CASE RosterNext
    BY <2>2, ScreenSteps, RosterReads, RightsWrites, DeleteWrites, UpdateWrites DEF RosterNext
  <2> QED
    BY <2>1, <2>2
<1>3. RosterInv => RosterIsKept
  BY DEF RosterInv, RosterIsKept, RightsKept, NamesKept
<1> QED
  BY <1>1, <1>2, <1>3, PTL DEF RosterSpec
=============================================================================
