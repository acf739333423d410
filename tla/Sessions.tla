------------------------------ MODULE Sessions ------------------------------
(***************************************************************************)
(* Who a screen is signed in as (auth.py, auth_routes.py, blend_session.py,*)
(* blend_session_routes.py).  One cookie of a screen holds the session of  *)
(* a manager and that of a worker.  A request carries the cookie as it is  *)
(* when it is sent; the answer brings the whole cookie back if the request *)
(* changed it; answers come in any order, and the last one counts.         *)
(*                                                                         *)
(* A request is handled in the step that sends it: only its answer takes   *)
(* time.  Time is counted in steps of five minutes, the interval at which  *)
(* a heartbeat renews the session of a worker.                             *)
(***************************************************************************)
EXTENDS Naturals, FiniteSets

CONSTANTS
    Accounts,       \* of the workers who may be managers
    Workers,        \* workers who sign in at a screen
    Screens,
    Idle,           \* MANAGER_IDLE_TIMEOUT_SECONDS
    WorkerIdle,     \* IDLE_TIMEOUT_SECONDS of a worker
    MaxTime,        \* bound: steps
    MaxTokens,      \* bound: session tokens
    MaxSent         \* bound: answers under way to a screen

ASSUME SessionsAssumption ==
    /\ Idle \in Nat /\ WorkerIdle \in Nat
    /\ MaxTime \in Nat /\ MaxTokens \in Nat
    /\ "-" \notin Accounts \cup Workers /\ "unchanged" \notin Workers

VARIABLES
    managers,   \* per manager: its session_token, 0 for NULL, and whether it is one
    cookies,    \* per screen
    answers,    \* under way: [screen, cookie]
    now,
    tokens,     \* tokens handed out
    history     \* tokens that were ended; when each was used last; per screen
                \* the last worker; screens whose requests never overlapped;
                \* whether a request was served with an ended or an idle token

sessionVars == <<managers, cookies, answers, now, tokens, history>>

Nobody == "-"
Empty  == [mgr |-> Nobody, token |-> 0, seen |-> 0, worker |-> Nobody, active |-> 0]
Same   == [Empty EXCEPT !.worker = "unchanged"]     \* an answer without a cookie

SessionsInit ==
    /\ managers = [m \in Accounts |-> [token |-> 0, may |-> TRUE]]
    /\ cookies = [s \in Screens |-> Empty] /\ answers = {} /\ now = 0 /\ tokens = 0
    /\ history = [ended |-> {}, used |-> [t \in 1..MaxTokens |-> 0],
                  worker |-> [s \in Screens |-> Nobody], plain |-> Screens,
                  served |-> [ended |-> FALSE, idle |-> FALSE]]

Of(s) == {a \in answers : a.screen = s}

(* The screen sends a request, and the server answers it.  h is the        *)
(* history after the request.                                              *)
Answer(s, cookie, h) ==
    /\ Cardinality(Of(s)) < MaxSent
    /\ answers' = answers \cup {[screen |-> s, cookie |-> cookie]}
    /\ history' = [h EXCEPT !.plain = IF Of(s) = {} THEN @ ELSE @ \ {s}]
    /\ UNCHANGED <<cookies, now>>

(* The answer arrives: the cookie is set as a whole.                       *)
Receive(a) ==
    /\ answers' = answers \ {a}
    /\ cookies' = [cookies EXCEPT ![a.screen] = IF a.cookie = Same THEN @ ELSE a.cookie]
    /\ UNCHANGED <<managers, now, tokens, history>>

Lose(a) ==
    /\ answers' = answers \ {a}
    /\ history' = [history EXCEPT !.plain = @ \ {a.screen}]
    /\ UNCHANGED <<managers, cookies, now, tokens>>

(***************************************************************************)
(* The session of a manager                                                *)
(***************************************************************************)
(* faulty variant: session.clear()                                         *)
ClearedAll(c) == Empty

(* _clear_auth_session(): the keys of the manager only.                    *)
Cleared(c) == [c EXCEPT !.mgr = Nobody, !.token = 0, !.seen = 0]

(* get_current_user() accepts a cookie that is not idle and has the token  *)
(* of an active manager.                                                   *)
Alive(c) ==
    /\ c.mgr # Nobody /\ now - c.seen <= Idle
    /\ managers[c.mgr] = [token |-> c.token, may |-> TRUE]

(* faulty variant: any request counts as a use                             *)
TouchAlways(c, required) == [c EXCEPT !.seen = now]

(* Only a request that needs the right to do something keeps it alive.     *)
Touch(c, required) == IF required THEN [c EXCEPT !.seen = now] ELSE c

CurrentUser(c, required) ==
    CASE c.mgr = Nobody -> Same
      [] c.mgr # Nobody /\ ~ Alive(c) -> Cleared(c)
      [] OTHER -> IF Touch(c, required) = c /\ ~ required THEN Same ELSE Touch(c, required)

Ended(t) == [history EXCEPT !.ended = @ \cup ({t} \ {0})]

(* management-login: a new token, which ends every other session.          *)
Login(s, m) ==
    /\ managers[m].may /\ tokens < MaxTokens /\ tokens' = tokens + 1
    /\ managers' = [managers EXCEPT ![m].token = tokens + 1]
    /\ Answer(s, [cookies[s] EXCEPT !.mgr = m, !.token = tokens + 1, !.seen = now],
              [Ended(managers[m].token) EXCEPT !.used[tokens + 1] = now])

LoginRefused(s, m) ==
    /\ ~ managers[m].may /\ Answer(s, Same, history)
    /\ UNCHANGED <<managers, tokens>>

(* A request with the rights of a manager is carried out.                  *)
Served(c) ==
    [history EXCEPT !.served.ended = @ \/ c.token \in history.ended,
                    !.served.idle = @ \/ now - history.used[c.token] > Idle,
                    !.used[c.token] = now]

Use(s) ==
    LET c == cookies[s]
    IN  /\ Answer(s, CurrentUser(c, TRUE), IF Alive(c) THEN Served(c) ELSE history)
        /\ UNCHANGED <<managers, tokens>>

(* A request that only looks whether a manager is signed in.               *)
Peek(s) ==
    /\ Answer(s, CurrentUser(cookies[s], FALSE), history)
    /\ UNCHANGED <<managers, tokens>>

(* change-password: the session goes on under a new token.                 *)
ChangePassword(s) ==
    LET c == cookies[s]
        h == Served(c)
    IN  /\ Alive(c) /\ tokens < MaxTokens /\ tokens' = tokens + 1
        /\ managers' = [managers EXCEPT ![c.mgr].token = tokens + 1]
        /\ Answer(s, [c EXCEPT !.token = tokens + 1, !.seen = now],
                  [h EXCEPT !.ended = @ \cup {c.token}, !.used[tokens + 1] = now])

(* faulty variant: only the cookie is cleared                              *)
LogoutOfCookie(s) ==
    LET c == cookies[s]
    IN  /\ Answer(s, Cleared(c), IF Alive(c) THEN Ended(c.token) ELSE history)
        /\ UNCHANGED <<managers, tokens>>

(* logout: a session that is not alive any more ends no other one.         *)
Logout(s) ==
    LET c == cookies[s]
    IN  /\ Answer(s, Cleared(c), IF Alive(c) THEN Ended(c.token) ELSE history)
        /\ managers' = IF Alive(c) THEN [managers EXCEPT ![c.mgr].token = 0] ELSE managers
        /\ UNCHANGED tokens

(* Another manager resets the password or takes the right away.            *)
EndSessions(m, may) ==
    /\ managers[m].may /\ managers' = [managers EXCEPT ![m] = [token |-> 0, may |-> may]]
    /\ history' = Ended(managers[m].token)
    /\ UNCHANGED <<cookies, answers, now, tokens>>

Grant(m) ==
    /\ ~ managers[m].may /\ managers' = [managers EXCEPT ![m].may = TRUE]
    /\ UNCHANGED <<cookies, answers, now, tokens, history>>

(***************************************************************************)
(* The session of a worker                                                 *)
(***************************************************************************)
Works(s, w) ==
    /\ Answer(s, [cookies[s] EXCEPT !.worker = w, !.active = IF w = Nobody THEN 0 ELSE now],
              [history EXCEPT !.worker[s] = w])
    /\ UNCHANGED <<managers, tokens>>

WorkerLogin(s, w) == Works(s, w)
WorkerLogout(s)   == Works(s, Nobody)

(* /session/me, every two minutes: within five minutes it leaves the       *)
(* cookie alone.                                                           *)
Heartbeat(s) ==
    LET c == cookies[s]
    IN  IF c.worker # Nobody /\ now - c.active > WorkerIdle
        THEN Works(s, Nobody)
        ELSE /\ Answer(s, IF c.worker = Nobody \/ now = c.active THEN Same
                          ELSE [c EXCEPT !.active = now], history)
             /\ UNCHANGED <<managers, tokens>>

Later ==
    /\ now < MaxTime /\ now' = now + 1
    /\ UNCHANGED <<managers, cookies, answers, tokens, history>>

SessionsNext ==
    \/ \E s \in Screens :
         \/ \E m \in Accounts : Login(s, m) \/ LoginRefused(s, m)
         \/ Use(s) \/ Peek(s) \/ ChangePassword(s) \/ Logout(s)
         \/ \E w \in Workers : WorkerLogin(s, w)
         \/ WorkerLogout(s) \/ Heartbeat(s)
    \/ \E a \in answers : Receive(a) \/ Lose(a)
    \/ \E m \in Accounts : EndSessions(m, TRUE) \/ EndSessions(m, FALSE) \/ Grant(m)
    \/ Later
SessionsSpec == SessionsInit /\ [][SessionsNext]_sessionVars

(***************************************************************************)
(* Properties                                                              *)
(***************************************************************************)
(* Whatever cookie a late answer brings back: nothing is done with the     *)
(* rights of a session that was ended by a logout, another login, a new    *)
(* password or a manager (auth.py, the token of login_manager_worker).     *)
NoEndedSession == ~ history.served.ended

(* Nor with one that was not used for longer than the limit, although the  *)
(* screen asks for other things all the time (auth.py 185-188).            *)
NoIdleSession == ~ history.served.idle

(* What a manager does at a screen (log in, log out, be timed out) leaves  *)
(* the worker there signed in (auth.py 98-100), and the other way round;   *)
(* requests that overlap, or whose answer is lost, may undo each other.    *)
WorkerStays ==
    \A s \in history.plain :
        Of(s) = {} => cookies[s].worker = history.worker[s]

(* An ended or idle session has no rights, and one kind of session does    *)
(* not end the other (auth.py, blend_session.py).                          *)
SessionsEnd == NoEndedSession /\ NoIdleSession /\ WorkerStays
=============================================================================
