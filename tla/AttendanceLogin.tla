-------------------------- MODULE AttendanceLogin --------------------------
(***************************************************************************)
(* The sign-in of an employee to the attendance page (attendance_auth.py,  *)
(* attendance_routes.py): temporary and own passwords, the count of wrong  *)
(* ones and the lock, sessions on several pages.                           *)
(*                                                                         *)
(* One request runs at a time.  Time is counted in steps of five minutes.  *)
(***************************************************************************)
EXTENDS Naturals, Sequences

CONSTANTS
    Pages,          \* the pages it is open on
    MaxFailed,      \* MAX_FAILED_ATTEMPTS
    Window,         \* FAILED_WINDOW_SECONDS
    Lockout,        \* LOCKOUT_SECONDS
    SessionIdle,    \* IDLE_TIMEOUT_SECONDS
    MaxSteps,       \* bound: steps
    MaxIssued       \* bound: temporary passwords

Never == 999                    \* NULL

ASSUME LoginAssumption ==
    /\ MaxFailed \in Nat \ {0} /\ Window \in Nat /\ Lockout \in Nat
    /\ MaxSteps \in Nat /\ MaxSteps < Never

VARIABLES
    account,    \* NoAccount or [reset, failed, locked, last]
    sessions,   \* per page: Out or [reset, seen]
    time,
    issued,     \* temporary passwords handed out
    loginHistory
                \* times of wrong passwords since the count was last cleared,
                \* and of those that led to the last lock; whether every own
                \* password was replaced by someone who gave it, or a manager

loginVars == <<account, sessions, time, issued, loginHistory>>

NoAccount == [reset |-> FALSE, failed |-> Never, locked |-> 0, last |-> Never]
Out       == [reset |-> FALSE, seen |-> Never]

LoginInit ==
    /\ account = NoAccount /\ sessions = [s \in Pages |-> Out]
    /\ time = 0 /\ issued = 0
    /\ loginHistory = [wrong |-> <<>>, cause |-> <<>>, own |-> TRUE]

(***************************************************************************)
(* Signing in                                                              *)
(***************************************************************************)
(* faulty variant: failures count for ever                                 *)
AttemptsForever == account.failed + 1

(* _attempts_within_window(): one after a long time starts anew.           *)
Attempts ==
    IF account.last = Never \/ time - account.last > Window THEN 1 ELSE account.failed + 1

(* An unknown account and a locked one are refused without a write.        *)
Open == account # NoAccount /\ time >= account.locked

LoginFails ==
    LET wrong == Append(loginHistory.wrong, time)
    IN  /\ Open
        /\ IF Attempts >= MaxFailed
           THEN /\ account' = [account EXCEPT !.failed = 0, !.locked = time + Lockout, !.last = Never]
                /\ loginHistory' = [loginHistory EXCEPT !.wrong = <<>>, !.cause = wrong]
           ELSE /\ account' = [account EXCEPT !.failed = Attempts, !.locked = 0, !.last = time]
                /\ loginHistory' = [loginHistory EXCEPT !.wrong = wrong]
        /\ UNCHANGED <<sessions, time, issued>>

LoginSucceeds(s) ==
    /\ Open
    /\ account' = [account EXCEPT !.failed = 0, !.locked = 0, !.last = Never]
    /\ loginHistory' = [loginHistory EXCEPT !.wrong = <<>>]
    /\ sessions' = [sessions EXCEPT ![s] = [reset |-> account.reset, seen |-> time]]
    /\ UNCHANGED <<time, issued>>

SignOut(s) ==
    /\ sessions' = [sessions EXCEPT ![s] = Out]
    /\ UNCHANGED <<account, time, issued, loginHistory>>

(* current_attendance_emp_id(): signed in, and not idle for too long       *)
SignedIn(s) == sessions[s] # Out /\ time - sessions[s].seen <= SessionIdle

(* require_view_context(): a look at the page keeps the session alive.     *)
View(s) ==
    /\ sessions[s] # Out
    /\ sessions' = [sessions EXCEPT ![s] = IF SignedIn(s) THEN [@ EXCEPT !.seen = time] ELSE Out]
    /\ UNCHANGED <<account, time, issued, loginHistory>>

(***************************************************************************)
(* Passwords                                                               *)
(***************************************************************************)
(* faulty variant: the flag of the session decides                         *)
MayChangeOfSession(s, given) == sessions[s].reset \/ given

(* With the flag of the session and without the current password it is the *)
(* flag of the account that counts, which may have changed since.          *)
MayChange(s, given) == (sessions[s].reset /\ account.reset) \/ given

(* _set_password() leaves last_failed_at as it is.                         *)
SetPassword(reset) ==
    account' = [account EXCEPT !.reset = reset, !.locked = 0, !.failed = 0]

(* given: the request has the password that is in force.                   *)
ChangeOwnPassword(s, given) ==
    /\ SignedIn(s) /\ MayChange(s, given)
    /\ SetPassword(FALSE)
    /\ loginHistory' = [loginHistory EXCEPT !.wrong = <<>>, !.own = @ /\ (account.reset \/ given)]
    /\ sessions' = [sessions EXCEPT ![s] = [reset |-> FALSE, seen |-> time]]
    /\ UNCHANGED <<time, issued>>

(* reset_password_to_temporary(), which also makes the account             *)
IssueTemporary ==
    /\ issued < MaxIssued /\ issued' = issued + 1
    /\ SetPassword(TRUE)
    /\ loginHistory' = [loginHistory EXCEPT !.wrong = <<>>]
    /\ UNCHANGED <<sessions, time>>

(* clear_lockout()                                                         *)
Unlock ==
    /\ account # NoAccount
    /\ account' = [account EXCEPT !.failed = 0, !.locked = 0, !.last = Never]
    /\ loginHistory' = [loginHistory EXCEPT !.wrong = <<>>]
    /\ UNCHANGED <<sessions, time, issued>>

StepPasses ==
    /\ time < MaxSteps /\ time' = time + 1
    /\ UNCHANGED <<account, sessions, issued, loginHistory>>

LoginNext ==
    \/ \E s \in Pages :
         \/ LoginSucceeds(s) \/ SignOut(s) \/ View(s)
         \/ \E given \in BOOLEAN : ChangeOwnPassword(s, given)
    \/ LoginFails \/ IssueTemporary \/ Unlock \/ StepPasses
LoginSpec == LoginInit /\ [][LoginNext]_loginVars

(***************************************************************************)
(* Properties                                                              *)
(***************************************************************************)
(* The latest failures, each within the window after the one before.       *)
Close(times) ==
    CHOOSE n \in 0..Len(times) :
        /\ \A i \in (Len(times) - n + 1)..(Len(times) - 1) : times[i + 1] - times[i] <= Window
        /\ n = Len(times) \/ (n > 0 /\ times[Len(times) - n + 1] - times[Len(times) - n] > Window)

(* The account is locked by MaxFailed failures close to each other, of     *)
(* which a success, a new password or a manager spares the earlier ones,   *)
(* and by no fewer (attendance_auth.py 8-12).                              *)
LockedByFailures ==
    /\ Close(loginHistory.wrong) < MaxFailed
    /\ account.locked > time => Close(loginHistory.cause) >= MaxFailed

(* A password the employee chose is only replaced by a request that gives  *)
(* it, or by a manager, whatever a screen that was signed in with a        *)
(* temporary one still remembers (set_password_after_reset, 320-333).      *)
OwnPasswordStays == loginHistory.own

(* A person is locked out for recent failures only, and the password a     *)
(* person chose stays until that person or a reset changes it              *)
(* (attendance_auth.py).                                                   *)
LoginIsFair == LockedByFailures /\ OwnPasswordStays
=============================================================================
