--------------------------- MODULE AdminSessions ---------------------------
(***************************************************************************)
(* The administrator's account, the sessions opened on it and the audited  *)
(* operations done with them, as the request threads of one or more        *)
(* processes interleave over the shared database.                          *)
(*                                                                         *)
(* There is one account and a call is made once. A call reads the clock    *)
(* when it arrives and keeps that value: the lock, the session and its     *)
(* expiry are all judged by it, however long the call takes. A SELECT, a   *)
(* statement or a transaction of the repository is one step. The session a *)
(* login opens is named by the call that opened it.                        *)
(*                                                                         *)
(* Nothing here is fair: a call whose database call raises, or whose       *)
(* process ends, is one that takes no further step and leaves what it has  *)
(* committed. A call refused for its origin or by the throttle is one that *)
(* is not made.                                                            *)
(***************************************************************************)
EXTENDS Naturals, Sequences, FiniteSets

CONSTANTS
    Calls,
    Threshold,   \* ADMIN_AUTH_LOGIN_MAX_FAILURES
    Lockout,     \* ADMIN_AUTH_LOGIN_LOCKOUT_SECONDS
    Ttl,         \* ADMIN_AUTH_SESSION_TTL_SECONDS
    MaxTime      \* bound on the clock

ASSUME AdminAssumption ==
    /\ Threshold \in Nat \ {0}
    /\ Lockout \in Nat \ {0}
    /\ Ttl \in Nat \ {0}
    /\ MaxTime \in Nat

VARIABLES
    now,          \* the clock
    account,      \* the administrators row
    sessions,     \* the administrator_sessions rows, by the call that opened them
    maintenance,  \* operations_runtime_state.maintenance_enabled
    audit,        \* the operations_audit_logs row of each call
    calls,        \* what each call is doing
    granted,      \* history: the logins whose client was given its token
    strikes,      \* history: when the wrong guesses recorded since the last session arrived
    effects       \* history: [call, stale] for each write of the maintenance state

adminVars == <<now, account, sessions, maintenance, audit, calls, granted, strikes, effects>>

NoSession == [expires |-> 0, revoked |-> TRUE]    \* no row
NoLock == 0                                       \* locked_until IS NULL
Ready == [pc |-> "ready"]
Done == [pc |-> "done"]
At(c, pc) == calls[c].pc = pc
Becomes(c, call) == calls' = [calls EXCEPT ![c] = call]
Goto(c, pc) == calls' = [calls EXCEPT ![c].pc = pc]
Locked(time) == account.lockedUntil > time
Authorizes(c, time) == ~sessions[c].revoked /\ sessions[c].expires > time

Absent == [status |-> "absent"]
FreshAccount == [status |-> "active", hash |-> "old", failures |-> 0, lockedUntil |-> NoLock]

Init ==
    /\ now = 0
    /\ account = Absent
    /\ sessions = [c \in Calls |-> NoSession]
    /\ maintenance = FALSE
    /\ audit = [c \in Calls |-> "none"]
    /\ calls = [c \in Calls |-> Ready]
    /\ granted = {}
    /\ strikes = <<>>
    /\ effects = {}

\* A process starts: INSERT ... ON CONFLICT DO NOTHING. An account that exists
\* keeps its password, its status and its lock.
Bootstrap ==
    /\ account = Absent
    /\ account' = FreshAccount
    /\ UNCHANGED <<now, sessions, maintenance, audit, calls, granted, strikes, effects>>

\* An operator disables the account with SQL; no endpoint does.
Disable ==
    /\ account.status = "active"
    /\ account' = [account EXCEPT !.status = "disabled"]
    /\ UNCHANGED <<now, sessions, maintenance, audit, calls, granted, strikes, effects>>

Tick ==
    /\ now < MaxTime
    /\ now' = now + 1
    /\ UNCHANGED <<account, sessions, maintenance, audit, calls, granted, strikes, effects>>

-----------------------------------------------------------------------------
(* POST /admin/auth/login *)

Login(c, guess) ==
    /\ At(c, "ready")
    /\ Becomes(c, [pc |-> "lookUp", at |-> now, guess |-> guess])
    /\ UNCHANGED <<now, account, sessions, maintenance, audit, granted, strikes, effects>>

\* The password is judged against the row as it is read here. An unknown,
\* disabled or locked account costs a dummy verification and a 401.
LookUp(c) ==
    /\ At(c, "lookUp")
    /\ IF account.status # "active" \/ Locked(calls[c].at)
       THEN Becomes(c, Done)
       ELSE Becomes(c, [pc |-> IF calls[c].guess = "right" THEN "complete" ELSE "fail",
                        at |-> calls[c].at, guess |-> calls[c].guess,
                        seen |-> [hash |-> account.hash, failures |-> account.failures]])
    /\ UNCHANGED <<now, account, sessions, maintenance, audit, granted, strikes, effects>>

FailuresAfterSeen(c) == calls[c].seen.failures + 1    \* the count read at look-up

\* SELECT ... FOR UPDATE and UPDATE in one statement: the count is the row's.
FailuresAfter(c) ==
    IF account.lockedUntil # NoLock /\ account.lockedUntil <= calls[c].at
    THEN 1
    ELSE account.failures + 1

RecordFailure(c) ==
    /\ At(c, "fail")
    /\ LET count == FailuresAfter(c)
           until == IF count >= Threshold THEN calls[c].at + Lockout ELSE NoLock
       IN account' = [account EXCEPT !.failures = count, !.lockedUntil = until]
    /\ strikes' = Append(strikes, calls[c].at)
    /\ Becomes(c, Done)
    /\ UNCHANGED <<now, sessions, maintenance, audit, granted, effects>>

\* What the row locked FOR UPDATE must still be for the login to go through.
Unchanged(c) ==
    /\ account.hash = calls[c].seen.hash
    /\ account.status = "active"
    /\ ~Locked(calls[c].at)

\* The old hash may have outdated parameters (needs_rehash).
CompleteLogin(c) ==
    /\ At(c, "complete")
    /\ IF Unchanged(c)
       THEN /\ \E hash \in {account.hash, "new"} :
                  account' = [account EXCEPT !.hash = hash, !.failures = 0, !.lockedUntil = NoLock]
            /\ sessions' = [sessions EXCEPT ![c] = [expires |-> calls[c].at + Ttl,
                                                    revoked |-> FALSE]]
            /\ strikes' = <<>>
            /\ Goto(c, "cleanup")
       ELSE Becomes(c, Done) /\ UNCHANGED <<account, sessions, strikes>>
    /\ UNCHANGED <<now, maintenance, audit, granted, effects>>

\* DELETE of the expired and revoked rows; then the token is answered.
CleanupSessions(c) ==
    /\ At(c, "cleanup")
    /\ sessions' = [x \in Calls |-> IF Authorizes(x, calls[c].at) THEN sessions[x] ELSE NoSession]
    /\ granted' = granted \union {c}
    /\ Becomes(c, Done)
    /\ UNCHANGED <<now, account, maintenance, audit, strikes, effects>>

-----------------------------------------------------------------------------
(* POST /admin/auth/logout *)

\* The token is checked by nothing but its row: COALESCE keeps an earlier end.
Logout(c, token) ==
    /\ At(c, "ready")
    /\ sessions' = [sessions EXCEPT ![token].revoked = TRUE]
    /\ Becomes(c, Done)
    /\ UNCHANGED <<now, account, maintenance, audit, granted, strikes, effects>>

-----------------------------------------------------------------------------
(* PUT /admin/operations/maintenance, with the session of an earlier login.    *)
(* "stale" records whether the session was over already as the call arrived,   *)
(* "held" the maintenance states there have been since its audit row.          *)

Operate(c, token, to) ==
    /\ At(c, "ready")
    /\ Becomes(c, [pc |-> "authenticate", at |-> now, token |-> token, to |-> to, held |-> {},
                   stale |-> account.status # "active" \/ ~Authorizes(token, now)])
    /\ UNCHANGED <<now, account, sessions, maintenance, audit, granted, strikes, effects>>

MayOperateUnexpired(c) == account.status = "active" /\ sessions[calls[c].token].expires > calls[c].at
MayOperate(c) == account.status = "active" /\ Authorizes(calls[c].token, calls[c].at)

Authenticate(c) ==
    /\ At(c, "authenticate")
    /\ IF MayOperate(c) THEN Goto(c, "start") ELSE Becomes(c, Done)
    /\ UNCHANGED <<now, account, sessions, maintenance, audit, granted, strikes, effects>>

StartAudit(c) ==
    /\ At(c, "start")
    /\ audit' = [audit EXCEPT ![c] = "started"]
    /\ calls' = [calls EXCEPT ![c].pc = "read", ![c].held = {maintenance}]
    /\ UNCHANGED <<now, account, sessions, maintenance, granted, strikes, effects>>

\* An update that changes nothing is not written.
ReadMaintenance(c) ==
    /\ At(c, "read")
    /\ Goto(c, IF maintenance = calls[c].to THEN "success" ELSE "set")
    /\ UNCHANGED <<now, account, sessions, maintenance, audit, granted, strikes, effects>>

Holding(state, call) ==
    IF call.pc \in {"read", "set", "success", "failure"}
    THEN [call EXCEPT !.held = @ \union {state}]
    ELSE call

\* The statement may commit and still raise: its answer was lost.
SetMaintenance(c) ==
    /\ At(c, "set")
    /\ maintenance' = calls[c].to
    /\ effects' = effects \union {[call |-> c, stale |-> calls[c].stale]}
    /\ \E next \in {"success", "failure"} :
          calls' = [x \in Calls |-> Holding(calls[c].to,
                       IF x = c THEN [calls[c] EXCEPT !.pc = next] ELSE calls[x])]
    /\ UNCHANGED <<now, account, sessions, audit, granted, strikes>>

\* The action raises without having written.
FailAction(c) ==
    /\ \/ At(c, "read")
       \/ At(c, "set")
    /\ Goto(c, "failure")
    /\ UNCHANGED <<now, account, sessions, maintenance, audit, granted, strikes, effects>>

ResultAlways(c) == "success"    \* finish without looking at the exception
Result(c) == calls[c].pc

FinishAudit(c) ==
    /\ \/ At(c, "success")
       \/ At(c, "failure")
    /\ audit' = [audit EXCEPT ![c] = Result(c)]
    /\ Becomes(c, [pc |-> "finished", to |-> calls[c].to, held |-> calls[c].held])
    /\ UNCHANGED <<now, account, sessions, maintenance, granted, strikes, effects>>

-----------------------------------------------------------------------------
Request(c) ==
    \/ \E guess \in {"right", "wrong"} : Login(c, guess)
    \/ \E token \in granted : Logout(c, token)
    \/ \E token \in granted, to \in BOOLEAN : Operate(c, token, to)

Serve(c) ==
    \/ LookUp(c) \/ RecordFailure(c) \/ CompleteLogin(c) \/ CleanupSessions(c)
    \/ Authenticate(c) \/ StartAudit(c) \/ ReadMaintenance(c) \/ SetMaintenance(c)
    \/ FailAction(c) \/ FinishAudit(c)

Next ==
    \/ Bootstrap \/ Disable \/ Tick
    \/ \E c \in Calls : Request(c) \/ Serve(c)

Spec == Init /\ [][Next]_adminVars

-----------------------------------------------------------------------------
(* Properties *)

\* The last Threshold wrong guesses all arrived less than a lockout ago.
Barred ==
    /\ Len(strikes) >= Threshold
    /\ \A i \in (Len(strikes) - Threshold + 1) .. Len(strikes) : strikes[i] + Lockout > now

\* A session is opened only on an active account, by the right password, and
\* never while the last Threshold guesses were all wrong and none of them is as
\* old as the lockout: concurrent guesses are all counted, and one that was
\* verified before the account was locked or disabled does not get in after.
\* (record_failed_login and complete_login, against each other.)
LoginsGuarded ==
    [][\A c \in Calls :
          (sessions[c] = NoSession /\ sessions'[c] # NoSession /\ ~sessions'[c].revoked)
              => account.status = "active" /\ calls[c].guess = "right" /\ ~Barred]_adminVars

TypeOK ==
    /\ now \in 0 .. MaxTime
    /\ account.status \in {"absent", "active", "disabled"}
    /\ maintenance \in BOOLEAN
    /\ audit \in [Calls -> {"none", "started", "success", "failure"}]
    /\ DOMAIN calls = Calls /\ DOMAIN sessions = Calls
    /\ granted \subseteq Calls

\* Nobody changes the maintenance state unseen: each change has its audit row
\* whatever fails around it, was asked for while its session still was one, and
\* a row says "success" only if the state asked for was in force at some moment
\* between its start and its end (administration_router._execute).
AuditTrail ==
    /\ TypeOK
    /\ \A e \in effects : audit[e.call] # "none" /\ ~e.stale
    /\ \A c \in Calls : audit[c] = "success" => calls[c].to \in calls[c].held
=============================================================================
