------------------------- MODULE AdminConsoleProofs -------------------------
(***************************************************************************)
(* What the admin API keeps: AdminSessions for any calls and settings, and *)
(* AssistantBehaviours for any assistants, pages, texts and bounds. And    *)
(* what the widget that visitors see keeps: AssistantWidget for any        *)
(* exchanges, assistants, limits of the history and lengths of an answer.  *)
(*                                                                         *)
(* Sessions. AdminInv says what the count of failures and the lock of the  *)
(* account say about the wrong guesses recorded (Counted): the lock may be *)
(* released and the count begun anew only at a guess that comes a lockout  *)
(* after the one before it. Of a call it says what it has passed already:  *)
(* a session that was over as the call arrived stays over (Admitted), and  *)
(* the states that it has seen in force are the ones its audit row may     *)
(* claim (Audited).                                                        *)
(*                                                                         *)
(* Assistants. A token orders what has been read of an assistant, so       *)
(* BehavioursInv says of all that pages show and requests carry that it is *)
(* older than the assistant is now, or all of it (Past); and of a request  *)
(* that a page waits for that it is about what the page shows (Waits), for *)
(* its answer replaces that.                                               *)
(*                                                                         *)
(* The widget. WidgetInv follows one conversation through the exchanges    *)
(* that carry it: the messages are settled turns (Turns) and, while an     *)
(* exchange is pending, its question and the part of the answer that has   *)
(* been read (Waiting, ReadSound). That the answer is the last message     *)
(* needs that numbers are given in order and never twice (MessagesSound),  *)
(* and that its text is what was sent needs the shape of a stream          *)
(* (ExchangesSound), which the server keeps whatever the widget does.      *)
(***************************************************************************)
EXTENDS AdminSessions, AssistantBehaviours, AssistantWidget,
        WellFoundedInduction, FiniteSetTheorems, SequenceTheorems, TLAPS

-----------------------------------------------------------------------------
(* Sessions: the inductive invariant                                       *)

Accounts ==
    [status : {"active", "disabled"}, hash : {"old", "new"}, failures : Nat, lockedUntil : Nat]
SessionRows == [expires : Nat, revoked : BOOLEAN]
Guesses == {"right", "wrong"}

LookUps == [pc : {"lookUp"}, at : Nat, guess : Guesses]
Judged ==
    [pc : {"complete", "fail", "cleanup"}, at : Nat, guess : Guesses,
     seen : [hash : {"old", "new"}, failures : Nat]]
Operating ==
    [pc : {"authenticate", "start", "read", "set", "success", "failure"}, at : Nat,
     token : Calls, to : BOOLEAN, held : SUBSET BOOLEAN, stale : BOOLEAN]
Finished == [pc : {"finished"}, to : BOOLEAN, held : SUBSET BOOLEAN]
CallStates == {Ready, Done} \union LookUps \union Judged \union Operating \union Finished

TypeInv ==
    /\ TypeOK
    /\ account \in Accounts \union {Absent}
    /\ sessions \in [Calls -> SessionRows]
    /\ calls \in [Calls -> CallStates]
    /\ \A c \in Calls : calls[c].pc \in {"lookUp", "complete", "fail", "cleanup"} => calls[c].at <= now
    /\ strikes \in Seq(Nat)
    /\ \A i \in 1 .. Len(strikes) : strikes[i] <= now
    /\ effects \subseteq [call : Calls, stale : BOOLEAN]

\* The lock is set from the last wrong guess when there are enough of them, and
\* where the count was begun anew the guess before was old.
Counted ==
    IF account = Absent THEN strikes = <<>>
    ELSE /\ account.failures <= Len(strikes)
         /\ account.failures = 0 => strikes = <<>>
         /\ account.failures >= Threshold =>
               account.lockedUntil = strikes[Len(strikes)] + Lockout
         /\ account.failures < Threshold => account.lockedUntil = NoLock
         /\ account.failures < Len(strikes) =>
               strikes[Len(strikes) - account.failures] + Lockout <= now

\* Who got in, and with what.
Admitted(c) ==
    /\ account = Absent => c \notin granted /\ calls[c].pc \in {"ready", "lookUp", "done"}
    /\ c \in granted => calls[c].pc = "done"
    /\ calls[c].pc = "complete" => calls[c].guess = "right"
    /\ calls[c].pc = "authenticate" =>
          calls[c].token \in granted /\ (calls[c].stale => ~MayOperate(c))

UnderAudit == {"read", "set", "success", "failure"}

Audited(c) ==
    /\ calls[c].pc \in UnderAudit \union {"start"} => ~calls[c].stale
    /\ calls[c].pc \in UnderAudit => audit[c] # "none" /\ maintenance \in calls[c].held
    /\ calls[c].pc = "success" => calls[c].to \in calls[c].held
    /\ audit[c] = "success" => calls[c].pc = "finished" /\ calls[c].to \in calls[c].held

AdminInv ==
    /\ TypeInv
    /\ Counted
    /\ \A c \in Calls : Admitted(c) /\ Audited(c)
    /\ \A e \in effects : audit[e.call] # "none" /\ ~e.stale

-----------------------------------------------------------------------------
(* Sessions: types                                                         *)

\* What a call holds at each place.
LEMMA CallFields ==
  ASSUME TypeInv, NEW c \in Calls
  PROVE  /\ calls[c] \in CallStates
         /\ calls[c].pc = "ready" => calls[c] = Ready
         /\ calls[c].pc = "lookUp" => calls[c] \in LookUps
         /\ calls[c].pc \in {"complete", "fail", "cleanup"} => calls[c] \in Judged
         /\ calls[c].pc \in UnderAudit \union {"start", "authenticate"} => calls[c] \in Operating
         /\ calls[c].pc = "finished" => calls[c] \in Finished
<1>1. calls[c] \in CallStates
  BY DEF TypeInv
<1> QED
  BY <1>1 DEF CallStates, Ready, Done, LookUps, Judged, Operating, Finished, UnderAudit

\* Calls and their audit rows, by which the steps differ.
CallsTyped ==
    /\ calls' \in [Calls -> CallStates]
    /\ \A c \in Calls :
          calls'[c].pc \in {"lookUp", "complete", "fail", "cleanup"} => calls'[c].at <= now
    /\ audit' \in [Calls -> {"none", "started", "success", "failure"}]

\* A step of one call that leaves the rest as it is.
LEMMA OwnStep ==
  ASSUME AdminInv, NEW c \in Calls, NEW x \in CallStates, Becomes(c, x),
         UNCHANGED <<now, account, sessions, maintenance, granted, strikes, effects>>,
         audit' = audit \/ \E v \in {"started", "success", "failure"} : audit' = [audit EXCEPT ![c] = v],
         x.pc \in {"lookUp", "complete", "fail", "cleanup"} => x.at <= now,
         Admitted(c)', Audited(c)'
  PROVE  AdminInv'
<1>1. TypeInv
  BY DEF AdminInv
<1>2. calls'[c] = x /\ \A u \in Calls \ {c} : calls'[u] = calls[u] /\ audit'[u] = audit[u]
  BY <1>1 DEF Becomes, TypeInv, TypeOK
<1>3. CallsTyped
  BY <1>1, <1>2 DEF Becomes, TypeInv, TypeOK, CallsTyped
<1>4. TypeInv'
  BY <1>1, <1>3 DEF TypeInv, TypeOK, CallsTyped
<1>5. Counted'
  BY DEF AdminInv, Counted
<1>6. ASSUME NEW u \in Calls \ {c} PROVE Admitted(u)' /\ Audited(u)'
  <2>1. Admitted(u) /\ Audited(u)
    BY DEF AdminInv
  <2>2. Admitted(u)'
    BY <1>2, <2>1 DEF Admitted, MayOperate, Authorizes
  <2>3. Audited(u)'
    BY <1>2, <2>1 DEF Audited
  <2> QED
    BY <2>2, <2>3
<1>7. \A e \in effects' : audit'[e.call] # "none" /\ ~e.stale
  <2>1. \A u \in Calls : audit[u] # "none" => audit'[u] # "none"
    BY <1>1 DEF TypeInv, TypeOK
  <2>2. \A e \in effects : e.call \in Calls
    BY <1>1 DEF TypeInv
  <2> QED
    BY <2>1, <2>2 DEF AdminInv
<1> QED
  BY <1>4, <1>5, <1>6, <1>7 DEF AdminInv

-----------------------------------------------------------------------------
(* Sessions: steps                                                         *)

\* The account and the clock by themselves.
LEMMA AccountKeeps ==
  ASSUME AdminInv, Bootstrap \/ Disable \/ Tick
  PROVE  AdminInv'
<1>1. TypeInv
  BY DEF AdminInv
<1>2. UNCHANGED <<sessions, maintenance, audit, calls, granted, strikes, effects>>
  BY DEF Bootstrap, Disable, Tick
<1>3. now \in Nat /\ now' \in Nat /\ now <= now' /\ now' \in 0 .. MaxTime
  BY <1>1, AdminAssumption DEF Bootstrap, Disable, Tick, TypeInv, TypeOK
<1>4. \/ account' = account
      \/ account = Absent /\ account' = FreshAccount
      \/ account \in Accounts /\ account' = [account EXCEPT !.status = "disabled"]
  BY <1>1 DEF Bootstrap, Disable, Tick, TypeInv, Absent
<1>5. account' \in Accounts \union {Absent} /\ account'.status \in {"absent", "active", "disabled"}
  <2>1. account \in Accounts \union {Absent}
    BY <1>1 DEF TypeInv
  <2>2. FreshAccount \in Accounts
    BY DEF FreshAccount, Accounts, NoLock
  <2>3. account \in Accounts => [account EXCEPT !.status = "disabled"] \in Accounts
    BY DEF Accounts
  <2>4. account' \in Accounts \union {Absent}
    BY <1>4, <2>1, <2>2, <2>3
  <2> QED
    BY <2>4 DEF Accounts, Absent
<1>6. \A c \in Calls : calls[c].pc \in {"lookUp", "complete", "fail", "cleanup"} => calls[c].at \in Nat
  BY <1>1, CallFields DEF LookUps, Judged
<1>7. TypeInv'
  <2>1. \A i \in 1 .. Len(strikes) : strikes[i] \in Nat
    BY <1>1 DEF TypeInv
  <2>2. \A i \in 1 .. Len(strikes) : strikes[i] <= now'
    BY <1>1, <1>3, <2>1 DEF TypeInv
  <2>3. \A c \in Calls :
           calls[c].pc \in {"lookUp", "complete", "fail", "cleanup"} => calls[c].at <= now'
    BY <1>1, <1>3, <1>6 DEF TypeInv
  <2> QED
    BY <1>1, <1>2, <1>3, <1>5, <2>2, <2>3 DEF TypeInv, TypeOK
<1>8. Counted'
  <2>1. strikes \in Seq(Nat) /\ Len(strikes) \in Nat
    BY <1>1 DEF TypeInv
  <2>2. CASE account' = account
    <3>1. CASE account = Absent
      BY <1>2, <2>2, <3>1 DEF AdminInv, Counted
    <3>2. CASE account # Absent
      <4>1. account.failures \in Nat
        BY <1>1, <3>2 DEF TypeInv, Accounts
      <4>2. account.failures # 0 /\ account.failures < Len(strikes) =>
               strikes[Len(strikes) - account.failures] \in Nat
        BY <2>1, <4>1
      <4>3. account.failures = 0 => Len(strikes) = 0
        BY <3>2 DEF AdminInv, Counted
      <4> QED
        BY <1>2, <1>3, <2>1, <2>2, <3>2, <4>1, <4>2, <4>3, AdminAssumption DEF AdminInv, Counted
    <3> QED
      BY <3>1, <3>2
  <2>3. CASE account = Absent /\ account' = FreshAccount
    <3>1. strikes = <<>> /\ Len(strikes) = 0
      BY <2>3 DEF AdminInv, Counted
    <3> QED
      BY <1>2, <2>3, <3>1, AdminAssumption DEF Counted, FreshAccount, Absent, NoLock
  <2>4. CASE account' # account /\ account \in Accounts
             /\ account' = [account EXCEPT !.status = "disabled"]
    <3>1. now' = now
      BY <2>4 DEF Bootstrap, Disable, Tick, Accounts, Absent
    <3>2. account # Absent /\ account' # Absent /\ account'.failures = account.failures
          /\ account'.lockedUntil = account.lockedUntil
      BY <2>4 DEF Accounts, Absent
    <3> QED
      BY <1>2, <3>1, <3>2 DEF AdminInv, Counted
  <2> QED
    BY <1>4, <2>2, <2>3, <2>4
<1>9. \A c \in Calls : Admitted(c)' /\ Audited(c)'
  <2>1. ASSUME NEW c \in Calls, calls[c].pc = "authenticate", ~MayOperate(c)
        PROVE  ~MayOperate(c)'
    <3>1. account # Absent
      BY <2>1 DEF AdminInv, Admitted
    <3>2. account'.status = "active" => account.status = "active"
      BY <1>1, <1>4, <3>1 DEF TypeInv, Accounts
    <3> QED
      BY <1>2, <2>1, <3>2 DEF MayOperate, Authorizes
  <2>2. account' = Absent => account = Absent
    BY <1>1, <1>4 DEF TypeInv, Accounts, Absent, FreshAccount
  <2>3. ASSUME NEW c \in Calls PROVE Admitted(c)' /\ Audited(c)'
    <3>1. Admitted(c) /\ Audited(c)
      BY DEF AdminInv
    <3> QED
      BY <1>2, <2>1, <2>2, <3>1 DEF Admitted, Audited
  <2> QED
    BY <2>3
<1> QED
  BY <1>2, <1>7, <1>8, <1>9 DEF AdminInv

\* A call arrives: a login, or an operation with a session.
LEMMA ArrivalKeeps ==
  ASSUME AdminInv, NEW c \in Calls,
         \/ \E guess \in Guesses : Login(c, guess)
         \/ \E token \in granted, to \in BOOLEAN : Operate(c, token, to)
  PROVE  AdminInv'
<1>1. TypeInv /\ Admitted(c) /\ Audited(c)
  BY DEF AdminInv
<1>2. now \in Nat /\ calls[c] = Ready /\ calls[c].pc = "ready"
  <2>1. now \in Nat
    BY <1>1, AdminAssumption DEF TypeInv, TypeOK
  <2>2. calls[c].pc = "ready"
    BY DEF Login, Operate, At
  <2> QED
    BY <1>1, <2>1, <2>2, CallFields
<1>3. c \notin granted /\ audit[c] # "success"
  BY <1>1, <1>2 DEF Admitted, Audited
<1>4. ASSUME NEW guess \in Guesses, Login(c, guess) PROVE AdminInv'
  <2>1. PICK x : x = [pc |-> "lookUp", at |-> now, guess |-> guess]
    OBVIOUS
  <2>2. x \in CallStates /\ calls'[c] = x /\ x.pc = "lookUp" /\ x.at <= now
    BY <1>1, <1>2, <1>4, <2>1 DEF Login, Becomes, TypeInv, CallStates, LookUps
  <2>3. Admitted(c)' /\ Audited(c)'
    BY <1>3, <1>4, <2>2 DEF Login, Admitted, Audited, UnderAudit
  <2> QED
    BY <1>4, <2>1, <2>2, <2>3, OwnStep DEF Login
<1>5. ASSUME NEW token \in granted, NEW to \in BOOLEAN, Operate(c, token, to) PROVE AdminInv'
  <2>1. PICK stale : stale = (account.status # "active" \/ ~Authorizes(token, now))
    OBVIOUS
  <2>2. PICK x : x = [pc |-> "authenticate", at |-> now, token |-> token, to |-> to,
                      held |-> {}, stale |-> stale]
    OBVIOUS
  <2>3. token \in Calls /\ stale \in BOOLEAN
    BY <1>1, <2>1 DEF TypeInv, TypeOK
  <2>4. x \in CallStates
    BY <1>2, <2>2, <2>3 DEF CallStates, Operating
  <2>5. Becomes(c, x) /\ calls'[c] = x
    BY <1>1, <1>5, <2>1, <2>2 DEF Operate, Becomes, TypeInv
  <2>6. x.pc = "authenticate" /\ x.token = token /\ x.at = now /\ (x.stale <=> stale)
    BY <2>2
  <2>7. account # Absent
    BY <2>3 DEF AdminInv, Admitted
  <2>8. Admitted(c)'
    BY <1>3, <1>5, <2>1, <2>5, <2>6, <2>7 DEF Operate, Admitted, MayOperate, Authorizes
  <2>9. Audited(c)'
    BY <1>3, <1>5, <2>5, <2>6 DEF Operate, Audited, UnderAudit
  <2> QED
    BY <1>5, <2>4, <2>5, <2>6, <2>8, <2>9, OwnStep DEF Operate
<1> QED
  BY <1>4, <1>5

\* A call looks, and passes or ends.
LEMMA LookUpKeeps ==
  ASSUME AdminInv, NEW c \in Calls, LookUp(c) \/ Authenticate(c)
  PROVE  AdminInv'
<1>1. TypeInv /\ Admitted(c) /\ Audited(c)
  BY DEF AdminInv
<1>2. audit[c] # "success" /\ c \notin granted
  BY <1>1 DEF LookUp, Authenticate, At, Admitted, Audited
<1>3. /\ UNCHANGED <<now, account, sessions, maintenance, audit, granted, strikes, effects>>
  BY DEF LookUp, Authenticate
<1>4. ASSUME Becomes(c, Done) PROVE AdminInv'
  <2>1. Done \in CallStates /\ calls'[c] = Done /\ Done.pc = "done"
    BY <1>1, <1>4 DEF CallStates, Becomes, TypeInv, Done
  <2>2. Admitted(c)' /\ Audited(c)'
    BY <1>1, <1>2, <1>3, <2>1 DEF Admitted, Audited, UnderAudit
  <2> QED
    BY <1>3, <1>4, <2>1, <2>2, OwnStep
<1>5. ASSUME LookUp(c), ~Becomes(c, Done) PROVE AdminInv'
  <2>1. calls[c] \in LookUps /\ calls[c].at <= now
    BY <1>1, <1>5, CallFields DEF LookUp, At, TypeInv
  <2>2. account \in Accounts
    BY <1>1, <1>5 DEF LookUp, TypeInv, Absent
  <2>3. PICK x : x = [pc |-> IF calls[c].guess = "right" THEN "complete" ELSE "fail",
                      at |-> calls[c].at, guess |-> calls[c].guess,
                      seen |-> [hash |-> account.hash, failures |-> account.failures]]
    OBVIOUS
  <2>4. x \in CallStates
    BY <2>1, <2>2, <2>3 DEF CallStates, LookUps, Judged, Accounts, Guesses
  <2>5. Becomes(c, x) /\ calls'[c] = x
    BY <1>1, <1>5, <2>3 DEF LookUp, Becomes, TypeInv
  <2>6. /\ (x.pc = "complete" /\ x.guess = "right") \/ x.pc = "fail"
        /\ x.at <= now
    BY <2>1, <2>3
  <2>7. Admitted(c)' /\ Audited(c)'
    BY <1>2, <1>3, <2>2, <2>5, <2>6 DEF Admitted, Audited, UnderAudit, Accounts, Absent
  <2> QED
    BY <1>3, <2>4, <2>5, <2>6, <2>7, OwnStep
<1>6. ASSUME Authenticate(c), ~Becomes(c, Done) PROVE AdminInv'
  <2>1. PICK x : x = [calls[c] EXCEPT !.pc = "start"]
    OBVIOUS
  <2>2. calls[c] \in Operating /\ ~calls[c].stale /\ account # Absent
    BY <1>1, <1>6, CallFields DEF Authenticate, At, Admitted
  <2>3. x \in Operating /\ x.pc = "start" /\ x.stale = calls[c].stale
    BY <2>1, <2>2 DEF Operating
  <2>4. Becomes(c, x) /\ calls'[c] = x
    BY <1>1, <1>6, <2>1 DEF Authenticate, Goto, Becomes, TypeInv
  <2>5. Admitted(c)' /\ Audited(c)'
    BY <1>2, <1>3, <2>2, <2>3, <2>4 DEF Admitted, Audited, UnderAudit
  <2> QED
    BY <1>3, <2>3, <2>4, <2>5, OwnStep DEF CallStates
<1> QED
  BY <1>4, <1>5, <1>6

\* The audited operation, but for its write.
LEMMA AuditKeeps ==
  ASSUME AdminInv, NEW c \in Calls,
         StartAudit(c) \/ ReadMaintenance(c) \/ FailAction(c) \/ FinishAudit(c)
  PROVE  AdminInv'
<1>1. TypeInv /\ Admitted(c) /\ Audited(c)
  BY DEF AdminInv
<1>2. PICK r : r = calls[c] /\ r \in Operating /\ r.pc \in UnderAudit \union {"start"}
  BY <1>1, CallFields DEF StartAudit, ReadMaintenance, FailAction, FinishAudit, At, UnderAudit
<1>3. /\ c \notin granted /\ account # Absent /\ ~r.stale /\ audit[c] # "success"
      /\ r.pc \in UnderAudit => audit[c] # "none" /\ maintenance \in r.held
      /\ r.pc = "success" => r.to \in r.held
  BY <1>1, <1>2 DEF Admitted, Audited, Operating, UnderAudit
<1>4. UNCHANGED <<now, account, sessions, maintenance, granted, strikes, effects>>
  BY DEF StartAudit, ReadMaintenance, FailAction, FinishAudit
<1>5. CASE StartAudit(c)
  <2>1. PICK x : x = [r EXCEPT !.pc = "read", !.held = {maintenance}]
    OBVIOUS
  <2>2. maintenance \in BOOLEAN
    BY <1>1 DEF TypeInv, TypeOK
  <2>3. x \in Operating /\ x.pc = "read" /\ x.stale = r.stale /\ x.held = {maintenance}
    BY <1>2, <2>1, <2>2 DEF Operating
  <2>4. calls' = [calls EXCEPT ![c] = x] /\ calls'[c] = x
    BY <1>1, <1>2, <1>5, <2>1 DEF StartAudit, TypeInv
  <2>5. audit' = [audit EXCEPT ![c] = "started"] /\ audit'[c] = "started"
    BY <1>1, <1>5 DEF StartAudit, TypeInv, TypeOK
  <2>6. Admitted(c)' /\ Audited(c)'
    BY <1>3, <1>4, <2>3, <2>4, <2>5 DEF Admitted, Audited, UnderAudit
  <2> QED
    BY <1>4, <2>3, <2>4, <2>5, <2>6, OwnStep DEF Becomes, CallStates
<1>6. ASSUME NEW pc \in {"set", "success", "failure"}, Goto(c, pc), UNCHANGED audit,
             r.pc \in UnderAudit, pc = "success" => maintenance = r.to
      PROVE  AdminInv'
  <2>1. PICK x : x = [r EXCEPT !.pc = pc]
    OBVIOUS
  <2>2. x \in Operating /\ x.pc = pc /\ x.stale = r.stale /\ x.held = r.held /\ x.to = r.to
    BY <1>2, <2>1 DEF Operating
  <2>3. calls' = [calls EXCEPT ![c] = x] /\ calls'[c] = x
    BY <1>1, <1>2, <1>6, <2>1 DEF Goto, TypeInv
  <2>4. Admitted(c)' /\ Audited(c)'
    BY <1>3, <1>4, <1>6, <2>2, <2>3 DEF Admitted, Audited, UnderAudit
  <2> QED
    BY <1>4, <1>6, <2>2, <2>3, <2>4, OwnStep DEF Becomes, CallStates
<1>7. CASE FinishAudit(c)
  <2>1. PICK x : x = [pc |-> "finished", to |-> r.to, held |-> r.held]
    OBVIOUS
  <2>2. x \in Finished /\ x.pc = "finished" /\ x.to = r.to /\ x.held = r.held
    BY <1>2, <2>1 DEF Operating, Finished
  <2>3. r.pc \in {"success", "failure"}
    BY <1>2, <1>7 DEF FinishAudit, At
  <2>4. Becomes(c, x) /\ calls'[c] = x
    BY <1>1, <1>2, <1>7, <2>1 DEF FinishAudit, Becomes, TypeInv
  <2>5. audit' = [audit EXCEPT ![c] = r.pc] /\ audit'[c] = r.pc
    BY <1>1, <1>2, <1>7 DEF FinishAudit, Result, TypeInv, TypeOK
  <2>6. Admitted(c)'
    BY <1>3, <1>4, <2>2, <2>4 DEF Admitted
  <2>7. Audited(c)'
    BY <1>3, <2>2, <2>3, <2>4, <2>5 DEF Audited, UnderAudit
  <2> QED
    BY <1>4, <2>2, <2>3, <2>4, <2>5, <2>6, <2>7, OwnStep DEF CallStates
<1>8. CASE ReadMaintenance(c)
  BY <1>2, <1>6, <1>8 DEF ReadMaintenance, At, UnderAudit
<1>9. CASE FailAction(c)
  BY <1>2, <1>6, <1>9 DEF FailAction, At, UnderAudit
<1> QED
  BY <1>5, <1>7, <1>8, <1>9

\* The write of the maintenance state: every call under audit sees it.
LEMMA SetKeeps ==
  ASSUME AdminInv, NEW c \in Calls, SetMaintenance(c)
  PROVE  AdminInv'
<1>1. TypeInv /\ \A u \in Calls : Admitted(u) /\ Audited(u)
  BY DEF AdminInv
<1>2. PICK r : r = calls[c] /\ r \in Operating /\ r.pc = "set"
  BY <1>1, CallFields DEF SetMaintenance, At, UnderAudit
<1>3. PICK next \in {"success", "failure"} :
         calls' = [x \in Calls |-> Holding(r.to, IF x = c THEN [r EXCEPT !.pc = next] ELSE calls[x])]
  BY <1>2 DEF SetMaintenance
<1>4. /\ maintenance' = r.to /\ r.to \in BOOLEAN
      /\ effects' = effects \union {[call |-> c, stale |-> r.stale]}
      /\ UNCHANGED <<now, account, sessions, audit, granted, strikes>>
  BY <1>2 DEF SetMaintenance, Operating
<1>5. ASSUME NEW x, x.pc \notin UnderAudit PROVE Holding(r.to, x) = x
  BY <1>5 DEF Holding, UnderAudit
<1>6. ASSUME NEW x \in Operating, x.pc \in UnderAudit
      PROVE  /\ Holding(r.to, x) \in Operating
             /\ Holding(r.to, x).pc = x.pc /\ Holding(r.to, x).stale = x.stale
             /\ Holding(r.to, x).to = x.to /\ Holding(r.to, x).held = x.held \union {r.to}
  <2>1. PICK y : y = [x EXCEPT !.held = @ \union {r.to}]
    OBVIOUS
  <2>2. Holding(r.to, x) = y
    BY <1>6, <2>1 DEF Holding, UnderAudit
  <2> QED
    BY <1>4, <2>1, <2>2 DEF Operating
<1>7. PICK own : own = [r EXCEPT !.pc = next]
  OBVIOUS
<1>8. /\ own \in Operating /\ own.pc = next /\ own.stale = r.stale
      /\ own.to = r.to /\ own.held = r.held
  BY <1>2, <1>7 DEF Operating
<1>9. calls'[c] = Holding(r.to, own) /\ \A u \in Calls \ {c} : calls'[u] = Holding(r.to, calls[u])
  BY <1>3, <1>7
<1>10. ASSUME NEW u \in Calls
       PROVE  \/ calls'[u] = calls[u] /\ calls[u].pc \notin UnderAudit
              \/ /\ calls[u].pc \in UnderAudit /\ calls[u] \in Operating
                 /\ calls'[u] \in Operating
                 /\ (calls'[u].pc = calls[u].pc \/ (u = c /\ calls'[u].pc = next))
                 /\ calls'[u].stale = calls[u].stale /\ calls'[u].to = calls[u].to
                 /\ calls'[u].held = calls[u].held \union {r.to}
  <2>1. CASE u = c
    <3>1. own \in Operating /\ own.pc \in UnderAudit
      BY <1>8 DEF UnderAudit
    <3>2. /\ calls'[u] \in Operating /\ calls'[u].pc = own.pc /\ calls'[u].stale = own.stale
          /\ calls'[u].to = own.to /\ calls'[u].held = own.held \union {r.to}
      BY <1>6, <1>9, <2>1, <3>1
    <3>3. calls[u] = r /\ r.pc \in UnderAudit
      BY <1>2, <2>1 DEF UnderAudit
    <3> QED
      BY <1>2, <1>8, <2>1, <3>2, <3>3
  <2>2. CASE u # c /\ calls[u].pc \in UnderAudit
    <3>1. calls[u] \in Operating
      BY <1>1, <2>2, CallFields
    <3>2. PICK x, y : x = calls[u] /\ y = calls'[u]
      OBVIOUS
    <3>3. y = Holding(r.to, x) /\ x \in Operating /\ x.pc \in UnderAudit
      BY <1>9, <2>2, <3>1, <3>2
    <3>4. /\ y \in Operating /\ y.pc = x.pc /\ y.stale = x.stale
          /\ y.to = x.to /\ y.held = x.held \union {r.to}
      BY <1>6, <3>3
    <3>5. /\ calls'[u] \in Operating /\ calls'[u].pc = calls[u].pc
          /\ calls'[u].stale = calls[u].stale /\ calls'[u].to = calls[u].to
          /\ calls'[u].held = calls[u].held \union {r.to}
      BY <3>2, <3>4
    <3> QED
      BY <2>2, <3>1, <3>5, Zenon
  <2>3. CASE u # c /\ calls[u].pc \notin UnderAudit
    BY <1>5, <1>9, <2>3
  <2> QED
    BY <2>1, <2>2, <2>3
<1>11. TypeInv'
  <2>1. calls' \in [Calls -> CallStates]
    <3>1. \A u \in Calls : calls'[u] \in CallStates
      BY <1>1, <1>10 DEF TypeInv, CallStates
    <3> QED
      BY <1>3, <3>1
  <2>2. \A u \in Calls : calls'[u].pc \in {"lookUp", "complete", "fail", "cleanup"} => calls'[u].at <= now
    BY <1>1, <1>10 DEF TypeInv, UnderAudit
  <2>3. effects' \subseteq [call : Calls, stale : BOOLEAN]
    BY <1>1, <1>2, <1>4 DEF TypeInv, Operating
  <2> QED
    BY <1>1, <1>4, <2>1, <2>2, <2>3 DEF TypeInv, TypeOK
<1>12. Counted'
  BY <1>4 DEF AdminInv, Counted
<1>13. ASSUME NEW u \in Calls PROVE Admitted(u)' /\ Audited(u)'
  <2>1. CASE calls'[u] = calls[u] /\ calls[u].pc \notin UnderAudit
    BY <1>1, <1>4, <2>1 DEF Admitted, MayOperate, Authorizes, Audited
  <2>2. CASE calls'[u] # calls[u] \/ calls[u].pc \in UnderAudit
    <3>1. /\ calls[u].pc \in UnderAudit /\ calls'[u].pc \in UnderAudit /\ account # Absent
          /\ u \notin granted /\ ~calls[u].stale /\ audit[u] # "none" /\ audit[u] # "success"
          /\ maintenance \in calls[u].held
      BY <1>1, <1>10, <2>2 DEF UnderAudit, Admitted, Audited
    <3>2. /\ calls'[u].stale = calls[u].stale
          /\ calls'[u].held = calls[u].held \union {r.to}
      BY <1>10, <2>2
    <3>3. calls'[u].pc = "success" => calls'[u].to \in calls'[u].held
      BY <1>1, <1>2, <1>10, <2>2 DEF Audited
    <3> QED
      BY <1>4, <3>1, <3>2, <3>3 DEF Admitted, Audited, UnderAudit
  <2> QED
    BY <2>1, <2>2
<1>14. \A e \in effects' : audit'[e.call] # "none" /\ ~e.stale
  <2>1. audit[c] # "none" /\ ~r.stale
    BY <1>1, <1>2 DEF Audited, UnderAudit
  <2> QED
    BY <1>4, <2>1 DEF AdminInv
<1> QED
  BY <1>11, <1>12, <1>13, <1>14 DEF AdminInv

\* A wrong guess is counted.
LEMMA FailureKeeps ==
  ASSUME AdminInv, NEW c \in Calls, RecordFailure(c)
  PROVE  AdminInv'
<1>1. TypeInv /\ Counted /\ Admitted(c) /\ Audited(c)
  BY DEF AdminInv
<1>2. PICK at \in Nat : at = calls[c].at /\ at <= now
  BY <1>1, CallFields DEF RecordFailure, At, TypeInv, Judged
<1>3. account # Absent /\ account \in Accounts /\ c \notin granted /\ audit[c] # "success"
  BY <1>1 DEF RecordFailure, At, Admitted, Audited, TypeInv
<1>4. now \in Nat /\ Threshold \in Nat \ {0} /\ Lockout \in Nat \ {0}
  BY <1>1, AdminAssumption DEF TypeInv, TypeOK
<1>5. /\ account.failures \in Nat /\ account.lockedUntil \in Nat
      /\ strikes \in Seq(Nat) /\ Len(strikes) \in Nat
      /\ \A i \in 1 .. Len(strikes) : strikes[i] \in Nat /\ strikes[i] <= now
  BY <1>1, <1>3 DEF Accounts, TypeInv
<1>6. PICK count : count = FailuresAfter(c)
  OBVIOUS
<1>7. PICK until : until = IF count >= Threshold THEN at + Lockout ELSE NoLock
  OBVIOUS
<1>8. \/ /\ count = 1 /\ account.lockedUntil # NoLock /\ account.lockedUntil <= at
      \/ count = account.failures + 1
  BY <1>2, <1>6 DEF FailuresAfter
<1>9. count \in Nat \ {0} /\ until \in Nat
  <2>1. count \in Nat \ {0}
    BY <1>5, <1>8
  <2>2. at + Lockout \in Nat
    BY <1>2, <1>4
  <2> QED
    BY <1>7, <2>1, <2>2 DEF NoLock
<1>10. account' = [account EXCEPT !.failures = count, !.lockedUntil = until]
  BY <1>2, <1>6, <1>7 DEF RecordFailure
<1>11. /\ account' \in Accounts /\ account' # Absent /\ account'.status = account.status
       /\ account'.failures = count /\ account'.lockedUntil = until
  BY <1>3, <1>9, <1>10 DEF Accounts, Absent
<1>12. strikes' = Append(strikes, at)
  BY <1>2 DEF RecordFailure
<1>13. /\ strikes' \in Seq(Nat) /\ Len(strikes') = Len(strikes) + 1
       /\ strikes'[Len(strikes) + 1] = at
       /\ \A i \in 1 .. Len(strikes) : strikes'[i] = strikes[i]
  BY <1>2, <1>5, <1>12
<1>14. /\ calls'[c] = Done /\ \A u \in Calls \ {c} : calls'[u] = calls[u]
       /\ UNCHANGED <<now, sessions, maintenance, audit, granted, effects>>
  BY <1>1 DEF RecordFailure, Becomes, TypeInv
<1>15. TypeInv'
  <2>1. calls' \in [Calls -> CallStates]
    <3>1. Done \in CallStates
      BY DEF CallStates
    <3>2. calls \in [Calls -> CallStates] /\ calls' = [calls EXCEPT ![c] = Done]
      BY <1>1 DEF RecordFailure, Becomes, TypeInv
    <3> QED
      BY <3>1, <3>2
  <2>2. \A i \in 1 .. Len(strikes') : strikes'[i] <= now
    <3>1. PICK n \in Nat : n = Len(strikes)
      BY <1>5
    <3>2. \A i \in 1 .. n : strikes'[i] <= now
      BY <1>5, <1>13, <3>1
    <3>3. strikes'[n + 1] <= now /\ Len(strikes') = n + 1
      BY <1>2, <1>13, <3>1
    <3>4. \A i \in 1 .. (n + 1) : i \in 1 .. n \/ i = n + 1
      BY <3>1
    <3> QED
      BY <3>2, <3>3, <3>4
  <2>3. \A u \in Calls : calls'[u].pc \in {"lookUp", "complete", "fail", "cleanup"} => calls'[u].at <= now
    BY <1>1, <1>14 DEF TypeInv, Done
  <2>4. account'.status \in {"absent", "active", "disabled"}
    BY <1>3, <1>11 DEF Accounts
  <2> QED
    BY <1>1, <1>11, <1>13, <1>14, <2>1, <2>2, <2>3, <2>4 DEF TypeInv, TypeOK
<1>16. Counted'
  <2>1. /\ account.failures <= Len(strikes)
        /\ account.failures = 0 => strikes = <<>>
        /\ account.failures >= Threshold => account.lockedUntil = strikes[Len(strikes)] + Lockout
        /\ account.failures < Threshold => account.lockedUntil = NoLock
        /\ account.failures < Len(strikes) =>
              strikes[Len(strikes) - account.failures] + Lockout <= now
    BY <1>1, <1>3 DEF Counted
  <2>2. count <= Len(strikes')
    BY <1>4, <1>5, <1>8, <1>13, <2>1
  <2>3. count >= Threshold => until = strikes'[Len(strikes')] + Lockout
    BY <1>7, <1>13
  <2>4. count < Threshold => until = NoLock
    BY <1>4, <1>7, <1>9
  <2>5. count < Len(strikes') => strikes'[Len(strikes') - count] + Lockout <= now
    <3>1. CASE count = account.failures + 1
      <4>1. SUFFICES ASSUME account.failures < Len(strikes)
                     PROVE  strikes'[Len(strikes') - count] + Lockout <= now
        BY <1>5, <1>13, <3>1
      <4>2. account.failures # 0
        BY <2>1, <4>1
      <4>3. PICK n \in Nat, f \in Nat : n = Len(strikes) /\ f = account.failures
        BY <1>5
      <4>4. n - f \in 1 .. n
        <5>1. f < n /\ f # 0
          BY <4>1, <4>2, <4>3
        <5> QED
          BY <5>1
      <4>5. Len(strikes') - count = n - f
        <5>1. Len(strikes') = n + 1 /\ count = f + 1 /\ n \in Int /\ f \in Int
          BY <1>13, <3>1, <4>3
        <5>2. (n + 1) - (f + 1) = n - f
          BY <5>1
        <5> QED
          BY <5>1, <5>2
      <4>6. strikes'[n - f] = strikes[n - f]
        BY <1>13, <4>3, <4>4
      <4>7. strikes[n - f] + Lockout <= now
        BY <2>1, <4>1, <4>3
      <4> QED
        BY <4>5, <4>6, <4>7
    <3>2. CASE count = 1 /\ account.lockedUntil # NoLock /\ account.lockedUntil <= at
      <4>1. account.failures >= Threshold
        BY <1>4, <1>5, <2>1, <3>2
      <4>2. Len(strikes) \in 1 .. Len(strikes) /\ Len(strikes') - count = Len(strikes)
        BY <1>4, <1>5, <1>13, <2>1, <3>2, <4>1
      <4>3. strikes[Len(strikes)] + Lockout <= at
        BY <2>1, <3>2, <4>1
      <4>4. strikes[Len(strikes)] \in Nat
        BY <1>5, <4>2
      <4>5. strikes[Len(strikes)] + Lockout <= now
        BY <1>2, <1>4, <4>3, <4>4
      <4> QED
        BY <1>13, <4>2, <4>5
    <3> QED
      BY <1>8, <3>1, <3>2
  <2> QED
    BY <1>9, <1>11, <1>14, <2>2, <2>3, <2>4, <2>5 DEF Counted
<1>17. ASSUME NEW u \in Calls PROVE Admitted(u)' /\ Audited(u)'
  <2>1. Admitted(u) /\ Audited(u)
    BY DEF AdminInv
  <2>2. CASE u = c
    BY <1>3, <1>11, <1>14, <2>2 DEF Admitted, Audited, Done, UnderAudit
  <2>3. CASE u # c
    BY <1>3, <1>11, <1>14, <2>1, <2>3 DEF Admitted, Audited, MayOperate, Authorizes
  <2> QED
    BY <2>2, <2>3
<1> QED
  BY <1>14, <1>15, <1>16, <1>17 DEF AdminInv

\* A session is opened, and old ones are removed; or one is closed.
LEMMA SessionKeeps ==
  ASSUME AdminInv, NEW c \in Calls,
         CompleteLogin(c) \/ CleanupSessions(c) \/ \E token \in granted : Logout(c, token)
  PROVE  AdminInv'
<1>1. TypeInv /\ Counted /\ \A u \in Calls : Admitted(u) /\ Audited(u)
  BY DEF AdminInv
<1>2. now \in Nat /\ Ttl \in Nat /\ Threshold \in Nat \ {0}
  BY <1>1, AdminAssumption DEF TypeInv, TypeOK
<1>3. ASSUME NEW x \in CallStates, Becomes(c, x), sessions' \in [Calls -> SessionRows],
             account' \in Accounts \union {Absent}, account'.status = account.status,
             account' = Absent <=> account = Absent, strikes' \in {strikes, <<>>}, Counted',
             x.pc \in {"done", "cleanup"}, x.pc = "cleanup" => x.at <= now /\ account # Absent,
             granted' \in {granted, granted \union {c}},
             c \in granted' => account # Absent /\ x.pc = "done",
             audit[c] # "success",
             UNCHANGED <<now, maintenance, audit, effects>>,
             \A token \in granted, time \in Nat : Authorizes(token, time)' => Authorizes(token, time)
      PROVE  AdminInv'
  <2>1. calls'[c] = x /\ \A u \in Calls \ {c} : calls'[u] = calls[u]
    BY <1>1, <1>3 DEF Becomes, TypeInv
  <2>2. TypeInv'
    <3>1. calls' \in [Calls -> CallStates]
      BY <1>1, <1>3 DEF Becomes, TypeInv
    <3>2. strikes' \in Seq(Nat) /\ \A i \in 1 .. Len(strikes') : strikes'[i] <= now
      <4>1. CASE strikes' = strikes
        BY <1>1, <4>1 DEF TypeInv
      <4>2. CASE strikes' = <<>>
        BY <4>2
      <4> QED
        BY <1>3, <4>1, <4>2
    <3>3. \A u \in Calls : calls'[u].pc \in {"lookUp", "complete", "fail", "cleanup"} =>
             calls'[u].at <= now
      BY <1>1, <1>3, <2>1 DEF TypeInv
    <3>4. DOMAIN calls' = Calls /\ DOMAIN sessions' = Calls
      BY <1>3, <3>1
    <3> QED
      BY <1>1, <1>3, <3>1, <3>2, <3>3, <3>4 DEF TypeInv, TypeOK
  <2>3. ASSUME NEW u \in Calls PROVE Admitted(u)' /\ Audited(u)'
    <3>1. CASE u = c
      BY <1>1, <1>3, <2>1, <3>1 DEF Admitted, Audited, UnderAudit
    <3>2. CASE u # c
      <4>1. calls[u].pc = "authenticate" => calls[u].at \in Nat
        BY <1>1, CallFields DEF Operating
      <4>2. Admitted(u)'
        BY <1>1, <1>3, <2>1, <3>2, <4>1 DEF Admitted, MayOperate
      <4>3. Audited(u)'
        BY <1>1, <1>3, <2>1, <3>2 DEF Audited
      <4> QED
        BY <4>2, <4>3
    <3> QED
      BY <3>1, <3>2
  <2> QED
    BY <1>3, <2>2, <2>3 DEF AdminInv
<1>4. Done \in CallStates /\ Done.pc = "done"
  BY DEF CallStates, Done
<1>5. UNCHANGED <<account, strikes>> => Counted'
  BY <1>1 DEF CompleteLogin, CleanupSessions, Logout, Counted
<1>6. ASSUME NEW token \in granted, Logout(c, token) PROVE AdminInv'
  <2>1. token \in Calls /\ account # Absent
    BY <1>1 DEF TypeInv, TypeOK, Admitted
  <2>2. PICK row : row = [sessions[token] EXCEPT !.revoked = TRUE]
    OBVIOUS
  <2>3. row \in SessionRows /\ row.revoked
    BY <1>1, <2>1, <2>2 DEF TypeInv, SessionRows
  <2>4. sessions' = [sessions EXCEPT ![token] = row]
    BY <1>6, <2>2 DEF Logout
  <2>5. sessions' \in [Calls -> SessionRows]
    BY <1>1, <2>3, <2>4 DEF TypeInv
  <2>6. \A u \in granted, time \in Nat : Authorizes(u, time)' => Authorizes(u, time)
    BY <1>1, <2>1, <2>3, <2>4 DEF Authorizes, TypeInv, TypeOK
  <2>7. calls[c].pc = "ready"
    BY <1>6 DEF Logout, At
  <2> QED
    BY <1>1, <1>3, <1>4, <1>5, <1>6, <2>1, <2>5, <2>6, <2>7 DEF Logout, Admitted, Audited, TypeInv
<1>7. ASSUME CleanupSessions(c) PROVE AdminInv'
  <2>1. NoSession \in SessionRows /\ NoSession.revoked
    BY DEF NoSession, SessionRows
  <2>2. sessions' \in [Calls -> SessionRows]
    BY <1>1, <1>7, <2>1 DEF CleanupSessions, TypeInv
  <2>3. \A u \in granted, time \in Nat : Authorizes(u, time)' => Authorizes(u, time)
    BY <1>1, <1>7, <2>1 DEF CleanupSessions, Authorizes, TypeInv, TypeOK
  <2>4. calls[c].pc = "cleanup" /\ account # Absent /\ audit[c] # "success"
    BY <1>1, <1>7 DEF CleanupSessions, At, Admitted, Audited
  <2> QED
    BY <1>1, <1>3, <1>4, <1>5, <1>7, <2>2, <2>3, <2>4 DEF CleanupSessions, TypeInv
<1>8. ASSUME CompleteLogin(c) PROVE AdminInv'
  <2>1. /\ calls[c].pc = "complete" /\ calls[c] \in Judged /\ calls[c].at <= now
        /\ account # Absent /\ account \in Accounts /\ c \notin granted /\ audit[c] # "success"
    BY <1>1, <1>8, CallFields DEF CompleteLogin, At, Admitted, Audited, TypeInv
  <2>2. CASE ~Unchanged(c)
    BY <1>1, <1>3, <1>4, <1>5, <1>8, <2>1, <2>2 DEF CompleteLogin, TypeInv, Authorizes
  <2>3. CASE Unchanged(c)
    <3>1. PICK hash \in {account.hash, "new"} :
             account' = [account EXCEPT !.hash = hash, !.failures = 0, !.lockedUntil = NoLock]
      BY <1>8, <2>3 DEF CompleteLogin
    <3>2. /\ account' \in Accounts /\ account' # Absent /\ account'.status = account.status
          /\ account'.failures = 0 /\ account'.lockedUntil = NoLock
      BY <2>1, <3>1 DEF Accounts, Absent, NoLock
    <3>3. PICK row : row = [expires |-> calls[c].at + Ttl, revoked |-> FALSE]
      OBVIOUS
    <3>4. row \in SessionRows
      BY <1>2, <2>1, <3>3 DEF SessionRows, Judged
    <3>5. sessions' = [sessions EXCEPT ![c] = row] /\ strikes' = <<>>
      BY <1>8, <2>3, <3>3 DEF CompleteLogin
    <3>6. Counted'
      BY <1>2, <3>2, <3>5 DEF Counted, NoLock
    <3>7. PICK x : x = [calls[c] EXCEPT !.pc = "cleanup"]
      OBVIOUS
    <3>8. x \in CallStates /\ x.pc = "cleanup" /\ x.at = calls[c].at
      BY <2>1, <3>7 DEF CallStates, Judged
    <3>9. Becomes(c, x)
      BY <1>1, <1>8, <2>3, <3>7 DEF CompleteLogin, Goto, Becomes, TypeInv
    <3>10. \A u \in granted, time \in Nat : Authorizes(u, time)' => Authorizes(u, time)
      BY <1>1, <2>1, <3>5 DEF Authorizes, TypeInv, TypeOK
    <3>11. sessions' \in [Calls -> SessionRows]
      BY <1>1, <3>4, <3>5 DEF TypeInv
    <3> QED
      BY <1>3, <1>8, <2>1, <3>2, <3>5, <3>6, <3>8, <3>9, <3>10, <3>11 DEF CompleteLogin
  <2> QED
    BY <2>2, <2>3
<1> QED
  BY <1>6, <1>7, <1>8

-----------------------------------------------------------------------------
(* Sessions: what holds of every run                                       *)

\* The inductive invariant holds at first.
LEMMA AdminInit ==
  ASSUME Init
  PROVE  AdminInv
<1>1. TypeOK
  <2>1. now \in 0 .. MaxTime /\ account.status = "absent"
    BY AdminAssumption DEF Init, Absent
  <2> QED
    BY <2>1 DEF Init, TypeOK
<1>2. NoSession \in SessionRows /\ Ready \in CallStates
  BY DEF NoSession, SessionRows, Ready, CallStates
<1>3. Ready.pc = "ready" /\ \A c \in Calls : calls[c] = Ready
  BY DEF Init, Ready
<1>4. TypeInv
  <2>1. strikes \in Seq(Nat) /\ Len(strikes) = 0
    BY DEF Init
  <2> QED
    BY <1>1, <1>2, <1>3, <2>1 DEF Init, TypeInv
<1>5. Counted
  BY DEF Init, Counted
<1>6. \A c \in Calls : Admitted(c) /\ Audited(c)
  BY <1>3 DEF Init, Admitted, Audited, UnderAudit
<1> QED
  BY <1>4, <1>5, <1>6 DEF AdminInv, Init

\* Every step of every thread keeps it.
LEMMA AdminStep ==
  ASSUME AdminInv, [Next]_adminVars
  PROVE  AdminInv'
<1>1. CASE Bootstrap \/ Disable \/ Tick
  BY <1>1, AccountKeeps
<1>2. ASSUME NEW c \in Calls, Request(c) PROVE AdminInv'
  BY <1>2, ArrivalKeeps, SessionKeeps DEF Request, Guesses
<1>3. ASSUME NEW c \in Calls, Serve(c) PROVE AdminInv'
  <2>1. CASE LookUp(c) \/ Authenticate(c)
    BY <2>1, LookUpKeeps
  <2>2. CASE RecordFailure(c)
    BY <2>2, FailureKeeps
  <2>3. CASE CompleteLogin(c) \/ CleanupSessions(c)
    BY <2>3, SessionKeeps
  <2>4. CASE StartAudit(c) \/ ReadMaintenance(c) \/ FailAction(c) \/ FinishAudit(c)
    BY <2>4, AuditKeeps
  <2>5. CASE SetMaintenance(c)
    BY <2>5, SetKeeps
  <2> QED
    BY <1>3, <2>1, <2>2, <2>3, <2>4, <2>5 DEF Serve
<1>4. CASE UNCHANGED adminVars
  <2>1. UNCHANGED <<now, account, sessions, maintenance, audit, calls, granted, strikes, effects>>
    BY <1>4 DEF adminVars
  <2>2. TypeInv'
    BY <2>1 DEF AdminInv, TypeInv, TypeOK
  <2>3. Counted'
    BY <2>1 DEF AdminInv, Counted
  <2>4. \A c \in Calls : Admitted(c)' /\ Audited(c)'
    BY <2>1 DEF AdminInv, Admitted, MayOperate, Authorizes, Audited
  <2> QED
    BY <2>1, <2>2, <2>3, <2>4 DEF AdminInv
<1> QED
  BY <1>1, <1>2, <1>3, <1>4 DEF Next

\* What the account, the sessions and the calls say of each other in every
\* state (record_failed_login, complete_login, get_active_session and
\* administration_router._execute, interleaved).
THEOREM AdminInvariant == Spec => []AdminInv
<1> QED
  BY AdminInit, AdminStep, PTL DEF Spec

\* Each change of the maintenance state has its audit row, was asked for while
\* its session still was one, and a row that says "success" names a state that
\* was in force while it was being done (administration_router._execute).
THEOREM ChangesAreAudited == Spec => []AuditTrail
<1>1. ASSUME AdminInv PROVE AuditTrail
  <2>1. \A c \in Calls : audit[c] = "success" => calls[c].to \in calls[c].held
    BY <1>1 DEF AdminInv, Audited
  <2> QED
    BY <1>1, <2>1 DEF AdminInv, TypeInv, AuditTrail
<1> QED
  BY <1>1, AdminInvariant, PTL

\* While the last Threshold guesses are recent wrong ones, the row is locked.
LEMMA BarredIsLocked ==
  ASSUME AdminInv, Barred, account # Absent
  PROVE  account.lockedUntil > now
<1>1. TypeInv /\ Counted
  BY DEF AdminInv
<1>2. PICK n \in Nat, f \in Nat : n = Len(strikes) /\ f = account.failures
  BY <1>1 DEF TypeInv, Accounts
<1>3. now \in Nat /\ Lockout \in Nat /\ Threshold \in Nat \ {0} /\ n >= Threshold
  BY <1>1, <1>2, AdminAssumption DEF TypeInv, TypeOK, Barred
<1>4. \A i \in 1 .. n : strikes[i] \in Nat
  BY <1>1, <1>2 DEF TypeInv
<1>5. \A i \in (n - Threshold + 1) .. n : strikes[i] + Lockout > now
  BY <1>2 DEF Barred
<1>6. f >= Threshold
  <2>1. SUFFICES ASSUME f < Threshold PROVE FALSE
    BY <1>2, <1>3
  <2>2. f # 0
    BY <1>1, <1>2, <1>3 DEF Counted
  <2>3. n - f \in (n - Threshold + 1) .. n /\ n - f \in 1 .. n /\ f < n
    BY <1>2, <1>3, <2>1, <2>2
  <2>4. strikes[n - f] + Lockout <= now
    BY <1>1, <1>2, <2>3 DEF Counted
  <2>5. strikes[n - f] + Lockout > now /\ strikes[n - f] \in Nat
    BY <1>4, <1>5, <2>3
  <2> QED
    BY <1>3, <2>4, <2>5
<1>7. account.lockedUntil = strikes[n] + Lockout
  BY <1>1, <1>2, <1>6 DEF Counted
<1>8. n \in (n - Threshold + 1) .. n
  BY <1>2, <1>3
<1> QED
  BY <1>5, <1>7, <1>8

\* A session is opened only on an active account, by the right password, and
\* never while the last Threshold guesses were all wrong and all within the
\* lockout (record_failed_login and complete_login, against each other).
THEOREM LoginsAreGuarded == Spec => LoginsGuarded
<1>1. ASSUME AdminInv, [Next]_adminVars, NEW c \in Calls,
             sessions[c] = NoSession, sessions'[c] # NoSession, ~sessions'[c].revoked
      PROVE  account.status = "active" /\ calls[c].guess = "right" /\ ~Barred
  <2>1. TypeInv /\ Counted /\ \A u \in Calls : Admitted(u)
    BY <1>1 DEF AdminInv
  <2>2. sessions' # sessions /\ sessions[c].revoked
    BY <1>1 DEF NoSession
  <2>3. PICK u \in Calls : \/ CompleteLogin(u) \/ CleanupSessions(u)
                           \/ \E token \in granted : Logout(u, token)
    <3>1. ASSUME NEW u \in Calls, Request(u) PROVE \E token \in granted : Logout(u, token)
      BY <2>2, <3>1 DEF Request, Login, Operate
    <3>2. ASSUME NEW u \in Calls, Serve(u) PROVE CompleteLogin(u) \/ CleanupSessions(u)
      BY <2>2, <3>2 DEF Serve, LookUp, RecordFailure, Authenticate, StartAudit, ReadMaintenance,
                        SetMaintenance, FailAction, FinishAudit
    <3>3. ~(Bootstrap \/ Disable \/ Tick) /\ ~UNCHANGED adminVars
      BY <2>2 DEF Bootstrap, Disable, Tick, adminVars
    <3> QED
      BY <1>1, <3>1, <3>2, <3>3 DEF Next
  <2>4. ~CleanupSessions(u)
    BY <1>1 DEF CleanupSessions
  <2>5. ~\E token \in granted : Logout(u, token)
    <3>1. SUFFICES ASSUME NEW token \in granted, Logout(u, token) PROVE FALSE
      OBVIOUS
    <3>2. token \in Calls /\ sessions \in [Calls -> SessionRows]
      BY <2>1 DEF TypeInv, TypeOK
    <3>3. sessions'[c].revoked
      BY <2>2, <3>1, <3>2 DEF Logout, SessionRows
    <3> QED
      BY <1>1, <3>3
  <2>6. CompleteLogin(u) /\ Unchanged(u) /\ u = c
    BY <1>1, <2>1, <2>2, <2>3, <2>4, <2>5 DEF CompleteLogin, TypeInv
  <2>7. account.status = "active" /\ calls[c].guess = "right" /\ account # Absent
    BY <2>1, <2>6 DEF CompleteLogin, Unchanged, At, Admitted, Absent
  <2>8. ~Barred
    <3>1. calls[c].at \in Nat /\ calls[c].at <= now /\ now \in Nat /\ account.lockedUntil \in Nat
      BY <2>1, <2>6, <2>7, CallFields, AdminAssumption
         DEF CompleteLogin, At, Judged, TypeInv, TypeOK, Accounts
    <3>2. ~(account.lockedUntil > calls[c].at)
      BY <2>6 DEF Unchanged, Locked
    <3> QED
      BY <1>1, <2>7, <3>1, <3>2, BarredIsLocked
  <2> QED
    BY <2>7, <2>8
<1>2. ASSUME AdminInv, [Next]_adminVars
      PROVE  [\A c \in Calls :
                 (sessions[c] = NoSession /\ sessions'[c] # NoSession /\ ~sessions'[c].revoked)
                     => account.status = "active" /\ calls[c].guess = "right" /\ ~Barred]_adminVars
  BY <1>1, <1>2
<1> QED
  BY <1>2, AdminInvariant, PTL DEF Spec, LoginsGuarded

-----------------------------------------------------------------------------
(* Assistants: the inductive invariant                                     *)

Kinds == {"behaviour", "general"}
Pages ==
    {Closed} \union
    [kind : Kinds, assistant : Assistants, waits : Ids \union {None},
     refresh : States \union Rows \union {None}, shown : States \union Rows]
Asks ==
    [op : {"save"}, content : Contents] \union [op : {"publish"}] \union
    [op : {"update"}, fields : Updates]
RequestRows ==
    [id : Ids, assistant : Assistants, shown : States \union Rows, request : Asks,
     read : Rows \union {None}]
Kind(r) == IF r.request.op = "update" THEN "general" ELSE "behaviour"
Shown(kind) == IF kind = "behaviour" THEN States ELSE Rows

AssistantsTyped ==
    /\ rows \in [Assistants -> Rows \union {None, Gone}]
    /\ behaviours \in [Assistants -> Behaviours \union {None}]
    /\ owners \subseteq Assistants

BehavioursTyped ==
    /\ AssistantsTyped
    /\ pages \in [Editors -> Pages]
    /\ requests \subseteq RequestRows
    /\ IsFiniteSet(requests)
    /\ \A r, s \in requests : r.id = s.id => r = s

Whole(a) ==
    /\ Live(a) <=> behaviours[a] # None
    /\ Live(a) => behaviours[a].published \in 1 .. Len(behaviours[a].drafts)
    /\ a \in owners => Live(a)

\* What was read of an assistant once has an older token than the assistant, or
\* is all that there is to read of it now.
Past(kind, a, shown) ==
    /\ shown \in Shown(kind)
    /\ rows[a] # None
    /\ Live(a) => \/ Token(kind, shown) < Token(kind, Read(a, kind))
                  \/ shown = Read(a, kind)

Waits(page) ==
    \E r \in requests :
        r.id = page.waits /\ r.assistant = page.assistant /\ Kind(r) = page.kind

PageShows(e) ==
    pages[e] # Closed =>
        /\ Past(pages[e].kind, pages[e].assistant, pages[e].shown)
        /\ pages[e].refresh # None => Past(pages[e].kind, pages[e].assistant, pages[e].refresh)
        /\ pages[e].waits # None => Waits(pages[e])

\* The row a request has read is not older than the one its page showed.
Carries(r) ==
    /\ Past(Kind(r), r.assistant, r.shown)
    /\ r.read # None =>
          /\ r.request.op = "update"
          /\ Past("general", r.assistant, r.read)
          /\ r.shown.stamp <= r.read.stamp

BehavioursInv ==
    /\ BehavioursTyped
    /\ \A a \in Assistants : Whole(a)
    /\ \A e \in Editors : PageShows(e)
    /\ \A r \in requests : Carries(r)

-----------------------------------------------------------------------------
(* Assistants: what is read                                                *)

\* What can be read of an assistant.
LEMMA ReadFields ==
  ASSUME AssistantsTyped, NEW a \in Assistants, Whole(a), Live(a)
  PROVE  /\ rows[a] \in Rows /\ behaviours[a] \in Behaviours
         /\ Len(behaviours[a].drafts) \in Nat
         /\ behaviours[a].published \in 1 .. Len(behaviours[a].drafts)
         /\ State(a) \in States
         /\ \A kind \in Kinds : Read(a, kind) \in Shown(kind)
<1>1. rows[a] \in Rows
  BY DEF AssistantsTyped, Live
<1>2. behaviours[a] \in Behaviours /\ behaviours[a].published \in 1 .. Len(behaviours[a].drafts)
  BY DEF AssistantsTyped, Whole
<1>3. PICK drafts \in Seq(Contents) : drafts = behaviours[a].drafts
  BY <1>2 DEF Behaviours
<1>4. Len(drafts) \in Nat /\ Len(drafts) \in 1 .. Len(drafts)
  BY <1>2, <1>3
<1>5. drafts[Len(drafts)] \in Contents
  BY <1>4
<1>6. State(a) \in States
  BY <1>2, <1>3, <1>4, <1>5 DEF State, States, Behaviours
<1> QED
  BY <1>1, <1>2, <1>3, <1>4, <1>6 DEF Kinds, Read, Shown

\* Tokens are numbers, and what is shown is something.
LEMMA ShownFields ==
  ASSUME NEW kind \in Kinds, NEW x \in Shown(kind)
  PROVE  Token(kind, x) \in Nat /\ x # None /\ x \in States \union Rows
BY BehaviourAssumption DEF Kinds, Shown, Token, States, Rows

\* An assistant changes only with a later token, and comes but once.
Advances(a) ==
    rows[a] # None =>
        /\ rows'[a] # None
        /\ Live(a)' =>
              /\ Live(a)
              /\ \A kind \in Kinds :
                    \/ Read(a, kind)' = Read(a, kind)
                    \/ /\ Read(a, kind)' \in Shown(kind)
                       /\ Token(kind, Read(a, kind)) < Token(kind, Read(a, kind)')

\* What was read once stays read once.
LEMMA PastStays ==
  ASSUME BehavioursInv, NEW a \in Assistants, Advances(a), NEW kind \in Kinds, NEW x, Past(kind, a, x)
  PROVE  Past(kind, a, x)'
<1>1. x \in Shown(kind) /\ rows'[a] # None /\ Token(kind, x) \in Nat
  BY ShownFields DEF Past, Advances
<1>2. ASSUME Live(a)'
      PROVE  Token(kind, x) < Token(kind, Read(a, kind)') \/ x = Read(a, kind)'
  <2>1. Live(a) /\ AssistantsTyped /\ Whole(a)
    BY <1>2 DEF Past, Advances, BehavioursInv, BehavioursTyped
  <2>2. PICK now0 : now0 = Read(a, kind)
    OBVIOUS
  <2>3. PICK then : then = Read(a, kind)'
    OBVIOUS
  <2>4. now0 \in Shown(kind) /\ Token(kind, now0) \in Nat
    BY <2>1, <2>2, ReadFields, ShownFields
  <2>5. Token(kind, x) < Token(kind, now0) \/ x = now0
    BY <2>1, <2>2 DEF Past
  <2>6. then = now0 \/ (then \in Shown(kind) /\ Token(kind, now0) < Token(kind, then))
    BY <1>2, <2>2, <2>3 DEF Past, Advances
  <2>7. CASE then = now0
    BY <2>3, <2>5, <2>7
  <2>8. CASE then \in Shown(kind) /\ Token(kind, now0) < Token(kind, then)
    <3>1. Token(kind, then) \in Nat
      BY <2>8, ShownFields
    <3>2. Token(kind, x) < Token(kind, then)
      BY <1>1, <2>4, <2>5, <2>8, <3>1
    <3> QED
      BY <2>3, <3>2
  <2> QED
    BY <2>6, <2>7, <2>8
<1> QED
  BY <1>1, <1>2 DEF Past, Token, Shown

-----------------------------------------------------------------------------
(* Assistants: steps                                                       *)

\* An assistant comes, goes, or gets a source.
LEMMA AssistantKeeps ==
  ASSUME BehavioursInv, NEW a \in Assistants, Create(a) \/ Delete(a) \/ AddSource(a)
  PROVE  BehavioursInv'
<1>1. BehavioursTyped /\ AssistantsTyped /\ UNCHANGED <<requests, pages>>
  BY DEF BehavioursInv, BehavioursTyped, Create, Delete, AddSource
<1>2. ASSUME NEW row \in Rows \union {Gone}, NEW b \in Behaviours \union {None},
             rows' = [rows EXCEPT ![a] = row], behaviours' = [behaviours EXCEPT ![a] = b],
             row = Gone <=> b = None, b # None => b.published \in 1 .. Len(b.drafts),
             rows[a] # None => row = Gone, a \notin owners \/ row # Gone, UNCHANGED owners
      PROVE  BehavioursInv'
  <2>1. /\ rows'[a] = row /\ behaviours'[a] = b
        /\ \A u \in Assistants \ {a} : rows'[u] = rows[u] /\ behaviours'[u] = behaviours[u]
    BY <1>1, <1>2 DEF AssistantsTyped
  <2>2. AssistantsTyped'
    BY <1>1, <1>2 DEF AssistantsTyped
  <2>3. row # None
    BY <1>2, BehaviourAssumption
  <2>4. ASSUME NEW u \in Assistants PROVE Whole(u)'
    <3>1. CASE u = a
      BY <1>2, <2>1, <2>3, <3>1, BehaviourAssumption DEF Whole, Live
    <3>2. CASE u # a
      BY <1>2, <2>1, <3>2 DEF BehavioursInv, Whole, Live
    <3> QED
      BY <3>1, <3>2
  <2>5. ASSUME NEW u \in Assistants PROVE Advances(u)
    <3>1. CASE u = a
      BY <1>2, <2>1, <2>3, <3>1 DEF Advances, Live
    <3>2. CASE u # a
      BY <2>1, <3>2 DEF Advances, Live, Read, State
    <3> QED
      BY <3>1, <3>2
  <2>6. \A e \in Editors : PageShows(e)'
    <3>1. SUFFICES ASSUME NEW e \in Editors, pages[e] # Closed PROVE PageShows(e)'
      BY <1>1 DEF PageShows
    <3>2. pages[e].assistant \in Assistants /\ pages[e].kind \in Kinds
      BY <1>1, <3>1 DEF BehavioursTyped, Pages
    <3>3. PageShows(e)
      BY DEF BehavioursInv
    <3> QED
      BY <1>1, <2>5, <3>1, <3>2, <3>3, PastStays DEF PageShows, Waits
  <2>7. \A r \in requests : Carries(r)'
    <3>1. SUFFICES ASSUME NEW r \in requests PROVE Carries(r)'
      OBVIOUS
    <3>2. r.assistant \in Assistants /\ Kind(r) \in Kinds /\ "general" \in Kinds
      BY <1>1 DEF BehavioursTyped, RequestRows, Kind, Kinds
    <3>3. Carries(r)
      BY DEF BehavioursInv
    <3> QED
      BY <1>1, <2>5, <3>2, <3>3, PastStays DEF Carries
  <2> QED
    BY <1>1, <2>2, <2>4, <2>6, <2>7 DEF BehavioursInv, BehavioursTyped
<1>3. CASE Create(a)
  <2>1. PICK row : row = [name |-> FirstName, public |-> FALSE, stamp |-> 0]
    OBVIOUS
  <2>2. PICK b : b = [drafts |-> <<Default>>, published |-> 1, version |-> 1]
    OBVIOUS
  <2>3. row \in Rows /\ row # Gone
    <3>1. FirstName \in Names
      BY DEF Names
    <3>2. row \in Rows
      BY <2>1, <3>1 DEF Rows
    <3> QED
      BY <3>2, BehaviourAssumption
  <2>4. b \in Behaviours /\ b # None /\ b.published \in 1 .. Len(b.drafts)
    <3>1. <<Default>> \in Seq(Contents) /\ Len(<<Default>>) = 1
      BY BehaviourAssumption
    <3>2. b \in Behaviours
      BY <2>2, <3>1 DEF Behaviours
    <3> QED
      BY <2>2, <3>1, <3>2, BehaviourAssumption
  <2> QED
    BY <1>2, <1>3, <2>1, <2>2, <2>3, <2>4 DEF Create
<1>4. CASE Delete(a)
  BY <1>2, <1>4 DEF Delete, Live
<1>5. CASE AddSource(a)
  <2>1. owners' = owners \union {a} /\ Live(a) /\ UNCHANGED <<rows, behaviours>>
    BY <1>5 DEF AddSource
  <2>2. BehavioursTyped'
    BY <1>1, <2>1 DEF BehavioursTyped, AssistantsTyped
  <2>3. \A u \in Assistants : Whole(u)'
    BY <2>1 DEF BehavioursInv, Whole, Live
  <2>4. \A e \in Editors : PageShows(e)'
    BY <1>1, <2>1 DEF BehavioursInv, PageShows, Past, Waits, Live, Read, State
  <2>5. \A r \in requests : Carries(r)'
    BY <1>1, <2>1 DEF BehavioursInv, Carries, Past, Live, Read, State
  <2> QED
    BY <1>1, <2>2, <2>3, <2>4, <2>5 DEF BehavioursInv
<1> QED
  BY <1>3, <1>4, <1>5

\* A page does something by itself, or asks for something.
LEMMA PageStep ==
  ASSUME BehavioursInv, NEW e \in Editors, NEW page \in Pages,
         pages' = [pages EXCEPT ![e] = page], UNCHANGED <<rows, behaviours, owners>>,
         requests \subseteq requests', requests' \subseteq RequestRows, IsFiniteSet(requests'),
         \A r, s \in requests' : r.id = s.id => r = s,
         \A r \in requests' \ requests : Carries(r),
         page # Closed => Past(page.kind, page.assistant, page.shown),
         page # Closed /\ page.refresh # None => Past(page.kind, page.assistant, page.refresh),
         page # Closed /\ page.waits # None => Waits(page)'
  PROVE  BehavioursInv'
<1>1. BehavioursTyped /\ pages'[e] = page /\ \A u \in Editors \ {e} : pages'[u] = pages[u]
  BY DEF BehavioursInv, BehavioursTyped
<1>2. BehavioursTyped'
  BY <1>1 DEF BehavioursTyped, AssistantsTyped
<1>3. \A a \in Assistants : Whole(a)'
  BY DEF BehavioursInv, Whole, Live
<1>4. ASSUME NEW kind, NEW a, NEW x, Past(kind, a, x) PROVE Past(kind, a, x)'
  BY <1>4 DEF Past, Live, Read, State
<1>5. ASSUME NEW u \in Editors PROVE PageShows(u)'
  <2>1. CASE u = e
    BY <1>1, <1>4, <2>1 DEF PageShows, Waits
  <2>2. CASE u # e
    BY <1>1, <1>4, <2>2 DEF BehavioursInv, PageShows, Waits
  <2> QED
    BY <2>1, <2>2
<1>6. \A r \in requests' : Carries(r)'
  <2>1. SUFFICES ASSUME NEW r \in requests' PROVE Carries(r)'
    OBVIOUS
  <2>2. Carries(r)
    BY DEF BehavioursInv
  <2> QED
    BY <1>4, <2>2 DEF Carries
<1> QED
  BY <1>2, <1>3, <1>5, <1>6 DEF BehavioursInv

\* A page is opened, refreshed or loaded again, or stops waiting.
LEMMA PageKeeps ==
  ASSUME BehavioursInv, NEW e \in Editors,
         \/ \E a \in Assistants, kind \in Kinds : Open(e, a, kind)
         \/ Failed(e) \/ Reload(e) \/ Refresh(e) \/ Refreshed(e)
  PROVE  BehavioursInv'
<1>1. BehavioursTyped /\ AssistantsTyped /\ \A a \in Assistants : Whole(a)
  BY DEF BehavioursInv, BehavioursTyped
<1>2. UNCHANGED <<rows, behaviours, owners, requests>>
  BY DEF Open, Failed, Reload, Refresh, Refreshed
<1>3. ASSUME NEW page \in Pages, pages' = [pages EXCEPT ![e] = page], page # Closed,
             Past(page.kind, page.assistant, page.shown),
             page.refresh # None => Past(page.kind, page.assistant, page.refresh),
             page.waits # None => Waits(page)
      PROVE  BehavioursInv'
  BY <1>1, <1>2, <1>3, PageStep DEF BehavioursTyped, Waits
<1>4. ASSUME NEW a \in Assistants, NEW kind \in Kinds, Live(a)
      PROVE  /\ Past(kind, a, Read(a, kind)) /\ Read(a, kind) # None
             /\ Read(a, kind) \in States \union Rows
  BY <1>1, <1>4, ReadFields, ShownFields DEF Past, Live
<1>5. ASSUME NEW a \in Assistants, NEW kind \in Kinds, Open(e, a, kind) PROVE BehavioursInv'
  <2>1. PICK page : page = [kind |-> kind, assistant |-> a, waits |-> None, refresh |-> None,
                            shown |-> Read(a, kind)]
    OBVIOUS
  <2>2. Past(kind, a, Read(a, kind)) /\ Read(a, kind) \in States \union Rows
    BY <1>4, <1>5 DEF Open
  <2>3. page \in Pages /\ page # Closed
    BY <2>1, <2>2 DEF Pages, Closed, Kinds
  <2> QED
    BY <1>3, <1>5, <2>1, <2>2, <2>3 DEF Open
<1>6. ASSUME pages[e] # Closed, NEW page, pages' = [pages EXCEPT ![e] = page],
             \/ page = [pages[e] EXCEPT !.waits = None]
             \/ /\ Live(pages[e].assistant)
                /\ \/ page = [pages[e] EXCEPT !.refresh = Read(pages[e].assistant, pages[e].kind)]
                   \/ page = [pages[e] EXCEPT !.shown = Read(pages[e].assistant, pages[e].kind),
                                              !.waits = None]
             \/ /\ pages[e].refresh # None
                /\ page = [pages[e] EXCEPT !.shown = pages[e].refresh, !.refresh = None]
      PROVE  BehavioursInv'
  <2>1. PICK p : p = pages[e]
    OBVIOUS
  <2>2. p \in Pages \ {Closed} /\ p.assistant \in Assistants /\ p.kind \in Kinds
    BY <1>1, <1>6, <2>1 DEF BehavioursTyped, Pages
  <2>3. /\ Past(p.kind, p.assistant, p.shown)
        /\ p.refresh # None => Past(p.kind, p.assistant, p.refresh)
        /\ p.waits # None => Waits(p)
    BY <1>6, <2>1 DEF BehavioursInv, PageShows
  <2>4. PICK r : r = Read(p.assistant, p.kind)
    OBVIOUS
  <2>5. Live(p.assistant) => Past(p.kind, p.assistant, r) /\ r \in States \union Rows
    BY <1>4, <2>2, <2>4
  <2>6. CASE page = [p EXCEPT !.waits = None]
    <3>1. page \in Pages \ {Closed}
      BY <2>2, <2>6 DEF Pages, Closed, Kinds
    <3>2. /\ page.kind = p.kind /\ page.assistant = p.assistant /\ page.waits = None
          /\ page.shown = p.shown /\ page.refresh = p.refresh
      BY <2>2, <2>6 DEF Pages
    <3> QED
      BY <1>3, <1>6, <2>3, <3>1, <3>2
  <2>7. CASE Live(p.assistant) /\ page = [p EXCEPT !.refresh = r]
    <3>1. page \in Pages \ {Closed}
      BY <2>2, <2>5, <2>7 DEF Pages, Closed, Kinds
    <3>2. /\ page.kind = p.kind /\ page.assistant = p.assistant /\ page.waits = p.waits
          /\ page.shown = p.shown /\ page.refresh = r
      BY <2>2, <2>7 DEF Pages
    <3> QED
      BY <1>3, <1>6, <2>3, <2>5, <2>7, <3>1, <3>2 DEF Waits
  <2>8. CASE p.refresh # None /\ page = [p EXCEPT !.shown = p.refresh, !.refresh = None]
    <3>1. page \in Pages \ {Closed}
      BY <2>2, <2>8 DEF Pages, Closed, Kinds
    <3>2. /\ page.kind = p.kind /\ page.assistant = p.assistant /\ page.waits = p.waits
          /\ page.shown = p.refresh /\ page.refresh = None
      BY <2>2, <2>8 DEF Pages
    <3> QED
      BY <1>3, <1>6, <2>3, <2>8, <3>1, <3>2 DEF Waits
  <2>9. CASE Live(p.assistant) /\ page = [p EXCEPT !.shown = r, !.waits = None]
    <3>1. page \in Pages \ {Closed}
      BY <2>2, <2>5, <2>9 DEF Pages, Closed, Kinds
    <3>2. /\ page.kind = p.kind /\ page.assistant = p.assistant /\ page.waits = None
          /\ page.shown = r /\ page.refresh = p.refresh
      BY <2>2, <2>9 DEF Pages
    <3> QED
      BY <1>3, <1>6, <2>3, <2>5, <2>9, <3>1, <3>2
  <2> QED
    BY <1>6, <2>1, <2>4, <2>6, <2>7, <2>8, <2>9
<1>7. CASE Failed(e) \/ Refreshed(e)
  BY <1>6, <1>7 DEF Failed, Refreshed
<1>8. CASE Reload(e)
  <2>1. pages[e] # Closed /\ Live(pages[e].assistant) /\ pages[e].kind = "general"
    BY <1>8 DEF Reload, Closed
  <2>2. PICK p : p = pages[e]
    OBVIOUS
  <2>3. Read(p.assistant, p.kind) = rows[p.assistant]
    BY <2>1, <2>2 DEF Read
  <2>4. PICK page : page = [p EXCEPT !.shown = rows[p.assistant], !.waits = None]
    OBVIOUS
  <2>5. pages' = [pages EXCEPT ![e] = page]
    BY <1>1, <1>8, <2>2, <2>4 DEF Reload, BehavioursTyped
  <2> QED
    BY <1>6, <2>1, <2>2, <2>3, <2>4, <2>5
<1>9. CASE Refresh(e)
  <2>1. /\ pages[e] # Closed /\ Live(pages[e].assistant)
        /\ Read(pages[e].assistant, pages[e].kind) = State(pages[e].assistant)
    BY <1>9 DEF Refresh, Closed, Read
  <2> QED
    BY <1>6, <1>9, <2>1 DEF Refresh
<1> QED
  BY <1>5, <1>7, <1>8, <1>9

\* While fewer requests than the bound are under way, an identity is free.
LEMMA FreeId ==
  ASSUME BehavioursTyped, UnderWay < MaxRequests
  PROVE  \E n \in Ids : \A r \in requests : r.id # n
<1>1. MaxRequests \in Nat \ {0} /\ IsFiniteSet(Editors) /\ IsFiniteSet(requests)
  BY BehaviourAssumption DEF BehavioursTyped
<1>2. PICK shown : shown = {e \in Editors : pages[e] # Closed /\ pages[e].refresh # None}
  OBVIOUS
<1>3. IsFiniteSet(shown) /\ Cardinality(shown) \in Nat /\ Cardinality(requests) \in Nat
  BY <1>1, <1>2, FS_Subset, FS_CardinalityType
<1>4. Cardinality(requests) < MaxRequests
  BY <1>1, <1>2, <1>3 DEF UnderWay
<1>5. PICK taken : taken = {r.id : r \in requests}
  OBVIOUS
<1>6. [r \in requests |-> r.id] \in Surjection(requests, taken)
  BY <1>5 DEF Surjection
<1>7. IsFiniteSet(taken) /\ Cardinality(taken) <= Cardinality(requests) /\ Cardinality(taken) \in Nat
  BY <1>1, <1>6, FS_Surjection, FS_CardinalityType
<1>8. IsFiniteSet(Ids) /\ Cardinality(Ids) = MaxRequests
  BY <1>1, FS_Interval DEF Ids
<1>9. ~(Ids \subseteq taken)
  <2>1. SUFFICES ASSUME Ids \subseteq taken PROVE FALSE
    OBVIOUS
  <2>2. Cardinality(Ids) <= Cardinality(taken)
    BY <1>7, <2>1, FS_Subset
  <2> QED
    BY <1>1, <1>3, <1>4, <1>7, <1>8, <2>2
<1> QED
  BY <1>5, <1>9

\* A page sends a request about what it shows.
LEMMA SendKeeps ==
  ASSUME BehavioursInv, NEW e \in Editors, NEW request \in Asks, Send(e, request), pages[e] # Closed,
         pages[e].kind = (IF request.op = "update" THEN "general" ELSE "behaviour")
  PROVE  BehavioursInv'
<1>1. BehavioursTyped /\ PageShows(e)
  BY DEF BehavioursInv
<1>2. PICK p : p = pages[e] /\ p \in Pages \ {Closed}
  BY <1>1 DEF BehavioursTyped
<1>3. /\ p.assistant \in Assistants /\ p.kind \in Kinds /\ p.shown \in States \union Rows
      /\ p.waits = None
  BY <1>2 DEF Pages, Send
<1>4. /\ Past(p.kind, p.assistant, p.shown)
      /\ p.refresh # None => Past(p.kind, p.assistant, p.refresh)
  BY <1>1, <1>2 DEF PageShows
<1>5. PICK id \in Ids :
         /\ id = CHOOSE n \in Ids : \A r \in requests : r.id # n
         /\ \A r \in requests : r.id # id
  BY <1>1, FreeId DEF Send
<1>6. PICK sent : sent = [id |-> id, assistant |-> p.assistant, shown |-> p.shown,
                          request |-> request, read |-> None]
  OBVIOUS
<1>7. sent \in RequestRows
  BY <1>3, <1>6 DEF RequestRows
<1>8. /\ requests' = requests \union {sent}
      /\ pages' = [pages EXCEPT ![e].waits = id]
      /\ UNCHANGED <<rows, behaviours, owners>>
  BY <1>2, <1>5, <1>6 DEF Send
<1>9. PICK page : page = [p EXCEPT !.waits = id]
  OBVIOUS
<1>10. page \in Pages \ {Closed}
  BY <1>2, <1>9 DEF Pages, Closed, Kinds
<1>11. /\ page.kind = p.kind /\ page.assistant = p.assistant /\ page.waits = id
       /\ page.shown = p.shown /\ page.refresh = p.refresh
  BY <1>2, <1>9 DEF Pages
<1>12. pages' = [pages EXCEPT ![e] = page]
  BY <1>1, <1>2, <1>8, <1>9 DEF BehavioursTyped
<1>13. Kind(sent) = p.kind /\ sent.read = None /\ sent.id = id
       /\ sent.assistant = p.assistant /\ sent.shown = p.shown
  BY <1>2, <1>6 DEF Kind
<1>14. Carries(sent) /\ Waits(page)'
  BY <1>4, <1>8, <1>11, <1>13 DEF Carries, Waits
<1>15. IsFiniteSet(requests') /\ requests' \subseteq RequestRows
       /\ \A r, s \in requests' : r.id = s.id => r = s
  BY <1>1, <1>5, <1>7, <1>8, <1>13, FS_AddElement DEF BehavioursTyped
<1>16. \A r \in requests' \ requests : Carries(r)
  BY <1>8, <1>14
<1>17. /\ Past(page.kind, page.assistant, page.shown)
       /\ page.refresh # None => Past(page.kind, page.assistant, page.refresh)
  BY <1>4, <1>11
<1> QED
  BY <1>8, <1>10, <1>12, <1>14, <1>15, <1>16, <1>17, PageStep

\* An update reads the row that it will write.
LEMMA ReadKeeps ==
  ASSUME BehavioursInv, NEW r \in requests, ReadRow(r)
  PROVE  BehavioursInv'
<1>1. BehavioursTyped /\ AssistantsTyped /\ \A a \in Assistants : Whole(a)
  BY DEF BehavioursInv, BehavioursTyped
<1>2. r \in RequestRows /\ r.assistant \in Assistants /\ r.request.op = "update" /\ Live(r.assistant)
  BY <1>1 DEF BehavioursTyped, RequestRows, ReadRow
<1>3. PICK row \in Rows : row = rows[r.assistant]
  BY <1>1, <1>2, ReadFields
<1>4. PICK s : s = [r EXCEPT !.read = row]
  OBVIOUS
<1>5. s \in RequestRows
  BY <1>2, <1>3, <1>4 DEF RequestRows
<1>6. /\ s.id = r.id /\ s.assistant = r.assistant /\ s.shown = r.shown
      /\ s.request = r.request /\ s.read = row
  BY <1>2, <1>4 DEF RequestRows
<1>7. /\ requests' = (requests \ {r}) \union {s}
      /\ UNCHANGED <<rows, behaviours, owners, pages>>
  BY <1>3, <1>4 DEF ReadRow
<1>8. Carries(s)
  <2>1. Past("general", r.assistant, r.shown)
    BY <1>2 DEF BehavioursInv, Carries, Kind
  <2>2. r.shown \in Rows /\ r.shown.stamp \in Nat /\ row.stamp \in Nat
    BY <1>3, <2>1 DEF Past, Shown, Rows
  <2>3. r.shown.stamp < row.stamp \/ r.shown = row
    BY <1>2, <1>3, <2>1 DEF Past, Read, Token
  <2>4. Past("general", r.assistant, row)
    BY <1>2, <1>3, BehaviourAssumption DEF Past, Shown, Read, Live
  <2> QED
    BY <1>2, <1>6, <2>1, <2>2, <2>3, <2>4 DEF Carries, Kind
<1>9. BehavioursTyped'
  <2>1. IsFiniteSet(requests')
    BY <1>1, <1>7, FS_AddElement, FS_RemoveElement DEF BehavioursTyped
  <2>2. requests' \subseteq RequestRows /\ \A t, u \in requests' : t.id = u.id => t = u
    BY <1>1, <1>5, <1>6, <1>7 DEF BehavioursTyped
  <2> QED
    BY <1>1, <1>7, <2>1, <2>2 DEF BehavioursTyped, AssistantsTyped
<1>10. \A a \in Assistants : Whole(a)'
  BY <1>1, <1>7 DEF Whole, Live
<1>11. ASSUME NEW kind, NEW a, NEW x, Past(kind, a, x) PROVE Past(kind, a, x)'
  BY <1>7, <1>11 DEF Past, Live, Read, State
<1>12. ASSUME NEW e \in Editors PROVE PageShows(e)'
  <2>1. PageShows(e)
    BY DEF BehavioursInv
  <2>2. ASSUME Waits(pages[e]) PROVE Waits(pages[e])'
    BY <1>6, <1>7, <2>2 DEF Waits, Kind
  <2> QED
    BY <1>7, <1>11, <2>1, <2>2 DEF PageShows
<1>13. \A t \in requests' : Carries(t)'
  <2>1. SUFFICES ASSUME NEW t \in requests' PROVE Carries(t)'
    OBVIOUS
  <2>2. Carries(t)
    BY <1>7, <1>8 DEF BehavioursInv
  <2> QED
    BY <1>11, <2>2 DEF Carries
<1> QED
  BY <1>9, <1>10, <1>12, <1>13 DEF BehavioursInv

\* A request ends: a page that waits for it shows its answer.
LEMMA EndKeeps ==
  ASSUME BehavioursInv, NEW r \in requests, NEW answer, End(r, answer), AssistantsTyped',
         \A a \in Assistants : Whole(a)' /\ Advances(a),
         answer = None \/ Past(Kind(r), r.assistant, answer)'
  PROVE  BehavioursInv'
<1>1. BehavioursTyped
  BY DEF BehavioursInv
<1>2. requests' = requests \ {r}
  BY DEF End
<1>3. r.assistant \in Assistants /\ Kind(r) \in Kinds
  BY <1>1 DEF BehavioursTyped, RequestRows, Kind, Kinds
<1>4. answer # None => answer \in States \union Rows
  BY <1>3, ShownFields DEF Past, Shown
<1>5. ASSUME NEW e \in Editors PROVE pages'[e] \in Pages /\ PageShows(e)'
  <2>1. PICK p : p = pages[e]
    OBVIOUS
  <2>2. p \in Pages /\ PageShows(e)
    BY <1>1, <2>1 DEF BehavioursInv, BehavioursTyped
  <2>3. p # Closed => p.assistant \in Assistants /\ p.kind \in Kinds
    BY <2>2 DEF Pages
  <2>4. p # Closed => /\ Past(p.kind, p.assistant, p.shown)'
                      /\ p.refresh # None => Past(p.kind, p.assistant, p.refresh)'
    BY <2>1, <2>2, <2>3, PastStays DEF PageShows
  <2>5. CASE p # Closed /\ p.waits = r.id
    <3>1. PICK shown : shown = IF answer = None THEN p.shown ELSE answer
      OBVIOUS
    <3>2. PICK page : page = [p EXCEPT !.shown = shown, !.waits = None]
      OBVIOUS
    <3>3. pages'[e] = page
      BY <2>1, <2>5, <3>1, <3>2 DEF End
    <3>4. shown \in States \union Rows
      BY <1>4, <2>2, <2>5, <3>1 DEF Pages
    <3>5. /\ page \in Pages /\ page.kind = p.kind /\ page.assistant = p.assistant
          /\ page.waits = None /\ page.refresh = p.refresh /\ page.shown = shown
      BY <2>2, <2>5, <3>2, <3>4 DEF Pages
    <3>6. p.waits # None
      BY <1>1, <2>5, BehaviourAssumption DEF BehavioursTyped, RequestRows
    <3>7. PICK s \in requests : s.id = r.id /\ s.assistant = p.assistant /\ Kind(s) = p.kind
      BY <2>1, <2>2, <2>5, <3>6 DEF PageShows, Waits
    <3>8. p.assistant = r.assistant /\ p.kind = Kind(r)
      BY <1>1, <3>7 DEF BehavioursTyped
    <3>9. Past(p.kind, p.assistant, shown)'
      BY <2>4, <2>5, <3>1, <3>8
    <3> QED
      BY <2>4, <2>5, <3>3, <3>5, <3>9 DEF PageShows
  <2>6. CASE ~(p # Closed /\ p.waits = r.id)
    <3>1. pages'[e] = p
      BY <2>1, <2>6 DEF End
    <3>2. p # Closed /\ p.waits # None => Waits(p)'
      BY <1>2, <2>1, <2>2, <2>6 DEF PageShows, Waits
    <3> QED
      BY <2>2, <2>4, <3>1, <3>2 DEF PageShows
  <2> QED
    BY <2>5, <2>6
<1>6. BehavioursTyped'
  <2>1. pages' \in [Editors -> Pages]
    BY <1>5 DEF End
  <2>2. IsFiniteSet(requests')
    BY <1>1, <1>2, FS_RemoveElement DEF BehavioursTyped
  <2> QED
    BY <1>1, <1>2, <2>1, <2>2 DEF BehavioursTyped
<1>7. ASSUME NEW s \in requests' PROVE Carries(s)'
  <2>1. Carries(s) /\ s.assistant \in Assistants /\ Kind(s) \in Kinds /\ "general" \in Kinds
    BY <1>1, <1>2 DEF BehavioursInv, BehavioursTyped, RequestRows, Kind, Kinds
  <2> QED
    BY <2>1, PastStays DEF Carries
<1> QED
  BY <1>5, <1>6, <1>7 DEF BehavioursInv

\* A behaviour is stored: as it was, or with a later version.
LEMMA StoreKeeps ==
  ASSUME BehavioursInv, NEW r \in requests, Live(r.assistant), Kind(r) = "behaviour",
         NEW b \in Behaviours, Store(r, b), b.published \in 1 .. Len(b.drafts),
         b = behaviours[r.assistant] \/ b.version > behaviours[r.assistant].version
  PROVE  BehavioursInv'
<1>1. BehavioursTyped /\ AssistantsTyped /\ \A u \in Assistants : Whole(u)
  BY DEF BehavioursInv, BehavioursTyped
<1>2. PICK a \in Assistants : a = r.assistant
  BY <1>1 DEF BehavioursTyped, RequestRows
<1>3. /\ behaviours' = [behaviours EXCEPT ![a] = b] /\ UNCHANGED <<rows, owners>>
      /\ End(r, StateAfter(b))
  BY <1>2 DEF Store, End
<1>4. behaviours'[a] = b /\ \A u \in Assistants \ {a} : behaviours'[u] = behaviours[u]
  BY <1>1, <1>3 DEF AssistantsTyped
<1>5. AssistantsTyped'
  BY <1>1, <1>3 DEF AssistantsTyped
<1>6. ASSUME NEW u \in Assistants PROVE Whole(u)'
  <2>1. CASE u = a
    BY <1>1, <1>2, <1>3, <1>4, <2>1, BehaviourAssumption DEF Whole, Live
  <2>2. CASE u # a
    BY <1>1, <1>3, <1>4, <2>2 DEF Whole, Live
  <2> QED
    BY <2>1, <2>2
<1>7. Live(a) /\ Live(a)'
  BY <1>2, <1>3 DEF Live
<1>8. State(a)' = StateAfter(b) /\ State(a)' \in States
  <2>1. State(a)' = StateAfter(b)
    BY <1>4 DEF State, StateAfter
  <2>2. Len(b.drafts) \in Nat /\ Len(b.drafts) \in 1 .. Len(b.drafts) /\ b.drafts \in Seq(Contents)
    BY DEF Behaviours
  <2>3. b.drafts[Len(b.drafts)] \in Contents
    BY <2>2
  <2> QED
    BY <2>1, <2>2, <2>3 DEF StateAfter, States, Behaviours
<1>9. ASSUME NEW u \in Assistants PROVE Advances(u)
  <2>1. CASE u = a
    <3>1. Read(a, "general")' = Read(a, "general")
      BY <1>3 DEF Read
    <3>2. CASE b = behaviours[a]
      BY <1>2, <1>4, <1>7, <2>1, <3>1, <3>2 DEF Advances, Kinds, Read, State, Live
    <3>3. CASE b.version > behaviours[a].version
      <4>1. Read(a, "behaviour")' = State(a)' /\ Read(a, "behaviour") = State(a)
        BY DEF Read
      <4>2. State(a)'.token = b.version /\ State(a).token = behaviours[a].version
        BY <1>8 DEF State, StateAfter
      <4>3. b.version \in Nat /\ behaviours[a].version \in Nat
        BY <1>1, <1>7, ReadFields DEF Behaviours
      <4>4. /\ Read(a, "behaviour")' \in Shown("behaviour")
            /\ Token("behaviour", Read(a, "behaviour")) < Token("behaviour", Read(a, "behaviour")')
        BY <1>8, <3>3, <4>1, <4>2, <4>3 DEF Shown, Token
      <4>5. rows'[a] # None
        BY <1>7 DEF Live
      <4> QED
        BY <1>7, <2>1, <3>1, <4>4, <4>5 DEF Advances, Kinds
    <3> QED
      BY <1>2, <3>2, <3>3
  <2>2. CASE u # a
    BY <1>3, <1>4, <2>2 DEF Advances, Live, Read, State
  <2> QED
    BY <2>1, <2>2
<1>10. Past(Kind(r), a, StateAfter(b))'
  <2>1. PICK s : s = StateAfter(b)
    OBVIOUS
  <2>2. Past("behaviour", a, s)'
    BY <1>7, <1>8, <2>1 DEF Past, Shown, Read, Live
  <2> QED
    BY <2>1, <2>2
<1> QED
  BY <1>2, <1>3, <1>5, <1>6, <1>9, <1>10, EndKeeps

\* A request is refused, saves a draft or publishes one.
LEMMA BehaviourKeeps ==
  ASSUME BehavioursInv, NEW r \in requests, Refuse(r) \/ SaveDraft(r) \/ PublishDraft(r)
  PROVE  BehavioursInv'
<1>1. BehavioursTyped /\ AssistantsTyped /\ \A u \in Assistants : Whole(u)
  BY DEF BehavioursInv, BehavioursTyped
<1>2. r.assistant \in Assistants /\ r.request \in Asks
  BY <1>1 DEF BehavioursTyped, RequestRows
<1>3. CASE Refuse(r)
  <2>1. End(r, None) /\ UNCHANGED <<rows, behaviours, owners>>
    BY <1>3 DEF Refuse, End
  <2>2. AssistantsTyped'
    BY <1>1, <2>1 DEF AssistantsTyped
  <2>3. \A u \in Assistants : Whole(u)' /\ Advances(u)
    BY <1>1, <2>1 DEF Whole, Advances, Live, Read, State
  <2> QED
    BY <2>1, <2>2, <2>3, EndKeeps
<1>4. ASSUME SaveDraft(r) \/ PublishDraft(r)
      PROVE  /\ Live(r.assistant) /\ Kind(r) = "behaviour"
             /\ behaviours[r.assistant] \in Behaviours
             /\ behaviours[r.assistant].published \in 1 .. Len(behaviours[r.assistant].drafts)
             /\ behaviours[r.assistant].version \in Nat
  BY <1>1, <1>2, <1>4, ReadFields DEF SaveDraft, PublishDraft, Kind, Behaviours
<1>5. CASE SaveDraft(r)
  <2>1. PICK b \in Behaviours : b = behaviours[r.assistant] /\ b.published \in 1 .. Len(b.drafts)
    BY <1>4, <1>5
  <2>2. PICK new : new = [b EXCEPT !.drafts = Append(@, r.request.content), !.version = @ + 1]
    OBVIOUS
  <2>3. r.request.content \in Contents
    BY <1>2, <1>5 DEF SaveDraft, Asks
  <2>4. /\ new \in Behaviours /\ new.published = b.published /\ new.version = b.version + 1
        /\ Len(new.drafts) = Len(b.drafts) + 1
    <3>1. /\ Append(b.drafts, r.request.content) \in Seq(Contents)
          /\ Len(Append(b.drafts, r.request.content)) = Len(b.drafts) + 1
      BY <2>3 DEF Behaviours
    <3>2. PICK drafts \in Seq(Contents), version \in Nat :
             drafts = Append(b.drafts, r.request.content) /\ version = b.version + 1
      <4>1. b.version + 1 \in Nat
        BY DEF Behaviours
      <4> QED
        BY <3>1, <4>1
    <3>3. new = [b EXCEPT !.drafts = drafts, !.version = version]
      BY <2>2, <3>2
    <3> QED
      BY <3>1, <3>2, <3>3 DEF Behaviours
  <2>5. new.published \in 1 .. Len(new.drafts) /\ new.version > b.version
    BY <2>1, <2>4 DEF Behaviours
  <2>6. Store(r, b) \/ Store(r, new)
    BY <1>5, <2>1, <2>2 DEF SaveDraft
  <2> QED
    BY <1>4, <1>5, <2>1, <2>4, <2>5, <2>6, StoreKeeps
<1>6. CASE PublishDraft(r)
  <2>1. PICK b \in Behaviours : b = behaviours[r.assistant] /\ b.published \in 1 .. Len(b.drafts)
    BY <1>4, <1>6
  <2>2. PICK new : new = Published(b, r.shown.draft)
    OBVIOUS
  <2>3. Store(r, b) \/ (Store(r, new) /\ r.shown.draft = Len(b.drafts))
    BY <1>6, <2>1, <2>2 DEF PublishDraft, MayPublish
  <2>4. ASSUME r.shown.draft = Len(b.drafts)
        PROVE  new \in Behaviours /\ new.published \in 1 .. Len(new.drafts) /\ new.version > b.version
    <3>1. Len(b.drafts) \in Nat /\ Len(b.drafts) \in 1 .. Len(b.drafts) /\ b.version \in Nat
      BY <2>1 DEF Behaviours
    <3>2. PICK draft \in Nat, version \in Nat : draft = Len(b.drafts) /\ version = b.version + 1
      BY <3>1
    <3>3. new = [b EXCEPT !.published = draft, !.version = version]
      BY <2>2, <2>4, <3>2 DEF Published
    <3>4. /\ new.drafts = b.drafts /\ new.published = draft /\ new.version = version
          /\ new \in Behaviours
      BY <3>2, <3>3 DEF Behaviours
    <3> QED
      BY <3>1, <3>2, <3>4
  <2> QED
    BY <1>4, <1>6, <2>1, <2>3, <2>4, StoreKeeps
<1> QED
  BY <1>3, <1>5, <1>6

\* What an update that is written has read and replaces.
LEMMA WrittenRow ==
  ASSUME BehavioursInv, NEW r \in requests, NEW clock \in 0 .. MaxClock, WriteRow(r, clock)
  PROVE  /\ r.assistant \in Assistants /\ Live(r.assistant)
         /\ r.request.op = "update" /\ r.request.fields \in Updates
         /\ rows[r.assistant] \in Rows /\ r.shown = rows[r.assistant] /\ r.read = rows[r.assistant]
         /\ Read(r.assistant, "general") = rows[r.assistant]
<1>1. BehavioursTyped /\ AssistantsTyped /\ \A u \in Assistants : Whole(u)
  BY DEF BehavioursInv, BehavioursTyped
<1>2. r.assistant \in Assistants /\ Live(r.assistant) /\ r.read # None /\ Carries(r) /\ r.request \in Asks
  BY <1>1 DEF BehavioursTyped, BehavioursInv, RequestRows, WriteRow
<1>3. r.request.op = "update" /\ r.request.fields \in Updates /\ Kind(r) = "general"
  BY <1>2 DEF Carries, Asks, Kind
<1>4. PICK row \in Rows : row = rows[r.assistant] /\ row = Read(r.assistant, "general")
  BY <1>1, <1>2, ReadFields DEF Read
<1>5. /\ r.shown \in Rows /\ r.read \in Rows /\ r.shown.stamp <= r.read.stamp
      /\ r.shown.stamp < row.stamp \/ r.shown = row
      /\ r.read.stamp < row.stamp \/ r.read = row
      /\ row.stamp = r.shown.stamp
  BY <1>2, <1>3, <1>4 DEF Carries, Past, Shown, Token, WriteRow
<1>6. r.shown.stamp \in Nat /\ r.read.stamp \in Nat /\ row.stamp \in Nat
  BY <1>4, <1>5 DEF Rows
<1> QED
  BY <1>2, <1>3, <1>4, <1>5, <1>6

\* An update writes its row.
LEMMA WriteKeeps ==
  ASSUME BehavioursInv, NEW r \in requests, NEW clock \in 0 .. MaxClock, WriteRow(r, clock)
  PROVE  BehavioursInv'
<1>1. BehavioursTyped /\ AssistantsTyped /\ \A u \in Assistants : Whole(u)
  BY DEF BehavioursInv, BehavioursTyped
<1>2. PICK a \in Assistants, row \in Rows :
         /\ a = r.assistant /\ row = rows[a] /\ Live(a) /\ r.request.fields \in Updates
         /\ r.read = row /\ Read(a, "general") = row /\ Kind(r) = "general"
  BY WrittenRow DEF Kind
<1>3. PICK new : new = [name |-> Field(r, "name"), public |-> Field(r, "public"),
                        stamp |-> NextStamp(clock, r.read)]
  OBVIOUS
<1>4. row.stamp \in Nat /\ NextStamp(clock, row) \in Nat /\ NextStamp(clock, row) > row.stamp
  BY BehaviourAssumption DEF Rows, NextStamp
<1>5. Field(r, "name") \in Names /\ Field(r, "public") \in BOOLEAN
  <2>1. PICK u \in Updates : u = r.request.fields
    BY <1>2
  <2>2. "name" \in DOMAIN u => u["name"] \in Names
    BY DEF Names
  <2>3. "public" \in DOMAIN u => u["public"] \in BOOLEAN
    BY BehaviourAssumption
  <2>4. row["name"] \in Names /\ row["public"] \in BOOLEAN
    BY DEF Rows
  <2> QED
    BY <1>2, <2>1, <2>2, <2>3, <2>4 DEF Field
<1>6. new \in Rows /\ new.stamp > row.stamp /\ new # None /\ new # Gone
  <2>1. new \in Rows /\ new.stamp = NextStamp(clock, row)
    BY <1>2, <1>3, <1>4, <1>5 DEF Rows
  <2> QED
    BY <1>4, <2>1, BehaviourAssumption
<1>7. /\ rows' = [rows EXCEPT ![a] = new] /\ End(r, new) /\ UNCHANGED <<behaviours, owners>>
  BY <1>2, <1>3 DEF WriteRow, End
<1>8. rows'[a] = new /\ \A u \in Assistants \ {a} : rows'[u] = rows[u]
  BY <1>1, <1>7 DEF AssistantsTyped
<1>9. AssistantsTyped'
  BY <1>1, <1>6, <1>7 DEF AssistantsTyped
<1>10. ASSUME NEW u \in Assistants PROVE Whole(u)' /\ Advances(u)
  <2>1. CASE u = a
    <3>1. Read(a, "behaviour")' = Read(a, "behaviour") /\ Read(a, "general")' = new
      BY <1>7, <1>8 DEF Read, State
    <3>2. Whole(a)'
      BY <1>1, <1>2, <1>6, <1>7, <1>8 DEF Whole, Live
    <3>3. Read(a, "general")' \in Shown("general")
          /\ Token("general", Read(a, "general")) < Token("general", Read(a, "general")')
      BY <1>2, <1>6, <3>1 DEF Shown, Token
    <3>4. Advances(a)
      BY <1>2, <1>6, <1>8, <3>1, <3>3 DEF Advances, Kinds
    <3> QED
      BY <2>1, <3>2, <3>4
  <2>2. CASE u # a
    BY <1>1, <1>7, <1>8, <2>2 DEF Whole, Advances, Live, Read, State
  <2> QED
    BY <2>1, <2>2
<1>11. Past("general", a, new)'
  BY <1>6, <1>8 DEF Past, Shown, Read
<1> QED
  BY <1>2, <1>7, <1>9, <1>10, <1>11, EndKeeps

-----------------------------------------------------------------------------
(* Assistants: what holds of every run                                     *)

\* The inductive invariant holds at first.
LEMMA BehavioursFirst ==
  ASSUME BehavioursInit
  PROVE  BehavioursInv
<1>1. BehavioursTyped
  BY FS_EmptySet DEF BehavioursInit, BehavioursTyped, AssistantsTyped, Pages
<1>2. \A a \in Assistants : Whole(a)
  BY DEF BehavioursInit, Whole, Live
<1> QED
  BY <1>1, <1>2 DEF BehavioursInit, BehavioursInv, PageShows

\* Every step of a page or of a request keeps it.
LEMMA BehavioursStep ==
  ASSUME BehavioursInv, [BehavioursNext]_behaviourVars
  PROVE  BehavioursInv'
<1>1. ASSUME NEW a \in Assistants, Create(a) \/ Delete(a) \/ AddSource(a) PROVE BehavioursInv'
  BY <1>1, AssistantKeeps
<1>2. ASSUME NEW e \in Editors, Edit(e) PROVE BehavioursInv'
  <2>1. CASE \E a \in Assistants, kind \in Kinds : Open(e, a, kind)
    BY <2>1, PageKeeps
  <2>2. CASE Failed(e) \/ Reload(e) \/ Refresh(e) \/ Refreshed(e)
    BY <2>2, PageKeeps
  <2>3. Closed.kind = "closed"
    BY DEF Closed
  <2>4. ASSUME NEW content \in Contents, Save(e, content) PROVE BehavioursInv'
    <3>1. PICK ask : ask = [op |-> "save", content |-> content]
      OBVIOUS
    <3>2. ask \in Asks /\ ask.op = "save"
      BY <3>1 DEF Asks
    <3> QED
      BY <2>3, <2>4, <3>1, <3>2, SendKeeps DEF Save
  <2>5. CASE Publish(e)
    <3>1. PICK ask : ask = [op |-> "publish"]
      OBVIOUS
    <3>2. ask \in Asks /\ ask.op = "publish"
      BY <3>1 DEF Asks
    <3> QED
      BY <2>3, <2>5, <3>1, <3>2, SendKeeps DEF Publish
  <2>6. ASSUME NEW fields \in Updates, Update(e, fields) PROVE BehavioursInv'
    <3>1. PICK ask : ask = [op |-> "update", fields |-> fields]
      OBVIOUS
    <3>2. ask \in Asks /\ ask.op = "update"
      BY <3>1 DEF Asks
    <3> QED
      BY <2>3, <2>6, <3>1, <3>2, SendKeeps DEF Update
  <2> QED
    BY <1>2, <2>1, <2>2, <2>4, <2>5, <2>6 DEF Edit, Kinds
<1>3. ASSUME NEW r \in requests, Handle(r) PROVE BehavioursInv'
  BY <1>3, BehaviourKeeps, ReadKeeps, WriteKeeps DEF Handle
<1>4. CASE UNCHANGED behaviourVars
  <2>1. UNCHANGED <<rows, behaviours, owners, requests, pages>>
    BY <1>4 DEF behaviourVars
  <2>2. BehavioursTyped' /\ \A a \in Assistants : Whole(a)'
    BY <2>1 DEF BehavioursInv, BehavioursTyped, AssistantsTyped, Whole, Live
  <2>3. \A e \in Editors : PageShows(e)'
    BY <2>1 DEF BehavioursInv, PageShows, Waits, Past, Live, Read, State
  <2>4. \A r \in requests : Carries(r)'
    BY <2>1 DEF BehavioursInv, Carries, Past, Live, Read, State
  <2> QED
    BY <2>1, <2>2, <2>3, <2>4 DEF BehavioursInv
<1> QED
  BY <1>1, <1>2, <1>3, <1>4 DEF BehavioursNext

\* What the rows, the pages and the requests say of each other in every state
\* (assistant_behaviour and assistant repositories, the editor page).
THEOREM BehavioursInvariant == BehavioursSpec => []BehavioursInv
<1> QED
  BY BehavioursFirst, BehavioursStep, PTL DEF BehavioursSpec

\* Requests that are under way have identities of their own.
LEMMA TypesAgree ==
  ASSUME BehavioursInv
  PROVE  BehavioursTypeOK
<1>1. BehavioursTyped /\ IsFiniteSet(requests)
  BY DEF BehavioursInv, BehavioursTyped
<1>2. PICK ids : ids = {r.id : r \in requests}
  OBVIOUS
<1>3. PICK f : f = [r \in requests |-> r.id]
  OBVIOUS
<1>4. f \in Surjection(requests, ids) /\ f \in Injection(requests, ids)
  BY <1>1, <1>2, <1>3 DEF Surjection, Injection, IsInjective, BehavioursTyped
<1>5. Cardinality(ids) = Cardinality(requests)
  BY <1>1, <1>4, FS_Surjection
<1> QED
  BY <1>1, <1>2, <1>5 DEF BehavioursInv, BehavioursTyped, AssistantsTyped, Whole, BehavioursTypeOK

\* A token stands for one state only: whatever page still shows the token an
\* assistant has now shows all of it as it is now (save_draft, publish and
\* update, in whatever order they came).
THEOREM TokensNameStates == BehavioursSpec => []TokensAgree
<1>1. ASSUME BehavioursInv PROVE TokensAgree
  <2>1. ASSUME NEW e \in Editors, pages[e] # Closed, Live(pages[e].assistant),
               Token(pages[e].kind, pages[e].shown)
                  = Token(pages[e].kind, Read(pages[e].assistant, pages[e].kind))
        PROVE  pages[e].shown = Read(pages[e].assistant, pages[e].kind)
    <3>1. PICK p : p = pages[e]
      OBVIOUS
    <3>2. p.kind \in Kinds /\ p.assistant \in Assistants /\ Past(p.kind, p.assistant, p.shown)
      BY <1>1, <2>1, <3>1 DEF BehavioursInv, BehavioursTyped, Pages, PageShows
    <3>3. Token(p.kind, p.shown) \in Nat
      BY <3>2, ShownFields DEF Past
    <3> QED
      BY <2>1, <3>1, <3>2, <3>3 DEF Past
  <2> QED
    BY <1>1, <2>1, TypesAgree DEF TokensAgree
<1> QED
  BY <1>1, BehavioursInvariant, PTL

\* Nobody overwrites what they have not seen: a draft or a row is replaced only
\* by a request of a page that showed the very state it replaces, and a row
\* keeps the fields the request does not name (save_draft, update_assistant).
THEOREM NothingIsOverwritten == BehavioursSpec => NothingOverwrittenUnseen
<1>1. ASSUME BehavioursInv, [BehavioursNext]_behaviourVars, NEW a \in Assistants, Live(a), Live(a)'
      PROVE  /\ \/ behaviours'[a].drafts = behaviours[a].drafts
                \/ \E r \in requests : r \notin requests' /\ r.assistant = a /\ r.shown = State(a)
             /\ \/ rows'[a] = rows[a]
                \/ \E r \in requests :
                       /\ r \notin requests' /\ r.assistant = a /\ r.shown = rows[a]
                       /\ \A f \in DOMAIN rows[a] \ {"stamp"} :
                             f \notin DOMAIN r.request.fields => rows'[a][f] = rows[a][f]
  <2>1. BehavioursTyped /\ AssistantsTyped /\ \A u \in Assistants : Whole(u)
    BY <1>1 DEF BehavioursInv, BehavioursTyped
  <2>2. CASE UNCHANGED <<rows, behaviours>>
    BY <2>2
  <2>3. ASSUME NEW u \in Assistants, Create(u) \/ Delete(u) \/ AddSource(u)
        PROVE  rows'[a] = rows[a] /\ behaviours'[a] = behaviours[a]
    BY <1>1, <2>1, <2>3 DEF Create, Delete, AddSource, Live, AssistantsTyped
  <2>4. ASSUME NEW r \in requests, SaveDraft(r), a = r.assistant
        PROVE  r \notin requests' /\ r.shown = State(a) /\ rows'[a] = rows[a]
    <3>1. r \notin requests' /\ UNCHANGED rows /\ r.shown.token = behaviours[a].version
      BY <2>4 DEF SaveDraft, Store, End, SameToken
    <3>2. Past("behaviour", a, r.shown)
      BY <1>1, <2>4 DEF BehavioursInv, Carries, SaveDraft, Kind
    <3>3. r.shown.token < State(a).token \/ r.shown = State(a)
      BY <1>1, <3>2 DEF Past, Read, Token
    <3>4. r.shown.token \in Nat /\ State(a).token = behaviours[a].version
      BY <3>2 DEF Past, Shown, States, State
    <3> QED
      BY <3>1, <3>3, <3>4
  <2>5. ASSUME NEW r \in requests, PublishDraft(r), a = r.assistant
        PROVE  behaviours'[a].drafts = behaviours[a].drafts /\ rows'[a] = rows[a]
    <3>1. PICK b \in Behaviours : b = behaviours[a]
      BY <1>1, <2>1, ReadFields
    <3>2. PICK new : new = Published(b, r.shown.draft)
      OBVIOUS
    <3>3. (Store(r, b) \/ Store(r, new)) /\ new.drafts = b.drafts
      BY <2>5, <3>1, <3>2 DEF PublishDraft, Published, Behaviours
    <3>4. behaviours'[a] \in {b, new} /\ UNCHANGED rows
      BY <2>1, <2>5, <3>3 DEF Store, AssistantsTyped
    <3> QED
      BY <3>1, <3>3, <3>4
  <2>6. ASSUME NEW r \in requests, NEW clock \in 0 .. MaxClock, WriteRow(r, clock), a = r.assistant
        PROVE  /\ r \notin requests' /\ r.shown = rows[a] /\ behaviours'[a] = behaviours[a]
               /\ \A f \in DOMAIN rows[a] \ {"stamp"} :
                     f \notin DOMAIN r.request.fields => rows'[a][f] = rows[a][f]
    <3>1. r \notin requests' /\ UNCHANGED behaviours
      BY <2>6 DEF WriteRow, End
    <3>2. PICK row \in Rows : row = rows[a] /\ r.shown = row /\ r.read = row
      BY <1>1, <2>6, WrittenRow
    <3>3. PICK new : /\ new = [name |-> Field(r, "name"), public |-> Field(r, "public"),
                               stamp |-> NextStamp(clock, r.read)]
                     /\ rows' = [rows EXCEPT ![a] = new]
      BY <2>6 DEF WriteRow
    <3>4. rows'[a] = new
      BY <2>1, <3>3 DEF AssistantsTyped
    <3>5. DOMAIN row = {"name", "public", "stamp"}
      BY DEF Rows
    <3>6. ASSUME NEW f \in {"name", "public"}, f \notin DOMAIN r.request.fields
          PROVE  new[f] = row[f]
      BY <3>2, <3>3, <3>6 DEF Field
    <3> QED
      BY <3>1, <3>2, <3>4, <3>5, <3>6
  <2>7. ASSUME NEW r \in requests, Handle(r), a # r.assistant
        PROVE  rows'[a] = rows[a] /\ behaviours'[a] = behaviours[a]
    <3>1. CASE SaveDraft(r) \/ PublishDraft(r)
      BY <2>1, <2>7, <3>1 DEF SaveDraft, PublishDraft, Store, AssistantsTyped
    <3>2. CASE \E clock \in 0 .. MaxClock : WriteRow(r, clock)
      BY <2>1, <2>7, <3>2 DEF WriteRow, AssistantsTyped
    <3>3. CASE ReadRow(r) \/ Refuse(r)
      BY <3>3 DEF ReadRow, Refuse
    <3> QED
      BY <2>7, <3>1, <3>2, <3>3 DEF Handle
  <2>8. ASSUME NEW e \in Editors, Edit(e) PROVE UNCHANGED <<rows, behaviours>>
    BY <2>8 DEF Edit, Open, Save, Publish, Update, Send, Failed, Reload, Refresh, Refreshed
  <2>9. ASSUME NEW r \in requests, Refuse(r) \/ ReadRow(r) PROVE UNCHANGED <<rows, behaviours>>
    BY <2>9 DEF Refuse, ReadRow
  <2>10. UNCHANGED behaviourVars => UNCHANGED <<rows, behaviours>>
    BY DEF behaviourVars
  <2>11. CASE \E r \in requests : Handle(r)
    <3>1. PICK r \in requests : Handle(r)
      BY <2>11
    <3>2. CASE a # r.assistant
      BY <2>7, <3>1, <3>2
    <3>3. CASE a = r.assistant /\ SaveDraft(r)
      BY <2>4, <3>3
    <3>4. CASE a = r.assistant /\ PublishDraft(r)
      BY <2>5, <3>4
    <3>5. CASE a = r.assistant /\ \E clock \in 0 .. MaxClock : WriteRow(r, clock)
      BY <2>6, <3>5
    <3>6. CASE ReadRow(r) \/ Refuse(r)
      BY <2>2, <2>9, <3>6
    <3> QED
      BY <3>1, <3>2, <3>3, <3>4, <3>5, <3>6 DEF Handle
  <2> QED
    BY <1>1, <2>2, <2>3, <2>8, <2>10, <2>11 DEF BehavioursNext
<1>2. ASSUME BehavioursInv, [BehavioursNext]_behaviourVars
      PROVE  [\A a \in Assistants : Live(a) /\ Live(a)' =>
                 /\ \/ behaviours'[a].drafts = behaviours[a].drafts
                    \/ \E r \in requests : r \notin requests' /\ r.assistant = a /\ r.shown = State(a)
                 /\ \/ rows'[a] = rows[a]
                    \/ \E r \in requests :
                           /\ r \notin requests' /\ r.assistant = a /\ r.shown = rows[a]
                           /\ \A f \in DOMAIN rows[a] \ {"stamp"} :
                                 f \notin DOMAIN r.request.fields => rows'[a][f] = rows[a][f]
             ]_behaviourVars
  BY <1>1, <1>2
<1> QED
  BY <1>2, BehavioursInvariant, PTL DEF BehavioursSpec, NothingOverwrittenUnseen

\* What becomes public is the saved draft of that moment, and the page it was
\* published from was showing that draft's texts (publish).
THEOREM PublicationsAreReviewed == BehavioursSpec => PublishedAsReviewed
<1>1. ASSUME BehavioursInv, [BehavioursNext]_behaviourVars, NEW a \in Assistants, Live(a), Live(a)',
             behaviours'[a].published # behaviours[a].published
      PROVE  \E r \in requests :
                 /\ r \notin requests' /\ r.assistant = a /\ r.request.op = "publish"
                 /\ behaviours'[a].published = Len(behaviours[a].drafts)
                 /\ r.shown.content = behaviours[a].drafts[Len(behaviours[a].drafts)]
  <2>1. BehavioursTyped /\ AssistantsTyped /\ \A u \in Assistants : Whole(u)
    BY <1>1 DEF BehavioursInv, BehavioursTyped
  <2>2. PICK b \in Behaviours : b = behaviours[a]
    BY <1>1, <2>1, ReadFields
  <2>3. behaviours' # behaviours
    BY <1>1
  <2>4. ASSUME NEW u \in Assistants PROVE ~(Create(u) \/ Delete(u) \/ AddSource(u))
    BY <1>1, <2>1 DEF Create, Delete, AddSource, Live, AssistantsTyped
  <2>5. ASSUME NEW e \in Editors PROVE ~Edit(e)
    BY <2>3 DEF Edit, Open, Save, Publish, Update, Send, Failed, Reload, Refresh, Refreshed
  <2>6. PICK r \in requests : Handle(r)
    BY <1>1, <2>3, <2>4, <2>5 DEF BehavioursNext, behaviourVars
  <2>7. SaveDraft(r) \/ PublishDraft(r)
    BY <2>3, <2>6 DEF Handle, ReadRow, Refuse, WriteRow
  <2>8. r.assistant = a
    BY <1>1, <2>1, <2>7 DEF SaveDraft, PublishDraft, Store, AssistantsTyped
  <2>9. ASSUME NEW x, Store(r, x) PROVE behaviours'[a] = x /\ r \notin requests'
    BY <2>1, <2>8, <2>9 DEF Store, End, AssistantsTyped
  <2>10. ~SaveDraft(r)
    <3>1. SUFFICES ASSUME SaveDraft(r) PROVE FALSE
      OBVIOUS
    <3>2. PICK new : /\ new = [b EXCEPT !.drafts = Append(@, r.request.content), !.version = @ + 1]
                     /\ Store(r, b) \/ Store(r, new)
      BY <2>2, <2>8, <3>1 DEF SaveDraft
    <3>3. new.published = b.published
      BY <3>2 DEF Behaviours
    <3> QED
      BY <1>1, <2>2, <2>9, <3>2, <3>3
  <2>11. PICK new : /\ new = Published(b, r.shown.draft)
                    /\ Store(r, b) \/ (Store(r, new) /\ MayPublish(r))
    BY <2>2, <2>7, <2>8, <2>10 DEF PublishDraft
  <2>12. behaviours'[a] = new /\ MayPublish(r) /\ r \notin requests'
    BY <1>1, <2>2, <2>9, <2>11
  <2>13. new.published = r.shown.draft /\ r.request.op = "publish"
    BY <2>7, <2>10, <2>11 DEF Published, Behaviours, PublishDraft
  <2>14. r.shown.token = b.version /\ r.shown.draft = Len(b.drafts)
    BY <2>2, <2>8, <2>12 DEF MayPublish
  <2>15. Past("behaviour", a, r.shown)
    BY <1>1, <2>8, <2>13 DEF BehavioursInv, Carries, Kind
  <2>16. r.shown.token < State(a).token \/ r.shown = State(a)
    BY <1>1, <2>15 DEF Past, Read, Token
  <2>17. r.shown.token \in Nat /\ State(a).token = b.version /\ State(a).content = b.drafts[Len(b.drafts)]
    BY <2>2, <2>15 DEF Past, Shown, States, State
  <2>18. r.shown.content = b.drafts[Len(b.drafts)]
    BY <2>14, <2>16, <2>17
  <2> QED
    BY <2>2, <2>8, <2>12, <2>13, <2>14, <2>18
<1>2. ASSUME BehavioursInv, [BehavioursNext]_behaviourVars
      PROVE  [\A a \in Assistants : Live(a) /\ Live(a)' =>
                 \/ behaviours'[a].published = behaviours[a].published
                 \/ \E r \in requests :
                       /\ r \notin requests' /\ r.assistant = a /\ r.request.op = "publish"
                       /\ behaviours'[a].published = Len(behaviours[a].drafts)
                       /\ r.shown.content = behaviours[a].drafts[Len(behaviours[a].drafts)]
             ]_behaviourVars
  BY <1>1, <1>2
<1> QED
  BY <1>2, BehavioursInvariant, PTL DEF BehavioursSpec, PublishedAsReviewed
-----------------------------------------------------------------------------
(* The widget: its invariant *)

Streamed == {"start", "delta"} \union Terminal
LinkStates == {"open", "lost", "closed"}

\* The events of a stream, in order.
StreamShape(sent) ==
    /\ sent \in Seq(Streamed)
    /\ \A i \in 1 .. Len(sent) :
        /\ sent[i] = "start" <=> i = 1
        /\ sent[i] \in Terminal => i = Len(sent)
        /\ sent[i] = "delta" => i <= MaxDeltas + 1

ExchangesSound ==
    /\ busy \in [Requests -> BOOLEAN]
    /\ status \in [Requests -> {0, 200} \union Refusals]
    /\ link \in [Requests -> LinkStates]
    /\ events \in [Requests -> Seq(Streamed)]
    /\ \A r \in Requests : StreamShape(events[r]) /\ (events[r] # <<>> => status[r] = 200)

\* What the widget has read of a pending exchange.
ReadSound ==
    LET sent == events[pending.request]
    IN  /\ link[pending.request] # "closed"
        /\ pending.seen <= Len(sent)
        /\ \A i \in 1 .. pending.seen : sent[i] \notin Terminal
        /\ pending.text = IF pending.seen = 0 THEN 0 ELSE pending.seen - 1

\* The first k messages are settled turns: a failed question, or a question and its answer.
Turns(c, k) ==
    \A i \in 1 .. k :
        /\ c[i].status \in {"complete", "failed"}
        /\ c[i].status = "failed" => c[i].role = "user"
        /\ c[i].status = "complete" /\ c[i].role = "user" =>
            i < k /\ c[i + 1].status = "complete" /\ c[i + 1].role = "assistant"
        /\ c[i].role = "assistant" =>
            i > 1 /\ c[i - 1].status = "complete" /\ c[i - 1].role = "user"

\* After them, the pending question and what has come of its answer.
Waiting(k) ==
    /\ Len(messages) \in {k + 1, k + 2}
    /\ messages[k + 1].id = pending.question
    /\ messages[k + 1].role = "user" /\ messages[k + 1].status = "pending"
    /\ \A i \in 1 .. k + 1 : messages[i].id # pending.answer
    /\ Len(messages) = k + 2 =>
        /\ messages[k + 2].id = pending.answer
        /\ messages[k + 2].role = "assistant" /\ messages[k + 2].status = "pending"

MessagesSound ==
    /\ \A i, j \in 1 .. Len(messages) : messages[i].id = messages[j].id => i = j
    /\ \A i \in 1 .. Len(messages) : messages[i].id <= number

PendingSound ==
    /\ failed = NoFailure /\ Mounted /\ pending.of = assistant
    /\ pending.answer = number /\ pending.question < number
    /\ ReadSound
    /\ \E k \in 0 .. Len(messages) : Turns(messages, k) /\ Waiting(k)

IdleSound ==
    /\ Turns(messages, Len(messages))
    /\ failed # NoFailure =>
        /\ messages # <<>> /\ messages[Len(messages)].id = failed.id
        /\ messages[Len(messages)].status = "failed"

WidgetInv ==
    /\ WidgetTypeOK
    /\ ExchangesSound
    /\ MessagesSound
    /\ pending # NoExchange => PendingSound
    /\ pending = NoExchange => IdleSound

-----------------------------------------------------------------------------
(* The widget: exchanges *)

\* One more event of a stream that has not ended.
LEMMA StreamGrows ==
    ASSUME NEW sent, NEW event \in Streamed, StreamShape(sent),
           ~(sent # <<>> /\ Last(sent) \in Terminal),
           event = "start" <=> sent = <<>>, event = "delta" => Len(sent) <= MaxDeltas
    PROVE  StreamShape(Append(sent, event))
  <1>1. sent \in Seq(Streamed) /\ Len(sent) \in Nat
    BY DEF StreamShape
  <1>2. Append(sent, event) \in Seq(Streamed) /\ Len(Append(sent, event)) = Len(sent) + 1
    BY <1>1
  <1>3. sent = <<>> <=> Len(sent) = 0
    BY <1>1
  <1>4. MaxDeltas \in Nat
    BY WidgetAssumption
  <1>5. ASSUME NEW i \in 1 .. Len(sent) + 1
        PROVE  LET e == Append(sent, event)[i] IN
               /\ e = "start" <=> i = 1
               /\ e \in Terminal => i = Len(sent) + 1
               /\ e = "delta" => i <= MaxDeltas + 1
    <2>1. CASE i = Len(sent) + 1
      <3>1. Append(sent, event)[i] = event
        BY <1>1, <2>1
      <3> QED
        BY <1>1, <1>3, <1>4, <2>1, <3>1
    <2>2. CASE i # Len(sent) + 1
      <3>1. i \in 1 .. Len(sent) /\ Append(sent, event)[i] = sent[i]
        BY <1>1, <2>2
      <3>2. sent[Len(sent)] \notin Terminal
        BY <1>3, <3>1 DEF Last
      <3> QED
        BY <3>1, <3>2 DEF StreamShape
    <2> QED
      BY <2>1, <2>2
  <1> QED
    BY <1>2, <1>5 DEF StreamShape

\* A stream of no events.
LEMMA NoStream == StreamShape(<<>>)
  BY DEF StreamShape

\* Nothing has been asked for at first.
LEMMA ExchangesStart == ASSUME ExchangeInit PROVE ExchangesSound
  BY NoStream DEF ExchangeInit, ExchangesSound, LinkStates

\* What one exchange becomes, when nothing happens to the others.
OneExchange(r, b, s, e, l) ==
    /\ busy' = [busy EXCEPT ![r] = b] /\ status' = [status EXCEPT ![r] = s]
    /\ events' = [events EXCEPT ![r] = e] /\ link' = [link EXCEPT ![r] = l]

\* A step of one exchange keeps the exchanges sound.
LEMMA OneSound ==
    ASSUME ExchangesSound, NEW r \in Requests, NEW b \in BOOLEAN,
           NEW s \in {0, 200} \union Refusals, NEW e, NEW l \in LinkStates,
           StreamShape(e), e # <<>> => s = 200, OneExchange(r, b, s, e, l)
    PROVE  ExchangesSound'
  <1>1. /\ busy' \in [Requests -> BOOLEAN] /\ status' \in [Requests -> {0, 200} \union Refusals]
        /\ link' \in [Requests -> LinkStates] /\ events' \in [Requests -> Seq(Streamed)]
    BY DEF ExchangesSound, OneExchange, StreamShape
  <1>2. ASSUME NEW q \in Requests
        PROVE  StreamShape(events'[q]) /\ (events'[q] # <<>> => status'[q] = 200)
    <2>1. CASE q = r
      <3>1. events'[q] = e /\ status'[q] = s
        BY <2>1 DEF ExchangesSound, OneExchange
      <3> QED
        BY <3>1
    <2>2. CASE q # r
      <3>1. events'[q] = events[q] /\ status'[q] = status[q]
        BY <2>2 DEF ExchangesSound, OneExchange
      <3> QED
        BY <3>1 DEF ExchangesSound
    <2> QED
      BY <2>1, <2>2
  <1> QED
    BY <1>1, <1>2 DEF ExchangesSound, StreamShape

\* An exchange that its reader has not left goes on, and takes nothing back.
Goes(r) ==
    link[r] # "closed" =>
        /\ link'[r] # "closed"
        /\ Len(events[r]) <= Len(events'[r])
        /\ \A i \in 1 .. Len(events[r]) : events'[r][i] = events[r][i]

\* A step of one exchange takes back no event that any other has sent.
LEMMA OneGoes ==
    ASSUME ExchangesSound, NEW r \in Requests, NEW b, NEW s, NEW e, NEW l,
           OneExchange(r, b, s, e, l), NEW q \in Requests,
           q = r /\ link[r] # "closed" =>
             /\ l # "closed" /\ Len(events[r]) <= Len(e)
             /\ \A i \in 1 .. Len(events[r]) : e[i] = events[r][i]
    PROVE  Goes(q)
  <1>1. CASE q = r
    BY <1>1 DEF OneExchange, ExchangesSound, Goes
  <1>2. CASE q # r
    <2>1. events'[q] = events[q] /\ link'[q] = link[q] /\ Len(events[q]) \in Nat
      BY <1>2 DEF OneExchange, ExchangesSound, StreamShape
    <2> QED
      BY <2>1 DEF Goes
  <1> QED
    BY <1>1, <1>2

ExchangeBecomes(r, b, s, e, l) ==
    /\ b \in BOOLEAN /\ s \in {0, 200} \union Refusals /\ l \in LinkStates
    /\ StreamShape(e) /\ (e # <<>> => s = 200)
    /\ OneExchange(r, b, s, e, l)
    /\ link[r] # "closed" =>
        /\ l # "closed" /\ Len(events[r]) <= Len(e)
        /\ \A i \in 1 .. Len(events[r]) : e[i] = events[r][i]

\* The handler admits, refuses, streams, completes or fails (PublicChat).
LEMMA HandlerSound ==
    ASSUME ExchangesSound, NEW r \in Requests, Handler(r)
    PROVE  ExchangesSound' /\ \A q \in Requests : Goes(q)
  <1>1. /\ busy[r] \in BOOLEAN /\ status[r] \in {0, 200} \union Refusals /\ link[r] \in LinkStates
        /\ StreamShape(events[r]) /\ (events[r] # <<>> => status[r] = 200)
        /\ Len(events[r]) \in Nat
    BY DEF ExchangesSound, StreamShape
  <1>2. /\ busy = [busy EXCEPT ![r] = busy[r]] /\ status = [status EXCEPT ![r] = status[r]]
        /\ link = [link EXCEPT ![r] = link[r]] /\ events = [events EXCEPT ![r] = events[r]]
    BY DEF ExchangesSound
  <1>3. SUFFICES \E b, s, e, l : ExchangeBecomes(r, b, s, e, l)
    <2> SUFFICES ASSUME NEW b, NEW s, NEW e, NEW l, ExchangeBecomes(r, b, s, e, l)
                 PROVE  ExchangesSound' /\ \A q \in Requests : Goes(q)
      OBVIOUS
    <2> QED
      BY OneSound, OneGoes DEF ExchangeBecomes
  <1>4. ASSUME NEW code \in {200} \union Refusals, Return(r, code), events[r] # <<>> => code = 200
        PROVE  \E b, s, e, l : ExchangeBecomes(r, b, s, e, l)
    <2>1. CASE link[r] = "closed"
      <3>1. OneExchange(r, FALSE, 0, <<>>, "open")
        BY <1>4, <2>1 DEF Return, OneExchange
      <3>2. ExchangeBecomes(r, FALSE, 0, <<>>, "open")
        BY <2>1, <3>1, NoStream DEF LinkStates, ExchangeBecomes
      <3> QED
        BY <3>2
    <2>2. CASE link[r] # "closed"
      <3>1. OneExchange(r, FALSE, code, events[r], link[r])
        BY <1>2, <1>4, <2>2 DEF Return, OneExchange
      <3>2. Len(events[r]) <= Len(events[r]) /\ code \in {0, 200} \union Refusals
        BY <1>1
      <3>3. ExchangeBecomes(r, FALSE, code, events[r], link[r])
        BY <1>1, <1>4, <2>2, <3>1, <3>2 DEF ExchangeBecomes
      <3> QED
        BY <3>3
    <2> QED
      BY <2>1, <2>2
  <1>5. CASE RefuseRequest(r)
    <2>1. PICK code \in Refusals : status[r] = 0 /\ Return(r, code)
      BY <1>5 DEF RefuseRequest
    <2>2. events[r] = <<>> /\ code \in {200} \union Refusals
      BY <1>1, <2>1
    <2> QED
      BY <1>4, <2>1, <2>2, Zenon
  <1>6. CASE StartResponse(r)
    <2>1. OneExchange(r, busy[r], 200, events[r], link[r])
      BY <1>2, <1>6 DEF StartResponse, OneExchange
    <2>2. ExchangeBecomes(r, busy[r], 200, events[r], link[r])
      BY <1>1, <2>1 DEF ExchangeBecomes
    <2> QED
      BY <2>2
  <1>7. CASE Emit(r)
    <2>1. PICK event \in Streamed :
             /\ event = "start" <=> events[r] = <<>>
             /\ event = "delta" => Len(events[r]) <= MaxDeltas
             /\ events' = [events EXCEPT ![r] = Append(events[r], event)]
      BY <1>7 DEF Emit, Streamed
    <2>2. StreamShape(Append(events[r], event))
      BY <1>1, <1>7, <2>1, StreamGrows DEF Emit, Ended
    <2>3. OneExchange(r, busy[r], 200, Append(events[r], event), link[r])
      BY <1>2, <1>7, <2>1 DEF Emit, OneExchange
    <2>4. /\ Len(Append(events[r], event)) = Len(events[r]) + 1
          /\ \A i \in 1 .. Len(events[r]) : Append(events[r], event)[i] = events[r][i]
      BY <1>1 DEF StreamShape
    <2>5. ExchangeBecomes(r, busy[r], 200, Append(events[r], event), link[r])
      BY <1>1, <2>2, <2>3, <2>4 DEF ExchangeBecomes
    <2> QED
      BY <2>5
  <1>8. CASE EndResponse(r)
    BY <1>4, <1>8 DEF EndResponse
  <1> QED
    BY <1>5, <1>6, <1>7, <1>8 DEF Handler

\* Both at once, as each step of an exchange uses them.
LEMMA BecomesSound ==
    ASSUME ExchangesSound, NEW r \in Requests, NEW b, NEW s, NEW e, NEW l, ExchangeBecomes(r, b, s, e, l)
    PROVE  ExchangesSound' /\ \A q \in Requests : Goes(q)
  BY OneSound, OneGoes DEF ExchangeBecomes

\* A link is lost, and the events already sent stay.
LEMMA CutSound ==
    ASSUME ExchangesSound, NEW r \in Requests, Cut(r)
    PROVE  ExchangesSound' /\ \A q \in Requests : Goes(q)
  <1>1. /\ status[r] \in {0, 200} \union Refusals /\ StreamShape(events[r])
        /\ (events[r] # <<>> => status[r] = 200) /\ Len(events[r]) \in Nat
    BY DEF ExchangesSound, StreamShape
  <1>2. /\ status = [status EXCEPT ![r] = status[r]] /\ events = [events EXCEPT ![r] = events[r]]
        /\ busy = [busy EXCEPT ![r] = busy[r]]
    BY DEF ExchangesSound
  <1>3. OneExchange(r, busy[r], status[r], events[r], "lost")
    BY <1>2 DEF Cut, OneExchange
  <1>4. ExchangeBecomes(r, busy[r], status[r], events[r], "lost")
    BY <1>1, <1>3 DEF ExchangeBecomes, ExchangesSound, LinkStates
  <1> QED
    BY <1>4, BecomesSound

\* A request starts with no event sent, and none arrives with it.
LEMMA ArriveSound ==
    ASSUME ExchangesSound, NEW r \in Requests, NEW history, Arrive(r, history)
    PROVE  ExchangesSound' /\ events' = events /\ link' = link /\ link[r] = "open" /\ events[r] = <<>>
  <1>1. /\ busy[r] \in BOOLEAN /\ status[r] = 0 /\ events[r] = <<>> /\ link[r] = "open"
        /\ events' = events /\ link' = link
    BY DEF ExchangesSound, Arrive
  <1>2. /\ status = [status EXCEPT ![r] = status[r]] /\ events = [events EXCEPT ![r] = events[r]]
        /\ busy = [busy EXCEPT ![r] = busy[r]] /\ link = [link EXCEPT ![r] = link[r]]
    BY DEF ExchangesSound
  <1>3. CASE busy' = [busy EXCEPT ![r] = TRUE] /\ UNCHANGED status
    <2>1. OneExchange(r, TRUE, 0, <<>>, "open")
      BY <1>1, <1>2, <1>3 DEF OneExchange
    <2> QED
      BY <1>1, <2>1, OneSound, NoStream DEF LinkStates
  <1>4. ASSUME NEW code \in Refusals, status' = [status EXCEPT ![r] = code], UNCHANGED busy
        PROVE  ExchangesSound'
    <2>1. OneExchange(r, busy[r], code, <<>>, "open")
      BY <1>1, <1>2, <1>4 DEF OneExchange
    <2> QED
      BY <1>1, <2>1, OneSound, NoStream DEF LinkStates
  <1> QED
    BY <1>1, <1>3, <1>4 DEF Arrive

\* The widget closes the link when it has read the end.
LEMMA CloseSound ==
    ASSUME ExchangesSound, NEW r \in Requests, Close(r)
    PROVE  ExchangesSound'
  <1>1. /\ status[r] \in {0, 200} \union Refusals /\ StreamShape(events[r])
        /\ (events[r] # <<>> => status[r] = 200) /\ busy[r] \in BOOLEAN
    BY DEF ExchangesSound
  <1>2. /\ status = [status EXCEPT ![r] = status[r]] /\ events = [events EXCEPT ![r] = events[r]]
        /\ busy = [busy EXCEPT ![r] = busy[r]]
    BY DEF ExchangesSound
  <1>3. CASE busy[r]
    <2>1. PICK b, s, e : b = busy[r] /\ s = status[r] /\ e = events[r]
      OBVIOUS
    <2>2. OneExchange(r, b, s, e, "closed")
      BY <1>2, <1>3, <2>1 DEF Close, OneExchange
    <2>3. b \in BOOLEAN /\ s \in {0, 200} \union Refusals /\ StreamShape(e) /\ (e # <<>> => s = 200)
      BY <1>1, <2>1, Zenon
    <2> QED
      BY <2>2, <2>3, OneSound DEF LinkStates
  <1>4. CASE ~busy[r]
    <2>1. PICK b, e : b = busy[r] /\ e = <<>>
      OBVIOUS
    <2>2. OneExchange(r, b, 0, e, "open")
      BY <1>2, <1>4, <2>1 DEF Close, OneExchange
    <2>3. b \in BOOLEAN /\ StreamShape(e)
      BY <1>1, <2>1, NoStream, Zenon
    <2> QED
      BY <2>1, <2>2, <2>3, OneSound DEF LinkStates
  <1> QED
    BY <1>3, <1>4

\* The server restarts, and every open link is lost.
LEMMA CrashSound ==
    ASSUME ExchangesSound, Crash
    PROVE  ExchangesSound' /\ \A q \in Requests : Goes(q)
  <1>1. /\ busy' \in [Requests -> BOOLEAN] /\ status' \in [Requests -> {0, 200} \union Refusals]
        /\ link' \in [Requests -> LinkStates]
    BY DEF ExchangesSound, Crash, LinkStates
  <1>2. ASSUME NEW q \in Requests
        PROVE  /\ StreamShape(events'[q]) /\ (events'[q] # <<>> => status'[q] = 200)
               /\ Goes(q)
    <2>1. CASE link[q] = "closed"
      <3>1. events'[q] = <<>>
        BY <2>1 DEF Crash
      <3> QED
        BY <2>1, <3>1, NoStream DEF Goes
    <2>2. CASE link[q] # "closed"
      <3>1. events'[q] = events[q] /\ status'[q] = status[q] /\ link'[q] # "closed"
        BY <2>2 DEF Crash
      <3>2. Len(events[q]) \in Nat
        BY DEF ExchangesSound, StreamShape
      <3> QED
        BY <2>2, <3>1, <3>2 DEF Goes, ExchangesSound
    <2> QED
      BY <2>1, <2>2
  <1>3. events' \in [Requests -> Seq(Streamed)]
    BY DEF ExchangesSound, Crash
  <1> QED
    BY <1>1, <1>2, <1>3 DEF ExchangesSound, StreamShape

\* Every step of the server, whichever exchange it serves.
LEMMA ServerSound ==
    ASSUME WidgetInv, Server
    PROVE  ExchangesSound' /\ \A q \in Requests : Goes(q)
  BY HandlerSound, CutSound, CrashSound DEF Server, WidgetInv

\* What has been read stays read while the exchange goes on.
LEMMA ReadOn ==
    ASSUME WidgetTypeOK, ExchangesSound, ExchangesSound', pending # NoExchange, ReadSound,
           Goes(pending.request), UNCHANGED pending
    PROVE  ReadSound'
  <1>1. pending \in PendingType
    BY DEF WidgetTypeOK
  <1>2. pending.request \in Requests /\ pending.seen \in Nat
    BY <1>1 DEF PendingType
  <1>3. Len(events[pending.request]) \in Nat /\ Len(events'[pending.request]) \in Nat
    BY <1>2 DEF ExchangesSound, StreamShape
  <1> QED
    BY <1>1, <1>2, <1>3 DEF ReadSound, Goes

-----------------------------------------------------------------------------
(* Recursion over 0 .. N *)

\* The natural numbers are well ordered.
LEMMA LeastNumber ==
    ASSUME NEW T \in SUBSET Nat, T # {}
    PROVE  \E m \in T : \A k \in T : m <= k
  <1> DEFINE Less == {p \in Nat \X Nat : p[1] < p[2]}
  <1>1. IsWellFoundedOn(Less, Nat)
    BY NatLessThanWellFounded DEF OpToRel
  <1>2. \A k, m \in Nat : k < m => <<k, m>> \in Less
    OBVIOUS
  <1>3. PICK m \in T : \A k \in T : ~(<<k, m>> \in Less)
    <2> HIDE DEF Less
    <2> QED
      BY <1>1, WFMin
  <1> HIDE DEF Less
  <1>4. ASSUME NEW k \in T PROVE m <= k
    <2>1. k \in Nat /\ m \in Nat
      OBVIOUS
    <2>2. ~(k < m)
      BY <1>2, <1>3, <2>1, Zenon
    <2> QED
      BY <2>1, <2>2
  <1> QED
    BY <1>4

\* Induction, about a set.
LEMMA UpTo ==
    ASSUME NEW N \in Nat, NEW S, 0 \in S,
           \A n \in 1 .. N : n - 1 \in S => n \in S
    PROVE  0 .. N \subseteq S
  <1> DEFINE Out == {n \in 0 .. N : n \notin S}
  <1>1. SUFFICES ASSUME Out # {} PROVE FALSE
    OBVIOUS
  <1>2. PICK m \in Out : \A k \in Out : m <= k
    <2>1. Out \in SUBSET Nat
      OBVIOUS
    <2> HIDE DEF Out
    <2> QED
      BY <1>1, <2>1, LeastNumber
  <1>3. m \in 1 .. N /\ m - 1 \notin Out
    BY <1>2
  <1> QED
    BY <1>2, <1>3

\* f is what the recursive definition with this base and these steps says, up to N.
Follows(f, N, base, step) == f[0] = base /\ \A i \in 1 .. N : f[i] = step[i][f[i - 1]]

\* There is such a function, so that CHOOSE, which a recursive definition stands
\* for, finds one.
LEMMA RecursionDefines ==
    ASSUME NEW N \in Nat, NEW X, NEW base \in X, NEW step \in [1 .. N -> [X -> X]]
    PROVE  \E f \in [0 .. N -> X] : Follows(f, N, base, step)
  <1> USE DEF Follows
  <1> DEFINE Defines(f, n) == f \in [0 .. n -> X] /\ Follows(f, n, base, step)
             S == {n \in 0 .. N : \E f : Defines(f, n)}
  <1>1. 0 \in S
    <2>1. PICK f : f = [i \in 0 .. 0 |-> base]
      OBVIOUS
    <2>2. f \in [0 .. 0 -> X] /\ f[0] = base
      BY <2>1
    <2>3. Defines(f, 0)
      BY <2>2
    <2> QED
      BY <2>3
  <1>2. ASSUME NEW n \in 1 .. N, n - 1 \in S PROVE n \in S
    <2>1. PICK f : Defines(f, n - 1)
      BY <1>2
    <2>2. n \in 0 .. N /\ n - 1 \in 0 .. n - 1 /\ step[n][f[n - 1]] \in X
      BY <2>1
    <2> DEFINE g == [i \in 0 .. n |-> IF i = n THEN step[n][f[n - 1]] ELSE f[i]]
    <2>3. g \in [0 .. n -> X] /\ g[0] = base
      BY <2>1, <2>2
    <2>4. ASSUME NEW i \in 1 .. n PROVE g[i] = step[i][g[i - 1]]
      BY <2>1, <2>4
    <2>5. Defines(g, n)
      BY <2>3, <2>4
    <2> QED
      BY <2>2, <2>5
  <1>3. 0 .. N \subseteq S
    <2> HIDE DEF S
    <2> QED
      BY <1>1, <1>2, UpTo
  <1> QED
    BY <1>3

-----------------------------------------------------------------------------
(* The widget: histories *)

\* The recursion of Among: what it has taken of the first n messages.
Takes(f, c, kept) ==
    /\ f[0] = <<>>
    /\ \A n \in 1 .. Len(c) : f[n] = IF n \in kept THEN Append(f[n - 1], c[n]) ELSE f[n - 1]

\* The recursion of Among has a value, found by induction on the length.
LEMMA AmongDefines ==
    ASSUME NEW S, NEW c \in Seq(S), NEW kept
    PROVE  \E f \in [0 .. Len(c) -> Seq(S)] : Takes(f, c, kept) /\ Among(c, kept) = f[Len(c)]
  <1> DEFINE X == Seq(S)
             N == Len(c)
             after(n, g) == IF n \in kept THEN Append(g, c[n]) ELSE g
             Is(h) == h = [n \in 0 .. Len(c) |->
                             IF n = 0 THEN <<>>
                             ELSE IF n \in kept THEN Append(h[n - 1], c[n]) ELSE h[n - 1]]
             Taken == CHOOSE h : Is(h)
  <1>1. N \in Nat /\ <<>> \in X /\ \A n \in 1 .. N : c[n] \in S
    OBVIOUS
  <1>2. ASSUME NEW n \in 1 .. N, NEW g \in X PROVE after(n, g) \in X
    BY <1>1
  <1>3. PICK step \in [1 .. N -> [X -> X]] : \A n \in 1 .. N : \A g \in X : step[n][g] = after(n, g)
    <2>1. [n \in 1 .. N |-> [g \in X |-> after(n, g)]] \in [1 .. N -> [X -> X]]
      <3> HIDE DEF X, N, after
      <3> QED
        BY <1>2
    <2> HIDE DEF X, N, after
    <2> QED
      BY <2>1
  <1>4. PICK f \in [0 .. N -> X] : Follows(f, N, <<>>, step)
    <2> HIDE DEF X, N
    <2> QED
      BY <1>1, RecursionDefines
  <1>5. \A n \in 1 .. N : f[n] = after(n, f[n - 1])
    <2> HIDE DEF X, after
    <2>1. ASSUME NEW n \in 1 .. N PROVE f[n] = after(n, f[n - 1])
      <3>1. n - 1 \in 0 .. N
        BY <1>1
      <3> QED
        BY <1>3, <1>4, <3>1 DEF Follows
    <2> QED
      BY <2>1
  <1>6. Is(f)
    <2>1. \A n \in 0 .. N : f[n] = IF n = 0 THEN <<>> ELSE after(n, f[n - 1])
      <3> HIDE DEF X, after
      <3> QED
        BY <1>1, <1>4, <1>5 DEF Follows
    <2> QED
      BY <1>4, <2>1
  <1>7. Is(Taken)
    <2> HIDE DEF Is
    <2> QED
      BY <1>6
  <1>8. PICK h : h = Taken /\ Is(h)
    <2> HIDE DEF Is
    <2> QED
      BY <1>7
  <1>9. Among(c, kept) = h[N]
    BY <1>8 DEF Among
  <1> HIDE DEF Taken
  <1>10. h[0] = <<>> /\ \A n \in 1 .. N : h[n] = after(n, h[n - 1])
    <2>1. h[0] = <<>>
      BY <1>1, <1>8
    <2>2. ASSUME NEW n \in 1 .. N PROVE h[n] = after(n, h[n - 1])
      <3>1. n \in 0 .. N /\ n # 0
        BY <1>1
      <3> QED
        BY <1>8, <3>1
    <2> QED
      BY <2>1, <2>2
  <1>11. h \in [0 .. N -> X]
    <2> DEFINE T == {n \in 0 .. N : h[n] \in X}
    <2>1. 0 \in T
      <3> HIDE DEF X, after
      <3> QED
        BY <1>1, <1>10
    <2>2. ASSUME NEW n \in 1 .. N, n - 1 \in T PROVE n \in T
      <3>1. h[n - 1] \in X /\ n \in 0 .. N
        BY <1>1, <2>2
      <3> HIDE DEF X, after
      <3> QED
        BY <1>2, <1>10, <3>1
    <2>3. 0 .. N \subseteq T
      <3> HIDE DEF T
      <3> QED
        BY <1>1, <2>1, <2>2, UpTo
    <2>4. \A n \in 0 .. N : h[n] \in X
      BY <2>3
    <2>5. h = [n \in 0 .. N |-> h[n]]
      BY <1>8
    <2> HIDE DEF X, N, Is
    <2> QED
      BY <2>4, <2>5
  <1> QED
    BY <1>9, <1>10, <1>11 DEF Takes

Alternates(e) ==
    /\ e \in Seq(MessageType)
    /\ \A i \in 1 .. Len(e) : e[i].role = IF i % 2 = 1 THEN "user" ELSE "assistant"

\* The next message of a history has the other role.
LEMMA AppendAlternates ==
    ASSUME NEW e, Alternates(e), NEW m \in MessageType,
           m.role = IF Len(e) % 2 = 0 THEN "user" ELSE "assistant"
    PROVE  Alternates(Append(e, m)) /\ Len(Append(e, m)) % 2 = 1 - (Len(e) % 2)
  <1>1. e \in Seq(MessageType) /\ Len(e) \in Nat
    BY DEF Alternates
  <1>2. Append(e, m) \in Seq(MessageType) /\ Len(Append(e, m)) = Len(e) + 1
    BY <1>1
  <1>3. (Len(e) + 1) % 2 = 1 - (Len(e) % 2) /\ Len(e) % 2 \in {0, 1}
    BY <1>1
  <1>4. ASSUME NEW i \in 1 .. Len(e) + 1
        PROVE  Append(e, m)[i].role = IF i % 2 = 1 THEN "user" ELSE "assistant"
    <2>1. CASE i = Len(e) + 1
      <3>1. Append(e, m)[i] = m
        BY <1>1, <2>1
      <3> QED
        BY <1>3, <2>1, <3>1
    <2>2. CASE i # Len(e) + 1
      <3>1. i \in 1 .. Len(e) /\ Append(e, m)[i] = e[i]
        BY <1>1, <2>2
      <3> QED
        BY <3>1 DEF Alternates
    <2> QED
      BY <2>1, <2>2
  <1> QED
    BY <1>2, <1>3, <1>4 DEF Alternates

\* The difference of two even numbers is even.
LEMMA EvenLess ==
    ASSUME NEW a \in Nat, NEW b \in Nat, a % 2 = 0, b % 2 = 0, b <= a
    PROVE  (a - b) % 2 = 0
  <1>1. a = 2 * (a \div 2) /\ b = 2 * (b \div 2) /\ a \div 2 \in Nat /\ b \div 2 \in Nat
    OBVIOUS
  <1>2. PICK p, q \in Nat : a = 2 * p /\ b = 2 * q
    BY <1>1
  <1> QED
    BY <1>2

\* The end of an alternation that a whole number of turns is missing of is one.
LEMMA LastRolesWell ==
    ASSUME NEW e, Alternates(e), Len(e) % 2 = 0
    PROVE  WellFormedHistory(LastRoles(e))
  <1> DEFINE dropped == IF Len(e) > HistoryLimit THEN Len(e) - HistoryLimit ELSE 0
  <1>1. e \in Seq(MessageType) /\ Len(e) \in Nat
    BY DEF Alternates
  <1>2. HistoryLimit \in Nat /\ HistoryLimit % 2 = 0
    BY WidgetAssumption
  <1>3. PICK d \in Nat : d = dropped /\ d <= Len(e) /\ Len(e) - d <= HistoryLimit
    BY <1>1, <1>2
  <1>4. d % 2 = 0
    <2>1. CASE Len(e) > HistoryLimit
      BY <1>1, <1>2, <1>3, <2>1, EvenLess
    <2>2. CASE ~(Len(e) > HistoryLimit)
      BY <1>3, <2>2
    <2> QED
      BY <2>1, <2>2
  <1>5. LastRoles(e) = [i \in 1 .. Len(e) - d |-> e[d + i].role]
    BY <1>3 DEF LastRoles
  <1> HIDE DEF dropped
  <1>6. Len(LastRoles(e)) = Len(e) - d
    BY <1>1, <1>3, <1>5
  <1>7. (Len(e) - d) % 2 = 0
    BY <1>1, <1>3, <1>4
  <1>8. ASSUME NEW i \in 1 .. Len(e) - d
        PROVE  LastRoles(e)[i] = IF i % 2 = 1 THEN "user" ELSE "assistant"
    <2>1. d + i \in 1 .. Len(e) /\ (d + i) % 2 = i % 2
      BY <1>1, <1>3, <1>4
    <2> QED
      BY <1>5, <2>1 DEF Alternates
  <1> QED
    BY <1>3, <1>6, <1>7, <1>8 DEF WellFormedHistory

\* What is asked with is whole turns, from a question to an answer, whatever has failed.
LEMMA HistoryWell ==
    ASSUME NEW c \in Seq(MessageType), Turns(c, Len(c)), NEW current,
           \A i \in 1 .. Len(c) : c[i].id # current
    PROVE  WellFormedHistory(BuildHistory(c, current))
  <1> DEFINE kept == {i \in DOMAIN c : c[i].status = "complete" /\ c[i].id # current}
             Opens(n) == n > 0 /\ c[n].status = "complete" /\ c[n].role = "user"
  <1>1. Len(c) \in Nat /\ \A n \in 1 .. Len(c) : c[n] \in MessageType /\ (n \in kept <=> c[n].status = "complete")
    OBVIOUS
  <1>2. PICK f \in [0 .. Len(c) -> Seq(MessageType)] : Takes(f, c, kept) /\ Among(c, kept) = f[Len(c)]
    <2> HIDE DEF kept
    <2> QED
      BY AmongDefines
  <1> DEFINE T == {n \in 0 .. Len(c) : /\ Alternates(f[n])
                                       /\ Len(f[n]) % 2 = IF Opens(n) THEN 1 ELSE 0}
  <1>3. 0 \in T
    <2>1. f[0] = <<>> /\ Alternates(<<>>)
      BY <1>2 DEF Takes, Alternates
    <2>2. ~Opens(0) /\ Len(f[0]) % 2 = 0 /\ 0 \in 0 .. Len(c)
      BY <1>1, <2>1
    <2> HIDE DEF Opens, kept
    <2> QED
      BY <2>1, <2>2
  <1>4. ASSUME NEW n \in 1 .. Len(c), n - 1 \in T PROVE n \in T
    <2>1. /\ Alternates(f[n - 1]) /\ Len(f[n - 1]) % 2 = IF Opens(n - 1) THEN 1 ELSE 0
          /\ n - 1 \in 0 .. Len(c) /\ n \in 0 .. Len(c)
      BY <1>1, <1>4
    <2>2. f[n] = IF c[n].status = "complete" THEN Append(f[n - 1], c[n]) ELSE f[n - 1]
      BY <1>1, <1>2 DEF Takes
    <2>3. c[n] \in MessageType /\ c[n].role \in {"user", "assistant"}
      BY <1>1 DEF MessageType
    <2>4. c[n].role = "assistant" <=> Opens(n - 1)
      BY <1>1, <2>3 DEF Turns
    <2> HIDE DEF kept
    <2>5. CASE c[n].status = "complete"
      <3>1. c[n].role = IF Len(f[n - 1]) % 2 = 0 THEN "user" ELSE "assistant"
        BY <2>1, <2>3, <2>4
      <3>2. Alternates(Append(f[n - 1], c[n])) /\ Len(Append(f[n - 1], c[n])) % 2 = 1 - (Len(f[n - 1]) % 2)
        BY <2>1, <2>3, <3>1, AppendAlternates
      <3>3. Opens(n) <=> ~Opens(n - 1)
        BY <1>1, <2>3, <2>4, <2>5
      <3> HIDE DEF Opens
      <3>4. Alternates(f[n]) /\ Len(f[n]) % 2 = 1 - (Len(f[n - 1]) % 2)
        BY <2>2, <2>5, <3>2
      <3> QED
        BY <2>1, <3>3, <3>4
    <2>6. CASE c[n].status # "complete"
      <3>1. ~Opens(n) /\ ~Opens(n - 1)
        <4>1. c[n].role = "user"
          BY <2>3, <2>6 DEF Turns
        <4> QED
          BY <2>4, <2>6, <4>1
      <3> HIDE DEF Opens
      <3> QED
        BY <2>1, <2>2, <2>6, <3>1
    <2> QED
      BY <2>5, <2>6
  <1>5. 0 .. Len(c) \subseteq T
    <2> HIDE DEF T
    <2> QED
      BY <1>1, <1>3, <1>4, UpTo
  <1>6. Len(c) \in T
    BY <1>1, <1>5
  <1>7. ~Opens(Len(c))
    BY <1>1 DEF Turns
  <1>8. Alternates(Among(c, kept)) /\ Len(Among(c, kept)) % 2 = 0
    <2> HIDE DEF Opens, kept
    <2> QED
      BY <1>2, <1>6, <1>7
  <1> HIDE DEF T
  <1> QED
    BY <1>8, LastRolesWell DEF BuildHistory

\* A filter that keeps a beginning.
LEMMA AmongFirst ==
    ASSUME NEW S, NEW c \in Seq(S), NEW k \in 0 .. Len(c)
    PROVE  /\ Among(c, 1 .. k) \in Seq(S) /\ Len(Among(c, 1 .. k)) = k
           /\ \A i \in 1 .. k : Among(c, 1 .. k)[i] = c[i]
  <1>1. PICK f \in [0 .. Len(c) -> Seq(S)] : Takes(f, c, 1 .. k) /\ Among(c, 1 .. k) = f[Len(c)]
    BY AmongDefines
  <1>2. Len(c) \in Nat /\ k \in Nat /\ \A n \in 1 .. Len(c) : c[n] \in S
    OBVIOUS
  <1> DEFINE least(n) == IF n <= k THEN n ELSE k
             T == {n \in 0 .. Len(c) : /\ Len(f[n]) = least(n)
                                       /\ \A i \in 1 .. least(n) : f[n][i] = c[i]}
  <1>3. 0 \in T
    BY <1>1, <1>2 DEF Takes
  <1>4. ASSUME NEW n \in 1 .. Len(c), n - 1 \in T PROVE n \in T
    <2>1. /\ f[n - 1] \in Seq(S) /\ n - 1 \in 0 .. Len(c) /\ n \in 0 .. Len(c)
          /\ Len(f[n - 1]) = least(n - 1) /\ \A i \in 1 .. least(n - 1) : f[n - 1][i] = c[i]
      BY <1>2, <1>4
    <2>2. CASE n <= k
      <3>1. f[n] = Append(f[n - 1], c[n]) /\ Len(f[n - 1]) = n - 1 /\ c[n] \in S
        <4>1. n \in 1 .. k /\ n - 1 <= k
          BY <1>2, <2>2
        <4>2. f[n] = Append(f[n - 1], c[n])
          BY <1>1, <4>1 DEF Takes
        <4> QED
          BY <1>2, <2>1, <4>1, <4>2
      <3>2. Len(f[n]) = n
        BY <1>2, <2>1, <3>1
      <3>3. ASSUME NEW i \in 1 .. n PROVE f[n][i] = c[i]
        <4>1. CASE i = n
          BY <1>2, <2>1, <3>1, <4>1
        <4>2. CASE i # n
          BY <1>2, <2>1, <2>2, <3>1, <4>2
        <4> QED
          BY <4>1, <4>2
      <3> QED
        BY <2>1, <2>2, <3>2, <3>3
    <2>3. CASE n > k
      <3>1. f[n] = f[n - 1] /\ least(n) = k /\ least(n - 1) = k
        BY <1>1, <1>2, <2>1, <2>3 DEF Takes
      <3> QED
        BY <2>1, <3>1
    <2>4. n \in Nat
      BY <1>2
    <2> QED
      BY <1>2, <2>2, <2>3, <2>4
  <1>5. 0 .. Len(c) \subseteq T
    <2> HIDE DEF T
    <2> QED
      BY <1>2, <1>3, <1>4, UpTo
  <1>6. Len(c) \in T /\ least(Len(c)) = k
    BY <1>2, <1>5
  <1> QED
    BY <1>1, <1>2, <1>6

-----------------------------------------------------------------------------
(* The widget: mounting and asking *)

\* The widget starts with nothing shown and nothing asked.
LEMMA WidgetStarts == ASSUME WidgetInit PROVE WidgetInv
  <1>1. WidgetTypeOK
    <2>1. messages \in Seq(MessageType) /\ number \in 0 .. MaxMessages /\ changes \in 0 .. MaxChanges
      BY WidgetAssumption DEF WidgetInit
    <2> QED
      BY <2>1 DEF WidgetInit, WidgetTypeOK
  <1>2. ExchangesSound
    BY ExchangesStart DEF WidgetInit
  <1>3. MessagesSound /\ IdleSound
    BY DEF WidgetInit, MessagesSound, IdleSound, Turns
  <1> QED
    BY <1>1, <1>2, <1>3 DEF WidgetInv, WidgetInit

\* Nothing is pending in an empty conversation.
LEMMA Unmounted ==
    ASSUME WidgetInv, Unmount,
           assistant' \in AssistantIds /\ changes' \in 0 .. MaxChanges /\ loading' \in BOOLEAN,
           bootstrap' \in [key : AssistantIds, status : {"loading", "loaded", "error"},
                           welcome : Welcomes]
    PROVE  WidgetInv'
  <1>1. ExchangesSound'
    <2>1. CASE pending = NoExchange
      BY <2>1 DEF WidgetInv, Unmount, exchangeVars, ExchangesSound
    <2>2. CASE pending # NoExchange
      <3>1. pending.request \in Requests /\ Close(pending.request)
        BY <2>2 DEF WidgetInv, WidgetTypeOK, PendingType, Unmount
      <3> QED
        BY <3>1, CloseSound DEF WidgetInv
    <2> QED
      BY <2>1, <2>2
  <1>2. messages' = <<>> /\ number' = 0 /\ failed' = NoFailure /\ pending' = NoExchange
    BY DEF Unmount
  <1>3. messages' \in Seq(MessageType) /\ number' \in 0 .. MaxMessages
    BY <1>2, WidgetAssumption
  <1>4. WidgetTypeOK'
    BY <1>2, <1>3 DEF WidgetTypeOK
  <1>5. MessagesSound' /\ IdleSound'
    BY <1>2 DEF MessagesSound, IdleSound, Turns
  <1> QED
    BY <1>1, <1>2, <1>4, <1>5 DEF WidgetInv

\* Another assistant: everything is given up (useConversation).
LEMMA ChangeSound == ASSUME WidgetInv, ChangeAssistant PROVE WidgetInv'
  <1>1. changes' \in 0 .. MaxChanges
    BY WidgetAssumption DEF WidgetInv, WidgetTypeOK, ChangeAssistant
  <1> QED
    BY <1>1, Unmounted DEF WidgetInv, WidgetTypeOK, ChangeAssistant

\* What no step but those of the conversation changes.
LEMMA TalkOn ==
    ASSUME WidgetInv, UNCHANGED talkVars, ExchangesSound', WidgetTypeOK',
           pending # NoExchange => ReadSound' /\ Mounted' /\ assistant' = assistant
    PROVE  WidgetInv'
  <1>1. messages' = messages /\ number' = number /\ pending' = pending /\ failed' = failed
    BY DEF talkVars
  <1>2. MessagesSound'
    BY <1>1 DEF WidgetInv, MessagesSound
  <1>3. CASE pending = NoExchange
    BY <1>1, <1>2, <1>3 DEF WidgetInv, IdleSound, Turns
  <1>4. CASE pending # NoExchange
    <2>1. \A k \in 0 .. Len(messages) : Turns(messages, k) /\ Waiting(k) => (Turns(messages, k) /\ Waiting(k))'
      BY <1>1 DEF Turns, Waiting
    <2>2. PendingSound'
      BY <1>1, <1>4, <2>1 DEF WidgetInv, PendingSound
    <2> QED
      BY <1>1, <1>2, <1>4, <2>2 DEF WidgetInv
  <1> QED
    BY <1>3, <1>4

\* The bootstrap answers, or fails.
LEMMA LoadSound == ASSUME WidgetInv, Load PROVE WidgetInv'
  <1>1. PICK s \in {"loaded", "error"}, w \in Welcomes :
          /\ bootstrap' = [key |-> assistant, status |-> s,
                           welcome |-> IF s = "loaded" THEN w ELSE bootstrap.welcome]
          /\ IF Mounted /\ s = "loaded" /\ w = bootstrap.welcome
             THEN UNCHANGED <<talkVars, exchangeVars>>
             ELSE Unmount
    BY DEF Load
  <1>2. /\ assistant' = assistant /\ changes' = changes /\ loading' = FALSE
        /\ assistant \in AssistantIds /\ changes \in 0 .. MaxChanges
        /\ bootstrap.welcome \in Welcomes
    BY DEF Load, WidgetInv, WidgetTypeOK
  <1>3. bootstrap' \in [key : AssistantIds, status : {"loading", "loaded", "error"},
                        welcome : Welcomes]
    BY <1>1, <1>2
  <1>4. CASE Mounted /\ s = "loaded" /\ w = bootstrap.welcome
    <2>1. UNCHANGED <<talkVars, exchangeVars>> /\ Mounted'
      BY <1>1, <1>2, <1>4 DEF Mounted
    <2>2. WidgetTypeOK' /\ ExchangesSound'
      <3>1. /\ messages' = messages /\ number' = number /\ pending' = pending /\ failed' = failed
            /\ busy' = busy /\ status' = status /\ events' = events /\ link' = link
        BY <2>1 DEF talkVars, exchangeVars
      <3>2. WidgetTypeOK'
        BY <1>2, <1>3, <3>1 DEF WidgetInv, WidgetTypeOK
      <3> QED
        BY <3>1, <3>2 DEF WidgetInv, ExchangesSound
    <2>3. pending # NoExchange => ReadSound'
      BY <2>1 DEF WidgetInv, PendingSound, ReadSound, talkVars, exchangeVars
    <2> QED
      BY <1>2, <2>1, <2>2, <2>3, TalkOn
  <1>5. CASE ~(Mounted /\ s = "loaded" /\ w = bootstrap.welcome)
    BY <1>1, <1>2, <1>3, <1>5, Unmounted
  <1> QED
    BY <1>4, <1>5

\* The server sends, ends or loses what the widget has not read.
LEMMA ServerKeeps == ASSUME WidgetInv, Server PROVE WidgetInv'
  <1>1. ExchangesSound' /\ \A q \in Requests : Goes(q)
    BY ServerSound
  <1>2. UNCHANGED talkVars /\ UNCHANGED bootVars
    BY DEF Server
  <1>3. WidgetTypeOK' /\ (Mounted <=> Mounted')
    BY <1>2 DEF WidgetInv, WidgetTypeOK, bootVars, talkVars, Mounted
  <1>4. ASSUME pending # NoExchange PROVE ReadSound'
    <2>1. pending.request \in Requests
      BY <1>4 DEF WidgetInv, WidgetTypeOK, PendingType
    <2> QED
      BY <1>1, <1>2, <1>4, <2>1, ReadOn DEF WidgetInv, PendingSound, talkVars
  <1>5. pending # NoExchange => Mounted
    BY DEF WidgetInv, PendingSound
  <1> QED
    BY <1>1, <1>2, <1>3, <1>4, <1>5, TalkOn DEF bootVars

\* Nothing happens.
LEMMA WidgetStutters == ASSUME WidgetInv, UNCHANGED vars PROVE WidgetInv'
  <1>1. UNCHANGED talkVars /\ UNCHANGED bootVars /\ UNCHANGED exchangeVars
    BY DEF vars
  <1>2. WidgetTypeOK' /\ ExchangesSound' /\ (Mounted <=> Mounted')
    BY <1>1 DEF WidgetInv, WidgetTypeOK, ExchangesSound, bootVars, talkVars, exchangeVars, Mounted
  <1>3. pending # NoExchange => ReadSound' /\ Mounted
    BY <1>1 DEF WidgetInv, PendingSound, ReadSound, talkVars, exchangeVars
  <1> QED
    BY <1>1, <1>2, <1>3, TalkOn DEF bootVars

\* What a message of a conversation holds.
LEMMA MessageFields ==
    ASSUME NEW c \in Seq(MessageType)
    PROVE  \A i \in 1 .. Len(c) :
              /\ c[i] \in MessageType /\ c[i].id \in Nat
              /\ c[i].role \in {"user", "assistant"}
              /\ c[i].status \in {"complete", "pending", "failed"}
  <1>1. ASSUME NEW i \in 1 .. Len(c) PROVE c[i] \in MessageType
    OBVIOUS
  <1> QED
    BY <1>1, WidgetAssumption DEF MessageType

\* A question that is asked, at the end of settled turns.
LEMMA AskSound ==
    ASSUME WidgetInv, NEW question \in 1 .. MaxMessages, NEW preceding,
           RequestAnswer(question, preceding),
           messages' \in Seq(MessageType), messages' # <<>>,
           number' \in 1 .. MaxMessages, question < number',
           \A i, j \in 1 .. Len(messages') : messages'[i].id = messages'[j].id => i = j,
           \A i \in 1 .. Len(messages') : messages'[i].id < number',
           Turns(messages', Len(messages') - 1),
           messages'[Len(messages')].id = question,
           messages'[Len(messages')].role = "user",
           messages'[Len(messages')].status = "pending"
    PROVE  WidgetInv'
  <1>1. PICK r \in Requests :
          /\ Arrive(r, BuildHistory(preceding, question))
          /\ pending' = [request |-> r, of |-> assistant, question |-> question,
                         answer |-> number', seen |-> 0, text |-> 0]
    BY DEF RequestAnswer
  <1>2. /\ assistant' = assistant /\ changes' = changes /\ loading' = loading /\ bootstrap' = bootstrap
        /\ Mounted /\ Mounted' /\ failed' = NoFailure
    BY DEF RequestAnswer, bootVars, Mounted
  <1>3. ExchangesSound' /\ events' = events /\ link' = link /\ link[r] = "open" /\ events[r] = <<>>
    BY <1>1, ArriveSound DEF WidgetInv
  <1>4. pending' \in PendingType
    BY <1>1, WidgetAssumption DEF WidgetInv, WidgetTypeOK, PendingType
  <1>5. pending' # NoExchange
    BY <1>4, NoneAssumption
  <1>6. WidgetTypeOK'
    BY <1>2, <1>4 DEF WidgetInv, WidgetTypeOK
  <1>7. ReadSound'
    BY <1>1, <1>3 DEF ReadSound
  <1>8. MessagesSound'
    <2>1. \A i \in 1 .. Len(messages') : messages'[i].id \in Nat
      BY MessageFields
    <2>2. \A i \in 1 .. Len(messages') : messages'[i].id <= number'
      BY <2>1
    <2> QED
      BY <2>2 DEF MessagesSound
  <1>9. \E k \in 0 .. Len(messages') : Turns(messages', k) /\ Waiting(k)'
    <2>1. PICK k : k = Len(messages') - 1
      OBVIOUS
    <2>2. k \in 0 .. Len(messages') /\ Len(messages') = k + 1
      BY <2>1
    <2>3. \A i \in 1 .. k + 1 : messages'[i].id # number'
      BY <2>2
    <2>4. Waiting(k)'
      BY <1>1, <2>2, <2>3 DEF Waiting
    <2>5. Turns(messages', k)
      BY <2>1
    <2> QED
      BY <2>2, <2>4, <2>5
  <1>10. (\E k \in 0 .. Len(messages) : Turns(messages, k) /\ Waiting(k))'
    BY <1>9 DEF Turns
  <1>11. pending'.of = assistant' /\ pending'.answer = number' /\ pending'.question < number'
    BY <1>1, <1>2
  <1>12. PendingSound'
    BY <1>2, <1>7, <1>10, <1>11 DEF PendingSound
  <1> QED
    BY <1>3, <1>5, <1>6, <1>8, <1>12 DEF WidgetInv

\* A question is added at the end, and waits.
LEMMA SubmitSound == ASSUME WidgetInv, Submit PROVE WidgetInv'
  <1> DEFINE n == Len(messages)
             asked == [id |-> number + 1, role |-> "user", status |-> "pending", text |-> 0]
  <1>1. /\ messages \in Seq(MessageType) /\ number \in 0 .. MaxMessages
        /\ number' = number + 2 /\ number' \in 1 .. MaxMessages /\ number + 1 \in 1 .. MaxMessages
        /\ messages' = Append(messages, asked)
        /\ RequestAnswer(number + 1, messages) /\ pending = NoExchange
    BY WidgetAssumption DEF WidgetInv, WidgetTypeOK, Submit, RequestAnswer
  <1>2. asked \in MessageType
    BY <1>1, WidgetAssumption DEF MessageType
  <1>3. PICK a \in MessageType : a = asked
    BY <1>2
  <1>4. a.id = number + 1 /\ a.role = "user" /\ a.status = "pending"
    BY <1>3
  <1> HIDE DEF asked
  <1>5. /\ messages' \in Seq(MessageType) /\ Len(messages') = n + 1 /\ n \in Nat
        /\ messages'[n + 1] = a /\ \A i \in 1 .. n : messages'[i] = messages[i]
    BY <1>1, <1>3
  <1>6. /\ \A i, j \in 1 .. n : messages[i].id = messages[j].id => i = j
        /\ \A i \in 1 .. n : messages[i].id <= number /\ messages[i].id \in Nat
        /\ Turns(messages, n)
    <2>1. \A i \in 1 .. Len(messages) : messages[i].id \in Nat
      BY <1>1, MessageFields
    <2> QED
      BY <1>1, <2>1 DEF WidgetInv, MessagesSound, IdleSound
  <1> HIDE DEF n
  <1>7. \A i \in 1 .. n + 1 : messages'[i].id < number + 2
    BY <1>1, <1>4, <1>5, <1>6
  <1>8. ASSUME NEW i \in 1 .. n + 1, NEW j \in 1 .. n + 1, messages'[i].id = messages'[j].id
        PROVE  i = j
    BY <1>1, <1>4, <1>5, <1>6, <1>8
  <1>9. Turns(messages', n)
    BY <1>5, <1>6 DEF Turns
  <1>10. messages' # <<>> /\ Len(messages') - 1 = n
    BY <1>5
  <1>11. number + 1 < number'
    BY <1>1
  <1> QED
    BY <1>1, <1>4, <1>5, <1>7, <1>8, <1>9, <1>10, <1>11, AskSound

\* A change of status changes nothing else.
LEMMA StatusSet ==
    ASSUME NEW c \in Seq(MessageType), NEW id, NEW s \in {"complete", "pending", "failed"}
    PROVE  /\ SetStatus(c, id, s) \in Seq(MessageType) /\ Len(SetStatus(c, id, s)) = Len(c)
           /\ \A i \in 1 .. Len(c) :
                /\ SetStatus(c, id, s)[i].id = c[i].id
                /\ SetStatus(c, id, s)[i].role = c[i].role
                /\ SetStatus(c, id, s)[i].text = c[i].text
                /\ SetStatus(c, id, s)[i].status = IF c[i].id = id THEN s ELSE c[i].status
                /\ c[i].id # id => SetStatus(c, id, s)[i] = c[i]
  <1> DEFINE d == SetStatus(c, id, s)
  <1>1. DOMAIN c = 1 .. Len(c) /\ Len(c) \in Nat /\ \A i \in 1 .. Len(c) : c[i] \in MessageType
    OBVIOUS
  <1>2. d = [i \in 1 .. Len(c) |->
               IF c[i].id = id THEN [c[i] EXCEPT !.status = s] ELSE c[i]]
    BY <1>1 DEF SetStatus
  <1>3. ASSUME NEW i \in 1 .. Len(c)
        PROVE  /\ d[i] \in MessageType
               /\ d[i].id = c[i].id /\ d[i].role = c[i].role /\ d[i].text = c[i].text
               /\ d[i].status = IF c[i].id = id THEN s ELSE c[i].status
               /\ c[i].id # id => d[i] = c[i]
    <2>1. c[i] \in MessageType
      BY <1>1
    <2>2. d[i] = IF c[i].id = id THEN [c[i] EXCEPT !.status = s] ELSE c[i]
      BY <1>2
    <2> HIDE DEF d
    <2> QED
      BY <2>1, <2>2 DEF MessageType
  <1>4. d \in [1 .. Len(c) -> MessageType]
    <2> HIDE DEF d
    <2> QED
      BY <1>2, <1>3
  <1>5. d \in Seq(MessageType) /\ Len(d) = Len(c)
    <2> HIDE DEF d
    <2> QED
      BY <1>1, <1>4
  <1> QED
    BY <1>3, <1>5

\* The failed question is shown as pending again, and waits.
LEMMA RetrySound == ASSUME WidgetInv, Retry PROVE WidgetInv'
  <1> DEFINE n == Len(messages)
             id == failed.id
  <1>1. /\ messages \in Seq(MessageType) /\ number \in 0 .. MaxMessages
        /\ number' = number + 1 /\ number' \in 1 .. MaxMessages /\ n \in Nat
        /\ messages' = SetStatus(messages, id, "pending")
        /\ RequestAnswer(id, Preceding(id)) /\ pending = NoExchange
    BY WidgetAssumption DEF WidgetInv, WidgetTypeOK, Retry, RequestAnswer
  <1>2. id \in 1 .. MaxMessages
    BY DEF WidgetInv, WidgetTypeOK, FailureType, Retry
  <1>3. messages # <<>> /\ messages[n].id = id /\ messages[n].status = "failed" /\ Turns(messages, n)
    BY <1>1 DEF WidgetInv, IdleSound, Retry
  <1> HIDE DEF id
  <1>4. n \in 1 .. Len(messages)
    BY <1>1, <1>3
  <1>5. /\ \A i, j \in 1 .. n : messages[i].id = messages[j].id => i = j
        /\ \A i \in 1 .. n : messages[i].id <= number
        /\ \A i \in 1 .. n : messages[i].id \in Nat
    BY <1>1, MessageFields DEF WidgetInv, MessagesSound
  <1>6. /\ messages' \in Seq(MessageType) /\ Len(messages') = n
        /\ \A i \in 1 .. n : messages'[i].id = messages[i].id /\ messages'[i].role = messages[i].role
        /\ \A i \in 1 .. n : messages'[i].status = IF messages[i].id = id THEN "pending" ELSE messages[i].status
    BY <1>1, StatusSet
  <1> HIDE DEF n
  <1>7. Turns(messages', n - 1)
    <2>1. ASSUME NEW i \in 1 .. n - 1
          PROVE  /\ messages'[i].status = messages[i].status /\ messages'[i].role = messages[i].role
                 /\ i \in 1 .. n
      <3>1. i \in 1 .. n /\ n \in 1 .. n /\ i # n
        BY <1>1
      <3> QED
        BY <1>3, <1>5, <1>6, <3>1
    <2>2. ~(messages[n].status = "complete")
      BY <1>3
    <2>3. ASSUME NEW i \in 1 .. n - 1, messages[i].status = "complete", messages[i].role = "user"
          PROVE  i < n - 1 /\ i + 1 \in 1 .. n - 1
      <3>1. i \in 1 .. n /\ messages[i + 1].status = "complete"
        BY <1>1, <1>3, <2>3 DEF Turns
      <3> QED
        BY <1>1, <2>2, <3>1
    <2>4. ASSUME NEW i \in 1 .. n - 1, messages[i].role = "assistant"
          PROVE  i > 1 /\ i - 1 \in 1 .. n - 1
      <3>1. i \in 1 .. n /\ i > 1
        BY <1>1, <1>3, <2>4 DEF Turns
      <3> QED
        BY <1>1, <3>1
    <2> QED
      BY <1>3, <2>1, <2>3, <2>4 DEF Turns
  <1>8. /\ messages'[n].id = id /\ messages'[n].status = "pending" /\ messages'[n].role = "user"
    BY <1>1, <1>3, <1>4, <1>6 DEF Turns
  <1>9. /\ \A i, j \in 1 .. n : messages'[i].id = messages'[j].id => i = j
        /\ \A i \in 1 .. n : messages'[i].id < number'
        /\ id < number' /\ messages' # <<>>
    <2>1. n \in 1 .. n
      BY <1>1, <1>4
    <2>2. id <= number /\ id \in Nat
      BY <1>3, <1>5, <2>1
    <2>3. messages' # <<>>
      BY <1>6, <2>1
    <2>4. number \in Nat /\ number' = number + 1
      BY <1>1, WidgetAssumption
    <2>5. ASSUME NEW i \in 1 .. n PROVE messages'[i].id < number'
      <3>1. messages'[i].id = messages[i].id /\ messages[i].id \in Nat /\ messages[i].id <= number
        BY <1>5, <1>6
      <3> QED
        BY <2>4, <3>1
    <2> QED
      BY <1>5, <1>6, <2>2, <2>3, <2>4, <2>5
  <1> QED
    BY <1>1, <1>2, <1>6, <1>7, <1>8, <1>9, AskSound

-----------------------------------------------------------------------------
(* The widget: consuming an answer *)

\* What a pending request says.
LEMMA PendingFields ==
    ASSUME WidgetInv, pending # NoExchange
    PROVE  /\ PendingSound /\ messages \in Seq(MessageType) /\ Len(messages) \in Nat
           /\ pending \in PendingType /\ pending.request \in Requests /\ pending.seen \in Nat
           /\ pending.question \in 1 .. MaxMessages /\ pending.answer \in 1 .. MaxMessages
           /\ pending.text \in 0 .. MaxDeltas
           /\ Len(events[pending.request]) \in Nat /\ StreamShape(events[pending.request])
  <1>1. /\ PendingSound /\ messages \in Seq(MessageType) /\ pending \in PendingType /\ ExchangesSound
    BY DEF WidgetInv, WidgetTypeOK
  <1>2. pending.request \in Requests
    BY <1>1 DEF PendingType
  <1> QED
    BY <1>1, <1>2 DEF PendingType, ExchangesSound, StreamShape

\* Where the pending question and its answer are.
LEMMA PendingTail ==
    ASSUME WidgetInv, pending # NoExchange
    PROVE  \E k \in Nat :
              /\ Turns(messages, k) /\ Waiting(k)
              /\ k + 1 \in 1 .. Len(messages)
              /\ \A i \in 1 .. k : messages[i].id # pending.question
              /\ {i \in DOMAIN messages : messages[i].id # pending.answer} = 1 .. k + 1
  <1>1. PICK k \in 0 .. Len(messages) : Turns(messages, k) /\ Waiting(k)
    BY PendingFields DEF PendingSound
  <1>0. DOMAIN messages = 1 .. Len(messages)
    BY PendingFields
  <1>2. /\ k \in Nat
        /\ \/ Len(messages) = k + 1
           \/ Len(messages) = k + 2
    BY <1>1, PendingFields DEF Waiting
  <1>3. k + 1 \in 1 .. Len(messages)
    BY <1>2
  <1>4. \A i \in 1 .. k : messages[i].id # pending.question
    <2>1. ASSUME NEW i \in 1 .. k, messages[i].id = pending.question PROVE FALSE
      <3>1. i \in 1 .. Len(messages) /\ i # k + 1
        BY <1>2
      <3>2. messages[i].id = messages[k + 1].id
        BY <1>1, <2>1 DEF Waiting
      <3> QED
        BY <1>3, <3>1, <3>2 DEF WidgetInv, MessagesSound
    <2> QED
      BY <2>1
  <1>5. {i \in DOMAIN messages : messages[i].id # pending.answer} = 1 .. k + 1
    <2>1. CASE Len(messages) = k + 1
      BY <1>0, <1>1, <1>2, <2>1 DEF Waiting
    <2>2. CASE Len(messages) = k + 2
      <3>1. /\ messages[k + 2].id = pending.answer
            /\ \A i \in 1 .. k + 1 : messages[i].id # pending.answer
        BY <1>1, <2>2 DEF Waiting
      <3>2. DOMAIN messages = (1 .. k + 1) \union {k + 2}
        BY <1>0, <1>2, <2>2
      <3>3. k + 2 \notin 1 .. k + 1
        BY <1>2
      <3> QED
        BY <3>1, <3>2, <3>3
    <2> QED
      BY <1>2, <2>1, <2>2
  <1> QED
    BY <1>1, <1>2, <1>3, <1>4, <1>5

\* Showing the answer adds or replaces the last message.
LEMMA AnswerShown ==
    ASSUME WidgetInv, pending # NoExchange, NEW k \in Nat, Waiting(k),
           NEW c \in Seq(MessageType), Len(c) = Len(messages),
           \A i \in 1 .. Len(c) : c[i].id = messages[i].id,
           NEW s \in {"complete", "pending"}, NEW t \in 0 .. MaxDeltas
    PROVE  /\ ShowAnswer(c, s, t) \in Seq(MessageType) /\ Len(ShowAnswer(c, s, t)) = k + 2
           /\ \A i \in 1 .. k + 1 : ShowAnswer(c, s, t)[i] = c[i]
           /\ ShowAnswer(c, s, t)[k + 2] =
                [id |-> pending.answer, role |-> "assistant", status |-> s, text |-> t]
  <1> DEFINE shown == [id |-> pending.answer, role |-> "assistant", status |-> s, text |-> t]
  <1>1. shown \in MessageType
    BY PendingFields DEF MessageType
  <1>0. DOMAIN c = 1 .. Len(c) /\ \A i \in 1 .. Len(c) : c[i] \in MessageType
    OBVIOUS
  <1>2. Len(c) = k + 1 \/ Len(c) = k + 2
    BY DEF Waiting
  <1>3. PICK m \in MessageType : m = shown
    BY <1>1
  <1>4. ShowAnswer(c, s, t) =
          IF \E i \in DOMAIN c : c[i].id = m.id
          THEN [i \in DOMAIN c |-> IF c[i].id = m.id THEN m ELSE c[i]]
          ELSE Append(c, m)
    BY <1>3 DEF ShowAnswer
  <1>5. m.id = pending.answer
    BY <1>3
  <1>6. \A i \in 1 .. k + 1 : i \in 1 .. Len(c) /\ c[i].id # m.id
    <2>1. ASSUME NEW i \in 1 .. k + 1 PROVE i \in 1 .. Len(c) /\ c[i].id # m.id
      <3>1. i \in 1 .. Len(c)
        BY <1>2
      <3> QED
        BY <1>5, <3>1 DEF Waiting
    <2> QED
      BY <2>1
  <1> HIDE DEF shown
  <1> SUFFICES /\ ShowAnswer(c, s, t) \in Seq(MessageType) /\ Len(ShowAnswer(c, s, t)) = k + 2
               /\ \A i \in 1 .. k + 1 : ShowAnswer(c, s, t)[i] = c[i]
               /\ ShowAnswer(c, s, t)[k + 2] = m
    BY <1>3 DEF shown
  <1>7. CASE Len(c) = k + 1
    <2>1. ShowAnswer(c, s, t) = Append(c, m)
      BY <1>0, <1>4, <1>6, <1>7
    <2> QED
      BY <1>7, <2>1
  <1>8. CASE Len(c) = k + 2
    <2>1. c[k + 2].id = m.id /\ k + 2 \in DOMAIN c
      BY <1>0, <1>5, <1>8 DEF Waiting
    <2>2. ShowAnswer(c, s, t) = [i \in 1 .. k + 2 |-> IF c[i].id = m.id THEN m ELSE c[i]]
      BY <1>0, <1>4, <1>8, <2>1
    <2>3. PICK d : d = ShowAnswer(c, s, t)
      OBVIOUS
    <2>4. \A i \in 1 .. k + 2 : d[i] \in MessageType
      BY <1>0, <1>8, <2>2, <2>3
    <2>5. d \in Seq(MessageType) /\ Len(d) = k + 2
      BY <2>2, <2>3, <2>4
    <2> QED
      BY <1>6, <2>1, <2>2, <2>3, <2>5
  <1> QED
    BY <1>2, <1>7, <1>8

\* A settled turn whatever comes after it.
LEMMA TurnsStay ==
    ASSUME NEW c, NEW d, NEW k \in Nat, Turns(c, k),
           \A i \in 1 .. k : d[i].status = c[i].status /\ d[i].role = c[i].role
    PROVE  Turns(d, k)
  <1>1. ASSUME NEW i \in 1 .. k, c[i].status = "complete", c[i].role = "user"
        PROVE  i < k /\ d[i + 1].status = "complete" /\ d[i + 1].role = "assistant"
    <2>1. i < k /\ c[i + 1].status = "complete" /\ c[i + 1].role = "assistant"
      BY <1>1 DEF Turns
    <2>2. i + 1 \in 1 .. k
      BY <2>1
    <2> QED
      BY <2>1, <2>2
  <1>2. ASSUME NEW i \in 1 .. k, c[i].role = "assistant"
        PROVE  i > 1 /\ d[i - 1].status = "complete" /\ d[i - 1].role = "user"
    <2>1. i > 1 /\ c[i - 1].status = "complete" /\ c[i - 1].role = "user"
      BY <1>2 DEF Turns
    <2>2. i - 1 \in 1 .. k
      BY <2>1
    <2> QED
      BY <2>1, <2>2
  <1> QED
    BY <1>1, <1>2 DEF Turns

\* The exchange ends without an answer: the part shown goes, the question has failed.
LEMMA FailSound == ASSUME WidgetInv, pending # NoExchange, NEW retryable \in BOOLEAN, Fail(retryable) PROVE WidgetInv'
  <1>1. PICK k \in Nat :
          /\ Turns(messages, k) /\ Waiting(k) /\ k + 1 \in 1 .. Len(messages)
          /\ \A i \in 1 .. k : messages[i].id # pending.question
          /\ {i \in DOMAIN messages : messages[i].id # pending.answer} = 1 .. k + 1
    BY PendingTail
  <1>2. PICK c : c = Among(messages, 1 .. k + 1)
    OBVIOUS
  <1>3. /\ c \in Seq(MessageType) /\ Len(c) = k + 1
        /\ \A i \in 1 .. k + 1 : c[i] = messages[i] /\ i \in 1 .. Len(messages)
    <2>1. k + 1 \in 0 .. Len(messages) /\ messages \in Seq(MessageType)
      BY <1>1, PendingFields
    <2>2. \A i \in 1 .. k + 1 : i \in 1 .. Len(messages)
      BY <1>1, <2>1
    <2>3. /\ c \in Seq(MessageType) /\ Len(c) = k + 1
          /\ \A i \in 1 .. k + 1 : c[i] = messages[i]
      BY <1>2, <2>1, AmongFirst
    <2> QED
      BY <2>2, <2>3
  <1>4. /\ messages' = SetStatus(c, pending.question, "failed")
        /\ failed' = [id |-> pending.question, retryable |-> retryable]
        /\ pending' = NoExchange /\ Close(pending.request) /\ number' = number
        /\ UNCHANGED bootVars
    BY <1>1, <1>2 DEF Fail
  <1>5. /\ messages' \in Seq(MessageType) /\ Len(messages') = k + 1
        /\ \A i \in 1 .. k + 1 :
             /\ messages'[i].id = messages[i].id /\ messages'[i].role = messages[i].role
             /\ messages'[i].status = IF messages[i].id = pending.question THEN "failed" ELSE messages[i].status
    <2>1. /\ messages' \in Seq(MessageType) /\ Len(messages') = Len(c)
          /\ \A i \in 1 .. Len(c) :
               /\ messages'[i].id = c[i].id /\ messages'[i].role = c[i].role
               /\ messages'[i].status = IF c[i].id = pending.question THEN "failed" ELSE c[i].status
      <3>1. PICK d : d = SetStatus(c, pending.question, "failed")
        OBVIOUS
      <3>2. /\ d \in Seq(MessageType) /\ Len(d) = Len(c)
            /\ \A i \in 1 .. Len(c) :
                 /\ d[i].id = c[i].id /\ d[i].role = c[i].role
                 /\ d[i].status = IF c[i].id = pending.question THEN "failed" ELSE c[i].status
        <4>1. c \in Seq(MessageType)
          BY <1>3
        <4>2. "failed" \in {"complete", "pending", "failed"}
          OBVIOUS
        <4> QED
          BY <3>1, <4>1, <4>2, StatusSet
      <3> QED
        BY <1>4, <3>1, <3>2
    <2> QED
      BY <1>3, <2>1
  <1>6. ExchangesSound'
    BY <1>4, CloseSound, PendingFields DEF WidgetInv
  <1>7. failed' \in FailureType
    BY <1>4, PendingFields DEF FailureType
  <1>8. WidgetTypeOK'
    BY <1>4, <1>5, <1>7 DEF WidgetInv, WidgetTypeOK, bootVars
  <1>9. MessagesSound'
    <2>1. \A i \in 1 .. k + 1 : messages'[i].id <= number'
      BY <1>3, <1>4, <1>5 DEF WidgetInv, MessagesSound
    <2>2. \A i, j \in 1 .. k + 1 : messages'[i].id = messages'[j].id => i = j
      BY <1>3, <1>5 DEF WidgetInv, MessagesSound
    <2> QED
      BY <1>5, <2>1, <2>2 DEF MessagesSound
  <1>10. /\ messages'[k + 1].id = pending.question /\ messages'[k + 1].status = "failed"
         /\ messages'[k + 1].role = "user" /\ k + 1 \in 1 .. k + 1
    BY <1>1, <1>5 DEF Waiting
  <1>11. Turns(messages', k)
    <2>1. \A i \in 1 .. k : messages'[i].status = messages[i].status /\ messages'[i].role = messages[i].role
      BY <1>1, <1>5
    <2> QED
      BY <1>1, <2>1, TurnsStay
  <1>12. Turns(messages', k + 1)
    BY <1>10, <1>11 DEF Turns
  <1>13. IdleSound'
    <2>1. messages' # <<>> /\ Turns(messages', Len(messages'))
      BY <1>5, <1>12
    <2>2. messages'[Len(messages')].id = failed'.id /\ messages'[Len(messages')].status = "failed"
      BY <1>4, <1>5, <1>10
    <2> QED
      BY <2>1, <2>2 DEF IdleSound, Turns
  <1> QED
    BY <1>4, <1>6, <1>8, <1>9, <1>13 DEF WidgetInv

\* The exchange ends with its answer, which stands after its question.
LEMMA FinishSound == ASSUME WidgetInv, pending # NoExchange, Finish PROVE WidgetInv'
  <1>1. PICK k \in Nat :
          /\ Turns(messages, k) /\ Waiting(k) /\ k + 1 \in 1 .. Len(messages)
          /\ \A i \in 1 .. k : messages[i].id # pending.question
    BY PendingTail
  <1>2. PICK c : c = SetStatus(messages, pending.question, "complete")
    OBVIOUS
  <1>3. /\ c \in Seq(MessageType) /\ Len(c) = Len(messages)
        /\ \A i \in 1 .. Len(messages) :
             /\ c[i].id = messages[i].id /\ c[i].role = messages[i].role
             /\ c[i].status = IF messages[i].id = pending.question THEN "complete" ELSE messages[i].status
    BY <1>2, StatusSet, PendingFields
  <1>4. /\ messages' = ShowAnswer(c, "complete", pending.text)
        /\ pending' = NoExchange /\ Close(pending.request) /\ number' = number /\ failed' = failed
        /\ UNCHANGED bootVars /\ failed = NoFailure
    BY <1>2, PendingFields DEF Finish, PendingSound
  <1>5. /\ messages' \in Seq(MessageType) /\ Len(messages') = k + 2
        /\ \A i \in 1 .. k + 1 : messages'[i] = c[i] /\ i \in 1 .. Len(messages)
        /\ messages'[k + 2] = [id |-> pending.answer, role |-> "assistant", status |-> "complete",
                               text |-> pending.text]
    <2>1. /\ messages' \in Seq(MessageType) /\ Len(messages') = k + 2
          /\ \A i \in 1 .. k + 1 : messages'[i] = c[i]
          /\ messages'[k + 2] = [id |-> pending.answer, role |-> "assistant", status |-> "complete",
                                 text |-> pending.text]
      <3>1. \A i \in 1 .. Len(c) : c[i].id = messages[i].id
        BY <1>3
      <3>2. pending.text \in 0 .. MaxDeltas /\ Len(c) = Len(messages) /\ Waiting(k)
        BY <1>1, <1>3, PendingFields
      <3> QED
        BY <1>3, <1>4, <3>1, <3>2, AnswerShown
    <2>2. \A i \in 1 .. k + 1 : i \in 1 .. Len(messages)
      BY <1>1, PendingFields
    <2> QED
      BY <2>1, <2>2
  <1>6. ExchangesSound'
    BY <1>4, CloseSound, PendingFields DEF WidgetInv
  <1>7. WidgetTypeOK'
    BY <1>4, <1>5 DEF WidgetInv, WidgetTypeOK, bootVars
  <1>8. MessagesSound'
    <2>1. /\ \A i \in 1 .. k + 1 : messages'[i].id = messages[i].id /\ messages'[i].id # pending.answer
          /\ messages'[k + 2].id = pending.answer /\ pending.answer = number'
      <3>1. \A i \in 1 .. k + 1 : messages[i].id # pending.answer
        BY <1>1 DEF Waiting
      <3>2. pending.answer = number
        BY PendingFields DEF PendingSound
      <3> QED
        BY <1>3, <1>4, <1>5, <3>1, <3>2
    <2>2. pending.answer <= number'
      BY <2>1, PendingFields
    <2>3. \A i \in 1 .. k + 1 : messages'[i].id <= number'
      BY <1>4, <1>5, <2>1 DEF WidgetInv, MessagesSound
    <2>4. \A i, j \in 1 .. k + 1 : messages'[i].id = messages'[j].id => i = j
      BY <1>5, <2>1 DEF WidgetInv, MessagesSound
    <2>5. \A i \in 1 .. k + 2 : i \in 1 .. k + 1 \/ i = k + 2
      OBVIOUS
    <2>6. \A i, j \in 1 .. k + 2 : messages'[i].id = messages'[j].id => i = j
      BY <2>1, <2>4, <2>5
    <2>7. \A i \in 1 .. k + 2 : messages'[i].id <= number'
      BY <2>1, <2>2, <2>3, <2>5
    <2> QED
      BY <1>5, <2>6, <2>7 DEF MessagesSound
  <1>9. /\ messages'[k + 1].status = "complete" /\ messages'[k + 1].role = "user"
        /\ messages'[k + 2].status = "complete" /\ messages'[k + 2].role = "assistant"
    BY <1>1, <1>3, <1>5 DEF Waiting
  <1>10. Turns(messages', k)
    <2>1. ASSUME NEW i \in 1 .. k
          PROVE  messages'[i].status = messages[i].status /\ messages'[i].role = messages[i].role
      <3>1. i \in 1 .. k + 1
        OBVIOUS
      <3> QED
        BY <1>1, <1>3, <1>5, <3>1
    <2> QED
      BY <1>1, <2>1, TurnsStay
  <1>11. Turns(messages', k + 2)
    BY <1>9, <1>10 DEF Turns
  <1>12. IdleSound'
    BY <1>4, <1>5, <1>11 DEF IdleSound, Turns
  <1> QED
    BY <1>4, <1>6, <1>7, <1>8, <1>12 DEF WidgetInv

\* The pending request has read that many events, all but the first of them texts.
ReadTo(seen) ==
    /\ pending' \in PendingType
    /\ pending'.request = pending.request /\ pending'.of = pending.of
    /\ pending'.question = pending.question /\ pending'.answer = pending.answer
    /\ pending'.seen = seen /\ pending'.text = seen - 1

\* A pending exchange of which more has been read.
LEMMA ReadMore ==
    ASSUME WidgetInv, pending # NoExchange, pending.seen < Len(events[pending.request]),
           events[pending.request][pending.seen + 1] \notin Terminal,
           pending.seen <= MaxDeltas,
           ReadTo(pending.seen + 1),
           UNCHANGED <<number, failed, bootVars, exchangeVars>>,
           messages' \in Seq(MessageType), MessagesSound',
           \E k \in Nat : Turns(messages', k) /\ Waiting(k)'
    PROVE  WidgetInv'
  <1> DEFINE r == pending.request
             sent == events[r]
  <1>1. /\ PendingSound /\ pending \in PendingType /\ pending.seen \in Nat /\ ReadSound
        /\ Len(sent) \in Nat
    BY PendingFields DEF PendingSound
  <1>2. /\ pending' \in PendingType /\ pending'.request = r /\ pending'.of = pending.of
        /\ pending'.question = pending.question /\ pending'.answer = pending.answer
        /\ pending'.seen = pending.seen + 1 /\ pending'.text = pending.seen
    BY <1>1 DEF ReadTo
  <1>3. pending' # NoExchange
    BY <1>2, NoneAssumption
  <1>4. /\ number' = number /\ failed' = failed /\ assistant' = assistant /\ changes' = changes
        /\ loading' = loading /\ bootstrap' = bootstrap
        /\ busy' = busy /\ status' = status /\ events' = events /\ link' = link
    BY DEF bootVars, exchangeVars
  <1>5. WidgetTypeOK'
    BY <1>2, <1>4 DEF WidgetInv, WidgetTypeOK
  <1>6. ExchangesSound'
    BY <1>4 DEF WidgetInv, ExchangesSound
  <1>7. ReadSound'
    <2>1. pending'.seen <= Len(sent) /\ link[r] # "closed"
      BY <1>1, <1>2 DEF ReadSound
    <2>2. ASSUME NEW i \in 1 .. pending.seen + 1 PROVE sent[i] \notin Terminal
      <3>1. CASE i = pending.seen + 1
        BY <3>1
      <3>2. CASE i # pending.seen + 1
        <4>1. i \in 1 .. pending.seen
          BY <1>1, <3>2
        <4> QED
          BY <1>1, <4>1 DEF ReadSound
      <3> QED
        BY <3>1, <3>2
    <2>3. pending'.text = IF pending'.seen = 0 THEN 0 ELSE pending'.seen - 1
      BY <1>1, <1>2
    <2> QED
      BY <1>2, <1>4, <2>1, <2>2, <2>3 DEF ReadSound
  <1>8. \E k \in 0 .. Len(messages') : Turns(messages', k) /\ Waiting(k)'
    <2>1. PICK k \in Nat : Turns(messages', k) /\ Waiting(k)'
      OBVIOUS
    <2>2. Len(messages') = k + 1 \/ Len(messages') = k + 2
      BY <2>1 DEF Waiting
    <2> QED
      BY <2>1, <2>2
  <1>9. PendingSound'
    <2>1. (\E k \in 0 .. Len(messages) : Turns(messages, k) /\ Waiting(k))'
      BY <1>8 DEF Turns
    <2>2. failed' = NoFailure /\ Mounted' /\ pending'.of = assistant'
      BY <1>1, <1>2, <1>4 DEF PendingSound, Mounted
    <2>3. pending'.answer = number' /\ pending'.question < number'
      BY <1>1, <1>2, <1>4 DEF PendingSound
    <2> QED
      BY <1>7, <2>1, <2>2, <2>3 DEF PendingSound
  <1> QED
    BY <1>3, <1>5, <1>6, <1>9 DEF WidgetInv

\* The text that the events read so far bring.
LEMMA TextRead ==
    ASSUME WidgetInv, pending # NoExchange, pending.seen > 0
    PROVE  pending.text + 1 = pending.seen
  BY PendingFields DEF PendingSound, ReadSound

\* The first event shows nothing yet.
LEMMA StartSound ==
    ASSUME WidgetInv, pending # NoExchange, pending.seen = 0,
           pending.seen < Len(events[pending.request]),
           events[pending.request][pending.seen + 1] = "start",
           pending' = [pending EXCEPT !.seen = 1],
           UNCHANGED <<messages, number, failed, bootVars, exchangeVars>>
    PROVE  WidgetInv'
  <1>1. pending \in PendingType /\ pending.text = 0 /\ PendingSound
    BY PendingFields DEF PendingSound, ReadSound
  <1>2. ReadTo(pending.seen + 1)
    <2>1. PICK q : q = pending /\ q \in PendingType /\ q.text = 0
      BY <1>1
    <2>2. PICK p : p = [q EXCEPT !.seen = 1]
      OBVIOUS
    <2>3. /\ p \in PendingType /\ p.request = q.request /\ p.of = q.of
          /\ p.question = q.question /\ p.answer = q.answer /\ p.seen = 1 /\ p.text = 0
      BY <2>1, <2>2 DEF PendingType
    <2> QED
      BY <2>1, <2>2, <2>3 DEF ReadTo
  <1>3. messages' = messages /\ number' = number /\ pending'.question = pending.question /\ pending'.answer = pending.answer
    BY <1>1 DEF PendingType
  <1>4. messages' \in Seq(MessageType) /\ MessagesSound'
    BY <1>3, PendingFields DEF WidgetInv, MessagesSound
  <1>5. \E k \in Nat : Turns(messages', k) /\ Waiting(k)'
    <2>1. PICK k \in Nat : Turns(messages, k) /\ Waiting(k)
      BY PendingTail
    <2>2. Waiting(k)'
      BY <1>3, <2>1 DEF Waiting
    <2> QED
      BY <1>3, <2>1, <2>2
  <1>6. 0 <= MaxDeltas /\ "start" \notin Terminal
    BY WidgetAssumption DEF Terminal
  <1> QED
    BY <1>2, <1>4, <1>5, <1>6, ReadMore

\* A delta lengthens the part that is shown.
LEMMA DeltaSound ==
    ASSUME WidgetInv, pending # NoExchange, pending.seen # 0,
           pending.seen < Len(events[pending.request]),
           events[pending.request][pending.seen + 1] = "delta",
           pending' = [pending EXCEPT !.seen = @ + 1, !.text = @ + 1],
           messages' = ShowAnswer(messages, "pending", pending.text + 1),
           UNCHANGED <<number, failed, bootVars, exchangeVars>>
    PROVE  WidgetInv'
  <1>1. /\ pending \in PendingType /\ pending.seen \in Nat /\ messages \in Seq(MessageType)
        /\ Len(messages) \in Nat /\ PendingSound
    BY PendingFields
  <1>2. pending.text + 1 = pending.seen
    BY <1>1, TextRead
  <1>3. pending.seen \in 0 .. MaxDeltas
    <2>1. pending.seen + 1 \in 1 .. Len(events[pending.request])
      BY <1>1, PendingFields
    <2>2. pending.seen + 1 <= MaxDeltas + 1
      BY <2>1, PendingFields DEF StreamShape
    <2> QED
      BY <1>1, <2>2, WidgetAssumption
  <1>4. ReadTo(pending.seen + 1)
    <2>1. PICK q : q = pending /\ q \in PendingType /\ q.seen \in Nat /\ q.seen \in 0 .. MaxDeltas
                   /\ q.text + 1 = q.seen
      BY <1>1, <1>2, <1>3
    <2>2. PICK p : p = [q EXCEPT !.seen = q.seen + 1, !.text = q.seen]
      OBVIOUS
    <2>3. /\ p \in PendingType /\ p.request = q.request /\ p.of = q.of
          /\ p.question = q.question /\ p.answer = q.answer /\ p.seen = q.seen + 1 /\ p.text = q.seen
      <3>1. PICK seen \in Nat, text \in 0 .. MaxDeltas : seen = q.seen + 1 /\ text = q.seen
        BY <2>1
      <3>2. p = [q EXCEPT !.seen = seen, !.text = text]
        BY <2>2, <3>1
      <3> QED
        BY <2>1, <3>1, <3>2 DEF PendingType
    <2>4. pending' = p
      BY <2>1, <2>2
    <2> QED
      BY <2>1, <2>3, <2>4 DEF ReadTo
  <1>5. PICK k \in Nat : Turns(messages, k) /\ Waiting(k) /\ k + 1 \in 1 .. Len(messages)
    BY PendingTail
  <1>6. PICK t \in 0 .. MaxDeltas : t = pending.seen
    BY <1>3
  <1>7. messages' = ShowAnswer(messages, "pending", t)
    BY <1>2, <1>6
  <1>8. /\ messages' \in Seq(MessageType) /\ Len(messages') = k + 2
        /\ \A i \in 1 .. k + 1 : messages'[i] = messages[i]
        /\ messages'[k + 2] = [id |-> pending.answer, role |-> "assistant", status |-> "pending", text |-> t]
    <2>1. "pending" \in {"complete", "pending"}
      OBVIOUS
    <2> QED
      BY <1>1, <1>5, <1>7, <2>1, AnswerShown
  <1>9. /\ \A i \in 1 .. k + 1 : messages[i].id # pending.answer
        /\ pending.answer = number /\ number' = number
    BY <1>1, <1>5 DEF Waiting, PendingSound
  <1>10. \A i \in 1 .. k + 1 : i \in 1 .. Len(messages)
    BY <1>1, <1>5
  <1>11. MessagesSound'
    <2>1. \A i, j \in 1 .. k + 1 : messages'[i].id = messages'[j].id => i = j
      BY <1>8, <1>10 DEF WidgetInv, MessagesSound
    <2>2. \A i \in 1 .. k + 1 : messages'[i].id <= number'
      BY <1>8, <1>9, <1>10 DEF WidgetInv, MessagesSound
    <2>3. messages'[k + 2].id = number' /\ number' <= number' /\ \A i \in 1 .. k + 1 : messages'[i].id # number'
      <3>1. messages'[k + 2].id = pending.answer /\ pending.answer \in Nat
        <4>1. messages'[k + 2].id = pending.answer
          BY <1>8
        <4> QED
          BY <4>1, WidgetAssumption, PendingFields
      <3> QED
        BY <1>8, <1>9, <3>1
    <2>4. \A i \in 1 .. k + 2 : i \in 1 .. k + 1 \/ i = k + 2
      OBVIOUS
    <2>5. \A i, j \in 1 .. k + 2 : messages'[i].id = messages'[j].id => i = j
      BY <2>1, <2>3, <2>4
    <2>6. \A i \in 1 .. k + 2 : messages'[i].id <= number'
      BY <2>2, <2>3, <2>4
    <2> QED
      BY <1>8, <2>5, <2>6 DEF MessagesSound
  <1>12. Turns(messages', k)
    <2>1. \A i \in 1 .. k : messages'[i].status = messages[i].status /\ messages'[i].role = messages[i].role
      BY <1>8
    <2> QED
      BY <1>5, <2>1, TurnsStay
  <1>13. pending'.question = pending.question /\ pending'.answer = pending.answer
    BY <1>4 DEF ReadTo
  <1>14. Waiting(k)'
    <2>1. k + 1 \in 1 .. k + 1
      OBVIOUS
    <2>2. messages'[k + 1] = messages[k + 1]
      BY <1>8, <2>1
    <2>3. \A i \in 1 .. k + 1 : messages'[i].id # pending'.answer
      BY <1>8, <1>9, <1>13
    <2>4. /\ messages'[k + 1].id = pending'.question
          /\ messages'[k + 1].role = "user" /\ messages'[k + 1].status = "pending"
      BY <1>5, <1>13, <2>2 DEF Waiting
    <2>5. /\ messages'[k + 2].id = pending'.answer
          /\ messages'[k + 2].role = "assistant" /\ messages'[k + 2].status = "pending"
      BY <1>8, <1>13
    <2> QED
      BY <1>8, <2>3, <2>4, <2>5 DEF Waiting
  <1>15. "delta" \notin Terminal
    BY DEF Terminal
  <1> QED
    BY <1>3, <1>4, <1>8, <1>11, <1>12, <1>14, <1>15, ReadMore

\* Every step of the widget.
LEMMA WidgetReads == ASSUME WidgetInv, Widget PROVE WidgetInv'
  <1>1. CASE Refused
    <2>1. RetryableStatus(status[pending.request]) \in BOOLEAN
      BY DEF RetryableStatus
    <2> QED
      BY <1>1, <2>1, FailSound DEF Refused
  <1>2. CASE Lost
    BY <1>2, FailSound DEF Lost, EndOfBody
  <1>3. CASE Receive
    BY <1>3, StartSound, DeltaSound, FinishSound, FailSound DEF Receive, Streaming
  <1> QED
    BY <1>1, <1>2, <1>3 DEF Widget

\* Every step of the widget and of the server.
LEMMA WidgetInvStep == ASSUME WidgetInv, [WidgetNext]_vars PROVE WidgetInv'
  BY ServerKeeps, ChangeSound, LoadSound, SubmitSound, RetrySound, WidgetReads, WidgetStutters
     DEF WidgetNext

\* Histories.
LEMMA HistoriesWell == ASSUME WidgetInv PROVE ConversationConsistent
  <1>1. messages \in Seq(MessageType) /\ Len(messages) \in Nat /\ WidgetTypeOK
    BY DEF WidgetInv, WidgetTypeOK
  <1>2. ASSUME pending = NoExchange PROVE WellFormedHistory(BuildHistory(messages, 0))
    <2>1. \A i \in 1 .. Len(messages) : messages[i].id # 0
      <3>1. ASSUME NEW i \in 1 .. Len(messages) PROVE messages[i] \in MessageType
        BY <1>1
      <3> QED
        BY <3>1, WidgetAssumption DEF MessageType
    <2>2. Turns(messages, Len(messages))
      BY <1>2 DEF WidgetInv, IdleSound
    <2> QED
      BY <1>1, <2>1, <2>2, HistoryWell
  <1>3. ASSUME failed # NoFailure PROVE WellFormedHistory(BuildHistory(Preceding(failed.id), failed.id))
    <2> DEFINE n == Len(messages)
    <2>1. /\ Turns(messages, n) /\ messages # <<>> /\ messages[n].id = failed.id
          /\ messages[n].status = "failed"
      BY <1>3 DEF WidgetInv, IdleSound, PendingSound
    <2>2. n \in 1 .. n
      BY <1>1, <2>1
    <2>3. \A i \in DOMAIN messages : messages[i].id = failed.id => i = n
      BY <1>1, <2>1, <2>2 DEF WidgetInv, MessagesSound
    <2>4. (CHOOSE i \in DOMAIN messages : messages[i].id = failed.id) = n
      BY <1>1, <2>1, <2>2, <2>3
    <2>5. PICK c : c = SubSeq(messages, 1, n - 1)
      OBVIOUS
    <2>6. Preceding(failed.id) = c
      BY <2>4, <2>5 DEF Preceding
    <2>7. /\ c \in Seq(MessageType) /\ Len(c) = n - 1
          /\ \A i \in 1 .. n - 1 : c[i] = messages[i] /\ i \in 1 .. n /\ i # n
      <3>1. n - 1 \in Nat /\ \A i \in 1 .. n - 1 : i \in 1 .. n /\ i # n
        BY <1>1, <2>2
      <3>2. c \in Seq(MessageType) /\ Len(c) = n - 1
        <4>0. n - 1 \in Int
          BY <3>1
        <4>1. PICK m \in Int : m = n - 1
          BY <4>0, Zenon
        <4>2. \A i \in 1 .. m : messages[i] \in MessageType
          BY <1>1, <3>1, <4>1
        <4>3. /\ SubSeq(messages, 1, m) \in Seq(MessageType)
              /\ Len(SubSeq(messages, 1, m)) = IF 1 <= m THEN m - 1 + 1 ELSE 0
          BY <4>2, SubSeqProperties
        <4> QED
          BY <2>5, <3>1, <4>1, <4>3
      <3>3. \A i \in 1 .. n - 1 : c[i] = messages[i]
        BY <1>1, <2>5, <3>1
      <3> QED
        BY <3>1, <3>2, <3>3
    <2> HIDE DEF n
    <2>8. Turns(c, n - 1)
      <3>1. Turns(messages, n - 1)
        <4>1. ASSUME NEW i \in 1 .. n - 1, messages[i].status = "complete", messages[i].role = "user"
              PROVE  i < n - 1
          <5>1. i \in 1 .. n /\ messages[i + 1].status = "complete"
            BY <2>1, <2>7, <4>1 DEF Turns
          <5> QED
            BY <2>1, <2>2, <5>1
        <4> QED
          BY <2>1, <2>7, <4>1 DEF Turns
      <3> QED
        BY <2>2, <2>7, <3>1, TurnsStay
    <2>9. \A i \in 1 .. Len(c) : c[i].id # failed.id
      BY <1>1, <2>3, <2>7 DEF n
    <2> QED
      BY <2>6, <2>7, <2>8, <2>9, HistoryWell
  <1>4. pending # NoExchange => Mounted /\ pending.of = assistant
    BY DEF WidgetInv, PendingSound
  <1> QED
    BY <1>1, <1>2, <1>3, <1>4 DEF ConversationConsistent

-----------------------------------------------------------------------------
(* The widget: what it keeps *)

\* What was shown before, or is not a complete answer.
Old(m) == m \in ToSet(messages) \/ m.role # "assistant" \/ m.status # "complete"

\* Where every message is old there is no new answer.
LEMMA NothingNew ==
    ASSUME messages' \in Seq(MessageType), \A i \in 1 .. Len(messages') : Old(messages'[i])
    PROVE  NewAnswers = {}
  BY DEF NewAnswers, Old, ToSet

\* What is shown was shown.
LEMMA ShownIsOld ==
    ASSUME messages \in Seq(MessageType), NEW i \in 1 .. Len(messages)
    PROVE  messages[i] \in ToSet(messages)
  BY DEF ToSet

\* Nothing is shown anew.
LEMMA SameIsOld == ASSUME WidgetInv, UNCHANGED messages PROVE NewAnswers = {}
  <1>1. messages \in Seq(MessageType) /\ messages' = messages
    BY DEF WidgetInv, WidgetTypeOK
  <1>2. \A i \in 1 .. Len(messages) : Old(messages[i])
    BY <1>1, ShownIsOld DEF Old
  <1> QED
    BY <1>1, <1>2, NothingNew

\* The conversation is given up.
LEMMA NoneIsOld == ASSUME Unmount PROVE NewAnswers = {}
  <1>1. messages' = <<>> /\ messages' \in Seq(MessageType)
    BY DEF Unmount
  <1> QED
    BY <1>1, NothingNew

\* A question is no answer.
LEMMA AskedIsOld == ASSUME WidgetInv, Submit \/ Retry PROVE NewAnswers = {}
  <1>1. messages \in Seq(MessageType) /\ Len(messages) \in Nat
    BY DEF WidgetInv, WidgetTypeOK
  <1>2. messages' \in Seq(MessageType)
    BY SubmitSound, RetrySound DEF WidgetInv, WidgetTypeOK
  <1>3. CASE Submit
    <2>1. PICK m : m = [id |-> number + 1, role |-> "user", status |-> "pending", text |-> 0]
      OBVIOUS
    <2>2. messages' = Append(messages, m) /\ m.role = "user"
      BY <1>3, <2>1 DEF Submit
    <2>3. \A i \in 1 .. Len(messages') :
            (i \in 1 .. Len(messages) /\ messages'[i] = messages[i]) \/ messages'[i] = m
      BY <1>1, <2>2
    <2>4. \A i \in 1 .. Len(messages') : Old(messages'[i])
      BY <1>1, <2>2, <2>3, ShownIsOld DEF Old
    <2> QED
      BY <1>2, <2>4, NothingNew
  <1>4. CASE Retry
    <2>1. messages' = SetStatus(messages, failed.id, "pending")
      BY <1>4 DEF Retry
    <2>2. /\ Len(messages') = Len(messages)
          /\ \A i \in 1 .. Len(messages) :
               /\ messages'[i].status = IF messages[i].id = failed.id THEN "pending" ELSE messages[i].status
               /\ messages[i].id # failed.id => messages'[i] = messages[i]
      BY <1>1, <2>1, StatusSet
    <2>3. \A i \in 1 .. Len(messages') : Old(messages'[i])
      BY <1>1, <2>2, ShownIsOld DEF Old
    <2> QED
      BY <1>2, <2>3, NothingNew
  <1> QED
    BY <1>3, <1>4

\* A failure shows no answer.
LEMMA FailedIsOld ==
    ASSUME WidgetInv, pending # NoExchange, NEW retryable \in BOOLEAN, Fail(retryable)
    PROVE  NewAnswers = {}
  <1>1. PICK k \in Nat :
          /\ k + 1 \in 1 .. Len(messages)
          /\ {i \in DOMAIN messages : messages[i].id # pending.answer} = 1 .. k + 1
    BY PendingTail
  <1>2. messages \in Seq(MessageType) /\ messages' \in Seq(MessageType) /\ Len(messages) \in Nat
    BY FailSound DEF WidgetInv, WidgetTypeOK
  <1>3. PICK c : c = Among(messages, 1 .. k + 1)
    OBVIOUS
  <1>4. c \in Seq(MessageType) /\ Len(c) = k + 1 /\ \A i \in 1 .. k + 1 : c[i] = messages[i]
    <2>1. k + 1 \in 0 .. Len(messages)
      BY <1>1, <1>2
    <2> QED
      BY <1>2, <1>3, <2>1, AmongFirst
  <1>5. messages' = SetStatus(c, pending.question, "failed")
    BY <1>1, <1>3 DEF Fail
  <1>6. PICK d, q : d = messages' /\ q = pending.question
    OBVIOUS
  <1>7. c \in Seq(MessageType) /\ "failed" \in {"complete", "pending", "failed"} /\ d = SetStatus(c, q, "failed")
    BY <1>4, <1>5, <1>6
  <1>8. /\ Len(d) = Len(c)
        /\ \A i \in 1 .. Len(c) :
             /\ d[i].status = IF c[i].id = q THEN "failed" ELSE c[i].status
             /\ c[i].id # q => d[i] = c[i]
    BY <1>7, StatusSet
  <1>9. \A i \in 1 .. k + 1 : i \in 1 .. Len(messages) /\ messages[i] \in ToSet(messages)
    <2>1. \A i \in 1 .. k + 1 : i \in 1 .. Len(messages)
      BY <1>1, <1>2
    <2> QED
      BY <1>2, <2>1, ShownIsOld
  <1>10. \A i \in 1 .. Len(messages') : Old(messages'[i])
    BY <1>4, <1>6, <1>8, <1>9 DEF Old
  <1> QED
    BY <1>2, <1>10, NothingNew

\* A part of an answer is none yet.
LEMMA DeltaIsOld ==
    ASSUME WidgetInv, pending # NoExchange, NEW t \in 0 .. MaxDeltas,
           messages' = ShowAnswer(messages, "pending", t)
    PROVE  NewAnswers = {}
  <1>1. messages \in Seq(MessageType) /\ Len(messages) \in Nat
    BY DEF WidgetInv, WidgetTypeOK
  <1>2. PICK k \in Nat : Waiting(k) /\ k + 1 \in 1 .. Len(messages)
    BY PendingTail
  <1>3. PICK m : m = [id |-> pending.answer, role |-> "assistant", status |-> "pending", text |-> t]
    OBVIOUS
  <1>4. PICK c, s : c = messages /\ s = "pending"
    OBVIOUS
  <1>5. /\ messages' \in Seq(MessageType) /\ Len(messages') = k + 2
        /\ \A i \in 1 .. k + 1 : messages'[i] = messages[i]
        /\ messages'[k + 2] = m
    <2>1. c \in Seq(MessageType) /\ Len(c) = Len(messages) /\ s \in {"complete", "pending"}
      BY <1>1, <1>4
    <2>2. \A i \in 1 .. Len(c) : c[i].id = messages[i].id
      BY <1>4
    <2>3. /\ ShowAnswer(c, s, t) \in Seq(MessageType) /\ Len(ShowAnswer(c, s, t)) = k + 2
          /\ \A i \in 1 .. k + 1 : ShowAnswer(c, s, t)[i] = c[i]
          /\ ShowAnswer(c, s, t)[k + 2] =
               [id |-> pending.answer, role |-> "assistant", status |-> s, text |-> t]
      BY <1>2, <2>1, <2>2, AnswerShown
    <2>4. messages' = ShowAnswer(c, s, t)
      BY <1>4
    <2> QED
      BY <1>3, <1>4, <2>3, <2>4
  <1>6. m.status = "pending"
    BY <1>3
  <1>7. \A i \in 1 .. k + 1 : i \in 1 .. Len(messages)
    BY <1>1, <1>2
  <1>8. \A i \in 1 .. k + 1 : Old(messages'[i])
    BY <1>1, <1>5, <1>7, ShownIsOld DEF Old
  <1>9. \A i \in 1 .. k + 2 : i \in 1 .. k + 1 \/ i = k + 2
    OBVIOUS
  <1>10. \A i \in 1 .. Len(messages') : Old(messages'[i])
    BY <1>5, <1>6, <1>8, <1>9 DEF Old
  <1> QED
    BY <1>5, <1>10, NothingNew

\* A finished answer is the only new one, with the text read.
LEMMA FinishedIsNew ==
    ASSUME WidgetInv, pending # NoExchange, Finish, NEW m \in NewAnswers
    PROVE  m.text = pending.text
  <1>1. PICK k \in Nat :
          /\ Waiting(k) /\ k + 1 \in 1 .. Len(messages)
          /\ \A i \in 1 .. k : messages[i].id # pending.question
    BY PendingTail
  <1>2. PICK c : c = SetStatus(messages, pending.question, "complete")
    OBVIOUS
  <1>3. messages \in Seq(MessageType) /\ Len(messages) \in Nat /\ pending.text \in 0 .. MaxDeltas
    BY PendingFields
  <1>4. /\ c \in Seq(MessageType) /\ Len(c) = Len(messages)
        /\ \A i \in 1 .. Len(messages) :
             /\ c[i].id = messages[i].id /\ c[i].role = messages[i].role
             /\ messages[i].id # pending.question => c[i] = messages[i]
    BY <1>2, <1>3, StatusSet
  <1>5. PICK shown : shown = [id |-> pending.answer, role |-> "assistant", status |-> "complete",
                              text |-> pending.text]
    OBVIOUS
  <1>6. /\ messages' \in Seq(MessageType) /\ Len(messages') = k + 2
        /\ \A i \in 1 .. k + 1 : messages'[i] = c[i]
        /\ messages'[k + 2] = shown
    <2>1. messages' = ShowAnswer(c, "complete", pending.text)
      BY <1>2 DEF Finish
    <2>2. \A i \in 1 .. Len(c) : c[i].id = messages[i].id
      BY <1>4
    <2>3. "complete" \in {"complete", "pending"} /\ Len(c) = Len(messages) /\ c \in Seq(MessageType)
      BY <1>4
    <2> QED
      BY <1>1, <1>3, <1>5, <2>1, <2>2, <2>3, AnswerShown
  <1>7. ASSUME NEW i \in 1 .. k + 1 PROVE Old(messages'[i])
    <2>1. i \in 1 .. Len(messages) /\ messages'[i] = c[i]
      BY <1>1, <1>3, <1>6
    <2>2. CASE i = k + 1
      BY <1>1, <1>4, <2>1, <2>2 DEF Old, Waiting
    <2>3. CASE i # k + 1
      <3>1. i \in 1 .. k
        BY <2>3
      <3>2. messages'[i] = messages[i]
        BY <1>1, <1>4, <2>1, <3>1
      <3> QED
        BY <1>3, <2>1, <3>2, ShownIsOld DEF Old
    <2> QED
      BY <2>2, <2>3
  <1>8. PICK i \in 1 .. k + 2 : m = messages'[i] /\ ~Old(m)
    BY <1>6 DEF NewAnswers, Old, ToSet
  <1>9. i \notin 1 .. k + 1
    BY <1>7, <1>8
  <1>10. i = k + 2
    BY <1>9
  <1> QED
    BY <1>5, <1>6, <1>8, <1>10

\* The next event of the pending exchange is "complete".
AtComplete ==
    /\ pending # NoExchange
    /\ pending.seen # 0
    /\ pending.seen < Len(events[pending.request])
    /\ events[pending.request][pending.seen + 1] = "complete"

\* A new answer comes of a "complete".
LEMMA AnswersFinish ==
    ASSUME WidgetInv, [WidgetNext]_vars, NewAnswers # {}
    PROVE  AtComplete /\ Finish
  <1>1. messages' # messages
    BY SameIsOld
  <1>2. ~Server /\ ~Unmount /\ ~Submit /\ ~Retry
    BY <1>1, NoneIsOld, AskedIsOld DEF Server, talkVars
  <1>3. ~ChangeAssistant /\ ~Load
    BY <1>1, <1>2 DEF ChangeAssistant, Load, talkVars
  <1>4. \A retryable \in BOOLEAN : pending # NoExchange => ~Fail(retryable)
    BY FailedIsOld
  <1>5. ~Lost
    BY <1>4 DEF Lost, EndOfBody
  <1>6. ~Refused
    <2>1. RetryableStatus(status[pending.request]) \in BOOLEAN
      BY DEF RetryableStatus
    <2> QED
      BY <1>4, <2>1 DEF Refused
  <1>7. Receive
    BY <1>1, <1>2, <1>3, <1>5, <1>6 DEF WidgetNext, Widget, vars, talkVars
  <1>8. pending # NoExchange /\ pending.seen < Len(events[pending.request])
    BY <1>7 DEF Receive, Streaming
  <1>9. ~(pending.seen # 0 /\ events[pending.request][pending.seen + 1] = "delta"
          /\ messages' = ShowAnswer(messages, "pending", pending.text + 1))
    <2>1. ASSUME pending.seen # 0, events[pending.request][pending.seen + 1] = "delta",
                 messages' = ShowAnswer(messages, "pending", pending.text + 1)
          PROVE  FALSE
      <3>1. PICK t : t = pending.text + 1
        OBVIOUS
      <3>2. t \in 0 .. MaxDeltas
        <4>1. pending.seen \in Nat /\ t = pending.seen
          BY <1>8, <2>1, <3>1, PendingFields, TextRead
        <4>2. pending.seen + 1 \in 1 .. Len(events[pending.request])
          BY <1>8, <4>1, PendingFields
        <4>3. pending.seen + 1 <= MaxDeltas + 1
          BY <1>8, <2>1, <4>2, PendingFields DEF StreamShape
        <4> QED
          BY <4>1, <4>3, WidgetAssumption
      <3> QED
        BY <1>8, <2>1, <3>1, <3>2, DeltaIsOld
    <2> QED
      BY <2>1
  <1>10. /\ events[pending.request][pending.seen + 1] = "complete" /\ pending.seen # 0 /\ Finish
    BY <1>1, <1>4, <1>7, <1>8, <1>9 DEF Receive
  <1> QED
    BY <1>8, <1>10 DEF AtComplete

WholeAnswers ==
    \A m \in NewAnswers :
        LET sent == events[pending.request]
        IN  /\ Len(sent) > 1 /\ Last(sent) = "complete"
            /\ m.text = Len(sent) - 2

\* An answer becomes complete only by the end of its stream, with every delta in it.
LEMMA AnswersWhole == ASSUME WidgetInv, [WidgetNext]_vars PROVE WholeAnswers
  <1>1. ASSUME NEW m \in NewAnswers
        PROVE  LET sent == events[pending.request]
               IN  /\ Len(sent) > 1 /\ Last(sent) = "complete"
                   /\ m.text = Len(sent) - 2
    <2> DEFINE sent == events[pending.request]
    <2>1. /\ pending # NoExchange /\ m.text = pending.text /\ pending.seen # 0
          /\ pending.seen < Len(sent) /\ sent[pending.seen + 1] = "complete"
      BY AnswersFinish, FinishedIsNew DEF AtComplete
    <2>2. pending.seen \in Nat /\ Len(sent) \in Nat /\ StreamShape(sent)
      BY <2>1, PendingFields
    <2>3. pending.text + 1 = pending.seen /\ pending.text \in Nat
      BY <2>1, <2>2, TextRead, PendingFields
    <2>4. pending.seen + 1 \in 1 .. Len(sent) /\ "complete" \in Terminal
      BY <2>1, <2>2 DEF Terminal
    <2>5. pending.seen + 1 = Len(sent)
      BY <2>1, <2>2, <2>4 DEF StreamShape
    <2> HIDE DEF sent
    <2>6. Last(sent) = "complete"
      BY <2>1, <2>5 DEF Last
    <2>7. Len(sent) > 1 /\ m.text = Len(sent) - 2
      BY <2>1, <2>2, <2>3, <2>5
    <2> QED
      BY <2>6, <2>7 DEF sent
  <1> QED
    BY <1>1 DEF WholeAnswers

\* The conversation is a sequence of settled turns, but for the one that is pending or
\* has failed, and what a question carries along is whole turns of it and no more than
\* the limit, whatever has been refused, cut, abandoned or retried (useConversation,
\* conversationHistory.buildConversationHistory).
THEOREM WidgetConsistent == WidgetSpec => []ConversationConsistent
  <1>1. WidgetInit => WidgetInv
    BY WidgetStarts
  <1>2. WidgetInv /\ [WidgetNext]_vars => WidgetInv'
    BY WidgetInvStep
  <1>3. WidgetInv => ConversationConsistent
    BY HistoriesWell
  <1> QED
    BY <1>1, <1>2, <1>3, PTL DEF WidgetSpec

\* An answer is shown as complete only when its stream has ended with the completion
\* event, and then with every delta that the server sent (publicChatClient.ts,
\* useConversation).
THEOREM AnswersWholeAlways == WidgetSpec => AnswersAreWhole
  <1>1. WidgetInit => WidgetInv
    BY WidgetStarts
  <1>2. WidgetInv /\ [WidgetNext]_vars => WidgetInv'
    BY WidgetInvStep
  <1>3. WidgetInv /\ [WidgetNext]_vars => WholeAnswers
    BY AnswersWhole
  <1> QED
    BY <1>1, <1>2, <1>3, PTL DEF WidgetSpec, AnswersAreWhole, WholeAnswers
=============================================================================
