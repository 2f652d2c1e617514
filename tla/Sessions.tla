------------------------------ MODULE Sessions ------------------------------
(***************************************************************************)
(* Login sessions.  A sign-in writes a row of auth_sessions with an idle   *)
(* and an absolute limit; every authenticated request reads the row in one *)
(* statement and moves the idle limit in a later one, outside any          *)
(* transaction, so that requests of one session and a logout interleave.   *)
(* Time is in days.  No code deletes a row, disables a user or changes the *)
(* configured addresses of a running server.                               *)
(***************************************************************************)
EXTENDS Naturals

CONSTANTS
  Session,    (* tokens; each is issued at most once                       *)
  Request,    (* requests the server works on at one time                  *)
  Idle,       (* Config.IdleLifetime                                       *)
  Absolute,   (* Config.AbsoluteLifetime                                   *)
  LastDay     (* bound: days 0..LastDay                                    *)

ASSUME LifetimeAssumption ==
  /\ Idle \in Nat /\ Absolute \in Nat /\ LastDay \in Nat
  /\ 0 < Idle /\ Idle < Absolute

VARIABLES
  now,
  rows,       (* the row of each session; "none" before its sign-in        *)
  calls,      (* requests between the SELECT and the UPDATE of Authenticate *)
  used        (* history: day of the sign-in or the latest served request  *)

vars == <<now, rows, calls, used>>

NoRow == [status |-> "none", created |-> 0, idle |-> 0, absolute |-> 0]

Init ==
  /\ now = 0
  /\ rows = [s \in Session |-> NoRow]
  /\ calls = {}
  /\ used = [s \in Session |-> 0]

(* The table's CHECK on the limits of a row.                               *)
LimitsOrdered(idle, absolute) == idle < absolute

CreateSession(s) ==
  /\ rows[s].status = "none"
  /\ LimitsOrdered(now + Idle, now + Absolute)
  /\ rows' = [rows EXCEPT ![s] = [status |-> "open", created |-> now,
                                  idle |-> now + Idle, absolute |-> now + Absolute]]
  /\ used' = [used EXCEPT ![s] = now]
  /\ UNCHANGED <<now, calls>>

(* Fault: only the absolute limit is compared.                             *)
ValidUntilAbsolute(s) == rows[s].status = "open" /\ now <= rows[s].absolute

(* The row is not revoked and neither limit has passed.                    *)
Valid(s) ==
  /\ rows[s].status = "open"
  /\ now <= rows[s].idle
  /\ now <= rows[s].absolute

(* Authenticate up to its UPDATE; otherwise the answer is 401 and nothing  *)
(* changes.                                                                *)
Load(q, s) ==
  /\ q \notin {c.request : c \in calls}
  /\ Valid(s)
  /\ calls' = calls \cup {[request |-> q, session |-> s, at |-> now,
                           idle |-> rows[s].idle, absolute |-> rows[s].absolute]}
  /\ UNCHANGED <<now, rows, used>>

(* Fault: the window grows from its own end.                               *)
NewIdleFromOld(c) == IF c.idle + Idle > c.absolute THEN c.absolute ELSE c.idle + Idle

(* Fault: the window stays where it is.                                    *)
NewIdleNever(c) == c.idle

NewIdle(c) == IF c.at + Idle > c.absolute THEN c.absolute ELSE c.at + Idle

Renewable(c) == LimitsOrdered(NewIdle(c), c.absolute)

(* Fault: the UPDATE writes back the whole row that was read.              *)
RenewWholeRow(c) ==
  /\ Renewable(c)
  /\ rows' = [rows EXCEPT ![c.session].idle = NewIdle(c), ![c.session].status = "open"]
  /\ used' = [used EXCEPT ![c.session] = IF @ < c.at THEN c.at ELSE @]
  /\ calls' = calls \ {c}
  /\ UNCHANGED <<now>>

(* The UPDATE of Authenticate, and the request is served.                  *)
Renew(c) ==
  /\ Renewable(c)
  /\ rows' = [rows EXCEPT ![c.session].idle = NewIdle(c)]
  /\ used' = [used EXCEPT ![c.session] = IF @ < c.at THEN c.at ELSE @]
  /\ calls' = calls \ {c}
  /\ UNCHANGED <<now>>

(* The UPDATE breaks the CHECK, or a statement fails for another reason:   *)
(* the answer is 401 all the same.                                         *)
Refuse(c) ==
  /\ calls' = calls \ {c}
  /\ UNCHANGED <<now, rows, used>>

(* logout when its Revoke succeeds: its error is dropped, and the row is   *)
(* what it was.                                                            *)
Logout(s) ==
  /\ rows[s].status # "none"
  /\ rows' = [rows EXCEPT ![s].status = "revoked"]
  /\ UNCHANGED <<now, calls, used>>

(* A request takes less than a day.                                        *)
Day ==
  /\ now < LastDay
  /\ \A c \in calls : c.at = now
  /\ now' = now + 1
  /\ UNCHANGED <<rows, calls, used>>

Next ==
  \/ Day
  \/ \E s \in Session : CreateSession(s) \/ Logout(s) \/ \E q \in Request : Load(q, s)
  \/ \E c \in calls : Renew(c) \/ Refuse(c)

Spec == Init /\ [][Next]_vars

-----------------------------------------------------------------------------
Row == [status : {"none", "open", "revoked"}, created : Nat, idle : Nat, absolute : Nat]
Call == [request : Request, session : Session, at : Nat, idle : Nat, absolute : Nat]

(* Every row that exists keeps its limits in order, the absolute one where *)
(* its sign-in put it.                                                     *)
TypeOK ==
  /\ now \in 0..LastDay
  /\ rows \in [Session -> Row]
  /\ calls \subseteq Call
  /\ used \in [Session -> Nat]
  /\ \A s \in Session : rows[s].status # "none" =>
       /\ rows[s].created < rows[s].idle /\ rows[s].idle < rows[s].absolute
       /\ rows[s].absolute = rows[s].created + Absolute

-----------------------------------------------------------------------------
(* The inductive invariant.                                                *)

(* A request read its session's row as it is, less than a day ago.         *)
CallsRead ==
  \A c \in calls :
    /\ rows[c.session].status # "none"
    /\ c.absolute = rows[c.session].absolute
    /\ rows[c.session].created <= c.at
    /\ c.at <= now /\ now <= c.at + 1

(* The idle limit is Idle days after the latest use, or a day less when an *)
(* older request was the last to write it.                                 *)
IdleFollowsUse ==
  \A s \in Session : rows[s].status # "none" =>
    /\ rows[s].created <= used[s] /\ used[s] <= now
    /\ rows[s].idle <= used[s] + Idle
    /\ used[s] + Idle <= rows[s].idle + 1

(* TypeOK, LimitsHold and UseKeepsAlive with what each step relies on.     *)
SessionsInvariant == TypeOK /\ CallsRead /\ IdleFollowsUse

-----------------------------------------------------------------------------
(* Properties.                                                             *)

(* A session is good for Absolute days after its sign-in and for Idle days *)
(* after its latest use, whatever the requests that renew it overtake.     *)
LimitsHold ==
  \A s \in Session : Valid(s) =>
    /\ now <= rows[s].created + Absolute
    /\ now <= used[s] + Idle

(* A session that is in use is not refused before the last Idle days of    *)
(* its absolute limit, whatever older requests write after newer ones; one *)
(* day is the most by which such a request can set the limit back.         *)
UseKeepsAlive ==
  \A s \in Session :
    /\ rows[s].status = "open"
    /\ now < used[s] + Idle
    /\ now + Idle < rows[s].absolute
    => Valid(s) /\ \A c \in calls : c.session = s => Renewable(c)

(* Once revoked a session stays revoked: no request in progress at the     *)
(* time of the logout brings it back.                                      *)
RevokedForGood ==
  [][\A s \in Session : rows[s].status = "revoked" => rows'[s].status = "revoked"]_vars

(* Ordinary use may renew a session until its absolute limit: a request    *)
(* whose session is valid is served.                                       *)
ValidIsServed == \A c \in calls : Renewable(c)
=============================================================================
