--------------------------- MODULE SessionsProofs ---------------------------
(***************************************************************************)
(* The limits of login sessions for every pair of lifetimes and any number *)
(* of sessions and requests.  What makes them inductive is that a renewal  *)
(* that reaches the table moves the idle limit to exactly Idle days after  *)
(* its own clock reading: one the cap changes breaks the CHECK.            *)
(***************************************************************************)
EXTENDS Sessions, TLAPS

(* What a renewal that passes the CHECK writes.                            *)
LEMMA RenewalIsUncapped ==
  ASSUME NEW c \in Call, Renewable(c)
  PROVE  NewIdle(c) = c.at + Idle /\ c.at + Idle < c.absolute
BY LifetimeAssumption DEF Call, Renewable, LimitsOrdered, NewIdle

LEMMA InitInvariant == Init => SessionsInvariant
BY LifetimeAssumption DEF Init, SessionsInvariant, TypeOK, CallsRead, IdleFollowsUse, Row, NoRow

LEMMA CreateSessionInvariant ==
  ASSUME SessionsInvariant, NEW s \in Session, CreateSession(s)
  PROVE  SessionsInvariant'
<1> USE LifetimeAssumption DEF SessionsInvariant
<1>1. TypeOK'
  BY DEF CreateSession, TypeOK, Row
<1>2. \A c \in calls : c.session # s
  BY DEF CreateSession, CallsRead
<1>3. CallsRead'
  BY <1>2 DEF CreateSession, CallsRead, TypeOK, Row, Call
<1>4. IdleFollowsUse'
  BY DEF CreateSession, IdleFollowsUse, TypeOK, Row
<1> QED BY <1>1, <1>3, <1>4

LEMMA LoadInvariant ==
  ASSUME SessionsInvariant, NEW s \in Session, NEW q \in Request, Load(q, s)
  PROVE  SessionsInvariant'
<1> USE LifetimeAssumption DEF SessionsInvariant
<1> DEFINE new == [request |-> q, session |-> s, at |-> now,
                   idle |-> rows[s].idle, absolute |-> rows[s].absolute]
<1>1. new \in Call /\ calls' = calls \cup {new} /\ rows[s].status = "open"
  BY DEF Load, Valid, TypeOK, Row, Call
<1>2. rows[s].created <= now
  BY <1>1 DEF IdleFollowsUse, TypeOK, Row
<1>3. TypeOK'
  BY <1>1 DEF Load, TypeOK
<1>4. CallsRead'
  BY <1>1, <1>2 DEF Load, CallsRead, TypeOK
<1>5. IdleFollowsUse'
  BY DEF Load, IdleFollowsUse
<1> QED BY <1>3, <1>4, <1>5

LEMMA RenewInvariant ==
  ASSUME SessionsInvariant, NEW c \in calls, Renew(c)
  PROVE  SessionsInvariant'
<1> USE LifetimeAssumption DEF SessionsInvariant
<1> DEFINE s == c.session
<1>1. c \in Call /\ s \in Session
  BY DEF TypeOK, Call
<1>2. NewIdle(c) = c.at + Idle /\ c.at + Idle < c.absolute
  BY <1>1, RenewalIsUncapped DEF Renew
<1>3. rows' = [rows EXCEPT ![s].idle = c.at + Idle]
  BY <1>2 DEF Renew
<1>4. TypeOK'
  BY <1>1, <1>2, <1>3 DEF Renew, TypeOK, CallsRead, Row, Call
<1>5. CallsRead'
  BY <1>1, <1>3 DEF Renew, CallsRead, TypeOK, Row, Call
<1>6. IdleFollowsUse'
  BY <1>1, <1>3 DEF Renew, IdleFollowsUse, CallsRead, TypeOK, Row, Call
<1> QED BY <1>4, <1>5, <1>6

LEMMA LogoutInvariant ==
  ASSUME SessionsInvariant, NEW s \in Session, Logout(s)
  PROVE  SessionsInvariant'
<1> USE DEF SessionsInvariant
<1>1. TypeOK'
  BY DEF Logout, TypeOK, Row
<1>2. CallsRead'
  BY DEF Logout, CallsRead, TypeOK, Row, Call
<1>3. IdleFollowsUse'
  BY DEF Logout, IdleFollowsUse, TypeOK, Row
<1> QED BY <1>1, <1>2, <1>3

LEMMA DayInvariant ==
  ASSUME SessionsInvariant, Day
  PROVE  SessionsInvariant'
BY LifetimeAssumption
   DEF Day, SessionsInvariant, TypeOK, CallsRead, IdleFollowsUse, Call

LEMMA RefuseInvariant ==
  ASSUME SessionsInvariant, NEW c \in calls, Refuse(c)
  PROVE  SessionsInvariant'
BY DEF Refuse, SessionsInvariant, TypeOK, CallsRead, IdleFollowsUse

(* Whatever requests, renewals and logouts interleave, every row keeps its *)
(* limits in order and its idle limit within a day of Idle days after the  *)
(* latest use.                                                             *)
THEOREM SessionsInvariantHolds == Spec => []SessionsInvariant
<1>1. Init => SessionsInvariant
  BY InitInvariant
<1>2. SessionsInvariant /\ [Next]_vars => SessionsInvariant'
  <2> SUFFICES ASSUME SessionsInvariant, [Next]_vars PROVE SessionsInvariant'
    OBVIOUS
  <2>1. CASE Day
    BY <2>1, DayInvariant
  <2>2. CASE \E s \in Session : CreateSession(s) \/ Logout(s) \/ \E q \in Request : Load(q, s)
    BY <2>2, CreateSessionInvariant, LogoutInvariant, LoadInvariant
  <2>3. CASE \E c \in calls : Renew(c) \/ Refuse(c)
    BY <2>3, RenewInvariant, RefuseInvariant
  <2>4. CASE UNCHANGED vars
    BY <2>4 DEF vars, SessionsInvariant, TypeOK, CallsRead, IdleFollowsUse
  <2> QED BY <2>1, <2>2, <2>3, <2>4 DEF Next
<1> QED BY <1>1, <1>2, PTL DEF Spec

(* A row keeps its limits in order and its absolute limit where its        *)
(* sign-in put it, whatever the renewals write.                            *)
THEOREM SessionsTypeCorrect == Spec => []TypeOK
BY SessionsInvariantHolds, PTL DEF SessionsInvariant

(* Authenticate accepts no session after its absolute limit, nor one that  *)
(* was not used for Idle days.                                             *)
THEOREM LimitsAlwaysHold == Spec => []LimitsHold
<1>1. SessionsInvariant => LimitsHold
  BY LifetimeAssumption DEF SessionsInvariant, TypeOK, IdleFollowsUse, LimitsHold, Valid, Row
<1> QED BY <1>1, SessionsInvariantHolds, PTL

(* Authenticate refuses no session in use before its last Idle days.       *)
THEOREM UseAlwaysKeepsAlive == Spec => []UseKeepsAlive
<1>1. SessionsInvariant => UseKeepsAlive
  <2> SUFFICES ASSUME SessionsInvariant, NEW s \in Session, rows[s].status = "open",
                      now < used[s] + Idle, now + Idle < rows[s].absolute
               PROVE  Valid(s) /\ \A c \in calls : c.session = s => Renewable(c)
    BY DEF UseKeepsAlive
  <2>1. Valid(s)
    BY LifetimeAssumption DEF SessionsInvariant, TypeOK, IdleFollowsUse, Valid, Row
  <2>2. ASSUME NEW c \in calls, c.session = s PROVE Renewable(c)
    BY <2>2, LifetimeAssumption
       DEF SessionsInvariant, TypeOK, CallsRead, Renewable, LimitsOrdered, NewIdle, Row, Call
  <2> QED BY <2>1, <2>2
<1> QED BY <1>1, SessionsInvariantHolds, PTL

(* No renewal, refusal or later logout takes a revocation back.            *)
THEOREM RevocationsLast == Spec => RevokedForGood
<1> DEFINE Kept == \A s \in Session : rows[s].status = "revoked" => rows'[s].status = "revoked"
<1>1. SessionsInvariant /\ [Next]_vars => [Kept]_vars
  <2> SUFFICES ASSUME SessionsInvariant, Next PROVE Kept
    OBVIOUS
  <2>1. rows \in [Session -> Row] /\ calls \subseteq Call
    BY DEF SessionsInvariant, TypeOK
  <2>2. CASE Day
    BY <2>2 DEF Day
  <2>3. ASSUME NEW s \in Session, CreateSession(s) \/ Logout(s) \/ \E q \in Request : Load(q, s)
        PROVE  Kept
    BY <2>1, <2>3 DEF CreateSession, Logout, Load, Row
  <2>4. ASSUME NEW c \in calls, Renew(c) \/ Refuse(c)
        PROVE  Kept
    BY <2>1, <2>4 DEF Renew, Refuse, Row, Call
  <2> QED BY <2>2, <2>3, <2>4 DEF Next
<1> QED BY <1>1, SessionsInvariantHolds, PTL DEF Spec, RevokedForGood
=============================================================================
