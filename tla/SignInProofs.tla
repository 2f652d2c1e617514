---------------------------- MODULE SignInProofs ----------------------------
(***************************************************************************)
(* Accounts, sessions and lost access for any number of sign-ins, browsers *)
(* and requests at once.  The argument is about what an open transaction   *)
(* has reserved: an address that it put into the unique index stays no one *)
(* else's until it ends, so its check is still true when it commits.       *)
(***************************************************************************)
EXTENDS SignIn, TLAPS

LEMMA InitInvariant == Init => SignInInvariant
<1> SUFFICES ASSUME Init PROVE SignInInvariant
  OBVIOUS
<1> USE SignInAssumption
<1>1. PICK k \in Known :
        /\ users = {[id |-> s, email |-> k[s], enabled |-> TRUE] : s \in DOMAIN k}
        /\ identities = {[subject |-> s, user |-> s] : s \in DOMAIN k}
        /\ members = {[user |-> s, role |-> "owner"] : s \in DOMAIN k}
  BY DEF Init
<1>2. /\ DOMAIN k \subseteq Subject
      /\ \A s \in DOMAIN k : k[s] \in Email
      /\ \A s, t \in DOMAIN k : k[s] = k[t] => s = t
  OBVIOUS
<1>3. sessions = {} /\ pc = [f \in Flow |-> "idle"] /\ flow = [f \in Flow |-> NoFlow]
      /\ call = [b \in Browser |-> NoCall]
      /\ jar = [b \in Browser |-> [login |-> None, session |-> None]]
  BY DEF Init
<1>4. TypeOK
  <2>1. users \subseteq [id : UserId, email : Email, enabled : BOOLEAN]
    <3> SUFFICES ASSUME NEW u \in users PROVE u \in [id : UserId, email : Email, enabled : BOOLEAN]
      OBVIOUS
    <3>1. PICK s \in DOMAIN k : u = [id |-> s, email |-> k[s], enabled |-> TRUE]
      BY <1>1
    <3> QED BY <1>2, <3>1 DEF UserId
  <2>2. identities \subseteq [subject : Subject, user : UserId]
    BY <1>1, <1>2 DEF UserId
  <2>3. members \subseteq [user : UserId, role : {"owner", "member"}]
    BY <1>1, <1>2 DEF UserId
  <2>4. flow \in [Flow -> [browser : Browser \cup {None}, subject : Subject \cup {None},
                           email : Email \cup {None}, user : UserId \cup {None}]]
    BY <1>3 DEF NoFlow
  <2> QED BY <1>3, <2>1, <2>2, <2>3, <2>4 DEF Init, TypeOK, NoCall, Ended
<1>5. FlowsFilled
  BY <1>1, <1>2, <1>3 DEF FlowsFilled, Transaction, Inserting, Linking, Unresolved
<1>6. AddressesReserved
  BY <1>3 DEF AddressesReserved, Inserting, Linking
<1>7. RowsLinked
  <2>1. \A u, v \in users : u.id = v.id => u = v
    <3> SUFFICES ASSUME NEW u \in users, NEW v \in users, u.id = v.id PROVE u = v
      OBVIOUS
    <3>1. PICK s \in DOMAIN k : u = [id |-> s, email |-> k[s], enabled |-> TRUE]
      BY <1>1
    <3>2. PICK t \in DOMAIN k : v = [id |-> t, email |-> k[t], enabled |-> TRUE]
      BY <1>1
    <3>3. s = t
      BY <3>1, <3>2
    <3> QED BY <3>1, <3>2, <3>3
  <2>2. \A f \in Flow : pc[f] \notin Updating \cup {"session"}
    BY <1>3 DEF Updating
  <2>3. \A b \in Browser : jar[b].session = None /\ call[b].session = None
    BY <1>3 DEF NoCall
  <2> QED BY <1>3, <2>1, <2>2, <2>3 DEF RowsLinked
<1>8. OneAccount
  <2>1. \A u, v \in users : u.email = v.email => u = v
    <3> SUFFICES ASSUME NEW u \in users, NEW v \in users, u.email = v.email PROVE u = v
      OBVIOUS
    <3>1. PICK s \in DOMAIN k : u = [id |-> s, email |-> k[s], enabled |-> TRUE]
      BY <1>1
    <3>2. PICK t \in DOMAIN k : v = [id |-> t, email |-> k[t], enabled |-> TRUE]
      BY <1>1
    <3>3. s = t
      BY <1>2, <3>1, <3>2
    <3> QED BY <3>1, <3>2, <3>3
  <2>2. \A i, j \in identities : i.subject = j.subject => i = j
    <3> SUFFICES ASSUME NEW i \in identities, NEW j \in identities, i.subject = j.subject PROVE i = j
      OBVIOUS
    <3>1. PICK s \in DOMAIN k : i = [subject |-> s, user |-> s]
      BY <1>1
    <3>2. PICK t \in DOMAIN k : j = [subject |-> t, user |-> t]
      BY <1>1
    <3> QED BY <3>1, <3>2
  <2>3. \A s \in DOMAIN k : /\ [subject |-> s, user |-> s] \in identities
                           /\ [id |-> s, email |-> k[s], enabled |-> TRUE] \in users
    BY <1>1
  <2>4. \A u \in users : \E i \in identities : i.user = u.id
    <3> SUFFICES ASSUME NEW u \in users PROVE \E i \in identities : i.user = u.id
      OBVIOUS
    <3>1. PICK s \in DOMAIN k : u = [id |-> s, email |-> k[s], enabled |-> TRUE]
      BY <1>1
    <3>2. [subject |-> s, user |-> s].user = u.id
      BY <3>1
    <3> QED BY <2>3, <3>2
  <2>5. \A i \in identities : \E u \in users : u.id = i.user
    <3> SUFFICES ASSUME NEW i \in identities PROVE \E u \in users : u.id = i.user
      OBVIOUS
    <3>1. PICK s \in DOMAIN k : i = [subject |-> s, user |-> s]
      BY <1>1
    <3>2. [id |-> s, email |-> k[s], enabled |-> TRUE].id = i.user
      BY <3>1
    <3> QED BY <2>3, <3>2
  <2> QED BY <2>1, <2>2, <2>4, <2>5 DEF OneAccount
<1>9. RequestsLost /\ SessionsMatch /\ LostIsLost
  BY <1>3 DEF RequestsLost, SessionsMatch, LostIsLost, NoCall
<1> QED BY <1>4, <1>5, <1>6, <1>7, <1>8, <1>9 DEF SignInInvariant

-----------------------------------------------------------------------------
(* Steps of a flow that write no row.                                      *)

(* What a step of flow f has to show when no row, session cookie or        *)
(* request changes, and other flows stay as they are.                      *)
LEMMA FlowStep ==
  ASSUME SignInInvariant, NEW f \in Flow,
         UNCHANGED <<db, allowed, restarts, call>>,
         TypeOK',
         \A b \in Browser : jar'[b].session = jar[b].session,
         \A g \in Flow \ {f} : pc'[g] = pc[g] /\ flow'[g] = flow[g],
         pc[f] \notin {"signedIn"},
         \A u \in users : u.id = f => pc'[f] \in {"session", "signedIn", "gone"},
         pc'[f] # "idle" => flow'[f].browser \in Browser /\ flow'[f].subject \in Subject,
         pc'[f] \in Transaction => flow'[f].email \in Email,
         pc'[f] \in Inserting =>
           /\ flow'[f].user = f
           /\ \A u \in users : u.email # flow'[f].email,
         pc'[f] \in Unresolved => flow'[f].user = None,
         pc'[f] = "commitUpdate" =>
           \A u \in users : u.email = flow'[f].email => u.id = flow'[f].user,
         pc'[f] \in Inserting \cup {"commitUpdate"} =>
           \A g \in Flow \ {f} : pc[g] \in Inserting \cup {"commitUpdate"} =>
             flow[g].email # flow'[f].email,
         pc'[f] \in Linking =>
           /\ \A g \in Flow \ {f} : pc[g] \in Linking => flow[g].subject # flow'[f].subject
           /\ \A i \in identities : i.subject # flow'[f].subject,
         pc'[f] \in Updating \cup {"session"} =>
           [subject |-> flow'[f].subject, user |-> flow'[f].user] \in identities
  PROVE  SignInInvariant'
<1> USE DEF SignInInvariant
<1>1. FlowsFilled'
  BY DEF FlowsFilled, db
<1>2. AddressesReserved'
  <2>1. \A g \in Flow, u \in users :
          /\ pc'[g] \in Inserting => u.email # flow'[g].email
          /\ pc'[g] = "commitUpdate" /\ u.email = flow'[g].email => u.id = flow'[g].user
    BY DEF AddressesReserved
  <2>2. ASSUME NEW g \in Flow, NEW h \in Flow, g # h
        PROVE  /\ {pc'[g], pc'[h]} \subseteq Inserting \cup {"commitUpdate"} =>
                    flow'[g].email # flow'[h].email
               /\ {pc'[g], pc'[h]} \subseteq Linking => flow'[g].subject # flow'[h].subject
    <3>1. CASE g = f BY <2>2, <3>1
    <3>2. CASE h = f BY <2>2, <3>2
    <3>3. CASE g # f /\ h # f BY <2>2, <3>3 DEF AddressesReserved
    <3> QED BY <3>1, <3>2, <3>3
  <2>3. \A g \in Flow, i \in identities : pc'[g] \in Linking => i.subject # flow'[g].subject
    BY DEF AddressesReserved
  <2> QED BY <2>1, <2>2, <2>3 DEF AddressesReserved, db
<1>3. RowsLinked'
  <2>1. \A r \in sessions : pc'[r.id] = "signedIn"
    BY DEF RowsLinked, TypeOK
  <2>2. \A g \in Flow : pc'[g] \in Updating \cup {"session"} =>
          [subject |-> flow'[g].subject, user |-> flow'[g].user] \in identities
    BY DEF RowsLinked
  <2> QED BY <2>1, <2>2 DEF RowsLinked, db
<1>4. RequestsLost' /\ OneAccount' /\ LostIsLost'
  BY DEF RequestsLost, OneAccount, LostIsLost, Row, Enabled, IsMember, db
<1>5. SessionsMatch'
  BY DEF SessionsMatch, RowsLinked, TypeOK, db
<1> QED BY <1>1, <1>2, <1>3, <1>4, <1>5

(* A flow that stops, whichever statement it was at.                       *)
LEMMA StopInvariant ==
  ASSUME SignInInvariant, NEW f \in Flow, pc[f] \notin Ended,
         (Refuse(f) /\ pc[f] # "session") \/ Advance(f, "gone")
  PROVE  SignInInvariant'
<1>1. TypeOK'
  <2>1. \A b \in Browser : [jar[b] EXCEPT !.login = None] \in
          [login : Flow \cup {None}, session : Flow \cup {None}]
    BY DEF SignInInvariant, TypeOK
  <2>2. pc' \in [Flow -> Transaction \cup Ended \cup {"callback", "exchange", "session"}]
    BY DEF SignInInvariant, TypeOK, Refuse, Advance, Goto, Ended
  <2>3. jar' \in [Browser -> [login : Flow \cup {None}, session : Flow \cup {None}]]
    BY <2>1 DEF SignInInvariant, TypeOK, Refuse, Advance
  <2> QED BY <2>2, <2>3 DEF SignInInvariant, TypeOK, Refuse, Advance, db
<1>2. /\ \A b \in Browser : jar'[b].session = jar[b].session
      /\ \A g \in Flow \ {f} : pc'[g] = pc[g] /\ flow'[g] = flow[g]
      /\ flow'[f] = flow[f]
      /\ pc'[f] \in {"refused", "gone"}
      /\ pc'[f] = "refused" => pc[f] # "session"
  BY DEF SignInInvariant, TypeOK, Refuse, Advance, Goto
<1>3. \A u \in users : u.id = f => pc'[f] \in {"session", "signedIn", "gone"}
  BY <1>2 DEF SignInInvariant, FlowsFilled, Ended
<1>4. UNCHANGED <<db, allowed, restarts, call>>
  BY DEF Refuse, Advance
<1>5. /\ pc[f] # "signedIn"
      /\ flow[f].browser \in Browser /\ flow[f].subject \in Subject
  BY DEF SignInInvariant, FlowsFilled, Ended
<1> QED BY <1>1, <1>2, <1>3, <1>4, <1>5, FlowStep
        DEF Transaction, Inserting, Linking, Updating, Unresolved

(* A flow that goes on to another statement: its values are in the row.   *)
LEMMA AdvanceInvariant ==
  ASSUME SignInInvariant, NEW f \in Flow, NEW label,
         Advance(f, label),
         label \in Transaction \cup {"exchange"},
         pc[f] \in {"callback"} \cup Transaction, label \in Transaction => pc[f] # "callback",
         label \in Inserting => pc[f] \in Inserting,
         label \in Updating => pc[f] \in Updating,
         label \in Unresolved => pc[f] \in Unresolved,
         label = "commitUpdate" =>
           /\ ~Taken(f)
           /\ \A g \in Flow \ {f} : ~Holds(g, flow[f].email),
         label \in Linking =>
           /\ \A g \in Flow \ {f} : pc[g] \in Linking => flow[g].subject # flow[f].subject
           /\ Account(f) = {}
  PROVE  SignInInvariant'
<1>1. /\ UNCHANGED <<db, allowed, restarts, jar, call>> /\ flow' = flow
      /\ pc'[f] = label /\ \A g \in Flow \ {f} : pc'[g] = pc[g]
  BY DEF SignInInvariant, TypeOK, Advance, Goto
<1>2. TypeOK'
  BY <1>1 DEF SignInInvariant, TypeOK, Advance, Goto, db
<1>3. \A u \in users : u.id # f
  BY DEF SignInInvariant, FlowsFilled, Transaction
<1>4. /\ flow[f].browser \in Browser /\ flow[f].subject \in Subject
      /\ label \in Transaction => flow[f].email \in Email
      /\ label \in Unresolved => flow[f].user = None
  BY DEF SignInInvariant, FlowsFilled, Transaction
<1>5. label \in Inserting =>
        flow[f].user = f /\ \A u \in users : u.email # flow[f].email
  BY DEF SignInInvariant, FlowsFilled, AddressesReserved
<1>6. label = "commitUpdate" =>
        \A u \in users : u.email = flow[f].email => u.id = flow[f].user
  BY DEF Taken
<1>7. label \in Inserting \cup {"commitUpdate"} =>
        \A g \in Flow \ {f} : pc[g] \in Inserting \cup {"commitUpdate"} =>
          flow[g].email # flow[f].email
  <2>1. CASE label = "commitUpdate"
    BY <2>1 DEF Holds, Inserting, Linking
  <2>2. CASE label \in Inserting
    BY <2>2 DEF SignInInvariant, AddressesReserved
  <2> QED BY <2>1, <2>2
<1>8. label \in Linking => \A i \in identities : i.subject # flow[f].subject
  BY DEF Account
<1>9. label \in Updating \cup {"session"} =>
        [subject |-> flow[f].subject, user |-> flow[f].user] \in identities
  BY DEF SignInInvariant, RowsLinked, Transaction
<1> QED
  BY <1>1, <1>2, <1>3, <1>4, <1>5, <1>6, <1>7, <1>8, <1>9, FlowStep DEF Transaction

LEMMA GoogleStartInvariant ==
  ASSUME SignInInvariant, NEW f \in Flow, GoogleStart(f)
  PROVE  SignInInvariant'
<1>1. PICK b \in Browser, s \in Subject :
        /\ flow' = [flow EXCEPT ![f] = [NoFlow EXCEPT !.browser = b, !.subject = s]]
        /\ jar' = [jar EXCEPT ![b].login = f]
  BY DEF GoogleStart
<1>2. /\ pc[f] = "idle" /\ pc' = [pc EXCEPT ![f] = "callback"]
      /\ UNCHANGED <<db, allowed, restarts, call>>
  BY DEF GoogleStart, Goto
<1>3. /\ pc'[f] = "callback" /\ flow'[f].browser = b /\ flow'[f].subject = s
      /\ flow'[f].user = None
      /\ \A g \in Flow \ {f} : pc'[g] = pc[g] /\ flow'[g] = flow[g]
      /\ \A a \in Browser : jar'[a].session = jar[a].session
  BY <1>1, <1>2 DEF SignInInvariant, TypeOK, NoFlow
<1>4. TypeOK'
  <2>1. flow' \in [Flow -> [browser : Browser \cup {None}, subject : Subject \cup {None},
                           email : Email \cup {None}, user : UserId \cup {None}]]
    BY <1>1 DEF SignInInvariant, TypeOK, NoFlow
  <2>2. jar' \in [Browser -> [login : Flow \cup {None}, session : Flow \cup {None}]]
    <3>1. jar \in [Browser -> [login : Flow \cup {None}, session : Flow \cup {None}]]
      BY DEF SignInInvariant, TypeOK
    <3>2. [jar[b] EXCEPT !.login = f] \in [login : Flow \cup {None}, session : Flow \cup {None}]
      BY <3>1
    <3> QED
      BY <1>1, <3>1, <3>2
  <2> QED BY <1>2, <2>1, <2>2 DEF SignInInvariant, TypeOK, db
<1>5. \A u \in users : u.id # f
  BY <1>2 DEF SignInInvariant, FlowsFilled
<1> QED
  BY <1>2, <1>3, <1>4, <1>5, FlowStep DEF Transaction, Inserting, Linking, Updating, Unresolved

LEMMA AuthenticateInvariant ==
  ASSUME SignInInvariant, NEW f \in Flow, Authenticate(f), ~Refuse(f)
  PROVE  SignInInvariant'
<1>1. PICK e \in allowed : flow' = [flow EXCEPT ![f].email = e]
  BY DEF Authenticate
<1>2. /\ pc[f] = "exchange" /\ pc' = [pc EXCEPT ![f] = "select"]
      /\ UNCHANGED <<db, allowed, restarts, jar, call>>
  BY DEF Authenticate, At, Goto
<1>3. e \in Email
  BY SignInAssumption DEF SignInInvariant, TypeOK
<1>4. /\ pc'[f] = "select" /\ flow'[f].browser = flow[f].browser
      /\ flow'[f].subject = flow[f].subject /\ flow'[f].email = e
      /\ flow'[f].user = flow[f].user
      /\ \A g \in Flow \ {f} : pc'[g] = pc[g] /\ flow'[g] = flow[g]
  BY <1>1, <1>2 DEF SignInInvariant, TypeOK
<1>5. TypeOK'
  <2>1. flow' \in [Flow -> [browser : Browser \cup {None}, subject : Subject \cup {None},
                           email : Email \cup {None}, user : UserId \cup {None}]]
    <3> DEFINE Values == [browser : Browser \cup {None}, subject : Subject \cup {None},
                          email : Email \cup {None}, user : UserId \cup {None}]
    <3>1. flow \in [Flow -> Values]
      BY DEF SignInInvariant, TypeOK
    <3>2. [flow[f] EXCEPT !.email = e] \in Values
      BY <1>3, <3>1
    <3>3. flow' = [flow EXCEPT ![f] = [flow[f] EXCEPT !.email = e]]
      BY <1>1, <3>1
    <3> HIDE DEF Values
    <3>4. flow' \in [Flow -> Values]
      BY <3>1, <3>2, <3>3
    <3> QED
      BY <3>4 DEF Values
  <2>2. pc' \in [Flow -> Transaction \cup Ended \cup {"callback", "exchange", "session"}]
    BY <1>2 DEF SignInInvariant, TypeOK, Transaction
  <2> QED BY <1>2, <2>1, <2>2 DEF SignInInvariant, TypeOK, db
<1>6. /\ \A u \in users : u.id # f
      /\ flow[f].browser \in Browser /\ flow[f].subject \in Subject /\ flow[f].user = None
  BY <1>2 DEF SignInInvariant, FlowsFilled, Unresolved
<1> QED
  BY <1>2, <1>3, <1>4, <1>5, <1>6, FlowStep DEF Transaction, Inserting, Linking, Updating, Unresolved

LEMMA SelectIdentityInvariant ==
  ASSUME SignInInvariant, NEW f \in Flow, SelectIdentity(f)
  PROVE  SignInInvariant'
<1>0. pc[f] = "select"
  BY DEF SelectIdentity, At
<1>1. CASE Account(f) = {}
  <2>1. Advance(f, "collision")
    BY <1>1 DEF SelectIdentity
  <2> QED
    BY <1>0, <2>1, AdvanceInvariant DEF Transaction, Inserting, Linking, Updating, Unresolved
<1>2. CASE Account(f) # {}
  <2>1. PICK u \in Account(f) : flow' = [flow EXCEPT ![f].user = u]
    BY <1>2 DEF SelectIdentity
  <2>2. /\ pc' = [pc EXCEPT ![f] = "update"]
        /\ UNCHANGED <<db, allowed, restarts, jar, call>>
    BY <1>2 DEF SelectIdentity, Goto
  <2>3. [subject |-> flow[f].subject, user |-> u] \in identities /\ u \in UserId
    BY DEF Account, SignInInvariant, TypeOK
  <2>4. /\ pc'[f] = "update" /\ flow'[f].browser = flow[f].browser
        /\ flow'[f].subject = flow[f].subject /\ flow'[f].email = flow[f].email
        /\ flow'[f].user = u
        /\ \A g \in Flow \ {f} : pc'[g] = pc[g] /\ flow'[g] = flow[g]
    BY <2>1, <2>2 DEF SignInInvariant, TypeOK
  <2>5. TypeOK'
    <3>1. flow' \in [Flow -> [browser : Browser \cup {None}, subject : Subject \cup {None},
                             email : Email \cup {None}, user : UserId \cup {None}]]
      BY <2>1, <2>3 DEF SignInInvariant, TypeOK
    <3> QED BY <2>2, <3>1 DEF SignInInvariant, TypeOK, db, Transaction
  <2>6. /\ \A v \in users : v.id # f
        /\ flow[f].browser \in Browser /\ flow[f].subject \in Subject /\ flow[f].email \in Email
    BY <1>0 DEF SignInInvariant, FlowsFilled, Transaction
  <2> QED
    BY <1>0, <2>2, <2>3, <2>4, <2>5, <2>6, FlowStep DEF Transaction, Inserting, Linking, Updating, Unresolved
<1> QED BY <1>1, <1>2

LEMMA InsertUserInvariant ==
  ASSUME SignInInvariant, NEW f \in Flow, InsertUser(f), ~Refuse(f)
  PROVE  SignInInvariant'
<1>1. /\ pc[f] = "insertUser" /\ ~Taken(f) /\ WaitsFor(f) = {}
      /\ flow' = [flow EXCEPT ![f].user = f] /\ pc' = [pc EXCEPT ![f] = "insertIdentity"]
      /\ UNCHANGED <<db, allowed, restarts, jar, call>>
  BY DEF InsertUser, At, Goto
<1>2. /\ \A u \in users : u.id # f
      /\ flow[f].browser \in Browser /\ flow[f].subject \in Subject /\ flow[f].email \in Email
  BY <1>1 DEF SignInInvariant, FlowsFilled, Transaction
<1>3. /\ pc'[f] = "insertIdentity" /\ flow'[f].browser = flow[f].browser
      /\ flow'[f].subject = flow[f].subject /\ flow'[f].email = flow[f].email
      /\ flow'[f].user = f
      /\ \A g \in Flow \ {f} : pc'[g] = pc[g] /\ flow'[g] = flow[g]
  BY <1>1 DEF SignInInvariant, TypeOK
<1>4. \A u \in users : u.email # flow[f].email
  <2> SUFFICES ASSUME NEW u \in users, u.email = flow[f].email PROVE FALSE
    OBVIOUS
  <2>1. u.id = flow[f].user
    BY <1>1 DEF Taken
  <2>2. u.id \in UserId /\ flow[f].user = None
    BY <1>1 DEF SignInInvariant, TypeOK, FlowsFilled, Unresolved
  <2> QED BY <2>1, <2>2, SignInAssumption DEF UserId
<1>5. \A g \in Flow \ {f} : pc[g] \in Inserting \cup {"commitUpdate"} =>
        flow[g].email # flow[f].email
  BY <1>1 DEF WaitsFor, Blocks, Holds, Inserting, Linking
<1>6. TypeOK'
  <2>1. flow' \in [Flow -> [browser : Browser \cup {None}, subject : Subject \cup {None},
                           email : Email \cup {None}, user : UserId \cup {None}]]
    BY <1>1 DEF SignInInvariant, TypeOK, UserId
  <2> QED BY <1>1, <2>1 DEF SignInInvariant, TypeOK, db, Transaction
<1>7. /\ pc'[f] \notin Unresolved \cup Linking \cup Updating \cup {"idle", "commitUpdate", "session"}
      /\ pc[f] # "signedIn" /\ \A b \in Browser : jar'[b].session = jar[b].session
  BY <1>1, <1>3 DEF Linking, Updating, Unresolved
<1>8. \A u \in users : u.email # flow'[f].email
  BY <1>3, <1>4
<1>9. \A g \in Flow \ {f} : pc[g] \in Inserting \cup {"commitUpdate"} =>
        flow[g].email # flow'[f].email
  BY <1>3, <1>5
<1> QED
  BY <1>1, <1>2, <1>3, <1>6, <1>7, <1>8, <1>9, FlowStep

(* The remaining statements that write no row.                             *)
LEMMA StatementInvariant ==
  ASSUME SignInInvariant, NEW f \in Flow,
         \/ GoogleCallback(f) \/ UpdateUser(f) \/ UpdateAddress(f) \/ CheckCollision(f)
         \/ InsertIdentity(f) \/ ClaimMembership(f) \/ DeadlockVictim(f) \/ Abandon(f)
  PROVE  SignInInvariant'
<1> USE DEF At, Transaction, Inserting, Linking, Updating, Unresolved
<1>0. /\ Refuse(f) /\ pc[f] \in {"callback"} \cup Transaction => SignInInvariant'
      /\ Advance(f, "gone") /\ pc[f] \notin Ended => SignInInvariant'
  BY StopInvariant DEF Ended
<1>1. CASE GoogleCallback(f)
  <2>1. CASE Advance(f, "exchange")
    BY <1>1, <2>1, AdvanceInvariant DEF GoogleCallback
  <2> QED BY <1>0, <1>1, <2>1 DEF GoogleCallback
<1>2. CASE UpdateUser(f)
  <2>1. CASE Advance(f, "index")
    BY <1>2, <2>1, AdvanceInvariant DEF UpdateUser
  <2> QED BY <1>0, <1>2, <2>1 DEF UpdateUser
<1>3. CASE UpdateAddress(f)
  <2>1. \A g \in Flow \ {f} : ~Holds(g, flow[f].email)
    BY <1>3 DEF UpdateAddress, WaitsFor, Blocks
  <2>2. CASE Taken(f)
    BY <1>0, <1>3, <2>2 DEF UpdateAddress
  <2>3. CASE ~Taken(f)
    BY <1>3, <2>1, <2>3, AdvanceInvariant DEF UpdateAddress
  <2> QED BY <2>2, <2>3
<1>4. CASE CheckCollision(f)
  <2>1. CASE Advance(f, "insertUser")
    BY <1>4, <2>1, AdvanceInvariant DEF CheckCollision
  <2> QED BY <1>0, <1>4, <2>1 DEF CheckCollision
<1>5. CASE InsertIdentity(f)
  <2>1. \A g \in Flow \ {f} : pc[g] \in Linking => flow[g].subject # flow[f].subject
    BY <1>5 DEF InsertIdentity, WaitsFor, Blocks
  <2>2. CASE Account(f) # {}
    BY <1>0, <1>5, <2>2 DEF InsertIdentity
  <2>3. CASE Account(f) = {}
    BY <1>5, <2>1, <2>3, AdvanceInvariant DEF InsertIdentity
  <2> QED BY <2>2, <2>3
<1>6. CASE ClaimMembership(f)
  <2>1. /\ \A g \in Flow \ {f} : pc[g] \in Linking => flow[g].subject # flow[f].subject
        /\ Account(f) = {}
    BY <1>6 DEF ClaimMembership, SignInInvariant, AddressesReserved, Account
  <2> QED BY <1>6, <2>1, AdvanceInvariant DEF ClaimMembership
<1>7. CASE DeadlockVictim(f)
  BY <1>0, <1>7 DEF DeadlockVictim
<1>8. CASE Abandon(f)
  BY <1>0, <1>8 DEF Abandon
<1> QED
  BY <1>1, <1>2, <1>3, <1>4, <1>5, <1>6, <1>7, <1>8

-----------------------------------------------------------------------------
(* The three statements that make rows visible.                            *)

LEMMA CommitUpdateInvariant ==
  ASSUME SignInInvariant, NEW f \in Flow, CommitUpdate(f)
  PROVE  SignInInvariant'
<1> DEFINE mine == flow[f].user
           e == flow[f].email
           after(u) == IF u.id = mine THEN [u EXCEPT !.email = e] ELSE u
<1>0. /\ pc[f] = "commitUpdate" /\ users' = {after(u) : u \in users}
      /\ pc' = [pc EXCEPT ![f] = "session"]
      /\ UNCHANGED <<identities, members, sessions, allowed, restarts, jar, flow, call>>
  BY DEF CommitUpdate, At, Goto
<1>1. e \in Email /\ flow[f].browser \in Browser /\ flow[f].subject \in Subject
  BY <1>0 DEF SignInInvariant, FlowsFilled, Transaction
<1>2. \A u \in users :
        /\ after(u) \in [id : UserId, email : Email, enabled : BOOLEAN]
        /\ after(u).id = u.id /\ after(u).enabled = u.enabled
        /\ after(u).email = IF u.id = mine THEN e ELSE u.email
  BY <1>1 DEF SignInInvariant, TypeOK
<1>3. \A u \in users : u.email = e => u.id = mine
  BY <1>0 DEF SignInInvariant, AddressesReserved
<1>4. pc'[f] = "session" /\ \A g \in Flow \ {f} : pc'[g] = pc[g]
  BY <1>0 DEF SignInInvariant, TypeOK
<1> HIDE DEF after, e, mine
<1>5. TypeOK'
  <2>1. pc' \in [Flow -> Transaction \cup Ended \cup {"callback", "exchange", "session"}]
    BY <1>0 DEF SignInInvariant, TypeOK
  <2> QED BY <1>0, <1>2, <2>1 DEF SignInInvariant, TypeOK
<1>6. FlowsFilled'
  <2>1. \A u \in users' : u.id \in Flow => pc'[u.id] \in {"session", "signedIn", "gone"}
    BY <1>0, <1>2, <1>4 DEF SignInInvariant, FlowsFilled
  <2> QED BY <1>0, <1>4, <2>1
      DEF SignInInvariant, FlowsFilled, Transaction, Inserting, Linking, Unresolved
<1>7. AddressesReserved'
  <2>1. ASSUME NEW g \in Flow, pc'[g] \in Inserting \cup {"commitUpdate"}
        PROVE  g # f /\ pc[g] = pc'[g] /\ flow[g].email # e
    BY <1>0, <1>4, <2>1 DEF SignInInvariant, AddressesReserved, Inserting, Linking, e
  <2>2. \A g \in Flow, u \in users' :
          /\ pc'[g] \in Inserting => u.email # flow'[g].email
          /\ pc'[g] = "commitUpdate" /\ u.email = flow'[g].email => u.id = flow'[g].user
    BY <1>0, <1>2, <2>1 DEF SignInInvariant, AddressesReserved
  <2>3. \A g \in Flow : pc'[g] \in Linking => pc[g] = pc'[g]
    BY <1>4 DEF Linking
  <2> QED BY <1>0, <2>1, <2>2, <2>3 DEF SignInInvariant, AddressesReserved
<1>8. OneAccount'
  <2>1. \A u, v \in users : after(u).email = after(v).email => u = v
    BY <1>2, <1>3 DEF SignInInvariant, OneAccount, RowsLinked
  <2> QED BY <1>0, <1>2, <2>1 DEF SignInInvariant, OneAccount
<1>9. RowsLinked'
  <2>1. \A u, v \in users' : u.id = v.id => u = v
    BY <1>0, <1>2 DEF SignInInvariant, RowsLinked
  <2>2. \A g \in Flow : pc'[g] \in Updating \cup {"session"} =>
          [subject |-> flow[g].subject, user |-> flow[g].user] \in identities
    BY <1>0, <1>4 DEF SignInInvariant, RowsLinked, Updating
  <2>3. \A r \in sessions : pc'[r.id] = "signedIn"
    BY <1>0, <1>4 DEF SignInInvariant, RowsLinked, TypeOK
  <2> QED BY <1>0, <2>1, <2>2, <2>3 DEF SignInInvariant, RowsLinked
<1>10. \A x : Enabled(x)' <=> Enabled(x)
  BY <1>0, <1>2 DEF Enabled
<1> QED
  BY <1>0, <1>5, <1>6, <1>7, <1>8, <1>9, <1>10
  DEF SignInInvariant, RequestsLost, SessionsMatch, LostIsLost, Row, IsMember

(* The new user's id, address and Google account were reserved.            *)
LEMMA CommitNewInvariant ==
  ASSUME SignInInvariant, NEW f \in Flow, CommitNew(f)
  PROVE  /\ SignInInvariant'
         /\ \A u \in users : u.id # f
<1> DEFINE user == [id |-> f, email |-> flow[f].email, enabled |-> TRUE]
           identity == [subject |-> flow[f].subject, user |-> f]
           member == [user |-> f, role |-> "owner"]
<1>0. /\ pc[f] = "commitNew" /\ pc' = [pc EXCEPT ![f] = "session"]
      /\ users' = users \cup {user} /\ identities' = identities \cup {identity}
      /\ members' = members \cup {member}
      /\ UNCHANGED <<sessions, allowed, restarts, jar, flow, call>>
  BY DEF CommitNew, At, Goto
<1>1. /\ flow[f].email \in Email /\ flow[f].browser \in Browser /\ flow[f].subject \in Subject
      /\ flow[f].user = f
      /\ \A u \in users : u.id # f
  BY <1>0 DEF SignInInvariant, FlowsFilled, Transaction, Inserting, Linking
<1>2. /\ \A u \in users : u.email # flow[f].email
      /\ \A i \in identities : i.subject # flow[f].subject
  BY <1>0 DEF SignInInvariant, AddressesReserved, Inserting, Linking
<1>3. pc'[f] = "session" /\ \A g \in Flow \ {f} : pc'[g] = pc[g]
  BY <1>0 DEF SignInInvariant, TypeOK
<1>4. /\ user.id = f /\ user.email = flow[f].email
      /\ identity.subject = flow[f].subject /\ identity.user = f /\ member.user = f
      /\ user \in [id : UserId, email : Email, enabled : BOOLEAN]
      /\ identity \in [subject : Subject, user : UserId]
      /\ member \in [user : UserId, role : {"owner", "member"}]
  BY <1>1 DEF UserId
<1>5. identity = [subject |-> flow[f].subject, user |-> flow[f].user]
  BY <1>1
<1> HIDE DEF user, identity, member
<1>6. TypeOK'
  <2>1. pc' \in [Flow -> Transaction \cup Ended \cup {"callback", "exchange", "session"}]
    BY <1>0 DEF SignInInvariant, TypeOK
  <2> QED BY <1>0, <1>4, <2>1 DEF SignInInvariant, TypeOK
<1>7. FlowsFilled'
  <2>1. \A u \in users' : u.id \in Flow => pc'[u.id] \in {"session", "signedIn", "gone"}
    BY <1>0, <1>3, <1>4 DEF SignInInvariant, FlowsFilled
  <2> QED BY <1>0, <1>3, <2>1
      DEF SignInInvariant, FlowsFilled, Transaction, Inserting, Linking, Unresolved
<1>8. AddressesReserved'
  <2>1. ASSUME NEW g \in Flow, pc'[g] \in Inserting \cup {"commitUpdate"}
        PROVE  g # f /\ pc[g] = pc'[g] /\ flow[g].email # flow[f].email
    BY <1>0, <1>3, <2>1 DEF SignInInvariant, AddressesReserved, Inserting, Linking
  <2>2. ASSUME NEW g \in Flow, pc'[g] \in Linking
        PROVE  g # f /\ pc[g] = pc'[g] /\ flow[g].subject # flow[f].subject
    BY <1>0, <1>3, <2>2 DEF SignInInvariant, AddressesReserved, Linking
  <2>3. \A g \in Flow, u \in users' :
          /\ pc'[g] \in Inserting => u.email # flow'[g].email
          /\ pc'[g] = "commitUpdate" /\ u.email = flow'[g].email => u.id = flow'[g].user
    BY <1>0, <1>4, <2>1 DEF SignInInvariant, AddressesReserved
  <2>4. \A g \in Flow, i \in identities' : pc'[g] \in Linking => i.subject # flow'[g].subject
    BY <1>0, <1>4, <2>2 DEF SignInInvariant, AddressesReserved
  <2> QED BY <1>0, <2>1, <2>2, <2>3, <2>4 DEF SignInInvariant, AddressesReserved
<1>9. OneAccount'
  BY <1>0, <1>2, <1>4 DEF SignInInvariant, OneAccount
<1>10. RowsLinked'
  <2>1. \A u, v \in users' : u.id = v.id => u = v
    BY <1>0, <1>1, <1>4 DEF SignInInvariant, RowsLinked
  <2>2. \A g \in Flow : pc'[g] \in Updating \cup {"session"} =>
          [subject |-> flow[g].subject, user |-> flow[g].user] \in identities'
    BY <1>0, <1>3, <1>5 DEF SignInInvariant, RowsLinked, Updating
  <2>3. \A r \in sessions : pc'[r.id] = "signedIn"
    BY <1>0, <1>3 DEF SignInInvariant, RowsLinked, TypeOK
  <2> QED BY <1>0, <2>1, <2>2, <2>3 DEF SignInInvariant, RowsLinked
<1>11. ASSUME NEW r \in sessions
       PROVE  (Enabled(r.user)' <=> Enabled(r.user)) /\ (IsMember(r.user)' <=> IsMember(r.user))
  <2> DEFINE link == [subject |-> flow[r.id].subject, user |-> r.user]
  <2>1. r.user # f
    <3>1. link \in identities /\ link.user = r.user
      BY DEF SignInInvariant, SessionsMatch
    <3> HIDE DEF link
    <3> QED BY <1>1, <3>1 DEF SignInInvariant, OneAccount
  <2> QED BY <1>0, <1>4, <2>1 DEF Enabled, IsMember
<1>12. RequestsLost'
  BY <1>0, <1>11 DEF SignInInvariant, RequestsLost, Row
<1>13. SessionsMatch' /\ LostIsLost'
  BY <1>0 DEF SignInInvariant, SessionsMatch, LostIsLost
<1> QED
  BY <1>1, <1>6, <1>7, <1>8, <1>9, <1>10, <1>12, <1>13 DEF SignInInvariant

LEMMA CreateSessionInvariant ==
  ASSUME SignInInvariant, NEW f \in Flow, CreateSession(f)
  PROVE  SignInInvariant'
<1> DEFINE row == [id |-> f, user |-> flow[f].user, open |-> TRUE]
           b == flow[f].browser
<1>0. /\ pc[f] = "session" /\ pc' = [pc EXCEPT ![f] = "signedIn"]
      /\ sessions' = sessions \cup {row}
      /\ jar' = [jar EXCEPT ![b] = [login |-> None, session |-> f]]
      /\ UNCHANGED <<users, identities, members, allowed, restarts, flow, call>>
  BY DEF CreateSession, At, Goto
<1>1. /\ row.id = f /\ row.user = flow[f].user
      /\ [subject |-> flow[f].subject, user |-> row.user] \in identities
      /\ row \in [id : Flow, user : UserId, open : BOOLEAN]
  BY <1>0 DEF SignInInvariant, RowsLinked, TypeOK
<1>2. pc'[f] = "signedIn" /\ \A g \in Flow \ {f} : pc'[g] = pc[g]
  BY <1>0 DEF SignInInvariant, TypeOK
<1>3. \A r \in sessions : r.id # f
  BY <1>0 DEF SignInInvariant, RowsLinked
<1> HIDE DEF row
<1>4. TypeOK'
  <2>1. pc' \in [Flow -> Transaction \cup Ended \cup {"callback", "exchange", "session"}]
    BY <1>0 DEF SignInInvariant, TypeOK, Ended
  <2>2. jar' \in [Browser -> [login : Flow \cup {None}, session : Flow \cup {None}]]
    BY <1>0 DEF SignInInvariant, TypeOK
  <2> QED BY <1>0, <1>1, <2>1, <2>2 DEF SignInInvariant, TypeOK
<1>5. FlowsFilled'
  BY <1>0, <1>2 DEF SignInInvariant, FlowsFilled, Transaction, Inserting, Linking, Unresolved
<1>6. AddressesReserved'
  <2>1. \A g \in Flow : pc'[g] \in Inserting \cup Linking \cup {"commitUpdate"} => pc[g] = pc'[g]
    BY <1>2 DEF Inserting, Linking
  <2> QED BY <1>0, <2>1 DEF SignInInvariant, AddressesReserved
<1>7. RowsLinked'
  <2>1. \A r, q \in sessions' : r.id = q.id => r = q
    BY <1>0, <1>1, <1>3 DEF SignInInvariant, RowsLinked
  <2>2. \A r \in sessions' : pc'[r.id] = "signedIn"
    BY <1>0, <1>1, <1>2 DEF SignInInvariant, RowsLinked, TypeOK
  <2>3. \A g \in Flow : pc'[g] \in Updating \cup {"session"} =>
          [subject |-> flow[g].subject, user |-> flow[g].user] \in identities
    BY <1>0, <1>2 DEF SignInInvariant, RowsLinked, Updating
  <2>4. \A a \in Browser : {jar'[a].session, call[a].session}
                             \subseteq {None} \cup {r.id : r \in sessions'}
    <3>1. \A a \in Browser : jar'[a].session \in {f, jar[a].session}
      BY <1>0 DEF SignInInvariant, TypeOK
    <3> QED BY <1>0, <1>1, <3>1 DEF SignInInvariant, RowsLinked
  <2> QED BY <1>0, <2>1, <2>2, <2>3, <2>4 DEF SignInInvariant, RowsLinked
<1>8. RequestsLost'
  <2>1. \A a \in Browser : call[a].session # f
    BY <1>3, SignInAssumption DEF SignInInvariant, RowsLinked
  <2>2. \A a \in Browser : Row(call[a].session)' = Row(call[a].session)
    BY <1>0, <1>1, <2>1 DEF Row
  <2> QED BY <1>0, <2>2 DEF SignInInvariant, RequestsLost, Enabled, IsMember
<1>9. SessionsMatch'
  BY <1>0, <1>1 DEF SignInInvariant, SessionsMatch
<1> QED
  BY <1>0, <1>4, <1>5, <1>6, <1>7, <1>8, <1>9 DEF SignInInvariant, OneAccount, LostIsLost

-----------------------------------------------------------------------------
(* Requests, and what happens around the program.                          *)

LEMMA RequestInvariant ==
  ASSUME SignInInvariant, NEW b \in Browser,
         RequireSession(b) \/ LoadSession(b) \/ AuthorizeHousehold(b) \/ Receive(b)
  PROVE  SignInInvariant'
<1>0. UNCHANGED <<users, identities, members, sessions, allowed, restarts, pc, flow>>
  BY DEF RequireSession, LoadSession, AuthorizeHousehold, Receive, Answer, db
<1>1. /\ \A a \in Browser \ {b} : call'[a] = call[a]
      /\ \A a \in Browser : jar'[a].session \in {None, jar[a].session}
      /\ call'[b].session \in {None, call[b].session, jar[b].session}
  BY DEF SignInInvariant, TypeOK, RequireSession, LoadSession, AuthorizeHousehold, Receive,
         Answer, NoCall
<1>2. /\ jar' \in [Browser -> [login : Flow \cup {None}, session : Flow \cup {None}]]
      /\ call'[b] \in [at : {"idle", "load", "members", "served"},
                       session : Flow \cup {None}, lost : BOOLEAN]
      /\ call' = [call EXCEPT ![b] = call'[b]]
  <2>1. CASE RequireSession(b)
    <3> DEFINE lost == ~\E r \in Row(jar[b].session) : r.open /\ Enabled(r.user) /\ IsMember(r.user)
               c == [at |-> "load", session |-> jar[b].session, lost |-> lost]
    <3>1. call' = [call EXCEPT ![b] = c] /\ jar' = jar
      BY <2>1 DEF RequireSession
    <3>2. lost \in BOOLEAN
      OBVIOUS
    <3> HIDE DEF lost
    <3>3. c \in [at : {"idle", "load", "members", "served"},
                session : Flow \cup {None}, lost : BOOLEAN]
      BY <3>2 DEF SignInInvariant, TypeOK
    <3> QED BY <3>1, <3>3 DEF SignInInvariant, TypeOK
  <2>2. CASE LoadSession(b)
    <3>1. /\ jar' = jar \/ jar' = [jar EXCEPT ![b].session = None]
          /\ \/ call' = [call EXCEPT ![b] = [call[b] EXCEPT !.at = "members"]]
             \/ call' = [call EXCEPT ![b] = NoCall]
      BY <2>2 DEF LoadSession, Answer
    <3>2. jar' \in [Browser -> [login : Flow \cup {None}, session : Flow \cup {None}]]
      BY <3>1 DEF SignInInvariant, TypeOK
    <3> DEFINE Calls == [at : {"idle", "load", "members", "served"},
                         session : Flow \cup {None}, lost : BOOLEAN]
    <3>3. NoCall \in Calls /\ [call[b] EXCEPT !.at = "members"] \in Calls
      BY DEF SignInInvariant, TypeOK, NoCall
    <3>4. call \in [Browser -> Calls]
      BY DEF SignInInvariant, TypeOK
    <3> HIDE DEF Calls
    <3>5. call' = [call EXCEPT ![b] = call'[b]] /\ call'[b] \in Calls
      BY <3>1, <3>3, <3>4
    <3> QED BY <3>2, <3>5 DEF Calls
  <2>3. CASE AuthorizeHousehold(b)
    BY <2>3 DEF SignInInvariant, TypeOK, AuthorizeHousehold, Answer, NoCall
  <2>4. CASE Receive(b)
    BY <2>4 DEF SignInInvariant, TypeOK, Receive, Answer, NoCall
  <2> QED BY <2>1, <2>2, <2>3, <2>4
<1>3. TypeOK'
  BY <1>0, <1>2 DEF SignInInvariant, TypeOK
<1>4. RowsLinked'
  <2>1. \A a \in Browser : {jar'[a].session, call'[a].session}
                             \subseteq {None, jar[a].session, call[a].session}
    BY <1>1
  <2> QED BY <1>0, <2>1 DEF SignInInvariant, RowsLinked
<1>5. call'[b].lost =>
        /\ call'[b].at # "served"
        /\ \A r \in Row(call'[b].session) :
             /\ call'[b].at = "load" => ~(r.open /\ Enabled(r.user) /\ IsMember(r.user))
             /\ call'[b].at = "members" => ~IsMember(r.user)
  <2>1. CASE RequireSession(b)
    BY <2>1 DEF SignInInvariant, TypeOK, RequireSession
  <2>2. CASE call'[b] = NoCall
    BY <2>2 DEF NoCall
  <2>3. CASE LoadSession(b) /\ call'[b] # NoCall
    <3>1. PICK r \in Row(call[b].session) : r.open /\ Enabled(r.user)
      BY <2>3 DEF LoadSession, Answer, SignInInvariant, TypeOK, Enabled
    <3>2. \A q \in Row(call[b].session) : q = r
      BY DEF SignInInvariant, RowsLinked, Row
    <3>3. call[b].at = "load" /\ call'[b] = [call[b] EXCEPT !.at = "members"]
      BY <2>3 DEF LoadSession, Answer, SignInInvariant, TypeOK
    <3>4. /\ call'[b].at = "members" /\ call'[b].session = call[b].session
          /\ call'[b].lost = call[b].lost
      BY <3>3 DEF SignInInvariant, TypeOK
    <3> QED BY <3>1, <3>2, <3>3, <3>4 DEF SignInInvariant, RequestsLost
  <2>4. CASE AuthorizeHousehold(b) /\ call'[b] # NoCall
    <3>1. /\ call[b].at = "members" /\ call'[b] = [call[b] EXCEPT !.at = "served"]
          /\ \E r \in Row(call[b].session) : IsMember(r.user)
      BY <2>4 DEF AuthorizeHousehold, Answer, SignInInvariant, TypeOK
    <3>2. call'[b].lost = call[b].lost
      BY <3>1 DEF SignInInvariant, TypeOK
    <3> QED BY <3>1, <3>2 DEF SignInInvariant, RequestsLost
  <2>5. CASE Receive(b)
    BY <2>2, <2>5 DEF Receive, Answer, SignInInvariant, TypeOK
  <2> QED BY <2>1, <2>2, <2>3, <2>4, <2>5
<1>6. RequestsLost' /\ LostIsLost'
  BY <1>0, <1>1, <1>5 DEF SignInInvariant, RequestsLost, LostIsLost, Row, Enabled, IsMember
<1> QED
  BY <1>0, <1>3, <1>4, <1>6
  DEF SignInInvariant, FlowsFilled, AddressesReserved, OneAccount, SessionsMatch

LEMMA LogoutInvariant ==
  ASSUME SignInInvariant, NEW b \in Browser, Logout(b)
  PROVE  SignInInvariant'
<1> DEFINE s == jar[b].session
           after(r) == IF r.id = s THEN [r EXCEPT !.open = FALSE] ELSE r
<1>0. /\ UNCHANGED <<users, identities, members, allowed, restarts, pc, flow, call>>
      /\ jar' = [jar EXCEPT ![b].session = None]
  BY DEF Logout
<1>1. \A r \in sessions :
        /\ after(r) \in [id : Flow, user : UserId, open : BOOLEAN]
        /\ after(r).id = r.id /\ after(r).user = r.user
        /\ after(r).open => r.open
  BY DEF SignInInvariant, TypeOK
<1>2. sessions' = {after(r) : r \in sessions} \/ sessions' = sessions
  BY DEF Logout
<1> HIDE DEF after, s
<1>3. /\ \A q \in sessions' : \E r \in sessions :
           /\ q.id = r.id /\ q.user = r.user /\ q.open => r.open
      /\ {r.id : r \in sessions'} = {r.id : r \in sessions}
      /\ \A r, q \in sessions' : r.id = q.id => r = q
  BY <1>1, <1>2 DEF SignInInvariant, RowsLinked
<1>4. TypeOK'
  <2>1. jar' \in [Browser -> [login : Flow \cup {None}, session : Flow \cup {None}]]
    BY <1>0 DEF SignInInvariant, TypeOK
  <2> QED BY <1>0, <1>1, <1>2, <2>1 DEF SignInInvariant, TypeOK
<1>5. RowsLinked'
  <2>1. \A a \in Browser : jar'[a].session \in {None, jar[a].session}
    BY <1>0 DEF SignInInvariant, TypeOK
  <2>2. \A a \in Browser : {jar'[a].session, call'[a].session}
                             \subseteq {None} \cup {r.id : r \in sessions'}
    <3> SUFFICES ASSUME NEW a \in Browser
                 PROVE  {jar'[a].session, call[a].session} \subseteq {None} \cup {r.id : r \in sessions}
      BY <1>0, <1>3
    <3>1. {jar[a].session, call[a].session} \subseteq {None} \cup {r.id : r \in sessions}
      BY DEF SignInInvariant, RowsLinked
    <3> QED
      BY <2>1, <3>1
  <2>3. \A r \in sessions' : pc'[r.id] = "signedIn"
    <3> SUFFICES ASSUME NEW q \in sessions' PROVE pc[q.id] = "signedIn"
      BY <1>0
    <3>1. PICK r \in sessions : q.id = r.id
      BY <1>3
    <3> QED BY <3>1 DEF SignInInvariant, RowsLinked
  <2> QED BY <1>0, <1>3, <2>2, <2>3 DEF SignInInvariant, RowsLinked
<1>6. \A a, q : q \in Row(a)' =>
        \E r \in Row(a) : q.user = r.user /\ (q.open => r.open)
  BY <1>1, <1>2 DEF Row
<1>7. RequestsLost'
  BY <1>0, <1>6 DEF SignInInvariant, RequestsLost, Enabled, IsMember
<1>8. SessionsMatch'
  BY <1>0, <1>1, <1>2 DEF SignInInvariant, SessionsMatch
<1> QED
  BY <1>0, <1>4, <1>5, <1>7, <1>8
  DEF SignInInvariant, FlowsFilled, AddressesReserved, OneAccount, LostIsLost

LEMMA RestartInvariant ==
  ASSUME SignInInvariant, Restart
  PROVE  SignInInvariant'
<1>0. /\ UNCHANGED <<users, identities, members, sessions, jar, flow>>
      /\ pc' = [f \in Flow |-> IF pc[f] \in Ended \cup {"callback"} THEN pc[f] ELSE "gone"]
      /\ call' = [b \in Browser |-> NoCall]
      /\ allowed' \in AllowLists /\ restarts' = restarts + 1
  BY DEF Restart, db
<1>1. \A f \in Flow : \/ pc'[f] = pc[f] /\ pc[f] \in Ended \cup {"callback"}
                      \/ pc'[f] = "gone" /\ pc[f] \notin Ended \cup {"callback"}
  BY <1>0
<1>2. TypeOK'
  BY <1>0 DEF SignInInvariant, TypeOK, NoCall, Ended
<1>3. FlowsFilled'
  BY <1>0, <1>1 DEF SignInInvariant, TypeOK, FlowsFilled, Transaction, Ended, Inserting,
                    Linking, Unresolved
<1>4. AddressesReserved'
  BY <1>0, <1>1 DEF AddressesReserved, Inserting, Linking, Ended
<1>5. RowsLinked'
  <2>1. \A r \in sessions : pc'[r.id] = "signedIn"
    BY <1>1 DEF SignInInvariant, RowsLinked, TypeOK, Ended
  <2>2. \A f \in Flow : pc'[f] \notin Updating \cup {"session"}
    BY <1>1 DEF Updating, Ended
  <2>3. \A b \in Browser : call'[b].session = None
    BY <1>0 DEF NoCall
  <2> QED BY <1>0, <2>1, <2>2, <2>3 DEF SignInInvariant, RowsLinked
<1>6. RequestsLost' /\ LostIsLost'
  BY <1>0 DEF RequestsLost, LostIsLost, NoCall
<1> QED
  BY <1>0, <1>2, <1>3, <1>4, <1>5, <1>6 DEF SignInInvariant, OneAccount, SessionsMatch

LEMMA DisableUserInvariant ==
  ASSUME SignInInvariant, DisableUser
  PROVE  SignInInvariant'
<1>0. PICK u \in users :
        /\ users' = (users \ {u}) \cup {[u EXCEPT !.enabled = FALSE]}
        /\ UNCHANGED <<identities, members, sessions, allowed, restarts, jar, pc, flow, call>>
  BY DEF DisableUser
<1> DEFINE off == [u EXCEPT !.enabled = FALSE]
<1>1. /\ off \in [id : UserId, email : Email, enabled : BOOLEAN]
      /\ off.id = u.id /\ off.email = u.email /\ ~off.enabled
  BY DEF SignInInvariant, TypeOK
<1>2. users' = (users \ {u}) \cup {off}
  BY <1>0
<1> HIDE DEF off
<1>3. TypeOK'
  BY <1>0, <1>1, <1>2 DEF SignInInvariant, TypeOK
<1>4. FlowsFilled' /\ AddressesReserved'
  BY <1>0, <1>1, <1>2 DEF SignInInvariant, FlowsFilled, AddressesReserved
<1>5. OneAccount'
  BY <1>0, <1>1, <1>2 DEF SignInInvariant, OneAccount
<1>6. RowsLinked'
  BY <1>0, <1>1, <1>2 DEF SignInInvariant, RowsLinked
<1>7. \A x : Enabled(x)' => Enabled(x)
  BY <1>1, <1>2 DEF Enabled
<1> QED
  BY <1>0, <1>3, <1>4, <1>5, <1>6, <1>7
  DEF SignInInvariant, RequestsLost, SessionsMatch, LostIsLost, Row, IsMember

LEMMA ChangeMemberInvariant ==
  ASSUME SignInInvariant, ChangeMember
  PROVE  /\ SignInInvariant'
         /\ \A m \in members' \ members : m.role = "member"
<1>0. PICK m \in members :
        /\ members' = members \ {m} \/ members' = (members \ {m}) \cup {[m EXCEPT !.role = "member"]}
        /\ UNCHANGED <<users, identities, sessions, allowed, restarts, jar, pc, flow, call>>
  BY DEF ChangeMember
<1> DEFINE lower == [m EXCEPT !.role = "member"]
<1>1. /\ lower \in [user : UserId, role : {"owner", "member"}]
      /\ lower.user = m.user /\ lower.role = "member"
  BY DEF SignInInvariant, TypeOK
<1>2. members' = members \ {m} \/ members' = (members \ {m}) \cup {lower}
  BY <1>0
<1> HIDE DEF lower
<1>3. TypeOK'
  BY <1>0, <1>1, <1>2 DEF SignInInvariant, TypeOK
<1>4. \A x : IsMember(x)' => IsMember(x)
  BY <1>1, <1>2 DEF IsMember
<1>5. RequestsLost'
  BY <1>0, <1>4 DEF SignInInvariant, RequestsLost, Row, Enabled
<1> QED
  BY <1>0, <1>1, <1>2, <1>3, <1>5
  DEF SignInInvariant, FlowsFilled, AddressesReserved, RowsLinked, OneAccount, SessionsMatch,
      LostIsLost

-----------------------------------------------------------------------------
LEMMA NextInvariant == SignInInvariant /\ [Next]_vars => SignInInvariant'
<1> SUFFICES ASSUME SignInInvariant, [Next]_vars PROVE SignInInvariant'
  OBVIOUS
<1>1. ASSUME NEW f \in Flow,
             GoogleStart(f) \/ GoogleCallback(f) \/ Statement(f) \/ Abandon(f)
      PROVE  SignInInvariant'
  <2>1. CASE Authenticate(f) /\ Refuse(f)
    BY <2>1, StopInvariant DEF Authenticate, At, Ended
  <2>2. CASE InsertUser(f) /\ Refuse(f)
    BY <2>2, StopInvariant DEF InsertUser, At, Ended
  <2> QED
    BY <1>1, <2>1, <2>2, GoogleStartInvariant, AuthenticateInvariant, SelectIdentityInvariant,
       InsertUserInvariant, StatementInvariant, CommitUpdateInvariant, CommitNewInvariant,
       CreateSessionInvariant DEF Statement
<1>2. CASE UNCHANGED vars
  BY <1>2 DEF vars, SignInInvariant, TypeOK, FlowsFilled, AddressesReserved, RowsLinked,
              RequestsLost, OneAccount, SessionsMatch, LostIsLost, Row, Enabled, IsMember
<1> QED
  BY <1>1, <1>2, RequestInvariant, LogoutInvariant, RestartInvariant, DisableUserInvariant,
     ChangeMemberInvariant DEF Next

(* At every statement of every sign-in, request and restart: the address   *)
(* and the Google account an open transaction has reserved are no one      *)
(* else's, each row it relies on is there, and a request that had lost its *)
(* access has not yet passed the check that finds it.                      *)
THEOREM SignInInvariantHolds == Spec => []SignInInvariant
BY InitInvariant, NextInvariant, PTL DEF Spec

(* Rows, cookies, program counters and requests keep their types.          *)
THEOREM SignInTypeCorrect == Spec => []TypeOK
<1>1. SignInInvariant => TypeOK
  BY DEF SignInInvariant
<1> QED BY <1>1, SignInInvariantHolds, PTL

(* An address and a Google account have one user, and every user has its   *)
(* Google account, however many first sign-ins run at once or fail halfway *)
(* (ResolveIdentity).                                                      *)
THEOREM OneAccountAlways == Spec => []OneAccount
<1>1. SignInInvariant => OneAccount
  BY DEF SignInInvariant
<1> QED BY <1>1, SignInInvariantHolds, PTL

(* Every session belongs to the account that the Google account of its     *)
(* sign-in is linked to, whatever addresses have moved (googleCallback).   *)
THEOREM SessionsMatchAlways == Spec => []SessionsMatch
<1>1. SignInInvariant => SessionsMatch
  BY DEF SignInInvariant
<1> QED BY <1>1, SignInInvariantHolds, PTL

(* No request is served whose session was revoked, user disabled or        *)
(* membership deleted before it came in (RequireSession).                  *)
THEOREM LostIsLostAlways == Spec => []LostIsLost
<1>1. SignInInvariant => LostIsLost
  BY DEF SignInInvariant
<1> QED BY <1>1, SignInInvariantHolds, PTL

(* Only a new account is made an owner (the membership claim of            *)
(* ResolveIdentity): no sign-in gives a membership back.                   *)
THEOREM NoMembershipBackAlways == Spec => NoMembershipBack
<1> DEFINE NoneBack == \A m \in members' \ members :
             m.role = "owner" => \A u \in users : u.id # m.user
<1>1. SignInInvariant /\ [Next]_vars => NoneBack
  <2> SUFFICES ASSUME SignInInvariant, [Next]_vars PROVE NoneBack
    OBVIOUS
  <2>1. ASSUME NEW f \in Flow, CommitNew(f) PROVE NoneBack
    BY <2>1, CommitNewInvariant DEF CommitNew
  <2>2. CASE ChangeMember
    BY <2>2, ChangeMemberInvariant
  <2>3. CASE members' = members
    BY <2>3
  <2> HIDE DEF NoneBack
  <2>4. ASSUME NEW f \in Flow,
               GoogleStart(f) \/ GoogleCallback(f) \/ Statement(f) \/ Abandon(f)
        PROVE  NoneBack
    <3>1. CASE ~CommitNew(f)
      <4>1. members' = members
        BY <2>4, <3>1 DEF GoogleStart, GoogleCallback, Statement, Abandon, Authenticate,
             SelectIdentity, UpdateUser, UpdateAddress, CommitUpdate, CheckCollision, InsertUser,
             InsertIdentity, ClaimMembership, CreateSession, DeadlockVictim, Refuse, Advance, db
      <4> QED BY <2>3, <4>1
    <3> QED BY <2>1, <3>1
  <2>5. CASE \/ Restart \/ DisableUser \/ UNCHANGED vars
             \/ \E b \in Browser : RequireSession(b) \/ LoadSession(b) \/ AuthorizeHousehold(b)
                                     \/ Receive(b) \/ Logout(b)
    <3>1. members' = members
      BY <2>5 DEF Restart, DisableUser, vars, RequireSession, LoadSession, AuthorizeHousehold,
           Receive, Logout, Answer, db
    <3> QED BY <2>3, <3>1
  <2> QED BY <2>2, <2>4, <2>5 DEF Next
<1> QED BY <1>1, SignInInvariantHolds, PTL DEF Spec, NoMembershipBack

=============================================================================
