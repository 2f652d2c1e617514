------------------------------- MODULE SignIn -------------------------------
(***************************************************************************)
(* Sign-in with a Google account, statement by statement, and what it lets *)
(* a browser do.  A flow is one visit of googleStart and its callback.     *)
(* The tabs of a browser share one cookie for the login transaction and    *)
(* one for the session.  ResolveIdentity is a transaction at READ          *)
(* COMMITTED; a statement waits for another transaction that has inserted  *)
(* or changed the same unique value or locked the same row.  What a        *)
(* transaction has written and not committed follows from its statement.   *)
(***************************************************************************)
EXTENDS Naturals, FiniteSets

CONSTANTS
  Flow,         (* sign-ins, each tried once                               *)
  Browser,
  Subject,      (* Google accounts                                         *)
  Email,
  AllowLists,   (* the configured addresses, by release                    *)
  MaxRestarts,  (* bound: restarts of the server                           *)
  Known,        (* the accounts a behaviour may start with                 *)
  None

ASSUME SignInAssumption ==
  /\ None \notin Flow \cup Subject \cup Browser \cup Email
  /\ Flow \cap Subject = {}       (* they are ids of users, new and old   *)
  /\ \A a \in AllowLists : a \subseteq Email
  /\ MaxRestarts \in Nat
  /\ \A k \in Known :
       /\ DOMAIN k \subseteq Subject
       /\ \A s \in DOMAIN k : k[s] \in Email
       /\ \A s, t \in DOMAIN k : k[s] = k[t] => s = t

VARIABLES
  users, identities, members, sessions,    (* the committed rows           *)
  allowed, restarts,
  jar,              (* each browser's cookies: login transaction, session  *)
  pc, flow,         (* the statement each flow is at, and its values       *)
  call              (* the request each browser waits for                  *)

db == <<users, identities, members, sessions>>
vars == <<users, identities, members, sessions, allowed, restarts,
          jar, pc, flow, call>>

(* Rows from before a behaviour have the Google account as their user's id. *)
NoFlow == [browser |-> None, subject |-> None, email |-> None, user |-> None]
NoCall == [at |-> "idle", session |-> None, lost |-> FALSE]

Init ==
  /\ \E k \in Known :
       /\ users = {[id |-> s, email |-> k[s], enabled |-> TRUE] : s \in DOMAIN k}
       /\ identities = {[subject |-> s, user |-> s] : s \in DOMAIN k}
       /\ members = {[user |-> s, role |-> "owner"] : s \in DOMAIN k}
  /\ sessions = {}
  /\ allowed \in AllowLists /\ restarts = 0
  /\ jar = [b \in Browser |-> [login |-> None, session |-> None]]
  /\ pc = [f \in Flow |-> "idle"]
  /\ flow = [f \in Flow |-> NoFlow]
  /\ call = [b \in Browser |-> NoCall]

-----------------------------------------------------------------------------
(* Transactions of ResolveIdentity.                                        *)

Transaction == {"select", "update", "index", "commitUpdate", "collision",
                "insertUser", "insertIdentity", "claim", "commitNew"}
Ended == {"idle", "signedIn", "refused", "gone"}

(* Fault: by the address.                                                  *)
AccountByEmail(f) == {u.id : u \in {v \in users : v.email = flow[f].email}}

(* The account of a flow's Google account, by (issuer, subject).           *)
Account(f) == {i.user : i \in {j \in identities : j.subject = flow[f].subject}}

Locks(f, u) == pc[f] \in {"update", "index", "commitUpdate"} /\ flow[f].user = u

(* f has written address e, or taken it from a row, and not committed.     *)
Holds(f, e) ==
  \/ pc[f] \in {"commitUpdate", "insertIdentity", "claim", "commitNew"} /\ flow[f].email = e
  \/ /\ pc[f] \in {"index", "commitUpdate"}
     /\ \E u \in users : u.id = flow[f].user /\ u.email = e

Blocks(g, f) ==
  \/ pc[f] = "select" /\ \E u \in Account(f) : Locks(g, u)
  \/ pc[f] = "session" /\ Locks(g, flow[f].user)
  \/ pc[f] \in {"index", "insertUser"} /\ Holds(g, flow[f].email)
  \/ /\ pc[f] = "insertIdentity"
     /\ pc[g] \in {"claim", "commitNew"} /\ flow[g].subject = flow[f].subject

WaitsFor(f) == {g \in Flow \ {f} : Blocks(g, f)}

At(f, label) == pc[f] = label /\ WaitsFor(f) = {}
Goto(f, label) == pc' = [pc EXCEPT ![f] = label]
Advance(f, label) ==
  Goto(f, label) /\ UNCHANGED <<db, allowed, restarts, jar, flow, call>>

(* authFailure: nothing is kept and the transaction cookie is cleared.     *)
Refuse(f) ==
  /\ Goto(f, "refused")
  /\ jar' = [jar EXCEPT ![flow[f].browser].login = None]
  /\ UNCHANGED <<db, allowed, restarts, flow, call>>

Taken(f) == \E u \in users : u.email = flow[f].email /\ u.id # flow[f].user

-----------------------------------------------------------------------------
(* googleStart and googleCallback.                                         *)

GoogleStart(f) ==
  /\ pc[f] = "idle"
  /\ \E b \in Browser, s \in Subject :
       /\ flow' = [flow EXCEPT ![f] = [NoFlow EXCEPT !.browser = b, !.subject = s]]
       /\ jar' = [jar EXCEPT ![b].login = f]
  /\ Goto(f, "callback")
  /\ UNCHANGED <<db, allowed, restarts, call>>

(* The cookie is the one of this state, and less than ten minutes old.     *)
GoogleCallback(f) ==
  /\ At(f, "callback")
  /\ \/ jar[flow[f].browser].login = f /\ Advance(f, "exchange")
     \/ Refuse(f)

(* Provider.Authenticate: Google vouches for the address its account has   *)
(* now, or the exchange fails; and the check of the address.               *)
Authenticate(f) ==
  /\ At(f, "exchange")
  /\ \/ Refuse(f)
     \/ \E email \in allowed :
          /\ flow' = [flow EXCEPT ![f].email = email]
          /\ Goto(f, "select")
          /\ UNCHANGED <<db, allowed, restarts, jar, call>>

SelectIdentity(f) ==
  /\ At(f, "select")
  /\ IF Account(f) = {}
     THEN Advance(f, "collision")
     ELSE /\ \E u \in Account(f) : flow' = [flow EXCEPT ![f].user = u]
          /\ Goto(f, "update")
          /\ UNCHANGED <<db, allowed, restarts, jar, call>>

(* Fault: a disabled user's transaction is left open.                      *)
UpdateWithoutRollback(f) ==
  /\ At(f, "update")
  /\ \E u \in users : u.id = flow[f].user /\ u.enabled
  /\ Advance(f, "index")

(* The UPDATE writes the row of an enabled user; the SELECT after it finds *)
(* a disabled one.                                                         *)
UpdateUser(f) ==
  /\ At(f, "update")
  /\ IF \E u \in users : u.id = flow[f].user /\ u.enabled
     THEN Advance(f, "index")
     ELSE Refuse(f)

(* The UPDATE goes on to the unique index of the addresses.                *)
UpdateAddress(f) ==
  /\ At(f, "index")
  /\ IF Taken(f) THEN Refuse(f) ELSE Advance(f, "commitUpdate")

(* Fault: the membership is claimed at every sign-in.                      *)
CommitUpdateAndClaim(f) ==
  /\ At(f, "commitUpdate")
  /\ users' = {IF u.id = flow[f].user THEN [u EXCEPT !.email = flow[f].email] ELSE u : u \in users}
  /\ members' = IF \E m \in members : m.user = flow[f].user THEN members
                ELSE members \cup {[user |-> flow[f].user, role |-> "owner"]}
  /\ Goto(f, "session")
  /\ UNCHANGED <<identities, sessions, allowed, restarts, jar, flow, call>>

CommitUpdate(f) ==
  /\ At(f, "commitUpdate")
  /\ users' = {IF u.id = flow[f].user THEN [u EXCEPT !.email = flow[f].email] ELSE u : u \in users}
  /\ Goto(f, "session")
  /\ UNCHANGED <<identities, members, sessions, allowed, restarts, jar, flow, call>>

CheckCollision(f) ==
  /\ At(f, "collision")
  /\ IF Taken(f) THEN Refuse(f) ELSE Advance(f, "insertUser")

(* Fault: the user is committed before its identity is written.            *)
InsertUserAlone(f) ==
  /\ At(f, "insertUser")
  /\ IF Taken(f)
     THEN Refuse(f)
     ELSE /\ users' = users \cup {[id |-> f, email |-> flow[f].email, enabled |-> TRUE]}
          /\ flow' = [flow EXCEPT ![f].user = f]
          /\ Goto(f, "insertIdentity")
          /\ UNCHANGED <<identities, members, sessions, allowed, restarts, jar, call>>

InsertUser(f) ==
  /\ At(f, "insertUser")
  /\ IF Taken(f)
     THEN Refuse(f)
     ELSE /\ flow' = [flow EXCEPT ![f].user = f]
          /\ Goto(f, "insertIdentity")
          /\ UNCHANGED <<db, allowed, restarts, jar, call>>

(* Fault: a Google account may be linked twice.                            *)
InsertSecondIdentity(f) == At(f, "insertIdentity") /\ Advance(f, "claim")

InsertIdentity(f) ==
  /\ At(f, "insertIdentity")
  /\ IF Account(f) # {} THEN Refuse(f) ELSE Advance(f, "claim")

ClaimMembership(f) == At(f, "claim") /\ Advance(f, "commitNew")

CommitNew(f) ==
  /\ At(f, "commitNew")
  /\ users' = users \cup {[id |-> f, email |-> flow[f].email, enabled |-> TRUE]}
  /\ identities' = identities \cup {[subject |-> flow[f].subject, user |-> f]}
  /\ members' = members \cup {[user |-> f, role |-> "owner"]}
  /\ Goto(f, "session")
  /\ UNCHANGED <<sessions, allowed, restarts, jar, flow, call>>

(* The foreign key waits for whoever has the user locked; then the answer. *)
CreateSession(f) ==
  /\ At(f, "session")
  /\ sessions' = sessions \cup {[id |-> f, user |-> flow[f].user, open |-> TRUE]}
  /\ jar' = [jar EXCEPT ![flow[f].browser] = [login |-> None, session |-> f]]
  /\ Goto(f, "signedIn")
  /\ UNCHANGED <<users, identities, members, allowed, restarts, flow, call>>

(* The request is cancelled or a statement fails where no answer arrives.  *)
Abandon(f) == pc[f] \notin Ended /\ Advance(f, "gone")

OnCycle(f) ==
  \E S \in SUBSET Flow :
    f \in S /\ \A g \in S : WaitsFor(g) \cap S # {} /\ \E h \in S : g \in WaitsFor(h)

DeadlockVictim(f) == pc[f] \in Transaction /\ OnCycle(f) /\ Refuse(f)

-----------------------------------------------------------------------------
(* Requests with a session.                                                *)

Row(s) == {r \in sessions : r.id = s}
Enabled(u) == \E v \in users : v.id = u /\ v.enabled
IsMember(u) == \E m \in members : m.user = u

(* lost: access was already taken when the request came in.                *)
RequireSession(b) ==
  /\ call[b].at = "idle" /\ jar[b].session # None
  /\ call' = [call EXCEPT ![b] =
       [at |-> "load", session |-> jar[b].session,
        lost |-> ~\E r \in Row(jar[b].session) : r.open /\ Enabled(r.user) /\ IsMember(r.user)]]
  /\ UNCHANGED <<db, allowed, restarts, jar, pc, flow>>

Answer(b, c) ==
  /\ call' = [call EXCEPT ![b] = c]
  /\ UNCHANGED <<db, allowed, restarts, pc, flow>>

(* The first SELECT of Authenticate and the check of the address.          *)
LoadSession(b) ==
  /\ call[b].at = "load"
  /\ IF \E r \in Row(call[b].session) :
          r.open /\ \E u \in users : u.id = r.user /\ u.enabled /\ u.email \in allowed
     THEN Answer(b, [call[b] EXCEPT !.at = "members"]) /\ UNCHANGED jar
     ELSE Answer(b, NoCall) /\ jar' = [jar EXCEPT ![b].session = None]

(* Fault: a member once is a member.                                       *)
AuthorizeEveryUser(b) ==
  /\ call[b].at = "members"
  /\ Answer(b, [call[b] EXCEPT !.at = "served"])
  /\ UNCHANGED jar

(* The memberships, and AuthorizeHousehold: otherwise the answer is 404.   *)
AuthorizeHousehold(b) ==
  /\ call[b].at = "members"
  /\ Answer(b, IF \E r \in Row(call[b].session) : IsMember(r.user)
               THEN [call[b] EXCEPT !.at = "served"] ELSE NoCall)
  /\ UNCHANGED jar

Receive(b) == call[b].at = "served" /\ Answer(b, NoCall) /\ UNCHANGED jar

(* Revoke may fail; the cookie is expired all the same.                    *)
Logout(b) ==
  /\ jar[b].session # None
  /\ \/ sessions' = {IF r.id = jar[b].session THEN [r EXCEPT !.open = FALSE] ELSE r : r \in sessions}
     \/ UNCHANGED sessions
  /\ jar' = [jar EXCEPT ![b].session = None]
  /\ UNCHANGED <<users, identities, members, allowed, restarts, pc, flow, call>>

-----------------------------------------------------------------------------
(* Around the program.                                                     *)

(* The server is replaced by one with another configuration; what it was   *)
(* working on is rolled back.                                              *)
Restart ==
  /\ restarts < MaxRestarts
  /\ restarts' = restarts + 1
  /\ allowed' \in AllowLists
  /\ pc' = [f \in Flow |-> IF pc[f] \in Ended \cup {"callback"} THEN pc[f] ELSE "gone"]
  /\ call' = [b \in Browser |-> NoCall]
  /\ UNCHANGED <<db, jar, flow>>

DisableUser ==
  /\ \E u \in users :
       /\ u.enabled /\ ~\E f \in Flow : Locks(f, u.id)
       /\ users' = (users \ {u}) \cup {[u EXCEPT !.enabled = FALSE]}
  /\ UNCHANGED <<identities, members, sessions, allowed, restarts, jar, pc, flow, call>>

(* prevent_last_household_owner: another owner remains.                    *)
OtherOwner(u) == \E m \in members : m.role = "owner" /\ m.user # u

(* An operator deletes a membership or makes an owner a member.            *)
ChangeMember ==
  /\ \E m \in members :
       /\ m.role = "owner" => OtherOwner(m.user)
       /\ \/ members' = members \ {m}
          \/ members' = (members \ {m}) \cup {[m EXCEPT !.role = "member"]}
  /\ UNCHANGED <<users, identities, sessions, allowed, restarts, jar, pc, flow, call>>

-----------------------------------------------------------------------------
Statement(f) ==
  \/ Authenticate(f) \/ SelectIdentity(f) \/ UpdateUser(f) \/ UpdateAddress(f)
  \/ CommitUpdate(f) \/ CheckCollision(f) \/ InsertUser(f) \/ InsertIdentity(f) \/ ClaimMembership(f)
  \/ CommitNew(f) \/ CreateSession(f) \/ DeadlockVictim(f)

Next ==
  \/ \E f \in Flow : GoogleStart(f) \/ GoogleCallback(f) \/ Statement(f) \/ Abandon(f)
  \/ \E b \in Browser :
       RequireSession(b) \/ LoadSession(b) \/ AuthorizeHousehold(b) \/ Receive(b) \/ Logout(b)
  \/ Restart \/ DisableUser \/ ChangeMember

Spec == Init /\ [][Next]_vars

(* A statement that can run is run; people need not do anything.           *)
FairSpec == Spec /\ \A f \in Flow : WF_vars(Statement(f))

-----------------------------------------------------------------------------
(* Properties.                                                             *)

(* Whoever signs in first, twice or at once: an address and a Google       *)
(* account have one user, and a user that exists has its Google account,   *)
(* so that no address is taken by a user nobody can sign in as.            *)
OneAccount ==
  /\ \A u, v \in users : u.email = v.email => u = v
  /\ \A i, j \in identities : i.subject = j.subject => i = j
  /\ \A u \in users : \E i \in identities : i.user = u.id
  /\ \A i \in identities : \E u \in users : u.id = i.user

(* A session is of the account of the Google account that signed in for    *)
(* it, also when addresses have moved from one account to another.         *)
SessionsMatch ==
  \A r \in sessions : [subject |-> flow[r.id].subject, user |-> r.user] \in identities

(* Access that was taken before a request came in is not given to it: the  *)
(* session was revoked, the user disabled or the membership deleted.       *)
LostIsLost == \A b \in Browser : call[b].at = "served" => ~call[b].lost

(* A sign-in gives a membership with a new account and never again: one    *)
(* that was taken away or demoted stays so.                                *)
NoMembershipBack ==
  [][\A m \in members' \ members :
       m.role = "owner" => \A u \in users : u.id # m.user]_vars

-----------------------------------------------------------------------------
(* What makes the properties inductive.                                    *)

UserId == Subject \cup Flow
Updating == {"update", "index", "commitUpdate"}
Unresolved == {"callback", "exchange", "select", "collision", "insertUser"}
Linking == {"claim", "commitNew"}
Inserting == {"insertIdentity"} \cup Linking

TypeOK ==
  /\ users \subseteq [id : UserId, email : Email, enabled : BOOLEAN]
  /\ identities \subseteq [subject : Subject, user : UserId]
  /\ members \subseteq [user : UserId, role : {"owner", "member"}]
  /\ sessions \subseteq [id : Flow, user : UserId, open : BOOLEAN]
  /\ allowed \in AllowLists /\ restarts \in Nat
  /\ jar \in [Browser -> [login : Flow \cup {None}, session : Flow \cup {None}]]
  /\ pc \in [Flow -> Transaction \cup Ended \cup {"callback", "exchange", "session"}]
  /\ flow \in [Flow -> [browser : Browser \cup {None}, subject : Subject \cup {None},
                       email : Email \cup {None}, user : UserId \cup {None}]]
  /\ call \in [Browser -> [at : {"idle", "load", "members", "served"},
                          session : Flow \cup {None}, lost : BOOLEAN]]

(* A flow that has been started knows its account, one past the exchange   *)
(* its address; only one that has inserted and committed is a user's id.   *)
FlowsFilled ==
  /\ \A f \in Flow :
       /\ pc[f] # "idle" => flow[f].browser \in Browser /\ flow[f].subject \in Subject
       /\ pc[f] \in Transaction => flow[f].email \in Email
       /\ pc[f] \in Inserting => flow[f].user = f
       /\ pc[f] \in Unresolved => flow[f].user = None
  /\ \A u \in users : u.id \in Flow => pc[u.id] \in {"session", "signedIn", "gone"}

(* An address that a transaction has put into the index is no other user's *)
(* and no other transaction's, and an identity likewise.                   *)
AddressesReserved ==
  /\ \A f \in Flow, u \in users :
       /\ pc[f] \in Inserting => u.email # flow[f].email
       /\ pc[f] = "commitUpdate" /\ u.email = flow[f].email => u.id = flow[f].user
  /\ \A f, g \in Flow :
       /\ f # g /\ {pc[f], pc[g]} \subseteq Inserting \cup {"commitUpdate"} =>
            flow[f].email # flow[g].email
       /\ f # g /\ {pc[f], pc[g]} \subseteq Linking => flow[f].subject # flow[g].subject
  /\ \A f \in Flow, i \in identities : pc[f] \in Linking => i.subject # flow[f].subject

(* Rows have one id each; an update and a session are for the user of the  *)
(* flow's Google account; a cookie and a request name a session there is.  *)
RowsLinked ==
  /\ \A u, v \in users : u.id = v.id => u = v
  /\ \A r, q \in sessions : r.id = q.id => r = q
  /\ \A r \in sessions : pc[r.id] = "signedIn"
  /\ \A f \in Flow : pc[f] \in Updating \cup {"session"} =>
       [subject |-> flow[f].subject, user |-> flow[f].user] \in identities
  /\ \A b \in Browser : {jar[b].session, call[b].session} \subseteq {None} \cup {r.id : r \in sessions}

(* A request whose access was lost stays without it, check after check.    *)
RequestsLost ==
  \A b \in Browser : call[b].lost =>
    \A r \in Row(call[b].session) :
      /\ call[b].at = "load" => ~(r.open /\ Enabled(r.user) /\ IsMember(r.user))
      /\ call[b].at = "members" => ~IsMember(r.user)

SignInInvariant ==
  TypeOK /\ FlowsFilled /\ AddressesReserved /\ RowsLinked /\ RequestsLost
    /\ OneAccount /\ SessionsMatch /\ LostIsLost

-----------------------------------------------------------------------------
(* Every callback is answered, also when accounts swap addresses and their *)
(* sign-ins wait for one another.                                          *)
CallbacksEnd == \A f \in Flow : (pc[f] = "exchange") ~> (pc[f] \in Ended)
=============================================================================
