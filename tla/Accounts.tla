-------------------------------- MODULE Accounts --------------------------------
(***************************************************************************)
(* Users, workspaces, memberships, invitations and sessions.  Signing up,  *)
(* accepting an invitation, signing in and changing a member each read     *)
(* first and write later, in batches whose unique indexes decide what the  *)
(* reads could not see.  Passwords, tokens and cookies are left out: a     *)
(* request either has what it takes or is refused.                         *)
(***************************************************************************)
EXTENDS Integers, FiniteSets

CONSTANTS
  AccountCalls,  \* requests, numbered as they arrive; a user or a session created by one
                 \* has its identity
  Emails,
  Orgs,      \* workspaces, by slug
  Invites,
  Founder,   \* the user who signed up first
  FirstOrg,
  Absent

ASSUME AccountAssumption ==
  /\ AccountCalls \subseteq Nat
  /\ FirstOrg \in Orgs /\ Founder \notin AccountCalls
  /\ Absent \notin Emails \cup Orgs \cup AccountCalls \cup {Founder}

VARIABLES
  email,   \* users.email, Absent where there is no such user
  org,     \* organizations
  member,  \* organization_memberships
  invite,  \* organization_invitations
  session, \* sessions, by the request that created them
  act      \* requests under way

accountVars == <<email, org, member, invite, session, act>>

Users == AccountCalls \cup {Founder}
Roles == {"owner", "admin", "agent"}
NotMember == [role |-> "none", disabled |-> FALSE]
Joined(role) == [role |-> role, disabled |-> FALSE]
NoInvite == [state |-> "none", org |-> Absent, email |-> Absent, role |-> "agent"]
NoSession == [user |-> Absent, org |-> Absent]
NoAct == [pc |-> "idle", user |-> Absent, email |-> Absent, org |-> Absent, invite |-> NoInvite, role |-> "agent"]

AccountInit ==
  /\ \E e \in Emails : email = [u \in Users |-> IF u = Founder THEN e ELSE Absent]
  /\ org = {FirstOrg}
  /\ member = [o \in Orgs |-> [u \in Users |->
                IF o = FirstOrg /\ u = Founder THEN Joined("owner") ELSE NotMember]]
  /\ invite = [i \in Invites |-> NoInvite]
  /\ session = [r \in AccountCalls |-> NoSession]
  /\ act = [r \in AccountCalls |-> NoAct]

Exists(u) == email[u] /= Absent
Taken(e) == \E u \in Users : email[u] = e
Active(o, u) == member[o][u].role /= "none" /\ ~member[o][u].disabled
IsAdmin(o, u) == Active(o, u) /\ member[o][u].role \in {"owner", "admin"}

Ends(r) == act' = [act EXCEPT ![r] = [NoAct EXCEPT !.pc = "done"]]
ActAt(r, pc) == act' = [act EXCEPT ![r].pc = pc]
Incoming(r) == act[r].pc = "idle" /\ \A s \in AccountCalls : s < r => act[s].pc /= "idle"
Begin(r, what) == act' = [act EXCEPT ![r] = what]

\* resolveTenant: whom a live session stands for; some session of that user.
SignedIn(u, o) == Active(o, u) /\ \E r \in AccountCalls : session[r] = [user |-> u, org |-> o]

\* createSession.
OpenSession(r) ==
  /\ act[r].pc = "session"
  /\ session' = [session EXCEPT ![r] = [user |-> act[r].user, org |-> act[r].org]]
  /\ Ends(r)
  /\ UNCHANGED <<email, org, member, invite>>

(***************************************************************************)
(* POST /signup.                                                           *)
(***************************************************************************)
CheckSignup(r, e, o) ==
  /\ ~Taken(e) /\ o \notin org
  /\ Begin(r, [NoAct EXCEPT !.pc = "signup", !.email = e, !.org = o])
  /\ UNCHANGED <<email, org, member, invite, session>>

MSignup(r) ==
  LET a == act[r]
  IN  /\ a.pc = "signup"
      /\ email' = [email EXCEPT ![r] = a.email]
      /\ org' = org \cup {a.org}
      /\ member' = [member EXCEPT ![a.org][r] = Joined("owner")]
      /\ act' = [act EXCEPT ![r] = [a EXCEPT !.pc = "session", !.user = r]]
      /\ UNCHANGED <<invite, session>>

\* User, workspace and membership in one batch, or a UNIQUE failure and none.
Signup(r) ==
  LET a == act[r]
  IN  /\ a.pc = "signup"
      /\ IF Taken(a.email) \/ a.org \in org
         THEN UNCHANGED <<email, org, member>> /\ Ends(r)
         ELSE /\ email' = [email EXCEPT ![r] = a.email]
              /\ org' = org \cup {a.org}
              /\ member' = [member EXCEPT ![a.org][r] = Joined("owner")]
              /\ act' = [act EXCEPT ![r] = [a EXCEPT !.pc = "session", !.user = r]]
      /\ UNCHANGED <<invite, session>>

\* POST /login: the oldest active membership; here any.
Login(r, u, o) ==
  /\ Exists(u) /\ Active(o, u)
  /\ Begin(r, [NoAct EXCEPT !.pc = "session", !.user = u, !.org = o])
  /\ UNCHANGED <<email, org, member, invite, session>>

(***************************************************************************)
(* Invitations.                                                            *)
(***************************************************************************)
\* POST /invitations by an administrator, for someone who is no active member.
CheckInvite(r, by, o, e, role) ==
  /\ SignedIn(by, o) /\ IsAdmin(o, by)
  /\ ~\E u \in Users : email[u] = e /\ Active(o, u)
  /\ Begin(r, [NoAct EXCEPT !.pc = "invite", !.org = o, !.email = e, !.role = role])
  /\ UNCHANGED <<email, org, member, invite, session>>

Invite(r, i) ==
  /\ act[r].pc = "invite" /\ invite[i].state = "none"
  /\ invite' = [invite EXCEPT ![i] = [state |-> "open", org |-> act[r].org,
                                      email |-> act[r].email, role |-> act[r].role]]
  /\ Ends(r)
  /\ UNCHANGED <<email, org, member, session>>

\* POST /accept-invitation, signed in under the invited address or not at all.
ReadInvite(r, i, u) ==
  /\ invite[i].state = "open"
  /\ u /= Absent => /\ \E o \in org : SignedIn(u, o)
                  /\ email[u] = invite[i].email
  /\ u = Absent => ~Taken(invite[i].email)
  /\ Begin(r, [NoAct EXCEPT !.pc = IF u = Absent THEN "acceptNew" ELSE "accept",
                            !.user = u, !.org = invite[i].org, !.invite = invite[i]])
  /\ UNCHANGED <<email, org, member, invite, session>>

Accepted(a) == [i \in Invites |-> IF invite[i] = a.invite THEN [a.invite EXCEPT !.state = "accepted"] ELSE invite[i]]

\* The membership is inserted, or given the invited role and enabled again.
Accept(r) ==
  LET a == act[r]
  IN  /\ a.pc = "accept"
      /\ member' = [member EXCEPT ![a.org][a.user] = Joined(a.invite.role)]
      /\ invite' = Accepted(a)
      /\ ActAt(r, "move")
      /\ UNCHANGED <<email, org, session>>

\* The session follows into the workspace, if it is still there.
MoveSession(r) ==
  LET a == act[r]
  IN  /\ a.pc = "move"
      /\ \/ \E s \in AccountCalls : /\ session[s].user = a.user
                                /\ session' = [session EXCEPT ![s].org = a.org]
         \/ UNCHANGED session
      /\ Ends(r)
      /\ UNCHANGED <<email, org, member, invite>>

\* A new account and its membership, or a UNIQUE failure and none.
AcceptNew(r) ==
  LET a == act[r]
  IN  /\ a.pc = "acceptNew"
      /\ IF Taken(a.invite.email) THEN UNCHANGED <<email, member, invite>> /\ Ends(r)
         ELSE /\ email' = [email EXCEPT ![r] = a.invite.email]
              /\ member' = [member EXCEPT ![a.org][r] = Joined(a.invite.role)]
              /\ invite' = Accepted(a)
              /\ act' = [act EXCEPT ![r] = [a EXCEPT !.pc = "session", !.user = r]]
      /\ UNCHANGED <<org, session>>

\* The Cron deletes invitations that ran out.
ExpireInvite(i) ==
  /\ invite[i].state = "open"
  /\ invite' = [invite EXCEPT ![i].state = "gone"]
  /\ UNCHANGED <<email, org, member, session, act>>

(***************************************************************************)
(* PATCH /members/:userId.                                                 *)
(***************************************************************************)
\* Not oneself, and not the owner.
ReadMember(r, by, o, u) ==
  /\ SignedIn(by, o) /\ IsAdmin(o, by)
  /\ u /= by /\ member[o][u].role \notin {"none", "owner"}
  /\ Begin(r, [NoAct EXCEPT !.pc = "member", !.user = u, !.org = o])
  /\ UNCHANGED <<email, org, member, invite, session>>

PatchMember(r, role, disabled) ==
  LET a == act[r]
  IN  /\ a.pc = "member"
      /\ member' = [member EXCEPT ![a.org][a.user] = [role |-> role, disabled |-> disabled]]
      /\ role \in {"admin", "agent", member[a.org][a.user].role}
      /\ Ends(r)
      /\ UNCHANGED <<email, org, invite, session>>

(***************************************************************************)
(* Sessions.                                                               *)
(***************************************************************************)
\* POST /switch-workspace, to a workspace one is an active member of.
ReadSwitch(r, s, o) ==
  /\ session[s] /= NoSession
  /\ SignedIn(session[s].user, session[s].org)
  /\ Active(o, session[s].user)
  /\ Begin(r, [NoAct EXCEPT !.pc = "move", !.user = session[s].user, !.org = o])
  /\ UNCHANGED <<email, org, member, invite, session>>

\* Logout, DELETE /sessions/:id, expiry; the others on a change of password; all
\* on a reset.
EndSessions(gone) ==
  /\ gone /= {} /\ \E u \in Users : \A s \in gone : session[s].user = u
  /\ session' = [s \in AccountCalls |-> IF s \in gone THEN NoSession ELSE session[s]]
  /\ UNCHANGED <<email, org, member, invite, act>>

ActDies(r) ==
  /\ act[r].pc \notin {"idle", "done"}
  /\ Ends(r)
  /\ UNCHANGED <<email, org, member, invite, session>>

StartAct(r) ==
  /\ Incoming(r)
  /\ \/ \E e \in Emails, o \in Orgs : CheckSignup(r, e, o)
     \/ \E u \in Users, o \in Orgs : Login(r, u, o)
     \/ \E by \in Users, o \in Orgs, e \in Emails, role \in {"admin", "agent"} : CheckInvite(r, by, o, e, role)
     \/ \E i \in Invites, u \in Users \cup {Absent} : ReadInvite(r, i, u)
     \/ \E by, u \in Users, o \in Orgs : ReadMember(r, by, o, u)
     \/ \E s \in AccountCalls, o \in Orgs : ReadSwitch(r, s, o)

ActStep(r) ==
  \/ \E i \in Invites : Invite(r, i)
  \/ \E role \in Roles, disabled \in BOOLEAN : PatchMember(r, role, disabled)
  \/ Signup(r) \/ Accept(r) \/ MoveSession(r) \/ AcceptNew(r) \/ OpenSession(r) \/ ActDies(r)

AccountNext ==
  \/ \E r \in AccountCalls : StartAct(r) \/ ActStep(r)
  \/ \E i \in Invites : ExpireInvite(i)
  \/ \E gone \in SUBSET {s \in AccountCalls : session[s] /= NoSession} : EndSessions(gone)

AccountSpec == AccountInit /\ [][AccountNext]_accountVars

(***************************************************************************)
(* Properties.                                                             *)
(***************************************************************************)
AccountTypeOK ==
  /\ email \in [Users -> Emails \cup {Absent}]
  /\ \A o \in Orgs, u \in Users : member[o][u].role \in Roles \cup {"none"}
  /\ \A o \in Orgs \ org, u \in Users : member[o][u] = NotMember

\* A workspace is never without its owner: no change of a member and no
\* invitation, however stale, demotes or disables the one who signed it up.
OwnerStays == \A o \in org : \E u \in Users : Active(o, u) /\ member[o][u].role = "owner"

\* One account per address, of signing up and accepting an invitation at once.
OneAccountPerEmail == \A u, v \in Users : Exists(u) /\ email[u] = email[v] => u = v

\* Nobody has an account and no workspace: login could never let them in.
UserHasHome == \A u \in Users : Exists(u) => \E o \in org : member[o][u].role /= "none"

\* A session stands in a workspace its user has joined.
SessionAtHome ==
  \A s \in AccountCalls : session[s] /= NoSession => member[session[s].org][session[s].user].role /= "none"

\* Accounts, memberships and sessions hang together, however the read of one
\* request and the write of another interleave.
AccountsWhole == OwnerStays /\ OneAccountPerEmail /\ UserHasHome /\ SessionAtHome
=============================================================================
