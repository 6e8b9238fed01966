------------------------------- MODULE Accounts -------------------------------
(****************************************************************************)
(* Accounts, their sessions, the groups that link them, and the inquiries   *)
(* they own: AuthService, UserManagementService, AccountLinksService and    *)
(* the owner part of the two inquiry services.                              *)
(*                                                                          *)
(* Whatever changes an account or a session first takes the advisory lock   *)
(* "account-links" (lockAccountLinks); user management locks the account's  *)
(* row as well; giving an inquiry to an owner locks only that row.  The     *)
(* inquiry's own lock is taken last and is left out: the step that takes it *)
(* also checks the version and writes.  An account has one identity, with   *)
(* its scope and a role; passwords and tokens are numbers, newer ones       *)
(* larger.  Token expiry, superusers and headquarters accounts are left out.*)
(*                                                                          *)
(* X_Change, just before a definition X, is a mutant of X.  No              *)
(* specification uses it.                                                   *)
(****************************************************************************)
EXTENDS Naturals, FiniteSets

CONSTANTS
  Procs, Users, Sessions, Groups, Inquiries,
  Scopes,         \* shengxu, linxi, website
  Codes,          \* tour codes
  Forms,          \* what user management may save of an account
  MaxRequests,    \* bound: requests begun
  NoOne

ASSUME NoOneAssumption ==
  NoOne \notin Procs \cup Users \cup Groups \cup Scopes \cup Codes
ASSUME FormsAssumption ==
  Forms \subseteq [status : {"enabled", "disabled"}, scope : Scopes, code : Codes,
                   role : {"coordinator", "manager", "resource"}]
ASSUME SessionsAssumption == IsFiniteSet(Sessions)
ASSUME BoundAssumption == MaxRequests \in Nat

VARIABLES
  users, sessions, groups, inquiries,
  issued,       \* every pair of an access and a refresh token handed out
  newest,       \* the newest token's number
  begun,        \* requests begun
  pc, req,      \* what each transaction does next, and the request it serves
  accountLock,  \* owner of the advisory lock
  userLock      \* owner of each account's FOR UPDATE lock

rows == <<users, sessions, groups, inquiries, issued, newest>>
vars == <<rows, begun, pc, req, accountLock, userLock>>

-----------------------------------------------------------------------------
NoUser == [status |-> "none", scope |-> NoOne, role |-> "none", code |-> NoOne,
           link |-> NoOne, password |-> 0]

\* version counts account switches; password is the one the session was opened with
\* and role the one its menus are for.
NoSession == [user |-> NoOne, version |-> 0, token |-> 0, password |-> 0, role |-> "none"]

NoInquiry == [state |-> "none", owner |-> NoOne, scope |-> NoOne, version |-> 0]

\* What a pair of tokens says of its session.
TokenOf(s, row) == [session |-> s, version |-> row.version, user |-> row.user,
                    token |-> row.token, role |-> row.role]

Blank == [op |-> "none", user |-> NoOne, target |-> NoOne, session |-> NoOne,
          version |-> 0, token |-> 0, password |-> 0, status |-> "none",
          scope |-> NoOne, role |-> "none", code |-> NoOne, group |-> NoOne,
          members |-> {}, inquiry |-> NoOne]

OwnerRoles == {"coordinator", "manager"}

Alive(u) == users[u].status \in {"enabled", "disabled"}
Enabled(u) == users[u].status = "enabled"
Open(s) == sessions[s].user # NoOne
Opened == {t.session : t \in issued}
Members(g) == {u \in Users : users[u].link = g}
Unfinished(u) == {i \in Inquiries : inquiries[i].state = "unfinished" /\ inquiries[i].owner = u}

\* availableTourCode: no account outside the group of u has its code.  An account that
\* is in no group is outside every group.
CodeFree_Ungrouped(us, u) ==
  \A v \in Users \ {u} :
    us[v].status \in {"enabled", "disabled"} /\ us[v].code = us[u].code => us[v].link = us[u].link
CodeFree(us, u) ==
  \A v \in Users \ {u} :
    us[v].status \in {"enabled", "disabled"} /\ us[v].code = us[u].code =>
      us[v].link # NoOne /\ us[v].link = us[u].link

\* requireTarget: the accounts are in one group.
Linked(u, v) == users[u].link # NoOne /\ users[u].link = users[v].link

\* A group of linked accounts has two or three live members of distinct scopes, and two
\* live accounts have the same tour code only when they are linked.  Every operation
\* on accounts or groups checks its part of this with the other rows as they are.
GroupsSound ==
  /\ \A g \in Groups :
       /\ groups[g] = 0 => Members(g) = {}
       /\ groups[g] > 0 =>
            /\ Cardinality(Members(g)) \in 2..3
            /\ \A u \in Members(g) : Alive(u)
            /\ Cardinality({users[u].scope : u \in Members(g)}) = Cardinality(Members(g))
  /\ \A u, v \in Users :
       u # v /\ Alive(u) /\ Alive(v) /\ users[u].code = users[v].code => Linked(u, v)

-----------------------------------------------------------------------------
\* The account that form f makes, in group g.
AccountOf(f, g) == [status |-> f.status, scope |-> f.scope, role |-> f.role, code |-> f.code,
                    link |-> g, password |-> 1]

Init ==
  /\ users \in [Users -> {NoUser} \cup
       {AccountOf(f, g) : f \in {h \in Forms : h.status = "enabled" /\ h.role \in OwnerRoles},
                          g \in Groups \cup {NoOne}}]
  /\ groups \in [Groups -> 0..1]
  /\ GroupsSound
  /\ sessions \in [Sessions -> {NoSession} \cup
       {[user |-> u, version |-> 1, token |-> 1, password |-> 1, role |-> users[u].role] :
          u \in {v \in Users : Enabled(v)}}]
  /\ Cardinality({s \in Sessions : Open(s)}) <= 1
  /\ issued = {TokenOf(s, sessions[s]) : s \in {t \in Sessions : Open(t)}}
  /\ newest = Cardinality(issued)
  /\ inquiries \in [Inquiries -> {NoInquiry} \cup
       {[state |-> "unfinished", owner |-> u, scope |-> users[u].scope, version |-> 1] :
          u \in {v \in Users : Enabled(v)}}]
  /\ begun = 0
  /\ pc = [p \in Procs |-> "idle"]
  /\ req = [p \in Procs |-> Blank]
  /\ accountLock = NoOne
  /\ userLock = [u \in Users |-> NoOne]

-----------------------------------------------------------------------------
(* Requests *)

Begin(p, request, first) ==
  /\ pc[p] = "idle" /\ begun < MaxRequests
  /\ begun' = begun + 1
  /\ pc' = [pc EXCEPT ![p] = first]
  /\ req' = [req EXCEPT ![p] = request]
  /\ UNCHANGED <<rows, accountLock, userLock>>

\* login verifies the password before its transaction begins.
BeginLogin(p) ==
  \E u \in Users :
    /\ Enabled(u)
    /\ Begin(p, [Blank EXCEPT !.op = "login", !.user = u,
                              !.password = users[u].password], "accounts")

BeginRefresh(p) ==
  \E t \in issued :
    Begin(p, [Blank EXCEPT !.op = "refresh", !.session = t.session, !.version = t.version,
                           !.user = t.user, !.token = t.token, !.role = t.role], "accounts")

\* getCurrentUser: the guard that every authenticated request passes first.
Authenticated(t) ==
  /\ sessions[t.session].user = t.user /\ sessions[t.session].version = t.version
  /\ Enabled(t.user)

BeginAsUser(p) ==
  \E t \in issued, op \in {"logout", "switch", "changePassword"}, v \in Users :
    /\ Authenticated(t)
    /\ (op = "switch") = (v # t.user)
    /\ Begin(p, [Blank EXCEPT !.op = op, !.session = t.session, !.version = t.version,
                              !.user = t.user, !.target = v,
                              !.password = users[t.user].password], "accounts")

BeginManageUser(p) ==
  \E u \in Users, op \in {"delete", "resetPassword"} :
    /\ Alive(u)
    /\ Begin(p, [Blank EXCEPT !.op = op, !.user = u], "accounts")

BeginSaveUser(p) ==
  \E u \in Users, f \in Forms :
    /\ users[u].status # "deleted"
    /\ users[u].status # "none" \/ \A q \in Procs : req[q].user # u
    /\ Begin(p, [Blank EXCEPT !.op = IF Alive(u) THEN "update" ELSE "create", !.user = u,
                              !.status = f.status, !.scope = f.scope, !.role = f.role,
                              !.code = f.code], "accounts")

\* A group is created with version 0, adjusted or, with no members, removed; code is
\* the code unified in the group, or for the target alone.
BeginSaveLink(p) ==
  \E g \in Groups, m \in SUBSET Users, d \in Codes \cup {NoOne}, v \in Users \cup {NoOne} :
    /\ m = {} => groups[g] > 0
    /\ d = NoOne => v = NoOne
    /\ v \in Users => v \in m \cup Members(g)
    /\ \A u \in m : Alive(u)
    /\ groups[g] = 0 => \A q \in Procs : req[q].group # g
    /\ Begin(p, [Blank EXCEPT !.op = "link", !.group = g, !.version = groups[g],
                              !.members = m, !.code = d, !.target = v], "accounts")

\* create and transfer of an inquiry; target is the new owner.
BeginGive(p) ==
  \E i \in Inquiries, u \in Users :
    /\ inquiries[i].state = "none" => \A q \in Procs : req[q].inquiry # i
    /\ Alive(u)
    /\ Begin(p, [Blank EXCEPT
         !.op = IF inquiries[i].state = "none" THEN "createInquiry" ELSE "transfer",
         !.user = u, !.inquiry = i, !.version = inquiries[i].version], "user")

-----------------------------------------------------------------------------
(* Locks *)

Finish(p) ==
  /\ pc' = [pc EXCEPT ![p] = "idle"]
  /\ req' = [req EXCEPT ![p] = Blank]
  /\ accountLock' = IF accountLock = p THEN NoOne ELSE accountLock
  /\ userLock' = [u \in Users |-> IF userLock[u] = p THEN NoOne ELSE userLock[u]]
  /\ UNCHANGED begun

Rollback(p) == pc[p] # "idle" /\ Finish(p) /\ UNCHANGED rows

Goto(p, next) == pc' = [pc EXCEPT ![p] = next] /\ UNCHANGED <<rows, begun, req>>

LocksUser(r) == r.op \in {"update", "delete", "resetPassword", "createInquiry", "transfer"}

\* lockAccountLinks
TakeAccounts_NoLock(p) ==
  /\ pc[p] = "accounts"
  /\ Goto(p, IF LocksUser(req[p]) THEN "user" ELSE "check")
  /\ UNCHANGED <<accountLock, userLock>>
TakeAccounts(p) ==
  /\ pc[p] = "accounts"
  /\ accountLock = NoOne
  /\ accountLock' = p
  /\ Goto(p, IF LocksUser(req[p]) THEN "user" ELSE "check")
  /\ UNCHANGED userLock

TakeUser_NoLock(p) ==
  /\ pc[p] = "user"
  /\ Goto(p, "check")
  /\ UNCHANGED <<accountLock, userLock>>
TakeUser(p) ==
  /\ pc[p] = "user"
  /\ userLock[req[p].user] = NoOne
  /\ userLock' = [userLock EXCEPT ![req[p].user] = p]
  /\ Goto(p, "check")
  /\ UNCHANGED accountLock

-----------------------------------------------------------------------------
(* Checks *)

\* requireSession; refresh also verifies the token against the stored hash.
SessionSeen(r) ==
  /\ sessions[r.session].user = r.user
  /\ sessions[r.session].version = r.version
  /\ r.op = "refresh" => sessions[r.session].token = r.token

PasswordSeen_Trusted(r) == TRUE
PasswordSeen(r) == users[r.user].password = r.password

\* assertNoUnfinished, for all scopes when the account is disabled or deleted, for
\* those that no longer have an owner's role when it is updated.
KeepsOwner(r) ==
  r.status = "enabled" /\ r.scope = users[r.user].scope /\ r.role \in OwnerRoles
NoUnfinished_RoleKept(r) == r.status = "disabled" => Unfinished(r.user) = {}
NoUnfinished(r) ==
  \/ KeepsOwner(r)
  \/ /\ r.status = "enabled"
     /\ users[r.user].role \notin OwnerRoles
  \/ \A i \in Unfinished(r.user) :
       /\ r.status = "enabled"
       /\ inquiries[i].scope # users[r.user].scope

\* AccountLinksService.save: members leave, members join, codes are assigned.
AfterLink(r) ==
  [u \in Users |->
    [users[u] EXCEPT
       !.link = IF u \in r.members THEN r.group
                ELSE IF users[u].link = r.group THEN NoOne ELSE users[u].link,
       !.code = IF r.code # NoOne /\ u \in (IF r.target = NoOne THEN r.members ELSE {r.target})
                THEN r.code ELSE users[u].code]]

LinkAllowed(r) ==
  LET affected == r.members \cup Members(r.group)
  IN /\ groups[r.group] = r.version
     /\ \A u \in r.members : Alive(u) /\ users[u].link \in {NoOne, r.group}
     /\ r.members # {} =>
          /\ Cardinality(r.members) \in 2..3
          /\ Cardinality({users[u].scope : u \in r.members}) = Cardinality(r.members)
     /\ \A u \in affected : CodeFree(AfterLink(r), u)

Saved(r) ==
  [users EXCEPT ![r.user] =
     [users[r.user] EXCEPT !.status = r.status, !.scope = r.scope, !.role = r.role,
                           !.code = r.code, !.password = IF @ = 0 THEN 1 ELSE @]]

\* owner(): the owner of a new inquiry may be a manager, that of a transferred one
\* must be a coordinator of the inquiry's scope.
MayOwn(r) ==
  /\ Enabled(r.user)
  /\ users[r.user].role \in IF r.op = "transfer" THEN {"coordinator"} ELSE OwnerRoles
  /\ r.op = "transfer" => users[r.user].scope = inquiries[r.inquiry].scope

Allowed(r) ==
  /\ r.op = "login"          => Enabled(r.user) /\ PasswordSeen(r)
  /\ r.op = "refresh"        => SessionSeen(r) /\ Enabled(r.user)
  /\ r.op = "switch"         => /\ SessionSeen(r) /\ Linked(r.user, r.target)
                                /\ Enabled(r.user) /\ Enabled(r.target)
  /\ r.op = "changePassword" => Enabled(r.user) /\ PasswordSeen(r)
  /\ r.op = "create"         => users[r.user] = NoUser /\ CodeFree(Saved(r), r.user)
  /\ r.op = "update"         => /\ Alive(r.user)
                                /\ users[r.user].link # NoOne => r.scope = users[r.user].scope
                                /\ NoUnfinished(r)
                                /\ CodeFree(Saved(r), r.user)
  /\ r.op = "delete"         => /\ Alive(r.user) /\ users[r.user].link = NoOne
                                /\ Unfinished(r.user) = {}
  /\ r.op = "resetPassword"  => Alive(r.user)
  /\ r.op = "link"           => LinkAllowed(r)
  /\ r.op \in {"createInquiry", "transfer"} => MayOwn(r)

Check(p) ==
  /\ pc[p] = "check"
  /\ Allowed(req[p])
  /\ Goto(p, "save")
  /\ UNCHANGED <<accountLock, userLock>>

-----------------------------------------------------------------------------
(* Writes *)

Saves(p, ops) == pc[p] = "save" /\ req[p].op \in ops

\* issueTokens: INSERT ... ON CONFLICT (id) DO UPDATE.
IssueTokens_SameToken(s, row) ==
  /\ newest' = newest
  /\ sessions' = [sessions EXCEPT ![s] = [row EXCEPT !.token = newest]]
  /\ issued' = issued \cup {TokenOf(s, sessions'[s])}
  /\ UNCHANGED <<users, groups, inquiries>>
IssueTokens(s, row) ==
  /\ newest' = newest + 1
  /\ sessions' = [sessions EXCEPT ![s] = [row EXCEPT !.token = newest + 1]]
  /\ issued' = issued \cup {TokenOf(s, sessions'[s])}
  /\ UNCHANGED <<users, groups, inquiries>>

CommitLogin(p) ==
  /\ Saves(p, {"login"})
  /\ \E s \in Sessions :
       /\ s \notin Opened
       /\ LET r == req[p]
          IN IssueTokens(s, [user |-> r.user, version |-> 1, token |-> 0,
                             password |-> r.password, role |-> users[r.user].role])
  /\ Finish(p)

CommitRefresh(p) ==
  /\ Saves(p, {"refresh"})
  /\ LET r == req[p]
     IN IssueTokens(r.session, [user |-> r.user, version |-> r.version, token |-> 0,
                                password |-> sessions[r.session].password, role |-> r.role])
  /\ Finish(p)

CommitSwitch(p) ==
  /\ Saves(p, {"switch"})
  /\ LET r == req[p]
     IN IssueTokens(r.session, [user |-> r.target, version |-> r.version + 1, token |-> 0,
                                password |-> users[r.target].password,
                                role |-> users[r.target].role])
  /\ Finish(p)

SessionsWithout(over) == [s \in Sessions |-> IF s \in over THEN NoSession ELSE sessions[s]]
SessionsOf_Disabled(r) ==
  {s \in Sessions : sessions[s].user = r.user /\ (r.op = "update" => r.status = "disabled")}
SessionsOf(r) == {s \in Sessions : sessions[s].user = r.user}

CommitLogout(p) ==
  LET r == req[p]
  IN /\ Saves(p, {"logout"})
     /\ sessions' = SessionsWithout({s \in SessionsOf(r) :
                                       s = r.session /\ sessions[s].version = r.version})
     /\ UNCHANGED <<users, groups, inquiries, issued, newest>>
     /\ Finish(p)

\* changePassword, resetPassword
CommitPassword(p) ==
  LET r == req[p]
  IN /\ Saves(p, {"changePassword", "resetPassword"})
     /\ users' = [users EXCEPT ![r.user].password = @ + 1]
     /\ sessions' = SessionsWithout(SessionsOf(r))
     /\ UNCHANGED <<groups, inquiries, issued, newest>>
     /\ Finish(p)

CommitSaveUser(p) ==
  /\ Saves(p, {"create", "update"})
  /\ users' = Saved(req[p])
  /\ sessions' = SessionsWithout(SessionsOf(req[p]))
  /\ UNCHANGED <<groups, inquiries, issued, newest>>
  /\ Finish(p)

\* The identity's row goes, and its sessions with it (ON DELETE CASCADE).
CommitDelete(p) ==
  /\ Saves(p, {"delete"})
  /\ users' = [users EXCEPT ![req[p].user].status = "deleted"]
  /\ sessions' = SessionsWithout(SessionsOf(req[p]))
  /\ UNCHANGED <<groups, inquiries, issued, newest>>
  /\ Finish(p)

CommitLink(p) ==
  LET r == req[p]
  IN /\ Saves(p, {"link"})
     /\ users' = AfterLink(r)
     /\ groups' = [groups EXCEPT ![r.group] = IF r.members = {} THEN 0 ELSE r.version + 1]
     /\ UNCHANGED <<sessions, inquiries, issued, newest>>
     /\ Finish(p)

\* A transfer locks the inquiry here, and checks its version.
CommitGive(p) ==
  LET r == req[p]
  IN /\ Saves(p, {"createInquiry", "transfer"})
     /\ inquiries[r.inquiry].version = r.version
     /\ inquiries[r.inquiry].owner # r.user
     /\ inquiries' = [inquiries EXCEPT ![r.inquiry] =
          [state |-> IF r.op = "createInquiry" THEN "unfinished" ELSE @.state,
           owner |-> r.user, scope |-> users[r.user].scope, version |-> r.version + 1]]
     /\ UNCHANGED <<users, sessions, groups, issued, newest>>
     /\ Finish(p)

\* An inquiry is lost, archived or deleted, under its own lock only.
FinishInquiry(i) ==
  /\ inquiries[i].state = "unfinished"
  /\ inquiries' = [inquiries EXCEPT ![i].state = "finished", ![i].version = @ + 1]
  /\ UNCHANGED <<users, sessions, groups, issued, newest, begun, pc, req, accountLock, userLock>>

-----------------------------------------------------------------------------
Request(p) ==
  \/ BeginLogin(p) \/ BeginRefresh(p) \/ BeginAsUser(p) \/ BeginManageUser(p)
  \/ BeginSaveUser(p) \/ BeginSaveLink(p) \/ BeginGive(p)

Work(p) ==
  \/ TakeAccounts(p) \/ TakeUser(p) \/ Check(p)
  \/ CommitLogin(p) \/ CommitRefresh(p) \/ CommitSwitch(p) \/ CommitLogout(p)
  \/ CommitPassword(p) \/ CommitSaveUser(p) \/ CommitDelete(p) \/ CommitLink(p)
  \/ CommitGive(p)

Next ==
  \/ \E p \in Procs : Request(p) \/ Work(p) \/ Rollback(p)
  \/ \E i \in Inquiries : FinishInquiry(i)

Spec == Init /\ [][Next]_vars

-----------------------------------------------------------------------------
(* Properties *)

\* A refresh or a switch that has passed its checks still finds the session as it was
\* checked when it writes: no logout, password change, user update or other refresh
\* comes between, so that a refresh token is used once and the INSERT ... ON CONFLICT
\* of issueTokens never brings back a session that was deleted.
TokenUsedOnce ==
  \A p \in Procs : Saves(p, {"refresh", "switch"}) => SessionSeen(req[p])

OpenSessionsSound ==
  \A s \in Sessions : Open(s) =>
    LET u == sessions[s].user
    IN /\ Enabled(u)
       /\ sessions[s].password = users[u].password
       /\ sessions[s].role = users[u].role

SwitchesSound ==
  \A p \in Procs : Saves(p, {"switch"}) =>
    Linked(req[p].user, req[p].target) /\ Enabled(req[p].user) /\ Enabled(req[p].target)

\* An open session is that of an enabled account, was opened with the account's present
\* password, and its menus are those of the account's present role: whatever takes away
\* one of the three ends the sessions in the same transaction, also those that a login,
\* a refresh or a switch was about to write.  And a switch that has passed requireTarget
\* still finds the two accounts linked and enabled when it opens the session.
SessionsAllowed == OpenSessionsSound /\ SwitchesSound

\* An inquiry that is neither lost nor archived belongs to an enabled account that has
\* an owner's role in the inquiry's scope, although inquiries are created and
\* transferred without the account lock.
OwnersAvailable ==
  \A u \in Users : \A i \in Unfinished(u) :
    Enabled(u) /\ users[u].role \in OwnerRoles /\ users[u].scope = inquiries[i].scope

\* Sessions keep the promise of TokenChains: one current token each, every new one newer
\* than all before, and a closed session stays closed.
Chains == INSTANCE TokenChains WITH
  current <- [s \in Sessions |-> sessions[s].token],
  closed <- {s \in Opened : ~Open(s)}
KeepsChains == Chains!Spec
-----------------------------------------------------------------------------
(* What every reachable state satisfies. *)

Statuses == {"none", "enabled", "disabled", "deleted"}
Roles == {"none", "coordinator", "manager", "resource"}

User == [status : Statuses, scope : Scopes \cup {NoOne}, role : Roles,
         code : Codes \cup {NoOne}, link : Groups \cup {NoOne}, password : Nat]
SessionRow == [user : Users \cup {NoOne}, version : Nat, token : Nat, password : Nat,
               role : Roles]
Token == [session : Sessions, version : Nat, user : Users, token : Nat, role : Roles]
InquiryRow == [state : {"none", "unfinished", "finished"}, owner : Users \cup {NoOne},
               scope : Scopes \cup {NoOne}, version : Nat]

GiveOps == {"createInquiry", "transfer"}
SessionOps == {"refresh", "logout", "switch", "changePassword"}
UserOps == {"login", "create", "update", "delete", "resetPassword"}

RequestRow ==
  [op : {"none", "link"} \cup GiveOps \cup SessionOps \cup UserOps,
   user : Users \cup {NoOne}, target : Users \cup {NoOne}, session : Sessions \cup {NoOne},
   version : Nat, token : Nat, password : Nat, status : Statuses,
   scope : Scopes \cup {NoOne}, role : Roles, code : Codes \cup {NoOne},
   group : Groups \cup {NoOne}, members : SUBSET Users, inquiry : Inquiries \cup {NoOne}]

AccountTypes ==
  /\ users \in [Users -> User]
  /\ sessions \in [Sessions -> SessionRow]
  /\ groups \in [Groups -> Nat]
  /\ inquiries \in [Inquiries -> InquiryRow]
  /\ issued \subseteq Token
  /\ newest \in Nat
  /\ begun \in 0..MaxRequests
  /\ pc \in [Procs -> {"idle", "accounts", "user", "check", "save"}]
  /\ req \in [Procs -> RequestRow]
  /\ accountLock \in Procs \cup {NoOne}
  /\ userLock \in [Users -> Procs \cup {NoOne}]

\* Tokens are told apart by their numbers, and an open session holds the one issued for
\* it as it stands.
TokensSound ==
  /\ \A t \in issued : t.token \in 1..newest
  /\ \A t1, t2 \in issued : t1.token = t2.token => t1 = t2
  /\ \A s \in Sessions :
       IF Open(s) THEN TokenOf(s, sessions[s]) \in issued ELSE sessions[s] = NoSession

\* What a request names exists; a refresh names a token that was issued.
RequestSound(r) ==
  /\ r.op \in UserOps \cup SessionOps \cup GiveOps => r.user \in Users
  /\ r.op \in SessionOps => r.session \in Sessions
  /\ r.op = "switch" => r.target \in Users
  /\ r.op \in GiveOps => r.inquiry \in Inquiries
  /\ r.op = "refresh" =>
       \E t \in issued : /\ r.session = t.session /\ r.version = t.version
                         /\ r.user = t.user /\ r.token = t.token /\ r.role = t.role
  /\ r.op \in {"create", "update"} =>
       /\ r.status \in {"enabled", "disabled"}
       /\ r.scope \in Scopes /\ r.code \in Codes

\* A request that creates a group has it to itself; any other has read it at a version
\* that is still present, or will never be again while the request runs.  An account
\* that is to have a code of its own was to be, or to stay or leave as, a member.
LinkSound(p) ==
  LET r == req[p]
  IN r.op = "link" =>
       /\ r.group \in Groups
       /\ IF r.version = 0
          THEN /\ groups[r.group] = 0
               /\ \A q \in Procs \ {p} : req[q].group # r.group
          ELSE groups[r.group] = 0 \/ groups[r.group] >= r.version
       /\ r.code # NoOne /\ groups[r.group] = r.version =>
            r.target \in r.members \cup Members(r.group) \cup {NoOne}

\* Every request but those that give an inquiry works under the account lock, and those
\* that lock an account's row hold it when they check and write.
LocksHeld(p) ==
  /\ pc[p] = "idle" => req[p] = Blank
  /\ pc[p] \in {"user", "check", "save"} /\ req[p].op \notin GiveOps => accountLock = p
  /\ pc[p] \in {"check", "save"} /\ LocksUser(req[p]) => userLock[req[p].user] = p

\* What was checked still holds at the write.  Of an inquiry's transfer that is what the
\* account's lock protects; the inquiry itself is locked and read again.
StillAllowed(r) ==
  IF r.op \in GiveOps
  THEN Enabled(r.user) /\ users[r.user].role \in OwnerRoles
  ELSE Allowed(r)

ChecksHold(p) == pc[p] = "save" => StillAllowed(req[p])

AccountsInv ==
  /\ AccountTypes /\ TokensSound
  /\ \A p \in Procs : RequestSound(req[p]) /\ LinkSound(p) /\ LocksHeld(p) /\ ChecksHold(p)
  /\ GroupsSound /\ OpenSessionsSound /\ OwnersAvailable

=============================================================================
