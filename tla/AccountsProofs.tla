---------------------------- MODULE AccountsProofs ----------------------------
(****************************************************************************)
(* AccountsInv is inductive, and the sessions of Accounts implement         *)
(* TokenChains, for any number of transactions, accounts, sessions, groups  *)
(* and inquiries, any account forms and any bound.                          *)
(****************************************************************************)
EXTENDS Accounts, FiniteSetTheorems, TLAPS

-----------------------------------------------------------------------------
(* Types *)

\* The records that rows and requests start as.
LEMMA EmptyRows ==
  /\ NoUser \in User /\ NoSession \in SessionRow /\ NoInquiry \in InquiryRow
  /\ Blank \in RequestRow
BY DEF NoUser, User, NoSession, SessionRow, NoInquiry, InquiryRow, Blank, RequestRow,
       Statuses, Roles

\* The account a form makes.
LEMMA FormTyped ==
  ASSUME NEW f \in Forms, NEW g \in Groups \cup {NoOne}
  PROVE  /\ AccountOf(f, g) \in User
         /\ f.status \in {"enabled", "disabled"} /\ f.scope \in Scopes /\ f.code \in Codes
         /\ f.role \in Roles \ {"none"}
BY FormsAssumption DEF AccountOf, User, Statuses, Roles

\* At most one session is open at first, and its token is the only one.
LEMMA InitOpen ==
  ASSUME Init
  PROVE  \/ (\A s \in Sessions : ~Open(s)) /\ issued = {} /\ newest = 0
         \/ \E s \in Sessions :
              /\ Open(s) /\ \A t \in Sessions : Open(t) => t = s
              /\ issued = {TokenOf(s, sessions[s])} /\ newest = 1
<1> DEFINE S == {s \in Sessions : Open(s)}
<1>1. /\ IsFiniteSet(S) /\ Cardinality(S) \in Nat
  BY SessionsAssumption, FS_Subset, FS_CardinalityType
<1>2. Cardinality(S) <= 1 /\ issued = {TokenOf(s, sessions[s]) : s \in S}
      /\ newest = Cardinality(issued)
  BY DEF Init
<1>3. CASE Cardinality(S) = 0
  <2>1. S = {}
    BY <1>1, <1>3, FS_EmptySet
  <2> QED BY <1>2, <2>1, FS_EmptySet
<1>4. CASE Cardinality(S) = 1
  <2>1. PICK s : S = {s}
    BY <1>1, <1>4, FS_Singleton
  <2>2. issued = {TokenOf(s, sessions[s])}
    BY <1>2, <2>1
  <2> QED BY <1>2, <2>1, <2>2, FS_Singleton
<1>5. \A n \in Nat : n <= 1 => n = 0 \/ n = 1
  OBVIOUS
<1>6. Cardinality(S) = 0 \/ Cardinality(S) = 1
  BY <1>1, <1>2, <1>5
<1> QED BY <1>3, <1>4, <1>6

\* The states the system starts in are typed.
LEMMA InitTypes == Init => AccountTypes
<1> SUFFICES ASSUME Init PROVE AccountTypes
  OBVIOUS
<1>1. users \in [Users -> User]
  BY EmptyRows, FormTyped DEF Init
<1>2. sessions \in [Sessions -> SessionRow]
  <2>1. \A u \in Users : users[u].role \in Roles
    BY <1>1 DEF User
  <2>2. \A u \in Users : [user |-> u, version |-> 1, token |-> 1, password |-> 1,
                          role |-> users[u].role] \in SessionRow
    BY <2>1 DEF SessionRow
  <2> QED BY <2>2, EmptyRows DEF Init
<1>3. inquiries \in [Inquiries -> InquiryRow]
  <2>1. \A u \in Users : users[u].scope \in Scopes \cup {NoOne}
    BY <1>1 DEF User
  <2>2. \A u \in Users : [state |-> "unfinished", owner |-> u, scope |-> users[u].scope,
                          version |-> 1] \in InquiryRow
    BY <2>1 DEF InquiryRow
  <2> QED BY <2>2, EmptyRows DEF Init
<1>4. issued \subseteq Token
  <2>1. \A s \in Sessions : Open(s) => sessions[s].user \in Users
    BY <1>2 DEF Open, SessionRow
  <2> QED BY <1>2, <2>1 DEF Init, TokenOf, Token, SessionRow
<1>5. newest \in Nat
  BY InitOpen
<1> QED BY <1>1, <1>2, <1>3, <1>4, <1>5, EmptyRows, BoundAssumption DEF Init, AccountTypes

\* What is known of a new request.
LinkBegun(r) ==
  IF r.op = "link"
  THEN /\ r.group \in Groups /\ r.version = groups[r.group]
       /\ r.version = 0 => \A q \in Procs : req[q].group # r.group
       /\ r.target \in r.members \cup Members(r.group) \cup {NoOne}
  ELSE r.group = NoOne

Begun(p, r, first) ==
  /\ Begin(p, r, first) /\ r \in RequestRow
  /\ RequestSound(r) /\ LinkBegun(r)
  /\ r.op # "none"
  /\ IF r.op \in GiveOps THEN first = "user" ELSE first = "accounts"

\* A new request is typed, names what exists, and starts where its kind does.
LEMMA RequestBegun ==
  ASSUME AccountTypes, NEW p \in Procs, Request(p)
  PROVE  \E r \in RequestRow, first \in {"accounts", "user"} : Begun(p, r, first)
<1> USE DEF RequestSound, LinkBegun, GiveOps, SessionOps, UserOps
<1>1. CASE BeginLogin(p)
  <2>1. PICK u \in Users : Begin(p, [Blank EXCEPT !.op = "login", !.user = u,
                                       !.password = users[u].password], "accounts")
    BY <1>1 DEF BeginLogin
  <2> DEFINE r == [Blank EXCEPT !.op = "login", !.user = u, !.password = users[u].password]
  <2>2. users[u].password \in Nat
    BY DEF AccountTypes, User
  <2>3. r \in RequestRow
    BY <2>2, EmptyRows DEF Blank, RequestRow, GiveOps, SessionOps, UserOps
  <2>4. r.op = "login" /\ r.user = u /\ r.group = NoOne
    BY DEF Blank
  <2> HIDE DEF r
  <2>5. Begun(p, r, "accounts")
    BY <2>1, <2>3, <2>4 DEF Begun, r
  <2> QED BY <2>3, <2>5
<1>2. CASE BeginRefresh(p)
  <2>1. PICK t \in issued :
          Begin(p, [Blank EXCEPT !.op = "refresh", !.session = t.session,
                                 !.version = t.version, !.user = t.user, !.token = t.token,
                                 !.role = t.role], "accounts")
    BY <1>2 DEF BeginRefresh
  <2> DEFINE r == [Blank EXCEPT !.op = "refresh", !.session = t.session,
                                !.version = t.version, !.user = t.user, !.token = t.token,
                                !.role = t.role]
  <2>2. /\ t.session \in Sessions /\ t.user \in Users /\ t.version \in Nat /\ t.token \in Nat
        /\ t.role \in Roles
    BY DEF AccountTypes, Token
  <2>3. r \in RequestRow
    BY <2>2, EmptyRows DEF Blank, RequestRow, GiveOps, SessionOps, UserOps
  <2>4. /\ r.op = "refresh" /\ r.session = t.session /\ r.version = t.version
        /\ r.user = t.user /\ r.token = t.token /\ r.role = t.role /\ r.group = NoOne
    BY DEF Blank
  <2> HIDE DEF r
  <2>5. Begun(p, r, "accounts")
    BY <2>1, <2>2, <2>3, <2>4 DEF Begun, r
  <2> QED BY <2>3, <2>5
<1>3. CASE BeginAsUser(p)
  <2>1. PICK t \in issued, op \in {"logout", "switch", "changePassword"}, v \in Users :
          Begin(p, [Blank EXCEPT !.op = op, !.session = t.session, !.version = t.version,
                                 !.user = t.user, !.target = v,
                                 !.password = users[t.user].password], "accounts")
    BY <1>3 DEF BeginAsUser
  <2> DEFINE r == [Blank EXCEPT !.op = op, !.session = t.session, !.version = t.version,
                                !.user = t.user, !.target = v,
                                !.password = users[t.user].password]
  <2>2. t.session \in Sessions /\ t.user \in Users /\ t.version \in Nat
    BY DEF AccountTypes, Token
  <2>3. users[t.user].password \in Nat
    BY <2>2 DEF AccountTypes, User
  <2>4. r \in RequestRow
    BY <2>2, <2>3, EmptyRows DEF Blank, RequestRow, GiveOps, SessionOps, UserOps
  <2>5. /\ r.op = op /\ r.session = t.session /\ r.user = t.user /\ r.target = v
        /\ r.group = NoOne
    BY DEF Blank
  <2> HIDE DEF r
  <2>6. Begun(p, r, "accounts")
    BY <2>1, <2>2, <2>4, <2>5 DEF Begun, r
  <2> QED BY <2>4, <2>6
<1>4. CASE BeginManageUser(p)
  <2>1. PICK u \in Users, op \in {"delete", "resetPassword"} :
          Begin(p, [Blank EXCEPT !.op = op, !.user = u], "accounts")
    BY <1>4 DEF BeginManageUser
  <2> DEFINE r == [Blank EXCEPT !.op = op, !.user = u]
  <2>2. r \in RequestRow
    BY EmptyRows DEF Blank, RequestRow, GiveOps, SessionOps, UserOps
  <2>3. r.op = op /\ r.user = u /\ r.group = NoOne
    BY DEF Blank
  <2> HIDE DEF r
  <2>4. Begun(p, r, "accounts")
    BY <2>1, <2>2, <2>3 DEF Begun, r
  <2> QED BY <2>2, <2>4
<1>5. CASE BeginSaveUser(p)
  <2>1. PICK u \in Users, f \in Forms, op \in {"create", "update"} :
          Begin(p, [Blank EXCEPT !.op = op, !.user = u, !.status = f.status,
                                 !.scope = f.scope, !.role = f.role, !.code = f.code],
                "accounts")
    BY <1>5 DEF BeginSaveUser
  <2> DEFINE r == [Blank EXCEPT !.op = op, !.user = u, !.status = f.status,
                                !.scope = f.scope, !.role = f.role, !.code = f.code]
  <2>2. /\ f.status \in {"enabled", "disabled"} /\ f.scope \in Scopes /\ f.code \in Codes
        /\ f.role \in Roles
    BY FormTyped
  <2>3. r \in RequestRow
    BY <2>2, EmptyRows DEF Blank, RequestRow, GiveOps, SessionOps, UserOps, Statuses
  <2>4. /\ r.op = op /\ r.user = u /\ r.status = f.status /\ r.scope = f.scope
        /\ r.code = f.code /\ r.group = NoOne
    BY DEF Blank
  <2> HIDE DEF r
  <2>5. Begun(p, r, "accounts")
    BY <2>1, <2>2, <2>3, <2>4 DEF Begun, r
  <2> QED BY <2>3, <2>5
<1>6. CASE BeginSaveLink(p)
  <2>1. PICK g \in Groups, m \in SUBSET Users, d \in Codes \cup {NoOne},
             v \in Users \cup {NoOne} :
          /\ v \in Users => v \in m \cup Members(g)
          /\ groups[g] = 0 => \A q \in Procs : req[q].group # g
          /\ Begin(p, [Blank EXCEPT !.op = "link", !.group = g, !.version = groups[g],
                                    !.members = m, !.code = d, !.target = v], "accounts")
    BY <1>6 DEF BeginSaveLink
  <2> DEFINE r == [Blank EXCEPT !.op = "link", !.group = g, !.version = groups[g],
                                !.members = m, !.code = d, !.target = v]
  <2>2. groups[g] \in Nat
    BY DEF AccountTypes
  <2>3. r \in RequestRow
    BY <2>2, EmptyRows DEF Blank, RequestRow, GiveOps, SessionOps, UserOps
  <2>4. /\ r.op = "link" /\ r.group = g /\ r.version = groups[g] /\ r.members = m
        /\ r.code = d /\ r.target = v
    BY DEF Blank
  <2> HIDE DEF r
  <2>5. Begun(p, r, "accounts")
    BY <2>1, <2>2, <2>3, <2>4 DEF Begun, r
  <2> QED BY <2>3, <2>5
<1>7. CASE BeginGive(p)
  <2>1. PICK i \in Inquiries, u \in Users, op \in GiveOps :
          Begin(p, [Blank EXCEPT !.op = op, !.user = u, !.inquiry = i,
                                 !.version = inquiries[i].version], "user")
    BY <1>7 DEF BeginGive
  <2> DEFINE r == [Blank EXCEPT !.op = op, !.user = u, !.inquiry = i,
                                !.version = inquiries[i].version]
  <2>2. inquiries[i].version \in Nat
    BY DEF AccountTypes, InquiryRow
  <2>3. r \in RequestRow
    BY <2>2, EmptyRows DEF Blank, RequestRow, GiveOps, SessionOps, UserOps
  <2>4. r.op = op /\ r.user = u /\ r.inquiry = i /\ r.group = NoOne
    BY DEF Blank
  <2> HIDE DEF r
  <2>5. Begun(p, r, "user")
    BY <2>1, <2>3, <2>4 DEF Begun, r
  <2> QED BY <2>3, <2>5
<1> QED BY <1>1, <1>2, <1>3, <1>4, <1>5, <1>6, <1>7 DEF Request
\* The end of a transaction leaves its own part typed.
LEMMA FinishTypes ==
  ASSUME AccountTypes, NEW p \in Procs, Finish(p)
  PROVE  /\ begun' \in 0..MaxRequests
         /\ pc' \in [Procs -> {"idle", "accounts", "user", "check", "save"}]
         /\ req' \in [Procs -> RequestRow]
         /\ accountLock' \in Procs \cup {NoOne}
         /\ userLock' \in [Users -> Procs \cup {NoOne}]
BY EmptyRows DEF AccountTypes, Finish

\* New tokens are typed, and add to those issued.
LEMMA IssueTypes ==
  ASSUME AccountTypes, NEW s \in Sessions, NEW row \in SessionRow, row.user \in Users,
         IssueTokens(s, row)
  PROVE  /\ sessions' \in [Sessions -> SessionRow] /\ issued' \subseteq Token
         /\ newest' = newest + 1 /\ newest \in Nat
         /\ sessions' = [sessions EXCEPT ![s] = [row EXCEPT !.token = newest + 1]]
         /\ [row EXCEPT !.token = newest + 1] \in SessionRow
         /\ sessions'[s] = [row EXCEPT !.token = newest + 1]
         /\ issued' = issued \cup {TokenOf(s, [row EXCEPT !.token = newest + 1])}
         /\ UNCHANGED <<users, groups, inquiries>>
<1>1. newest \in Nat /\ newest + 1 \in Nat
  BY DEF AccountTypes
<1>2. [row EXCEPT !.token = newest + 1] \in SessionRow
  BY <1>1 DEF SessionRow
<1>3. TokenOf(s, [row EXCEPT !.token = newest + 1]) \in Token
  BY <1>1, <1>2 DEF TokenOf, Token, SessionRow
<1>4. sessions'[s] = [row EXCEPT !.token = newest + 1]
  BY DEF IssueTokens, AccountTypes
<1> QED BY <1>1, <1>2, <1>3, <1>4 DEF IssueTokens, AccountTypes

\* What a transaction about to write knows of its request.
LEMMA SaveHas ==
  ASSUME AccountsInv, NEW p \in Procs, pc[p] = "save"
  PROVE  /\ AccountTypes /\ req[p] \in RequestRow /\ RequestSound(req[p]) /\ LinkSound(p)
         /\ StillAllowed(req[p])
         /\ req[p].op \notin GiveOps => accountLock = p
         /\ LocksUser(req[p]) => userLock[req[p].user] = p
BY DEF AccountsInv, AccountTypes, ChecksHold, LocksHeld

\* What a commit that hands out tokens writes: the session of an account that may have
\* one.
LEMMA RowIssued ==
  ASSUME AccountsInv, NEW p \in Procs,
         CommitLogin(p) \/ CommitRefresh(p) \/ CommitSwitch(p)
  PROVE  \E s \in Sessions, row \in SessionRow :
           /\ IssueTokens(s, row) /\ Finish(p)
           /\ row.user \in Users /\ Enabled(row.user)
           /\ row.password = users[row.user].password
           /\ row.role = users[row.user].role
           /\ Open(s) \/ s \notin Opened
<1> DEFINE r == req[p]
<1>0. /\ AccountTypes /\ r \in RequestRow /\ RequestSound(r) /\ StillAllowed(r)
      /\ TokensSound /\ OpenSessionsSound
  BY SaveHas DEF CommitLogin, CommitRefresh, CommitSwitch, Saves, AccountsInv
<1>1. CASE CommitLogin(p)
  <2>1. /\ r.op = "login" /\ r.user \in Users /\ Enabled(r.user)
        /\ users[r.user].password = r.password
    BY <1>0, <1>1 DEF CommitLogin, Saves, RequestSound, StillAllowed, Allowed, PasswordSeen,
                      GiveOps, UserOps
  <2> DEFINE row == [user |-> r.user, version |-> 1, token |-> 0, password |-> r.password,
                     role |-> users[r.user].role]
  <2>2. PICK s \in Sessions : s \notin Opened /\ IssueTokens(s, row)
    BY <1>1 DEF CommitLogin
  <2>3. row \in SessionRow
    BY <1>0, <2>1 DEF AccountTypes, User, RequestRow, SessionRow
  <2> QED BY <1>1, <2>1, <2>2, <2>3 DEF CommitLogin
<1>2. CASE CommitRefresh(p)
  <2>1. /\ r.op = "refresh" /\ r.user \in Users /\ Enabled(r.user) /\ SessionSeen(r)
        /\ r.session \in Sessions
    BY <1>0, <1>2 DEF CommitRefresh, Saves, RequestSound, StillAllowed, Allowed, GiveOps,
                      SessionOps
  <2> PICK s \in Sessions : s = r.session
    BY <2>1
  <2> DEFINE row == [user |-> r.user, version |-> r.version, token |-> 0,
                     password |-> sessions[s].password, role |-> r.role]
  <2>2. IssueTokens(s, row)
    BY <1>2 DEF CommitRefresh
  <2>3. /\ sessions[s].user = r.user /\ sessions[s].version = r.version
        /\ sessions[s].token = r.token /\ Open(s)
    BY <2>1, NoOneAssumption DEF SessionSeen, Open
  <2>4. TokenOf(s, sessions[s]) \in issued
    BY <1>0, <2>3 DEF TokensSound
  <2>5. PICK t \in issued : t.token = r.token /\ t.role = r.role
    BY <1>0, <2>1 DEF RequestSound
  <2>6. t = TokenOf(s, sessions[s])
    BY <1>0, <2>3, <2>4, <2>5 DEF TokensSound, TokenOf
  <2>7. r.role = sessions[s].role
    BY <2>5, <2>6 DEF TokenOf
  <2>8. r.role = users[r.user].role /\ sessions[s].password = users[r.user].password
    BY <1>0, <2>3, <2>7 DEF OpenSessionsSound
  <2>9. row \in SessionRow
    BY <1>0, <2>1 DEF AccountTypes, RequestRow, SessionRow
  <2> QED BY <1>2, <2>1, <2>2, <2>3, <2>8, <2>9 DEF CommitRefresh
<1>3. CASE CommitSwitch(p)
  <2>1. /\ r.op = "switch" /\ r.user \in Users /\ SessionSeen(r) /\ r.session \in Sessions
        /\ r.target \in Users /\ Enabled(r.target)
    BY <1>0, <1>3 DEF CommitSwitch, Saves, RequestSound, StillAllowed, Allowed, GiveOps,
                      SessionOps
  <2> DEFINE row == [user |-> r.target, version |-> r.version + 1, token |-> 0,
                     password |-> users[r.target].password, role |-> users[r.target].role]
  <2>2. IssueTokens(r.session, row)
    BY <1>3 DEF CommitSwitch
  <2>3. Open(r.session)
    BY <2>1, NoOneAssumption DEF SessionSeen, Open
  <2>4. r.version + 1 \in Nat
    BY <1>0 DEF RequestRow
  <2>5. row \in SessionRow
    BY <1>0, <2>1, <2>4 DEF AccountTypes, User, SessionRow
  <2> QED BY <1>3, <2>1, <2>2, <2>3, <2>5 DEF CommitSwitch
<1> QED BY <1>1, <1>2, <1>3

\* Sessions taken away leave the others as they are.
LEMMA WithoutTyped ==
  ASSUME AccountTypes, NEW over \in SUBSET Sessions
  PROVE  SessionsWithout(over) \in [Sessions -> SessionRow]
BY EmptyRows DEF SessionsWithout, AccountTypes

\* Accounts that a transaction writes stay accounts.
LEMMA UsersWritten ==
  ASSUME AccountsInv, NEW p \in Procs,
         CommitPassword(p) \/ CommitSaveUser(p) \/ CommitDelete(p) \/ CommitLink(p)
  PROVE  users' \in [Users -> User]
<1> DEFINE r == req[p]
<1>0. AccountTypes /\ r \in RequestRow /\ RequestSound(r) /\ LinkSound(p)
  BY SaveHas DEF CommitPassword, CommitSaveUser, CommitDelete, CommitLink, Saves
<1>1. CASE CommitPassword(p)
  <2>1. r.user \in Users /\ users' = [users EXCEPT ![r.user].password = @ + 1]
    BY <1>0, <1>1 DEF CommitPassword, Saves, RequestSound, SessionOps, UserOps
  <2>2. users[r.user] \in User /\ users[r.user].password + 1 \in Nat
    BY <1>0, <2>1 DEF AccountTypes, User
  <2>3. [users[r.user] EXCEPT !.password = users[r.user].password + 1] \in User
    BY <2>2, Zenon DEF User
  <2> QED BY <1>0, <2>1, <2>3 DEF AccountTypes
<1>2. CASE CommitSaveUser(p)
  <2>1. /\ r.user \in Users /\ users' = Saved(r) /\ r.status \in Statuses
        /\ r.scope \in Scopes /\ r.code \in Codes /\ r.role \in Roles
    BY <1>0, <1>2 DEF CommitSaveUser, Saves, RequestSound, UserOps, RequestRow
  <2>2. users[r.user] \in User
    BY <1>0, <2>1 DEF AccountTypes
  <2>3. [users[r.user] EXCEPT !.status = r.status, !.scope = r.scope, !.role = r.role,
                              !.code = r.code, !.password = IF @ = 0 THEN 1 ELSE @] \in User
    BY <2>1, <2>2 DEF User
  <2> QED BY <1>0, <2>1, <2>3 DEF AccountTypes, Saved
<1>3. CASE CommitDelete(p)
  <2>1. r.user \in Users /\ users' = [users EXCEPT ![r.user].status = "deleted"]
    BY <1>0, <1>3 DEF CommitDelete, Saves, RequestSound, UserOps
  <2> QED BY SMTT(30), <1>0, <2>1 DEF AccountTypes, User, Statuses
<1>4. CASE CommitLink(p)
  <2>1. /\ users' = AfterLink(r) /\ r.group \in Groups /\ r.code \in Codes \cup {NoOne}
    BY <1>0, <1>4 DEF CommitLink, Saves, LinkSound, RequestRow
  <2>2. ASSUME NEW u \in Users, NEW l \in Groups \cup {NoOne}, NEW c \in Codes \cup {NoOne}
        PROVE  [users[u] EXCEPT !.link = l, !.code = c] \in User
    BY ZenonT(40), <1>0, <2>2 DEF AccountTypes, User
  <2>3. \A u \in Users : users[u].link \in Groups \cup {NoOne}
                         /\ users[u].code \in Codes \cup {NoOne}
    BY <1>0 DEF AccountTypes, User
  <2> QED BY <2>1, <2>2, <2>3 DEF AfterLink
<1> QED BY <1>1, <1>2, <1>3, <1>4

\* Every step keeps the types.
LEMMA TypesStep == AccountsInv /\ [Next]_vars => AccountTypes'
<1> SUFFICES ASSUME AccountsInv, [Next]_vars PROVE AccountTypes'
  OBVIOUS
<1> USE DEF rows
<1>0. AccountTypes
  BY DEF AccountsInv
<1>1. ASSUME NEW p \in Procs, Request(p) PROVE AccountTypes'
  <2>1. PICK r \in RequestRow, first \in {"accounts", "user"} : Begin(p, r, first)
    BY <1>0, <1>1, RequestBegun DEF Begun
  <2>2. begun' \in 0..MaxRequests
    BY <1>0, <2>1, BoundAssumption DEF Begin, AccountTypes
  <2> QED BY <1>0, <2>1, <2>2 DEF Begin, AccountTypes
<1>2. ASSUME NEW p \in Procs, TakeAccounts(p) PROVE AccountTypes'
  BY <1>0, <1>2 DEF TakeAccounts, Goto, AccountTypes
<1>3. ASSUME NEW p \in Procs, TakeUser(p) PROVE AccountTypes'
  BY <1>0, <1>3 DEF TakeUser, Goto, AccountTypes
<1>4. ASSUME NEW p \in Procs, Check(p) PROVE AccountTypes'
  BY <1>0, <1>4 DEF Check, Goto, AccountTypes
<1>5. ASSUME NEW p \in Procs, CommitLogin(p) \/ CommitRefresh(p) \/ CommitSwitch(p)
      PROVE  AccountTypes'
  <2>1. PICK s \in Sessions, row \in SessionRow :
          IssueTokens(s, row) /\ Finish(p) /\ row.user \in Users
    BY <1>5, RowIssued
  <2>2. /\ sessions' \in [Sessions -> SessionRow] /\ issued' \subseteq Token
        /\ newest' = newest + 1 /\ newest \in Nat /\ UNCHANGED <<users, groups, inquiries>>
    BY <1>0, <2>1, IssueTypes
  <2>3. newest' \in Nat
    BY <2>2
  <2> QED BY <1>0, <2>1, <2>2, <2>3, FinishTypes DEF AccountTypes
<1>6. ASSUME NEW p \in Procs,
             CommitPassword(p) \/ CommitSaveUser(p) \/ CommitDelete(p) \/ CommitLink(p)
      PROVE  AccountTypes'
  <2>1. Finish(p) /\ UNCHANGED <<inquiries, issued, newest>>
    BY <1>6 DEF CommitPassword, CommitSaveUser, CommitDelete, CommitLink
  <2>2. sessions' \in [Sessions -> SessionRow]
    BY <1>0, <1>6, WithoutTyped
    DEF CommitPassword, CommitSaveUser, CommitDelete, CommitLink, SessionsOf, AccountTypes
  <2>3. groups' \in [Groups -> Nat]
    <3>1. req[p].version + 1 \in Nat
      BY <1>0 DEF AccountTypes, RequestRow
    <3> QED BY <1>0, <1>6, <3>1
            DEF CommitPassword, CommitSaveUser, CommitDelete, CommitLink, AccountTypes
  <2> QED BY <1>0, <1>6, <2>1, <2>2, <2>3, UsersWritten, FinishTypes DEF AccountTypes
<1>7. ASSUME NEW p \in Procs, CommitLogout(p) PROVE AccountTypes'
  <2>1. Finish(p) /\ UNCHANGED <<users, groups, inquiries, issued, newest>>
        /\ sessions' \in [Sessions -> SessionRow]
    BY <1>0, <1>7, WithoutTyped DEF CommitLogout, SessionsOf
  <2> QED BY <1>0, <2>1, FinishTypes DEF AccountTypes
<1>8. ASSUME NEW p \in Procs, CommitGive(p) PROVE AccountTypes'
  <2> DEFINE r == req[p]
  <2>1. /\ Finish(p) /\ UNCHANGED <<users, sessions, groups, issued, newest>>
        /\ r.op \in GiveOps /\ pc[p] = "save"
        /\ inquiries' = [inquiries EXCEPT ![r.inquiry] =
             [state |-> IF r.op = "createInquiry" THEN "unfinished" ELSE @.state,
              owner |-> r.user, scope |-> users[r.user].scope, version |-> r.version + 1]]
    BY <1>8 DEF CommitGive, Saves, GiveOps
  <2>2. r.inquiry \in Inquiries /\ r.user \in Users /\ r.version + 1 \in Nat
    BY <2>1, SaveHas DEF RequestSound, RequestRow, GiveOps
  <2>3. inquiries' \in [Inquiries -> InquiryRow]
    <3>1. /\ users[r.user].scope \in Scopes \cup {NoOne}
          /\ inquiries[r.inquiry].state \in {"none", "unfinished", "finished"}
      BY <1>0, <2>2 DEF AccountTypes, User, InquiryRow
    <3>2. [state |-> IF r.op = "createInquiry" THEN "unfinished"
                     ELSE inquiries[r.inquiry].state,
           owner |-> r.user, scope |-> users[r.user].scope, version |-> r.version + 1]
            \in InquiryRow
      BY <2>2, <3>1 DEF InquiryRow
    <3> QED BY <1>0, <2>1, <3>2 DEF AccountTypes
  <2> QED BY <1>0, <2>1, <2>3, FinishTypes DEF AccountTypes
<1>9. ASSUME NEW p \in Procs, Rollback(p) PROVE AccountTypes'
  BY <1>0, <1>9, FinishTypes DEF Rollback, AccountTypes
<1>10. ASSUME NEW i \in Inquiries, FinishInquiry(i) PROVE AccountTypes'
  <2>1. inquiries[i].version + 1 \in Nat /\ inquiries[i] \in InquiryRow
    BY <1>0 DEF AccountTypes, InquiryRow
  <2>2. [inquiries[i] EXCEPT !.state = "finished", !.version = inquiries[i].version + 1]
          \in InquiryRow
    BY <2>1, Zenon DEF InquiryRow
  <2>3. inquiries' \in [Inquiries -> InquiryRow]
    BY <1>0, <1>10, <2>2 DEF FinishInquiry, AccountTypes
  <2> QED BY <1>0, <1>10, <2>3 DEF FinishInquiry, AccountTypes
<1>11. CASE UNCHANGED vars
  BY <1>0, <1>11 DEF AccountTypes, vars
<1> QED BY <1>1, <1>2, <1>3, <1>4, <1>5, <1>6, <1>7, <1>8, <1>9, <1>10, <1>11 DEF Next, Work
-----------------------------------------------------------------------------
(* What the writes do *)

\* A commit leaves the locks and requests of the others alone.
LEMMA FinishKeeps ==
  ASSUME AccountTypes, NEW p \in Procs, Finish(p)
  PROVE  /\ pc'[p] = "idle" /\ req'[p] = Blank
         /\ \A q \in Procs \ {p} :
              /\ pc'[q] = pc[q] /\ req'[q] = req[q]
              /\ accountLock = q => accountLock' = q
              /\ \A u \in Users : userLock[u] = q => userLock'[u] = q
BY DEF Finish, AccountTypes

\* A new password, and the sessions opened with the old one are over.
LEMMA PasswordWrites ==
  ASSUME AccountsInv, NEW p \in Procs, CommitPassword(p)
  PROVE  LET r == req[p]
         IN /\ pc[p] = "save" /\ r.user \in Users /\ Finish(p) /\ accountLock = p
            /\ \A u \in Users : /\ users'[u].status = users[u].status
                                /\ users'[u].scope = users[u].scope
                                /\ users'[u].role = users[u].role
                                /\ users'[u].code = users[u].code
                                /\ users'[u].link = users[u].link
            /\ \A u \in Users \ {r.user} : users'[u] = users[u]
            /\ sessions' = SessionsWithout(SessionsOf(r))
            /\ UNCHANGED <<groups, inquiries, issued, newest>>
<1> DEFINE r == req[p]
<1>1. /\ AccountTypes /\ pc[p] = "save" /\ RequestSound(r)
      /\ r.op \in {"changePassword", "resetPassword"}
      /\ r.op \notin GiveOps => accountLock = p
  BY SaveHas DEF CommitPassword, Saves
<1>2. r.user \in Users /\ accountLock = p
  BY <1>1 DEF RequestSound, SessionOps, UserOps, GiveOps
<1>3. users' = [users EXCEPT ![r.user].password = @ + 1]
  BY DEF CommitPassword
<1>4. users[r.user] \in User
  BY <1>1, <1>2 DEF AccountTypes
<1> QED BY <1>1, <1>2, <1>3, <1>4 DEF CommitPassword, AccountTypes, User

\* An account is created or updated as asked, and its sessions are over.
LEMMA SaveUserWrites ==
  ASSUME AccountsInv, NEW p \in Procs, CommitSaveUser(p)
  PROVE  LET r == req[p]
         IN /\ pc[p] = "save" /\ r.user \in Users /\ Finish(p) /\ accountLock = p
            /\ r.op \in {"create", "update"}
            /\ r.op = "update" => userLock[r.user] = p
            /\ r.status \in {"enabled", "disabled"} /\ r.scope \in Scopes /\ Allowed(r)
            /\ \A u \in Users \ {r.user} : users'[u] = users[u]
            /\ /\ users'[r.user].status = r.status /\ users'[r.user].scope = r.scope
               /\ users'[r.user].role = r.role /\ users'[r.user].code = r.code
               /\ users'[r.user].link = users[r.user].link
            /\ users' = Saved(r)
            /\ sessions' = SessionsWithout(SessionsOf(r))
            /\ UNCHANGED <<groups, inquiries, issued, newest>>
<1> DEFINE r == req[p]
<1>1. /\ AccountTypes /\ pc[p] = "save" /\ RequestSound(r) /\ r.op \in {"create", "update"}
      /\ r.op \notin GiveOps => accountLock = p
      /\ LocksUser(r) => userLock[r.user] = p
      /\ StillAllowed(r)
  BY SaveHas DEF CommitSaveUser, Saves
<1>2. /\ r.user \in Users /\ accountLock = p /\ Allowed(r)
      /\ r.op = "update" => userLock[r.user] = p
      /\ r.status \in {"enabled", "disabled"} /\ r.scope \in Scopes
  BY <1>1 DEF RequestSound, UserOps, GiveOps, StillAllowed, LocksUser
<1>3. users' = Saved(r)
  BY DEF CommitSaveUser
<1>4. users[r.user] \in User
  BY <1>1, <1>2 DEF AccountTypes
<1> QED BY <1>1, <1>2, <1>3, <1>4 DEF CommitSaveUser, Saved, AccountTypes, User

\* An account that is deleted keeps its row; its sessions are over.
LEMMA DeleteWrites ==
  ASSUME AccountsInv, NEW p \in Procs, CommitDelete(p)
  PROVE  LET r == req[p]
         IN /\ pc[p] = "save" /\ r.user \in Users /\ Finish(p) /\ accountLock = p
            /\ userLock[r.user] = p
            /\ users[r.user].link = NoOne /\ Unfinished(r.user) = {}
            /\ \A u \in Users \ {r.user} : users'[u] = users[u]
            /\ users'[r.user].status = "deleted" /\ users'[r.user].link = NoOne
            /\ sessions' = SessionsWithout(SessionsOf(r))
            /\ UNCHANGED <<groups, inquiries, issued, newest>>
<1> DEFINE r == req[p]
<1>1. /\ AccountTypes /\ pc[p] = "save" /\ RequestSound(r) /\ r.op = "delete"
      /\ r.op \notin GiveOps => accountLock = p
      /\ LocksUser(r) => userLock[r.user] = p
      /\ StillAllowed(r)
  BY SaveHas DEF CommitDelete, Saves
<1>2. /\ r.user \in Users /\ accountLock = p /\ userLock[r.user] = p
      /\ users[r.user].link = NoOne /\ Unfinished(r.user) = {}
  BY <1>1 DEF RequestSound, UserOps, GiveOps, StillAllowed, LocksUser, Allowed
<1>3. users' = [users EXCEPT ![r.user].status = "deleted"]
  BY DEF CommitDelete
<1>4. users[r.user] \in User
  BY <1>1, <1>2 DEF AccountTypes
<1> QED BY <1>1, <1>2, <1>3, <1>4 DEF CommitDelete, AccountTypes, User

\* Linking changes groups and codes, nothing else of an account.
LEMMA LinkWrites ==
  ASSUME AccountsInv, NEW p \in Procs, CommitLink(p)
  PROVE  LET r == req[p]
         IN /\ pc[p] = "save" /\ Finish(p) /\ accountLock = p
            /\ r.op = "link" /\ r.group \in Groups /\ r.members \subseteq Users
            /\ r.version \in Nat
            /\ LinkAllowed(r)
            /\ \A u \in Users : /\ users'[u].status = users[u].status
                                /\ users'[u].scope = users[u].scope
                                /\ users'[u].role = users[u].role
                                /\ users'[u].password = users[u].password
            /\ \A u \in Users :
                 users'[u].link = IF u \in r.members THEN r.group
                                  ELSE IF users[u].link = r.group THEN NoOne
                                  ELSE users[u].link
            /\ \A u \in Users :
                 users'[u].code =
                   IF r.code # NoOne /\ u \in (IF r.target = NoOne THEN r.members ELSE {r.target})
                   THEN r.code ELSE users[u].code
            /\ users' = AfterLink(r)
            /\ groups' = [groups EXCEPT ![r.group] =
                            IF r.members = {} THEN 0 ELSE r.version + 1]
            /\ UNCHANGED <<sessions, inquiries, issued, newest>>
<1> DEFINE r == req[p]
<1>1. /\ AccountTypes /\ pc[p] = "save" /\ r \in RequestRow /\ LinkSound(p) /\ r.op = "link"
      /\ r.op \notin GiveOps => accountLock = p
      /\ StillAllowed(r)
  BY SaveHas DEF CommitLink, Saves
<1>2. /\ r.group \in Groups /\ r.members \subseteq Users /\ r.version \in Nat
      /\ accountLock = p /\ LinkAllowed(r)
  BY <1>1 DEF LinkSound, RequestRow, GiveOps, StillAllowed, Allowed
<1>3. users' = AfterLink(r)
  BY DEF CommitLink
<1>4. \A u \in Users :
        users'[u] =
          [users[u] EXCEPT
             !.link = IF u \in r.members THEN r.group
                      ELSE IF users[u].link = r.group THEN NoOne ELSE users[u].link,
             !.code = IF r.code # NoOne
                         /\ u \in (IF r.target = NoOne THEN r.members ELSE {r.target})
                      THEN r.code ELSE users[u].code]
  BY <1>3 DEF AfterLink
<1>5. \A u \in Users : users[u] \in User
  BY <1>1 DEF AccountTypes
<1>6. ASSUME NEW u \in Users
      PROVE
        /\ users'[u].status = users[u].status /\ users'[u].scope = users[u].scope
        /\ users'[u].role = users[u].role /\ users'[u].password = users[u].password
        /\ users'[u].link = IF u \in r.members THEN r.group
                            ELSE IF users[u].link = r.group THEN NoOne ELSE users[u].link
        /\ users'[u].code = IF r.code # NoOne
                               /\ u \in (IF r.target = NoOne THEN r.members ELSE {r.target})
                            THEN r.code ELSE users[u].code
  <2>1. users[u] \in User
    BY <1>5
  <2> DEFINE l == IF u \in r.members THEN r.group
                  ELSE IF users[u].link = r.group THEN NoOne ELSE users[u].link
             c == IF r.code # NoOne
                     /\ u \in (IF r.target = NoOne THEN r.members ELSE {r.target})
                  THEN r.code ELSE users[u].code
  <2>2. users'[u] = [users[u] EXCEPT !.link = l, !.code = c]
    BY <1>4
  <2> HIDE DEF l, c
  <2>3. /\ users'[u].status = users[u].status /\ users'[u].scope = users[u].scope
        /\ users'[u].role = users[u].role /\ users'[u].password = users[u].password
        /\ users'[u].link = l /\ users'[u].code = c
    BY <2>1, <2>2 DEF User
  <2> QED BY <2>3 DEF l, c
<1> QED BY <1>1, <1>2, <1>3, <1>6 DEF CommitLink

\* An inquiry is given to the account the transaction holds.
LEMMA GiveWrites ==
  ASSUME AccountsInv, NEW p \in Procs, CommitGive(p)
  PROVE  LET r == req[p]
         IN /\ pc[p] = "save" /\ r.user \in Users /\ r.inquiry \in Inquiries /\ Finish(p)
            /\ userLock[r.user] = p
            /\ Enabled(r.user) /\ users[r.user].role \in OwnerRoles
            /\ \A i \in Inquiries \ {r.inquiry} : inquiries'[i] = inquiries[i]
            /\ inquiries'[r.inquiry].owner = r.user
            /\ inquiries'[r.inquiry].scope = users[r.user].scope
            /\ UNCHANGED <<users, sessions, groups, issued, newest>>
<1> DEFINE r == req[p]
<1>1. /\ AccountTypes /\ pc[p] = "save" /\ RequestSound(r) /\ r.op \in GiveOps
      /\ LocksUser(r) => userLock[r.user] = p
      /\ StillAllowed(r)
  BY SaveHas DEF CommitGive, Saves, GiveOps
<1>2. /\ r.user \in Users /\ r.inquiry \in Inquiries /\ userLock[r.user] = p
      /\ Enabled(r.user) /\ users[r.user].role \in OwnerRoles
  BY <1>1 DEF RequestSound, GiveOps, StillAllowed, LocksUser
<1> QED BY <1>1, <1>2 DEF CommitGive, AccountTypes, InquiryRow

\* A logout ends the session it came from, if it is still as it was.
LEMMA LogoutWrites ==
  ASSUME AccountsInv, NEW p \in Procs, CommitLogout(p)
  PROVE  /\ pc[p] = "save" /\ Finish(p) /\ accountLock = p
         /\ \E over \in SUBSET SessionsOf(req[p]) : sessions' = SessionsWithout(over)
         /\ UNCHANGED <<users, groups, inquiries, issued, newest>>
<1>1. pc[p] = "save" /\ req[p].op = "logout"
  BY DEF CommitLogout, Saves
<1>2. accountLock = p
  BY <1>1, SaveHas DEF GiveOps
<1> QED BY <1>1, <1>2 DEF CommitLogout

\* A transaction that hands out tokens holds the account lock.
LEMMA IssueHolds ==
  ASSUME AccountsInv, NEW p \in Procs,
         CommitLogin(p) \/ CommitRefresh(p) \/ CommitSwitch(p)
  PROVE  pc[p] = "save" /\ accountLock = p
<1>1. pc[p] = "save" /\ req[p].op \in {"login", "refresh", "switch"}
  BY DEF CommitLogin, CommitRefresh, CommitSwitch, Saves
<1> QED BY <1>1, SaveHas DEF GiveOps

-----------------------------------------------------------------------------
(* Tokens and sessions *)

\* A new token is newer than all before it, and its session holds it.
LEMMA TokensIssued ==
  ASSUME AccountTypes, TokensSound, NEW s \in Sessions, NEW row \in SessionRow,
         row.user \in Users, IssueTokens(s, row)
  PROVE  TokensSound'
<1> DEFINE next == [row EXCEPT !.token = newest + 1]
<1>1. /\ newest' = newest + 1 /\ newest \in Nat
      /\ sessions' = [sessions EXCEPT ![s] = next] /\ sessions'[s] = next
      /\ issued' = issued \cup {TokenOf(s, next)}
  BY IssueTypes
<1>2. TokenOf(s, next).token = newest + 1 /\ next.user = row.user
  BY DEF TokenOf, SessionRow
<1>3. \A t \in issued' : t.token \in 1..newest'
  BY <1>1, <1>2 DEF TokensSound
<1>4. \A t \in issued : t.token # newest + 1
  BY <1>1 DEF TokensSound
<1>5. \A t1, t2 \in issued' : t1.token = t2.token => t1 = t2
  BY <1>1, <1>2, <1>4 DEF TokensSound
<1>6. ASSUME NEW x \in Sessions
      PROVE  IF Open(x)' THEN TokenOf(x, sessions'[x]) \in issued' ELSE sessions'[x] = NoSession
  <2>1. CASE x = s
    <3>1. sessions'[x] = next /\ next.user # NoOne
      BY <1>1, <1>2, <2>1, NoOneAssumption
    <3>2. TokenOf(x, next) \in issued'
      BY <1>1, <2>1
    <3> QED BY <3>1, <3>2 DEF Open
  <2>2. CASE x # s
    BY <1>1, <2>2 DEF Open, TokensSound, AccountTypes
  <2> QED BY <2>1, <2>2
<1> QED BY <1>3, <1>5, <1>6 DEF TokensSound

\* Sessions that are over hold no token.
LEMMA TokensWithout ==
  ASSUME TokensSound, NEW over \in SUBSET Sessions, sessions' = SessionsWithout(over),
         UNCHANGED <<issued, newest>>
  PROVE  TokensSound'
<1>1. ASSUME NEW x \in Sessions
      PROVE  IF Open(x)' THEN TokenOf(x, sessions'[x]) \in issued' ELSE sessions'[x] = NoSession
  BY DEF SessionsWithout, Open, NoSession, TokensSound
<1> QED BY <1>1 DEF TokensSound

\* Every step keeps tokens and sessions in step.
LEMMA TokensStep == AccountsInv /\ [Next]_vars => TokensSound' /\ issued \subseteq issued'
<1> SUFFICES ASSUME AccountsInv, [Next]_vars PROVE TokensSound' /\ issued \subseteq issued'
  OBVIOUS
<1> USE DEF rows
<1>0. AccountTypes /\ TokensSound
  BY DEF AccountsInv
<1>1. ASSUME UNCHANGED <<sessions, issued, newest>>
      PROVE  TokensSound' /\ issued \subseteq issued'
  BY <1>0, <1>1 DEF TokensSound, Open
<1>2. ASSUME NEW p \in Procs, CommitLogin(p) \/ CommitRefresh(p) \/ CommitSwitch(p)
      PROVE  TokensSound' /\ issued \subseteq issued'
  <2>1. PICK s \in Sessions, row \in SessionRow : IssueTokens(s, row) /\ row.user \in Users
    BY <1>2, RowIssued
  <2>2. issued \subseteq issued'
    BY <2>1 DEF IssueTokens
  <2> QED BY <1>0, <2>1, <2>2, TokensIssued
<1>3. ASSUME NEW p \in Procs, CommitPassword(p) \/ CommitSaveUser(p) \/ CommitDelete(p)
      PROVE  TokensSound' /\ issued \subseteq issued'
  <2>1. /\ sessions' = SessionsWithout(SessionsOf(req[p])) /\ UNCHANGED <<issued, newest>>
    BY <1>3 DEF CommitPassword, CommitSaveUser, CommitDelete
  <2> QED BY <1>0, <2>1, TokensWithout DEF SessionsOf
<1>4. ASSUME NEW p \in Procs, CommitLogout(p)
      PROVE  TokensSound' /\ issued \subseteq issued'
  <2>1. PICK over \in SUBSET SessionsOf(req[p]) :
          sessions' = SessionsWithout(over) /\ UNCHANGED <<issued, newest>>
    BY <1>4, LogoutWrites
  <2> QED BY <1>0, <2>1, TokensWithout DEF SessionsOf
<1>5. ASSUME NEW p \in Procs, Request(p) PROVE UNCHANGED <<sessions, issued, newest>>
  BY <1>0, <1>5, RequestBegun DEF Begun, Begin
<1>6. ASSUME NEW p \in Procs,
             TakeAccounts(p) \/ TakeUser(p) \/ Check(p) \/ CommitLink(p) \/ CommitGive(p)
             \/ Rollback(p)
      PROVE UNCHANGED <<sessions, issued, newest>>
  BY <1>6 DEF TakeAccounts, TakeUser, Check, CommitLink, CommitGive, Rollback, Goto
<1>7. ASSUME NEW i \in Inquiries, FinishInquiry(i) PROVE UNCHANGED <<sessions, issued, newest>>
  BY <1>7 DEF FinishInquiry
<1>8. CASE UNCHANGED vars
  BY <1>1, <1>8 DEF vars
<1> QED BY <1>1, <1>2, <1>3, <1>4, <1>5, <1>6, <1>7, <1>8 DEF Next, Work
\* Every step but a commit of accounts or sessions leaves both alone.
LEMMA AccountsStay ==
  ASSUME AccountTypes, NEW p \in Procs,
         Request(p) \/ TakeAccounts(p) \/ TakeUser(p) \/ Check(p) \/ Rollback(p)
  PROVE  UNCHANGED rows
<1>1. CASE Request(p)
  BY <1>1, RequestBegun DEF Begun, Begin
<1>2. CASE ~Request(p)
  BY <1>2 DEF TakeAccounts, TakeUser, Check, Rollback, Goto
<1> QED BY <1>1, <1>2

\* Whatever changes what a session was opened for ends the session.
LEMMA SessionsStep == AccountsInv /\ [Next]_vars => OpenSessionsSound'
<1> SUFFICES ASSUME AccountsInv, [Next]_vars PROVE OpenSessionsSound'
  OBVIOUS
<1> USE DEF rows
<1>0. AccountTypes /\ OpenSessionsSound
  BY DEF AccountsInv
<1>a. \A s \in Sessions : Open(s) => sessions[s].user \in Users
  BY <1>0 DEF AccountTypes, SessionRow, Open
<1>1. ASSUME UNCHANGED <<users, sessions>> PROVE OpenSessionsSound'
  BY <1>0, <1>1 DEF OpenSessionsSound, Open, Enabled
<1>2. ASSUME NEW p \in Procs, CommitLogin(p) \/ CommitRefresh(p) \/ CommitSwitch(p)
      PROVE  OpenSessionsSound'
  <2>1. PICK s \in Sessions, row \in SessionRow :
          /\ IssueTokens(s, row) /\ row.user \in Users /\ Enabled(row.user)
          /\ row.password = users[row.user].password /\ row.role = users[row.user].role
    BY <1>2, RowIssued
  <2> DEFINE next == [row EXCEPT !.token = newest + 1]
  <2>2. /\ sessions'[s] = next /\ \A x \in Sessions \ {s} : sessions'[x] = sessions[x]
        /\ users' = users
    BY <1>0, <2>1, IssueTypes DEF AccountTypes
  <2>3. next.user = row.user /\ next.password = row.password /\ next.role = row.role
    BY DEF SessionRow
  <2> HIDE DEF next
  <2> QED BY <1>0, <2>1, <2>2, <2>3 DEF OpenSessionsSound, Open, Enabled
<1>3. ASSUME NEW p \in Procs, CommitPassword(p) \/ CommitSaveUser(p) \/ CommitDelete(p)
      PROVE  OpenSessionsSound'
  <2>1. /\ \A u \in Users \ {req[p].user} : users'[u] = users[u]
        /\ sessions' = SessionsWithout(SessionsOf(req[p]))
    BY <1>3, PasswordWrites, SaveUserWrites, DeleteWrites
  <2> QED BY <1>0, <1>a, <2>1 DEF OpenSessionsSound, SessionsWithout, SessionsOf, Open, Enabled,
                                  NoSession
<1>4. ASSUME NEW p \in Procs, CommitLogout(p) PROVE OpenSessionsSound'
  <2>1. PICK over \in SUBSET SessionsOf(req[p]) :
          sessions' = SessionsWithout(over) /\ users' = users
    BY <1>4, LogoutWrites
  <2> QED BY <1>0, <2>1 DEF OpenSessionsSound, SessionsWithout, Open, Enabled, NoSession
<1>5. ASSUME NEW p \in Procs, CommitLink(p) PROVE OpenSessionsSound'
  <2>1. /\ \A u \in Users : /\ users'[u].status = users[u].status
                            /\ users'[u].role = users[u].role
                            /\ users'[u].password = users[u].password
        /\ sessions' = sessions
    BY <1>5, LinkWrites
  <2> QED BY <1>0, <1>a, <2>1 DEF OpenSessionsSound, Open, Enabled
<1>6. ASSUME NEW p \in Procs,
             Request(p) \/ TakeAccounts(p) \/ TakeUser(p) \/ Check(p) \/ Rollback(p)
      PROVE  OpenSessionsSound'
  BY <1>0, <1>1, <1>6, AccountsStay
<1>7. ASSUME NEW p \in Procs, CommitGive(p) PROVE OpenSessionsSound'
  BY <1>1, <1>7 DEF CommitGive
<1>8. ASSUME NEW i \in Inquiries, FinishInquiry(i) PROVE OpenSessionsSound'
  BY <1>1, <1>8 DEF FinishInquiry
<1>9. CASE UNCHANGED vars
  BY <1>1, <1>9 DEF vars
<1> QED BY <1>2, <1>3, <1>4, <1>5, <1>6, <1>7, <1>8, <1>9 DEF Next, Work

-----------------------------------------------------------------------------
(* Owners and groups *)

\* An account that is saved keeps no unfinished inquiry it may no longer own.
LEMMA SavedOwner ==
  ASSUME AccountsInv, NEW p \in Procs, CommitSaveUser(p), NEW i \in Unfinished(req[p].user)
  PROVE  LET r == req[p]
         IN /\ users'[r.user].status = "enabled" /\ users'[r.user].role \in OwnerRoles
            /\ users'[r.user].scope = inquiries[i].scope
<1> DEFINE r == req[p]
<1>1. /\ r.user \in Users /\ r.op \in {"create", "update"} /\ Allowed(r)
      /\ users'[r.user].status = r.status /\ users'[r.user].role = r.role
      /\ users'[r.user].scope = r.scope
  BY SaveUserWrites
<1>2. /\ Enabled(r.user) /\ users[r.user].role \in OwnerRoles
      /\ users[r.user].scope = inquiries[i].scope
  BY <1>1 DEF AccountsInv, OwnersAvailable
<1>3. r.op = "update"
  <2>1. r.op = "create" => users[r.user] = NoUser
    BY <1>1 DEF Allowed
  <2> QED BY <1>1, <1>2, <2>1 DEF Enabled, NoUser
<1>4. NoUnfinished(r)
  BY <1>1, <1>3 DEF Allowed
<1>5. KeepsOwner(r)
  BY <1>2, <1>4 DEF NoUnfinished
<1> QED BY <1>1, <1>2, <1>5 DEF KeepsOwner

\* Every step leaves unfinished inquiries with owners who may have them.
LEMMA OwnersStep == AccountsInv /\ [Next]_vars => OwnersAvailable'
<1> SUFFICES ASSUME AccountsInv, [Next]_vars PROVE OwnersAvailable'
  OBVIOUS
<1> USE DEF rows
<1>0. AccountTypes /\ OwnersAvailable
  BY DEF AccountsInv
<1>1. ASSUME \A u \in Users : /\ users'[u].status = users[u].status
                              /\ users'[u].scope = users[u].scope
                              /\ users'[u].role = users[u].role,
             inquiries' = inquiries
      PROVE OwnersAvailable'
  BY <1>0, <1>1 DEF OwnersAvailable, Unfinished, Enabled
<1>2. ASSUME NEW p \in Procs, CommitSaveUser(p) PROVE OwnersAvailable'
  <2>1. /\ \A u \in Users \ {req[p].user} : users'[u] = users[u]
        /\ inquiries' = inquiries
    BY <1>2, SaveUserWrites
  <2>2. \A i \in Unfinished(req[p].user) :
          /\ users'[req[p].user].status = "enabled"
          /\ users'[req[p].user].role \in OwnerRoles
          /\ users'[req[p].user].scope = inquiries[i].scope
    BY <1>2, SavedOwner
  <2> QED BY <1>0, <2>1, <2>2 DEF OwnersAvailable, Unfinished, Enabled
<1>3. ASSUME NEW p \in Procs, CommitDelete(p) PROVE OwnersAvailable'
  <2>1. /\ \A u \in Users \ {req[p].user} : users'[u] = users[u]
        /\ inquiries' = inquiries /\ Unfinished(req[p].user) = {}
    BY <1>3, DeleteWrites
  <2> QED BY <1>0, <2>1 DEF OwnersAvailable, Unfinished, Enabled
<1>4. ASSUME NEW p \in Procs, CommitGive(p) PROVE OwnersAvailable'
  <2> DEFINE r == req[p]
  <2>1. /\ r.user \in Users /\ r.inquiry \in Inquiries
        /\ Enabled(r.user) /\ users[r.user].role \in OwnerRoles
        /\ \A i \in Inquiries \ {r.inquiry} : inquiries'[i] = inquiries[i]
        /\ inquiries'[r.inquiry].owner = r.user
        /\ inquiries'[r.inquiry].scope = users[r.user].scope
        /\ users' = users
    BY <1>4, GiveWrites
  <2> QED BY <1>0, <2>1 DEF OwnersAvailable, Unfinished, Enabled
<1>5. ASSUME NEW p \in Procs, CommitPassword(p) \/ CommitLink(p) PROVE OwnersAvailable'
  BY <1>1, <1>5, PasswordWrites, LinkWrites DEF CommitPassword, CommitLink
<1>6. ASSUME NEW p \in Procs,
             CommitLogin(p) \/ CommitRefresh(p) \/ CommitSwitch(p) \/ CommitLogout(p)
      PROVE  OwnersAvailable'
  BY <1>1, <1>6 DEF CommitLogin, CommitRefresh, CommitSwitch, CommitLogout, IssueTokens
<1>7. ASSUME NEW p \in Procs,
             Request(p) \/ TakeAccounts(p) \/ TakeUser(p) \/ Check(p) \/ Rollback(p)
      PROVE  OwnersAvailable'
  BY <1>0, <1>1, <1>7, AccountsStay
<1>8. ASSUME NEW j \in Inquiries, FinishInquiry(j) PROVE OwnersAvailable'
  <2>1. inquiries[j] \in InquiryRow /\ inquiries'[j].state = "finished"
    BY <1>0, <1>8 DEF FinishInquiry, AccountTypes, InquiryRow
  <2>2. /\ \A i \in Inquiries \ {j} : inquiries'[i] = inquiries[i]
        /\ users' = users
    BY <1>0, <1>8 DEF FinishInquiry, AccountTypes
  <2> QED BY <1>0, <2>1, <2>2 DEF OwnersAvailable, Unfinished, Enabled
<1>9. CASE UNCHANGED vars
  BY <1>1, <1>9 DEF vars
<1> QED BY <1>2, <1>3, <1>4, <1>5, <1>6, <1>7, <1>8, <1>9 DEF Next, Work

\* A group keeps its members, and they stay alive in their scopes.
MembersKept ==
  /\ \A u \in Users : users'[u].link = users[u].link
  /\ \A u \in Users : users[u].link # NoOne => /\ users'[u].scope = users[u].scope
                                               /\ Alive(u) => Alive(u)'

\* Groups stay sound while their members are kept and codes stay apart.
LEMMA GroupsKept ==
  ASSUME AccountTypes, GroupsSound, MembersKept, groups' = groups,
         \A u, v \in Users :
           u # v /\ Alive(u)' /\ Alive(v)' /\ users'[u].code = users'[v].code => Linked(u, v)'
  PROVE  GroupsSound'
<1>1. ASSUME NEW g \in Groups
      PROVE  /\ Members(g)' = Members(g)
             /\ \A u \in Members(g) : users[u].link # NoOne
  BY <1>1, NoOneAssumption DEF MembersKept, Members
<1>2. ASSUME NEW g \in Groups
      PROVE  {users'[u].scope : u \in Members(g)'} = {users[u].scope : u \in Members(g)}
  BY <1>1, <1>2 DEF MembersKept, Members
<1>3. ASSUME NEW g \in Groups
      PROVE  /\ groups'[g] = 0 => Members(g)' = {}
             /\ groups'[g] > 0 =>
                  /\ Cardinality(Members(g)') \in 2..3
                  /\ \A u \in Members(g)' : Alive(u)'
                  /\ Cardinality({users'[u].scope : u \in Members(g)'})
                       = Cardinality(Members(g)')
  <2>1. \A u \in Members(g) : Alive(u) => Alive(u)'
    BY <1>1 DEF MembersKept, Members
  <2> QED BY <1>1, <1>2, <2>1 DEF GroupsSound
<1> QED BY <1>3 DEF GroupsSound

\* Linking leaves every group sound, and codes apart.
LEMMA GroupsLinked ==
  ASSUME AccountsInv, NEW p \in Procs, CommitLink(p)
  PROVE  GroupsSound'
<1> PICK r \in RequestRow : r = req[p]
  BY DEF AccountsInv, AccountTypes
<1>0. AccountTypes /\ GroupsSound /\ LinkSound(p)
  BY DEF AccountsInv
<1>1. /\ r.op = "link" /\ r.group \in Groups /\ r.members \subseteq Users /\ r.version \in Nat
      /\ LinkAllowed(r)
      /\ \A u \in Users : /\ users'[u].status = users[u].status
                          /\ users'[u].scope = users[u].scope
      /\ \A u \in Users :
           users'[u].link = IF u \in r.members THEN r.group
                            ELSE IF users[u].link = r.group THEN NoOne ELSE users[u].link
      /\ \A u \in Users :
           users'[u].code =
             IF r.code # NoOne /\ u \in (IF r.target = NoOne THEN r.members ELSE {r.target})
             THEN r.code ELSE users[u].code
      /\ users' = AfterLink(r)
      /\ groups' = [groups EXCEPT ![r.group] = IF r.members = {} THEN 0 ELSE r.version + 1]
  BY LinkWrites
<1>2. \A u \in Users : Alive(u)' <=> Alive(u)
  BY <1>1 DEF Alive
<1>3. \A u \in r.members : Alive(u) /\ users[u].link \in {NoOne, r.group}
  BY <1>1 DEF LinkAllowed
<1>4. Members(r.group)' = r.members
  BY <1>1, NoOneAssumption DEF Members
<1>5. ASSUME NEW g \in Groups, g # r.group
      PROVE  Members(g)' = Members(g)
  BY <1>1, <1>3, <1>5, NoOneAssumption DEF Members
<1>6. ASSUME NEW g \in Groups
      PROVE  /\ groups'[g] = 0 => Members(g)' = {}
             /\ groups'[g] > 0 =>
                  /\ Cardinality(Members(g)') \in 2..3
                  /\ \A u \in Members(g)' : Alive(u)'
                  /\ Cardinality({users'[u].scope : u \in Members(g)'})
                       = Cardinality(Members(g)')
  <2>1. {users'[u].scope : u \in Members(g)'} = {users[u].scope : u \in Members(g)'}
    BY <1>1 DEF Members
  <2>2. CASE g = r.group
    <3>1. groups'[g] = IF r.members = {} THEN 0 ELSE r.version + 1
      BY <1>0, <1>1, <2>2 DEF AccountTypes
    <3>2. r.members # {} => /\ Cardinality(r.members) \in 2..3
                            /\ Cardinality({users[u].scope : u \in r.members})
                                 = Cardinality(r.members)
      BY <1>1 DEF LinkAllowed
    <3>3. groups'[g] = 0 <=> r.members = {}
      BY <1>1, <3>1
    <3>4. \A u \in Members(g)' : Alive(u)'
      BY <1>1, <1>2, <1>3, <1>4, <2>2
    <3>5. CASE r.members = {}
      BY <1>4, <2>2, <3>3, <3>5
    <3>6. CASE r.members # {}
      <4>1. {users'[u].scope : u \in Members(g)'} = {users[u].scope : u \in r.members}
        BY <1>4, <2>1, <2>2
      <4> QED BY <1>4, <2>2, <3>2, <3>3, <3>4, <3>6, <4>1
    <3> QED BY <3>5, <3>6
  <2>3. CASE g # r.group
    <3>1. groups'[g] = groups[g] /\ Members(g)' = Members(g)
      BY <1>0, <1>1, <1>5, <2>3 DEF AccountTypes
    <3>2. \A u \in Members(g) : Alive(u) => Alive(u)'
      BY <1>2 DEF Members
    <3> QED BY <1>0, <2>1, <3>1, <3>2 DEF GroupsSound
  <2> QED BY <2>2, <2>3
<1>7. ASSUME NEW u \in Users, NEW v \in Users,
             u # v, Alive(u)', Alive(v)', users'[u].code = users'[v].code
      PROVE  Linked(u, v)'
  <2> DEFINE affected == r.members \cup Members(r.group)
  <2>1. \A x \in affected : CodeFree(AfterLink(r), x)
    BY <1>1 DEF LinkAllowed
  <2>2. ASSUME NEW x \in affected, NEW y \in Users, x # y, Alive(y)',
               users'[x].code = users'[y].code
        PROVE  Linked(x, y)' /\ Linked(y, x)'
    BY <1>1, <2>1, <2>2 DEF CodeFree, Alive, Linked
  <2>3. CASE u \in affected
    BY <1>7, <2>2, <2>3
  <2>4. CASE v \in affected
    BY <1>7, <2>2, <2>4
  <2>5. CASE u \notin affected /\ v \notin affected
    <3>1. groups[r.group] = r.version
      BY <1>1 DEF LinkAllowed
    <3>2. r.code # NoOne => r.target \in affected \cup {NoOne}
      BY <1>0, <1>1, <3>1 DEF LinkSound
    <3>3. ASSUME NEW x \in Users, x \notin affected
          PROVE  users'[x].code = users[x].code /\ users'[x].link = users[x].link
      <4>1. x \notin r.members /\ users[x].link # r.group
        BY <3>3 DEF Members
      <4>2. r.code # NoOne => x \notin (IF r.target = NoOne THEN r.members ELSE {r.target})
        BY <3>2, <3>3
      <4> QED BY <1>1, <4>1, <4>2
    <3>4. Linked(u, v)
      BY <1>0, <1>2, <1>7, <2>5, <3>3 DEF GroupsSound
    <3> QED BY <2>5, <3>3, <3>4 DEF Linked
  <2> QED BY <2>3, <2>4, <2>5
<1> QED BY <1>6, <1>7 DEF GroupsSound

\* Every step keeps groups sound.
LEMMA GroupsStep == AccountsInv /\ [Next]_vars => GroupsSound'
<1> SUFFICES ASSUME AccountsInv, [Next]_vars PROVE GroupsSound'
  OBVIOUS
<1> USE DEF rows
<1>0. AccountTypes /\ GroupsSound
  BY DEF AccountsInv
<1>1. ASSUME \A u \in Users : /\ users'[u].status = users[u].status
                              /\ users'[u].scope = users[u].scope
                              /\ users'[u].code = users[u].code
                              /\ users'[u].link = users[u].link,
             groups' = groups
      PROVE GroupsSound'
  <2>1. MembersKept
    BY <1>1 DEF MembersKept, Alive
  <2>2. ASSUME NEW u \in Users, NEW v \in Users,
               u # v, Alive(u)', Alive(v)', users'[u].code = users'[v].code
        PROVE  Linked(u, v)'
    BY <1>0, <1>1, <2>2 DEF GroupsSound, Linked, Alive
  <2> QED BY <1>0, <1>1, <2>1, <2>2, GroupsKept
<1>2. ASSUME NEW p \in Procs, CommitSaveUser(p) PROVE GroupsSound'
  <2> PICK r \in RequestRow : r = req[p]
    BY <1>0 DEF AccountTypes
  <2>1. /\ r.user \in Users /\ r.op \in {"create", "update"}
        /\ r.status \in {"enabled", "disabled"} /\ Allowed(r)
        /\ \A u \in Users \ {r.user} : users'[u] = users[u]
        /\ users'[r.user].status = r.status /\ users'[r.user].scope = r.scope
        /\ users'[r.user].link = users[r.user].link
        /\ users' = Saved(r)
        /\ groups' = groups
    BY <1>2, SaveUserWrites
  <2>2. /\ CodeFree(Saved(r), r.user)
        /\ users[r.user].link # NoOne => r.scope = users[r.user].scope
    BY <2>1 DEF Allowed, NoUser
  <2>3. MembersKept
    BY <2>1, <2>2 DEF MembersKept, Alive
  <2>4. ASSUME NEW u \in Users, NEW v \in Users,
               u # v, Alive(u)', Alive(v)', users'[u].code = users'[v].code
        PROVE  Linked(u, v)'
    <3>1. CASE u = r.user \/ v = r.user
      BY <2>1, <2>2, <2>4, <3>1 DEF CodeFree, Linked, Alive
    <3>2. CASE u # r.user /\ v # r.user
      BY <1>0, <2>1, <2>4, <3>2 DEF GroupsSound, Linked, Alive
    <3> QED BY <3>1, <3>2
  <2> QED BY <1>0, <2>1, <2>3, <2>4, GroupsKept
<1>3. ASSUME NEW p \in Procs, CommitDelete(p) PROVE GroupsSound'
  <2> PICK r \in RequestRow : r = req[p]
    BY <1>0 DEF AccountTypes
  <2>1. /\ r.user \in Users /\ users[r.user].link = NoOne
        /\ \A u \in Users \ {r.user} : users'[u] = users[u]
        /\ users'[r.user].status = "deleted" /\ users'[r.user].link = NoOne
        /\ groups' = groups
    BY <1>3, DeleteWrites
  <2>2. MembersKept
    BY <2>1 DEF MembersKept, Alive
  <2>3. ~Alive(r.user)'
    BY <2>1 DEF Alive
  <2>4. ASSUME NEW u \in Users, NEW v \in Users,
               u # v, Alive(u)', Alive(v)', users'[u].code = users'[v].code
        PROVE  Linked(u, v)'
    BY <1>0, <2>1, <2>3, <2>4 DEF GroupsSound, Linked, Alive
  <2> QED BY <1>0, <2>1, <2>2, <2>4, GroupsKept
<1>4. ASSUME NEW p \in Procs, CommitPassword(p) PROVE GroupsSound'
  BY <1>1, <1>4, PasswordWrites
<1>5. ASSUME NEW p \in Procs,
             CommitLogin(p) \/ CommitRefresh(p) \/ CommitSwitch(p) \/ CommitLogout(p)
             \/ CommitGive(p)
      PROVE  GroupsSound'
  BY <1>1, <1>5 DEF CommitLogin, CommitRefresh, CommitSwitch, CommitLogout, CommitGive,
                    IssueTokens
<1>6. ASSUME NEW p \in Procs,
             Request(p) \/ TakeAccounts(p) \/ TakeUser(p) \/ Check(p) \/ Rollback(p)
      PROVE  GroupsSound'
  BY <1>0, <1>1, <1>6, AccountsStay
<1>7. ASSUME NEW i \in Inquiries, FinishInquiry(i) PROVE GroupsSound'
  BY <1>1, <1>7 DEF FinishInquiry
<1>8. CASE UNCHANGED vars
  BY <1>1, <1>8 DEF vars
<1> QED BY <1>2, <1>3, <1>4, <1>5, <1>6, <1>7, <1>8, GroupsLinked DEF Next, Work
-----------------------------------------------------------------------------
(* Locks, requests and checks *)

\* Every step leaves the locks with the transactions that need them.
LEMMA LocksStep == AccountsInv /\ [Next]_vars => \A q \in Procs : LocksHeld(q)'
<1> SUFFICES ASSUME AccountsInv, [Next]_vars, NEW q \in Procs PROVE LocksHeld(q)'
  OBVIOUS
<1> USE DEF LocksHeld, LocksUser, GiveOps
<1>0. /\ AccountTypes /\ LocksHeld(q) /\ RequestSound(req[q])
      /\ NoOne \notin Procs
  BY NoOneAssumption DEF AccountsInv
<1>1. ASSUME NEW p \in Procs, Request(p) PROVE LocksHeld(q)'
  <2>1. PICK r \in RequestRow, first \in {"accounts", "user"} : Begun(p, r, first)
    BY <1>0, <1>1, RequestBegun
  <2>2. CASE q = p
    <3>1. req'[q] = r /\ pc'[q] = first
      BY <1>0, <2>1, <2>2 DEF Begun, Begin, AccountTypes
    <3>2. first = "user" => r.op \in GiveOps
      BY <2>1 DEF Begun
    <3> QED BY <3>1, <3>2
  <2>3. CASE q # p
    BY <1>0, <2>1, <2>3 DEF Begun, Begin, AccountTypes
  <2> QED BY <2>2, <2>3
<1>2. ASSUME NEW p \in Procs, TakeAccounts(p) PROVE LocksHeld(q)'
  BY <1>0, <1>2 DEF TakeAccounts, Goto, AccountTypes
<1>3. ASSUME NEW p \in Procs, TakeUser(p) PROVE LocksHeld(q)'
  <2>1. /\ UNCHANGED <<req, accountLock>> /\ pc[p] = "user"
        /\ userLock[req[p].user] = NoOne
        /\ userLock' = [userLock EXCEPT ![req[p].user] = p]
        /\ pc' = [pc EXCEPT ![p] = "check"]
    BY <1>3 DEF TakeUser, Goto
  <2>2. LocksUser(req[q]) => req[q].user \in Users
    BY <1>0 DEF RequestSound, UserOps
  <2> QED BY <1>0, <2>1, <2>2 DEF AccountTypes
<1>4. ASSUME NEW p \in Procs, Check(p) PROVE LocksHeld(q)'
  BY <1>0, <1>4 DEF Check, Goto, AccountTypes
<1>5. ASSUME NEW p \in Procs, Finish(p) PROVE LocksHeld(q)'
  <2>1. CASE q = p
    <3>1. req'[q] = Blank /\ pc'[q] = "idle"
      BY <1>0, <1>5, <2>1, FinishKeeps
    <3> QED BY <3>1
  <2>2. CASE q # p
    <3>1. LocksUser(req[q]) => req[q].user \in Users
      BY <1>0 DEF RequestSound, UserOps
    <3>2. /\ pc'[q] = pc[q] /\ req'[q] = req[q]
          /\ accountLock = q => accountLock' = q
          /\ \A u \in Users : userLock[u] = q => userLock'[u] = q
      BY <1>0, <1>5, <2>2, FinishKeeps
    <3> QED BY <1>0, <3>1, <3>2
  <2> QED BY <2>1, <2>2
<1>6. ASSUME NEW i \in Inquiries, FinishInquiry(i) PROVE LocksHeld(q)'
  BY <1>0, <1>6 DEF FinishInquiry
<1>7. CASE UNCHANGED vars
  BY <1>0, <1>7 DEF vars
<1>8. ASSUME NEW p \in Procs,
             \/ CommitLogin(p) \/ CommitRefresh(p) \/ CommitSwitch(p) \/ CommitLogout(p)
             \/ CommitPassword(p) \/ CommitSaveUser(p) \/ CommitDelete(p) \/ CommitLink(p)
             \/ CommitGive(p) \/ Rollback(p)
      PROVE  Finish(p)
  BY <1>8 DEF CommitLogin, CommitRefresh, CommitSwitch, CommitLogout, CommitPassword,
              CommitSaveUser, CommitDelete, CommitLink, CommitGive, Rollback
<1> QED BY <1>1, <1>2, <1>3, <1>4, <1>5, <1>6, <1>7, <1>8 DEF Next, Work

\* What a request names stays there: tokens are never taken back.
LEMMA RequestsStep == AccountsInv /\ [Next]_vars => \A q \in Procs : RequestSound(req[q])'
<1> SUFFICES ASSUME AccountsInv, [Next]_vars, NEW q \in Procs PROVE RequestSound(req[q])'
  OBVIOUS
<1>0. AccountTypes /\ RequestSound(req[q]) /\ issued \subseteq issued'
  BY TokensStep DEF AccountsInv
<1>1. CASE req'[q] = req[q]
  <2> PICK r \in RequestRow : r = req[q]
    BY <1>0 DEF AccountTypes
  <2>1. RequestSound(r)
    BY <1>0
  <2>2. RequestSound(r)'
    BY <1>0, <2>1 DEF RequestSound
  <2> QED BY <1>1, <2>2
<1>2. CASE req'[q] = Blank
  BY <1>2 DEF RequestSound, Blank, UserOps, SessionOps, GiveOps
<1>3. ASSUME NEW p \in Procs, Request(p)
      PROVE  req'[q] = req[q] \/ RequestSound(req[q])'
  <2>1. PICK r \in RequestRow, first \in {"accounts", "user"} : Begun(p, r, first)
    BY <1>0, <1>3, RequestBegun
  <2>2. RequestSound(r)'
    BY <1>0, <2>1 DEF Begun, RequestSound
  <2>3. req'[q] = IF q = p THEN r ELSE req[q]
    BY <1>0, <2>1 DEF Begun, Begin, AccountTypes
  <2> QED BY <2>2, <2>3
<1>4. ASSUME NEW p \in Procs,
             \/ CommitLogin(p) \/ CommitRefresh(p) \/ CommitSwitch(p) \/ CommitLogout(p)
             \/ CommitPassword(p) \/ CommitSaveUser(p) \/ CommitDelete(p) \/ CommitLink(p)
             \/ CommitGive(p) \/ Rollback(p)
      PROVE  req'[q] = req[q] \/ req'[q] = Blank
  <2>1. Finish(p)
    BY <1>4 DEF CommitLogin, CommitRefresh, CommitSwitch, CommitLogout, CommitPassword,
                CommitSaveUser, CommitDelete, CommitLink, CommitGive, Rollback
  <2> QED BY <1>0, <2>1, FinishKeeps
<1>5. ASSUME NEW p \in Procs, TakeAccounts(p) \/ TakeUser(p) \/ Check(p)
      PROVE  req'[q] = req[q]
  BY <1>5 DEF TakeAccounts, TakeUser, Check, Goto
<1>6. ASSUME NEW i \in Inquiries, FinishInquiry(i) PROVE req'[q] = req[q]
  BY <1>6 DEF FinishInquiry
<1>7. CASE UNCHANGED vars
  BY <1>1, <1>7 DEF vars
<1> QED BY <1>1, <1>2, <1>3, <1>4, <1>5, <1>6, <1>7 DEF Next, Work

\* A request for a group keeps its footing while the group is as it was, or has moved
\* past the version it read, or the request is the only one for the group.
LEMMA LinkKept ==
  ASSUME AccountTypes, AccountTypes', NEW q \in Procs,
         NEW r \in RequestRow, r = req[q], req'[q] = r, LinkSound(q),
         \A x \in Procs : req'[x].group = req[x].group \/ req'[x].group # r.group,
         r.op = "link" =>
           \/ groups'[r.group] = groups[r.group] /\ Members(r.group)' = Members(r.group)
           \/ /\ r.version # 0
              /\ groups'[r.group] = 0 \/ groups'[r.group] > r.version
  PROVE  LinkSound(q)'
<1> SUFFICES ASSUME r.op = "link" PROVE LinkSound(q)'
  BY DEF LinkSound
<1>1. /\ r.group \in Groups /\ r.version \in Nat
      /\ IF r.version = 0
         THEN /\ groups[r.group] = 0
              /\ \A x \in Procs \ {q} : req[x].group # r.group
         ELSE groups[r.group] = 0 \/ groups[r.group] >= r.version
      /\ r.code # NoOne /\ groups[r.group] = r.version =>
           r.target \in r.members \cup Members(r.group) \cup {NoOne}
  BY DEF LinkSound, RequestRow
<1>2. CASE groups'[r.group] = groups[r.group] /\ Members(r.group)' = Members(r.group)
  BY <1>1, <1>2 DEF LinkSound
<1>3. CASE r.version # 0 /\ (groups'[r.group] = 0 \/ groups'[r.group] > r.version)
  <2>1. groups'[r.group] \in Nat
    BY <1>1 DEF AccountTypes
  <2>2. /\ groups'[r.group] # r.version
        /\ groups'[r.group] = 0 \/ groups'[r.group] >= r.version
    BY <1>1, <1>3, <2>1
  <2> QED BY <1>1, <1>3, <2>2 DEF LinkSound
<1> QED BY <1>2, <1>3

\* Groups stay with the requests that read them.
LEMMA LinksStep ==
  AccountsInv /\ [Next]_vars /\ AccountTypes' => \A q \in Procs : LinkSound(q)'
<1> SUFFICES ASSUME AccountsInv, [Next]_vars, AccountTypes', NEW q \in Procs
             PROVE  LinkSound(q)'
  OBVIOUS
<1> USE DEF rows
<1>0. AccountTypes /\ LinkSound(q)
  BY DEF AccountsInv
<1> PICK r \in RequestRow : r = req[q]
  BY <1>0 DEF AccountTypes
<1>b. Blank.op = "none" /\ Blank.group = NoOne
  BY DEF Blank
<1>g. r.op = "link" => r.group \in Groups /\ r.group # NoOne
  BY <1>0, NoOneAssumption DEF LinkSound
<1>1. ASSUME groups' = groups, \A u \in Users : users'[u].link = users[u].link,
             req'[q] = r,
             \A x \in Procs : req'[x].group = req[x].group \/ req'[x].group # r.group
      PROVE  LinkSound(q)'
  <2>1. Members(r.group)' = Members(r.group)
    BY <1>1 DEF Members
  <2> QED BY <1>0, <1>1, <2>1, LinkKept
<1>2. ASSUME req'[q] = Blank PROVE LinkSound(q)'
  BY <1>2, <1>b DEF LinkSound
<1>3. ASSUME r.op # "link", req'[q] = r PROVE LinkSound(q)'
  BY <1>3 DEF LinkSound
<1>4. ASSUME NEW p \in Procs, Request(p) PROVE LinkSound(q)'
  <2>1. PICK n \in RequestRow, first \in {"accounts", "user"} : Begun(p, n, first)
    BY <1>0, <1>4, RequestBegun
  <2>2. /\ UNCHANGED rows /\ \A x \in Procs : req'[x] = IF x = p THEN n ELSE req[x]
        /\ LinkBegun(n)
    BY <1>0, <2>1 DEF Begun, Begin, AccountTypes
  <2>3. CASE q = p
    <3>1. CASE n.op = "link"
      <4>1. /\ n.group \in Groups /\ n.version = groups[n.group] /\ groups[n.group] \in Nat
            /\ n.version = 0 => \A x \in Procs : req[x].group # n.group
            /\ n.target \in n.members \cup Members(n.group) \cup {NoOne}
        BY <1>0, <2>2, <3>1 DEF AccountTypes, LinkBegun
      <4>2. Members(n.group)' = Members(n.group) /\ groups' = groups
        BY <2>2 DEF Members
      <4>3. n.version = 0 => \A x \in Procs \ {q} : req'[x].group # n.group
        BY <2>2, <2>3, <4>1
      <4> QED BY <2>2, <2>3, <4>1, <4>2, <4>3 DEF LinkSound
    <3>2. CASE n.op # "link"
      BY <2>2, <2>3, <3>2 DEF LinkSound
    <3> QED BY <3>1, <3>2
  <2>4. CASE q # p
    <3>1. CASE r.op # "link"
      BY <1>3, <2>2, <2>4, <3>1
    <3>2. CASE r.op = "link" /\ n.group # r.group
      BY <1>1, <2>2, <2>4, <3>2
    <3>3. CASE r.op = "link" /\ n.group = r.group
      <4>1. n.op = "link" /\ n.version # 0 /\ groups[r.group] # 0
        BY <1>g, <2>2, <2>4, <3>3 DEF LinkBegun
      <4>2. r.version # 0
        BY <1>0, <3>3, <4>1 DEF LinkSound
      <4> QED BY <1>0, <2>2, <2>4, <3>3, <4>2 DEF LinkSound, Members
    <3> QED BY <3>1, <3>2, <3>3
  <2> QED BY <2>3, <2>4
<1>5. ASSUME NEW p \in Procs, Finish(p)
      PROVE  /\ q = p => LinkSound(q)'
             /\ q # p => req'[q] = r
             /\ r.op = "link" =>
                  \A x \in Procs : req'[x].group = req[x].group \/ req'[x].group # r.group
  <2>1. /\ req'[p] = Blank /\ \A x \in Procs \ {p} : req'[x] = req[x]
    BY <1>0, <1>5, FinishKeeps
  <2> QED BY <1>2, <1>b, <1>g, <2>1
<1>6. ASSUME NEW p \in Procs, Finish(p), groups' = groups,
             \A u \in Users : users'[u].link = users[u].link
      PROVE  LinkSound(q)'
  BY <1>1, <1>3, <1>5, <1>6
<1>7. ASSUME NEW p \in Procs,
             \/ CommitLogin(p) \/ CommitRefresh(p) \/ CommitSwitch(p) \/ CommitLogout(p)
             \/ CommitGive(p) \/ Rollback(p)
      PROVE  LinkSound(q)'
  <2>1. Finish(p) /\ UNCHANGED <<users, groups>>
    BY <1>7 DEF CommitLogin, CommitRefresh, CommitSwitch, CommitLogout, CommitGive, Rollback,
                IssueTokens
  <2> QED BY <1>6, <2>1
<1>8. ASSUME NEW p \in Procs, CommitPassword(p) PROVE LinkSound(q)'
  BY <1>6, <1>8, PasswordWrites
<1>9. ASSUME NEW p \in Procs, CommitSaveUser(p) PROVE LinkSound(q)'
  <2>1. /\ Finish(p) /\ groups' = groups
        /\ \A u \in Users \ {req[p].user} : users'[u] = users[u]
        /\ users'[req[p].user].link = users[req[p].user].link
    BY <1>9, SaveUserWrites
  <2> QED BY <1>6, <2>1
<1>10. ASSUME NEW p \in Procs, CommitDelete(p) PROVE LinkSound(q)'
  <2>1. /\ Finish(p) /\ groups' = groups
        /\ \A u \in Users \ {req[p].user} : users'[u] = users[u]
        /\ users'[req[p].user].link = users[req[p].user].link
    BY <1>10, DeleteWrites
  <2> QED BY <1>6, <2>1
<1>11. ASSUME NEW p \in Procs, CommitLink(p) PROVE LinkSound(q)'
  <2> PICK n \in RequestRow : n = req[p]
    BY <1>0 DEF AccountTypes
  <2>1. /\ Finish(p) /\ n.op = "link" /\ n.group \in Groups /\ n.version \in Nat
        /\ LinkAllowed(n)
        /\ \A u \in Users :
             users'[u].link = IF u \in n.members THEN n.group
                              ELSE IF users[u].link = n.group THEN NoOne ELSE users[u].link
        /\ groups' = [groups EXCEPT ![n.group] = IF n.members = {} THEN 0 ELSE n.version + 1]
    BY <1>11, LinkWrites
  <2>2. CASE q = p
    BY <1>5, <2>1, <2>2
  <2>3. CASE q # p /\ r.op # "link"
    BY <1>3, <1>5, <2>1, <2>3
  <2>4. CASE q # p /\ r.op = "link" /\ r.group = n.group
    <3>1. r.version # 0
      BY <1>0, <2>4 DEF LinkSound
    <3>2. groups[r.group] = n.version /\ LinkSound(p)
      BY <2>1, <2>4 DEF LinkAllowed, AccountsInv
    <3>3. n.version # 0
      BY <2>1, <2>4, <3>2 DEF LinkSound
    <3>4. n.version >= r.version
      BY <1>0, <2>4, <3>1, <3>2, <3>3 DEF LinkSound
    <3>5. groups'[r.group] = 0 \/ groups'[r.group] = n.version + 1
      BY <1>0, <2>1, <2>4 DEF AccountTypes
    <3>6. groups'[r.group] = 0 \/ groups'[r.group] > r.version
      BY <2>1, <3>4, <3>5 DEF RequestRow
    <3> QED BY <1>0, <1>5, <2>1, <2>4, <3>1, <3>6, LinkKept
  <2>5. CASE q # p /\ r.op = "link" /\ r.group # n.group
    <3>1. groups'[r.group] = groups[r.group]
      BY <1>0, <2>1, <2>5 DEF AccountTypes
    <3>2. \A u \in n.members : users[u].link \in {NoOne, n.group}
      BY <2>1 DEF LinkAllowed
    <3>3. Members(r.group)' = Members(r.group)
      BY <1>g, <2>1, <2>5, <3>2 DEF Members
    <3> QED BY <1>0, <1>5, <2>1, <2>5, <3>1, <3>3, LinkKept
  <2> QED BY <2>2, <2>3, <2>4, <2>5
<1>12. ASSUME NEW p \in Procs, TakeAccounts(p) \/ TakeUser(p) \/ Check(p)
       PROVE  LinkSound(q)'
  BY <1>1, <1>12 DEF TakeAccounts, TakeUser, Check, Goto
<1>13. ASSUME NEW i \in Inquiries, FinishInquiry(i) PROVE LinkSound(q)'
  BY <1>1, <1>13 DEF FinishInquiry
<1>14. CASE UNCHANGED vars
  BY <1>1, <1>14 DEF vars
<1> QED BY <1>4, <1>7, <1>8, <1>9, <1>10, <1>11, <1>12, <1>13, <1>14 DEF Next, Work
\* What was checked under the account lock holds while accounts, sessions and groups
\* stay, and the account has no more unfinished inquiries than it had.
LEMMA AllowedKept ==
  ASSUME NEW r, Allowed(r), r.op \notin GiveOps, UNCHANGED <<users, sessions, groups>>,
         r.op \in {"update", "delete"} =>
           \A i \in Inquiries :
             inquiries'[i].state = "unfinished" /\ inquiries'[i].owner = r.user =>
               inquiries'[i] = inquiries[i]
  PROVE  Allowed(r)'
<1>1. /\ \A u : Enabled(u)' <=> Enabled(u)
      /\ \A u : Alive(u)' <=> Alive(u)
      /\ \A u, v : Linked(u, v)' <=> Linked(u, v)
      /\ \A g : Members(g)' = Members(g)
      /\ SessionSeen(r)' <=> SessionSeen(r)
      /\ PasswordSeen(r)' <=> PasswordSeen(r)
      /\ Saved(r)' = Saved(r) /\ AfterLink(r)' = AfterLink(r)
      /\ \A us, u : CodeFree(us, u)' <=> CodeFree(us, u)
  BY DEF Enabled, Alive, Linked, Members, SessionSeen, PasswordSeen, Saved, AfterLink, CodeFree
<1>2. LinkAllowed(r)' <=> LinkAllowed(r)
  BY DEF LinkAllowed, Members, Alive, AfterLink, CodeFree
<1>3. r.op \in {"update", "delete"} =>
        /\ \A i \in Unfinished(r.user)' : i \in Unfinished(r.user)
        /\ \A i \in Unfinished(r.user)' : inquiries'[i].scope = inquiries[i].scope
  BY DEF Unfinished
<1>4. r.op = "update" => NoUnfinished(r)'
  <2>1. KeepsOwner(r)' <=> KeepsOwner(r)
    BY DEF KeepsOwner
  <2>2. r.op = "update" => NoUnfinished(r)
    BY DEF Allowed
  <2> QED BY <1>3, <2>1, <2>2 DEF NoUnfinished
<1>5. r.op = "delete" => Unfinished(r.user)' = {}
  BY <1>3 DEF Allowed
<1>6. CodeFree(Saved(r), r.user)' <=> CodeFree(Saved(r), r.user)
  BY DEF CodeFree, Saved
<1> QED BY <1>1, <1>2, <1>4, <1>5, <1>6 DEF Allowed, GiveOps

\* Nothing comes between the checks of a transaction and its write.
LEMMA ChecksStep == AccountsInv /\ [Next]_vars => \A q \in Procs : ChecksHold(q)'
<1> SUFFICES ASSUME AccountsInv, [Next]_vars, NEW q \in Procs, pc'[q] = "save"
             PROVE  StillAllowed(req[q])'
  BY DEF ChecksHold
<1> USE DEF rows
<1>0. AccountTypes /\ LocksHeld(q) /\ ChecksHold(q) /\ RequestSound(req[q])
  BY DEF AccountsInv
<1> PICK r \in RequestRow : r = req[q]
  BY <1>0 DEF AccountTypes
<1>1. ASSUME pc[q] = "save" PROVE StillAllowed(r)
  BY <1>0, <1>1 DEF ChecksHold
<1>2. ASSUME UNCHANGED rows, req'[q] = r, StillAllowed(r)
      PROVE  StillAllowed(req[q])'
  <2>1. StillAllowed(r)'
    <3>1. CASE r.op \in GiveOps
      BY <1>2, <3>1 DEF StillAllowed, Enabled
    <3>2. CASE r.op \notin GiveOps
      BY <1>2, <3>2, AllowedKept DEF StillAllowed
    <3> QED BY <3>1, <3>2
  <2> QED BY <1>2, <2>1
<1>3. ASSUME NEW p \in Procs, Request(p) PROVE StillAllowed(req[q])'
  <2>1. PICK n \in RequestRow, first \in {"accounts", "user"} : Begun(p, n, first)
    BY <1>0, <1>3, RequestBegun
  <2>2. q # p /\ pc'[q] = pc[q] /\ req'[q] = r /\ UNCHANGED rows
    BY <1>0, <2>1 DEF Begun, Begin, AccountTypes
  <2> QED BY <1>1, <1>2, <2>2
<1>4. ASSUME NEW p \in Procs, TakeAccounts(p) \/ TakeUser(p) PROVE StillAllowed(req[q])'
  <2>1. q # p /\ pc'[q] = pc[q] /\ req'[q] = r /\ UNCHANGED rows
    BY <1>0, <1>4 DEF TakeAccounts, TakeUser, Goto, AccountTypes
  <2> QED BY <1>1, <1>2, <2>1
<1>5. ASSUME NEW p \in Procs, Check(p) PROVE StillAllowed(req[q])'
  <2>1. req'[q] = r /\ UNCHANGED rows
    BY <1>5 DEF Check, Goto
  <2>2. CASE q = p
    <3>1. StillAllowed(r)
      BY <1>5, <2>2 DEF Check, StillAllowed, Allowed, MayOwn, GiveOps, OwnerRoles
    <3> QED BY <1>2, <2>1, <3>1
  <2>3. CASE q # p
    <3>1. pc[q] = "save"
      BY <1>0, <1>5, <2>3 DEF Check, Goto, AccountTypes
    <3> QED BY <1>1, <1>2, <2>1, <3>1
  <2> QED BY <2>2, <2>3
<1>6. ASSUME NEW p \in Procs, Finish(p)
      PROVE  q # p /\ pc[q] = "save" /\ req'[q] = r /\ StillAllowed(r)
  <2>1. pc'[p] = "idle" /\ \A x \in Procs \ {p} : pc'[x] = pc[x] /\ req'[x] = req[x]
    BY <1>0, <1>6, FinishKeeps
  <2> QED BY <1>1, <2>1
<1>7. ASSUME NEW p \in Procs, Finish(p), accountLock = p PROVE r.op \in GiveOps
  BY <1>0, <1>6, <1>7 DEF LocksHeld
<1>8. ASSUME NEW p \in Procs, Finish(p), accountLock = p,
             users'[r.user].status = users[r.user].status,
             users'[r.user].role = users[r.user].role
      PROVE  StillAllowed(req[q])'
  <2>1. StillAllowed(r)'
    BY <1>6, <1>7, <1>8 DEF StillAllowed, Enabled
  <2> QED BY <1>6, <1>8, <2>1
<1>9. ASSUME NEW p \in Procs, Finish(p), accountLock = p
      PROVE  r.user \in Users /\ userLock[r.user] = q
  BY <1>0, <1>6, <1>7, <1>9 DEF LocksHeld, LocksUser, GiveOps, RequestSound
<1>10. ASSUME NEW p \in Procs, CommitLogin(p) \/ CommitRefresh(p) \/ CommitSwitch(p)
       PROVE  StillAllowed(req[q])'
  <2>1. /\ Finish(p) /\ accountLock = p /\ users' = users
    BY <1>10, IssueHolds DEF CommitLogin, CommitRefresh, CommitSwitch, IssueTokens
  <2> QED BY <1>8, <2>1
<1>11. ASSUME NEW p \in Procs, CommitLogout(p) PROVE StillAllowed(req[q])'
  BY <1>8, <1>11, LogoutWrites
<1>12. ASSUME NEW p \in Procs, CommitPassword(p) PROVE StillAllowed(req[q])'
  BY <1>8, <1>9, <1>12, PasswordWrites
<1>13. ASSUME NEW p \in Procs, CommitLink(p) PROVE StillAllowed(req[q])'
  BY <1>8, <1>9, <1>13, LinkWrites
<1>14. ASSUME NEW p \in Procs, CommitSaveUser(p) PROVE StillAllowed(req[q])'
  <2> PICK n \in RequestRow : n = req[p]
    BY <1>0 DEF AccountTypes
  <2>1. /\ Finish(p) /\ accountLock = p /\ n.user \in Users /\ Allowed(n)
        /\ n.op \in {"create", "update"}
        /\ n.op = "update" => userLock[n.user] = p
        /\ \A u \in Users \ {n.user} : users'[u] = users[u]
    BY <1>14, SaveUserWrites
  <2>2. q # p /\ r.user \in Users /\ userLock[r.user] = q
    BY <1>6, <1>9, <2>1
  <2>3. Enabled(r.user)
    BY <1>6, <1>7, <2>1 DEF StillAllowed
  <2>4. n.op = "create" => n.user # r.user
    BY <2>1, <2>3 DEF Allowed, NoUser, Enabled
  <2>5. n.user # r.user
    BY <2>1, <2>2, <2>4
  <2> QED BY <1>8, <2>1, <2>2, <2>5
<1>15. ASSUME NEW p \in Procs, CommitDelete(p) PROVE StillAllowed(req[q])'
  <2> PICK n \in RequestRow : n = req[p]
    BY <1>0 DEF AccountTypes
  <2>1. /\ Finish(p) /\ accountLock = p /\ n.user \in Users /\ userLock[n.user] = p
        /\ \A u \in Users \ {n.user} : users'[u] = users[u]
    BY <1>15, DeleteWrites
  <2>2. q # p /\ r.user \in Users /\ userLock[r.user] = q
    BY <1>6, <1>9, <2>1
  <2> QED BY <1>8, <2>1, <2>2
<1>16. ASSUME NEW p \in Procs, CommitGive(p) PROVE StillAllowed(req[q])'
  <2> PICK n \in RequestRow : n = req[p]
    BY <1>0 DEF AccountTypes
  <2>1. /\ Finish(p) /\ n.user \in Users /\ n.inquiry \in Inquiries /\ userLock[n.user] = p
        /\ \A i \in Inquiries \ {n.inquiry} : inquiries'[i] = inquiries[i]
        /\ inquiries'[n.inquiry].owner = n.user
        /\ UNCHANGED <<users, sessions, groups>>
    BY <1>16, GiveWrites
  <2>2. q # p /\ pc[q] = "save" /\ req'[q] = r /\ StillAllowed(r)
    BY <1>6, <2>1
  <2>3. CASE r.op \in GiveOps
    <3>1. StillAllowed(r)'
      BY <2>1, <2>2, <2>3 DEF StillAllowed, Enabled
    <3> QED BY <2>2, <3>1
  <2>4. CASE r.op \notin GiveOps
    <3>1. r.op \in {"update", "delete"} => userLock[r.user] = q
      BY <1>0, <2>2 DEF LocksHeld, LocksUser
    <3>2. r.op \in {"update", "delete"} => r.user # n.user
      BY <2>1, <2>2, <3>1
    <3>3. r.op \in {"update", "delete"} =>
            \A i \in Inquiries :
              inquiries'[i].state = "unfinished" /\ inquiries'[i].owner = r.user =>
                inquiries'[i] = inquiries[i]
      BY <2>1, <3>2
    <3>4. Allowed(r)'
      BY <2>1, <2>2, <2>4, <3>3, AllowedKept DEF StillAllowed
    <3> QED BY <2>2, <2>4, <3>4 DEF StillAllowed
  <2> QED BY <2>3, <2>4
<1>17. ASSUME NEW p \in Procs, Rollback(p) PROVE StillAllowed(req[q])'
  <2>1. Finish(p) /\ UNCHANGED rows
    BY <1>17 DEF Rollback
  <2> QED BY <1>2, <1>6, <2>1
<1>18. ASSUME NEW j \in Inquiries, FinishInquiry(j) PROVE StillAllowed(req[q])'
  <2>1. /\ inquiries'[j].state = "finished"
        /\ \A i \in Inquiries \ {j} : inquiries'[i] = inquiries[i]
        /\ UNCHANGED <<users, sessions, groups, pc>> /\ req'[q] = r
    BY <1>0, <1>18 DEF FinishInquiry, AccountTypes, InquiryRow
  <2>2. pc[q] = "save" /\ StillAllowed(r)
    BY <1>1, <2>1
  <2>3. CASE r.op \in GiveOps
    <3>1. StillAllowed(r)'
      BY <2>1, <2>2, <2>3 DEF StillAllowed, Enabled
    <3> QED BY <2>1, <3>1
  <2>4. CASE r.op \notin GiveOps
    <3>1. Allowed(r)'
      BY <2>1, <2>2, <2>4, AllowedKept DEF StillAllowed
    <3> QED BY <2>1, <2>4, <3>1 DEF StillAllowed
  <2> QED BY <2>3, <2>4
<1>19. CASE UNCHANGED vars
  BY <1>1, <1>2, <1>19 DEF vars
<1> QED BY <1>3, <1>4, <1>5, <1>10, <1>11, <1>12, <1>13, <1>14, <1>15, <1>16, <1>17, <1>18,
           <1>19 DEF Next, Work

-----------------------------------------------------------------------------
(* The invariant *)

\* The states the system starts in satisfy the invariant.
LEMMA InitInv == Init => AccountsInv
<1> SUFFICES ASSUME Init PROVE AccountsInv
  OBVIOUS
<1>0. AccountTypes
  BY InitTypes
<1>1. TokensSound
  <2>1. \A s \in Sessions : Open(s) => sessions[s].token = 1
    BY NoOneAssumption DEF Init, Open, NoSession
  <2>2. \A s \in Sessions : ~Open(s) => sessions[s] = NoSession
    <3>1. \A s \in Sessions :
            sessions[s] = NoSession \/ sessions[s].user \in Users
      BY DEF Init
    <3> QED BY <3>1, NoOneAssumption DEF Open
  <2>3. CASE (\A s \in Sessions : ~Open(s)) /\ issued = {} /\ newest = 0
    BY <2>2, <2>3 DEF TokensSound
  <2>4. ASSUME NEW s \in Sessions, Open(s), \A t \in Sessions : Open(t) => t = s,
               issued = {TokenOf(s, sessions[s])}, newest = 1
        PROVE  TokensSound
    BY <2>1, <2>2, <2>4 DEF TokensSound, TokenOf
  <2> QED BY <2>3, <2>4, InitOpen
<1>2. \A p \in Procs : RequestSound(req[p]) /\ LinkSound(p) /\ LocksHeld(p) /\ ChecksHold(p)
  BY DEF Init, RequestSound, LinkSound, LocksHeld, ChecksHold, Blank, UserOps, SessionOps,
         GiveOps
<1>3. OpenSessionsSound
  <2>1. \A s \in Sessions :
          \/ sessions[s] = NoSession
          \/ \E u \in Users :
               /\ Enabled(u)
               /\ sessions[s] = [user |-> u, version |-> 1, token |-> 1, password |-> 1,
                                 role |-> users[u].role]
    BY DEF Init
  <2>2. \A u \in Users : Enabled(u) => users[u].password = 1
    <3>1. \A u \in Users : users[u] = NoUser \/ users[u].password = 1
      BY DEF Init, AccountOf
    <3> QED BY <3>1 DEF Enabled, NoUser
  <2>3. ASSUME NEW s \in Sessions, Open(s)
        PROVE  LET u == sessions[s].user
               IN /\ Enabled(u)
                  /\ sessions[s].password = users[u].password
                  /\ sessions[s].role = users[u].role
    <3>1. sessions[s] # NoSession
      BY <2>3 DEF Open, NoSession
    <3>2. PICK u \in Users :
            /\ Enabled(u)
            /\ sessions[s] = [user |-> u, version |-> 1, token |-> 1, password |-> 1,
                              role |-> users[u].role]
      BY <2>1, <3>1
    <3>3. sessions[s].user = u /\ sessions[s].password = 1 /\ sessions[s].role = users[u].role
      BY <3>2
    <3> QED BY <2>2, <3>2, <3>3
  <2> QED BY <2>3 DEF OpenSessionsSound
<1>4. OwnersAvailable
  <2>1. \A i \in Inquiries :
          \/ inquiries[i] = NoInquiry
          \/ \E u \in Users :
               /\ Enabled(u)
               /\ inquiries[i] = [state |-> "unfinished", owner |-> u,
                                  scope |-> users[u].scope, version |-> 1]
    BY DEF Init
  <2>2. \A u \in Users : Enabled(u) => users[u].role \in OwnerRoles
    <3>1. \A u \in Users : users[u] = NoUser \/ users[u].role \in OwnerRoles
      BY DEF Init, AccountOf
    <3> QED BY <3>1 DEF Enabled, NoUser
  <2>3. ASSUME NEW u \in Users, NEW i \in Unfinished(u)
        PROVE  Enabled(u) /\ users[u].role \in OwnerRoles /\ users[u].scope = inquiries[i].scope
    <3>1. /\ i \in Inquiries /\ inquiries[i].state = "unfinished"
          /\ inquiries[i].owner = u
      BY DEF Unfinished
    <3>2. inquiries[i] # NoInquiry
      BY <3>1 DEF NoInquiry
    <3>3. PICK v \in Users :
            /\ Enabled(v)
            /\ inquiries[i] = [state |-> "unfinished", owner |-> v, scope |-> users[v].scope,
                               version |-> 1]
      BY <2>1, <3>1, <3>2
    <3>4. v = u /\ inquiries[i].scope = users[v].scope
      BY <3>1, <3>3
    <3> QED BY <2>2, <3>3, <3>4
  <2> QED BY <2>3 DEF OwnersAvailable
<1>5. GroupsSound
  BY DEF Init
<1> QED BY <1>0, <1>1, <1>2, <1>3, <1>4, <1>5 DEF AccountsInv

\* Every step keeps the invariant.
LEMMA NextInv == AccountsInv /\ [Next]_vars => AccountsInv'
<1> SUFFICES ASSUME AccountsInv, [Next]_vars PROVE AccountsInv'
  OBVIOUS
<1>1. AccountTypes' /\ TokensSound' /\ GroupsSound' /\ OpenSessionsSound' /\ OwnersAvailable'
  BY TypesStep, TokensStep, GroupsStep, SessionsStep, OwnersStep
<1>2. \A q \in Procs :
        RequestSound(req[q])' /\ LinkSound(q)' /\ LocksHeld(q)' /\ ChecksHold(q)'
  BY <1>1, RequestsStep, LinksStep, LocksStep, ChecksStep
<1> QED BY <1>1, <1>2 DEF AccountsInv

\* AccountsInv holds in every reachable state: accounts, sessions, groups and inquiries
\* are typed and fit together, transactions hold the locks they need, and what
\* AuthService and AccountLinksService checked still holds when they write.
THEOREM AccountsSafe == Spec => []AccountsInv
BY InitInv, NextInv, PTL DEF Spec

\* AuthService.refresh and switchAccount write to the session they checked: nothing
\* between requireSession and issueTokens ends or renews it.
THEOREM TokensUsedOnce == Spec => []TokenUsedOnce
<1>1. AccountsInv => TokenUsedOnce
  BY SaveHas DEF TokenUsedOnce, Saves, StillAllowed, Allowed, GiveOps
<1> QED BY <1>1, AccountsSafe, PTL

\* An open session is that of an enabled account, with its present password and role; and a
\* switch writes while the accounts are linked: between requireTarget and issueTokens nothing
\* removes the link or disables one of the two.
THEOREM SessionsStayAllowed == Spec => []SessionsAllowed
<1>1. AccountsInv => SwitchesSound
  BY SaveHas DEF SwitchesSound, Saves, StillAllowed, Allowed, GiveOps
<1>2. AccountsInv => SessionsAllowed
  BY <1>1 DEF AccountsInv, SessionsAllowed
<1> QED BY <1>2, AccountsSafe, PTL

\* An unfinished inquiry always has an enabled owner with a role in its scope.
THEOREM OwnersStayAvailable == Spec => []OwnersAvailable
<1>1. AccountsInv => OwnersAvailable
  BY DEF AccountsInv
<1> QED BY <1>1, AccountsSafe, PTL

\* Groups of linked accounts have two or three live members of distinct scopes, and only
\* linked accounts share a tour code.
THEOREM GroupsStaySound == Spec => []GroupsSound
<1>1. AccountsInv => GroupsSound
  BY DEF AccountsInv
<1> QED BY <1>1, AccountsSafe, PTL
-----------------------------------------------------------------------------
(* Sessions keep the promise of TokenChains *)

current == [s \in Sessions |-> sessions[s].token]
closed == {s \in Opened : ~Open(s)}

\* Nothing happens to the chains while the sessions stay.
LEMMA ChainsStutter ==
  ASSUME UNCHANGED <<sessions, issued, newest>>
  PROVE  UNCHANGED Chains!vars
BY DEF Chains!vars, Opened, Open

\* An open session has been opened, and its token is the newest it was given.
LEMMA OpenOpened ==
  ASSUME AccountTypes, TokensSound
  PROVE  /\ Opened \subseteq Sessions
         /\ \A s \in Sessions : Open(s) => s \in Opened /\ sessions[s].token \in 1..newest
         /\ \A s \in Sessions : ~Open(s) => sessions[s].token = 0
<1>1. \A s \in Sessions : Open(s) => TokenOf(s, sessions[s]) \in issued
  BY DEF TokensSound
<1>2. \A s : TokenOf(s, sessions[s]).session = s
             /\ TokenOf(s, sessions[s]).token = sessions[s].token
  BY DEF TokenOf
<1>3. \A s \in Sessions : Open(s) => s \in Opened /\ sessions[s].token \in 1..newest
  BY <1>1, <1>2 DEF TokensSound, Opened
<1>4. Opened \subseteq Sessions
  BY DEF Opened, AccountTypes, Token
<1>5. \A s \in Sessions : ~Open(s) => sessions[s].token = 0
  BY DEF TokensSound, NoSession
<1> QED BY <1>3, <1>4, <1>5

\* At first every token is the newest, and no session is over.
LEMMA ChainsInit == Init => Chains!Init
<1> SUFFICES ASSUME Init PROVE Chains!Init
  OBVIOUS
<1>1. AccountTypes /\ TokensSound
  BY InitInv DEF AccountsInv
<1>2. current \in [Sessions -> Nat] /\ newest \in Nat
  BY <1>1 DEF AccountTypes, SessionRow, current
<1>3. \A s \in Sessions : current[s] <= newest
  <2>1. \A s \in Sessions : sessions[s].token \in 1..newest \/ sessions[s].token = 0
    BY <1>1, OpenOpened
  <2> QED BY <1>2, <2>1 DEF current
<1>4. closed = {}
  <2>1. \A t \in issued : Open(t.session)
    BY InitOpen DEF TokenOf
  <2> QED BY <2>1 DEF closed, Opened
<1> QED BY <1>2, <1>3, <1>4 DEF Chains!Init, current, closed

\* A login, a refresh and a switch hand out the next token of a session that is not over.
LEMMA ChainsHandOut ==
  ASSUME AccountTypes, TokensSound, NEW s \in Sessions, NEW row \in SessionRow,
         row.user \in Users, Open(s) \/ s \notin Opened, IssueTokens(s, row)
  PROVE  Chains!HandOut(s)
<1> DEFINE next == [row EXCEPT !.token = newest + 1]
<1>1. /\ newest' = newest + 1 /\ newest \in Nat
      /\ sessions' = [sessions EXCEPT ![s] = next] /\ sessions'[s] = next
      /\ issued' = issued \cup {TokenOf(s, next)}
      /\ next.token = newest + 1 /\ next.user = row.user
  BY IssueTypes DEF SessionRow
<1> HIDE DEF next
<1>2. TokenOf(s, next).session = s
  BY DEF TokenOf
<1>3. Opened' = Opened \cup {s}
  BY <1>1, <1>2 DEF Opened
<1>4. Open(s)' /\ \A x \in Sessions \ {s} : Open(x)' <=> Open(x)
  BY <1>1, NoOneAssumption DEF Open, AccountTypes
<1>5. closed' = closed
  BY <1>3, <1>4, OpenOpened DEF closed
<1>6. current' = [current EXCEPT ![s] = newest']
  BY <1>1 DEF current, AccountTypes
<1>7. s \notin closed
  BY DEF closed
<1> QED BY <1>1, <1>5, <1>6, <1>7 DEF Chains!HandOut, current, closed

\* Whatever ends sessions closes open ones, and no other.
LEMMA ChainsClose ==
  ASSUME AccountTypes, TokensSound, NEW over \in SUBSET Sessions, \A s \in over : Open(s),
         sessions' = SessionsWithout(over), UNCHANGED <<issued, newest>>
  PROVE  Chains!Close \/ UNCHANGED Chains!vars
<1>1. CASE over = {}
  <2>1. sessions' = sessions
    BY <1>1 DEF SessionsWithout, AccountTypes
  <2> QED BY <2>1, ChainsStutter
<1>2. CASE over # {}
  <2>1. \A s \in Sessions : /\ Open(s)' <=> Open(s) /\ s \notin over
                            /\ sessions'[s].token = IF s \in over THEN 0 ELSE sessions[s].token
    BY DEF SessionsWithout, Open, NoSession
  <2>2. over \in SUBSET {s \in Sessions : current[s] # 0}
    BY OpenOpened DEF current
  <2>3. current' = [s \in Sessions |-> IF s \in over THEN 0 ELSE current[s]]
    BY <2>1 DEF current
  <2>4. closed' = closed \cup over
    <3>1. Opened' = Opened /\ over \subseteq Opened /\ Opened \subseteq Sessions
      BY OpenOpened DEF Opened
    <3> QED BY <2>1, <3>1 DEF closed
  <2> QED BY <1>2, <2>2, <2>3, <2>4 DEF Chains!Close, current, closed
<1> QED BY <1>1, <1>2

\* Every step keeps the promise.
LEMMA ChainsNext == AccountsInv /\ [Next]_vars => [Chains!Next]_(Chains!vars)
<1> SUFFICES ASSUME AccountsInv, [Next]_vars PROVE [Chains!Next]_(Chains!vars)
  OBVIOUS
<1> USE DEF rows
<1>0. AccountTypes /\ TokensSound
  BY DEF AccountsInv
<1>1. ASSUME NEW p \in Procs, CommitLogin(p) \/ CommitRefresh(p) \/ CommitSwitch(p)
      PROVE  Chains!Next
  <2>1. PICK s \in Sessions, row \in SessionRow :
          IssueTokens(s, row) /\ row.user \in Users /\ (Open(s) \/ s \notin Opened)
    BY <1>1, RowIssued
  <2>2. Chains!HandOut(s)
    BY <1>0, <2>1, ChainsHandOut
  <2> QED BY <2>2 DEF Chains!Next
<1>2. ASSUME NEW over \in SUBSET Sessions, NEW u \in Users,
             \A s \in over : sessions[s].user = u,
             sessions' = SessionsWithout(over), UNCHANGED <<issued, newest>>
      PROVE  [Chains!Next]_(Chains!vars)
  <2>1. \A s \in over : Open(s)
    BY <1>2, NoOneAssumption DEF Open
  <2>2. Chains!Close \/ UNCHANGED Chains!vars
    BY <1>0, <1>2, <2>1, ChainsClose
  <2> QED BY <2>2 DEF Chains!Next
<1>3. ASSUME NEW p \in Procs, CommitPassword(p) \/ CommitSaveUser(p) \/ CommitDelete(p)
      PROVE  [Chains!Next]_(Chains!vars)
  <2>1. /\ req[p].user \in Users /\ sessions' = SessionsWithout(SessionsOf(req[p]))
        /\ UNCHANGED <<issued, newest>>
    BY <1>3, PasswordWrites, SaveUserWrites, DeleteWrites
  <2> QED BY <1>2, <2>1 DEF SessionsOf
<1>4. ASSUME NEW p \in Procs, CommitLogout(p) PROVE [Chains!Next]_(Chains!vars)
  <2>1. PICK over \in SUBSET SessionsOf(req[p]) :
          sessions' = SessionsWithout(over) /\ UNCHANGED <<issued, newest>>
    BY <1>4, LogoutWrites
  <2>2. req[p].user \in Users
    BY <1>4, SaveHas DEF CommitLogout, Saves, RequestSound, SessionOps
  <2> QED BY <1>2, <2>1, <2>2 DEF SessionsOf
<1>5. ASSUME NEW p \in Procs,
             Request(p) \/ TakeAccounts(p) \/ TakeUser(p) \/ Check(p) \/ Rollback(p)
      PROVE  UNCHANGED Chains!vars
  <2>1. UNCHANGED <<sessions, issued, newest>>
    BY <1>0, <1>5, AccountsStay
  <2> QED BY <2>1, ChainsStutter
<1>6. ASSUME NEW p \in Procs, CommitLink(p) \/ CommitGive(p) PROVE UNCHANGED Chains!vars
  <2>1. UNCHANGED <<sessions, issued, newest>>
    BY <1>6 DEF CommitLink, CommitGive
  <2> QED BY <2>1, ChainsStutter
<1>7. ASSUME NEW i \in Inquiries, FinishInquiry(i) PROVE UNCHANGED Chains!vars
  <2>1. UNCHANGED <<sessions, issued, newest>>
    BY <1>7 DEF FinishInquiry
  <2> QED BY <2>1, ChainsStutter
<1>8. CASE UNCHANGED vars
  <2>1. UNCHANGED <<sessions, issued, newest>>
    BY <1>8 DEF vars
  <2> QED BY <2>1, ChainsStutter
<1> QED BY <1>1, <1>3, <1>4, <1>5, <1>6, <1>7, <1>8 DEF Next, Work

\* Sessions implement TokenChains: whatever AuthService and user management do, a session
\* is opened once, every token of it is newer than all before, and a session that was
\* closed is never opened again.
THEOREM SessionsKeepChains == Spec => KeepsChains
<1>1. Init => Chains!Init
  BY ChainsInit
<1>2. AccountsInv /\ [Next]_vars => [Chains!Next]_(Chains!vars)
  BY ChainsNext
<1> QED BY <1>1, <1>2, AccountsSafe, PTL DEF Spec, KeepsChains, Chains!Spec

=============================================================================
