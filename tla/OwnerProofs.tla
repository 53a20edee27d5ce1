---------------------------- MODULE OwnerProofs ----------------------------
(***************************************************************************)
(* Theorems of Accounts, Plans and Cli: a user's account and its ways to   *)
(* sign in, the plan that Stripe's events write, and what a command of the *)
(* client reports at its end.                                              *)
(***************************************************************************)
EXTENDS Accounts, Plans, Cli, FiniteSetTheorems, TLAPS

----------------------------------------------------------------------------
(* Accounts: a row keeps a way to sign in, and no more verification links  *)
(* are live than browsers asked for and statements failed to delete.       *)

SignUps == [op : {"register"}, at : {"user", "issue", "session"},
            password : Passwords, id : Nat]
SignIns == [op : {"login"}, at : {"check", "session"}, password : Passwords]
Callbacks == [op : {"oauth"}, provider : Providers,
              at : {"account", "email", "user", "verify", "link", "session"}]
Linkings == [op : {"link"}, at : {"callback"}]
Disconnects == [op : {"disconnect"}, at : {"list", "delete"}, provider : Providers,
                hasPassword : BOOLEAN]
MailRequests == [op : {"resend", "forgot"}, at : {"delete", "issue"}, id : Nat]
Followings == [op : {"verify"}, at : {"find", "spend", "user"}, link : Nat]
NewPasswords == [op : {"password"}, at : {"check", "update"}, old : Passwords,
                 password : Passwords]
Profiles == [op : {"profile"}, at : {"update"}, name : Nat, avatar : Nat]
Removals == [op : {"delete"}, at : {"user"}]
SettingsRequests == [op : {"settings"}, at : {"row", "save"}, save : SUBSET Columns]
TokenRequests == [op : {"token"}, at : {"create", "delete"}, id : Nat]

AccountRequests ==
  {Idle} \cup SignUps \cup SignIns \cup Callbacks \cup Linkings \cup Disconnects
    \cup MailRequests \cup Followings \cup NewPasswords \cup Profiles \cup Removals
    \cup SettingsRequests \cup TokenRequests

UserRows == [there : BOOLEAN, deleted : BOOLEAN, password : Passwords \cup {None},
             verified : BOOLEAN, name : Nat, avatar : Nat]

AccountTypeOK ==
  /\ row \in UserRows
  /\ linked \subseteq Providers
  /\ links \subseteq Nat /\ IsFiniteSet(links)
  /\ mailbox \subseteq Nat
  /\ tokens \subseteq Nat
  /\ req \in [Browsers -> AccountRequests]
  /\ raced \in BOOLEAN
  /\ upsets \in Nat /\ asked \in Nat

\* The statements of a sign-up with a provider that leave a row without a
\* way in until the last of them.
Unfinished == {"verify", "link"}

SignInKept ==
  Alive => \/ WayIn
           \/ raced
           \/ \E b \in Browsers : req[b].at \in Unfinished
           \/ \E f \in broken : f[2] \in Unfinished

\* The password of a row stays once it is there.
PasswordStays ==
  /\ row.password # None => row.there
  /\ \A b \in Browsers :
       req[b].op = "disconnect" /\ req[b].hasPassword => row.password # None

\* What a disconnect was allowed for still holds when it deletes.
OneStays ==
  /\ \A b \in Browsers : At(b, "disconnect", "delete") =>
       raced \/ row.password # None \/ linked \ {req[b].provider} # {}
  /\ \A b, c \in Browsers :
       At(b, "disconnect", "delete") /\ At(c, "disconnect", "delete") => raced \/ b = c

Issuers == {b \in Browsers : req[b].at = "issue" /\ req[b].op # "forgot"}

\* Nothing is issued before the row is there.
NobodyBeforeRow == ~row.there => links = {} /\ Issuers = {}

AccountInv ==
  /\ AccountTypeOK
  /\ SignInKept
  /\ PasswordStays
  /\ OneStays
  /\ NobodyBeforeRow
  /\ LiveLinksBounded

Going(r) ==
  /\ r \in AccountRequests
  /\ r.at = "issue" => r.op = "forgot"
  /\ ~(r.op = "disconnect" /\ r.at = "delete")
  /\ r.op = "disconnect" /\ r.hasPassword => row.password # None

(* SignInKept is the property that the run checks, with the steps named.   *)
LEMMA SameSignIn == SignInKept <=> KeepsSignIn
  BY DEF SignInKept, KeepsSignIn, Unfinished

(* Sets of browsers are finite, and no larger than the set of all of       *)
(* them.                                                                   *)
LEMMA IssuersAreFew ==
  ASSUME NEW S \in SUBSET Browsers
  PROVE  IsFiniteSet(S) /\ Cardinality(S) \in Nat /\ Cardinality(S) <= Cardinality(Browsers)
         /\ Cardinality(Browsers) \in Nat
  BY FS_Subset, FS_CardinalityType, ConstantsAssumption

(* Links and the requests that are about to issue one may become fewer.    *)
LEMMA LinksStay ==
  ASSUME AccountInv, AccountTypeOK', links' \subseteq links, Issuers' \subseteq Issuers,
         upsets <= upsets', row.there => row'.there
  PROVE  NobodyBeforeRow' /\ LiveLinksBounded'
  <1>1. AccountTypeOK /\ NobodyBeforeRow /\ LiveLinksBounded
    BY DEF AccountInv
  <1>2. NobodyBeforeRow'
    BY <1>1 DEF NobodyBeforeRow
  <1>3. Cardinality(links') <= Cardinality(links) /\ Cardinality(links') \in Nat
        /\ Cardinality(links) \in Nat
    BY <1>1, FS_Subset, FS_CardinalityType DEF AccountTypeOK
  <1>4. Cardinality(Issuers') <= Cardinality(Issuers) /\ Cardinality(Issuers') \in Nat
        /\ Cardinality(Issuers) \in Nat
    <2>1. Issuers \in SUBSET Browsers BY DEF Issuers
    <2>2. IsFiniteSet(Issuers) BY <2>1, IssuersAreFew
    <2> QED BY <2>2, FS_Subset, FS_CardinalityType
  <1>5. Cardinality(links) + Cardinality(Issuers) <= Cardinality(Browsers) + upsets
    BY <1>1 DEF LiveLinksBounded, Issuers
  <1>6. Cardinality(links') + Cardinality(Issuers') <= Cardinality(Browsers) + upsets'
    <2>1. Cardinality(Browsers) \in Nat BY IssuersAreFew
    <2> QED BY <1>1, <1>3, <1>4, <1>5, <2>1 DEF AccountTypeOK
  <1> QED BY <1>2, <1>6 DEF LiveLinksBounded, Issuers

(* A request that goes on without touching the row's way in.               *)
LEMMA Moving ==
  ASSUME AccountInv, NEW b \in Browsers, NEW r, Going(r), AccountTypeOK',
         req' = [req EXCEPT ![b] = r], linked' = linked, raced' = raced,
         links' \subseteq links, broken \subseteq broken', upsets <= upsets',
         row'.there = row.there, row.deleted => row'.deleted, row'.password = row.password,
         \/ req[b].at \notin Unfinished \/ r.at \in Unfinished
         \/ \E f \in broken' : f[2] \in Unfinished
  PROVE  AccountInv'
  <1>1. /\ AccountTypeOK /\ SignInKept /\ PasswordStays /\ OneStays /\ NobodyBeforeRow
        /\ LiveLinksBounded
    BY DEF AccountInv
  <1>2. /\ req'[b] = r
        /\ \A c \in Browsers : c # b => req'[c] = req[c]
    BY <1>1 DEF AccountTypeOK
  <1>3. SignInKept'
    BY <1>1, <1>2 DEF SignInKept, Alive, WayIn
  <1>4. PasswordStays'
    BY <1>1, <1>2 DEF PasswordStays, Going
  <1>5. OneStays'
    BY <1>1, <1>2 DEF OneStays, At, Going
  <1>6. Issuers' \subseteq Issuers
    BY <1>2 DEF Issuers, Going
  <1>7. NobodyBeforeRow' /\ LiveLinksBounded'
    BY <1>6, LinksStay
  <1> QED BY <1>3, <1>4, <1>5, <1>7 DEF AccountInv

(* Initially.                                                              *)
LEMMA InitAccount == Init => AccountInv
  <1> SUFFICES ASSUME Init PROVE AccountInv
    OBVIOUS
  <1>1. AccountTypeOK
    BY FS_EmptySet DEF Init, AccountTypeOK, UserRows, AccountRequests
  <1>2. SignInKept /\ PasswordStays /\ OneStays
    BY DEF Init, SignInKept, Alive, PasswordStays, OneStays, Idle, At
  <1>3. NobodyBeforeRow /\ Issuers = {}
    BY DEF Init, NobodyBeforeRow, Issuers, Idle
  <1>4. LiveLinksBounded
    <2>1. Cardinality(links) = 0 /\ Cardinality(Issuers) = 0 /\ upsets = 0
      BY <1>3, FS_EmptySet DEF Init
    <2>2. Cardinality(Browsers) \in Nat BY IssuersAreFew
    <2> QED BY <2>1, <2>2 DEF LiveLinksBounded, Issuers
  <1> QED BY <1>1, <1>2, <1>3, <1>4 DEF AccountInv

(* The operation of a request says what it carries.                        *)
LEMMA Carried ==
  ASSUME AccountTypeOK, NEW b \in Browsers
  PROVE  /\ req[b] \in AccountRequests
         /\ req[b].op = "none" => req[b] = Idle
         /\ req[b].op = "register" => req[b] \in SignUps
         /\ req[b].op = "login" => req[b] \in SignIns
         /\ req[b].op = "oauth" => req[b] \in Callbacks
         /\ req[b].op = "link" => req[b] \in Linkings
         /\ req[b].op = "disconnect" => req[b] \in Disconnects
         /\ req[b].op \in {"resend", "forgot"} => req[b] \in MailRequests
         /\ req[b].op = "verify" => req[b] \in Followings
         /\ req[b].op = "password" => req[b] \in NewPasswords
         /\ req[b].op = "profile" => req[b] \in Profiles
         /\ req[b].op = "delete" => req[b] \in Removals
         /\ req[b].op = "settings" => req[b] \in SettingsRequests
         /\ req[b].op = "token" => req[b] \in TokenRequests
         /\ req[b].at = "session" => req[b].op \in {"register", "login", "oauth"}
         /\ req[b].at \in Unfinished => req[b].op = "oauth"
  <1>1. req[b] \in AccountRequests
    BY DEF AccountTypeOK
  <1> QED
    BY <1>1 DEF AccountRequests, Idle, SignUps, SignIns, Callbacks, Linkings, Disconnects,
                MailRequests, Followings, NewPasswords, Profiles, Removals,
                SettingsRequests, TokenRequests, Unfinished

(* A browser without a request under way is one that may go on.            *)
LEMMA IdleGoes == Going(Idle)
  BY DEF Going, Idle, AccountRequests

(* A new request.                                                          *)
LEMMA Asking ==
  ASSUME AccountInv, NEW b \in Browsers, NEW r, Ask(b, r), Going(r)
  PROVE  AccountInv'
  <1>1. AccountTypeOK
    BY DEF AccountInv
  <1>2. AccountTypeOK'
    BY <1>1 DEF AccountTypeOK, Ask, data, linkVars, rest, Going
  <1>3. req[b].at \notin Unfinished
    BY DEF Ask, Idle, Unfinished
  <1>4. /\ req' = [req EXCEPT ![b] = r]
        /\ linked' = linked /\ raced' = raced /\ row' = row
        /\ links' \subseteq links /\ broken \subseteq broken' /\ upsets <= upsets'
    BY <1>1 DEF Ask, data, linkVars, rest, AccountTypeOK
  <1> QED
    BY <1>2, <1>3, <1>4, Moving

(* Every request a browser can make.                                       *)
LEMMA PagesStep ==
  ASSUME AccountInv, NEW b \in Browsers, Pages(b)
  PROVE  AccountInv'
  <1> USE DEF AccountRequests
  <1>0. AccountTypeOK BY DEF AccountInv
  <1>1. CASE \E p \in Passwords : Register(b, p) \/ Login(b, p)
    <2> PICK p \in Passwords : Register(b, p) \/ Login(b, p) BY <1>1
    <2>1. Going([op |-> "register", at |-> "user", password |-> p, id |-> asked])
      BY <1>0 DEF Going, SignUps, AccountTypeOK
    <2>2. Going([op |-> "login", at |-> "check", password |-> p])
      BY DEF Going, SignIns
    <2> QED BY <2>1, <2>2, Asking DEF Register, Login
  <1>2. CASE \E v \in Providers : OAuthStart(b, v) \/ DisconnectOAuth(b, v)
    <2> PICK v \in Providers : OAuthStart(b, v) \/ DisconnectOAuth(b, v) BY <1>2
    <2>1. Going([op |-> "oauth", at |-> "account", provider |-> v])
      BY DEF Going, Callbacks
    <2>2. Going([op |-> "disconnect", at |-> "list", provider |-> v,
                 hasPassword |-> row.password # None])
      BY DEF Going, Disconnects
    <2> QED BY <2>1, <2>2, Asking DEF OAuthStart, DisconnectOAuth
  <1>3. CASE LinkStart(b)
    <2>1. Going([op |-> "link", at |-> "callback"]) BY DEF Going, Linkings
    <2> QED BY <1>3, <2>1, Asking DEF LinkStart
  <1>4. CASE ResendVerification(b)
    <2>1. Going([op |-> "resend", at |-> "delete", id |-> asked])
      BY <1>0 DEF Going, MailRequests, AccountTypeOK
    <2> QED BY <1>4, <2>1, Asking DEF ResendVerification
  <1>5. CASE FollowLink(b)
    <2> PICK t \in mailbox : Ask(b, [op |-> "verify", at |-> "find", link |-> t])
      BY <1>5 DEF FollowLink
    <2>1. Going([op |-> "verify", at |-> "find", link |-> t])
      BY <1>0 DEF Going, Followings, AccountTypeOK
    <2> QED BY <2>1, Asking
  <1>6. CASE ForgotPassword(b)
    <2>1. Going([op |-> "forgot", at |-> "delete", id |-> asked])
      BY <1>0 DEF Going, MailRequests, AccountTypeOK
    <2> QED BY <1>6, <2>1, Asking DEF ForgotPassword
  <1>7. CASE \E old, new \in Passwords : ChangePassword(b, old, new)
    <2> PICK old \in Passwords, new \in Passwords : ChangePassword(b, old, new) BY <1>7
    <2>1. Going([op |-> "password", at |-> "check", old |-> old, password |-> new])
      BY DEF Going, NewPasswords
    <2> QED BY <2>1, Asking DEF ChangePassword
  <1>8. CASE ProfilePost(b) \/ ProfileAvatar(b)
    <2>1. /\ Going([op |-> "profile", at |-> "update",
                    name |-> row.name + 1, avatar |-> row.avatar])
          /\ Going([op |-> "profile", at |-> "update",
                    name |-> row.name, avatar |-> row.avatar + 1])
      BY <1>0 DEF Going, Profiles, AccountTypeOK, UserRows
    <2> QED BY <1>8, <2>1, Asking DEF ProfilePost, ProfileAvatar
  <1>9. CASE ProfileDelete(b)
    <2>1. Going([op |-> "delete", at |-> "user"]) BY DEF Going, Removals
    <2> QED BY <1>9, <2>1, Asking DEF ProfileDelete
  <1>10. CASE SettingsPage(b) \/ \E c \in Columns : SettingsSave(b, c)
    <2>1. Going([op |-> "settings", at |-> "row", save |-> {}])
      BY DEF Going, SettingsRequests
    <2>2. ASSUME NEW c \in Columns
          PROVE  Going([op |-> "settings", at |-> "row", save |-> {c}])
      BY DEF Going, SettingsRequests
    <2> QED BY <1>10, <2>1, <2>2, Asking DEF SettingsPage, SettingsSave
  <1>11. CASE AskForToken(b)
    <2>1. Going([op |-> "token", at |-> "create", id |-> asked])
      BY <1>0 DEF Going, TokenRequests, AccountTypeOK
    <2>2. ASSUME NEW t \in tokens
          PROVE  Going([op |-> "token", at |-> "delete", id |-> t])
      BY <1>0 DEF Going, TokenRequests, AccountTypeOK
    <2> QED BY <1>11, <2>1, <2>2, Asking DEF AskForToken
  <1> QED
    BY <1>1, <1>2, <1>3, <1>4, <1>5, <1>6, <1>7, <1>8, <1>9, <1>10, <1>11 DEF Pages

(* A statement that leaves what the invariant is about alone.              *)
LEMMA GoingOn ==
  ASSUME AccountInv, NEW b \in Browsers, NEW r, Going(r),
         req' = [req EXCEPT ![b] = r],
         row' \in UserRows, row'.there = row.there, row.deleted => row'.deleted,
         row'.password = row.password, linked' = linked, links' \subseteq links,
         mailbox' = mailbox, tokens' \subseteq Nat, raced' = raced,
         broken' = broken, asked' = asked, upsets' = upsets,
         req[b].at \notin Unfinished \/ r.at \in Unfinished
  PROVE  AccountInv'
  <1>1. AccountTypeOK
    BY DEF AccountInv
  <1>2. AccountTypeOK'
    BY <1>1, FS_Subset DEF AccountTypeOK, Going
  <1>3. upsets <= upsets'
    BY <1>1 DEF AccountTypeOK
  <1> QED
    BY <1>2, <1>3, Moving

(* A statement that fails ends its request and is remembered as broken.    *)
LEMMA Failing ==
  ASSUME AccountInv, NEW b \in Browsers, Fail(b)
  PROVE  AccountInv'
  <1>1. AccountTypeOK
    BY DEF AccountInv
  <1>2. AccountTypeOK'
    BY <1>1, IdleGoes DEF AccountTypeOK, Fail, Done, data, linkVars, rest, Going
  <1>3. /\ req' = [req EXCEPT ![b] = Idle]
        /\ linked' = linked /\ raced' = raced /\ row' = row
        /\ links' \subseteq links /\ broken \subseteq broken' /\ upsets <= upsets'
    BY <1>1 DEF Fail, Done, data, linkVars, rest, AccountTypeOK
  <1>4. req[b].at \in Unfinished => \E f \in broken' : f[2] \in Unfinished
    <2>1. <<req[b].op, req[b].at>> \in broken'
      BY DEF Fail
    <2> QED BY <2>1
  <1> QED
    BY <1>2, <1>3, <1>4, IdleGoes, Moving

(* The statements that end a request or lead to its next statement and     *)
(* leave row, providers and links alone.                                   *)
LEMMA QuietStatements ==
  ASSUME AccountInv, NEW b \in Browsers,
         \/ CheckPassword(b) \/ CreateSession(b) \/ OAuthRefused(b) \/ FindAccount(b)
         \/ FindByEmail(b) \/ LinkCallback(b) \/ FindLink(b) \/ CheckCurrent(b)
         \/ DeleteUserPasswordResets(b) \/ CreatePasswordReset(b)
         \/ UpsertUserSettings(b) \/ UpdateSettings(b)
         \/ CreateAPIToken(b) \/ DeleteAPIToken(b)
  PROVE  AccountInv'
  <1>1. AccountTypeOK
    BY DEF AccountInv
  <1>2. /\ row' = row /\ linked' = linked /\ links' = links /\ mailbox' = mailbox
        /\ raced' = raced /\ broken' = broken /\ asked' = asked /\ upsets' = upsets
    BY DEF CheckPassword, CreateSession, OAuthRefused, FindAccount, FindByEmail,
           LinkCallback, FindLink, CheckCurrent, DeleteUserPasswordResets,
           CreatePasswordReset, UpsertUserSettings, UpdateSettings, CreateAPIToken,
           DeleteAPIToken, data, linkVars, rest, Quiet
  <1>3. tokens' \subseteq Nat
    BY <1>1, Carried
    DEF CheckPassword, CreateSession, OAuthRefused, FindAccount, FindByEmail,
        LinkCallback, FindLink, CheckCurrent, DeleteUserPasswordResets,
        CreatePasswordReset, UpsertUserSettings, UpdateSettings, CreateAPIToken,
        DeleteAPIToken, data, linkVars, rest, AccountTypeOK, At, TokenRequests
  <1>4. req[b].at \in Unfinished => FALSE
    BY <1>1, Carried
    DEF CheckPassword, CreateSession, OAuthRefused, FindAccount, FindByEmail,
        LinkCallback, FindLink, CheckCurrent, DeleteUserPasswordResets,
        CreatePasswordReset, UpsertUserSettings, UpdateSettings, CreateAPIToken,
        DeleteAPIToken, At, Unfinished
  <1>5. \E r : Going(r) /\ req' = [req EXCEPT ![b] = r]
    <2>1. CASE Done(b)
      BY <2>1, IdleGoes DEF Done
    <2>2. CASE \E s \in {"session", "email", "link", "user"} :
                 \/ At(b, "login", "check") /\ s = "session" /\ Goto(b, s)
                 \/ At(b, "oauth", "account") /\ s # "link" /\ Goto(b, s)
                 \/ At(b, "oauth", "email") /\ Goto(b, s)
      <3> PICK s \in {"session", "email", "link", "user"} :
                 \/ At(b, "login", "check") /\ s = "session" /\ Goto(b, s)
                 \/ At(b, "oauth", "account") /\ s # "link" /\ Goto(b, s)
                 \/ At(b, "oauth", "email") /\ Goto(b, s)
        BY <2>2
      <3> DEFINE r == [req[b] EXCEPT !.at = s]
      <3>1. Going(r)
        BY <1>1, Carried DEF Going, At, SignIns, Callbacks, AccountRequests
      <3> QED BY <3>1 DEF Goto
    <2>3. CASE At(b, "verify", "find") /\ Goto(b, "spend")
      <3> DEFINE r == [req[b] EXCEPT !.at = "spend"]
      <3>1. Going(r)
        BY <2>3, <1>1, Carried DEF Going, At, Followings, AccountRequests
      <3> QED BY <3>1, <2>3 DEF Goto
    <2>4. CASE At(b, "password", "check") /\ Goto(b, "update")
      <3> DEFINE r == [req[b] EXCEPT !.at = "update"]
      <3>1. Going(r)
        BY <2>4, <1>1, Carried DEF Going, At, NewPasswords, AccountRequests
      <3> QED BY <3>1, <2>4 DEF Goto
    <2>5. CASE At(b, "forgot", "delete") /\ Goto(b, "issue")
      <3> DEFINE r == [req[b] EXCEPT !.at = "issue"]
      <3>1. Going(r)
        BY <2>5, <1>1, Carried DEF Going, At, MailRequests, AccountRequests
      <3> QED BY <3>1, <2>5 DEF Goto
    <2>6. CASE At(b, "settings", "row") /\ Goto(b, "save")
      <3> DEFINE r == [req[b] EXCEPT !.at = "save"]
      <3>1. Going(r)
        BY <2>6, <1>1, Carried DEF Going, At, SettingsRequests, AccountRequests
      <3> QED BY <3>1, <2>6 DEF Goto
    <2> QED
      BY <2>1, <2>2, <2>3, <2>4, <2>5, <2>6
      DEF CheckPassword, CreateSession, OAuthRefused, FindAccount, FindByEmail,
          LinkCallback, FindLink, CheckCurrent, DeleteUserPasswordResets,
          CreatePasswordReset, UpsertUserSettings, UpdateSettings, CreateAPIToken,
          DeleteAPIToken
  <1>6. row \in UserRows
    BY <1>1 DEF AccountTypeOK
  <1>7. PICK r : Going(r) /\ req' = [req EXCEPT ![b] = r]
    BY <1>5
  <1> QED
    BY <1>2, <1>3, <1>4, <1>6, <1>7, GoingOn

(* The statements that write the row and not its password.                 *)
LEMMA RowStatements ==
  ASSUME AccountInv, NEW b \in Browsers,
         \/ VerifyNewUser(b) \/ MarkEmailVerified(b) \/ VerifyUserEmail(b)
         \/ UpdateUser(b) \/ DeleteUser(b)
  PROVE  AccountInv'
  <1>1. AccountTypeOK /\ row \in UserRows /\ tokens \subseteq Nat
    BY DEF AccountInv, AccountTypeOK
  <1>2. /\ linked' = linked /\ mailbox' = mailbox /\ raced' = raced
        /\ tokens' \subseteq Nat /\ links' \subseteq links
        /\ broken' = broken /\ asked' = asked /\ upsets' = upsets
    BY <1>1 DEF VerifyNewUser, MarkEmailVerified, VerifyUserEmail, UpdateUser, DeleteUser,
           linkVars, rest, Quiet
  <1>3. /\ row' \in UserRows /\ row'.there = row.there /\ row'.password = row.password
        /\ (row.deleted => row'.deleted)
    <2>1. CASE VerifyNewUser(b) \/ VerifyUserEmail(b)
      BY <1>1, <2>1 DEF VerifyNewUser, VerifyUserEmail, UserRows, Alive
    <2>2. CASE MarkEmailVerified(b)
      BY <1>1, <2>2 DEF MarkEmailVerified, UserRows
    <2>3. CASE UpdateUser(b)
      <3>1. req[b].name \in Nat /\ req[b].avatar \in Nat
        BY <1>1, <2>3, Carried DEF UpdateUser, At, Profiles
      <3> QED BY <1>1, <2>3, <3>1 DEF UpdateUser, UserRows
    <2>4. CASE DeleteUser(b)
      BY <1>1, <2>4 DEF DeleteUser, UserRows
    <2> QED BY <2>1, <2>2, <2>3, <2>4
  <1>4. CASE VerifyNewUser(b)
    <2> DEFINE r == [req[b] EXCEPT !.at = "link"]
    <2>1. Going(r) /\ r.at \in Unfinished /\ req' = [req EXCEPT ![b] = r]
      BY <1>1, <1>4, Carried
      DEF VerifyNewUser, Goto, Going, At, Callbacks, AccountRequests, Unfinished
    <2> HIDE DEF r
    <2> QED BY <1>1, <1>2, <1>3, <2>1, GoingOn
  <1>5. CASE MarkEmailVerified(b)
    <2> DEFINE r == [req[b] EXCEPT !.at = "user"]
    <2>1. /\ Going(r) /\ req[b].at \notin Unfinished
          /\ req' = [req EXCEPT ![b] = r]
      BY <1>1, <1>5, Carried
      DEF MarkEmailVerified, Goto, Going, At, Followings, AccountRequests, Unfinished
    <2> HIDE DEF r
    <2> QED BY <1>1, <1>2, <1>3, <2>1, GoingOn
  <1>6. CASE VerifyUserEmail(b) \/ UpdateUser(b) \/ DeleteUser(b)
    <2>1. /\ req[b].at \notin Unfinished
          /\ req' = [req EXCEPT ![b] = Idle]
      BY <1>6 DEF VerifyUserEmail, UpdateUser, DeleteUser, Done, At, Unfinished
    <2> QED BY <1>1, <1>2, <1>3, <2>1, IdleGoes, GoingOn
  <1> QED BY <1>4, <1>5, <1>6

(* A new row has a password, or a request that links its provider.         *)
LEMMA Creating ==
  ASSUME AccountInv, NEW b \in Browsers, CreateUser(b) \/ CreateOAuthUser(b)
  PROVE  AccountInv'
  <1>1. /\ AccountTypeOK /\ SignInKept /\ PasswordStays /\ OneStays /\ NobodyBeforeRow
    BY DEF AccountInv
  <1>2. /\ linked' = linked /\ mailbox' = mailbox /\ raced' = raced /\ tokens' = tokens
        /\ broken' = broken /\ asked' = asked /\ upsets' = upsets /\ links' = links
        /\ req[b].at = "user"
    BY DEF CreateUser, CreateOAuthUser, linkVars, rest, Quiet, At
  <1>3. CASE row.there
    <2>1. /\ row' = row /\ req[b].at \notin Unfinished
          /\ req' = [req EXCEPT ![b] = Idle]
      BY <1>2, <1>3 DEF CreateUser, CreateOAuthUser, Done, Unfinished
    <2>2. row \in UserRows /\ tokens \subseteq Nat
      BY <1>1 DEF AccountTypeOK
    <2> QED BY <1>2, <2>1, <2>2, IdleGoes, GoingOn
  <1>4. CASE ~row.there
    <2>1. PICK p \in Passwords \cup {None}, s \in {"issue", "verify"} :
             /\ row' = NewRow(p) /\ req' = [req EXCEPT ![b] = [req[b] EXCEPT !.at = s]]
             /\ [req[b] EXCEPT !.at = s] \in AccountRequests
             /\ req[b].op \in {"register", "oauth"}
             /\ p # None \/ s = "verify"
      <3>1. CASE CreateUser(b)
        <4>1. /\ req[b] \in SignUps /\ req[b].password \in Passwords
              /\ req[b].op = "register"
          BY <1>1, <3>1, Carried DEF CreateUser, At, SignUps
        <4>2. req[b].password # None
          BY <4>1, ConstantsAssumption
        <4>3. [req[b] EXCEPT !.at = "issue"] \in AccountRequests
          BY <4>1 DEF SignUps, AccountRequests
        <4> QED BY <1>4, <3>1, <4>1, <4>2, <4>3 DEF CreateUser, Goto
      <3>2. CASE CreateOAuthUser(b)
        <4>1. req[b] \in Callbacks /\ req[b].op = "oauth"
          BY <1>1, <3>2, Carried DEF CreateOAuthUser, At
        <4>2. [req[b] EXCEPT !.at = "verify"] \in AccountRequests
          BY <4>1 DEF Callbacks, AccountRequests
        <4> QED BY <1>4, <3>2, <4>1, <4>2 DEF CreateOAuthUser, Goto
      <3> QED BY <3>1, <3>2
    <2> DEFINE r == [req[b] EXCEPT !.at = s]
    <2>2. /\ req'[b] = r /\ r.at = s /\ r.op = req[b].op
          /\ \A c \in Browsers : c # b => req'[c] = req[c]
      <3>1. req[b] \in SignUps \cup Callbacks
        BY <1>1, <2>1, Carried
      <3> QED BY <1>1, <2>1, <3>1 DEF AccountTypeOK, SignUps, Callbacks
    <2>3. row'.there /\ row'.password = p /\ row' \in UserRows /\ row.password = None
      BY <1>1, <1>4, <2>1 DEF NewRow, UserRows, PasswordStays
    <2> HIDE DEF r
    <2>4. AccountTypeOK'
      BY <1>1, <1>2, <2>1, <2>3 DEF AccountTypeOK
    <2>5. SignInKept'
      BY <2>1, <2>2, <2>3 DEF SignInKept, WayIn, Unfinished
    <2>6. PasswordStays'
      BY <1>1, <2>1, <2>2, <2>3 DEF PasswordStays
    <2>7. OneStays'
      BY <1>1, <1>2, <2>1, <2>2, <2>3 DEF OneStays, At
    <2>8. NobodyBeforeRow'
      BY <2>3 DEF NobodyBeforeRow
    <2>9. LiveLinksBounded'
      <3>1. links' = {} /\ Issuers' \subseteq {b}
        BY <1>1, <1>2, <1>4, <2>2 DEF NobodyBeforeRow, Issuers
      <3>2. Cardinality(links') = 0
        BY <3>1, FS_EmptySet
      <3>0. IsFiniteSet({b}) /\ Cardinality({b}) = 1
        BY FS_Singleton
      <3>3. Cardinality(Issuers') <= 1 /\ Cardinality(Issuers') \in Nat
        BY <3>0, <3>1, FS_Subset, FS_CardinalityType
      <3>4. Cardinality(Browsers) \in Nat /\ 1 <= Cardinality(Browsers)
        <4>1. {b} \in SUBSET Browsers
          OBVIOUS
        <4> QED BY <3>0, <4>1, IssuersAreFew
      <3>5. upsets' \in Nat
        BY <2>4 DEF AccountTypeOK
      <3> QED BY <3>2, <3>3, <3>4, <3>5 DEF LiveLinksBounded, Issuers
    <2> QED BY <2>4, <2>5, <2>6, <2>7, <2>8, <2>9 DEF AccountInv
  <1> QED BY <1>3, <1>4

(* An account with a provider or a password of its own has a way in.       *)
LEMMA OtherStatements ==
  ASSUME AccountInv, NEW b \in Browsers,
         \/ CreateEmailVerification(b) \/ CreateOAuthAccount(b) \/ ListAccounts(b)
         \/ DeleteOAuthAccount(b) \/ DeleteUserEmailVerifications(b)
         \/ UpdateUserPassword(b)
  PROVE  AccountInv'
  <1>1. /\ AccountTypeOK /\ SignInKept /\ PasswordStays /\ OneStays /\ NobodyBeforeRow
        /\ LiveLinksBounded
    BY DEF AccountInv
  <1>2. CASE CreateEmailVerification(b)
    <2>1. PICK r \in {Idle, [req[b] EXCEPT !.at = "session"]} :
            /\ req' = [req EXCEPT ![b] = r] /\ r \in AccountRequests /\ r.at # "issue"
            /\ r.op # "disconnect"
      <3>1. CASE At(b, "resend", "issue") /\ Done(b)
        BY <3>1, IdleGoes DEF Done, Going, Idle
      <3>2. CASE At(b, "register", "issue") /\ Goto(b, "session")
        <4>1. /\ req[b] \in SignUps
          BY <1>1, <3>2, Carried DEF At
        <4>2. /\ [req[b] EXCEPT !.at = "session"] \in SignUps
              /\ [req[b] EXCEPT !.at = "session"].at # "issue"
              /\ [req[b] EXCEPT !.at = "session"].op # "disconnect"
          BY <4>1 DEF SignUps
        <4> QED BY <4>2, <3>2 DEF Goto, AccountRequests
      <3> QED BY <1>2, <3>1, <3>2 DEF CreateEmailVerification
    <2>2. /\ req[b].id \in Nat /\ req[b].at = "issue" /\ req[b].op # "forgot"
          /\ req[b].op # "disconnect"
      BY <1>1, <1>2, Carried DEF CreateEmailVerification, At, SignUps, MailRequests
    <2>3. /\ row' = row /\ linked' = linked /\ raced' = raced /\ tokens' = tokens
          /\ broken' = broken /\ asked' = asked /\ upsets' = upsets
          /\ links' = links \cup {req[b].id} /\ mailbox' \subseteq Nat
      BY <1>1, <1>2, <2>2 DEF CreateEmailVerification, rest, Quiet, AccountTypeOK
    <2>4. /\ req'[b] = r
          /\ \A c \in Browsers : c # b => req'[c] = req[c]
      BY <1>1, <2>1 DEF AccountTypeOK
    <2>5. AccountTypeOK'
      BY <1>1, <2>1, <2>2, <2>3, FS_AddElement DEF AccountTypeOK
    <2>6. SignInKept'
      BY <1>1, <2>2, <2>3, <2>4 DEF SignInKept, Alive, WayIn, Unfinished
    <2>7. PasswordStays'
      BY <1>1, <2>1, <2>3, <2>4 DEF PasswordStays
    <2>8. OneStays'
      BY <1>1, <2>1, <2>3, <2>4 DEF OneStays, At
    <2>9. b \in Issuers /\ Issuers' = Issuers \ {b}
      BY <2>1, <2>2, <2>4 DEF Issuers
    <2>10. NobodyBeforeRow'
      BY <1>1, <2>3, <2>9 DEF NobodyBeforeRow
    <2>11. LiveLinksBounded'
      <3>1. /\ IsFiniteSet(Issuers) /\ Cardinality(Issuers) \in Nat
            /\ Cardinality(Browsers) \in Nat
        BY IssuersAreFew DEF Issuers
      <3>2. Cardinality(Issuers') = Cardinality(Issuers) - 1
        BY <2>9, <3>1, FS_RemoveElement
      <3>3. /\ Cardinality(links') <= Cardinality(links) + 1
            /\ Cardinality(links) \in Nat /\ Cardinality(links') \in Nat
        <4>1. /\ IsFiniteSet(links) /\ Cardinality(links) \in Nat
              /\ Cardinality(links') \in Nat
          BY <1>1, <2>5, FS_CardinalityType DEF AccountTypeOK
        <4>2. CASE req[b].id \in links
          <5>1. links' = links
            BY <2>3, <4>2
          <5> QED BY <4>1, <5>1
        <4>3. CASE req[b].id \notin links
          <5>1. Cardinality(links \cup {req[b].id}) = Cardinality(links) + 1
            BY <4>1, <4>3, FS_AddElement
          <5> QED BY <2>3, <4>1, <5>1
        <4> QED BY <4>2, <4>3
      <3>4. Cardinality(links) + Cardinality(Issuers) <= Cardinality(Browsers) + upsets
        BY <1>1 DEF LiveLinksBounded, Issuers
      <3>5. Cardinality(links') + Cardinality(Issuers') <= Cardinality(Browsers) + upsets'
        BY <1>1, <2>3, <3>1, <3>2, <3>3, <3>4 DEF AccountTypeOK
      <3> QED BY <3>5 DEF LiveLinksBounded, Issuers
    <2> QED BY <2>5, <2>6, <2>7, <2>8, <2>10, <2>11 DEF AccountInv
  <1>3. CASE CreateOAuthAccount(b)
    <2>1. req[b] \in Callbacks /\ req[b].provider \in Providers
      BY <1>1, <1>3, Carried DEF CreateOAuthAccount, At, Callbacks
    <2>2. PICK r : Going(r) /\ req' = [req EXCEPT ![b] = r] /\ r.op # "disconnect"
      <3>1. /\ Going([req[b] EXCEPT !.at = "session"])
            /\ [req[b] EXCEPT !.at = "session"].op # "disconnect"
        BY <2>1 DEF Callbacks, Going, AccountRequests
      <3>2. Going(Idle) /\ Idle.op # "disconnect"
        BY IdleGoes DEF Idle
      <3> QED BY <1>3, <3>1, <3>2 DEF CreateOAuthAccount, Done, Goto
    <2>3. /\ row' = row /\ raced' = raced /\ tokens' = tokens /\ links' = links
          /\ mailbox' = mailbox /\ broken' = broken /\ asked' = asked /\ upsets' = upsets
          /\ linked' = linked \cup {req[b].provider}
      BY <1>3 DEF CreateOAuthAccount, linkVars, rest, Quiet
    <2>4. /\ req'[b] = r
          /\ \A c \in Browsers : c # b => req'[c] = req[c]
      BY <1>1, <2>2 DEF AccountTypeOK
    <2>5. AccountTypeOK'
      BY <1>1, <2>1, <2>2, <2>3 DEF AccountTypeOK, Going
    <2>6. SignInKept'
      BY <2>3 DEF SignInKept, WayIn
    <2>7. PasswordStays'
      BY <1>1, <2>2, <2>3, <2>4 DEF PasswordStays
    <2>8. OneStays'
      BY <1>1, <2>2, <2>3, <2>4 DEF OneStays, At
    <2>9. Issuers' \subseteq Issuers
      BY <2>2, <2>4 DEF Issuers, Going
    <2>10. upsets <= upsets'
      BY <1>1, <2>3 DEF AccountTypeOK
    <2> QED BY <2>3, <2>5, <2>6, <2>7, <2>8, <2>9, <2>10, LinksStay DEF AccountInv
  <1>4. CASE ListAccounts(b)
    <2>1. req[b] \in Disconnects
      BY <1>1, <1>4, Carried DEF ListAccounts, At
    <2>2. /\ row' = row /\ linked' = linked /\ tokens' = tokens /\ links' = links
          /\ mailbox' = mailbox /\ broken' = broken /\ asked' = asked /\ upsets' = upsets
          /\ raced' = (raced \/ \E c \in Browsers : At(c, "disconnect", "delete"))
          /\ At(b, "disconnect", "list")
      BY <1>4 DEF ListAccounts, data, linkVars, rest
    <2>5. /\ raced => raced'
          /\ \A c \in Browsers : At(c, "disconnect", "delete") => raced'
      BY <2>2, Zenon
    <2>3. CASE /\ CanDisconnectOAuth(req[b].hasPassword, linked)
               /\ Goto(b, "delete")
      <3> DEFINE r == [req[b] EXCEPT !.at = "delete"]
      <3>1. /\ r \in Disconnects /\ r.at = "delete" /\ r.op = "disconnect"
            /\ r.provider = req[b].provider /\ r.hasPassword = req[b].hasPassword
            /\ req' = [req EXCEPT ![b] = r]
        BY <2>1, <2>3 DEF Disconnects, Goto
      <3> HIDE DEF r
      <3>2. /\ req'[b] = r
            /\ \A c \in Browsers : c # b => req'[c] = req[c]
        BY <1>1, <3>1 DEF AccountTypeOK
      <3>3. AccountTypeOK'
        BY <1>1, <2>2, <3>1 DEF AccountTypeOK, AccountRequests
      <3>4. SignInKept'
        BY <1>1, <2>2, <3>2 DEF SignInKept, Alive, WayIn, At, Unfinished
      <3>5. PasswordStays'
        BY <1>1, <2>2, <3>1, <3>2 DEF PasswordStays, At
      <3>6. row.password # None \/ linked \ {req[b].provider} # {}
        <4>1. CASE req[b].hasPassword
          BY <1>1, <2>2, <4>1 DEF PasswordStays, At
        <4>2. CASE Cardinality(linked) > 1
          <5>1. SUFFICES ASSUME linked \subseteq {req[b].provider} PROVE FALSE
            OBVIOUS
          <5>2. IsFiniteSet({req[b].provider}) /\ Cardinality({req[b].provider}) = 1
            BY FS_Singleton
          <5>3. Cardinality(linked) <= 1 /\ Cardinality(linked) \in Nat
            BY <5>1, <5>2, FS_Subset, FS_CardinalityType
          <5> QED BY <4>2, <5>3
        <4> QED BY <2>3, <4>1, <4>2 DEF CanDisconnectOAuth
      <3>7. OneStays'
        BY <1>1, <2>2, <2>5, <3>1, <3>2, <3>6 DEF OneStays, At
      <3>8. Issuers' \subseteq Issuers /\ upsets <= upsets'
        BY <1>1, <2>2, <3>1, <3>2 DEF Issuers, AccountTypeOK
      <3> QED BY <2>2, <3>3, <3>4, <3>5, <3>7, <3>8, LinksStay DEF AccountInv
    <2>4. CASE Done(b)
      <3>1. /\ req'[b] = Idle
            /\ \A c \in Browsers : c # b => req'[c] = req[c]
        BY <1>1, <2>4 DEF AccountTypeOK, Done
      <3>3. AccountTypeOK'
        BY <1>1, <2>2, <2>4 DEF AccountTypeOK, AccountRequests, Done
      <3>4. SignInKept'
        BY <1>1, <2>2, <3>1 DEF SignInKept, Alive, WayIn, At, Unfinished
      <3>5. PasswordStays'
        BY <1>1, <2>2, <3>1 DEF PasswordStays, Idle
      <3>7. OneStays'
        BY <1>1, <2>2, <2>5, <3>1 DEF OneStays, At, Idle
      <3>8. Issuers' \subseteq Issuers /\ upsets <= upsets'
        BY <1>1, <2>2, <3>1 DEF Issuers, AccountTypeOK, Idle
      <3> QED BY <2>2, <3>3, <3>4, <3>5, <3>7, <3>8, LinksStay DEF AccountInv
    <2> QED BY <1>4, <2>3, <2>4 DEF ListAccounts
  <1>5. CASE DeleteOAuthAccount(b)
    <2>1. /\ row' = row /\ raced' = raced /\ tokens' = tokens /\ links' = links
          /\ mailbox' = mailbox /\ broken' = broken /\ asked' = asked /\ upsets' = upsets
          /\ linked' = linked \ {req[b].provider} /\ At(b, "disconnect", "delete")
          /\ req' = [req EXCEPT ![b] = Idle]
      BY <1>5 DEF DeleteOAuthAccount, linkVars, rest, Quiet, Done
    <2>2. /\ req'[b] = Idle
          /\ \A c \in Browsers : c # b => req'[c] = req[c]
      BY <1>1, <2>1 DEF AccountTypeOK
    <2>3. AccountTypeOK'
      BY <1>1, <2>1 DEF AccountTypeOK, AccountRequests
    <2>4. SignInKept'
      BY <1>1, <2>1 DEF SignInKept, Alive, WayIn, OneStays
    <2>5. PasswordStays'
      BY <1>1, <2>1, <2>2 DEF PasswordStays, Idle
    <2>6. OneStays'
      BY <1>1, <2>1, <2>2 DEF OneStays, At, Idle
    <2>7. Issuers' \subseteq Issuers /\ upsets <= upsets'
      BY <1>1, <2>1, <2>2 DEF Issuers, AccountTypeOK, Idle
    <2> QED BY <2>1, <2>3, <2>4, <2>5, <2>6, <2>7, LinksStay DEF AccountInv
  <1>6. CASE UpdateUserPassword(b)
    <2>1. req[b] \in NewPasswords /\ req[b].password \in Passwords
          /\ req[b].password # None
      BY <1>1, <1>6, Carried, ConstantsAssumption DEF UpdateUserPassword, At, NewPasswords
    <2>2. /\ linked' = linked /\ raced' = raced /\ tokens' = tokens /\ links' = links
          /\ mailbox' = mailbox /\ broken' = broken /\ asked' = asked /\ upsets' = upsets
          /\ req' = [req EXCEPT ![b] = Idle] /\ At(b, "password", "update")
      BY <1>6 DEF UpdateUserPassword, linkVars, rest, Quiet, Done
    <2>3. /\ row' \in UserRows /\ row'.there = row.there /\ row'.deleted = row.deleted
          /\ (row'.password # None <=> row.password # None \/ Alive)
      BY <1>1, <1>6, <2>1 DEF UpdateUserPassword, UserRows, Alive, AccountTypeOK
    <2>4. /\ req'[b] = Idle
          /\ \A c \in Browsers : c # b => req'[c] = req[c]
      BY <1>1, <2>2 DEF AccountTypeOK
    <2>5. AccountTypeOK'
      BY <1>1, <2>2, <2>3 DEF AccountTypeOK, AccountRequests
    <2>6. SignInKept'
      BY <2>3 DEF SignInKept, Alive, WayIn
    <2>7. PasswordStays'
      BY <1>1, <2>3, <2>4 DEF PasswordStays, Idle, Alive
    <2>8. OneStays'
      BY <1>1, <2>2, <2>3, <2>4 DEF OneStays, At, Idle
    <2>9. Issuers' \subseteq Issuers /\ upsets <= upsets'
      BY <1>1, <2>2, <2>4 DEF Issuers, AccountTypeOK, Idle
    <2> QED BY <2>2, <2>3, <2>5, <2>6, <2>7, <2>8, <2>9, LinksStay DEF AccountInv
  <1>7. CASE DeleteUserEmailVerifications(b)
    <2>1. /\ row' = row /\ linked' = linked /\ raced' = raced /\ tokens' = tokens
          /\ mailbox' = mailbox /\ broken' = broken /\ asked' = asked
          /\ links' \subseteq links /\ upsets' \in Nat /\ upsets <= upsets'
          /\ At(b, "resend", "delete")
          /\ \/ links' = {}
             \/ ~Alive
             \/ links' = links /\ upsets' = upsets + 1
      BY <1>1, <1>7 DEF DeleteUserEmailVerifications, rest, AccountTypeOK
    <2>2. CASE ~Alive
      <3>1. req' = [req EXCEPT ![b] = Idle] /\ req[b].at \notin Unfinished
        BY <1>7, <2>2, <2>1 DEF DeleteUserEmailVerifications, Done, At, Unfinished
      <3>2. AccountTypeOK'
        BY <1>1, <2>1, <3>1, FS_Subset DEF AccountTypeOK, AccountRequests
      <3> QED BY <2>1, <3>1, <3>2, IdleGoes, Moving
    <2>3. CASE Alive
      <3> DEFINE r == [req[b] EXCEPT !.at = "issue"]
      <3>1. /\ r \in MailRequests /\ r.op = "resend" /\ r.at = "issue"
            /\ req' = [req EXCEPT ![b] = r]
        BY <1>1, <1>7, <2>1, <2>3, Carried
        DEF DeleteUserEmailVerifications, Goto, MailRequests, At
      <3> HIDE DEF r
      <3>2. /\ req'[b] = r
            /\ \A c \in Browsers : c # b => req'[c] = req[c]
        BY <1>1, <3>1 DEF AccountTypeOK
      <3>3. AccountTypeOK'
        BY <1>1, <2>1, <3>1, FS_Subset DEF AccountTypeOK, AccountRequests
      <3>4. SignInKept'
        BY <1>1, <2>1, <3>2 DEF SignInKept, Alive, WayIn, At, Unfinished
      <3>5. PasswordStays'
        BY <1>1, <2>1, <3>1, <3>2 DEF PasswordStays
      <3>6. OneStays'
        BY <1>1, <2>1, <3>1, <3>2 DEF OneStays, At
      <3>7. NobodyBeforeRow'
        BY <2>1, <2>3 DEF NobodyBeforeRow, Alive
      <3>8. /\ Issuers' = Issuers \cup {b} /\ b \notin Issuers
        BY <2>1, <3>1, <3>2 DEF Issuers, At
      <3>9. /\ IsFiniteSet(Issuers) /\ Cardinality(Issuers) \in Nat
            /\ Cardinality(Browsers) \in Nat
            /\ Cardinality(Issuers') <= Cardinality(Browsers)
            /\ Cardinality(Issuers') \in Nat
        <4>1. Issuers' \in SUBSET Browsers /\ Issuers \in SUBSET Browsers
          BY DEF Issuers
        <4> QED BY <4>1, IssuersAreFew
      <3>10. Cardinality(Issuers') = Cardinality(Issuers) + 1
        BY <3>8, <3>9, FS_AddElement
      <3>11. Cardinality(links) + Cardinality(Issuers) <= Cardinality(Browsers) + upsets
        BY <1>1 DEF LiveLinksBounded, Issuers
      <3>12. Cardinality(links') + Cardinality(Issuers') <= Cardinality(Browsers) + upsets'
        <4>1. CASE links' = {}
          <5>1. Cardinality(links') = 0
            BY <4>1, FS_EmptySet
          <5> QED BY <2>1, <3>9, <5>1
        <4>2. CASE links' = links /\ upsets' = upsets + 1
          <5>1. Cardinality(links) \in Nat /\ upsets \in Nat
            BY <1>1, FS_CardinalityType DEF AccountTypeOK
          <5> QED BY <3>9, <3>10, <3>11, <4>2, <5>1
        <4> QED BY <2>1, <2>3, <4>1, <4>2
      <3>13. LiveLinksBounded'
        BY <3>12 DEF LiveLinksBounded, Issuers
      <3> QED BY <3>3, <3>4, <3>5, <3>6, <3>7, <3>13 DEF AccountInv
    <2> QED BY <2>2, <2>3
  <1> QED BY <1>2, <1>3, <1>4, <1>5, <1>6, <1>7

(* The end of a session touches nothing the invariant speaks of.           *)
LEMMA SessionEnds ==
  ASSUME AccountInv, AccountTypeOK', UNCHANGED <<row, linked, links, req, raced, broken>>,
         upsets <= upsets'
  PROVE  AccountInv'
  <1>1. /\ AccountTypeOK /\ SignInKept /\ PasswordStays /\ OneStays
    BY DEF AccountInv
  <1>2. SignInKept' /\ PasswordStays' /\ OneStays'
    BY <1>1 DEF SignInKept, Alive, WayIn, PasswordStays, OneStays, At
  <1>3. Issuers' \subseteq Issuers
    BY DEF Issuers
  <1> QED BY <1>2, <1>3, LinksStay DEF AccountInv

(* Every step keeps the invariant of the account.                          *)
LEMMA AccountStep == AccountInv /\ [Next]_vars => AccountInv'
  <1> SUFFICES ASSUME AccountInv, [Next]_vars PROVE AccountInv'
    OBVIOUS
  <1>0. AccountTypeOK
    BY DEF AccountInv
  <1>1. ASSUME NEW b \in Browsers, Statements(b) PROVE AccountInv'
    BY <1>1, QuietStatements, RowStatements, Creating, OtherStatements DEF Statements
  <1>2. ASSUME NEW b \in Browsers, Logout(b) \/ ExpireSession(b) PROVE AccountInv'
    <2>1. /\ AccountTypeOK' /\ UNCHANGED <<row, linked, links, req, raced, broken>>
          /\ upsets <= upsets'
      <3>1. /\ UNCHANGED <<row, linked, links, mailbox, tokens, req, raced, broken, asked>>
            /\ upsets' = upsets \/ upsets' = upsets + 1
        BY <1>2 DEF Logout, ExpireSession, data, linkVars, rest
      <3> QED BY <1>0, <3>1 DEF AccountTypeOK
    <2> QED BY <2>1, SessionEnds
  <1>3. CASE UNCHANGED vars
    <2>1. /\ AccountTypeOK' /\ UNCHANGED <<row, linked, links, req, raced, broken>>
          /\ upsets <= upsets'
      BY <1>0, <1>3 DEF vars, data, linkVars, rest, AccountTypeOK
    <2> QED BY <2>1, SessionEnds
  <1> QED BY <1>1, <1>2, <1>3, PagesStep, Failing DEF Next

(* The invariant of the account holds of every behaviour.                  *)
THEOREM AccountInvariance == Spec => []AccountInv
  BY InitAccount, AccountStep, PTL DEF Spec

(* The account keeps a way to sign in.                                     *)
THEOREM SignInStays == Spec => []KeepsSignIn
  <1>1. AccountInv => KeepsSignIn
    BY SameSignIn DEF AccountInv
  <1> QED BY <1>1, AccountInvariance, PTL

(* One live verification link for each request at work.                    *)
THEOREM LinksAreBounded == Spec => []LiveLinksBounded
  <1>1. AccountInv => LiveLinksBounded
    BY DEF AccountInv
  <1> QED BY <1>1, AccountInvariance, PTL

----------------------------------------------------------------------------
(* Plans: once the events are handled, the row says what Stripe says.      *)

SubStatuses == {"none", "deleted"} \cup StripeStatuses
Events == [sub : Checkouts, n : Nat \ {0}, kind : {"created", "updated", "deleted"},
           status : SubStatuses \ {"none"}]
PlanRows == [tier : Tiers, sub : Checkouts \cup {NoId}, customer : Checkouts \cup {NoId},
             status : {"none", "trialing", "active", "past_due", "canceled", "unpaid"},
             filesOf : Tiers, transformationsOf : Tiers]

PlanTypeOK ==
  /\ plan \in PlanRows
  /\ stripe \in [Checkouts -> SubStatuses]
  /\ outbox \subseteq Events
  /\ sent \in [Checkouts -> Nat] /\ seen \in [Checkouts -> Nat]
  /\ orderly \in BOOLEAN /\ meddled \in BOOLEAN
  /\ checkout \in [Checkouts -> {"start", "store", "session", "failed", "paid"}]
  /\ customerOf \in [Checkouts -> Checkouts \cup {NoId}]

\* Stripe has sent events of a subscription from its payment on.
SentSincePaid ==
  \A c \in Checkouts : /\ stripe[c] = "none" <=> sent[c] = 0
                       /\ checkout[c] # "paid" => sent[c] = 0
                       /\ seen[c] <= sent[c]

\* The first event is the creation, the last one says how the subscription is,
\* and nothing comes after the deletion.
EventsTellStripe ==
  \A e \in outbox :
    /\ e.n <= sent[e.sub]
    /\ e.n = 1 <=> e.kind = "created"
    /\ e.kind = "deleted" <=> e.status = "deleted"
    /\ e.kind = "deleted" => e.n = sent[e.sub]
    /\ e.n = sent[e.sub] => e.status = stripe[e.sub]

\* What was not handled yet is still to be delivered.
RestIsComing ==
  orderly => \A c \in Checkouts : \A n \in seen[c] + 1 .. sent[c] :
               \E e \in outbox : e.sub = c /\ e.n = n

\* The row follows the events of the only subscription.
Follows(c) ==
  IF seen[c] = sent[c] /\ stripe[c] = "deleted"
  THEN plan.tier = "free" /\ plan.status = "canceled" /\ plan.sub = NoId
  ELSE /\ plan.tier = "pro" /\ plan.sub = c
       /\ seen[c] = sent[c] => plan.status = MapStripeStatus(stripe[c])
PlanFollows ==
  orderly /\ ~meddled =>
    \A c \in Checkouts : Ever = {c} /\ seen[c] > 0 => Follows(c)

PlanInv ==
  PlanTypeOK /\ SentSincePaid /\ EventsTellStripe /\ RestIsComing /\ PlanFollows

(* The columns that are written get values that they can have.             *)
LEMMA HandlersFit ==
  ASSUME plan \in PlanRows, NEW e, e.sub \in Checkouts, e.status \in SubStatuses
  PROVE  /\ HandleSubscriptionCreated(e) => plan' \in PlanRows
         /\ HandleSubscriptionUpdated(e) => plan' \in PlanRows
         /\ HandleSubscriptionDeleted(e) => plan' \in PlanRows
  <1>1. HandleSubscriptionCreated(e) => plan' \in PlanRows
    BY DEF HandleSubscriptionCreated, MapStripeStatus, PlanRows, Tiers
  <1>2. HandleSubscriptionUpdated(e) => plan' \in PlanRows
    BY DEF HandleSubscriptionUpdated, MapStripeStatus, PlanRows
  <1>3. HandleSubscriptionDeleted(e) => plan' \in PlanRows
    BY DEF HandleSubscriptionDeleted, PlanRows, Tiers
  <1> QED BY <1>1, <1>2, <1>3

(* A trial and an enterprise upgrade write tiers and statuses that exist.  *)
LEMMA UpgradesFit ==
  ASSUME plan \in PlanRows,
         \/ \E c \in Clicks : ReadPlan(c) \/ StartTrial(c)
         \/ \E i \in Inquiries : UpdateUserToEnterprise(i)
  PROVE  plan' \in PlanRows
  <1>1. ASSUME NEW c \in Clicks, ReadPlan(c) PROVE plan' \in PlanRows
    BY <1>1 DEF ReadPlan
  <1>2. ASSUME NEW c \in Clicks, StartTrial(c) PROVE plan' \in PlanRows
    BY <1>2 DEF StartTrial, PlanRows, Tiers
  <1>3. ASSUME NEW i \in Inquiries, UpdateUserToEnterprise(i) PROVE plan' \in PlanRows
    BY <1>3 DEF UpdateUserToEnterprise, PlanRows, Tiers, SubStatuses
  <1> QED BY <1>1, <1>2, <1>3

(* What the variables hold stays well typed.                               *)
LEMMA PlanTypeStep == PlanTypeOK /\ [PlanNext]_planVars => PlanTypeOK'
  <1> SUFFICES ASSUME PlanTypeOK, [PlanNext]_planVars PROVE PlanTypeOK'
    OBVIOUS
  <1>0. plan \in PlanRows
    BY DEF PlanTypeOK
  <1> USE DEF PlanTypeOK, SubStatuses, Tiers, stripeVars, eventVars, checkoutVars,
              inquiryVars
  <1>1. ASSUME NEW c \in Clicks, ReadPlan(c) \/ StartTrial(c) PROVE PlanTypeOK'
    <2>1. UNCHANGED <<stripe, outbox, sent, seen, orderly, checkout, customerOf>>
      BY <1>1 DEF ReadPlan, StartTrial
    <2>2. plan' \in PlanRows /\ meddled' \in BOOLEAN
      BY <1>0, <1>1, UpgradesFit DEF ReadPlan, StartTrial
    <2> QED BY <2>1, <2>2
  <1>2. ASSUME NEW c \in Checkouts, FindCustomer(c) PROVE PlanTypeOK'
    BY <1>2 DEF FindCustomer, PlanRows
  <1>3. ASSUME NEW c \in Checkouts, StoreCustomer(c) PROVE PlanTypeOK'
    BY <1>3 DEF StoreCustomer, PlanRows
  <1>4. ASSUME NEW c \in Checkouts, NEW k \in {"created", "updated", "deleted"},
               NEW s \in SubStatuses \ {"none"}, Emit(c, k, s),
               checkout' = checkout \/ checkout' = [checkout EXCEPT ![c] = "paid"]
        PROVE  PlanTypeOK'
    <2>1. [sub |-> c, n |-> sent[c] + 1, kind |-> k, status |-> s] \in Events
      BY DEF Events
    <2> QED BY <1>4, <2>1 DEF Emit
  <1>5. ASSUME NEW e \in outbox, Deliver(e) PROVE PlanTypeOK'
    <2>1. e.sub \in Checkouts /\ e.n \in Nat /\ e.status \in SubStatuses
      BY DEF Events
    <2>2. plan' \in PlanRows /\ meddled' \in BOOLEAN
      <3>1. HandleEvent(e)
        BY <1>5 DEF Deliver
      <3>2. HandleSubscriptionCreated(e) => plan' \in PlanRows
        BY <1>0, <2>1, HandlersFit
      <3>3. HandleSubscriptionUpdated(e) => plan' \in PlanRows
        BY <1>0, <2>1, HandlersFit
      <3>4. HandleSubscriptionDeleted(e) => plan' \in PlanRows
        BY <1>0, <2>1, HandlersFit
      <3>5. meddled' \in BOOLEAN
        BY <3>1 DEF HandleEvent
      <3> QED BY <3>1, <3>2, <3>3, <3>4, <3>5 DEF HandleEvent
    <2>3. seen' \in [Checkouts -> Nat]
      BY <1>5, <2>1 DEF Deliver
    <2>4. outbox' \subseteq Events /\ orderly' \in BOOLEAN
          /\ UNCHANGED <<stripe, sent, checkout, customerOf>>
      BY <1>5 DEF Deliver
    <2> QED BY <2>2, <2>3, <2>4
  <1>6. ASSUME NEW t \in Tiers, UpdateUserTier(t) PROVE PlanTypeOK'
    BY <1>6 DEF UpdateUserTier, PlanRows
  <1>7. ASSUME NEW i \in Inquiries,
               \/ HasPending(i) \/ CreateEnterpriseInquiry(i) \/ UpdateUserToEnterprise(i)
               \/ \E d \in {"approved", "rejected"} : ProcessInquiry(i, d)
        PROVE  PlanTypeOK'
    <2>1. UNCHANGED <<stripe, outbox, sent, seen, orderly, checkout, customerOf>>
      BY <1>7
      DEF HasPending, CreateEnterpriseInquiry, UpdateUserToEnterprise, ProcessInquiry
    <2>2. CASE UpdateUserToEnterprise(i)
      BY <1>0, <2>1, <2>2, UpgradesFit DEF UpdateUserToEnterprise
    <2>3. CASE ~UpdateUserToEnterprise(i)
      <3>1. plan' = plan /\ meddled' = meddled
        BY <1>7, <2>3 DEF HasPending, CreateEnterpriseInquiry, ProcessInquiry
      <3> QED BY <2>1, <3>1
    <2> QED BY <2>2, <2>3
  <1>8. ASSUME NEW c \in Checkouts, Pay(c) \/ ChangeStatus(c) PROVE PlanTypeOK'
    BY <1>4, <1>8, PlanAssumption DEF Pay, ChangeStatus
  <1>9. ASSUME NEW e \in outbox, FailEvent(e) PROVE PlanTypeOK'
    BY <1>9 DEF FailEvent
  <1>10. CASE UNCHANGED planVars
    BY <1>10 DEF planVars
  <1> QED
    BY <1>1, <1>2, <1>3, <1>5, <1>6, <1>7, <1>8, <1>9, <1>10 DEF PlanNext

(* Whatever leaves events and subscriptions alone, and the plan, or wrote  *)
(* it past the subscription.                                               *)
LEMMA Beside ==
  ASSUME PlanInv, PlanTypeOK', UNCHANGED <<stripe, outbox, sent, seen, orderly>>,
         \A c \in Checkouts : checkout'[c] # "paid" => checkout[c] # "paid",
         \/ meddled'
         \/ meddled' = meddled /\ plan'.tier = plan.tier /\ plan'.sub = plan.sub
                               /\ plan'.status = plan.status
  PROVE  PlanInv'
  <1>1. SentSincePaid'
    BY DEF PlanInv, SentSincePaid
  <1>2. EventsTellStripe' /\ RestIsComing'
    BY DEF PlanInv, EventsTellStripe, RestIsComing
  <1>3. PlanFollows'
    BY DEF PlanInv, PlanFollows, Follows, Ever
  <1> QED BY <1>1, <1>2, <1>3 DEF PlanInv

(* Stripe sends the next event of a subscription.                          *)
LEMMA Emitting ==
  ASSUME PlanInv, PlanTypeOK', NEW c \in Checkouts,
         NEW k \in {"created", "updated", "deleted"}, NEW s \in SubStatuses \ {"none"},
         Emit(c, k, s),
         \/ /\ checkout[c] # "paid" /\ k = "created" /\ s # "deleted"
            /\ checkout' = [checkout EXCEPT ![c] = "paid"]
         \/ /\ stripe[c] \notin {"none", "deleted"} /\ checkout' = checkout
            /\ k # "created"
            /\ k = "deleted" <=> s = "deleted"
  PROVE  PlanInv'
  <1>1. PlanTypeOK /\ SentSincePaid /\ EventsTellStripe /\ RestIsComing /\ PlanFollows
    BY DEF PlanInv
  <1> DEFINE new == [sub |-> c, n |-> sent[c] + 1, kind |-> k, status |-> s]
  <1>2. /\ sent'[c] = sent[c] + 1 /\ stripe'[c] = s /\ outbox' = outbox \cup {new}
        /\ \A x \in Checkouts : x # c => sent'[x] = sent[x] /\ stripe'[x] = stripe[x]
        /\ UNCHANGED <<plan, meddled, seen, orderly>>
    BY <1>1 DEF Emit, PlanTypeOK
  <1>3. /\ sent[c] \in Nat /\ seen[c] \in Nat /\ seen[c] <= sent[c]
        /\ sent[c] = 0 <=> k = "created"
    BY <1>1 DEF PlanTypeOK, SentSincePaid
  <1>4. SentSincePaid'
    BY <1>1, <1>2, <1>3 DEF SentSincePaid, PlanTypeOK
  <1>5. EventsTellStripe'
    <2> SUFFICES ASSUME NEW e \in outbox'
                 PROVE  /\ e.n <= sent'[e.sub]
                        /\ e.n = 1 <=> e.kind = "created"
                        /\ e.kind = "deleted" <=> e.status = "deleted"
                        /\ e.kind = "deleted" => e.n = sent'[e.sub]
                        /\ e.n = sent'[e.sub] => e.status = stripe'[e.sub]
      BY DEF EventsTellStripe
    <2>1. CASE e = new
      BY <1>2, <1>3, <2>1
    <2>2. CASE e \in outbox
      <3>1. /\ e.sub \in Checkouts /\ e.n \in Nat /\ sent[e.sub] \in Nat
            /\ e.n <= sent[e.sub] /\ e.n # 0
            /\ e.n = 1 <=> e.kind = "created"
            /\ e.kind = "deleted" <=> e.status = "deleted"
            /\ e.kind = "deleted" => e.n = sent[e.sub]
            /\ e.n = sent[e.sub] => e.status = stripe[e.sub]
        BY <1>1, <2>2 DEF PlanTypeOK, Events, EventsTellStripe
      <3>2. CASE e.sub # c
        BY <1>2, <3>1, <3>2
      <3>3. CASE e.sub = c
        <4>1. e.kind # "deleted"
          <5>1. stripe[c] # "deleted" \/ sent[c] = 0
            BY <1>1 DEF SentSincePaid
          <5> QED BY <1>3, <3>1, <3>3, <5>1
        <4> QED BY <1>2, <1>3, <3>1, <3>3, <4>1
      <3> QED BY <3>2, <3>3
    <2> QED BY <1>2, <2>1, <2>2
  <1>6. RestIsComing'
    <2> SUFFICES ASSUME orderly, NEW x \in Checkouts, NEW n \in seen[x] + 1 .. sent'[x]
                 PROVE  \E e \in outbox' : e.sub = x /\ e.n = n
      BY <1>2 DEF RestIsComing
    <2>1. CASE x = c /\ n = sent[c] + 1
      <3>1. new \in outbox' /\ new.sub = c /\ new.n = sent[c] + 1
        BY <1>2
      <3> QED BY <2>1, <3>1
    <2>2. CASE ~(x = c /\ n = sent[c] + 1)
      <3>1. n \in seen[x] + 1 .. sent[x]
        BY <1>1, <1>2, <1>3, <2>2 DEF PlanTypeOK
      <3> QED BY <1>1, <1>2, <3>1 DEF RestIsComing
    <2> QED BY <2>1, <2>2
  <1>7. PlanFollows'
    <2> SUFFICES ASSUME orderly, ~meddled, NEW x \in Checkouts, Ever' = {x}, seen[x] > 0
                 PROVE  Follows(x)'
      BY <1>2 DEF PlanFollows
    <2>1. c \in Ever'
      BY <1>2 DEF Ever
    <2>2. x = c
      BY <2>1
    <2>3. stripe[c] \notin {"none", "deleted"}
      BY <1>1, <1>3, <2>2 DEF SentSincePaid, PlanTypeOK
    <2>4. Ever = {c}
      <3>1. Ever = Ever'
        BY <1>2, <2>3 DEF Ever
      <3> QED BY <3>1, <2>2
    <2>5. plan.tier = "pro" /\ plan.sub = c
      BY <1>1, <2>2, <2>3, <2>4 DEF PlanFollows, Follows
    <2> QED BY <1>2, <1>3, <2>2, <2>5 DEF Follows
  <1> QED BY <1>4, <1>5, <1>6, <1>7 DEF PlanInv

(* An event is handled.                                                    *)
LEMMA Delivering ==
  ASSUME PlanInv, PlanTypeOK', NEW e \in outbox, Deliver(e)
  PROVE  PlanInv'
  <1>1. PlanTypeOK /\ SentSincePaid /\ EventsTellStripe /\ RestIsComing /\ PlanFollows
    BY DEF PlanInv
  <1> DEFINE c == e.sub
  <1>2. /\ c \in Checkouts /\ e.n \in Nat /\ sent[c] \in Nat /\ seen[c] \in Nat
        /\ e.n <= sent[c]
        /\ e.n = 1 <=> e.kind = "created"
        /\ e.kind = "deleted" <=> e.status = "deleted"
        /\ e.kind = "deleted" => e.n = sent[c]
        /\ e.n = sent[c] => e.status = stripe[c]
        /\ e.n # 0 /\ seen[c] <= sent[c]
    BY <1>1 DEF PlanTypeOK, Events, EventsTellStripe, SentSincePaid
  <1>3. /\ UNCHANGED <<stripe, sent, checkout>>
        /\ outbox' \subseteq outbox /\ outbox \ {e} \subseteq outbox'
        /\ seen'[c] = IF e.n = seen[c] + 1 THEN e.n ELSE seen[c]
        /\ \A x \in Checkouts : x # c => seen'[x] = seen[x]
        /\ orderly' => orderly /\ e.n = seen[c] + 1
    BY <1>1, <1>2 DEF Deliver, stripeVars, checkoutVars, PlanTypeOK
  <1>4. SentSincePaid'
    BY <1>1, <1>2, <1>3 DEF SentSincePaid
  <1>5. EventsTellStripe'
    BY <1>1, <1>3 DEF EventsTellStripe
  <1>6. RestIsComing'
    <2> SUFFICES ASSUME orderly', NEW x \in Checkouts, NEW n \in seen'[x] + 1 .. sent[x]
                 PROVE  \E d \in outbox' : d.sub = x /\ d.n = n
      BY <1>3 DEF RestIsComing
    <2>1. n \in seen[x] + 1 .. sent[x] /\ (x = c => n # e.n)
      BY <1>1, <1>2, <1>3 DEF PlanTypeOK
    <2>2. PICK d \in outbox : d.sub = x /\ d.n = n
      BY <1>1, <1>3, <2>1 DEF RestIsComing
    <2>3. d # e
      BY <2>1, <2>2
    <2> QED BY <1>3, <2>2, <2>3
  <1>7. PlanFollows'
    <2> SUFFICES ASSUME orderly', ~meddled', NEW x \in Checkouts, Ever' = {x}, seen'[x] > 0
                 PROVE  Follows(x)'
      BY DEF PlanFollows
    <2>1. x = c /\ Ever = {c}
      <3>1. Ever' = Ever
        BY <1>3 DEF Ever
      <3>2. c \in Ever
        BY <1>1, <1>2 DEF Ever, SentSincePaid
      <3> QED BY <3>1, <3>2
    <2>2. orderly /\ e.n = seen[c] + 1 /\ seen'[c] = seen[c] + 1
      BY <1>3
    <2>3. CASE e.kind = "created"
      <3>1. HandleSubscriptionCreated(e)
        BY <2>3 DEF Deliver, HandleEvent
      <3>2. /\ plan'.tier = "pro" /\ plan'.sub = c
            /\ plan'.status = MapStripeStatus(e.status)
        BY <1>1, <3>1 DEF HandleSubscriptionCreated, PlanTypeOK, PlanRows
      <3>3. e.status # "deleted"
        BY <1>2, <2>3
      <3>4. seen'[c] = sent'[c] => stripe'[c] = e.status
        BY <1>2, <1>3, <2>2
      <3>5. ~(seen'[c] = sent'[c] /\ stripe'[c] = "deleted")
        BY <3>3, <3>4
      <3> QED BY <2>1, <3>2, <3>4, <3>5 DEF Follows
    <2>4. CASE e.kind # "created"
      <3>1. seen[c] > 0 /\ seen[c] # sent[c] /\ ~meddled
        BY <1>2, <2>2, <2>4 DEF Deliver, HandleEvent
      <3>2. plan.tier = "pro" /\ plan.sub = c
        BY <1>1, <1>2, <2>1, <2>2, <3>1 DEF PlanFollows, Follows
      <3>3. CASE e.kind = "updated"
        BY <1>1, <1>2, <1>3, <2>1, <2>2, <3>2, <3>3
        DEF Deliver, HandleEvent, HandleSubscriptionUpdated, Follows, PlanTypeOK, PlanRows
      <3>4. CASE e.kind = "deleted"
        <4>1. HandleSubscriptionDeleted(e)
          BY <3>4 DEF Deliver, HandleEvent
        <4>2. plan'.tier = "free" /\ plan'.status = "canceled" /\ plan'.sub = NoId
          BY <1>1, <4>1 DEF HandleSubscriptionDeleted, PlanTypeOK, PlanRows
        <4>3. seen'[c] = sent'[c] /\ stripe'[c] = "deleted"
          BY <1>2, <1>3, <2>2, <3>4
        <4> QED BY <2>1, <4>2, <4>3 DEF Follows
      <3> QED BY <2>4, <3>3, <3>4 DEF Deliver, HandleEvent
    <2> QED BY <2>3, <2>4
  <1> QED BY <1>4, <1>5, <1>6, <1>7 DEF PlanInv

(* Every step keeps the invariant of the plan.                             *)
LEMMA PlanStep == PlanInv /\ [PlanNext]_planVars => PlanInv'
  <1> SUFFICES ASSUME PlanInv, [PlanNext]_planVars PROVE PlanInv'
    OBVIOUS
  <1>1. PlanTypeOK /\ PlanTypeOK'
    BY PlanTypeStep DEF PlanInv
  <1> USE DEF stripeVars, eventVars, checkoutVars, inquiryVars
  <1>2. ASSUME NEW c \in Clicks, ReadPlan(c) \/ StartTrial(c) PROVE PlanInv'
    BY <1>1, <1>2, Beside DEF ReadPlan, StartTrial
  <1>3. ASSUME NEW c \in Checkouts, FindCustomer(c) PROVE PlanInv'
    BY <1>1, <1>3, Beside DEF FindCustomer, PlanTypeOK
  <1>4. ASSUME NEW c \in Checkouts, StoreCustomer(c) PROVE PlanInv'
    <2>1. plan'.tier = plan.tier /\ plan'.sub = plan.sub /\ plan'.status = plan.status
      BY <1>1, <1>4 DEF StoreCustomer, PlanTypeOK, PlanRows
    <2> QED BY <1>1, <1>4, <2>1, Beside DEF StoreCustomer, PlanTypeOK
  <1>5. ASSUME NEW c \in Checkouts, Pay(c) PROVE PlanInv'
    BY <1>1, <1>5, Emitting, PlanAssumption DEF Pay, SubStatuses
  <1>6. ASSUME NEW c \in Checkouts, ChangeStatus(c) PROVE PlanInv'
    BY <1>1, <1>6, Emitting, PlanAssumption DEF ChangeStatus, SubStatuses
  <1>7. ASSUME NEW e \in outbox, Deliver(e) PROVE PlanInv'
    BY <1>1, <1>7, Delivering
  <1>8. ASSUME NEW e \in outbox, FailEvent(e) PROVE PlanInv'
    BY <1>1, <1>8, Beside DEF FailEvent
  <1>9. ASSUME NEW t \in Tiers, UpdateUserTier(t) PROVE PlanInv'
    BY <1>1, <1>9, Beside DEF UpdateUserTier
  <1>10. ASSUME NEW i \in Inquiries,
                \/ HasPending(i) \/ CreateEnterpriseInquiry(i) \/ UpdateUserToEnterprise(i)
                \/ \E d \in {"approved", "rejected"} : ProcessInquiry(i, d)
         PROVE  PlanInv'
    BY <1>1, <1>10, Beside
    DEF HasPending, CreateEnterpriseInquiry, UpdateUserToEnterprise, ProcessInquiry
  <1>11. CASE UNCHANGED planVars
    BY <1>1, <1>11, Beside DEF planVars
  <1> QED
    BY <1>2, <1>3, <1>4, <1>5, <1>6, <1>7, <1>8, <1>9, <1>10, <1>11 DEF PlanNext

(* The invariant of the plan holds of every behaviour.                     *)
THEOREM PlanInvariance == PlanSpec => []PlanInv
  <1>1. PlanInit => PlanInv
    <2> SUFFICES ASSUME PlanInit PROVE PlanInv
      OBVIOUS
    <2>1. PlanTypeOK
      BY DEF PlanInit, PlanTypeOK, PlanRows, SubStatuses, Tiers
    <2>2. SentSincePaid /\ EventsTellStripe /\ RestIsComing /\ PlanFollows
      BY DEF PlanInit, SentSincePaid, EventsTellStripe, RestIsComing, PlanFollows
    <2> QED BY <2>1, <2>2 DEF PlanInv
  <1> QED BY <1>1, PlanStep, PTL DEF PlanSpec

(* Once everything was handled, the row says what Stripe says.             *)
THEOREM PlanSettles == PlanSpec => []SettledPlan
  <1>1. PlanInv => SettledPlan
    <2> SUFFICES ASSUME PlanInv, outbox = {}, orderly, ~meddled, Cardinality(Ever) = 1,
                        NEW c \in Ever
                 PROVE  IF stripe[c] = "deleted"
                        THEN plan.tier = "free" /\ plan.status = "canceled" /\ plan.sub = NoId
                        ELSE /\ plan.tier = "pro" /\ plan.sub = c
                             /\ plan.status = MapStripeStatus(stripe[c])
      BY DEF SettledPlan
    <2>1. PlanTypeOK /\ SentSincePaid /\ RestIsComing /\ PlanFollows /\ c \in Checkouts
      BY DEF PlanInv, Ever
    <2>2. Ever = {c}
      <3>1. IsFiniteSet(Ever)
        BY PlanAssumption, FS_Subset DEF Ever
      <3> QED BY <3>1, FS_Singleton
    <2>3. /\ sent[c] \in Nat /\ seen[c] \in Nat /\ sent[c] # 0 /\ seen[c] <= sent[c]
      BY <2>1 DEF PlanTypeOK, SentSincePaid, Ever
    <2>4. seen[c] = sent[c]
      <3>1. CASE seen[c] < sent[c]
        <4>1. sent[c] \in seen[c] + 1 .. sent[c]
          BY <2>3, <3>1
        <4> QED BY <2>1, <4>1 DEF RestIsComing
      <3> QED BY <2>3, <3>1
    <2> QED BY <2>1, <2>2, <2>3, <2>4 DEF PlanFollows, Follows
  <1> QED BY <1>1, PlanInvariance, PTL

----------------------------------------------------------------------------
(* Cli: what a command reports is true of every thing it was given.        *)

Verdicts == {"ok", "warned", "bad"}
Failures == {"unauthorized", "refused", "lost"}
Calls == Failures \cup {"none", "sent", "yes", "pending", "completed"}
Steps == {"queued", "done", "init", "upload", "chunk", "order", "delete", "download"}
         \cup Polls

CliTypeOK ==
  /\ command \in Commands \cup {Nothing}
  /\ stage \in {"input", "running", "ended"}
  /\ interrupted \in BOOLEAN
  /\ op \in [Things -> Steps]
  /\ call \in [Things -> Calls]
  /\ results \subseteq Things \X Verdicts
  /\ closed \in BOOLEAN
  /\ tally \in [Verdicts -> SUBSET Things]
  /\ errors \in Nat
  /\ session \in Nat
  /\ output \in {"directory", "file", "new", "new/"}
  /\ disk \in [Names -> Files \cup {Batch, "part", Nothing}]
  /\ stored \subseteq Things
  /\ status \in [Things -> {"pending", "completed"}]
  /\ queued \subseteq Things

\* What was or will be counted for x, whether the channel was read yet or not.
Praised == {x \in Things : x \in Successful \/ \E r \in results : r[1] = x /\ r[2] # "bad"}
Blamed == {x \in Things : x \in tally.bad \/ \E r \in results : r[1] = x /\ r[2] = "bad"}

Answered(x) == call[x] \notin Failures \cup {"none", "sent"}

\* What a command is given, and the operations that it can be at.
OpsFit ==
  /\ command = Nothing => stage = "ended"
  /\ command # Nothing => command.things \in Given(command.kind)
  /\ \A x \in Things :
       /\ op[x] # "done" =>
            command # Nothing /\ (x \in command.things \/ (x = Batch /\ command.kind = "batch"))
       /\ op[x] \notin {"queued", "done"} => stage = "running"
       /\ op[x] \in {"init", "chunk"} => command.kind = "video upload"
       /\ op[x] = "upload" => command.kind \in Uploading
       /\ op[x] = "delete" => command.kind = "delete"
       /\ op[x] = "download" => command.kind = "download"
       /\ command # Nothing /\ command.kind = "delete" =>
            op[x] \in {"queued", "delete", "done"}

\* A thing is counted when it is done, and then once.
JudgedOnce ==
  /\ Praised \cap Blamed = {}
  /\ \A x \in Praised \cup Blamed : 
       op[x] = "done" /\ command # Nothing /\ (x \in command.things \/ x = Batch)
  /\ command # Nothing =>
       \A x \in command.things : op[x] = "done" => x \in Praised \cup Blamed

\* Praise is deserved, and what deserves it stays.
UploadsAreThere ==
  command # Nothing /\ command.kind \in Uploading =>
    /\ Praised \subseteq stored \cup {Batch}
    /\ \A x \in Files : op[x] \in {"order", "wait", "watch"} => x \in stored
    /\ \A x \in Things : op[x] = "upload" /\ Answered(x) => x \in stored
ChunksMakeAVideo ==
  /\ session > 0 => command # Nothing /\ command.kind = "video upload"
  /\ session >= Chunks => command.things \subseteq stored
DeletedAreGone ==
  command # Nothing /\ command.kind = "delete" =>
    /\ Praised \cap stored = {}
    /\ \A x \in Things : op[x] = "delete" /\ Answered(x) => x \notin stored

\* Nothing is left to do or to count when a command ends.
EndedIsDone ==
  /\ stage = "ended" /\ command # Nothing =>
       /\ results = {}
       /\ \/ \A x \in command.things : op[x] = "done"
          \/ command.kind = "delete" /\ \A x \in command.things : op[x] = "queued"
  /\ stage = "input" => \A x \in command.things : op[x] = "queued"
  /\ results # {} => command # Nothing /\ command.kind \in Parallelised
  /\ closed => command # Nothing /\ \A x \in command.things : op[x] = "done"

CliInv ==
  /\ CliTypeOK /\ OpsFit /\ JudgedOnce
  /\ UploadsAreThere /\ ChunksMakeAVideo /\ DeletedAreGone /\ EndedIsDone

\* What an operation is for, and where it may follow from.
Fits(x, o) ==
  /\ o \in Steps \ {"queued", "done"}
  /\ o \in {"init", "chunk"} => command.kind = "video upload"
  /\ o = "upload" => command.kind \in Uploading
  /\ o = "delete" => command.kind = "delete"
  /\ o = "download" => command.kind = "download"
  /\ command.kind = "delete" => o = "delete"
  /\ o \in {"order", "wait", "watch"} /\ x \in Files /\ command.kind \in Uploading =>
       x \in stored

Deserved(x) ==
  /\ command.kind \in Uploading => x \in stored \cup {Batch}
  /\ command.kind = "delete" => x \notin stored

(* A command that was typed is one of the commands, given what suits it.   *)
LEMMA CommandFits ==
  ASSUME CliTypeOK, OpsFit, command # Nothing
  PROVE  /\ command \in Commands /\ command.kind \in Kinds /\ command.things \subseteq Things
         /\ command.things \in Given(command.kind)
  BY DEF CliTypeOK, OpsFit, Commands

(* Settling a thing counts it, now or through the channel.                 *)
LEMMA SettleCounts ==
  ASSUME CliTypeOK, NEW x \in Things, NEW v \in Verdicts, Settle(x, v)
  PROVE  /\ results' \subseteq Things \X Verdicts /\ tally' \in [Verdicts -> SUBSET Things]
         /\ op' \in [Things -> Steps] /\ call' \in [Things -> Calls]
         /\ op'[x] = "done" /\ call'[x] = "none"
         /\ \A y \in Things \ {x} : op'[y] = op[y] /\ call'[y] = call[y]
         /\ results' # {} => results # {} \/ command.kind \in Parallelised
         /\ Praised' = IF v = "bad" THEN Praised ELSE Praised \cup {x}
         /\ Blamed' = IF v = "bad" THEN Blamed \cup {x} ELSE Blamed
  <1>1. /\ op' \in [Things -> Steps] /\ call' \in [Things -> Calls]
        /\ op'[x] = "done" /\ call'[x] = "none"
        /\ \A y \in Things \ {x} : op'[y] = op[y] /\ call'[y] = call[y]
    BY DEF Settle, CliTypeOK, Steps, Calls
  <1>2. CASE command.kind \in Parallelised
    <2>1. results' = results \cup {<<x, v>>} /\ tally' = tally
      BY <1>2 DEF Settle
    <2>2. <<x, v>>[1] = x /\ <<x, v>>[2] = v /\ <<x, v>> \in Things \X Verdicts
      OBVIOUS
    <2>3. Praised' = IF v = "bad" THEN Praised ELSE Praised \cup {x}
      BY <2>1, <2>2 DEF Praised, Successful, Verdicts
    <2>4. Blamed' = IF v = "bad" THEN Blamed \cup {x} ELSE Blamed
      BY <2>1, <2>2 DEF Blamed, Verdicts
    <2> QED BY <1>1, <1>2, <2>1, <2>2, <2>3, <2>4 DEF CliTypeOK
  <1>3. CASE command.kind \notin Parallelised
    <2>1. results' = results /\ tally' = [tally EXCEPT ![v] = @ \cup {x}]
      BY <1>3 DEF Settle, Counted
    <2>2. /\ tally' \in [Verdicts -> SUBSET Things]
          /\ tally'[v] = tally[v] \cup {x}
          /\ \A w \in Verdicts \ {v} : tally'[w] = tally[w]
      BY <2>1 DEF CliTypeOK
    <2>3. Praised' = IF v = "bad" THEN Praised ELSE Praised \cup {x}
      BY <2>1, <2>2 DEF Praised, Successful, Verdicts
    <2>4. Blamed' = IF v = "bad" THEN Blamed \cup {x} ELSE Blamed
      BY <2>1, <2>2 DEF Blamed, Verdicts
    <2> QED BY <1>1, <2>1, <2>2, <2>3, <2>4 DEF CliTypeOK
  <1> QED BY <1>2, <1>3

(* A thing is done with, deservedly if it is praised.                      *)
LEMMA Settling ==
  ASSUME CliInv, NEW x \in Things, NEW v \in Verdicts, Settle(x, v),
         stage = "running", op[x] # "done", v # "bad" => Deserved(x),
         UNCHANGED <<command, stage, interrupted, closed, network>>,
         errors' \in Nat, output' \in {"directory", "file", "new", "new/"},
         disk' \in [Names -> Files \cup {Batch, "part", Nothing}]
  PROVE  CliInv'
  <1>1. /\ CliTypeOK /\ OpsFit /\ JudgedOnce
        /\ UploadsAreThere /\ ChunksMakeAVideo /\ DeletedAreGone /\ EndedIsDone
    BY DEF CliInv
  <1>2. /\ results' \subseteq Things \X Verdicts /\ tally' \in [Verdicts -> SUBSET Things]
        /\ op' \in [Things -> Steps] /\ call' \in [Things -> Calls]
        /\ op'[x] = "done" /\ call'[x] = "none"
        /\ \A y \in Things \ {x} : op'[y] = op[y] /\ call'[y] = call[y]
        /\ results' # {} => results # {} \/ command.kind \in Parallelised
        /\ Praised' = IF v = "bad" THEN Praised ELSE Praised \cup {x}
        /\ Blamed' = IF v = "bad" THEN Blamed \cup {x} ELSE Blamed
    BY <1>1, SettleCounts
  <1>3. UNCHANGED <<command, stage, closed, session, stored, status, queued>>
    BY DEF network
  <1>4. CliTypeOK'
    BY <1>1, <1>2, <1>3 DEF CliTypeOK
  <1>5. OpsFit'
    BY <1>1, <1>2, <1>3 DEF OpsFit, Given
  <1>6. /\ command # Nothing /\ command.things \subseteq Things
        /\ x \in command.things \/ x = Batch
        /\ x \notin Praised \cup Blamed
    BY <1>1, CommandFits DEF OpsFit, JudgedOnce
  <1>7. JudgedOnce'
    <2>1. Praised' \cap Blamed' = {}
      BY <1>1, <1>2, <1>6 DEF JudgedOnce
    <2>2. Praised' \cup Blamed' = Praised \cup Blamed \cup {x}
      BY <1>2
    <2>3. ASSUME NEW y \in Praised' \cup Blamed'
          PROVE  /\ op'[y] = "done" /\ command' # Nothing
                 /\ y \in command'.things \/ y = Batch
      <3>1. CASE y = x
        BY <1>2, <1>3, <1>6, <3>1
      <3>2. CASE y # x
        <4>1. y \in Praised \cup Blamed /\ y \in Things
          BY <2>2, <3>2 DEF Praised, Blamed
        <4> QED BY <1>1, <1>2, <1>3, <3>2, <4>1 DEF JudgedOnce
      <3> QED BY <3>1, <3>2
    <2>4. ASSUME NEW y \in command'.things, op'[y] = "done"
          PROVE  y \in Praised' \cup Blamed'
      BY <1>1, <1>2, <1>3, <1>6, <2>2, <2>4 DEF JudgedOnce
    <2> QED BY <2>1, <2>3, <2>4 DEF JudgedOnce
  <1>8. UploadsAreThere'
    BY <1>1, <1>2, <1>3 DEF UploadsAreThere, Deserved, Answered, Things
  <1>9. ChunksMakeAVideo'
    BY <1>1, <1>3 DEF ChunksMakeAVideo
  <1>10. DeletedAreGone'
    BY <1>1, <1>2, <1>3 DEF DeletedAreGone, Deserved, Answered
  <1>11. EndedIsDone'
    BY <1>1, <1>2, <1>3, <1>6 DEF EndedIsDone
  <1> QED BY <1>4, <1>5, <1>7, <1>8, <1>9, <1>10, <1>11 DEF CliInv

(* The next request of a thing, or the wait for its ticker.                *)
LEMMA Sending ==
  ASSUME CliInv, NEW x \in Things, NEW o, NEW c \in {"none", "sent", "lost"},
         op' = [op EXCEPT ![x] = o], call' = [call EXCEPT ![x] = c],
         command # Nothing, x \in command.things \/ (x = Batch /\ command.kind = "batch"),
         stage = "running", Fits(x, o), x \notin Praised \cup Blamed,
         op[x] # "done" \/ x \notin command.things,
         UNCHANGED <<command, stage, interrupted, results, closed, tally, local, network>>,
         errors' \in Nat
  PROVE  CliInv'
  <1>1. /\ CliTypeOK /\ OpsFit /\ JudgedOnce
        /\ UploadsAreThere /\ ChunksMakeAVideo /\ DeletedAreGone /\ EndedIsDone
    BY DEF CliInv
  <1>2. /\ UNCHANGED <<command, stage, results, closed, tally, session, stored, status,
                       queued, output, disk>>
        /\ Praised' = Praised /\ Blamed' = Blamed
    BY DEF network, local, Praised, Blamed, Successful
  <1>3. /\ o \in Steps \ {"queued", "done"}
        /\ op' \in [Things -> Steps] /\ call' \in [Things -> Calls]
        /\ op'[x] = o /\ ~Answered(x)'
        /\ \A y \in Things \ {x} : op'[y] = op[y] /\ Answered(y)' = Answered(y)
    BY <1>1 DEF CliTypeOK, Fits, Steps, Calls, Answered, Failures
  <1>4. CliTypeOK'
    BY <1>1, <1>2, <1>3 DEF CliTypeOK
  <1>5. OpsFit'
    BY <1>1, <1>2, <1>3 DEF OpsFit, Given, Fits
  <1>6. JudgedOnce'
    BY <1>1, <1>2, <1>3 DEF JudgedOnce
  <1>7. UploadsAreThere'
    BY <1>1, <1>2, <1>3 DEF UploadsAreThere, Fits, Things
  <1>8. ChunksMakeAVideo'
    BY <1>1, <1>2 DEF ChunksMakeAVideo
  <1>9. DeletedAreGone'
    BY <1>1, <1>2, <1>3 DEF DeletedAreGone
  <1>10. EndedIsDone'
    BY <1>1, <1>2, <1>3 DEF EndedIsDone
  <1> QED BY <1>4, <1>5, <1>6, <1>7, <1>8, <1>9, <1>10 DEF CliInv

(* The API answers, does nothing, or the answer is lost.                   *)
LEMMA Answering ==
  ASSUME CliInv, NEW x \in Things, NEW a \in Calls, call[x] = "sent",
         call' = [call EXCEPT ![x] = a],
         UNCHANGED <<command, stage, interrupted, op, results, closed, tally, errors, local>>,
         session' \in Nat, stored' \subseteq Things, queued' \subseteq Things,
         status' \in [Things -> {"pending", "completed"}],
         stored' # stored => command.kind \in Uploading \/ op[x] = "delete",
         op[x] = "delete" => stored' \subseteq stored,
         op[x] = "delete" /\ a \notin Failures \cup {"none", "sent"} => x \notin stored',
         op[x] # "delete" => stored \subseteq stored',
         op[x] = "upload" /\ a \notin Failures \cup {"none", "sent"} => x \in stored',
         session' > 0 => session > 0 \/ op[x] = "chunk",
         session' >= Chunks => session >= Chunks \/ (op[x] = "chunk" /\ x \in stored')
  PROVE  CliInv'
  <1>1. /\ CliTypeOK /\ OpsFit /\ JudgedOnce
        /\ UploadsAreThere /\ ChunksMakeAVideo /\ DeletedAreGone /\ EndedIsDone
    BY DEF CliInv
  <1>2. /\ UNCHANGED <<command, stage, op, results, closed, tally, output, disk>>
        /\ Praised' = Praised /\ Blamed' = Blamed
    BY DEF local, Praised, Blamed, Successful
  <1>3. /\ Answered(x)' <=> a \notin Failures \cup {"none", "sent"}
        /\ \A y \in Things \ {x} : Answered(y)' = Answered(y)
    BY <1>1 DEF CliTypeOK, Answered
  <1>4. CliTypeOK'
    BY <1>1, <1>2 DEF CliTypeOK
  <1>5. OpsFit'
    BY <1>1, <1>2 DEF OpsFit, Given
  <1>10. JudgedOnce'
    BY <1>1, <1>2 DEF JudgedOnce
  <1>11. EndedIsDone'
    BY <1>1, <1>2 DEF EndedIsDone
  <1>6. /\ op[x] # "done" => 
             command # Nothing /\ (x \in command.things \/ (x = Batch /\ command.kind = "batch"))
        /\ command # Nothing => command.things \subseteq Things
        /\ op[x] = "delete" => command.kind = "delete"
        /\ op[x] = "chunk" => command.kind = "video upload"
    BY <1>1, CommandFits DEF OpsFit
  <1>7. UploadsAreThere'
    <2> SUFFICES ASSUME command # Nothing, command.kind \in Uploading
                 PROVE  UploadsAreThere'
      BY <1>2 DEF UploadsAreThere
    <2>1. op[x] # "delete"
      BY <1>6 DEF Uploading, Parallelised
    <2> QED BY <1>1, <1>2, <1>3, <2>1 DEF UploadsAreThere
  <1>8. ChunksMakeAVideo'
    <2>1. session' > 0 => command # Nothing /\ command.kind = "video upload"
      BY <1>1, <1>6 DEF ChunksMakeAVideo
    <2> SUFFICES ASSUME session' >= Chunks PROVE command.things \subseteq stored'
      BY <1>2, <2>1 DEF ChunksMakeAVideo
    <2>2. CASE session >= Chunks
      <3>1. session > 0
        BY <1>1, <2>2, CliAssumption DEF CliTypeOK
      <3>2. command.kind = "video upload" /\ op[x] # "delete"
        BY <1>1, <1>6, <3>1 DEF ChunksMakeAVideo
      <3> QED BY <1>1, <2>2, <3>2 DEF ChunksMakeAVideo
    <2>3. CASE op[x] = "chunk" /\ x \in stored'
      <3>1. PICK f \in Files : command.things = {f}
        BY <1>1, <1>6, <2>3 DEF OpsFit, Given, Single
      <3>2. x = f
        BY <1>6, <2>3, <3>1, CliAssumption
      <3> QED BY <2>3, <3>1, <3>2
    <2> QED BY <2>2, <2>3
  <1>9. DeletedAreGone'
    <2> SUFFICES ASSUME command # Nothing, command.kind = "delete" PROVE DeletedAreGone'
      BY <1>2 DEF DeletedAreGone
    <2>1. stored' \subseteq stored
      BY DEF Uploading, Parallelised
    <2> QED BY <1>1, <1>2, <1>3, <2>1 DEF DeletedAreGone
  <1> QED BY <1>4, <1>5, <1>7, <1>8, <1>9, <1>10, <1>11 DEF CliInv

(* The channel is read: who is praised and blamed does not change.         *)
LEMMA Collecting ==
  ASSUME CliInv, Collect
  PROVE  CliInv'
  <1>1. /\ CliTypeOK /\ OpsFit /\ JudgedOnce
        /\ UploadsAreThere /\ ChunksMakeAVideo /\ DeletedAreGone /\ EndedIsDone
    BY DEF CliInv
  <1>2. PICK r \in results : results' = results \ {r} /\ tally' = Counted(r[1], r[2])
    BY DEF Collect
  <1>3. PICK x \in Things, v \in Verdicts : r = <<x, v>>
    BY <1>1, <1>2 DEF CliTypeOK
  <1>4. /\ tally' \in [Verdicts -> SUBSET Things]
        /\ tally'[v] = tally[v] \cup {x}
        /\ \A w \in Verdicts \ {v} : tally'[w] = tally[w]
    <2>1. tally' = [tally EXCEPT ![v] = @ \cup {x}]
      BY <1>2, <1>3 DEF Counted
    <2> QED BY <1>1, <2>1 DEF CliTypeOK
  <1>5. Praised' = Praised
    BY <1>2, <1>3, <1>4 DEF Praised, Successful, Verdicts
  <1>6. Blamed' = Blamed
    BY <1>2, <1>3, <1>4 DEF Blamed, Verdicts
  <1>7. /\ UNCHANGED <<command, stage, interrupted, op, call, closed, errors, output, disk,
                       session, stored, status, queued>>
        /\ results' \subseteq results /\ stage = "running"
    BY <1>2 DEF Collect, local, network
  <1>8. CliTypeOK'
    BY <1>1, <1>4, <1>7 DEF CliTypeOK
  <1>9. OpsFit' /\ JudgedOnce' /\ EndedIsDone'
    BY <1>1, <1>5, <1>6, <1>7 DEF OpsFit, JudgedOnce, EndedIsDone, Given
  <1>10. UploadsAreThere' /\ ChunksMakeAVideo' /\ DeletedAreGone'
    BY <1>1, <1>5, <1>7 DEF UploadsAreThere, ChunksMakeAVideo, DeletedAreGone, Answered
  <1> QED BY <1>8, <1>9, <1>10 DEF CliInv

(* A command is typed: nothing is counted yet.                             *)
LEMMA Starting ==
  ASSUME CliInv, NEW kind \in Kinds, NEW things \in SUBSET Things, NEW wait \in BOOLEAN,
         NEW quiet \in BOOLEAN, NEW transcode \in BOOLEAN,
         Start(kind, things, wait, quiet, transcode)
  PROVE  CliInv'
  <1>1. /\ CliTypeOK /\ OpsFit /\ JudgedOnce
        /\ UploadsAreThere /\ ChunksMakeAVideo /\ DeletedAreGone /\ EndedIsDone
    BY DEF CliInv
  <1>2. /\ command = Nothing /\ things \in Given(kind)
        /\ command' = [kind |-> kind, things |-> things, wait |-> wait, quiet |-> quiet,
                       transcode |-> transcode]
        /\ stage' = IF kind \in {"upload --stdin", "delete"} THEN "input" ELSE "running"
        /\ op' = [x \in Things |-> IF x \in things THEN "queued" ELSE "done"]
        /\ UNCHANGED <<interrupted, call, results, closed, tally, errors, output, disk,
                       session, stored, status, queued>>
    BY DEF Start, local, network
  <1>3. command' \in Commands /\ command'.kind = kind /\ command'.things = things
        /\ command' # Nothing
    <2>1. command' \in Commands
      BY <1>2 DEF Commands
    <2> QED BY <1>2, <2>1, CliAssumption
  <1>4. Praised' = {} /\ Blamed' = {} /\ results = {} /\ closed = FALSE /\ session = 0
    <2>1. Praised' = Praised /\ Blamed' = Blamed
      BY <1>2 DEF Praised, Blamed, Successful
    <2>2. Praised = {} /\ Blamed = {}
      BY <1>1, <1>2 DEF JudgedOnce
    <2>3. results = {} /\ closed = FALSE
      BY <1>1, <1>2 DEF EndedIsDone, CliTypeOK
    <2>4. session = 0
      <3>1. session \in Nat /\ ~(session > 0)
        BY <1>1, <1>2 DEF ChunksMakeAVideo, CliTypeOK
      <3> QED BY <3>1
    <2> QED BY <2>1, <2>2, <2>3, <2>4
  <1>5. CliTypeOK'
    BY <1>1, <1>2, <1>3 DEF CliTypeOK, Steps
  <1>6. OpsFit'
    <2>1. \A x \in Things : op'[x] \in {"queued", "done"} /\ (op'[x] = "queued" => x \in things)
      BY <1>2
    <2>2. command'.things \in Given(command'.kind)
      BY <1>2, <1>3
    <2>3. /\ \A x \in Things : op'[x] # "done" => x \in command'.things
          /\ \A x \in Things : op'[x] = "queued" \/ op'[x] = "done"
      BY <1>3, <2>1
    <2> QED BY <1>3, <2>2, <2>3 DEF OpsFit
  <1>7. JudgedOnce'
    BY <1>2, <1>3, <1>4 DEF JudgedOnce
  <1>8. UploadsAreThere' /\ DeletedAreGone'
    <2>1. \A x \in Things : op'[x] \in {"queued", "done"}
      BY <1>2
    <2>2. Files \subseteq Things
      BY DEF Things
    <2> QED BY <1>4, <2>1, <2>2 DEF UploadsAreThere, DeletedAreGone
  <1>10. ChunksMakeAVideo'
    <2>1. session' = 0
      BY <1>2, <1>4
    <2>2. ~(session' > 0) /\ ~(session' >= Chunks)
      BY <2>1, CliAssumption
    <2> QED BY <2>2 DEF ChunksMakeAVideo
  <1>9. EndedIsDone'
    BY <1>2, <1>3, <1>4 DEF EndedIsDone
  <1> QED BY <1>5, <1>6, <1>7, <1>8, <1>9, <1>10 DEF CliInv

(* The command moves on as a whole: it reads its input, ends, closes the   *)
(* channel.                                                                *)
LEMMA CommandMoves ==
  ASSUME CliInv, stage' \in {"input", "running", "ended"},
         interrupted' \in BOOLEAN, closed' \in BOOLEAN,
         status' \in [Things -> {"pending", "completed"}], queued' \subseteq Things,
         UNCHANGED <<command, op, call, results, tally, errors, local, session, stored>>,
         EndedIsDone', stage = "ended" => stage' = "ended",
         \/ stage' = stage \/ stage' = "running"
         \/ \A x \in Things : op[x] \in {"queued", "done"}
  PROVE  CliInv'
  <1>1. /\ CliTypeOK /\ OpsFit /\ JudgedOnce
        /\ UploadsAreThere /\ ChunksMakeAVideo /\ DeletedAreGone /\ EndedIsDone
    BY DEF CliInv
  <1>2. Praised' = Praised /\ Blamed' = Blamed /\ UNCHANGED <<output, disk>>
    BY DEF Praised, Blamed, Successful, local
  <1>3. CliTypeOK' /\ OpsFit' /\ JudgedOnce'
    BY <1>1, <1>2 DEF CliTypeOK, OpsFit, JudgedOnce, Given
  <1>4. UploadsAreThere' /\ ChunksMakeAVideo' /\ DeletedAreGone'
    BY <1>1, <1>2 DEF UploadsAreThere, ChunksMakeAVideo, DeletedAreGone, Answered
  <1> QED BY <1>3, <1>4 DEF CliInv

(* Where a thing stands between its request and the answer.                *)
LEMMA AtWork ==
  ASSUME CliInv, NEW x \in Things, op[x] # "done"
  PROVE  /\ command # Nothing /\ command.kind \in Kinds
         /\ x \in command.things \/ (x = Batch /\ command.kind = "batch")
         /\ x \notin Praised \cup Blamed
         /\ call[x] \in Calls /\ op[x] \in Steps
         /\ op[x] # "queued" => stage = "running" /\ Fits(x, op[x])
  <1>1. CliTypeOK /\ OpsFit /\ JudgedOnce /\ UploadsAreThere
    BY DEF CliInv
  <1>2. command # Nothing /\ (x \in command.things \/ (x = Batch /\ command.kind = "batch"))
    BY <1>1 DEF OpsFit
  <1>3. x \notin Praised \cup Blamed
    BY <1>1 DEF JudgedOnce
  <1>4. op[x] \in Steps /\ call[x] \in Calls /\ command.kind \in Kinds
    BY <1>1, <1>2, CommandFits DEF CliTypeOK
  <1>5. ASSUME op[x] # "queued" PROVE stage = "running" /\ Fits(x, op[x])
    BY <1>1, <1>2, <1>4, <1>5 DEF OpsFit, UploadsAreThere, Fits
  <1> QED BY <1>2, <1>3, <1>4, <1>5

(* The first request of a thing suits the command.                         *)
LEMMA FirstFits ==
  ASSUME command.kind \in Kinds, NEW x \in Things
  PROVE  Fits(x, FirstOp(command.kind))
  BY DEF Fits, FirstOp, Kinds, Uploading, Parallelised, Single, Looping, Steps, Polls

(* Going on after an answer.                                               *)
LEMMA WorkGoesOn ==
  ASSUME CliInv, NEW x \in Things, NEW o, op[x] \notin {"queued", "done"},
         Fits(x, o), GoOn(x, o),
         UNCHANGED <<command, stage, interrupted, closed, local, network>>, errors' \in Nat
  PROVE  CliInv'
  <1>1. /\ command # Nothing /\ stage = "running" /\ x \notin Praised \cup Blamed
        /\ x \in command.things \/ (x = Batch /\ command.kind = "batch")
    BY AtWork
  <1> DEFINE c == IF o \in Polls THEN "none" ELSE IF interrupted THEN "lost" ELSE "sent"
  <1>2. /\ op' = [op EXCEPT ![x] = o] /\ call' = [call EXCEPT ![x] = c]
        /\ UNCHANGED <<results, tally>> /\ c \in {"none", "sent", "lost"}
    BY DEF GoOn
  <1> HIDE DEF c
  <1> QED BY <1>1, <1>2, Sending

(* An answer makes a thing done or takes it to its next request.           *)
LEMMA ReturnStep ==
  ASSUME CliInv, NEW x \in Things,
         \/ UploadReturns(x) \/ SocialUploadReturns(x) \/ PipeUploadReturns(x)
         \/ ChunkReturns(x) \/ FileEndsEarly(x) \/ OrderReturns(x) \/ DeleteReturns(x)
         \/ WaitReturns(x) \/ WatchReturns(x) \/ BatchWatchReturns(x)
         \/ WatchTimesOut(x) \/ WaitTimesOut(x)
  PROVE  CliInv'
  <1>1. /\ CliTypeOK /\ UploadsAreThere /\ ChunksMakeAVideo /\ DeletedAreGone /\ OpsFit
    BY DEF CliInv
  <1>2. op[x] \notin {"queued", "done"}
    BY DEF UploadReturns, SocialUploadReturns, PipeUploadReturns, ChunkReturns, FileEndsEarly,
           OrderReturns, DeleteReturns, WaitReturns, WatchReturns, BatchWatchReturns,
           WatchTimesOut, WaitTimesOut
  <1>3. /\ command # Nothing /\ command.kind \in Kinds /\ stage = "running"
        /\ x \in command.things \/ (x = Batch /\ command.kind = "batch")
        /\ call[x] \in Calls /\ Fits(x, op[x])
    BY <1>2, AtWork
  <1>4. errors \in Nat /\ output \in {"directory", "file", "new", "new/"}
        /\ disk \in [Names -> Files \cup {Batch, "part", Nothing}]
    BY <1>1 DEF CliTypeOK
  \* Whatever remains of a step is a settling or a going on.
  <1>5. ASSUME NEW v \in Verdicts, Settle(x, v), v # "bad" => Deserved(x), errors' \in Nat,
               UNCHANGED <<command, stage, interrupted, closed, local, network>>
        PROVE  CliInv'
    <2>1. UNCHANGED <<output, disk>>
      BY <1>5 DEF local
    <2> QED BY <1>2, <1>3, <1>4, <1>5, <2>1, Settling
  <1>6. ASSUME NEW o, GoOn(x, o), Fits(x, o), errors' \in Nat,
               UNCHANGED <<command, stage, interrupted, closed, local, network>>
        PROVE  CliInv'
    BY <1>2, <1>6, WorkGoesOn
  <1>7. Failed(x) <=> call[x] \in Failures
    BY DEF Failed, Failures
  <1>8. call[x] \notin {"none", "sent"} /\ ~Failed(x) => Answered(x)
    BY <1>7 DEF Answered
  <1>9. op[x] = "upload" /\ Answered(x) => command.kind \in Uploading /\ x \in stored
    BY <1>1, <1>3 DEF UploadsAreThere, Fits
  <1>10. op[x] \in {"order", "wait", "watch"} => Deserved(x)
    BY <1>3 DEF Fits, Deserved, Things
  <1>11. ASSUME x \in stored, command.kind \in Uploading
         PROVE  /\ Deserved(x)
                /\ \A o \in {"order", "wait", "watch"} : Fits(x, o)
    BY <1>11 DEF Deserved, Fits, Uploading, Parallelised, Steps, Polls
  <1>12. op[x] \in {"order", "wait", "watch"} => \A o \in {"wait", "watch"} : Fits(x, o)
    BY <1>3 DEF Fits, Steps, Polls
  <1>13. "bad" \in Verdicts /\ "ok" \in Verdicts /\ "warned" \in Verdicts
    BY DEF Verdicts
  <1>14. CASE UploadReturns(x)
    BY <1>4, <1>5, <1>8, <1>9, <1>11, <1>13, <1>14 DEF UploadReturns
  <1>15. CASE SocialUploadReturns(x)
    BY <1>4, <1>5, <1>6, <1>8, <1>9, <1>11, <1>13, <1>15 DEF SocialUploadReturns
  <1>16. CASE PipeUploadReturns(x)
    BY <1>4, <1>5, <1>6, <1>8, <1>9, <1>11, <1>13, <1>16 DEF PipeUploadReturns
  <1>17. CASE ChunkReturns(x)
    <2>1. op[x] \in {"init", "chunk"} /\ command.kind = "video upload"
      BY <1>3, <1>17 DEF ChunkReturns, Fits
    <2>2. Fits(x, "chunk")
      BY <2>1 DEF Fits, Steps
    <2>3. session >= Chunks => x \in stored
      BY <1>1, <1>3, <2>1 DEF ChunksMakeAVideo
    <2>4. ~(session < Chunks) => session >= Chunks
      BY <1>1, CliAssumption DEF CliTypeOK
    <2>5. command.kind \in Uploading
      BY <2>1 DEF Uploading
    <2> QED BY <1>4, <1>5, <1>6, <1>11, <1>13, <1>17, <2>2, <2>3, <2>4, <2>5 DEF ChunkReturns
  <1>18. CASE FileEndsEarly(x)
    BY <1>4, <1>5, <1>13, <1>18 DEF FileEndsEarly
  <1>19. CASE OrderReturns(x)
    BY <1>4, <1>5, <1>6, <1>10, <1>12, <1>13, <1>19 DEF OrderReturns
  <1>20. CASE DeleteReturns(x)
    <2>1. ~Failed(x) => Deserved(x)
      BY <1>1, <1>3, <1>8, <1>20
      DEF DeleteReturns, Fits, DeletedAreGone, Deserved, Uploading, Parallelised
    <2> QED BY <1>4, <1>5, <1>13, <1>20, <2>1 DEF DeleteReturns
  <1>21. CASE WaitReturns(x)
    BY <1>4, <1>5, <1>6, <1>10, <1>12, <1>13, <1>21 DEF WaitReturns
  <1>22. CASE WatchReturns(x) \/ BatchWatchReturns(x)
    <2>1. Watched(x) /\ op[x] = "watch"
      BY <1>22 DEF WatchReturns, BatchWatchReturns
    <2>2. errors' \in Nat
      BY <1>4, <2>1 DEF Watched
    <2> QED BY <1>5, <1>6, <1>10, <1>12, <1>13, <2>1, <2>2 DEF Watched
  <1>23. CASE WatchTimesOut(x)
    BY <1>4, <1>5, <1>13, <1>23 DEF WatchTimesOut
  <1>24. CASE WaitTimesOut(x)
    BY <1>4, <1>5, <1>10, <1>13, <1>24 DEF WaitTimesOut
  <1> QED BY <1>14, <1>15, <1>16, <1>17, <1>18, <1>19, <1>20, <1>21, <1>22, <1>23, <1>24

(* A download is counted and writes the local disk.                        *)
LEMMA DownloadStep ==
  ASSUME CliInv, NEW x \in Things, DownloadReturns(x) \/ DownloadBreaksOff(x)
  PROVE  CliInv'
  <1>1. op[x] = "download" /\ op[x] \notin {"queued", "done"}
    BY DEF DownloadReturns, DownloadBreaksOff
  <1>2. stage = "running" /\ command.kind = "download"
    BY <1>1, AtWork DEF Fits
  <1>3. Deserved(x)
    BY <1>2 DEF Deserved, Uploading, Parallelised
  <1>4. /\ errors \in Nat /\ output \in {"directory", "file", "new", "new/"}
        /\ disk \in [Names -> Files \cup {Batch, "part", Nothing}]
    BY DEF CliInv, CliTypeOK
  <1>5. /\ output' \in {"directory", "file", "new", "new/"}
        /\ disk' \in [Names -> Files \cup {Batch, "part", Nothing}]
    BY <1>4 DEF DownloadReturns, DownloadBreaksOff, local, Things
  <1>6. \E v \in {"ok", "bad"} : Settle(x, v)
    BY DEF DownloadReturns, DownloadBreaksOff
  <1>7. UNCHANGED <<command, stage, interrupted, closed, errors, network>>
    BY DEF DownloadReturns, DownloadBreaksOff
  <1> QED BY <1>1, <1>2, <1>3, <1>4, <1>5, <1>6, <1>7, Settling DEF Verdicts

(* The API answers or not.                                                 *)
LEMMA ServeStep ==
  ASSUME CliInv, NEW x \in Things, Serve(x) \/ Refuse(x) \/ CallFails(x)
  PROVE  CliInv'
  <1>1. CliTypeOK /\ session \in Nat /\ stored \subseteq Things /\ queued \subseteq Things
        /\ status \in [Things -> {"pending", "completed"}]
    BY DEF CliInv, CliTypeOK
  <1>2. call[x] = "sent"
        /\ UNCHANGED <<command, stage, interrupted, op, results, closed, tally, errors, local>>
    BY DEF Serve, Refuse, CallFails
  <1>3. CASE Refuse(x) \/ CallFails(x)
    <2>1. \E a \in Failures : call' = [call EXCEPT ![x] = a]
      BY <1>3 DEF Refuse, CallFails, Failures
    <2>2. UNCHANGED <<session, stored, status, queued>>
      BY <1>3 DEF Refuse, CallFails, network
    <2> QED BY <1>1, <1>2, <2>1, <2>2, Answering DEF Calls
  <1>4. CASE Serve(x)
    <2>1. PICK a \in {Answer(x), "lost"} : call' = [call EXCEPT ![x] = a]
      BY <1>4 DEF Serve
    <2>2. a \in Calls
      BY <1>1, <2>1 DEF Answer, Calls, Failures
    <2>3. op[x] \notin {"queued", "done"} \/ UNCHANGED network
      BY <1>4 DEF Serve
    <2>4. CASE op[x] = "upload"
      <3>1. stored' = stored \cup {x} /\ UNCHANGED <<session, status, queued>>
        BY <1>4, <2>4 DEF Serve, ServeUpload
      <3>2. command.kind \in Uploading
        BY <2>4 DEF CliInv, OpsFit
      <3> QED BY <1>1, <1>2, <2>1, <2>2, <2>4, <3>1, <3>2, Answering
    <2>5. CASE op[x] = "chunk"
      <3>1. /\ session' = session + 1
            /\ stored' = IF session' = Chunks THEN stored \cup {x} ELSE stored
            /\ UNCHANGED <<status, queued>>
        BY <1>4, <2>5 DEF Serve, ServeChunk
      <3>2. command.kind \in Uploading
        BY <2>5 DEF CliInv, OpsFit, Uploading
      <3>3. session' \in Nat /\ (session' >= Chunks => session >= Chunks \/ x \in stored')
        BY <1>1, <3>1, CliAssumption
      <3> QED BY <1>1, <1>2, <2>1, <2>2, <2>5, <3>1, <3>2, <3>3, Answering
    <2>6. CASE op[x] = "order"
      BY <1>1, <1>2, <1>4, <2>1, <2>2, <2>6, Answering DEF Serve, ServeOrder
    <2>7. CASE op[x] = "delete"
      BY <1>1, <1>2, <1>4, <2>1, <2>2, <2>7, Answering DEF Serve, ServeDelete
    <2>8. CASE op[x] \notin {"upload", "chunk", "order", "delete"}
      <3>1. UNCHANGED <<session, stored, status, queued>>
        BY <1>4, <2>8 DEF Serve, network
      <3> QED BY <1>1, <1>2, <2>1, <2>2, <2>8, <3>1, Answering
    <2> QED BY <2>4, <2>5, <2>6, <2>7, <2>8
  <1> QED BY <1>3, <1>4

(* Every step of the client and of the API keeps the invariant.            *)
LEMMA CliStep == CliInv /\ [CliNext]_cliVars => CliInv'
  <1> SUFFICES ASSUME CliInv, [CliNext]_cliVars PROVE CliInv'
    OBVIOUS
  <1>1. /\ CliTypeOK /\ OpsFit /\ JudgedOnce
        /\ UploadsAreThere /\ ChunksMakeAVideo /\ DeletedAreGone /\ EndedIsDone
    BY DEF CliInv
  <1>2. CASE InputRead
    BY <1>1, <1>2, CommandMoves DEF InputRead, CliTypeOK, EndedIsDone, network
  <1>3. CASE Declined
    <2>1. \A x \in Things : op[x] \in {"queued", "done"}
      BY <1>1, <1>3 DEF Declined, OpsFit
    <2>2. EndedIsDone'
      BY <1>1, <1>3 DEF Declined, EndedIsDone, Parallelised
    <2> QED BY <1>1, <1>3, <2>1, <2>2, CommandMoves DEF Declined, CliTypeOK, network
  <1>4. CASE Interrupt
    BY <1>1, <1>4, CommandMoves DEF Interrupt, CliTypeOK, EndedIsDone, network
  <1>5. ASSUME NEW x \in Things, Take(x)
        PROVE  CliInv'
    <2>1. /\ stage = "running" /\ op[x] = "queued" /\ Send(x, FirstOp(command.kind))
          /\ UNCHANGED <<command, stage, interrupted, results, closed, tally, errors, local,
                         network>>
      BY <1>5 DEF Take
    <2>2. /\ command # Nothing /\ command.kind \in Kinds /\ x \notin Praised \cup Blamed
          /\ x \in command.things \/ (x = Batch /\ command.kind = "batch")
      BY <2>1, AtWork
    <2>3. Fits(x, FirstOp(command.kind))
      BY <2>2, FirstFits
    <2>4. PICK c \in {"none", "sent", "lost"} : call' = [call EXCEPT ![x] = c]
      BY <2>1 DEF Send
    <2>5. op' = [op EXCEPT ![x] = FirstOp(command.kind)] /\ errors' \in Nat
      BY <1>1, <2>1 DEF Send, CliTypeOK
    <2> QED BY <2>1, <2>2, <2>3, <2>4, <2>5, Sending
  <1>6. CASE OrderBatch
    <2>1. /\ stage = "running" /\ command.kind = "batch" /\ command # Nothing
          /\ Batch \notin Successful \cup tally.bad /\ Send(Batch, "order")
          /\ UNCHANGED <<command, stage, interrupted, results, closed, tally, errors, local,
                         network>>
      BY <1>1, <1>6 DEF OrderBatch, OpsFit
    <2>2. results = {}
      BY <1>1, <2>1 DEF EndedIsDone, Parallelised
    <2>3. Batch \in Things /\ Batch \notin Praised \cup Blamed
      BY <2>1, <2>2 DEF Praised, Blamed, Things
    <2>4. Batch \notin command.things
      BY <1>1, <2>1, CliAssumption DEF OpsFit, Given, Single
    <2>5. Fits(Batch, "order")
      BY <2>1, CliAssumption DEF Fits, Steps
    <2>6. PICK c \in {"none", "sent", "lost"} : call' = [call EXCEPT ![Batch] = c]
      BY <2>1 DEF Send
    <2>7. op' = [op EXCEPT ![Batch] = "order"] /\ errors' \in Nat
      BY <1>1, <2>1 DEF Send, CliTypeOK
    <2> QED BY <2>1, <2>3, <2>4, <2>5, <2>6, <2>7, Sending
  <1>7. ASSUME NEW x \in Things, Tick(x)
        PROVE  CliInv'
    <2>1. /\ op[x] \notin {"queued", "done"} /\ Send(x, op[x])
          /\ UNCHANGED <<command, stage, interrupted, results, closed, tally, errors, local,
                         network>>
      BY <1>7 DEF Tick, Polls
    <2>2. /\ command # Nothing /\ x \notin Praised \cup Blamed
          /\ x \in command.things \/ (x = Batch /\ command.kind = "batch")
          /\ stage = "running" /\ Fits(x, op[x])
      BY <2>1, AtWork
    <2>3. PICK c \in {"none", "sent", "lost"} : call' = [call EXCEPT ![x] = c]
      BY <2>1 DEF Send
    <2>4. op' = [op EXCEPT ![x] = op[x]] /\ errors' \in Nat
      BY <1>1, <2>1 DEF Send, CliTypeOK
    <2> QED BY <2>1, <2>2, <2>3, <2>4, Sending
  <1>8. ASSUME NEW x \in Things, CannotRead(x)
        PROVE  CliInv'
    <2>1. /\ stage = "running" /\ op[x] # "done" /\ Settle(x, "bad")
          /\ UNCHANGED <<command, stage, interrupted, closed, errors, local, network>>
      BY <1>8 DEF CannotRead
    <2>2. UNCHANGED <<output, disk>> /\ errors' \in Nat /\ "bad" \in Verdicts
          /\ output' \in {"directory", "file", "new", "new/"}
          /\ disk' \in [Names -> Files \cup {Batch, "part", Nothing}]
      BY <1>1, <2>1 DEF local, CliTypeOK, Verdicts
    <2> QED BY <2>1, <2>2, Settling
  <1>9. ASSUME NEW f \in Files, WorkerFinishes(f)
        PROVE  CliInv'
    <2>1. status' \in [Things -> {"pending", "completed"}] /\ queued' \subseteq Things
          /\ UNCHANGED <<command, stage, interrupted, op, call, results, closed, tally, errors,
                         local, session, stored>>
      BY <1>1, <1>9 DEF WorkerFinishes, CliTypeOK, Things
    <2>2. EndedIsDone'
      BY <1>1, <2>1 DEF EndedIsDone
    <2> QED BY <1>1, <2>1, <2>2, CommandMoves DEF CliTypeOK
  <1>10. CASE CloseResults
    <2>1. command # Nothing
      BY <1>1, <1>10 DEF CloseResults, OpsFit
    <2>2. EndedIsDone'
      BY <1>1, <1>10, <2>1 DEF CloseResults, EndedIsDone
    <2> QED BY <1>1, <1>10, <2>2, CommandMoves DEF CloseResults, CliTypeOK, network
  <1>11. CASE End
    <2>1. command # Nothing /\ command.things \subseteq Things
      BY <1>1, <1>11, CommandFits DEF End, OpsFit
    <2>2. results = {} /\ \A x \in command.things : op[x] = "done"
      BY <1>1, <1>11, <2>1 DEF End, AllHandled, EndedIsDone
    <2>3. \A x \in Things : op[x] \in {"queued", "done"}
      BY <1>1, <1>11, <2>2 DEF End, AllHandled, OpsFit, Parallelised
    <2>4. EndedIsDone'
      BY <1>1, <1>11, <2>2 DEF End, EndedIsDone
    <2> QED BY <1>1, <1>11, <2>3, <2>4, CommandMoves DEF End, CliTypeOK, network
  <1>12. CASE UNCHANGED cliVars
    <2>1. UNCHANGED <<command, stage, interrupted, op, call, results, closed, tally, errors,
                      local, session, stored, status, queued>>
      BY <1>12 DEF cliVars, local
    <2>2. EndedIsDone'
      BY <1>1, <2>1 DEF EndedIsDone
    <2> QED BY <1>1, <2>1, <2>2, CommandMoves DEF CliTypeOK
  <1> QED
    BY <1>2, <1>3, <1>4, <1>5, <1>6, <1>7, <1>8, <1>9, <1>10, <1>11, <1>12,
       Starting, ReturnStep, DownloadStep, ServeStep, Collecting
    DEF CliNext, Handle

(* The invariant of a command holds of every behaviour.                    *)
THEOREM CliInvariance == CliSpec => []CliInv
  <1>1. CliInit => CliInv
    <2> SUFFICES ASSUME CliInit PROVE CliInv
      OBVIOUS
    <2>1. CliTypeOK
      <3>1. tally \in [Verdicts -> SUBSET Things]
        BY DEF CliInit, Verdicts
      <3>2. command \in Commands \cup {Nothing} /\ stored \subseteq Things
            /\ status \in [Things -> {"pending", "completed"}]
        BY DEF CliInit, Things
      <3>3. disk \in [Names -> Files \cup {Batch, "part", Nothing}]
        BY DEF CliInit
      <3> QED BY <3>1, <3>2, <3>3 DEF CliInit, CliTypeOK, Steps, Calls
    <2>2. Praised = {} /\ Blamed = {}
      BY DEF CliInit, Praised, Blamed, Successful
    <2>3. OpsFit /\ JudgedOnce /\ EndedIsDone
      BY <2>2 DEF CliInit, OpsFit, JudgedOnce, EndedIsDone
    <2>4. UploadsAreThere /\ DeletedAreGone
      BY DEF CliInit, UploadsAreThere, DeletedAreGone
    <2>5. ChunksMakeAVideo
      BY CliAssumption DEF CliInit, ChunksMakeAVideo
    <2> QED BY <2>1, <2>3, <2>4, <2>5 DEF CliInv
  <1> QED BY <1>1, CliStep, PTL DEF CliSpec

(* What a command says at its end is true.                                 *)
THEOREM CommandsAccount == CliSpec => []Accounted
  <1>1. CliInv => Accounted
    <2> SUFFICES ASSUME CliInv, stage = "ended", command # Nothing,
                        command.things \cap Untouched = {}
                 PROVE  /\ command.things \ {Batch} = (Successful \cup tally.bad) \ {Batch}
                        /\ Successful \cap tally.bad = {}
                        /\ command.kind \in Uploading => Successful \subseteq stored \cup {Batch}
                        /\ command.kind = "delete" => Successful \cap stored = {}
      BY DEF Accounted
    <2>1. /\ CliTypeOK /\ OpsFit /\ JudgedOnce
          /\ UploadsAreThere /\ DeletedAreGone /\ EndedIsDone
          /\ command.things \subseteq Things
      BY CommandFits DEF CliInv
    <2>2. results = {}
      BY <2>1 DEF EndedIsDone
    <2>3. Praised = Successful /\ Blamed = tally.bad
      BY <2>1, <2>2 DEF Praised, Blamed, Successful, CliTypeOK, Verdicts
    <2>4. \A x \in command.things : op[x] = "done"
      BY <2>1 DEF EndedIsDone, Untouched
    <2> QED
      BY <2>1, <2>3, <2>4 DEF JudgedOnce, UploadsAreThere, DeletedAreGone
  <1> QED BY <1>1, CliInvariance, PTL
============================================================================
