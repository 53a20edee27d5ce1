------------------------------ MODULE Accounts ------------------------------
(***************************************************************************)
(* The account of one e-mail address: its row in users, the providers      *)
(* linked to it, its verification and reset links, its API tokens and its  *)
(* settings, under requests of several browsers.  A request is a sequence  *)
(* of statements, any of which may fail, and the statements of different   *)
(* requests interleave: nothing here runs in a transaction.                *)
(***************************************************************************)
EXTENDS Naturals, FiniteSets

CONSTANTS Browsers,     \* each runs one request at a time
          Passwords,
          MaxRequests,  \* bound: requests
          MaxUpsets,    \* bound: failed statements and expired sessions
          None

ASSUME ConstantsAssumption == None \notin Passwords /\ IsFiniteSet(Browsers)

Providers == {"google", "github"}
Columns == {"notifications", "files"}

VARIABLES
  row,      \* users: there, deleted, password, verified, name, avatar
  linked,   \* oauth_accounts: the providers linked
  links,    \* email_verifications: the links neither spent nor deleted
  resets,   \* password_resets
  mailbox,  \* links that were mailed
  spent,    \* a verification link was spent
  tokens,   \* api_tokens
  settings, \* user_settings: None, or the columns that were saved
  cookie,   \* per browser: whether it holds the cookie of a live session
  req,      \* per browser: the request under way and its next statement
  raced,    \* two disconnects of the account overlapped
  broken,   \* the statements that failed, as operation and step
  asked, upsets

linkVars == <<links, resets, mailbox, spent>>
rest == <<tokens, settings>>
data == <<row, linked, linkVars, rest>>
vars == <<data, cookie, req, raced, broken, asked, upsets>>

Idle == [op |-> "none", at |-> "done"]

Init ==
  /\ row = [there |-> FALSE, deleted |-> FALSE, password |-> None,
            verified |-> FALSE, name |-> 0, avatar |-> 0]
  /\ linked = {}
  /\ links = {}
  /\ resets = {}
  /\ mailbox = {}
  /\ spent = FALSE
  /\ tokens = {}
  /\ settings = None
  /\ cookie = [b \in Browsers |-> FALSE]
  /\ req = [b \in Browsers |-> Idle]
  /\ raced = FALSE
  /\ broken = {}
  /\ asked = 0
  /\ upsets = 0

\* What GetUserByID and GetUserByEmail find.
Alive == row.there /\ ~row.deleted

\* What RequireAuth finds for the browser's cookie.
InSession(b) == cookie[b] /\ Alive

Ask(b, r) ==
  /\ req[b] = Idle
  /\ asked < MaxRequests
  /\ asked' = asked + 1
  /\ req' = [req EXCEPT ![b] = r]
  /\ UNCHANGED <<data, cookie, raced, broken, upsets>>

At(b, op, step) == req[b].op = op /\ req[b].at = step
Goto(b, step) == req' = [req EXCEPT ![b].at = step]
Done(b) == req' = [req EXCEPT ![b] = Idle]
Quiet == UNCHANGED <<cookie, raced, broken, asked, upsets>>

\* A statement fails, and the request with it.
Fail(b) ==
  /\ req[b] # Idle
  /\ upsets < MaxUpsets
  /\ upsets' = upsets + 1
  /\ broken' = broken \cup {<<req[b].op, req[b].at>>}
  /\ Done(b)
  /\ UNCHANGED <<data, cookie, raced, asked>>

----------------------------------------------------------------------------
(* Signing up and in with a password.                                      *)

Register(b, p) == 
  Ask(b, [op |-> "register", at |-> "user", password |-> p, id |-> asked])

NewRow(password) == [there |-> TRUE, deleted |-> FALSE, password |-> password,
                     verified |-> FALSE, name |-> 0, avatar |-> 0]

\* The e-mail address is unique, deleted rows included.
CreateUser(b) ==
  /\ At(b, "register", "user")
  /\ IF row.there
     THEN Done(b) /\ UNCHANGED row
     ELSE row' = NewRow(req[b].password) /\ Goto(b, "issue")
  /\ UNCHANGED <<linked, linkVars, rest>> /\ Quiet

\* The id is handed to nobody here; only a request to resend mails its own.
CreateEmailVerification(b) ==
  /\ \/ At(b, "register", "issue") /\ Goto(b, "session") /\ UNCHANGED mailbox
     \/ /\ At(b, "resend", "issue")
        /\ Done(b)
        /\ mailbox' = mailbox \cup {req[b].id}
  /\ links' = links \cup {req[b].id}
  /\ UNCHANGED <<row, linked, resets, spent, rest>> /\ Quiet

Login(b, p) == Ask(b, [op |-> "login", at |-> "check", password |-> p])

CheckPassword(b) ==
  /\ At(b, "login", "check")
  /\ IF Alive /\ row.password = req[b].password
     THEN Goto(b, "session") ELSE Done(b)
  /\ UNCHANGED data /\ Quiet

CreateSession(b) ==
  /\ req[b].at = "session"
  /\ cookie' = [cookie EXCEPT ![b] = TRUE]
  /\ Done(b)
  /\ UNCHANGED <<data, raced, broken, asked, upsets>>

Logout(b) ==
  /\ req[b] = Idle /\ cookie[b]
  /\ cookie' = [cookie EXCEPT ![b] = FALSE]
  /\ UNCHANGED <<data, req, raced, broken, asked, upsets>>

\* Sessions expire, and their rows are deleted by the hour.
ExpireSession(b) ==
  /\ cookie[b]
  /\ upsets < MaxUpsets
  /\ upsets' = upsets + 1
  /\ cookie' = [cookie EXCEPT ![b] = FALSE]
  /\ UNCHANGED <<data, req, raced, broken, asked>>

----------------------------------------------------------------------------
(* Signing in with a provider that vouches for the e-mail address.         *)

OAuthStart(b, v) == Ask(b, [op |-> "oauth", at |-> "account", provider |-> v])

\* The state cookie is lost, the user declines, or the code is refused.
OAuthRefused(b) ==
  /\ At(b, "oauth", "account")
  /\ Done(b)
  /\ UNCHANGED data /\ Quiet

FindAccount(b) ==
  /\ At(b, "oauth", "account")
  /\ Goto(b, IF req[b].provider \in linked /\ Alive THEN "session" ELSE "email")
  /\ UNCHANGED data /\ Quiet

FindByEmail(b) ==
  /\ At(b, "oauth", "email")
  /\ Goto(b, IF Alive THEN "link" ELSE "user")
  /\ UNCHANGED data /\ Quiet

CreateOAuthUser(b) ==
  /\ At(b, "oauth", "user")
  /\ IF row.there
     THEN Done(b) /\ UNCHANGED row
     ELSE row' = NewRow(None) /\ Goto(b, "verify")
  /\ UNCHANGED <<linked, linkVars, rest>> /\ Quiet

VerifyNewUser(b) ==
  /\ At(b, "oauth", "verify")
  /\ row' = [row EXCEPT !.verified = @ \/ Alive]
  /\ Goto(b, "link")
  /\ UNCHANGED <<linked, linkVars, rest>> /\ Quiet

CreateOAuthAccount(b) ==
  /\ At(b, "oauth", "link")
  /\ linked' = linked \cup {req[b].provider}
  /\ IF req[b].provider \in linked THEN Done(b) ELSE Goto(b, "session")
  /\ UNCHANGED <<row, linkVars, rest>> /\ Quiet

\* The callback is served without the session, so a request to link a
\* provider ends at the login page, whoever makes it.
LinkStart(b) == InSession(b) /\ Ask(b, [op |-> "link", at |-> "callback"])
LinkCallback(b) ==
  /\ At(b, "link", "callback")
  /\ Done(b)
  /\ UNCHANGED data /\ Quiet

----------------------------------------------------------------------------
(* Taking a provider off.                                                  *)

DisconnectOAuth(b, v) ==
  /\ InSession(b)
  /\ Ask(b, [op |-> "disconnect", at |-> "list", provider |-> v,
             hasPassword |-> row.password # None])

\* Mutant: the last provider counts as a way to sign in that stays.
CanDisconnectAny(hasPassword, accounts) == hasPassword \/ Cardinality(accounts) > 0

CanDisconnectOAuth(hasPassword, accounts) == hasPassword \/ Cardinality(accounts) > 1

ListAccounts(b) ==
  /\ At(b, "disconnect", "list")
  /\ IF CanDisconnectOAuth(req[b].hasPassword, linked)
     THEN Goto(b, "delete") ELSE Done(b)
  /\ raced' = (raced \/ \E c \in Browsers : At(c, "disconnect", "delete"))
  /\ UNCHANGED <<data, cookie, broken, asked, upsets>>

DeleteOAuthAccount(b) ==
  /\ At(b, "disconnect", "delete")
  /\ linked' = linked \ {req[b].provider}
  /\ Done(b)
  /\ UNCHANGED <<row, linkVars, rest>> /\ Quiet

----------------------------------------------------------------------------
(* Links by e-mail.                                                        *)

ResendVerification(b) ==
  Ask(b, [op |-> "resend", at |-> "delete", id |-> asked])

\* Mutant: the earlier links stay.
KeepVerifications(b) ==
  /\ At(b, "resend", "delete")
  /\ IF Alive THEN Goto(b, "issue") ELSE Done(b)
  /\ UNCHANGED data /\ Quiet

\* The earlier links go first; that they stay is not noticed.
DeleteUserEmailVerifications(b) ==
  /\ At(b, "resend", "delete")
  /\ IF Alive THEN Goto(b, "issue") ELSE Done(b)
  /\ \/ /\ links' = IF Alive THEN {} ELSE links
        /\ UNCHANGED upsets
     \/ /\ upsets < MaxUpsets
        /\ upsets' = upsets + 1
        /\ UNCHANGED links
  /\ UNCHANGED <<row, linked, mailbox, spent, resets, rest, cookie, raced, broken,
                 asked>>

FollowLink(b) ==
  \E t \in mailbox : Ask(b, [op |-> "verify", at |-> "find", link |-> t])

\* A link lives for a day.
FindLink(b) ==
  /\ At(b, "verify", "find")
  /\ \/ req[b].link \in links /\ Alive /\ Goto(b, "spend")
     \/ Done(b)
  /\ UNCHANGED data /\ Quiet

MarkEmailVerified(b) ==
  /\ At(b, "verify", "spend")
  /\ links' = links \ {req[b].link}
  /\ spent' = TRUE
  /\ Goto(b, "user")
  /\ UNCHANGED <<row, linked, mailbox, resets, rest>> /\ Quiet

VerifyUserEmail(b) ==
  /\ At(b, "verify", "user")
  /\ row' = [row EXCEPT !.verified = @ \/ Alive]
  /\ Done(b)
  /\ UNCHANGED <<linked, linkVars, rest>> /\ Quiet

ForgotPassword(b) == Ask(b, [op |-> "forgot", at |-> "delete", id |-> asked])

DeleteUserPasswordResets(b) ==
  /\ At(b, "forgot", "delete")
  /\ resets' = IF Alive THEN {} ELSE resets
  /\ IF Alive THEN Goto(b, "issue") ELSE Done(b)
  /\ UNCHANGED <<row, linked, links, mailbox, spent, rest>> /\ Quiet

\* The page drops the token it is given: no mail carries it.
CreatePasswordReset(b) ==
  /\ At(b, "forgot", "issue")
  /\ resets' = resets \cup {req[b].id}
  /\ Done(b)
  /\ UNCHANGED <<row, linked, links, mailbox, spent, rest>> /\ Quiet

----------------------------------------------------------------------------
(* The profile and the settings of a signed-in user.                       *)

ChangePassword(b, old, new) ==
  /\ InSession(b)
  /\ Ask(b, [op |-> "password", at |-> "check", old |-> old, password |-> new])

CheckCurrent(b) ==
  /\ At(b, "password", "check")
  /\ IF Alive /\ row.password = req[b].old THEN Goto(b, "update") ELSE Done(b)
  /\ UNCHANGED data /\ Quiet

UpdateUserPassword(b) ==
  /\ At(b, "password", "update")
  /\ row' = IF Alive THEN [row EXCEPT !.password = req[b].password] ELSE row
  /\ Done(b)
  /\ UNCHANGED <<linked, linkVars, rest>> /\ Quiet

\* The form changes one of name and avatar; the other is written back as the
\* session had it when the request came in.
ProfilePost(b) ==
  /\ InSession(b)
  /\ Ask(b, [op |-> "profile", at |-> "update",
             name |-> row.name + 1, avatar |-> row.avatar])
ProfileAvatar(b) ==
  /\ InSession(b)
  /\ Ask(b, [op |-> "profile", at |-> "update",
             name |-> row.name, avatar |-> row.avatar + 1])

UpdateUser(b) ==
  /\ At(b, "profile", "update")
  /\ row' = IF Alive THEN [row EXCEPT !.name = req[b].name, !.avatar = req[b].avatar]
            ELSE row
  /\ Done(b)
  /\ UNCHANGED <<linked, linkVars, rest>> /\ Quiet

ProfileDelete(b) == InSession(b) /\ Ask(b, [op |-> "delete", at |-> "user"])

DeleteUser(b) ==
  /\ At(b, "delete", "user")
  /\ row' = [row EXCEPT !.deleted = TRUE]
  /\ cookie' = [cookie EXCEPT ![b] = FALSE]
  /\ Done(b)
  /\ UNCHANGED <<linked, linkVars, rest, raced, broken, asked, upsets>>

SettingsPage(b) == InSession(b) /\ Ask(b, [op |-> "settings", at |-> "row", save |-> {}])
SettingsSave(b, c) ==
  /\ InSession(b)
  /\ Ask(b, [op |-> "settings", at |-> "row", save |-> {c}])

\* Upsert, or create what was not found.
UpsertUserSettings(b) ==
  /\ At(b, "settings", "row")
  /\ settings' = IF settings = None THEN {} ELSE settings
  /\ IF req[b].save = {} THEN Done(b) ELSE Goto(b, "save")
  /\ UNCHANGED <<row, linked, linkVars, tokens>> /\ Quiet

UpdateSettings(b) ==
  /\ At(b, "settings", "save")
  /\ settings' = settings \cup req[b].save
  /\ Done(b)
  /\ UNCHANGED <<row, linked, linkVars, tokens>> /\ Quiet

AskForToken(b) ==
  /\ InSession(b)
  /\ \/ Ask(b, [op |-> "token", at |-> "create", id |-> asked])
     \/ \E t \in tokens : Ask(b, [op |-> "token", at |-> "delete", id |-> t])

CreateAPIToken(b) ==
  /\ At(b, "token", "create")
  /\ tokens' = tokens \cup {req[b].id}
  /\ Done(b)
  /\ UNCHANGED <<row, linked, linkVars, settings>> /\ Quiet

DeleteAPIToken(b) ==
  /\ At(b, "token", "delete")
  /\ tokens' = tokens \ {req[b].id}
  /\ Done(b)
  /\ UNCHANGED <<row, linked, linkVars, settings>> /\ Quiet

----------------------------------------------------------------------------
Pages(b) ==
  \/ \E p \in Passwords : Register(b, p) \/ Login(b, p)
  \/ \E v \in Providers : OAuthStart(b, v) \/ DisconnectOAuth(b, v)
  \/ LinkStart(b) \/ ResendVerification(b) \/ FollowLink(b) \/ ForgotPassword(b)
  \/ \E old, new \in Passwords : ChangePassword(b, old, new)
  \/ ProfilePost(b) \/ ProfileAvatar(b) \/ ProfileDelete(b)
  \/ SettingsPage(b) \/ (\E c \in Columns : SettingsSave(b, c))
  \/ AskForToken(b)

Statements(b) ==
  \/ CreateUser(b) \/ CreateEmailVerification(b) \/ CheckPassword(b)
  \/ CreateSession(b)
  \/ OAuthRefused(b) \/ FindAccount(b) \/ FindByEmail(b) \/ CreateOAuthUser(b)
  \/ VerifyNewUser(b) \/ CreateOAuthAccount(b) \/ LinkCallback(b)
  \/ ListAccounts(b) \/ DeleteOAuthAccount(b)
  \/ DeleteUserEmailVerifications(b) \/ FindLink(b) \/ MarkEmailVerified(b)
  \/ VerifyUserEmail(b) \/ DeleteUserPasswordResets(b) \/ CreatePasswordReset(b)
  \/ CheckCurrent(b) \/ UpdateUserPassword(b) \/ UpdateUser(b) \/ DeleteUser(b)
  \/ UpsertUserSettings(b) \/ UpdateSettings(b)
  \/ CreateAPIToken(b) \/ DeleteAPIToken(b)

Next == \E b \in Browsers : \/ Pages(b) \/ Statements(b) \/ Fail(b)
                           \/ Logout(b) \/ ExpireSession(b)

Spec == Init /\ [][Next]_vars

----------------------------------------------------------------------------
WayIn == row.password # None \/ linked # {}

\* An account keeps a way to sign in, a password or a provider, once the
\* request that makes it has ended.  Only two disconnects side by side, or
\* the failure of a statement of that request, leave it without.
KeepsSignIn ==
  Alive => \/ WayIn
           \/ raced
           \/ {"verify", "link"} \cap ({req[b].at : b \in Browsers}
                                       \cup {f[2] : f \in broken}) # {}

\* A new link takes the place of the earlier ones: at most one is live for
\* each request at work, and one more for each failed deletion.
LiveLinksBounded ==
  Cardinality(links) + Cardinality({b \in Browsers : /\ req[b].at = "issue"
                                                     /\ req[b].op # "forgot"})
    <= Cardinality(Browsers) + upsets

\* A spent verification link verified the address, unless the second
\* statement is still to come or failed.
SpentLinkVerifies ==
  spent => \/ row.verified \/ row.deleted
           \/ \E b \in Browsers : At(b, "verify", "user")
           \/ <<"verify", "user">> \in broken

\* "Sends password reset email": a link is mailed for every reset.
ResetEmailSent == resets \subseteq mailbox

\* "Cannot disconnect your only sign-in method."
OnlyMethodStays ==
  [][\A b \in Browsers : DeleteOAuthAccount(b) /\ Alive /\ WayIn => WayIn']_vars
============================================================================
