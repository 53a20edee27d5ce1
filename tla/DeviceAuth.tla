---------------------------- MODULE DeviceAuth ----------------------------
(***************************************************************************)
(* The device flow of `fc auth login`: the CLI asks for a code and polls   *)
(* for a key, the user approves the code in the browser, and the API keeps *)
(* the code in memory.  Token requests read the code through a pointer,    *)
(* outside the lock under which an approval writes it, so they may see an  *)
(* approval half done.  Answers are lost, the code expires, approvals are  *)
(* sent twice and the API restarts.                                        *)
(***************************************************************************)
EXTENDS Naturals, FiniteSets

CONSTANTS Polls,      \* token requests the CLI may send
          Approvals,  \* approve requests; each makes one key, named like it
          MaxErrors,  \* maxConsecutiveErrors of the CLI
          NoKey, NoPoll

ASSUME ConstantsAssumption == /\ NoKey \notin Approvals
                              /\ NoPoll \notin Polls
                              /\ MaxErrors \in Nat \ {0}

VARIABLES
  code,      \* "none", "there" while the store has it, "deleted"
  approved, apiKey,  \* fields of the code
  expired,   \* its 15 minutes are over
  tokens,    \* keys stored as API tokens of a user
  step, seen,        \* per poll: next step, the key it read
  click,     \* per approval: next step
  cli, current, errors, saved  \* the CLI: state, poll it waits for, failed
             \* polls in a row, key written to its configuration

codeVars == <<code, approved, apiKey>>
pollVars == <<step, seen>>
cliVars == <<cli, current, errors, saved>>
vars == <<codeVars, expired, tokens, pollVars, click, cliVars>>

Answers == {"pending", "key", "refused"}
Writing == {"write", "finish"}

\* Every variable stays within its range.
TypeOK ==
  /\ code \in {"none", "there", "deleted"}
  /\ approved \in BOOLEAN
  /\ apiKey \in Approvals \cup {NoKey}
  /\ expired \in BOOLEAN
  /\ tokens \in SUBSET Approvals
  /\ step \in [Polls -> {"unsent", "get", "approved", "apikey", "delete", "done"}
                          \cup Answers]
  /\ seen \in [Polls -> Approvals \cup {NoKey}]
  /\ click \in [Approvals -> {"unsent", "insert", "approve", "ok", "failed"}
                               \cup Writing]
  /\ cli \in {"start", "polling", "waiting", "loggedIn", "failed"}
  /\ current \in Polls \cup {NoPoll}
  /\ errors \in 0 .. MaxErrors
  /\ saved \in Approvals \cup {NoKey}

Init ==
  /\ code = "none"
  /\ approved = FALSE
  /\ apiKey = NoKey
  /\ expired = FALSE
  /\ tokens = {}
  /\ step = [p \in Polls |-> "unsent"]
  /\ seen = [p \in Polls |-> NoKey]
  /\ click = [a \in Approvals |-> "unsent"]
  /\ cli = "start"
  /\ current = NoPoll
  /\ errors = 0
  /\ saved = NoKey

\* An approval holds the store's lock while it writes the three fields.
StoreFree == \A a \in Approvals : click[a] \notin Writing

DeviceAuth ==
  /\ cli = "start"
  /\ code' = "there"
  /\ cli' = "polling"
  /\ UNCHANGED <<approved, apiKey, expired, tokens, pollVars, click, current,
                 errors, saved>>

Expire ==
  /\ code # "none" /\ ~expired
  /\ expired' = TRUE
  /\ UNCHANGED <<codeVars, tokens, pollVars, click, cliVars>>

Cleanup ==
  /\ code = "there" /\ expired /\ StoreFree
  /\ code' = "deleted"
  /\ UNCHANGED <<approved, apiKey, expired, tokens, pollVars, click, cliVars>>

-----------------------------------------------------------------------------
(* DeviceTokenHandler                                                      *)

Goto(p, s) == step' = [step EXCEPT ![p] = s]

\* An expired code is deleted before the request is answered.
GetCode(p) ==
  /\ step[p] = "get"
  /\ StoreFree
  /\ IF code = "there" /\ ~expired
     THEN Goto(p, "approved") /\ UNCHANGED code
     ELSE Goto(p, "refused") /\ code' = "deleted"
  /\ UNCHANGED <<approved, apiKey, expired, tokens, seen, click, cliVars>>

\* Unlocked reads: while an approval writes, either value may be seen.
ReadApproved(p) ==
  /\ step[p] = "approved"
  /\ \/ approved /\ Goto(p, "apikey")
     \/ (~approved \/ ~StoreFree) /\ Goto(p, "pending")
  /\ UNCHANGED <<codeVars, expired, tokens, seen, click, cliVars>>

ReadKey(p) ==
  /\ step[p] = "apikey"
  /\ \E k \in {apiKey} \cup {a \in Approvals : click[a] \in Writing} :
       seen' = [seen EXCEPT ![p] = k]
  /\ Goto(p, "delete")
  /\ UNCHANGED <<codeVars, expired, tokens, click, cliVars>>

DeleteCode(p) ==
  /\ step[p] = "delete"
  /\ StoreFree
  /\ code' = "deleted"
  /\ Goto(p, "key")
  /\ UNCHANGED <<approved, apiKey, expired, tokens, seen, click, cliVars>>

-----------------------------------------------------------------------------
(* DeviceApproveHandler                                                    *)

Click(a, s) == click' = [click EXCEPT ![a] = s]

FindCode(a) ==
  /\ click[a] = "unsent"
  /\ StoreFree
  /\ code # "none"
  /\ Click(a, IF code = "there" /\ ~expired THEN "insert" ELSE "failed")
  /\ UNCHANGED <<codeVars, expired, tokens, pollVars, cliVars>>

\* Mutant: a failed insert goes unnoticed.
InsertUnchecked(a) ==
  /\ click[a] = "insert"
  /\ tokens' \in {tokens, tokens \cup {a}}
  /\ Click(a, "approve")
  /\ UNCHANGED <<codeVars, expired, pollVars, cliVars>>

InsertToken(a) ==
  /\ click[a] = "insert"
  /\ \/ tokens' = tokens \cup {a} /\ Click(a, "approve")
     \/ Click(a, "failed") /\ UNCHANGED tokens
  /\ UNCHANGED <<codeVars, expired, pollVars, cliVars>>

\* The answer is "approved" whether or not the code is still there.
Approve(a) ==
  /\ click[a] = "approve"
  /\ StoreFree
  /\ Click(a, IF code = "there" THEN "write" ELSE "ok")
  /\ UNCHANGED <<codeVars, expired, tokens, pollVars, cliVars>>

SetApproved(a) ==
  /\ click[a] = "write"
  /\ approved' = TRUE
  /\ Click(a, "finish")
  /\ UNCHANGED <<code, apiKey, expired, tokens, pollVars, cliVars>>

SetKey(a) ==
  /\ click[a] = "finish"
  /\ apiKey' = a
  /\ Click(a, "ok")
  /\ UNCHANGED <<code, approved, expired, tokens, pollVars, cliVars>>

-----------------------------------------------------------------------------
(* runAuthLogin of the CLI                                                 *)

Poll(p) ==
  /\ cli = "polling"
  /\ step[p] = "unsent"
  /\ Goto(p, "get")
  /\ cli' = "waiting"
  /\ current' = p
  /\ UNCHANGED <<codeVars, expired, tokens, seen, click, errors, saved>>

\* A pending answer, and one with neither key nor error, make it poll again.
Receive(p) ==
  /\ cli = "waiting" /\ current = p
  /\ step[p] \in Answers
  /\ Goto(p, "done")
  /\ current' = NoPoll
  /\ errors' = 0
  /\ cli' = CASE step[p] = "refused" -> "failed"
              [] step[p] = "key" /\ seen[p] # NoKey -> "loggedIn"
              [] OTHER -> "polling"
  /\ saved' = IF step[p] = "key" THEN seen[p] ELSE saved
  /\ UNCHANGED <<codeVars, expired, tokens, seen, click>>

\* Mutant: the CLI never gives up.
KeepTrying ==
  /\ cli = "waiting"
  /\ cli' = "waiting"
  /\ current' = NoPoll
  /\ errors' = errors
  /\ UNCHANGED <<codeVars, expired, tokens, pollVars, click, saved>>

\* The answer is lost or late; the request may still run on the server.
LoseAnswer ==
  /\ cli = "waiting"
  /\ errors' = errors + 1
  /\ cli' = IF errors' = MaxErrors THEN "failed" ELSE "polling"
  /\ current' = NoPoll
  /\ UNCHANGED <<codeVars, expired, tokens, pollVars, click, saved>>

\* The CLI's own deadline, expires_in after the start.
GiveUp ==
  /\ cli = "polling" /\ expired
  /\ cli' = "failed"
  /\ UNCHANGED <<codeVars, expired, tokens, pollVars, click, current, errors,
                 saved>>

\* The API restarts: the code and the requests under way are gone.
Restart ==
  /\ code # "none"
  /\ code' = "deleted"
  /\ step' = [p \in Polls |-> IF step[p] = "unsent" THEN "unsent" ELSE "done"]
  /\ click' = [a \in Approvals |-> IF click[a] \in {"unsent", "ok"}
                                   THEN click[a] ELSE "failed"]
  /\ UNCHANGED <<approved, apiKey, expired, tokens, seen, cliVars>>

-----------------------------------------------------------------------------
TokenRequest(p) == GetCode(p) \/ ReadApproved(p) \/ ReadKey(p) \/ DeleteCode(p)

ApproveRequest(a) == InsertToken(a) \/ Approve(a) \/ SetApproved(a) \/ SetKey(a)

CliStep == \/ DeviceAuth \/ LoseAnswer \/ GiveUp
           \/ \E p \in Polls : Poll(p) \/ Receive(p)

Next == \/ CliStep \/ Expire \/ Cleanup \/ Restart
        \/ \E p \in Polls : TokenRequest(p)
        \/ \E a \in Approvals : FindCode(a) \/ ApproveRequest(a)

\* Requests run on, time passes, and an unanswered request ends in an error.
Fairness == /\ \A p \in Polls : WF_vars(TokenRequest(p)) /\ WF_vars(Receive(p))
            /\ \A a \in Approvals : WF_vars(ApproveRequest(a))
            /\ WF_vars(LoseAnswer) /\ WF_vars(Expire) /\ WF_vars(GiveUp)

Spec == Init /\ [][Next]_vars
FairSpec == Spec /\ Fairness
-----------------------------------------------------------------------------
(* Properties                                                              *)

\* A CLI that says it is logged in has a key the API knows, however approvals
\* and polls interleave.
KeyWorks == cli = "loggedIn" => saved \in tokens

\* The code is good for one login: when the CLI has its key, the code is gone.
OneTimeCode == cli = "loggedIn" => code = "deleted"

\* The CLI does not wait for ever, whatever is lost.
LoginEnds == cli = "polling" ~> cli \in {"loggedIn", "failed"}

\* docs/API.md:68-73: an approved response carries the api_key.
ApprovedAnswerHasKey == \A p \in Polls : step[p] = "key" => seen[p] # NoKey

-----------------------------------------------------------------------------
(* The inductive invariant behind KeyWorks and OneTimeCode                 *)

\* The CLI gives up at its last error, and polls only once it has a code.
PollsInBounds == /\ cli \in {"start", "polling", "waiting"} => errors < MaxErrors
                 /\ cli = "start" => \A p \in Polls : step[p] = "unsent"

TypeInv == TypeOK /\ PollsInBounds

\* Whatever a poll can read as a key was stored before.
KeysAreTokens ==
  /\ apiKey # NoKey => apiKey \in tokens
  /\ \A a \in Approvals : click[a] \in {"approve"} \cup Writing => a \in tokens
  /\ \A p \in Polls : seen[p] # NoKey => seen[p] \in tokens

\* A key is answered only after the code was deleted, which is for good.
AnsweredIsDeleted == \A p \in Polls : step[p] = "key" => code = "deleted"

IInv == TypeInv /\ KeysAreTokens /\ AnsweredIsDeleted /\ KeyWorks /\ OneTimeCode
=============================================================================
