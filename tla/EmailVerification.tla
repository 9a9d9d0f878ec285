------------------------- MODULE EmailVerification -------------------------
(***************************************************************************)
(* Sign-up behind the idempotency interceptor, the emailed verification    *)
(* link, its page in the browser, and the resend.                          *)
(*                                                                         *)
(* The three handlers write in transactions of several statements.  The    *)
(* services of accounts and users swallow every database error but a       *)
(* unique violation, so a transaction may run on after a statement of it   *)
(* failed.  Postgres then refuses its other statements, and a COMMIT of it *)
(* stores nothing and still succeeds.                                      *)
(*                                                                         *)
(* A sign-up mints an account, a user and a first token together: the      *)
(* three share an id.  Users and accounts are never deleted.               *)
(***************************************************************************)
EXTENDS Integers, FiniteSets

CONSTANTS
    Requests,     \* slots for requests in progress
    Keys,         \* idempotency keys; a key is sent with one body only
    Body,         \* the username and the email in the body of each key
    Pages,        \* visits to the page behind a verification link
    None,         \* no key
    MaxIds,       \* bound: sign-ups stored and tokens minted
    MaxFaults,    \* bound: statements, commits and cache calls that fail
    MaxExpiries   \* bound: tokens and cached keys that run out

ASSUME EmailVerificationAssumption ==
    /\ None \notin Keys \cup Pages
    /\ \A k \in Keys : DOMAIN Body[k] = {"username", "email"}
    /\ MaxIds \in Nat /\ MaxFaults \in Nat /\ MaxExpiries \in Nat

VARIABLES
    accounts,   \* ids of the committed rows of accounts
    users,      \* users, committed: none, or whether email_verified_at is set
    tokens,     \* email_verification_tokens, committed, and what became of them
    minted,     \* whose each id is: the key of the sign-up and the user's id
    pc,         \* where each request is suspended
    request,    \* its locals and its transaction
    remembered, \* keys in the cache
    told,       \* what the client of each key has been answered, errors aside
    mail,       \* verification emails: not sent, published, arrived
    pages,      \* the browser's pages
    faults,     \* failures so far
    expiries,   \* expiries so far
    spentBy,    \* the pages, or None, that took each token away (history)
    met         \* pairs of ids whose requests overlapped (history)

tables == <<accounts, users, tokens, minted>>
vars == <<tables, pc, request, remembered, told, mail, pages, faults, expiries,
          spentBy, met>>

-----------------------------------------------------------------------------
Ids == 1 .. MaxIds

(* wrote and deletes are the transaction's uncommitted writes, seen what its
   DELETE matched, and aborted whether Postgres refuses further statements. *)
RequestState ==
    [op : {"signUp", "resend", "verify"}, key : Keys \cup {None},
     id : 0 .. MaxIds, page : Pages \cup {None},
     wrote : SUBSET {"account", "user", "token", "verified"},
     seen : SUBSET Ids, deletes : SUBSET Ids, aborted : BOOLEAN]

Asked(op, k, i, p) ==
    [op |-> op, key |-> k, id |-> i, page |-> p, wrote |-> {}, seen |-> {},
     deletes |-> {}, aborted |-> FALSE]

Labels == {"idle", "saveAccount", "saveUser", "saveToken", "findToken",
           "saveVerified", "deleteToken", "deleteAll", "lockAll", "commit"}

Init ==
    /\ accounts = {}
    /\ users = [i \in Ids |-> "none"]
    /\ tokens = [i \in Ids |-> "none"]
    /\ minted = [i \in Ids |-> [key |-> None, user |-> 0]]
    /\ pc = [r \in Requests |-> "idle"]
    /\ request = [r \in Requests |-> Asked("signUp", None, 0, None)]
    /\ remembered = {}
    /\ told = [k \in Keys |-> {}]
    /\ mail = [i \in Ids |-> "none"]
    /\ pages = [p \in Pages |->
           [token |-> 0, attempted |-> FALSE, runs |-> 0, status |-> "idle"]]
    /\ faults = 0
    /\ expiries = 0
    /\ spentBy = [i \in Ids |-> {}]
    /\ met = {}

Owner(i) == minted[i].user
Key(i) == minted[i].key
Open(r) == pc[r] # "idle"

Go(r, l, g) ==
    /\ pc' = [pc EXCEPT ![r] = l]
    /\ request' = [request EXCEPT ![r] = g]

Wrote(r, what) == [request[r] EXCEPT !.wrote = @ \cup {what}]
Aborted(r) == [request[r] EXCEPT !.aborted = TRUE]

Fault ==
    /\ faults < MaxFaults
    /\ faults' = faults + 1

(* i is the next id, for the user u whose sign-up had key k. *)
Mint(i, k, u) ==
    /\ Owner(i) = 0
    /\ \A j \in 1 .. i - 1 : Owner(j) # 0
    /\ minted' = [minted EXCEPT ![i] = [key |-> k, user |-> u]]

Meet(r, i) ==
    met' = met \cup {{i, request[q].id} : q \in {q \in Requests \ {r} : Open(q)}}

-----------------------------------------------------------------------------
(* Answers *)

(* sign-up: the tap runs only on success, and its SET reaches Redis before a
   later GET of the same key.                                              *)
Remember(r) ==
    IF request[r].op # "signUp"
    THEN UNCHANGED <<remembered, faults>>
    ELSE \/ remembered' = remembered \cup {request[r].key} /\ UNCHANGED faults
         \/ Fault /\ UNCHANGED remembered

Tell(r, what) ==
    /\ told' = IF request[r].op = "signUp"
               THEN [told EXCEPT ![request[r].key] = @ \cup ({what} \ {"error"})]
               ELSE told
    /\ pages' = IF request[r].op = "verify"
                THEN [pages EXCEPT ![request[r].page].status =
                          IF what = "ok" THEN "verified" ELSE "failed"]
                ELSE pages

(* The handler throws: the transaction is rolled back. *)
Throw(r, what) ==
    /\ Go(r, "idle", Asked("signUp", None, 0, None))
    /\ Tell(r, what)
    /\ UNCHANGED <<tables, remembered, mail, expiries, spentBy, met>>

Step(r, l, g) ==
    /\ Go(r, l, g)
    /\ UNCHANGED <<tables, remembered, told, mail, pages, expiries, spentBy, met>>

-----------------------------------------------------------------------------
(* Sign-up *)

(* Redis may be unreachable: the key then counts as new, or the call fails. *)
SignUp(r, k, i) ==
    /\ ~Open(r)
    /\ k \notin remembered \/ faults < MaxFaults
    /\ faults' = faults + (IF k \in remembered THEN 1 ELSE 0)
    /\ Mint(i, k, i)
    /\ Meet(r, i)
    /\ Go(r, "saveAccount", Asked("signUp", k, i, None))
    /\ UNCHANGED <<accounts, users, tokens, remembered, told, mail, pages,
                   expiries, spentBy>>

(* A repeat is answered as if it had been stored. *)
Replay(k) ==
    /\ k \in remembered
    /\ told' = [told EXCEPT ![k] = @ \cup {"ok"}]
    /\ UNCHANGED <<tables, pc, request, remembered, mail, pages, faults, expiries,
                   spentBy, met>>

Same(i, j, field) == Body[Key(i)][field] = Body[Key(j)][field]

(* An INSERT waits for an uncommitted row with the same unique column. *)
Held(r, what, field) ==
    \E q \in Requests \ {r} :
        what \in request[q].wrote /\ Same(request[q].id, request[r].id, field)

TakenName(r) == \E j \in accounts : Same(j, request[r].id, "username")

TakenEmail(r) ==
    \E j \in Ids : users[j] # "none" /\ Same(j, request[r].id, "email")

(* Mutant: the INSERT does not run in the transaction. *)
SaveAccount_Outside(r) ==
    /\ pc[r] = "saveAccount"
    /\ ~TakenName(r)
    /\ accounts' = accounts \cup {request[r].id}
    /\ Go(r, "saveUser", request[r])
    /\ UNCHANGED <<users, tokens, minted, remembered, told, mail, pages, faults,
                   expiries, spentBy, met>>

SaveAccount(r) ==
    /\ pc[r] = "saveAccount"
    /\ ~Held(r, "account", "username")
    /\ \/ TakenName(r) /\ Throw(r, "exists") /\ UNCHANGED faults
       \/ ~TakenName(r) /\ Step(r, "saveUser", Wrote(r, "account")) /\ UNCHANGED faults
       \/ Fault /\ Step(r, "saveUser", Aborted(r))

SaveUser(r) ==
    /\ pc[r] = "saveUser"
    /\ \/ request[r].aborted /\ Step(r, "saveToken", request[r]) /\ UNCHANGED faults
       \/ /\ ~request[r].aborted
          /\ ~Held(r, "user", "email")
          /\ \/ TakenEmail(r) /\ Throw(r, "error") /\ UNCHANGED faults
             \/ /\ ~TakenEmail(r)
                /\ Step(r, "saveToken", Wrote(r, "user"))
                /\ UNCHANGED faults
             \/ Fault /\ Step(r, "saveToken", Aborted(r))

(* Mutant: the token's service swallows database errors as the others do. *)
SaveToken_Swallows(r) ==
    /\ pc[r] = "saveToken"
    /\ Step(r, "commit", Wrote(r, "token"))
    /\ UNCHANGED faults

(* This service swallows nothing. *)
SaveToken(r) ==
    /\ pc[r] = "saveToken"
    /\ \/ request[r].aborted /\ Throw(r, "error") /\ UNCHANGED faults
       \/ ~request[r].aborted /\ Step(r, "commit", Wrote(r, "token")) /\ UNCHANGED faults
       \/ Fault /\ Throw(r, "error")

-----------------------------------------------------------------------------
(* Resend *)

(* u is the user with that email. *)
Resend(r, u, i) ==
    /\ ~Open(r)
    /\ users[u] = "unverified"
    /\ Mint(i, Key(u), u)
    /\ Meet(r, i)
    /\ Go(r, "deleteAll", Asked("resend", None, i, None))
    /\ UNCHANGED <<accounts, users, tokens, remembered, told, mail, pages, faults,
                   expiries, spentBy>>

Present(i) == tokens[i] \in {"valid", "expired"}

(* Mutant: a resend leaves the older tokens alone. *)
DeleteAll_None(r) ==
    /\ pc[r] = "deleteAll"
    /\ Step(r, "lockAll", request[r])
    /\ UNCHANGED faults

(* The DELETE sees the rows committed when it begins ... *)
DeleteAll(r) ==
    /\ pc[r] = "deleteAll"
    /\ \/ /\ Step(r, "lockAll", [request[r] EXCEPT !.seen =
                     {i \in Ids : Present(i) /\ Owner(i) = Owner(request[r].id)}])
          /\ UNCHANGED faults
       \/ Fault /\ Throw(r, "error")

(* ... and waits for those that another transaction is deleting. *)
Locked(r, rows) ==
    \E q \in Requests \ {r} : request[q].deletes \cap rows # {}

LockAll(r) ==
    /\ pc[r] = "lockAll"
    /\ ~Locked(r, request[r].seen)
    /\ Step(r, "saveToken", [request[r] EXCEPT !.seen = {},
                !.deletes = {i \in request[r].seen : Present(i)}])
    /\ UNCHANGED faults

-----------------------------------------------------------------------------
(* The link *)

OpenLink(p, i) ==
    /\ pages[p].token = 0
    /\ mail[i] = "arrived"
    /\ pages' = [pages EXCEPT ![p].token = i, ![p].status = "verifying"]
    /\ UNCHANGED <<tables, pc, request, remembered, told, mail, faults, expiries,
                   spentBy, met>>

(* Mutant: the effect does not look at hasAttemptedRef. *)
Effect_Unguarded(p, r) ==
    /\ pages[p].token # 0
    /\ pages[p].runs < 2
    /\ ~Open(r)
    /\ pages' = [pages EXCEPT ![p].runs = @ + 1]
    /\ Meet(r, pages[p].token)
    /\ Go(r, "findToken", Asked("verify", None, pages[p].token, p))
    /\ UNCHANGED <<tables, remembered, told, mail, faults, expiries, spentBy>>

(* StrictMode runs the effect twice; hasAttemptedRef outlives the first run. *)
Effect(p, r) ==
    /\ pages[p].token # 0
    /\ pages[p].runs < 2
    /\ ~Open(r)
    /\ pages' = [pages EXCEPT ![p].runs = @ + 1, ![p].attempted = TRUE]
    /\ IF pages[p].attempted
       THEN UNCHANGED <<pc, request, met>>
       ELSE /\ Meet(r, pages[p].token)
            /\ Go(r, "findToken", Asked("verify", None, pages[p].token, p))
    /\ UNCHANGED <<tables, remembered, told, mail, faults, expiries, spentBy>>

(* The token, and its user's row, outside the transaction. *)
FindToken(r) ==
    /\ pc[r] = "findToken"
    /\ IF tokens[request[r].id] = "valid"
       THEN Step(r, "saveVerified", request[r])
       ELSE Throw(r, "error")
    /\ UNCHANGED faults

(* UPDATE users sets only what differs, and waits for the row. *)
SaveVerified(r) ==
    /\ pc[r] = "saveVerified"
    /\ \A q \in Requests \ {r} : "verified" \in request[q].wrote =>
           Owner(request[q].id) # Owner(request[r].id)
    /\ \/ Step(r, "deleteToken", Wrote(r, "verified")) /\ UNCHANGED faults
       \/ Fault /\ Step(r, "deleteToken", Aborted(r))

DeleteToken(r) ==
    /\ pc[r] = "deleteToken"
    /\ \/ request[r].aborted /\ Throw(r, "error") /\ UNCHANGED faults
       \/ /\ ~request[r].aborted
          /\ ~Locked(r, {request[r].id})
          /\ Step(r, "commit",
                  [request[r] EXCEPT !.deletes = {request[r].id}])
          /\ UNCHANGED faults
       \/ Fault /\ Throw(r, "error")

-----------------------------------------------------------------------------
(* COMMIT *)

Store(r) ==
    LET g == request[r]
        Writes(what) == what \in g.wrote /\ ~g.aborted
    IN  /\ accounts' = IF Writes("account") THEN accounts \cup {g.id} ELSE accounts
        /\ users' = IF Writes("user") THEN [users EXCEPT ![g.id] = "unverified"]
                    ELSE IF Writes("verified")
                    THEN [users EXCEPT ![Owner(g.id)] = "verified"] ELSE users
        /\ tokens' = [i \in Ids |->
               IF i \in g.deletes /\ ~g.aborted THEN "deleted"
               ELSE IF i = g.id /\ Writes("token") THEN "valid" ELSE tokens[i]]
        /\ spentBy' = [i \in Ids |->
               IF i \in g.deletes /\ ~g.aborted THEN spentBy[i] \cup {g.page}
               ELSE spentBy[i]]
        /\ UNCHANGED minted

(* The email is published in the step that hears of the commit. *)
Send(r) ==
    mail' = IF request[r].op = "verify" THEN mail
            ELSE [mail EXCEPT ![request[r].id] = "published"]

Commit(r) ==
    /\ pc[r] = "commit"
    /\ Store(r)
    /\ Remember(r)
    /\ Tell(r, "ok")
    /\ Send(r)
    /\ Go(r, "idle", Asked("signUp", None, 0, None))
    /\ UNCHANGED <<expiries, met>>

(* Mutant: the email is published before the transaction is over. *)
CommitFails_Mailed(r) ==
    /\ pc[r] = "commit"
    /\ Fault
    /\ Go(r, "idle", Asked("signUp", None, 0, None))
    /\ Tell(r, "error")
    /\ Send(r)
    /\ UNCHANGED <<tables, remembered, expiries, spentBy, met>>

CommitFails(r) ==
    /\ pc[r] = "commit"
    /\ Fault
    /\ Throw(r, "error")

(* The transaction is committed, but its answer is lost or the process stops
   before the email is published.                                          *)
CommitUnheard(r) ==
    /\ pc[r] = "commit"
    /\ Fault
    /\ Store(r)
    /\ Tell(r, "error")
    /\ Go(r, "idle", Asked("signUp", None, 0, None))
    /\ UNCHANGED <<remembered, mail, expiries, met>>

-----------------------------------------------------------------------------
(* Time, and the worker that mails *)

Arrive(i) ==
    /\ mail[i] = "published"
    /\ mail' = [mail EXCEPT ![i] = "arrived"]
    /\ UNCHANGED <<tables, pc, request, remembered, told, pages, faults, expiries,
                   spentBy, met>>

Expire(i) ==
    /\ tokens[i] = "valid"
    /\ expiries < MaxExpiries
    /\ expiries' = expiries + 1
    /\ tokens' = [tokens EXCEPT ![i] = "expired"]
    /\ spentBy' = [spentBy EXCEPT ![i] = @ \cup {None}]
    /\ UNCHANGED <<accounts, users, minted, pc, request, remembered, told, mail,
                   pages, faults, met>>

Forget(k) ==
    /\ k \in remembered
    /\ expiries < MaxExpiries
    /\ expiries' = expiries + 1
    /\ remembered' = remembered \ {k}
    /\ UNCHANGED <<tables, pc, request, told, mail, pages, faults, spentBy, met>>

-----------------------------------------------------------------------------
Handle(r) ==
    \/ SaveAccount(r) \/ SaveUser(r) \/ SaveToken(r)
    \/ DeleteAll(r) \/ LockAll(r)
    \/ FindToken(r) \/ SaveVerified(r) \/ DeleteToken(r)
    \/ Commit(r) \/ CommitFails(r) \/ CommitUnheard(r)

Next ==
    \/ \E r \in Requests, k \in Keys, i \in Ids : SignUp(r, k, i)
    \/ \E k \in Keys : Replay(k) \/ Forget(k)
    \/ \E r \in Requests, u, i \in Ids : Resend(r, u, i)
    \/ \E r \in Requests : Handle(r)
    \/ \E p \in Pages, i \in Ids : OpenLink(p, i)
    \/ \E p \in Pages, r \in Requests : Effect(p, r)
    \/ \E i \in Ids : Arrive(i) \/ Expire(i)

Spec == Init /\ [][Next]_vars

-----------------------------------------------------------------------------
(* A committed account has its user and a committed user its account: a
   sign-up whose email is taken, or one of whose inserts failed and was
   swallowed, leaves no account that blocks the username.                  *)
NoHalfAccount == \A i \in Ids : i \in accounts <=> users[i] # "none"

(* What a client is told is true of the tables, whatever failed on the way.
   Who reads success, from the handler or from a replay of the key, has an
   account; a page that shows "verified" belongs to a verified user: neither
   may rest on a statement whose failure was swallowed.  Who is told
   "usernameExists", which the register page turns into a link to the sign-in
   page, is told so of a stored account.                                   *)
AnswersAreTrue ==
    /\ \A k \in Keys :
        /\ "ok" \in told[k] => \E i \in accounts : Key(i) = k
        /\ "exists" \in told[k] =>
              \E i \in accounts : Body[Key(i)].username = Body[k].username
    /\ \A p \in Pages : pages[p].status = "verified" =>
           users[Owner(pages[p].token)] = "verified"

(* "so we never email a user whose account write ended up rolling back"
   (sign-up.command.ts:66): an email belongs to a stored user and token.   *)
MailedUserExists ==
    \A i \in Ids : mail[i] # "none" =>
        /\ users[Owner(i)] # "none"
        /\ tokens[i] # "none"

(* A user with two valid tokens, or a verified user with one, is the doing of
   requests that overlapped.                                               *)
StrayTokensOverlap ==
    \A i \in Ids : tokens[i] = "valid" =>
        /\ \A j \in Ids \ {i} :
              tokens[j] = "valid" /\ Owner(j) = Owner(i) => {i, j} \in met
        /\ users[Owner(i)] = "verified" =>
              \E j \in Ids \ {i} : Owner(j) = Owner(i) /\ {i, j} \in met

(* As long as nothing fails, a link shows "failed" only when its token ran
   out, was replaced, or was spent by another visit: never because of the
   page's own request.                                                     *)
FreshLinkWorks ==
    \A p \in Pages : pages[p].status = "failed" =>
        faults > 0 \/ spentBy[pages[p].token] \ {p} # {}
=============================================================================
