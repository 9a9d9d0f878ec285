------------------------------ MODULE Sessions ------------------------------
(***************************************************************************)
(* Sign-in and refresh against the sessions table.                         *)
(*                                                                         *)
(* Both handlers look up a row outside any transaction, mint a session,    *)
(* and then, in one transaction, insert it and revoke every other session  *)
(* of its account on its device.  Postgres runs the transactions at READ   *)
(* COMMITTED: a statement sees what was committed when it began, and       *)
(* waits for the rows that another open transaction has written.           *)
(*                                                                         *)
(* A request's program counter names the await it is suspended at.  The    *)
(* refresh token of a session is identified with the session's id.         *)
(***************************************************************************)
EXTENDS Integers, FiniteSets

CONSTANTS
    Requests,     \* slots for requests in progress
    Accounts,     \* rows of accounts
    Devices,      \* values of the x-device header
    None,         \* no account, no device
    MaxSessions,  \* bound: sessions ever minted
    MaxExpiries   \* bound: sessions that expire

ASSUME SessionsAssumption ==
    /\ None \notin Accounts \cup Devices
    /\ MaxSessions \in Nat
    /\ MaxExpiries \in Nat

VARIABLES
    sessions,   \* Postgres: the sessions table, with the rows not committed yet
    pc,         \* where each request is suspended
    request,    \* its locals and the rows its transaction has locked
    met         \* pairs of sessions minted by requests that overlapped (history)

backend == <<sessions, pc, request, met>>

-----------------------------------------------------------------------------
Ids == 1 .. MaxSessions

(* A session is minted in memory and stored when its transaction commits.
   parent is the session whose token was redeemed for it, or 0.            *)
Row == [state : {"unused", "minted", "stored", "deleted"},
        account : Accounts \cup {None}, device : Devices \cup {None},
        by : {"signIn", "refresh"}, parent : 0 .. MaxSessions,
        revoked : BOOLEAN, expired : BOOLEAN]

NoRow == [state |-> "unused", account |-> None, device |-> None, by |-> "signIn",
          parent |-> 0, revoked |-> FALSE, expired |-> FALSE]

InTransaction == {"write", "revoke", "lock", "commit"}

Labels == {"idle", "find", "answer"} \cup InTransaction

(* seen: the rows that the request's UPDATE of revoke_at has matched. *)
RequestState ==
    [op : {"signIn", "refresh"}, account : Accounts \cup {None},
     device : Devices \cup {None}, token : 0 .. MaxSessions,
     session : 0 .. MaxSessions, seen : SUBSET Ids,
     result : {"none", "ok", "error"}]

Asked(op, a, d, s) ==
    [op |-> op, account |-> a, device |-> d, token |-> s, session |-> 0,
     seen |-> {}, result |-> "none"]

NoRequest == Asked("signIn", None, None, 0)

Committed(s) == sessions[s].state \in {"stored", "deleted"}

SameKey(s, t) ==
    /\ sessions[s].account = sessions[t].account
    /\ sessions[s].device = sessions[t].device

Init ==
    /\ sessions = [s \in Ids |-> NoRow]
    /\ pc = [r \in Requests |-> "idle"]
    /\ request = [r \in Requests |-> NoRequest]
    /\ met = {}

Go(r, l, g) ==
    /\ pc' = [pc EXCEPT ![r] = l]
    /\ request' = [request EXCEPT ![r] = g]

Answer(r, s, result) ==
    Go(r, "answer", [request[r] EXCEPT !.session = s, !.seen = {}, !.result = result])

-----------------------------------------------------------------------------
(* Requests arrive *)

SignIn(r, a, d) ==
    /\ pc[r] = "idle"
    /\ Go(r, "find", Asked("signIn", a, d, 0))
    /\ UNCHANGED <<sessions, met>>

(* s is the token in the request's cookie, 0 when it has none. *)
Refresh(r, s, d) ==
    /\ pc[r] = "idle"
    /\ Go(r, "find", Asked("refresh", None, d, s))
    /\ UNCHANGED <<sessions, met>>

(* Mutant: revoke_at is not looked at. *)
Redeemable_Revoked(s) ==
    s # 0 /\ sessions[s].state = "stored" /\ ~sessions[s].expired

(* RefreshCommand.find asks the table; the device is not compared. *)
Redeemable(s) ==
    /\ s # 0
    /\ sessions[s].state = "stored"
    /\ ~sessions[s].revoked
    /\ ~sessions[s].expired

(* A sign-in is refused for an unknown user, a wrong password or an
   unverified address; both for a request without a device.                *)
Refuse(r) ==
    /\ pc[r] = "find"
    /\ \/ request[r].op = "signIn"
       \/ ~Redeemable(request[r].token)
       \/ request[r].device = None
    /\ Answer(r, 0, "error")
    /\ UNCHANGED <<sessions, met>>

(* newSession draws a fresh uuid: which one does not matter. *)
Mint(r, s, a, parent) ==
    /\ request[r].device # None
    /\ sessions[s].state = "unused"
    /\ \A t \in Ids : t < s => sessions[t].state # "unused"
    /\ sessions' = [sessions EXCEPT ![s] =
           [NoRow EXCEPT !.state = "minted", !.account = a,
                         !.device = request[r].device, !.by = request[r].op,
                         !.parent = parent]]
    /\ met' = met \cup {{s, request[q].session} :
                           q \in {q \in Requests : pc[q] \in InTransaction}}

FindAccount(r, s) ==
    /\ pc[r] = "find"
    /\ request[r].op = "signIn"
    /\ Mint(r, s, request[r].account, 0)
    /\ Go(r, "write", [request[r] EXCEPT !.session = s])

(* Nothing can hold up a refresh's INSERT, which nobody sees before the
   commit: it is part of this step.                                        *)
FindToken(r, s) ==
    /\ pc[r] = "find"
    /\ request[r].op = "refresh"
    /\ Redeemable(request[r].token)
    /\ LET a == sessions[request[r].token].account IN
          /\ Mint(r, s, a, request[r].token)
          /\ Go(r, "revoke", [request[r] EXCEPT !.session = s, !.account = a])

-----------------------------------------------------------------------------
(* The transaction *)

(* Mutant: the account is saved outside the transaction. *)
HoldsAccount_Never(q) == FALSE

(* signIn has set lastSignedInAt, so accountService.save updates the row
   of the account and holds it until the transaction ends.  The inserts of
   a refresh only share the row's key, which does not wait for an update.  *)
HoldsAccount(q) ==
    /\ request[q].op = "signIn"
    /\ pc[q] \in {"revoke", "lock", "commit"}

(* accountService.save, which also writes the user's row: whoever waits for
   that one has waited for the account's before.  Then the INSERT.         *)
SaveAccount(r) ==
    /\ pc[r] = "write"
    /\ \A q \in Requests :
          HoldsAccount(q) => request[q].account # request[r].account
    /\ Go(r, "revoke", request[r])
    /\ UNCHANGED <<sessions, met>>

(* Another transaction has written one of these rows. *)
Locked(rows) == \E q \in Requests : pc[q] = "commit" /\ request[q].seen \cap rows # {}

(* Mutant: the UPDATE does not leave out the request's own session. *)
RevokeOthers_All(r) ==
    LET matched == {s \in Ids : /\ sessions[s].state = "stored" \/ s = request[r].session
                                /\ SameKey(s, request[r].session)}
    IN  /\ pc[r] = "revoke"
        /\ Go(r, IF Locked(matched) THEN "lock" ELSE "commit",
              [request[r] EXCEPT !.seen = matched])
        /\ UNCHANGED <<sessions, met>>

(* The UPDATE sees what was committed when it began.  It waits for rows that
   another transaction has updated.                                        *)
RevokeOthers(r) ==
    LET others == {s \in Ids : /\ sessions[s].state = "stored"
                               /\ SameKey(s, request[r].session)
                               /\ s # request[r].session}
    IN  /\ pc[r] = "revoke"
        /\ Go(r, IF Locked(others) THEN "lock" ELSE "commit",
              [request[r] EXCEPT !.seen = others])
        /\ UNCHANGED <<sessions, met>>

(* What was deleted while it waited, it skips. *)
LockRows(r) ==
    /\ pc[r] = "lock"
    /\ ~Locked(request[r].seen)
    /\ Go(r, "commit", [request[r] EXCEPT !.seen =
           {s \in @ : sessions[s].state = "stored"}])
    /\ UNCHANGED <<sessions, met>>

(* A commit whose answer is lost is reported as transactionFail; an answer
   that the browser never hears is the same to it.                         *)
Commit(r) ==
    /\ pc[r] = "commit"
    /\ sessions' = [s \in Ids |->
           [sessions[s] EXCEPT
               !.state = IF s = request[r].session THEN "stored" ELSE @,
               !.revoked = IF s \in request[r].seen THEN TRUE ELSE @]]
    /\ \E result \in {"ok", "error"} : Answer(r, request[r].session, result)
    /\ UNCHANGED met

(* The lookup fails. *)
FailToFind(r) ==
    /\ pc[r] = "find"
    /\ Answer(r, 0, "error")
    /\ UNCHANGED <<sessions, met>>

(* A statement fails and everything is rolled back.  accountService.save
   swallows its error, but in the aborted transaction the next one fails.
   Nobody has heard of the session, whose number is free again.            *)
Rollback(r) ==
    /\ pc[r] \in InTransaction
    /\ sessions' = [sessions EXCEPT ![request[r].session] = NoRow]
    /\ met' = {p \in met : request[r].session \notin p}
    /\ Answer(r, 0, "error")

Answered(r) ==
    /\ pc[r] = "answer"
    /\ Go(r, "idle", NoRequest)
    /\ UNCHANGED <<sessions, met>>

-----------------------------------------------------------------------------
(* Time and the daily cleanup *)

Expire(s) ==
    /\ sessions[s].state = "stored"
    /\ ~sessions[s].expired
    /\ Cardinality({t \in Ids : sessions[t].expired}) < MaxExpiries
    /\ sessions' = [sessions EXCEPT ![s].expired = TRUE]
    /\ UNCHANGED <<pc, request, met>>

(* The DELETE waits for the rows that an open transaction has updated. *)
CleanExpired(s) ==
    /\ sessions[s].state = "stored"
    /\ sessions[s].expired
    /\ ~Locked({s})
    /\ sessions' = [sessions EXCEPT ![s].state = "deleted"]
    /\ UNCHANGED <<pc, request, met>>

-----------------------------------------------------------------------------
Handle(r) ==
    \/ Refuse(r)
    \/ \E s \in Ids : FindAccount(r, s) \/ FindToken(r, s)
    \/ SaveAccount(r) \/ RevokeOthers(r) \/ LockRows(r) \/ Commit(r)
    \/ FailToFind(r) \/ Rollback(r)

Arrive(r) ==
    \/ \E a \in Accounts, d \in Devices \cup {None} : SignIn(r, a, d)
    \/ \E s \in 0 .. MaxSessions, d \in Devices \cup {None} :
          /\ s # 0 => Committed(s)
          /\ Refresh(r, s, d)

Next ==
    \/ \E r \in Requests : Arrive(r) \/ Handle(r) \/ Answered(r)
    \/ \E s \in Ids : Expire(s) \/ CleanExpired(s)

Spec == Init /\ [][Next]_backend

-----------------------------------------------------------------------------
(* Properties *)

(* Type invariant. *)
SessionsTypeOK ==
    /\ sessions \in [Ids -> Row]
    /\ pc \in [Requests -> Labels]
    /\ request \in [Requests -> RequestState]
    /\ met \subseteq SUBSET Ids

(* However sign-ins and refreshes overlap, fail or lose their answers, an
   account that has signed in on a device has a session there that nobody
   revoked: two rotations never revoke each other's.                       *)
LiveSessionRemains ==
    \A s \in Ids :
       Committed(s) => \E t \in Ids : /\ Committed(t)
                                      /\ SameKey(s, t)
                                      /\ ~sessions[t].revoked

(* Two sessions of one account and device stay live side by side only if
   their transactions overlapped, and never if both come from a sign-in:
   those wait for each other at the row of the account.                    *)
OneLiveUnlessOverlap ==
    \A s, t \in Ids :
       /\ s # t
       /\ sessions[s].state = "stored" /\ sessions[t].state = "stored"
       /\ SameKey(s, t)
       /\ ~sessions[s].revoked /\ ~sessions[t].revoked
       => /\ {s, t} \in met
          /\ ~(sessions[s].by = "signIn" /\ sessions[t].by = "signIn")

(* On the device it was issued to, a refresh token is redeemed once; only
   refreshes that were in progress together share one.                     *)
RedeemedOnce ==
    \A s, t \in Ids :
       /\ s # t
       /\ Committed(s) /\ Committed(t)
       /\ sessions[s].parent # 0
       /\ sessions[s].parent = sessions[t].parent
       /\ SameKey(s, sessions[s].parent) /\ SameKey(t, sessions[t].parent)
       => {s, t} \in met
=============================================================================
