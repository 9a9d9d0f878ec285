---------------------------- MODULE TokenRefresh ----------------------------
(***************************************************************************)
(* The browser's side of authentication, composed with Sessions.           *)
(*                                                                         *)
(* Tabs of one browser share the refresh cookie and localStorage (token,   *)
(* user, device); each has a React state and a module variable             *)
(* refreshPromise of its own.  Any 401 makes the call wait for its tab's   *)
(* refresh and then be sent once more; a 401 after that drops the tab      *)
(* back to /login.                                                         *)
(*                                                                         *)
(* An access token names the account it was issued to.  Nothing but its    *)
(* age invalidates it, and it may come of age on the way to the server.    *)
(***************************************************************************)
EXTENDS Sessions

CONSTANTS
    Tabs,     \* tabs of the browser
    Calls,    \* slots for API calls in progress
    TabOf     \* the tab each belongs to

ASSUME BrowserAssumption ==
    /\ TabOf \in [Calls -> Tabs]
    /\ None \notin Tabs

VARIABLES
    cookie,    \* the refresh cookie: a session, or 0
    store,     \* localStorage
    user,      \* React state of AuthProvider, per tab
    call,      \* API calls
    asker,     \* the tab whose page waits for each auth request
    crossed,   \* an auth request has overlapped a login or another tab's (history)
    missed     \* a session was stored of which the browser was not told (history)

browser == <<cookie, store, user, call, asker, crossed, missed>>
vars    == <<backend, browser>>

-----------------------------------------------------------------------------
(* bare: sent without an Authorization header, because localStorage has no
   token any more.                                                         *)
Stages == {"idle", "bare", "sent", "waiting", "resent"}

(* refreshPromise of a tab. *)
Refreshing(t) ==
    {r \in Requests : asker[r] = t /\ pc[r] # "idle" /\ request[r].op = "refresh"}

InitBrowser ==
    /\ Init
    /\ cookie = 0
    /\ \E d \in Devices : store = [token |-> None, user |-> None, device |-> d]
    /\ user = [t \in Tabs |-> None]
    /\ call = [c \in Calls |-> "idle"]
    /\ asker = [r \in Requests |-> None]
    /\ crossed = FALSE
    /\ missed = FALSE

(* Loading a page restores the user that localStorage remembers, and leaves
   to the server what the page before it had asked.                        *)
Load(t, kept, asking) ==
    /\ store' = kept
    /\ user' = [user EXCEPT ![t] = IF kept.token # None THEN kept.user ELSE None]
    /\ call' = [c \in Calls |-> IF TabOf[c] = t THEN "idle" ELSE call[c]]
    /\ asker' = [r \in Requests |-> IF asking[r] = t THEN None ELSE asking[r]]

(* handleFatalResponseStatus(401) of some calls: forget the user and load
   /login, unless the page is there already; then only those calls end.    *)
HandleFatal(t, failed, asking) ==
    LET cleared == [store EXCEPT !.token = None, !.user = None] IN
    /\ IF user[t] # None
       THEN Load(t, cleared, asking)
       ELSE /\ store' = cleared
            /\ call' = [c \in Calls |-> IF c \in failed THEN "idle" ELSE call[c]]
            /\ asker' = asking
            /\ UNCHANGED user

Reload(t) ==
    /\ Load(t, store, asker)
    /\ UNCHANGED <<backend, cookie, crossed, missed>>

-----------------------------------------------------------------------------
(* Signing in and out *)

Login(t, a) ==
    /\ user[t] = None
    /\ \A r \in Requests : asker[r] = t => request[r].op # "signIn"
    /\ \E r \in Requests :
          /\ SignIn(r, a, store.device)
          /\ asker' = [asker EXCEPT ![r] = t]
          /\ crossed' = (crossed \/ \E q \in Requests : pc[q] # "idle")
    /\ UNCHANGED <<cookie, store, user, call, missed>>

Missed(r) ==
    missed' = (missed \/ (request[r].session # 0 /\ Committed(request[r].session)))

(* The cookie comes with the answer, then persist writes the rest. *)
LoginAnswered(r) ==
    /\ asker[r] # None
    /\ request[r].op = "signIn"
    /\ Answered(r)
    /\ asker' = [asker EXCEPT ![r] = None]
    /\ IF request[r].result = "ok"
       THEN /\ cookie' = request[r].session
            /\ store' = [store EXCEPT !.token = request[r].account,
                                      !.user = request[r].account]
            /\ user' = [user EXCEPT ![asker[r]] = request[r].account]
            /\ UNCHANGED missed
       ELSE /\ Missed(r)
            /\ UNCHANGED <<cookie, store, user>>
    /\ UNCHANGED <<call, crossed>>

(* Mutant: logging out drops the token and forgets to drop the user. *)
Logout_TokenOnly(t) ==
    /\ user[t] # None
    /\ user' = [user EXCEPT ![t] = None]
    /\ store' = [store EXCEPT !.token = None]
    /\ UNCHANGED <<backend, cookie, call, asker, crossed, missed>>

(* The server is not told, and the cookie stays. *)
Logout(t) ==
    /\ user[t] # None
    /\ user' = [user EXCEPT ![t] = None]
    /\ store' = [store EXCEPT !.token = None, !.user = None]
    /\ UNCHANGED <<backend, cookie, call, asker, crossed, missed>>

-----------------------------------------------------------------------------
(* API calls *)

Send(c) ==
    /\ user[TabOf[c]] # None
    /\ call[c] = "idle"
    /\ call' = [call EXCEPT ![c] = IF store.token = None THEN "bare" ELSE "sent"]
    /\ UNCHANGED <<backend, cookie, store, user, asker, crossed, missed>>

(* JwtGuard lets it pass: whatever the answer is, it is not a 401.  Nor is
   an answer that never comes.                                             *)
CallAnswered(c) ==
    /\ call[c] \in {"sent", "resent"}
    /\ call' = [call EXCEPT ![c] = "idle"]
    /\ UNCHANGED <<backend, cookie, store, user, asker, crossed, missed>>

(* Mutant: every 401 makes a refresh of its own. *)
StartRefresh_NotShared(t) ==
    \E r \in Requests :
       /\ Refresh(r, cookie, store.device)
       /\ asker' = [asker EXCEPT ![r] = t]
       /\ crossed' = (crossed \/ \E q \in Requests :
                         /\ pc[q] # "idle"
                         /\ ~(asker[q] = t /\ request[q].op = "refresh"))

(* refreshAccessToken, unless the tab is refreshing already. *)
StartRefresh(t) ==
    IF Refreshing(t) # {} THEN UNCHANGED <<backend, asker, crossed>>
    ELSE \E r \in Requests :
            /\ Refresh(r, cookie, store.device)
            /\ asker' = [asker EXCEPT ![r] = t]
            /\ crossed' = (crossed \/ \E q \in Requests :
                              /\ pc[q] # "idle"
                              /\ ~(asker[q] = t /\ request[q].op = "refresh"))

Rejected(c) ==
    /\ call[c] \in {"bare", "sent"}
    /\ call' = [call EXCEPT ![c] = "waiting"]
    /\ StartRefresh(TabOf[c])
    /\ UNCHANGED <<cookie, store, user, missed>>

RejectedAgain(c) ==
    /\ call[c] = "resent"
    /\ HandleFatal(TabOf[c], {c}, asker)
    /\ UNCHANGED <<backend, cookie, crossed, missed>>

(* The calls that waited are sent again with the new token. *)
Resend(t) ==
    call' = [c \in Calls |->
        IF TabOf[c] = t /\ call[c] = "waiting" THEN "resent" ELSE call[c]]

Refreshed(r) ==
    /\ asker[r] # None
    /\ request[r].op = "refresh"
    /\ request[r].result = "ok"
    /\ Answered(r)
    /\ cookie' = request[r].session
    /\ store' = [store EXCEPT !.token = request[r].account]
    /\ Resend(asker[r])
    /\ asker' = [asker EXCEPT ![r] = None]
    /\ UNCHANGED <<user, crossed, missed>>

(* Mutant: a failed refresh leaves the calls that waited for it. *)
RefreshFails_Silent(r) ==
    /\ asker' = [asker EXCEPT ![r] = None]
    /\ UNCHANGED <<store, user, call>>

(* Whatever went wrong, refreshAccessToken answers false, and the calls that
   waited fail with the 401 they had.                                      *)
RefreshFails(r) ==
    LET t == asker[r]
        asking == [asker EXCEPT ![r] = None]
        failed == {c \in Calls : TabOf[c] = t /\ call[c] = "waiting"}
    IN  IF failed # {} THEN HandleFatal(t, failed, asking)
        ELSE /\ asker' = asking
             /\ UNCHANGED <<store, user, call>>

NotRefreshed(r) ==
    /\ asker[r] # None
    /\ request[r].op = "refresh"
    /\ request[r].result # "ok"
    /\ Answered(r)
    /\ RefreshFails(r)
    /\ Missed(r)
    /\ UNCHANGED <<cookie, crossed>>

(* The page that asked is gone. *)
Unheard(r) ==
    /\ asker[r] = None
    /\ Answered(r)
    /\ Missed(r)
    /\ UNCHANGED <<cookie, store, user, call, asker, crossed>>

-----------------------------------------------------------------------------
Serve ==
    /\ \/ \E r \in Requests : Handle(r)
       \/ \E s \in Ids : Expire(s) \/ CleanExpired(s)
    /\ UNCHANGED browser

Deliver(r) == LoginAnswered(r) \/ Refreshed(r) \/ NotRefreshed(r) \/ Unheard(r)

Authorize(c) == CallAnswered(c) \/ Rejected(c) \/ RejectedAgain(c)

BrowserNext ==
    \/ Serve
    \/ \E t \in Tabs : Logout(t) \/ Reload(t) \/ \E a \in Accounts : Login(t, a)
    \/ \E c \in Calls : Send(c) \/ Authorize(c)
    \/ \E r \in Requests : Deliver(r)

BrowserSpec == InitBrowser /\ [][BrowserNext]_vars

-----------------------------------------------------------------------------
(* Properties *)

(* The user that localStorage keeps is the one whose token it keeps and
   whose refresh token the cookie is, unless a login or two tabs' auth
   requests have overlapped.                                               *)
TokenMatchesUser ==
    ~crossed /\ store.user # None =>
        /\ store.token = store.user
        /\ sessions[cookie].account = store.user

(* However many calls of a tab meet a 401 at once, and whenever pages are
   reloaded, the browser is left with a refresh token that still redeems.  *)
CookieSurvives ==
    /\ ~crossed
    /\ ~missed
    /\ \A r \in Requests : pc[r] = "idle"
    /\ cookie # 0
    => ~sessions[cookie].revoked

(* A call that waits always has a refresh of its own tab to wait for: none
   is left behind when the shared refresh ends, however it ends.           *)
NoCallStranded ==
    \A c \in Calls : call[c] = "waiting" => Refreshing(TabOf[c]) # {}
=============================================================================
