--------------------------- MODULE MCTokenRefresh ---------------------------
(* TokenRefresh for TLC, in two sizes.  deep: one tab with two calls, whose
   401s share a refresh, one account and three sessions, enough for a token
   to be redeemed twice.  wide: two tabs with a call each, two accounts and
   two sessions, which do not expire.                                      *)
EXTENDS TokenRefresh, TLC

CONSTANTS t1, t2, c1, c2, c3

VARIABLE size

Owners == [c \in Calls |-> IF c = c3 THEN t2 ELSE t1]

AccountsSeen ==
    ({sessions[s].account : s \in Ids} \cup {request[r].account : r \in Requests}) \ {None}

Within ==
    IF size = "deep"
    THEN /\ user[t2] = None
         /\ \A r \in Requests : asker[r] # t2
         /\ Cardinality(AccountsSeen) <= 1
    ELSE /\ sessions[MaxSessions].state = "unused"
         /\ \A s \in Ids : ~sessions[s].expired
         /\ call[c2] = "idle"

MCInit == InitBrowser /\ size \in {"deep", "wide"}

MCNext == BrowserNext /\ UNCHANGED size /\ Within'

MCSpec == MCInit /\ [][MCNext]_<<vars, size>>

Symmetry == Permutations(Requests) \cup Permutations(Accounts)
=============================================================================
