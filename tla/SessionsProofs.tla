--------------------------- MODULE SessionsProofs ---------------------------
(***************************************************************************)
(* Overlapping sign-ins and refreshes, for any number of requests,         *)
(* accounts, devices and sessions, and the browser's side of them, for any *)
(* number of tabs and calls.                                               *)
(*                                                                         *)
(* The backend's three invariants speak of committed rows.  What makes     *)
(* them inductive is what an open transaction knows: whose session it      *)
(* inserted (OwnAt), and that the rows its UPDATE matched leave out only   *)
(* sessions committed by transactions it overlapped, and no sign-in        *)
(* (SeenAt).  Two open transactions have met and never hold one account    *)
(* both (PairAt).                                                          *)
(*                                                                         *)
(* Whatever the tabs do, the server sees a behaviour of Sessions, so all   *)
(* of that holds beside the browser, and the backend's inductive invariant *)
(* may be used there.  As long as no auth requests have overlapped there   *)
(* is one at most, and everything follows from what it is worth to the     *)
(* browser: the cookie it redeems, the account it was issued to and the    *)
(* session it brings.                                                      *)
(***************************************************************************)
EXTENDS TokenRefresh, TLAPS

(* A session that was refreshed on its device can not be redeemed again. *)
ParentSpent ==
    \A s \in Ids :
       Committed(s) /\ sessions[s].parent # 0 /\ SameKey(s, sessions[s].parent) =>
          \/ sessions[sessions[s].parent].revoked
          \/ sessions[sessions[s].parent].state = "deleted"

ParentCommitted ==
    \A s \in Ids :
       Committed(s) /\ sessions[s].parent # 0 =>
          sessions[s].parent \in Ids /\ Committed(sessions[s].parent)

RowsOK ==
    /\ LiveSessionRemains
    /\ OneLiveUnlessOverlap
    /\ RedeemedOnce
    /\ ParentSpent
    /\ ParentCommitted

OwnAt(l, g) ==
    l \in InTransaction =>
       /\ g.session \in Ids
       /\ sessions[g.session].state = "minted"
       /\ ~sessions[g.session].revoked
       /\ sessions[g.session].by = g.op
       /\ sessions[g.session].account = g.account
       /\ g.op = "signIn" => sessions[g.session].parent = 0
       /\ g.op = "refresh" => /\ sessions[g.session].parent = g.token
                              /\ g.token \in Ids
                              /\ Committed(g.token)
                              /\ \A s \in Ids :
                                    /\ Committed(s)
                                    /\ sessions[s].parent = g.token
                                    /\ SameKey(s, g.token)
                                    => {s, g.session} \in met

SeenAt(l, g) ==
    l \in {"lock", "commit"} =>
       /\ \A s \in g.seen : Committed(s) /\ SameKey(s, g.session)
       /\ \A s \in Ids :
             sessions[s].state = "stored" /\ SameKey(s, g.session) =>
                /\ s \in g.seen \/ {s, g.session} \in met
                /\ g.op = "signIn" /\ sessions[s].by = "signIn" => s \in g.seen
       /\ g.op = "refresh" /\ SameKey(g.session, g.token) =>
             g.token \in g.seen \/ sessions[g.token].state = "deleted"

Holding(l, g) == g.op = "signIn" /\ l \in {"revoke", "lock", "commit"}

PairAt(l, g, k, h) ==
    l \in InTransaction /\ k \in InTransaction =>
       /\ g.session # h.session
       /\ {g.session, h.session} \in met
       /\ Holding(l, g) /\ Holding(k, h) => g.account # h.account

IInv ==
    /\ SessionsTypeOK
    /\ RowsOK
    /\ \A r \in Requests : OwnAt(pc[r], request[r])
    /\ \A r \in Requests : SeenAt(pc[r], request[r])
    /\ \A r, q \in Requests : r # q => PairAt(pc[r], request[r], pc[q], request[q])

-----------------------------------------------------------------------------
LEMMA AskedOK ==
  ASSUME SessionsAssumption, NEW op \in {"signIn", "refresh"}, NEW a \in Accounts \cup {None},
         NEW d \in Devices \cup {None}, NEW s \in 0 .. MaxSessions
  PROVE  Asked(op, a, d, s) \in RequestState
<1>1. 0 \in 0 .. MaxSessions
  BY DEF SessionsAssumption
<1>2. QED
  BY <1>1 DEF Asked, RequestState

LEMMA NoRowOK ==
  ASSUME SessionsAssumption
  PROVE  NoRow \in Row
  BY DEF NoRow, Row, SessionsAssumption

LEMMA InitIInv == ASSUME SessionsAssumption, Init PROVE IInv
<1>1. SessionsTypeOK
  <2>1. NoRequest \in RequestState
    BY AskedOK DEF NoRequest, SessionsAssumption
  <2>2. "idle" \in Labels
    BY DEF Labels
  <2>3. QED
    BY <2>1, <2>2, NoRowOK DEF Init, SessionsTypeOK
<1>2. \A s \in Ids : ~Committed(s) /\ sessions[s].state = "unused"
  BY DEF Init, Committed, NoRow
<1>3. RowsOK
  BY <1>2 DEF RowsOK, LiveSessionRemains, OneLiveUnlessOverlap, RedeemedOnce,
              ParentSpent, ParentCommitted
<1>4. \A r \in Requests : pc[r] = "idle"
  BY DEF Init
<1>5. QED
  BY <1>1, <1>3, <1>4 DEF IInv, OwnAt, SeenAt, PairAt, InTransaction

LEMMA GoTypes ==
  ASSUME SessionsTypeOK, NEW r \in Requests, NEW l \in Labels,
         NEW g \in RequestState, Go(r, l, g)
  PROVE  /\ pc' \in [Requests -> Labels]
         /\ request' \in [Requests -> RequestState]
         /\ pc'[r] = l /\ request'[r] = g
         /\ \A q \in Requests : q # r => pc'[q] = pc[q] /\ request'[q] = request[q]
  BY DEF SessionsTypeOK, Go

(* A request that is not in its transaction, before and after, changes
   nothing that anyone relies on.                                          *)
LEMMA OutsideKeeps ==
  ASSUME IInv, NEW r \in Requests, NEW l \in Labels \ InTransaction,
         NEW g \in RequestState, Go(r, l, g), UNCHANGED <<sessions, met>>
  PROVE  IInv'
<1>1. /\ pc'[r] = l
      /\ pc' \in [Requests -> Labels] /\ request' \in [Requests -> RequestState]
      /\ \A q \in Requests : q # r => pc'[q] = pc[q] /\ request'[q] = request[q]
  BY GoTypes DEF IInv
<1>2. SessionsTypeOK'
  BY <1>1 DEF IInv, SessionsTypeOK
<1>3. RowsOK'
  BY DEF IInv, RowsOK, LiveSessionRemains, OneLiveUnlessOverlap, RedeemedOnce,
         ParentSpent, ParentCommitted, Committed, SameKey
<1>4. \A q \in Requests : OwnAt(pc[q], request[q])'
  <2>1. SUFFICES ASSUME NEW q \in Requests PROVE OwnAt(pc[q], request[q])'
    OBVIOUS
  <2>2. CASE q = r
    BY <1>1, <2>2 DEF OwnAt
  <2>3. CASE q # r
    BY <1>1, <2>3 DEF IInv, OwnAt, Committed, SameKey
  <2>4. QED
    BY <2>2, <2>3
<1>5. \A q \in Requests : SeenAt(pc[q], request[q])'
  <2>1. SUFFICES ASSUME NEW q \in Requests PROVE SeenAt(pc[q], request[q])'
    OBVIOUS
  <2>2. CASE q = r
    BY <1>1, <2>2 DEF SeenAt, InTransaction
  <2>3. CASE q # r
    BY <1>1, <2>3 DEF IInv, SeenAt, Committed, SameKey
  <2>4. QED
    BY <2>2, <2>3
<1>6. \A p, q \in Requests : p # q => PairAt(pc[p], request[p], pc[q], request[q])'
  <2>1. SUFFICES ASSUME NEW p \in Requests, NEW q \in Requests, p # q
                 PROVE  PairAt(pc[p], request[p], pc[q], request[q])'
    OBVIOUS
  <2>2. CASE p = r \/ q = r
    BY <1>1, <2>2 DEF PairAt
  <2>3. CASE p # r /\ q # r
    BY <1>1, <2>1, <2>3 DEF IInv, PairAt, Holding
  <2>4. QED
    BY <2>2, <2>3
<1>7. QED
  BY <1>2, <1>3, <1>4, <1>5, <1>6 DEF IInv

(* A step inside a transaction that writes no row. *)
LEMMA StepKeeps ==
  ASSUME IInv, NEW r \in Requests, pc[r] \in InTransaction,
         NEW l \in InTransaction, NEW g \in RequestState, Go(r, l, g),
         UNCHANGED <<sessions, met>>,
         g.session = request[r].session, g.op = request[r].op,
         g.account = request[r].account, g.token = request[r].token,
         SeenAt(l, g),
         \A q \in Requests : q # r /\ Holding(l, g) /\ Holding(pc[q], request[q])
                                => g.account # request[q].account
  PROVE  IInv'
<1>1. /\ pc'[r] = l /\ request'[r] = g
      /\ pc' \in [Requests -> Labels] /\ request' \in [Requests -> RequestState]
      /\ \A q \in Requests : q # r => pc'[q] = pc[q] /\ request'[q] = request[q]
  <2>1. l \in Labels
    BY DEF Labels
  <2>2. QED
    BY <2>1, GoTypes DEF IInv
<1>2. SessionsTypeOK'
  BY <1>1 DEF IInv, SessionsTypeOK
<1>3. RowsOK'
  BY DEF IInv, RowsOK, LiveSessionRemains, OneLiveUnlessOverlap, RedeemedOnce,
         ParentSpent, ParentCommitted, Committed, SameKey
<1>4. \A q \in Requests : OwnAt(pc[q], request[q])'
  <2>1. SUFFICES ASSUME NEW q \in Requests PROVE OwnAt(pc[q], request[q])'
    OBVIOUS
  <2>2. OwnAt(pc[q], request[q])
    BY DEF IInv
  <2>3. CASE q = r
    BY <1>1, <2>2, <2>3 DEF OwnAt, Committed, SameKey
  <2>4. CASE q # r
    BY <1>1, <2>2, <2>4 DEF OwnAt, Committed, SameKey
  <2>5. QED
    BY <2>3, <2>4
<1>5. \A q \in Requests : SeenAt(pc[q], request[q])'
  <2>1. SUFFICES ASSUME NEW q \in Requests PROVE SeenAt(pc[q], request[q])'
    OBVIOUS
  <2>2. CASE q = r
    BY <1>1, <2>2 DEF SeenAt, Committed, SameKey
  <2>3. SeenAt(pc[q], request[q])
    BY DEF IInv
  <2>4. CASE q # r
    BY <1>1, <2>3, <2>4 DEF SeenAt, Committed, SameKey
  <2>5. QED
    BY <2>2, <2>4
<1>6. \A p, q \in Requests : p # q => PairAt(pc[p], request[p], pc[q], request[q])'
  <2>1. SUFFICES ASSUME NEW p \in Requests, NEW q \in Requests, p # q
                 PROVE  PairAt(pc[p], request[p], pc[q], request[q])'
    OBVIOUS
  <2>2. PairAt(pc[p], request[p], pc[q], request[q])
    BY <2>1 DEF IInv
  <2>3. CASE p = r
    BY <1>1, <2>1, <2>2, <2>3 DEF PairAt
  <2>4. CASE q = r
    BY <1>1, <2>1, <2>2, <2>4 DEF PairAt
  <2>5. CASE p # r /\ q # r
    BY <1>1, <2>2, <2>5 DEF PairAt, Holding
  <2>6. QED
    BY <2>3, <2>4, <2>5
<1>7. QED
  BY <1>2, <1>3, <1>4, <1>5, <1>6 DEF IInv

LEMMA SaveAccountKeeps ==
  ASSUME IInv, NEW r \in Requests, SaveAccount(r)
  PROVE  IInv'
<1>1. /\ pc[r] = "write" /\ Go(r, "revoke", request[r])
      /\ UNCHANGED <<sessions, met>>
      /\ request[r] \in RequestState
      /\ "write" \in InTransaction /\ "revoke" \in InTransaction
  BY DEF SaveAccount, IInv, SessionsTypeOK, InTransaction
<1>2. \A q \in Requests : q # r /\ Holding(pc[q], request[q]) =>
          request[r].account # request[q].account
  BY DEF SaveAccount, Holding, HoldsAccount
<1>3. SeenAt("revoke", request[r])
  BY DEF SeenAt
<1>4. QED
  BY <1>1, <1>2, <1>3, StepKeeps

LEMMA RevokeOthersKeeps ==
  ASSUME IInv, NEW r \in Requests, RevokeOthers(r)
  PROVE  IInv'
<1> DEFINE own == request[r].session
           others == {s \in Ids : /\ sessions[s].state = "stored"
                                  /\ SameKey(s, own)
                                  /\ s # own}
           l == IF Locked(others) THEN "lock" ELSE "commit"
           g == [request[r] EXCEPT !.seen = others]
<1>1. pc[r] = "revoke" /\ Go(r, l, g) /\ UNCHANGED <<sessions, met>>
  BY DEF RevokeOthers
<1>2. /\ request[r] \in RequestState /\ others \subseteq Ids
      /\ pc[r] \in InTransaction /\ l \in InTransaction
  BY <1>1 DEF IInv, SessionsTypeOK, InTransaction
<1>3. /\ g \in RequestState /\ g.seen = others
      /\ g.session = own /\ g.op = request[r].op
      /\ g.account = request[r].account /\ g.token = request[r].token
  BY <1>2 DEF RequestState
<1>4. OwnAt(pc[r], request[r])
  BY DEF IInv
<1>5. own \in Ids /\ sessions[own].state = "minted"
  BY <1>2, <1>4 DEF OwnAt
<1>6. \A s \in Ids : sessions[s].state = "stored" /\ SameKey(s, own) => s \in others
  BY <1>5
<1>7. g.op = "refresh" /\ SameKey(own, g.token) =>
          g.token \in others \/ sessions[g.token].state = "deleted"
  BY <1>2, <1>3, <1>4, <1>6 DEF OwnAt, SameKey, Committed
<1>8. \A s \in others : Committed(s) /\ SameKey(s, own)
  BY DEF Committed
<1>9. SeenAt(l, g)
  BY <1>3, <1>6, <1>7, <1>8 DEF SeenAt
<1>10. \A q \in Requests : q # r /\ Holding(l, g) /\ Holding(pc[q], request[q])
                                => g.account # request[q].account
  <2>1. \A q \in Requests : q # r => PairAt(pc[r], request[r], pc[q], request[q])
    BY DEF IInv
  <2>2. \A q \in Requests : Holding(pc[q], request[q]) => pc[q] \in InTransaction
    BY DEF Holding, InTransaction
  <2>3. Holding(l, g) => Holding(pc[r], request[r])
    BY <1>1, <1>3 DEF Holding
  <2>4. QED
    BY <1>2, <1>3, <2>1, <2>2, <2>3 DEF PairAt
<1>11. QED
  <2> HIDE DEF l, g, others, own
  <2>1. QED
    BY <1>1, <1>2, <1>3, <1>9, <1>10, StepKeeps DEF own

LEMMA LockRowsKeeps ==
  ASSUME IInv, NEW r \in Requests, LockRows(r)
  PROVE  IInv'
<1> DEFINE left == {s \in request[r].seen : sessions[s].state = "stored"}
           g == [request[r] EXCEPT !.seen = left]
<1>1. /\ pc[r] = "lock" /\ Go(r, "commit", g) /\ UNCHANGED <<sessions, met>>
  BY DEF LockRows
<1>2. /\ request[r] \in RequestState
      /\ pc[r] \in InTransaction /\ "commit" \in InTransaction
  BY <1>1 DEF IInv, SessionsTypeOK, InTransaction
<1>3. left \subseteq request[r].seen /\ left \subseteq Ids
  BY <1>2 DEF RequestState
<1>4. /\ g \in RequestState /\ g.seen = left
      /\ g.session = request[r].session /\ g.op = request[r].op
      /\ g.account = request[r].account /\ g.token = request[r].token
  BY <1>2, <1>3 DEF RequestState
<1>5. SeenAt(pc[r], request[r])
  BY DEF IInv
<1>6. SeenAt("commit", g)
  BY <1>1, <1>3, <1>4, <1>5 DEF SeenAt, Committed
<1>7. \A q \in Requests : q # r /\ Holding("commit", g) /\ Holding(pc[q], request[q])
                                => g.account # request[q].account
  <2>1. \A q \in Requests : q # r => PairAt(pc[r], request[r], pc[q], request[q])
    BY DEF IInv
  <2>2. \A q \in Requests : Holding(pc[q], request[q]) => pc[q] \in InTransaction
    BY DEF Holding, InTransaction
  <2>3. Holding("commit", g) => Holding(pc[r], request[r])
    BY <1>1, <1>4 DEF Holding
  <2>4. QED
    BY <1>2, <1>4, <2>1, <2>2, <2>3 DEF PairAt
<1>8. QED
  <2> HIDE DEF g, left
  <2>1. QED
    BY <1>1, <1>2, <1>4, <1>6, <1>7, StepKeeps

-----------------------------------------------------------------------------
(* A session is minted: its row was nobody's, and every open transaction
   meets it.                                                               *)
LEMMA MintKeeps ==
  ASSUME SessionsAssumption, IInv, NEW r \in Requests, NEW s \in Ids,
         NEW a \in Accounts \cup {None}, NEW parent \in 0 .. MaxSessions,
         NEW l \in {"write", "revoke"}, pc[r] = "find", Mint(r, s, a, parent),
         Go(r, l, [request[r] EXCEPT !.session = s, !.account = a]),
         \/ request[r].op = "signIn" /\ parent = 0 /\ l = "write"
         \/ request[r].op = "refresh" /\ parent = request[r].token /\ Redeemable(parent)
  PROVE  IInv'
<1> DEFINE g == [request[r] EXCEPT !.session = s, !.account = a]
           row == [NoRow EXCEPT !.state = "minted", !.account = a,
                         !.device = request[r].device, !.by = request[r].op,
                         !.parent = parent]
<1>1. request[r] \in RequestState /\ sessions \in [Ids -> Row] /\ met \subseteq SUBSET Ids
  BY DEF IInv, SessionsTypeOK
<1>2. /\ g \in RequestState /\ g.session = s /\ g.account = a
      /\ g.op = request[r].op /\ g.token = request[r].token
  <2>1. s \in 0 .. MaxSessions
    BY DEF Ids
  <2>2. QED
    BY <1>1, <2>1 DEF RequestState
<1>3. /\ row \in Row /\ row.state = "minted" /\ ~row.revoked /\ row.by = request[r].op
      /\ row.account = a /\ row.parent = parent
  BY <1>1, NoRowOK DEF Row, NoRow, RequestState
<1>4. /\ sessions' = [sessions EXCEPT ![s] = row]
      /\ sessions[s].state = "unused"
      /\ met' = met \cup {{s, request[q].session} :
                             q \in {q \in Requests : pc[q] \in InTransaction}}
  BY DEF Mint
<1>5. /\ pc'[r] = l /\ request'[r] = g
      /\ pc' \in [Requests -> Labels] /\ request' \in [Requests -> RequestState]
      /\ \A q \in Requests : q # r => pc'[q] = pc[q] /\ request'[q] = request[q]
  <2>1. l \in Labels
    BY DEF Labels, InTransaction
  <2>2. QED
    BY <1>2, <2>1, GoTypes DEF IInv
<1>6. /\ sessions' \in [Ids -> Row] /\ sessions'[s] = row
      /\ \A t \in Ids : t # s => sessions'[t] = sessions[t]
  BY <1>1, <1>3, <1>4
<1>7. \A t \in Ids : (Committed(t)' <=> Committed(t)) /\ (Committed(t) => t # s)
  BY <1>3, <1>4, <1>6 DEF Committed
<1>8. \A q \in Requests : pc[q] \in InTransaction =>
          /\ request[q].session \in Ids /\ request[q].session # s
          /\ {s, request[q].session} \in met'
  BY <1>4 DEF IInv, OwnAt
<1>9. met \subseteq met' /\ met' \subseteq SUBSET Ids
  BY <1>1, <1>4, <1>8
<1>10. pc[r] \notin InTransaction
  BY DEF InTransaction
<1> HIDE DEF g, row
<1>11. SessionsTypeOK'
  BY <1>5, <1>6, <1>9 DEF SessionsTypeOK
<1>12. RowsOK'
  <2>1. LiveSessionRemains'
    BY <1>6, <1>7 DEF IInv, RowsOK, LiveSessionRemains, SameKey
  <2>2. OneLiveUnlessOverlap'
    <3>1. \A t \in Ids : sessions'[t].state = "stored" => t # s
      BY <1>3, <1>6
    <3>2. QED
      BY <1>6, <1>9, <3>1 DEF IInv, RowsOK, OneLiveUnlessOverlap, SameKey
  <2>3. ParentCommitted'
    BY <1>6, <1>7 DEF IInv, RowsOK, ParentCommitted
  <2>4. RedeemedOnce'
    <3>1. \A t \in Ids : Committed(t) /\ sessions[t].parent # 0 =>
              sessions[t].parent \in Ids /\ sessions[t].parent # s
      BY <1>7 DEF IInv, RowsOK, ParentCommitted
    <3>2. QED
      BY <1>6, <1>7, <1>9, <3>1 DEF IInv, RowsOK, RedeemedOnce, SameKey
  <2>5. ParentSpent'
    <3>1. \A t \in Ids : Committed(t) /\ sessions[t].parent # 0 =>
              sessions[t].parent \in Ids /\ sessions[t].parent # s
      BY <1>7 DEF IInv, RowsOK, ParentCommitted
    <3>2. QED
      BY <1>6, <1>7, <3>1 DEF IInv, RowsOK, ParentSpent, SameKey
  <2>6. QED
    BY <2>1, <2>2, <2>3, <2>4, <2>5 DEF RowsOK
<1>13. \A q \in Requests : OwnAt(pc[q], request[q])'
  <2>1. SUFFICES ASSUME NEW q \in Requests PROVE OwnAt(pc[q], request[q])'
    OBVIOUS
  <2>2. CASE q # r
    <3>1. OwnAt(pc[q], request[q]) /\ pc'[q] = pc[q] /\ request'[q] = request[q]
      BY <1>5, <2>2 DEF IInv
    <3>2. CASE pc[q] \in InTransaction
      <4> DEFINE own == request[q].session
                 token == request[q].token
      <4>1. own \in Ids /\ own # s /\ sessions'[own] = sessions[own]
        BY <1>6, <1>8, <3>2
      <4>2. ASSUME request[q].op = "refresh"
            PROVE  /\ token \in Ids /\ Committed(token)'
                   /\ \A t \in Ids :
                         /\ Committed(t)' /\ sessions'[t].parent = token
                         /\ SameKey(t, token)'
                         => {t, own} \in met'
        <5>1. token \in Ids /\ Committed(token) /\ token # s
          BY <1>7, <3>1, <3>2, <4>2 DEF OwnAt
        <5>2. \A t \in Ids : /\ Committed(t) /\ sessions[t].parent = token
                             /\ SameKey(t, token)
                             => {t, own} \in met
          BY <3>1, <3>2, <4>2 DEF OwnAt
        <5>3. QED
          BY <3>1, <1>6, <1>7, <1>9, <5>1, <5>2 DEF SameKey
      <4>3. QED
        BY <3>1, <3>2, <4>1, <4>2 DEF OwnAt
    <3>3. QED
      BY <3>1, <3>2 DEF OwnAt
  <2>3. CASE q = r
    <3>1. CASE request[r].op = "signIn" /\ parent = 0
      BY <1>2, <1>3, <1>5, <1>6, <2>3, <3>1 DEF OwnAt
    <3>2. CASE request[r].op = "refresh" /\ parent = request[r].token /\ Redeemable(parent)
      <4>1. parent \in Ids /\ sessions[parent].state = "stored" /\ ~sessions[parent].revoked
        BY <3>2 DEF Redeemable, Ids, SessionsAssumption
      <4>2. Committed(parent)
        BY <4>1 DEF Committed
      <4>3. \A t \in Ids : Committed(t) /\ sessions[t].parent = parent =>
                ~SameKey(t, parent)
        BY <3>2, <4>1 DEF IInv, RowsOK, ParentSpent, Redeemable
      <4>4. \A t \in Ids : Committed(t)' /\ sessions'[t].parent = parent =>
                ~SameKey(t, parent)'
        BY <1>6, <1>7, <4>1, <4>2, <4>3 DEF SameKey
      <4>5. QED
        BY <1>2, <1>3, <1>5, <1>6, <1>7, <2>3, <3>2, <4>1, <4>2, <4>4 DEF OwnAt
    <3>3. QED
      BY <3>1, <3>2
  <2>4. QED
    BY <2>2, <2>3
<1>14. \A q \in Requests : SeenAt(pc[q], request[q])'
  <2>1. SUFFICES ASSUME NEW q \in Requests PROVE SeenAt(pc[q], request[q])'
    OBVIOUS
  <2>2. CASE q = r
    BY <1>5, <2>2 DEF SeenAt
  <2>3. CASE q # r /\ pc[q] \in InTransaction
    <3>1. /\ SeenAt(pc[q], request[q]) /\ pc'[q] = pc[q] /\ request'[q] = request[q]
          /\ request[q].seen \subseteq Ids
      BY <1>5, <2>3 DEF IInv, SessionsTypeOK, RequestState
    <3>2. \A t \in Ids : sessions'[t].state = "stored" => t # s
      BY <1>3, <1>6
    <3>3. request[q].op = "refresh" => request[q].token \in Ids /\ Committed(request[q].token)
      BY <2>3 DEF IInv, OwnAt
    <3>4. CASE pc[q] \in {"lock", "commit"}
      <4>1. PICK own \in Ids, seen \in SUBSET Ids, token \in 0 .. MaxSessions :
               /\ own = request[q].session /\ own # s
               /\ seen = request[q].seen /\ token = request[q].token
        BY <1>8, <2>3, <3>1 DEF IInv, SessionsTypeOK, RequestState
      <4>2. \A t \in seen : Committed(t)' /\ SameKey(t, own)'
        <5>1. \A t \in seen : t \in Ids /\ Committed(t) /\ SameKey(t, own)
          BY <3>1, <3>4, <4>1 DEF SeenAt
        <5>2. QED
          BY <1>6, <1>7, <4>1, <5>1 DEF SameKey
      <4>3. ASSUME NEW t \in Ids, sessions'[t].state = "stored", SameKey(t, own)'
            PROVE  /\ t \in seen \/ {t, own} \in met'
                   /\ request[q].op = "signIn" /\ sessions'[t].by = "signIn" => t \in seen
        <5>1. t # s /\ sessions'[t] = sessions[t] /\ sessions'[own] = sessions[own]
          BY <1>6, <3>2, <4>1, <4>3
        <5>2. sessions[t].state = "stored" /\ SameKey(t, own)
          BY <4>3, <5>1 DEF SameKey
        <5>3. QED
          BY <1>9, <3>1, <3>4, <4>1, <5>1, <5>2 DEF SeenAt
      <4>4. ASSUME request[q].op = "refresh", SameKey(own, token)'
            PROVE  \/ token \in seen
                   \/ sessions'[token].state = "deleted"
        <5>1. /\ sessions'[own] = sessions[own]
              /\ sessions'[token] = sessions[token]
          BY <1>6, <1>7, <3>3, <4>1, <4>4
        <5>2. SameKey(own, token)
          BY <4>4, <5>1 DEF SameKey
        <5>3. QED
          BY <3>1, <3>4, <4>1, <4>4, <5>1, <5>2 DEF SeenAt
      <4>5. QED
        BY <3>1, <4>1, <4>2, <4>3, <4>4 DEF SeenAt
    <3>5. CASE pc[q] \notin {"lock", "commit"}
      BY <3>1, <3>5 DEF SeenAt
    <3>6. QED
      BY <3>4, <3>5
  <2>4. CASE q # r /\ pc[q] \notin InTransaction
    BY <1>5, <2>4 DEF SeenAt, InTransaction
  <2>5. QED
    BY <2>2, <2>3, <2>4
<1>15. \A p, q \in Requests : p # q => PairAt(pc[p], request[p], pc[q], request[q])'
  <2>1. ~Holding(l, g)
    BY <1>2 DEF Holding
  <2>2. SUFFICES ASSUME NEW p \in Requests, NEW q \in Requests, p # q
                 PROVE  PairAt(pc[p], request[p], pc[q], request[q])'
    OBVIOUS
  <2>3. CASE p = r
    BY <1>2, <1>5, <1>8, <2>1, <2>2, <2>3 DEF PairAt
  <2>4. CASE q = r
    BY <1>2, <1>5, <1>8, <2>1, <2>2, <2>4 DEF PairAt
  <2>5. CASE p # r /\ q # r
    BY <1>5, <1>9, <2>2, <2>5 DEF IInv, PairAt, Holding
  <2>6. QED
    BY <2>3, <2>4, <2>5
<1>16. QED
  BY <1>11, <1>12, <1>13, <1>14, <1>15 DEF IInv

LEMMA FindAccountKeeps ==
  ASSUME SessionsAssumption, IInv, NEW r \in Requests, NEW s \in Ids, FindAccount(r, s)
  PROVE  IInv'
<1>1. request[r] \in RequestState
  BY DEF IInv, SessionsTypeOK
<1>2. request[r].account \in Accounts \cup {None} /\ 0 \in 0 .. MaxSessions
  BY <1>1 DEF RequestState, SessionsAssumption
<1>3. [request[r] EXCEPT !.session = s] =
          [request[r] EXCEPT !.session = s, !.account = request[r].account]
  BY <1>1 DEF RequestState
<1>4. QED
  BY <1>2, <1>3, MintKeeps DEF FindAccount

LEMMA FindTokenKeeps ==
  ASSUME SessionsAssumption, IInv, NEW r \in Requests, NEW s \in Ids, FindToken(r, s)
  PROVE  IInv'
<1>1. request[r] \in RequestState /\ sessions \in [Ids -> Row]
  BY DEF IInv, SessionsTypeOK
<1>2. request[r].token \in 0 .. MaxSessions /\ request[r].token # 0
  BY <1>1 DEF FindToken, Redeemable, RequestState
<1>3. request[r].token \in Ids
  BY <1>2 DEF Ids, SessionsAssumption
<1>4. sessions[request[r].token].account \in Accounts \cup {None}
  BY <1>1, <1>3 DEF Row
<1>5. QED
  BY <1>2, <1>4, MintKeeps DEF FindToken

-----------------------------------------------------------------------------
(* The commit shows the session and the revocations to everyone. *)
LEMMA CommitKeeps ==
  ASSUME SessionsAssumption, IInv, NEW r \in Requests, Commit(r)
  PROVE  IInv'
<1>1. PICK own \in Ids, S \in SUBSET Ids, op \in {"signIn", "refresh"},
           token \in 0 .. MaxSessions :
         own = request[r].session /\ S = request[r].seen /\ op = request[r].op
         /\ token = request[r].token
  BY DEF Commit, IInv, SessionsTypeOK, RequestState, OwnAt, InTransaction
<1>2. PICK g \in RequestState : Go(r, "answer", g)
  <2>1. PICK result \in {"ok", "error"} : Answer(r, own, result)
    BY <1>1 DEF Commit
  <2>2. own \in 0 .. MaxSessions /\ request[r] \in RequestState
    BY DEF Ids, IInv, SessionsTypeOK
  <2>3. [request[r] EXCEPT !.session = own, !.seen = {}, !.result = result] \in RequestState
    BY <2>2 DEF RequestState
  <2>4. QED
    BY <2>1, <2>3 DEF Answer
<1>3. /\ pc'[r] = "answer" /\ request'[r] = g
      /\ pc' \in [Requests -> Labels] /\ request' \in [Requests -> RequestState]
      /\ \A q \in Requests : q # r => pc'[q] = pc[q] /\ request'[q] = request[q]
  <2>1. "answer" \in Labels
    BY DEF Labels
  <2>2. QED
    BY <1>2, <2>1, GoTypes DEF IInv
<1>4. /\ sessions[own].state = "minted" /\ ~sessions[own].revoked
      /\ sessions[own].by = op /\ sessions[own].account = request[r].account
      /\ op = "signIn" => sessions[own].parent = 0
      /\ op = "refresh" => /\ sessions[own].parent = token /\ token \in Ids
                           /\ Committed(token)
                           /\ \A t \in Ids : /\ Committed(t) /\ sessions[t].parent = token
                                             /\ SameKey(t, token)
                                             => {t, own} \in met
  BY <1>1 DEF IInv, OwnAt, Commit, InTransaction
<1>5. /\ \A t \in S : Committed(t) /\ SameKey(t, own)
      /\ \A t \in Ids : sessions[t].state = "stored" /\ SameKey(t, own) =>
            /\ t \in S \/ {t, own} \in met
            /\ op = "signIn" /\ sessions[t].by = "signIn" => t \in S
      /\ op = "refresh" /\ SameKey(own, token) =>
            token \in S \/ sessions[token].state = "deleted"
  BY <1>1 DEF IInv, SeenAt, Commit
<1>6. own \notin S /\ ~Committed(own)
  BY <1>4, <1>5 DEF Committed
<1>7. sessions \in [Ids -> Row] /\ met' = met
  BY DEF IInv, SessionsTypeOK, Commit
<1>8. \A t \in Ids :
         /\ sessions'[t] \in Row
         /\ sessions'[t].account = sessions[t].account
         /\ sessions'[t].device = sessions[t].device
         /\ sessions'[t].by = sessions[t].by
         /\ sessions'[t].parent = sessions[t].parent
         /\ sessions'[t].state = (IF t = own THEN "stored" ELSE sessions[t].state)
         /\ sessions'[t].revoked = (IF t \in S THEN TRUE ELSE sessions[t].revoked)
  <2>1. SUFFICES ASSUME NEW t \in Ids
                 PROVE  /\ sessions'[t] \in Row
                        /\ sessions'[t].account = sessions[t].account
                        /\ sessions'[t].device = sessions[t].device
                        /\ sessions'[t].by = sessions[t].by
                        /\ sessions'[t].parent = sessions[t].parent
                        /\ sessions'[t].state = (IF t = own THEN "stored" ELSE sessions[t].state)
                        /\ sessions'[t].revoked = (IF t \in S THEN TRUE ELSE sessions[t].revoked)
    OBVIOUS
  <2>2. sessions'[t] = [sessions[t] EXCEPT
            !.state = IF t = own THEN "stored" ELSE sessions[t].state,
            !.revoked = IF t \in S THEN TRUE ELSE sessions[t].revoked]
    BY <1>1 DEF Commit
  <2>3. sessions[t] \in Row
    BY <1>7
  <2>4. QED
    BY <2>2, <2>3 DEF Row
<1>9. /\ \A t \in Ids : Committed(t)' <=> Committed(t) \/ t = own
      /\ \A t, u \in Ids : SameKey(t, u)' <=> SameKey(t, u)
  BY <1>8 DEF Committed, SameKey
<1>10. sessions' \in [Ids -> Row]
  BY <1>8 DEF Commit
<1>11. SessionsTypeOK'
  BY <1>3, <1>7, <1>10 DEF SessionsTypeOK, IInv
<1>12. RowsOK'
  <2>1. LiveSessionRemains'
    <3>1. SUFFICES ASSUME NEW t \in Ids, Committed(t)'
                   PROVE  \E u \in Ids : /\ Committed(u)' /\ SameKey(t, u)'
                                         /\ ~sessions'[u].revoked
      BY DEF LiveSessionRemains
    <3>2. CASE SameKey(t, own)
      BY <1>4, <1>6, <1>8, <1>9, <3>2
    <3>3. CASE ~SameKey(t, own)
      <4>1. Committed(t)
        BY <1>9, <3>1, <3>3 DEF SameKey
      <4>2. PICK u \in Ids : Committed(u) /\ SameKey(t, u) /\ ~sessions[u].revoked
        BY <4>1 DEF IInv, RowsOK, LiveSessionRemains
      <4>3. u \notin S
        BY <1>5, <3>3, <4>2 DEF SameKey
      <4>4. QED
        BY <1>8, <1>9, <4>2, <4>3
    <3>4. QED
      BY <3>2, <3>3
  <2>2. OneLiveUnlessOverlap'
    <3>1. SUFFICES ASSUME NEW t \in Ids, NEW u \in Ids, t # u,
                          sessions'[t].state = "stored", sessions'[u].state = "stored",
                          SameKey(t, u)', ~sessions'[t].revoked, ~sessions'[u].revoked
                   PROVE  /\ {t, u} \in met
                          /\ ~(sessions'[t].by = "signIn" /\ sessions'[u].by = "signIn")
      BY <1>7 DEF OneLiveUnlessOverlap
    <3>2. SameKey(t, u) /\ SameKey(u, t) /\ {t, u} = {u, t}
      BY <1>9, <3>1 DEF SameKey
    <3>3. CASE t = own
      BY <1>4, <1>5, <1>8, <3>1, <3>2, <3>3
    <3>4. CASE u = own
      BY <1>4, <1>5, <1>8, <3>1, <3>2, <3>4
    <3>5. CASE t # own /\ u # own
      <4>1. /\ sessions[t].state = "stored" /\ ~sessions[t].revoked
            /\ sessions[u].state = "stored" /\ ~sessions[u].revoked
        BY <1>8, <3>1, <3>5
      <4>2. {t, u} \in met /\ ~(sessions[t].by = "signIn" /\ sessions[u].by = "signIn")
        BY <3>1, <3>2, <4>1 DEF IInv, RowsOK, OneLiveUnlessOverlap
      <4>3. QED
        BY <1>8, <4>2
    <3>6. QED
      BY <3>3, <3>4, <3>5
  <2>3. ParentCommitted'
    <3>1. SUFFICES ASSUME NEW t \in Ids, Committed(t)', sessions'[t].parent # 0
                   PROVE  sessions'[t].parent \in Ids /\ Committed(sessions[t].parent)'
      BY DEF ParentCommitted
    <3>2. sessions[t].parent \in Ids /\ Committed(sessions[t].parent)
      <4>1. CASE t = own
        BY <1>4, <1>8, <3>1, <4>1
      <4>2. CASE t # own
        BY <1>8, <1>9, <3>1, <4>2 DEF IInv, RowsOK, ParentCommitted
      <4>3. QED
        BY <4>1, <4>2
    <3>3. sessions'[t].parent = sessions[t].parent
      BY <1>8
    <3>4. QED
      BY <1>9, <3>2, <3>3
  <2>4. RedeemedOnce'
    <3>1. SUFFICES ASSUME NEW t \in Ids, NEW u \in Ids, t # u,
                          Committed(t)', Committed(u)', sessions'[t].parent # 0,
                          sessions'[t].parent = sessions'[u].parent,
                          SameKey(t, sessions[t].parent)', SameKey(u, sessions[u].parent)'
                   PROVE  {t, u} \in met
      BY <1>7 DEF RedeemedOnce
    <3>2. PICK p \in Ids : p = sessions[t].parent /\ p = sessions[u].parent
      <4>1. sessions'[t].parent \in Ids
        BY <2>3, <3>1 DEF ParentCommitted
      <4>2. QED
        BY <1>8, <3>1, <4>1
    <3>3. p # 0 /\ SameKey(t, p) /\ SameKey(u, p) /\ {t, u} = {u, t}
      <4>1. sessions'[t].parent = p /\ sessions'[u].parent = p
        BY <1>8, <3>2
      <4>2. QED
        BY <1>9, <3>1, <4>1
    <3>4. CASE t = own
      BY <1>4, <1>9, <3>1, <3>2, <3>3, <3>4
    <3>5. CASE u = own
      BY <1>4, <1>9, <3>1, <3>2, <3>3, <3>5
    <3>6. CASE t # own /\ u # own
      BY <1>9, <3>1, <3>2, <3>3, <3>6 DEF IInv, RowsOK, RedeemedOnce
    <3>7. QED
      BY <3>4, <3>5, <3>6
  <2>5. ParentSpent'
    <3>1. SUFFICES ASSUME NEW t \in Ids, Committed(t)', sessions'[t].parent # 0,
                          SameKey(t, sessions[t].parent)'
                   PROVE  \/ sessions'[sessions'[t].parent].revoked
                          \/ sessions'[sessions'[t].parent].state = "deleted"
      BY DEF ParentSpent
    <3>2. PICK p \in Ids : p = sessions[t].parent /\ p = sessions'[t].parent
      BY <1>8, <2>3, <3>1 DEF ParentCommitted
    <3>3. SameKey(t, p) /\ p # 0
      BY <1>9, <3>1, <3>2
    <3>4. CASE t = own
      <4>1. op = "refresh" /\ p = token /\ p # own
        BY <1>4, <1>6, <3>2, <3>3, <3>4
      <4>2. token \in S \/ sessions[token].state = "deleted"
        BY <1>5, <3>3, <3>4, <4>1
      <4>3. QED
        BY <1>8, <3>2, <4>1, <4>2
    <3>5. CASE t # own
      <4>1. sessions[p].revoked \/ sessions[p].state = "deleted"
        BY <1>9, <3>1, <3>2, <3>3, <3>5 DEF IInv, RowsOK, ParentSpent
      <4>2. QED
        BY <1>4, <1>8, <3>2, <4>1
    <3>6. QED
      BY <3>4, <3>5
  <2>6. QED
    BY <2>1, <2>2, <2>3, <2>4, <2>5 DEF RowsOK
<1> DEFINE OpenAt(q) == q # r /\ pc[q] \in InTransaction
<1>13. \A q \in Requests : OpenAt(q) =>
          /\ pc'[q] = pc[q] /\ request'[q] = request[q] /\ request[q] \in RequestState
          /\ request[q].session \in Ids /\ request[q].session # own
          /\ request[q].session \notin S
          /\ {own, request[q].session} \in met
          /\ Holding(pc[q], request[q]) /\ op = "signIn" =>
                request[q].account # sessions[own].account
  <2>1. SUFFICES ASSUME NEW q \in Requests, OpenAt(q)
        PROVE  /\ pc'[q] = pc[q] /\ request'[q] = request[q] /\ request[q] \in RequestState
               /\ request[q].session \in Ids /\ request[q].session # own
               /\ request[q].session \notin S
               /\ {own, request[q].session} \in met
               /\ Holding(pc[q], request[q]) /\ op = "signIn" =>
                     request[q].account # sessions[own].account
    OBVIOUS
  <2>2. PairAt(pc[r], request[r], pc[q], request[q]) /\ OwnAt(pc[q], request[q])
    BY <2>1 DEF IInv
  <2>3. pc[r] = "commit" /\ pc[r] \in InTransaction
    BY DEF Commit, InTransaction
  <2>4. request[q].session \in Ids /\ sessions[request[q].session].state = "minted"
    BY <2>1, <2>2 DEF OwnAt
  <2>5. Holding(pc[r], request[r]) <=> op = "signIn"
    BY <1>1, <2>3 DEF Holding
  <2>6. request[q] \in RequestState
    BY DEF IInv, SessionsTypeOK
  <2>7. QED
    BY <1>1, <1>3, <1>4, <1>5, <2>1, <2>2, <2>3, <2>4, <2>5, <2>6 DEF PairAt, Committed
<1>14. \A q \in Requests : OwnAt(pc[q], request[q])'
  <2>1. SUFFICES ASSUME NEW q \in Requests PROVE OwnAt(pc[q], request[q])'
    OBVIOUS
  <2>2. CASE ~OpenAt(q)
    BY <1>3, <2>2 DEF OwnAt, InTransaction
  <2>3. CASE OpenAt(q)
    <3>1. PICK mine \in Ids, tok \in 0 .. MaxSessions :
             mine = request[q].session /\ tok = request[q].token
      BY <1>13, <2>3 DEF RequestState
    <3>2. OwnAt(pc[q], request[q])
      BY DEF IInv
    <3>3. ASSUME request[q].op = "refresh"
          PROVE  /\ sessions'[mine].parent = tok /\ tok \in Ids /\ Committed(tok)'
                 /\ \A t \in Ids :
                       Committed(t)' /\ sessions'[t].parent = tok /\ SameKey(t, tok)' =>
                          {t, mine} \in met'
      <4>1. /\ sessions[mine].parent = tok /\ tok \in Ids /\ Committed(tok)
            /\ \A t \in Ids :
                  Committed(t) /\ sessions[t].parent = tok /\ SameKey(t, tok) =>
                     {t, mine} \in met
        <5>1. pc[q] \in InTransaction
          BY <2>3
        <5>2. QED
          BY <3>1, <3>2, <3>3, <5>1 DEF OwnAt
      <4>2. QED
        BY <1>7, <1>8, <1>9, <1>13, <2>3, <3>1, <4>1
    <3>4. /\ sessions'[mine].state = "minted" /\ ~sessions'[mine].revoked
          /\ sessions'[mine].by = request[q].op
          /\ sessions'[mine].account = request[q].account
          /\ request[q].op = "signIn" => sessions'[mine].parent = 0
      BY <1>8, <1>13, <2>3, <3>1, <3>2 DEF OwnAt
    <3>5. QED
      BY <1>13, <2>3, <3>1, <3>3, <3>4 DEF OwnAt
  <2>4. QED
    BY <2>2, <2>3
<1>15. \A q \in Requests : SeenAt(pc[q], request[q])'
  <2>1. SUFFICES ASSUME NEW q \in Requests PROVE SeenAt(pc[q], request[q])'
    OBVIOUS
  <2>2. CASE ~OpenAt(q)
    BY <1>3, <2>2 DEF SeenAt, InTransaction
  <2>3. CASE OpenAt(q) /\ pc[q] \in {"lock", "commit"}
    <3>1. PICK mine \in Ids, tok \in 0 .. MaxSessions, T \in SUBSET Ids :
             mine = request[q].session /\ tok = request[q].token /\ T = request[q].seen
      BY <1>13, <2>3 DEF RequestState
    <3>2. OwnAt(pc[q], request[q]) /\ SeenAt(pc[q], request[q])
      BY DEF IInv
    <3>3. \A t \in T : Committed(t)' /\ SameKey(t, mine)'
      BY <1>9, <2>3, <3>1, <3>2 DEF SeenAt
    <3>4. \A t \in Ids : sessions'[t].state = "stored" /\ SameKey(t, mine)' =>
             /\ t \in T \/ {t, mine} \in met'
             /\ request[q].op = "signIn" /\ sessions'[t].by = "signIn" => t \in T
      <4>1. SUFFICES ASSUME NEW t \in Ids, sessions'[t].state = "stored", SameKey(t, mine)
                     PROVE  /\ t \in T \/ {t, mine} \in met
                            /\ request[q].op = "signIn" /\ sessions[t].by = "signIn" => t \in T
        BY <1>7, <1>8, <1>9
      <4>2. CASE t # own
        BY <1>8, <2>3, <3>1, <3>2, <4>1, <4>2 DEF SeenAt
      <4>3. CASE t = own
        <5>1. {t, mine} \in met
          BY <1>13, <2>3, <3>1, <4>3
        <5>2. request[q].account = sessions[own].account
          BY <2>3, <3>1, <3>2, <4>1, <4>3 DEF OwnAt, SameKey
        <5>3. request[q].op = "signIn" => Holding(pc[q], request[q])
          BY <2>3 DEF Holding
        <5>4. ~(request[q].op = "signIn" /\ op = "signIn")
          BY <1>13, <2>3, <5>2, <5>3
        <5>5. QED
          BY <1>4, <4>3, <5>1, <5>4
      <4>4. QED
        BY <4>2, <4>3
    <3>5. request[q].op = "refresh" /\ SameKey(mine, tok)' =>
             tok \in T \/ sessions'[tok].state = "deleted"
      <4>1. SUFFICES ASSUME request[q].op = "refresh", SameKey(mine, tok)'
                     PROVE  tok \in T \/ sessions'[tok].state = "deleted"
        OBVIOUS
      <4>2. tok \in Ids /\ Committed(tok)
        BY <2>3, <3>1, <3>2, <4>1 DEF OwnAt
      <4>3. tok \in T \/ sessions[tok].state = "deleted"
        BY <1>9, <2>3, <3>1, <3>2, <4>1, <4>2 DEF SeenAt
      <4>4. QED
        BY <1>6, <1>8, <4>2, <4>3
    <3>6. QED
      BY <1>13, <2>3, <3>1, <3>3, <3>4, <3>5 DEF SeenAt
  <2>4. CASE OpenAt(q) /\ pc[q] \notin {"lock", "commit"}
    BY <1>3, <2>4 DEF SeenAt
  <2>5. QED
    BY <2>2, <2>3, <2>4
<1>16. \A p, q \in Requests : p # q => PairAt(pc[p], request[p], pc[q], request[q])'
  <2>1. SUFFICES ASSUME NEW p \in Requests, NEW q \in Requests, p # q
                 PROVE  PairAt(pc[p], request[p], pc[q], request[q])'
    OBVIOUS
  <2>2. CASE p = r \/ q = r
    BY <1>3, <2>2 DEF PairAt, InTransaction
  <2>3. CASE p # r /\ q # r
    BY <1>3, <1>7, <2>1, <2>3 DEF IInv, PairAt, Holding
  <2>4. QED
    BY <2>2, <2>3
<1>17. QED
  BY <1>11, <1>12, <1>14, <1>15, <1>16 DEF IInv

(* A rolled back session had been seen by nobody. *)
LEMMA RollbackKeeps ==
  ASSUME SessionsAssumption, IInv, NEW r \in Requests, Rollback(r)
  PROVE  IInv'
<1>1. PICK own \in Ids : own = request[r].session /\ sessions[own].state = "minted"
  BY DEF Rollback, IInv, OwnAt
<1>2. PICK g \in RequestState : Go(r, "answer", g)
  <2>1. Answer(r, 0, "error") /\ request[r] \in RequestState /\ 0 \in 0 .. MaxSessions
    BY DEF Rollback, IInv, SessionsTypeOK, SessionsAssumption
  <2>2. [request[r] EXCEPT !.session = 0, !.seen = {}, !.result = "error"] \in RequestState
    BY <2>1 DEF RequestState
  <2>3. QED
    BY <2>1, <2>2 DEF Answer
<1>3. /\ pc'[r] = "answer" /\ request'[r] = g
      /\ pc' \in [Requests -> Labels] /\ request' \in [Requests -> RequestState]
      /\ \A q \in Requests : q # r => pc'[q] = pc[q] /\ request'[q] = request[q]
  <2>1. "answer" \in Labels
    BY DEF Labels
  <2>2. QED
    BY <1>2, <2>1, GoTypes DEF IInv
<1>4. /\ sessions \in [Ids -> Row] /\ sessions' = [sessions EXCEPT ![own] = NoRow]
      /\ met' = {p \in met : own \notin p}
  BY <1>1 DEF Rollback, IInv, SessionsTypeOK
<1>5. /\ sessions' \in [Ids -> Row] /\ sessions'[own] = NoRow
      /\ \A t \in Ids : t # own => sessions'[t] = sessions[t]
  BY <1>4, NoRowOK
<1>6. \A t \in Ids : (Committed(t)' <=> Committed(t)) /\ (Committed(t) => t # own)
  BY <1>1, <1>5 DEF Committed, NoRow
<1>7. \A t, u : {t, u} \in met /\ t # own /\ u # own => {t, u} \in met'
  BY <1>4
<1>8. NoRow.state = "unused"
  BY DEF NoRow
<1>9. SessionsTypeOK'
  BY <1>3, <1>4, <1>5 DEF SessionsTypeOK, IInv
<1>10. \A t \in Ids : Committed(t) /\ sessions[t].parent # 0 =>
           sessions[t].parent \in Ids /\ sessions[t].parent # own
  BY <1>6 DEF IInv, RowsOK, ParentCommitted
<1>11. \A t \in Ids : sessions'[t].state = "stored" => t # own
  BY <1>5, <1>8
<1>12. RowsOK'
  <2>1. LiveSessionRemains'
    BY <1>5, <1>6 DEF IInv, RowsOK, LiveSessionRemains, SameKey
  <2>2. OneLiveUnlessOverlap'
    BY <1>5, <1>7, <1>11 DEF IInv, RowsOK, OneLiveUnlessOverlap, SameKey
  <2>3. ParentCommitted'
    BY <1>5, <1>6 DEF IInv, RowsOK, ParentCommitted
  <2>4. RedeemedOnce'
    <3>1. SUFFICES ASSUME NEW t \in Ids, NEW u \in Ids, t # u,
                          Committed(t)', Committed(u)',
                          sessions'[t].parent # 0,
                          sessions'[t].parent = sessions'[u].parent,
                          SameKey(t, sessions[t].parent)', SameKey(u, sessions[u].parent)'
                   PROVE  {t, u} \in met'
      BY DEF RedeemedOnce
    <3>2. /\ Committed(t) /\ t # own /\ sessions'[t] = sessions[t]
          /\ Committed(u) /\ u # own /\ sessions'[u] = sessions[u]
      BY <1>5, <1>6, <3>1
    <3>3. LET p == sessions[t].parent IN
          p \in Ids /\ p # own /\ sessions[u].parent = p /\ sessions'[p] = sessions[p]
      BY <1>5, <1>10, <3>1, <3>2
    <3>4. SameKey(t, sessions[t].parent) /\ SameKey(u, sessions[u].parent)
      BY <3>1, <3>2, <3>3 DEF SameKey
    <3>5. {t, u} \in met
      BY <3>1, <3>2, <3>4 DEF IInv, RowsOK, RedeemedOnce
    <3>6. QED
      BY <1>7, <3>2, <3>5
  <2>5. ParentSpent'
    BY <1>5, <1>6, <1>10 DEF IInv, RowsOK, ParentSpent, SameKey
  <2>6. QED
    BY <2>1, <2>2, <2>3, <2>4, <2>5 DEF RowsOK
<1> DEFINE OpenAt(q) == q # r /\ pc[q] \in InTransaction
<1>13. \A q \in Requests : OpenAt(q) =>
          /\ pc'[q] = pc[q] /\ request'[q] = request[q] /\ request[q] \in RequestState
          /\ request[q].session \in Ids /\ request[q].session # own
  BY <1>1, <1>3 DEF IInv, SessionsTypeOK, OwnAt, PairAt, Rollback
<1>14. \A q \in Requests : OwnAt(pc[q], request[q])'
  <2>1. SUFFICES ASSUME NEW q \in Requests PROVE OwnAt(pc[q], request[q])'
    OBVIOUS
  <2>2. CASE ~OpenAt(q)
    BY <1>3, <2>2 DEF OwnAt, InTransaction
  <2>3. CASE OpenAt(q)
    <3>1. PICK mine \in Ids, tok \in 0 .. MaxSessions :
             mine = request[q].session /\ tok = request[q].token
      BY <1>13, <2>3 DEF RequestState
    <3>2. OwnAt(pc[q], request[q])
      BY DEF IInv
    <3>3. sessions'[mine] = sessions[mine] /\ mine # own
      BY <1>5, <1>13, <2>3, <3>1
    <3>4. ASSUME request[q].op = "refresh"
          PROVE  /\ tok \in Ids /\ Committed(tok)'
                 /\ \A t \in Ids :
                       Committed(t)' /\ sessions'[t].parent = tok /\ SameKey(t, tok)' =>
                          {t, mine} \in met'
      <4>1. /\ tok \in Ids /\ Committed(tok) /\ tok # own
            /\ \A t \in Ids :
                  Committed(t) /\ sessions[t].parent = tok /\ SameKey(t, tok) =>
                     {t, mine} \in met
        BY <1>6, <2>3, <3>1, <3>2, <3>4 DEF OwnAt
      <4>2. QED
        BY <1>5, <1>6, <1>7, <3>3, <4>1 DEF SameKey
    <3>5. QED
      BY <1>13, <2>3, <3>1, <3>2, <3>3, <3>4 DEF OwnAt
  <2>4. QED
    BY <2>2, <2>3
<1>15. \A q \in Requests : SeenAt(pc[q], request[q])'
  <2>1. SUFFICES ASSUME NEW q \in Requests PROVE SeenAt(pc[q], request[q])'
    OBVIOUS
  <2>2. CASE ~OpenAt(q)
    BY <1>3, <2>2 DEF SeenAt, InTransaction
  <2>3. CASE OpenAt(q) /\ pc[q] \in {"lock", "commit"}
    <3>1. PICK mine \in Ids, tok \in 0 .. MaxSessions, T \in SUBSET Ids :
             mine = request[q].session /\ tok = request[q].token /\ T = request[q].seen
      BY <1>13, <2>3 DEF RequestState
    <3>2. OwnAt(pc[q], request[q]) /\ SeenAt(pc[q], request[q])
      BY DEF IInv
    <3>3. sessions'[mine] = sessions[mine] /\ mine # own
      BY <1>5, <1>13, <2>3, <3>1
    <3>4. \A t \in T : Committed(t)' /\ SameKey(t, mine)'
      BY <1>5, <1>6, <2>3, <3>1, <3>2, <3>3 DEF SeenAt, SameKey
    <3>5. \A t \in Ids : sessions'[t].state = "stored" /\ SameKey(t, mine)' =>
             /\ t \in T \/ {t, mine} \in met'
             /\ request[q].op = "signIn" /\ sessions'[t].by = "signIn" => t \in T
      BY <1>5, <1>7, <1>11, <2>3, <3>1, <3>2, <3>3 DEF SeenAt, SameKey
    <3>6. request[q].op = "refresh" => tok \in Ids /\ tok # own
      BY <1>6, <2>3, <3>1, <3>2 DEF OwnAt
    <3>7. request[q].op = "refresh" /\ SameKey(mine, tok)' =>
             tok \in T \/ sessions'[tok].state = "deleted"
      BY <1>5, <2>3, <3>1, <3>2, <3>3, <3>6 DEF SeenAt, SameKey
    <3>8. QED
      BY <1>13, <2>3, <3>1, <3>4, <3>5, <3>7 DEF SeenAt
  <2>4. CASE OpenAt(q) /\ pc[q] \notin {"lock", "commit"}
    BY <1>3, <2>4 DEF SeenAt
  <2>5. QED
    BY <2>2, <2>3, <2>4
<1>16. \A p, q \in Requests : p # q => PairAt(pc[p], request[p], pc[q], request[q])'
  <2>1. SUFFICES ASSUME NEW p \in Requests, NEW q \in Requests, p # q
                 PROVE  PairAt(pc[p], request[p], pc[q], request[q])'
    OBVIOUS
  <2>2. CASE ~OpenAt(p) \/ ~OpenAt(q)
    BY <1>3, <2>2 DEF PairAt, InTransaction
  <2>3. CASE OpenAt(p) /\ OpenAt(q)
    BY <1>7, <1>13, <2>1, <2>3 DEF IInv, PairAt, Holding
  <2>4. QED
    BY <2>2, <2>3
<1>17. QED
  BY <1>9, <1>12, <1>14, <1>15, <1>16 DEF IInv

-----------------------------------------------------------------------------
(* A stored row that expires, or is deleted after that. *)
LEMMA AgeKeeps ==
  ASSUME IInv, sessions' \in [Ids -> Row], UNCHANGED <<pc, request, met>>,
         \A t \in Ids :
            /\ sessions'[t].account = sessions[t].account
            /\ sessions'[t].device = sessions[t].device
            /\ sessions'[t].by = sessions[t].by
            /\ sessions'[t].parent = sessions[t].parent
            /\ sessions'[t].revoked = sessions[t].revoked
            /\ \/ sessions'[t].state = sessions[t].state
               \/ sessions[t].state = "stored" /\ sessions'[t].state = "deleted"
  PROVE  IInv'
<1>1. /\ \A t \in Ids : Committed(t)' <=> Committed(t)
      /\ \A t, u \in Ids : SameKey(t, u)' <=> SameKey(t, u)
      /\ \A t \in Ids : /\ sessions'[t].state = "stored" => sessions[t].state = "stored"
                        /\ sessions[t].state = "minted" => sessions'[t].state = "minted"
                        /\ sessions[t].state = "deleted" => sessions'[t].state = "deleted"
  BY DEF Committed, SameKey
<1>2. SessionsTypeOK'
  BY DEF IInv, SessionsTypeOK
<1>3. RowsOK'
  <2>1. LiveSessionRemains' /\ OneLiveUnlessOverlap'
    <3>1. LiveSessionRemains'
      <4>1. SUFFICES ASSUME NEW t \in Ids, Committed(t)'
                     PROVE  \E u \in Ids : /\ Committed(u)' /\ SameKey(t, u)'
                                           /\ ~sessions'[u].revoked
        BY DEF LiveSessionRemains
      <4>2. PICK u \in Ids : Committed(u) /\ SameKey(t, u) /\ ~sessions[u].revoked
        BY <1>1, <4>1 DEF IInv, RowsOK, LiveSessionRemains
      <4>3. QED
        BY <1>1, <4>2
    <3>2. OneLiveUnlessOverlap'
      BY <1>1 DEF IInv, RowsOK, OneLiveUnlessOverlap
    <3>3. QED
      BY <3>1, <3>2
  <2>2. ParentCommitted'
    BY <1>1 DEF IInv, RowsOK, ParentCommitted
  <2>3. \A t \in Ids : Committed(t) /\ sessions[t].parent # 0 => sessions[t].parent \in Ids
    BY DEF IInv, RowsOK, ParentCommitted
  <2>4. RedeemedOnce'
    BY <1>1, <2>3 DEF IInv, RowsOK, RedeemedOnce
  <2>5. ParentSpent'
    BY <1>1, <2>3 DEF IInv, RowsOK, ParentSpent
  <2>6. QED
    BY <2>1, <2>2, <2>4, <2>5 DEF RowsOK
<1>4. \A q \in Requests : OwnAt(pc[q], request[q])'
  <2>1. SUFFICES ASSUME NEW q \in Requests PROVE OwnAt(pc[q], request[q])'
    OBVIOUS
  <2>2. OwnAt(pc[q], request[q])
    BY DEF IInv
  <2>3. CASE pc[q] \in InTransaction
    <3>1. PICK mine \in Ids : mine = request[q].session
      BY <2>2, <2>3 DEF OwnAt
    <3>2. /\ sessions'[mine].state = "minted" /\ sessions'[mine].by = sessions[mine].by
          /\ sessions'[mine].revoked = sessions[mine].revoked
          /\ sessions'[mine].account = sessions[mine].account
          /\ sessions'[mine].parent = sessions[mine].parent
      BY <1>1, <2>2, <2>3, <3>1 DEF OwnAt
    <3>3. ASSUME request[q].op = "refresh"
          PROVE  /\ request[q].token \in Ids /\ Committed(request[q].token)'
                 /\ \A t \in Ids : /\ Committed(t)'
                                   /\ sessions'[t].parent = request[q].token
                                   /\ SameKey(t, request[q].token)'
                                   => {t, mine} \in met
      BY <1>1, <2>2, <2>3, <3>1, <3>3 DEF OwnAt
    <3>4. QED
      BY <2>2, <2>3, <3>1, <3>2, <3>3 DEF OwnAt
  <2>4. QED
    BY <2>3 DEF OwnAt
<1>5. \A q \in Requests : SeenAt(pc[q], request[q])'
  <2>1. SUFFICES ASSUME NEW q \in Requests, pc[q] \in {"lock", "commit"}
                 PROVE  SeenAt(pc[q], request[q])'
    BY DEF SeenAt
  <2>2. OwnAt(pc[q], request[q]) /\ SeenAt(pc[q], request[q])
        /\ request[q].seen \subseteq Ids /\ pc[q] \in InTransaction
    BY <2>1 DEF IInv, SessionsTypeOK, RequestState, InTransaction
  <2>3. request[q].session \in Ids /\ (request[q].op = "refresh" => request[q].token \in Ids)
    BY <2>2 DEF OwnAt
  <2>4. QED
    BY <1>1, <2>1, <2>2, <2>3 DEF SeenAt
<1>6. \A p, q \in Requests : p # q => PairAt(pc[p], request[p], pc[q], request[q])'
  BY DEF IInv, PairAt, Holding
<1>7. QED
  BY <1>2, <1>3, <1>4, <1>5, <1>6 DEF IInv

LEMMA ExpireKeeps == ASSUME IInv, NEW s \in Ids, Expire(s) PROVE IInv'
<1>1. sessions \in [Ids -> Row] /\ sessions' = [sessions EXCEPT ![s].expired = TRUE]
  BY DEF Expire, IInv, SessionsTypeOK
<1>2. sessions' \in [Ids -> Row]
  BY <1>1 DEF Row
<1>3. \A t \in Ids : /\ sessions'[t].account = sessions[t].account
                     /\ sessions'[t].device = sessions[t].device
                     /\ sessions'[t].by = sessions[t].by
                     /\ sessions'[t].parent = sessions[t].parent
                     /\ sessions'[t].revoked = sessions[t].revoked
                     /\ sessions'[t].state = sessions[t].state
  BY <1>1 DEF Row
<1>4. QED
  BY <1>2, <1>3, AgeKeeps DEF Expire

LEMMA CleanExpiredKeeps == ASSUME IInv, NEW s \in Ids, CleanExpired(s) PROVE IInv'
<1>1. /\ sessions \in [Ids -> Row] /\ sessions' = [sessions EXCEPT ![s].state = "deleted"]
      /\ sessions[s].state = "stored"
  BY DEF CleanExpired, IInv, SessionsTypeOK
<1>2. sessions' \in [Ids -> Row]
  BY <1>1 DEF Row
<1>3. \A t \in Ids : /\ sessions'[t].account = sessions[t].account
                     /\ sessions'[t].device = sessions[t].device
                     /\ sessions'[t].by = sessions[t].by
                     /\ sessions'[t].parent = sessions[t].parent
                     /\ sessions'[t].revoked = sessions[t].revoked
                     /\ \/ sessions'[t].state = sessions[t].state
                        \/ sessions[t].state = "stored" /\ sessions'[t].state = "deleted"
  BY <1>1 DEF Row
<1>4. QED
  BY <1>2, <1>3, AgeKeeps DEF CleanExpired

-----------------------------------------------------------------------------
LEMMA ArriveKeeps ==
  ASSUME SessionsAssumption, IInv, NEW r \in Requests, Arrive(r)
  PROVE  IInv'
<1>1. "find" \in Labels \ InTransaction
  BY DEF Labels, InTransaction
<1>2. ASSUME NEW a \in Accounts, NEW d \in Devices \cup {None}, SignIn(r, a, d)
      PROVE  IInv'
  <2>1. Asked("signIn", a, d, 0) \in RequestState
    BY AskedOK DEF SessionsAssumption
  <2>2. QED
    BY <1>1, <1>2, <2>1, OutsideKeeps DEF SignIn
<1>3. ASSUME NEW s \in 0 .. MaxSessions, NEW d \in Devices \cup {None}, Refresh(r, s, d)
      PROVE  IInv'
  <2>1. Asked("refresh", None, d, s) \in RequestState
    BY AskedOK
  <2>2. QED
    BY <1>1, <1>3, <2>1, OutsideKeeps DEF Refresh
<1>4. QED
  BY <1>2, <1>3 DEF Arrive

LEMMA AnswerErrorKeeps ==
  ASSUME SessionsAssumption, IInv, NEW r \in Requests, Answer(r, 0, "error"),
         UNCHANGED <<sessions, met>>
  PROVE  IInv'
<1>1. request[r] \in RequestState /\ 0 \in 0 .. MaxSessions
  BY DEF IInv, SessionsTypeOK, SessionsAssumption
<1>2. [request[r] EXCEPT !.session = 0, !.seen = {}, !.result = "error"] \in RequestState
  BY <1>1 DEF RequestState
<1>3. "answer" \in Labels \ InTransaction
  BY DEF Labels, InTransaction
<1>4. QED
  BY <1>2, <1>3, OutsideKeeps DEF Answer

LEMMA AnsweredKeeps ==
  ASSUME SessionsAssumption, IInv, NEW r \in Requests, Answered(r)
  PROVE  IInv'
<1>1. NoRequest \in RequestState
  BY AskedOK DEF NoRequest, SessionsAssumption
<1>2. "idle" \in Labels \ InTransaction
  BY DEF Labels, InTransaction
<1>3. QED
  BY <1>1, <1>2, OutsideKeeps DEF Answered

LEMMA HandleKeeps ==
  ASSUME SessionsAssumption, IInv, NEW r \in Requests, Handle(r)
  PROVE  IInv'
<1>1. CASE Refuse(r)
  BY <1>1, AnswerErrorKeeps DEF Refuse
<1>2. CASE \E s \in Ids : FindAccount(r, s) \/ FindToken(r, s)
  BY <1>2, FindAccountKeeps, FindTokenKeeps
<1>3. CASE SaveAccount(r)
  BY <1>3, SaveAccountKeeps
<1>4. CASE RevokeOthers(r)
  BY <1>4, RevokeOthersKeeps
<1>5. CASE LockRows(r)
  BY <1>5, LockRowsKeeps
<1>6. CASE Commit(r)
  BY <1>6, CommitKeeps
<1>7. CASE FailToFind(r)
  BY <1>7, AnswerErrorKeeps DEF FailToFind
<1>8. CASE Rollback(r)
  BY <1>8, RollbackKeeps
<1>9. QED
  BY <1>1, <1>2, <1>3, <1>4, <1>5, <1>6, <1>7, <1>8 DEF Handle

LEMMA NextIInv ==
  ASSUME SessionsAssumption, IInv, [Next]_backend
  PROVE  IInv'
<1>1. CASE \E r \in Requests : Arrive(r) \/ Handle(r) \/ Answered(r)
  BY <1>1, ArriveKeeps, HandleKeeps, AnsweredKeeps
<1>2. CASE \E s \in Ids : Expire(s) \/ CleanExpired(s)
  BY <1>2, ExpireKeeps, CleanExpiredKeeps
<1>3. CASE UNCHANGED backend
  <2>1. sessions' \in [Ids -> Row] /\ UNCHANGED <<sessions, pc, request, met>>
    BY <1>3 DEF backend, IInv, SessionsTypeOK
  <2>2. QED
    BY <2>1, AgeKeeps
<1>4. QED
  BY <1>1, <1>2, <1>3 DEF Next

LEMMA SpecIInv == ASSUME SessionsAssumption PROVE Spec => []IInv
<1>1. Init => IInv
  BY InitIInv
<1>2. IInv /\ [Next]_backend => IInv'
  BY NextIInv
<1>3. QED
  BY <1>1, <1>2, PTL DEF Spec

(* Type correctness of sign-in and refresh (sign-in.command.ts,
   refresh.command.ts) for any number of requests and sessions.            *)
THEOREM SessionTypes == Spec => []SessionsTypeOK
<1>1. IInv => SessionsTypeOK
  BY DEF IInv
<1>2. QED
  BY <1>1, SpecIInv, SessionsAssumption, PTL

(* Overlapping transactions of revokeAllOtherSession never lock an account
   out of a device: one of its sessions there is still unrevoked.          *)
THEOREM NobodyLockedOut == Spec => []LiveSessionRemains
<1>1. IInv => LiveSessionRemains
  BY DEF IInv, RowsOK
<1>2. QED
  BY <1>1, SpecIInv, SessionsAssumption, PTL

(* Two live sessions of an account on a device come from transactions that
   overlapped, and one of the two from a refresh.                          *)
THEOREM RotationReplaces == Spec => []OneLiveUnlessOverlap
<1>1. IInv => OneLiveUnlessOverlap
  BY DEF IInv, RowsOK
<1>2. QED
  BY <1>1, SpecIInv, SessionsAssumption, PTL

(* On its own device a refresh token is worth one session, or as many as
   refreshes were in progress with it at the same time.                    *)
THEOREM TokenSpentOnce == Spec => []RedeemedOnce
<1>1. IInv => RedeemedOnce
  BY DEF IInv, RowsOK
<1>2. QED
  BY <1>1, SpecIInv, SessionsAssumption, PTL

-----------------------------------------------------------------------------
(* The browser: what is true of it besides the backend's invariant. *)

BrowserTypeOK ==
    /\ cookie \in 0 .. MaxSessions
    /\ store \in [token : Accounts \cup {None}, user : Accounts \cup {None},
                  device : Devices]
    /\ user \in [Tabs -> Accounts \cup {None}]
    /\ call \in [Calls -> Stages]
    /\ asker \in [Requests -> Tabs \cup {None}]
    /\ crossed \in BOOLEAN
    /\ missed \in BOOLEAN

CookieOK == cookie # 0 => cookie \in Ids /\ Committed(cookie)

-----------------------------------------------------------------------------
(* The kinds of steps, as far as the backend and the browser's storage see
   them.                                                                    *)

(* localStorage stays, or forgets the user. *)
StoreKept ==
    store'.user = None \/ (store'.user = store.user /\ store'.token = store.token)

AskersKept == \A r \in Requests : asker'[r] \in {asker[r], None}

OthersKept(r) == \A q \in Requests \ {r} : pc'[q] = pc[q] /\ request'[q] = request[q]

(* Tabs reload, log out, send calls and hear of them. *)
Pages == UNCHANGED <<backend, cookie, crossed, missed>> /\ StoreKept /\ AskersKept

(* A tab asks. *)
Asks(r, t) ==
    /\ pc[r] = "idle" /\ pc'[r] = "find" /\ OthersKept(r)
    /\ request'[r].session = 0
    /\ request'[r].op = "refresh" => request'[r].token = cookie
    /\ asker' = [asker EXCEPT ![r] = t]
    /\ UNCHANGED <<sessions, met, cookie, store, missed>>
    /\ ~crossed' => ~crossed /\ \A q \in Requests : pc[q] = "idle"

(* The answer of a request is heard, or is lost. *)
Hears(r) ==
    /\ request[r].result = "ok"
    /\ cookie' = request[r].session
    /\ store'.token = request[r].account
    /\ \/ request[r].op = "signIn" /\ store'.user = request[r].account
       \/ request[r].op = "refresh" /\ asker[r] # None /\ store'.user = store.user
    /\ missed' = missed

Misses(r) ==
    /\ cookie' = cookie
    /\ StoreKept
    /\ ~missed' => ~missed /\ (request[r].session = 0 \/ ~Committed(request[r].session))

Delivers(r) ==
    /\ pc[r] = "answer" /\ pc'[r] = "idle" /\ OthersKept(r)
    /\ AskersKept
    /\ UNCHANGED <<sessions, met, crossed>>
    /\ Hears(r) \/ Misses(r)

(* No call that goes on waiting loses the refresh it waits for. *)
Attends(r, t) == asker[r] = t /\ pc[r] # "idle" /\ request[r].op = "refresh"

Attended ==
    \A c \in Calls : call'[c] = "waiting" =>
        /\ call[c] = "waiting"
        /\ \A r \in Requests : Attends(r, TabOf[c]) =>
              asker'[r] = asker[r] /\ pc'[r] # "idle" /\ request'[r].op = request[r].op

(* Whatever is committed stays so, and its account's. *)
RowsKept ==
    \A s \in Ids : Committed(s) =>
        /\ sessions'[s].state \in {"stored", "deleted"}
        /\ sessions'[s].account = sessions[s].account

Unrevoking == \A s \in Ids : Committed(s) => sessions'[s].revoked = sessions[s].revoked

(* A request is refused or rolled back, goes on, or commits. *)
Drops(r) ==
    /\ pc'[r] = "answer"
    /\ request'[r].session = 0 /\ request'[r].result = "error"
    /\ Unrevoking

GoesOn(r) ==
    /\ pc'[r] \in InTransaction
    /\ request'[r].op = "refresh" =>
         /\ request'[r].token \in Ids /\ Committed(request'[r].token)
         /\ sessions[request'[r].token].account = request'[r].account
    /\ Unrevoking

Commits(r) ==
    /\ pc[r] = "commit" /\ pc'[r] = "answer"
    /\ request'[r].session \in Ids
    /\ request'[r].account = request[r].account
    /\ sessions'[request'[r].session].state = "stored"
    /\ sessions'[request'[r].session].account = request'[r].account
    /\ ~sessions'[request'[r].session].revoked

Serves(r) ==
    /\ pc[r] \in {"find"} \cup InTransaction
    /\ OthersKept(r) /\ RowsKept
    /\ request'[r].op = request[r].op
    /\ request'[r].token = request[r].token
    /\ Drops(r) \/ GoesOn(r) \/ Commits(r)

Ages == UNCHANGED <<pc, request>> /\ RowsKept /\ Unrevoking

-----------------------------------------------------------------------------
(* What the one request in progress is worth. *)
RequestAt(l, g) ==
    /\ g.op = "refresh" /\ (l \in InTransaction \/ (l = "answer" /\ g.session # 0)) =>
         /\ g.token \in Ids /\ Committed(g.token)
         /\ sessions[g.token].account = g.account
    /\ l = "answer" /\ g.session # 0 =>
         /\ g.session \in Ids /\ Committed(g.session)
         /\ sessions[g.session].account = g.account
    /\ l = "answer" /\ g.result = "ok" => g.session # 0

RequestsKnow == \A r \in Requests : RequestAt(pc[r], request[r])

Alone ==
    ~crossed => \A r, q \in Requests : pc[r] # "idle" /\ pc[q] # "idle" => r = q

Mirrors ==
    ~crossed /\ store.user # None =>
        /\ store.token = store.user
        /\ cookie # 0
        /\ sessions[cookie].account = store.user

(* A refresh redeems the cookie that the browser still has ... *)
Redeems ==
    ~crossed => \A r \in Requests :
        /\ pc[r] # "idle"
        /\ request[r].op = "refresh"
        /\ asker[r] # None
        => request[r].token = cookie

(* ... and brings a session that nobody has revoked ... *)
Fresh ==
    ~crossed => \A r \in Requests :
        pc[r] = "answer" /\ request[r].session # 0 => ~sessions[request[r].session].revoked

(* ... or is on its way with one, when the cookie's is revoked. *)
Replaced ==
    ~crossed /\ ~missed /\ cookie # 0 /\ sessions[cookie].revoked =>
        \E r \in Requests : pc[r] = "answer" /\ request[r].session # 0

BInv ==
    /\ IInv /\ BrowserTypeOK /\ CookieOK /\ RequestsKnow
    /\ Alone /\ Mirrors /\ Redeems /\ Fresh /\ Replaced /\ NoCallStranded

-----------------------------------------------------------------------------
(* The server's steps *)

LEMMA AnswerFields ==
  ASSUME IInv, NEW r \in Requests, NEW s \in 0 .. MaxSessions,
         NEW result \in {"ok", "error"}, Answer(r, s, result)
  PROVE  /\ pc'[r] = "answer" /\ OthersKept(r)
         /\ request'[r].session = s /\ request'[r].result = result
         /\ request'[r].op = request[r].op /\ request'[r].token = request[r].token
         /\ request'[r].account = request[r].account
<1> DEFINE g == [request[r] EXCEPT !.session = s, !.seen = {}, !.result = result]
<1>1. request[r] \in RequestState
  BY DEF IInv, SessionsTypeOK
<1>2. /\ g \in RequestState /\ g.session = s /\ g.result = result
      /\ g.op = request[r].op /\ g.token = request[r].token /\ g.account = request[r].account
  BY <1>1 DEF RequestState
<1>3. Go(r, "answer", g) /\ "answer" \in Labels
  BY DEF Answer, Labels
<1> HIDE DEF g
<1>4. pc'[r] = "answer" /\ request'[r] = g /\ OthersKept(r)
  BY <1>2, <1>3, GoTypes DEF IInv, OthersKept
<1>5. QED
  BY <1>2, <1>4

LEMMA DropServes ==
  ASSUME SessionsAssumption, IInv, NEW r \in Requests,
         pc[r] \in {"find"} \cup InTransaction, Answer(r, 0, "error"),
         RowsKept, Unrevoking
  PROVE  Serves(r)
<1>1. 0 \in 0 .. MaxSessions
  BY DEF SessionsAssumption
<1>2. QED
  BY <1>1, AnswerFields DEF Serves, Drops

LEMMA SameRows ==
  ASSUME UNCHANGED sessions
  PROVE  RowsKept /\ Unrevoking
  BY DEF RowsKept, Unrevoking, Committed

LEMMA RollbackServes ==
  ASSUME SessionsAssumption, IInv, NEW r \in Requests, Rollback(r)
  PROVE  Serves(r)
<1> DEFINE own == request[r].session
<1>1. own \in Ids /\ ~Committed(own) /\ sessions \in [Ids -> Row]
  BY DEF Rollback, IInv, OwnAt, Committed, SessionsTypeOK
<1>2. sessions' = [sessions EXCEPT ![own] = NoRow]
  BY DEF Rollback
<1> HIDE DEF own
<1>3. \A s \in Ids : Committed(s) => sessions'[s] = sessions[s]
  BY <1>1, <1>2
<1>4. RowsKept /\ Unrevoking
  BY <1>3 DEF RowsKept, Unrevoking, Committed
<1>5. QED
  BY <1>4, DropServes DEF Rollback

LEMMA MintedRow ==
  ASSUME IInv, NEW r \in Requests, NEW s \in Ids, NEW a, NEW p, Mint(r, s, a, p)
  PROVE  RowsKept /\ Unrevoking
<1> DEFINE row == [NoRow EXCEPT !.state = "minted", !.account = a,
                      !.device = request[r].device, !.by = request[r].op, !.parent = p]
<1>1. sessions \in [Ids -> Row] /\ sessions' = [sessions EXCEPT ![s] = row]
  BY DEF IInv, SessionsTypeOK, Mint
<1>2. ~Committed(s)
  BY DEF Mint, Committed
<1> HIDE DEF row
<1>3. \A t \in Ids : Committed(t) => sessions'[t] = sessions[t]
  BY <1>1, <1>2
<1>4. QED
  BY <1>3 DEF RowsKept, Unrevoking, Committed

LEMMA FindAccountServes ==
  ASSUME SessionsAssumption, IInv, NEW r \in Requests, NEW s \in Ids, FindAccount(r, s)
  PROVE  Serves(r)
<1> DEFINE g == [request[r] EXCEPT !.session = s]
<1>1. request[r] \in RequestState /\ s \in 0 .. MaxSessions
  BY DEF IInv, SessionsTypeOK, Ids
<1>2. g \in RequestState /\ g.op = request[r].op /\ g.token = request[r].token
  BY <1>1 DEF RequestState
<1>3. Go(r, "write", g) /\ "write" \in Labels \cap InTransaction /\ request[r].op = "signIn"
  BY DEF FindAccount, Labels, InTransaction
<1> HIDE DEF g
<1>4. pc'[r] = "write" /\ request'[r] = g /\ OthersKept(r)
  BY <1>2, <1>3, GoTypes DEF IInv, OthersKept
<1>5. RowsKept /\ Unrevoking /\ pc[r] = "find"
  BY MintedRow DEF FindAccount
<1>6. QED
  BY <1>2, <1>3, <1>4, <1>5 DEF Serves, GoesOn

LEMMA FindTokenServes ==
  ASSUME SessionsAssumption, IInv, NEW r \in Requests, NEW s \in Ids, FindToken(r, s)
  PROVE  Serves(r)
<1> DEFINE token == request[r].token
           a     == sessions[token].account
           g     == [request[r] EXCEPT !.session = s, !.account = a]
<1>1. /\ request[r] \in RequestState /\ s \in 0 .. MaxSessions
      /\ token \in 0 .. MaxSessions /\ token # 0 /\ sessions \in [Ids -> Row]
  BY DEF IInv, SessionsTypeOK, Ids, RequestState, FindToken, Redeemable
<1>2. token \in Ids /\ Committed(token)
  BY <1>1 DEF Ids, SessionsAssumption, FindToken, Redeemable, Committed
<1>3. a \in Accounts \cup {None}
  BY <1>1, <1>2 DEF Row
<1> HIDE DEF a
<1>4. g \in RequestState /\ g.op = request[r].op /\ g.token = token /\ g.account = a
  BY <1>1, <1>3 DEF RequestState
<1>5. Go(r, "revoke", g) /\ "revoke" \in Labels \cap InTransaction /\ pc[r] = "find"
  BY DEF FindToken, Labels, InTransaction, a
<1> HIDE DEF g
<1>6. pc'[r] = "revoke" /\ request'[r] = g /\ OthersKept(r)
  BY <1>4, <1>5, GoTypes DEF IInv, OthersKept
<1>7. RowsKept /\ Unrevoking
  BY MintedRow DEF FindToken
<1>8. QED
  BY <1>2, <1>4, <1>5, <1>6, <1>7 DEF Serves, GoesOn, a

(* A statement of an open transaction that changes no row. *)
LEMMA StatementServes ==
  ASSUME SessionsAssumption, IInv, RequestsKnow, NEW r \in Requests,
         pc[r] \in InTransaction, NEW l \in InTransaction, NEW S \in SUBSET Ids,
         Go(r, l, [request[r] EXCEPT !.seen = S]), UNCHANGED sessions
  PROVE  Serves(r)
<1> DEFINE g == [request[r] EXCEPT !.seen = S]
<1>1. request[r] \in RequestState /\ l \in Labels
  BY DEF IInv, SessionsTypeOK, Labels
<1>2. /\ g \in RequestState /\ g.op = request[r].op /\ g.token = request[r].token
      /\ g.account = request[r].account
  BY <1>1 DEF RequestState
<1> HIDE DEF g
<1>3. pc'[r] = l /\ request'[r] = g /\ OthersKept(r)
  BY <1>1, <1>2, GoTypes DEF IInv, OthersKept, g
<1>4. g.op = "refresh" => /\ g.token \in Ids /\ Committed(g.token)
                          /\ sessions[g.token].account = g.account
  BY <1>2 DEF RequestsKnow, RequestAt
<1>5. QED
  BY <1>2, <1>3, <1>4, SameRows DEF Serves, GoesOn

LEMMA CommitServes ==
  ASSUME SessionsAssumption, IInv, NEW r \in Requests, Commit(r)
  PROVE  Serves(r)
<1> DEFINE own == request[r].session
           S   == request[r].seen
<1>1. /\ own \in Ids /\ sessions[own].state = "minted" /\ ~sessions[own].revoked
      /\ sessions[own].account = request[r].account
      /\ \A s \in S : Committed(s)
      /\ sessions \in [Ids -> Row] /\ pc[r] = "commit" /\ own \in 0 .. MaxSessions
  <2>1. pc[r] = "commit" /\ OwnAt(pc[r], request[r]) /\ SeenAt(pc[r], request[r])
        /\ sessions \in [Ids -> Row]
    BY DEF Commit, IInv, SessionsTypeOK
  <2>2. /\ own \in Ids /\ sessions[own].state = "minted" /\ ~sessions[own].revoked
        /\ sessions[own].account = request[r].account
    BY <2>1 DEF OwnAt, InTransaction
  <2>3. \A s \in S : Committed(s)
    BY <2>1 DEF SeenAt
  <2>4. QED
    BY <2>1, <2>2, <2>3 DEF Ids
<1>2. own \notin S
  BY <1>1 DEF Committed
<1>3. sessions' = [s \in Ids |->
           [sessions[s] EXCEPT !.state = IF s = own THEN "stored" ELSE @,
                               !.revoked = IF s \in S THEN TRUE ELSE @]]
  BY DEF Commit
<1>4. PICK result \in {"ok", "error"} : Answer(r, own, result)
  BY DEF Commit
<1>5. /\ pc'[r] = "answer" /\ OthersKept(r)
      /\ request'[r].session = own /\ request'[r].account = request[r].account
      /\ request'[r].op = request[r].op /\ request'[r].token = request[r].token
  BY <1>1, <1>4, AnswerFields
<1> HIDE DEF own, S
<1>6. \A s \in Ids : /\ sessions'[s].state = IF s = own THEN "stored" ELSE sessions[s].state
                     /\ sessions'[s].account = sessions[s].account
                     /\ s \notin S => sessions'[s].revoked = sessions[s].revoked
  <2> TAKE s \in Ids
  <2> DEFINE state   == IF s = own THEN "stored" ELSE sessions[s].state
             revoked == IF s \in S THEN TRUE ELSE sessions[s].revoked
  <2>1. sessions[s] \in Row
    BY <1>1
  <2>2. sessions'[s] = [sessions[s] EXCEPT !.state = state, !.revoked = revoked]
    BY <1>3
  <2> HIDE DEF state, revoked
  <2>3. sessions'[s].state = state /\ sessions'[s].account = sessions[s].account
        /\ sessions'[s].revoked = revoked
    BY <2>1, <2>2 DEF Row
  <2>4. QED
    BY <2>3 DEF state, revoked
<1>7. RowsKept
  BY <1>6 DEF RowsKept, Committed
<1>8. Commits(r)
  BY <1>1, <1>2, <1>5, <1>6 DEF Commits
<1>9. QED
  BY <1>1, <1>5, <1>7, <1>8 DEF Serves, InTransaction

LEMMA HandleServes ==
  ASSUME SessionsAssumption, IInv, RequestsKnow, NEW r \in Requests, Handle(r)
  PROVE  Serves(r)
<1>1. request[r] \in RequestState
  BY DEF IInv, SessionsTypeOK
<1>2. CASE Refuse(r)
  BY <1>2, SameRows, DropServes DEF Refuse
<1>3. CASE \E s \in Ids : FindAccount(r, s) \/ FindToken(r, s)
  BY <1>3, FindAccountServes, FindTokenServes
<1>4. CASE SaveAccount(r)
  <2>1. [request[r] EXCEPT !.seen = request[r].seen] = request[r]
        /\ request[r].seen \in SUBSET Ids
    BY <1>1 DEF RequestState
  <2>2. QED
    BY <1>4, <2>1, StatementServes DEF SaveAccount, InTransaction
<1>5. CASE RevokeOthers(r)
  <2> DEFINE others == {s \in Ids : /\ sessions[s].state = "stored"
                                    /\ SameKey(s, request[r].session)
                                    /\ s # request[r].session}
  <2>1. others \in SUBSET Ids
    OBVIOUS
  <2>2. \/ Go(r, "lock", [request[r] EXCEPT !.seen = others])
        \/ Go(r, "commit", [request[r] EXCEPT !.seen = others])
    BY <1>5 DEF RevokeOthers
  <2> HIDE DEF others
  <2>3. QED
    BY <1>5, <2>1, <2>2, StatementServes DEF RevokeOthers, InTransaction
<1>6. CASE LockRows(r)
  <2> DEFINE left == {s \in request[r].seen : sessions[s].state = "stored"}
  <2>1. left \in SUBSET Ids
    BY <1>1 DEF RequestState
  <2>2. Go(r, "commit", [request[r] EXCEPT !.seen = left])
    BY <1>6 DEF LockRows
  <2> HIDE DEF left
  <2>3. QED
    BY <1>6, <2>1, <2>2, StatementServes DEF LockRows, InTransaction
<1>7. CASE Commit(r)
  BY <1>7, CommitServes
<1>8. CASE FailToFind(r)
  BY <1>8, SameRows, DropServes DEF FailToFind
<1>9. CASE Rollback(r)
  BY <1>9, RollbackServes
<1>10. QED
  BY <1>2, <1>3, <1>4, <1>5, <1>6, <1>7, <1>8, <1>9 DEF Handle

LEMMA AgeAges ==
  ASSUME IInv, NEW s \in Ids, Expire(s) \/ CleanExpired(s)
  PROVE  Ages
<1>1. sessions \in [Ids -> Row]
  BY DEF IInv, SessionsTypeOK
<1>2. CASE Expire(s)
  BY <1>1, <1>2 DEF Expire, Ages, RowsKept, Unrevoking, Committed, Row
<1>3. CASE CleanExpired(s)
  BY <1>1, <1>3 DEF CleanExpired, Ages, RowsKept, Unrevoking, Committed, Row
<1>4. QED
  BY <1>2, <1>3
-----------------------------------------------------------------------------
(* The browser's steps *)

(* The browser's variables, typed. *)
LEMMA BrowserTyped ==
  ASSUME BrowserTypeOK
  PROVE  /\ cookie \in 0 .. MaxSessions
         /\ store \in [token : Accounts \cup {None}, user : Accounts \cup {None},
                       device : Devices]
         /\ user \in [Tabs -> Accounts \cup {None}]
         /\ call \in [Calls -> Stages]
         /\ asker \in [Requests -> Tabs \cup {None}]
         /\ crossed \in BOOLEAN /\ missed \in BOOLEAN
  BY DEF BrowserTypeOK

(* What the storage may become. *)
Stores == [token : Accounts \cup {None}, user : Accounts \cup {None}, device : Devices]

LEMMA LoadKeeps ==
  ASSUME BrowserAssumption, BrowserTypeOK, NEW t \in Tabs, NEW kept \in Stores,
         NEW asking \in [Requests -> Tabs \cup {None}], Load(t, kept, asking)
  PROVE  /\ store' = kept
         /\ user' \in [Tabs -> Accounts \cup {None}]
         /\ call' \in [Calls -> Stages]
         /\ asker' \in [Requests -> Tabs \cup {None}]
         /\ \A r \in Requests : asker'[r] \in {asking[r], None}
         /\ \A r \in Requests : asking[r] # t => asker'[r] = asking[r]
         /\ \A c \in Calls : call'[c] = IF TabOf[c] = t THEN "idle" ELSE call[c]
<1>1. /\ user' \in [Tabs -> Accounts \cup {None}] /\ store' = kept
  <2>1. kept.user \in Accounts \cup {None}
    BY DEF Stores
  <2>2. QED
    BY <2>1, BrowserTyped DEF Load
<1>2. call' = [c \in Calls |-> IF TabOf[c] = t THEN "idle" ELSE call[c]]
  BY DEF Load
<1>3. asker' = [r \in Requests |-> IF asking[r] = t THEN None ELSE asking[r]]
  BY DEF Load
<1>4. /\ call' \in [Calls -> Stages]
      /\ \A c \in Calls : call'[c] = IF TabOf[c] = t THEN "idle" ELSE call[c]
  BY <1>2, BrowserTyped DEF Stages
<1>5. QED
  BY <1>1, <1>3, <1>4

LEMMA ClearedStore ==
  ASSUME BrowserTypeOK
  PROVE  /\ [store EXCEPT !.token = None, !.user = None] \in Stores
         /\ [store EXCEPT !.token = None, !.user = None].user = None
  BY BrowserTyped DEF Stores

(* After a 401 that counts, the calls that failed wait no more, nor does any
   call of the tab when it leaves for /login.                              *)
LEMMA HandleFatalKeeps ==
  ASSUME BrowserAssumption, BrowserTypeOK, NEW t \in Tabs, NEW failed,
         NEW asking \in [Requests -> Tabs \cup {None}], HandleFatal(t, failed, asking)
  PROVE  /\ store' \in Stores /\ store'.user = None
         /\ user' \in [Tabs -> Accounts \cup {None}]
         /\ call' \in [Calls -> Stages]
         /\ asker' \in [Requests -> Tabs \cup {None}]
         /\ \A r \in Requests : asker'[r] \in {asking[r], None}
         /\ \A r \in Requests : asking[r] # t => asker'[r] = asking[r]
         /\ \A c \in Calls : call'[c] = "waiting" => call[c] = "waiting"
         /\ \/ \A c \in Calls : call'[c] = "waiting" => TabOf[c] # t
            \/ asker' = asking /\ \A c \in Calls : c \in failed => call'[c] # "waiting"
<1> DEFINE cleared == [store EXCEPT !.token = None, !.user = None]
<1>1. cleared \in Stores /\ cleared.user = None
  BY ClearedStore
<1> HIDE DEF cleared
<1>2. CASE user[t] # None
  <2>1. Load(t, cleared, asking)
    BY <1>2 DEF HandleFatal, cleared
  <2>2. QED
    BY <1>1, <2>1, LoadKeeps
<1>3. CASE user[t] = None
  <2>1. /\ store' = cleared /\ asker' = asking /\ user' = user
        /\ call' = [c \in Calls |-> IF c \in failed THEN "idle" ELSE call[c]]
    BY <1>3 DEF HandleFatal, cleared
  <2>2. call' \in [Calls -> Stages]
    BY <2>1, BrowserTyped DEF Stages
  <2>3. QED
    BY <1>1, <2>1, <2>2, BrowserTyped
<1>4. QED
  BY <1>2, <1>3

LEMMA LogoutPages ==
  ASSUME BrowserTypeOK, NEW t \in Tabs, Logout(t)
  PROVE  Pages /\ BrowserTypeOK' /\ UNCHANGED call /\ UNCHANGED asker
<1>1. store' \in Stores /\ store'.user = None
  BY ClearedStore DEF Logout
<1>2. user' \in [Tabs -> Accounts \cup {None}]
  BY BrowserTyped DEF Logout
<1>3. QED
  BY <1>1, <1>2, BrowserTyped
     DEF Logout, Pages, StoreKept, AskersKept, BrowserTypeOK, Stores

LEMMA ReloadPages ==
  ASSUME BrowserAssumption, BrowserTypeOK, NEW t \in Tabs, Reload(t)
  PROVE  Pages /\ BrowserTypeOK'
<1>1. Load(t, store, asker) /\ UNCHANGED <<backend, cookie, crossed, missed>>
  BY DEF Reload
<1>2. store \in Stores
  BY BrowserTyped DEF Stores
<1>3. QED
  BY <1>1, <1>2, BrowserTyped, LoadKeeps
     DEF Pages, StoreKept, AskersKept, BrowserTypeOK, Stores

(* Calls are sent, answered, and wait. *)
LEMMA CallPages ==
  ASSUME BrowserTypeOK, NEW c \in Calls, NEW stage \in Stages,
         call' = [call EXCEPT ![c] = stage],
         UNCHANGED <<backend, cookie, store, user, asker, crossed, missed>>
  PROVE  Pages /\ BrowserTypeOK'
<1>1. call' \in [Calls -> Stages]
  BY BrowserTyped
<1>2. QED
  BY <1>1, BrowserTyped DEF Pages, StoreKept, AskersKept, BrowserTypeOK

LEMMA RejectedAgainPages ==
  ASSUME BrowserAssumption, BrowserTypeOK, NEW c \in Calls, RejectedAgain(c)
  PROVE  Pages /\ BrowserTypeOK'
<1>1. TabOf[c] \in Tabs
  BY DEF BrowserAssumption
<1>2. HandleFatal(TabOf[c], {c}, asker) /\ UNCHANGED <<backend, cookie, crossed, missed>>
  BY DEF RejectedAgain
<1>3. QED
  BY <1>1, <1>2, BrowserTyped, HandleFatalKeeps
     DEF Pages, StoreKept, AskersKept, BrowserTypeOK, Stores

(* An auth request that a tab sends. *)
LEMMA AskedSessions ==
  ASSUME SessionsAssumption, IInv, NEW r \in Requests,
         NEW op \in {"signIn", "refresh"}, NEW a \in Accounts \cup {None},
         NEW d \in Devices \cup {None}, NEW s \in 0 .. MaxSessions,
         Go(r, "find", Asked(op, a, d, s))
  PROVE  /\ pc'[r] = "find" /\ OthersKept(r)
         /\ request'[r].session = 0 /\ request'[r].op = op /\ request'[r].token = s
<1>1. Asked(op, a, d, s) \in RequestState
  BY AskedOK
<1>2. /\ Asked(op, a, d, s).session = 0 /\ Asked(op, a, d, s).op = op
      /\ Asked(op, a, d, s).token = s
  BY DEF Asked
<1>3. "find" \in Labels
  BY DEF Labels
<1>4. QED
  BY <1>1, <1>2, <1>3, GoTypes DEF IInv, OthersKept

LEMMA LoginAsks ==
  ASSUME SessionsAssumption, BrowserAssumption, IInv, BrowserTypeOK,
         NEW t \in Tabs, NEW a \in Accounts, Login(t, a)
  PROVE  /\ \E r \in Requests : Asks(r, t) /\ SignIn(r, a, store.device)
         /\ store.device \in Devices
         /\ BrowserTypeOK' /\ UNCHANGED call
<1>1. store.device \in Devices /\ 0 \in 0 .. MaxSessions
  BY BrowserTyped DEF SessionsAssumption
<1>2. PICK r \in Requests :
         /\ SignIn(r, a, store.device)
         /\ asker' = [asker EXCEPT ![r] = t]
         /\ crossed' = (crossed \/ \E q \in Requests : pc[q] # "idle")
  BY DEF Login
<1>3. /\ pc[r] = "idle" /\ pc'[r] = "find" /\ OthersKept(r)
      /\ request'[r].session = 0 /\ request'[r].op = "signIn"
  BY <1>1, <1>2, AskedSessions DEF SignIn
<1>4. Asks(r, t)
  BY <1>2, <1>3 DEF Asks, Login, SignIn
<1>5. crossed' \in BOOLEAN
  BY <1>2
<1>6. BrowserTypeOK'
  BY <1>2, <1>5, BrowserTyped DEF Login, BrowserTypeOK
<1>7. QED
  BY <1>1, <1>2, <1>4, <1>6 DEF Login

LEMMA StartRefreshAsks ==
  ASSUME SessionsAssumption, BrowserAssumption, IInv, BrowserTypeOK,
         NEW t \in Tabs, Refreshing(t) = {}, StartRefresh(t),
         UNCHANGED <<cookie, store, missed>>
  PROVE  /\ store.device \in Devices
         /\ \E r \in Requests : /\ Asks(r, t) /\ Refresh(r, cookie, store.device)
                               /\ request'[r].op = "refresh"
         /\ crossed' \in BOOLEAN /\ asker' \in [Requests -> Tabs \cup {None}]
<1>1. store.device \in Devices
  BY BrowserTyped
<1>2. PICK r \in Requests :
         /\ Refresh(r, cookie, store.device)
         /\ asker' = [asker EXCEPT ![r] = t]
         /\ crossed' = (crossed \/ \E q \in Requests :
                           /\ pc[q] # "idle"
                           /\ ~(asker[q] = t /\ request[q].op = "refresh"))
  BY DEF StartRefresh
<1>3. /\ pc[r] = "idle" /\ pc'[r] = "find" /\ OthersKept(r)
      /\ request'[r].session = 0 /\ request'[r].op = "refresh" /\ request'[r].token = cookie
  BY <1>1, <1>2, BrowserTyped, AskedSessions DEF Refresh
<1>4. \A q \in Requests : pc[q] # "idle" => ~(asker[q] = t /\ request[q].op = "refresh")
  BY DEF Refreshing
<1>5. ~crossed' => ~crossed /\ \A q \in Requests : pc[q] = "idle"
  BY <1>2, <1>4
<1>6. Asks(r, t)
  BY <1>2, <1>3, <1>5 DEF Asks, Refresh
<1>7. crossed' \in BOOLEAN
  BY <1>2
<1>8. QED
  BY <1>1, <1>2, <1>3, <1>6, <1>7, BrowserTyped

LEMMA RejectedKinds ==
  ASSUME SessionsAssumption, BrowserAssumption, IInv, BrowserTypeOK, NEW c \in Calls,
         Rejected(c)
  PROVE  /\ BrowserTypeOK'
         /\ \/ Pages /\ UNCHANGED asker /\ Refreshing(TabOf[c]) # {}
            \/ /\ store.device \in Devices
               /\ \E r \in Requests : /\ Asks(r, TabOf[c])
                                     /\ Refresh(r, cookie, store.device)
                                     /\ request'[r].op = "refresh"
<1>1. TabOf[c] \in Tabs /\ "waiting" \in Stages
  BY DEF BrowserAssumption, Stages
<1>2. /\ call' = [call EXCEPT ![c] = "waiting"]
      /\ StartRefresh(TabOf[c]) /\ UNCHANGED <<cookie, store, user, missed>>
  BY DEF Rejected
<1>3. CASE Refreshing(TabOf[c]) # {}
  <2>1. UNCHANGED <<backend, asker, crossed>>
    BY <1>2, <1>3 DEF StartRefresh
  <2>2. QED
    BY <1>1, <1>2, <1>3, <2>1, CallPages
<1>4. CASE Refreshing(TabOf[c]) = {}
  <2>1. call' \in [Calls -> Stages]
    BY <1>1, <1>2, BrowserTyped
  <2>2. QED
    BY <1>1, <1>2, <1>4, <2>1, StartRefreshAsks, BrowserTyped DEF BrowserTypeOK
<1>5. QED
  BY <1>3, <1>4

-----------------------------------------------------------------------------
(* Answers *)

LEMMA AnsweredFields ==
  ASSUME SessionsAssumption, IInv, NEW r \in Requests, Answered(r)
  PROVE  /\ pc[r] = "answer" /\ pc'[r] = "idle" /\ OthersKept(r)
         /\ UNCHANGED <<sessions, met>>
         /\ request[r].session \in 0 .. MaxSessions
         /\ request[r].account \in Accounts \cup {None}
<1>1. NoRequest \in RequestState /\ "idle" \in Labels
  BY AskedOK DEF NoRequest, SessionsAssumption, Labels
<1>2. request[r] \in RequestState /\ SessionsTypeOK
  BY DEF IInv, SessionsTypeOK
<1>3. Go(r, "idle", NoRequest) /\ pc[r] = "answer" /\ UNCHANGED <<sessions, met>>
  BY DEF Answered
<1>4. pc'[r] = "idle" /\ OthersKept(r)
  BY <1>1, <1>2, <1>3, GoTypes DEF OthersKept
<1>5. QED
  BY <1>2, <1>3, <1>4 DEF RequestState

LEMMA MissedTyped ==
  ASSUME BrowserTypeOK, NEW r \in Requests, Missed(r)
  PROVE  /\ missed' \in BOOLEAN
         /\ ~missed' => ~missed /\ (request[r].session = 0 \/ ~Committed(request[r].session))
  BY BrowserTyped DEF Missed

LEMMA LoginAnsweredDelivers ==
  ASSUME SessionsAssumption, IInv, BrowserTypeOK, NEW r \in Requests, LoginAnswered(r)
  PROVE  Delivers(r) /\ BrowserTypeOK' /\ Attended
<1>1. /\ pc[r] = "answer" /\ pc'[r] = "idle" /\ OthersKept(r)
      /\ UNCHANGED <<sessions, met>>
      /\ request[r].session \in 0 .. MaxSessions
      /\ request[r].account \in Accounts \cup {None}
  BY AnsweredFields DEF LoginAnswered
<1>2. /\ asker' = [asker EXCEPT ![r] = None] /\ request[r].op = "signIn"
      /\ call' = call /\ crossed' = crossed /\ asker[r] # None
  BY DEF LoginAnswered
<1>3. asker' \in [Requests -> Tabs \cup {None}] /\ AskersKept
  BY <1>2, BrowserTyped DEF AskersKept
<1>4. Attended
  BY <1>1, <1>2, BrowserTyped DEF Attended, Attends, OthersKept
<1>5. CASE request[r].result = "ok"
  <2> DEFINE a == request[r].account
  <2>1. /\ cookie' = request[r].session /\ missed' = missed
        /\ store' = [store EXCEPT !.token = a, !.user = a]
        /\ user' = [user EXCEPT ![asker[r]] = a]
    BY <1>5 DEF LoginAnswered
  <2>2. /\ store' \in Stores /\ store'.token = a /\ store'.user = a
        /\ user' \in [Tabs -> Accounts \cup {None}]
    <3> HIDE DEF a
    <3>1. a \in Accounts \cup {None}
      BY <1>1 DEF a
    <3>2. QED
      BY <2>1, <3>1, BrowserTyped DEF Stores
  <2>3. BrowserTypeOK'
    BY <1>1, <1>2, <1>3, <2>1, <2>2, BrowserTyped DEF BrowserTypeOK, Stores
  <2>4. Hears(r)
    BY <1>2, <1>5, <2>1, <2>2 DEF Hears
  <2>5. QED
    BY <1>1, <1>2, <1>3, <1>4, <2>3, <2>4 DEF Delivers
<1>6. CASE request[r].result # "ok"
  <2>1. Missed(r) /\ UNCHANGED <<cookie, store, user>>
    BY <1>6 DEF LoginAnswered
  <2>2. BrowserTypeOK' /\ Misses(r)
    BY <1>2, <1>3, <2>1, MissedTyped, BrowserTyped DEF BrowserTypeOK, Misses, StoreKept
  <2>3. QED
    BY <1>1, <1>2, <1>3, <1>4, <2>2 DEF Delivers
<1>7. QED
  BY <1>5, <1>6

LEMMA RefreshedDelivers ==
  ASSUME SessionsAssumption, IInv, BrowserTypeOK, NEW r \in Requests, Refreshed(r)
  PROVE  Delivers(r) /\ BrowserTypeOK' /\ Attended
<1> DEFINE a == request[r].account
           t == asker[r]
<1>1. /\ pc[r] = "answer" /\ pc'[r] = "idle" /\ OthersKept(r)
      /\ UNCHANGED <<sessions, met>>
      /\ request[r].session \in 0 .. MaxSessions
      /\ a \in Accounts \cup {None}
  BY AnsweredFields DEF Refreshed
<1>2. /\ asker' = [asker EXCEPT ![r] = None] /\ t # None
      /\ request[r].op = "refresh" /\ request[r].result = "ok"
      /\ cookie' = request[r].session /\ store' = [store EXCEPT !.token = a]
      /\ UNCHANGED <<user, crossed, missed>> /\ Resend(t)
  BY DEF Refreshed
<1>3. asker' \in [Requests -> Tabs \cup {None}] /\ AskersKept
  BY <1>2, BrowserTyped DEF AskersKept
<1>4. store' \in Stores /\ store'.token = a /\ store'.user = store.user
  <2> HIDE DEF a
  <2>1. QED
    BY <1>1, <1>2, BrowserTyped DEF Stores
<1>5. /\ call' \in [Calls -> Stages]
      /\ \A c \in Calls : call'[c] = "waiting" => call[c] = "waiting" /\ TabOf[c] # t
  BY <1>2, BrowserTyped DEF Resend, Stages
<1>6. Attended
  BY <1>1, <1>2, <1>5, BrowserTyped DEF Attended, Attends, OthersKept
<1>7. BrowserTypeOK'
  BY <1>1, <1>2, <1>3, <1>4, <1>5, BrowserTyped DEF BrowserTypeOK, Stores
<1>8. Hears(r)
  BY <1>2, <1>4 DEF Hears
<1>9. QED
  BY <1>1, <1>2, <1>3, <1>6, <1>7, <1>8 DEF Delivers

LEMMA NotRefreshedDelivers ==
  ASSUME SessionsAssumption, BrowserAssumption, IInv, BrowserTypeOK,
         NEW r \in Requests, NotRefreshed(r)
  PROVE  Delivers(r) /\ BrowserTypeOK' /\ Attended
<1> DEFINE t      == asker[r]
           asking == [asker EXCEPT ![r] = None]
           failed == {c \in Calls : TabOf[c] = t /\ call[c] = "waiting"}
<1>1. /\ pc[r] = "answer" /\ pc'[r] = "idle" /\ OthersKept(r)
      /\ UNCHANGED <<sessions, met>>
  BY AnsweredFields DEF NotRefreshed
<1>2. t \in Tabs /\ request[r].op = "refresh"
  BY BrowserTyped DEF NotRefreshed
<1>3. Missed(r) /\ UNCHANGED <<cookie, crossed>>
  BY DEF NotRefreshed
<1>4. /\ asking \in [Requests -> Tabs \cup {None}] /\ asking[r] = None
      /\ \A q \in Requests : q # r => asking[q] = asker[q]
  BY BrowserTyped
<1>5. /\ store' \in Stores /\ StoreKept
      /\ user' \in [Tabs -> Accounts \cup {None}] /\ call' \in [Calls -> Stages]
      /\ asker' \in [Requests -> Tabs \cup {None}]
      /\ \A q \in Requests : asker'[q] \in {asking[q], None}
      /\ \A q \in Requests : asking[q] # t => asker'[q] = asking[q]
      /\ \A c \in Calls : call'[c] = "waiting" => call[c] = "waiting" /\ TabOf[c] # t
  <2>0. \A c \in Calls : call[c] = "waiting" => c \in failed \/ TabOf[c] # t
    OBVIOUS
  <2>1. CASE failed # {}
    <3>1. HandleFatal(t, failed, asking)
      BY <2>1 DEF NotRefreshed, RefreshFails
    <3> HIDE DEF t, asking, failed
    <3>2. /\ store' \in Stores /\ store'.user = None
          /\ user' \in [Tabs -> Accounts \cup {None}] /\ call' \in [Calls -> Stages]
          /\ asker' \in [Requests -> Tabs \cup {None}]
          /\ \A q \in Requests : asker'[q] \in {asking[q], None}
          /\ \A q \in Requests : asking[q] # t => asker'[q] = asking[q]
          /\ \A c \in Calls : call'[c] = "waiting" => call[c] = "waiting"
          /\ \/ \A c \in Calls : call'[c] = "waiting" => TabOf[c] # t
             \/ asker' = asking /\ \A c \in Calls : c \in failed => call'[c] # "waiting"
      BY <1>2, <1>4, <3>1, HandleFatalKeeps
    <3>3. QED
      BY <2>0, <3>2 DEF StoreKept
  <2>2. CASE failed = {}
    <3>1. asker' = asking /\ UNCHANGED <<store, user, call>>
      BY <2>2 DEF NotRefreshed, RefreshFails
    <3> HIDE DEF t, asking, failed
    <3>2. QED
      BY <1>4, <2>0, <2>2, <3>1, BrowserTyped DEF StoreKept, Stores
  <2>3. QED
    BY <2>1, <2>2
<1> HIDE DEF asking
<1>6. AskersKept
  BY <1>4, <1>5 DEF AskersKept
<1>7. Attended
  <2> SUFFICES ASSUME NEW c \in Calls, call'[c] = "waiting",
                      NEW q \in Requests, Attends(q, TabOf[c])
               PROVE  /\ asker'[q] = asker[q] /\ pc'[q] # "idle"
                      /\ request'[q].op = request[q].op
    BY <1>5 DEF Attended
  <2>1. asker[q] # t
    BY <1>5 DEF Attends
  <2>2. QED
    BY <1>1, <1>4, <1>5, <2>1 DEF Attends, OthersKept
<1>8. BrowserTypeOK'
  BY <1>3, <1>5, MissedTyped, BrowserTyped DEF BrowserTypeOK, Stores
<1>9. Misses(r)
  BY <1>3, <1>5, MissedTyped DEF Misses
<1>10. QED
  BY <1>1, <1>3, <1>6, <1>7, <1>8, <1>9 DEF Delivers

LEMMA UnheardDelivers ==
  ASSUME SessionsAssumption, BrowserAssumption, IInv, BrowserTypeOK,
         NEW r \in Requests, Unheard(r)
  PROVE  Delivers(r) /\ BrowserTypeOK' /\ Attended
<1>1. /\ pc[r] = "answer" /\ pc'[r] = "idle" /\ OthersKept(r)
      /\ UNCHANGED <<sessions, met>>
  BY AnsweredFields DEF Unheard
<1>2. asker[r] = None /\ Missed(r) /\ UNCHANGED <<cookie, store, user, call, asker, crossed>>
  BY DEF Unheard
<1>3. Attended
  BY <1>1, <1>2 DEF Attended, Attends, OthersKept, BrowserAssumption
<1>4. BrowserTypeOK' /\ Misses(r) /\ AskersKept
  BY <1>2, MissedTyped, BrowserTyped DEF BrowserTypeOK, Misses, StoreKept, AskersKept
<1>5. QED
  BY <1>1, <1>2, <1>3, <1>4 DEF Delivers

-----------------------------------------------------------------------------
(* Calls that wait *)

LEMMA AttendedKeeps ==
  ASSUME NoCallStranded, Attended
  PROVE  NoCallStranded'
<1> SUFFICES ASSUME NEW c \in Calls, call'[c] = "waiting"
             PROVE  \E r \in Requests : /\ asker'[r] = TabOf[c] /\ pc'[r] # "idle"
                                       /\ request'[r].op = "refresh"
  BY DEF NoCallStranded, Refreshing
<1>1. call[c] = "waiting"
  BY DEF Attended
<1>2. PICK r \in Requests : asker[r] = TabOf[c] /\ pc[r] # "idle" /\ request[r].op = "refresh"
  BY <1>1 DEF NoCallStranded, Refreshing
<1>3. QED
  BY <1>2 DEF Attended, Attends

LEMMA QuietAttended ==
  ASSUME UNCHANGED <<pc, request, asker>>,
         \A c \in Calls : call'[c] = "waiting" => call[c] = "waiting"
  PROVE  Attended
  BY DEF Attended, Attends

LEMMA LoadAttended ==
  ASSUME UNCHANGED <<pc, request>>, NEW t \in Tabs,
         \A r \in Requests : asker[r] # t => asker'[r] = asker[r],
         \A c \in Calls : call'[c] = "waiting" => call[c] = "waiting" /\ TabOf[c] # t
  PROVE  Attended
  BY DEF Attended, Attends

LEMMA ServesAttended ==
  ASSUME NEW r \in Requests, Serves(r), UNCHANGED <<asker, call>>
  PROVE  Attended
<1>1. pc'[r] # "idle" /\ request'[r].op = request[r].op
  BY DEF Serves, Drops, GoesOn, Commits, InTransaction
<1>2. QED
  BY <1>1 DEF Serves, OthersKept, Attended, Attends

LEMMA AsksKeepsOthers ==
  ASSUME BrowserTypeOK, NEW r \in Requests, NEW t \in Tabs, Asks(r, t),
         NEW c \in Calls, call[c] = "waiting", NoCallStranded
  PROVE  \E q \in Requests : /\ asker'[q] = TabOf[c] /\ pc'[q] # "idle"
                            /\ request'[q].op = "refresh"
<1>1. PICK q \in Requests : asker[q] = TabOf[c] /\ pc[q] # "idle" /\ request[q].op = "refresh"
  BY DEF NoCallStranded, Refreshing
<1>2. q # r
  BY <1>1 DEF Asks
<1>3. QED
  BY <1>1, <1>2, BrowserTyped DEF Asks, OthersKept

LEMMA RejectedKeeps ==
  ASSUME SessionsAssumption, BrowserAssumption, IInv, BrowserTypeOK, NoCallStranded,
         NEW c \in Calls, Rejected(c)
  PROVE  NoCallStranded'
<1>1. /\ TabOf[c] \in Tabs
      /\ \A d \in Calls : d # c => call'[d] = call[d]
  BY BrowserTyped DEF Rejected, BrowserAssumption
<1> SUFFICES ASSUME NEW d \in Calls, call'[d] = "waiting"
             PROVE  \E r \in Requests : /\ asker'[r] = TabOf[d] /\ pc'[r] # "idle"
                                       /\ request'[r].op = "refresh"
  BY DEF NoCallStranded, Refreshing
<1>2. CASE UNCHANGED asker /\ Refreshing(TabOf[c]) # {} /\ Pages
  BY <1>1, <1>2 DEF Pages, backend, NoCallStranded, Refreshing
<1>3. ASSUME NEW r \in Requests, Asks(r, TabOf[c]), request'[r].op = "refresh"
      PROVE  \E q \in Requests : /\ asker'[q] = TabOf[d] /\ pc'[q] # "idle"
                                /\ request'[q].op = "refresh"
  <2>1. asker'[r] = TabOf[c] /\ pc'[r] # "idle"
    BY <1>3, BrowserTyped DEF Asks
  <2>2. CASE d = c
    BY <1>3, <2>1, <2>2
  <2>3. CASE d # c
    BY <1>1, <1>3, <2>3, AsksKeepsOthers
  <2>4. QED
    BY <2>2, <2>3
<1>4. QED
  BY <1>2, <1>3, RejectedKinds

LEMMA LoginStrandsNone ==
  ASSUME SessionsAssumption, BrowserAssumption, IInv, BrowserTypeOK, NoCallStranded,
         NEW t \in Tabs, NEW a \in Accounts, Login(t, a)
  PROVE  NoCallStranded'
<1>1. PICK r \in Requests : Asks(r, t)
  BY LoginAsks
<1>2. call' = call
  BY LoginAsks
<1>3. QED
  BY <1>1, <1>2, AsksKeepsOthers DEF NoCallStranded, Refreshing

LEMMA PagesStrandNone ==
  ASSUME BrowserAssumption, BrowserTypeOK, NoCallStranded,
         \/ \E t \in Tabs : Logout(t) \/ Reload(t)
         \/ \E c \in Calls : RejectedAgain(c)
  PROVE  NoCallStranded'
<1>1. ASSUME NEW t \in Tabs, Logout(t) PROVE Attended
  BY <1>1, QuietAttended DEF Logout, backend
<1>2. ASSUME NEW t \in Tabs, Reload(t) PROVE Attended
  <2>1. Load(t, store, asker) /\ UNCHANGED backend
    BY <1>2 DEF Reload
  <2>2. store \in Stores
    BY BrowserTyped DEF Stores
  <2>3. /\ \A r \in Requests : asker[r] # t => asker'[r] = asker[r]
        /\ \A c \in Calls : call'[c] = "waiting" => call[c] = "waiting" /\ TabOf[c] # t
    BY <2>1, <2>2, LoadKeeps, BrowserTyped
  <2>4. UNCHANGED <<pc, request>>
    BY <2>1 DEF backend
  <2>5. QED
    BY <2>3, <2>4, LoadAttended
<1>3. ASSUME NEW c \in Calls, RejectedAgain(c) PROVE Attended
  <2>1. HandleFatal(TabOf[c], {c}, asker) /\ UNCHANGED backend /\ TabOf[c] \in Tabs
    BY <1>3 DEF RejectedAgain, BrowserAssumption
  <2> DEFINE failed == {c}
             t == TabOf[c]
  <2>0. /\ HandleFatal(t, failed, asker) /\ t \in Tabs
        /\ asker \in [Requests -> Tabs \cup {None}]
    BY <2>1, BrowserTyped
  <2> HIDE DEF failed, t
  <2>2. /\ \A r \in Requests : asker[r] # t => asker'[r] = asker[r]
        /\ \A d \in Calls : call'[d] = "waiting" => call[d] = "waiting"
        /\ \/ \A d \in Calls : call'[d] = "waiting" => TabOf[d] # t
           \/ asker' = asker
    BY <2>0, HandleFatalKeeps
  <2>3. UNCHANGED <<pc, request>>
    BY <2>1 DEF backend
  <2>4. CASE asker' = asker
    BY <2>2, <2>3, <2>4 DEF Attended, Attends
  <2>5. CASE asker' # asker
    BY <2>0, <2>2, <2>3, <2>5, LoadAttended
  <2>6. QED
    BY <2>4, <2>5
<1>4. QED
  BY <1>1, <1>2, <1>3, AttendedKeeps

LEMMA CallStrandsNone ==
  ASSUME BrowserTypeOK, NoCallStranded, NEW c \in Calls, Send(c) \/ CallAnswered(c)
  PROVE  NoCallStranded' /\ Pages /\ BrowserTypeOK'
<1>1. PICK stage \in Stages \ {"waiting"} :
         /\ call' = [call EXCEPT ![c] = stage]
         /\ UNCHANGED <<backend, cookie, store, user, asker, crossed, missed>>
  BY DEF Send, CallAnswered, Stages
<1>2. Pages /\ BrowserTypeOK'
  BY <1>1, CallPages
<1>3. Attended
  BY <1>1, BrowserTyped, QuietAttended DEF backend
<1>4. QED
  BY <1>2, <1>3, AttendedKeeps

-----------------------------------------------------------------------------
(* Every step is of a kind, and to the backend it is one of its own. *)

BrowserStep ==
    \/ (\E r \in Requests : Serves(r)) /\ UNCHANGED browser
    \/ Ages /\ UNCHANGED browser
    \/ Pages
    \/ \E r \in Requests, t \in Tabs : Asks(r, t)
    \/ \E r \in Requests : Delivers(r)

LEMMA SignInArrives ==
  ASSUME NEW r \in Requests, NEW a \in Accounts, NEW d \in Devices, SignIn(r, a, d)
  PROVE  Next
  BY DEF Next, Arrive

LEMMA RefreshArrives ==
  ASSUME BrowserTypeOK, CookieOK, NEW r \in Requests, NEW d \in Devices,
         Refresh(r, cookie, d)
  PROVE  Next
<1>1. cookie \in 0 .. MaxSessions /\ (cookie # 0 => Committed(cookie))
  BY BrowserTyped DEF CookieOK
<1>2. Arrive(r)
  BY <1>1 DEF Arrive
<1>3. QED
  BY <1>2 DEF Next

LEMMA NextKinds ==
  ASSUME SessionsAssumption, BrowserAssumption, BInv, BrowserNext
  PROVE  [Next]_backend /\ BrowserTypeOK' /\ NoCallStranded' /\ BrowserStep
<1>1. IInv /\ BrowserTypeOK /\ CookieOK /\ RequestsKnow /\ NoCallStranded
  BY DEF BInv
<1>2. CASE Serve
  <2>1. UNCHANGED browser
    BY <1>2 DEF Serve
  <2>2. BrowserTypeOK'
    BY <1>1, <2>1 DEF BrowserTypeOK, browser
  <2>3. ASSUME NEW r \in Requests, Handle(r)
        PROVE  Next /\ NoCallStranded' /\ BrowserStep
    <3>1. Serves(r)
      BY <1>1, <2>3, HandleServes
    <3>2. NoCallStranded'
      BY <1>1, <2>1, <3>1, ServesAttended, AttendedKeeps DEF browser
    <3>3. QED
      BY <2>1, <2>3, <3>1, <3>2 DEF Next, BrowserStep
  <2>4. ASSUME NEW s \in Ids, Expire(s) \/ CleanExpired(s)
        PROVE  Next /\ NoCallStranded' /\ BrowserStep
    <3>1. Ages
      BY <1>1, <2>4, AgeAges
    <3>2. NoCallStranded'
      BY <1>1, <2>1, <3>1, QuietAttended, AttendedKeeps DEF Ages, browser
    <3>3. QED
      BY <2>1, <2>4, <3>1, <3>2 DEF Next, BrowserStep
  <2>5. QED
    BY <1>2, <2>2, <2>3, <2>4 DEF Serve
<1>3. ASSUME NEW t \in Tabs, Logout(t) \/ Reload(t)
      PROVE  [Next]_backend /\ BrowserTypeOK' /\ NoCallStranded' /\ BrowserStep
  <2>1. Pages /\ BrowserTypeOK' /\ NoCallStranded'
    BY <1>1, <1>3, LogoutPages, ReloadPages, PagesStrandNone
  <2>2. QED
    BY <2>1 DEF Pages, BrowserStep
<1>4. ASSUME NEW t \in Tabs, NEW a \in Accounts, Login(t, a)
      PROVE  [Next]_backend /\ BrowserTypeOK' /\ NoCallStranded' /\ BrowserStep
  BY <1>1, <1>4, LoginAsks, LoginStrandsNone, SignInArrives DEF BrowserStep
<1>5. ASSUME NEW c \in Calls, Send(c) \/ CallAnswered(c)
      PROVE  [Next]_backend /\ BrowserTypeOK' /\ NoCallStranded' /\ BrowserStep
  BY <1>1, <1>5, CallStrandsNone DEF Pages, BrowserStep
<1>6. ASSUME NEW c \in Calls, Rejected(c)
      PROVE  [Next]_backend /\ BrowserTypeOK' /\ NoCallStranded' /\ BrowserStep
  <2>1. BrowserTypeOK' /\ NoCallStranded' /\ TabOf[c] \in Tabs
    BY <1>1, <1>6, RejectedKinds, RejectedKeeps DEF BrowserAssumption
  <2>2. CASE Pages
    BY <2>1, <2>2 DEF Pages, BrowserStep
  <2>3. ASSUME NEW r \in Requests, Asks(r, TabOf[c]), Refresh(r, cookie, store.device),
               store.device \in Devices
        PROVE  Next /\ BrowserStep
    BY <1>1, <2>1, <2>3, RefreshArrives DEF BrowserStep
  <2>4. QED
    BY <1>1, <1>6, <2>1, <2>2, <2>3, RejectedKinds
<1>7. ASSUME NEW c \in Calls, RejectedAgain(c)
      PROVE  [Next]_backend /\ BrowserTypeOK' /\ NoCallStranded' /\ BrowserStep
  <2>1. Pages /\ BrowserTypeOK' /\ NoCallStranded'
    BY <1>1, <1>7, RejectedAgainPages, PagesStrandNone
  <2>2. QED
    BY <2>1 DEF Pages, BrowserStep
<1>8. ASSUME NEW r \in Requests, Deliver(r)
      PROVE  [Next]_backend /\ BrowserTypeOK' /\ NoCallStranded' /\ BrowserStep
  <2>1. Delivers(r) /\ BrowserTypeOK' /\ Attended
    BY <1>1, <1>8, LoginAnsweredDelivers, RefreshedDelivers, NotRefreshedDelivers,
       UnheardDelivers DEF Deliver
  <2>2. Answered(r)
    BY <1>8 DEF Deliver, LoginAnswered, Refreshed, NotRefreshed, Unheard
  <2>3. QED
    BY <1>1, <2>1, <2>2, AttendedKeeps DEF Next, BrowserStep
<1>9. QED
  BY <1>2, <1>3, <1>4, <1>5, <1>6, <1>7, <1>8 DEF BrowserNext, Authorize

-----------------------------------------------------------------------------
(* What each kind keeps *)

LEMMA ServesKeeps ==
  ASSUME SessionsAssumption, BInv, NEW r \in Requests, Serves(r), UNCHANGED browser
  PROVE  (CookieOK /\ RequestsKnow /\ Alone /\ Mirrors /\ Redeems /\ Fresh /\ Replaced)'
<1>1. /\ RowsKept /\ OthersKept(r) /\ pc[r] # "idle" /\ pc[r] # "answer"
      /\ pc'[r] \in {"answer"} \cup InTransaction
      /\ request'[r].op = request[r].op /\ request'[r].token = request[r].token
      /\ UNCHANGED <<cookie, store, asker, crossed, missed>>
  BY DEF Serves, Drops, GoesOn, Commits, InTransaction, browser
<1>2. CookieOK /\ RequestsKnow /\ Alone /\ Mirrors /\ Redeems /\ Fresh /\ Replaced
  BY DEF BInv
<1>3. \A s \in Ids : Committed(s) => /\ sessions'[s].state \in {"stored", "deleted"}
                                     /\ sessions'[s].account = sessions[s].account
  BY <1>1 DEF RowsKept
<1>4. CookieOK'
  BY <1>1, <1>2, <1>3 DEF CookieOK, Committed
<1>5. RequestsKnow'
  <2> SUFFICES ASSUME NEW q \in Requests
               PROVE  RequestAt(pc[q], request[q])'
    BY DEF RequestsKnow
  <2>1. RequestAt(pc[q], request[q])
    BY <1>2 DEF RequestsKnow
  <2>2. CASE q # r
    <3>1. pc'[q] = pc[q] /\ request'[q] = request[q]
      BY <1>1, <2>2 DEF OthersKept
    <3>2. QED
      BY <1>3, <2>1, <3>1 DEF RequestAt, Committed
  <2>3. CASE q = r /\ Drops(r)
    BY <2>3 DEF RequestAt, Drops, InTransaction
  <2>4. CASE q = r /\ GoesOn(r)
    BY <1>3, <2>4 DEF RequestAt, GoesOn, InTransaction, Committed
  <2>5. CASE q = r /\ Commits(r)
    <3>1. pc[r] \in InTransaction
      BY <2>5 DEF Commits, InTransaction
    <3>2. QED
      BY <1>1, <1>3, <2>1, <2>5, <3>1 DEF RequestAt, Commits, Committed, Ids, InTransaction
  <2>6. QED
    BY <2>2, <2>3, <2>4, <2>5 DEF Serves
<1>6. \A q \in Requests : pc'[q] # "idle" => pc[q] # "idle"
  BY <1>1 DEF OthersKept
<1>7. Alone'
  BY <1>1, <1>2, <1>6 DEF Alone
<1>8. Mirrors'
  BY <1>1, <1>2, <1>3 DEF Mirrors, CookieOK
<1>9. Redeems'
  BY <1>1, <1>2, <1>6 DEF Redeems, OthersKept
<1>10. ~crossed' => \A q \in Requests : pc'[q] = "answer" => q = r
  BY <1>1, <1>2, <1>6 DEF Alone
<1>11. Fresh'
  BY <1>1, <1>10 DEF Fresh, Serves, Drops, GoesOn, Commits, InTransaction
<1>12. Replaced'
  <2> SUFFICES ASSUME ~crossed', ~missed', cookie' # 0, sessions'[cookie'].revoked
               PROVE  \E q \in Requests : pc'[q] = "answer" /\ request'[q].session # 0
    BY DEF Replaced
  <2>1. CASE Unrevoking
    <3>1. sessions[cookie].revoked
      BY <1>1, <1>2, <2>1 DEF Unrevoking, CookieOK
    <3>2. PICK q \in Requests : pc[q] = "answer" /\ request[q].session # 0
      BY <1>1, <1>2, <3>1 DEF Replaced
    <3>3. QED
      BY <1>1, <3>2 DEF OthersKept
  <2>2. CASE Commits(r)
    BY <2>2 DEF Commits, Ids
  <2>3. QED
    BY <2>1, <2>2 DEF Serves, Drops, GoesOn
<1>13. QED
  BY <1>4, <1>5, <1>7, <1>8, <1>9, <1>11, <1>12

LEMMA AgesKeeps ==
  ASSUME BInv, Ages, UNCHANGED browser
  PROVE  (CookieOK /\ RequestsKnow /\ Alone /\ Mirrors /\ Redeems /\ Fresh /\ Replaced)'
<1>1. /\ RowsKept /\ Unrevoking
      /\ UNCHANGED <<pc, request, cookie, store, asker, crossed, missed>>
  BY DEF Ages, browser
<1>2. CookieOK /\ RequestsKnow /\ Alone /\ Mirrors /\ Redeems /\ Fresh /\ Replaced
  BY DEF BInv
<1>3. \A s \in Ids : Committed(s) => /\ sessions'[s].state \in {"stored", "deleted"}
                                     /\ sessions'[s].account = sessions[s].account
                                     /\ sessions'[s].revoked = sessions[s].revoked
  BY <1>1 DEF RowsKept, Unrevoking
<1>4. CookieOK'
  BY <1>1, <1>2, <1>3 DEF CookieOK, Committed
<1>5. RequestsKnow'
  BY <1>1, <1>2, <1>3 DEF RequestsKnow, RequestAt, Committed
<1>6. Alone' /\ Redeems'
  BY <1>1, <1>2 DEF Alone, Redeems
<1>7. Mirrors'
  BY <1>1, <1>2, <1>3 DEF Mirrors, CookieOK
<1>8. Fresh'
  BY <1>1, <1>2, <1>3 DEF Fresh, RequestsKnow, RequestAt
<1>9. Replaced'
  BY <1>1, <1>2, <1>3 DEF Replaced, CookieOK
<1>10. QED
  BY <1>4, <1>5, <1>6, <1>7, <1>8, <1>9

LEMMA PagesKeep ==
  ASSUME BInv, Pages
  PROVE  (CookieOK /\ RequestsKnow /\ Alone /\ Mirrors /\ Redeems /\ Fresh /\ Replaced)'
<1>1. /\ UNCHANGED <<sessions, pc, request, cookie, crossed, missed>>
      /\ StoreKept /\ AskersKept
  BY DEF Pages, backend
<1>2. CookieOK /\ RequestsKnow /\ Alone /\ Mirrors /\ Redeems /\ Fresh /\ Replaced
  BY DEF BInv
<1>3. CookieOK' /\ Alone'
  BY <1>1, <1>2 DEF CookieOK, Committed, Alone
<1>4. RequestsKnow'
  BY <1>1, <1>2 DEF RequestsKnow, RequestAt, Committed
<1>5. Mirrors'
  BY <1>1, <1>2 DEF Mirrors, StoreKept
<1>6. Redeems'
  BY <1>1, <1>2 DEF Redeems, AskersKept
<1>7. Fresh' /\ Replaced'
  BY <1>1, <1>2 DEF Fresh, Replaced
<1>8. QED
  BY <1>3, <1>4, <1>5, <1>6, <1>7

LEMMA AsksKeeps ==
  ASSUME BInv, NEW r \in Requests, NEW t \in Tabs, Asks(r, t)
  PROVE  (CookieOK /\ RequestsKnow /\ Alone /\ Mirrors /\ Redeems /\ Fresh /\ Replaced)'
<1>1. /\ UNCHANGED <<sessions, cookie, store, missed>>
      /\ OthersKept(r) /\ pc[r] = "idle" /\ pc'[r] = "find"
      /\ request'[r].op = "refresh" => request'[r].token = cookie
      /\ ~crossed' => ~crossed /\ \A q \in Requests : pc[q] = "idle"
  BY DEF Asks
<1>2. CookieOK /\ RequestsKnow /\ Alone /\ Mirrors /\ Redeems /\ Fresh /\ Replaced
  BY DEF BInv
<1>3. ~crossed' => \A q \in Requests : pc'[q] # "idle" => q = r
  BY <1>1 DEF OthersKept
<1>4. CookieOK' /\ Alone'
  BY <1>1, <1>2, <1>3 DEF CookieOK, Committed, Alone
<1>5. RequestsKnow'
  <2> SUFFICES ASSUME NEW q \in Requests
               PROVE  RequestAt(pc[q], request[q])'
    BY DEF RequestsKnow
  <2>1. CASE q = r
    BY <1>1, <2>1 DEF RequestAt, InTransaction
  <2>2. CASE q # r
    BY <1>1, <1>2, <2>2 DEF RequestsKnow, RequestAt, Committed, OthersKept
  <2>3. QED
    BY <2>1, <2>2
<1>6. Mirrors'
  BY <1>1, <1>2 DEF Mirrors
<1>7. Redeems'
  BY <1>1, <1>3 DEF Redeems
<1>8. Fresh'
  BY <1>1, <1>3 DEF Fresh
<1>9. Replaced'
  BY <1>1, <1>2 DEF Replaced
<1>10. QED
  BY <1>4, <1>5, <1>6, <1>7, <1>8, <1>9

LEMMA DeliversKeeps ==
  ASSUME SessionsAssumption, BInv, NEW r \in Requests, Delivers(r)
  PROVE  (CookieOK /\ RequestsKnow /\ Alone /\ Mirrors /\ Redeems /\ Fresh /\ Replaced)'
<1>1. /\ UNCHANGED <<sessions, crossed>> /\ AskersKept
      /\ OthersKept(r) /\ pc[r] = "answer" /\ pc'[r] = "idle"
      /\ Hears(r) \/ Misses(r)
  BY DEF Delivers
<1>2. CookieOK /\ RequestsKnow /\ Alone /\ Mirrors /\ Redeems /\ Fresh /\ Replaced
  BY DEF BInv
<1> DEFINE g == request[r]
<1>3. /\ g.session # 0 => /\ g.session \in Ids /\ Committed(g.session)
                          /\ sessions[g.session].account = g.account
      /\ g.op = "refresh" /\ g.session # 0 => sessions[g.token].account = g.account
      /\ g.result = "ok" => g.session # 0
  BY <1>1, <1>2 DEF RequestsKnow, RequestAt
<1>4. ~crossed' => \A q \in Requests : pc[q] # "idle" => q = r
  BY <1>1, <1>2 DEF Alone
<1>5. ~crossed' => \A q \in Requests : pc'[q] = "idle"
  BY <1>1, <1>4 DEF OthersKept
<1> HIDE DEF g
<1>6. CookieOK'
  BY <1>1, <1>2, <1>3 DEF Hears, Misses, CookieOK, Committed, g
<1>7. RequestsKnow'
  <2> SUFFICES ASSUME NEW q \in Requests
               PROVE  RequestAt(pc[q], request[q])'
    BY DEF RequestsKnow
  <2>1. CASE q = r
    BY <1>1, <2>1 DEF RequestAt, InTransaction
  <2>2. CASE q # r
    BY <1>1, <1>2, <2>2 DEF RequestsKnow, RequestAt, Committed, OthersKept
  <2>3. QED
    BY <2>1, <2>2
<1>8. Alone' /\ Redeems' /\ Fresh'
  BY <1>5 DEF Alone, Redeems, Fresh
<1>9. Mirrors'
  <2> SUFFICES ASSUME ~crossed', store'.user # None
               PROVE  /\ store'.token = store'.user
                      /\ cookie' # 0
                      /\ sessions'[cookie'].account = store'.user
    BY DEF Mirrors
  <2>1. CASE Hears(r) /\ g.op = "signIn"
    BY <1>1, <1>3, <2>1 DEF Hears, g
  <2>2. CASE Hears(r) /\ g.op = "refresh" /\ asker[r] # None
    <3>1. store.user = store'.user /\ store'.token = g.account /\ cookie' = g.session
          /\ g.session # 0
      BY <1>3, <2>2 DEF Hears, g
    <3>2. g.token = cookie
      BY <1>1, <1>2, <2>2 DEF Redeems, g
    <3>3. sessions[cookie].account = store.user
      BY <1>1, <1>2, <3>1 DEF Mirrors
    <3>4. QED
      BY <1>1, <1>3, <2>2, <3>1, <3>2, <3>3
  <2>3. CASE Misses(r)
    BY <1>1, <1>2, <2>3 DEF Misses, StoreKept, Mirrors
  <2>4. QED
    BY <1>1, <2>1, <2>2, <2>3 DEF Hears, g
<1>10. Replaced'
  <2> SUFFICES ASSUME ~crossed', ~missed', cookie' # 0, sessions'[cookie'].revoked
               PROVE  FALSE
    BY DEF Replaced
  <2>1. CASE Hears(r)
    BY <1>1, <1>2, <1>3, <2>1 DEF Hears, Fresh, g
  <2>2. CASE Misses(r)
    <3>1. g.session = 0 /\ ~missed /\ cookie # 0 /\ sessions[cookie].revoked
      BY <1>1, <1>3, <2>2 DEF Misses, g
    <3>2. PICK q \in Requests : pc[q] = "answer" /\ request[q].session # 0
      BY <1>1, <1>2, <3>1 DEF Replaced
    <3>3. q = r
      BY <1>4, <3>2
    <3>4. QED
      BY <3>1, <3>2, <3>3 DEF g
  <2>3. QED
    BY <1>1, <2>1, <2>2
<1>11. QED
  BY <1>6, <1>7, <1>8, <1>9, <1>10

LEMMA UnchangedKeeps ==
  ASSUME BInv, UNCHANGED vars
  PROVE  Pages /\ BrowserTypeOK' /\ NoCallStranded'
<1>1. UNCHANGED <<backend, cookie, store, user, call, asker, crossed, missed>>
  BY DEF vars, browser
<1>2. Pages
  BY <1>1 DEF Pages, StoreKept, AskersKept
<1>3. BrowserTypeOK'
  BY <1>1 DEF BInv, BrowserTypeOK
<1>4. NoCallStranded'
  BY <1>1 DEF BInv, NoCallStranded, Refreshing, backend
<1>5. QED
  BY <1>2, <1>3, <1>4

LEMMA StepBInv ==
  ASSUME SessionsAssumption, BrowserAssumption, BInv, [BrowserNext]_vars
  PROVE  BInv' /\ [Next]_backend
<1>1. [Next]_backend /\ BrowserTypeOK' /\ NoCallStranded' /\ BrowserStep
  BY NextKinds, UnchangedKeeps DEF BrowserStep, Pages
<1>2. IInv'
  BY <1>1, NextIInv DEF BInv
<1>3. (CookieOK /\ RequestsKnow /\ Alone /\ Mirrors /\ Redeems /\ Fresh /\ Replaced)'
  BY <1>1, ServesKeeps, AgesKeeps, PagesKeep, AsksKeeps, DeliversKeeps DEF BrowserStep
<1>4. QED
  BY <1>1, <1>2, <1>3 DEF BInv

LEMMA InitBInv ==
  ASSUME SessionsAssumption, BrowserAssumption, InitBrowser
  PROVE  BInv
<1>1. IInv
  BY InitIInv DEF InitBrowser
<1>2. BrowserTypeOK
  <2>1. PICK d \in Devices : store = [token |-> None, user |-> None, device |-> d]
    BY DEF InitBrowser
  <2>2. store \in Stores
    BY <2>1 DEF Stores
  <2>3. cookie \in 0 .. MaxSessions
    BY DEF InitBrowser, SessionsAssumption
  <2>4. /\ user \in [Tabs -> Accounts \cup {None}] /\ call \in [Calls -> Stages]
        /\ asker \in [Requests -> Tabs \cup {None}]
    BY DEF InitBrowser, Stages
  <2>5. QED
    BY <2>2, <2>3, <2>4 DEF InitBrowser, BrowserTypeOK, Stores
<1>3. /\ \A r \in Requests : pc[r] = "idle"
      /\ \A c \in Calls : call[c] = "idle"
      /\ cookie = 0 /\ store.user = None
  BY DEF InitBrowser, Init
<1>4. CookieOK /\ Alone /\ Mirrors /\ Redeems /\ Fresh /\ Replaced /\ NoCallStranded
  BY <1>3 DEF CookieOK, Alone, Mirrors, Redeems, Fresh, Replaced, NoCallStranded
<1>5. RequestsKnow
  BY <1>3 DEF RequestsKnow, RequestAt, InTransaction
<1>6. QED
  BY <1>1, <1>2, <1>4, <1>5 DEF BInv

LEMMA SpecBInv == BrowserSpec => []BInv
<1>1. InitBrowser => BInv
  BY SessionsAssumption, BrowserAssumption, InitBInv
<1>2. BInv /\ [BrowserNext]_vars => BInv'
  BY SessionsAssumption, BrowserAssumption, StepBInv
<1>3. QED
  BY <1>1, <1>2, PTL DEF BrowserSpec

-----------------------------------------------------------------------------
(* Theorems *)

(* However many tabs use it, and whatever they do, the browser is a client
   the sessions table was made for: what Sessions promises of any clients
   holds for its sign-ins and refreshes.                                   *)
THEOREM BrowserIsAClient == BrowserSpec => Spec
<1>1. InitBrowser => Init
  BY DEF InitBrowser
<1>2. BInv /\ [BrowserNext]_vars => [Next]_backend
  BY SessionsAssumption, BrowserAssumption, StepBInv
<1>3. QED
  BY <1>1, <1>2, SpecBInv, PTL DEF BrowserSpec, Spec

(* Until a login or another tab's auth request overlaps one, the token in
   localStorage and the refresh cookie are those of the user it names,
   whatever is lost, refused or reloaded.                                  *)
THEOREM TokenFollowsUser == BrowserSpec => []TokenMatchesUser
<1>1. BInv => TokenMatchesUser
  BY DEF BInv, Mirrors, TokenMatchesUser
<1>2. QED
  BY <1>1, SpecBInv, PTL

(* One refresh at a time and no answer lost: the browser is never left with
   a refresh token that its own rotation has revoked.                      *)
THEOREM CookieIsNeverSpent == BrowserSpec => []CookieSurvives
<1>1. BInv => CookieSurvives
  BY DEF BInv, Replaced, CookieSurvives
<1>2. QED
  BY <1>1, SpecBInv, PTL

(* A call that waits for the shared refresh of its tab is never left
   behind, however that ends, with any number of tabs and calls.           *)
THEOREM WaitersAreWoken == BrowserSpec => []NoCallStranded
<1>1. BInv => NoCallStranded
  BY DEF BInv
<1>2. QED
  BY <1>1, SpecBInv, PTL
=============================================================================
