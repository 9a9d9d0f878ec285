----------------------- MODULE EmailVerificationProofs -----------------------
(***************************************************************************)
(* What holds of EmailVerification for any number of requests, keys and    *)
(* pages, and any number of failures and expiries.                         *)
(*                                                                         *)
(* Shape says what a request has written by the statement it is at: a      *)
(* transaction whose statement failed is aborted, and an aborted one never *)
(* reaches its COMMIT.  Rows and RequestsOK tie the requests in progress   *)
(* to the rows; what answers and emails promise follows from them.  The    *)
(* tokens need more: a request knows of every valid token that its own     *)
(* will stand beside, or has met the request that made it.                 *)
(***************************************************************************)
EXTENDS EmailVerification, TLAPS

NoRequest == Asked("signUp", None, 0, None)

PageState ==
    [token : 0 .. MaxIds, attempted : BOOLEAN, runs : Nat,
     status : {"idle", "verifying", "verified", "failed"}]

EmailTypeOK ==
    /\ accounts \in SUBSET Ids
    /\ users \in [Ids -> {"none", "unverified", "verified"}]
    /\ tokens \in [Ids -> {"none", "valid", "expired", "deleted"}]
    /\ minted \in [Ids -> [key : Keys \cup {None}, user : 0 .. MaxIds]]
    /\ pc \in [Requests -> Labels]
    /\ request \in [Requests -> RequestState]
    /\ remembered \in SUBSET Keys
    /\ told \in [Keys -> SUBSET {"ok", "exists"}]
    /\ mail \in [Ids -> {"none", "published", "arrived"}]
    /\ pages \in [Pages -> PageState]
    /\ faults \in Nat
    /\ expiries \in Nat
    /\ spentBy \in [Ids -> SUBSET (Pages \cup {None})]
    /\ met \in SUBSET (SUBSET Ids)

(* The requests that come by a label, and what they have written there. *)
OpAt(l) ==
    CASE l \in {"saveAccount", "saveUser"} -> {"signUp"}
      [] l \in {"deleteAll", "lockAll"} -> {"resend"}
      [] l = "saveToken" -> {"signUp", "resend"}
      [] l \in {"findToken", "saveVerified", "deleteToken"} -> {"verify"}
      [] OTHER -> {"signUp", "resend", "verify"}

ToWrite(l, op) ==
    CASE l = "saveUser" -> {"account"}
      [] l = "saveToken" /\ op = "signUp" -> {"account", "user"}
      [] l = "deleteToken" -> {"verified"}
      [] l = "commit" /\ op = "signUp" -> {"account", "user", "token"}
      [] l = "commit" /\ op = "resend" -> {"token"}
      [] l = "commit" /\ op = "verify" -> {"verified"}
      [] OTHER -> {}

ShapeAt(l, g) ==
    /\ l = "idle" => g = NoRequest
    /\ g.op \in OpAt(l)
    /\ ~g.aborted => g.wrote = ToWrite(l, g.op)
    /\ l \notin {"saveUser", "saveToken", "deleteToken"} => ~g.aborted
    /\ l = "saveToken" /\ g.op = "resend" => ~g.aborted
    /\ l # "idle" =>
         /\ g.id # 0
         /\ g.op = "signUp" => g.key \in Keys
         /\ g.op = "verify" => g.page \in Pages
         /\ g.op # "verify" => g.page = None
    /\ l = "commit" /\ g.op = "verify" => g.deletes = {g.id}
    /\ g.op = "signUp" => g.deletes = {}

Shape == \A r \in Requests : ShapeAt(pc[r], request[r])

IInv == EmailTypeOK /\ Shape

-----------------------------------------------------------------------------
(* What a step does to the requests. *)
Others(r) == \A q \in Requests \ {r} : pc'[q] = pc[q] /\ request'[q] = request[q]

RequestsTyped == pc' \in [Requests -> Labels] /\ request' \in [Requests -> RequestState]

(* The tables and the clients, as far as statements leave them alone. *)
outside == <<tables, remembered, told, mail, pages, expiries, spentBy, met>>

(* A request goes on to its next statement. *)
Onward(r) ==
    \/ pc[r] = "saveAccount" /\ pc'[r] = "saveUser"
    \/ pc[r] = "saveUser" /\ pc'[r] = "saveToken"
    \/ pc[r] = "saveToken" /\ pc'[r] = "commit" /\ request'[r].deletes = request[r].deletes
    \/ pc[r] = "deleteAll" /\ pc'[r] = "lockAll"
       /\ request'[r].seen = {i \in Ids : Present(i) /\ Owner(i) = Owner(request[r].id)}
    \/ pc[r] = "lockAll" /\ pc'[r] = "saveToken"
       /\ request'[r].deletes = {i \in request[r].seen : Present(i)}
    \/ pc[r] = "findToken" /\ pc'[r] = "saveVerified" /\ tokens[request[r].id] = "valid"
    \/ pc[r] = "saveVerified" /\ pc'[r] = "deleteToken"
    \/ pc[r] = "deleteToken" /\ pc'[r] = "commit"

(* The rows a request has seen or deletes are tokens that were there. *)
Grasps(r, rows) ==
    \A i \in rows :
        \/ i \in request[r].seen \cup request[r].deletes
        \/ Present(i)
        \/ request[r].op = "verify" /\ i = request[r].id

Works(r) ==
    /\ Others(r) /\ RequestsTyped /\ UNCHANGED outside
    /\ ShapeAt(pc'[r], request'[r])
    /\ request'[r].op = request[r].op /\ request'[r].key = request[r].key
    /\ request'[r].id = request[r].id /\ request'[r].page = request[r].page
    /\ request'[r].aborted => request[r].aborted \/ faults' > 0
    /\ faults' \in {faults, faults + 1}
    /\ Grasps(r, request'[r].seen \cup request'[r].deletes)
    /\ Onward(r)

(* The handler throws, and says why. *)
Fails(r, what) ==
    /\ Open(r)
    /\ Throw(r, what)
    /\ faults' \in {faults, faults + 1}
    /\ what = "exists" =>
         \E j \in accounts : Body[Key(j)].username = Body[Key(request[r].id)].username
    /\ request[r].op = "verify" =>
         /\ what = "error"
         /\ faults' > 0 \/ request[r].aborted \/ tokens[request[r].id] # "valid"

(* A request is over. *)
Ends(r) ==
    /\ Open(r) /\ Others(r) /\ RequestsTyped
    /\ pc'[r] = "idle" /\ request'[r] = NoRequest

(* What its client learns by that. *)
Hears(r, what) ==
    /\ \A k \in Keys :
         \/ told'[k] = told[k]
         \/ /\ request[r].op = "signUp" /\ k = request[r].key
            /\ told'[k] = told[k] \cup ({what} \ {"error"})
    /\ \A p \in Pages :
         /\ pages'[p].token = pages[p].token
         /\ pages'[p].attempted = pages[p].attempted
         /\ \/ pages'[p].status = pages[p].status
            \/ /\ request[r].op = "verify" /\ p = request[r].page
               /\ pages'[p].status = IF what = "ok" THEN "verified" ELSE "failed"
    /\ told' \in [Keys -> SUBSET {"ok", "exists"}]
    /\ pages' \in [Pages -> PageState]

(* What its transaction stores. *)
Stored(r) ==
    LET g == request[r]
    IN  /\ accounts' = IF g.op = "signUp" THEN accounts \cup {g.id} ELSE accounts
        /\ \A i \in Ids :
             /\ users'[i] = IF g.op = "signUp" /\ i = g.id THEN "unverified"
                            ELSE IF g.op = "verify" /\ i = Owner(g.id)
                            THEN "verified" ELSE users[i]
             /\ tokens'[i] = IF i \in g.deletes THEN "deleted"
                             ELSE IF i = g.id /\ g.op # "verify" THEN "valid"
                             ELSE tokens[i]
             /\ spentBy'[i] = IF i \in g.deletes THEN spentBy[i] \cup {g.page}
                              ELSE spentBy[i]
        /\ minted' = minted
        /\ accounts' \in SUBSET Ids
        /\ users' \in [Ids -> {"none", "unverified", "verified"}]
        /\ tokens' \in [Ids -> {"none", "valid", "expired", "deleted"}]
        /\ spentBy' \in [Ids -> SUBSET (Pages \cup {None})]

Commits(r, what) ==
    /\ pc[r] = "commit" /\ Ends(r) /\ Stored(r) /\ Hears(r, what)
    /\ \A k \in Keys : k \in remembered' =>
         k \in remembered \/ (request[r].op = "signUp" /\ k = request[r].key)
    /\ \A i \in Ids : mail'[i] = mail[i] \/ (request[r].op # "verify" /\ i = request[r].id)
    /\ remembered' \in SUBSET Keys
    /\ mail' \in [Ids -> {"none", "published", "arrived"}]
    /\ faults' \in {faults, faults + 1}
    /\ what = "error" => faults' > 0
    /\ UNCHANGED <<expiries, met>>

(* A request begins at a label, with new locals. *)
Begins(r, l, g) ==
    /\ ~Open(r) /\ Others(r) /\ RequestsTyped
    /\ pc'[r] = l /\ request'[r] = g
    /\ met \subseteq met' /\ met' \in SUBSET (SUBSET Ids)
    /\ \A q \in Requests \ {r} : Open(q) => {g.id, request[q].id} \in met'
    /\ faults' \in {faults, faults + 1}
    /\ UNCHANGED <<accounts, users, tokens, remembered, told, mail, expiries, spentBy>>

Mints(i, k, u) ==
    /\ Owner(i) = 0
    /\ minted'[i] = [key |-> k, user |-> u]
    /\ \A j \in Ids \ {i} : minted'[j] = minted[j]
    /\ minted' \in [Ids -> [key : Keys \cup {None}, user : 0 .. MaxIds]]

SignsUp(r, k, i) ==
    /\ Begins(r, "saveAccount", Asked("signUp", k, i, None))
    /\ Mints(i, k, i)
    /\ pages' = pages

Resends(r, u, i) ==
    /\ Begins(r, "deleteAll", Asked("resend", None, i, None))
    /\ Mints(i, Key(u), u)
    /\ users[u] = "unverified"
    /\ pages' = pages

Verifies(r, p) ==
    /\ Begins(r, "findToken", Asked("verify", None, pages[p].token, p))
    /\ pages[p].token # 0 /\ ~pages[p].attempted
    /\ \A o \in Pages \ {p} : pages'[o] = pages[o]
    /\ pages'[p].attempted /\ pages'[p].token = pages[p].token
    /\ pages'[p].status = pages[p].status
    /\ pages' \in [Pages -> PageState]
    /\ minted' = minted

(* Time passes, a page is opened or an email arrives: no request moves. *)
Aside ==
    /\ UNCHANGED <<accounts, users, minted, pc, request, met, faults>>
    /\ \A i \in Ids :
         /\ \/ tokens'[i] = tokens[i]
            \/ tokens[i] = "valid" /\ tokens'[i] = "expired" /\ spentBy'[i] # {}
         /\ spentBy[i] \subseteq spentBy'[i]
         /\ spentBy'[i] \subseteq spentBy[i] \cup {None}
         /\ mail'[i] = mail[i] \/ mail[i] # "none"
    /\ \A k \in Keys :
         /\ k \in remembered' => k \in remembered
         /\ told'[k] = told[k] \/ (k \in remembered /\ told'[k] = told[k] \cup {"ok"})
    /\ \A p \in Pages :
         /\ pages[p].attempted => pages'[p].attempted
         /\ \/ pages'[p].token = pages[p].token /\ pages'[p].status = pages[p].status
            \/ /\ pages[p].token = 0 /\ pages'[p].status = "verifying"
               /\ pages'[p].token \in Ids /\ mail[pages'[p].token] # "none"
    /\ tokens' \in [Ids -> {"none", "valid", "expired", "deleted"}]
    /\ remembered' \in SUBSET Keys
    /\ told' \in [Keys -> SUBSET {"ok", "exists"}]
    /\ mail' \in [Ids -> {"none", "published", "arrived"}]
    /\ pages' \in [Pages -> PageState]
    /\ expiries' \in Nat
    /\ spentBy' \in [Ids -> SUBSET (Pages \cup {None})]

-----------------------------------------------------------------------------
(* What ties a request in progress to the rows. *)
Linked(g) ==
    /\ Owner(g.id) # 0
    /\ g.aborted => faults > 0
    /\ g.op = "signUp" => Owner(g.id) = g.id /\ Key(g.id) = g.key /\ users[g.id] = "none"
    /\ g.op # "verify" => tokens[g.id] = "none" /\ mail[g.id] = "none"
    /\ g.op = "resend" => users[Owner(g.id)] # "none"
    /\ \A i \in g.seen \cup g.deletes : tokens[i] # "none"
    /\ g.op = "verify" =>
         /\ tokens[g.id] # "none"
         /\ pages[g.page].token = g.id /\ pages[g.page].attempted
         /\ \A i \in Ids : g.page \notin spentBy[i]

(* Two requests never write one row; two never serve one page. *)
Apart(g, h) ==
    /\ g.op # "verify" /\ h.op # "verify" => g.id # h.id
    /\ g.op = "verify" /\ h.op = "verify" => g.page # h.page

RequestsLinked == \A r \in Requests : Open(r) => Linked(request[r])

RequestsApart ==
    \A r, q \in Requests : Open(r) /\ Open(q) /\ r # q => Apart(request[r], request[q])

RowsOK ==
    \A i \in Ids :
        /\ i \in accounts <=> users[i] # "none"
        /\ users[i] # "none" => Owner(i) = i
        /\ tokens[i] # "none" => Owner(i) # 0 /\ users[Owner(i)] # "none"
        /\ mail[i] # "none" => tokens[i] # "none"
        /\ tokens[i] \in {"expired", "deleted"} => spentBy[i] # {}

PagesOK ==
    \A p \in Pages :
        /\ pages[p].token # 0 => tokens[pages[p].token] # "none"
        /\ pages[p].status # "idle" => pages[p].token # 0
        /\ \A i \in Ids : p \in spentBy[i] => pages[p].attempted

Ties == RequestsLinked /\ RequestsApart /\ RowsOK /\ PagesOK

-----------------------------------------------------------------------------
-----------------------------------------------------------------------------
USE DEF Labels

(* The slot that serves no request. *)
LEMMA NoRequestOK ==
  ASSUME EmailVerificationAssumption
  PROVE  /\ NoRequest \in RequestState /\ ShapeAt("idle", NoRequest)
         /\ NoRequest.op = "signUp" /\ NoRequest.id = 0 /\ NoRequest.page = None
         /\ NoRequest.deletes = {} /\ ~NoRequest.aborted
  BY DEF NoRequest, Asked, RequestState, Ids, ShapeAt, OpAt, ToWrite,
         EmailVerificationAssumption

LEMMA GoOthers ==
  ASSUME IInv, NEW r \in Requests, NEW l \in Labels, NEW g \in RequestState, Go(r, l, g)
  PROVE  Others(r) /\ RequestsTyped /\ pc'[r] = l /\ request'[r] = g
  BY DEF IInv, EmailTypeOK, Go, Others, RequestsTyped

LEMMA AnId ==
  ASSUME EmailVerificationAssumption, NEW i \in 0 .. MaxIds, i # 0
  PROVE  i \in Ids
  BY DEF Ids, EmailVerificationAssumption

(* A step to the next statement with new locals. *)
LEMMA StepWorks ==
  ASSUME IInv, NEW r \in Requests, NEW l \in Labels, NEW g \in RequestState,
         Step(r, l, g), ShapeAt(l, g),
         g.op = request[r].op, g.key = request[r].key, g.id = request[r].id,
         g.page = request[r].page, faults' \in {faults, faults + 1},
         g.aborted => request[r].aborted \/ faults' > 0,
         Grasps(r, g.seen \cup g.deletes), Onward(r)
  PROVE  Works(r)
<1>1. /\ Others(r) /\ RequestsTyped /\ pc'[r] = l /\ request'[r] = g
      /\ UNCHANGED outside
  BY GoOthers DEF Step, outside
<1>2. Grasps(r, request'[r].seen \cup request'[r].deletes)
  BY <1>1
<1>3. QED
  BY <1>1, <1>2 DEF Works

(* The locals after a statement that wrote, and after one that failed. *)
LEMMA WroteFields ==
  ASSUME IInv, NEW r \in Requests, NEW what \in {"account", "user", "token", "verified"}
  PROVE  /\ Wrote(r, what) \in RequestState
         /\ Wrote(r, what).wrote = request[r].wrote \cup {what}
         /\ Wrote(r, what).op = request[r].op /\ Wrote(r, what).key = request[r].key
         /\ Wrote(r, what).id = request[r].id /\ Wrote(r, what).page = request[r].page
         /\ Wrote(r, what).deletes = request[r].deletes
         /\ Wrote(r, what).seen = request[r].seen
         /\ Wrote(r, what).aborted = request[r].aborted
         /\ Grasps(r, Wrote(r, what).seen \cup Wrote(r, what).deletes)
<1> DEFINE wrote == request[r].wrote \cup {what}
<1>1. request[r] \in RequestState
  BY DEF IInv, EmailTypeOK
<1>2. wrote \in SUBSET {"account", "user", "token", "verified"}
  BY <1>1 DEF RequestState
<1>3. Wrote(r, what) = [request[r] EXCEPT !.wrote = wrote]
  BY DEF Wrote
<1> HIDE DEF wrote
<1>4. /\ Wrote(r, what) \in RequestState /\ Wrote(r, what).wrote = wrote
      /\ Wrote(r, what).op = request[r].op /\ Wrote(r, what).key = request[r].key
      /\ Wrote(r, what).id = request[r].id /\ Wrote(r, what).page = request[r].page
      /\ Wrote(r, what).deletes = request[r].deletes
      /\ Wrote(r, what).seen = request[r].seen
      /\ Wrote(r, what).aborted = request[r].aborted
  BY <1>1, <1>2, <1>3 DEF RequestState
<1>5. QED
  BY <1>4 DEF Grasps, wrote

LEMMA AbortedFields ==
  ASSUME IInv, NEW r \in Requests
  PROVE  /\ Aborted(r) \in RequestState
         /\ Aborted(r).aborted
         /\ Aborted(r).op = request[r].op /\ Aborted(r).key = request[r].key
         /\ Aborted(r).id = request[r].id /\ Aborted(r).page = request[r].page
         /\ Aborted(r).deletes = request[r].deletes
         /\ Grasps(r, Aborted(r).seen \cup Aborted(r).deletes)
<1>1. request[r] \in RequestState
  BY DEF IInv, EmailTypeOK
<1>2. /\ Aborted(r) \in RequestState
      /\ Aborted(r).aborted
      /\ Aborted(r).op = request[r].op /\ Aborted(r).key = request[r].key
      /\ Aborted(r).id = request[r].id /\ Aborted(r).page = request[r].page
      /\ Aborted(r).deletes = request[r].deletes
      /\ Aborted(r).seen = request[r].seen
  BY <1>1 DEF RequestState, Aborted
<1>3. QED
  BY <1>2 DEF Grasps

LEMMA FaultCounts ==
  ASSUME IInv, Fault
  PROVE  faults' \in {faults, faults + 1} /\ faults' > 0
  BY DEF IInv, EmailTypeOK, Fault

(* The handlers' statements, one by one. *)
LEMMA SaveAccountKinds ==
  ASSUME EmailVerificationAssumption, IInv, NEW r \in Requests, SaveAccount(r)
  PROVE  Works(r) \/ \E what \in {"exists", "error"} : Fails(r, what)
<1>1. /\ request[r] \in RequestState /\ pc[r] = "saveAccount"
      /\ ShapeAt("saveAccount", request[r])
  BY DEF SaveAccount, IInv, EmailTypeOK, Shape
<1>2. faults \in Nat
  BY DEF IInv, EmailTypeOK
<1>3. CASE TakenName(r) /\ Throw(r, "exists") /\ UNCHANGED faults
  BY <1>1, <1>2, <1>3 DEF Fails, TakenName, Same, Open, ShapeAt, OpAt
<1>4. CASE Step(r, "saveUser", Wrote(r, "account")) /\ UNCHANGED faults
  <2>1. ShapeAt("saveUser", Wrote(r, "account"))
    BY <1>1, WroteFields DEF ShapeAt, OpAt, ToWrite
  <2>2. Onward(r)
    BY <1>1, <1>4, WroteFields, GoOthers DEF Step, Onward
  <2>3. QED
    BY <1>2, <1>4, <2>1, <2>2, WroteFields, StepWorks
<1>5. CASE Fault /\ Step(r, "saveUser", Aborted(r))
  <2>1. ShapeAt("saveUser", Aborted(r))
    BY <1>1, AbortedFields DEF ShapeAt, OpAt, ToWrite
  <2>2. Onward(r)
    BY <1>1, <1>5, AbortedFields, GoOthers DEF Step, Onward
  <2>3. QED
    BY <1>5, <2>1, <2>2, AbortedFields, StepWorks, FaultCounts
<1>6. QED
  BY <1>3, <1>4, <1>5 DEF SaveAccount

LEMMA SaveUserKinds ==
  ASSUME EmailVerificationAssumption, IInv, NEW r \in Requests, SaveUser(r)
  PROVE  Works(r) \/ \E what \in {"exists", "error"} : Fails(r, what)
<1>1. /\ request[r] \in RequestState /\ pc[r] = "saveUser"
      /\ ShapeAt("saveUser", request[r])
  BY DEF SaveUser, IInv, EmailTypeOK, Shape
<1>2. faults \in Nat
  BY DEF IInv, EmailTypeOK
<1>3. CASE request[r].aborted /\ Step(r, "saveToken", request[r]) /\ UNCHANGED faults
  <2>1. ShapeAt("saveToken", request[r])
    BY <1>1, <1>3 DEF ShapeAt, OpAt, ToWrite
  <2>2. Onward(r)
    BY <1>1, <1>3, GoOthers DEF Step, Onward
  <2>3. QED
    BY <1>1, <1>2, <1>3, <2>1, <2>2, StepWorks DEF Grasps
<1>4. CASE Throw(r, "error") /\ UNCHANGED faults
  BY <1>1, <1>2, <1>4 DEF Fails, Open, ShapeAt, OpAt
<1>5. CASE ~request[r].aborted /\ Step(r, "saveToken", Wrote(r, "user")) /\ UNCHANGED faults
  <2>1. ShapeAt("saveToken", Wrote(r, "user"))
    BY <1>1, <1>5, WroteFields DEF ShapeAt, OpAt, ToWrite
  <2>2. Onward(r)
    BY <1>1, <1>5, WroteFields, GoOthers DEF Step, Onward
  <2>3. QED
    BY <1>2, <1>5, <2>1, <2>2, WroteFields, StepWorks
<1>6. CASE Fault /\ Step(r, "saveToken", Aborted(r))
  <2>1. ShapeAt("saveToken", Aborted(r))
    BY <1>1, AbortedFields DEF ShapeAt, OpAt, ToWrite
  <2>2. Onward(r)
    BY <1>1, <1>6, AbortedFields, GoOthers DEF Step, Onward
  <2>3. QED
    BY <1>6, <2>1, <2>2, AbortedFields, StepWorks, FaultCounts
<1>7. QED
  BY <1>3, <1>4, <1>5, <1>6 DEF SaveUser

LEMMA SaveTokenKinds ==
  ASSUME EmailVerificationAssumption, IInv, NEW r \in Requests, SaveToken(r)
  PROVE  Works(r) \/ \E what \in {"exists", "error"} : Fails(r, what)
<1>1. /\ request[r] \in RequestState /\ pc[r] = "saveToken"
      /\ ShapeAt("saveToken", request[r])
  BY DEF SaveToken, IInv, EmailTypeOK, Shape
<1>2. faults \in Nat
  BY DEF IInv, EmailTypeOK
<1>3. CASE Throw(r, "error") /\ UNCHANGED faults
  BY <1>1, <1>2, <1>3 DEF Fails, Open, ShapeAt, OpAt
<1>4. CASE Throw(r, "error") /\ Fault
  BY <1>1, <1>4, FaultCounts DEF Fails, Open, ShapeAt, OpAt
<1>5. CASE ~request[r].aborted /\ Step(r, "commit", Wrote(r, "token")) /\ UNCHANGED faults
  <2>1. ShapeAt("commit", Wrote(r, "token"))
    BY <1>1, <1>5, WroteFields DEF ShapeAt, OpAt, ToWrite
  <2>2. Onward(r)
    <3>1. pc'[r] = "commit" /\ request'[r] = Wrote(r, "token")
      BY <1>5, WroteFields, GoOthers DEF Step
    <3>2. QED
      BY <1>1, <3>1, WroteFields DEF Onward
  <2>3. QED
    BY <1>2, <1>5, <2>1, <2>2, WroteFields, StepWorks
<1>6. QED
  BY <1>3, <1>4, <1>5 DEF SaveToken

LEMMA DeleteAllKinds ==
  ASSUME EmailVerificationAssumption, IInv, NEW r \in Requests, DeleteAll(r)
  PROVE  Works(r) \/ \E what \in {"exists", "error"} : Fails(r, what)
<1>1. /\ request[r] \in RequestState /\ pc[r] = "deleteAll"
      /\ ShapeAt("deleteAll", request[r])
  BY DEF DeleteAll, IInv, EmailTypeOK, Shape
<1>2. faults \in Nat
  BY DEF IInv, EmailTypeOK
<1> DEFINE rows == {i \in Ids : Present(i) /\ Owner(i) = Owner(request[r].id)}
           g    == [request[r] EXCEPT !.seen = rows]
<1>3. CASE Step(r, "lockAll", g) /\ UNCHANGED faults
  <2>1. rows \in SUBSET Ids
    OBVIOUS
  <2> HIDE DEF rows
  <2>2. /\ g \in RequestState /\ g.seen = rows /\ g.op = request[r].op /\ g.key = request[r].key
        /\ g.id = request[r].id /\ g.page = request[r].page /\ g.wrote = request[r].wrote
        /\ g.deletes = request[r].deletes /\ g.aborted = request[r].aborted
    BY <1>1, <2>1 DEF RequestState
  <2>3. Grasps(r, g.seen \cup g.deletes)
    BY <2>2 DEF Grasps, rows
  <2> HIDE DEF g
  <2>4. ShapeAt("lockAll", g)
    BY <1>1, <2>2 DEF ShapeAt, OpAt, ToWrite
  <2>5. Onward(r)
    <3>1. pc'[r] = "lockAll" /\ request'[r] = g
      BY <1>3, <2>2, GoOthers DEF Step
    <3>2. QED
      BY <1>1, <2>2, <3>1 DEF Onward, rows
  <2>6. QED
    BY <1>2, <1>3, <2>2, <2>3, <2>4, <2>5, StepWorks
<1>4. CASE Throw(r, "error") /\ Fault
  BY <1>1, <1>4, FaultCounts DEF Fails, Open, ShapeAt, OpAt
<1>5. QED
  BY <1>3, <1>4 DEF DeleteAll

LEMMA LockAllKinds ==
  ASSUME EmailVerificationAssumption, IInv, NEW r \in Requests, LockAll(r)
  PROVE  Works(r)
<1>1. /\ request[r] \in RequestState /\ pc[r] = "lockAll"
      /\ ShapeAt("lockAll", request[r])
  BY DEF LockAll, IInv, EmailTypeOK, Shape
<1>2. faults \in Nat
  BY DEF IInv, EmailTypeOK
<1> DEFINE rows == {i \in request[r].seen : Present(i)}
           g    == [request[r] EXCEPT !.seen = {}, !.deletes = rows]
<1>3. Step(r, "saveToken", g) /\ UNCHANGED faults
  BY DEF LockAll
<1>4. rows \in SUBSET Ids
  BY <1>1 DEF RequestState
<1> HIDE DEF rows
<1>5. /\ g \in RequestState /\ g.deletes = rows /\ g.seen = {} /\ g.op = request[r].op /\ g.key = request[r].key
      /\ g.id = request[r].id /\ g.page = request[r].page /\ g.wrote = request[r].wrote
      /\ g.aborted = request[r].aborted
  BY <1>1, <1>4 DEF RequestState
<1> HIDE DEF g
<1>6. ShapeAt("saveToken", g)
  BY <1>1, <1>5 DEF ShapeAt, OpAt, ToWrite
<1>7. Onward(r)
  <2>1. pc'[r] = "saveToken" /\ request'[r] = g
    BY <1>3, <1>5, GoOthers DEF Step
  <2>2. QED
    BY <1>1, <1>5, <2>1 DEF Onward, rows
<1>8. Grasps(r, g.seen \cup g.deletes)
  BY <1>5 DEF Grasps, rows
<1>9. QED
  BY <1>2, <1>3, <1>5, <1>6, <1>7, <1>8, StepWorks

LEMMA FindTokenKinds ==
  ASSUME EmailVerificationAssumption, IInv, NEW r \in Requests, FindToken(r)
  PROVE  Works(r) \/ \E what \in {"exists", "error"} : Fails(r, what)
<1>1. /\ request[r] \in RequestState /\ pc[r] = "findToken"
      /\ ShapeAt("findToken", request[r])
  BY DEF FindToken, IInv, EmailTypeOK, Shape
<1>2. faults \in Nat /\ UNCHANGED faults
  BY DEF IInv, EmailTypeOK, FindToken
<1>3. CASE tokens[request[r].id] = "valid" /\ Step(r, "saveVerified", request[r])
  <2>1. ShapeAt("saveVerified", request[r])
    BY <1>1 DEF ShapeAt, OpAt, ToWrite
  <2>2. Onward(r)
    BY <1>1, <1>3, GoOthers DEF Step, Onward
  <2>3. QED
    BY <1>1, <1>2, <1>3, <2>1, <2>2, StepWorks DEF Grasps
<1>4. CASE tokens[request[r].id] # "valid" /\ Throw(r, "error")
  BY <1>1, <1>2, <1>4 DEF Fails, Open, ShapeAt, OpAt
<1>5. QED
  BY <1>3, <1>4 DEF FindToken

LEMMA SaveVerifiedKinds ==
  ASSUME EmailVerificationAssumption, IInv, NEW r \in Requests, SaveVerified(r)
  PROVE  Works(r)
<1>1. /\ request[r] \in RequestState /\ pc[r] = "saveVerified"
      /\ ShapeAt("saveVerified", request[r])
  BY DEF SaveVerified, IInv, EmailTypeOK, Shape
<1>2. faults \in Nat
  BY DEF IInv, EmailTypeOK
<1>3. CASE Step(r, "deleteToken", Wrote(r, "verified")) /\ UNCHANGED faults
  <2>1. ShapeAt("deleteToken", Wrote(r, "verified"))
    BY <1>1, WroteFields DEF ShapeAt, OpAt, ToWrite
  <2>2. Onward(r)
    BY <1>1, <1>3, WroteFields, GoOthers DEF Step, Onward
  <2>3. QED
    BY <1>2, <1>3, <2>1, <2>2, WroteFields, StepWorks
<1>4. CASE Fault /\ Step(r, "deleteToken", Aborted(r))
  <2>1. ShapeAt("deleteToken", Aborted(r))
    BY <1>1, AbortedFields DEF ShapeAt, OpAt, ToWrite
  <2>2. Onward(r)
    BY <1>1, <1>4, AbortedFields, GoOthers DEF Step, Onward
  <2>3. QED
    BY <1>4, <2>1, <2>2, AbortedFields, StepWorks, FaultCounts
<1>5. QED
  BY <1>3, <1>4 DEF SaveVerified

LEMMA DeleteTokenKinds ==
  ASSUME EmailVerificationAssumption, IInv, NEW r \in Requests, DeleteToken(r)
  PROVE  Works(r) \/ \E what \in {"exists", "error"} : Fails(r, what)
<1>1. /\ request[r] \in RequestState /\ pc[r] = "deleteToken"
      /\ ShapeAt("deleteToken", request[r])
  BY DEF DeleteToken, IInv, EmailTypeOK, Shape
<1>2. faults \in Nat
  BY DEF IInv, EmailTypeOK
<1>3. CASE request[r].aborted /\ Throw(r, "error") /\ UNCHANGED faults
  BY <1>1, <1>2, <1>3 DEF Fails, Open, ShapeAt, OpAt
<1>4. CASE Throw(r, "error") /\ Fault
  BY <1>1, <1>4, FaultCounts DEF Fails, Open, ShapeAt, OpAt
<1> DEFINE rows == {request[r].id}
           g    == [request[r] EXCEPT !.deletes = rows]
<1>5. CASE ~request[r].aborted /\ Step(r, "commit", g) /\ UNCHANGED faults
  <2>1. rows \in SUBSET Ids
    BY <1>1, AnId DEF RequestState, ShapeAt
  <2>2. request[r].wrote = {"verified"} /\ request[r].op = "verify"
    BY <1>1, <1>5 DEF ShapeAt, OpAt, ToWrite
  <2> HIDE DEF rows
  <2>3. /\ g \in RequestState /\ g.deletes = rows /\ g.op = request[r].op /\ g.key = request[r].key
        /\ g.id = request[r].id /\ g.page = request[r].page /\ g.wrote = request[r].wrote
        /\ g.aborted = request[r].aborted /\ g.seen = request[r].seen
    BY <1>1, <2>1 DEF RequestState
  <2>4. Grasps(r, g.seen \cup g.deletes)
    BY <2>2, <2>3 DEF Grasps, rows
  <2> HIDE DEF g
  <2>5. ShapeAt("commit", g)
    BY <1>1, <1>5, <2>2, <2>3 DEF ShapeAt, OpAt, ToWrite, rows
  <2>6. Onward(r)
    BY <1>1, <1>5, <2>3, GoOthers DEF Step, Onward
  <2>7. QED
    BY <1>2, <1>5, <2>3, <2>4, <2>5, <2>6, StepWorks
<1>6. QED
  BY <1>3, <1>4, <1>5 DEF DeleteToken
(* The end of a request, however it ends. *)
LEMMA GoEnds ==
  ASSUME EmailVerificationAssumption, IInv, NEW r \in Requests, Open(r),
         Go(r, "idle", NoRequest)
  PROVE  Ends(r)
  BY GoOthers, NoRequestOK DEF Ends

LEMMA TellHears ==
  ASSUME EmailVerificationAssumption, IInv, NEW r \in Requests, Open(r),
         NEW what \in {"ok", "exists", "error"}, Tell(r, what)
  PROVE  Hears(r, what)
<1>1. /\ told \in [Keys -> SUBSET {"ok", "exists"}]
      /\ pages \in [Pages -> PageState]
      /\ ShapeAt(pc[r], request[r]) /\ pc[r] # "idle"
  BY DEF IInv, EmailTypeOK, Shape, Open
<1> DEFINE heard == {what} \ {"error"}
           shown == IF what = "ok" THEN "verified" ELSE "failed"
<1>2. heard \in SUBSET {"ok", "exists"} /\ shown \in {"verified", "failed"}
  OBVIOUS
<1>3. /\ told' = IF request[r].op = "signUp"
                 THEN [told EXCEPT ![request[r].key] = @ \cup heard] ELSE told
      /\ pages' = IF request[r].op = "verify"
                  THEN [pages EXCEPT ![request[r].page].status = shown] ELSE pages
  BY DEF Tell
<1> HIDE DEF heard, shown
<1>4. /\ told' \in [Keys -> SUBSET {"ok", "exists"}]
      /\ \A k \in Keys :
           \/ told'[k] = told[k]
           \/ /\ request[r].op = "signUp" /\ k = request[r].key
              /\ told'[k] = told[k] \cup heard
  BY <1>1, <1>2, <1>3
<1>5. /\ pages' \in [Pages -> PageState]
      /\ \A p \in Pages :
           /\ pages'[p].token = pages[p].token
           /\ pages'[p].attempted = pages[p].attempted
           /\ \/ pages'[p].status = pages[p].status
              \/ /\ request[r].op = "verify" /\ p = request[r].page
                 /\ pages'[p].status = shown
  <2>1. CASE request[r].op # "verify"
    BY <1>1, <1>3, <2>1
  <2>2. CASE request[r].op = "verify"
    <3>1. request[r].page \in Pages
      BY <1>1, <2>2 DEF ShapeAt
    <3>2. QED
      BY <1>1, <1>2, <1>3, <2>2, <3>1 DEF PageState
  <2>3. QED
    BY <2>1, <2>2
<1>6. QED
  BY <1>4, <1>5 DEF Hears, heard, shown

LEMMA FailsHears ==
  ASSUME EmailVerificationAssumption, IInv, NEW r \in Requests,
         NEW what \in {"exists", "error"}, Fails(r, what)
  PROVE  Ends(r) /\ Hears(r, what)
  BY GoEnds, TellHears DEF Fails, Throw, NoRequest

(* What COMMIT stores, by what its request was for. *)
LEMMA StoreStored ==
  ASSUME EmailVerificationAssumption, IInv, NEW r \in Requests, pc[r] = "commit", Store(r),
         Owner(request[r].id) # 0
  PROVE  Stored(r)
<1> DEFINE g == request[r]
<1>1. /\ g \in RequestState /\ ~g.aborted /\ g.wrote = ToWrite("commit", g.op)
      /\ g.op \in {"signUp", "resend", "verify"} /\ g.id \in 0 .. MaxIds /\ g.id # 0
      /\ g.page \in Pages \cup {None} /\ g.deletes \in SUBSET Ids
  BY DEF IInv, EmailTypeOK, Shape, ShapeAt, RequestState
<1>2. /\ accounts \in SUBSET Ids
      /\ users \in [Ids -> {"none", "unverified", "verified"}]
      /\ tokens \in [Ids -> {"none", "valid", "expired", "deleted"}]
      /\ spentBy \in [Ids -> SUBSET (Pages \cup {None})]
      /\ minted \in [Ids -> [key : Keys \cup {None}, user : 0 .. MaxIds]]
  BY DEF IInv, EmailTypeOK
<1>3. g.id \in Ids
  BY <1>1, AnId
<1>4. Owner(g.id) \in Ids
  <2>1. Owner(g.id) \in 0 .. MaxIds
    BY <1>2, <1>3 DEF Owner
  <2>2. QED
    BY <2>1, AnId
<1>5. /\ accounts' = IF "account" \in g.wrote THEN accounts \cup {g.id} ELSE accounts
      /\ users' = IF "user" \in g.wrote THEN [users EXCEPT ![g.id] = "unverified"]
                  ELSE IF "verified" \in g.wrote
                  THEN [users EXCEPT ![Owner(g.id)] = "verified"] ELSE users
      /\ tokens' = [i \in Ids |-> IF i \in g.deletes THEN "deleted"
                  ELSE IF i = g.id /\ "token" \in g.wrote THEN "valid" ELSE tokens[i]]
      /\ spentBy' = [i \in Ids |-> IF i \in g.deletes THEN spentBy[i] \cup {g.page}
                  ELSE spentBy[i]]
      /\ minted' = minted
  BY <1>1 DEF Store
<1>6. /\ "account" \in g.wrote <=> g.op = "signUp"
      /\ "user" \in g.wrote <=> g.op = "signUp"
      /\ "verified" \in g.wrote <=> g.op = "verify"
      /\ "token" \in g.wrote <=> g.op # "verify"
  BY <1>1 DEF ToWrite
<1> DEFINE owner == Owner(g.id)
<1> HIDE DEF g, owner
<1>7. /\ accounts' = IF g.op = "signUp" THEN accounts \cup {g.id} ELSE accounts
      /\ accounts' \in SUBSET Ids
  BY <1>2, <1>3, <1>5, <1>6
<1>8. /\ users' \in [Ids -> {"none", "unverified", "verified"}]
      /\ \A i \in Ids :
           users'[i] = IF g.op = "signUp" /\ i = g.id THEN "unverified"
                       ELSE IF g.op = "verify" /\ i = owner THEN "verified" ELSE users[i]
  BY <1>2, <1>3, <1>4, <1>5, <1>6 DEF owner
<1>9. /\ tokens' \in [Ids -> {"none", "valid", "expired", "deleted"}]
      /\ \A i \in Ids : tokens'[i] = IF i \in g.deletes THEN "deleted"
                             ELSE IF i = g.id /\ g.op # "verify" THEN "valid" ELSE tokens[i]
  BY <1>2, <1>5, <1>6
<1>10. /\ spentBy' \in [Ids -> SUBSET (Pages \cup {None})]
       /\ \A i \in Ids : spentBy'[i] = IF i \in g.deletes THEN spentBy[i] \cup {g.page}
                                        ELSE spentBy[i]
  <2>1. \A i \in Ids : spentBy[i] \in SUBSET (Pages \cup {None}) /\ spentBy[i] \cup {g.page} \in SUBSET (Pages \cup {None})
    BY <1>1, <1>2 DEF g
  <2>2. QED
    BY <1>5, <2>1
<1>11. QED
  BY <1>5, <1>7, <1>8, <1>9, <1>10 DEF Stored, g, owner
LEMMA CommitKinds ==
  ASSUME EmailVerificationAssumption, IInv, Ties, NEW r \in Requests, Commit(r)
  PROVE  Commits(r, "ok")
<1>1. /\ pc[r] = "commit" /\ Open(r) /\ request[r] \in RequestState
      /\ ShapeAt("commit", request[r])
  BY DEF Commit, Open, IInv, EmailTypeOK, Shape
<1>2. /\ Owner(request[r].id) # 0
      /\ request[r].id \in 0 .. MaxIds
      /\ request[r].op = "signUp" => request[r].key \in Keys
  BY <1>1 DEF Ties, RequestsLinked, Linked, ShapeAt, RequestState
<1>3. Stored(r) /\ Ends(r) /\ Hears(r, "ok")
  BY <1>1, <1>2, StoreStored, GoEnds, TellHears DEF Commit, NoRequest
<1>4. /\ \A i \in Ids : mail'[i] = mail[i] \/ (request[r].op # "verify" /\ i = request[r].id)
      /\ mail' \in [Ids -> {"none", "published", "arrived"}]
  <2>1. mail \in [Ids -> {"none", "published", "arrived"}]
    BY DEF IInv, EmailTypeOK
  <2>2. mail' = IF request[r].op = "verify" THEN mail
                ELSE [mail EXCEPT ![request[r].id] = "published"]
    BY DEF Commit, Send
  <2>3. QED
    BY <2>1, <2>2
<1>5. /\ \A k \in Keys : k \in remembered' =>
           k \in remembered \/ (request[r].op = "signUp" /\ k = request[r].key)
      /\ remembered' \in SUBSET Keys /\ faults' \in {faults, faults + 1}
  <2>1. remembered \in SUBSET Keys /\ faults \in Nat
    BY DEF IInv, EmailTypeOK
  <2>2. Remember(r)
    BY DEF Commit
  <2>3. QED
    BY <1>1, <1>2, <2>1, <2>2 DEF Remember, Fault
<1>6. UNCHANGED <<expiries, met>>
  BY DEF Commit
<1>7. QED
  BY <1>1, <1>3, <1>4, <1>5, <1>6 DEF Commits

LEMMA CommitUnheardKinds ==
  ASSUME EmailVerificationAssumption, IInv, Ties, NEW r \in Requests, CommitUnheard(r)
  PROVE  Commits(r, "error")
<1>1. /\ pc[r] = "commit" /\ Open(r) /\ Owner(request[r].id) # 0
      /\ remembered \in SUBSET Keys
      /\ mail \in [Ids -> {"none", "published", "arrived"}]
  BY DEF CommitUnheard, Open, Ties, RequestsLinked, Linked, IInv, EmailTypeOK
<1>2. Stored(r) /\ Ends(r) /\ Hears(r, "error")
  BY <1>1, StoreStored, GoEnds, TellHears DEF CommitUnheard, NoRequest
<1>3. UNCHANGED <<remembered, mail, expiries, met>> /\ Fault
  BY DEF CommitUnheard
<1>4. QED
  BY <1>1, <1>2, <1>3, FaultCounts DEF Commits

LEMMA CommitFailsKinds ==
  ASSUME EmailVerificationAssumption, IInv, NEW r \in Requests, CommitFails(r)
  PROVE  Fails(r, "error")
  BY FaultCounts DEF CommitFails, Fails, Open

(* Where requests come from. *)
LEMMA MintMints ==
  ASSUME EmailVerificationAssumption, IInv, NEW i \in Ids, NEW k \in Keys \cup {None},
         NEW u \in Ids, Mint(i, k, u)
  PROVE  Mints(i, k, u)
<1>1. minted \in [Ids -> [key : Keys \cup {None}, user : 0 .. MaxIds]] /\ u \in 0 .. MaxIds
  BY DEF IInv, EmailTypeOK, Ids, EmailVerificationAssumption
<1>2. QED
  BY <1>1 DEF Mint, Mints

LEMMA MeetMet ==
  ASSUME EmailVerificationAssumption, IInv, NEW r \in Requests, NEW i \in Ids, Meet(r, i)
  PROVE  /\ met \subseteq met' /\ met' \in SUBSET (SUBSET Ids)
         /\ \A q \in Requests \ {r} : Open(q) => {i, request[q].id} \in met'
<1>1. \A q \in Requests : Open(q) => request[q].id \in Ids
  <2> TAKE q \in Requests
  <2>1. request[q].id \in 0 .. MaxIds /\ (Open(q) => request[q].id # 0)
    BY DEF IInv, EmailTypeOK, RequestState, Shape, ShapeAt, Open
  <2>2. QED
    BY <2>1, AnId
<1>2. met \in SUBSET (SUBSET Ids)
  BY DEF IInv, EmailTypeOK
<1>3. QED
  BY <1>1, <1>2 DEF Meet

LEMMA AskedFields ==
  ASSUME NEW op, NEW k, NEW i, NEW p
  PROVE  LET g == Asked(op, k, i, p)
         IN  /\ g.op = op /\ g.key = k /\ g.id = i /\ g.page = p
             /\ g.wrote = {} /\ g.seen = {} /\ g.deletes = {} /\ ~g.aborted
             /\ op \in {"signUp", "resend", "verify"} /\ k \in Keys \cup {None}
                /\ i \in 0 .. MaxIds /\ p \in Pages \cup {None} => g \in RequestState
  BY DEF Asked, RequestState

LEMMA SignUpKinds ==
  ASSUME EmailVerificationAssumption, IInv, NEW r \in Requests, NEW k \in Keys,
         NEW i \in Ids, SignUp(r, k, i)
  PROVE  SignsUp(r, k, i)
<1> DEFINE g == Asked("signUp", k, i, None)
<1>1. g \in RequestState /\ g.id = i
  BY AskedFields DEF Ids, EmailVerificationAssumption
<1> HIDE DEF g
<1>2. Go(r, "saveAccount", g)
  BY DEF SignUp, g
<1>3. faults' \in {faults, faults + 1}
  BY DEF SignUp, IInv, EmailTypeOK
<1>4. Others(r) /\ RequestsTyped /\ pc'[r] = "saveAccount" /\ request'[r] = g
  BY <1>1, <1>2, GoOthers
<1>5. Begins(r, "saveAccount", g)
  BY <1>1, <1>3, <1>4, MeetMet DEF SignUp, Begins
<1>6. QED
  BY <1>5, MintMints DEF SignUp, SignsUp, g

LEMMA ResendKinds ==
  ASSUME EmailVerificationAssumption, IInv, NEW r \in Requests, NEW u \in Ids,
         NEW i \in Ids, Resend(r, u, i)
  PROVE  Resends(r, u, i)
<1> DEFINE g == Asked("resend", None, i, None)
<1>1. g \in RequestState /\ g.id = i /\ Key(u) \in Keys \cup {None}
  BY AskedFields DEF Ids, EmailVerificationAssumption, IInv, EmailTypeOK, Key
<1> HIDE DEF g
<1>2. Go(r, "deleteAll", g)
  BY DEF Resend, g
<1>3. faults' \in {faults, faults + 1}
  BY DEF Resend
<1>4. Others(r) /\ RequestsTyped /\ pc'[r] = "deleteAll" /\ request'[r] = g
  BY <1>1, <1>2, GoOthers
<1>5. Begins(r, "deleteAll", g)
  BY <1>1, <1>3, <1>4, MeetMet DEF Resend, Begins
<1>6. QED
  BY <1>1, <1>5, MintMints DEF Resend, Resends, g
(* The steps that leave every request where it is. *)
LEMMA Typed ==
  ASSUME IInv
  PROVE  /\ accounts \in SUBSET Ids
         /\ users \in [Ids -> {"none", "unverified", "verified"}]
         /\ tokens \in [Ids -> {"none", "valid", "expired", "deleted"}]
         /\ minted \in [Ids -> [key : Keys \cup {None}, user : 0 .. MaxIds]]
         /\ pc \in [Requests -> Labels]
         /\ request \in [Requests -> RequestState]
         /\ remembered \in SUBSET Keys
         /\ told \in [Keys -> SUBSET {"ok", "exists"}]
         /\ mail \in [Ids -> {"none", "published", "arrived"}]
         /\ pages \in [Pages -> PageState]
         /\ faults \in Nat
         /\ expiries \in Nat
         /\ spentBy \in [Ids -> SUBSET (Pages \cup {None})]
         /\ met \in SUBSET (SUBSET Ids)
  BY DEF IInv, EmailTypeOK

LEMMA ReplayAside ==
  ASSUME IInv, NEW k \in Keys, Replay(k)
  PROVE  Aside
<1>1. told' \in [Keys -> SUBSET {"ok", "exists"}]
  BY Typed DEF Replay
<1>2. \A l \in Keys :
        told'[l] = told[l] \/ (l \in remembered /\ told'[l] = told[l] \cup {"ok"})
  BY Typed DEF Replay
<1>3. QED
  BY Typed, <1>1, <1>2 DEF Replay, Aside, tables

LEMMA OpenLinkAside ==
  ASSUME EmailVerificationAssumption, IInv, NEW p \in Pages, NEW i \in Ids, OpenLink(p, i)
  PROVE  Aside
<1>1. /\ pages' = [pages EXCEPT ![p].token = i, ![p].status = "verifying"]
      /\ pages[p].token = 0 /\ mail[i] = "arrived" /\ i \in 0 .. MaxIds
  BY DEF OpenLink, Ids, EmailVerificationAssumption
<1>2. /\ pages' \in [Pages -> PageState]
      /\ \A o \in Pages : pages'[o].attempted = pages[o].attempted
      /\ \A o \in Pages \ {p} : pages'[o] = pages[o]
      /\ pages'[p].token = i /\ pages'[p].status = "verifying"
  <2> DEFINE half == [pages EXCEPT ![p].token = i]
  <2>1. /\ half \in [Pages -> PageState] /\ half[p].token = i
        /\ \A o \in Pages : half[o].attempted = pages[o].attempted
        /\ \A o \in Pages \ {p} : half[o] = pages[o]
    BY Typed, <1>1 DEF PageState
  <2>2. pages' = [half EXCEPT ![p].status = "verifying"]
    BY <1>1
  <2> HIDE DEF half
  <2>3. QED
    BY <2>1, <2>2 DEF PageState
<1>3. UNCHANGED <<accounts, users, tokens, minted, pc, request, remembered, told,
                  mail, faults, expiries, spentBy, met>>
  BY DEF OpenLink, tables
<1>4. QED
  BY Typed, <1>1, <1>2, <1>3 DEF Aside

(* The effect asks once and is silent the other time. *)
LEMMA EffectKinds ==
  ASSUME EmailVerificationAssumption, IInv, NEW p \in Pages, NEW r \in Requests,
         Effect(p, r)
  PROVE  Aside \/ Verifies(r, p)
<1>1. /\ pages' = [pages EXCEPT ![p].runs = @ + 1, ![p].attempted = TRUE]
      /\ pages[p].token \in 0 .. MaxIds /\ pages[p].token # 0 /\ pages[p].token \in Ids
  BY Typed, AnId DEF Effect, PageState
<1>2. /\ pages' \in [Pages -> PageState]
      /\ \A o \in Pages \ {p} : pages'[o] = pages[o]
      /\ pages'[p].token = pages[p].token /\ pages'[p].status = pages[p].status
      /\ pages'[p].attempted
  <2> DEFINE half == [pages EXCEPT ![p].runs = @ + 1]
  <2>1. /\ half \in [Pages -> PageState]
        /\ half[p].token = pages[p].token /\ half[p].status = pages[p].status
        /\ \A o \in Pages \ {p} : half[o] = pages[o]
    BY Typed DEF PageState
  <2>2. pages' = [half EXCEPT ![p].attempted = TRUE]
    BY <1>1
  <2> HIDE DEF half
  <2>3. QED
    BY <2>1, <2>2 DEF PageState
<1>3. UNCHANGED <<accounts, users, tokens, minted, remembered, told, mail, faults,
                  expiries, spentBy>>
  BY DEF Effect, tables
<1>4. CASE pages[p].attempted
  <2>1. UNCHANGED <<pc, request, met>>
    BY <1>4 DEF Effect
  <2>2. QED
    BY Typed, <1>1, <1>2, <1>3, <2>1 DEF Aside
<1>5. CASE ~pages[p].attempted
  <2> DEFINE g == Asked("verify", None, pages[p].token, p)
  <2>1. g \in RequestState /\ g.id = pages[p].token
    BY <1>1, AskedFields
  <2>2. Go(r, "findToken", g) /\ Meet(r, pages[p].token) /\ ~Open(r)
    BY <1>5 DEF Effect
  <2> HIDE DEF g
  <2>3. Others(r) /\ RequestsTyped /\ pc'[r] = "findToken" /\ request'[r] = g
    BY <2>1, <2>2, GoOthers
  <2>4. faults' \in {faults, faults + 1}
    BY <1>3
  <2>5. Begins(r, "findToken", g)
    BY <1>1, <1>3, <2>1, <2>2, <2>3, <2>4, MeetMet DEF Begins
  <2>6. QED
    BY <1>1, <1>2, <1>3, <1>5, <2>5 DEF Verifies, g
<1>6. QED
  BY <1>4, <1>5

LEMMA ArriveAside ==
  ASSUME IInv, NEW i \in Ids, Arrive(i)
  PROVE  Aside
<1>1. /\ mail' \in [Ids -> {"none", "published", "arrived"}]
      /\ \A j \in Ids : mail'[j] = mail[j] \/ mail[j] # "none"
  BY Typed DEF Arrive
<1>2. QED
  BY Typed, <1>1 DEF Arrive, Aside, tables

LEMMA ExpireAside ==
  ASSUME IInv, NEW i \in Ids, Expire(i)
  PROVE  Aside
<1>1. /\ tokens' \in [Ids -> {"none", "valid", "expired", "deleted"}]
      /\ tokens[i] = "valid" /\ tokens'[i] = "expired"
      /\ \A j \in Ids \ {i} : tokens'[j] = tokens[j]
  BY Typed DEF Expire
<1>2. /\ spentBy' \in [Ids -> SUBSET (Pages \cup {None})]
      /\ spentBy'[i] = spentBy[i] \cup {None}
      /\ \A j \in Ids \ {i} : spentBy'[j] = spentBy[j]
  BY Typed DEF Expire
<1>3. expiries' \in Nat
  BY Typed DEF Expire
<1>4. UNCHANGED <<accounts, users, minted, pc, request, remembered, told, mail, pages,
                  faults, met>>
  BY DEF Expire
<1>5. QED
  BY Typed, <1>1, <1>2, <1>3, <1>4 DEF Aside

LEMMA ForgetAside ==
  ASSUME IInv, NEW k \in Keys, Forget(k)
  PROVE  Aside
<1>1. remembered' \in SUBSET Keys /\ remembered' \subseteq remembered /\ expiries' \in Nat
  BY Typed DEF Forget
<1>2. QED
  BY Typed, <1>1 DEF Forget, Aside, tables

(* Every step is of one of these kinds. *)
Kinds ==
    \/ \E r \in Requests :
         \/ Works(r)
         \/ \E what \in {"exists", "error"} : Fails(r, what)
         \/ \E what \in {"ok", "error"} : Commits(r, what)
         \/ \E k \in Keys, i \in Ids : SignsUp(r, k, i)
         \/ \E u, i \in Ids : Resends(r, u, i)
         \/ \E p \in Pages : Verifies(r, p)
    \/ Aside

LEMMA StepKinds ==
  ASSUME EmailVerificationAssumption, IInv, Ties, [Next]_vars
  PROVE  Kinds
<1>1. CASE \E r \in Requests, k \in Keys, i \in Ids : SignUp(r, k, i)
  BY <1>1, SignUpKinds DEF Kinds
<1>2. CASE \E k \in Keys : Replay(k) \/ Forget(k)
  BY <1>2, ReplayAside, ForgetAside DEF Kinds
<1>3. CASE \E r \in Requests, u, i \in Ids : Resend(r, u, i)
  BY <1>3, ResendKinds DEF Kinds
<1>4. ASSUME NEW r \in Requests, Handle(r)
      PROVE  Kinds
  <2>1. CASE SaveAccount(r)
    BY <2>1, SaveAccountKinds DEF Kinds
  <2>2. CASE SaveUser(r)
    BY <2>2, SaveUserKinds DEF Kinds
  <2>3. CASE SaveToken(r)
    BY <2>3, SaveTokenKinds DEF Kinds
  <2>4. CASE DeleteAll(r)
    BY <2>4, DeleteAllKinds DEF Kinds
  <2>5. CASE LockAll(r)
    BY <2>5, LockAllKinds DEF Kinds
  <2>6. CASE FindToken(r)
    BY <2>6, FindTokenKinds DEF Kinds
  <2>7. CASE SaveVerified(r)
    BY <2>7, SaveVerifiedKinds DEF Kinds
  <2>8. CASE DeleteToken(r)
    BY <2>8, DeleteTokenKinds DEF Kinds
  <2>9. CASE Commit(r)
    BY <2>9, CommitKinds DEF Kinds
  <2>10. CASE CommitFails(r)
    BY <2>10, CommitFailsKinds DEF Kinds
  <2>11. CASE CommitUnheard(r)
    BY <2>11, CommitUnheardKinds DEF Kinds
  <2>12. QED
    BY <1>4, <2>1, <2>2, <2>3, <2>4, <2>5, <2>6, <2>7, <2>8, <2>9, <2>10, <2>11
       DEF Handle
<1>5. CASE \E p \in Pages, i \in Ids : OpenLink(p, i)
  BY <1>5, OpenLinkAside DEF Kinds
<1>6. CASE \E p \in Pages, r \in Requests : Effect(p, r)
  BY <1>6, EffectKinds DEF Kinds
<1>7. CASE \E i \in Ids : Arrive(i) \/ Expire(i)
  BY <1>7, ArriveAside, ExpireAside DEF Kinds
<1>8. CASE UNCHANGED vars
  BY <1>8, Typed DEF vars, tables, Aside, Kinds
<1>9. QED
  BY <1>1, <1>2, <1>3, <1>4, <1>5, <1>6, <1>7, <1>8 DEF Next
-----------------------------------------------------------------------------
(* Types and shapes *)
LEMMA ShapeFrom ==
  ASSUME \A q \in Requests : ShapeAt(pc'[q], request'[q])
  PROVE  Shape'
  BY DEF Shape, ShapeAt, OpAt, ToWrite, NoRequest, Asked

LEMMA ShapeKept ==
  ASSUME IInv, NEW r \in Requests, Others(r), ShapeAt(pc'[r], request'[r])
  PROVE  Shape'
<1>1. \A q \in Requests : ShapeAt(pc'[q], request'[q])
  BY DEF IInv, Shape, Others
<1>2. QED
  BY <1>1, ShapeFrom

LEMMA BegunShape ==
  ASSUME EmailVerificationAssumption, NEW l \in {"saveAccount", "deleteAll", "findToken"},
         NEW k \in Keys \cup {None}, NEW i \in Ids, NEW p \in Pages \cup {None},
         NEW op, l = "saveAccount" => op = "signUp" /\ k \in Keys /\ p = None,
         l = "deleteAll" => op = "resend" /\ p = None,
         l = "findToken" => op = "verify" /\ p \in Pages
  PROVE  ShapeAt(l, Asked(op, k, i, p))
<1> DEFINE g == Asked(op, k, i, p)
<1>1. /\ g.op = op /\ g.key = k /\ g.id = i /\ g.page = p
      /\ g.wrote = {} /\ g.deletes = {} /\ ~g.aborted /\ i # 0
  BY AskedFields DEF Ids, EmailVerificationAssumption
<1> HIDE DEF g
<1>2. ShapeAt(l, g)
  BY <1>1 DEF ShapeAt, OpAt, ToWrite
<1>3. QED
  BY <1>2 DEF g

LEMMA BeginsKept ==
  ASSUME EmailVerificationAssumption, IInv, NEW r \in Requests, NEW l, NEW g,
         Begins(r, l, g), ShapeAt(l, g),
         pages' \in [Pages -> PageState],
         minted' \in [Ids -> [key : Keys \cup {None}, user : 0 .. MaxIds]]
  PROVE  IInv'
<1>1. Shape'
  BY ShapeKept DEF Begins
<1>2. EmailTypeOK'
  BY Typed DEF Begins, RequestsTyped, EmailTypeOK
<1>3. QED
  BY <1>1, <1>2 DEF IInv

LEMMA KindsTyped ==
  ASSUME EmailVerificationAssumption, IInv, Kinds
  PROVE  IInv'
<1>1. ASSUME NEW r \in Requests, Works(r)
      PROVE  IInv'
  <2>1. EmailTypeOK'
    BY Typed, <1>1 DEF Works, RequestsTyped, outside, tables, EmailTypeOK
  <2>2. QED
    BY <1>1, <2>1, ShapeKept DEF Works, IInv
<1>2. ASSUME NEW r \in Requests, NEW what \in {"exists", "error"}, Fails(r, what)
      PROVE  IInv'
  <2>1. Ends(r) /\ Hears(r, what)
    BY <1>2, FailsHears
  <2>2. EmailTypeOK'
    BY Typed, <1>2, <2>1 DEF Fails, Throw, Ends, Hears, RequestsTyped, tables, EmailTypeOK
  <2>3. QED
    BY <2>1, <2>2, ShapeKept, NoRequestOK DEF Ends, IInv
<1>3. ASSUME NEW r \in Requests, NEW what \in {"ok", "error"}, Commits(r, what)
      PROVE  IInv'
  <2>1. EmailTypeOK'
    BY Typed, <1>3 DEF Commits, Ends, Hears, Stored, RequestsTyped, EmailTypeOK
  <2>2. QED
    BY <1>3, <2>1, ShapeKept, NoRequestOK DEF Commits, Ends, IInv
<1>4. ASSUME NEW r \in Requests, NEW k \in Keys, NEW i \in Ids, SignsUp(r, k, i)
      PROVE  IInv'
  <2>1. ShapeAt("saveAccount", Asked("signUp", k, i, None))
    BY BegunShape
  <2>2. QED
    BY <1>4, <2>1, Typed, BeginsKept DEF SignsUp, Mints
<1>5. ASSUME NEW r \in Requests, NEW u \in Ids, NEW i \in Ids, Resends(r, u, i)
      PROVE  IInv'
  <2>1. ShapeAt("deleteAll", Asked("resend", None, i, None))
    BY BegunShape
  <2>2. QED
    BY <1>5, <2>1, Typed, BeginsKept DEF Resends, Mints
<1>6. ASSUME NEW r \in Requests, NEW p \in Pages, Verifies(r, p)
      PROVE  IInv'
  <2>1. pages[p].token \in Ids
    <3>1. pages[p].token \in 0 .. MaxIds /\ pages[p].token # 0
      BY Typed, <1>6 DEF PageState, Verifies
    <3>2. QED
      BY <3>1, AnId
  <2>2. ShapeAt("findToken", Asked("verify", None, pages[p].token, p))
    BY <2>1, BegunShape
  <2>3. QED
    BY <1>6, <2>2, Typed, BeginsKept DEF Verifies
<1>7. ASSUME Aside
      PROVE  IInv'
  <2>1. EmailTypeOK'
    BY Typed, <1>7 DEF Aside, EmailTypeOK
  <2>2. \A q \in Requests : ShapeAt(pc'[q], request'[q])
    BY <1>7 DEF Aside, IInv, Shape
  <2>3. QED
    BY <2>1, <2>2, ShapeFrom DEF IInv
<1>8. QED
  BY <1>1, <1>2, <1>3, <1>4, <1>5, <1>6, <1>7 DEF Kinds

LEMMA InitTyped ==
  ASSUME EmailVerificationAssumption, Init
  PROVE  IInv
<1>1. EmailTypeOK
  BY NoRequestOK DEF Init, EmailTypeOK, PageState, NoRequest, Ids, EmailVerificationAssumption
<1>2. Shape
  BY NoRequestOK DEF Init, Shape, NoRequest
<1>3. QED
  BY <1>1, <1>2 DEF IInv
-----------------------------------------------------------------------------
(* The ties between requests and rows *)

(* What a request in progress is known by. *)
LEMMA OpenFields ==
  ASSUME EmailVerificationAssumption, IInv, NEW r \in Requests, Open(r)
  PROVE  /\ request[r] \in RequestState /\ request[r].id \in Ids
         /\ request[r].op \in {"signUp", "resend", "verify"}
         /\ request[r].op = "signUp" => request[r].key \in Keys
         /\ request[r].op = "verify" => request[r].page \in Pages
         /\ request[r].op # "verify" => request[r].page = None
         /\ request[r].seen \in SUBSET Ids /\ request[r].deletes \in SUBSET Ids
<1>1. request[r] \in RequestState /\ ShapeAt(pc[r], request[r]) /\ pc[r] # "idle"
  BY DEF IInv, EmailTypeOK, Shape, Open
<1>2. request[r].id \in 0 .. MaxIds /\ request[r].id # 0
  BY <1>1 DEF RequestState, ShapeAt
<1>3. QED
  BY <1>1, <1>2, AnId DEF RequestState, ShapeAt

LEMMA OwnersAreIds ==
  ASSUME EmailVerificationAssumption, IInv, NEW i \in Ids, Owner(i) # 0
  PROVE  Owner(i) \in Ids
<1>1. Owner(i) \in 0 .. MaxIds
  BY Typed DEF Owner
<1>2. QED
  BY <1>1, AnId

LEMMA WorksTies ==
  ASSUME EmailVerificationAssumption, IInv, Ties, NEW r \in Requests, Works(r)
  PROVE  Ties'
<1>1. /\ Open(r)
      /\ UNCHANGED <<accounts, users, tokens, minted, mail, pages, spentBy>>
      /\ faults > 0 => faults' > 0
  BY Typed DEF Works, Onward, Open, outside, tables
<1>2. /\ request'[r].op = request[r].op /\ request'[r].key = request[r].key
      /\ request'[r].id = request[r].id /\ request'[r].page = request[r].page
      /\ request'[r].aborted => request[r].aborted \/ faults' > 0
      /\ \A q \in Requests \ {r} : pc'[q] = pc[q] /\ request'[q] = request[q]
  BY DEF Works, Others
<1>3. \A i \in request'[r].seen \cup request'[r].deletes : tokens[i] # "none"
  BY <1>1 DEF Works, Grasps, Ties, RequestsLinked, Linked, Present
<1>4. RequestsLinked'
  BY <1>1, <1>2, <1>3 DEF Ties, RequestsLinked, Linked, Open, Owner, Key
<1>5. RequestsApart'
  BY <1>1, <1>2 DEF Ties, RequestsApart, Apart, Open
<1>6. RowsOK' /\ PagesOK'
  BY <1>1 DEF Ties, RowsOK, PagesOK, Owner
<1>7. QED
  BY <1>4, <1>5, <1>6 DEF Ties

LEMMA EndsApart ==
  ASSUME RequestsApart, NEW r \in Requests, Ends(r)
  PROVE  RequestsApart'
  BY DEF RequestsApart, Ends, Others, Apart, Open

LEMMA FailsTies ==
  ASSUME EmailVerificationAssumption, IInv, Ties, NEW r \in Requests,
         NEW what \in {"exists", "error"}, Fails(r, what)
  PROVE  Ties'
<1>1. Ends(r) /\ Hears(r, what)
  BY FailsHears
<1>2. /\ UNCHANGED <<accounts, users, tokens, minted, mail, spentBy>>
      /\ faults > 0 => faults' > 0
  BY Typed DEF Fails, Throw, tables
<1>3. \A p \in Pages : pages'[p].token = pages[p].token /\ pages'[p].attempted = pages[p].attempted
  BY <1>1 DEF Hears
<1>4. RequestsApart'
  BY <1>1, EndsApart DEF Ties
<1>5. RequestsLinked'
  <2> SUFFICES ASSUME NEW q \in Requests \ {r}, Open(q)
               PROVE  Linked(request[q])'
    BY <1>1 DEF RequestsLinked, Ends, Others, Open
  <2>1. request'[q] = request[q] /\ Linked(request[q])
        /\ (request[q].op = "verify" => request[q].page \in Pages)
    BY <1>1, OpenFields DEF Ends, Others, Ties, RequestsLinked
  <2>2. QED
    BY <1>2, <1>3, <2>1 DEF Linked, Owner, Key
<1>6. RowsOK'
  BY <1>2 DEF Ties, RowsOK, Owner
<1>7. PagesOK'
  <2>1. Open(r) /\ (request[r].op = "verify" => pages[request[r].page].token # 0)
    BY <1>1, OpenFields DEF Ends, Ties, RequestsLinked, Linked, Ids
  <2>2. \A p \in Pages : pages'[p].status # "idle" => pages[p].token # 0
    BY <1>1, <2>1 DEF Hears, Ties, PagesOK
  <2>3. QED
    BY <1>2, <1>3, <2>2 DEF Ties, PagesOK
<1>8. QED
  BY <1>4, <1>5, <1>6, <1>7 DEF Ties

LEMMA AsideTies ==
  ASSUME EmailVerificationAssumption, IInv, Ties, Aside
  PROVE  Ties'
<1>1. UNCHANGED <<accounts, users, minted, pc, request, faults>>
  BY DEF Aside
<1>2. \A i \in Ids : /\ tokens'[i] = "none" <=> tokens[i] = "none"
                     /\ mail'[i] # "none" => mail[i] # "none"
                     /\ tokens'[i] \in {"expired", "deleted"} => spentBy'[i] # {}
  BY DEF Aside, Ties, RowsOK
<1>3. \A p \in Pages, i \in Ids : p \in spentBy'[i] => p \in spentBy[i]
  BY DEF Aside, EmailVerificationAssumption
<1>4. RequestsApart'
  BY <1>1 DEF Ties, RequestsApart, Apart, Open
<1>5. RequestsLinked'
  <2> SUFFICES ASSUME NEW q \in Requests, Open(q)
               PROVE  Linked(request[q])'
    BY <1>1 DEF RequestsLinked, Open
  <2>1. request[q].id \in Ids /\ Linked(request[q])
        /\ request[q].seen \in SUBSET Ids /\ request[q].deletes \in SUBSET Ids
        /\ (request[q].op = "verify" => request[q].page \in Pages)
    BY OpenFields DEF Ties, RequestsLinked
  <2>2. request[q].op = "verify" =>
          /\ pages'[request[q].page].token = request[q].id
          /\ pages'[request[q].page].attempted
    BY <2>1 DEF Linked, Aside, Ids
  <2>3. QED
    BY <1>1, <1>2, <1>3, <2>1, <2>2 DEF Linked, Owner, Key
<1>6. RowsOK'
  BY <1>1, <1>2 DEF Ties, RowsOK, Owner
<1>7. PagesOK'
  <2> SUFFICES ASSUME NEW p \in Pages
               PROVE  /\ pages'[p].token # 0 => tokens'[pages'[p].token] # "none"
                      /\ pages'[p].status # "idle" => pages'[p].token # 0
                      /\ \A i \in Ids : p \in spentBy'[i] => pages'[p].attempted
    BY DEF PagesOK
  <2>1. \A i \in Ids : p \in spentBy'[i] => pages'[p].attempted
    BY <1>3 DEF Aside, Ties, PagesOK
  <2>2. CASE pages'[p].token = pages[p].token /\ pages'[p].status = pages[p].status
    <3>1. pages[p].token # 0 => pages[p].token \in Ids
      BY Typed, AnId DEF PageState
    <3>2. QED
      BY <1>2, <2>1, <2>2, <3>1 DEF Ties, PagesOK
  <2>3. CASE pages'[p].token \in Ids /\ mail[pages'[p].token] # "none"
    BY <1>2, <2>1, <2>3 DEF Ties, RowsOK, Ids
  <2>4. QED
    BY <2>2, <2>3 DEF Aside
<1>8. QED
  BY <1>4, <1>5, <1>6, <1>7 DEF Ties
(* A new request, apart from the others and tied to its rows, disturbs none. *)
LEMMA BeginsTies ==
  ASSUME EmailVerificationAssumption, IInv, Ties, NEW r \in Requests, NEW l, NEW g,
         l # "idle", Begins(r, l, g), Linked(g)',
         \A q \in Requests \ {r} : Open(q) => Apart(g, request[q]) /\ Apart(request[q], g),
         \A i \in Ids : Owner(i) # 0 => minted'[i] = minted[i],
         \A p \in Pages : /\ pages'[p].token = pages[p].token
                          /\ pages'[p].status = pages[p].status
                          /\ pages[p].attempted => pages'[p].attempted
  PROVE  Ties'
<1>1. /\ UNCHANGED <<accounts, users, tokens, mail, spentBy>>
      /\ faults > 0 => faults' > 0
      /\ pc'[r] = l /\ request'[r] = g
      /\ \A q \in Requests \ {r} : pc'[q] = pc[q] /\ request'[q] = request[q]
  BY Typed DEF Begins, Others
<1>2. RequestsApart'
  BY <1>1 DEF Ties, RequestsApart, Apart, Open
<1>3. RequestsLinked'
  <2> SUFFICES ASSUME NEW q \in Requests \ {r}, Open(q)
               PROVE  Linked(request[q])'
    BY <1>1 DEF RequestsLinked, Open, Linked
  <2>1. /\ request'[q] = request[q] /\ request[q].id \in Ids /\ Linked(request[q])
        /\ (request[q].op = "verify" => request[q].page \in Pages)
    BY <1>1, OpenFields DEF Ties, RequestsLinked
  <2>2. minted'[request[q].id] = minted[request[q].id]
    BY <2>1 DEF Linked
  <2>3. QED
    BY <1>1, <2>1, <2>2 DEF Linked, Owner, Key
<1>4. RowsOK'
  <2> SUFFICES ASSUME NEW i \in Ids
               PROVE  /\ i \in accounts <=> users[i] # "none"
                      /\ users[i] # "none" => minted'[i].user = i
                      /\ tokens[i] # "none" => /\ minted'[i].user # 0
                                              /\ users[minted'[i].user] # "none"
                      /\ mail[i] # "none" => tokens[i] # "none"
                      /\ tokens[i] \in {"expired", "deleted"} => spentBy[i] # {}
    BY <1>1 DEF RowsOK, Owner
  <2>1. i # 0
    BY DEF Ids
  <2>2. CASE Owner(i) = 0
    BY <2>1, <2>2 DEF Ties, RowsOK
  <2>3. CASE Owner(i) # 0
    BY <2>3 DEF Ties, RowsOK, Owner
  <2>4. QED
    BY <2>2, <2>3
<1>5. PagesOK'
  BY <1>1 DEF Ties, PagesOK
<1>6. QED
  BY <1>2, <1>3, <1>4, <1>5 DEF Ties

(* A new id has no rows. *)
LEMMA FreshId ==
  ASSUME EmailVerificationAssumption, Ties, NEW i \in Ids, Owner(i) = 0
  PROVE  /\ users[i] = "none" /\ tokens[i] = "none" /\ mail[i] = "none" /\ i # 0
         /\ \A q \in Requests : Open(q) => request[q].id # i
  BY DEF Ties, RowsOK, RequestsLinked, Linked, Ids, EmailVerificationAssumption

LEMMA SignsUpTies ==
  ASSUME EmailVerificationAssumption, IInv, Ties, NEW r \in Requests, NEW k \in Keys,
         NEW i \in Ids, SignsUp(r, k, i)
  PROVE  Ties'
<1> DEFINE g == Asked("signUp", k, i, None)
<1>1. /\ g.op = "signUp" /\ g.key = k /\ g.id = i /\ g.seen = {} /\ g.deletes = {} /\ ~g.aborted
  BY AskedFields
<1> HIDE DEF g
<1>2. /\ Begins(r, "saveAccount", g) /\ Owner(i) = 0 /\ pages' = pages
      /\ minted'[i] = [key |-> k, user |-> i]
      /\ \A j \in Ids \ {i} : minted'[j] = minted[j]
  BY DEF SignsUp, Mints, g
<1>3. UNCHANGED <<users, tokens, mail>>
  BY <1>2 DEF Begins
<1>4. Linked(g)'
  BY <1>1, <1>2, <1>3, FreshId DEF Linked, Owner, Key
<1>5. \A q \in Requests \ {r} : Open(q) => Apart(g, request[q]) /\ Apart(request[q], g)
  BY <1>1, <1>2, FreshId DEF Apart
<1>6. QED
  BY <1>2, <1>4, <1>5, BeginsTies

LEMMA ResendsTies ==
  ASSUME EmailVerificationAssumption, IInv, Ties, NEW r \in Requests, NEW u \in Ids,
         NEW i \in Ids, Resends(r, u, i)
  PROVE  Ties'
<1> DEFINE g == Asked("resend", None, i, None)
<1>1. /\ g.op = "resend" /\ g.id = i /\ g.seen = {} /\ g.deletes = {} /\ ~g.aborted
  BY AskedFields
<1> HIDE DEF g
<1>2. /\ Begins(r, "deleteAll", g) /\ Owner(i) = 0 /\ pages' = pages
      /\ minted'[i] = [key |-> Key(u), user |-> u]
      /\ \A j \in Ids \ {i} : minted'[j] = minted[j]
      /\ users[u] = "unverified" /\ u # 0
  BY DEF Resends, Mints, g, Ids
<1>3. UNCHANGED <<users, tokens, mail>>
  BY <1>2 DEF Begins
<1>4. Linked(g)'
  BY <1>1, <1>2, <1>3, FreshId DEF Linked, Owner, Key
<1>5. \A q \in Requests \ {r} : Open(q) => Apart(g, request[q]) /\ Apart(request[q], g)
  BY <1>1, <1>2, FreshId DEF Apart
<1>6. QED
  BY <1>2, <1>4, <1>5, BeginsTies

LEMMA VerifiesTies ==
  ASSUME EmailVerificationAssumption, IInv, Ties, NEW r \in Requests, NEW p \in Pages,
         Verifies(r, p)
  PROVE  Ties'
<1> SUFFICES ASSUME NEW i \in Ids, pages[p].token = i
             PROVE  Ties'
  BY Typed, AnId DEF PageState, Verifies
<1> DEFINE g == Asked("verify", None, i, p)
<1>1. /\ g.op = "verify" /\ g.id = i /\ g.page = p
      /\ g.seen = {} /\ g.deletes = {} /\ ~g.aborted
  BY AskedFields
<1> HIDE DEF g
<1>2. /\ Begins(r, "findToken", g) /\ minted' = minted
      /\ pages[p].token # 0 /\ ~pages[p].attempted
      /\ \A o \in Pages \ {p} : pages'[o] = pages[o]
      /\ pages'[p].attempted /\ pages'[p].token = pages[p].token
      /\ pages'[p].status = pages[p].status
  BY DEF Verifies, g
<1>3. UNCHANGED <<users, tokens, mail, spentBy>>
  BY <1>2 DEF Begins
<1>4. tokens[i] # "none" /\ Owner(i) # 0 /\ \A j \in Ids : p \notin spentBy[j]
  BY <1>2 DEF Ties, RowsOK, PagesOK
<1>5. Linked(g)'
  BY <1>1, <1>2, <1>3, <1>4 DEF Linked, Owner
<1>6. \A q \in Requests \ {r} : Open(q) => Apart(g, request[q]) /\ Apart(request[q], g)
  <2> SUFFICES ASSUME NEW q \in Requests \ {r}, Open(q)
               PROVE  Apart(g, request[q]) /\ Apart(request[q], g)
    OBVIOUS
  <2>1. request[q].op = "verify" => pages[request[q].page].attempted
    BY DEF Ties, RequestsLinked, Linked
  <2>2. request[q].op = "verify" => request[q].page # p
    BY <1>2, <2>1
  <2>3. QED
    BY <1>1, <2>2 DEF Apart
<1>7. QED
  BY <1>2, <1>5, <1>6, BeginsTies

(* COMMIT *)
LEMMA CommitsTies ==
  ASSUME EmailVerificationAssumption, IInv, Ties, NEW r \in Requests,
         NEW what \in {"ok", "error"}, Commits(r, what)
  PROVE  Ties'
<1> DEFINE g == request[r]
<1>1. /\ Open(r) /\ g.id \in Ids /\ Linked(g) /\ g.op \in {"signUp", "resend", "verify"}
      /\ g.op = "verify" => g.page \in Pages /\ g.deletes = {g.id}
      /\ g.op # "verify" => g.page = None
      /\ g.op = "signUp" => g.deletes = {}
      /\ g.deletes \in SUBSET Ids
  <2>1. Open(r) /\ ShapeAt("commit", g)
    BY DEF Commits, Open, IInv, Shape
  <2>2. QED
    BY <2>1, OpenFields DEF Ties, RequestsLinked, ShapeAt
<1> DEFINE owner == Owner(g.id)
<1>2. owner \in Ids /\ (g.op = "signUp" => owner = g.id)
  BY <1>1, OwnersAreIds DEF Linked
<1>3. /\ Ends(r) /\ Hears(r, what) /\ minted' = minted
      /\ accounts' = IF g.op = "signUp" THEN accounts \cup {g.id} ELSE accounts
      /\ \A i \in Ids : mail'[i] = mail[i] \/ (g.op # "verify" /\ i = g.id)
  BY DEF Commits, Stored
<1>4. \A i \in Ids :
        /\ users'[i] = IF g.op = "signUp" /\ i = g.id THEN "unverified"
                       ELSE IF g.op = "verify" /\ i = owner THEN "verified" ELSE users[i]
        /\ tokens'[i] = IF i \in g.deletes THEN "deleted"
                        ELSE IF i = g.id /\ g.op # "verify" THEN "valid" ELSE tokens[i]
        /\ spentBy'[i] = IF i \in g.deletes THEN spentBy[i] \cup {g.page} ELSE spentBy[i]
  BY DEF Commits, Stored
<1>5. faults > 0 => faults' > 0
  BY Typed DEF Commits
<1>6. /\ g.op = "signUp" => users[g.id] = "none"
      /\ g.op = "resend" => users[owner] # "none"
      /\ g.op # "verify" => tokens[g.id] = "none" /\ mail[g.id] = "none"
      /\ \A i \in g.deletes : tokens[i] # "none"
      /\ g.op = "verify" => /\ tokens[g.id] # "none" /\ users[owner] # "none"
                            /\ pages[g.page].token = g.id /\ pages[g.page].attempted
  BY <1>1 DEF Linked, Ties, RowsOK
<1>7. \A q \in Requests \ {r} : Open(q) =>
        /\ request'[q] = request[q] /\ pc'[q] = pc[q] /\ Linked(request[q])
        /\ Apart(request[q], g)
  BY <1>1, <1>3 DEF Ends, Others, Ties, RequestsLinked, RequestsApart
<1>8. pc'[r] = "idle" /\ \A q \in Requests \ {r} : pc'[q] = pc[q]
  BY <1>3 DEF Ends, Others
<1>9. RequestsApart'
  BY <1>3, EndsApart DEF Ties
<1>10. \A p \in Pages : pages'[p].token = pages[p].token /\ pages'[p].attempted = pages[p].attempted
  BY <1>3 DEF Hears
<1> HIDE DEF g, owner
<1>11. \A i \in Ids : /\ users[i] # "none" => users'[i] # "none"
                      /\ tokens[i] # "none" => tokens'[i] # "none"
  BY <1>4
<1>12. ASSUME NEW i \in Ids, NEW x, x \in spentBy'[i]
      PROVE  x \in spentBy[i] \/ x = g.page
  <2>1. CASE i \in g.deletes
    <3>1. spentBy'[i] = spentBy[i] \cup {g.page}
      BY <1>4, <2>1
    <3>2. QED
      BY <1>12, <3>1
  <2>2. CASE i \notin g.deletes
    <3>1. spentBy'[i] = spentBy[i]
      BY <1>4, <2>2
    <3>2. QED
      BY <1>12, <3>1
  <2>3. QED
    BY <2>1, <2>2
<1>13. RequestsLinked'
  <2> SUFFICES ASSUME NEW q \in Requests \ {r}, Open(q)
               PROVE  Linked(request[q])'
    BY <1>8 DEF RequestsLinked, Open
  <2>1. /\ request'[q] = request[q] /\ Linked(request[q]) /\ Apart(request[q], g)
        /\ request[q].id \in Ids
        /\ request[q].seen \in SUBSET Ids /\ request[q].deletes \in SUBSET Ids
        /\ (request[q].op = "verify" => request[q].page \in Pages)
        /\ Owner(request[q].id) \in Ids
    BY <1>7, OpenFields, OwnersAreIds DEF Linked
  <2> DEFINE h == request[q]
  <2>2. h.op = "signUp" => users'[h.id] = "none"
    BY <1>2, <1>4, <1>6, <2>1 DEF Linked, Apart
  <2>3. h.op # "verify" => tokens'[h.id] = "none" /\ mail'[h.id] = "none"
    BY <1>3, <1>4, <1>6, <2>1 DEF Linked, Apart
  <2>4. \A i \in Ids : h.op = "verify" => h.page \notin spentBy'[i]
    <3>1. h.op = "verify" => h.page # g.page
      BY <1>1, <2>1 DEF Apart, EmailVerificationAssumption
    <3>2. \A i \in Ids : h.op = "verify" => h.page \notin spentBy[i]
      BY <2>1 DEF Linked
    <3>3. QED
      BY <1>12, <3>1, <3>2
  <2>5. QED
    BY <1>3, <1>5, <1>10, <1>11, <2>1, <2>2, <2>3, <2>4 DEF Linked, Owner, Key
<1>14. RowsOK'
  <2> SUFFICES ASSUME NEW i \in Ids
               PROVE  /\ i \in accounts' <=> users'[i] # "none"
                      /\ users'[i] # "none" => Owner(i) = i
                      /\ tokens'[i] # "none" => Owner(i) # 0 /\ users'[Owner(i)] # "none"
                      /\ mail'[i] # "none" => tokens'[i] # "none"
                      /\ tokens'[i] \in {"expired", "deleted"} => spentBy'[i] # {}
    BY <1>3 DEF RowsOK, Owner
  <2>1. /\ i \in accounts <=> users[i] # "none"
        /\ users[i] # "none" => Owner(i) = i
        /\ tokens[i] # "none" => Owner(i) # 0 /\ users[Owner(i)] # "none"
        /\ mail[i] # "none" => tokens[i] # "none"
        /\ tokens[i] \in {"expired", "deleted"} => spentBy[i] # {}
        /\ Owner(i) # 0 => Owner(i) \in Ids
    BY OwnersAreIds DEF Ties, RowsOK
  <2>2. i \in accounts' <=> users'[i] # "none"
    BY <1>2, <1>3, <1>4, <1>6, <2>1
  <2>3. users'[i] # "none" => Owner(i) = i
    BY <1>2, <1>4, <1>6, <2>1 DEF owner
  <2>4. tokens'[i] # "none" => Owner(i) # 0 /\ users'[Owner(i)] # "none"
    <3>1. CASE tokens[i] # "none"
      BY <1>11, <2>1, <3>1
    <3>2. CASE tokens[i] = "none" /\ tokens'[i] # "none"
      <4>1. i = g.id /\ g.op # "verify"
        BY <1>4, <1>6, <3>2
      <4>2. Owner(i) = owner /\ users'[owner] # "none"
        BY <1>1, <1>2, <1>4, <1>11, <1>6, <4>1 DEF owner
      <4>3. QED
        BY <1>2, <4>2 DEF Ids
    <3>3. QED
      BY <3>1, <3>2
  <2>5. mail'[i] # "none" => tokens'[i] # "none"
    BY <1>3, <1>4, <1>11, <2>1
  <2>6. tokens'[i] \in {"expired", "deleted"} => spentBy'[i] # {}
    BY <1>4, <2>1
  <2>7. QED
    BY <2>2, <2>3, <2>4, <2>5, <2>6
<1>15. PagesOK'
  <2> SUFFICES ASSUME NEW p \in Pages
               PROVE  /\ pages'[p].token # 0 => tokens'[pages'[p].token] # "none"
                      /\ pages'[p].status # "idle" => pages'[p].token # 0
                      /\ \A i \in Ids : p \in spentBy'[i] => pages'[p].attempted
    BY DEF PagesOK
  <2>1. pages'[p].token = pages[p].token /\ pages'[p].attempted = pages[p].attempted
    BY <1>10
  <2>2. pages[p].token # 0 => pages[p].token \in Ids
    BY Typed, AnId DEF PageState
  <2>3. pages'[p].token # 0 => tokens'[pages'[p].token] # "none"
    BY <1>11, <2>1, <2>2 DEF Ties, PagesOK
  <2>4. pages'[p].status # "idle" => pages'[p].token # 0
    <3>1. g.op = "verify" /\ p = g.page => pages[p].token # 0
      BY <1>1, <1>6 DEF Ids
    <3>2. QED
      BY <1>3, <2>1, <3>1 DEF Hears, Ties, PagesOK, g
  <2>5. \A i \in Ids : p \in spentBy'[i] => pages'[p].attempted
    <3>1. p = g.page => pages[p].attempted
      BY <1>1, <1>6 DEF EmailVerificationAssumption
    <3>2. \A i \in Ids : p \in spentBy[i] => pages[p].attempted
      BY DEF Ties, PagesOK
    <3>3. \A i \in Ids : p \in spentBy'[i] => p \in spentBy[i] \/ p = g.page
      BY <1>12
    <3>4. QED
      BY <2>1, <3>1, <3>2, <3>3
  <2>6. QED
    BY <2>3, <2>4, <2>5
<1>16. QED
  BY <1>9, <1>13, <1>14, <1>15 DEF Ties

LEMMA KindsTies ==
  ASSUME EmailVerificationAssumption, IInv, Ties, Kinds
  PROVE  Ties'
  BY WorksTies, FailsTies, CommitsTies, SignsUpTies, ResendsTies, VerifiesTies, AsideTies
     DEF Kinds

LEMMA InitTies ==
  ASSUME EmailVerificationAssumption, Init
  PROVE  Ties
  BY DEF Init, Ties, RequestsLinked, RequestsApart, RowsOK, PagesOK, Open, Ids

(* In every reachable state the locals are typed, each request has written
   what its statement says, and requests and rows are tied.                *)
THEOREM EmailInvariant == Spec => [](IInv /\ Ties)
<1>1. Init => IInv /\ Ties
  BY EmailVerificationAssumption, InitTyped, InitTies
<1>2. IInv /\ Ties /\ [Next]_vars => (IInv /\ Ties)'
  BY EmailVerificationAssumption, StepKinds, KindsTyped, KindsTies
<1>3. QED
  BY <1>1, <1>2, PTL DEF Spec

(* NoHalfAccount: a committed account has its user and a user its account,
   though a failed INSERT of either may be swallowed and the handler goes on. *)
THEOREM AccountsComeWithUsers == Spec => []NoHalfAccount
<1>1. Ties => NoHalfAccount
  BY DEF Ties, RowsOK, NoHalfAccount
<1>2. QED
  BY <1>1, EmailInvariant, PTL

(* MailedUserExists: an email that was published, or has arrived, belongs to a
   stored user and a stored token.                                          *)
THEOREM MailFollowsCommit == Spec => []MailedUserExists
<1>1. Ties => MailedUserExists
  BY DEF Ties, RowsOK, MailedUserExists
<1>2. QED
  BY <1>1, EmailInvariant, PTL
-----------------------------------------------------------------------------
(* Answers *)

(* A key in the cache has its account: the interceptor stores it only after
   the COMMIT was heard of.                                                 *)
Remembers == \A k \in Keys : k \in remembered => \E i \in accounts : Key(i) = k

(* What no step takes back. *)
LEMMA RowsStay ==
  ASSUME EmailVerificationAssumption, IInv, Ties, Kinds
  PROVE  /\ \A i \in Ids : Owner(i) # 0 => minted'[i] = minted[i]
         /\ accounts \subseteq accounts'
         /\ \A i \in accounts : i \in Ids /\ minted'[i] = minted[i]
         /\ \A i \in Ids : users[i] = "verified" => users'[i] = "verified"
<1>1. \A i \in accounts : i \in Ids /\ Owner(i) # 0
  <2>1. \A i \in accounts : i \in Ids /\ users[i] # "none" /\ i # 0
    BY Typed DEF Ties, RowsOK, Ids
  <2>2. QED
    BY <2>1 DEF Ties, RowsOK
<1>2. \A i \in Ids : Owner(i) # 0 => minted'[i] = minted[i]
  BY DEF Kinds, Works, outside, tables, Fails, Throw, Commits, Stored, SignsUp, Resends,
         Mints, Verifies, Aside
<1>3. accounts \subseteq accounts'
  <2>1. ASSUME NEW r \in Requests, NEW what \in {"ok", "error"}, Commits(r, what)
        PROVE  accounts \subseteq accounts'
    BY <2>1 DEF Commits, Stored
  <2>2. CASE UNCHANGED accounts
    BY <2>2
  <2>3. QED
    BY <2>1, <2>2 DEF Kinds, Works, outside, tables, Fails, Throw, SignsUp, Resends,
         Begins, Verifies, Aside
<1>4. \A i \in Ids : users[i] = "verified" => users'[i] = "verified"
  <2>1. ASSUME NEW r \in Requests, NEW what \in {"ok", "error"}, Commits(r, what)
        PROVE  \A i \in Ids : users[i] = "verified" => users'[i] = "verified"
    <3>1. Linked(request[r])
      BY <2>1 DEF Commits, Ends, Ties, RequestsLinked
    <3>2. request[r].op = "signUp" => users[request[r].id] = "none"
      BY <3>1 DEF Linked
    <3>3. \A i \in Ids : users'[i] =
             IF request[r].op = "signUp" /\ i = request[r].id THEN "unverified"
             ELSE IF request[r].op = "verify" /\ i = Owner(request[r].id)
             THEN "verified" ELSE users[i]
      BY <2>1 DEF Commits, Stored
    <3>4. QED
      BY <3>2, <3>3
  <2>2. CASE UNCHANGED users
    BY <2>2
  <2>3. QED
    BY <2>1, <2>2 DEF Kinds, Works, outside, tables, Fails, Throw, SignsUp, Resends,
         Begins, Verifies, Aside
<1>5. QED
  BY <1>1, <1>2, <1>3, <1>4

(* A sign-up's COMMIT gives its key an account; a verification's, its user
   the mark.                                                               *)
LEMMA CommitKeeps ==
  ASSUME EmailVerificationAssumption, IInv, Ties, NEW r \in Requests,
         NEW what \in {"ok", "error"}, Commits(r, what)
  PROVE  /\ request[r].op = "signUp" =>
              /\ request[r].id \in accounts'
              /\ minted'[request[r].id].key = request[r].key
         /\ request[r].op = "verify" =>
              users'[minted'[pages[request[r].page].token].user] = "verified"
<1>1. /\ Open(r) /\ Linked(request[r]) /\ request[r].id \in Ids
  BY OpenFields DEF Commits, Ends, Ties, RequestsLinked
<1>2. /\ request[r].op = "signUp" => Key(request[r].id) = request[r].key
      /\ request[r].op = "verify" => pages[request[r].page].token = request[r].id
      /\ Owner(request[r].id) \in Ids
  BY <1>1, OwnersAreIds DEF Linked
<1>3. /\ minted' = minted
      /\ request[r].op = "signUp" => accounts' = accounts \cup {request[r].id}
      /\ request[r].op = "verify" => users'[Owner(request[r].id)] = "verified"
  BY <1>2 DEF Commits, Stored
<1>4. QED
  BY <1>2, <1>3 DEF Owner, Key

(* What is new in the cache, in an answer and on a page. *)
LEMMA NewlyRemembered ==
  ASSUME EmailVerificationAssumption, IInv, Ties, Kinds, NEW k \in Keys, k \in remembered',
         k \notin remembered
  PROVE  \E i \in accounts' : minted'[i].key = k
<1>1. PICK r \in Requests, what \in {"ok", "error"} :
         Commits(r, what) /\ request[r].op = "signUp" /\ k = request[r].key
  BY DEF Kinds, Works, outside, Fails, Throw, Commits, SignsUp, Resends, Begins,
         Verifies, Aside
<1>2. QED
  BY <1>1, CommitKeeps

LEMMA NewlyTold ==
  ASSUME EmailVerificationAssumption, IInv, Ties, Remembers, Kinds, NEW k \in Keys,
         NEW what, what \in told'[k], what \notin told[k]
  PROVE  /\ what = "ok" => \E i \in accounts' : minted'[i].key = k
         /\ what = "exists" =>
              \E i \in accounts : Body[Key(i)].username = Body[k].username
<1>1. ASSUME NEW r \in Requests, NEW w \in {"exists", "error"}, Fails(r, w)
      PROVE  /\ what = "ok" => \E i \in accounts' : minted'[i].key = k
             /\ what = "exists" =>
                  \E i \in accounts : Body[Key(i)].username = Body[k].username
  <2>1. Ends(r) /\ Hears(r, w)
    BY <1>1, FailsHears
  <2>2. /\ request[r].op = "signUp" /\ k = request[r].key
        /\ told'[k] = told[k] \cup ({w} \ {"error"})
    BY <2>1 DEF Hears
  <2>3. what = w /\ w = "exists"
    BY <2>2
  <2>4. Key(request[r].id) = k
    BY <2>1, <2>2 DEF Ends, Ties, RequestsLinked, Linked
  <2>5. QED
    BY <1>1, <2>3, <2>4 DEF Fails
<1>2. ASSUME NEW r \in Requests, NEW w \in {"ok", "error"}, Commits(r, w)
      PROVE  /\ what = "ok" => \E i \in accounts' : minted'[i].key = k
             /\ what = "exists" =>
                  \E i \in accounts : Body[Key(i)].username = Body[k].username
  <2>1. /\ request[r].op = "signUp" /\ k = request[r].key
        /\ told'[k] = told[k] \cup ({w} \ {"error"})
    BY <1>2 DEF Commits, Hears
  <2>2. what = "ok"
    BY <2>1
  <2>3. QED
    BY <1>2, <2>1, <2>2, CommitKeeps
<1>3. CASE Aside
  <2>1. k \in remembered /\ told'[k] = told[k] \cup {"ok"}
    BY <1>3 DEF Aside
  <2>2. what = "ok" /\ \E i \in accounts : Key(i) = k
    BY <2>1 DEF Remembers
  <2>3. QED
    BY <2>2, RowsStay DEF Key
<1>4. CASE UNCHANGED told
  BY <1>4
<1>5. QED
  BY <1>1, <1>2, <1>3, <1>4 DEF Kinds, Works, outside, SignsUp, Resends, Begins, Verifies

LEMMA VerifiedPages ==
  ASSUME EmailVerificationAssumption, IInv, Ties, Kinds, NEW p \in Pages,
         pages'[p].status = "verified",
         pages[p].status = "verified" => users[Owner(pages[p].token)] = "verified"
  PROVE  users'[minted'[pages'[p].token].user] = "verified"
<1>1. ASSUME pages'[p].status = pages[p].status, pages'[p].token = pages[p].token
      PROVE  users'[minted'[pages'[p].token].user] = "verified"
  <2>1. pages[p].token \in Ids
    BY <1>1, Typed, AnId DEF PageState, Ties, PagesOK
  <2>2. Owner(pages[p].token) # 0 /\ Owner(pages[p].token) \in Ids
    BY <1>1, <2>1, OwnersAreIds DEF Ties, PagesOK, RowsOK, Ids
  <2>3. minted'[pages[p].token] = minted[pages[p].token]
    BY <2>1, <2>2, RowsStay
  <2>4. QED
    BY <1>1, <2>2, <2>3, RowsStay DEF Owner
<1>2. ASSUME NEW r \in Requests, NEW w \in {"exists", "error"}, Fails(r, w)
      PROVE  users'[minted'[pages'[p].token].user] = "verified"
  <2>1. Hears(r, w)
    BY <1>2, FailsHears
  <2>2. QED
    BY <1>1, <2>1 DEF Hears
<1>3. ASSUME NEW r \in Requests, NEW w \in {"ok", "error"}, Commits(r, w)
      PROVE  users'[minted'[pages'[p].token].user] = "verified"
  <2>1. /\ pages'[p].token = pages[p].token
        /\ \/ pages'[p].status = pages[p].status
           \/ request[r].op = "verify" /\ p = request[r].page
    BY <1>3 DEF Commits, Hears
  <2>2. QED
    BY <1>1, <1>3, <2>1, CommitKeeps
<1>4. CASE Aside
  BY <1>1, <1>4 DEF Aside
<1>5. CASE \E r \in Requests, o \in Pages : Verifies(r, o)
  BY <1>1, <1>5 DEF Verifies
<1>6. CASE UNCHANGED pages
  BY <1>1, <1>6
<1>7. QED
  BY <1>2, <1>3, <1>4, <1>5, <1>6 DEF Kinds, Works, outside, SignsUp, Resends

LEMMA KindsAnswers ==
  ASSUME EmailVerificationAssumption, IInv, Ties, Remembers, AnswersAreTrue, Kinds
  PROVE  Remembers' /\ AnswersAreTrue'
<1>1. /\ accounts \subseteq accounts'
      /\ \A i \in accounts : minted'[i].key = Key(i)
  BY RowsStay DEF Key
<1>2. \A k \in Keys : k \in remembered' => \E i \in accounts' : minted'[i].key = k
  BY <1>1, NewlyRemembered DEF Remembers
<1>3. \A k \in Keys : "ok" \in told'[k] => \E i \in accounts' : minted'[i].key = k
  BY <1>1, NewlyTold DEF AnswersAreTrue
<1>4. \A k \in Keys : "exists" \in told'[k] =>
         \E i \in accounts' : Body[minted'[i].key].username = Body[k].username
  <2>1. \A k \in Keys : "exists" \in told'[k] =>
           \E i \in accounts : Body[Key(i)].username = Body[k].username
    BY NewlyTold DEF AnswersAreTrue
  <2>2. QED
    BY <1>1, <2>1
<1>5. \A p \in Pages : pages'[p].status = "verified" =>
         users'[minted'[pages'[p].token].user] = "verified"
  BY VerifiedPages DEF AnswersAreTrue
<1>6. QED
  BY <1>2, <1>3, <1>4, <1>5 DEF Remembers, AnswersAreTrue, Key, Owner

(* AnswersAreTrue: who read success, from the handler or from the cache, has an
   account; who was told that the username exists was told so of a stored one;
   a page that shows "verified" belongs to a verified user.                  *)
THEOREM AnswersRestOnRows == Spec => []AnswersAreTrue
<1>1. Init => Remembers /\ AnswersAreTrue
  BY DEF Init, Remembers, AnswersAreTrue
<1>2. IInv /\ Ties /\ Remembers /\ AnswersAreTrue /\ [Next]_vars
        => (Remembers /\ AnswersAreTrue)'
  BY EmailVerificationAssumption, StepKinds, KindsAnswers
<1>3. QED
  BY <1>1, <1>2, EmailInvariant, PTL DEF Spec
-----------------------------------------------------------------------------
(* Links *)

(* Failures and the pages that took a token away are never forgotten. *)
LEMMA HistoryGrows ==
  ASSUME EmailVerificationAssumption, IInv, Kinds
  PROVE  /\ faults > 0 => faults' > 0
         /\ \A i \in Ids : spentBy[i] \subseteq spentBy'[i]
<1>1. faults' \in {faults, faults + 1}
  BY DEF Kinds, Works, Fails, Commits, SignsUp, Resends, Begins, Verifies, Aside
<1>2. faults > 0 => faults' > 0
  BY <1>1, Typed
<1>3. ASSUME NEW r \in Requests, NEW what \in {"ok", "error"}, Commits(r, what),
             NEW i \in Ids
      PROVE  spentBy[i] \subseteq spentBy'[i]
  <2>1. spentBy'[i] = IF i \in request[r].deletes THEN spentBy[i] \cup {request[r].page}
                      ELSE spentBy[i]
    BY <1>3 DEF Commits, Stored
  <2>2. CASE i \in request[r].deletes
    BY <2>1, <2>2
  <2>3. CASE i \notin request[r].deletes
    BY <2>1, <2>3
  <2>4. QED
    BY <2>2, <2>3
<1>4. CASE UNCHANGED spentBy
  BY <1>2, <1>4
<1>5. CASE Aside
  BY <1>2, <1>5 DEF Aside
<1>6. QED
  BY <1>2, <1>3, <1>4, <1>5
     DEF Kinds, Works, outside, Fails, Throw, SignsUp, Resends, Begins, Verifies

(* A page whose link failed has a failure, or another's visit, to blame. *)
LEMMA FailedPages ==
  ASSUME EmailVerificationAssumption, IInv, Ties, Kinds, NEW p \in Pages,
         pages'[p].status = "failed",
         pages[p].status = "failed" => faults > 0 \/ spentBy[pages[p].token] \ {p} # {}
  PROVE  faults' > 0 \/ spentBy'[pages'[p].token] \ {p} # {}
<1>1. ASSUME pages'[p].status = pages[p].status, pages'[p].token = pages[p].token
      PROVE  faults' > 0 \/ spentBy'[pages'[p].token] \ {p} # {}
  <2>1. pages[p].token \in Ids
    BY <1>1, Typed, AnId DEF PageState, Ties, PagesOK
  <2>2. QED
    BY <1>1, <2>1, HistoryGrows
<1>2. ASSUME NEW r \in Requests, NEW w \in {"exists", "error"}, Fails(r, w)
      PROVE  faults' > 0 \/ spentBy'[pages'[p].token] \ {p} # {}
  <2>1. Hears(r, w) /\ Open(r)
    BY <1>2, FailsHears DEF Fails
  <2>2. CASE pages'[p].status = pages[p].status
    BY <1>1, <2>1, <2>2 DEF Hears
  <2>3. CASE request[r].op = "verify" /\ p = request[r].page
    <3>1. /\ request[r].id \in Ids /\ pages[p].token = request[r].id
          /\ request[r].aborted => faults > 0
          /\ tokens[request[r].id] # "none"
      BY <2>1, <2>3, OpenFields DEF Ties, RequestsLinked, Linked
    <3>2. \A i \in Ids : p \notin spentBy[i]
      BY <2>1, <2>3 DEF Ties, RequestsLinked, Linked
    <3>3. CASE faults' > 0 \/ request[r].aborted
      BY <3>1, <3>3, HistoryGrows
    <3>4. CASE tokens[request[r].id] # "valid"
      <4>1. tokens[request[r].id] \in {"expired", "deleted"}
        BY <3>1, <3>4, Typed
      <4>2. spentBy[request[r].id] \ {p} # {}
        BY <3>1, <3>2, <4>1 DEF Ties, RowsOK
      <4>3. pages'[p].token = request[r].id
        BY <2>1, <3>1 DEF Hears
      <4>4. QED
        BY <3>1, <4>2, <4>3, HistoryGrows
    <3>5. QED
      BY <1>2, <2>3, <3>3, <3>4 DEF Fails
  <2>4. QED
    BY <2>1, <2>2, <2>3 DEF Hears
<1>3. ASSUME NEW r \in Requests, NEW w \in {"ok", "error"}, Commits(r, w)
      PROVE  faults' > 0 \/ spentBy'[pages'[p].token] \ {p} # {}
  <2>1. Hears(r, w) /\ (w = "error" => faults' > 0)
    BY <1>3 DEF Commits
  <2>2. CASE pages'[p].status = pages[p].status
    BY <1>1, <2>1, <2>2 DEF Hears
  <2>3. QED
    BY <2>1, <2>2 DEF Hears
<1>4. CASE Aside
  BY <1>1, <1>4 DEF Aside
<1>5. CASE \E r \in Requests, o \in Pages : Verifies(r, o)
  BY <1>1, <1>5 DEF Verifies
<1>6. CASE UNCHANGED pages
  BY <1>1, <1>6
<1>7. QED
  BY <1>2, <1>3, <1>4, <1>5, <1>6 DEF Kinds, Works, outside, SignsUp, Resends

(* FreshLinkWorks: as long as nothing fails, a link fails only because its
   token ran out, was replaced or was spent by another visit; StrictMode's
   second run of the effect never spoils the page's own request.            *)
THEOREM OwnVisitNeverSpoils == Spec => []FreshLinkWorks
<1>1. Init => FreshLinkWorks
  BY DEF Init, FreshLinkWorks
<1>2. IInv /\ Ties /\ FreshLinkWorks /\ [Next]_vars => FreshLinkWorks'
  BY EmailVerificationAssumption, StepKinds, FailedPages DEF FreshLinkWorks
<1>3. QED
  BY <1>1, <1>2, EmailInvariant, PTL DEF Spec
-----------------------------------------------------------------------------
(* Stray tokens *)

(* Requests in progress together have met. *)
AllMet ==
    \A r, q \in Requests :
        Open(r) /\ Open(q) /\ r # q => {request[r].id, request[q].id} \in met

(* j is another valid token of the user of i. *)
Rival(i, j) == tokens[j] = "valid" /\ Owner(j) = Owner(i) /\ j # i

(* A request deletes each rival of its token, or met its maker: at every
   statement from the one that looked for them.                             *)
Cleared(r) ==
    /\ pc[r] = "lockAll" =>
         \A j \in Ids : Rival(request[r].id, j) =>
             j \in request[r].seen \/ {request[r].id, j} \in met
    /\ pc[r] \in {"saveToken", "commit"} =>
         \A j \in Ids : Rival(request[r].id, j) =>
             j \in request[r].deletes \/ {request[r].id, j} \in met
    /\ pc[r] \in {"saveVerified", "deleteToken"} =>
         \A j \in Ids : Rival(request[r].id, j) => {request[r].id, j} \in met
    /\ request[r].op = "resend" /\ users[Owner(request[r].id)] = "verified" =>
         \E j \in Ids : /\ j # request[r].id /\ Owner(j) = Owner(request[r].id)
                       /\ {request[r].id, j} \in met

RivalsMet == \A r \in Requests : Open(r) => Cleared(r)

Overlaps == AllMet /\ RivalsMet /\ StrayTokensOverlap

LEMMA MetGrows ==
  ASSUME Kinds
  PROVE  met \subseteq met'
  BY DEF Kinds, Works, outside, Fails, Throw, Commits, SignsUp, Resends, Begins, Verifies,
         Aside

(* Where the requests of a step come from. *)
LEMMA MeetKept ==
  ASSUME EmailVerificationAssumption, IInv, Ties, AllMet, Kinds
  PROVE  AllMet'
<1>1. \A p, q \in Requests : Open(p) /\ Open(q) /\ p # q =>
         {request[p].id, request[q].id} \in met'
  BY MetGrows DEF AllMet
<1>2. ASSUME NEW r \in Requests, Works(r)
      PROVE  AllMet'
  <2>1. /\ Open(r) /\ request'[r].id = request[r].id
        /\ \A q \in Requests \ {r} : pc'[q] = pc[q] /\ request'[q] = request[q]
    BY <1>2 DEF Works, Onward, Open, Others
  <2>2. QED
    BY <1>1, <2>1 DEF AllMet, Open
<1>3. ASSUME NEW r \in Requests, Ends(r)
      PROVE  AllMet'
  BY <1>1, <1>3 DEF Ends, Others, AllMet, Open
<1>4. ASSUME NEW r \in Requests, NEW l, NEW g, Begins(r, l, g)
      PROVE  AllMet'
  <2>1. /\ request'[r] = g
        /\ \A q \in Requests \ {r} : pc'[q] = pc[q] /\ request'[q] = request[q]
        /\ \A q \in Requests \ {r} : Open(q) => {g.id, request[q].id} \in met'
    BY <1>4 DEF Begins, Others
  <2>2. \A q \in Requests \ {r} : Open(q) => {request[q].id, g.id} \in met'
    <3>1. \A q \in Requests : {request[q].id, g.id} = {g.id, request[q].id}
      OBVIOUS
    <3>2. QED
      BY <2>1, <3>1
  <2>3. QED
    BY <1>1, <2>1, <2>2 DEF AllMet, Open
<1>5. CASE Aside
  BY <1>1, <1>5 DEF Aside, AllMet, Open
<1>6. QED
  BY <1>2, <1>3, <1>4, <1>5, FailsHears DEF Kinds, Commits, SignsUp, Resends, Verifies

(* A rival is an old one, or a COMMIT's. *)
LEMMA RivalsFrom ==
  ASSUME EmailVerificationAssumption, IInv, Ties, Kinds, NEW i \in Ids, NEW j \in Ids,
         Owner(i) # 0, tokens'[j] = "valid", minted'[j].user = minted'[i].user, j # i
  PROVE  \/ Rival(i, j)
         \/ \E r \in Requests, what \in {"ok", "error"} :
              Commits(r, what) /\ request[r].op # "verify" /\ j = request[r].id
<1>1. minted'[i] = minted[i]
  BY RowsStay
<1>2. CASE tokens[j] = "valid"
  <2>1. Owner(j) # 0
    BY <1>2 DEF Ties, RowsOK
  <2>2. minted'[j] = minted[j]
    BY <2>1, RowsStay
  <2>3. QED
    BY <1>1, <1>2, <2>2 DEF Rival, Owner
<1>3. CASE tokens[j] # "valid"
  <2>1. ASSUME NEW r \in Requests, NEW what \in {"ok", "error"}, Commits(r, what)
        PROVE  request[r].op # "verify" /\ j = request[r].id
    BY <1>3, <2>1 DEF Commits, Stored
  <2>2. ~Aside
    BY <1>3 DEF Aside
  <2>3. tokens' # tokens
    BY <1>3
  <2>4. QED
    BY <2>1, <2>2, <2>3 DEF Kinds, Works, outside, tables, Fails, Throw, SignsUp,
       Resends, Begins, Verifies
<1>4. QED
  BY <1>2, <1>3

(* A request that does not move still knows its rivals. *)
LEMMA ClearedStays ==
  ASSUME EmailVerificationAssumption, IInv, Ties, AllMet, RivalsMet, Kinds,
         NEW q \in Requests, Open(q), pc'[q] = pc[q], request'[q] = request[q]
  PROVE  Cleared(q)'
<1> DEFINE g == request[q]
<1>1. /\ g.id \in Ids /\ Owner(g.id) # 0 /\ Cleared(q) /\ met \subseteq met'
      /\ minted'[g.id] = minted[g.id] /\ Owner(g.id) \in Ids
  BY OpenFields, RowsStay, MetGrows, OwnersAreIds DEF Ties, RequestsLinked, Linked, RivalsMet
<1>2. ASSUME NEW r \in Requests, NEW what \in {"ok", "error"}, Commits(r, what)
      PROVE  {g.id, request[r].id} \in met' /\ Open(r) /\ r # q
  <2>1. Open(r) /\ r # q
    BY <1>2 DEF Commits, Ends, Open
  <2>2. QED
    BY <1>1, <2>1 DEF AllMet
<1>3. ASSUME NEW j \in Ids, tokens'[j] = "valid", minted'[j].user = minted'[g.id].user,
             j # g.id
      PROVE  Rival(g.id, j) \/ {g.id, j} \in met'
  BY <1>1, <1>2, <1>3, RivalsFrom
<1>4. ASSUME g.op = "resend", users'[Owner(g.id)] = "verified"
      PROVE  \E j \in Ids : /\ j # g.id /\ minted'[j].user = minted'[g.id].user
                            /\ {g.id, j} \in met'
  <2>1. CASE users[Owner(g.id)] = "verified"
    <3>1. PICK j \in Ids : j # g.id /\ Owner(j) = Owner(g.id) /\ {g.id, j} \in met
      BY <1>1, <1>4, <2>1 DEF Cleared
    <3>2. minted'[j] = minted[j]
      BY <1>1, <3>1, RowsStay
    <3>3. QED
      BY <1>1, <3>1, <3>2 DEF Owner
  <2>2. CASE users[Owner(g.id)] # "verified"
    <3>1. users' # users /\ ~Aside
      BY <1>4, <2>2 DEF Aside
    <3>2. PICK r \in Requests, what \in {"ok", "error"} : Commits(r, what)
      BY <3>1 DEF Kinds, Works, outside, tables, Fails, Throw, SignsUp, Resends, Begins,
         Verifies
    <3>3. request[r].op = "verify" /\ Owner(g.id) = Owner(request[r].id) /\ minted' = minted
      BY <1>1, <1>4, <2>2, <3>2 DEF Commits, Stored
    <3>4. Open(r) /\ {g.id, request[r].id} \in met'
      BY <1>2, <3>2
    <3>5. tokens[request[r].id] # "none" /\ tokens[g.id] = "none" /\ request[r].id \in Ids
      BY <1>4, <3>3, <3>4, OpenFields DEF Ties, RequestsLinked, Linked
    <3>6. QED
      BY <3>3, <3>4, <3>5 DEF Owner
  <2>3. QED
    BY <2>1, <2>2
<1>5. \A j \in Ids : tokens'[j] = "valid" /\ minted'[j].user = minted'[g.id].user /\ j # g.id
         => Rival(g.id, j) \/ {g.id, j} \in met'
  BY <1>3
<1>6. pc[q] = "lockAll" =>
        \A j \in Ids : tokens'[j] = "valid" /\ minted'[j].user = minted'[g.id].user /\ j # g.id
          => j \in g.seen \/ {g.id, j} \in met'
  BY <1>1, <1>5 DEF Cleared
<1>7. pc[q] \in {"saveToken", "commit"} =>
        \A j \in Ids : tokens'[j] = "valid" /\ minted'[j].user = minted'[g.id].user /\ j # g.id
          => j \in g.deletes \/ {g.id, j} \in met'
  BY <1>1, <1>5 DEF Cleared
<1>8. pc[q] \in {"saveVerified", "deleteToken"} =>
        \A j \in Ids : tokens'[j] = "valid" /\ minted'[j].user = minted'[g.id].user /\ j # g.id
          => {g.id, j} \in met'
  BY <1>1, <1>5 DEF Cleared
<1>9. QED
  BY <1>1, <1>4, <1>6, <1>7, <1>8 DEF Cleared, Rival, Owner
(* A request that goes on knows its rivals at its next statement. *)
LEMMA WorksCleared ==
  ASSUME EmailVerificationAssumption, IInv, Ties, RivalsMet, StrayTokensOverlap,
         NEW r \in Requests, Works(r)
  PROVE  Cleared(r)'
<1> DEFINE i == request[r].id
           h == request'[r]
<1>1. /\ Open(r) /\ h.id = i /\ h.op = request[r].op
      /\ UNCHANGED <<users, tokens, minted, met>>
      /\ ShapeAt(pc[r], request[r])
  BY DEF Works, Onward, Open, outside, tables, IInv, Shape
<1>2. Cleared(r) /\ Linked(request[r]) /\ i \in Ids
  BY <1>1, OpenFields DEF RivalsMet, Ties, RequestsLinked
<1>3. h.op = "resend" /\ users[Owner(i)] = "verified" =>
        \E j \in Ids : j # i /\ Owner(j) = Owner(i) /\ {i, j} \in met
  BY <1>1, <1>2 DEF Cleared
<1>4. pc'[r] = "lockAll" => \A j \in Ids : Rival(i, j) => j \in h.seen
  <2>1. pc'[r] = "lockAll" => h.seen = {j \in Ids : Present(j) /\ Owner(j) = Owner(i)}
    BY DEF Works, Onward
  <2>2. QED
    BY <2>1 DEF Rival, Present
<1>5. pc'[r] = "saveToken" => \A j \in Ids : Rival(i, j) => j \in h.deletes \/ {i, j} \in met
  <2>1. CASE pc[r] = "saveUser"
    <3>1. request[r].op = "signUp"
      BY <1>1, <2>1 DEF ShapeAt, OpAt
    <3>2. Owner(i) = i /\ users[i] = "none"
      BY <1>2, <3>1 DEF Linked
    <3>3. \A j \in Ids : ~Rival(i, j)
      BY <3>2 DEF Rival, Ties, RowsOK
    <3>4. QED
      BY <3>3
  <2>2. CASE pc[r] = "lockAll"
    <3>1. \A j \in Ids : Rival(i, j) => j \in request[r].seen \/ {i, j} \in met
      BY <1>2, <2>2 DEF Cleared
    <3>2. h.deletes = {j \in request[r].seen : Present(j)}
      BY <2>2 DEF Works, Onward
    <3>3. QED
      BY <3>1, <3>2 DEF Rival, Present
  <2>3. QED
    BY <2>1, <2>2 DEF Works, Onward
<1>6. pc'[r] = "commit" => \A j \in Ids : Rival(i, j) => j \in h.deletes \/ {i, j} \in met
  <2>1. CASE pc[r] = "saveToken"
    <3>1. pc'[r] = "commit" => h.deletes = request[r].deletes
      BY <2>1 DEF Works, Onward
    <3>2. QED
      BY <1>2, <2>1, <3>1 DEF Cleared
  <2>2. CASE pc[r] = "deleteToken"
    BY <1>2, <2>2 DEF Cleared
  <2>3. QED
    BY <2>1, <2>2 DEF Works, Onward
<1>7. pc'[r] = "saveVerified" => \A j \in Ids : Rival(i, j) => {i, j} \in met
  <2>1. pc'[r] = "saveVerified" => tokens[i] = "valid"
    BY DEF Works, Onward
  <2>2. QED
    BY <1>2, <2>1 DEF StrayTokensOverlap, Rival
<1>8. pc'[r] = "deleteToken" => \A j \in Ids : Rival(i, j) => {i, j} \in met
  <2>1. pc'[r] = "deleteToken" => pc[r] = "saveVerified"
    BY DEF Works, Onward
  <2>2. QED
    BY <1>2, <2>1 DEF Cleared
<1> HIDE DEF i, h
<1>9. QED
  BY <1>1, <1>3, <1>4, <1>5, <1>6, <1>7, <1>8 DEF Cleared, Rival, Owner, h

LEMMA ClearedKept ==
  ASSUME EmailVerificationAssumption, IInv, Ties, Overlaps, Kinds
  PROVE  RivalsMet'
<1>1. ASSUME NEW r \in Requests, Others(r), Open(r)' => Cleared(r)'
      PROVE  RivalsMet'
  <2> SUFFICES ASSUME NEW q \in Requests \ {r}, Open(q)'
               PROVE  Cleared(q)'
    BY <1>1 DEF RivalsMet
  <2>1. pc'[q] = pc[q] /\ request'[q] = request[q] /\ Open(q)
    BY <1>1 DEF Others, Open
  <2>2. QED
    BY <2>1, ClearedStays DEF Overlaps
<1>2. ASSUME NEW r \in Requests, Works(r)
      PROVE  RivalsMet'
  BY <1>1, <1>2, WorksCleared DEF Overlaps, Works
<1>3. ASSUME NEW r \in Requests, Ends(r)
      PROVE  RivalsMet'
  BY <1>1, <1>3 DEF Ends, Open
<1>4. ASSUME NEW r \in Requests, NEW l \in {"saveAccount", "findToken"}, NEW g,
             Begins(r, l, g), g.op # "resend"
      PROVE  RivalsMet'
  BY <1>1, <1>4 DEF Begins, Cleared
<1>5. ASSUME NEW r \in Requests, NEW u \in Ids, NEW i \in Ids, Resends(r, u, i)
      PROVE  RivalsMet'
  <2> DEFINE g == Asked("resend", None, i, None)
  <2>1. g.id = i
    BY AskedFields
  <2> HIDE DEF g
  <2>2. /\ Begins(r, "deleteAll", g) /\ users[u] = "unverified"
        /\ minted'[i] = [key |-> Key(u), user |-> u]
    BY <1>5 DEF Resends, Mints, g
  <2>3. users'[minted'[i].user] = "unverified"
    BY <2>2 DEF Begins
  <2>4. Cleared(r)'
    BY <2>1, <2>2, <2>3 DEF Begins, Cleared, Owner
  <2>5. QED
    BY <1>1, <2>2, <2>4 DEF Begins
<1>6. CASE Aside
  <2>1. \A q \in Requests : Open(q)' => Cleared(q)'
    BY <1>6, ClearedStays DEF Aside, Open, Overlaps
  <2>2. QED
    BY <2>1 DEF RivalsMet
<1>7. QED
  BY <1>2, <1>3, <1>4, <1>5, <1>6, FailsHears, AskedFields
     DEF Kinds, Commits, SignsUp, Verifies

(* The tokens of a step that commits nothing were there before. *)
LEMMA StrayStays ==
  ASSUME EmailVerificationAssumption, IInv, Ties, StrayTokensOverlap, Kinds,
         UNCHANGED users, \A i \in Ids : tokens'[i] = "valid" => tokens[i] = "valid"
  PROVE  StrayTokensOverlap'
<1> SUFFICES ASSUME NEW i \in Ids, tokens'[i] = "valid"
             PROVE  /\ \A j \in Ids \ {i} :
                         tokens'[j] = "valid" /\ minted'[j].user = minted'[i].user
                           => {i, j} \in met'
                    /\ users'[minted'[i].user] = "verified" =>
                         \E j \in Ids \ {i} :
                            minted'[j].user = minted'[i].user /\ {i, j} \in met'
  BY DEF StrayTokensOverlap, Owner
<1>1. \A j \in Ids : tokens'[j] = "valid" =>
        tokens[j] = "valid" /\ Owner(j) # 0 /\ minted'[j] = minted[j]
  BY RowsStay DEF Ties, RowsOK
<1>2. \A j \in Ids \ {i} :
        tokens'[j] = "valid" /\ minted'[j].user = minted'[i].user => {i, j} \in met'
  BY <1>1, MetGrows DEF StrayTokensOverlap, Owner
<1>3. ASSUME users'[minted'[i].user] = "verified"
      PROVE  \E j \in Ids \ {i} : minted'[j].user = minted'[i].user /\ {i, j} \in met'
  <2>1. PICK j \in Ids \ {i} : Owner(j) = Owner(i) /\ {i, j} \in met
    BY <1>1, <1>3 DEF StrayTokensOverlap, Owner
  <2>2. minted'[j] = minted[j] /\ minted'[i] = minted[i]
    BY <1>1, <2>1, RowsStay
  <2>3. QED
    BY <2>1, <2>2, MetGrows DEF Owner
<1>4. QED
  BY <1>2, <1>3

LEMMA StrayCommits ==
  ASSUME EmailVerificationAssumption, IInv, Ties, Overlaps, Kinds, NEW r \in Requests,
         NEW what \in {"ok", "error"}, Commits(r, what)
  PROVE  StrayTokensOverlap'
<1> DEFINE g == request[r]
<1>1. /\ Open(r) /\ pc[r] = "commit" /\ g.id \in Ids /\ Linked(g)
      /\ g.op \in {"signUp", "resend", "verify"} /\ Cleared(r)
      /\ g.op = "verify" => g.deletes = {g.id}
  BY OpenFields DEF Commits, Ends, Ties, RequestsLinked, Overlaps, RivalsMet, IInv, Shape,
     ShapeAt
<1>2. /\ minted' = minted /\ met' = met
      /\ \A i \in Ids :
           /\ users'[i] = IF g.op = "signUp" /\ i = g.id THEN "unverified"
                          ELSE IF g.op = "verify" /\ i = Owner(g.id)
                          THEN "verified" ELSE users[i]
           /\ tokens'[i] = IF i \in g.deletes THEN "deleted"
                           ELSE IF i = g.id /\ g.op # "verify" THEN "valid" ELSE tokens[i]
  BY DEF Commits, Stored
<1> HIDE DEF g
<1>3. \A j \in Ids : Rival(g.id, j) => j \in g.deletes \/ {g.id, j} \in met
  BY <1>1 DEF Cleared, g
<1>4. \A i, j \in Ids : {i, j} = {j, i}
  OBVIOUS
<1> SUFFICES ASSUME NEW i \in Ids, tokens'[i] = "valid"
             PROVE  /\ \A j \in Ids \ {i} :
                         tokens'[j] = "valid" /\ Owner(j) = Owner(i) => {i, j} \in met
                    /\ users'[Owner(i)] = "verified" =>
                         \E j \in Ids \ {i} : Owner(j) = Owner(i) /\ {i, j} \in met
  BY <1>2 DEF StrayTokensOverlap, Owner
<1>5. \A j \in Ids : tokens'[j] = "valid" =>
        /\ j \notin g.deletes
        /\ tokens[j] = "valid" \/ (j = g.id /\ g.op # "verify")
  BY <1>2
<1>6. ASSUME NEW j \in Ids \ {i}, tokens'[j] = "valid", Owner(j) = Owner(i)
      PROVE  {i, j} \in met
  <2>1. CASE tokens[i] = "valid" /\ tokens[j] = "valid"
    BY <1>6, <2>1 DEF Overlaps, StrayTokensOverlap
  <2>2. CASE i = g.id /\ tokens[j] = "valid"
    BY <1>3, <1>5, <1>6, <2>2 DEF Rival
  <2>3. CASE j = g.id /\ tokens[i] = "valid"
    BY <1>3, <1>4, <1>5, <1>6, <2>3 DEF Rival
  <2>4. QED
    BY <1>5, <1>6, <2>1, <2>2, <2>3
<1>7. ASSUME users'[Owner(i)] = "verified"
      PROVE  \E j \in Ids \ {i} : Owner(j) = Owner(i) /\ {i, j} \in met
  <2>1. Owner(i) \in Ids
    <3>1. Owner(i) # 0
      BY <1>1, <1>5 DEF Linked, Ties, RowsOK
    <3>2. QED
      BY <3>1, OwnersAreIds
  <2>2. CASE tokens[i] = "valid" /\ users[Owner(i)] = "verified"
    BY <2>2 DEF Overlaps, StrayTokensOverlap
  <2>3. CASE tokens[i] = "valid" /\ users[Owner(i)] # "verified"
    <3>1. g.op = "verify" /\ Owner(i) = Owner(g.id)
      BY <1>2, <1>7, <2>1, <2>3
    <3>2. i # g.id
      BY <1>1, <1>5, <3>1
    <3>3. {i, g.id} \in met
      BY <1>1, <1>3, <1>4, <1>5, <2>3, <3>1, <3>2 DEF Rival
    <3>4. QED
      BY <1>1, <3>1, <3>2, <3>3
  <2>4. CASE i = g.id /\ g.op # "verify"
    <3>1. CASE g.op = "signUp"
      BY <1>1, <1>2, <1>7, <2>1, <2>4, <3>1 DEF Linked
    <3>2. CASE g.op = "resend"
      <4>1. users[Owner(g.id)] = "verified"
        BY <1>2, <1>7, <2>1, <2>4, <3>2
      <4>2. QED
        BY <1>1, <2>4, <3>2, <4>1 DEF Cleared, g
    <3>3. QED
      BY <1>1, <2>4, <3>1, <3>2
  <2>5. QED
    BY <1>5, <2>2, <2>3, <2>4
<1>8. QED
  BY <1>6, <1>7

LEMMA KindsOverlaps ==
  ASSUME EmailVerificationAssumption, IInv, Ties, Overlaps, Kinds
  PROVE  Overlaps'
<1>1. AllMet' /\ RivalsMet'
  BY MeetKept, ClearedKept DEF Overlaps
<1>2. CASE UNCHANGED <<users, tokens>>
  BY <1>1, <1>2, StrayStays DEF Overlaps
<1>3. CASE \E r \in Requests, what \in {"ok", "error"} : Commits(r, what)
  BY <1>1, <1>3, StrayCommits DEF Overlaps
<1>4. CASE Aside
  <2>1. UNCHANGED users /\ \A i \in Ids : tokens'[i] = "valid" => tokens[i] = "valid"
    BY <1>4 DEF Aside
  <2>2. QED
    BY <1>1, <2>1, StrayStays DEF Overlaps
<1>5. QED
  BY <1>2, <1>3, <1>4 DEF Kinds, Works, outside, tables, Fails, Throw, SignsUp, Resends,
     Begins, Verifies

(* StrayTokensOverlap: two valid tokens of one user, or a valid token of a
   verified one, are the doing of requests that overlapped.  A request deletes
   the tokens it found, so a rival it leaves was stored while it ran.        *)
THEOREM StrayTokensHaveMet == Spec => []StrayTokensOverlap
<1>1. Init => Overlaps
  BY DEF Init, Overlaps, AllMet, RivalsMet, StrayTokensOverlap, Open
<1>2. IInv /\ Ties /\ Overlaps /\ [Next]_vars => Overlaps'
  BY EmailVerificationAssumption, StepKinds, KindsOverlaps
<1>3. Overlaps => StrayTokensOverlap
  BY DEF Overlaps
<1>4. QED
  BY <1>1, <1>2, <1>3, EmailInvariant, PTL DEF Spec
=============================================================================
