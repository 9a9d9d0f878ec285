-------------------------- MODULE HousekeepingProofs --------------------------
(***************************************************************************)
(* What is kept in the bucket and in the tables: the storage service, the  *)
(* entities, the charts, and the cleanup of stored files, each for any     *)
(* number of objects, rows, callers and faults.                            *)
(*                                                                         *)
(* The bucket: an operation changes only what it is about, and by the time *)
(* it is done each key it need not share holds what was promised.  What a  *)
(* folder's listing has passed is gone; what it has not is on the page or  *)
(* comes after it (ListedAt).                                              *)
(*                                                                         *)
(* The entities: a save writes the columns that were edited, and those the *)
(* mapper spells in another way than they were read (Respelled).  That     *)
(* these are none, but for a row out of a join, is a fact about each       *)
(* table's mapper and the driver's parsers (ReadAsWritten); with it the    *)
(* property is nearly its own invariant.                                   *)
(*                                                                         *)
(* The cleanup: a row may lose its object only where the cleanup removes   *)
(* it, so what must be known there is that an orphan with a row has got it *)
(* since the table was read (OrphansLate); the rest follows the rows       *)
(* through the statements that move them.                                  *)
(***************************************************************************)
EXTENDS StoredFiles, ObjectStore, Entities, ChartBlock,
        TLAPS, FiniteSetTheorems, WellFoundedInduction

(* A set of numbers that is not empty has a least element. *)
LEMMA LeastNumber ==
    ASSUME NEW S \in SUBSET Nat, S # {}
    PROVE  \E k \in S : \A j \in S : k <= j
<1> DEFINE R == {ss \in Nat \X Nat : ss[1] < ss[2]}
<1>1. IsWellFoundedOn(R, Nat)
    BY NatLessThanWellFounded DEF OpToRel
<1> HIDE DEF R
<1>2. PICK k \in S : \A j \in S : ~(<<j, k>> \in R)
    BY <1>1, WFMin
<1>3. ASSUME NEW j \in S
      PROVE  k <= j
    <2>1. ~(<<j, k>> \in R)
        BY <1>2
    <2>2. ~(j < k)
        BY <2>1 DEF R
    <2> QED
        BY <2>2
<1> QED
    BY <1>3

-----------------------------------------------------------------------------
(* The bucket *)

Holdings == Contents \cup {Absent}

OperationState ==
    [name : {"none", "put", "remove", "deleteFile", "copy", "ensureFile", "deleteFolder"},
     on : SUBSET Objects, from : SUBSET Objects, content : Holdings,
     folder : Dirs \cup {<<>>},
     at : {"send", "exists", "list", "delete", "done", "thrown"},
     page : SUBSET Objects, more : BOOLEAN, token : Nat]

ObjectsTypeOK ==
    /\ bucket \in [Objects -> Holdings]
    /\ op \in [Clients -> OperationState]
    /\ was \in [Clients -> [Objects -> Holdings]]
    /\ steady \in [Clients -> SUBSET Objects]
    /\ missed \subseteq Clients

(* What an operation is about does not change while it runs. *)
AskedAt(c) ==
    /\ op[c].name = "deleteFolder" =>
           op[c].folder \in Dirs /\ op[c].on = Under(Normalized(op[c].folder))
    /\ op[c].name \notin {"none", "deleteFolder"} => \E k \in Objects : op[c].on = {k}
    /\ op[c].name = "copy" => \E k \in Objects \ op[c].on : op[c].from = {k}
    /\ op[c].name # "copy" => op[c].from = {}
    /\ op[c].name = "ensureFile" => op[c].content = Initial
    /\ op[c].name \in {"remove", "deleteFile"} => op[c].content = Absent

StageAt(c) ==
    /\ op[c].name = "none" => op[c].at = "done"
    /\ op[c].at = "exists" => op[c].name = "ensureFile"
    /\ op[c].at = "send" => op[c].name \notin {"none", "deleteFolder"}
    /\ op[c].at \in {"list", "delete"} => op[c].name = "deleteFolder"
    /\ op[c].at = "delete" => op[c].page # {} /\ op[c].page \subseteq op[c].on

LeftAloneAt(c) == \A k \in steady[c] \ op[c].on : bucket[k] = was[c][k]

(* Until its request is made an operation has changed nothing, and whoever
   was told that there is no object was told the truth.                   *)
UntouchedAt(c) ==
    op[c].at \in {"exists", "send"} =>
        /\ \A k \in steady[c] : bucket[k] = was[c][k]
        /\ op[c].at = "send" /\ op[c].name = "ensureFile" /\ c \notin missed =>
               \A k \in steady[c] \cap op[c].on : bucket[k] = Absent

(* What a folder's listing has passed is gone, and what it has not passed
   is on the page or comes after it.                                      *)
ListedAt(c) ==
    op[c].at \in {"list", "delete"} /\ c \notin missed =>
        /\ \A k \in steady[c] \cap op[c].on : k <= op[c].token => bucket[k] = Absent
        /\ op[c].at = "delete" =>
               \A k \in (steady[c] \cap op[c].on) \ op[c].page :
                   k <= Max(op[c].page) \/ ~op[c].more => bucket[k] = Absent

DoneAt(c) ==
    op[c].at = "done" /\ op[c].name # "none" /\ c \notin missed
        /\ op[c].from \subseteq steady[c] =>
        \A k \in steady[c] \cap op[c].on : bucket[k] \in Promised(c, k)

ClientAt(c) ==
    AskedAt(c) /\ StageAt(c) /\ LeftAloneAt(c) /\ UntouchedAt(c) /\ ListedAt(c) /\ DoneAt(c)

BucketInv == ObjectsTypeOK /\ \A c \in Clients : ClientAt(c)

-----------------------------------------------------------------------------
Characters == STRING \cup {"/"}

LEMMA AppendFields ==
    ASSUME NEW S, NEW q \in Seq(S), NEW x \in S
    PROVE  /\ Append(q, x) \in Seq(S) /\ Len(Append(q, x)) = Len(q) + 1 /\ Len(q) \in Nat
           /\ Append(q, x)[Len(q) + 1] = x
           /\ \A i \in 1 .. Len(q) : Append(q, x)[i] = q[i]
           /\ Append(q, x) = [i \in 1 .. Len(q) + 1 |-> Append(q, x)[i]]
<1> DEFINE a == Append(q, x)
<1>1. a \in Seq(S) /\ Len(a) = Len(q) + 1 /\ Len(q) \in Nat
    OBVIOUS
<1>2. a[Len(q) + 1] = x /\ \A i \in 1 .. Len(q) : a[i] = q[i]
    OBVIOUS
<1>3. a = [i \in 1 .. Len(a) |-> a[i]]
    <2> HIDE DEF a
    <2> QED
        BY <1>1
<1> QED
    BY <1>1, <1>2, <1>3

LEMMA Spelled ==
    ASSUME NEW s \in Seq(STRING)
    PROVE  s \in Seq(Characters)
<1>1. Len(s) \in Nat /\ s = [i \in 1 .. Len(s) |-> s[i]] /\ \A i \in 1 .. Len(s) : s[i] \in STRING
    OBVIOUS
<1>2. \A i \in 1 .. Len(s) : s[i] \in Characters
    BY <1>1 DEF Characters
<1> QED
    BY <1>1, <1>2

(* A name has a prefix that ends with a slash if a slash follows its parts. *)
LEMMA PrefixFollows ==
    ASSUME NEW q \in Seq(Characters), NEW n \in Seq(Characters)
    PROVE  IsPrefix(Append(q, "/"), n) <=>
               /\ Len(n) > Len(q)
               /\ SubSeq(n, 1, Len(q)) = q
               /\ n[Len(q) + 1] = "/"
<1> DEFINE a == Append(q, "/")
           l == Len(q)
<1>1. /\ l \in Nat /\ Len(n) \in Nat /\ a \in Seq(Characters) /\ Len(a) = l + 1
      /\ a[l + 1] = "/" /\ \A i \in 1 .. l : a[i] = q[i]
    BY AppendFields DEF Characters
<1> HIDE DEF a, l
<1>2. IsPrefix(a, n) <=> l + 1 <= Len(n) /\ SubSeq(a, 1, l + 1) = SubSeq(n, 1, l + 1)
    BY <1>1 DEF IsPrefix
<1> SUFFICES ASSUME l + 1 <= Len(n)
             PROVE  SubSeq(a, 1, l + 1) = SubSeq(n, 1, l + 1) <=>
                        SubSeq(n, 1, l) = q /\ n[l + 1] = "/"
    BY <1>1, <1>2 DEF a, l
<1>3. /\ SubSeq(a, 1, l + 1) = [i \in 1 .. l + 1 |-> a[i]]
      /\ SubSeq(n, 1, l + 1) = [i \in 1 .. l + 1 |-> n[i]]
      /\ SubSeq(n, 1, l) = [i \in 1 .. l |-> n[i]]
    BY <1>1
<1>4. q = [i \in 1 .. l |-> q[i]]
    BY DEF l
<1>5. SubSeq(n, 1, l) = q <=> \A i \in 1 .. l : n[i] = q[i]
    <2>1. ASSUME SubSeq(n, 1, l) = q, NEW i \in 1 .. l PROVE n[i] = q[i]
        BY <2>1, <1>3
    <2>2. ASSUME \A i \in 1 .. l : n[i] = q[i] PROVE SubSeq(n, 1, l) = q
        BY <2>2, <1>3, <1>4
    <2> QED
        BY <2>1, <2>2
<1>6. SubSeq(a, 1, l + 1) = SubSeq(n, 1, l + 1) <=> \A i \in 1 .. l + 1 : a[i] = n[i]
    <2>1. ASSUME SubSeq(a, 1, l + 1) = SubSeq(n, 1, l + 1), NEW i \in 1 .. l + 1
          PROVE  a[i] = n[i]
        BY <2>1, <1>3
    <2>2. ASSUME \A i \in 1 .. l + 1 : a[i] = n[i]
          PROVE  SubSeq(a, 1, l + 1) = SubSeq(n, 1, l + 1)
        BY <2>2, <1>3
    <2> QED
        BY <2>1, <2>2
<1>7. \A i \in 1 .. l + 1 : i \in 1 .. l \/ i = l + 1
    BY <1>1
<1>8. l + 1 \in 1 .. l + 1 /\ \A i \in 1 .. l : i \in 1 .. l + 1
    BY <1>1
<1> QED
    BY <1>1, <1>5, <1>6, <1>7, <1>8

(* What deleteFolder lists is what is in the folder. *)
LEMMA FolderListed ==
    ASSUME NEW p \in Dirs
    PROVE  Under(Normalized(p)) = {k \in Objects : In(p, k)}
<1>1. p \in Seq(Characters) /\ \A k \in Objects : Names[k] \in Seq(Characters)
    BY Spelled, ObjectStoreAssumption DEF ObjectStoreAssumption, Objects
<1> DEFINE q == IF EndsWithSlash(p) THEN Front(p) ELSE p
<1>2. q \in Seq(Characters) /\ Normalized(p) = Append(q, "/")
    <2>1. CASE ~EndsWithSlash(p)
        BY <2>1, <1>1 DEF Normalized
    <2>2. CASE EndsWithSlash(p)
        <3> DEFINE m == Len(p) - 1
        <3>1. m \in Nat /\ p[m + 1] = "/" /\ Len(p) = m + 1
            BY <2>2, <1>1 DEF EndsWithSlash, Last
        <3>2. Front(p) = [i \in 1 .. m |-> p[i]]
            BY <3>1, <1>1 DEF Front
        <3> HIDE DEF m
        <3>3. \A i \in 1 .. m : p[i] \in Characters
            BY <1>1, <3>1
        <3>4. Front(p) \in Seq(Characters) /\ Len(Front(p)) = m
            BY <3>1, <3>2, <3>3
        <3>5. DOMAIN p = 1 .. m + 1 /\ p = [i \in 1 .. m + 1 |-> p[i]]
            BY <1>1, <3>1
        <3> DEFINE a == Append(Front(p), "/")
        <3>6. a \in Seq(Characters) /\ Len(a) = m + 1 /\ a[m + 1] = "/"
              /\ \A i \in 1 .. m : a[i] = Front(p)[i]
            BY <3>1, <3>4, AppendFields DEF Characters
        <3>7. a = [i \in 1 .. m + 1 |-> a[i]]
            BY <3>4, AppendFields DEF Characters
        <3> HIDE DEF a
        <3>8. \A i \in 1 .. m + 1 : a[i] = p[i]
            <4>1. \A i \in 1 .. m + 1 : i \in 1 .. m \/ i = m + 1
                BY <3>1
            <4> QED
                BY <4>1, <3>1, <3>2, <3>6
        <3>9. a = p
            BY <3>5, <3>7, <3>8
        <3> QED
            BY <2>2, <3>4, <3>9 DEF Normalized, a
    <2> QED
        BY <2>1, <2>2
<1>3. \A k \in Objects : In(p, k) <=>
            /\ Len(Names[k]) > Len(q)
            /\ SubSeq(Names[k], 1, Len(q)) = q
            /\ Names[k][Len(q) + 1] = "/"
    BY DEF In
<1> HIDE DEF q
<1> QED
    BY <1>1, <1>2, <1>3, PrefixFollows DEF Under

(* Keys are numbers, of which any set that is not empty has a least and a
   greatest.                                                               *)
LEMMA ObjectsFinite ==
    /\ Objects \subseteq Nat
    /\ \A S \in SUBSET Objects : IsFiniteSet(S)
<1>1. Objects = 1 .. Len(Names) /\ Len(Names) \in Nat
    BY ObjectStoreAssumption DEF ObjectStoreAssumption, Objects
<1>2. IsFiniteSet(Objects)
    BY <1>1, FS_Interval
<1>3. \A S \in SUBSET Objects : IsFiniteSet(S)
    BY <1>2, FS_Subset
<1> QED
    BY <1>1, <1>3

LEMMA GreatestKey ==
    ASSUME NEW S \in SUBSET Objects, S # {}
    PROVE  Max(S) \in S /\ \A k \in S : k <= Max(S)
<1>1. Objects = 1 .. Len(Names) /\ Len(Names) \in Nat
    BY ObjectStoreAssumption DEF ObjectStoreAssumption, Objects
<1> DEFINE n == Len(Names)
           T == {n - k : k \in S}
<1> HIDE DEF n
<1>2. \A k \in S : k \in Nat /\ k <= n /\ n \in Nat
    BY <1>1 DEF n
<1>3. T \in SUBSET Nat /\ T # {}
    <2>1. \A k \in S : n - k \in Nat
        BY <1>2
    <2>2. PICK k \in S : TRUE
        OBVIOUS
    <2> QED
        BY <2>1, <2>2
<1>4. PICK t \in T : \A u \in T : t <= u
    BY <1>3, LeastNumber
<1>5. PICK m \in S : t = n - m
    BY <1>4
<1>6. \A k \in S : m >= k
    <2> SUFFICES ASSUME NEW k \in S PROVE m >= k
        OBVIOUS
    <2>1. t <= n - k
        BY <1>4
    <2> QED
        BY <2>1, <1>2, <1>5
<1>7. Max(S) \in S /\ \A k \in S : Max(S) >= k
    BY <1>6 DEF Max
<1> QED
    BY <1>2, <1>7

(* A page of a listing that has keys left is not empty, and what is left of
   them comes after it.                                                    *)
FirstOf(S) == {k \in S : Cardinality({j \in S : j <= k}) <= PerPage}

LEMMA FirstComeFirst ==
    ASSUME NEW S \in SUBSET Objects, NEW k \in S \ FirstOf(S), NEW g \in FirstOf(S)
    PROVE  g < k
<1> DEFINE Upto(x) == {j \in S : j <= x}
<1>1. S \subseteq Nat /\ g \in S /\ Cardinality(Upto(g)) <= PerPage
    BY ObjectsFinite DEF FirstOf
<1>2. SUFFICES ASSUME ~(g < k) PROVE FALSE
    OBVIOUS
<1>3. Upto(k) \subseteq Upto(g)
    <2>1. k \in Nat /\ g \in Nat /\ k <= g
        BY <1>1, <1>2
    <2>2. \A j \in S : j \in Nat /\ (j <= k => j <= g)
        BY <1>1, <2>1
    <2> QED
        BY <2>2
<1>4. IsFiniteSet(Upto(g))
    BY ObjectsFinite
<1>5. /\ Cardinality(Upto(k)) <= Cardinality(Upto(g))
      /\ Cardinality(Upto(k)) \in Nat /\ Cardinality(Upto(g)) \in Nat
    <2>1. IsFiniteSet(Upto(k)) /\ Cardinality(Upto(k)) <= Cardinality(Upto(g))
        <3> HIDE DEF Upto
        <3> QED
            BY <1>3, <1>4, FS_Subset
    <2> QED
        BY <2>1, <1>4, FS_CardinalityType
<1>6. Cardinality(Upto(k)) <= PerPage
    <2>1. PerPage \in Nat
        BY ObjectStoreAssumption DEF ObjectStoreAssumption
    <2> HIDE DEF Upto
    <2> QED
        BY <2>1, <1>1, <1>5
<1> QED
    BY <1>6 DEF FirstOf

LEMMA FirstFilled ==
    ASSUME NEW S \in SUBSET Objects, S # {}
    PROVE  FirstOf(S) # {}
<1>1. S \subseteq Nat
    BY ObjectsFinite
<1>2. PICK k \in S : \A j \in S : k <= j
    BY <1>1, LeastNumber
<1>3. {j \in S : j <= k} = {k}
    <2>1. \A j \in S : j <= k <=> j = k
        <3> SUFFICES ASSUME NEW j \in S PROVE j <= k <=> j = k
            OBVIOUS
        <3>1. j \in Nat /\ k \in Nat /\ k <= j
            BY <1>1, <1>2
        <3> QED
            BY <3>1
    <2> QED
        BY <2>1
<1>4. Cardinality({k}) = 1
    BY FS_Singleton
<1>5. 1 <= PerPage
    BY ObjectStoreAssumption DEF ObjectStoreAssumption
<1>6. k \in FirstOf(S)
    BY <1>3, <1>4, <1>5 DEF FirstOf
<1> QED
    BY <1>6

-----------------------------------------------------------------------------
(* What a request of c may change: keys that c's operation is about, which
   are then no one else's.                                                 *)
Acts(c) ==
    /\ ObjectsTypeOK'
    /\ was' = was
    /\ missed \subseteq missed' /\ missed' \subseteq missed \cup {c}
    /\ \A d \in Clients \ {c} : op'[d] = op[d]
    /\ \A f \in {"name", "on", "from", "content", "folder"} : op'[c][f] = op[c][f]
    /\ steady'[c] = steady[c]
    /\ \A k \in Objects \ op[c].on : bucket'[k] = bucket[k]
    /\ \A d \in Clients \ {c} : /\ steady'[d] \subseteq steady[d]
                                /\ \A k \in steady'[d] : bucket'[k] = bucket[k]

(* A client whose operation another one does not touch. *)
LEMMA OthersStand ==
    ASSUME BucketInv, NEW d \in Clients, op'[d] = op[d], was'[d] = was[d],
           d \in missed' <=> d \in missed,
           steady'[d] \subseteq steady[d], \A k \in steady'[d] : bucket'[k] = bucket[k]
    PROVE  ClientAt(d)'
<1>1. ClientAt(d)
    BY DEF BucketInv
<1>2. AskedAt(d)' /\ StageAt(d)'
    BY <1>1 DEF ClientAt, AskedAt, StageAt
<1>3. LeftAloneAt(d)'
    BY <1>1 DEF ClientAt, LeftAloneAt
<1>4. UntouchedAt(d)'
    BY <1>1 DEF ClientAt, UntouchedAt
<1>5. ListedAt(d)'
    BY <1>1 DEF ClientAt, ListedAt
<1>6. DoneAt(d)'
    <2>1. \A k : Promised(d, k)' = Promised(d, k)
        BY DEF Promised
    <2> QED
        BY <1>1, <2>1 DEF ClientAt, DoneAt
<1> QED
    BY <1>2, <1>3, <1>4, <1>5, <1>6 DEF ClientAt

(* Every step of a running operation. *)
LEMMA ActsKeeps ==
    ASSUME BucketInv, NEW c \in Clients, Acts(c),
           StageAt(c)', UntouchedAt(c)', ListedAt(c)', DoneAt(c)'
    PROVE  BucketInv'
<1>1. /\ op'[c].name = op[c].name /\ op'[c].on = op[c].on /\ op'[c].from = op[c].from
      /\ op'[c].content = op[c].content /\ op'[c].folder = op[c].folder
    BY DEF Acts
<1>2. AskedAt(c)'
    BY <1>1 DEF BucketInv, ClientAt, AskedAt
<1>3. LeftAloneAt(c)'
    <2>1. LeftAloneAt(c) /\ steady[c] \subseteq Objects
        BY DEF BucketInv, ClientAt, ObjectsTypeOK
    <2> QED
        BY <2>1, <1>1 DEF LeftAloneAt, Acts
<1>4. ASSUME NEW d \in Clients, d # c PROVE ClientAt(d)'
    BY <1>4, OthersStand DEF Acts
<1> QED
    BY <1>2, <1>3, <1>4 DEF ClientAt, BucketInv, Acts

LEMMA StageFields ==
    ASSUME ObjectsTypeOK, NEW c \in Clients, Goes(c, "done") \/ Goes(c, "thrown") \/ Goes(c, "send")
    PROVE  /\ op' \in [Clients -> OperationState]
           /\ \A d \in Clients \ {c} : op'[d] = op[d]
           /\ \A f \in {"name", "on", "from", "content", "folder"} : op'[c][f] = op[c][f]
           /\ Goes(c, "done") => op'[c].at = "done"
           /\ Goes(c, "thrown") => op'[c].at = "thrown"
           /\ Goes(c, "send") => op'[c].at = "send"
<1> SUFFICES ASSUME NEW s \in {"done", "thrown", "send"}, Goes(c, s)
             PROVE  /\ op' \in [Clients -> OperationState]
                    /\ \A d \in Clients \ {c} : op'[d] = op[d]
                    /\ \A f \in {"name", "on", "from", "content", "folder"} : op'[c][f] = op[c][f]
                    /\ op'[c].at = s
    OBVIOUS
<1> DEFINE o == [op[c] EXCEPT !.at = s]
<1>1. op \in [Clients -> OperationState] /\ op[c] \in OperationState
    BY DEF ObjectsTypeOK
<1>2. o \in OperationState /\ o.at = s
      /\ o.name = op[c].name /\ o.on = op[c].on /\ o.from = op[c].from
      /\ o.content = op[c].content /\ o.folder = op[c].folder
    BY <1>1 DEF OperationState
<1>3. op' = [op EXCEPT ![c] = o]
    BY DEF Goes
<1> HIDE DEF o
<1>4. op'[c] = o
    BY <1>1, <1>3
<1> QED
    BY <1>1, <1>2, <1>3, <1>4

LEMMA BecomesFields ==
    ASSUME ObjectsTypeOK, NEW c \in Clients, NEW keys \in SUBSET Objects, NEW v \in Holdings,
           Becomes(c, keys, v)
    PROVE  /\ bucket' \in [Objects -> Holdings] /\ steady' \in [Clients -> SUBSET Objects]
           /\ \A k \in keys : bucket'[k] = v
           /\ \A k \in Objects \ keys : bucket'[k] = bucket[k]
           /\ steady'[c] = steady[c]
           /\ \A d \in Clients \ {c} : /\ steady'[d] \subseteq steady[d]
                                       /\ \A k \in steady'[d] : bucket'[k] = bucket[k]
BY DEF ObjectsTypeOK, Becomes

(* The content that a request sends. *)
LEMMA ContentFields ==
    ASSUME BucketInv, NEW c \in Clients, op[c].at = "send"
    PROVE  /\ op[c].on \subseteq Objects /\ Content(c) \in Holdings
           /\ op[c].name # "copy" => Content(c) = op[c].content
           /\ op[c].name = "copy" => \A j \in op[c].from : Content(c) = bucket[j]
<1>1. op[c] \in OperationState /\ AskedAt(c) /\ bucket \in [Objects -> Holdings]
    BY DEF BucketInv, ClientAt, ObjectsTypeOK
<1>2. CASE op[c].name = "copy"
    <2>1. PICK j \in Objects : op[c].from = {j}
        BY <1>1, <1>2 DEF AskedAt
    <2>2. (CHOOSE k \in op[c].from : TRUE) = j
        BY <2>1
    <2> QED
        BY <1>1, <1>2, <2>1, <2>2 DEF Content, OperationState
<1>3. CASE op[c].name # "copy"
    BY <1>1, <1>3 DEF Content, OperationState
<1> QED
    BY <1>2, <1>3

(* An operation begins. *)
LEMMA CalledKeeps ==
    ASSUME BucketInv, NEW c \in Clients, NEW o \in OperationState, Called(c, o),
           o.name # "none",
           o.name = "deleteFolder" =>
               o.folder \in Dirs /\ o.on = Under(Normalized(o.folder)) /\ o.token = 0,
           o.name # "deleteFolder" => \E k \in Objects : o.on = {k},
           o.name = "copy" => \E k \in Objects \ o.on : o.from = {k},
           o.name # "copy" => o.from = {},
           o.name = "ensureFile" => o.content = Initial,
           o.name \in {"remove", "deleteFile"} => o.content = Absent,
           o.at = IF o.name = "ensureFile" THEN "exists"
                  ELSE IF o.name = "deleteFolder" THEN "list" ELSE "send"
    PROVE  BucketInv'
<1>1. /\ bucket \in [Objects -> Holdings] /\ op \in [Clients -> OperationState]
      /\ was \in [Clients -> [Objects -> Holdings]] /\ steady \in [Clients -> SUBSET Objects]
      /\ missed \subseteq Clients
    BY DEF BucketInv, ObjectsTypeOK
<1>2. /\ op' = [op EXCEPT ![c] = o] /\ was' = [was EXCEPT ![c] = bucket]
      /\ steady' = [steady EXCEPT ![c] = Objects] /\ missed' = missed \ {c} /\ bucket' = bucket
    BY DEF Called
<1>3. op'[c] = o /\ was'[c] = bucket /\ steady'[c] = Objects /\ c \notin missed'
    BY <1>1, <1>2
<1>4. ObjectsTypeOK'
    BY <1>1, <1>2 DEF ObjectsTypeOK
<1>5. AskedAt(c)' /\ StageAt(c)'
    BY <1>3 DEF AskedAt, StageAt
<1>6. LeftAloneAt(c)' /\ UntouchedAt(c)' /\ DoneAt(c)'
    BY <1>2, <1>3 DEF LeftAloneAt, UntouchedAt, DoneAt
<1>7. ListedAt(c)'
    <2>1. \A k \in Objects : ~(k <= 0)
        BY ObjectStoreAssumption DEF ObjectStoreAssumption, Objects
    <2> QED
        BY <2>1, <1>3 DEF ListedAt
<1>8. ASSUME NEW d \in Clients, d # c PROVE ClientAt(d)'
    <2>1. op'[d] = op[d] /\ was'[d] = was[d] /\ steady'[d] = steady[d]
          /\ (d \in missed' <=> d \in missed)
        BY <1>1, <1>2, <1>8
    <2> QED
        BY <2>1, <1>2, OthersStand
<1> QED
    BY <1>4, <1>5, <1>6, <1>7, <1>8 DEF BucketInv, ClientAt

LEMMA OperationFields ==
    ASSUME NEW name \in {"put", "remove", "deleteFile", "copy", "ensureFile", "deleteFolder"},
           NEW on \in SUBSET Objects, NEW from \in SUBSET Objects, NEW content \in Holdings
    PROVE  LET o == Operation(name, on, from, content)
           IN  /\ o \in OperationState /\ o.name = name /\ o.on = on /\ o.from = from
               /\ o.content = content /\ o.token = 0
               /\ o.at = IF name = "ensureFile" THEN "exists"
                         ELSE IF name = "deleteFolder" THEN "list" ELSE "send"
BY DEF Operation, OperationState

LEMMA OneKeyKeeps ==
    ASSUME BucketInv, NEW c \in Clients,
           PutFile(c) \/ RemoveFile(c) \/ DeleteFile(c) \/ Copy(c) \/ EnsureFile(c)
    PROVE  BucketInv'
<1>1. PICK name \in {"put", "remove", "deleteFile", "copy", "ensureFile"}, k \in Objects,
           from \in SUBSET Objects, content \in Holdings :
        /\ Called(c, Operation(name, {k}, from, content))
        /\ IF name = "copy" THEN \E j \in Objects \ {k} : from = {j} ELSE from = {}
        /\ name = "ensureFile" => content = Initial
        /\ name \in {"remove", "deleteFile"} => content = Absent
    <2>1. Absent \in Holdings /\ Initial \in Holdings /\ Contents \subseteq Holdings
        BY ObjectStoreAssumption DEF ObjectStoreAssumption, Holdings
    <2>2. CASE PutFile(c)
        BY <2>1, <2>2 DEF PutFile
    <2>3. CASE RemoveFile(c)
        BY <2>1, <2>3 DEF RemoveFile
    <2>4. CASE DeleteFile(c)
        BY <2>1, <2>4 DEF DeleteFile
    <2>5. CASE Copy(c)
        <3>1. PICK from \in Objects, to \in Objects :
                from # to /\ Called(c, Operation("copy", {to}, {from}, Absent))
            BY <2>5 DEF Copy
        <3>2. {from} \in SUBSET Objects /\ \E j \in Objects \ {to} : {from} = {j}
            BY <3>1
        <3> QED
            BY <2>1, <3>1, <3>2
    <2>6. CASE EnsureFile(c)
        BY <2>1, <2>6 DEF EnsureFile
    <2> QED
        BY <2>2, <2>3, <2>4, <2>5, <2>6
<1> DEFINE o == Operation(name, {k}, from, content)
<1>2. /\ o \in OperationState /\ o.name = name /\ o.on = {k} /\ o.from = from
      /\ o.content = content
      /\ o.at = IF name = "ensureFile" THEN "exists" ELSE "send"
    BY OperationFields
<1>3. Called(c, o)
    BY <1>1
<1> HIDE DEF o
<1> QED
    BY <1>1, <1>2, <1>3, CalledKeeps

LEMMA DeleteFolderKeeps ==
    ASSUME BucketInv, NEW c \in Clients, DeleteFolder(c)
    PROVE  BucketInv'
<1>1. PICK p \in Dirs :
        Called(c, [Operation("deleteFolder", Under(Normalized(p)), {}, Absent)
                    EXCEPT !.folder = p])
    BY DEF DeleteFolder
<1> DEFINE on == Under(Normalized(p))
           op0 == Operation("deleteFolder", on, {}, Absent)
           o == [op0 EXCEPT !.folder = p]
<1>2. on \in SUBSET Objects /\ Absent \in Holdings
    BY DEF Under, Holdings
<1> HIDE DEF on
<1>3. /\ op0 \in OperationState /\ op0.name = "deleteFolder" /\ op0.on = on /\ op0.from = {}
      /\ op0.at = "list" /\ op0.token = 0
    BY <1>2, OperationFields
<1>4. Called(c, o)
    BY <1>1 DEF on
<1> HIDE DEF op0
<1>5. /\ o \in OperationState /\ o.name = "deleteFolder" /\ o.on = on /\ o.from = {}
      /\ o.at = "list" /\ o.token = 0 /\ o.folder = p
    BY <1>3 DEF OperationState
<1> HIDE DEF o
<1> QED
    BY <1>4, <1>5, CalledKeeps DEF on

-----------------------------------------------------------------------------
(* The request of an operation of one. *)

LEMMA PromiseStands ==
    ASSUME NEW c \in Clients, NEW k, was' = was, op'[c].name = op[c].name,
           op'[c].from = op[c].from, op'[c].content = op[c].content
    PROVE  Promised(c, k)' = Promised(c, k)
BY DEF Promised

LEMMA PromiseSent ==
    ASSUME BucketInv, NEW c \in Clients, op[c].at = "send", c \notin missed,
           op[c].from \subseteq steady[c], NEW k \in steady[c] \cap op[c].on
    PROVE  Content(c) \in Promised(c, k)
<1>1. AskedAt(c) /\ StageAt(c) /\ UntouchedAt(c) /\ op[c] \in OperationState
      /\ steady[c] \subseteq Objects
    BY DEF BucketInv, ClientAt, ObjectsTypeOK
<1>2. op[c].name \in {"put", "remove", "deleteFile", "copy", "ensureFile"}
    BY <1>1 DEF StageAt, OperationState
<1>3. CASE op[c].name \in {"put", "remove", "deleteFile"}
    BY <1>1, <1>3, ContentFields DEF AskedAt, Promised
<1>4. CASE op[c].name = "copy"
    <2>1. PICK j \in Objects : op[c].from = {j}
        BY <1>1, <1>4 DEF AskedAt
    <2>2. Content(c) = bucket[j]
        BY <2>1, <1>4, ContentFields
    <2>3. bucket[j] = was[c][j]
        BY <2>1, <1>1 DEF UntouchedAt
    <2> QED
        BY <2>1, <2>2, <2>3, <1>4 DEF Promised
<1>5. CASE op[c].name = "ensureFile"
    <2>1. Content(c) = Initial
        BY <1>1, <1>5, ContentFields DEF AskedAt
    <2>2. was[c][k] = Absent
        BY <1>1, <1>5 DEF UntouchedAt
    <2> QED
        BY <2>1, <2>2, <1>5 DEF Promised
<1> QED
    BY <1>2, <1>3, <1>4, <1>5

LEMMA SendRequestKeeps ==
    ASSUME BucketInv, NEW c \in Clients, SendRequest(c)
    PROVE  BucketInv'
<1>1. op[c].at = "send" /\ was' = was /\ missed' = missed /\ ObjectsTypeOK
    BY DEF SendRequest, BucketInv
<1>2. StageAt(c) /\ op[c] \in OperationState
    BY <1>1 DEF BucketInv, ClientAt, ObjectsTypeOK
<1>3. CASE NoSource(c)
    <2>1. Goes(c, "thrown") /\ bucket' = bucket /\ steady' = steady
        BY <1>3 DEF SendRequest
    <2>2. /\ op' \in [Clients -> OperationState]
          /\ \A d \in Clients \ {c} : op'[d] = op[d]
          /\ \A f \in {"name", "on", "from", "content", "folder"} : op'[c][f] = op[c][f]
          /\ op'[c].at = "thrown"
        BY <2>1, <1>1, StageFields
    <2>3. Acts(c)
        BY <2>1, <2>2, <1>1 DEF Acts, ObjectsTypeOK
    <2>4. op'[c].name = op[c].name
        BY <2>2
    <2>5. StageAt(c)' /\ UntouchedAt(c)' /\ ListedAt(c)' /\ DoneAt(c)'
        BY <2>2, <2>4, <1>1, <1>2 DEF StageAt, UntouchedAt, ListedAt, DoneAt
    <2> QED
        BY <2>3, <2>5, ActsKeeps
<1>4. CASE ~NoSource(c)
    <2>1. Goes(c, "done") /\ Becomes(c, op[c].on, Content(c))
        BY <1>4 DEF SendRequest
    <2>2. /\ op' \in [Clients -> OperationState]
          /\ \A d \in Clients \ {c} : op'[d] = op[d]
          /\ \A f \in {"name", "on", "from", "content", "folder"} : op'[c][f] = op[c][f]
          /\ op'[c].at = "done"
        BY <2>1, <1>1, StageFields
    <2>3. op[c].on \in SUBSET Objects /\ Content(c) \in Holdings
        BY <1>1, ContentFields
    <2>4. /\ bucket' \in [Objects -> Holdings] /\ steady' \in [Clients -> SUBSET Objects]
          /\ \A k \in op[c].on : bucket'[k] = Content(c)
          /\ \A k \in Objects \ op[c].on : bucket'[k] = bucket[k]
          /\ steady'[c] = steady[c]
          /\ \A d \in Clients \ {c} : /\ steady'[d] \subseteq steady[d]
                                      /\ \A k \in steady'[d] : bucket'[k] = bucket[k]
        BY <2>1, <2>3, <1>1, BecomesFields
    <2>5. Acts(c)
        BY <2>2, <2>4, <1>1 DEF Acts, ObjectsTypeOK
    <2>6. op'[c].name = op[c].name /\ op'[c].from = op[c].from /\ op'[c].on = op[c].on
          /\ op'[c].content = op[c].content
        BY <2>2
    <2>7. StageAt(c)' /\ UntouchedAt(c)' /\ ListedAt(c)'
        BY <2>2, <2>6, <1>1, <1>2 DEF StageAt, UntouchedAt, ListedAt
    <2>8. ASSUME c \notin missed', op'[c].from \subseteq steady'[c],
                 NEW k \in steady'[c] \cap op'[c].on
          PROVE  bucket'[k] \in Promised(c, k)'
        <3>1. bucket'[k] = Content(c) /\ k \in steady[c] \cap op[c].on
            BY <2>4, <2>6, <2>8
        <3>2. Content(c) \in Promised(c, k)
            BY <3>1, <2>4, <2>6, <2>8, <1>1, PromiseSent
        <3>3. Promised(c, k)' = Promised(c, k)
            BY <2>6, <1>1, PromiseStands
        <3> QED
            BY <3>1, <3>2, <3>3
    <2>9. DoneAt(c)'
        BY <2>8 DEF DoneAt
    <2> QED
        BY <2>5, <2>7, <2>9, ActsKeeps
<1> QED
    BY <1>3, <1>4

LEMMA RequestFailsKeeps ==
    ASSUME BucketInv, NEW c \in Clients, RequestFails(c)
    PROVE  BucketInv'
<1>1. op[c].at = "send" /\ was' = was /\ ObjectsTypeOK
      /\ (UNCHANGED <<bucket, steady>> \/ Becomes(c, op[c].on, Content(c)))
      /\ \/ Goes(c, "done") /\ missed' = missed \cup {c}
         \/ Goes(c, "thrown") /\ missed' = missed
    BY DEF RequestFails, BucketInv
<1>2. StageAt(c) /\ op[c] \in OperationState
    BY <1>1 DEF BucketInv, ClientAt, ObjectsTypeOK
<1>3. op[c].on \in SUBSET Objects /\ Content(c) \in Holdings
    BY <1>1, ContentFields
<1>4. /\ bucket' \in [Objects -> Holdings] /\ steady' \in [Clients -> SUBSET Objects]
      /\ \A k \in Objects \ op[c].on : bucket'[k] = bucket[k]
      /\ steady'[c] = steady[c]
      /\ \A d \in Clients \ {c} : /\ steady'[d] \subseteq steady[d]
                                  /\ \A k \in steady'[d] : bucket'[k] = bucket[k]
    <2>1. CASE UNCHANGED <<bucket, steady>>
        BY <2>1, <1>1 DEF ObjectsTypeOK
    <2>2. CASE Becomes(c, op[c].on, Content(c))
        <3> DEFINE keys == op[c].on
                   v == Content(c)
        <3>1. ObjectsTypeOK /\ keys \in SUBSET Objects /\ v \in Holdings /\ Becomes(c, keys, v)
            BY <2>2, <1>1, <1>3
        <3> HIDE DEF keys, v
        <3>2. /\ bucket' \in [Objects -> Holdings] /\ steady' \in [Clients -> SUBSET Objects]
              /\ \A k \in Objects \ keys : bucket'[k] = bucket[k]
              /\ steady'[c] = steady[c]
              /\ \A d \in Clients \ {c} : /\ steady'[d] \subseteq steady[d]
                                          /\ \A k \in steady'[d] : bucket'[k] = bucket[k]
            BY <3>1, BecomesFields
        <3> QED
            BY <3>2 DEF keys
    <2> QED
        BY <2>1, <2>2, <1>1
<1>5. /\ op' \in [Clients -> OperationState]
      /\ \A d \in Clients \ {c} : op'[d] = op[d]
      /\ \A f \in {"name", "on", "from", "content", "folder"} : op'[c][f] = op[c][f]
      /\ \/ op'[c].at = "done" /\ missed' = missed \cup {c}
         \/ op'[c].at = "thrown" /\ missed' = missed
    BY <1>1, StageFields
<1>6. Acts(c)
    BY <1>1, <1>4, <1>5 DEF Acts, ObjectsTypeOK
<1>7. op'[c].name = op[c].name
    BY <1>5
<1>8. StageAt(c)' /\ UntouchedAt(c)' /\ ListedAt(c)' /\ DoneAt(c)'
    BY <1>1, <1>2, <1>5, <1>7 DEF StageAt, UntouchedAt, ListedAt, DoneAt
<1> QED
    BY <1>6, <1>8, ActsKeeps

-----------------------------------------------------------------------------
(* ensureFile looks first. *)
LEMMA ExistsKeeps ==
    ASSUME BucketInv, NEW c \in Clients, Exists(c) \/ ExistsFails(c)
    PROVE  BucketInv'
<1>1. /\ op[c].at = "exists" /\ UNCHANGED <<bucket, was, steady>> /\ ObjectsTypeOK
      /\ \/ /\ missed' = missed
            /\ Goes(c, IF \E k \in op[c].on : bucket[k] # Absent THEN "done" ELSE "send")
         \/ missed' = missed \cup {c} /\ Goes(c, "send")
    BY DEF Exists, ExistsFails, BucketInv
<1>2. StageAt(c) /\ AskedAt(c) /\ UntouchedAt(c) /\ op[c] \in OperationState
      /\ op[c].name = "ensureFile"
    BY <1>1 DEF BucketInv, ClientAt, ObjectsTypeOK, StageAt
<1>3. PICK k0 \in Objects : op[c].on = {k0}
    BY <1>2 DEF AskedAt
<1>4. /\ op' \in [Clients -> OperationState]
      /\ \A d \in Clients \ {c} : op'[d] = op[d]
      /\ \A f \in {"name", "on", "from", "content", "folder"} : op'[c][f] = op[c][f]
      /\ \/ missed' = missed /\ op'[c].at = "done" /\ bucket[k0] # Absent
         \/ missed' = missed /\ op'[c].at = "send" /\ bucket[k0] = Absent
         \/ missed' = missed \cup {c} /\ op'[c].at = "send"
    <2>1. CASE missed' = missed /\ Goes(c, "done") /\ bucket[k0] # Absent
        BY <2>1, <1>1, StageFields
    <2>2. CASE missed' = missed /\ Goes(c, "send") /\ bucket[k0] = Absent
        BY <2>2, <1>1, StageFields
    <2>3. CASE missed' = missed \cup {c} /\ Goes(c, "send")
        BY <2>3, <1>1, StageFields
    <2> QED
        BY <2>1, <2>2, <2>3, <1>1, <1>3
<1>5. op'[c].name = op[c].name /\ op'[c].on = op[c].on /\ op'[c].from = op[c].from
      /\ op'[c].content = op[c].content
    BY <1>4
<1>6. Acts(c)
    BY <1>1, <1>4 DEF Acts, ObjectsTypeOK
<1>7. StageAt(c)' /\ ListedAt(c)'
    BY <1>2, <1>4, <1>5 DEF StageAt, ListedAt
<1>8. UntouchedAt(c)'
    BY <1>1, <1>2, <1>3, <1>4, <1>5 DEF UntouchedAt
<1>9. DoneAt(c)'
    <2> SUFFICES ASSUME op'[c].at = "done", c \notin missed', NEW k \in steady'[c] \cap op'[c].on
                 PROVE  bucket'[k] \in Promised(c, k)'
        BY DEF DoneAt
    <2>1. k = k0 /\ bucket[k] # Absent /\ bucket[k] = was[c][k] /\ bucket' = bucket
        BY <1>1, <1>2, <1>3, <1>4, <1>5 DEF UntouchedAt
    <2>2. Promised(c, k)' = Promised(c, k)
        BY <1>1, <1>5, PromiseStands
    <2>3. Promised(c, k) = {was[c][k]}
        BY <2>1, <1>2 DEF Promised
    <2> QED
        BY <2>1, <2>2, <2>3
<1> QED
    BY <1>6, <1>7, <1>8, <1>9, ActsKeeps

-----------------------------------------------------------------------------
(* deleteFolder goes from page to page. *)
LEMMA FolderPromise ==
    ASSUME NEW c, op[c].name = "deleteFolder"
    PROVE  \A k : Promised(c, k) = {Absent}
BY DEF Promised

LEMMA ListObjectsKeeps ==
    ASSUME BucketInv, NEW c \in Clients, ListObjects(c)
    PROVE  BucketInv'
<1> DEFINE page == Listed(c)
           more == Left(c) # Listed(c)
           stage == IF page = {} THEN "done" ELSE "delete"
           o == [op[c] EXCEPT !.page = page, !.more = more, !.at = stage]
<1>1. /\ op[c].at = "list" /\ UNCHANGED <<bucket, was, steady, missed>>
      /\ op' = [op EXCEPT ![c] = o]
    BY DEF ListObjects, HasMore
<1>2. /\ op \in [Clients -> OperationState] /\ op[c] \in OperationState /\ ObjectsTypeOK
      /\ steady[c] \in SUBSET Objects /\ ListedAt(c) /\ StageAt(c)
      /\ bucket \in [Objects -> Holdings]
    BY DEF BucketInv, ObjectsTypeOK, ClientAt
<1>3. op[c].on \in SUBSET Objects /\ op[c].token \in Nat
    BY <1>2 DEF OperationState
<1>4. Left(c) \in SUBSET Objects /\ page = FirstOf(Left(c)) /\ page \subseteq Left(c)
      /\ Left(c) \subseteq op[c].on
    BY <1>3 DEF Left, Listed, FirstOf
<1>5. page = {} => Left(c) = {}
    BY <1>4, FirstFilled
<1>6. page \in SUBSET Objects /\ more \in BOOLEAN
    BY <1>4
<1> HIDE DEF page, more
<1>7. /\ o \in OperationState /\ o.at = stage /\ o.page = page /\ o.more = more
      /\ o.name = op[c].name /\ o.on = op[c].on /\ o.from = op[c].from
      /\ o.content = op[c].content /\ o.folder = op[c].folder /\ o.token = op[c].token
    BY <1>2, <1>6 DEF OperationState
<1> HIDE DEF o
<1>8. op'[c] = o /\ op' \in [Clients -> OperationState]
      /\ \A d \in Clients \ {c} : op'[d] = op[d]
    BY <1>1, <1>2, <1>7
<1>9. Acts(c)
    BY <1>1, <1>2, <1>7, <1>8 DEF Acts, ObjectsTypeOK
<1>10. op[c].name = "deleteFolder"
    BY <1>1, <1>2 DEF StageAt
<1>11. StageAt(c)' /\ UntouchedAt(c)'
    BY <1>4, <1>7, <1>8, <1>10 DEF StageAt, UntouchedAt
<1>12. ASSUME c \notin missed, NEW k \in steady[c] \cap op[c].on, bucket[k] # Absent
       PROVE  k \in Left(c)
    <2>1. ~(k <= op[c].token)
        BY <1>1, <1>2, <1>12 DEF ListedAt
    <2>2. k \in Nat
        BY <1>2, ObjectsFinite
    <2> QED
        BY <2>1, <2>2, <1>3, <1>12 DEF Left
<1>13. ListedAt(c)'
    <2>1. ASSUME c \notin missed, NEW k \in steady[c] \cap op[c].on, k <= op[c].token
          PROVE  bucket[k] = Absent
        BY <2>1, <1>1, <1>2 DEF ListedAt
    <2>2. ASSUME c \notin missed, page # {}, NEW k \in (steady[c] \cap op[c].on) \ page,
                 k <= Max(page) \/ ~more
          PROVE  bucket[k] = Absent
        <3> SUFFICES ASSUME bucket[k] # Absent PROVE FALSE
            OBVIOUS
        <3>1. k \in Left(c) \ page
            BY <2>2, <1>12
        <3>2. more
            BY <3>1 DEF more, page
        <3>3. Max(page) \in page
            BY <2>2, <1>6, GreatestKey
        <3>4. Max(page) < k
            BY <3>1, <3>3, <1>4, FirstComeFirst
        <3>5. Max(page) \in Nat /\ k \in Nat
            BY <3>3, <1>2, <1>6, ObjectsFinite
        <3> QED
            BY <2>2, <3>2, <3>4, <3>5
    <2> QED
        BY <2>1, <2>2, <1>1, <1>7, <1>8 DEF ListedAt
<1>14. DoneAt(c)'
    <2> SUFFICES ASSUME op'[c].at = "done", c \notin missed', NEW k \in steady'[c] \cap op'[c].on
                 PROVE  bucket'[k] \in Promised(c, k)'
        BY DEF DoneAt
    <2>1. k \in steady[c] \cap op[c].on /\ c \notin missed /\ page = {}
        BY <1>1, <1>7, <1>8
    <2>2. bucket[k] = Absent
        BY <2>1, <1>5, <1>12
    <2>3. Promised(c, k)' = Promised(c, k)
        BY <1>1, <1>7, <1>8, PromiseStands
    <2> QED
        BY <2>2, <2>3, <1>1, <1>10, FolderPromise
<1> QED
    BY <1>9, <1>11, <1>13, <1>14, ActsKeeps

LEMMA DeleteObjectsKeeps ==
    ASSUME BucketInv, NEW c \in Clients, DeleteObjects(c)
    PROVE  BucketInv'
<1> DEFINE page == op[c].page
           stage == IF op[c].more THEN "list" ELSE "done"
           token == Max(page)
           o == [op[c] EXCEPT !.token = token, !.at = stage]
<1>1. PICK failed \in SUBSET page :
        /\ Becomes(c, page \ failed, Absent)
        /\ missed' = IF failed = {} THEN missed ELSE missed \cup {c}
    BY DEF DeleteObjects
<1>2. op[c].at = "delete" /\ was' = was /\ op' = [op EXCEPT ![c] = o]
    BY DEF DeleteObjects
<1>3. /\ op \in [Clients -> OperationState] /\ op[c] \in OperationState /\ ObjectsTypeOK
      /\ steady[c] \in SUBSET Objects /\ ListedAt(c) /\ StageAt(c)
    BY DEF BucketInv, ObjectsTypeOK, ClientAt
<1>4. op[c].on \in SUBSET Objects /\ op[c].more \in BOOLEAN
      /\ page # {} /\ page \subseteq op[c].on /\ op[c].name = "deleteFolder"
    BY <1>2, <1>3 DEF OperationState, StageAt
<1>5. token \in Nat
    BY <1>4, GreatestKey, ObjectsFinite
<1>6. page \ failed \in SUBSET Objects /\ Absent \in Holdings
    BY <1>4 DEF Holdings
<1>7. /\ bucket' \in [Objects -> Holdings] /\ steady' \in [Clients -> SUBSET Objects]
      /\ \A k \in page \ failed : bucket'[k] = Absent
      /\ \A k \in Objects \ (page \ failed) : bucket'[k] = bucket[k]
      /\ steady'[c] = steady[c]
      /\ \A d \in Clients \ {c} : /\ steady'[d] \subseteq steady[d]
                                  /\ \A k \in steady'[d] : bucket'[k] = bucket[k]
    <2> DEFINE keys == page \ failed
    <2>1. ObjectsTypeOK /\ keys \in SUBSET Objects /\ Absent \in Holdings /\ Becomes(c, keys, Absent)
        BY <1>1, <1>3, <1>6
    <2> HIDE DEF keys
    <2>2. /\ bucket' \in [Objects -> Holdings] /\ steady' \in [Clients -> SUBSET Objects]
          /\ \A k \in keys : bucket'[k] = Absent
          /\ \A k \in Objects \ keys : bucket'[k] = bucket[k]
          /\ steady'[c] = steady[c]
          /\ \A d \in Clients \ {c} : /\ steady'[d] \subseteq steady[d]
                                      /\ \A k \in steady'[d] : bucket'[k] = bucket[k]
        BY <2>1, BecomesFields
    <2> QED
        BY <2>2 DEF keys
<1> HIDE DEF token
<1>8. /\ o \in OperationState /\ o.at = stage /\ o.token = token
      /\ o.name = op[c].name /\ o.on = op[c].on /\ o.from = op[c].from
      /\ o.content = op[c].content /\ o.folder = op[c].folder
    BY <1>3, <1>5 DEF OperationState
<1> HIDE DEF o
<1>9. op'[c] = o /\ op' \in [Clients -> OperationState]
      /\ \A d \in Clients \ {c} : op'[d] = op[d]
    BY <1>2, <1>3, <1>8
<1>10. missed \subseteq missed' /\ missed' \subseteq missed \cup {c}
       /\ missed' \subseteq Clients
    BY <1>1, <1>3 DEF ObjectsTypeOK
<1>11. Acts(c)
    BY <1>2, <1>3, <1>4, <1>7, <1>8, <1>9, <1>10 DEF Acts, ObjectsTypeOK
<1>12. StageAt(c)' /\ UntouchedAt(c)'
    BY <1>4, <1>8, <1>9 DEF StageAt, UntouchedAt
<1>13. ASSUME c \notin missed', NEW k \in steady[c] \cap op[c].on, k <= token \/ ~op[c].more
       PROVE  bucket'[k] = Absent
    <2>1. failed = {} /\ c \notin missed /\ k \in Objects
        BY <1>1, <1>3, <1>13
    <2>2. CASE k \in page
        BY <2>1, <2>2, <1>7
    <2>3. CASE k \notin page
        <3>1. bucket[k] = Absent
            BY <2>1, <2>3, <1>2, <1>3, <1>13 DEF ListedAt, token
        <3> QED
            BY <2>1, <2>3, <3>1, <1>7
    <2> QED
        BY <2>2, <2>3
<1>14. ListedAt(c)'
    BY <1>7, <1>8, <1>9, <1>13 DEF ListedAt
<1>15. DoneAt(c)'
    <2> SUFFICES ASSUME op'[c].at = "done", c \notin missed', NEW k \in steady'[c] \cap op'[c].on
                 PROVE  bucket'[k] \in Promised(c, k)'
        BY DEF DoneAt
    <2>1. bucket'[k] = Absent
        BY <1>7, <1>8, <1>9, <1>13
    <2>2. Promised(c, k)' = Promised(c, k)
        BY <1>2, <1>8, <1>9, PromiseStands
    <2> QED
        BY <2>1, <2>2, <1>4, FolderPromise
<1> QED
    BY <1>11, <1>12, <1>14, <1>15, ActsKeeps

LEMMA FolderFailsKeeps ==
    ASSUME BucketInv, NEW c \in Clients, FolderFails(c)
    PROVE  BucketInv'
<1>1. PICK some \in SUBSET op[c].page :
        /\ op[c].at = "list" => some = {}
        /\ Becomes(c, some, Absent)
    BY DEF FolderFails
<1>2. op[c].at \in {"list", "delete"} /\ was' = was /\ missed' = missed /\ Goes(c, "thrown")
    BY DEF FolderFails
<1>3. ObjectsTypeOK /\ StageAt(c) /\ op[c] \in OperationState
    BY DEF BucketInv, ClientAt, ObjectsTypeOK
<1>4. some \subseteq op[c].on /\ some \in SUBSET Objects /\ Absent \in Holdings
      /\ op[c].on \subseteq Objects /\ op[c].name = "deleteFolder"
    BY <1>1, <1>2, <1>3 DEF StageAt, OperationState, Holdings
<1>5. /\ bucket' \in [Objects -> Holdings] /\ steady' \in [Clients -> SUBSET Objects]
      /\ \A k \in Objects \ some : bucket'[k] = bucket[k]
      /\ steady'[c] = steady[c]
      /\ \A d \in Clients \ {c} : /\ steady'[d] \subseteq steady[d]
                                  /\ \A k \in steady'[d] : bucket'[k] = bucket[k]
    BY <1>1, <1>3, <1>4, BecomesFields
<1>6. /\ op' \in [Clients -> OperationState]
      /\ \A d \in Clients \ {c} : op'[d] = op[d]
      /\ \A f \in {"name", "on", "from", "content", "folder"} : op'[c][f] = op[c][f]
      /\ op'[c].at = "thrown"
    BY <1>2, <1>3, StageFields
<1>7. Acts(c)
    BY <1>2, <1>3, <1>4, <1>5, <1>6 DEF Acts, ObjectsTypeOK
<1>8. op'[c].name = op[c].name
    BY <1>6
<1>9. StageAt(c)' /\ UntouchedAt(c)' /\ ListedAt(c)' /\ DoneAt(c)'
    BY <1>4, <1>6, <1>8 DEF StageAt, UntouchedAt, ListedAt, DoneAt
<1> QED
    BY <1>7, <1>9, ActsKeeps

-----------------------------------------------------------------------------
LEMMA InitBucketInv == ObjectsInit => BucketInv
<1> SUFFICES ASSUME ObjectsInit PROVE BucketInv
    OBVIOUS
<1>1. /\ Absent \in Holdings /\ Initial \in Holdings
    BY ObjectStoreAssumption DEF ObjectStoreAssumption, Holdings
<1>2. /\ Idle \in OperationState /\ Idle.name = "none" /\ Idle.at = "done"
      /\ Idle.on = {} /\ Idle.from = {}
    BY <1>1 DEF Idle, Operation, OperationState
<1>3. /\ bucket \in [Objects -> Holdings] /\ op = [c \in Clients |-> Idle]
      /\ was = [c \in Clients |-> bucket] /\ steady = [c \in Clients |-> Objects]
      /\ missed = {}
    BY <1>1 DEF ObjectsInit
<1>4. ObjectsTypeOK
    BY <1>2, <1>3 DEF ObjectsTypeOK
<1>5. ASSUME NEW c \in Clients PROVE ClientAt(c)
    <2>1. op[c] = Idle /\ was[c] = bucket
        BY <1>3
    <2> QED
        BY <2>1, <1>2 DEF ClientAt, AskedAt, StageAt, LeftAloneAt, UntouchedAt, ListedAt, DoneAt
<1> QED
    BY <1>4, <1>5 DEF BucketInv

LEMMA NextBucketInv == BucketInv /\ [ObjectsNext]_objectVars => BucketInv'
<1> SUFFICES ASSUME BucketInv, [ObjectsNext]_objectVars PROVE BucketInv'
    OBVIOUS
<1>1. CASE UNCHANGED objectVars
    <2>1. ObjectsTypeOK'
        BY <1>1 DEF objectVars, BucketInv, ObjectsTypeOK
    <2>2. ASSUME NEW c \in Clients PROVE ClientAt(c)'
        BY <1>1, OthersStand DEF objectVars
    <2> QED
        BY <2>1, <2>2 DEF BucketInv
<1>2. CASE ObjectsNext
    <2>1. PICK c \in Clients :
            \/ PutFile(c) \/ RemoveFile(c) \/ DeleteFile(c) \/ Copy(c)
            \/ EnsureFile(c) \/ DeleteFolder(c)
            \/ SendRequest(c) \/ RequestFails(c) \/ Exists(c) \/ ExistsFails(c)
            \/ ListObjects(c) \/ DeleteObjects(c) \/ FolderFails(c)
        BY <1>2 DEF ObjectsNext
    <2> QED
        BY <2>1, OneKeyKeeps, DeleteFolderKeeps, SendRequestKeeps, RequestFailsKeeps, ExistsKeeps,
           ListObjectsKeeps, DeleteObjectsKeeps, FolderFailsKeeps
<1> QED
    BY <1>1, <1>2

(* However many clients put, copy and delete objects at once, with pages of
   any size and requests failing anywhere, an operation that has returned did
   to each key that was its own what it promised, and to no other anything. *)
THEOREM OperationsKeepTheirWord == ObjectsSpec => []BucketAsTold
<1>1. BucketInv => BucketAsTold
    <2> SUFFICES ASSUME BucketInv, NEW c \in Clients
                 PROVE  /\ \A k \in steady[c] \ About(c) : bucket[k] = was[c][k]
                        /\ op[c].at = "done" /\ op[c].name # "none" /\ c \notin missed
                           /\ op[c].from \subseteq steady[c]
                           => \A k \in steady[c] \cap About(c) : bucket[k] \in Promised(c, k)
        BY DEF BucketAsTold
    <2>1. AskedAt(c) /\ LeftAloneAt(c) /\ DoneAt(c)
        BY DEF BucketInv, ClientAt
    <2>2. About(c) = op[c].on
        BY <2>1, FolderListed DEF About, AskedAt
    <2> QED
        BY <2>1, <2>2 DEF LeftAloneAt, DoneAt
<1> QED
    BY <1>1, InitBucketInv, NextBucketInv, PTL DEF ObjectsSpec

-----------------------------------------------------------------------------
(* The entities *)

Values == [Columns -> Nat]

EntityState ==
    [has : BOOLEAN, fields : Values, stored : BOOLEAN, state : Values,
     how : {"pg", "row", "joined"}, edited : SUBSET Columns]

EntitiesTypeOK ==
    /\ kind \in Kinds
    /\ row \in [there : BOOLEAN, cols : Values]
    /\ holder \in [Holders -> EntityState]
    /\ due \in Values
    /\ edits \in Nat

(* A field that differs from what was loaded was edited. *)
ChangesAreEdits == \A h \in Holders : Changed(holder[h]) \subseteq holder[h].edited

EntitiesInv == EntitiesTypeOK /\ ChangesAreEdits /\ EditsKept

(* Where save updates rows, toPg spells every column as a plain SELECT reads
   it, for each of the five tables.                                        *)
LEMMA ReadAsWritten ==
    ASSUME kind \in Kinds, Service[kind].updates,
           NEW c \in Columns \cap DOMAIN Mapper[kind]
    PROVE  Mapper[kind][c] = Parsed[Table[kind][c]]
<1>1. kind \in {"account", "user", "session", "conversation", "messageTask"}
    BY DEF Kinds, Service, MessageService, TokenService
<1>2. CASE kind = "account"
    BY <1>2 DEF Columns, Mapper, AccountMapper, Table, Accounts, Parsed
<1>3. CASE kind = "user"
    BY <1>3 DEF Columns, Mapper, UserMapper, Table, Users, Parsed
<1>4. CASE kind = "session"
    BY <1>4 DEF Columns, Mapper, SessionMapper, Table, Sessions, Parsed
<1>5. CASE kind = "conversation"
    BY <1>5 DEF Columns, Mapper, ConversationMapper, Table, Conversations, Parsed
<1>6. CASE kind = "messageTask"
    BY <1>6 DEF Columns, Mapper, MessageTaskMapper, Table, MessageTasks, Parsed
<1> QED
    BY <1>1, <1>2, <1>3, <1>4, <1>5, <1>6

(* What an UPDATE writes of an entity that did not come out of a join. *)
LEMMA OnlyEdits ==
    ASSUME kind \in Kinds, Service[kind].updates, NEW e \in EntityState,
           e.how # "joined"
    PROVE  Respelled(e) = {}
<1>1. \A c \in Columns \cap DOMAIN Mapper[kind] :
          Mapper[kind][c] = Parsed[Table[kind][c]]
    BY ReadAsWritten
<1> QED
    BY <1>1 DEF Respelled

LEMMA SettledTyped ==
    ASSUME NEW e \in EntityState
    PROVE  Settled(e) \in EntityState /\ Changed(Settled(e)) = {}
BY DEF Settled, Entity, EntityState, Changed

(* An entity takes the place of another, changed only where it was edited. *)
LEMMA HeldChanges ==
    ASSUME kind' = kind, holder \in [Holders -> EntityState], ChangesAreEdits,
           NEW h \in Holders, NEW e, Changed(e) \subseteq e.edited, Hold(h, e)
    PROVE  ChangesAreEdits'
<1>1. \A g \in Holders : holder'[g] = IF g = h THEN e ELSE holder[g]
    BY DEF Hold
<1> QED
    BY <1>1 DEF ChangesAreEdits, Changed, Columns

(* One holder's entity changes, and nothing else that the property reads. *)
LEMMA Held ==
    ASSUME EntitiesInv, NEW h \in Holders, NEW e \in EntityState,
           Changed(e) \subseteq e.edited, Hold(h, e),
           UNCHANGED <<kind, row, due>>, edits' \in Nat, excused \subseteq excused'
    PROVE  EntitiesInv'
<1>1. Columns' = Columns /\ Values' = Values /\ EntityState' = EntityState
    BY DEF Columns, Values, EntityState
<1>2. holder' \in [Holders -> EntityState]
    BY DEF Hold, EntitiesInv, EntitiesTypeOK
<1>3. EntitiesTypeOK'
    BY <1>1, <1>2 DEF EntitiesInv, EntitiesTypeOK
<1>4. EditsKept'
    BY <1>1 DEF EntitiesInv, EditsKept
<1>5. ChangesAreEdits'
    BY HeldChanges DEF EntitiesInv, EntitiesTypeOK
<1> QED
    BY <1>3, <1>4, <1>5 DEF EntitiesInv

(* What an edit touches of itself are columns of its table. *)
LEMMA TouchedColumns ==
    ASSUME kind \in Kinds, NEW form \in Edits[kind]
    PROVE  form.touched \subseteq Columns
<1>1. /\ Kinds = {"account", "user", "session", "conversation", "message",
                  "messageTask", "token"}
    BY DEF Kinds, Service
<1>2. CASE kind \in {"user", "session", "message", "token"}
    BY <1>1, <1>2 DEF Edits, EditUser, MarkEmailVerified, EditSession
<1>3. CASE kind = "account"
    BY <1>3 DEF Edits, EditAccount, Columns, Table, Accounts
<1>4. CASE kind = "conversation"
    BY <1>4 DEF Edits, EditConversation, Columns, Table, Conversations
<1>5. CASE kind = "messageTask"
    BY <1>5 DEF Edits, EditMessageTask, Columns, Table, MessageTasks
<1> QED
    BY <1>1, <1>2, <1>3, <1>4, <1>5

LEMMA EntitiesStep ==
    ASSUME EntitiesInv, [EntitiesNext]_entityVars
    PROVE  EntitiesInv'
<1>1. CASE UNCHANGED entityVars
    BY <1>1 DEF entityVars, EntitiesInv, EntitiesTypeOK, EditsKept, Values, EntityState,
                Columns, ChangesAreEdits, Changed
<1>2. ASSUME NEW h \in Holders,
             \/ New(h) \/ FindOne(h) \/ FindJoined(h) \/ Edit(h)
             \/ InsertRow(h) \/ Update(h) \/ SaveAgain(h) \/ Refused(h) \/ DeleteRow(h)
      PROVE  EntitiesInv'
    <2>0. /\ kind' = kind /\ kind \in Kinds /\ edits \in Nat
          /\ holder \in [Holders -> EntityState] /\ holder[h] \in EntityState
          /\ row \in [there : BOOLEAN, cols : Values] /\ row.cols \in Values
          /\ due \in Values
          /\ holder[h].fields \in Values /\ holder[h].state \in Values
          /\ holder[h].edited \in SUBSET Columns
          /\ ChangesAreEdits /\ Changed(holder[h]) \subseteq holder[h].edited
        BY <1>2 DEF EntitiesInv, EntitiesTypeOK, ChangesAreEdits, EntityState, New, FindOne, FindJoined,
                    Edit, InsertRow, Update, SaveAgain, Refused, DeleteRow
    <2>1. Columns' = Columns /\ Values' = Values /\ EntityState' = EntityState
        BY <2>0 DEF Columns, Values, EntityState
    <2>2. CASE New(h)
        <3> DEFINE fields == [c \in Columns |-> IF c \in BornNull[kind] THEN 0 ELSE 1]
        <3>1. fields \in Values
            BY DEF Values
        <3>2. Hold(h, Entity(fields, FALSE, "pg"))
            BY <2>2 DEF New
        <3> HIDE DEF fields
        <3>3. /\ Entity(fields, FALSE, "pg") \in EntityState
              /\ Changed(Entity(fields, FALSE, "pg")) = {}
            BY <3>1 DEF Entity, EntityState, Changed
        <3> QED
            BY <2>0, <2>2, <3>2, <3>3, Held DEF New
    <2>3. CASE FindOne(h) \/ FindJoined(h)
        <3>1. PICK how \in {"row", "joined"} : Hold(h, Entity(row.cols, TRUE, how))
            BY <2>3 DEF FindOne, FindJoined
        <3>2. /\ Entity(row.cols, TRUE, how) \in EntityState
              /\ Changed(Entity(row.cols, TRUE, how)) = {}
            BY <2>0 DEF Entity, EntityState, Changed
        <3> QED
            BY <2>0, <2>3, <3>1, <3>2, Held DEF FindOne, FindJoined
    <2>4. CASE Edit(h)
        <3> DEFINE Given(cols, v, form) ==
                [c \in Columns |->
                    IF c \in cols THEN (IF v = Back THEN holder[h].state[c] ELSE v)
                    ELSE IF c \in form.touched THEN edits + 2
                    ELSE holder[h].fields[c]]
        <3>1. \E form \in Edits[kind], a, b \in Columns : \E v \in {0, Back, edits + 2} :
                  Hold(h, [holder[h] EXCEPT
                      !.fields = Given({a, b}, v, form),
                      !.edited = @ \cup {a, b} \cup form.touched])
            BY <2>4 DEF Edit
        <3>2. PICK form \in Edits[kind], a, b \in Columns :
                  \E v \in {0, Back, edits + 2} :
                  Hold(h, [holder[h] EXCEPT
                      !.fields = Given({a, b}, v, form),
                      !.edited = @ \cup {a, b} \cup form.touched])
            BY <3>1
        <3>3. PICK v \in {0, Back, edits + 2} :
                  Hold(h, [holder[h] EXCEPT
                      !.fields = Given({a, b}, v, form),
                      !.edited = @ \cup {a, b} \cup form.touched])
            BY <3>2
        <3> DEFINE fields == Given({a, b}, v, form)
                   edited == holder[h].edited \cup {a, b} \cup form.touched
                   e == [holder[h] EXCEPT !.fields = fields, !.edited = edited]
        <3>4. form.touched \subseteq Columns
            BY <2>0, TouchedColumns
        <3>5. fields \in Values
            BY <2>0 DEF Values, Back
        <3>6. \A c \in Columns : c \notin edited => fields[c] = holder[h].fields[c]
            OBVIOUS
        <3>7. edited \in SUBSET Columns /\ holder[h].edited \subseteq edited
            BY <2>0, <3>4
        <3>8. Hold(h, e)
            BY <3>3
        <3> HIDE DEF fields, edited, Given
        <3>9. /\ e \in EntityState /\ e.fields = fields /\ e.edited = edited
              /\ e.state = holder[h].state
            BY <2>0, <3>5, <3>7 DEF EntityState
        <3>10. Changed(e) \subseteq e.edited
            BY <2>0, <3>6, <3>7, <3>9 DEF Changed
        <3> HIDE DEF e
        <3> QED
            BY <2>0, <2>4, <3>8, <3>9, <3>10, Held DEF Edit
    <2>5. CASE InsertRow(h)
        <3>1. /\ row' = [there |-> TRUE, cols |-> holder[h].fields]
              /\ due' = holder[h].fields
              /\ Hold(h, Settled(holder[h])) /\ edits' = edits
            BY <2>5 DEF InsertRow
        <3>2. holder' \in [Holders -> EntityState]
            BY <2>0, <3>1, SettledTyped DEF Hold
        <3>3. EntitiesTypeOK'
            BY <2>0, <2>1, <3>1, <3>2 DEF EntitiesTypeOK
        <3>4. EditsKept'
            BY <3>1 DEF EditsKept
        <3>5. ChangesAreEdits'
            BY <2>0, <3>1, SettledTyped, HeldChanges
        <3> QED
            BY <3>3, <3>4, <3>5 DEF EntitiesInv
    <2>6. CASE Update(h)
        <3> DEFINE e == holder[h]
        <3>1. /\ row' = Written(e, Diff(e)) /\ due' = Due(e, e.edited)
              /\ excused' = (excused \ e.edited) \cup Unseen(e)
                    \cup (IF e.how = "joined" THEN Respelled(e) ELSE {})
              /\ Hold(h, Settled(e)) /\ edits' = edits /\ Service[kind].updates
            BY <2>6 DEF Update
        <3>2. holder' \in [Holders -> EntityState]
            BY <2>0, <3>1, SettledTyped DEF Hold
        <3>3. /\ row'.there = row.there /\ row' \in [there : BOOLEAN, cols : Values]
              /\ \A c \in Columns : row'.cols[c] =
                     IF row.there /\ c \in Diff(e) THEN e.fields[c] ELSE row.cols[c]
            <4> DEFINE cols == [c \in Columns |-> IF row.there /\ c \in Diff(e)
                                                  THEN e.fields[c] ELSE row.cols[c]]
            <4>1. cols \in Values
                BY <2>0 DEF Values
            <4>2. row' = [row EXCEPT !.cols = cols]
                BY <3>1 DEF Written
            <4>3. \A c \in Columns : cols[c] = IF row.there /\ c \in Diff(e)
                                               THEN e.fields[c] ELSE row.cols[c]
                OBVIOUS
            <4> HIDE DEF cols, e
            <4> QED
                BY <2>0, <4>1, <4>2, <4>3
        <3>4. /\ due' \in Values
              /\ \A c \in Columns : due'[c] = IF c \in e.edited THEN e.fields[c] ELSE due[c]
            BY <2>0, <3>1 DEF Due, Values
        <3>5. EntitiesTypeOK'
            BY <2>0, <2>1, <3>1, <3>2, <3>3, <3>4 DEF EntitiesTypeOK
        <3>6. Diff(e) \subseteq e.edited \cup excused'
            <4>1. CASE e.how = "joined"
                BY <2>0, <3>1, <4>1 DEF Diff
            <4>2. CASE e.how # "joined"
                BY <2>0, <3>1, <4>2, OnlyEdits DEF Diff
            <4> QED
                BY <4>1, <4>2
        <3>7. EditsKept'
            <4>1. ASSUME row'.there, NEW c \in Columns, c \notin excused'
                  PROVE  row'.cols[c] = due'[c]
                <5>1. CASE c \in Diff(e) /\ c \in e.edited
                    BY <3>3, <3>4, <4>1, <5>1
                <5>2. CASE c \in e.edited /\ c \notin Diff(e)
                    <6>1. row.cols[c] = e.fields[c]
                        BY <3>1, <4>1, <5>2 DEF Unseen
                    <6> QED
                        BY <3>3, <3>4, <4>1, <5>2, <6>1
                <5>3. CASE c \notin e.edited
                    <6>1. c \notin Diff(e) /\ c \notin excused
                        BY <3>1, <3>6, <4>1, <5>3
                    <6>2. row.cols[c] = due[c]
                        BY <3>3, <4>1, <6>1 DEF EntitiesInv, EditsKept
                    <6> QED
                        BY <3>3, <3>4, <4>1, <5>3, <6>1, <6>2
                <5> QED
                    BY <5>1, <5>2, <5>3
            <4> QED
                BY <2>1, <4>1 DEF EditsKept
        <3>8. ChangesAreEdits'
            BY <2>0, <3>1, SettledTyped, HeldChanges
        <3> QED
            BY <3>5, <3>7, <3>8 DEF EntitiesInv
    <2>7. CASE SaveAgain(h)
        BY <2>0, <2>7, SettledTyped, Held DEF SaveAgain
    <2>8. CASE Refused(h)
        <3>1. PICK e \in {holder[h], Settled(holder[h])} : Hold(h, e)
            <4>1. holder' = holder => Hold(h, holder[h])
                BY <2>0 DEF Hold
            <4> QED
                BY <2>8, <4>1 DEF Refused
        <3>2. /\ e \in EntityState /\ Changed(e) \subseteq e.edited
              /\ excused \subseteq excused'
            BY <2>0, <2>8, SettledTyped DEF Refused
        <3> QED
            BY <2>0, <2>8, <3>1, <3>2, Held DEF Refused
    <2>9. CASE DeleteRow(h)
        <3>1. /\ row' = [row EXCEPT !.there = FALSE]
              /\ UNCHANGED <<holder, due, edits>>
            BY <2>9 DEF DeleteRow
        <3>2. row' \in [there : BOOLEAN, cols : Values] /\ row'.there = FALSE
            BY <2>0, <3>1
        <3>3. EntitiesTypeOK'
            BY <2>0, <2>1, <3>1, <3>2 DEF EntitiesTypeOK
        <3>4. ChangesAreEdits'
            BY <2>0, <3>1 DEF ChangesAreEdits, Changed, Columns
        <3> QED
            BY <3>2, <3>3, <3>4 DEF EntitiesInv, EditsKept
    <2> QED
        BY <1>2, <2>2, <2>3, <2>4, <2>5, <2>6, <2>7, <2>8, <2>9
<1> QED
    BY <1>1, <1>2 DEF EntitiesNext

(* However two services, or any number, load, edit and save one row in turn,
   a column holds what the last acknowledged edit of it gave it, but for the
   three losses of the code: a failure that the service swallowed, a
   timestamp that a join respelled, and an edit back to the value that was
   loaded, while someone else has written another.                         *)
THEOREM NoEditLost == EntitiesSpec => []EditsKept
<1>1. EntitiesInit => EntitiesInv
    <2> SUFFICES ASSUME EntitiesInit PROVE EntitiesInv
        OBVIOUS
    <2>1. [c \in Columns |-> 0] \in Values
        BY DEF Values
    <2>2. /\ row = [there |-> FALSE, cols |-> [c \in Columns |-> 0]]
          /\ holder = [h \in Holders |-> NoEntity]
          /\ due = [c \in Columns |-> 0] /\ kind \in Kinds /\ edits = 0
        BY DEF EntitiesInit
    <2>3. NoEntity \in EntityState
        BY <2>1 DEF NoEntity, EntityState
    <2>4. ChangesAreEdits
        BY <2>2 DEF ChangesAreEdits, Changed, NoEntity
    <2> QED
        BY <2>1, <2>2, <2>3, <2>4 DEF EntitiesInv, EntitiesTypeOK, EditsKept
<1>2. EntitiesInv /\ [EntitiesNext]_entityVars => EntitiesInv'
    BY EntitiesStep
<1>3. EntitiesInv => EditsKept
    BY DEF EntitiesInv
<1> QED
    BY <1>1, <1>2, <1>3, PTL DEF EntitiesSpec

-----------------------------------------------------------------------------
(* Charts *)

(* What a chart draws of a row is among the figures it is checked for. *)
LEMMA FiguresAreDrawn ==
    ASSUME NEW spec, NEW drawn \in ToSet(spec.data),
           NEW p \in ToSet(drawn), p.value # Text, p.key \in ToSet(spec.series)
    PROVE  p.value \in Figures(spec)
<1>1. PICK i \in DOMAIN drawn : p = drawn[i]
    BY DEF ToSet
<1> DEFINE shown == {drawn[j].value : j \in {k \in DOMAIN drawn :
                                                drawn[k].key \in ToSet(spec.series)}}
<1>3. p.value \in shown
    BY <1>1
<1> DEFINE ofRows == {{r[j].value : j \in {k \in DOMAIN r :
                                             r[k].key \in ToSet(spec.series)}} :
                         r \in ToSet(spec.data)}
<1>4. Figures(spec) = (UNION ofRows) \ {Text}
    BY DEF Figures
<1>5. shown \in ofRows
    OBVIOUS
<1> HIDE DEF shown, ofRows
<1>6. p.value \in UNION ofRows
    BY <1>3, <1>5
<1> QED
    BY <1>4, <1>6

(* Whatever the model writes and the remapping makes of it, a figure that is
   drawn came from the tool, if the tool gave any, or is one that the model
   put in quotes: those the check lets through.                            *)
THEOREM ChartsAreTraceable == ChartSpec => []ChartTraceable
<1>1. ChartInit => ChartTraceable
    BY DEF ChartInit, ChartTraceable
<1>2. ASSUME ChartTraceable, [ChartNext]_chartVars
      PROVE  ChartTraceable'
    <2>1. CASE UNCHANGED chartVars \/ WriteRow
        BY <1>2, <2>1 DEF chartVars, WriteRow, ChartTraceable
    <2>2. CASE Render
        <3>1. PICK spec : chart' = spec /\ IsChartDataGrounded(spec)
            BY <2>2 DEF Render
        <3>2. toolNumbers' = toolNumbers
            BY <2>2 DEF Render
        <3>3. ASSUME toolNumbers # {}, NEW drawn \in ToSet(spec.data),
                     NEW p \in ToSet(drawn), p.value # Text,
                     p.key \in ToSet(spec.series)
              PROVE  p.value = Numeral \/ p.value \in toolNumbers
            <4>1. p.value \in Figures(spec)
                BY <3>3, FiguresAreDrawn
            <4> QED
                BY <3>1, <3>3, <4>1 DEF IsChartDataGrounded
        <3> QED
            BY <3>1, <3>2, <3>3 DEF ChartTraceable
    <2> QED
        BY <1>2, <2>1, <2>2 DEF ChartNext
<1> QED
    BY <1>1, <1>2, PTL DEF ChartSpec

-----------------------------------------------------------------------------
(* The cleanup *)

USE StoredFilesAssumption DEF StoredFilesAssumption

-----------------------------------------------------------------------------
(* Pages of a listing *)

(* A set of file numbers that is not empty has a least and a greatest
   element.                                                                *)
LEMMA LeastFile ==
    ASSUME NEW S \in SUBSET Files, S # {}
    PROVE  \E f \in S : \A g \in S : f <= g
BY LeastNumber DEF Files

LEMMA GreatestFile ==
    ASSUME NEW S \in SUBSET Files, S # {}
    PROVE  \E f \in S : \A g \in S : g <= f
<1> DEFINE T == {MaxFiles + 1 - f : f \in S}
<1>0. \A f \in S : f \in Nat /\ 1 <= f /\ f <= MaxFiles
    BY DEF Files
<1>1. T \in SUBSET Files /\ T # {}
    <2>1. \A f \in S : MaxFiles + 1 - f \in Files
        BY <1>0 DEF Files
    <2>2. PICK f \in S : TRUE
        OBVIOUS
    <2>3. MaxFiles + 1 - f \in T
        BY <2>2
    <2> QED
        BY <2>1, <2>3
<1>2. PICK t \in T : \A u \in T : t <= u
    BY <1>1, LeastFile
<1>3. PICK f \in S : t = MaxFiles + 1 - f
    BY <1>2
<1>4. ASSUME NEW g \in S
      PROVE  g <= f
    <2>1. t <= MaxFiles + 1 - g
        BY <1>2, <1>4
    <2> QED
        BY <2>1, <1>3, <1>4 DEF Files
<1> QED
    BY <1>3, <1>4

(* The page of a listing that has keys left is not empty, and the token after
   it is one of its keys, or none.                                         *)
LEMMA PageFilled ==
    ASSUME NEW rest \in SUBSET Files, rest # {}
    PROVE  Page(rest) # {} /\ Page(rest) \subseteq rest
<1>1. PICK f \in rest : \A g \in rest : f <= g
    BY LeastFile
<1>2. {g \in rest : g < f} = {}
    <2>1. \A g \in rest : g \in Nat /\ f <= g
        BY <1>1 DEF Files
    <2>2. \A g \in rest : ~(g < f)
        BY <2>1
    <2> QED
        BY <2>2
<1>3. Cardinality({g \in rest : g < f}) < PageSize
    BY <1>2, FS_EmptySet
<1> QED
    BY <1>1, <1>3 DEF Page

LEMMA TokenInPage ==
    ASSUME NEW rest \in SUBSET Files, rest # {}
    PROVE  NextToken(rest) \in 0 .. MaxFiles
<1>1. CASE Page(rest) = rest
    BY <1>1 DEF NextToken
<1>2. CASE Page(rest) # rest
    <2>1. Page(rest) \in SUBSET Files /\ Page(rest) # {}
        BY PageFilled
    <2>2. PICK f \in Page(rest) : \A g \in Page(rest) : g <= f
        BY <2>1, GreatestFile
    <2>3. Max(Page(rest)) \in Page(rest)
        BY <2>2 DEF Max
    <2> QED
        BY <1>2, <2>1, <2>3 DEF NextToken, Files
<1> QED
    BY <1>1, <1>2

-----------------------------------------------------------------------------
(* Types *)

LEMMA StagesTyped ==
    ASSUME NEW F, NEW stage \in Stage
    PROVE  Stages(F, stage) \in [Files -> Stage]
BY DEF Stages, Stage

LEMMA NoSaveTyped == NoSave \in SaveState
<1>1. (CHOOSE o \in Owners : TRUE) \in Owners
    OBVIOUS
<1>2. Stages({}, "none") \in [Files -> Stage]
    BY StagesTyped DEF Stage
<1> QED
    BY <1>1, <1>2 DEF NoSave, SaveState

LEMMA InitTyped == FilesInit => FilesTypeOK
<1> SUFFICES ASSUME FilesInit PROVE FilesTypeOK
    OBVIOUS
<1>1. saves \in [Savers -> SaveState]
    BY NoSaveTyped DEF FilesInit
<1>2. cleaner \in CleanerState
    BY DEF FilesInit, CleanerState, Folders
<1>3. minted \in 0 .. MaxFiles
    BY DEF FilesInit
<1> QED
    BY <1>1, <1>2, <1>3 DEF FilesInit, FilesTypeOK

(* One save's locals change at a time. *)
LEMMA SaveTyped ==
    ASSUME FilesTypeOK, NEW s \in Savers, NEW new \in SaveState,
           saves' = [saves EXCEPT ![s] = new]
    PROVE  saves' \in [Savers -> SaveState]
BY DEF FilesTypeOK

LEMMA ReachTyped ==
    ASSUME FilesTypeOK, NEW s \in Savers, NEW f \in Files, NEW stage \in Stage,
           Reach(s, f, stage)
    PROVE  saves' \in [Savers -> SaveState]
<1>1. saves[s] \in SaveState
    BY DEF FilesTypeOK
<1>2. [saves[s] EXCEPT !.stage[f] = stage] \in SaveState
    BY <1>1 DEF SaveState
<1>3. saves' = [saves EXCEPT ![s] = [saves[s] EXCEPT !.stage[f] = stage]]
    BY DEF Reach, FilesTypeOK
<1> QED
    BY <1>2, <1>3, SaveTyped

LEMMA DisturbTyped ==
    ASSUME FilesTypeOK, NEW o \in Owners, Disturb(o)
    PROVE  saves' \in [Savers -> SaveState] /\ kept' \in [Owners -> SUBSET Files]
<1>1. ASSUME NEW s \in Savers
      PROVE  [saves[s] EXCEPT !.alone = @ /\ ~(Saving(s) /\ saves[s].owner = o)]
                 \in SaveState
    <2>1. saves[s] \in SaveState
        BY DEF FilesTypeOK
    <2> QED
        BY <2>1 DEF SaveState
<1>2. saves' \in [Savers -> SaveState]
    BY <1>1 DEF Disturb
<1>3. kept' \in [Owners -> SUBSET Files]
    BY DEF Disturb, Forget, FilesTypeOK
<1> QED
    BY <1>2, <1>3

LEMMA AdvanceTyped ==
    ASSUME FilesTypeOK, NEW token \in 0 .. MaxFiles, NEW met \in BOOLEAN,
           Advance(token, met)
    PROVE  cleaner' \in CleanerState /\ cleaner'.orphans = {}
<1>1. cleaner \in CleanerState
    BY DEF FilesTypeOK
<1>2. cleaner.folder \in Folders /\ 2 \in Folders
    BY <1>1 DEF CleanerState, Folders
<1> QED
    BY <1>1, <1>2 DEF Advance, CleanerState

LEMMA BeginTyped ==
    ASSUME FilesTypeOK, NEW s \in Savers, NEW o \in Owners,
           NEW stages \in [Files -> Stage], NEW expired \in BOOLEAN,
           Begin(s, o, stages, expired)
    PROVE  FilesTypeOK'
<1> DEFINE Others == {t \in Savers : Saving(t) /\ saves[t].owner = o}
           new == [at |-> "delete", owner |-> o, stage |-> stages,
                   expired |-> expired, alone |-> Others = {}]
<1>1. new \in SaveState
    BY DEF SaveState
<1>2. ASSUME NEW t \in Savers
      PROVE  [saves[t] EXCEPT !.alone = @ /\ t \notin Others] \in SaveState
    <2>1. saves[t] \in SaveState
        BY DEF FilesTypeOK
    <2> QED
        BY <2>1 DEF SaveState
<1>3. saves' = [t \in Savers |->
                  IF t = s THEN new
                  ELSE [saves[t] EXCEPT !.alone = @ /\ t \notin Others]]
    BY DEF Begin
<1>4. saves' \in [Savers -> SaveState]
    BY <1>1, <1>2, <1>3
<1>5. kept' \in [Owners -> SUBSET Files]
    BY DEF Begin, Forget, FilesTypeOK
<1> QED
    BY <1>4, <1>5 DEF Begin, counters, FilesTypeOK

LEMMA SaveKeepsTypes ==
    ASSUME FilesTypeOK, NEW s \in Savers, Save(s)
    PROVE  FilesTypeOK'
<1>0. saves[s] \in SaveState
    BY DEF FilesTypeOK
<1>1. CASE SaveNew(s)
    <2>1. PICK o \in Owners, F \in SUBSET (1 .. minted) :
              Begin(s, o, Stages(F, "head"), FALSE)
        BY <1>1 DEF SaveNew
    <2>2. Stages(F, "head") \in [Files -> Stage]
        BY StagesTyped DEF Stage
    <2> QED
        BY <2>1, <2>2, BeginTyped
<1>2. CASE SaveEdited(s)
    <2>1. PICK r \in rows, o \in Owners, f \in 1 .. minted :
              Begin(s, o, Stages({f}, IF f = r.file THEN "insert" ELSE "head"), r.expired)
        BY <1>2 DEF SaveEdited
    <2>2. Stages({f}, IF f = r.file THEN "insert" ELSE "head") \in [Files -> Stage]
        BY StagesTyped DEF Stage
    <2>3. r.expired \in BOOLEAN
        BY DEF FilesTypeOK, Row
    <2> QED
        BY <2>1, <2>2, <2>3, BeginTyped
<1>3. CASE DeleteRelated(s)
    <2>1. [saves[s] EXCEPT !.at = "create"] \in SaveState
        BY <1>0 DEF SaveState
    <2>2. saves' \in [Savers -> SaveState]
        BY <1>3, <2>1, SaveTyped DEF DeleteRelated, FilesTypeOK
    <2> QED
        BY <1>3, <2>2 DEF DeleteRelated, FilesTypeOK, counters, history
<1>4. CASE Return(s) \/ DeleteRelatedFails(s)
    <2>1. saves' \in [Savers -> SaveState]
        BY <1>4, NoSaveTyped, SaveTyped DEF Return, DeleteRelatedFails
    <2> QED
        BY <1>4, <2>1 DEF Return, DeleteRelatedFails, FilesTypeOK, counters, history
<1>5. ASSUME NEW f \in Files, SetMetaInfo(s, f)
      PROVE  FilesTypeOK'
    <2>1. saves' \in [Savers -> SaveState]
        BY <1>5, ReachTyped DEF SetMetaInfo, Stage
    <2> QED
        BY <1>5, <2>1 DEF SetMetaInfo, FilesTypeOK, history
<1>6. ASSUME NEW f \in Files, Create(s, f)
      PROVE  FilesTypeOK'
    <2>1. saves' \in [Savers -> SaveState]
        BY <1>6, ReachTyped DEF Create, Stage
    <2>2. [file |-> f, owner |-> saves[s].owner, expired |-> saves[s].expired] \in Row
        BY <1>0 DEF SaveState, Row
    <2>3. rows' \subseteq Row
        BY <1>6, <2>2 DEF Create, FilesTypeOK
    <2>4. kept' \in [Owners -> SUBSET Files]
        BY <1>0, <1>6 DEF Create, FilesTypeOK, SaveState
    <2>5. late' \subseteq Files /\ garbage' \subseteq Files
        BY <1>6 DEF Create, FilesTypeOK
    <2> QED
        BY <1>6, <2>1, <2>3, <2>4, <2>5 DEF Create, FilesTypeOK
<1>7. ASSUME NEW f \in Files, CreateFails(s, f)
      PROVE  FilesTypeOK'
    <2>1. saves' \in [Savers -> SaveState]
        BY <1>7, ReachTyped DEF CreateFails, Stage
    <2> QED
        BY <1>7, <2>1 DEF CreateFails, FilesTypeOK, history
<1> QED
    BY <1>1, <1>2, <1>3, <1>4, <1>5, <1>6, <1>7 DEF Save

LEMMA OthersKeepTypes ==
    ASSUME FilesTypeOK,
           \/ GetPresignUploadUrl
           \/ \E f \in Files : Upload(f)
           \/ \E r \in rows : Delete(r) \/ Expire(r)
           \/ \E o \in Owners : OwnerGone(o)
    PROVE  FilesTypeOK'
<1>1. CASE GetPresignUploadUrl
    BY <1>1 DEF GetPresignUploadUrl, FilesTypeOK, history
<1>2. ASSUME NEW f \in Files, Upload(f)
      PROVE  FilesTypeOK'
    <2>1. objects' \subseteq 1 .. minted'
        BY <1>2 DEF Upload, FilesTypeOK, Files
    <2> QED
        BY <1>2, <2>1 DEF Upload, FilesTypeOK
<1>3. ASSUME NEW r \in rows, Delete(r)
      PROVE  FilesTypeOK'
    <2>1. r.owner \in Owners
        BY DEF FilesTypeOK, Row
    <2>2. saves' \in [Savers -> SaveState] /\ kept' \in [Owners -> SUBSET Files]
        BY <1>3, <2>1, DisturbTyped DEF Delete
    <2> QED
        BY <1>3, <2>2 DEF Delete, FilesTypeOK
<1>4. ASSUME NEW r \in rows, Expire(r)
      PROVE  FilesTypeOK'
    <2>1. r \in Row
        BY DEF FilesTypeOK
    <2>2. saves' \in [Savers -> SaveState] /\ kept' \in [Owners -> SUBSET Files]
        BY <1>4, <2>1, DisturbTyped DEF Expire, Row
    <2>3. [r EXCEPT !.expired = TRUE] \in Row
        BY <2>1 DEF Row
    <2>4. rows' \subseteq Row
        BY <1>4, <2>3 DEF Expire, FilesTypeOK
    <2> QED
        BY <1>4, <2>2, <2>4 DEF Expire, FilesTypeOK
<1>5. ASSUME NEW o \in Owners, OwnerGone(o)
      PROVE  FilesTypeOK'
    <2>1. saves' \in [Savers -> SaveState] /\ kept' \in [Owners -> SUBSET Files]
        BY <1>5, DisturbTyped DEF OwnerGone
    <2> QED
        BY <1>5, <2>1 DEF OwnerGone, FilesTypeOK
<1> QED
    BY <1>1, <1>2, <1>3, <1>4, <1>5

LEMMA CleanupKeepsTypes ==
    ASSUME FilesTypeOK, Cleanup
    PROVE  FilesTypeOK'
<1>0. cleaner \in CleanerState
    BY DEF FilesTypeOK
<1>1. CASE StartCleanup
    <2>1. 1 \in Folders /\ 0 \in 0 .. MaxFiles
        BY DEF Folders
    <2>3. cleaner' \in CleanerState
        BY <1>0, <1>1, <2>1 DEF StartCleanup, CleanerState
    <2>2. garbage' \subseteq Files
        BY <1>1 DEF StartCleanup, FilesTypeOK, Files
    <2> QED
        BY <1>1, <2>2, <2>3 DEF StartCleanup, FilesTypeOK
<1>2. CASE DatabaseFails
    <2>1. cleaner' \in CleanerState
        BY <1>0, <1>2 DEF DatabaseFails, CleanerState
    <2> QED
        BY <1>2, <2>1 DEF DatabaseFails, FilesTypeOK, history
<1>3. CASE CleanExpired
    <2>1. cleaner' \in CleanerState
        BY <1>0, <1>3 DEF CleanExpired, CleanerState
    <2> QED
        BY <1>3, <2>1 DEF CleanExpired, FilesTypeOK, history, counters
<1>4. CASE FindOwnerTables
    <2> DEFINE found == {r.owner : r \in rows}
    <2>1. found \in SUBSET Owners
        BY DEF FilesTypeOK, Row
    <2>2. cleaner' = [cleaner EXCEPT !.tables = found,
                                     !.at = IF found = {} THEN "list" ELSE "orphans"]
        BY <1>4 DEF FindOwnerTables
    <2> HIDE DEF found
    <2>3. cleaner' \in CleanerState
        BY <1>0, <2>1, <2>2 DEF CleanerState
    <2> QED
        BY <1>4, <2>3 DEF FindOwnerTables, FilesTypeOK, history, counters
<1>9. ASSUME NEW o \in Owners, CleanOrphans(o)
      PROVE  FilesTypeOK'
    <2>1. cleaner' \in CleanerState
        BY <1>0, <1>9 DEF CleanOrphans, CleanerState
    <2>2. rows' \subseteq rows
        BY <1>9 DEF CleanOrphans
    <2> QED
        BY <1>9, <2>1, <2>2 DEF CleanOrphans, FilesTypeOK, history
<1>5. CASE ListPage
    <2> DEFINE rest == After(cleaner.folder, cleaner.token)
    <2>1. rest \in SUBSET Files
        <3>1. objects \subseteq Files
            BY DEF FilesTypeOK, Files
        <3> QED
            BY <3>1 DEF After
    <2>2. 0 \in 0 .. MaxFiles /\ cleaner.met \in BOOLEAN
        BY <1>0 DEF CleanerState
    <2>3. ASSUME rest # {},
                 cleaner' = [cleaner EXCEPT !.at = "read", !.content = Page(rest),
                                            !.token = NextToken(rest)]
          PROVE  cleaner' \in CleanerState
        <3>1. Page(rest) \in SUBSET Files /\ NextToken(rest) \in 0 .. MaxFiles
            BY <2>1, <2>3, PageFilled, TokenInPage
        <3> HIDE DEF rest
        <3> QED
            BY <1>0, <2>3, <3>1 DEF CleanerState
    <2>4. cleaner' \in CleanerState
        <3>1. \/ Advance(0, cleaner.met) \/ Advance(0, TRUE)
              \/ rest # {} /\ cleaner' = [cleaner EXCEPT !.at = "read",
                                  !.content = Page(rest), !.token = NextToken(rest)]
            BY <1>5 DEF ListPage
        <3>2. ASSUME Advance(0, cleaner.met) \/ Advance(0, TRUE)
              PROVE  cleaner' \in CleanerState
            BY <2>2, <3>2, AdvanceTyped
        <3> QED
            BY <2>3, <3>1, <3>2
    <2> QED
        BY <1>5, <2>4 DEF ListPage, FilesTypeOK, history
<1>6. CASE ReadRows
    <2> DEFINE orphans == cleaner.content \ Existing(cleaner.content)
    <2>1. orphans \in SUBSET Files
        BY <1>0 DEF CleanerState
    <2>2. ASSUME Advance(cleaner.token, cleaner.met)
          PROVE  cleaner' \in CleanerState
        <3>1. cleaner.token \in 0 .. MaxFiles /\ cleaner.met \in BOOLEAN
            BY <1>0 DEF CleanerState
        <3> QED
            BY <2>2, <3>1, AdvanceTyped
    <2>3. ASSUME cleaner' = [cleaner EXCEPT !.at = "remove", !.content = {},
                                            !.orphans = orphans]
          PROVE  cleaner' \in CleanerState
        BY <1>0, <2>1, <2>3 DEF CleanerState
    <2>4. cleaner' \in CleanerState
        BY <1>6, <2>2, <2>3 DEF ReadRows
    <2> QED
        BY <1>6, <2>4 DEF ReadRows, FilesTypeOK, history, counters
<1>7. ASSUME NEW f \in Files, RemoveObject(f)
      PROVE  FilesTypeOK'
    <2> DEFINE rest == cleaner.orphans \ {f}
    <2>1. cleaner.token \in 0 .. MaxFiles /\ cleaner.met \in BOOLEAN /\ TRUE \in BOOLEAN
          /\ rest \in SUBSET Files
        BY <1>0 DEF CleanerState
    <2>2. \/ Advance(cleaner.token, cleaner.met)
          \/ Advance(cleaner.token, TRUE)
          \/ cleaner' = [cleaner EXCEPT !.orphans = rest]
          \/ cleaner' = [cleaner EXCEPT !.orphans = rest, !.met = TRUE]
        BY <1>7 DEF RemoveObject
    <2>3. cleaner' \in CleanerState
        <3>1. CASE Advance(cleaner.token, cleaner.met)
            BY <2>1, <3>1, AdvanceTyped
        <3>2. CASE Advance(cleaner.token, TRUE)
            BY <2>1, <3>2, AdvanceTyped
        <3>3. CASE cleaner' = [cleaner EXCEPT !.orphans = rest]
            BY <1>0, <2>1, <3>3 DEF CleanerState
        <3>4. CASE cleaner' = [cleaner EXCEPT !.orphans = rest, !.met = TRUE]
            BY <1>0, <2>1, <3>4 DEF CleanerState
        <3> QED
            BY <2>2, <3>1, <3>2, <3>3, <3>4
    <2>4. objects' \subseteq 1 .. minted'
        BY <1>7 DEF RemoveObject, FilesTypeOK
    <2> QED
        BY <1>7, <2>3, <2>4 DEF RemoveObject, FilesTypeOK, history
<1>8. CASE EndCleanup
    <2>1. cleaner' \in CleanerState
        BY <1>0, <1>8 DEF EndCleanup, CleanerState
    <2> QED
        BY <1>8, <2>1 DEF EndCleanup, FilesTypeOK, counters
<1> QED
    BY <1>1, <1>2, <1>3, <1>4, <1>5, <1>6, <1>7, <1>8, <1>9 DEF Cleanup

LEMMA NextTyped ==
    ASSUME FilesTypeOK, [FilesNext]_filesVars
    PROVE  FilesTypeOK'
<1>1. CASE UNCHANGED filesVars
    BY <1>1 DEF filesVars, FilesTypeOK, counters, history
<1> QED
    BY <1>1, SaveKeepsTypes, OthersKeepTypes, CleanupKeepsTypes DEF FilesNext

(* Type correctness of the model of stored files. *)
THEOREM FilesTypes == FilesSpec => []FilesTypeOK
BY InitTyped, NextTyped, PTL DEF FilesSpec

-----------------------------------------------------------------------------
(* The cleanup spares what is stored *)

(* An orphan with a row has got it since the cleanup read the table. *)
OrphansLate == \A f \in cleaner.orphans : Rowed(f) => f \in late

SpareInv == FilesTypeOK /\ CleanupSparesStored /\ OrphansLate

(* Steps that bring no row, no orphan and no loss of an object. *)
LEMMA QuietKeepsSpared ==
    ASSUME SpareInv,
           \A r \in rows' : \E q \in rows : q.file = r.file,
           objects \subseteq objects',
           cleaner'.orphans \subseteq cleaner.orphans,
           late' = late
    PROVE  CleanupSparesStored' /\ OrphansLate'
<1>1. CleanupSparesStored'
    BY DEF SpareInv, CleanupSparesStored
<1>2. OrphansLate'
    BY DEF SpareInv, OrphansLate, Rowed
<1> QED
    BY <1>1, <1>2

LEMMA CreateSpares ==
    ASSUME SpareInv, NEW s \in Savers, NEW f \in Files, Create(s, f)
    PROVE  CleanupSparesStored' /\ OrphansLate'
<1>1. /\ rows' = rows \cup {[file |-> f, owner |-> saves[s].owner,
                             expired |-> saves[s].expired]}
      /\ ~Rowed(f)
      /\ late' = IF f \notin objects \/ f \in cleaner.orphans
                 THEN late \cup {f} ELSE late \ {f}
      /\ objects' = objects /\ cleaner' = cleaner
    BY DEF Create
<1>2. ASSUME NEW r \in rows'
      PROVE  r.file \in objects' \/ r.file \in late'
    <2>1. CASE r.file = f
        BY <1>1, <2>1
    <2>2. CASE r.file # f
        <3>1. r \in rows
            BY <1>1, <2>2
        <3> QED
            BY <1>1, <2>2, <3>1 DEF SpareInv, CleanupSparesStored
    <2> QED
        BY <2>1, <2>2
<1>3. ASSUME NEW g \in cleaner'.orphans, Rowed(g)'
      PROVE  g \in late'
    <2>1. CASE g = f
        BY <1>1, <1>3, <2>1
    <2>2. CASE g # f
        <3>1. Rowed(g)
            BY <1>1, <1>3, <2>2 DEF Rowed
        <3> QED
            BY <1>1, <1>3, <2>2, <3>1 DEF SpareInv, OrphansLate
    <2> QED
        BY <2>1, <2>2
<1> QED
    BY <1>2, <1>3 DEF CleanupSparesStored, OrphansLate

LEMMA RemoveSpares ==
    ASSUME SpareInv, NEW f \in Files, RemoveObject(f)
    PROVE  CleanupSparesStored' /\ OrphansLate'
<1>0. cleaner \in CleanerState
    BY DEF SpareInv, FilesTypeOK
<1>1. /\ f \in cleaner.orphans
      /\ objects \ {f} \subseteq objects' /\ rows' = rows /\ late' = late
    BY DEF RemoveObject, history
<1>2. cleaner'.orphans \subseteq cleaner.orphans
    BY <1>0 DEF RemoveObject, Advance, CleanerState
<1>3. ASSUME NEW r \in rows'
      PROVE  r.file \in objects' \/ r.file \in late'
    <2>1. CASE r.file = f
        BY <1>1, <2>1 DEF SpareInv, OrphansLate, Rowed
    <2>2. CASE r.file # f
        BY <1>1, <2>2 DEF SpareInv, CleanupSparesStored
    <2> QED
        BY <2>1, <2>2
<1>4. OrphansLate'
    BY <1>1, <1>2 DEF SpareInv, OrphansLate, Rowed
<1> QED
    BY <1>3, <1>4 DEF CleanupSparesStored

LEMMA ReadRowsSpares ==
    ASSUME SpareInv, ReadRows
    PROVE  CleanupSparesStored' /\ OrphansLate'
<1>0. cleaner \in CleanerState
    BY DEF SpareInv, FilesTypeOK
<1>1. /\ objects' = objects /\ rows' = rows /\ late' = late
    BY DEF ReadRows, history
<1> DEFINE orphans == cleaner.content \ Existing(cleaner.content)
<1>2. \A f \in cleaner'.orphans : ~Rowed(f)
    <2>1. \A f \in orphans : ~Rowed(f)
        BY DEF Existing
    <2>2. cleaner'.orphans \subseteq orphans
        <3>1. \/ Advance(cleaner.token, cleaner.met)
              \/ cleaner' = [cleaner EXCEPT !.at = "remove", !.content = {},
                                            !.orphans = orphans]
            BY DEF ReadRows
        <3>2. CASE Advance(cleaner.token, cleaner.met)
            BY <1>0, <3>2 DEF Advance, CleanerState
        <3>3. CASE cleaner' = [cleaner EXCEPT !.at = "remove", !.content = {},
                                            !.orphans = orphans]
            BY <1>0, <3>3 DEF CleanerState
        <3> QED
            BY <3>1, <3>2, <3>3
    <2> QED
        BY <2>1, <2>2
<1> QED
    BY <1>1, <1>2 DEF SpareInv, CleanupSparesStored, OrphansLate, Rowed

LEMMA SpareStep ==
    ASSUME SpareInv, [FilesNext]_filesVars
    PROVE  SpareInv'
<1>0. cleaner \in CleanerState /\ FilesTypeOK'
    BY NextTyped DEF SpareInv, FilesTypeOK
<1>1. CASE UNCHANGED filesVars
    BY <1>1, QuietKeepsSpared, <1>0 DEF filesVars, history, SpareInv
<1>2. CASE GetPresignUploadUrl
    BY <1>2, QuietKeepsSpared, <1>0 DEF GetPresignUploadUrl, history, SpareInv
<1>3. ASSUME NEW f \in Files, Upload(f)
      PROVE  SpareInv'
    BY <1>3, QuietKeepsSpared, <1>0 DEF Upload, SpareInv
<1>4. ASSUME NEW s \in Savers, Save(s)
      PROVE  SpareInv'
    <2>1. CASE SaveNew(s) \/ SaveEdited(s)
        BY <2>1, QuietKeepsSpared, <1>0 DEF SaveNew, SaveEdited, Begin, SpareInv
    <2>2. CASE DeleteRelated(s)
        BY <2>2, QuietKeepsSpared, <1>0 DEF DeleteRelated, history, SpareInv
    <2>3. CASE Return(s) \/ DeleteRelatedFails(s)
        BY <2>3, QuietKeepsSpared, <1>0 DEF Return, DeleteRelatedFails, history, SpareInv
    <2>4. ASSUME NEW f \in Files, SetMetaInfo(s, f) \/ CreateFails(s, f)
          PROVE  SpareInv'
        BY <2>4, QuietKeepsSpared, <1>0 DEF SetMetaInfo, CreateFails, history, SpareInv
    <2>5. ASSUME NEW f \in Files, Create(s, f)
          PROVE  SpareInv'
        BY <2>5, CreateSpares, <1>0 DEF SpareInv
    <2> QED
        BY <1>4, <2>1, <2>2, <2>3, <2>4, <2>5 DEF Save
<1>5. ASSUME NEW r \in rows, Delete(r)
      PROVE  SpareInv'
    BY <1>5, QuietKeepsSpared, <1>0 DEF Delete, SpareInv
<1>6. ASSUME NEW r \in rows, Expire(r)
      PROVE  SpareInv'
    <2>1. r \in Row
        BY DEF SpareInv, FilesTypeOK
    <2>2. [r EXCEPT !.expired = TRUE].file = r.file
        BY <2>1 DEF Row
    <2>3. \A p \in rows' : \E q \in rows : q.file = p.file
        BY <1>6, <2>2 DEF Expire
    <2> QED
        BY <1>6, <2>3, QuietKeepsSpared, <1>0 DEF Expire, SpareInv
<1>7. ASSUME NEW o \in Owners, OwnerGone(o)
      PROVE  SpareInv'
    BY <1>7, QuietKeepsSpared, <1>0 DEF OwnerGone, SpareInv
<1>8. CASE Cleanup
    <2>1. CASE StartCleanup
        <3>1. cleaner'.orphans = cleaner.orphans
            BY <1>0, <2>1 DEF StartCleanup, CleanerState
        <3> QED
            BY <2>1, <3>1, QuietKeepsSpared, <1>0 DEF StartCleanup, SpareInv
    <2>2. CASE DatabaseFails
        <3>1. cleaner'.orphans = cleaner.orphans
            BY <1>0, <2>2 DEF DatabaseFails, CleanerState
        <3> QED
            BY <2>2, <3>1, QuietKeepsSpared, <1>0 DEF DatabaseFails, history, SpareInv
    <2>3. CASE CleanExpired \/ FindOwnerTables \/ \E o \in Owners : CleanOrphans(o)
        <3>1. cleaner'.orphans = cleaner.orphans
            <4>1. CASE CleanExpired
                BY <1>0, <4>1 DEF CleanExpired, CleanerState
            <4>2. CASE FindOwnerTables
                BY <1>0, <4>2 DEF FindOwnerTables, CleanerState
            <4>3. ASSUME NEW o \in Owners, CleanOrphans(o)
                  PROVE  cleaner'.orphans = cleaner.orphans
                BY <1>0, <4>3 DEF CleanOrphans, CleanerState
            <4> QED
                BY <2>3, <4>1, <4>2, <4>3
        <3>2. rows' \subseteq rows /\ objects' = objects /\ late' = late
            BY <2>3 DEF CleanExpired, FindOwnerTables, CleanOrphans, history
        <3> QED
            BY <3>1, <3>2, QuietKeepsSpared, <1>0 DEF SpareInv
    <2>4. CASE ListPage
        <3>1. cleaner'.orphans \subseteq cleaner.orphans
            BY <1>0, <2>4 DEF ListPage, Advance, CleanerState
        <3> QED
            BY <2>4, <3>1, QuietKeepsSpared, <1>0 DEF ListPage, history, SpareInv
    <2>5. CASE ReadRows
        BY <2>5, ReadRowsSpares, <1>0 DEF SpareInv
    <2>6. ASSUME NEW f \in Files, RemoveObject(f)
          PROVE  SpareInv'
        BY <2>6, RemoveSpares, <1>0 DEF SpareInv
    <2>7. CASE EndCleanup
        <3>1. cleaner'.orphans = cleaner.orphans
            BY <1>0, <2>7 DEF EndCleanup, CleanerState
        <3> QED
            BY <2>7, <3>1, QuietKeepsSpared, <1>0 DEF EndCleanup, SpareInv
    <2> QED
        BY <1>8, <2>1, <2>2, <2>3, <2>4, <2>5, <2>6, <2>7 DEF Cleanup
<1> QED
    BY <1>1, <1>2, <1>3, <1>4, <1>5, <1>6, <1>7, <1>8 DEF FilesNext

(* A row that is in the table while the cleanup lists, reads and removes
   keeps its object, however the uploads, the saves and other cleanups
   interleave.                                                             *)
THEOREM StoredSpared == FilesSpec => []CleanupSparesStored
<1>1. FilesInit => SpareInv
    BY InitTyped DEF FilesInit, SpareInv, CleanupSparesStored, OrphansLate
<1>2. SpareInv /\ [FilesNext]_filesVars => SpareInv'
    BY SpareStep
<1>3. SpareInv => CleanupSparesStored
    BY DEF SpareInv
<1> QED
    BY <1>1, <1>2, <1>3, PTL DEF FilesSpec

-----------------------------------------------------------------------------
(* Saved files stay *)

OwnRows(o) == {r \in rows : r.owner = o}
WrittenAt(o, F) == {r.file : r \in OwnRows(o)} = F
Live(o) == o \notin gone /\ \A r \in OwnRows(o) : ~r.expired
Done(s) == {f \in Files : saves[s].stage[f] = "done"}

(* What the history keeps of an owner is what the table says, nothing is
   about to delete it, and nobody is saving files of that owner.           *)
KeptAt(o) ==
    kept[o] # {} =>
       /\ WrittenAt(o, kept[o]) /\ Live(o)
       /\ \A s \in Savers : Saving(s) => saves[s].owner # o

(* A save that nothing has disturbed finds in the table what it has inserted
   so far, and nothing else of its owner.                                  *)
ProgressAt(s) ==
    /\ saves[s].at = "create" /\ Busy(s)
    /\ saves[s].alone /\ ~saves[s].expired /\ saves[s].owner \notin gone
    => WrittenAt(saves[s].owner, Done(s)) /\ Live(saves[s].owner)

FreshAt(s) == saves[s].at = "delete" => Done(s) = {}

(* Of two saves of one owner neither is alone. *)
PairAt(s, t) ==
    s # t /\ Saving(s) /\ Saving(t) /\ saves[s].owner = saves[t].owner
       => ~saves[s].alone

StayInv ==
    /\ FilesTypeOK
    /\ \A o \in Owners : KeptAt(o)
    /\ \A s \in Savers : ProgressAt(s) /\ FreshAt(s)
    /\ \A s, t \in Savers : PairAt(s, t)

(* A step of the cleanup deletes none but dead rows. *)
LEMMA DeadRowsLeave ==
    ASSUME StayInv, FilesTypeOK',
           rows' \subseteq rows, \A r \in rows \ rows' : Dead(r),
           UNCHANGED <<saves, kept, gone>>
    PROVE  StayInv'
<1>1. ASSUME NEW o \in Owners, Live(o)
      PROVE  OwnRows(o)' = OwnRows(o) /\ Live(o)'
    <2>1. \A r \in OwnRows(o) : ~Dead(r)
        BY <1>1 DEF Live, OwnRows, Dead
    <2>2. OwnRows(o)' = OwnRows(o)
        BY <2>1 DEF OwnRows
    <2> QED
        BY <1>1, <2>2 DEF Live
<1>2. \A s \in Savers : /\ Busy(s)' = Busy(s) /\ Saving(s)' = Saving(s)
                        /\ Done(s)' = Done(s)
    BY DEF Busy, Saving, Done
<1>3. ASSUME NEW o \in Owners
      PROVE  KeptAt(o)'
    BY <1>1, <1>2 DEF StayInv, KeptAt, WrittenAt
<1>4. ASSUME NEW s \in Savers
      PROVE  ProgressAt(s)' /\ FreshAt(s)'
    <2>1. saves[s].owner \in Owners
        BY DEF StayInv, FilesTypeOK, SaveState
    <2> QED
        BY <1>1, <1>2, <2>1 DEF StayInv, ProgressAt, FreshAt, WrittenAt
<1>5. ASSUME NEW s \in Savers, NEW t \in Savers
      PROVE  PairAt(s, t)'
    BY <1>2 DEF StayInv, PairAt
<1> QED
    BY <1>3, <1>4, <1>5 DEF StayInv

(* A deletion, an expiry or the end of an owner disturbs that owner only. *)
LEMMA DisturbedForgets ==
    ASSUME StayInv, FilesTypeOK', NEW p \in Owners, Disturb(p),
           \A r : r.owner # p => (r \in rows' <=> r \in rows),
           gone' \subseteq gone \cup {p}, gone \subseteq gone'
    PROVE  StayInv'
<1>1. ASSUME NEW s \in Savers
      PROVE  /\ saves'[s].at = saves[s].at /\ saves'[s].owner = saves[s].owner
             /\ saves'[s].stage = saves[s].stage
             /\ saves'[s].expired = saves[s].expired
             /\ saves'[s].alone => saves[s].alone
             /\ Saving(s) /\ saves[s].owner = p => ~saves'[s].alone
    <2>1. saves[s] \in SaveState
        BY DEF StayInv, FilesTypeOK
    <2>2. saves'[s] = [saves[s] EXCEPT !.alone =
                          saves[s].alone /\ ~(Saving(s) /\ saves[s].owner = p)]
        BY DEF Disturb
    <2> QED
        BY <2>1, <2>2 DEF SaveState
<1>2. ASSUME NEW s \in Savers
      PROVE  Busy(s)' = Busy(s) /\ Saving(s)' = Saving(s) /\ Done(s)' = Done(s)
    BY <1>1 DEF Busy, Saving, Done
<1>3. ASSUME NEW o \in Owners, o # p
      PROVE  OwnRows(o)' = OwnRows(o) /\ Live(o)' = Live(o)
    <2>1. OwnRows(o)' = OwnRows(o)
        BY <1>3 DEF OwnRows
    <2> QED
        BY <1>3, <2>1 DEF Live
<1>4. ASSUME NEW o \in Owners
      PROVE  KeptAt(o)'
    <2>1. CASE o = p
        <3>1. kept'[o] = {}
            BY <2>1 DEF Disturb, Forget, StayInv, FilesTypeOK
        <3> QED
            BY <3>1 DEF KeptAt
    <2>2. CASE o # p
        <3>1. kept'[o] = kept[o]
            BY <2>2 DEF Disturb, Forget, StayInv, FilesTypeOK
        <3> QED
            BY <1>1, <1>2, <1>3, <2>2, <3>1 DEF StayInv, KeptAt, WrittenAt
    <2> QED
        BY <2>1, <2>2
<1>5. ASSUME NEW s \in Savers
      PROVE  ProgressAt(s)' /\ FreshAt(s)'
    <2>1. saves[s].owner \in Owners
        BY DEF StayInv, FilesTypeOK, SaveState
    <2>2. CASE saves[s].owner = p
        <3>1. saves[s].at = "create" /\ Busy(s) => ~saves'[s].alone
            BY <1>1, <2>2 DEF Saving
        <3> QED
            BY <1>1, <1>2, <3>1 DEF StayInv, ProgressAt, FreshAt
    <2>3. CASE saves[s].owner # p
        <3>1. saves[s].owner \in gone' <=> saves[s].owner \in gone
            BY <2>3
        <3> QED
            BY <1>1, <1>2, <1>3, <2>1, <2>3, <3>1
            DEF StayInv, ProgressAt, FreshAt, WrittenAt
    <2> QED
        BY <2>2, <2>3
<1>6. ASSUME NEW s \in Savers, NEW t \in Savers
      PROVE  PairAt(s, t)'
    BY <1>1, <1>2 DEF StayInv, PairAt
<1> QED
    BY <1>4, <1>5, <1>6 DEF StayInv

LEMMA BeginStays ==
    ASSUME StayInv, FilesTypeOK', NEW s \in Savers, NEW o \in Owners,
           NEW stages \in [Files -> Stage], NEW expired \in BOOLEAN,
           \A f \in Files : stages[f] # "done",
           Begin(s, o, stages, expired)
    PROVE  StayInv'
<1> DEFINE Others == {t \in Savers : Saving(t) /\ saves[t].owner = o}
<1>1. saves'[s] = [at |-> "delete", owner |-> o, stage |-> stages,
                   expired |-> expired, alone |-> Others = {}]
    BY DEF Begin
<1>2. ASSUME NEW t \in Savers, t # s
      PROVE  /\ saves'[t].at = saves[t].at /\ saves'[t].owner = saves[t].owner
             /\ saves'[t].stage = saves[t].stage
             /\ saves'[t].expired = saves[t].expired
             /\ saves'[t].alone => saves[t].alone
             /\ t \in Others => ~saves'[t].alone
    <2>1. saves[t] \in SaveState
        BY DEF StayInv, FilesTypeOK
    <2>2. saves'[t] = [saves[t] EXCEPT !.alone = saves[t].alone /\ t \notin Others]
        BY <1>2 DEF Begin
    <2> HIDE DEF Others
    <2> QED
        BY <2>1, <2>2 DEF SaveState
<1>3. ASSUME NEW t \in Savers, t # s
      PROVE  Busy(t)' = Busy(t) /\ Saving(t)' = Saving(t) /\ Done(t)' = Done(t)
    BY <1>2, <1>3 DEF Busy, Saving, Done
<1>4. rows' = rows /\ gone' = gone /\ kept' = [kept EXCEPT ![o] = {}]
    BY DEF Begin, Forget
<1>5. ASSUME NEW p \in Owners
      PROVE  KeptAt(p)'
    <2>1. CASE p = o
        BY <1>4, <2>1 DEF KeptAt, StayInv, FilesTypeOK
    <2>2. CASE p # o
        <3>1. kept'[p] = kept[p] /\ OwnRows(p)' = OwnRows(p) /\ Live(p)' = Live(p)
            BY <1>4, <2>2 DEF StayInv, FilesTypeOK, OwnRows, Live
        <3>2. ASSUME NEW t \in Savers, kept[p] # {}, Saving(t)'
              PROVE  saves'[t].owner # p
            BY <1>1, <1>2, <1>3, <2>2, <3>2 DEF StayInv, KeptAt
        <3> QED
            BY <3>1, <3>2 DEF StayInv, KeptAt, WrittenAt
    <2> QED
        BY <2>1, <2>2
<1>6. ASSUME NEW t \in Savers
      PROVE  ProgressAt(t)' /\ FreshAt(t)'
    <2>1. CASE t = s
        BY <1>1, <2>1 DEF ProgressAt, FreshAt, Done
    <2>2. CASE t # s
        BY <1>2, <1>3, <1>4, <2>2
        DEF StayInv, ProgressAt, FreshAt, WrittenAt, OwnRows, Live
    <2> QED
        BY <2>1, <2>2
<1>7. ASSUME NEW t \in Savers, NEW u \in Savers
      PROVE  PairAt(t, u)'
    <2>1. CASE t # s /\ u # s
        BY <1>2, <1>3, <2>1 DEF StayInv, PairAt
    <2>2. CASE t = s /\ u # s
        <3>1. ASSUME Saving(u), saves[u].owner = o
              PROVE  ~saves'[s].alone
            <4>1. u \in Others
                BY <3>1
            <4> HIDE DEF Others
            <4>2. Others # {}
                BY <4>1
            <4>3. saves'[s].alone = (Others = {})
                BY <1>1
            <4> DEFINE lonely == Others = {}
            <4>4. ~lonely
                BY <4>2
            <4> HIDE DEF lonely
            <4>5. saves'[s].alone = lonely
                BY <4>3 DEF lonely
            <4> QED
                BY <4>4, <4>5, Zenon
        <3>2. Saving(u)' /\ saves'[u].owner = o => Saving(u) /\ saves[u].owner = o
            BY <1>2, <1>3, <2>2
        <3> QED
            BY <1>1, <2>2, <3>1, <3>2 DEF PairAt
    <2>3. CASE t # s /\ u = s
        BY <1>1, <1>2, <1>3, <2>3 DEF PairAt
    <2>4. CASE t = s /\ u = s
        BY <2>4 DEF PairAt
    <2> QED
        BY <2>1, <2>2, <2>3, <2>4
<1> QED
    BY <1>5, <1>6, <1>7 DEF StayInv

LEMMA DeleteRelatedStays ==
    ASSUME StayInv, FilesTypeOK', NEW s \in Savers, DeleteRelated(s)
    PROVE  StayInv'
<1>0. saves[s] \in SaveState /\ saves[s].owner \in Owners
    BY DEF StayInv, FilesTypeOK, SaveState
<1>1. /\ saves'[s].at = "create" /\ saves'[s].owner = saves[s].owner
      /\ saves'[s].stage = saves[s].stage /\ saves'[s].alone = saves[s].alone
      /\ saves'[s].expired = saves[s].expired
    <2>1. saves'[s] = [saves[s] EXCEPT !.at = "create"]
        BY DEF DeleteRelated, StayInv, FilesTypeOK
    <2> QED
        BY <1>0, <2>1 DEF SaveState
<1>2. \A t \in Savers : t # s => saves'[t] = saves[t]
    BY DEF DeleteRelated, StayInv, FilesTypeOK
<1>3. /\ rows' = {r \in rows : r.owner # saves[s].owner}
      /\ gone' = gone /\ kept' = kept /\ Saving(s)
    BY DEF DeleteRelated, history, Saving
<1>4. \A t \in Savers : /\ t # s => Busy(t)' = Busy(t)
                        /\ Saving(t)' => Saving(t)
                        /\ saves'[t].owner = saves[t].owner
                        /\ saves'[t].alone = saves[t].alone
                        /\ Done(t)' = Done(t)
    BY <1>1, <1>2, <1>3 DEF Busy, Saving, Done
<1>5. ASSUME NEW p \in Owners, p # saves[s].owner
      PROVE  OwnRows(p)' = OwnRows(p) /\ Live(p)' = Live(p)
    BY <1>3, <1>5 DEF OwnRows, Live
<1>6. ASSUME NEW p \in Owners
      PROVE  KeptAt(p)'
    <2>1. CASE p = saves[s].owner
        BY <1>3, <2>1 DEF StayInv, KeptAt
    <2>2. CASE p # saves[s].owner
        BY <1>3, <1>4, <1>5, <2>2 DEF StayInv, KeptAt, WrittenAt
    <2> QED
        BY <2>1, <2>2
<1>7. ASSUME NEW t \in Savers
      PROVE  ProgressAt(t)' /\ FreshAt(t)'
    <2>1. CASE t = s
        <3>1. {r \in rows' : r.owner = saves[s].owner} = {}
            BY <1>3
        <3>2. Done(s) = {}
            BY DEF DeleteRelated, StayInv, FreshAt
        <3> QED
            BY <1>1, <1>3, <1>4, <2>1, <3>1, <3>2
            DEF ProgressAt, FreshAt, WrittenAt, Live, OwnRows
    <2>2. CASE t # s /\ saves[t].owner = saves[s].owner
        <3>1. saves[t].at = "create" /\ Busy(t) => ~saves[t].alone
            BY <1>3, <2>2 DEF StayInv, PairAt, Saving
        <3> QED
            BY <1>2, <1>4, <2>2, <3>1 DEF StayInv, ProgressAt, FreshAt
    <2>3. CASE t # s /\ saves[t].owner # saves[s].owner
        <3>1. saves[t].owner \in Owners
            BY DEF StayInv, FilesTypeOK, SaveState
        <3> QED
            BY <1>2, <1>3, <1>4, <1>5, <2>3, <3>1
            DEF StayInv, ProgressAt, FreshAt, WrittenAt
    <2> QED
        BY <2>1, <2>2, <2>3
<1>8. ASSUME NEW t \in Savers, NEW u \in Savers
      PROVE  PairAt(t, u)'
    BY <1>4 DEF StayInv, PairAt
<1> QED
    BY <1>6, <1>7, <1>8 DEF StayInv

(* A save moves on, or ends, without a row. *)
LEMMA RowlessStays ==
    ASSUME StayInv, FilesTypeOK', NEW s \in Savers,
           \A t \in Savers : t # s => saves'[t] = saves[t],
           UNCHANGED <<rows, gone, kept>>,
           \/ saves'[s].at = "idle"
           \/ /\ saves'[s].at = saves[s].at /\ saves'[s].owner = saves[s].owner
              /\ saves'[s].alone = saves[s].alone
              /\ saves'[s].expired = saves[s].expired
              /\ saves[s].at = "create" /\ Busy(s) /\ Done(s)' = Done(s)
    PROVE  StayInv'
<1>1. \A t \in Savers : /\ t # s => Busy(t)' = Busy(t) /\ Done(t)' = Done(t)
                        /\ Saving(t)' => /\ Saving(t)
                                         /\ saves'[t].owner = saves[t].owner
                                         /\ saves'[t].alone = saves[t].alone
    BY DEF Busy, Saving, Done
<1>2. ASSUME NEW o \in Owners
      PROVE  KeptAt(o)'
    BY <1>1 DEF StayInv, KeptAt, WrittenAt, OwnRows, Live
<1>3. ASSUME NEW t \in Savers
      PROVE  ProgressAt(t)' /\ FreshAt(t)'
    <2>1. CASE t = s
        BY <2>1 DEF StayInv, ProgressAt, FreshAt, WrittenAt, OwnRows, Live
    <2>2. CASE t # s
        BY <1>1, <2>2 DEF StayInv, ProgressAt, FreshAt, WrittenAt, OwnRows, Live
    <2> QED
        BY <2>1, <2>2
<1>4. ASSUME NEW t \in Savers, NEW u \in Savers
      PROVE  PairAt(t, u)'
    BY <1>1 DEF StayInv, PairAt
<1> QED
    BY <1>2, <1>3, <1>4 DEF StayInv

LEMMA CreateStays ==
    ASSUME StayInv, FilesTypeOK', NEW s \in Savers, NEW f \in Files, Create(s, f)
    PROVE  StayInv'
<1> DEFINE stage == [saves[s].stage EXCEPT ![f] = "done"]
           DoneNow == {g \in Files : stage[g] = "done"}
           Whole == \A g \in Files : stage[g] \in {"none", "done"}
           Sound == saves[s].alone /\ ~saves[s].expired /\ saves[s].owner \notin gone
           newRow == [file |-> f, owner |-> saves[s].owner, expired |-> saves[s].expired]
<1>0. saves[s] \in SaveState /\ saves[s].owner \in Owners
    BY DEF StayInv, FilesTypeOK, SaveState
<1>1. /\ saves'[s].at = "create" /\ saves'[s].owner = saves[s].owner
      /\ saves'[s].stage = stage /\ saves'[s].alone = saves[s].alone
      /\ saves'[s].expired = saves[s].expired
    <2>1. saves'[s] = [saves[s] EXCEPT !.stage[f] = "done"]
        BY DEF Create, Reach, StayInv, FilesTypeOK
    <2>2. saves[s].at = "create"
        BY DEF Create
    <2> QED
        BY <1>0, <2>1, <2>2 DEF SaveState
<1>2. \A t \in Savers : t # s => saves'[t] = saves[t]
    BY DEF Create, Reach, StayInv, FilesTypeOK
<1>3. /\ rows' = rows \cup {newRow} /\ gone' = gone
      /\ saves[s].at = "create" /\ Busy(s) /\ Saving(s)
    BY DEF Create, Busy, Saving
<1>4. kept' = IF Whole /\ Sound
              THEN [kept EXCEPT ![saves[s].owner] = DoneNow] ELSE kept
    BY DEF Create
<1>5. DoneNow = Done(s) \cup {f} /\ Done(s)' = DoneNow
    BY <1>0, <1>1 DEF Done, SaveState
<1>6. kept[saves[s].owner] = {}
    BY <1>0, <1>3 DEF StayInv, KeptAt
<1>7. ASSUME NEW p \in Owners, p # saves[s].owner
      PROVE  OwnRows(p)' = OwnRows(p) /\ Live(p)' = Live(p)
    <2>1. OwnRows(p)' = OwnRows(p)
        BY <1>3, <1>7 DEF OwnRows
    <2> QED
        BY <1>3, <2>1 DEF Live
<1>8. \A t \in Savers : /\ t # s => Busy(t)' = Busy(t) /\ Done(t)' = Done(t)
                        /\ Saving(t)' => Saving(t)
                        /\ saves'[t].owner = saves[t].owner
                        /\ saves'[t].alone = saves[t].alone
    BY <1>1, <1>2, <1>3 DEF Busy, Saving, Done
<1>9. ASSUME Sound
      PROVE  /\ {r.file : r \in {q \in rows' : q.owner = saves[s].owner}} = DoneNow
             /\ saves[s].owner \notin gone'
             /\ \A r \in rows' : r.owner = saves[s].owner => ~r.expired
    <2>1. WrittenAt(saves[s].owner, Done(s)) /\ Live(saves[s].owner)
        BY <1>3, <1>9 DEF StayInv, ProgressAt
    <2>2. {q \in rows' : q.owner = saves[s].owner} = OwnRows(saves[s].owner) \cup {newRow}
        BY <1>3 DEF OwnRows
    <2>3. {r.file : r \in OwnRows(saves[s].owner) \cup {newRow}} = Done(s) \cup {f}
        <3>1. {r.file : r \in OwnRows(saves[s].owner)} = Done(s)
            BY <2>1 DEF WrittenAt
        <3>2. newRow.file = f
            OBVIOUS
        <3>3. {r.file : r \in OwnRows(saves[s].owner) \cup {newRow}}
                  = {r.file : r \in OwnRows(saves[s].owner)} \cup {newRow.file}
            <4> HIDE DEF newRow
            <4> QED
                OBVIOUS
        <3> QED
            BY <3>1, <3>2, <3>3
    <2>4. \A r \in OwnRows(saves[s].owner) \cup {newRow} : ~r.expired
        BY <1>9, <2>1 DEF Live
    <2> QED
        BY <1>3, <1>5, <1>9, <2>2, <2>3, <2>4
<1>10. ASSUME NEW p \in Owners
       PROVE  KeptAt(p)'
    <2>1. CASE p = saves[s].owner /\ Whole /\ Sound
        <3>1. kept'[p] = DoneNow
            BY <1>4, <2>1 DEF StayInv, FilesTypeOK
        <3>2. \A g \in Files : saves'[s].stage[g] \notin {"head", "insert"}
            BY <1>1, <2>1
        <3>3. ~Saving(s)'
            BY <1>1, <3>2 DEF Saving, Busy
        <3>4. ASSUME NEW t \in Savers, Saving(t)'
              PROVE  saves'[t].owner # p
            BY <1>3, <1>8, <2>1, <3>3, <3>4 DEF StayInv, PairAt
        <3>5. {r.file : r \in {q \in rows' : q.owner = p}} = DoneNow
            BY <1>9, <2>1
        <3>6. p \notin gone' /\ \A r \in rows' : r.owner = p => ~r.expired
            BY <1>9, <2>1
        <3> QED
            BY <3>1, <3>4, <3>5, <3>6 DEF KeptAt, WrittenAt, Live, OwnRows
    <2>2. CASE p = saves[s].owner /\ ~(Whole /\ Sound)
        BY <1>4, <1>6, <2>2 DEF KeptAt
    <2>3. CASE p # saves[s].owner
        <3>1. kept'[p] = kept[p]
            BY <1>0, <1>4, <2>3 DEF StayInv, FilesTypeOK
        <3> QED
            BY <1>7, <1>8, <2>3, <3>1 DEF StayInv, KeptAt, WrittenAt
    <2> QED
        BY <2>1, <2>2, <2>3
<1>11. ASSUME NEW t \in Savers
       PROVE  ProgressAt(t)' /\ FreshAt(t)'
    <2>1. CASE t = s
        BY <1>1, <1>3, <1>5, <1>9, <2>1
        DEF ProgressAt, FreshAt, WrittenAt, Live, OwnRows
    <2>2. CASE t # s /\ saves[t].owner = saves[s].owner
        <3>1. saves[t].at = "create" /\ Busy(t) => ~saves[t].alone
            BY <1>3, <2>2 DEF StayInv, PairAt, Saving
        <3> QED
            BY <1>2, <1>8, <2>2, <3>1 DEF StayInv, ProgressAt, FreshAt
    <2>3. CASE t # s /\ saves[t].owner # saves[s].owner
        <3>1. saves[t].owner \in Owners
            BY DEF StayInv, FilesTypeOK, SaveState
        <3> QED
            BY <1>2, <1>3, <1>7, <1>8, <2>3, <3>1
            DEF StayInv, ProgressAt, FreshAt, WrittenAt
    <2> QED
        BY <2>1, <2>2, <2>3
<1>12. ASSUME NEW t \in Savers, NEW u \in Savers
       PROVE  PairAt(t, u)'
    BY <1>8 DEF StayInv, PairAt
<1> QED
    BY <1>10, <1>11, <1>12 DEF StayInv

LEMMA SaveStays ==
    ASSUME StayInv, FilesTypeOK', NEW s \in Savers, Save(s)
    PROVE  StayInv'
<1>0. saves[s] \in SaveState
    BY DEF StayInv, FilesTypeOK
<1>1. CASE SaveNew(s)
    <2>1. PICK o \in Owners, F \in SUBSET (1 .. minted) :
              Begin(s, o, Stages(F, "head"), FALSE)
        BY <1>1 DEF SaveNew
    <2>2. /\ Stages(F, "head") \in [Files -> Stage]
          /\ \A f \in Files : Stages(F, "head")[f] # "done"
        BY DEF Stages, Stage
    <2> QED
        BY <2>1, <2>2, BeginStays
<1>2. CASE SaveEdited(s)
    <2>1. PICK r \in rows, o \in Owners, f \in 1 .. minted :
              Begin(s, o, Stages({f}, IF f = r.file THEN "insert" ELSE "head"), r.expired)
        BY <1>2 DEF SaveEdited
    <2> DEFINE stage == IF f = r.file THEN "insert" ELSE "head"
    <2>2. /\ Stages({f}, stage) \in [Files -> Stage]
          /\ \A g \in Files : Stages({f}, stage)[g] # "done"
        BY DEF Stages, Stage
    <2>3. r.expired \in BOOLEAN
        BY DEF StayInv, FilesTypeOK, Row
    <2> QED
        BY <2>1, <2>2, <2>3, BeginStays
<1>3. CASE DeleteRelated(s)
    BY <1>3, DeleteRelatedStays
<1>4. CASE Return(s) \/ DeleteRelatedFails(s)
    <2>1. saves'[s].at = "idle" /\ \A t \in Savers : t # s => saves'[t] = saves[t]
        BY <1>4 DEF Return, DeleteRelatedFails, StayInv, FilesTypeOK, NoSave
    <2> QED
        BY <1>4, <2>1, RowlessStays DEF Return, DeleteRelatedFails, history
<1>5. ASSUME NEW f \in Files, SetMetaInfo(s, f) \/ CreateFails(s, f)
      PROVE  StayInv'
    <2>1. PICK stage \in {"insert", "failed"} : Reach(s, f, stage)
        BY <1>5 DEF SetMetaInfo, CreateFails
    <2>2. /\ saves[s].at = "create" /\ saves[s].stage[f] \in {"head", "insert"}
          /\ UNCHANGED <<rows, gone, kept>>
        BY <1>5 DEF SetMetaInfo, CreateFails, history
    <2>3. saves'[s] = [saves[s] EXCEPT !.stage[f] = stage]
        BY <2>1 DEF Reach, StayInv, FilesTypeOK
    <2>4. /\ saves'[s].at = saves[s].at /\ saves'[s].owner = saves[s].owner
          /\ saves'[s].alone = saves[s].alone
          /\ saves'[s].expired = saves[s].expired
          /\ saves'[s].stage = [saves[s].stage EXCEPT ![f] = stage]
        BY <1>0, <2>3 DEF SaveState
    <2>5. Done(s)' = Done(s)
        BY <1>0, <2>2, <2>4 DEF Done, SaveState
    <2>6. \A t \in Savers : t # s => saves'[t] = saves[t]
        BY <2>1 DEF Reach, StayInv, FilesTypeOK
    <2> QED
        BY <2>2, <2>4, <2>5, <2>6, RowlessStays DEF Busy
<1>6. ASSUME NEW f \in Files, Create(s, f)
      PROVE  StayInv'
    BY <1>6, CreateStays
<1> QED
    BY <1>1, <1>2, <1>3, <1>4, <1>5, <1>6 DEF Save

LEMMA StayStep ==
    ASSUME StayInv, [FilesNext]_filesVars
    PROVE  StayInv'
<1>0. FilesTypeOK'
    BY NextTyped DEF StayInv
<1>1. ASSUME UNCHANGED <<rows, saves, kept, gone>>
      PROVE  StayInv'
    BY <1>0, <1>1, DeadRowsLeave
<1>2. CASE UNCHANGED filesVars
    BY <1>1, <1>2 DEF filesVars, history
<1>3. CASE GetPresignUploadUrl
    BY <1>1, <1>3 DEF GetPresignUploadUrl, history
<1>4. ASSUME NEW f \in Files, Upload(f)
      PROVE  StayInv'
    BY <1>1, <1>4 DEF Upload
<1>5. ASSUME NEW r \in rows, Delete(r)
      PROVE  StayInv'
    <2>1. r.owner \in Owners
        BY DEF StayInv, FilesTypeOK, Row
    <2>2. Disturb(r.owner) /\ rows' = rows \ {r} /\ gone' = gone
        BY <1>5 DEF Delete
    <2> QED
        BY <1>0, <2>1, <2>2, DisturbedForgets
<1>6. ASSUME NEW r \in rows, Expire(r)
      PROVE  StayInv'
    <2>1. r \in Row /\ r.owner \in Owners
        BY DEF StayInv, FilesTypeOK, Row
    <2>2. [r EXCEPT !.expired = TRUE].owner = r.owner
        BY <2>1 DEF Row
    <2>3. /\ Disturb(r.owner) /\ gone' = gone
          /\ rows' = (rows \ {r}) \cup {[r EXCEPT !.expired = TRUE]}
        BY <1>6 DEF Expire
    <2>4. \A q : q.owner # r.owner => (q \in rows' <=> q \in rows)
        BY <2>2, <2>3
    <2> QED
        BY <1>0, <2>1, <2>3, <2>4, DisturbedForgets
<1>7. ASSUME NEW o \in Owners, OwnerGone(o)
      PROVE  StayInv'
    <2>1. Disturb(o) /\ rows' = rows /\ gone' = gone \cup {o}
        BY <1>7 DEF OwnerGone
    <2> QED
        BY <1>0, <2>1, DisturbedForgets
<1>8. ASSUME NEW s \in Savers, Save(s)
      PROVE  StayInv'
    BY <1>0, <1>8, SaveStays
<1>9. CASE Cleanup
    <2>1. CASE CleanExpired \/ \E o \in Owners : CleanOrphans(o)
        <3>1. /\ rows' \subseteq rows /\ \A r \in rows \ rows' : Dead(r)
              /\ UNCHANGED <<saves, kept, gone>>
            <4>1. CASE CleanExpired
                BY <4>1 DEF CleanExpired, history, Dead
            <4>2. ASSUME NEW o \in Owners, CleanOrphans(o)
                  PROVE  /\ rows' \subseteq rows /\ \A r \in rows \ rows' : Dead(r)
                         /\ UNCHANGED <<saves, kept, gone>>
                BY <4>2 DEF CleanOrphans, history, Dead, Orphaned
            <4> QED
                BY <2>1, <4>1, <4>2
        <3> QED
            BY <1>0, <3>1, DeadRowsLeave
    <2>2. CASE \/ StartCleanup \/ DatabaseFails \/ FindOwnerTables \/ ListPage
               \/ ReadRows \/ EndCleanup \/ \E f \in Files : RemoveObject(f)
        <3>1. UNCHANGED <<rows, saves, kept, gone>>
            BY <2>2 DEF StartCleanup, DatabaseFails, FindOwnerTables, ListPage,
                        ReadRows, EndCleanup, RemoveObject, history
        <3> QED
            BY <1>1, <3>1
    <2> QED
        BY <1>9, <2>1, <2>2 DEF Cleanup
<1> QED
    BY <1>2, <1>3, <1>4, <1>5, <1>6, <1>7, <1>8, <1>9 DEF FilesNext

(* An undisturbed save that succeeded is the owner's set of files, until the
   owner is saved again or its files expire, are deleted or lose their owner. *)
THEOREM SavedStay == FilesSpec => []SavedFilesStay
<1>1. FilesInit => StayInv
    <2> SUFFICES ASSUME FilesInit PROVE StayInv
        OBVIOUS
    <2>1. \A s \in Savers : saves[s].at = "idle"
        BY DEF FilesInit, NoSave
    <2>2. \A o \in Owners : kept[o] = {}
        BY DEF FilesInit
    <2> QED
        BY <2>1, <2>2, InitTyped DEF StayInv, KeptAt, ProgressAt, FreshAt, PairAt, Saving
<1>2. StayInv /\ [FilesNext]_filesVars => StayInv'
    BY StayStep
<1>3. StayInv => SavedFilesStay
    BY DEF StayInv, KeptAt, WrittenAt, OwnRows, SavedFilesStay
<1> QED
    BY <1>1, <1>2, <1>3, PTL DEF FilesSpec

-----------------------------------------------------------------------------
(* What the cleanup has still to collect.

   A file the cleanup found without a living row keeps no row past the
   statements that clean the table, and while those that look for orphans
   are under way, the tables of its rows are still to be cleaned (RowsGo), since inserting one takes the
   file off the list; and its object is always in reach of the listing: in a
   page, among the orphans, or after the token (InReach).  The job is done
   when nothing can be in reach.                                           *)

(* After the page at hand, and after the token. *)
Ahead(f) ==
    \/ Folder(f) > cleaner.folder
    \/ Folder(f) = cleaner.folder /\ cleaner.token # 0 /\ f > cleaner.token

Pending(f) ==
    \/ Folder(f) > cleaner.folder
    \/ Folder(f) = cleaner.folder /\ f > cleaner.token

RowsGo(f) ==
    /\ cleaner.at = "expired" => \A r \in rows : r.file = f => Dead(r)
    /\ cleaner.at = "owners" => \A r \in rows : r.file = f => r.owner \in gone
    /\ cleaner.at = "orphans" => \A r \in rows : r.file = f =>
                                    r.owner \in gone \cap cleaner.tables
    /\ cleaner.at \in {"list", "read", "remove", "done"} => ~Rowed(f)

InReach(f) ==
    /\ cleaner.at = "list" => Pending(f)
    /\ cleaner.at = "read" => f \in cleaner.content \/ Ahead(f)
    /\ cleaner.at = "remove" => f \in cleaner.orphans \/ Ahead(f)
    /\ cleaner.at # "done"

AtStart ==
    cleaner.at \in {"expired", "owners", "orphans"} => cleaner.folder = 1 /\ cleaner.token = 0

CollectInv ==
    /\ FilesTypeOK
    /\ AtStart
    /\ \A f \in Files : f \in garbage \cap objects =>
           RowsGo(f) /\ (~cleaner.met => InReach(f))

(* A page is the beginning of what is left: a file that is not on it comes
   after all that are, hence after the token.                              *)
LEMMA PageComesFirst ==
    ASSUME NEW rest \in SUBSET Files, NEW f \in rest \ Page(rest), NEW g \in Page(rest)
    PROVE  g < f
<1>1. rest \subseteq Nat /\ IsFiniteSet(rest)
    <2>1. IsFiniteSet(Files)
        BY FS_Interval DEF Files
    <2>2. IsFiniteSet(rest)
        BY <2>1, FS_Subset
    <2> QED
        BY <2>2 DEF Files
<1> DEFINE Below(x) == {h \in rest : h < x}
<1>2. g \in rest /\ Cardinality(Below(g)) < PageSize
    BY DEF Page
<1>3. SUFFICES ASSUME ~(g < f) PROVE FALSE
    OBVIOUS
<1>4. Below(f) \subseteq Below(g)
    <2>1. f \in Nat /\ g \in Nat /\ f <= g
        BY <1>1, <1>2, <1>3
    <2>2. \A h \in rest : h \in Nat /\ (h < f => h < g)
        BY <1>1, <2>1
    <2> QED
        BY <2>2
<1>5. IsFiniteSet(Below(g))
    BY <1>1, FS_Subset
<1>6. /\ Cardinality(Below(f)) <= Cardinality(Below(g))
      /\ Cardinality(Below(f)) \in Nat /\ Cardinality(Below(g)) \in Nat
    <2>1. IsFiniteSet(Below(f)) /\ Cardinality(Below(f)) <= Cardinality(Below(g))
        <3> HIDE DEF Below
        <3> QED
            BY <1>4, <1>5, FS_Subset
    <2> QED
        BY <2>1, <1>5, FS_CardinalityType
<1>7. Cardinality(Below(f)) < PageSize
    BY <1>2, <1>6
<1> QED
    BY <1>7 DEF Page

LEMMA TokenSplits ==
    ASSUME NEW rest \in SUBSET Files, NEW f \in rest \ Page(rest)
    PROVE  NextToken(rest) \in Files /\ NextToken(rest) < f
<1>1. Page(rest) # rest /\ Page(rest) \in SUBSET Files /\ Page(rest) # {}
    BY PageFilled
<1>2. PICK m \in Page(rest) : \A g \in Page(rest) : g <= m
    BY <1>1, GreatestFile
<1>3. Max(Page(rest)) \in Page(rest)
    BY <1>1, <1>2 DEF Max, Files
<1> QED
    BY <1>1, <1>3, PageComesFirst DEF NextToken

(* Advancing from a page that a file comes after leaves the file to list. *)
LEMMA AdvancePasses ==
    ASSUME FilesTypeOK, NEW f \in Files, NEW token \in 0 .. MaxFiles, NEW met,
           Advance(token, met),
           \/ Folder(f) > cleaner.folder
           \/ Folder(f) = cleaner.folder /\ token # 0 /\ f > token
    PROVE  cleaner'.at = "list" /\ Pending(f)'
<1>1. cleaner \in CleanerState /\ cleaner.folder \in {1, 2}
    BY DEF FilesTypeOK, CleanerState, Folders
<1>2. Folder(f) \in {1, 2} /\ f \in Nat /\ f > 0 /\ token \in Nat
    BY DEF Folder, Files
<1>3. /\ cleaner'.at = IF token = 0 /\ cleaner.folder = 2 THEN "done" ELSE "list"
      /\ cleaner'.folder = IF token = 0 /\ cleaner.folder = 1 THEN 2
                           ELSE cleaner.folder
      /\ cleaner'.token = token
    BY <1>1 DEF Advance, CleanerState
<1>4. cleaner'.at = "list"
    BY <1>1, <1>2, <1>3
<1>5. \/ Folder(f) > cleaner'.folder
      \/ Folder(f) = cleaner'.folder /\ f > cleaner'.token
    BY <1>1, <1>2, <1>3
<1> QED
    BY <1>4, <1>5 DEF Pending, Folder

LEMMA AdvanceMoves ==
    ASSUME FilesTypeOK, NEW token, NEW met, Advance(token, met)
    PROVE  cleaner'.at \in {"list", "done"} /\ cleaner'.met = met
BY DEF Advance, FilesTypeOK, CleanerState

(* Steps that leave the cleaner alone only take garbage off the list or rows
   out of the table, or give a file that is not on the list a row.         *)
LEMMA OthersLeaveGarbage ==
    ASSUME CollectInv, FilesTypeOK', cleaner' = cleaner, gone \subseteq gone',
           \A f \in garbage' \cap objects' : f \in garbage \cap objects,
           \A r \in rows' : r.file \in garbage' \cap objects' =>
               \E q \in rows : /\ q.file = r.file /\ q.owner = r.owner
                               /\ q.expired => r.expired
    PROVE  CollectInv'
<1>1. AtStart'
    BY DEF CollectInv, AtStart
<1>2. ASSUME NEW f \in Files, f \in garbage' \cap objects'
      PROVE  RowsGo(f)' /\ (~cleaner'.met => InReach(f)')
    <2>1. RowsGo(f) /\ (~cleaner.met => InReach(f))
        BY <1>2 DEF CollectInv
    <2>2. \A r \in rows' : r.file = f =>
              \E q \in rows : /\ q.file = f /\ q.owner = r.owner
                              /\ q.expired => r.expired
        BY <1>2
    <2>3. RowsGo(f)'
        BY <2>1, <2>2 DEF RowsGo, Dead, Rowed
    <2>4. InReach(f)' <=> InReach(f)
        BY DEF InReach, Pending, Ahead
    <2> QED
        BY <2>1, <2>3, <2>4
<1> QED
    BY <1>1, <1>2 DEF CollectInv

LEMMA SaveLeavesGarbage ==
    ASSUME CollectInv, FilesTypeOK', NEW s \in Savers, Save(s)
    PROVE  CollectInv'
<1>1. CASE SaveNew(s)
    BY <1>1, OthersLeaveGarbage DEF SaveNew, Begin
<1>2. CASE SaveEdited(s)
    BY <1>2, OthersLeaveGarbage DEF SaveEdited, Begin
<1>3. CASE DeleteRelated(s)
    <2>1. rows' \subseteq rows
        BY <1>3 DEF DeleteRelated
    <2> QED
        BY <1>3, <2>1, OthersLeaveGarbage DEF DeleteRelated, history
<1>4. CASE Return(s) \/ DeleteRelatedFails(s)
    BY <1>4, OthersLeaveGarbage DEF Return, DeleteRelatedFails, history
<1>5. ASSUME NEW f \in Files, SetMetaInfo(s, f) \/ CreateFails(s, f)
      PROVE  CollectInv'
    BY <1>5, OthersLeaveGarbage DEF SetMetaInfo, CreateFails, history
<1>6. ASSUME NEW f \in Files, Create(s, f)
      PROVE  CollectInv'
    <2>1. /\ cleaner' = cleaner /\ gone' = gone /\ objects' = objects
          /\ garbage' = garbage \ {f}
          /\ \A r \in rows' : r \in rows \/ r.file = f
        BY <1>6 DEF Create
    <2> QED
        BY <2>1, OthersLeaveGarbage
<1> QED
    BY <1>1, <1>2, <1>3, <1>4, <1>5, <1>6 DEF Save

LEMMA CleanupLeavesNone ==
    ASSUME CollectInv, FilesTypeOK', Cleanup
    PROVE  CollectInv'
<1>0. /\ cleaner \in CleanerState /\ cleaner' \in CleanerState
      /\ objects \in SUBSET Files /\ \A f \in Files : Folder(f) \in {1, 2} /\ f > 0
    BY DEF CollectInv, FilesTypeOK, Files, Folder
<1>1. CASE StartCleanup
    <2>1. /\ cleaner'.at = "expired" /\ cleaner'.folder = 1 /\ cleaner'.token = 0
          /\ rows' = rows /\ gone' = gone /\ objects' = objects
          /\ garbage' = {f \in objects : \A r \in rows : r.file = f => Dead(r)}
        BY <1>0, <1>1 DEF StartCleanup, CleanerState
    <2> QED
        BY <2>1 DEF CollectInv, AtStart, RowsGo, InReach, Dead
<1>2. CASE DatabaseFails
    <2>1. cleaner'.at = "failed"
        BY <1>0, <1>2 DEF DatabaseFails, CleanerState
    <2> QED
        BY <2>1 DEF CollectInv, AtStart, RowsGo, InReach
<1>3. CASE CleanExpired
    <2>1. /\ cleaner.at = "expired" /\ cleaner'.at = "owners"
          /\ cleaner'.folder = cleaner.folder /\ cleaner'.token = cleaner.token
          /\ rows' = {r \in rows : ~r.expired}
          /\ gone' = gone /\ objects' = objects /\ garbage' = garbage
        BY <1>0, <1>3 DEF CleanExpired, CleanerState, history
    <2>2. ASSUME NEW f \in Files, f \in garbage \cap objects
          PROVE  \A r \in rows' : r.file = f => r.owner \in gone
        BY <2>1, <2>2 DEF CollectInv, RowsGo, Dead
    <2> QED
        BY <2>1, <2>2 DEF CollectInv, AtStart, RowsGo, InReach
<1>4. CASE FindOwnerTables
    <2> DEFINE found == {r.owner : r \in rows}
    <2>1. /\ cleaner.at = "owners" /\ cleaner'.tables = found
          /\ cleaner'.at = IF found = {} THEN "list" ELSE "orphans"
          /\ cleaner'.folder = 1 /\ cleaner'.token = 0
          /\ rows' = rows /\ gone' = gone /\ objects' = objects /\ garbage' = garbage
        <3>1. cleaner' = [cleaner EXCEPT !.tables = found,
                                 !.at = IF found = {} THEN "list" ELSE "orphans"]
            BY <1>4 DEF FindOwnerTables
        <3> HIDE DEF found
        <3> QED
            BY <1>0, <1>4, <3>1 DEF FindOwnerTables, CleanerState, history, CollectInv, AtStart
    <2>2. ASSUME NEW f \in Files, f \in garbage \cap objects
          PROVE  RowsGo(f)' /\ InReach(f)'
        <3>1. \A r \in rows : r.file = f => r.owner \in gone \cap found
            BY <2>1, <2>2 DEF CollectInv, RowsGo
        <3>2. found = {} => rows = {}
            OBVIOUS
        <3>3. Folder(f) > 1 \/ (Folder(f) = 1 /\ f > 0)
            BY <1>0
        <3> HIDE DEF found
        <3> QED
            BY <2>1, <3>1, <3>2, <3>3 DEF RowsGo, InReach, Rowed, Pending, Folder
    <2> HIDE DEF found
    <2> QED
        BY <2>1, <2>2 DEF CollectInv, AtStart
<1>10. ASSUME NEW o \in Owners, CleanOrphans(o)
       PROVE  CollectInv'
    <2> DEFINE left == cleaner.tables \ {o}
    <2>1. /\ cleaner.at \in {"orphans", "failed"}
          /\ gone' = gone /\ objects' = objects /\ garbage' = garbage
        BY <1>10 DEF CleanOrphans, history
    <2>2. CASE cleaner'.at = "failed"
        BY <2>2 DEF CollectInv, AtStart, RowsGo, InReach
    <2>3. CASE cleaner'.at # "failed"
        <3>1. /\ rows' = {r \in rows : ~(r.owner = o /\ Orphaned(r))}
              /\ cleaner' = [cleaner EXCEPT !.tables = left,
                     !.at = IF @ = "orphans" /\ left = {} THEN "list" ELSE @]
            BY <1>0, <1>10, <2>3 DEF CleanOrphans, CleanerState
        <3>2. /\ cleaner.at = "orphans" /\ cleaner'.tables = left
              /\ cleaner'.at = IF left = {} THEN "list" ELSE "orphans"
              /\ cleaner'.folder = 1 /\ cleaner'.token = 0
            BY <1>0, <2>1, <2>3, <3>1 DEF CleanerState, CollectInv, AtStart
        <3>3. ASSUME NEW f \in Files, f \in garbage \cap objects
              PROVE  RowsGo(f)' /\ InReach(f)'
            <4>1. \A r \in rows : r.file = f => r.owner \in gone \cap cleaner.tables
                BY <3>2, <3>3 DEF CollectInv, RowsGo
            <4>2. \A r \in rows' : r.file = f => r.owner \in gone \cap left
                BY <3>1, <4>1 DEF Orphaned, CollectInv, FilesTypeOK
            <4>3. Folder(f) > 1 \/ (Folder(f) = 1 /\ f > 0)
                BY <1>0
            <4> HIDE DEF left
            <4> QED
                BY <2>1, <3>2, <4>2, <4>3 DEF RowsGo, InReach, Rowed, Pending, Folder
        <3> HIDE DEF left
        <3> QED
            BY <2>1, <3>2, <3>3 DEF CollectInv, AtStart
    <2> QED
        BY <2>2, <2>3
<1>5. ASSUME NEW f \in Files, f \in garbage' \cap objects',
             rows' = rows, RowsGo(f),
             cleaner.at \in {"list", "read", "remove"},
             cleaner'.at \in {"list", "read", "remove", "done"}
      PROVE  RowsGo(f)'
    BY <1>5 DEF RowsGo, Rowed
<1>6. CASE ListPage
    <2> DEFINE rest == After(cleaner.folder, cleaner.token)
    <2>0. /\ cleaner.at = "list" /\ rows' = rows /\ gone' = gone
          /\ objects' = objects /\ garbage' = garbage
        BY <1>6 DEF ListPage, history
    <2>1. \/ rest = {} /\ Advance(0, cleaner.met)
          \/ /\ rest # {}
             /\ cleaner' = [cleaner EXCEPT !.at = "read", !.content = Page(rest),
                                           !.token = NextToken(rest)]
          \/ Advance(0, TRUE)
        BY <1>6 DEF ListPage
    <2>2. 0 \in 0 .. MaxFiles /\ rest \in SUBSET Files
        BY <1>0 DEF After
    <2>3. ASSUME NEW f \in Files, f \in garbage \cap objects
          PROVE  /\ RowsGo(f)
                 /\ ~cleaner.met => Folder(f) > cleaner.folder \/ f \in rest
        BY <2>0, <2>3 DEF CollectInv, InReach, Pending, After
    <2>4. ASSUME rest = {}, Advance(0, cleaner.met)
          PROVE  CollectInv'
        <3>1. cleaner'.at \in {"list", "done"} /\ cleaner'.met = cleaner.met
            BY <2>4, AdvanceMoves DEF CollectInv
        <3>2. ASSUME NEW f \in Files, f \in garbage' \cap objects', ~cleaner'.met
              PROVE  InReach(f)'
            <4>1. Folder(f) > cleaner.folder
                BY <2>0, <2>3, <2>4, <3>1, <3>2
            <4>2. cleaner'.at = "list" /\ Pending(f)'
                BY <2>2, <2>4, <4>1, AdvancePasses DEF CollectInv
            <4> QED
                BY <4>2 DEF InReach
        <3> QED
            BY <1>5, <2>0, <2>3, <3>1, <3>2 DEF CollectInv, AtStart
    <2>5. ASSUME rest # {},
                 cleaner' = [cleaner EXCEPT !.at = "read", !.content = Page(rest),
                                            !.token = NextToken(rest)]
          PROVE  CollectInv'
        <3>1. /\ cleaner'.at = "read" /\ cleaner'.met = cleaner.met
              /\ cleaner'.folder = cleaner.folder
              /\ cleaner'.content = Page(rest) /\ cleaner'.token = NextToken(rest)
            <4> HIDE DEF rest
            <4> QED
                BY <1>0, <2>5 DEF CleanerState
        <3>2. ASSUME NEW f \in Files, f \in garbage' \cap objects', ~cleaner'.met
              PROVE  InReach(f)'
            <4>1. Folder(f) > cleaner.folder \/ f \in rest
                BY <2>0, <2>3, <3>1, <3>2
            <4>2. ASSUME f \in rest \ Page(rest)
                  PROVE  /\ Folder(f) = cleaner.folder /\ NextToken(rest) # 0
                         /\ f > NextToken(rest)
                <5>1. NextToken(rest) \in Files /\ NextToken(rest) < f
                    <6> HIDE DEF rest
                    <6> QED
                        BY <2>2, <4>2, TokenSplits
                <5>2. Folder(f) = cleaner.folder
                    BY <4>2 DEF After
                <5>3. NextToken(rest) # 0 /\ f > NextToken(rest)
                    <6> HIDE DEF rest
                    <6> QED
                        BY <5>1 DEF Files
                <5> QED
                    BY <5>2, <5>3
            <4>3. f \in cleaner'.content \/ Ahead(f)'
                <5> HIDE DEF rest
                <5> QED
                    BY <3>1, <4>1, <4>2 DEF Ahead, Folder
            <4> QED
                BY <3>1, <4>3 DEF InReach
        <3> QED
            BY <1>5, <2>0, <2>3, <3>1, <3>2 DEF CollectInv, AtStart
    <2>6. ASSUME Advance(0, TRUE)
          PROVE  CollectInv'
        <3>1. cleaner'.at \in {"list", "done"} /\ cleaner'.met = TRUE
            BY <2>6, AdvanceMoves DEF CollectInv
        <3> QED
            BY <1>5, <2>0, <2>3, <3>1 DEF CollectInv, AtStart
    <2> QED
        BY <2>1, <2>4, <2>5, <2>6
<1>7. CASE ReadRows
    <2> DEFINE orphans == cleaner.content \ Existing(cleaner.content)
    <2>0. /\ cleaner.at = "read" /\ rows' = rows /\ gone' = gone
          /\ objects' = objects /\ garbage' = garbage
        BY <1>7 DEF ReadRows, history
    <2>1. IF orphans = {} THEN Advance(cleaner.token, cleaner.met)
          ELSE cleaner' = [cleaner EXCEPT !.at = "remove", !.content = {},
                                          !.orphans = orphans]
        BY <1>7 DEF ReadRows
    <2>2. ASSUME NEW f \in Files, f \in garbage \cap objects
          PROVE  RowsGo(f) /\ (~cleaner.met => f \in orphans \/ Ahead(f))
        BY <2>0, <2>2 DEF CollectInv, InReach, RowsGo, Existing
    <2>3. CASE orphans = {}
        <3>0. Advance(cleaner.token, cleaner.met) /\ cleaner.token \in 0 .. MaxFiles
            BY <1>0, <2>1, <2>3 DEF CleanerState
        <3>1. cleaner'.at \in {"list", "done"} /\ cleaner'.met = cleaner.met
            BY <3>0, AdvanceMoves DEF CollectInv
        <3>2. ASSUME NEW f \in Files, f \in garbage' \cap objects', ~cleaner'.met
              PROVE  InReach(f)'
            <4>1. Ahead(f)
                BY <2>0, <2>2, <2>3, <3>1, <3>2
            <4>2. cleaner'.at = "list" /\ Pending(f)'
                BY <3>0, <4>1, AdvancePasses DEF CollectInv, Ahead
            <4> QED
                BY <4>2 DEF InReach
        <3> QED
            BY <1>5, <2>0, <2>2, <3>1, <3>2 DEF CollectInv, AtStart
    <2>4. CASE orphans # {}
        <3>1. /\ cleaner'.at = "remove" /\ cleaner'.met = cleaner.met
              /\ cleaner'.folder = cleaner.folder /\ cleaner'.token = cleaner.token
              /\ cleaner'.orphans = orphans
            <4>1. cleaner' = [cleaner EXCEPT !.at = "remove", !.content = {},
                                             !.orphans = orphans]
                BY <2>1, <2>4
            <4> HIDE DEF orphans
            <4> QED
                BY <1>0, <4>1 DEF CleanerState
        <3>2. ASSUME NEW f \in Files, f \in garbage' \cap objects', ~cleaner'.met
              PROVE  InReach(f)'
            <4>1. f \in orphans \/ Ahead(f)
                BY <2>0, <2>2, <3>1, <3>2
            <4> HIDE DEF orphans
            <4> QED
                BY <3>1, <4>1 DEF InReach, Ahead, Folder
        <3> QED
            BY <1>5, <2>0, <2>2, <3>1, <3>2 DEF CollectInv, AtStart
    <2> QED
        BY <2>3, <2>4
<1>8. ASSUME NEW g \in Files, RemoveObject(g)
      PROVE  CollectInv'
    <2> DEFINE rest == cleaner.orphans \ {g}
    <2>0. /\ cleaner.at = "remove" /\ rows' = rows /\ gone' = gone
          /\ objects' \subseteq objects /\ garbage' = garbage
        BY <1>8 DEF RemoveObject, history
    <2>1. PICK met \in BOOLEAN :
              /\ met = cleaner.met \/ met = TRUE
              /\ met = FALSE => objects' = objects \ {g}
              /\ IF rest = {} THEN Advance(cleaner.token, met)
                 ELSE \/ cleaner' = [cleaner EXCEPT !.orphans = rest] /\ met = cleaner.met
                      \/ cleaner' = [cleaner EXCEPT !.orphans = rest, !.met = met]
        <3>1. cleaner.met \in BOOLEAN
            BY <1>0 DEF CleanerState
        <3>2. \/ /\ objects' = objects \ {g}
                 /\ IF rest = {} THEN Advance(cleaner.token, cleaner.met)
                    ELSE cleaner' = [cleaner EXCEPT !.orphans = rest]
              \/ IF rest = {} THEN Advance(cleaner.token, TRUE)
                 ELSE cleaner' = [cleaner EXCEPT !.orphans = rest, !.met = TRUE]
            BY <1>8 DEF RemoveObject
        <3> HIDE DEF rest
        <3> QED
            BY <3>1, <3>2
    <2>2. ASSUME NEW f \in Files, f \in garbage' \cap objects'
          PROVE  RowsGo(f) /\ (~met => f \in rest \/ Ahead(f))
        <3>1. RowsGo(f) /\ (~cleaner.met => f \in cleaner.orphans \/ Ahead(f))
            BY <2>0, <2>2 DEF CollectInv, InReach
        <3> QED
            BY <2>1, <2>2, <3>1
    <2>3. CASE rest = {}
        <3>0. Advance(cleaner.token, met) /\ cleaner.token \in 0 .. MaxFiles
            BY <1>0, <2>1, <2>3 DEF CleanerState
        <3>1. cleaner'.at \in {"list", "done"} /\ cleaner'.met = met
            BY <3>0, AdvanceMoves DEF CollectInv
        <3>2. ASSUME NEW f \in Files, f \in garbage' \cap objects', ~cleaner'.met
              PROVE  InReach(f)'
            <4>1. Ahead(f)
                BY <2>2, <2>3, <3>1, <3>2
            <4>2. cleaner'.at = "list" /\ Pending(f)'
                BY <3>0, <4>1, AdvancePasses DEF CollectInv, Ahead
            <4> QED
                BY <4>2 DEF InReach
        <3> QED
            BY <1>5, <2>0, <2>2, <3>1, <3>2 DEF CollectInv, AtStart
    <2>4. CASE rest # {}
        <3>1. /\ cleaner'.at = "remove" /\ cleaner'.met = met
              /\ cleaner'.folder = cleaner.folder /\ cleaner'.token = cleaner.token
              /\ cleaner'.orphans = rest
            <4>1. \/ cleaner' = [cleaner EXCEPT !.orphans = rest] /\ met = cleaner.met
                  \/ cleaner' = [cleaner EXCEPT !.orphans = rest, !.met = met]
                BY <2>1, <2>4
            <4> HIDE DEF rest
            <4> QED
                BY <1>0, <2>0, <4>1 DEF CleanerState
        <3>2. ASSUME NEW f \in Files, f \in garbage' \cap objects', ~cleaner'.met
              PROVE  InReach(f)'
            <4>1. f \in rest \/ Ahead(f)
                BY <2>2, <3>1, <3>2
            <4> HIDE DEF rest
            <4> QED
                BY <3>1, <4>1 DEF InReach, Ahead, Folder
        <3> QED
            BY <1>5, <2>0, <2>2, <3>1, <3>2 DEF CollectInv, AtStart
    <2> QED
        BY <2>3, <2>4
<1>9. CASE EndCleanup
    <2>1. cleaner'.at = "idle" /\ garbage' = {}
        BY <1>0, <1>9 DEF EndCleanup, CleanerState
    <2> QED
        BY <2>1 DEF CollectInv, AtStart
<1> QED
    BY <1>1, <1>2, <1>3, <1>4, <1>6, <1>7, <1>8, <1>9, <1>10 DEF Cleanup

LEMMA CollectStep ==
    ASSUME CollectInv, [FilesNext]_filesVars
    PROVE  CollectInv'
<1>0. FilesTypeOK'
    BY NextTyped DEF CollectInv
<1>1. CASE UNCHANGED filesVars
    BY <1>0, <1>1, OthersLeaveGarbage DEF filesVars, history
<1>2. CASE GetPresignUploadUrl
    BY <1>0, <1>2, OthersLeaveGarbage DEF GetPresignUploadUrl, history
<1>3. ASSUME NEW f \in Files, Upload(f)
      PROVE  CollectInv'
    <2>1. \A g \in garbage' \cap objects' : g \in garbage \cap objects
        BY <1>3 DEF Upload
    <2> QED
        BY <1>0, <1>3, <2>1, OthersLeaveGarbage DEF Upload
<1>4. ASSUME NEW s \in Savers, Save(s)
      PROVE  CollectInv'
    BY <1>0, <1>4, SaveLeavesGarbage
<1>5. ASSUME NEW r \in rows, Delete(r)
      PROVE  CollectInv'
    <2>1. rows' \subseteq rows
        BY <1>5 DEF Delete
    <2> QED
        BY <1>0, <1>5, <2>1, OthersLeaveGarbage DEF Delete
<1>6. ASSUME NEW r \in rows, Expire(r)
      PROVE  CollectInv'
    <2> DEFINE aged == [r EXCEPT !.expired = TRUE]
    <2>1. aged.file = r.file /\ aged.owner = r.owner /\ aged.expired = TRUE
        BY DEF CollectInv, FilesTypeOK, Row
    <2>2. \A q \in rows' : q \in rows \/ q = aged
        BY <1>6 DEF Expire
    <2> HIDE DEF aged
    <2>3. \A q \in rows' :
              \E p \in rows : /\ p.file = q.file /\ p.owner = q.owner
                              /\ p.expired => q.expired
        BY <2>1, <2>2
    <2> QED
        BY <1>0, <1>6, <2>3, OthersLeaveGarbage DEF Expire
<1>7. ASSUME NEW o \in Owners, OwnerGone(o)
      PROVE  CollectInv'
    BY <1>0, <1>7, OthersLeaveGarbage DEF OwnerGone
<1>8. CASE Cleanup
    BY <1>0, <1>8, CleanupLeavesNone
<1> QED
    BY <1>1, <1>2, <1>3, <1>4, <1>5, <1>6, <1>7, <1>8 DEF FilesNext

(* A cleanup that ends without an error, and met none it hid, has removed
   every object it could have known to be garbage when it began, whatever is
   uploaded, saved, expired and deleted meanwhile, on however many pages.   *)
THEOREM CollectsWhatItFound == FilesSpec => []CleanupCollects
<1>1. FilesInit => CollectInv
    <2> SUFFICES ASSUME FilesInit PROVE CollectInv
        OBVIOUS
    <2>1. garbage = {} /\ cleaner.at = "idle"
        BY DEF FilesInit
    <2> QED
        BY <2>1, InitTyped DEF CollectInv, AtStart
<1>2. CollectInv /\ [FilesNext]_filesVars => CollectInv'
    BY CollectStep
<1>3. CollectInv => CleanupCollects
    <2> SUFFICES ASSUME CollectInv, cleaner.at = "done", ~cleaner.met
                 PROVE  garbage \cap objects = {}
        BY DEF CleanupCollects
    <2>1. \A f \in Files : f \in garbage \cap objects => InReach(f)
        BY DEF CollectInv
    <2>2. garbage \subseteq Files
        BY DEF CollectInv, FilesTypeOK
    <2> QED
        BY <2>1, <2>2 DEF InReach
<1> QED
    BY <1>1, <1>2, <1>3, PTL DEF FilesSpec
=============================================================================
