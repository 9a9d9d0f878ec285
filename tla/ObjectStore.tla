----------------------------- MODULE ObjectStore -----------------------------
(***************************************************************************)
(* The bucket, and what StorageService does to it: operations of one       *)
(* request, and two of several, with which others may interleave.          *)
(*                                                                         *)
(* A request may fail, with its effect or without.  Storage is enabled; a  *)
(* URL that was signed is a put or a get by whoever holds it.              *)
(***************************************************************************)
EXTENDS Integers, Sequences, FiniteSets, SequencesExt, FiniteSetsExt

CONSTANTS
    Names,     \* the keys' names, sequences of characters, in their order
    Dirs,      \* what deleteFolder may be given
    Contents,  \* what an object may hold
    Initial,   \* what ensureFile puts
    Absent,    \* no object
    Clients,   \* callers of the service
    PerPage,   \* objects in a page of a listing
    MaxOps,    \* bound: operations
    MaxErrors  \* bound: requests, or deletions of an object, that fail

ASSUME ObjectStoreAssumption ==
    /\ Initial \in Contents /\ Absent \notin Contents
    /\ Names \in Seq(Seq(STRING)) /\ Dirs \subseteq Seq(STRING)
    /\ PerPage \in Nat \ {0} /\ MaxOps \in Nat /\ MaxErrors \in Nat

VARIABLES
    bucket,  \* the content of each key, or Absent
    op,      \* each client's operation, and where it is
    was,     \* the bucket when that operation began (history)
    steady,  \* keys no other client has written or deleted since (history)
    missed,  \* clients whose operation took a failure for a success (history)
    ops, errors

objectVars == <<bucket, op, was, steady, missed, ops, errors>>

-----------------------------------------------------------------------------
Objects == DOMAIN Names

(* on: the keys the operation is about; for copy, from is another. *)
Operation(name, on, from, content) ==
    [name |-> name, on |-> on, from |-> from, content |-> content, folder |-> <<>>,
     at |-> IF name = "ensureFile" THEN "exists"
            ELSE IF name = "deleteFolder" THEN "list" ELSE "send",
     page |-> {}, more |-> FALSE, token |-> 0]

Idle == [Operation("none", {}, {}, Absent) EXCEPT !.at = "done"]

EndsWithSlash(path) == path # <<>> /\ Last(path) = "/"

Normalized(prefix) == IF EndsWithSlash(prefix) THEN prefix ELSE Append(prefix, "/")

Under(prefix) == {k \in Objects : IsPrefix(prefix, Names[k])}

(* What is left to list, after the continuation token. *)
Left(c) == {k \in op[c].on : k > op[c].token /\ bucket[k] # Absent}

Listed(c) == {k \in Left(c) : Cardinality({j \in Left(c) : j <= k}) <= PerPage}

-----------------------------------------------------------------------------
ObjectsInit ==
    /\ bucket \in [Objects -> {Absent, Initial}]
    /\ op = [c \in Clients |-> Idle]
    /\ was = [c \in Clients |-> bucket]
    /\ steady = [c \in Clients |-> Objects]
    /\ missed = {}
    /\ ops = 0 /\ errors = 0

Called(c, operation) ==
    /\ op[c].at \in {"done", "thrown"} /\ ops < MaxOps
    /\ op' = [op EXCEPT ![c] = operation]
    /\ was' = [was EXCEPT ![c] = bucket]
    /\ steady' = [steady EXCEPT ![c] = Objects]
    /\ missed' = missed \ {c}
    /\ ops' = ops + 1
    /\ UNCHANGED <<bucket, errors>>

PutFile(c) ==
    \E k \in Objects, v \in Contents : Called(c, Operation("put", {k}, {}, v))

RemoveFile(c) == \E k \in Objects : Called(c, Operation("remove", {k}, {}, Absent))

DeleteFile(c) == \E k \in Objects : Called(c, Operation("deleteFile", {k}, {}, Absent))

Copy(c) ==
    \E from, to \in Objects :
        from # to /\ Called(c, Operation("copy", {to}, {from}, Absent))

EnsureFile(c) ==
    \E k \in Objects : Called(c, Operation("ensureFile", {k}, {}, Initial))

DeleteFolder(c) ==
    \E p \in Dirs :
        Called(c, [Operation("deleteFolder", Under(Normalized(p)), {}, Absent)
                    EXCEPT !.folder = p])

-----------------------------------------------------------------------------
(* A request of c makes keys hold content. *)
Becomes(c, keys, content) ==
    /\ bucket' = [k \in Objects |-> IF k \in keys THEN content ELSE bucket[k]]
    /\ steady' = [d \in Clients |-> IF d = c THEN steady[c] ELSE steady[d] \ keys]

Goes(c, at) == op' = [op EXCEPT ![c].at = at]

(* The request of an operation of one, and the PUT of ensureFile. *)
Content(c) ==
    IF op[c].name = "copy" THEN bucket[CHOOSE k \in op[c].from : TRUE] ELSE op[c].content

(* There is nothing to copy. *)
NoSource(c) == op[c].name = "copy" /\ Content(c) = Absent

SendRequest(c) ==
    /\ op[c].at = "send"
    /\ IF NoSource(c)
       THEN Goes(c, "thrown") /\ UNCHANGED <<bucket, steady>>
       ELSE Becomes(c, op[c].on, Content(c)) /\ Goes(c, "done")
    /\ UNCHANGED <<was, missed, ops, errors>>

(* remove returns as if nothing had been. *)
RequestFails(c) ==
    /\ op[c].at = "send" /\ errors < MaxErrors /\ ~NoSource(c)
    /\ errors' = errors + 1
    /\ UNCHANGED <<bucket, steady>> \/ Becomes(c, op[c].on, Content(c))
    /\ IF op[c].name = "remove"
       THEN Goes(c, "done") /\ missed' = missed \cup {c}
       ELSE Goes(c, "thrown") /\ UNCHANGED missed
    /\ UNCHANGED <<was, ops>>

Exists(c) ==
    /\ op[c].at = "exists"
    /\ Goes(c, IF \E k \in op[c].on : bucket[k] # Absent THEN "done" ELSE "send")
    /\ UNCHANGED <<bucket, was, steady, missed, ops, errors>>

(* exists takes every error for "there is no such object". *)
ExistsFails(c) ==
    /\ op[c].at = "exists" /\ errors < MaxErrors
    /\ Goes(c, "send")
    /\ missed' = missed \cup {c}
    /\ errors' = errors + 1
    /\ UNCHANGED <<bucket, was, steady, ops>>

(* Mutant: the answer's token is not asked for. *)
HasMore_No(c) == FALSE

HasMore(c) == Left(c) # Listed(c)

ListObjects(c) ==
    /\ op[c].at = "list"
    /\ op' = [op EXCEPT ![c] = [@ EXCEPT
            !.page = Listed(c), !.more = HasMore(c),
            !.at = IF Listed(c) = {} THEN "done" ELSE "delete"]]
    /\ UNCHANGED <<bucket, was, steady, missed, ops, errors>>

(* The request succeeds though some objects of the page could not be deleted:
   the answer says which, and no one reads it.                             *)
DeleteObjects(c) ==
    /\ op[c].at = "delete"
    /\ \E failed \in SUBSET op[c].page :
        /\ errors + Cardinality(failed) <= MaxErrors
        /\ errors' = errors + Cardinality(failed)
        /\ Becomes(c, op[c].page \ failed, Absent)
        /\ missed' = IF failed = {} THEN missed ELSE missed \cup {c}
    /\ op' = [op EXCEPT ![c] = [@ EXCEPT
            !.token = Max(op[c].page), !.at = IF op[c].more THEN "list" ELSE "done"]]
    /\ UNCHANGED <<was, ops>>

(* A listing fails, or a deletion, of which any part may have been made. *)
FolderFails(c) ==
    /\ op[c].at \in {"list", "delete"} /\ errors < MaxErrors
    /\ errors' = errors + 1
    /\ Goes(c, "thrown")
    /\ \E deleted \in SUBSET op[c].page :
        /\ op[c].at = "list" => deleted = {}
        /\ Becomes(c, deleted, Absent)
    /\ UNCHANGED <<was, missed, ops>>

ObjectsNext ==
    \E c \in Clients :
        \/ PutFile(c) \/ RemoveFile(c) \/ DeleteFile(c) \/ Copy(c)
        \/ EnsureFile(c) \/ DeleteFolder(c)
        \/ SendRequest(c) \/ RequestFails(c) \/ Exists(c) \/ ExistsFails(c)
        \/ ListObjects(c) \/ DeleteObjects(c) \/ FolderFails(c)

ObjectsSpec == ObjectsInit /\ [][ObjectsNext]_objectVars

-----------------------------------------------------------------------------
(* By the path's own parts: k is in the folder p, or in one below it. *)
In(p, k) ==
    LET path == IF EndsWithSlash(p) THEN Front(p) ELSE p
    IN  /\ Len(Names[k]) > Len(path)
        /\ SubSeq(Names[k], 1, Len(path)) = path
        /\ Names[k][Len(path) + 1] = "/"

About(c) ==
    IF op[c].name = "deleteFolder"
    THEN {k \in Objects : In(op[c].folder, k)} ELSE op[c].on

(* What a key that only c touches should hold once c's operation is done. *)
Promised(c, k) ==
    CASE op[c].name = "put" -> {op[c].content}
      [] op[c].name = "copy" -> {was[c][j] : j \in op[c].from}
      [] op[c].name = "ensureFile" -> IF was[c][k] = Absent THEN {Initial} ELSE {was[c][k]}
      [] OTHER -> {Absent}

(* Whatever others do meanwhile and wherever requests fail, an operation
   leaves alone the keys it is not about: deleteFolder those whose name
   begins like the folder's.  Once it has returned, each key no one else
   touched holds what the operation promised, every page of a folder
   included.  The code's own failures that pass for an answer are excepted. *)
BucketAsTold ==
    \A c \in Clients :
        /\ \A k \in steady[c] \ About(c) : bucket[k] = was[c][k]
        /\ op[c].at = "done" /\ op[c].name # "none" /\ c \notin missed
           /\ op[c].from \subseteq steady[c]
           => \A k \in steady[c] \cap About(c) : bucket[k] \in Promised(c, k)
=============================================================================
