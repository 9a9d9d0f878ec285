------------------------------ MODULE MCAccounts ------------------------------
(* Four components that do not interact, in one run: sign-up and email
   verification, lists of ids, generated code, and the bucket.             *)
EXTENDS EmailVerification, Paging, CodeGen, ObjectStore, TLC

CONSTANTS k1, k2

VARIABLE part

(* k2 wants the email of k1; a repeat of k1 wants its username. *)
MCBody == k1 :> [username |-> "u", email |-> "u"] @@
          k2 :> [username |-> "w", email |-> "u"]

(* The first two rows are made in the same millisecond. *)
Times == [i \in RowIds |-> (i + 1) \div 2]
Terms == {{1}}
Sizes == {-1, 0, 1, 2}

(* A folder, two objects in it, and one beside it whose name begins alike. *)
MCNames == << <<"a">>, <<"a", "/", "x">>, <<"a", "/", "y">>, <<"a", "b">> >>
MCDirs == {<<"a">>, <<"a", "/">>}

NoPaging ==
    /\ rows = <<>> /\ made = {} /\ walk = <<>> /\ at = "over" /\ page = 1 /\ data = <<>>
    /\ list = {} /\ seen = <<>> /\ shifted = TRUE /\ writes = 0

NoCodeGen ==
    /\ decl = <<>> /\ files = [n \in Files |-> NoFile] /\ entity = NoEntity
    /\ stored = <<>> /\ due = <<>> /\ kept = <<>> /\ threw = FALSE
    /\ edits = 0 /\ generations = 0

NoObjects ==
    /\ bucket = <<>> /\ op = [c \in Clients |-> Idle] /\ was = <<>>
    /\ steady = [c \in Clients |-> {}] /\ missed = {}
    /\ ops = 0 /\ errors = 0

MCInit ==
    /\ Init
    /\ \/ part = "email" /\ NoPaging /\ NoCodeGen /\ NoObjects
       \/ part = "paging" /\ PagingInit /\ NoCodeGen /\ NoObjects
       \/ part = "codegen" /\ NoPaging /\ CodeGenInit /\ NoObjects
       \/ part = "objects" /\ NoPaging /\ NoCodeGen /\ ObjectsInit

MCNext ==
    /\ UNCHANGED part
    /\ \/ part = "email" /\ Next /\ UNCHANGED <<pagingVars, codeGenVars, objectVars>>
       \/ part = "paging" /\ PagingNext /\ UNCHANGED <<vars, codeGenVars, objectVars>>
       \/ part = "codegen" /\ CodeGenNext /\ UNCHANGED <<vars, pagingVars, objectVars>>
       \/ part = "objects" /\ ObjectsNext /\ UNCHANGED <<vars, pagingVars, codeGenVars>>

MCSpec == MCInit /\ [][MCNext]_<<vars, pagingVars, codeGenVars, objectVars, part>>

Symmetry == Permutations(Requests) \cup Permutations(Pages)
=============================================================================
