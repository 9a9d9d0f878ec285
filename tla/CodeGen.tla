------------------------------- MODULE CodeGen -------------------------------
(***************************************************************************)
(* codegen:domain, and the code it writes.                                 *)
(*                                                                         *)
(* The command reads a declaration of an entity's fields and writes five   *)
(* files.  This module runs the files: a program that was built from them  *)
(* makes an entity, edits it, saves it, loads it and passes it on as JSON. *)
(* The declaration may change, and a file that is there is left as it is   *)
(* unless --force is given.                                                *)
(*                                                                         *)
(* The entity has an id, createdAt, updatedAt and one field more, f.  A    *)
(* value is <<how it is spelled, a number>>.                               *)
(***************************************************************************)
EXTENDS Integers, FiniteSets

CONSTANTS
    Types,     \* types f may be declared with
    NoFile,
    MaxEdits,  \* bound: edits
    MaxRuns    \* bound: runs of the command

ASSUME CodeGenAssumption == MaxEdits \in Nat /\ MaxRuns \in Nat

VARIABLES
    decl,     \* the declaration, as it stands
    files,    \* the declaration each generated file was made from
    entity,   \* the entity in memory: its fields and its $pgState
    stored,   \* the row
    due,      \* what the entity's fields should hold (history)
    kept,     \* what the row's should (history)
    threw,    \* the last conversion or statement failed (history)
    edits, generations

codeGenVars == <<decl, files, entity, stored, due, kept, threw, edits, generations>>

-----------------------------------------------------------------------------
Null == <<"null", 0>>
Undefined == <<"undefined", 0>>

(* What a value of a declared type is in memory. *)
ValueOf(type, n) == <<IF type = "Date" THEN "Date" ELSE type, n>>

Field(type, readonly, optional, nullable) ==
    [type |-> type, readonly |-> readonly, optional |-> optional, nullable |-> nullable]

(* mutable: there is a type UpdateData; editable: f is in it. *)
Declarations ==
    {d \in [fields : [id : {Field("string", TRUE, FALSE, FALSE)},
                      createdAt : {Field("Date", r, FALSE, FALSE) : r \in BOOLEAN},
                      updatedAt : {Field("Date", FALSE, FALSE, FALSE)},
                      f : [type : Types, readonly : BOOLEAN, optional : BOOLEAN,
                           nullable : BOOLEAN]],
            mutable : BOOLEAN, editable : BOOLEAN] :
        d.editable => d.mutable}

Fields == {"id", "createdAt", "updatedAt", "f"}

(* _extractFields. *)
Kind(type) ==
    CASE type \in {"string", "Numeric"} -> "string"
      [] type \in {"number", "boolean", "Date"} -> type
      [] OTHER -> "other"

-----------------------------------------------------------------------------
(* What the files do; d is the declaration a file was made from.            *)

(* The mapper.  A Date that is not nullable is asked for its ISO string,
   though it may be null.                                                  *)
Throws(d, x) ==
    \E n \in Fields :
        Kind(d.fields[n].type) = "Date" /\ ~d.fields[n].nullable /\ x[n][1] # "Date"

ToPg(d, x) ==
    [n \in Fields |->
        IF Kind(d.fields[n].type) # "Date" THEN x[n]
        ELSE IF x[n][1] = "Date" THEN <<"iso", x[n][2]>> ELSE Null]

FromPg(d, y) ==
    [n \in Fields |->
        IF Kind(d.fields[n].type) # "Date" \/ y[n] = Null THEN y[n]
        ELSE <<"Date", y[n][2]>>]

(* toJson spells a Date as toPg does, and makes null of what is no Date. *)
ToJson(d, x) == ToPg(d, x)

FromJson(d, y) == FromPg(d, y)

(* The util's new.  given is what the caller says of f. *)
NewEntity(d, given, now) ==
    [id |-> ValueOf("string", now), createdAt |-> ValueOf("Date", now),
     updatedAt |-> ValueOf("Date", now),
     f |-> IF (d.fields["f"].nullable \/ d.fields["f"].optional) /\ given = Undefined
           THEN Null ELSE given]

(* Mutant: null stands for nothing given. *)
UpdateField_Nullish(old, given) == IF given \in {Undefined, Null} THEN old ELSE given

UpdateField(old, given) == IF given = Undefined THEN old ELSE given

(* The util's edit: a field that is not named gets lost. *)
EditEntity(d, old, given, now) ==
    [n \in Fields |->
        IF n = "updatedAt" THEN ValueOf("Date", now)
        ELSE IF n = "id" \/ d.fields[n].readonly THEN old[n]
        ELSE IF n = "createdAt" THEN Undefined
        ELSE UpdateField(old[n], given)]

(* The driver makes a Postgres array of an array, which is no JSON. *)
Acceptable(columns) == \A n \in DOMAIN columns : columns[n][1] # "array"

-----------------------------------------------------------------------------
NoEntity == [fields |-> [n \in Fields |-> Undefined], state |-> [n \in Fields |-> Undefined]]

Files == {"factory", "mapper", "util", "service", "module"}

CodeGenInit ==
    /\ decl \in Declarations
    /\ files = [n \in Files |-> NoFile]
    /\ entity = NoEntity /\ stored = NoEntity.fields
    /\ due = NoEntity.fields /\ kept = NoEntity.fields
    /\ threw = FALSE
    /\ edits = 0 /\ generations = 0

(* The developer makes f nullable, or not, before there is an entity. *)
Redeclare ==
    /\ generations > 0 /\ stored = NoEntity.fields /\ entity = NoEntity
    /\ decl' = [decl EXCEPT !.fields["f"].nullable = ~@]
    /\ UNCHANGED <<files, entity, stored, due, kept, threw, edits, generations>>

(* The command runs, and the program is built and started again. *)
Generate(force) ==
    /\ generations < MaxRuns
    /\ files' = [n \in Files |-> IF files[n] # NoFile /\ ~force THEN files[n] ELSE <<decl>>]
    /\ entity' = NoEntity /\ due' = kept
    /\ threw' = FALSE
    /\ generations' = generations + 1
    /\ UNCHANGED <<decl, stored, kept, edits>>

Built == \A n \in Files : files[n] # NoFile
From(n) == files[n][1]

Persisted == entity.state # NoEntity.state

(* What a caller that obeys the declaration's types may give. *)
Givens(optional) ==
    {ValueOf(decl.fields["f"].type, edits + 2)}
        \cup (IF decl.fields["f"].nullable THEN {Null} ELSE {})
        \cup (IF optional THEN {Undefined} ELSE {})

New ==
    /\ Built /\ stored = NoEntity.fields
    /\ \E given \in Givens(decl.fields["f"].optional) :
        /\ entity' = [NoEntity EXCEPT !.fields = NewEntity(From("util"), given, 1)]
        /\ due' = [id |-> ValueOf("string", 1), createdAt |-> ValueOf("Date", 1),
                   updatedAt |-> ValueOf("Date", 1),
                   f |-> IF given = Undefined THEN Null ELSE given]
    /\ UNCHANGED <<decl, files, stored, kept, threw, edits, generations>>

Edit ==
    /\ Built /\ entity # NoEntity /\ From("util").mutable /\ edits < MaxEdits
    /\ \E given \in IF decl.editable THEN Givens(TRUE) ELSE {Undefined} :
        /\ entity' = [entity EXCEPT !.fields =
                EditEntity(From("util"), @, given, edits + 2)]
        /\ due' = [due EXCEPT !["updatedAt"] = ValueOf("Date", edits + 2),
                              !["f"] = IF given = Undefined THEN @ ELSE given]
    /\ edits' = edits + 1
    /\ UNCHANGED <<decl, files, stored, kept, threw, generations>>

(* save: _create, or, if the service has it, _update of what differs. *)
Save ==
    /\ Built /\ entity # NoEntity
    /\ LET fails == Throws(From("mapper"), entity.fields)
           columns == ToPg(From("mapper"), entity.fields)
           changed == {n \in Fields : columns[n] # entity.state[n] /\ columns[n] # Undefined}
           writes == ~Persisted \/ From("service").mutable
       IN  /\ threw' = (fails \/ (writes /\ ~Acceptable([n \in changed |-> columns[n]])))
           /\ IF threw' THEN UNCHANGED <<entity, stored, kept>>
              ELSE /\ stored' = [n \in Fields |->
                            IF writes /\ n \in changed THEN columns[n]
                            ELSE IF ~Persisted THEN Null ELSE stored[n]]
                   /\ entity' = [entity EXCEPT !.state = columns]
                   /\ kept' = due
    /\ UNCHANGED <<decl, files, due, edits, generations>>

Load ==
    /\ Built /\ stored # NoEntity.fields
    /\ entity' = [fields |-> FromPg(From("mapper"), stored), state |-> stored]
    /\ due' = kept
    /\ UNCHANGED <<decl, files, stored, kept, threw, edits, generations>>

PassAsJson ==
    /\ Built /\ entity # NoEntity
    /\ entity' = [entity EXCEPT !.fields =
            FromJson(From("mapper"), ToJson(From("mapper"), @))]
    /\ UNCHANGED <<decl, files, stored, due, kept, threw, edits, generations>>

CodeGenNext ==
    \/ Redeclare \/ (\E force \in BOOLEAN : Generate(force))
    \/ New \/ Edit \/ Save \/ Load \/ PassAsJson

CodeGenSpec == CodeGenInit /\ [][CodeGenNext]_codeGenVars

-----------------------------------------------------------------------------
(* Every file is of the declaration as it stands. *)
Current == \A n \in Files : files[n] = <<decl>>

(* What the generator takes for granted of a declaration: createdAt is
   readonly, no field is readonly and in UpdateData, a Date that is optional
   is nullable, and no field is an array kept as JSON.                     *)
Conventional ==
    /\ decl.fields["createdAt"].readonly
    /\ decl.editable => ~decl.fields["f"].readonly
    /\ decl.fields["f"].type = "Date" /\ decl.fields["f"].optional
         => decl.fields["f"].nullable
    /\ decl.fields["f"].type # "array"

(* The files of a conventional declaration work: saving never fails, and
   through any sequence of new, edit, save, load and JSON the entity and the
   row hold what the declaration's caller gave, a null that was given where a
   value had been included.                                                *)
GeneratedKeeps ==
    Current /\ Conventional =>
        /\ ~threw
        /\ entity # NoEntity => entity.fields = due
        /\ stored # NoEntity.fields => FromPg(decl, stored) = kept
=============================================================================
