---------------------------- MODULE AccountsProofs ----------------------------
(***************************************************************************)
(* Two components of the run Accounts: the code the generator writes, and  *)
(* the lists that are read page by page.                                   *)
(***************************************************************************)
EXTENDS CodeGen, Paging, FunctionTheorems, FiniteSetTheorems, TLAPS

-----------------------------------------------------------------------------
(***************************************************************************)
(* The generated files keep what they are given, for any types of a field, *)
(* any number of edits and any number of runs of the command.              *)
(*                                                                         *)
(* While there is an entity or a row the declaration stands, and files of  *)
(* different runs differ at most in whether the field may be null (Alike). *)
(* The row is then what the mapper spells of what was kept, the $pgState   *)
(* is the row, and what is not written again has not changed.              *)
(***************************************************************************)
Spellings == Types \cup {"string", "Date", "iso", "null", "undefined"}

FieldKind ==
    [type : Types \cup {"string", "Date"},
     readonly : BOOLEAN, optional : BOOLEAN, nullable : BOOLEAN]

(* What no declaration says otherwise. *)
DeclOK ==
    /\ decl \in [fields : [Fields -> FieldKind], mutable : BOOLEAN, editable : BOOLEAN]
    /\ decl.fields["id"] = Field("string", TRUE, FALSE, FALSE)
    /\ decl.fields["createdAt"].type = "Date" /\ ~decl.fields["createdAt"].nullable
    /\ decl.fields["updatedAt"] = Field("Date", FALSE, FALSE, FALSE)

(* d is the declaration as it stands, but for whether f may be null. *)
Alike(d) ==
    /\ d.mutable = decl.mutable
    /\ \A n \in Fields :
        /\ d.fields[n].type = decl.fields[n].type
        /\ d.fields[n].readonly = decl.fields[n].readonly
        /\ d.fields[n].optional = decl.fields[n].optional

FilesOK == \A n \in Files : files[n] = NoFile \/ (files[n] = <<From(n)>> /\ Alike(From(n)))

(* Conventional, but for the part that Redeclare may change. *)
Usual ==
    /\ decl.fields["createdAt"].readonly
    /\ decl.editable => ~decl.fields["f"].readonly
    /\ decl.fields["f"].type # "array"

(* x holds values of the declared types. *)
Proper(x) ==
    /\ x \in [Fields -> Spellings \X Nat]
    /\ x["id"][1] = "string" /\ x["createdAt"][1] = "Date" /\ x["updatedAt"][1] = "Date"
    /\ \/ x["f"][1] = decl.fields["f"].type /\ x["f"][2] # 0
       \/ x["f"] = Null /\ (decl.fields["f"].nullable \/ decl.fields["f"].optional)

Unstored == NoEntity.fields

EntityOK ==
    entity # NoEntity =>
        /\ entity = [fields |-> due, state |-> stored]
        /\ Proper(due)
        /\ stored # Unstored /\ ~decl.mutable => due = kept

RowOK == stored # Unstored => Proper(kept) /\ stored = ToPg(decl, kept)

ThrewOK ==
    /\ entity = NoEntity => ~threw
    /\ Current /\ Conventional => ~threw

Works == EntityOK /\ RowOK /\ ThrewOK

CInv == DeclOK /\ FilesOK /\ edits \in Nat /\ (Usual => Works)

-----------------------------------------------------------------------------
(* The conversions *)

(* A type is told to be Date by its name. *)
LEMMA KindDate == ASSUME NEW t PROVE Kind(t) = "Date" <=> t = "Date"
BY DEF Kind

(* The mapper of any file that is alike spells what is proper, and reads it
   again.                                                                  *)
LEMMA Spells ==
    ASSUME DeclOK, NEW d, Alike(d), NEW e, Alike(e), NEW x, Proper(x)
    PROVE  /\ ToPg(d, x) = ToPg(decl, x)
           /\ FromPg(e, ToPg(d, x)) = x
           /\ DOMAIN ToPg(d, x) = Fields
           /\ \A n \in Fields : ToPg(d, x)[n] # Undefined
           /\ decl.fields["f"].type # "array" => \A n \in Fields : ToPg(d, x)[n][1] # "array"
<1>1. /\ \A n \in Fields : Kind(d.fields[n].type) = "Date" <=> decl.fields[n].type = "Date"
      /\ \A n \in Fields : Kind(e.fields[n].type) = "Date" <=> decl.fields[n].type = "Date"
      /\ \A n \in Fields : Kind(decl.fields[n].type) = "Date" <=> decl.fields[n].type = "Date"
    BY KindDate DEF Alike
<1>2. /\ decl.fields["id"].type = "string" /\ decl.fields["createdAt"].type = "Date"
      /\ decl.fields["updatedAt"].type = "Date"
    BY DEF DeclOK, Field
<1>3. \A n \in Fields :
        /\ x[n] = <<x[n][1], x[n][2]>> /\ x[n][2] \in Nat
        /\ decl.fields[n].type = "Date" => x[n][1] = "Date" \/ x[n] = Null
        /\ decl.fields[n].type # "Date" => x[n] # Undefined
    BY <1>2 DEF Proper, Fields, Null, Undefined
<1>4. \A n \in Fields :
        ToPg(d, x)[n] = IF decl.fields[n].type # "Date" THEN x[n]
                        ELSE IF x[n][1] = "Date" THEN <<"iso", x[n][2]>> ELSE Null
    BY <1>1 DEF ToPg
<1>5. ToPg(d, x) = ToPg(decl, x)
    BY <1>1 DEF ToPg
<1>6. ASSUME NEW n \in Fields
      PROVE  /\ ToPg(d, x)[n] # Undefined
             /\ FromPg(e, ToPg(d, x))[n] = x[n]
             /\ decl.fields["f"].type # "array" => ToPg(d, x)[n][1] # "array"
    <2> DEFINE y == ToPg(d, x)[n]
    <2>1. FromPg(e, ToPg(d, x))[n] =
            IF decl.fields[n].type # "Date" \/ y = Null THEN y ELSE <<"Date", y[2]>>
        BY <1>1 DEF FromPg
    <2>2. CASE decl.fields[n].type # "Date"
        <3>1. y = x[n]
            BY <2>2, <1>4
        <3>2. decl.fields["f"].type # "array" => x[n][1] # "array"
            BY DEF Proper, Fields, Null
        <3> QED
            BY <3>1, <3>2, <2>1, <2>2, <1>3
    <2>3. CASE decl.fields[n].type = "Date" /\ x[n][1] = "Date"
        <3>1. y = <<"iso", x[n][2]>>
            BY <2>3, <1>4
        <3>2. y[1] = "iso" /\ y[2] = x[n][2]
            BY <3>1
        <3>3. y # Undefined /\ y # Null /\ y[1] # "array"
            BY <3>1 DEF Undefined, Null
        <3> HIDE DEF y
        <3>4. x[n] = <<"Date", y[2]>>
            BY <3>2, <2>3, <1>3
        <3> QED
            BY <3>3, <3>4, <2>1, <2>3 DEF y
    <2>4. CASE decl.fields[n].type = "Date" /\ x[n] = Null
        <3>0. x[n][1] # "Date"
            BY <2>4 DEF Null
        <3>1. y = Null
            BY <3>0, <2>4, <1>4
        <3> QED
            BY <3>1, <2>1, <2>4 DEF Null, Undefined
    <2> QED
        BY <2>2, <2>3, <2>4, <1>3
<1>7. FromPg(e, ToPg(d, x)) = x
    BY <1>6 DEF FromPg, Proper
<1> QED
    BY <1>5, <1>6, <1>7 DEF ToPg

(* The declaration is like itself. *)
LEMMA DeclAlike == Alike(decl)
BY DEF Alike

(* A conventional declaration's mapper takes whatever is proper. *)
LEMMA NothingThrown ==
    ASSUME DeclOK, Conventional, NEW x, Proper(x)
    PROVE  ~Throws(decl, x)
<1>1. \A n \in Fields : Kind(decl.fields[n].type) = "Date" <=> decl.fields[n].type = "Date"
    BY KindDate
<1>2. SUFFICES ASSUME NEW n \in Fields, decl.fields[n].type = "Date",
                      ~decl.fields[n].nullable, x[n][1] # "Date"
               PROVE  FALSE
    BY <1>1 DEF Throws
<1>3. n = "f"
    BY <1>2 DEF Fields, Proper, DeclOK, Field
<1> QED
    BY <1>2, <1>3 DEF Proper, Conventional

-----------------------------------------------------------------------------
(* The steps *)

(* A value that is given has the field's type, or is null where that is
   allowed. *)
LEMMA GivenProper ==
    ASSUME DeclOK, edits \in Nat, NEW optional \in BOOLEAN, NEW given \in Givens(optional),
           given # Undefined
    PROVE  /\ given \in Spellings \X Nat
           /\ \/ given[1] = decl.fields["f"].type /\ given[2] # 0
              \/ given = Null /\ (decl.fields["f"].nullable \/ decl.fields["f"].optional)
<1>1. decl.fields["f"].type \in Spellings
    BY DEF DeclOK, FieldKind, Fields, Spellings
<1>2. CASE given = ValueOf(decl.fields["f"].type, edits + 2)
    BY <1>1, <1>2 DEF ValueOf
<1>3. CASE given = Null /\ decl.fields["f"].nullable
    BY <1>3 DEF Null, Spellings
<1> QED
    BY <1>2, <1>3 DEF Givens

(* Nothing stored is proper. *)
LEMMA UnstoredImproper ==
    /\ Unstored = [n \in Fields |-> Undefined]
    /\ NoEntity = [fields |-> Unstored, state |-> Unstored]
    /\ \A x : Proper(x) => x # Unstored /\ ToPg(decl, x) # Unstored
<1>1. /\ Unstored = [n \in Fields |-> Undefined]
      /\ NoEntity = [fields |-> Unstored, state |-> Unstored]
    BY DEF Unstored, NoEntity
<1>2. ASSUME NEW x, Proper(x)
      PROVE  x # Unstored /\ ToPg(decl, x) # Unstored
    <2>1. "createdAt" \in Fields /\ "id" \in Fields
        BY DEF Fields
    <2>2. x["id"] # Undefined
        BY <1>2 DEF Proper, Undefined
    <2>3. x # Unstored
        BY <2>1, <2>2, <1>1
    <2>4. ToPg(decl, x)["id"] # Undefined
        BY <2>1, <2>2 DEF ToPg, Null, Undefined
    <2> QED
        BY <2>1, <2>3, <2>4, <1>1
<1> QED
    BY <1>1, <1>2

(* The files that are built are those of the declaration, or alike. *)
LEMMA BuiltAlike ==
    ASSUME FilesOK, Built
    PROVE  \A n \in Files : Alike(From(n))
BY DEF FilesOK, Built

(* The files of an entity have these names. *)
LEMMA FileNames ==
    {"factory", "mapper", "util", "service", "module"} \subseteq Files
BY DEF Files

(* Redeclare, Generate: there is no entity afterwards. *)
LEMMA RedeclareKeeps ==
    ASSUME CInv, Redeclare
    PROVE  CInv'
<1>1. /\ stored' = Unstored /\ entity' = NoEntity /\ UNCHANGED <<files, threw, edits>>
      /\ stored = Unstored /\ entity = NoEntity
    BY DEF Redeclare, Unstored
<1> DEFINE fs == decl.fields
           f == [fs["f"] EXCEPT !.nullable = ~@]
           gs == [fs EXCEPT !["f"] = f]
<1>2. decl' = [decl EXCEPT !.fields = gs]
    BY DEF Redeclare
<1>3. fs \in [Fields -> FieldKind] /\ "f" \in Fields /\ decl.mutable \in BOOLEAN
      /\ decl.editable \in BOOLEAN
    BY DEF CInv, DeclOK, Fields
<1>4. /\ f \in FieldKind /\ f.type = fs["f"].type /\ f.readonly = fs["f"].readonly
      /\ f.optional = fs["f"].optional
    BY <1>3 DEF FieldKind
<1>5. decl = [fields |-> fs, mutable |-> decl.mutable, editable |-> decl.editable]
    BY DEF CInv, DeclOK
<1> HIDE DEF f
<1>6. /\ gs \in [Fields -> FieldKind] /\ gs["f"] = f
      /\ \A n \in Fields : n # "f" => gs[n] = fs[n]
    BY <1>3, <1>4
<1>7. "id" \in Fields /\ "createdAt" \in Fields /\ "updatedAt" \in Fields
    BY DEF Fields
<1> HIDE DEF gs, fs
<1>8. decl' = [fields |-> gs, mutable |-> decl.mutable, editable |-> decl.editable]
    BY <1>2, <1>5
<1>9. decl'.fields = gs /\ decl'.mutable = decl.mutable /\ decl'.editable = decl.editable
    BY <1>8
<1>10. DeclOK'
    <2>1. decl' \in [fields : [Fields -> FieldKind], mutable : BOOLEAN, editable : BOOLEAN]
        BY <1>3, <1>6, <1>8
    <2>2. gs["id"] = fs["id"] /\ gs["createdAt"] = fs["createdAt"]
          /\ gs["updatedAt"] = fs["updatedAt"]
        BY <1>6, <1>7
    <2> QED
        BY <2>1, <2>2, <1>9 DEF CInv, DeclOK, fs
<1>11. \A n \in Fields : /\ gs[n].type = fs[n].type /\ gs[n].readonly = fs[n].readonly
                         /\ gs[n].optional = fs[n].optional
    BY <1>4, <1>6
<1>12. FilesOK'
    <2> SUFFICES ASSUME NEW n \in Files
                 PROVE  files[n] = NoFile \/ (files[n] = <<files[n][1]>> /\ Alike(files[n][1])')
        BY <1>1 DEF FilesOK, From, Alike
    <2>1. files[n] = NoFile \/ (files[n] = <<files[n][1]>> /\ Alike(files[n][1]))
        BY DEF CInv, FilesOK, From
    <2> QED
        BY <2>1, <1>1, <1>9, <1>11 DEF Alike, fs
<1>13. Usual' => Usual
    BY <1>4, <1>6, <1>7, <1>9 DEF Usual, fs
<1>14. Usual' => Works'
    BY <1>1, <1>13 DEF CInv, Works, EntityOK, RowOK, ThrewOK, Unstored, NoEntity
<1> QED
    BY <1>1, <1>10, <1>12, <1>14 DEF CInv

LEMMA GenerateKeeps ==
    ASSUME CInv, NEW force \in BOOLEAN, Generate(force)
    PROVE  CInv'
<1>1. /\ entity' = NoEntity /\ ~threw' /\ UNCHANGED <<decl, stored, kept, edits>>
      /\ files' = [n \in Files |-> IF files[n] # NoFile /\ ~force THEN files[n] ELSE <<decl>>]
    BY DEF Generate
<1>2. FilesOK'
    <2> SUFFICES ASSUME NEW n \in Files
                 PROVE  files'[n] = NoFile
                        \/ (files'[n] = <<files'[n][1]>> /\ Alike(files'[n][1]))
        BY <1>1 DEF FilesOK, From, Alike
    <2>1. files[n] = NoFile \/ (files[n] = <<files[n][1]>> /\ Alike(files[n][1]))
        BY DEF CInv, FilesOK, From
    <2>2. files'[n] = files[n] \/ files'[n] = <<decl>>
        BY <1>1
    <2>3. CASE files'[n] = files[n]
        BY <2>1, <2>3
    <2>4. CASE files'[n] = <<decl>>
        <3>1. files'[n][1] = decl
            BY <2>4
        <3> QED
            BY <3>1, <2>4, DeclAlike
    <2> QED
        BY <2>2, <2>3, <2>4
<1>3. DeclOK' /\ (Usual' <=> Usual)
    BY <1>1 DEF CInv, DeclOK, Usual
<1>4. Usual' => Works'
    BY <1>1, <1>3 DEF CInv, Works, EntityOK, RowOK, ThrewOK, Proper, ToPg, Unstored, NoEntity
<1> QED
    BY <1>1, <1>2, <1>3, <1>4 DEF CInv

(* While the declaration and the files stand, what works is enough. *)
LEMMA FilesStand ==
    ASSUME CInv, UNCHANGED <<decl, files>>, edits' \in Nat, Usual => Works'
    PROVE  CInv'
<1>1. DeclOK' /\ (Usual' <=> Usual)
    BY DEF CInv, DeclOK, Usual
<1>2. FilesOK'
    BY DEF CInv, FilesOK, From, Alike
<1> QED
    BY <1>1, <1>2 DEF CInv

(* An entity that holds what is due and the row, with the row as it was. *)
LEMMA EntityStands ==
    ASSUME CInv, Usual, UNCHANGED <<decl, files, stored, kept, threw>>,
           entity' = [fields |-> due', state |-> stored],
           Proper(due)', stored # Unstored /\ ~decl.mutable => due' = kept,
           Current /\ Conventional => ~threw
    PROVE  Works'
<1>1. UNCHANGED Unstored /\ UNCHANGED NoEntity
    BY DEF Unstored, NoEntity
<1>2. EntityOK'
    BY <1>1 DEF EntityOK
<1>3. RowOK'
    BY <1>1 DEF RowOK, CInv, Works, Proper, ToPg
<1>4. due' # Unstored
    <2>1. "id" \in Fields /\ due'["id"] # Undefined
        BY DEF Proper, Undefined, Fields
    <2> QED
        BY <2>1, UnstoredImproper
<1>5. entity'.fields = due'
    OBVIOUS
<1>6. entity' # NoEntity
    BY <1>4, <1>5, UnstoredImproper
<1>7. ThrewOK'
    BY <1>1, <1>6 DEF ThrewOK, Current, Conventional
<1> QED
    BY <1>2, <1>3, <1>7 DEF Works

LEMMA NewKeeps ==
    ASSUME CInv, New
    PROVE  CInv'
<1>1. PICK given \in Givens(decl.fields["f"].optional) :
        /\ entity' = [NoEntity EXCEPT !.fields = NewEntity(From("util"), given, 1)]
        /\ due' = [id |-> ValueOf("string", 1), createdAt |-> ValueOf("Date", 1),
                   updatedAt |-> ValueOf("Date", 1),
                   f |-> IF given = Undefined THEN Null ELSE given]
    BY DEF New
<1>2. /\ UNCHANGED <<decl, files, stored, kept, threw, edits>>
      /\ Built /\ stored = Unstored
    BY DEF New, Unstored
<1> SUFFICES ASSUME Usual PROVE Works'
    BY <1>2, FilesStand DEF CInv
<1>3. Alike(From("util"))
    BY <1>2, BuiltAlike, FileNames DEF CInv
<1>4. decl.fields["f"].optional \in BOOLEAN /\ "f" \in Fields
    BY DEF CInv, DeclOK, FieldKind, Fields
<1>5. given = Undefined => decl.fields["f"].optional
    <2>1. given = Undefined => given # ValueOf(decl.fields["f"].type, edits + 2)
        BY DEF CInv, Undefined, ValueOf
    <2>2. Null # Undefined
        BY DEF Null, Undefined
    <2> QED
        BY <2>1, <2>2, <1>1 DEF Givens
<1> DEFINE v == IF given = Undefined THEN Null ELSE given
<1>6. NewEntity(From("util"), given, 1) = due'
    <2>1. From("util").fields["f"].optional = decl.fields["f"].optional
        BY <1>3, <1>4 DEF Alike
    <2> QED
        BY <2>1, <1>1, <1>5 DEF NewEntity
<1>7. Null \in Spellings \X Nat
    BY DEF Null, Spellings
<1>8. /\ v \in Spellings \X Nat
      /\ \/ v[1] = decl.fields["f"].type /\ v[2] # 0
         \/ v = Null /\ (decl.fields["f"].nullable \/ decl.fields["f"].optional)
    <2>1. CASE given = Undefined
        BY <2>1, <1>5, <1>7
    <2>2. CASE given # Undefined
        BY <2>2, <1>4, GivenProper DEF CInv
    <2> QED
        BY <2>1, <2>2
<1> HIDE DEF v
<1>9. Proper(due)'
    <2>1. due' = [id |-> <<"string", 1>>, createdAt |-> <<"Date", 1>>,
                  updatedAt |-> <<"Date", 1>>, f |-> v]
        BY <1>1 DEF ValueOf, v
    <2>2. /\ due'["id"] = <<"string", 1>> /\ due'["createdAt"] = <<"Date", 1>>
          /\ due'["updatedAt"] = <<"Date", 1>> /\ due'["f"] = v
        BY <2>1
    <2>3. <<"string", 1>> \in Spellings \X Nat /\ <<"Date", 1>> \in Spellings \X Nat
        BY DEF Spellings
    <2>4. due' = [n \in Fields |-> due'[n]]
        BY <2>1 DEF Fields
    <2>5. \A n \in Fields : due'[n] \in Spellings \X Nat
        BY <2>2, <2>3, <1>8 DEF Fields
    <2>6. due' \in [Fields -> Spellings \X Nat]
        BY <2>4, <2>5
    <2> QED
        BY <2>2, <2>6, <1>2, <1>8 DEF Proper
<1>10. entity' = [fields |-> due', state |-> stored]
    BY <1>1, <1>2, <1>6 DEF NoEntity, Unstored
<1> QED
    BY <1>2, <1>9, <1>10, EntityStands DEF CInv, Works, ThrewOK

LEMMA EditKeeps ==
    ASSUME CInv, Edit
    PROVE  CInv'
<1>1. PICK given \in IF decl.editable THEN Givens(TRUE) ELSE {Undefined} :
        /\ entity' = [entity EXCEPT !.fields = EditEntity(From("util"), @, given, edits + 2)]
        /\ due' = [due EXCEPT !["updatedAt"] = ValueOf("Date", edits + 2),
                              !["f"] = IF given = Undefined THEN @ ELSE given]
    BY DEF Edit
<1>2. /\ UNCHANGED <<decl, files, stored, kept, threw>> /\ edits' = edits + 1
      /\ Built /\ entity # NoEntity /\ From("util").mutable
    BY DEF Edit
<1> SUFFICES ASSUME Usual PROVE Works'
    BY <1>2, FilesStand DEF CInv
<1>3. Alike(From("util")) /\ decl.mutable
    BY <1>2, BuiltAlike, FileNames DEF CInv, Alike
<1>4. entity = [fields |-> due, state |-> stored] /\ Proper(due) /\ edits \in Nat
    BY <1>2 DEF CInv, Works, EntityOK
<1> DEFINE old == due["f"]
           v == IF given = Undefined THEN old ELSE given
           now == <<"Date", edits + 2>>
<1>5. /\ v \in Spellings \X Nat
      /\ \/ v[1] = decl.fields["f"].type /\ v[2] # 0
         \/ v = Null /\ (decl.fields["f"].nullable \/ decl.fields["f"].optional)
    <2>1. CASE given = Undefined
        BY <2>1, <1>4 DEF Proper, Fields
    <2>2. CASE given # Undefined
        <3>1. given \in Givens(TRUE)
            BY <2>2, <1>1
        <3> QED
            BY <2>2, <3>1, GivenProper DEF CInv
    <2> QED
        BY <2>1, <2>2
<1>6. given # Undefined => ~decl.fields["f"].readonly
    BY <1>1 DEF Usual
<1>7. now \in Spellings \X Nat /\ now[1] = "Date" /\ ValueOf("Date", edits + 2) = now
    BY <1>4 DEF Spellings, ValueOf
<1> HIDE DEF v, now
<1>8. /\ due' = [due EXCEPT !["updatedAt"] = now, !["f"] = v]
      /\ DOMAIN due = Fields /\ due \in [Fields -> Spellings \X Nat]
    BY <1>1, <1>4, <1>7 DEF Proper, v
<1>9. /\ due' \in [Fields -> Spellings \X Nat]
      /\ due'["id"] = due["id"] /\ due'["createdAt"] = due["createdAt"]
      /\ due'["updatedAt"] = now /\ due'["f"] = v
    BY <1>5, <1>7, <1>8 DEF Fields
<1>10. Proper(due)'
    BY <1>2, <1>4, <1>5, <1>7, <1>9 DEF Proper
<1> DEFINE d == From("util")
<1>11. /\ d.fields["createdAt"].readonly /\ ~d.fields["updatedAt"].readonly
       /\ d.fields["f"].readonly = decl.fields["f"].readonly
    BY <1>3 DEF Alike, Usual, Fields, CInv, DeclOK, Field
<1> HIDE DEF d
<1>12. \A n \in Fields : EditEntity(d, due, given, edits + 2)[n] = due'[n]
    <2> SUFFICES ASSUME NEW n \in Fields
                 PROVE  EditEntity(d, due, given, edits + 2)[n] = due'[n]
        OBVIOUS
    <2>1. EditEntity(d, due, given, edits + 2)[n] =
            IF n = "updatedAt" THEN now
            ELSE IF n = "id" \/ d.fields[n].readonly THEN due[n]
            ELSE IF n = "createdAt" THEN Undefined
            ELSE UpdateField(due[n], given)
        BY <1>7 DEF EditEntity
    <2>2. CASE n = "f"
        <3>1. UpdateField(due[n], given) = v
            BY <2>2 DEF UpdateField, v
        <3>2. d.fields["f"].readonly => v = due["f"]
            BY <1>6, <1>11 DEF v
        <3> QED
            BY <2>1, <2>2, <3>1, <3>2, <1>9
    <2>3. CASE n # "f"
        BY <2>1, <2>3, <1>9, <1>11 DEF Fields
    <2> QED
        BY <2>2, <2>3
<1>13. EditEntity(d, due, given, edits + 2) = due'
    BY <1>9, <1>12 DEF EditEntity
<1>14. entity' = [fields |-> due', state |-> stored]
    BY <1>1, <1>4, <1>13 DEF d
<1> QED
    BY <1>2, <1>3, <1>10, <1>14, EntityStands DEF CInv, Works, ThrewOK

LEMMA LoadKeeps ==
    ASSUME CInv, Load
    PROVE  CInv'
<1>1. /\ UNCHANGED <<decl, files, stored, kept, threw, edits>>
      /\ Built /\ stored # Unstored /\ due' = kept
      /\ entity' = [fields |-> FromPg(From("mapper"), stored), state |-> stored]
    BY DEF Load, Unstored
<1> SUFFICES ASSUME Usual PROVE Works'
    BY <1>1, FilesStand DEF CInv
<1>2. Proper(kept) /\ stored = ToPg(decl, kept)
    BY <1>1 DEF CInv, Works, RowOK
<1>3. FromPg(From("mapper"), stored) = kept
    BY <1>1, <1>2, BuiltAlike, FileNames, DeclAlike, Spells DEF CInv
<1>4. Proper(due)'
    BY <1>1, <1>2 DEF Proper
<1> QED
    BY <1>1, <1>3, <1>4, EntityStands DEF CInv, Works, ThrewOK

LEMMA PassAsJsonKeeps ==
    ASSUME CInv, PassAsJson
    PROVE  CInv'
<1>1. /\ UNCHANGED <<decl, files, stored, due, kept, threw, edits>>
      /\ Built /\ entity # NoEntity
      /\ entity' = [entity EXCEPT !.fields =
            FromJson(From("mapper"), ToJson(From("mapper"), @))]
    BY DEF PassAsJson
<1> SUFFICES ASSUME Usual PROVE Works'
    BY <1>1, FilesStand DEF CInv
<1>2. /\ entity = [fields |-> due, state |-> stored] /\ Proper(due)
      /\ stored # Unstored /\ ~decl.mutable => due = kept
    BY <1>1 DEF CInv, Works, EntityOK
<1>3. FromJson(From("mapper"), ToJson(From("mapper"), due)) = due
    BY <1>1, <1>2, BuiltAlike, FileNames, Spells DEF CInv, FromJson, ToJson
<1>4. entity' = [fields |-> due', state |-> stored]
    BY <1>1, <1>2, <1>3
<1>5. Proper(due)'
    BY <1>1, <1>2 DEF Proper
<1> QED
    BY <1>1, <1>2, <1>4, <1>5, EntityStands DEF CInv, Works, ThrewOK

LEMMA SaveKeeps ==
    ASSUME CInv, Save
    PROVE  CInv'
<1> DEFINE d == From("mapper")
           fails == Throws(d, entity.fields)
           columns == ToPg(d, entity.fields)
           changed == {n \in Fields : columns[n] # entity.state[n] /\ columns[n] # Undefined}
           persists == ~Persisted \/ From("service").mutable
<1>1. /\ UNCHANGED <<decl, files, due, edits>> /\ Built /\ entity # NoEntity
      /\ threw' = (fails \/ (persists /\ ~Acceptable([n \in changed |-> columns[n]])))
      /\ threw' => UNCHANGED <<entity, stored, kept>>
      /\ ~threw' => /\ stored' = [n \in Fields |->
                            IF persists /\ n \in changed THEN columns[n]
                            ELSE IF ~Persisted THEN Null ELSE stored[n]]
                    /\ entity' = [entity EXCEPT !.state = columns]
                    /\ kept' = due
    BY DEF Save
<1> SUFFICES ASSUME Usual PROVE Works'
    BY <1>1, FilesStand DEF CInv
<1>2. /\ entity = [fields |-> due, state |-> stored] /\ Proper(due)
      /\ stored # Unstored /\ ~decl.mutable => due = kept
    BY <1>1 DEF CInv, Works, EntityOK
<1>3. Alike(d) /\ From("service").mutable = decl.mutable
    BY <1>1, BuiltAlike, FileNames DEF CInv, Alike
<1>4. entity.fields = due /\ entity.state = stored
    BY <1>2
<1>5. /\ columns = ToPg(decl, due) /\ DOMAIN columns = Fields
      /\ \A n \in Fields : columns[n] # Undefined /\ columns[n][1] # "array"
    BY <1>2, <1>3, <1>4, Spells, DeclAlike DEF CInv, Usual
<1>6. columns = [n \in Fields |-> columns[n]]
    BY <1>4 DEF ToPg
<1>7. Persisted <=> stored # Unstored
    BY <1>4 DEF Persisted, NoEntity, Unstored
<1>8. changed = {n \in Fields : columns[n] # stored[n]}
    BY <1>4, <1>5
<1>9. Acceptable([n \in changed |-> columns[n]])
    BY <1>5 DEF Acceptable
<1>10. Current /\ Conventional => ~fails
    <2> SUFFICES ASSUME Current, Conventional PROVE ~fails
        OBVIOUS
    <2>1. d = decl
        BY FileNames DEF Current, From
    <2> QED
        BY <2>1, <1>2, <1>4, NothingThrown DEF CInv
<1> HIDE DEF fails, columns, changed, persists
<1>11. UNCHANGED Unstored /\ UNCHANGED NoEntity
    BY DEF Unstored, NoEntity
<1>12. Current' /\ Conventional' => ~threw'
    BY <1>1, <1>9, <1>10 DEF Current, Conventional
<1>13. CASE threw'
    <2>1. UNCHANGED <<entity, stored, kept>>
        BY <1>1, <1>13
    <2>2. EntityOK' /\ RowOK'
        BY <2>1, <1>1, <1>11 DEF CInv, Works, EntityOK, RowOK, Proper, ToPg
    <2>3. ThrewOK'
        BY <2>1, <1>1, <1>11, <1>12 DEF ThrewOK
    <2> QED
        BY <2>2, <2>3 DEF Works
<1>14. CASE ~threw'
    <2>1. /\ stored' = [n \in Fields |->
                            IF persists /\ n \in changed THEN columns[n]
                            ELSE IF ~Persisted THEN Null ELSE stored[n]]
          /\ entity' = [entity EXCEPT !.state = columns] /\ kept' = due
        BY <1>1, <1>14
    <2>2. ASSUME NEW n \in Fields PROVE stored'[n] = columns[n]
        <3>1. CASE ~Persisted
            <4>1. stored[n] = Undefined
                BY <3>1, <1>7, UnstoredImproper
            <4>2. persists /\ n \in changed
                BY <3>1, <4>1, <1>5, <1>8 DEF persists
            <4> QED
                BY <2>1, <4>2
        <3>2. CASE Persisted /\ decl.mutable
            <4>1. persists
                BY <3>2, <1>3 DEF persists
            <4>2. CASE n \in changed
                BY <2>1, <4>1, <4>2
            <4>3. CASE n \notin changed
                <5>1. stored[n] = columns[n]
                    BY <4>3, <1>8
                <5> QED
                    BY <2>1, <3>2, <4>3, <5>1
            <4> QED
                BY <4>2, <4>3
        <3>3. CASE Persisted /\ ~decl.mutable
            <4>1. stored = columns
                BY <3>3, <1>2, <1>5, <1>7 DEF CInv, Works, RowOK
            <4> QED
                BY <2>1, <3>3, <4>1
        <3> QED
            BY <3>1, <3>2, <3>3
    <2>3. stored' = columns
        BY <2>1, <2>2, <1>6
    <2>4. entity' = [fields |-> due', state |-> stored']
        BY <2>1, <2>3, <1>1, <1>2
    <2>5. Proper(due)' /\ Proper(kept)' /\ stored' = ToPg(decl, kept)'
        BY <2>1, <2>3, <1>1, <1>2, <1>5 DEF Proper, ToPg
    <2>6. EntityOK' /\ RowOK'
        BY <2>1, <2>4, <2>5, <1>1 DEF EntityOK, RowOK
    <2>7. entity' # NoEntity
        <3>1. entity'.fields = due /\ due # Unstored
            BY <2>4, <1>1, <1>2, UnstoredImproper
        <3> QED
            BY <3>1, UnstoredImproper
    <2>8. ThrewOK'
        BY <2>7, <1>11, <1>12 DEF ThrewOK
    <2> QED
        BY <2>6, <2>8 DEF Works
<1> QED
    BY <1>13, <1>14

-----------------------------------------------------------------------------
LEMMA InitCInv == CodeGenInit => CInv
<1> SUFFICES ASSUME CodeGenInit PROVE CInv
    OBVIOUS
<1>1. DeclOK
    <2> DEFINE fs == decl.fields
    <2>1. /\ decl = [fields |-> fs, mutable |-> decl.mutable, editable |-> decl.editable]
          /\ decl.mutable \in BOOLEAN /\ decl.editable \in BOOLEAN
          /\ fs = [id |-> fs.id, createdAt |-> fs.createdAt, updatedAt |-> fs.updatedAt, f |-> fs.f]
          /\ fs.id = Field("string", TRUE, FALSE, FALSE)
          /\ fs.updatedAt = Field("Date", FALSE, FALSE, FALSE)
        BY DEF CodeGenInit, Declarations
    <2>2. /\ \E r \in BOOLEAN : fs.createdAt = Field("Date", r, FALSE, FALSE)
          /\ fs.f \in [type : Types, readonly : BOOLEAN, optional : BOOLEAN, nullable : BOOLEAN]
        BY DEF CodeGenInit, Declarations
    <2> HIDE DEF fs
    <2>3. /\ fs.createdAt \in FieldKind /\ fs.createdAt.type = "Date" /\ ~fs.createdAt.nullable
          /\ fs.f \in FieldKind /\ fs.id \in FieldKind /\ fs.updatedAt \in FieldKind
        BY <2>1, <2>2 DEF Field, FieldKind
    <2>4. fs = [n \in Fields |-> fs[n]] /\ \A n \in Fields : fs[n] \in FieldKind
        BY <2>1, <2>3 DEF Fields
    <2>5. fs \in [Fields -> FieldKind]
        BY <2>4
    <2>6. decl \in [fields : [Fields -> FieldKind], mutable : BOOLEAN, editable : BOOLEAN]
        BY <2>1, <2>5
    <2> QED
        BY <2>1, <2>3, <2>6 DEF DeclOK, fs
<1>2. /\ entity = NoEntity /\ stored = Unstored /\ ~threw /\ edits = 0
      /\ \A n \in Files : files[n] = NoFile
    BY DEF CodeGenInit, Unstored
<1> QED
    BY <1>1, <1>2 DEF CInv, FilesOK, Works, EntityOK, RowOK, ThrewOK

LEMMA NextCInv == CInv /\ [CodeGenNext]_codeGenVars => CInv'
<1> SUFFICES ASSUME CInv, [CodeGenNext]_codeGenVars PROVE CInv'
    OBVIOUS
<1>1. CASE UNCHANGED codeGenVars
    <2>1. UNCHANGED <<decl, files, entity, stored, due, kept, threw, edits>>
        BY <1>1 DEF codeGenVars
    <2>2. DeclOK' /\ edits' \in Nat
        BY <2>1 DEF CInv, DeclOK
    <2>3. FilesOK'
        BY <2>1 DEF CInv, FilesOK, Alike, From
    <2>4. Usual' = Usual /\ Current' = Current /\ Conventional' = Conventional
        BY <2>1 DEF Usual, Current, Conventional
    <2>5. /\ Unstored' = Unstored /\ NoEntity' = NoEntity
          /\ \A x : Proper(x)' = Proper(x)
        BY <2>1 DEF Unstored, NoEntity, Proper
    <2>6. (EntityOK => EntityOK') /\ (RowOK => RowOK')
        BY <2>1, <2>5 DEF EntityOK, RowOK, ToPg
    <2>7. ThrewOK => ThrewOK'
        BY <2>1, <2>4, <2>5 DEF ThrewOK
    <2> QED
        BY <2>2, <2>3, <2>4, <2>6, <2>7 DEF CInv, Works
<1>2. CASE CodeGenNext
    BY <1>2, RedeclareKeeps, GenerateKeeps, NewKeeps, EditKeeps, SaveKeeps, LoadKeeps,
       PassAsJsonKeeps DEF CodeGenNext
<1> QED
    BY <1>1, <1>2

(* The files of a conventional declaration never fail to save, and the entity
   and its row hold what the caller gave, for any types, through any sequence
   of new, edit, save, load and JSON.                                        *)
THEOREM FilesWork == CodeGenSpec => []GeneratedKeeps
<1>1. CInv => GeneratedKeeps
    <2> SUFFICES ASSUME CInv, Current, Conventional
                 PROVE  /\ ~threw
                        /\ entity # NoEntity => entity.fields = due
                        /\ stored # NoEntity.fields => FromPg(decl, stored) = kept
        BY DEF GeneratedKeeps
    <2>1. Works
        BY DEF CInv, Conventional, Usual
    <2>2. entity # NoEntity => entity.fields = due
        BY <2>1 DEF Works, EntityOK
    <2>3. stored # NoEntity.fields => FromPg(decl, stored) = kept
        BY <2>1, DeclAlike, Spells DEF Works, RowOK, CInv, Unstored
    <2> QED
        BY <2>1, <2>2, <2>3 DEF Works, ThrewOK
<1> QED
    BY <1>1, InitCInv, NextCInv, PTL DEF CodeGenSpec

-----------------------------------------------------------------------------
(***************************************************************************)
(* The pages of a list add up to it, for any table, filter, sort and page  *)
(* size, and any number of rows that come and go.                          *)
(*                                                                         *)
(* Where no two rows tie, an answer has each row at its rank: the number   *)
(* of rows before it.  A walk forwards has read the rows of the first      *)
(* ranks, as many as its pages hold, or all that were there all along      *)
(* (Forward); a walk backwards has read the first page and those from the  *)
(* last down (Backward).  A change that moves nothing across what was read *)
(* leaves these ranks alone (Unmoved).                                     *)
(***************************************************************************)
(* An enumeration of a finite set by as many numbers reaches all of it. *)
LEMMA Enumerates ==
  ASSUME NEW S, IsFiniteSet(S), NEW s \in [1 .. Cardinality(S) -> S],
         \A m, n \in 1 .. Cardinality(S) : s[m] = s[n] => m = n
  PROVE  /\ Cardinality(S) \in Nat
         /\ \A x \in S : \E m \in 1 .. Cardinality(S) : s[m] = x
<1> DEFINE N == Cardinality(S)
<1>1. N \in Nat
  BY FS_CardinalityType
<1>2. s \in Injection(1 .. N, S)
  BY Fun_IsInj
<1>3. Cardinality(1 .. N) = N
  BY <1>1, FS_Interval
<1>4. s \in Surjection(1 .. N, S)
  BY <1>2, <1>3, FS_Injection
<1>5. QED
  BY <1>1, <1>4, Fun_SurjectionProperties

(* The first m members of an enumeration are m. *)
FirstOf(s, m) == {s[i] : i \in 1 .. m}

(* The first m of members that differ are m. *)
LEMMA FirstOnes ==
  ASSUME NEW s, NEW m \in Nat, \A i, j \in 1 .. m : s[i] = s[j] => i = j
  PROVE  Cardinality(FirstOf(s, m)) = m
<1> DEFINE f == [i \in 1 .. m |-> s[i]]
           first == FirstOf(s, m)
<1>1. f \in [1 .. m -> first] /\ \A x \in first : \E i \in 1 .. m : f[i] = x
  BY DEF FirstOf
<1>2. \A i, j \in 1 .. m : f[i] = f[j] => i = j
  OBVIOUS
<1> HIDE DEF f, first
<1>3. f \in Bijection(1 .. m, first)
  BY <1>1, <1>2, Fun_IsBij
<1>4. IsFiniteSet(1 .. m) /\ Cardinality(1 .. m) = m
  BY FS_Interval
<1>5. QED
  BY <1>3, <1>4, FS_Bijection DEF ExistsBijection, first

-----------------------------------------------------------------------------
(* The order of a list. *)

NoTies == \E n \in DOMAIN walk.sort : walk.sort[n][1] = "id"

Walks ==
    [kind : DOMAIN SortMapper, filter : {{}} \cup Filters,
     sort : UNION {Sorts(kind) : kind \in DOMAIN SortMapper},
     perPage : PerPages, goes : {"next", "previous"}]

PagingTypeOK ==
    /\ rows \in [RowIds -> {NoRow} \cup Texts]
    /\ Stored \subseteq made
    /\ walk \in Walks
    /\ at \in {"new", "ids", "count", "failed", "over"}
    /\ page \in Nat \ {0}
    /\ list \subseteq RowIds \cap made
    /\ seen \in [RowIds -> Nat]
    /\ shifted \in BOOLEAN

(* A sort has two keys at most, and every column is a number. *)
LEMMA SortTyped ==
  ASSUME PagingAssumption, PagingTypeOK
  PROVE  /\ DOMAIN walk.sort \in {{}, {1}, {1, 2}}
         /\ \A n \in DOMAIN walk.sort : walk.sort[n][1] \in {"id", "text", "time"}
         /\ \A key \in {"id", "text", "time"}, i \in RowIds : Column(key, i) \in Int
<1>1. PICK kind \in DOMAIN SortMapper : walk.sort \in Sorts(kind)
  BY DEF PagingTypeOK, Walks
<1>2. PICK n \in 0 .. 2 : walk.sort \in [1 .. n -> SortKeys(kind)]
  BY <1>1 DEF Sorts
<1>3. \A x \in SortKeys(kind) : x[1] \in {"id", "text", "time"}
  <2>1. DOMAIN SortMapper[kind] \subseteq {"id", "text", "time"}
    BY DEF SortMapper, UserSorts, ConversationSorts, MessageTaskSorts
  <2>2. QED
    BY <2>1 DEF SortKeys
<1>4. 1 .. 0 = {} /\ 1 .. 1 = {1} /\ 1 .. 2 = {1, 2}
  OBVIOUS
<1>5. DOMAIN walk.sort = 1 .. n
  BY <1>2
<1>6. \A key \in {"id", "text", "time"}, i \in RowIds : Column(key, i) \in Int
  <2>1. ASSUME NEW i \in RowIds PROVE i \in Int /\ TimeOf[i] \in Int /\ rows[i] \in Int
    <3>1. i \in Int
      BY <2>1 DEF PagingAssumption
    <3>2. TimeOf[i] \in Int
      BY <2>1 DEF PagingAssumption
    <3>3. rows[i] = 0 \/ rows[i] \in Texts
      BY <2>1 DEF PagingTypeOK, NoRow
    <3>4. Texts \subseteq Int /\ 0 \in Int
      BY DEF PagingAssumption
    <3>5. rows[i] \in Int
      BY <3>3, <3>4, Zenon
    <3>6. QED
      BY <3>1, <3>2, <3>5
  <2>2. QED
    BY <2>1 DEF Column
<1>7. QED
  BY <1>2, <1>3, <1>4, <1>5, <1>6

(* ORDER BY is an order, and total when the id is in it. *)
LEMMA OrderOfRows ==
  ASSUME PagingAssumption, PagingTypeOK, NEW i \in RowIds, NEW j \in RowIds
  PROVE  /\ ~ Precedes(walk.sort, i, i)
         /\ Precedes(walk.sort, i, j) => ~ Precedes(walk.sort, j, i)
         /\ NoTies /\ i # j => Precedes(walk.sort, i, j) \/ Precedes(walk.sort, j, i)
<1> DEFINE C(n, x) == Column(walk.sort[n][1], x)
           Up(n) == walk.sort[n][2] = "asc"
           Less(n, x, y) == IF Up(n) THEN C(n, x) < C(n, y) ELSE C(n, x) > C(n, y)
           D == DOMAIN walk.sort
<1>1. /\ D \in {{}, {1}, {1, 2}}
      /\ \A n \in D, x \in RowIds : C(n, x) \in Int
  BY SortTyped
<1>2. \A x, y : Precedes(walk.sort, x, y) <=>
          \E n \in D : (\A m \in 1 .. n - 1 : C(m, x) = C(m, y)) /\ Less(n, x, y)
  BY DEF Precedes
<1>3. \A x, y : Precedes(walk.sort, x, y) <=>
          \/ 1 \in D /\ Less(1, x, y)
          \/ 2 \in D /\ C(1, x) = C(1, y) /\ Less(2, x, y)
  <2> HIDE DEF Less, C
  <2>1. 1 .. 1 - 1 = {} /\ 1 .. 2 - 1 = {1}
    OBVIOUS
  <2> QED BY <1>1, <1>2, <2>1
<1>4. \A n \in D, x \in RowIds, y \in RowIds :
          /\ ~ Less(n, x, x)
          /\ Less(n, x, y) => ~ Less(n, y, x) /\ C(n, x) # C(n, y)
          /\ C(n, x) # C(n, y) => Less(n, x, y) \/ Less(n, y, x)
  BY <1>1
<1>5. NoTies /\ i # j => \E n \in D : C(n, i) # C(n, j)
  BY DEF NoTies, Column
<1> HIDE DEF Less, C, D
<1>6. QED
  BY <1>1, <1>3, <1>4, <1>5

-----------------------------------------------------------------------------
(* How many rows come before a row. *)
Before(i) == {j \in Filtered : Precedes(walk.sort, j, i)}

Rank(i) == Cardinality(Before(i))

(* There are finitely many rows to list, and so before each. *)
LEMMA FilteredFinite ==
  ASSUME PagingAssumption
  PROVE  /\ Filtered \subseteq RowIds
         /\ IsFiniteSet(Filtered)
         /\ QueryCount \in Nat
         /\ \A i : IsFiniteSet(Before(i)) /\ Rank(i) \in Nat /\ Before(i) \subseteq Filtered
<1>1. Filtered \subseteq RowIds
  BY DEF Filtered, Stored
<1>2. IsFiniteSet(Filtered)
  BY <1>1, FS_Subset DEF PagingAssumption
<1>3. \A i : Before(i) \subseteq Filtered
  BY DEF Before
<1>4. \A i : IsFiniteSet(Before(i))
  BY <1>2, <1>3, FS_Subset
<1>5. QED
  BY <1>1, <1>2, <1>3, <1>4, FS_CardinalityType DEF QueryCount, Rank

(* A row is preceded by fewer than there are. *)
LEMMA RankBound ==
  ASSUME PagingAssumption, PagingTypeOK, NEW i \in Filtered
  PROVE  Rank(i) < QueryCount
<1>1. i \in RowIds /\ i \notin Before(i)
  BY FilteredFinite, OrderOfRows DEF Before
<1>2. Before(i) \cup {i} \subseteq Filtered
  BY FilteredFinite
<1>3. Cardinality(Before(i) \cup {i}) = Rank(i) + 1
  BY <1>1, FilteredFinite, FS_AddElement DEF Rank
<1>4. Cardinality(Before(i) \cup {i}) <= QueryCount
  BY <1>2, FilteredFinite, FS_Subset DEF QueryCount
<1>5. QED
  BY <1>3, <1>4, FilteredFinite

(* An answer lists the rows, each once, and where no two tie each at its rank. *)
LEMMA AnswerLists ==
  ASSUME PagingAssumption, PagingTypeOK, NEW s \in Answers
  PROVE  /\ s \in [1 .. QueryCount -> Filtered]
         /\ Len(s) = QueryCount
         /\ \A m, n \in 1 .. QueryCount : s[m] = s[n] => m = n
         /\ \A i \in Filtered : \E m \in 1 .. QueryCount : s[m] = i
         /\ NoTies => \A m \in 1 .. QueryCount : Rank(s[m]) = m - 1
<1> DEFINE N == QueryCount
<1>1. /\ s \in [1 .. N -> Filtered]
      /\ \A m, n \in 1 .. N : s[m] = s[n] => m = n
  BY DEF Answers, SetToSeqs, QueryCount
<1>2. N \in Nat /\ \A i \in Filtered : \E m \in 1 .. N : s[m] = i
  BY <1>1, FilteredFinite, Enumerates DEF QueryCount
<1>3. Len(s) = N
  BY <1>1, <1>2
<1>4. ASSUME NoTies, NEW m \in 1 .. N
      PROVE  Rank(s[m]) = m - 1
  <2>1. \A n \in 1 .. N : Precedes(walk.sort, s[n], s[m]) => n < m
    BY <1>1 DEF Answers
  <2>2. \A n \in 1 .. N : Precedes(walk.sort, s[m], s[n]) => m < n
    BY <1>1 DEF Answers
  <2>3. \A n \in 1 .. N : n # m => Precedes(walk.sort, s[n], s[m]) \/ Precedes(walk.sort, s[m], s[n])
    BY <1>1, <1>4, FilteredFinite, OrderOfRows
  <2>4. \A n \in 1 .. N : Precedes(walk.sort, s[n], s[m]) <=> n < m
    BY <2>1, <2>2, <2>3, <1>2
  <2>5. ASSUME NEW j PROVE j \in Before(s[m]) <=> \E n \in 1 .. m - 1 : s[n] = j
    <3>1. ASSUME j \in Before(s[m]) PROVE \E n \in 1 .. m - 1 : s[n] = j
      <4>1. PICK n \in 1 .. N : s[n] = j
        BY <1>2, <3>1, FilteredFinite
      <4>2. n < m
        BY <2>4, <3>1, <4>1 DEF Before
      <4>3. QED
        BY <4>1, <4>2, <1>2
    <3>2. ASSUME NEW n \in 1 .. m - 1, s[n] = j PROVE j \in Before(s[m])
      BY <1>1, <1>2, <2>4, <3>2 DEF Before
    <3>3. QED
      BY <3>1, <3>2
  <2>6. m - 1 \in 0 .. N
    BY <1>2
  <2>7. Before(s[m]) = FirstOf(s, m - 1)
    BY <2>5 DEF FirstOf
  <2>8. \A i, j \in 1 .. m - 1 : s[i] = s[j] => i = j
    BY <1>1, <1>2
  <2>9. QED
    BY <2>6, <2>7, <2>8, FirstOnes DEF Rank
<1>5. QED
  BY <1>1, <1>2, <1>3, <1>4

(* How often a page lists a row. *)
Times(s, i) == Cardinality({n \in DOMAIN s : s[n] = i})

(* Where nothing is listed twice, a row is listed once or not at all. *)
LEMMA ListedOnce ==
  ASSUME NEW s, NEW i, \A m, n \in DOMAIN s : s[m] = s[n] => m = n
  PROVE  Times(s, i) = IF \E n \in DOMAIN s : s[n] = i THEN 1 ELSE 0
<1>1. CASE \E n \in DOMAIN s : s[n] = i
  <2>1. PICK n \in DOMAIN s : s[n] = i
    BY <1>1
  <2>2. {m \in DOMAIN s : s[m] = i} = {n}
    BY <2>1
  <2>3. QED
    BY <1>1, <2>2, FS_Singleton DEF Times
<1>2. CASE ~ \E n \in DOMAIN s : s[n] = i
  <2>1. {m \in DOMAIN s : s[m] = i} = {}
    BY <1>2
  <2>2. QED
    BY <1>2, <2>1, FS_EmptySet DEF Times
<1>3. QED
  BY <1>1, <1>2

(* Without a limit a page has every row. *)
LEMMA WholePage ==
  ASSUME PagingAssumption, PagingTypeOK, Unlimited, NEW s \in Answers, NEW i
  PROVE  Times(Limited(s), i) = IF i \in Filtered THEN 1 ELSE 0
<1>1. Limited(s) = s /\ DOMAIN s = 1 .. QueryCount
  BY AnswerLists DEF Limited
<1>2. (\E n \in DOMAIN s : s[n] = i) <=> i \in Filtered
  BY <1>1, AnswerLists
<1>3. \A m, n \in DOMAIN s : s[m] = s[n] => m = n
  BY <1>1, AnswerLists
<1>4. Times(s, i) = IF \E n \in DOMAIN s : s[n] = i THEN 1 ELSE 0
  BY <1>3, ListedOnce
<1>5. QED
  BY <1>1, <1>2, <1>4

(* With one it has the rows whose rank is on the page. *)
LEMMA PageOfRanks ==
  ASSUME PagingAssumption, PagingTypeOK, walk.perPage > 0, NoTies,
         NEW s \in Answers, NEW i
  PROVE  /\ (page - 1) * walk.perPage \in Nat
         /\ Times(Limited(s), i) =
                IF /\ i \in Filtered
                   /\ (page - 1) * walk.perPage <= Rank(i)
                   /\ Rank(i) < (page - 1) * walk.perPage + walk.perPage
                THEN 1 ELSE 0
<1> DEFINE k == walk.perPage
           o == (page - 1) * k
           N == QueryCount
           to == IF o + k < N THEN o + k ELSE N
           d == SubSeq(s, o + 1, to)
<1>1. k \in Nat \ {0} /\ page - 1 \in Nat
  <2>1. walk.perPage \in PerPages /\ page \in Nat \ {0}
    BY DEF PagingTypeOK, Walks
  <2>2. walk.perPage \in Int
    BY <2>1, PagingAssumption DEF PagingAssumption
  <2>3. QED
    BY <2>1, <2>2
<1>2. o \in Nat
  <2>1. \A a, b \in Nat : a * b \in Nat
    OBVIOUS
  <2>2. QED
    BY <1>1, <2>1
<1>3. Offset(page) = o
  BY <1>1, <1>2 DEF Offset, Unlimited
<1>4. Limited(s) = d
  <2>1. ~ Unlimited /\ Len(s) = N
    BY <1>1, AnswerLists DEF Unlimited
  <2>2. QED
    BY <1>3, <2>1 DEF Limited
<1>5. /\ N \in Nat /\ s \in [1 .. N -> Filtered]
      /\ \A m, n \in 1 .. N : s[m] = s[n] => m = n
      /\ \A j \in Filtered : \E m \in 1 .. N : s[m] = j
      /\ \A m \in 1 .. N : Rank(s[m]) = m - 1
  BY AnswerLists, FilteredFinite
<1> HIDE DEF k, o, N
<1>6. s \in Seq(Filtered) /\ Len(s) = N
  BY <1>5
<1>11. to \in Int /\ to <= N /\ to <= o + k /\ (to = N \/ to = o + k)
  BY <1>1, <1>2, <1>5
<1> HIDE DEF to
<1>7. /\ DOMAIN d = 1 .. to - o
      /\ \A n \in 1 .. to - o : d[n] = s[o + n] /\ o + n \in 1 .. N
  BY <1>1, <1>2, <1>5, <1>6, <1>11
<1> HIDE DEF d
<1>8. \A m, n \in DOMAIN d : d[m] = d[n] => m = n
  <2>1. ASSUME NEW m \in DOMAIN d, NEW n \in DOMAIN d, d[m] = d[n] PROVE m = n
    <3>1. o + m = o + n
      BY <1>5, <1>7, <2>1
    <3>2. QED
      BY <1>2, <1>7, <1>11, <3>1
  <2>2. QED
    BY <2>1
<1>9. (\E n \in DOMAIN d : d[n] = i) <=> i \in Filtered /\ o <= Rank(i) /\ Rank(i) < o + k
  <2>1. ASSUME NEW n \in DOMAIN d, d[n] = i
        PROVE  i \in Filtered /\ o <= Rank(i) /\ Rank(i) < o + k
    <3>1. PICK m \in 1 .. N : m = o + n /\ s[m] = i
      BY <1>7, <2>1
    <3>2. i \in Filtered /\ Rank(i) = m - 1
      BY <1>5, <3>1
    <3>3. n \in 1 .. to - o
      BY <1>7
    <3>4. QED
      BY <1>1, <1>2, <1>5, <1>11, <3>1, <3>2, <3>3
  <2>2. ASSUME i \in Filtered, o <= Rank(i), Rank(i) < o + k
        PROVE  \E n \in DOMAIN d : d[n] = i
    <3>1. PICK m \in 1 .. N : s[m] = i
      BY <1>5, <2>2
    <3>2. Rank(i) = m - 1
      BY <1>5, <3>1
    <3>3. m - o \in 1 .. to - o /\ o + (m - o) = m
      BY <1>1, <1>2, <1>5, <1>11, <2>2, <3>2
    <3>4. QED
      BY <1>7, <3>1, <3>3
  <2>3. QED
    BY <2>1, <2>2
<1>10. QED
  <2>1. Times(d, i) = IF \E n \in DOMAIN d : d[n] = i THEN 1 ELSE 0
    BY <1>8, ListedOnce
  <2>2. QED
    BY <1>2, <1>4, <1>9, <2>1 DEF o, k

-----------------------------------------------------------------------------
(* The number of pages: enough for all rows, and no more. *)
LEMMA Quotient ==
  ASSUME NEW n \in Nat \ {0}, NEW k \in Nat \ {0}
  PROVE  /\ (n + k - 1) \div k \in Nat \ {0}
         /\ n <= ((n + k - 1) \div k) * k
<1> DEFINE q == (n + k - 1) \div k
           r == (n + k - 1) % k
<1>1. q \in Int /\ r \in 0 .. k - 1 /\ n + k - 1 = k * q + r
  OBVIOUS
<1> HIDE DEF q, r
<1>2. q * k = k * q /\ k * q \in Int
  BY <1>1
<1>3. n <= q * k
  BY <1>1, <1>2
<1>4. q <= 0 => q * k <= 0
  BY <1>1
<1>5. q > 0
  BY <1>1, <1>3, <1>4, <1>2
<1>6. QED
  BY <1>1, <1>3, <1>5 DEF q

(* perPage is a number. *)
LEMMA PageSize ==
  ASSUME PagingAssumption, PagingTypeOK
  PROVE  walk.perPage \in Int
BY DEF PagingAssumption, PagingTypeOK, Walks

(* The pages that getPagination counts have room for every row. *)
LEMMA Pages ==
  ASSUME PagingAssumption, PagingTypeOK
  PROVE  /\ TotalPages(QueryCount) \in Nat \ {0}
         /\ walk.perPage < 0 => TotalPages(QueryCount) = 1
         /\ walk.perPage > 0 => QueryCount <= TotalPages(QueryCount) * walk.perPage
         /\ walk.perPage = 0 => TotalPages(QueryCount) = IF QueryCount = 0 THEN 1 ELSE MaxPage + 1
<1> DEFINE N == QueryCount
<1>1. N \in Nat /\ walk.perPage \in Int /\ MaxPage \in Nat
  BY FilteredFinite, PageSize DEF PagingAssumption
<1>2. CASE N = 0
  <2>1. TotalPages(N) = 1
    BY <1>2 DEF TotalPages
  <2>2. QED
    BY <1>1, <1>2, <2>1
<1>3. CASE N # 0 /\ walk.perPage < 0
  <2>1. TotalPages(N) = (N + N - 1) \div N
    BY <1>1, <1>3 DEF TotalPages
  <2>2. N \in Nat \ {0} => (N + N - 1) \div N = 1
    <3> SUFFICES ASSUME N \in Nat \ {0} PROVE (N + N - 1) \div N = 1
      OBVIOUS
    <3> DEFINE a == N + N - 1
    <3>1. a \in Nat /\ a = N * 1 + (N - 1) /\ N - 1 \in 0 .. N - 1
      OBVIOUS
    <3>2. a \div N \in Int /\ a % N \in 0 .. N - 1 /\ a = N * (a \div N) + (a % N)
      BY <3>1
    <3>3. \A x, y \in Int : x < y => N * x <= N * y - N
      <4> HIDE DEF N
      <4>1. \A x, y \in Int : x < y => \E z \in Nat : y = x + 1 + z
        BY Z3T(10)
      <4>2. \A x \in Int, z \in Nat : N * (x + 1 + z) = N * x + N + N * z /\ N * z \in Nat
        OBVIOUS
      <4>3. QED
        BY <4>1, <4>2
    <3> HIDE DEF a
    <3>4. N * (a \div N) \in Int /\ N * 1 = N
      BY <3>2
    <3>5. ~ (a \div N < 1) /\ ~ (1 < a \div N)
      BY <3>1, <3>2, <3>3, <3>4
    <3>6. QED
      BY <3>2, <3>5 DEF a
  <2>3. QED
    BY <1>1, <1>3, <2>1, <2>2
<1>4. CASE N # 0 /\ walk.perPage = 0
  BY <1>1, <1>4 DEF TotalPages
<1>5. CASE N # 0 /\ walk.perPage > 0
  <2>1. TotalPages(N) = (N + walk.perPage - 1) \div walk.perPage
    BY <1>1, <1>5 DEF TotalPages
  <2>2. QED
    BY <1>1, <1>5, <2>1, Quotient
<1>6. QED
  BY <1>1, <1>2, <1>3, <1>4, <1>5

-----------------------------------------------------------------------------
(* No row precedes one that precedes it, before a step or after. *)
Asymmetric ==
    \A i, j \in RowIds : Precedes(walk.sort, i, j) => ~ Precedes(walk.sort, j, i)

(* No two rows precede each other: before a step, ... *)
LEMMA OrderBefore == PagingAssumption /\ PagingTypeOK => Asymmetric
BY OrderOfRows DEF Asymmetric

(* ... and after it. *)
LEMMA OrderAfter ==
  ASSUME PagingAssumption, PagingTypeOK'
  PROVE  Asymmetric'
<1>1. (PagingAssumption /\ PagingTypeOK => Asymmetric)'
  BY OrderBefore, PTL
<1>2. QED
  BY <1>1 DEF PagingAssumption

(* A row that comes or goes leaves the others as they are, and in their
   order.                                                                  *)
Changes(i) ==
    /\ i \in RowIds
    /\ rows' = [rows EXCEPT ![i] = rows'[i]]
    /\ UNCHANGED <<walk, at, page, list, seen>>
    /\ i \notin list \/ rows'[i] = NoRow
    /\ shifted' = (shifted \/ Moves(i)) \/ shifted' = (shifted \/ Moves(i)')

(* InsertRow and DeleteRow change one row. *)
LEMMA WritesChange ==
  ASSUME PagingAssumption, PagingTypeOK, InsertRow \/ DeleteRow
  PROVE  \E i \in RowIds :
            /\ Changes(i)
            /\ \/ i \notin Filtered /\ i \notin list /\ shifted' = (shifted \/ Moves(i)')
               \/ i \notin Filtered' /\ shifted' = (shifted \/ Moves(i))
<1>1. CASE InsertRow
  <2>1. PICK i \in RowIds, t \in Texts :
            /\ \A j \in made : j < i
            /\ rows' = [rows EXCEPT ![i] = t]
            /\ shifted' = (shifted \/ Moves(i)')
    BY <1>1 DEF InsertRow
  <2>2. i \notin made
    BY <2>1 DEF PagingAssumption
  <2>3. i \notin Filtered /\ i \notin list
    BY <2>2 DEF Filtered, PagingTypeOK
  <2>4. rows' = [rows EXCEPT ![i] = rows'[i]]
    BY <2>1 DEF PagingTypeOK
  <2>5. QED
    BY <1>1, <2>1, <2>3, <2>4 DEF InsertRow, Changes
<1>2. CASE DeleteRow
  <2>1. PICK i \in Stored :
            /\ rows' = [rows EXCEPT ![i] = NoRow]
            /\ shifted' = (shifted \/ Moves(i))
    BY <1>2 DEF DeleteRow
  <2>2. i \in RowIds /\ rows'[i] = NoRow
    BY <2>1 DEF PagingTypeOK, Stored
  <2>3. i \notin Filtered'
    BY <2>2 DEF Filtered, Stored
  <2>4. rows' = [rows EXCEPT ![i] = rows'[i]]
    BY <2>1, <2>2
  <2>5. QED
    BY <1>2, <2>1, <2>2, <2>3, <2>4 DEF DeleteRow, Changes
<1>3. QED
  BY <1>1, <1>2

(* The order of two rows is their own affair. *)
LEMMA Elsewhere ==
  ASSUME PagingTypeOK, NEW i \in RowIds, Changes(i)
  PROVE  /\ \A j : j # i => (j \in Filtered' <=> j \in Filtered)
         /\ \A j \in RowIds, l \in RowIds : j # i /\ l # i =>
                (Precedes(walk.sort, j, l)' <=> Precedes(walk.sort, j, l))
<1>1. \A j \in RowIds : j # i => rows'[j] = rows[j]
  BY DEF Changes, PagingTypeOK
<1>2. walk' = walk
  BY DEF Changes
<1>3. \A j : j # i => (j \in Filtered' <=> j \in Filtered)
  BY <1>1, <1>2 DEF Filtered, Stored
<1>4. \A key : \A j \in RowIds : j # i => Column(key, j)' = Column(key, j)
  BY <1>1 DEF Column
<1>5. ASSUME NEW j \in RowIds, NEW l \in RowIds, j # i, l # i
      PROVE  Precedes(walk.sort, j, l)' <=> Precedes(walk.sort, j, l)
  <2>1. \A m : /\ Column(walk.sort[m][1], j)' = Column(walk.sort[m][1], j)
               /\ Column(walk.sort[m][1], l)' = Column(walk.sort[m][1], l)
    BY <1>2, <1>4, <1>5
  <2>2. QED
    BY <1>2, <2>1 DEF Precedes
<1>6. QED
  BY <1>3, <1>5

Read == {i \in RowIds : seen[i] > 0}

(* A change that moves nothing across what was read leaves what was read in
   the list, where it was; behind a walk backwards it leaves all of it.    *)
LEMMA Unmoved ==
  ASSUME PagingAssumption, PagingTypeOK, PagingTypeOK', InsertRow \/ DeleteRow, ~ shifted'
  PROVE  /\ ~ shifted
         /\ Read' = Read
         /\ \A j \in Read \cap Filtered : j \in Filtered' /\ Rank(j)' = Rank(j)
         /\ walk.goes = "previous" =>
                Filtered' = Filtered /\ \A j \in Filtered : Rank(j)' = Rank(j)
<1>1. PICK i \in RowIds :
            /\ Changes(i)
            /\ \/ i \notin Filtered /\ i \notin list /\ shifted' = (shifted \/ Moves(i)')
               \/ i \notin Filtered' /\ shifted' = (shifted \/ Moves(i))
  BY WritesChange
<1>2. ~ shifted
  BY <1>1
<1>3. Read' = Read /\ walk' = walk /\ seen' = seen
  BY <1>1 DEF Read, Changes
<1>4. /\ \A j : j # i => (j \in Filtered' <=> j \in Filtered)
      /\ \A j \in RowIds, l \in RowIds : j # i /\ l # i =>
             (Precedes(walk.sort, j, l)' <=> Precedes(walk.sort, j, l))
  BY <1>1, Elsewhere
<1>5. Filtered \subseteq RowIds /\ Filtered' \subseteq RowIds
  BY DEF Filtered, Stored
<1>6. ASSUME NEW j \in RowIds, j # i, i \notin Before(j), i \notin Before(j)'
      PROVE  Rank(j)' = Rank(j)
  <2>1. \A l : l \in Before(j)' <=> l \in Before(j)
    BY <1>4, <1>5, <1>6 DEF Before
  <2>2. Before(j)' = Before(j)
    BY <2>1
  <2>3. QED
    BY <2>2 DEF Rank
<1>7. ASSUME i \in Filtered \/ i \in Filtered', NEW j \in Read \cap Filtered
      PROVE  /\ walk.goes # "previous"
             /\ j # i
             /\ i \notin Before(j) /\ i \notin Before(j)'
  <2>1. CASE i \notin Filtered
    <3>1. i \in Filtered' /\ ~ Moves(i)' /\ j # i /\ j \in Filtered' /\ i \notin Before(j)
      BY <1>1, <1>4, <1>7, <2>1 DEF Before
    <3>2. walk.goes # "previous" /\ Precedes(walk.sort, j, i)'
      BY <1>3, <1>7, <3>1 DEF Moves, Read
    <3>3. ~ Precedes(walk.sort, i, j)'
      BY <1>5, <3>1, <3>2, OrderAfter DEF Asymmetric
    <3>4. QED
      BY <3>1, <3>2, <3>3 DEF Before
  <2>2. CASE i \in Filtered
    <3>1. i \notin Filtered' /\ ~ Moves(i)
      BY <1>1, <1>2, <2>2
    <3>2. walk.goes # "previous" /\ Precedes(walk.sort, j, i)
      BY <1>7, <2>2, <3>1 DEF Moves, Read
    <3>3. ~ Precedes(walk.sort, i, j) /\ i # j
      BY <3>2, <1>5, <1>7, <2>2, OrderOfRows
    <3>4. QED
      BY <3>1, <3>2, <3>3 DEF Before
  <2>3. QED
    BY <2>1, <2>2
<1>8. ASSUME i \notin Filtered, i \notin Filtered'
      PROVE  Filtered' = Filtered /\ \A j \in Filtered : Rank(j)' = Rank(j)
  <2>1. Filtered' = Filtered
    BY <1>4, <1>8
  <2>2. \A j : i \notin Before(j) /\ i \notin Before(j)'
    BY <1>8 DEF Before
  <2>3. QED
    BY <1>5, <1>6, <1>8, <2>1, <2>2
<1>9. ASSUME NEW j \in Read \cap Filtered
      PROVE  j \in Filtered' /\ Rank(j)' = Rank(j)
  BY <1>4, <1>5, <1>6, <1>7, <1>8, <1>9
<1>10. ASSUME walk.goes = "previous"
       PROVE  i \notin Filtered /\ i \notin Filtered'
  BY <1>1, <1>3, <1>10 DEF Moves
<1>11. QED
  BY <1>2, <1>3, <1>8, <1>9, <1>10

-----------------------------------------------------------------------------
(* How far a walk has come.  Forwards it has read the rows of the first
   ranks, as many as its pages hold, or all that were there all along.     *)
Passed == IF at = "ids" THEN (page - 1) * walk.perPage ELSE page * walk.perPage

Forward ==
    /\ \A i \in Read : seen[i] = 1 /\ i \in Filtered /\ Rank(i) < Passed
    /\ Cardinality(Read) = Passed \/ list \cap Filtered \subseteq Read

(* Backwards it has read the first page, and those from the last down. *)
Low == IF at = "ids" THEN page * walk.perPage ELSE (page - 1) * walk.perPage

ReadBack(i) ==
    /\ i \in Filtered
    /\ at = "count" \/ page # 1
    /\ Rank(i) < walk.perPage \/ (page # 1 /\ Low <= Rank(i))

Backward ==
    /\ list = Filtered
    /\ page <= TotalPages(QueryCount)
    /\ \A i \in RowIds : seen[i] = IF ReadBack(i) THEN 1 ELSE 0

(* A page without a limit is all the pages. *)
AtOnce ==
    /\ page = 1
    /\ at = "ids" => Read = {}
    /\ \A i \in RowIds : seen[i] <= 1
    /\ at = "count" => list \cap Filtered \subseteq Read

WalkInv ==
    /\ at = "new" => Read = {} /\ page = 1
    /\ walk.perPage = 0 => page = 1 \/ (walk.goes = "next" /\ page <= MaxPage)
    /\ at \in {"ids", "count"} => (walk.perPage < 0 => AtOnce)
    /\ at \in {"ids", "count"} /\ ~ shifted /\ NoTies =>
        /\ walk.perPage = 0 => Read \subseteq Filtered
        /\ walk.perPage > 0 /\ walk.goes = "next" => Forward
        /\ walk.perPage > 0 /\ walk.goes = "previous" => Backward

PagingInv == PagingTypeOK /\ WalkInv /\ PagesAddUp

-----------------------------------------------------------------------------
(* What is proved of walks holds before they begin. *)
LEMMA InitPaging ==
  ASSUME PagingAssumption, PagingInit
  PROVE  PagingInv
<1>1. PagingTypeOK
  <2>1. <<>> \in Sorts("user")
    <3>1. <<>> \in [1 .. 0 -> SortKeys("user")]
      OBVIOUS
    <3>2. QED
      BY <3>1 DEF Sorts
  <2>2. "user" \in DOMAIN SortMapper
    BY DEF SortMapper
  <2>3. walk \in Walks
    BY <2>1, <2>2 DEF PagingInit, Walks
  <2>4. Stored \subseteq made /\ list \subseteq RowIds \cap made
    BY DEF PagingInit
  <2>5. seen \in [RowIds -> Nat] /\ page \in Nat \ {0} /\ shifted \in BOOLEAN
    <3>1. seen = [i \in RowIds |-> 0] /\ page = 1 /\ shifted = FALSE
      BY Zenon DEF PagingInit
    <3>2. 0 \in Nat /\ 1 \in Nat \ {0} /\ FALSE \in BOOLEAN
      OBVIOUS
    <3>3. seen \in [RowIds -> Nat]
      BY <3>1, <3>2
    <3>4. page \in Nat \ {0}
      BY <3>1, <3>2
    <3>5. shifted \in BOOLEAN
      BY <3>1, Zenon
    <3>6. QED
      BY <3>3, <3>4, <3>5
  <2>6. QED
    BY <2>3, <2>4, <2>5 DEF PagingTypeOK, PagingInit
<1>2. WalkInv /\ PagesAddUp
  BY DEF PagingInit, WalkInv, PagesAddUp, Read
<1>3. QED
  BY <1>1, <1>2 DEF PagingInv

(* Every step keeps the types. *)
LEMMA PagingTypeKept ==
  ASSUME PagingAssumption, PagingTypeOK, PagingNext
  PROVE  PagingTypeOK'
<1>1. CASE ParseSort
  <2>1. PICK sort \in Sorts(walk.kind) : walk' = [walk EXCEPT !.sort = sort]
    BY <1>1 DEF ParseSort
  <2>2. walk' \in Walks
    BY <2>1 DEF PagingTypeOK, Walks
  <2>3. list' \subseteq RowIds \cap made
    BY <1>1 DEF ParseSort, PagingTypeOK, Filtered, Stored
  <2>4. Stored' = Stored
    BY <1>1 DEF ParseSort, Stored
  <2>5. QED
    BY <1>1, <2>2, <2>3, <2>4 DEF ParseSort, PagingTypeOK
<1>2. CASE FindIds
  <2>1. seen' \in [RowIds -> Nat]
    <3>1. ASSUME NEW s \in Answers, NEW i \in RowIds
          PROVE  Times(Limited(s), i) \in Nat
      <4> DEFINE S == {n \in DOMAIN Limited(s) : Limited(s)[n] = i}
      <4>1. PICK n \in Int : DOMAIN Limited(s) \subseteq 1 .. n
        <5> DEFINE from == Offset(page) + 1
                   to == IF Offset(page) + walk.perPage < Len(s)
                         THEN Offset(page) + walk.perPage ELSE Len(s)
        <5>1. s \in Seq(Filtered) /\ Len(s) \in Nat /\ DOMAIN s = 1 .. Len(s)
          <6>1. s \in [1 .. QueryCount -> Filtered] /\ QueryCount \in Nat /\ Filtered \subseteq RowIds
            BY AnswerLists, FilteredFinite
          <6>2. s \in Seq(Filtered)
            BY <6>1
          <6>3. QED
            BY <6>1, <6>2
        <5>2. Offset(page) \in Int /\ walk.perPage \in Int
          BY PageSize DEF Offset, PagingTypeOK
        <5>3. from \in Int /\ to \in Int
          BY <5>1, <5>2
        <5> HIDE DEF from, to
        <5>4. DOMAIN SubSeq(s, from, to) = 1 .. to - from + 1
          BY <5>1, <5>3
        <5>5. Limited(s) = s \/ Limited(s) = SubSeq(s, from, to)
          BY DEF Limited, from, to
        <5>6. CASE Limited(s) = s
          BY <5>1, <5>6
        <5>7. CASE Limited(s) = SubSeq(s, from, to)
          <6>1. to - from + 1 \in Int /\ DOMAIN Limited(s) \subseteq 1 .. to - from + 1
            BY <5>3, <5>4, <5>7
          <6>2. QED
            BY <6>1
        <5>8. QED
          BY <5>5, <5>6, <5>7
      <4>2. IsFiniteSet(S)
        <5>1. S \subseteq 1 .. n
          BY <4>1
        <5>2. IsFiniteSet(1 .. n)
          BY FS_Interval
        <5>3. QED
          BY <5>1, <5>2, FS_Subset
      <4>3. QED
        BY <4>2, FS_CardinalityType DEF Times
    <3>2. QED
      BY <1>2, <3>1 DEF FindIds, PagingTypeOK, Times
  <2>2. Stored' = Stored
    BY <1>2 DEF FindIds, Stored
  <2>3. QED
    BY <1>2, <2>1, <2>2 DEF FindIds, PagingTypeOK
<1>3. CASE FindIdsFails
  <2>1. Stored' = Stored
    BY <1>3 DEF FindIdsFails, Stored
  <2>2. QED
    BY <1>3, <2>1 DEF FindIdsFails, PagingTypeOK
<1>4. CASE GetCount
  <2>1. page' \in Nat \ {0}
    BY <1>4, Pages DEF GetCount, NextPage, PreviousPage, PagingTypeOK
  <2>2. Stored' = Stored
    BY <1>4 DEF GetCount, Stored
  <2>3. QED
    BY <1>4, <2>1, <2>2 DEF GetCount, PagingTypeOK
<1>5. CASE InsertRow
  <2>1. PICK i \in RowIds, t \in Texts :
            rows' = [rows EXCEPT ![i] = t] /\ made' = made \cup {i} /\ shifted' = (shifted \/ Moves(i)')
    BY <1>5 DEF InsertRow
  <2>2. rows' \in [RowIds -> {NoRow} \cup Texts]
    BY <2>1 DEF PagingTypeOK
  <2>3. Stored' \subseteq made'
    BY <2>1 DEF PagingTypeOK, Stored
  <2>4. shifted' \in BOOLEAN
    BY <2>1
  <2>5. QED
    BY <1>5, <2>1, <2>2, <2>3, <2>4 DEF InsertRow, PagingTypeOK
<1>6. CASE DeleteRow
  <2>1. PICK i \in Stored : rows' = [rows EXCEPT ![i] = NoRow] /\ shifted' = (shifted \/ Moves(i))
    BY <1>6 DEF DeleteRow
  <2>2. rows' \in [RowIds -> {NoRow} \cup Texts]
    BY <2>1 DEF PagingTypeOK
  <2>3. Stored' \subseteq made'
    BY <1>6, <2>1 DEF PagingTypeOK, Stored, DeleteRow
  <2>4. shifted' \in BOOLEAN
    BY <2>1
  <2>5. QED
    BY <1>6, <2>2, <2>3, <2>4 DEF DeleteRow, PagingTypeOK
<1>7. QED
  BY <1>1, <1>2, <1>3, <1>4, <1>5, <1>6 DEF PagingNext

-----------------------------------------------------------------------------
(* One lemma for each kind of step. *)
LEMMA SameRows ==
  ASSUME UNCHANGED rows, walk'.filter = walk.filter
  PROVE  Filtered' = Filtered /\ QueryCount' = QueryCount
BY DEF Filtered, Stored, QueryCount

(* While the table and the walk stand, so do ranks and pages. *)
LEMMA SameList ==
  ASSUME UNCHANGED <<rows, walk>>
  PROVE  /\ Filtered' = Filtered /\ QueryCount' = QueryCount
         /\ NoTies' <=> NoTies
         /\ \A i : Rank(i)' = Rank(i)
         /\ TotalPages(QueryCount)' = TotalPages(QueryCount)
<1>1. Filtered' = Filtered /\ QueryCount' = QueryCount
  BY SameRows
<1>2. \A i, j : Precedes(walk.sort, i, j)' <=> Precedes(walk.sort, i, j)
  BY DEF Precedes, Column
<1>3. \A i : Before(i)' = Before(i)
  BY <1>1, <1>2 DEF Before
<1>4. TotalPages(QueryCount)' = TotalPages(QueryCount)
  BY <1>1 DEF TotalPages
<1>5. QED
  BY <1>1, <1>3, <1>4 DEF Rank, NoTies

(* A walk begins with nothing read. *)
LEMMA ParseSortStep ==
  ASSUME PagingAssumption, PagingInv, ParseSort
  PROVE  WalkInv' /\ PagesAddUp'
<1>1. PICK sort \in Sorts(walk.kind) : walk' = [walk EXCEPT !.sort = sort]
  BY DEF ParseSort
<1>2. /\ walk'.filter = walk.filter /\ walk'.perPage = walk.perPage /\ walk'.goes = walk.goes
  BY <1>1 DEF PagingInv, PagingTypeOK, Walks
<1>3. /\ at' = "ids" /\ page = 1 /\ page' = 1 /\ Read = {} /\ Read' = {}
      /\ list' = Filtered
      /\ \A i \in RowIds : seen'[i] = 0
  BY DEF ParseSort, PagingInv, PagingTypeOK, WalkInv, Read
<1>4. Filtered' = Filtered /\ QueryCount' = QueryCount
  BY <1>2, SameRows DEF ParseSort
<1>5. 1 <= TotalPages(QueryCount)'
  <2>1. TotalPages(QueryCount)' = TotalPages(QueryCount)
    BY <1>2, <1>4 DEF TotalPages
  <2>2. QED
    BY <2>1, Pages DEF PagingInv
<1>6. walk'.perPage \in Int
  BY <1>2, PageSize DEF PagingInv
<1>7. Forward'
  <2>1. Passed' = 0
    <3>1. 1 - 1 = 0 /\ 0 * walk'.perPage = 0
      BY <1>6
    <3>2. QED
      BY <1>3, <3>1 DEF Passed
  <2>2. QED
    BY <1>3, <2>1, FS_EmptySet DEF Forward
<1>8. Backward'
  BY <1>3, <1>4, <1>5 DEF Backward, ReadBack
<1>9. AtOnce'
  BY <1>3 DEF AtOnce
<1>10. QED
  BY <1>2, <1>3, <1>7, <1>8, <1>9 DEF WalkInv, PagesAddUp

(* A page forwards has the rows after those that were read. *)
LEMMA ReadsOn ==
  ASSUME PagingAssumption, PagingTypeOK, FindIds, NoTies, walk.perPage > 0, Forward
  PROVE  Forward'
<1> DEFINE k == walk.perPage
           o == (page - 1) * k
           N == QueryCount
<1>1. PICK s \in Answers : data' = Limited(s)
  BY DEF FindIds
<1>2. /\ Filtered' = Filtered
      /\ \A i : Rank(i)' = Rank(i)
      /\ list' = list
  BY SameList DEF FindIds
<1>3. k \in Nat \ {0} /\ N \in Nat /\ page \in Nat \ {0} /\ o \in Nat /\ page * k = o + k
  <2>1. k \in Nat \ {0} /\ page \in Nat \ {0} /\ N \in Nat
    BY PageSize, FilteredFinite DEF PagingTypeOK
  <2>2. \A p \in Nat \ {0}, a \in Nat \ {0} : (p - 1) * a \in Nat /\ p * a = (p - 1) * a + a
    OBVIOUS
  <2>3. QED
    BY <2>1, <2>2
<1>4. Passed = o /\ Passed' = o + k
  BY <1>3 DEF Passed, FindIds
<1>5. \A i \in RowIds : seen'[i] = seen[i] + Times(Limited(s), i)
  BY <1>1 DEF FindIds, Times
<1>6. \A i : Times(Limited(s), i) =
          IF i \in Filtered /\ o <= Rank(i) /\ Rank(i) < o + k THEN 1 ELSE 0
  BY PageOfRanks
<1>7. /\ Filtered \subseteq RowIds
      /\ \A i : Rank(i) \in Nat
      /\ \A i \in RowIds : seen[i] \in Nat
  BY FilteredFinite DEF PagingTypeOK
<1>8. /\ \A i \in Read : seen[i] = 1 /\ i \in Filtered /\ Rank(i) < o
      /\ Cardinality(Read) = o \/ list \cap Filtered \subseteq Read
  BY <1>4 DEF Forward
<1> HIDE DEF k, o, N
<1>9. \A i : i \in Read' <=>
          i \in Read \/ (i \in Filtered /\ o <= Rank(i) /\ Rank(i) < o + k)
  <2>1. ASSUME NEW i \in RowIds
        PROVE  seen'[i] > 0 <=>
                   seen[i] > 0 \/ (i \in Filtered /\ o <= Rank(i) /\ Rank(i) < o + k)
    BY <1>5, <1>6, <1>7, <2>1
  <2>2. QED
    BY <1>7, <2>1 DEF Read
<1>10. ASSUME NEW i \in Read'
       PROVE  seen'[i] = 1 /\ i \in Filtered /\ Rank(i) < o + k
  <2>1. i \in RowIds
    BY <1>10 DEF Read
  <2>2. CASE i \in Read
    BY <1>3, <1>5, <1>6, <1>7, <1>8, <2>1, <2>2
  <2>3. CASE i \notin Read
    BY <1>3, <1>5, <1>6, <1>7, <1>9, <1>10, <2>1, <2>3 DEF Read
  <2>4. QED
    BY <2>2, <2>3
<1>11. ASSUME Cardinality(Read) = o
       PROVE  Cardinality(Read') = o + k \/ Filtered \subseteq Read'
  <2>1. /\ s \in [1 .. N -> Filtered]
        /\ \A m, n \in 1 .. N : s[m] = s[n] => m = n
        /\ \A i \in Filtered : \E m \in 1 .. N : s[m] = i
        /\ \A m \in 1 .. N : Rank(s[m]) = m - 1
    BY AnswerLists DEF N
  <2> DEFINE low == IF o < N THEN o ELSE N
             high == IF o + k < N THEN o + k ELSE N
  <2>2. low \in Nat /\ high \in Nat /\ low <= o /\ low <= N /\ high <= N /\ high <= o + k
    BY <1>3
  <2>3. ASSUME NEW top \in Nat, top <= N
        PROVE  /\ Cardinality(FirstOf(s, top)) = top
               /\ FirstOf(s, top) \subseteq Filtered
               /\ IsFiniteSet(FirstOf(s, top))
               /\ \A i \in Filtered : i \in FirstOf(s, top) <=> Rank(i) < top
    <3>1. \A m, n \in 1 .. top : s[m] = s[n] => m = n
      BY <1>3, <2>1, <2>3
    <3>2. Cardinality(FirstOf(s, top)) = top
      BY <2>3, <3>1, FirstOnes
    <3>3. FirstOf(s, top) \subseteq Filtered
      BY <1>3, <2>1, <2>3 DEF FirstOf
    <3>4. IsFiniteSet(FirstOf(s, top))
      BY <3>3, FilteredFinite, FS_Subset
    <3>5. ASSUME NEW i \in Filtered
          PROVE  i \in FirstOf(s, top) <=> Rank(i) < top
      <4>1. PICK m \in 1 .. N : s[m] = i /\ Rank(i) = m - 1
        BY <2>1, <3>5
      <4>2. Rank(i) < top => m \in 1 .. top
        BY <1>3, <2>3, <4>1
      <4>3. ASSUME NEW n \in 1 .. top, s[n] = i PROVE n = m
        BY <1>3, <2>1, <2>3, <4>1, <4>3
      <4>4. QED
        BY <1>3, <2>3, <4>1, <4>2, <4>3 DEF FirstOf
    <3>6. QED
      BY <3>2, <3>3, <3>4, <3>5
  <2>4. Read \subseteq FirstOf(s, low)
    <3>1. \A i \in Filtered : Rank(i) < N
      BY RankBound DEF N
    <3>2. \A i \in Read : i \in Filtered /\ Rank(i) < low
      BY <1>3, <1>7, <1>8, <3>1
    <3>3. QED
      BY <2>2, <2>3, <3>2
  <2>5. low = o /\ Read = FirstOf(s, o)
    <3>1. o <= low
      BY <1>11, <2>2, <2>3, <2>4, FS_Subset
    <3>2. low = o
      BY <1>3, <2>2, <3>1
    <3>3. Read = FirstOf(s, low)
      BY <1>11, <2>2, <2>3, <2>4, <3>2, FS_Subset
    <3>4. QED
      BY <3>2, <3>3
  <2>6. \A i \in Filtered : i \in Read <=> Rank(i) < o
    BY <1>3, <2>2, <2>3, <2>5
  <2>7. Read' = FirstOf(s, high)
    <3>1. \A i \in Filtered : Rank(i) < N
      BY RankBound DEF N
    <3>2. \A i \in Filtered : i \in Read' <=> Rank(i) < o + k
      BY <1>3, <1>7, <1>9, <2>6
    <3>3. \A i \in Filtered : i \in Read' <=> Rank(i) < high
      BY <1>3, <1>7, <3>1, <3>2
    <3>4. Read' \subseteq Filtered
      BY <1>10
    <3>5. QED
      BY <2>2, <2>3, <3>3, <3>4
  <2>8. CASE high = o + k
    BY <2>2, <2>3, <2>7, <2>8
  <2>9. CASE high = N
    <3>1. \A i \in Filtered : Rank(i) < N
      BY RankBound DEF N
    <3>2. QED
      BY <2>2, <2>3, <2>7, <2>9, <3>1
  <2>10. QED
    BY <2>8, <2>9
<1>12. Read \subseteq Read'
  BY <1>9
<1>13. Cardinality(Read') = o + k \/ list \cap Filtered \subseteq Read'
  BY <1>8, <1>11, <1>12
<1>14. QED
  BY <1>2, <1>4, <1>10, <1>13 DEF Forward
(* A page backwards has the rows before those that were read. *)
LEMMA ReadsBack ==
  ASSUME PagingAssumption, PagingTypeOK, FindIds, NoTies, walk.perPage > 0, Backward
  PROVE  Backward'
<1> DEFINE k == walk.perPage
           o == (page - 1) * k
<1>1. PICK s \in Answers : data' = Limited(s)
  BY DEF FindIds
<1>2. /\ Filtered' = Filtered
      /\ \A i : Rank(i)' = Rank(i)
      /\ TotalPages(QueryCount)' = TotalPages(QueryCount)
      /\ list' = list /\ page' = page /\ walk' = walk /\ at = "ids" /\ at' = "count"
  BY SameList DEF FindIds
<1>3. /\ k \in Nat \ {0} /\ page \in Nat \ {0} /\ o \in Nat
      /\ page * k = o + k
      /\ page = 1 => o = 0
      /\ page # 1 => o >= k
  <2>1. k \in Nat \ {0} /\ page \in Nat \ {0}
    BY PageSize DEF PagingTypeOK
  <2>2. \A a \in Nat \ {0} : (1 - 1) * a = 0
    OBVIOUS
  <2>3. \A p \in Nat \ {0, 1}, a \in Nat \ {0} :
            (p - 1) * a = (p - 2) * a + a /\ (p - 2) * a \in Nat
    OBVIOUS
  <2>4. \A p \in Nat \ {0}, a \in Nat \ {0} : (p - 1) * a \in Nat /\ p * a = (p - 1) * a + a
    OBVIOUS
  <2>5. page # 1 => o >= k
    <3>1. ASSUME page # 1 PROVE o = (page - 2) * k + k /\ (page - 2) * k \in Nat
      BY <2>1, <2>3, <3>1
    <3>2. \A x \in Nat : x + k >= k
      BY <2>1
    <3>3. QED
      BY <3>1, <3>2
  <2>6. QED
    BY <2>1, <2>2, <2>4, <2>5
<1>4. Low = o + k /\ Low' = o
  BY <1>2, <1>3 DEF Low
<1>5. \A i \in RowIds : seen'[i] = seen[i] + Times(Limited(s), i)
  BY <1>1 DEF FindIds, Times
<1>6. \A i : Times(Limited(s), i) =
          IF i \in Filtered /\ o <= Rank(i) /\ Rank(i) < o + k THEN 1 ELSE 0
  BY PageOfRanks
<1>7. \A i : Rank(i) \in Nat
  BY FilteredFinite
<1> HIDE DEF k, o
<1>8. ASSUME NEW i \in RowIds
      PROVE  seen'[i] = IF ReadBack(i)' THEN 1 ELSE 0
  <2>1. ReadBack(i) <=>
            i \in Filtered /\ page # 1 /\ (Rank(i) < k \/ o + k <= Rank(i))
    BY <1>2, <1>4 DEF ReadBack, k
  <2>2. ReadBack(i)' <=>
            i \in Filtered /\ (Rank(i) < k \/ (page # 1 /\ o <= Rank(i)))
    BY <1>2, <1>4 DEF ReadBack, k
  <2>3. seen[i] = IF ReadBack(i) THEN 1 ELSE 0
    BY DEF Backward
  <2>4. CASE page = 1
    BY <1>3, <1>5, <1>6, <1>7, <2>1, <2>2, <2>3, <2>4
  <2>5. CASE page # 1
    BY <1>3, <1>5, <1>6, <1>7, <2>1, <2>2, <2>3, <2>5
  <2>6. QED
    BY <2>4, <2>5
<1>9. QED
  BY <1>2, <1>8 DEF Backward

(* A page adds its rows to what was read. *)
LEMMA FindIdsStep ==
  ASSUME PagingAssumption, PagingInv, FindIds
  PROVE  WalkInv' /\ PagesAddUp'
<1>1. PICK s \in Answers : data' = Limited(s)
  BY DEF FindIds
<1>2. /\ at = "ids" /\ at' = "count" /\ page' = page /\ walk' = walk /\ list' = list
      /\ shifted' = shifted
      /\ Filtered' = Filtered
      /\ NoTies' <=> NoTies
  BY SameList DEF FindIds
<1>3. \A i \in RowIds : seen'[i] = seen[i] + Times(Limited(s), i)
  BY <1>1 DEF FindIds, Times
<1>4. PagingTypeOK /\ WalkInv
  BY DEF PagingInv
<1>5. ASSUME walk.perPage < 0 PROVE AtOnce'
  <2>1. page = 1 /\ Read = {}
    BY <1>2, <1>4, <1>5 DEF WalkInv, AtOnce
  <2>2. \A i \in RowIds : seen[i] = 0
    BY <1>4, <2>1 DEF Read, PagingTypeOK
  <2>3. \A i : Times(Limited(s), i) = IF i \in Filtered THEN 1 ELSE 0
    BY <1>4, <1>5, PageSize, WholePage DEF Unlimited
  <2>4. \A i \in RowIds : seen'[i] = IF i \in Filtered THEN 1 ELSE 0
    BY <1>3, <2>2, <2>3
  <2>5. list \cap Filtered \subseteq Read'
    <3>1. ASSUME NEW i \in list \cap Filtered PROVE i \in RowIds /\ seen'[i] = 1
      BY <1>4, <2>4, <3>1 DEF PagingTypeOK
    <3>2. \A i \in list \cap Filtered : seen'[i] > 0
      BY <3>1
    <3>3. QED
      BY <3>1, <3>2 DEF Read
  <2>6. QED
    BY <1>2, <2>1, <2>4, <2>5 DEF AtOnce
<1>6. ASSUME walk.perPage = 0, Read \subseteq Filtered PROVE Read' \subseteq Filtered'
  <2>1. \A i : Times(Limited(s), i) = IF i \in Filtered THEN 1 ELSE 0
    BY <1>4, <1>6, WholePage DEF Unlimited
  <2>2. \A i \in RowIds : i \notin Filtered => seen'[i] = seen[i]
    BY <1>3, <1>4, <2>1 DEF PagingTypeOK
  <2>3. QED
    BY <1>2, <1>6, <2>2 DEF Read
<1>7. ASSUME NoTies, ~ shifted
      PROVE  /\ walk.perPage = 0 => Read \subseteq Filtered
             /\ walk.perPage > 0 /\ walk.goes = "next" => Forward
             /\ walk.perPage > 0 /\ walk.goes = "previous" => Backward
  BY <1>2, <1>4, <1>7 DEF WalkInv
<1>8. WalkInv'
  BY <1>2, <1>4, <1>5, <1>6, <1>7, ReadsOn, ReadsBack DEF WalkInv
<1>9. QED
  BY <1>2, <1>8 DEF PagesAddUp

(* A write keeps what is said of the walk, or moves what was read. *)
LEMMA WriteStep ==
  ASSUME PagingAssumption, PagingInv, PagingTypeOK', InsertRow \/ DeleteRow
  PROVE  WalkInv' /\ PagesAddUp'
<1>1. PagingTypeOK /\ WalkInv
  BY DEF PagingInv
<1>2. PICK i \in RowIds :
          /\ Changes(i)
          /\ \/ i \notin Filtered /\ i \notin list
             \/ i \notin Filtered'
  BY <1>1, WritesChange
<1>3. /\ at \in {"ids", "count"}
      /\ at' = at /\ page' = page /\ walk' = walk /\ list' = list /\ seen' = seen
  BY DEF InsertRow, DeleteRow
<1>4. Read' = Read /\ (NoTies' <=> NoTies) /\ Passed' = Passed
  BY <1>3 DEF Read, NoTies, Passed
<1>5. list' \cap Filtered' \subseteq list \cap Filtered
  BY <1>1, <1>2, <1>3, Elsewhere
<1>6. AtOnce => AtOnce'
  BY <1>3, <1>4, <1>5 DEF AtOnce
<1>7. ASSUME ~ shifted'
      PROVE  /\ ~ shifted
             /\ \A j \in Read \cap Filtered : j \in Filtered' /\ Rank(j)' = Rank(j)
             /\ walk.goes = "previous" =>
                    Filtered' = Filtered /\ \A j \in Filtered : Rank(j)' = Rank(j)
  BY <1>1, <1>7, Unmoved
<1>8. ASSUME ~ shifted', Read \subseteq Filtered PROVE Read' \subseteq Filtered'
  BY <1>4, <1>7, <1>8
<1>9. ASSUME ~ shifted', Forward PROVE Forward'
  BY <1>3, <1>4, <1>5, <1>7, <1>9 DEF Forward
<1>10. ASSUME ~ shifted', Backward, walk.goes = "previous" PROVE Backward'
  <2>1. Filtered' = Filtered /\ \A j \in Filtered : Rank(j)' = Rank(j)
    BY <1>7, <1>10
  <2>2. TotalPages(QueryCount)' = TotalPages(QueryCount)
    BY <1>3, <2>1 DEF TotalPages, QueryCount
  <2>3. \A j : ReadBack(j)' <=> ReadBack(j)
    BY <1>3, <2>1 DEF ReadBack, Low
  <2>4. QED
    BY <1>3, <1>10, <2>1, <2>2, <2>3 DEF Backward
<1>11. WalkInv'
  BY <1>1, <1>3, <1>4, <1>6, <1>7, <1>8, <1>9, <1>10 DEF WalkInv
<1>12. QED
  BY <1>3, <1>11 DEF PagesAddUp
(* The count ends a walk or takes it to its next page. *)
LEMMA GetCountStep ==
  ASSUME PagingAssumption, PagingInv, GetCount
  PROVE  WalkInv' /\ PagesAddUp'
<1> DEFINE k == walk.perPage
           T == TotalPages(QueryCount)
           N == QueryCount
<1>1. PagingTypeOK /\ WalkInv
  BY DEF PagingInv
<1>2. /\ at = "count" /\ walk' = walk /\ list' = list /\ seen' = seen /\ shifted' = shifted
      /\ Read' = Read
      /\ Filtered' = Filtered
      /\ \A i : Rank(i)' = Rank(i)
      /\ TotalPages(QueryCount)' = T
      /\ NoTies' <=> NoTies
  BY SameList DEF GetCount, Read
<1>3. /\ page' = IF walk.goes = "next" THEN NextPage(N) ELSE PreviousPage(N)
      /\ page' <= MaxPage
      /\ at' = IF page' = 1 THEN "over" ELSE "ids"
  BY DEF GetCount
<1>4. /\ k \in Int /\ T \in Nat \ {0} /\ N \in Nat /\ page \in Nat \ {0} /\ MaxPage \in Nat
      /\ k < 0 => T = 1
      /\ k > 0 => N <= T * k
      /\ k = 0 => T = IF N = 0 THEN 1 ELSE MaxPage + 1
  BY <1>1, PageSize, Pages, FilteredFinite DEF PagingTypeOK, PagingAssumption
<1>5. /\ walk.goes = "next" => page' = IF page + 1 > T THEN 1 ELSE page + 1
      /\ walk.goes # "next" => page' = IF page - 1 \in 1 .. T THEN page - 1 ELSE T
      /\ walk.goes \in {"next", "previous"}
  BY <1>1, <1>3 DEF NextPage, PreviousPage, PagingTypeOK, Walks
<1>6. /\ Filtered \subseteq RowIds /\ IsFiniteSet(Filtered) /\ N = Cardinality(Filtered)
      /\ \A i \in Filtered : Rank(i) < N
      /\ \A i : Rank(i) \in Nat
  BY <1>1, FilteredFinite, RankBound DEF QueryCount
<1>7. \A i \in RowIds : seen[i] \in Nat /\ (i \notin Read => seen[i] = 0)
  BY <1>1 DEF PagingTypeOK, Read
<1> HIDE DEF k, T, N
<1>8. ASSUME k < 0
      PROVE  at' = "over" /\ \A i \in RowIds : seen[i] <= 1 /\ (i \in list \cap Filtered => seen[i] = 1)
  <2>1. AtOnce
    BY <1>1, <1>2, <1>8 DEF WalkInv, k
  <2>2. page' = 1
    BY <1>4, <1>5, <1>8, <2>1 DEF AtOnce
  <2>3. \A i \in RowIds : i \in list \cap Filtered => seen[i] > 0
    BY <1>2, <2>1 DEF AtOnce, Read
  <2>4. QED
    BY <1>3, <1>7, <2>1, <2>2, <2>3 DEF AtOnce
<1>9. ASSUME k = 0
      PROVE  /\ page' = 1 \/ (walk.goes = "next" /\ page' <= MaxPage)
             /\ page' = 1 => N = 0
  <2>1. page = 1 \/ (walk.goes = "next" /\ page <= MaxPage)
    BY <1>1, <1>9 DEF WalkInv, k
  <2>2. N # 0 => page' # 1 /\ walk.goes = "next"
    BY <1>3, <1>4, <1>5, <1>9, <2>1
  <2>3. N = 0 => page' = 1 \/ walk.goes = "next"
    BY <1>4, <1>5, <1>9, <2>1
  <2>4. QED
    BY <1>3, <2>2, <2>3
<1>10. ASSUME k = 0, Read \subseteq Filtered, page' = 1
       PROVE  \A i \in RowIds : seen[i] <= 1 /\ (i \in list \cap Filtered => seen[i] = 1)
  <2>1. Filtered = {}
    BY <1>6, <1>9, <1>10, FS_EmptySet
  <2>2. QED
    BY <1>7, <1>10, <2>1
<1>11. ASSUME k > 0, Forward, walk.goes = "next"
       PROVE  /\ page' # 1 => Forward'
              /\ page' = 1 =>
                    \A i \in RowIds : seen[i] <= 1 /\ (i \in list \cap Filtered => seen[i] = 1)
  <2>1. ASSUME page' # 1 PROVE Forward'
    <3>1. page' = page + 1 /\ at' = "ids"
      BY <1>3, <1>5, <1>11, <2>1
    <3>2. Passed' = Passed
      <4>1. (page + 1) - 1 = page
        BY <1>4
      <4>2. QED
        BY <1>2, <3>1, <4>1 DEF Passed
    <3>3. QED
      BY <1>2, <1>11, <3>2 DEF Forward
  <2>2. ASSUME page' = 1, NEW i \in RowIds
        PROVE  seen[i] <= 1 /\ (i \in list \cap Filtered => seen[i] = 1)
    <3>1. T <= page
      BY <1>4, <1>5, <1>11, <2>2
    <3>2. N <= Passed
      <4>1. \A a \in Nat : T * k + a * k = (T + a) * k /\ a * k \in Nat
        BY <1>4, <1>11
      <4>2. page - T \in Nat /\ T + (page - T) = page
        BY <1>4, <3>1
      <4>3. T * k \in Nat
        BY <1>4, <1>11
      <4>4. T * k + (page - T) * k = page * k /\ (page - T) * k \in Nat
        BY <4>1, <4>2
      <4>5. N <= page * k
        BY <1>4, <1>11, <4>3, <4>4
      <4>6. QED
        BY <1>2, <4>5 DEF Passed, k
    <3>3. Read \subseteq Filtered /\ \A j \in Read : seen[j] = 1
      BY <1>11 DEF Forward
    <3>4. Cardinality(Read) <= N /\ IsFiniteSet(Read)
      BY <1>6, <3>3, FS_Subset
    <3>5. Cardinality(Read) \in Nat
      BY <3>4, FS_CardinalityType
    <3>6. Cardinality(Read) = Passed => Read = Filtered
      <4>1. Cardinality(Read) = Passed => Cardinality(Read) = Cardinality(Filtered)
        BY <1>4, <1>6, <3>2, <3>4, <3>5
      <4>2. QED
        BY <1>6, <3>3, <4>1, FS_Subset
    <3>7. list \cap Filtered \subseteq Read
      BY <1>11, <3>6 DEF Forward
    <3>8. QED
      BY <1>7, <3>3, <3>7
  <2>3. QED
    BY <2>1, <2>2
<1>12. ASSUME k > 0, Backward, walk.goes = "previous"
       PROVE  /\ page' # 1 => Backward'
              /\ page' = 1 =>
                    \A i \in RowIds : seen[i] <= 1 /\ (i \in list \cap Filtered => seen[i] = 1)
  <2>1. page <= T
    BY <1>12 DEF Backward, T
  <2>2. page' = IF page = 1 THEN T ELSE page - 1
    BY <1>4, <1>5, <1>12, <2>1
  <2>3. /\ T * k \in Int /\ N <= T * k
        /\ page = 2 => (page - 1) * k = k
        /\ (page - 1) * k \in Int
        /\ T = 1 => T * k = k
    BY <1>4, <1>12
  <2>4. Low = (page - 1) * k /\ (at' = "ids" => Low' = page' * k)
    BY <1>2 DEF Low, k
  <2>5. ASSUME NEW i PROVE ReadBack(i) <=> i \in Filtered /\ (Rank(i) < k \/ (page # 1 /\ Low <= Rank(i)))
    BY <1>2 DEF ReadBack, k
  <2>6. ASSUME page' # 1, NEW i PROVE ReadBack(i)' <=> i \in Filtered /\ (Rank(i) < k \/ Low' <= Rank(i))
    BY <1>2, <1>3, <2>6 DEF ReadBack, k
  <2>7. ASSUME page' # 1 PROVE Backward'
    <3>1. ASSUME NEW i \in Filtered
          PROVE  (page # 1 /\ Low <= Rank(i)) <=> Low' <= Rank(i)
      <4>1. at' = "ids"
        BY <1>3, <2>7
      <4>2. CASE page = 1
        BY <1>6, <2>2, <2>3, <2>4, <3>1, <4>1, <4>2, <1>4
      <4>3. CASE page # 1
        BY <2>2, <2>4, <4>1, <4>3
      <4>4. QED
        BY <4>2, <4>3
    <3>2. \A i : ReadBack(i)' <=> ReadBack(i)
      BY <2>5, <2>6, <2>7, <3>1
    <3>3. page' <= T
      BY <1>4, <2>1, <2>2
    <3>4. QED
      BY <1>2, <1>12, <3>2, <3>3 DEF Backward, T
  <2>8. ASSUME page' = 1, NEW i \in RowIds
        PROVE  seen[i] <= 1 /\ (i \in list \cap Filtered => seen[i] = 1)
    <3>1. i \in Filtered => ReadBack(i)
      <4>1. CASE page = 1
        BY <1>4, <1>6, <2>2, <2>3, <2>5, <2>8, <4>1
      <4>2. CASE page # 1
        <5>1. page = 2
          BY <1>4, <2>2, <2>8, <4>2
        <5>2. QED
          BY <1>4, <1>6, <2>3, <2>4, <2>5, <5>1
      <4>3. QED
        BY <4>1, <4>2
    <3>2. QED
      BY <1>12, <3>1 DEF Backward
  <2>9. QED
    BY <2>7, <2>8
<1>13. ASSUME ~ shifted, NoTies
       PROVE  /\ k = 0 => Read \subseteq Filtered
              /\ k > 0 /\ walk.goes = "next" => Forward
              /\ k > 0 /\ walk.goes = "previous" => Backward
  BY <1>1, <1>2, <1>13 DEF WalkInv, k
<1>14. WalkInv'
  <2>1. at' \in {"ids", "over"} /\ (at' = "ids" <=> page' # 1)
    BY <1>3
  <2>2. walk'.perPage = k /\ walk'.goes = walk.goes
    BY <1>2 DEF k
  <2>3. k < 0 => at' = "over"
    BY <1>8
  <2>4. k = 0 => page' = 1 \/ (walk.goes = "next" /\ page' <= MaxPage)
    BY <1>9
  <2>5. ASSUME page' # 1, ~ shifted', NoTies'
        PROVE  /\ k = 0 => Read' \subseteq Filtered'
               /\ k > 0 /\ walk.goes = "next" => Forward'
               /\ k > 0 /\ walk.goes = "previous" => Backward'
    BY <1>2, <1>11, <1>12, <1>13, <2>5
  <2>6. QED
    BY <2>1, <2>2, <2>3, <2>4, <2>5 DEF WalkInv
<1>15. PagesAddUp'
  <2>1. ASSUME at' = "over", ~ shifted', k < 0 \/ NoTies
        PROVE  \A i \in RowIds : seen[i] <= 1 /\ (i \in list \cap Filtered => seen[i] = 1)
    <3>1. page' = 1
      BY <1>3, <2>1
    <3>2. k < 0 \/ k = 0 \/ k > 0
      BY <1>4
    <3>3. QED
      BY <1>2, <1>5, <1>8, <1>10, <1>11, <1>12, <1>13, <2>1, <3>1, <3>2
  <2>2. (walk'.perPage < 0 \/ \E n \in DOMAIN walk'.sort : walk'.sort[n][1] = "id")
            <=> k < 0 \/ NoTies
    BY <1>2 DEF k, NoTies
  <2>3. QED
    BY <1>2, <2>1, <2>2 DEF PagesAddUp
<1>16. QED
  BY <1>14, <1>15

(* Every step keeps the invariant. *)
LEMMA PagingStep ==
  ASSUME PagingAssumption, PagingInv, [PagingNext]_pagingVars
  PROVE  PagingInv'
<1>1. PagingTypeOK /\ WalkInv /\ PagesAddUp
  BY DEF PagingInv
<1>2. CASE PagingNext
  <2>1. PagingTypeOK'
    BY <1>1, <1>2, PagingTypeKept
  <2>2. CASE ParseSort
    BY <2>1, <2>2, ParseSortStep DEF PagingInv
  <2>3. CASE FindIds
    BY <2>1, <2>3, FindIdsStep DEF PagingInv
  <2>4. CASE FindIdsFails
    <3>1. at' = "failed" /\ walk' = walk /\ page' = page
      BY <2>4 DEF FindIdsFails
    <3>2. QED
      BY <1>1, <2>1, <3>1 DEF PagingInv, WalkInv, PagesAddUp
  <2>5. CASE GetCount
    BY <2>1, <2>5, GetCountStep DEF PagingInv
  <2>6. CASE InsertRow \/ DeleteRow
    BY <2>1, <2>6, WriteStep DEF PagingInv
  <2>7. QED
    BY <1>2, <2>2, <2>3, <2>4, <2>5, <2>6 DEF PagingNext
<1>3. CASE UNCHANGED pagingVars
  <2>1. /\ UNCHANGED <<rows, made, walk, at, page, list, seen, shifted>>
    BY <1>3 DEF pagingVars
  <2>2. /\ Filtered' = Filtered /\ (NoTies' <=> NoTies) /\ Read' = Read
        /\ \A i : Rank(i)' = Rank(i)
        /\ TotalPages(QueryCount)' = TotalPages(QueryCount)
    BY <2>1, SameList DEF Read
  <2>3. Stored' = Stored
    BY <2>1 DEF Stored
  <2>4. PagingTypeOK'
    BY <1>1, <2>1, <2>3 DEF PagingTypeOK
  <2>5. (Forward => Forward') /\ (Backward => Backward') /\ (AtOnce => AtOnce')
    BY <2>1, <2>2 DEF Forward, Passed, Backward, ReadBack, Low, AtOnce
  <2>6. WalkInv'
    BY <1>1, <2>1, <2>2, <2>5 DEF WalkInv
  <2>7. PagesAddUp'
    BY <1>1, <2>1, <2>2 DEF PagesAddUp
  <2>8. QED
    BY <2>4, <2>6, <2>7 DEF PagingInv
<1>4. QED
  BY <1>2, <1>3

(* The pages add up to the list: a walk along nextPage or previousPage back
   to the first page has read each row that was there all along once, and none
   twice, for every table, filter, sort and page size, with rows coming and
   going between the statements, as PagesAddUp says it.                    *)
THEOREM PagesAddUpToList == PagingSpec => []PagesAddUp
<1>1. PagingInit => PagingInv
  BY PagingAssumption, InitPaging
<1>2. PagingInv /\ [PagingNext]_pagingVars => PagingInv'
  BY PagingAssumption, PagingStep
<1>3. PagingInv => PagesAddUp
  BY DEF PagingInv
<1>4. QED
  BY <1>1, <1>2, <1>3, PTL DEF PagingSpec
=============================================================================
