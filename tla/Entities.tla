------------------------------- MODULE Entities -------------------------------
(***************************************************************************)
(* Entities and the rows they stand for.                                   *)
(*                                                                         *)
(* Every service loads a row into an entity, hands it to code that edits   *)
(* it, and saves it with an UPDATE of the columns that differ from what    *)
(* was loaded: the entity carries the row it came from ($pgState).  Two    *)
(* holders of one row load, edit and save it in any order, one statement   *)
(* at a time; the locks of their transactions only order these statements. *)
(*                                                                         *)
(* diff compares spellings.  A timestamp is an ISO string when the driver  *)
(* reads the column, but is spelled with its offset when the row comes out *)
(* of a join as one JSON object: such a column differs though no one       *)
(* edited it.                                                              *)
(*                                                                         *)
(* The value of a column is a number: 0 is null, 1 what a new entity began *)
(* with, and n + 1 what the n-th edit wrote.                               *)
(***************************************************************************)
EXTENDS Integers, FiniteSets

CONSTANTS
    Holders,    \* pieces of code that hold an entity of the row
    MaxEdits,   \* bound: edits
    MaxRefused  \* bound: statements that fail

ASSUME EntitiesAssumption == MaxEdits \in Nat /\ MaxRefused \in Nat

VARIABLES
    kind,     \* whose row it is
    row,      \* the row in Postgres
    holder,   \* the entity each holder has in memory
    due,      \* what the columns should hold (history)
    excused,  \* columns the code is known to lose (history)
    deleted,  \* the row was deleted (history)
    edits, refused

entityVars == <<kind, row, holder, due, excused, deleted, edits, refused>>

-----------------------------------------------------------------------------
(* The tables: the type of each column *)

Accounts ==
    [id |-> "text", created_at |-> "date", updated_at |-> "date",
     username |-> "text", password |-> "text", last_signed_in_at |-> "date"]

Users ==
    [id |-> "text", email |-> "text", first_name |-> "text",
     last_name |-> "text", account_id |-> "text", user_status |-> "text",
     email_verified_at |-> "date"]

Sessions ==
    [id |-> "text", account_id |-> "text", token_hash |-> "text",
     device_uid |-> "text", created_at |-> "date", expire_at |-> "date",
     revoke_at |-> "date", info |-> "json"]

Conversations ==
    [id |-> "text", user_id |-> "text", title |-> "text",
     created_at |-> "date", updated_at |-> "date"]

Messages ==
    [id |-> "text", conversation_id |-> "text", role |-> "text",
     content |-> "text", tool_call |-> "json", stopped |-> "text",
     cost_usd_micros |-> "int8", created_at |-> "date"]

MessageTasks ==
    [id |-> "text", queue_name |-> "text", exchange_name |-> "text",
     payload |-> "json", message_status |-> "text", attempts |-> "text",
     max_attempts |-> "text", last_error |-> "text", created_at |-> "date",
     updated_at |-> "date", expire_at |-> "date"]

EmailVerificationTokens ==
    [id |-> "text", user_id |-> "text", token_hash |-> "text",
     expires_at |-> "date", created_at |-> "date"]

Table ==
    [account |-> Accounts, user |-> Users, session |-> Sessions,
     conversation |-> Conversations, message |-> Messages,
     messageTask |-> MessageTasks, token |-> EmailVerificationTokens]

Columns == DOMAIN Table[kind]

-----------------------------------------------------------------------------
(* The mappers: the columns fromPg turns into something else, as toPg spells
   them again.  The others go through as they were read.                   *)

AccountMapper ==
    [created_at |-> "iso", updated_at |-> "iso", last_signed_in_at |-> "iso"]

UserMapper == [email_verified_at |-> "iso"]

SessionMapper ==
    [created_at |-> "iso", expire_at |-> "iso", revoke_at |-> "iso"]

ConversationMapper == [created_at |-> "iso", updated_at |-> "iso"]

(* A JSON array goes to the driver as a string. *)
MessageMapper == [tool_call |-> "string", created_at |-> "iso"]

MessageTaskMapper ==
    [created_at |-> "iso", updated_at |-> "iso", expire_at |-> "iso"]

TokenMapper == [expires_at |-> "iso", created_at |-> "iso"]

Mapper ==
    [account |-> AccountMapper, user |-> UserMapper, session |-> SessionMapper,
     conversation |-> ConversationMapper, message |-> MessageMapper,
     messageTask |-> MessageTaskMapper, token |-> TokenMapper]

(* Mutant: the driver's own parsers, which make a Date of a timestamp. *)
Parsed_ByDefault ==
    [text |-> "itself", json |-> "object", date |-> "Date", int8 |-> "digits"]

(* How a column of a row read by a plain SELECT is spelled. *)
Parsed == [text |-> "itself", json |-> "object", date |-> "iso", int8 |-> "digits"]

(* In a row that row_to_json made one object. *)
Joined == [text |-> "itself", json |-> "object", date |-> "offset", int8 |-> "number"]

(* Kinds that are saved after a join read them: sign-in's user. *)
SavedFromJoin == {"user"}

-----------------------------------------------------------------------------
(* The edits: the columns a caller may give, those it may give as null, and
   those that are written on every edit.                                   *)

EditAccount ==
    [given |-> {"username", "password", "last_signed_in_at"},
     nulls |-> {"last_signed_in_at"}, touched |-> {"updated_at"}]

EditUser ==
    [given |-> {"email", "first_name", "last_name", "user_status"},
     nulls |-> {}, touched |-> {}]

MarkEmailVerified ==
    [given |-> {"email_verified_at"}, nulls |-> {}, touched |-> {}]

EditSession ==
    [given |-> {"token_hash", "device_uid", "expire_at", "revoke_at", "info"},
     nulls |-> {"revoke_at"}, touched |-> {}]

EditConversation ==
    [given |-> {"title"}, nulls |-> {}, touched |-> {"updated_at"}]

EditMessageTask ==
    [given |-> {"message_status", "attempts", "last_error"},
     nulls |-> {"last_error"}, touched |-> {"updated_at"}]

Edits ==
    [account |-> {EditAccount}, user |-> {EditUser, MarkEmailVerified},
     session |-> {EditSession}, conversation |-> {EditConversation},
     message |-> {}, messageTask |-> {EditMessageTask}, token |-> {}]

(* The columns that are null in a new entity. *)
NewAccount == {"last_signed_in_at"}
NewUser == {"email_verified_at"}
NewSession == {"revoke_at"}
NewConversation == {}
NewMessage == {"tool_call"}
NewMessageTask == {"last_error"}
NewEmailVerificationToken == {}

BornNull ==
    [account |-> NewAccount, user |-> NewUser, session |-> NewSession,
     conversation |-> NewConversation, message |-> NewMessage,
     messageTask |-> NewMessageTask, token |-> NewEmailVerificationToken]

-----------------------------------------------------------------------------
(* The services: whether save updates an entity that is stored, what becomes
   of a statement that fails, and whether rows are deleted.                *)

AccountService == [updates |-> TRUE, swallows |-> TRUE, deletes |-> FALSE]
UserService == [updates |-> TRUE, swallows |-> TRUE, deletes |-> TRUE]
SessionService == [updates |-> TRUE, swallows |-> FALSE, deletes |-> TRUE]
ConversationService == [updates |-> TRUE, swallows |-> FALSE, deletes |-> TRUE]
MessageService == [updates |-> FALSE, swallows |-> FALSE, deletes |-> FALSE]
MessageTaskService == [updates |-> TRUE, swallows |-> FALSE, deletes |-> FALSE]
TokenService == [updates |-> FALSE, swallows |-> FALSE, deletes |-> TRUE]

Service ==
    [account |-> AccountService, user |-> UserService, session |-> SessionService,
     conversation |-> ConversationService, message |-> MessageService,
     messageTask |-> MessageTaskService, token |-> TokenService]

Kinds == DOMAIN Service

-----------------------------------------------------------------------------
(* An entity; how says how its $pgState is spelled, edited (history) which
   columns were given a value since.                                       *)
Entity(fields, stored, how) ==
    [has |-> TRUE, fields |-> fields, stored |-> stored, state |-> fields, how |-> how,
     edited |-> {}]

NoEntity ==
    [has |-> FALSE, fields |-> [c \in Columns |-> 0], stored |-> FALSE,
     state |-> [c \in Columns |-> 0], how |-> "pg", edited |-> {}]

(* After setPgState(entity, toPg(entity)). *)
Settled(e) == Entity(e.fields, TRUE, "pg")

Changed(e) == {c \in Columns : e.fields[c] # e.state[c]}

(* toPg spells it in another way than it was read. *)
Respelled(e) ==
    {c \in Columns \cap DOMAIN Mapper[kind] :
        /\ e.fields[c] # 0
        /\ \/ e.how = "row" /\ Mapper[kind][c] # Parsed[Table[kind][c]]
           \/ e.how = "joined" /\ Mapper[kind][c] # Joined[Table[kind][c]]}

(* The columns diff picks. *)
Diff(e) == Changed(e) \cup Respelled(e)

(* Edits that diff does not see, since they give the value that was loaded,
   and that would have taken back what someone else wrote.                 *)
Unseen(e) == {c \in e.edited \ Diff(e) : row.cols[c] # e.fields[c]}

-----------------------------------------------------------------------------
EntitiesInit ==
    /\ kind \in Kinds
    /\ row = [there |-> FALSE, cols |-> [c \in Columns |-> 0]]
    /\ holder = [h \in Holders |-> NoEntity]
    /\ due = [c \in Columns |-> 0]
    /\ excused = {}
    /\ deleted = FALSE
    /\ edits = 0 /\ refused = 0

Hold(h, e) == holder' = [holder EXCEPT ![h] = e]

New(h) ==
    /\ ~row.there /\ ~deleted
    /\ \A g \in Holders : ~holder[g].has
    /\ Hold(h, Entity([c \in Columns |-> IF c \in BornNull[kind] THEN 0 ELSE 1],
                      FALSE, "pg"))
    /\ UNCHANGED <<kind, row, due, excused, deleted, edits, refused>>

FindOne(h) ==
    /\ row.there
    /\ Hold(h, Entity(row.cols, TRUE, "row"))
    /\ UNCHANGED <<kind, row, due, excused, deleted, edits, refused>>

FindJoined(h) ==
    /\ row.there /\ kind \in SavedFromJoin
    /\ Hold(h, Entity(row.cols, TRUE, "joined"))
    /\ UNCHANGED <<kind, row, due, excused, deleted, edits, refused>>

(* The value that the entity was loaded with, given again. *)
Back == -1

(* A caller gives one column or two. *)
Edit(h) ==
    /\ holder[h].has /\ edits < MaxEdits
    /\ \E form \in Edits[kind], a, b \in Columns :
        \E v \in {0, Back, edits + 2} :
            /\ {a, b} \subseteq form.given
            /\ v = 0 => {a, b} \subseteq form.nulls
            /\ Hold(h, [holder[h] EXCEPT
                    !.fields = [c \in Columns |->
                        IF c \in {a, b}
                        THEN (IF v = Back THEN holder[h].state[c] ELSE v)
                        ELSE IF c \in form.touched THEN edits + 2
                        ELSE holder[h].fields[c]],
                    !.edited = @ \cup {a, b} \cup form.touched])
    /\ edits' = edits + 1
    /\ UNCHANGED <<kind, row, due, excused, deleted, refused>>

(* The row, once the columns cols of the entity are written: an UPDATE of a
   row that is not there changes nothing.                                  *)
Written(e, cols) ==
    [row EXCEPT !.cols =
        [c \in Columns |-> IF row.there /\ c \in cols THEN e.fields[c] ELSE row.cols[c]]]

Due(e, cols) == [c \in Columns |-> IF c \in cols THEN e.fields[c] ELSE due[c]]

InsertRow(h) ==
    /\ holder[h].has /\ ~holder[h].stored
    /\ row' = [there |-> TRUE, cols |-> holder[h].fields]
    /\ due' = holder[h].fields
    /\ Hold(h, Settled(holder[h]))
    /\ UNCHANGED <<kind, excused, deleted, edits, refused>>

(* A column a joined row respells may be written back as it was read. *)
Update(h) ==
    /\ holder[h].stored /\ Service[kind].updates
    /\ row' = Written(holder[h], Diff(holder[h]))
    /\ due' = Due(holder[h], holder[h].edited)
    /\ excused' = (excused \ holder[h].edited) \cup Unseen(holder[h])
          \cup (IF holder[h].how = "joined" THEN Respelled(holder[h]) ELSE {})
    /\ Hold(h, Settled(holder[h]))
    /\ UNCHANGED <<kind, deleted, edits, refused>>

(* save of an entity that is stored, where save only ever creates. *)
SaveAgain(h) ==
    /\ holder[h].stored /\ ~Service[kind].updates
    /\ Hold(h, Settled(holder[h]))
    /\ UNCHANGED <<kind, row, due, excused, deleted, edits, refused>>

(* The statement of a save fails.  Where the service swallows the error, all
   but a unique violation, the entity passes for stored from then on; else
   the error is thrown and the entity is as it was.                        *)
Refused(h) ==
    /\ holder[h].has /\ refused < MaxRefused
    /\ holder[h].stored => Service[kind].updates /\ Diff(holder[h]) # {}
    /\ refused' = refused + 1
    /\ \/ UNCHANGED <<holder, excused>>
       \/ /\ Service[kind].swallows
          /\ excused' = excused \cup holder[h].edited
          /\ Hold(h, Settled(holder[h]))
    /\ UNCHANGED <<kind, row, due, deleted, edits>>

DeleteRow(h) ==
    /\ holder[h].stored /\ Service[kind].deletes
    /\ row' = [row EXCEPT !.there = FALSE]
    /\ deleted' = TRUE
    /\ UNCHANGED <<kind, holder, due, excused, edits, refused>>

EntitiesNext ==
    \E h \in Holders :
        \/ New(h) \/ FindOne(h) \/ FindJoined(h) \/ Edit(h)
        \/ InsertRow(h) \/ Update(h) \/ SaveAgain(h) \/ Refused(h) \/ DeleteRow(h)

EntitiesSpec == EntitiesInit /\ [][EntitiesNext]_entityVars

-----------------------------------------------------------------------------
(* No lost update.  However the loads, edits and saves of two holders
   interleave, a column holds what the last acknowledged save of an edit of
   it gave it, and a save never takes back what someone else wrote to a
   column it did not edit.  Three losses are the code's: the edit of a
   statement whose failure the service swallowed; a timestamp that a holder
   whose row came out of a join writes back as it read it; and an edit back
   to the value that was loaded, which diff takes for no edit, so that what
   someone else has written meanwhile stays.                               *)
EditsKept ==
    row.there => \A c \in Columns \ excused : row.cols[c] = due[c]
=============================================================================
