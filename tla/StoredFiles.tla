----------------------------- MODULE StoredFiles -----------------------------
(***************************************************************************)
(* Stored files: objects a client uploads straight to the bucket by way of *)
(* a presigned URL, the rows of stored_files that own them, the services   *)
(* that write those rows in several statements without a transaction, and  *)
(* the daily cleanup that compares the two stores while they change.       *)
(*                                                                         *)
(* A file stands for the uuid of its upload, hence for its object's key;   *)
(* uuids are of version 7, so keys of one folder are listed in the order   *)
(* of the numbers.  Storage is enabled.                                    *)
(***************************************************************************)
EXTENDS Integers, FiniteSets, FiniteSetsExt

CONSTANTS
    MaxFiles,     \* bound: uploads
    IsPublic,     \* the files whose fileExposeType is PUBLIC
    Owners,       \* rows of the tables that may own files
    Unmade,       \* the owners in a table no migration creates
    Savers,       \* callers of save and saveBulk
    PageSize,     \* keys in a page of a listing
    MaxFaults,    \* bound: failures of the database or the bucket
    MaxCleanups,  \* bound: runs of the job
    MaxEvents     \* bound: expiries and deletions

Files == 1 .. MaxFiles
Folders == 1 .. 2

ASSUME StoredFilesAssumption ==
    /\ MaxFiles \in Nat /\ IsPublic \subseteq Files
    /\ Owners # {} /\ Unmade \subseteq Owners
    /\ PageSize \in Nat \ {0}
    /\ MaxFaults \in Nat /\ MaxCleanups \in Nat /\ MaxEvents \in Nat

VARIABLES
    minted,    \* the files an upload URL was issued for are 1 .. minted
    objects,   \* the files whose object is in the bucket
    rows,      \* stored_files
    gone,      \* the owners that have been deleted
    saves,     \* the locals of each caller of save or saveBulk
    cleaner,   \* the locals of the cleanup
    faults, cleanups, events,  \* counters
    late,      \* rows inserted after a cleanup took their object for an orphan
    garbage,   \* what the cleanup under way found to collect, and still is
    kept       \* what the last undisturbed save of each owner wrote

history == <<late, garbage, kept>>
counters == <<faults, cleanups, events>>
filesVars == <<minted, objects, rows, gone, saves, cleaner, counters, history>>

-----------------------------------------------------------------------------
Row == [file : Files, owner : Owners, expired : BOOLEAN]

(* "insert" waits for the INSERT; a known file has skipped the HEAD. *)
Stage == {"none", "head", "insert", "done", "failed"}

SaveState ==
    [at : {"idle", "delete", "create"}, owner : Owners,
     stage : [Files -> Stage], expired : BOOLEAN, alone : BOOLEAN]

CleanerState ==
    [at : {"idle", "expired", "owners", "orphans", "list", "read", "remove",
           "done", "failed"},
     tables : SUBSET Owners, folder : Folders, token : 0 .. MaxFiles,
     content : SUBSET Files, orphans : SUBSET Files, met : BOOLEAN]

Stages(F, stage) == [f \in Files |-> IF f \in F THEN stage ELSE "none"]

NoSave ==
    [at |-> "idle", owner |-> CHOOSE o \in Owners : TRUE,
     stage |-> Stages({}, "none"), expired |-> FALSE, alone |-> TRUE]

FilesInit ==
    /\ minted = 0
    /\ objects = {} /\ rows = {} /\ gone = {}
    /\ saves = [s \in Savers |-> NoSave]
    /\ cleaner = [at |-> "idle", tables |-> {}, folder |-> 1, token |-> 0, content |-> {},
                  orphans |-> {}, met |-> FALSE]
    /\ faults = 0 /\ cleanups = 0 /\ events = 0
    /\ late = {} /\ garbage = {}
    /\ kept = [o \in Owners |-> {}]

Rowed(f) == \E r \in rows : r.file = f
Fault == faults < MaxFaults /\ faults' = faults + 1
Event == events < MaxEvents /\ events' = events + 1

Busy(s) == \E f \in Files : saves[s].stage[f] \in {"head", "insert"}
Saving(s) == saves[s].at = "delete" \/ (saves[s].at = "create" /\ Busy(s))

(* The history forgets what an owner's files ought to be. *)
Forget(o) == kept' = [kept EXCEPT ![o] = {}]

Disturb(o) ==
    /\ Forget(o)
    /\ saves' = [s \in Savers |->
           [saves[s] EXCEPT !.alone = @ /\ ~(Saving(s) /\ saves[s].owner = o)]]

-----------------------------------------------------------------------------
(* Uploading *)

(* getPresignUploadUrl: a fresh id, and a URL that only the bucket checks. *)
GetPresignUploadUrl ==
    /\ minted < MaxFiles
    /\ minted' = minted + 1
    /\ UNCHANGED <<objects, rows, gone, saves, cleaner, counters, history>>

(* The client uploads: once, late, or again, for as long as the URL lives. *)
Upload(f) ==
    /\ f <= minted /\ f \notin objects
    /\ objects' = objects \cup {f}
    /\ garbage' = garbage \ {f}
    /\ UNCHANGED <<minted, rows, gone, saves, cleaner, counters, late, kept>>

-----------------------------------------------------------------------------
(* Saving *)

(* A caller is about to save files of one owner: a saveBulk of several
   owners' files is as many saves side by side.  The history notes which
   saves of an owner overlap.                                              *)
Begin(s, o, stages, expired) ==
    /\ saves[s].at = "idle"
    /\ LET Others == {t \in Savers : Saving(t) /\ saves[t].owner = o}
       IN saves' = [t \in Savers |->
              IF t = s
              THEN [at |-> "delete", owner |-> o, stage |-> stages,
                    expired |-> expired, alone |-> Others = {}]
              ELSE [saves[t] EXCEPT !.alone = @ /\ t \notin Others]]
    /\ Forget(o)
    /\ UNCHANGED <<minted, objects, rows, gone, cleaner, counters, late,
                   garbage>>

(* newStoredFile, then save, or newStoredFiles, then saveBulk: the row on
   which isStoredFileChanged depends is not there yet.                     *)
SaveNew(s) ==
    \E o \in Owners, F \in SUBSET (1 .. minted) :
        F # {} /\ Begin(s, o, Stages(F, "head"), FALSE)

(* findOne, editStoredFile, save.  The edit may name a new owner, and a new
   id, which changes the key; while the key is the one in the row's state,
   the object is not looked at again.                                      *)
SaveEdited(s) ==
    \E r \in rows, o \in Owners, f \in 1 .. minted :
        Begin(s, o, Stages({f}, IF f = r.file THEN "insert" ELSE "head"), r.expired)

(* _deleteRelated: every file of the owner, whatever its refName. *)
DeleteRelated(s) ==
    /\ saves[s].at = "delete"
    /\ rows' = {r \in rows : r.owner # saves[s].owner}
    /\ saves' = [saves EXCEPT ![s].at = "create"]
    /\ UNCHANGED <<minted, objects, gone, cleaner, counters, history>>

(* The statement is rejected, and save is over for its caller. *)
DeleteRelatedFails(s) ==
    /\ saves[s].at = "delete" /\ Fault
    /\ saves' = [saves EXCEPT ![s] = NoSave]
    /\ UNCHANGED <<minted, objects, rows, gone, cleaner, cleanups, events,
                   history>>

Reach(s, f, stage) == saves' = [saves EXCEPT ![s].stage[f] = stage]

(* setMetaInfo: a HEAD request; no object, or no answer, is invalidKey.  The
   presigned URL that setPresigned adds is computed without a request.     *)
SetMetaInfo(s, f) ==
    /\ saves[s].at = "create" /\ saves[s].stage[f] = "head"
    /\ \/ f \in objects /\ Reach(s, f, "insert") /\ UNCHANGED faults
       \/ f \notin objects /\ Reach(s, f, "failed") /\ UNCHANGED faults
       \/ Fault /\ Reach(s, f, "failed")
    /\ UNCHANGED <<minted, objects, rows, gone, cleaner, cleanups, events,
                   history>>

(* _create inserts every time: an id that is still there, of an edit that
   changed the owner or of a concurrent save, violates the primary key.    *)
Create(s, f) ==
    LET stage == [saves[s].stage EXCEPT ![f] = "done"]
        Whole == \A g \in Files : stage[g] \in {"none", "done"}
        Sound == saves[s].alone /\ ~saves[s].expired /\ saves[s].owner \notin gone
    IN  /\ saves[s].at = "create" /\ saves[s].stage[f] = "insert"
        /\ Reach(s, f, "done")
        /\ ~Rowed(f)
        /\ rows' = rows \cup {[file |-> f, owner |-> saves[s].owner,
                               expired |-> saves[s].expired]}
        /\ garbage' = garbage \ {f}
        /\ late' = IF f \notin objects \/ f \in cleaner.orphans
                   THEN late \cup {f} ELSE late \ {f}
        /\ kept' = IF Whole /\ Sound
                   THEN [kept EXCEPT ![saves[s].owner] =
                             {g \in Files : stage[g] = "done"}]
                   ELSE kept
        /\ UNCHANGED <<minted, objects, gone, cleaner, counters>>

CreateFails(s, f) ==
    /\ saves[s].at = "create" /\ saves[s].stage[f] = "insert"
    /\ Reach(s, f, "failed")
    /\ \/ Rowed(f) /\ UNCHANGED faults
       \/ Fault
    /\ UNCHANGED <<minted, objects, rows, gone, cleaner, cleanups, events,
                   history>>

(* saveBulk is over for its caller at the first failure, and in fact when no
   file is left: Promise.all stops nothing.                                *)
Return(s) ==
    /\ saves[s].at = "create" /\ ~Busy(s)
    /\ saves' = [saves EXCEPT ![s] = NoSave]
    /\ UNCHANGED <<minted, objects, rows, gone, cleaner, counters, history>>

(* delete *)
Delete(r) ==
    /\ Event
    /\ rows' = rows \ {r}
    /\ Disturb(r.owner)
    /\ UNCHANGED <<minted, objects, gone, cleaner, faults, cleanups,
                   late, garbage>>

(* Time passes expire_at; an owner's own row is deleted. *)
Expire(r) ==
    /\ Event /\ ~r.expired
    /\ rows' = (rows \ {r}) \cup {[r EXCEPT !.expired = TRUE]}
    /\ Disturb(r.owner)
    /\ UNCHANGED <<minted, objects, gone, cleaner, faults, cleanups,
                   late, garbage>>

OwnerGone(o) ==
    /\ Event /\ o \notin gone \cup Unmade
    /\ gone' = gone \cup {o}
    /\ Disturb(o)
    /\ UNCHANGED <<minted, objects, rows, cleaner, faults, cleanups,
                   late, garbage>>

-----------------------------------------------------------------------------
(* Cleaning up *)

Dead(r) == r.expired \/ r.owner \in gone

(* exec starts.  The first two statements, on message_tasks and sessions,
   belong to AmqpWorker and Sessions; here they succeed or fail.           *)
StartCleanup ==
    /\ cleaner.at = "idle" /\ cleanups < MaxCleanups
    /\ cleanups' = cleanups + 1
    /\ cleaner' = [cleaner EXCEPT !.at = "expired", !.folder = 1, !.token = 0,
                                  !.met = FALSE]
    /\ garbage' = {f \in objects : \A r \in rows : r.file = f => Dead(r)}
    /\ UNCHANGED <<minted, objects, rows, gone, saves, faults, events, late,
                   kept>>

(* Any statement may fail; nothing catches it, and the job ends. *)
DatabaseFails ==
    /\ cleaner.at \in {"expired", "owners", "read"}
    /\ Fault
    /\ cleaner' = [cleaner EXCEPT !.at = "failed", !.content = {}]
    /\ UNCHANGED <<minted, objects, rows, gone, saves, cleanups, events,
                   history>>

CleanExpired ==
    /\ cleaner.at = "expired"
    /\ rows' = {r \in rows : ~r.expired}
    /\ cleaner' = [cleaner EXCEPT !.at = "owners"]
    /\ UNCHANGED <<minted, objects, gone, saves, counters, history>>

(* The left join that finds the rows of one table without an owner. *)
Orphaned_Inner(r) == r.owner \notin Unmade
Orphaned(r) == r.owner \notin Unmade /\ r.owner \in gone

(* SELECT DISTINCT owner_table.  Each owner stands for its own table. *)
FindOwnerTables ==
    /\ cleaner.at = "owners"
    /\ LET found == {r.owner : r \in rows}
       IN  cleaner' = [cleaner EXCEPT !.tables = found,
                                      !.at = IF found = {} THEN "list" ELSE "orphans"]
    /\ UNCHANGED <<minted, objects, rows, gone, saves, counters, history>>

(* One statement per owner table, all sent at once.  exec is rejected with
   the first that fails, as that of a table which does not exist does; the
   others do their work all the same.                                      *)
CleanOrphans(o) ==
    /\ cleaner.at \in {"orphans", "failed"} /\ o \in cleaner.tables
    /\ LET left == cleaner.tables \ {o}
       IN  \/ /\ o \notin Unmade
              /\ rows' = {r \in rows : ~(r.owner = o /\ Orphaned(r))}
              /\ cleaner' = [cleaner EXCEPT !.tables = left,
                     !.at = IF @ = "orphans" /\ left = {} THEN "list" ELSE @]
              /\ UNCHANGED faults
           \/ /\ \/ o \in Unmade /\ UNCHANGED faults
                 \/ Fault
              /\ cleaner' = [cleaner EXCEPT !.tables = left, !.at = "failed"]
              /\ UNCHANGED rows
    /\ UNCHANGED <<minted, objects, gone, saves, cleanups, events, history>>

Folder(f) == IF f \in IsPublic THEN 2 ELSE 1

(* list: the page of the folder after the token, and the next token, which
   is 0 on the last page.                                                  *)
After(folder, token) == {f \in objects : Folder(f) = folder /\ f > token}

Page(rest) ==
    {f \in rest : Cardinality({g \in rest : g < f}) < PageSize}

NextToken_None(rest) == 0
NextToken(rest) == IF Page(rest) = rest THEN 0 ELSE Max(Page(rest))

(* The end of one turn of the do-while: the next page, or the next folder. *)
Advance(token, met) ==
    cleaner' = [cleaner EXCEPT
        !.at = IF token = 0 /\ cleaner.folder = 2 THEN "done" ELSE "list",
        !.folder = IF token = 0 /\ cleaner.folder = 1 THEN 2 ELSE @,
        !.token = token, !.content = {}, !.orphans = {}, !.met = met]

(* A listing that fails is an empty page, which ends the folder. *)
ListPage ==
    /\ cleaner.at = "list"
    /\ LET rest == After(cleaner.folder, cleaner.token)
       IN  \/ /\ rest = {} /\ Advance(0, cleaner.met)
              /\ UNCHANGED faults
           \/ /\ rest # {}
              /\ cleaner' = [cleaner EXCEPT !.at = "read", !.content = Page(rest),
                                            !.token = NextToken(rest)]
              /\ UNCHANGED faults
           \/ Fault /\ Advance(0, TRUE)
    /\ UNCHANGED <<minted, objects, rows, gone, saves, cleanups, events, history>>

Existing_Unexpired(keys) == {f \in keys : \E r \in rows : r.file = f /\ ~r.expired}
Existing(keys) == {f \in keys : Rowed(f)}

ReadRows ==
    /\ cleaner.at = "read"
    /\ LET orphans == cleaner.content \ Existing(cleaner.content)
       IN  IF orphans = {} THEN Advance(cleaner.token, cleaner.met)
           ELSE cleaner' = [cleaner EXCEPT !.at = "remove", !.content = {},
                                           !.orphans = orphans]
    /\ UNCHANGED <<minted, objects, rows, gone, saves, counters, history>>

(* remove, ten at a time; a failure is logged and forgotten. *)
RemoveObject(f) ==
    /\ cleaner.at = "remove" /\ f \in cleaner.orphans
    /\ \/ objects' = objects \ {f} /\ UNCHANGED faults
          /\ LET rest == cleaner.orphans \ {f}
             IN  IF rest = {} THEN Advance(cleaner.token, cleaner.met)
                 ELSE cleaner' = [cleaner EXCEPT !.orphans = rest]
       \/ Fault /\ UNCHANGED objects
          /\ LET rest == cleaner.orphans \ {f}
             IN  IF rest = {} THEN Advance(cleaner.token, TRUE)
                 ELSE cleaner' = [cleaner EXCEPT !.orphans = rest, !.met = TRUE]
    /\ UNCHANGED <<minted, rows, gone, saves, cleanups, events, history>>

(* The job is acknowledged, or left to the retry of the worker. *)
EndCleanup ==
    /\ cleaner.at \in {"done", "failed"} /\ cleaner.tables = {}
    /\ cleaner' = [cleaner EXCEPT !.at = "idle"]
    /\ garbage' = {}
    /\ UNCHANGED <<minted, objects, rows, gone, saves, counters, late, kept>>

-----------------------------------------------------------------------------
Save(s) ==
    \/ SaveNew(s) \/ SaveEdited(s) \/ Return(s)
    \/ DeleteRelated(s) \/ DeleteRelatedFails(s)
    \/ \E f \in Files : SetMetaInfo(s, f) \/ Create(s, f) \/ CreateFails(s, f)

Cleanup ==
    \/ StartCleanup \/ DatabaseFails \/ CleanExpired \/ FindOwnerTables
    \/ \E o \in Owners : CleanOrphans(o)
    \/ ListPage \/ ReadRows \/ EndCleanup
    \/ \E f \in Files : RemoveObject(f)

FilesNext ==
    \/ GetPresignUploadUrl
    \/ \E f \in Files : Upload(f)
    \/ \E s \in Savers : Save(s)
    \/ \E r \in rows : Delete(r) \/ Expire(r)
    \/ \E o \in Owners : OwnerGone(o)
    \/ Cleanup

FilesSpec == FilesInit /\ [][FilesNext]_filesVars

-----------------------------------------------------------------------------
(* Properties *)

(* Type invariant. *)
FilesTypeOK ==
    /\ minted \in 0 .. MaxFiles
    /\ objects \subseteq 1 .. minted
    /\ rows \subseteq Row
    /\ gone \subseteq Owners \ Unmade
    /\ saves \in [Savers -> SaveState]
    /\ cleaner \in CleanerState
    /\ late \subseteq Files /\ garbage \subseteq Files
    /\ kept \in [Owners -> SUBSET Files]

(* A row whose object the cleanup took away was inserted after the cleanup
   had looked for it: one that is there throughout keeps its object, though
   the bucket is listed, the table read and the object removed at three
   different times.                                                        *)
CleanupSparesStored ==
    \A r \in rows : r.file \in objects \/ r.file \in late

(* A cleanup that ends without an error, and met none it hid, has removed
   all it could have known of when it began: the objects without a row, with
   an expired row, or of an owner that is gone, on every page of both
   folders.                                                                *)
CleanupCollects ==
    cleaner.at = "done" /\ ~cleaner.met => garbage \cap objects = {}

(* After a save that overlapped no other of its owner and succeeded, the owner
   has just the files it wrote, until the next save or until they expire, are
   deleted or lose their owner: no other save and no cleanup touches them.  *)
SavedFilesStay ==
    \A o \in Owners :
        kept[o] # {} => {r.file : r \in {q \in rows : q.owner = o}} = kept[o]
=============================================================================
