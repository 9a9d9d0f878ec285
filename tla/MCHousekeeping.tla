---------------------------- MODULE MCHousekeeping ---------------------------
(* Three components that do not interact, in one run.  StoredFiles, in three
   sizes.  saving: two callers whose saves overlap, two files, one fault or
   event, no cleanup.  cleaning: one caller, which may save again and again,
   and a cleanup of two files.  folders: the same with a third file, in the
   other folder, an owner whose table exists, and no fault.  Then ChartBlock,
   where a row begins with its property for the x axis, one of three
   properties has one, and the series are called a and b, since names are
   alike; and Entities.                                                    *)
EXTENDS StoredFiles, ChartBlock, Entities, TLC

CONSTANTS s1, s2, a, b

VARIABLE part

Within ==
    \/ /\ part = "saving" /\ cleanups = 0 /\ minted < MaxFiles
       /\ faults + events <= 1
    \/ part = "cleaning" /\ saves[s2].at = "idle" /\ minted < MaxFiles
    \/ /\ part = "folders" /\ saves[s2].at = "idle"
       /\ faults = 0 /\ events = 0
       /\ saves[s1].at # "idle" => saves[s1].owner \notin Unmade

Drawable ==
    \A r \in ToSet(block.data) :
        XKey \in ToSet(KeysOf(r)) \/ Len(r) = 3 => r[1].key = XKey

NoChart ==
    toolNumbers = {} /\ block = [series |-> <<>>, data |-> <<>>] /\ chart = <<>>

NoEntities ==
    /\ kind = "message" /\ row = [there |-> FALSE, cols |-> <<>>] /\ holder = <<>> /\ due = <<>>
    /\ excused = {} /\ deleted = FALSE /\ edits = 0 /\ refused = 0

MCInit ==
    /\ FilesInit
    /\ \/ part \in {"saving", "cleaning", "folders"} /\ NoChart /\ NoEntities
       \/ part = "chart" /\ ChartInit /\ block.series \in {<<a>>, <<a, b>>} /\ NoEntities
       \/ part = "entities" /\ NoChart /\ EntitiesInit

MCNext ==
    /\ UNCHANGED part
    /\ \/ /\ part \in {"saving", "cleaning", "folders"}
          /\ FilesNext /\ Within' /\ UNCHANGED <<chartVars, entityVars>>
       \/ part = "chart" /\ ChartNext /\ Drawable' /\ UNCHANGED <<filesVars, entityVars>>
       \/ part = "entities" /\ EntitiesNext /\ UNCHANGED <<filesVars, chartVars>>

MCSpec == MCInit /\ [][MCNext]_<<filesVars, chartVars, entityVars, part>>

Symmetry == Permutations(Holders)
=============================================================================
