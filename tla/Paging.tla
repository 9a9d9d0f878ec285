-------------------------------- MODULE Paging --------------------------------
(***************************************************************************)
(* Filtered and sorted lists of ids, read page by page.                    *)
(*                                                                         *)
(* A page is two statements, findIds and getCount, and what getPagination  *)
(* makes of their answers.  No endpoint composes them yet: the walker is   *)
(* a caller who follows nextPage, or previousPage, from the first page     *)
(* until that leads back to it.  Rows come and go meanwhile.               *)
(*                                                                         *)
(* A row's id grows with the time it is made; rows made in one millisecond *)
(* have one time.  text stands for what a filter compares or searches: a   *)
(* name, an email, a title, an owner, a status, a queue.                   *)
(***************************************************************************)
EXTENDS Integers, Sequences, FiniteSets, SequencesExt

CONSTANTS
    RowIds,     \* 1 .. n: ids in the order they are made
    TimeOf,     \* when each is made
    Texts,      \* positive numbers, in the order of the texts
    Filters,    \* each the set of texts it lets through
    PerPages,   \* what a request may give as perPage
    MaxWrites,  \* bound: rows inserted or deleted during a walk
    MaxPage     \* bound: pages of a walk

ASSUME PagingAssumption ==
    /\ RowIds \subseteq Nat /\ IsFiniteSet(RowIds)
    /\ TimeOf \in [RowIds -> Nat] /\ Texts \subseteq Nat /\ 0 \notin Texts
    /\ PerPages \subseteq Int
    /\ MaxWrites \in Nat /\ MaxPage \in Nat

VARIABLES
    rows,      \* the table: the row of each id, or NoRow
    made,      \* the ids that rows have had: none is made twice
    walk,      \* the list asked for, and how the walk goes on
    at,        \* the next statement of the walk
    page, data,  \* the page that is read; its ids
    list,      \* what was listed when the walk began (history)
    seen,      \* how often each id was read (history)
    shifted,   \* a change moved rows across what was read (history)
    writes

pagingVars == <<rows, made, walk, at, page, data, list, seen, shifted, writes>>

-----------------------------------------------------------------------------
NoRow == 0
Stored == {i \in RowIds : rows[i] # NoRow}

(* The columns a list can be sorted by.  A user's times are in accounts,
   which findIds does not join.                                            *)
UserSorts == [id |-> TRUE, text |-> TRUE, time |-> FALSE]
ConversationSorts == [id |-> TRUE, text |-> TRUE, time |-> TRUE]
MessageTaskSorts == [id |-> TRUE, time |-> TRUE]

SortMapper ==
    [user |-> UserSorts, conversation |-> ConversationSorts,
     messageTask |-> MessageTaskSorts]

(* getSortZod: "-" before a key is descending; one key that is not the
   list's refuses all; none is no order.                                   *)
SortKeys(kind) == {<<key, dir>> : key \in DOMAIN SortMapper[kind], dir \in {"asc", "desc"}}
Sorts(kind) == UNION {[1 .. n -> SortKeys(kind)] : n \in 0 .. 2}

Column(key, i) ==
    IF key = "id" THEN i ELSE IF key = "time" THEN TimeOf[i] ELSE rows[i]

(* ORDER BY. *)
Precedes(sort, i, j) ==
    \E n \in DOMAIN sort :
        /\ \A m \in 1 .. n - 1 : Column(sort[m][1], i) = Column(sort[m][1], j)
        /\ IF sort[n][2] = "asc"
           THEN Column(sort[n][1], i) < Column(sort[n][1], j)
           ELSE Column(sort[n][1], i) > Column(sort[n][1], j)

Filtered == {i \in Stored : walk.filter # {} => rows[i] \in walk.filter}

(* What Postgres may answer: rows that tie come in any order, which may be
   another one the next time.                                              *)
Answers ==
    {s \in SetToSeqs(Filtered) :
        \A m, n \in DOMAIN s : Precedes(walk.sort, s[m], s[n]) => m < n}

QueryCount == Cardinality(Filtered)

-----------------------------------------------------------------------------
Unlimited == walk.perPage <= 0

(* Mutant: pages are counted from 0. *)
Offset_FromZero(p) == IF Unlimited THEN 0 ELSE p * walk.perPage

Offset(p) ==
    LET n == (p - 1) * walk.perPage
    IN  IF Unlimited THEN 0 ELSE IF n < 0 THEN -n ELSE n

Limited(s) ==
    IF Unlimited THEN s
    ELSE SubSeq(s, Offset(page) + 1,
                IF Offset(page) + walk.perPage < Len(s) THEN Offset(page) + walk.perPage
                ELSE Len(s))

(* With perPage 0 there are infinitely many pages. *)
TotalPages(total) ==
    LET perPage == IF walk.perPage < 0 THEN total ELSE walk.perPage
    IN  IF total <= 0 THEN 1
        ELSE IF perPage = 0 THEN MaxPage + 1
        ELSE (total + perPage - 1) \div perPage

NextPage(total) == IF page + 1 > TotalPages(total) THEN 1 ELSE page + 1

PreviousPage(total) ==
    IF page - 1 \in 1 .. TotalPages(total) THEN page - 1 ELSE TotalPages(total)

-----------------------------------------------------------------------------
PagingInit ==
    /\ rows \in [RowIds -> {NoRow} \cup Texts] /\ made = Stored
    /\ walk \in [kind : DOMAIN SortMapper, filter : {{}} \cup Filters, sort : {<<>>},
                 perPage : PerPages, goes : {"next", "previous"}]
    /\ at = "new"
    /\ page = 1 /\ data = <<>>
    /\ list = {}
    /\ seen = [i \in RowIds |-> 0]
    /\ shifted = FALSE /\ writes = 0

(* The query of a list comes in: its sort is parsed. *)
ParseSort ==
    /\ at = "new"
    /\ \E sort \in Sorts(walk.kind) : walk' = [walk EXCEPT !.sort = sort]
    /\ at' = "ids"
    /\ list' = Filtered
    /\ UNCHANGED <<rows, made, page, data, seen, shifted, writes>>

(* A sort by a column that is not in the query makes it fail. *)
Joinable == \A n \in DOMAIN walk.sort : SortMapper[walk.kind][walk.sort[n][1]]

FindIds ==
    /\ at = "ids" /\ Joinable
    /\ \E s \in Answers : data' = Limited(s)
    /\ seen' = [i \in RowIds |-> seen[i] + Cardinality({n \in DOMAIN data' : data'[n] = i})]
    /\ at' = "count"
    /\ UNCHANGED <<rows, made, walk, page, list, shifted, writes>>

FindIdsFails ==
    /\ at = "ids" /\ ~Joinable
    /\ at' = "failed"
    /\ UNCHANGED <<rows, made, walk, page, data, list, seen, shifted, writes>>

GetCount ==
    /\ at = "count"
    /\ LET total == QueryCount
           to == IF walk.goes = "next" THEN NextPage(total) ELSE PreviousPage(total)
       IN  /\ to <= MaxPage
           /\ page' = to
           /\ at' = IF to = 1 THEN "over" ELSE "ids"
    /\ data' = <<>>
    /\ UNCHANGED <<rows, made, walk, list, seen, shifted, writes>>

(* Rows that come or go move others across what a walk forwards has read
   only where a row it has read comes after them; a walk backwards starts at
   the end, which every change moves.                                      *)
Moves(i) ==
    /\ i \in Filtered
    /\ walk.goes = "previous" \/ \E j \in Filtered : seen[j] > 0 /\ ~Precedes(walk.sort, j, i)

InsertRow ==
    /\ at \in {"ids", "count"} /\ writes < MaxWrites
    /\ UNCHANGED <<walk, at, page, data, list, seen>>
    /\ \E i \in RowIds, t \in Texts :
        /\ \A j \in made : j < i
        /\ rows' = [rows EXCEPT ![i] = t] /\ made' = made \cup {i}
        /\ shifted' = (shifted \/ Moves(i)')
    /\ writes' = writes + 1

DeleteRow ==
    /\ at \in {"ids", "count"} /\ writes < MaxWrites
    /\ \E i \in Stored :
        /\ rows' = [rows EXCEPT ![i] = NoRow]
        /\ shifted' = (shifted \/ Moves(i))
    /\ writes' = writes + 1
    /\ UNCHANGED <<made, walk, at, page, data, list, seen>>

PagingNext ==
    ParseSort \/ FindIds \/ FindIdsFails \/ GetCount \/ InsertRow \/ DeleteRow

PagingSpec == PagingInit /\ [][PagingNext]_pagingVars

-----------------------------------------------------------------------------
(* The pages add up to the list.  Whoever follows nextPage, or previousPage,
   back to the first page has read every row that was there all along once,
   and none twice, though a page's ids and the count are read at different
   times and rows come and go: provided the sort leaves no ties, or all comes
   in one page, and no row moved across what was read.                     *)
PagesAddUp ==
    at = "over" /\ ~shifted
    /\ (walk.perPage < 0 \/ \E n \in DOMAIN walk.sort : walk.sort[n][1] = "id")
    => \A i \in RowIds : seen[i] <= 1 /\ (i \in list \cap Filtered => seen[i] = 1)
=============================================================================
