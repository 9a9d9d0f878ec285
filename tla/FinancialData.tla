---------------------------- MODULE FinancialData ----------------------------
(***************************************************************************)
(* What the model hears of the financial data: the tool's query, with its  *)
(* fuzzy filters, and the command that loads the table, which may run, and *)
(* fail, while questions are answered.                                     *)
(*                                                                         *)
(* A name is a sequence of characters: letters, each in its two cases, and *)
(* digits, which have one; whatever else is punctuation, or a wildcard of  *)
(* LIKE.                                                                   *)
(***************************************************************************)
EXTENDS Integers, Sequences, FiniteSets

CONSTANTS
    Cases,      \* each letter or digit: <<small, capital>>
    NameChars,  \* the characters of names
    DataSet,    \* the rows of financial_data.sql: company, ticker, sector, year
    Companies,  \* names the model may ask for
    Years,
    Sectors,    \* sectors the model may ask for
    MaxCalls,   \* bound: tool calls of a turn
    MaxSeeds    \* bound: runs of the seed command

Small == {c[1] : c \in Cases}
Alphanumeric == Small \cup {c[2] : c \in Cases}

(* Tickers are made of letters: those of the file are. *)
ASSUME FinancialDataAssumption ==
    /\ Cases \subseteq NameChars \X NameChars
    /\ \A c, d \in Cases : c = d \/ {c[1], c[2]} \cap {d[1], d[2]} = {}
    /\ Companies \cup Sectors \subseteq Seq(NameChars)
    /\ \A row \in DataSet :
        {row.company, row.sector} \subseteq Seq(NameChars) /\ row.ticker \in Seq(Alphanumeric)
    /\ MaxCalls \in Nat /\ MaxSeeds \in Nat

VARIABLES
    financialData,  \* the table
    seed,           \* where the seed command is: "idle" or "insert"
    toolArgs,       \* the arguments of the call under way, or <<>>
    allToolCalls,   \* arguments and rows of the turn's calls
    turn,           \* "open", or "failed": an exception has left the loop
    seeds,
    lacking         \* the table was emptied and not filled again (history)

dataVars == <<financialData, seed, toolArgs, allToolCalls, turn, seeds, lacking>>

-----------------------------------------------------------------------------
LowerOf(ch) == IF \E c \in Cases : c[2] = ch
               THEN (CHOOSE c \in Cases : c[2] = ch)[1] ELSE ch

Lower(s) == [i \in DOMAIN s |-> LowerOf(s[i])]

(* The n-th of a set of places. *)
Nth(places, n) ==
    CHOOSE i \in places : Cardinality({j \in places : j <= i}) = n

(* What is left of s when all but some characters are replaced by nothing. *)
Only(chars, s) ==
    LET places == {i \in DOMAIN s : s[i] \in chars}
    IN  [n \in 1 .. Cardinality(places) |-> s[Nth(places, n)]]

(* Mutant: punctuation goes before the case does, and capitals with it. *)
Normalize_StripFirst(s) == Lower(Only(Small, s))

Normalize(s) == Only(Small, Lower(s))

(* LIKE: the characters of the pattern divide s among them. *)
Like(s, pattern) ==
    \E cut \in [0 .. Len(pattern) -> 0 .. Len(s)] :
        /\ cut[0] = 0 /\ cut[Len(pattern)] = Len(s)
        /\ \A i \in DOMAIN pattern :
            IF pattern[i] = "%" THEN cut[i] >= cut[i - 1]
            ELSE /\ cut[i] = cut[i - 1] + 1
                 /\ pattern[i] \in {"_", s[cut[i]]}

ILike(s, pattern) == Like(Lower(s), Lower(pattern))

MatchesCompany(row, name) ==
    \/ Like(Normalize(row.company), <<"%">> \o Normalize(name) \o <<"%">>)
    \/ Lower(row.ticker) = Normalize(name)

(* An empty filter is no filter. *)
FinancialQuery(args) ==
    {row \in financialData :
        /\ args.companies # {} => \E name \in args.companies : MatchesCompany(row, name)
        /\ args.years # {} => row.year \in args.years
        /\ args.sectors # {} => \E s \in args.sectors : ILike(row.sector, s)}

-----------------------------------------------------------------------------
(* What the model writes: arguments, no JSON, or JSON of another shape. *)
Args == [companies : SUBSET Companies, years : SUBSET Years, sectors : SUBSET Sectors]

NoFilter == [companies |-> {}, years |-> {}, sectors |-> {}]

DataInit ==
    /\ financialData = DataSet
    /\ seed = "idle"
    /\ toolArgs = <<>> /\ allToolCalls = <<>> /\ turn = "open"
    /\ seeds = 0 /\ lacking = FALSE

(* The query is rendered, and shown, before it runs. *)
CallTool(args) ==
    /\ turn = "open" /\ toolArgs = <<>> /\ Len(allToolCalls) < MaxCalls
    /\ toolArgs' = <<args>>
    /\ UNCHANGED <<financialData, seed, allToolCalls, turn, seeds, lacking>>

(* No JSON: _parseToolArgs falls back to no filter. *)
CallWithoutJson == CallTool(NoFilter)

(* JSON that is no object, or has a filter that is no list. *)
CallMisshapen ==
    /\ turn = "open" /\ toolArgs = <<>>
    /\ turn' = "failed"
    /\ UNCHANGED <<financialData, seed, toolArgs, allToolCalls, seeds, lacking>>

(* gap is history: the table was empty for a reason the model cannot know. *)
ExecuteQuery ==
    /\ turn = "open" /\ toolArgs # <<>>
    /\ \/ /\ allToolCalls' = Append(allToolCalls,
                [args |-> toolArgs[1], rows |-> FinancialQuery(toolArgs[1]), gap |-> lacking])
          /\ toolArgs' = <<>>
          /\ UNCHANGED turn
       \/ /\ turn' = "failed"
          /\ UNCHANGED <<allToolCalls, toolArgs>>
    /\ UNCHANGED <<financialData, seed, seeds, lacking>>

(* The file is read and taken apart first; then one DELETE and one INSERT,
   each on its own.  A file without a COPY block, or a DELETE that fails,
   ends the command and leaves the table as it was.                        *)
SeedDeletes ==
    /\ seed = "idle" /\ seeds < MaxSeeds
    /\ financialData' = {}
    /\ seed' = "insert"
    /\ seeds' = seeds + 1
    /\ lacking' = TRUE
    /\ UNCHANGED <<toolArgs, allToolCalls, turn>>

SeedInserts ==
    /\ seed = "insert"
    /\ seed' = "idle"
    /\ financialData' = DataSet
    /\ lacking' = FALSE
    /\ UNCHANGED <<toolArgs, allToolCalls, turn, seeds>>

(* The INSERT fails, or the command dies before it. *)
SeedFails ==
    /\ seed = "insert"
    /\ seed' = "idle"
    /\ UNCHANGED <<financialData, toolArgs, allToolCalls, turn, seeds, lacking>>

DataNext ==
    \/ \E args \in Args : CallTool(args)
    \/ CallWithoutJson \/ CallMisshapen
    \/ ExecuteQuery
    \/ SeedDeletes \/ SeedInserts \/ SeedFails

DataSpec == DataInit /\ [][DataNext]_dataVars

-----------------------------------------------------------------------------
(* One letter, in either case. *)
Alike(ch, other) == \E c \in Cases : {ch, other} \subseteq {c[1], c[2]}

(* Two spellings of one name: the same letters, whatever their case and
   whatever stands between them.                                           *)
Spells(q, name) ==
    LET letters == Only(Alphanumeric, q)
        others == Only(Alphanumeric, name)
    IN  /\ Len(letters) = Len(others)
        /\ \A i \in DOMAIN letters : Alike(letters[i], others[i])

(* The same characters, whatever their case. *)
Reads(q, name) ==
    /\ Len(q) = Len(name)
    /\ \A i \in DOMAIN q : q[i] = name[i] \/ Alike(q[i], name[i])

WantedBy(args, row) ==
    /\ args.companies # {} =>
        \E q \in args.companies : Spells(q, row.company) \/ Spells(q, row.ticker)
    /\ args.years # {} => row.year \in args.years
    /\ args.sectors # {} => \E q \in args.sectors : Reads(q, row.sector)

(* Nothing is left out.  A call that names a company or its ticker, in
   capitals or not, with or without its punctuation, hears of every row of
   the data it asks for; when the model says that the data is not available
   it is not in the file.  The exception is the code's: a query that runs
   after the seed command's DELETE and before an INSERT has succeeded.     *)
NothingLeftOut ==
    \A i \in DOMAIN allToolCalls :
        allToolCalls[i].gap \/
        \A row \in DataSet :
            WantedBy(allToolCalls[i].args, row) => row \in allToolCalls[i].rows
=============================================================================
