----------------------------- MODULE ChartBlock -----------------------------
(***************************************************************************)
(* The charts of an answer: a fenced chart block written by the model, its *)
(* rows remapped to the declared series when their names disagree, and     *)
(* drawn only when the figures are those the tool returned.                *)
(*                                                                         *)
(* A row is the sequence of its properties, in the order of Object.keys;   *)
(* a value is a number, a number that the model has put in quotes, or a    *)
(* text, and on the x axis it is a label.                                  *)
(***************************************************************************)
EXTENDS Integers, Sequences, SequencesExt

CONSTANTS
    XKey,      \* the property along the x axis
    Keys,      \* the other names of properties and series
    Numbers,   \* figures
    Numeral,   \* a string that spells a figure: Recharts plots it, and which
               \* figure it is nothing here depends on
    Text,      \* any other string
    MaxRows    \* bound: rows of a block

ASSUME ChartAssumption ==
    XKey \notin Keys /\ Text \notin Numbers \cup {Numeral} /\ MaxRows \in Nat

VARIABLES
    toolNumbers,  \* validNumbers: the figures of the message's tool calls,
                  \* those a row carries as numeric strings among them
    block,        \* the block as it has been parsed so far
    chart         \* what is drawn: a ChartSpec, or <<>>

chartVars == <<toolNumbers, block, chart>>

-----------------------------------------------------------------------------
Property ==
    [key : Keys, value : Numbers \cup {Numeral, Text}] \cup [key : {XKey}, value : {Text}]

Distinct(names) == \A i, j \in DOMAIN names : names[i] = names[j] => i = j

KeysOf(row) == [i \in DOMAIN row |-> row[i].key]

RowsOfLength(n) == {row \in [1 .. n -> Property] : Distinct(KeysOf(row))}

(* row[key], which is undefined, and drawn as a gap, when there is none. *)
Has(row, key) == \E i \in DOMAIN row : row[i].key = key
At(row, key) == row[CHOOSE i \in DOMAIN row : row[i].key = key].value

(* Object.keys(row) without xKey. *)
RowKeys(row) == SelectSeq(KeysOf(row), LAMBDA k : k # XKey)

ChartInit ==
    /\ toolNumbers \in SUBSET Numbers
    /\ block \in {[series |-> s, data |-> <<>>] :
                     s \in UNION {{names \in [1 .. n -> Keys] : Distinct(names)} :
                                     n \in 1 .. 2}}
    /\ chart = <<>>

(* The model writes another row. *)
WriteRow ==
    /\ chart = <<>> /\ Len(block.data) < MaxRows
    /\ \E n \in 1 .. 3 : \E row \in RowsOfLength(n) :
           block' = [block EXCEPT !.data = Append(@, row)]
    /\ UNCHANGED <<toolNumbers, chart>>

(* One row of a block whose names disagree: the i-th series takes the i-th
   property, whatever it is called; a shorter row leaves gaps.             *)
Remap(row, series) ==
    LET keys == RowKeys(row)
        Moved(i) == IF i > Len(keys) THEN <<>>
                    ELSE <<[key |-> series[i], value |-> At(row, keys[i])]>>
        x == IF Has(row, XKey) THEN <<[key |-> XKey, value |-> At(row, XKey)]>>
             ELSE <<>>
    IN  x \o FlattenSeq([i \in DOMAIN series |-> Moved(i)])

(* normalizeChartSpec, whose null is a spec without data.  Only the first
   row decides.                                                            *)
NormalizeChartSpec(spec) ==
    LET rowKeys == RowKeys(spec.data[1])
        hasAllKeys == ToSet(spec.series) \subseteq ToSet(rowKeys)
    IN  IF spec.data = <<>> \/ hasAllKeys THEN spec
        ELSE IF Len(rowKeys) # Len(spec.series) THEN [spec EXCEPT !.data = <<>>]
        ELSE [spec EXCEPT !.data =
                 [i \in DOMAIN spec.data |-> Remap(spec.data[i], spec.series)]]

(* What a spec draws: Recharts plots a string that spells a number as well. *)
Figures(spec) ==
    (UNION {{row[i].value : i \in {j \in DOMAIN row : row[j].key \in ToSet(spec.series)}} :
                row \in ToSet(spec.data)})
    \ {Text}

(* Only a value of type number is looked up: a string passes. *)
IsChartDataGrounded(spec) ==
    toolNumbers = {} \/ Figures(spec) \ {Numeral} \subseteq toolNumbers

(* buildMarkdownComponents, with the check before the remapping. *)
Render_CheckFirst ==
    /\ chart = <<>> /\ block.data # <<>>
    /\ LET spec == NormalizeChartSpec(block)
       IN  spec.data # <<>> /\ IsChartDataGrounded(block) /\ chart' = spec
    /\ UNCHANGED <<toolNumbers, block>>

(* buildMarkdownComponents: what is refused renders nothing. *)
Render ==
    /\ chart = <<>> /\ block.data # <<>>
    /\ LET spec == NormalizeChartSpec(block)
       IN  spec.data # <<>> /\ IsChartDataGrounded(spec) /\ chart' = spec
    /\ UNCHANGED <<toolNumbers, block>>

ChartNext == WriteRow \/ Render

ChartSpec == ChartInit /\ [][ChartNext]_chartVars

-----------------------------------------------------------------------------
(* Properties *)

(* "every plotted number must be traceable to the real tool result"
   (FinancialChart.tsx:56), wherever the remapping has put it.  That is less
   than it says: the check lets through a figure that the model has put in
   quotes, and any figure when the message has no tool result to compare it
   with.                                                                   *)
ChartTraceable ==
    chart # <<>> /\ toolNumbers # {} =>
        \A row \in ToSet(chart.data) : \A p \in ToSet(row) :
            p.key \in ToSet(chart.series) /\ p.value # Text =>
                p.value = Numeral \/ p.value \in toolNumbers
=============================================================================
