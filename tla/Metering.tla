------------------------------- MODULE Metering -------------------------------
(***************************************************************************)
(* What a turn costs: the tokens of its rounds, as OpenAI counts them and  *)
(* as ChatService does when no count arrives.                              *)
(*                                                                         *)
(* OpenAI counts a round's messages, a surcharge for each and the tool     *)
(* definitions, and all it has generated, and says so in the last chunk.   *)
(* A stop ends a round before that chunk: the service then counts the      *)
(* messages' contents, joined by newlines, and the text it has read.       *)
(*                                                                         *)
(* Prices are in hundredths of a micro-dollar, so they are integers; the   *)
(* turns of one account come one after the other.                          *)
(***************************************************************************)
EXTENDS Integers

CONSTANTS
    ModelPricing,     \* per model: the price of a prompt and a completion token
    Models,           \* models that OPENAI_MODEL may name, priced or not
    MaxToolRounds,    \* MAX_TOOL_CALL_ROUNDS
    SystemTokens,     \* tokens of SYSTEM_PROMPT
    QuestionTokens,
    ErrorTokens,      \* of what is stored for a turn that failed
    DeltaTokens,      \* of a delta, of text or of a tool call
    RowsTokens,       \* what the rows of a query may have
    Surcharge,        \* tokens OpenAI adds for a message
    ToolsSurcharge,   \* and for the tool definitions
    LimitMicros,
    MaxDeltas,        \* bound: deltas of a round
    MaxListed,        \* bound: tool calls of a round
    MaxAsked          \* bound: turns

(* A message's surcharge is at least the newline that joins it. *)
ASSUME MeteringAssumption ==
    /\ "default" \in DOMAIN ModelPricing
    /\ \A p \in DOMAIN ModelPricing :
        ModelPricing[p].prompt \in Nat /\ ModelPricing[p].completion \in Nat
    /\ MaxToolRounds \in Nat \ {0} /\ Surcharge \in Nat \ {0}
    /\ ToolsSurcharge \in Nat /\ LimitMicros \in Nat
    /\ {SystemTokens, QuestionTokens, ErrorTokens, DeltaTokens} \subseteq Nat
    /\ RowsTokens \subseteq Nat

VARIABLES
    model,
    past,     \* tokens and number of the stored messages
    spent,    \* usage:<user>, in micro-dollars
    meter,    \* the turn that runs
    stopFlag, \* the conversation's stop flag
    truth,    \* what OpenAI counts, what the rounds that were read sent and
              \* showed, and whether each count arrived (history)
    asked

meterVars == <<model, past, spent, meter, stopFlag, truth, asked>>

-----------------------------------------------------------------------------
Pricing == ModelPricing[IF model \in DOMAIN ModelPricing THEN model ELSE "default"]

ComputeCost(promptTokens, completionTokens) ==
    promptTokens * Pricing.prompt + completionTokens * Pricing.completion

(* Math.round of a cost in micro-dollars. *)
Micros(cost) == (cost + 50) \div 100

(* Of the messages: their number, the tokens of their contents, and those of
   the tool calls they list.                                               *)
NoMeter ==
    [at |-> "idle", round |-> 0, count |-> 0, prompt |-> 0, listed |-> 0,
     text |-> 0, calls |-> 0, args |-> 0, deltas |-> 0, counted |-> FALSE,
     gotUsage |-> FALSE, content |-> 0, cost |-> 0, charged |-> 0]

NoTruth == [used |-> 0, shown |-> 0, certain |-> TRUE]

(* The tool definitions are left out of the last round. *)
LastRound == meter.round = MaxToolRounds - 1
PromptUsage ==
    meter.prompt + meter.listed + meter.count * Surcharge
        + (IF LastRound THEN 0 ELSE ToolsSurcharge)

(* The contents joined by newlines; a message without content is empty. *)
EstimateCost == ComputeCost(meter.prompt + meter.count - 1, meter.text)

-----------------------------------------------------------------------------
MeterInit ==
    /\ model \in Models
    /\ past = [count |-> 0, tokens |-> 0]
    /\ spent = 0
    /\ meter = NoMeter /\ stopFlag = FALSE /\ truth = NoTruth
    /\ asked = 0

HasBudgetRemaining == spent < LimitMicros

(* prepareTurn, and the messages of the first round. *)
Ask ==
    /\ meter.at \in {"idle", "done", "gone"} /\ asked < MaxAsked
    /\ HasBudgetRemaining
    /\ past' = [count |-> past.count + 1, tokens |-> past.tokens + QuestionTokens]
    /\ meter' = [NoMeter EXCEPT !.at = "open", !.count = past'.count + 1,
                              !.prompt = SystemTokens + past'.tokens]
    /\ truth' = NoTruth
    /\ asked' = asked + 1
    /\ UNCHANGED <<model, spent, stopFlag>>

(* A stop is requested, or its flag runs out. *)
RequestStop ==
    /\ stopFlag' = ~stopFlag
    /\ UNCHANGED <<model, past, spent, meter, truth, asked>>

(* Mutant: gotUsage is declared outside the loop of rounds. *)
NewRound_Once == [meter EXCEPT !.at = "stream", !.text = 0, !.calls = 0, !.args = 0,
                              !.deltas = 0, !.counted = FALSE]

NewRound == [meter EXCEPT !.at = "stream", !.text = 0, !.calls = 0, !.args = 0,
                         !.deltas = 0, !.counted = FALSE, !.gotUsage = FALSE]

StreamChatCompletion ==
    /\ meter.at = "open"
    /\ meter' = NewRound
    /\ truth' = [truth EXCEPT !.used = @ + ComputeCost(PromptUsage, 0)]
    /\ UNCHANGED <<model, past, spent, stopFlag, asked>>

(* A chunk arrives while no stop is requested. *)
Heard == meter.at = "stream" /\ ~stopFlag

Delta ==
    /\ Heard /\ ~meter.counted /\ meter.deltas < MaxDeltas
    /\ meter' = [meter EXCEPT !.deltas = @ + 1, !.text = @ + DeltaTokens]
    /\ truth' = [truth EXCEPT !.used = @ + ComputeCost(0, DeltaTokens)]
    /\ UNCHANGED <<model, past, spent, stopFlag, asked>>

(* The delta of a tool call: another one, or more of the last one's
   arguments.                                                              *)
ToolDelta ==
    /\ Heard /\ ~meter.counted /\ meter.deltas < MaxDeltas /\ ~LastRound
    /\ \E calls \in {meter.calls, meter.calls + 1} \ {0} :
        /\ calls <= MaxListed
        /\ meter' = [meter EXCEPT !.deltas = @ + 1, !.calls = calls, !.args = @ + DeltaTokens]
    /\ truth' = [truth EXCEPT !.used = @ + ComputeCost(0, DeltaTokens)]
    /\ UNCHANGED <<model, past, spent, stopFlag, asked>>

(* The first round has to call the tool. *)
Generated == meter.round = 0 => meter.calls > 0

(* The chunk with the count, which is the last. *)
UsageChunk ==
    /\ Heard /\ ~meter.counted /\ Generated
    /\ meter' = [meter EXCEPT !.counted = TRUE, !.gotUsage = TRUE,
                  !.cost = @ + ComputeCost(PromptUsage, meter.text + meter.args)]
    /\ UNCHANGED <<model, past, spent, stopFlag, truth, asked>>

(* The loop over chunks is left: content and cost grow by the round's. *)
Summed(at) ==
    /\ meter' = [meter EXCEPT !.at = at, !.content = @ + meter.text,
                  !.cost = @ + (IF meter.gotUsage THEN 0 ELSE EstimateCost)]
    /\ truth' = [truth EXCEPT !.shown = @ + ComputeCost(meter.prompt, meter.text),
                              !.certain = @ /\ meter.counted]
    /\ UNCHANGED <<model, past, spent, stopFlag, asked>>

(* A chunk arrives after the stop, and is not read. *)
NoticeStop ==
    /\ meter.at = "stream" /\ stopFlag /\ ~meter.counted
    /\ Summed("finalize")

(* The stream is over, whether or not it has brought the count. *)
StreamOver ==
    /\ meter.at = "stream" /\ Generated
    /\ Summed(IF meter.calls = 0 THEN "finalize" ELSE "push")

(* The next round's messages: the assistant's, which lists the calls. *)
PushCalls ==
    /\ meter.at = "push"
    /\ meter' = [meter EXCEPT !.at = "tools", !.count = @ + 1,
                  !.prompt = @ + meter.text, !.listed = @ + meter.args]
    /\ UNCHANGED <<model, past, spent, stopFlag, truth, asked>>

(* And one with the rows for each call, unless it is of another tool. *)
AnswerCall ==
    /\ meter.at = "tools" /\ meter.calls > 0
    /\ \/ \E rows \in RowsTokens :
            meter' = [meter EXCEPT !.calls = @ - 1, !.count = @ + 1, !.prompt = @ + rows]
       \/ meter' = [meter EXCEPT !.calls = @ - 1]
    /\ UNCHANGED <<model, past, spent, stopFlag, truth, asked>>

NextRound ==
    /\ meter.at = "tools" /\ meter.calls = 0
    /\ meter' = [meter EXCEPT !.at = IF LastRound THEN "finalize" ELSE "open", !.round = @ + 1]
    /\ UNCHANGED <<model, past, spent, stopFlag, truth, asked>>

(* OpenAI or the query fails: a round that was under way goes uncounted. *)
Thrown ==
    /\ meter.at \in {"open", "stream", "tools"}
    /\ meter' = [meter EXCEPT !.at = "finalize", !.content = @ + ErrorTokens]
    /\ truth' = [truth EXCEPT !.certain = @ /\ meter.at # "stream"]
    /\ UNCHANGED <<model, past, spent, stopFlag, asked>>

(* _finalizeTurn, and recordCost. *)
FinalizeTurn ==
    /\ meter.at = "finalize"
    /\ past' = [count |-> past.count + 1, tokens |-> past.tokens + meter.content]
    /\ spent' = spent + Micros(meter.cost)
    /\ meter' = [meter EXCEPT !.at = "done", !.charged = Micros(meter.cost)]
    /\ stopFlag' = FALSE
    /\ UNCHANGED <<model, truth, asked>>

(* The client hangs up at an event: the turn is left as it is. *)
HangUp ==
    /\ meter.at \in {"stream", "tools"}
    /\ meter' = [meter EXCEPT !.at = "gone"]
    /\ UNCHANGED <<model, past, spent, stopFlag, truth, asked>>

MeterNext ==
    \/ Ask \/ RequestStop \/ StreamChatCompletion \/ Delta \/ ToolDelta \/ UsageChunk
    \/ NoticeStop \/ StreamOver \/ PushCalls \/ AnswerCall \/ NextRound
    \/ Thrown \/ FinalizeTurn \/ HangUp

MeterSpec == MeterInit /\ [][MeterNext]_meterVars

-----------------------------------------------------------------------------
(* A turn that is finalised is charged fairly, up to the rounding of one
   micro-dollar: for no more than OpenAI counts, however the turn ended; for
   no less than the messages it sent and the text it showed in each round it
   read to the end or to a stop, "rather than under-billing the partial
   response to $0" (chat.service.ts:172); and for just what OpenAI counts if
   every count arrived.                                                    *)
FairlyCharged ==
    meter.at = "done" =>
        /\ 100 * meter.charged - 50 <= truth.used
        /\ 100 * meter.charged + 50 >= truth.shown
        /\ truth.certain => 100 * meter.charged + 50 >= truth.used
=============================================================================
