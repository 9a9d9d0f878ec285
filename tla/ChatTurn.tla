------------------------------ MODULE ChatTurn ------------------------------
(***************************************************************************)
(* POST /chat/stream, from the budget check to the last SSE event, for the *)
(* requests one account has in flight.                                     *)
(*                                                                         *)
(* ChatV1Controller.stream awaits ChatService.prepareTurn and then drives  *)
(* the generator ChatService.streamAssistantReply.  A turn is one such     *)
(* request; its program counter names the statement it is suspended at,    *)
(* and each action runs from one await, or one yield the controller may    *)
(* not resume, to the next.  Turns share Postgres (conversations and       *)
(* messages) and Redis (the account's spend and one stop flag per          *)
(* conversation); nothing else serialises them.                            *)
(*                                                                         *)
(* One Redis connection serves the process, so a command takes effect in   *)
(* the order it was issued; its reply arrives later.                       *)
(***************************************************************************)
EXTENDS Integers, Sequences, FiniteSets

CONSTANTS
    Turns,          \* slots for requests in flight
    Conversations,  \* conversation ids
    NoConversation, \* a slot that serves no request
    Limit,          \* usage.limitUsd in units of cost
    RoundCost,      \* the most one OpenAI call can cost, rounded
    RoundCosts,     \* what one OpenAI call can cost, rounded: 0 for the cheapest
    MaxTokens,      \* bound: content chunks per OpenAI call
    MaxCalls,       \* bound: tool calls per OpenAI call
    MaxQuestions,   \* bound: requests in a behaviour
    MaxEvents,      \* bound: events of Env in a behaviour
    Env             \* what the environment may do, see EnvEvents

(***************************************************************************)
(* "stop"       the stop endpoint is called                                *)
(* "disconnect" the client's socket closes before the response ends        *)
(* "refused"    OpenAI rejects a call                                      *)
(* "broken"     OpenAI's stream fails part way, or the arguments it gives  *)
(*              a tool make no query                                       *)
(* "redis"      a Redis command fails                                      *)
(* "db"         a Postgres statement fails                                 *)
(* "crash"      the API process dies and restarts                          *)
(* "delete"     the conversation is deleted                                *)
(* "overlap"    two requests for one conversation at once                  *)
(***************************************************************************)
EnvEvents == {"stop", "disconnect", "refused", "broken", "redis", "db",
              "crash", "delete", "overlap"}

ASSUME ChatAssumption ==
    /\ IsFiniteSet(Turns)
    /\ NoConversation \notin Conversations
    /\ Limit \in Nat \ {0}
    /\ RoundCost \in Nat \ {0}
    /\ RoundCosts \subseteq 0 .. RoundCost
    /\ MaxTokens \in Nat
    /\ MaxCalls \in Nat
    /\ MaxQuestions \in Nat
    /\ MaxEvents \in Nat
    /\ Env \subseteq EnvEvents

MAX_TOOL_CALL_ROUNDS == 2

VARIABLES
    pc,         \* where each turn is suspended
    turn,       \* the request and the generator's locals
    convs,      \* Postgres: conversations
    log,        \* Postgres: messages of each conversation, oldest first
    flag,       \* Redis: chat:stop:<conversation>
    spend,      \* Redis: usage:<user>, 0 when the key is absent
    ttl,        \* Redis: the usage key has an expiry
    missed,     \* turns whose stop was taken down before they saw it (history)
    questions,  \* requests received so far (history)
    events      \* events of Env so far (history)

vars == <<pc, turn, convs, log, flag, spend, ttl, missed, questions, events>>

-----------------------------------------------------------------------------
(* Program counters: up to the user's message being stored a failure is an
   HTTP error, afterwards it is an 'error' event.                          *)
Preparing  == {"budget", "resolve", "ask"}
Streaming  == {"open", "stream", "token", "tools", "query"}
Finalizing == {"save", "record", "expire", "clear"}
Labels     == {"idle"} \cup Preparing \cup Streaming \cup Finalizing \cup {"done"}

(* The variables of stream() and streamAssistantReply().  asked, over and
   charges are history, which no guard reads: a stop was meant for this turn,
   the tokens it sent since then, and how often it was charged.            *)
TurnState ==
    [conv      : Conversations \cup {NoConversation},
     question  : Nat,
     open      : BOOLEAN,
     round     : 1 .. MAX_TOOL_CALL_ROUNDS,
     roundContent : Nat,
     gotUsage  : BOOLEAN,
     calls     : Nat,
     stopped   : BOOLEAN,
     cost      : Nat,
     failed    : BOOLEAN,
     asked     : BOOLEAN,
     over      : Nat,
     charges   : Nat]

NewTurn(c, q) ==
    [conv |-> c, question |-> q, open |-> TRUE, round |-> 1,
     roundContent |-> 0, gotUsage |-> FALSE, calls |-> 0, stopped |-> FALSE,
     cost |-> 0, failed |-> FALSE, asked |-> FALSE, over |-> 0, charges |-> 0]

NoTurn == NewTurn(NoConversation, 0)

(* A message row.  error: the catch block wrote it, and put an error note
   behind the content, or in place of an empty one.                        *)
Message(role, t) ==
    [role |-> role, question |-> turn[t].question, cost |-> turn[t].cost,
     error |-> turn[t].failed]

MessageRow ==
    [role : {"user", "assistant"}, question : Nat, cost : Nat, error : BOOLEAN]

Live(t)        == pc[t] # "idle"
LiveIn(c)      == {t \in Turns : Live(t) /\ turn[t].conv = c}
Listening(t)   == pc[t] \in Streaming \cup Finalizing \cup {"done"}

Init ==
    /\ pc = [t \in Turns |-> "idle"]
    /\ turn = [t \in Turns |-> NoTurn]
    /\ convs = [c \in Conversations |-> "absent"]
    /\ log = [c \in Conversations |-> <<>>]
    /\ flag = [c \in Conversations |-> FALSE]
    /\ spend = 0
    /\ ttl = FALSE
    /\ missed = {}
    /\ questions = 0
    /\ events = 0

(* Steps of turn t: go on at label l with new locals; or leave the handler. *)
Go(t, l, locals) ==
    /\ pc' = [pc EXCEPT ![t] = l]
    /\ turn' = [turn EXCEPT ![t] = locals]

Leave(t) == Go(t, "idle", NoTurn)

(* Mutants of Throw: no catch block; the catch block ends in an event though
   it failed itself; the catch block guards itself, too.                   *)
Throw_Uncaught(t) == Leave(t)

Throw_Swallowed(t) ==
    IF pc[t] \in Preparing THEN Leave(t)
    ELSE Go(t, IF turn[t].failed THEN "done" ELSE "save",
            [turn[t] EXCEPT !.failed = TRUE, !.gotUsage = FALSE, !.calls = 0])

Throw_Retried(t) ==
    IF pc[t] \in Preparing THEN Leave(t)
    ELSE Go(t, "save", [turn[t] EXCEPT !.failed = TRUE, !.gotUsage = FALSE,
                                       !.calls = 0])

(* A throw: before the stream an HTTP error; in the try block the catch
   block, which finalises the turn (again); in the catch block the end.    *)
Throw(t) ==
    IF pc[t] \in Preparing \/ turn[t].failed
    THEN Leave(t)
    ELSE Go(t, "save", [turn[t] EXCEPT !.failed = TRUE, !.gotUsage = FALSE,
                                       !.calls = 0])

(* A yield: the controller breaks off on a dead socket, which returns the
   generator at the yield, past both _finalizeTurn calls.                  *)
YieldThen(t, l, locals) ==
    IF turn[t].open THEN Go(t, l, locals) ELSE Leave(t)

stops     == <<flag, missed>>
redisRest == <<stops, spend, ttl>>
dbRest    == <<convs, log>>
counters  == <<questions, events>>

(* One more event of the environment. *)
Happens(kind) ==
    /\ kind \in Env
    /\ events < MaxEvents
    /\ events' = events + 1

-----------------------------------------------------------------------------
(* prepareTurn *)

(* A request for an existing conversation, or, with an id nobody uses yet,
   for a new one.                                                          *)
Request(t, c) ==
    /\ pc[t] = "idle"
    /\ questions < MaxQuestions
    /\ convs[c] = "absent" \/ "overlap" \notin Env => LiveIn(c) = {}
    /\ Go(t, "budget", NewTurn(c, questions + 1))
    /\ questions' = questions + 1
    /\ missed' = missed \ {t}
    /\ UNCHANGED <<dbRest, flag, spend, ttl, events>>

CheckBudget(t) ==
    /\ pc[t] = "budget"
    /\ IF spend < Limit THEN Go(t, "resolve", turn[t]) ELSE Leave(t)
    /\ UNCHANGED <<dbRest, redisRest, counters>>

(* The conversation is created, found, or gone (404). *)
ResolveConversation(t) ==
    LET c == turn[t].conv IN
    /\ pc[t] = "resolve"
    /\ IF convs[c] = "deleted" THEN Leave(t) ELSE Go(t, "ask", turn[t])
    /\ convs' = IF convs[c] = "absent" THEN [convs EXCEPT ![c] = "live"] ELSE convs
    /\ UNCHANGED <<log, redisRest, counters>>

(* The INSERT fails on the foreign key when the conversation is gone. From
   here on the controller listens for the socket to close.                 *)
SaveQuestion(t) ==
    LET c == turn[t].conv IN
    /\ pc[t] = "ask"
    /\ IF convs[c] = "live"
       THEN /\ Go(t, "open", turn[t])
            /\ log' = [log EXCEPT ![c] = Append(@, Message("user", t))]
       ELSE Leave(t) /\ UNCHANGED log
    /\ UNCHANGED <<convs, redisRest, counters>>

-----------------------------------------------------------------------------
(* streamAssistantReply: the rounds *)

(* A mutant of OpenStream: it starts by clearing what it takes for a leftover. *)
OpenStream_Clears(t) ==
    /\ pc[t] = "open"
    /\ flag' = [flag EXCEPT ![turn[t].conv] = FALSE]
    /\ Go(t, "stream", turn[t])
    /\ UNCHANGED <<dbRest, missed, spend, ttl, counters>>

(* The history is read (before the first round) and OpenAI is called. *)
OpenStream(t) ==
    /\ pc[t] = "open"
    /\ Go(t, "stream", turn[t])
    /\ UNCHANGED <<dbRest, redisRest, counters>>

(* EXISTS *)
StopRequested(c) == flag[c]

(* A chunk arrives and the stop flag reads as down.  Its content is sent in
   a step of its own: the flag may go up, or the socket close, before.  The
   usage comes last; a last round is offered no tools.                     *)
ReceiveChunk(t) ==
    LET g == turn[t] IN
    /\ pc[t] = "stream"
    /\ ~StopRequested(g.conv)
    /\ ~g.gotUsage
    /\ \/ /\ g.roundContent < MaxTokens
          /\ Go(t, "token", g)
       \/ /\ g.calls < MaxCalls /\ g.round < MAX_TOOL_CALL_ROUNDS
          /\ Go(t, "stream", [g EXCEPT !.calls = @ + 1])
       \/ \E cost \in RoundCosts :
             Go(t, "stream", [g EXCEPT !.gotUsage = TRUE, !.cost = @ + cost])
    /\ UNCHANGED <<dbRest, redisRest, counters>>

(* The end of a round: its content joins the reply's, and without a usage
   chunk the cost is estimated.                                            *)
RoundEnds(t, l, stopped) ==
    \E estimate \in RoundCosts :
        Go(t, l, [turn[t] EXCEPT !.roundContent = 0,
                                 !.gotUsage = FALSE,
                                 !.calls = IF stopped THEN 0 ELSE @,
                                 !.stopped = stopped,
                                 !.cost = IF turn[t].gotUsage THEN @ ELSE @ + estimate])

(* A chunk arrives and the stop flag reads as up: abort OpenAI's stream. *)
ObserveStop(t) ==
    /\ pc[t] = "stream"
    /\ StopRequested(turn[t].conv)
    /\ ~turn[t].gotUsage
    /\ RoundEnds(t, "save", TRUE)
    /\ UNCHANGED <<dbRest, redisRest, counters>>

(* The stream ends: with tool calls to run, or with the answer. *)
StreamEnds(t) ==
    /\ pc[t] = "stream"
    /\ RoundEnds(t, IF turn[t].calls = 0 THEN "save" ELSE "tools", FALSE)
    /\ UNCHANGED <<dbRest, redisRest, counters>>

SendToken(t) ==
    /\ pc[t] = "token"
    /\ YieldThen(t, "stream",
                 [turn[t] EXCEPT !.roundContent = @ + 1,
                                 !.over = IF turn[t].asked THEN @ + 1 ELSE @])
    /\ UNCHANGED <<dbRest, redisRest, counters>>

(* One tool call dealt with: the next one, the next round, or no round left. *)
CallDone(t) ==
    LET g == [turn[t] EXCEPT !.calls = @ - 1] IN
    CASE g.calls > 0 -> [at |-> "tools", locals |-> g]
      [] g.calls = 0 /\ g.round < MAX_TOOL_CALL_ROUNDS ->
           [at |-> "open", locals |-> [g EXCEPT !.round = @ + 1]]
      [] OTHER -> [at |-> "save", locals |-> g]

(* The query is announced to the client. *)
AnnounceQuery(t) ==
    /\ pc[t] = "tools"
    /\ YieldThen(t, "query", turn[t])
    /\ UNCHANGED <<dbRest, redisRest, counters>>

(* The model made up a tool's name. *)
SkipCall(t) ==
    /\ pc[t] = "tools"
    /\ Go(t, CallDone(t).at, CallDone(t).locals)
    /\ UNCHANGED <<dbRest, redisRest, counters>>

(* The query has run; its rows go to the client. *)
SendRows(t) ==
    /\ pc[t] = "query"
    /\ YieldThen(t, CallDone(t).at, CallDone(t).locals)
    /\ UNCHANGED <<dbRest, redisRest, counters>>

-----------------------------------------------------------------------------
(* _finalizeTurn, reached from the try block and from the catch block *)

(* A mutant of SaveReply: a stopped turn is free. *)
SaveReply_StoppedIsFree(t) ==
    LET c == turn[t].conv IN
    /\ pc[t] = "save"
    /\ IF convs[c] = "live"
       THEN /\ Go(t, IF turn[t].cost > 0 /\ ~turn[t].stopped THEN "record" ELSE "clear",
                  turn[t])
            /\ log' = [log EXCEPT ![c] = Append(@, Message("assistant", t))]
       ELSE Throw(t) /\ UNCHANGED log
    /\ UNCHANGED <<convs, redisRest, counters>>

(* INSERT the reply; it fails on the foreign key of a deleted conversation.
   A cost that rounds to no micros is not recorded: recordCost returns at
   once, as if _finalizeTurn had not called it.                            *)
SaveReply(t) ==
    LET c == turn[t].conv IN
    /\ pc[t] = "save"
    /\ IF convs[c] = "live"
       THEN /\ Go(t, IF turn[t].cost > 0 THEN "record" ELSE "clear", turn[t])
            /\ log' = [log EXCEPT ![c] = Append(@, Message("assistant", t))]
       ELSE Throw(t) /\ UNCHANGED log
    /\ UNCHANGED <<convs, redisRest, counters>>

IncrBy(t) == spend' = spend + turn[t].cost

(* A mutant of RecordCost: it compares with the value before the increment. *)
RecordCost_NoExpiry(t) ==
    /\ pc[t] = "record"
    /\ IncrBy(t)
    /\ Go(t, IF spend = turn[t].cost THEN "expire" ELSE "clear",
          [turn[t] EXCEPT !.charges = @ + 1])
    /\ UNCHANGED <<dbRest, stops, ttl, counters>>

(* INCRBY; only the increment that created the key goes on to EXPIRE. *)
RecordCost(t) ==
    /\ pc[t] = "record"
    /\ IncrBy(t)
    /\ Go(t, IF spend' = turn[t].cost THEN "expire" ELSE "clear",
          [turn[t] EXCEPT !.charges = @ + 1])
    /\ UNCHANGED <<dbRest, stops, ttl, counters>>

SetExpiry(t) ==
    /\ pc[t] = "expire"
    /\ ttl' = (spend > 0)
    /\ Go(t, "clear", turn[t])
    /\ UNCHANGED <<dbRest, stops, spend, counters>>

(* The flag of conversation c goes down; of the turns in losers, those it
   was meant for lose their stop.                                          *)
DropFlag(c, losers) ==
    /\ flag' = [flag EXCEPT ![c] = FALSE]
    /\ missed' = missed \cup {t \in losers : flag[c] /\ turn[t].asked}

(* DEL: one flag serves the conversation, whichever turn it was meant for. *)
ClearStop(t) ==
    /\ pc[t] = "clear"
    /\ DropFlag(turn[t].conv, LiveIn(turn[t].conv) \ {t})
    /\ Go(t, "done", turn[t])
    /\ UNCHANGED <<dbRest, spend, ttl, counters>>

(* The 'done' or 'error' event, then the controller's finally block. *)
SendLastEvent(t) ==
    /\ pc[t] = "done"
    /\ Leave(t)
    /\ UNCHANGED <<dbRest, redisRest, counters>>

-----------------------------------------------------------------------------
(* Failures *)

FailureAt ==
    [redis   |-> {"budget", "stream", "record", "expire", "clear"},
     db      |-> {"resolve", "ask", "open", "query", "save"},
     refused |-> {"open"},
     broken  |-> {"stream", "tools"}]

(* The awaited call rejects, and had no effect. *)
Fail(t) ==
    /\ \E kind \in DOMAIN FailureAt : pc[t] \in FailureAt[kind] /\ Happens(kind)
    /\ Throw(t)
    /\ UNCHANGED <<dbRest, redisRest, questions>>

(* The reply is stored, but the call rejects: the answer was lost. *)
SaveReplyUnheard(t) ==
    LET c == turn[t].conv IN
    /\ Happens("db")
    /\ pc[t] = "save"
    /\ convs[c] = "live"
    /\ log' = [log EXCEPT ![c] = Append(@, Message("assistant", t))]
    /\ Throw(t)
    /\ UNCHANGED <<convs, redisRest, questions>>

(* Likewise for INCRBY: charged, then treated as a failure. *)
RecordCostUnheard(t) ==
    /\ Happens("redis")
    /\ pc[t] = "record"
    /\ IncrBy(t)
    /\ IF turn[t].failed
       THEN Leave(t)
       ELSE Go(t, "save", [turn[t] EXCEPT !.failed = TRUE, !.charges = @ + 1])
    /\ UNCHANGED <<dbRest, stops, ttl, questions>>

(* Every turn in flight is gone; Postgres and Redis stay. *)
Crash ==
    /\ Happens("crash")
    /\ \E t \in Turns : Live(t)
    /\ pc' = [t \in Turns |-> "idle"]
    /\ turn' = [t \in Turns |-> NoTurn]
    /\ UNCHANGED <<dbRest, redisRest, questions>>

-----------------------------------------------------------------------------
(* Clients and time *)

(* SET the flag.  The stop is meant for the turns in hit; the sockets of
   the turns in closed are gone.  A stop that comes after a missed one
   counts afresh.                                                          *)
RaiseFlag(c, hit, closed) ==
    /\ flag' = [flag EXCEPT ![c] = TRUE]
    /\ turn' = [t \in Turns |->
                  [turn[t] EXCEPT !.asked = @ \/ t \in hit,
                                  !.over = IF t \in hit \cap missed THEN 0 ELSE @,
                                  !.open = @ /\ t \notin closed]]
    /\ missed' = missed \ hit

(* POST /chat/stop/:conversationId *)
StopChat(c) ==
    /\ Happens("stop")
    /\ convs[c] = "live"
    /\ RaiseFlag(c, LiveIn(c), {})
    /\ UNCHANGED <<pc, dbRest, spend, ttl, questions>>

(* The socket closes.  Once the controller listens this counts as a stop;
   a failing SET is swallowed.                                             *)
Disconnect(t) ==
    /\ Happens("disconnect")
    /\ Live(t) /\ turn[t].open
    /\ \/ /\ Listening(t)
          /\ RaiseFlag(turn[t].conv, {t}, {t})
       \/ /\ ~Listening(t) \/ "redis" \in Env
          /\ turn' = [turn EXCEPT ![t].open = FALSE]
          /\ UNCHANGED stops
    /\ UNCHANGED <<pc, dbRest, spend, ttl, questions>>

(* DELETE /conversations/:id takes its messages along. *)
DeleteConversation(c) ==
    /\ Happens("delete")
    /\ convs[c] = "live"
    /\ convs' = [convs EXCEPT ![c] = "deleted"]
    /\ log' = [log EXCEPT ![c] = <<>>]
    /\ UNCHANGED <<pc, turn, redisRest, questions>>

(* The flag's TTL runs out, whoever still needs it. *)
FlagExpires(c) ==
    /\ flag[c]
    /\ DropFlag(c, LiveIn(c))
    /\ UNCHANGED <<pc, turn, dbRest, spend, ttl, counters>>

(* The spending window closes. *)
UsageExpires ==
    /\ ttl
    /\ spend' = 0
    /\ ttl' = FALSE
    /\ UNCHANGED <<pc, turn, dbRest, stops, counters>>

-----------------------------------------------------------------------------
Prepare(t)  == CheckBudget(t) \/ ResolveConversation(t) \/ SaveQuestion(t)
Stream(t)   == \/ OpenStream(t) \/ ReceiveChunk(t) \/ SendToken(t)
               \/ ObserveStop(t) \/ StreamEnds(t)
               \/ AnnounceQuery(t) \/ SkipCall(t) \/ SendRows(t)
Finalize(t) == SaveReply(t) \/ RecordCost(t) \/ SetExpiry(t) \/ ClearStop(t)
               \/ SendLastEvent(t)
Failure(t)  == Fail(t) \/ SaveReplyUnheard(t) \/ RecordCostUnheard(t)

Serve(t) == Prepare(t) \/ Stream(t) \/ Finalize(t)

Next ==
    \/ \E t \in Turns, c \in Conversations : Request(t, c)
    \/ \E t \in Turns : Serve(t) \/ Failure(t) \/ Disconnect(t)
    \/ \E c \in Conversations : StopChat(c) \/ DeleteConversation(c) \/ FlagExpires(c)
    \/ UsageExpires
    \/ Crash

Spec == Init /\ [][Next]_vars

(* Handlers run to their end: the event loop resumes whatever an answered
   await has made runnable, every driver and the OpenAI SDK answer or give
   up, and OpenAI's streams are finite.  Redis deletes expired keys.        *)
Fairness ==
    /\ \A t \in Turns : WF_vars(Serve(t))
    /\ WF_vars(UsageExpires)

FairSpec == Spec /\ Fairness

-----------------------------------------------------------------------------
TypeOK ==
    /\ pc \in [Turns -> Labels]
    /\ turn \in [Turns -> TurnState]
    /\ convs \in [Conversations -> {"absent", "live", "deleted"}]
    /\ log \in [Conversations -> Seq(MessageRow)]
    /\ flag \in [Conversations -> BOOLEAN]
    /\ spend \in Nat
    /\ ttl \in BOOLEAN
    /\ missed \subseteq Turns
    /\ questions \in Nat
    /\ events \in Nat

Replies(c, q) ==
    {i \in DOMAIN log[c] : log[c][i].role = "assistant" /\ log[c][i].question = q}

(* No conversation is left with a question that no turn is working on and
   no reply answers: whatever OpenAI does, the try block or the catch block
   of streamAssistantReply stores a reply.                                  *)
NoDanglingQuestion ==
    \A c \in Conversations : \A i \in DOMAIN log[c] :
        \/ \E t \in Turns : Live(t) /\ turn[t].question = log[c][i].question
        \/ Replies(c, log[c][i].question) # {}

(* A question is answered once, with one exception: where a store may fail
   the catch block repeats a _finalizeTurn that had come past its INSERT.
   Then, and only then, there are two replies, never more: the one of the
   try block first, the one with the error note last, both with the turn's
   cost.  The account is never charged more often than replies are stored.  *)
OneReply ==
    /\ \A c \in Conversations : \A i, j \in DOMAIN log[c] :
           /\ i < j
           /\ log[c][i].question = log[c][j].question
           /\ log[c][i].role = "assistant"
           => /\ Env \cap {"redis", "db"} # {}
              /\ log[c][j].role = "assistant"
              /\ ~log[c][i].error /\ log[c][j].error
              /\ log[c][i].cost = log[c][j].cost
    /\ \A t \in Turns : Live(t) /\ convs[turn[t].conv] = "live" =>
           turn[t].charges <= Cardinality(Replies(turn[t].conv, turn[t].question))

(* When a turn has finished, Postgres and Redis agree on what it cost: the
   account was charged once, the amount stored with the reply.              *)
BooksBalance ==
    \A t \in Turns : pc[t] = "done" =>
        /\ turn[t].charges = (IF turn[t].cost > 0 THEN 1 ELSE 0)
        /\ \A i \in Replies(turn[t].conv, turn[t].question) :
               log[turn[t].conv][i].cost = turn[t].cost

(* A spend without an expiry would lock the account out for good.  The turn
   whose INCRBY created the key is still there to set it.                   *)
WindowArmed ==
    spend > 0 /\ ~ttl => \E t \in Turns : pc[t] = "expire"

(* After a stop that was meant for it, a turn sends at most the chunk that
   had already passed its check, through all its rounds and whatever fails
   meanwhile.  The one way to miss a stop is that the flag, which all turns
   of a conversation share, is taken down too early: by another turn of the
   conversation that ends, or by its TTL.                                   *)
StopBoundsOutput ==
    \A t \in Turns : t \notin missed => turn[t].over <= 1

(* The client hears 'done' or 'error' only when its question has a reply in
   the conversation, if that still exists, and the cost is recorded.        *)
SettledBeforeLastEvent ==
    \A t \in Turns : pc[t] = "done" =>
        /\ convs[turn[t].conv] = "live" => Replies(turn[t].conv, turn[t].question) # {}
        /\ turn[t].cost > 0 => turn[t].charges > 0

(* A stored reply holds all the text its client was shown. *)
ShownIsKept ==
    \A t \in Turns : pc[t] = "save" => turn[t].roundContent = 0

(* Only a turn somebody meant to stop is ever stopped. *)
NoPhantomStop ==
    \A t \in Turns : turn[t].stopped => turn[t].asked

(* Every request is answered, or its handler has given up. *)
TurnEnds == \A t \in Turns : Live(t) ~> ~Live(t)

(* An account that is over its limit gets a new budget. *)
BudgetReturns == spend >= Limit ~> spend < Limit

-----------------------------------------------------------------------------
(* The spending limit holds as SpendPolicy says: an admitted turn is charged
   at most MaxCharges times, a second time only when a Redis command fails
   after INCRBY, and each time for no more than its rounds can cost.        *)
MaxTurnCost == MAX_TOOL_CALL_ROUNDS * RoundCost
MaxCharges  == IF "redis" \in Env THEN 2 ELSE 1

Tickets ==
    {ticket \in Turns \X (1 .. MaxCharges) :
        /\ pc[ticket[1]] \notin {"idle", "budget"}
        /\ turn[ticket[1]].charges < ticket[2]}

Policy == INSTANCE SpendPolicy WITH tickets <- Tickets, MaxCost <- MaxTurnCost

PolicySpec == Policy!Spec
=============================================================================
