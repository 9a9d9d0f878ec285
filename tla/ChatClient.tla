----------------------------- MODULE ChatClient -----------------------------
(***************************************************************************)
(* The chat page: what it shows while turns run, the user walks between    *)
(* conversations, stops and deletes, and messages are fetched again.       *)
(*                                                                         *)
(* A turn is one call of sendMessage and the POST /chat/stream behind it;  *)
(* turn n is the nth.  The server is reduced to what the page can observe  *)
(* of it: when the question is stored, when the reply is, and that it goes *)
(* on for a while after the page has hung up.  An effect of React runs in  *)
(* the step that changes what it depends on.                               *)
(***************************************************************************)
EXTENDS Integers, Sequences, SequencesExt

CONSTANTS
    Conversations,  \* conversation ids
    Old,            \* those that exist when the page opens
    None,           \* no conversation, no text
    Texts,          \* what a user may type
    MaxTurns,       \* bound: messages sent
    MaxEvents       \* bound: clicks on the sidebar and requests that fail

ASSUME ChatClientAssumption ==
    /\ Old \subseteq Conversations
    /\ None \notin Conversations \cup Texts
    /\ MaxTurns \in Nat /\ MaxEvents \in Nat

VARIABLES
    log,        \* server: the messages of each conversation, or None
    server,     \* server: conversation, text and phase of each turn
    selected,   \* the conversation of the URL, or None
    isStreaming,
    stream,     \* locals of the sendMessage in progress
    streamingConversationIdRef,
    streamingText,   \* some text has arrived
    bubble,     \* optimisticUserMessage: its text, or None
    cache,      \* query cache: messages of each conversation, or None
    fetch,      \* query cache: the request in flight for each conversation
    stops,      \* the stop requests sent: the turn, and the id they name
    deleting,   \* the deletion in progress, and selectedId when it began
    turns, events,   \* counters
    excused,    \* conversations whose list may lag behind (history)
    disturbed   \* something else has taken the bubble away (history)

page == <<selected, isStreaming, stream, streamingConversationIdRef,
          streamingText, bubble>>
queries == <<cache, fetch>>
history == <<excused, disturbed>>
counters == <<turns, events>>
vars == <<log, server, page, queries, stops, deleting, counters, history>>

-----------------------------------------------------------------------------
Ids == Conversations \cup {None}
Turns == 1 .. MaxTurns

Message == [role : {"user", "assistant"}, text : Texts, turn : Turns]
Messages == {<<>>} \cup UNION {[1 .. k -> Message] : k \in 1 .. 2 * MaxTurns}

(* active is activeConversationId, from the conversationId that sendMessage
   and adoptConversationId have closed over.                               *)
Stream == [turn : 0 .. MaxTurns, from : Ids, active : Ids, heard : BOOLEAN]

(* clears: the turns that wait for the request to clear the bubble. *)
NoFetch == [phase |-> "none", data |-> <<>>, clears |-> {}]

Init ==
    /\ log = [c \in Conversations |-> IF c \in Old THEN <<>> ELSE None]
    /\ server = [n \in Turns |->
           [conv |-> None, text |-> None, left |-> FALSE, phase |-> "none"]]
    /\ selected = None
    /\ isStreaming = FALSE
    /\ stream = [turn |-> 0, from |-> None, active |-> None, heard |-> FALSE]
    /\ streamingConversationIdRef = None
    /\ streamingText = FALSE
    /\ bubble = None
    /\ cache = [c \in Conversations |-> None]
    /\ fetch = [c \in Conversations |-> NoFetch]
    /\ stops = {}
    /\ deleting = [id |-> None, from |-> None]
    /\ turns = 0 /\ events = 0
    /\ excused = {}
    /\ disturbed = FALSE

Event == events < MaxEvents /\ events' = events + 1

Exists(c) == log[c] # None

(* The list on the screen: a query without data, or without an id, has none. *)
Listed(c, data) == IF c = None \/ data = None THEN <<>> ELSE data

(* The effect that drops the bubble once the list ends with its text. *)
Matches(b, messages) ==
    /\ b # None /\ messages # <<>>
    /\ Last(messages).role = "user" /\ Last(messages).text = b

Settle(b, messages) == IF Matches(b, messages) THEN None ELSE b

(* ... though it may be another question with the same text. *)
Mistaken(b, messages) == Matches(b, messages) /\ Last(messages).turn # turns

-----------------------------------------------------------------------------
(* The query of one conversation's messages *)

(* The request in flight has been answered, so it misses what comes now. *)
Past(c) == fetch[c].phase \in {"answered", "failed"}

(* useMessagesQuery mounts with an id: it fetches, or joins the request that
   is in flight.                                                           *)
Mount(c) ==
    /\ fetch' = IF fetch[c].phase = "none"
                THEN [fetch EXCEPT ![c].phase = "asked"] ELSE fetch
    /\ excused' = IF Past(c) THEN excused \cup {c} ELSE excused

(* invalidateQueries(messages(c)).then(clear the bubble), by turn n.  Only a
   query on the screen is fetched again; a request in flight is replaced,
   which resolves its promise, or, when it is the first, joined.           *)
Invalidate(c, n) ==
    IF c # selected
    THEN /\ bubble' = None
         /\ UNCHANGED <<fetch, disturbed>>
         /\ excused' = IF Past(c) THEN excused \cup {c} ELSE excused
    ELSE IF fetch[c].phase # "none" /\ cache[c] = None
    THEN /\ fetch' = [fetch EXCEPT ![c].clears = @ \cup {n}]
         /\ excused' = IF Past(c) THEN excused \cup {c} ELSE excused
         /\ UNCHANGED <<bubble, disturbed>>
    ELSE /\ fetch' = [fetch EXCEPT ![c] =
                [phase |-> "asked", data |-> <<>>, clears |-> {n}]]
         /\ bubble' = IF fetch[c].clears # {} THEN None ELSE bubble
         /\ disturbed' = (disturbed \/ fetch[c].clears # {})
         /\ UNCHANGED excused

Serve(c) ==
    /\ fetch[c].phase = "asked"
    /\ IF Exists(c)
       THEN /\ fetch' = [fetch EXCEPT ![c].phase = "answered", ![c].data = log[c]]
            /\ excused' = excused \ {c}
       ELSE /\ fetch' = [fetch EXCEPT ![c].phase = "failed"]
            /\ UNCHANGED excused
    /\ UNCHANGED <<log, server, page, cache, stops, deleting, counters, disturbed>>

Lose(c) ==
    /\ fetch[c].phase \in {"asked", "answered"}
    /\ Event
    /\ fetch' = [fetch EXCEPT ![c].phase = "failed"]
    /\ excused' = excused \cup {c}
    /\ UNCHANGED <<log, server, page, cache, stops, deleting, turns, disturbed>>

(* The answer: a failure leaves the data as it was. *)
Land(c) ==
    /\ fetch[c].phase \in {"answered", "failed"}
    /\ LET data  == IF fetch[c].phase = "answered" THEN fetch[c].data ELSE cache[c]
           shown == IF c = selected THEN Listed(c, data) ELSE <<>>
       IN  /\ cache' = [cache EXCEPT ![c] = data]
           /\ bubble' = IF fetch[c].clears # {} THEN None ELSE Settle(bubble, shown)
           /\ disturbed' = (\/ disturbed
                            \/ fetch[c].clears \ {turns} # {}
                            \/ Mistaken(bubble, shown))
    /\ fetch' = [fetch EXCEPT ![c] = NoFetch]
    /\ UNCHANGED <<log, server, selected, isStreaming, stream, stops, deleting,
                   streamingConversationIdRef, streamingText, counters, excused>>

-----------------------------------------------------------------------------
(* sendMessage *)

Send(x) ==
    /\ ~isStreaming
    /\ turns < MaxTurns
    /\ turns' = turns + 1
    /\ isStreaming' = TRUE
    /\ streamingText' = FALSE
    /\ streamingConversationIdRef' = selected
    /\ stream' = [turn |-> turns + 1, from |-> selected, active |-> selected,
                  heard |-> FALSE]
    /\ LET shown == Listed(selected, IF selected = None THEN None ELSE cache[selected])
       IN  /\ bubble' = Settle(x, shown)
           /\ disturbed' = Matches(x, shown)
    /\ server' = [server EXCEPT ![turns + 1] =
           [conv |-> selected, text |-> x, left |-> FALSE, phase |-> "sent"]]
    /\ UNCHANGED <<log, selected, queries, stops, deleting, events, excused>>

(* Mutant: the ref keeps the conversation that sendMessage began with. *)
HearConversation_KeepRef ==
    LET c == server[stream.turn].conv IN
    /\ isStreaming /\ ~stream.heard
    /\ server[stream.turn].phase \in {"stored", "replied"}
    /\ stream' = [stream EXCEPT !.heard = TRUE, !.active = c]
    /\ UNCHANGED streamingConversationIdRef
    /\ IF stream.from = None /\ selected # c
       THEN selected' = c /\ Mount(c) ELSE UNCHANGED <<selected, fetch, excused>>
    /\ UNCHANGED <<log, server, isStreaming, streamingText, bubble, cache, stops,
                   deleting, counters, disturbed>>

(* event 'conversation'.  adoptConversationId looks at the selectedId of the
   render that sent the message, not at where the user is by now.          *)
HearConversation ==
    LET c == server[stream.turn].conv IN
    /\ isStreaming /\ ~stream.heard
    /\ server[stream.turn].phase \in {"stored", "replied"}
    /\ stream' = [stream EXCEPT !.heard = TRUE, !.active = c]
    /\ streamingConversationIdRef' = c
    /\ IF stream.from = None /\ selected # c
       THEN selected' = c /\ Mount(c) ELSE UNCHANGED <<selected, fetch, excused>>
    /\ LET shown == IF stream.from = None THEN Listed(c, cache[c]) ELSE <<>>
       IN  /\ bubble' = Settle(bubble, shown)
           /\ disturbed' = (disturbed \/ Mistaken(bubble, shown))
    /\ UNCHANGED <<log, server, isStreaming, streamingText, cache, stops, deleting,
                   counters>>

HearToken ==
    /\ isStreaming /\ stream.heard
    /\ ~streamingText
    /\ streamingText' = TRUE
    /\ UNCHANGED <<log, server, selected, isStreaming, stream, bubble, queries, stops,
                   streamingConversationIdRef, deleting, counters, history>>

(* Mutant: the bubble goes at once, before the list is back. *)
Finish_Flicker ==
    /\ isStreaming' = FALSE
    /\ streamingText' = FALSE
    /\ streamingConversationIdRef' = None
    /\ stream' = [stream EXCEPT !.heard = FALSE]
    /\ bubble' = None
    /\ fetch' = IF stream.active # None /\ stream.active = selected
                THEN [fetch EXCEPT ![selected] = [NoFetch EXCEPT !.phase = "asked"]]
                ELSE fetch
    /\ UNCHANGED <<selected, cache, history>>

(* Mutant: the list is not fetched again. *)
Finish_Trusts ==
    /\ isStreaming' = FALSE
    /\ streamingText' = FALSE
    /\ streamingConversationIdRef' = None
    /\ stream' = [stream EXCEPT !.heard = FALSE]
    /\ bubble' = bubble
    /\ UNCHANGED <<selected, cache, fetch, history>>

(* The finally block. *)
Finish ==
    /\ isStreaming' = FALSE
    /\ streamingText' = FALSE
    /\ streamingConversationIdRef' = None
    /\ stream' = [stream EXCEPT !.heard = FALSE]
    /\ IF stream.active # None
       THEN Invalidate(stream.active, stream.turn)
       ELSE /\ bubble' = None
            /\ excused' = excused \cup ({server[stream.turn].conv} \ {None})
            /\ UNCHANGED <<fetch, disturbed>>
    /\ UNCHANGED <<selected, cache>>

(* The response ends, or is an HTTP error and throws. *)
End ==
    /\ isStreaming
    /\ \/ server[stream.turn].phase = "replied" /\ stream.heard
       \/ server[stream.turn].phase = "refused"
    /\ Finish
    /\ UNCHANGED <<log, server, stops, deleting, counters>>

(* The connection breaks: the server does not hear of it at once. *)
Break ==
    /\ isStreaming
    /\ Event
    /\ server' = [server EXCEPT ![stream.turn].left = TRUE]
    /\ Finish
    /\ UNCHANGED <<log, stops, deleting, turns>>

(* Mutant: stop names the conversation on the screen. *)
Stop_Selected ==
    /\ isStreaming
    /\ stops' = stops \cup ({<<stream.turn, selected>>} \ (Turns \X {None}))
    /\ server' = [server EXCEPT ![stream.turn].left = TRUE]
    /\ Finish
    /\ UNCHANGED <<log, deleting, counters>>

(* The stop request and the abort, which throws in sendMessage. *)
Stop ==
    /\ isStreaming
    /\ stops' = stops \cup ({<<stream.turn, streamingConversationIdRef>>}
                               \ (Turns \X {None}))
    /\ server' = [server EXCEPT ![stream.turn].left = TRUE]
    /\ Finish
    /\ UNCHANGED <<log, deleting, counters>>

-----------------------------------------------------------------------------
(* The sidebar *)

Fresh(c) == c \notin Old /\ \A n \in Turns : server[n].conv # c

(* handleSelectConversation: navigate and resetTurn, also where the user is
   already.  The sidebar may still list a conversation that is gone.       *)
Select(c) ==
    /\ ~Fresh(c)
    /\ Event
    /\ selected' = c
    /\ IF c # selected THEN Mount(c) ELSE UNCHANGED <<fetch, excused>>
    /\ bubble' = None
    /\ disturbed' = TRUE
    /\ UNCHANGED <<log, server, isStreaming, stream, streamingConversationIdRef,
                   streamingText, cache, stops, deleting, turns>>

NewChat ==
    /\ Event
    /\ selected' = None
    /\ bubble' = None
    /\ disturbed' = TRUE
    /\ UNCHANGED <<log, server, isStreaming, stream, streamingConversationIdRef,
                   streamingText, queries, stops, deleting, turns, excused>>

(* Escape takes the dialog away while the deletion goes on, and the page can
   be used again; but it is confirmed again only when that is answered.  To
   delete what is gone is an error that changes nothing here.              *)
ConfirmDelete(c) ==
    /\ Exists(c)
    /\ deleting.id = None
    /\ Event
    /\ deleting' = [id |-> c, from |-> selected]
    /\ UNCHANGED <<log, server, page, queries, stops, turns, history>>

Delete ==
    /\ deleting.id # None /\ Exists(deleting.id)
    /\ log' = [log EXCEPT ![deleting.id] = None]
    /\ UNCHANGED <<server, page, queries, stops, deleting, counters, history>>

(* newChat here is the sidebar's own: the bubble stays.  selectedId is that
   of the render with the dialog, wherever the user is by now.  An answer that
   is lost is a failure, whatever the server did.                          *)
DeleteAnswered ==
    /\ deleting.id # None
    /\ \/ /\ ~Exists(deleting.id)
          /\ selected' = IF deleting.from = deleting.id THEN None ELSE selected
          /\ UNCHANGED events
       \/ Event /\ UNCHANGED selected
    /\ deleting' = [id |-> None, from |-> None]
    /\ UNCHANGED <<log, server, isStreaming, stream, streamingConversationIdRef,
                   streamingText, bubble, queries, stops, turns, history>>

-----------------------------------------------------------------------------
(* The server *)

(* The question is stored before the event 'conversation'. *)
Accept(n, c) ==
    /\ server[n].phase = "sent"
    /\ IF server[n].conv = None THEN Fresh(c) ELSE c = server[n].conv /\ Exists(c)
    /\ server' = [server EXCEPT ![n].conv = c, ![n].phase = "stored"]
    /\ log' = [log EXCEPT ![c] = Append(IF @ = None THEN <<>> ELSE @,
                  [role |-> "user", text |-> server[n].text, turn |-> n])]
    /\ excused' = IF server[n].left THEN excused \cup {c} ELSE excused
    /\ UNCHANGED <<page, queries, stops, deleting, counters, disturbed>>

Refuse(n) ==
    /\ server[n].phase = "sent"
    /\ server' = [server EXCEPT ![n].phase = "refused"]
    /\ UNCHANGED <<log, page, queries, stops, deleting, counters, history>>

(* The reply is stored, unless the turn ends with event 'error' or the
   conversation is gone.                                                   *)
Reply(n) ==
    /\ server[n].phase = "stored"
    /\ server' = [server EXCEPT ![n].phase = "replied"]
    /\ \/ UNCHANGED <<log, excused>>
       \/ LET c == server[n].conv IN
          /\ Exists(c)
          /\ log' = [log EXCEPT ![c] = Append(@,
                        [role |-> "assistant", text |-> server[n].text, turn |-> n])]
          /\ excused' = IF server[n].left THEN excused \cup {c} ELSE excused
    /\ UNCHANGED <<page, queries, stops, deleting, counters, disturbed>>

-----------------------------------------------------------------------------
Next ==
    \/ \E x \in Texts : Send(x)
    \/ HearConversation \/ HearToken \/ End \/ Break \/ Stop
    \/ \E c \in Conversations : Select(c) \/ ConfirmDelete(c)
    \/ NewChat \/ Delete \/ DeleteAnswered
    \/ \E c \in Conversations : Serve(c) \/ Lose(c) \/ Land(c)
    \/ \E n \in Turns : Refuse(n) \/ Reply(n)
    \/ \E n \in Turns, c \in Conversations : Accept(n, c)

Spec == Init /\ [][Next]_vars

-----------------------------------------------------------------------------
isStreamingHere == isStreaming /\ streamingConversationIdRef = selected

(* "stops a background reply from rendering under whatever conversation is
   now selected" (use-chat.ts:28): streamed text is on the screen only under
   the conversation that the server is answering.                          *)
ShownUnderItsOwn ==
    isStreamingHere /\ streamingText => selected = server[stream.turn].conv

(* "Targets whichever conversation is actually generating, not the one
   currently selected" (use-chat.ts:58), wherever the user has gone since. *)
StopHitsItsTurn == \A s \in stops : s[2] = server[s[1]].conv

(* "Re-fetch rather than trust local streamed state" (use-chat.ts:158): at
   rest, the list on the screen is what is stored.  Excused are a list that
   failed to load, a turn that the page has left before its id was known or
   before the server had finished, and a refetch that joined a request
   answered before it.                                                     *)
SettledView ==
    selected # None /\ ~isStreaming =>
        \/ fetch[selected].phase # "none"
        \/ ~Exists(selected)
        \/ selected \in excused
        \/ cache[selected] = log[selected]

(* "shown until the post-turn invalidation clears it, so it never flickers"
   (use-chat.ts:20): once the question is stored, either the bubble or the
   list shows it.  Disturbed is a bubble that fell to something else: a click
   on the sidebar, even on the conversation on the screen; an earlier turn's
   invalidation; an earlier question of the same text.  Then the question may
   be out of sight, but no longer than until the turn has ended and the list
   is back.                                                                *)
QuestionStays ==
    LET now == server[turns] IN
    turns > 0 /\ now.phase \in {"stored", "replied"} /\ ~now.left
    /\ selected = now.conv /\ Exists(selected) =>
        \/ bubble = now.text
        \/ selected \in excused
        \/ disturbed /\ (isStreaming \/ fetch[selected].phase # "none")
        \/ \E i \in DOMAIN Listed(selected, cache[selected]) :
              LET m == cache[selected][i] IN m.role = "user" /\ m.turn = turns
=============================================================================
