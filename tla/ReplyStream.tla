----------------------------- MODULE ReplyStream -----------------------------
(***************************************************************************)
(* The wire between a turn and the page: the events of a reply, framed for *)
(* server-sent events, cut into chunks wherever the network likes, decoded *)
(* and parsed by hand, and put together to the reply on the screen.        *)
(*                                                                         *)
(* A byte is a name: those of the ASCII text that frames an event are      *)
(* taken together, a character of two bytes is "hi" then "lo".  Of what    *)
(* JSON.stringify does, what it does to a newline matters.                 *)
(***************************************************************************)
EXTENDS Integers, Sequences, SequencesExt, FiniteSetsExt

CONSTANTS
    Characters, \* what texts are made of: "wide", "newline" and others
    Payloads,   \* what an event may carry
    MaxSent     \* bound: events of a turn, after the first and before the last

(* What names no character: bytes, and what stands around a text. *)
Framing == {"event:", "data:", "nl", "quote", "esc", "hi", "lo", "bad"}

ASSUME ReplyStreamAssumption ==
    /\ Characters \cap Framing = {}
    /\ Payloads \subseteq Seq(Characters)
    /\ MaxSent \in Nat

VARIABLES
    sent,       \* server: the events written, in order
    reply,      \* server: content, allToolCalls, and whether the catch block
                \* puts an error note behind them, as they will be stored
    roundContent, \* server: the text of the round that has not ended
    asked,      \* server: a query is announced whose rows are not there yet
    wire,       \* bytes on their way
    socket,     \* open, ended by the server, destroyed by the client, and
                \* then left by the server
    carry,      \* client: what TextDecoder keeps of the last chunk
    buffer,     \* client: decoded text that is not yet a whole event
    heard,      \* client: the events given to onEvent, in order
    view        \* client: streamingText, streamingToolCalls, pendingToolSql

streamVars == <<sent, reply, roundContent, asked, wire, socket, carry, buffer, heard,
                view>>

-----------------------------------------------------------------------------
Byte(c) ==
    CASE c = "wide" -> <<"hi", "lo">> [] c = "newline" -> <<"esc">> [] OTHER -> <<c>>

Stringify(text) ==
    <<"quote">> \o FlattenSeq([i \in DOMAIN text |-> Byte(text[i])]) \o <<"quote">>

(* What writeSseEvent writes. *)
Frame(e) ==
    <<"event:", e.event, "nl", "data:">> \o Stringify(e.data) \o <<"nl", "nl">>

SseEvent(name, data) == [event |-> name, data |-> data]

(* What the generator yields is written, unless the socket is gone: then the
   loop is left.                                                           *)
WriteSseEvent(e) ==
    IF socket = "destroyed"
    THEN /\ socket' = "left"
         /\ UNCHANGED <<sent, wire>>
    ELSE /\ sent' = Append(sent, e)
         /\ wire' = wire \o Frame(e)
         /\ UNCHANGED socket

-----------------------------------------------------------------------------
(* TextDecoder, with stream: true: half of a character waits for the other. *)
Halved(bytes) == bytes # <<>> /\ Last(bytes) = "hi"

Whole(bytes, i) ==
    i < Len(bytes) /\ bytes[i] = "hi" /\ bytes[i + 1] = "lo"

CharAt(bytes, i) ==
    IF Whole(bytes, i) THEN "wide"
    ELSE IF bytes[i] \in {"hi", "lo"} THEN "bad" ELSE bytes[i]

Decode(bytes) ==
    FlattenSeq([i \in DOMAIN bytes |->
        IF i > 1 /\ Whole(bytes, i - 1) THEN <<>> ELSE <<CharAt(bytes, i)>>])

(* Mutant: each chunk is decoded on its own. *)
NextCarry_None(bytes) == <<>>
NextCarry(bytes) == IF Halved(bytes) THEN <<"hi">> ELSE <<>>

Decoded(bytes) == Decode(IF NextCarry(bytes) # <<>> THEN Front(bytes) ELSE bytes)

Boundaries == {i \in 1 .. Len(buffer) - 1 : buffer[i] = "nl" /\ buffer[i + 1] = "nl"}

(* The rest of the line that starts with key, none when there is no such. *)
Line(raw, key) ==
    LET at == {i \in DOMAIN raw : raw[i] = key}
        ends == {i \in DOMAIN raw : raw[i] = "nl"} \cup {Len(raw) + 1}
    IN  IF at = {} THEN <<>>
        ELSE SubSeq(raw, Max(at) + 1, Min({i \in ends : i > Max(at)}) - 1)

IsJson(data) == Len(data) > 1 /\ data[1] = "quote" /\ Last(data) = "quote"

(* JSON.parse of a string. *)
Parse(data) ==
    [i \in 1 .. Len(data) - 2 |->
        IF data[i + 1] = "esc" THEN "newline" ELSE data[i + 1]]

(* parseSseEvent: one event, or none. *)
ParseSseEvent(raw) ==
    LET event == Line(raw, "event:")
        data == Line(raw, "data:")
    IN  IF event = <<>> \/ data = <<>> \/ ~IsJson(data) THEN <<>>
        ELSE <<SseEvent(event[1], Parse(data))>>

-----------------------------------------------------------------------------
(* The callback that sendMessage gives to streamChat: the views it may leave.
   The updater of streamingToolCalls reads pendingSql, which is set to null
   right after it is queued; React may run it at once or when it renders.  *)
EmptyView == [text |-> <<>>, calls |-> <<>>, pending |-> <<>>]

OnEvent(e) ==
    CASE e.event = "tool_call" -> {[view EXCEPT !.pending = <<e.data>>]}
      [] e.event = "tool_result" ->
            {[view EXCEPT !.calls = Append(@, [sql |-> sql, rows |-> e.data]),
                          !.pending = <<>>] : sql \in {view.pending, <<>>}}
      [] e.event = "token" -> {[view EXCEPT !.text = @ \o e.data]}
      [] OTHER -> {view}

(* A card: the query, and below it nothing yet, that there are no rows, or
   the rows.                                                               *)
Card(sql, rows, isPending) ==
    [sql |-> sql, rows |-> IF isPending THEN <<>> ELSE rows,
     note |-> IF isPending THEN "querying" ELSE IF rows = <<>> THEN "none" ELSE "table"]

(* The cards of the bubble, the pending one last. *)
Cards ==
    [i \in DOMAIN view.calls |-> Card(view.calls[i].sql, view.calls[i].rows, FALSE)]
        \o [i \in DOMAIN view.pending |-> Card(view.pending, <<>>, TRUE)]

-----------------------------------------------------------------------------
StreamInit ==
    /\ sent = <<SseEvent("conversation", <<>>)>>
    /\ wire = Frame(SseEvent("conversation", <<>>))
    /\ reply = [text |-> <<>>, calls |-> <<>>, error |-> FALSE]
    /\ roundContent = <<>>
    /\ asked = <<>>
    /\ socket = "open"
    /\ carry = <<>> /\ buffer = <<>>
    /\ heard = <<>>
    /\ view = EmptyView

More == socket \in {"open", "destroyed"} /\ Len(sent) <= MaxSent

clientVars == <<carry, buffer, heard, view>>

SendToken(delta) ==
    /\ More /\ asked = <<>>
    /\ WriteSseEvent(SseEvent("token", delta))
    /\ roundContent' = roundContent \o delta
    /\ UNCHANGED <<reply, asked, clientVars>>

(* OpenAI's stream has ended, or a stop aborted it. *)
EndRound ==
    /\ socket \in {"open", "destroyed"} /\ roundContent # <<>>
    /\ reply' = [reply EXCEPT !.text = @ \o roundContent]
    /\ roundContent' = <<>>
    /\ UNCHANGED <<sent, asked, wire, socket, clientVars>>

AnnounceQuery(sql) ==
    /\ More /\ asked = <<>> /\ roundContent = <<>>
    /\ WriteSseEvent(SseEvent("tool_call", sql))
    /\ asked' = <<sql>>
    /\ UNCHANGED <<reply, roundContent, clientVars>>

(* The call joins the others when the loop asks for more than its rows. *)
SendRows(rows) ==
    /\ More /\ asked # <<>>
    /\ WriteSseEvent(SseEvent("tool_result", rows))
    /\ reply' = IF socket = "destroyed" THEN reply
                ELSE [reply EXCEPT !.calls = Append(@, [sql |-> asked, rows |-> rows])]
    /\ asked' = <<>>
    /\ UNCHANGED <<roundContent, clientVars>>

(* The last event, after the reply is stored, and the end of the body.  What
   throws in a round, "error", leaves that round's text out of the reply.  *)
FinishTurn(name) ==
    /\ socket = "open"
    /\ name = "done" => asked = <<>> /\ roundContent = <<>>
    /\ reply' = [reply EXCEPT !.error = (name = "error")]
    /\ sent' = Append(sent, SseEvent(name, <<>>))
    /\ wire' = wire \o Frame(SseEvent(name, <<>>))
    /\ socket' = "ended"
    /\ UNCHANGED <<roundContent, asked, clientVars>>

(* reader.read() has the first k bytes of what is under way. *)
Read(k) ==
    /\ socket \in {"open", "ended"}
    /\ LET bytes == carry \o SubSeq(wire, 1, k) IN
        /\ buffer' = buffer \o Decoded(bytes)
        /\ carry' = NextCarry(bytes)
    /\ wire' = SubSeq(wire, k + 1, Len(wire))
    /\ UNCHANGED <<sent, reply, roundContent, asked, socket, heard, view>>

(* One turn of the inner loop, which awaits nothing. *)
Hear ==
    /\ Boundaries # {}
    /\ LET cut == Min(Boundaries)
           parsed == ParseSseEvent(SubSeq(buffer, 1, cut - 1))
       IN  /\ buffer' = SubSeq(buffer, cut + 2, Len(buffer))
           /\ heard' = heard \o parsed
           /\ view' \in IF parsed = <<>> THEN {view} ELSE OnEvent(parsed[1])
    /\ UNCHANGED <<sent, reply, roundContent, asked, wire, socket, carry>>

(* The user stops, or the connection breaks. *)
BreakOff ==
    /\ socket \in {"open", "ended"} /\ <<socket, wire>> # <<"ended", <<>> >>
    /\ socket' = IF socket = "open" THEN "destroyed" ELSE "left"
    /\ wire' = <<>>
    /\ view' = EmptyView
    /\ UNCHANGED <<sent, reply, roundContent, asked, carry, buffer, heard>>

StreamNext ==
    \/ Hear
    \/ /\ Boundaries = {}
       /\ \/ \E p \in Payloads : SendToken(p) \/ AnnounceQuery(p) \/ SendRows(p)
          \/ SendRows(<<>>) \/ EndRound
          \/ \E name \in {"done", "error"} : FinishTurn(name)
          \/ \E k \in 1 .. Len(wire) : Read(k)
          \/ BreakOff

StreamSpec == StreamInit /\ [][StreamNext]_streamVars

-----------------------------------------------------------------------------
(* A card of the bubble shows a stored call: its rows, and its query unless
   the updater ran late.                                                   *)
Shows(card, call) ==
    \E sql \in {call.sql, <<>>} : card = Card(sql, call.rows, FALSE)

(* Wherever the network cuts the stream, the page hears the events that were
   sent, each once, whole and in order, and once the body has ended without
   a break all of them.  The text it shows meanwhile is a beginning of the
   content so far and the running round's text; below it is a card for each
   call with its rows, "no rows" only when there are none, and the query that
   is running as the last one.  When it has heard "done", that is the stored
   reply, the whole of it.  When it has heard "error", the stored reply is
   the beginning of what it shows, with a note behind it: all that is missing
   is the text of the round that failed and the query that did.            *)
ReplyAsStored ==
    /\ IsPrefix(heard, sent)
    /\ socket = "ended" /\ wire = <<>> /\ Boundaries = {} => heard = sent
    /\ IsPrefix(view.text, reply.text \o roundContent)
    /\ \A i \in DOMAIN Cards :
        \/ i \in DOMAIN reply.calls /\ Shows(Cards[i], reply.calls[i])
        \/ /\ i = Len(Cards)
           /\ Cards[i] = Card(IF i \in DOMAIN reply.calls
                              THEN reply.calls[i].sql ELSE asked, <<>>, TRUE)
    /\ heard # <<>> /\ socket = "ended" =>
        /\ Last(heard).event = "done" =>
              /\ ~reply.error
              /\ view.text = reply.text
              /\ Len(view.calls) = Len(reply.calls) /\ view.pending = <<>>
        /\ Last(heard).event = "error" =>
              /\ reply.error
              /\ view.text = reply.text \o roundContent
              /\ Len(view.calls) = Len(reply.calls) /\ view.pending = asked
=============================================================================
