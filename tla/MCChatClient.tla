---------------------------- MODULE MCChatClient ----------------------------
(* Three components of an answer on its way to the reader, which do not
   interact, in one run: the page's state (ChatClient), the stream that
   feeds it (ReplyStream), and the data the answer rests on.  Of the page,
   no list lags behind once both turns have a new conversation each.       *)
EXTENDS ChatClient, ReplyStream, FinancialData, TLC

CONSTANTS c1, c2, c3

VARIABLE part

Texts2 == {<<"a", "wide">>, <<"newline", "newline">>}

Letters3 == {<<"a", "A">>, <<"b", "B">>, <<"c", "C">>}
Keyboard == {"a", "A", "b", "B", "c", "C", "-", "%"}

Row(company, ticker, sector, year) ==
    [company |-> company, ticker |-> ticker, sector |-> sector, year |-> year]

(* Two companies; one's ticker spells the other's name. *)
Rows ==
    {Row(<<"A", "b", "C">>, <<"C", "A">>, <<"B">>, 1),
     Row(<<"A", "b", "C">>, <<"C", "A">>, <<"B">>, 2),
     Row(<<"C", "a">>, <<"B">>, <<"C">>, 2)}

Names == {<<"a", "B", "-", "c">>, <<"c", "A">>, <<"-">>, <<"b", "b">>}
SectorNames == {<<"b">>, <<"C">>, <<"%">>}

NoStream ==
    /\ sent = <<>> /\ wire = <<>> /\ reply = [text |-> <<>>, calls |-> <<>>, error |-> FALSE]
    /\ roundContent = <<>> /\ asked = <<>> /\ socket = "left"
    /\ carry = <<>> /\ buffer = <<>> /\ heard = <<>> /\ view = EmptyView

NoData ==
    /\ financialData = {} /\ seed = "idle" /\ toolArgs = <<>> /\ allToolCalls = <<>>
    /\ turn = "open" /\ seeds = 0 /\ lacking = FALSE

Within == excused = {} \/ \E c \in Conversations : Fresh(c)

MCInit ==
    /\ Init
    /\ \/ part = "page" /\ NoStream /\ NoData
       \/ part = "stream" /\ StreamInit /\ NoData
       \/ part = "data" /\ NoStream /\ DataInit

MCNext ==
    /\ UNCHANGED part
    /\ \/ part = "page" /\ Next /\ Within' /\ UNCHANGED <<streamVars, dataVars>>
       \/ part = "stream" /\ StreamNext /\ UNCHANGED <<vars, dataVars>>
       \/ part = "data" /\ DataNext /\ UNCHANGED <<vars, streamVars>>

MCSpec == MCInit /\ [][MCNext]_<<vars, streamVars, dataVars, part>>

(* Of the ids, those that are still to be minted are alike. *)
Symmetry == Permutations(Conversations \ Old) \cup Permutations(Texts)
=============================================================================
