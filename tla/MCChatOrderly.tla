---------------------------- MODULE MCChatOrderly -----------------------------
(* The chat pipeline and, in a run of its own beside it, what a turn costs:
   ChatTurn charges a price per round, Metering says which.                 *)
EXTENDS MCChatTurn, Metering

VARIABLE part

(* One model that is priced, and one that is not. *)
MCPricing ==
    [default |-> [prompt |-> 15, completion |-> 60],
     dear |-> [prompt |-> 250, completion |-> 1000]]

(* A second turn is followed through its first round. *)
Brief == asked > 1 => meter.round = 0

MCInit ==
    /\ Init /\ MeterInit
    /\ part \in {"turns", "cost"}
    /\ part = "turns" => model = "dear"

MCNext ==
    /\ UNCHANGED part
    /\ \/ part = "turns" /\ Next /\ UNCHANGED meterVars
       \/ part = "cost" /\ MeterNext /\ Brief' /\ UNCHANGED vars

MCSpec == MCInit /\ [][MCNext]_<<vars, meterVars, part>>
=============================================================================
