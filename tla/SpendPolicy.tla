----------------------------- MODULE SpendPolicy -----------------------------
(***************************************************************************)
(* What the spending limit promises, with the chat pipeline left out.      *)
(*                                                                         *)
(* UsageService (domain/logic/chat/usage.service.ts) checks the budget     *)
(* once, when a turn is admitted, and adds the turn's cost long            *)
(* afterwards.  The limit is therefore not a cap.  An admission hands the  *)
(* turn tickets <<t, 1>> .. <<t, MaxCharges>>, each good for one later     *)
(* charge of at most MaxCost; what is spent can pass the limit by what     *)
(* the outstanding tickets are worth, and by no more.                      *)
(***************************************************************************)
EXTENDS Integers, FiniteSets

CONSTANTS
    Turns,       \* requests that can be in flight at once
    Limit,       \* usage.limitUsd, in units of cost
    MaxCost,     \* the most one charge can come to
    MaxCharges   \* how often one admitted turn may be charged

PolicyAssumption ==
    /\ IsFiniteSet(Turns)
    /\ Limit \in Nat \ {0}
    /\ MaxCost \in Nat
    /\ MaxCharges \in Nat

VARIABLES
    spend,       \* what the account has spent in the current window
    tickets      \* charges admitted turns may still make

vars == <<spend, tickets>>

TypeOK ==
    /\ spend \in Nat
    /\ tickets \subseteq Turns \X (1 .. MaxCharges)

Init ==
    /\ spend = 0
    /\ tickets = {}

(* A turn is admitted only while there is budget left. *)
Admit(t) ==
    /\ spend < Limit
    /\ tickets' = tickets \cup ({t} \X (1 .. MaxCharges))
    /\ UNCHANGED spend

(* A charge uses up a ticket; the turn may give up others with it. *)
Charge(ticket, cost) ==
    /\ ticket \in tickets
    /\ spend' = spend + cost
    /\ tickets' \subseteq tickets \ {ticket}

(* A turn that ends, or dies, gives up what it did not use. *)
Forfeit ==
    /\ tickets' \subseteq tickets
    /\ UNCHANGED spend

(* The window closes.  Turns in flight keep their tickets and spend them
   in the next window. *)
Reset ==
    /\ spend' = 0
    /\ UNCHANGED tickets

Next ==
    \/ \E t \in Turns : Admit(t)
    \/ \E ticket \in tickets, cost \in 1 .. MaxCost : Charge(ticket, cost)
    \/ Forfeit
    \/ Reset

Spec == Init /\ [][Next]_vars

-----------------------------------------------------------------------------
(* The most that the turns in flight together can still be charged. *)
MaxOvershoot == Cardinality(Turns \X (1 .. MaxCharges)) * MaxCost

(* The inductive invariant: what is spent and what is still promised. *)
Exposure == spend + Cardinality(tickets) * MaxCost <= Limit - 1 + MaxOvershoot

(* What is spent in a window stays below the limit plus what the turns in
   flight when the limit was reached may still cost. *)
SpendBounded == spend <= Limit - 1 + MaxOvershoot
=============================================================================
