------------------------------- MODULE Delivery -------------------------------
(***************************************************************************)
(* What an Exporter promises of the items it is given (Exporter.swift):    *)
(* every item accepted is pending until it is settled, once and for good,  *)
(* as delivered or as abandoned, and shutdown "must drain pending records  *)
(* before returning".  How items are batched, queued and retried does not  *)
(* show.                                                                   *)
(***************************************************************************)
EXTENDS Naturals

CONSTANT Channels  \* kinds of items, numbered separately

VARIABLES accepted, pending, delivered, abandoned, open
vars == <<accepted, pending, delivered, abandoned, open>>

Init ==
    /\ accepted = [c \in Channels |-> 0]
    /\ pending = [c \in Channels |-> {}]
    /\ delivered = [c \in Channels |-> {}]
    /\ abandoned = [c \in Channels |-> {}]
    /\ open = TRUE

(* emit *)
Accept(c) ==
    /\ open
    /\ accepted' = [accepted EXCEPT ![c] = @ + 1]
    /\ pending' = [pending EXCEPT ![c] = @ \cup {accepted[c] + 1}]
    /\ UNCHANGED <<delivered, abandoned, open>>

(* One request settles the items it carries. *)
Deliver(c, items) ==
    /\ open
    /\ pending' = [pending EXCEPT ![c] = @ \ items]
    /\ delivered' = [delivered EXCEPT ![c] = @ \cup items]
    /\ UNCHANGED <<accepted, abandoned, open>>

Abandon(c, items) ==
    /\ open
    /\ pending' = [pending EXCEPT ![c] = @ \ items]
    /\ abandoned' = [abandoned EXCEPT ![c] = @ \cup items]
    /\ UNCHANGED <<accepted, delivered, open>>

(* shutdown returns *)
Close ==
    /\ open /\ \A c \in Channels : pending[c] = {}
    /\ open' = FALSE
    /\ UNCHANGED <<accepted, pending, delivered, abandoned>>

Next ==
    \/ \E c \in Channels :
          \/ Accept(c)
          \/ \E items \in SUBSET pending[c] : Deliver(c, items) \/ Abandon(c, items)
    \/ Close

Spec == Init /\ [][Next]_vars
=============================================================================
