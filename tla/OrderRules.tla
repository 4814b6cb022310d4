----------------------------- MODULE OrderRules -----------------------------
(***************************************************************************)
(* The orders of one checkout, and the card a platform administrator has   *)
(* of them in a chat (src/src/orders/order-notifier.service.ts).  The      *)
(* orders move in the panel, one by one, and by the buttons of the card,   *)
(* all at once; the card is as it was built, however old.                  *)
(***************************************************************************)
EXTENDS OrderStatus, SequencesExt

CONSTANT MaxOrders   \* bound: orders of a checkout

ASSUME MaxOrdersAssumption == MaxOrders \in Nat

VARIABLES
    statuses,   \* of the orders, in the order of their creation
    card        \* the steps the card in the chat has a button for

orders == <<statuses, card>>

Live(ss) == {i \in DOMAIN ss : ~IsTerminal(ss[i])}

\* Slip: a button for every step some order can take.
ButtonsOfAny(ss) == UNION {ALLOWED_TRANSITIONS[ss[i]] : i \in Live(ss)}

\* A button for every step that all the orders still under way can take.
Buttons(ss) ==
    {to \in Status : Live(ss) # {} /\ \A i \in Live(ss) : IsTransitionAllowed(ss[i], to)}

\* changeGroupStatus as a whole: refused, nothing to do, or every live order moved.
ToMove(ss, to) == {i \in Live(ss) : ss[i] # to}

Accepted(ss, to) ==
    /\ Live(ss) # {}
    /\ \A i \in ToMove(ss, to) : IsTransitionAllowed(ss[i], to)

Cascade(ss, to) == [i \in DOMAIN ss |-> IF i \in ToMove(ss, to) THEN to ELSE ss[i]]

-----------------------------------------------------------------------------
\* Every mixture of statuses: what rows a group can have is the backfill's question.
OrdersInit ==
    /\ statuses \in UNION {[1..n -> Status] : n \in 1..MaxOrders}
    /\ card = Buttons(statuses)

\* One order is moved, in the admin panel: the card in the chat grows stale.
Change(i, to) ==
    /\ IsTransitionAllowed(statuses[i], to)
    /\ statuses' = [statuses EXCEPT ![i] = to]
    /\ UNCHANGED card

\* A button of the card: granted or refused, the card is built anew.
Press(to) ==
    /\ to \in card
    /\ statuses' = IF Accepted(statuses, to) THEN Cascade(statuses, to) ELSE statuses
    /\ card' = Buttons(statuses')

OrdersNext ==
    \/ \E i \in DOMAIN statuses, to \in Status : Change(i, to)
    \/ \E to \in Status : Press(to)

OrdersSpec == OrdersInit /\ [][OrdersNext]_orders

-----------------------------------------------------------------------------
GroupStatusNow == DeriveGroupStatus(ToSet(statuses))

\* order-status.ts:138-142: the same rules, in the same order, as the backfill
\* in the add_order_groups migration.
MatchesBackfill == GroupStatusNow = BackfillStatus(statuses)

\* Moving one order along the map, or all of them by a button, never takes their
\* group back, and a group whose status is final stays as it is.
GroupNeverRegresses ==
    [][/\ GroupRank[GroupStatusNow'] >= GroupRank[GroupStatusNow]
       /\ GroupRank[GroupStatusNow] = 6 => GroupStatusNow' = GroupStatusNow]_statuses

\* order-notifier.service.ts:160-166: a card that is up to date offers only what
\* the service will do, and offers something while an order is under way; a button
\* of an old card, when it is still granted, takes every order under way to the same
\* status by steps of the map.
ButtonsWork ==
    /\ card = Buttons(statuses) =>
          /\ \A to \in card : Accepted(statuses, to)
          /\ Live(statuses) # {} => card # {}
    /\ \A to \in card : Accepted(statuses, to) =>
          \A i \in Live(statuses) :
              /\ Cascade(statuses, to)[i] = to
              /\ statuses[i] = to \/ IsTransitionAllowed(statuses[i], to)
=============================================================================
