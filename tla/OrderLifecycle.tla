-------------------------- MODULE OrderLifecycle ---------------------------
(***************************************************************************)
(* What the order module promises about one group, without transactions,   *)
(* reads or requests: the orders move along ALLOWED_TRANSITIONS, several   *)
(* of them together or not at all, a cancelled order gives its items back  *)
(* once, the group always has the status derived from its orders, and the  *)
(* customer is told only of statuses the group has reached.                *)
(***************************************************************************)
EXTENDS OrderStatus

CONSTANT Orders

VARIABLES
    status,    \* the status of each order
    returned,  \* how often the items of an order went back to the stock
    group,     \* the status of the group
    reached    \* the statuses the group has had

vars == <<status, returned, group, reached>>

Init ==
    /\ status = [o \in Orders |-> "NEW"]
    /\ returned = [o \in Orders |-> 0]
    /\ group = "NEW"
    /\ reached = {"NEW"}

\* The orders in S move together to t.  The group passes through nothing that
\* is behind the status it ends with.
Move(S, t) ==
    /\ \A o \in S : IsTransitionAllowed(status[o], t)
    /\ status' = [o \in Orders |-> IF o \in S THEN t ELSE status[o]]
    /\ returned' = [o \in Orders |->
                       IF o \in S /\ t = "CANCELLED" THEN 1 ELSE returned[o]]
    /\ group' = DeriveGroupStatus({status'[o] : o \in Orders})
    /\ reached \subseteq reached'
    /\ group' \in reached'
    /\ \A g \in reached' \ reached : /\ g \in GroupStatus
                                     /\ GroupRank[g] <= GroupRank[group']

Next == \E S \in SUBSET Orders, t \in Status : S # {} /\ Move(S, t)

Spec == Init /\ [][Next]_vars
=============================================================================
