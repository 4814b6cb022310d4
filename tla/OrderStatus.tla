---------------------------- MODULE OrderStatus ----------------------------
(***************************************************************************)
(* The status machine of one order and the rule that derives the status of *)
(* an order group (src/src/orders/order-status.ts).  Pure: no variables.   *)
(***************************************************************************)
EXTENDS Integers, Sequences, FiniteSets

Status == {"NEW", "CONFIRMED", "ASSEMBLING", "DELIVERING", "ARRIVED",
           "DELIVERED", "CANCELLED"}

GroupStatus == Status \cup {"PARTIALLY_DELIVERED"}

ALLOWED_TRANSITIONS ==
    [s \in Status |->
        CASE s = "NEW"        -> {"CONFIRMED", "CANCELLED"}
          [] s = "CONFIRMED"  -> {"ASSEMBLING", "CANCELLED"}
          [] s = "ASSEMBLING" -> {"DELIVERING", "CANCELLED"}
          [] s = "DELIVERING" -> {"ARRIVED", "DELIVERED", "CANCELLED"}
          [] s = "ARRIVED"    -> {"DELIVERED", "CANCELLED"}
          [] OTHER            -> {}]

\* Slip: cancelling is let through without consulting the map.
CancelIsAlwaysAllowed(from, to) ==
    to = "CANCELLED" \/ to \in ALLOWED_TRANSITIONS[from]

IsTransitionAllowed(from, to) == to \in ALLOWED_TRANSITIONS[from]

IsTerminal(s) == ALLOWED_TRANSITIONS[s] = {}

NON_TERMINAL_ORDER ==
    <<"NEW", "CONFIRMED", "ASSEMBLING", "DELIVERING", "ARRIVED">>

\* The least advanced of the statuses present in S.
FirstPresent(S) ==
    NON_TERMINAL_ORDER[CHOOSE i \in 1..5 :
        /\ NON_TERMINAL_ORDER[i] \in S
        /\ \A j \in 1..(i - 1) : NON_TERMINAL_ORDER[j] \notin S]

\* Slip: cancelled orders are filtered out before the "every delivered" rule.
DeriveIgnoringCancelled(S) ==
    LET live == S \ {"CANCELLED"}
    IN  CASE live = {}                       -> "CANCELLED"
          [] live = {"DELIVERED"}            -> "DELIVERED"
          [] live # {} /\ "DELIVERED" \notin live -> FirstPresent(live)
          [] OTHER                           -> "PARTIALLY_DELIVERED"

\* Slip: no rule for a group all of whose orders are cancelled.
DeriveWithoutCancelledRule(S) ==
    IF S = {"DELIVERED"} THEN "DELIVERED"
    ELSE IF "DELIVERED" \in S THEN "PARTIALLY_DELIVERED"
    ELSE IF S = {"CANCELLED"} THEN "undefined"
    ELSE FirstPresent(S)

(***************************************************************************)
(* deriveGroupStatus asks of the array it gets only which statuses occur   *)
(* in it, so its argument here is the set of the statuses present, never   *)
(* empty (the code throws: a group has at least one order).                *)
(***************************************************************************)
DeriveGroupStatus(S) ==
    IF S = {"CANCELLED"} THEN "CANCELLED"
    ELSE IF S = {"DELIVERED"} THEN "DELIVERED"
    ELSE IF "DELIVERED" \in S THEN "PARTIALLY_DELIVERED"
    ELSE FirstPresent(S)

(***************************************************************************)
(* The CASE of the backfill migration, over the rows of one group: what    *)
(* the comment above deriveGroupStatus says it must agree with.            *)
(***************************************************************************)
BackfillStatus(rows) ==
    LET every(S) == \A i \in DOMAIN rows : rows[i] \in S
        some(s)  == \E i \in DOMAIN rows : rows[i] = s
    IN  CASE every({"CANCELLED"}) -> "CANCELLED"
          [] every({"DELIVERED"}) -> "DELIVERED"
          [] some("DELIVERED") /\ ~every({"DELIVERED"}) -> "PARTIALLY_DELIVERED"
          [] OTHER ->
               IF some("NEW") THEN "NEW"
               ELSE IF some("CONFIRMED") THEN "CONFIRMED"
               ELSE IF some("ASSEMBLING") THEN "ASSEMBLING"
               ELSE IF some("DELIVERING") THEN "DELIVERING"
               ELSE "ARRIVED"

\* How far along a group is; the two final statuses are at the top.
GroupRank ==
    [g \in GroupStatus |->
        CASE g = "NEW"        -> 0
          [] g = "CONFIRMED"  -> 1
          [] g = "ASSEMBLING" -> 2
          [] g = "DELIVERING" -> 3
          [] g = "ARRIVED"    -> 4
          [] g = "PARTIALLY_DELIVERED" -> 5
          [] OTHER            -> 6]
=============================================================================
