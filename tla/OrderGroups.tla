---------------------------- MODULE OrderGroups ----------------------------
(***************************************************************************)
(* One order group (a checkout split over several sellers) and the HTTP    *)
(* requests that move it: changeStatus, changeGroupStatus, cancelMyGroup   *)
(* of src/src/orders/orders.service.ts, with applyStatusTx statement by    *)
(* statement.  Several requests are served at once by the one Node process *)
(* (every await is a switch point); PostgreSQL runs at READ COMMITTED: a   *)
(* statement sees what is committed plus the transaction's own writes, and *)
(* an UPDATE waits while another open transaction has updated the row.     *)
(*                                                                         *)
(* A transaction's writes are kept in tx[h] and reach the committed tables *)
(* in Commit(h); the rows it has locked are those it has written.          *)
(***************************************************************************)
EXTENDS OrderStatus, SequencesExt

CONSTANTS
    Orders,        \* the orders of the group, in createdAt order
    Handlers,      \* requests the process can be serving at the same time
    None,          \* no value
    MaxRequests    \* bound: how many requests are accepted in all

ASSUME OrdersAssumption ==
    Orders \subseteq Nat /\ IsFiniteSet(Orders) /\ Orders # {}
ASSUME HandlersAssumption == IsFiniteSet(Handlers)
ASSUME MaxRequestsAssumption == MaxRequests \in Nat

VARIABLES
    status,    \* orders.status, committed
    hist,      \* order_status_history, committed
    returned,  \* how often the items of an order went back to the stock
    group,     \* order_groups.status, committed
    ghist,     \* order_group_status_history, committed
    feed,      \* the customer's notification rows, in order of insertion
    told,      \* "the customer cancelled" messages to the order's seller
    pc,        \* where each handler is
    req,       \* what each handler read and decided before its transaction
    tx,        \* the uncommitted writes and reads of its transaction
    requests   \* requests accepted so far

tables == <<status, hist, returned, group, ghist>>
messages == <<feed, told>>
vars == <<tables, messages, pc, req, tx, requests>>

Kind == {"changeStatus", "changeGroupStatus", "cancelMyGroup"}
ASSUME NoneAssumption == None \notin GroupStatus \cup Kind
InTx == {"restock", "update", "siblings", "group", "write", "commit"}
Stage == {"idle", "before", "load"} \cup InTx \cup {"reread", "tell", "notify"}

NoReq == [kind |-> None, target |-> None, plan |-> {}, before |-> None,
          after |-> None]
NoTx == [back |-> {}, done |-> {}, derived |-> None, current |-> None,
         gnew |-> None, rows |-> <<>>]

Init ==
    /\ status = [o \in Orders |-> "NEW"]
    /\ hist = [o \in Orders |-> <<"NEW">>]
    /\ returned = [o \in Orders |-> 0]
    /\ group = "NEW"
    /\ ghist = <<"NEW">>
    /\ feed = <<>>
    /\ told = [o \in Orders |-> 0]
    /\ pc = [h \in Handlers |-> "idle"]
    /\ req = [h \in Handlers |-> NoReq]
    /\ tx = [h \in Handlers |-> NoTx]
    /\ requests = 0

-----------------------------------------------------------------------------
(* Reads and checks before the transaction                                 *)

\* Slip: cancelling an order forgets its restock.
FirstStatementUpdate(target) == "update"

\* Entering the transaction: a cancellation starts with the restock.
FirstStatement(target) == IF target = "CANCELLED" THEN "restock" ELSE "update"

Goto(h, stage) == pc' = [pc EXCEPT ![h] = stage]

Leave(h) ==
    /\ Goto(h, "idle")
    /\ req' = [req EXCEPT ![h] = NoReq]
    /\ tx' = [tx EXCEPT ![h] = NoTx]

\* changeStatus: findOrFail reads the order row (and is refused here when the
\* map does not allow the move) ...
ReadOrder(h, o, t) ==
    /\ pc[h] = "idle"
    /\ requests < MaxRequests
    /\ IsTransitionAllowed(status[o], t)
    /\ requests' = requests + 1
    /\ req' = [req EXCEPT ![h] = [NoReq EXCEPT !.kind = "changeStatus",
                                               !.target = t, !.plan = {o}]]
    /\ Goto(h, "before")
    /\ UNCHANGED <<tables, messages, tx>>

\* ... and then, in a query of its own, the group the order includes.
ReadGroupBefore(h) ==
    /\ pc[h] = "before"
    /\ req' = [req EXCEPT ![h].before = group]
    /\ Goto(h, FirstStatement(req[h].target))
    /\ UNCHANGED <<tables, messages, tx, requests>>

\* changeGroupStatus and cancelMyGroup: findGroupOrFail reads the group row ...
ReadGroup(h, kind, t) ==
    /\ pc[h] = "idle"
    /\ requests < MaxRequests
    /\ kind = "cancelMyGroup" => t = "CANCELLED"
    /\ requests' = requests + 1
    /\ req' = [req EXCEPT ![h] = [NoReq EXCEPT !.kind = kind, !.target = t,
                                               !.before = group]]
    /\ Goto(h, "load")
    /\ UNCHANGED <<tables, messages, tx>>

Active == {o \in Orders : ~IsTerminal(status[o])}

\* The orders a whole-group request is going to change.
ToChange(kind, t) ==
    IF kind = "cancelMyGroup" THEN Active ELSE {o \in Active : status[o] # t}

\* Slip: only the first order of the group is asked whether assembly began.
MayStartByFirst(kind, t) ==
    /\ ToChange(kind, t) # {}
    /\ \E o \in ToChange(kind, t) :
           IF kind = "cancelMyGroup" THEN status[o] \in {"NEW", "CONFIRMED"}
                                     ELSE IsTransitionAllowed(status[o], t)

MayStart(kind, t) ==
    /\ ToChange(kind, t) # {}
    /\ \A o \in ToChange(kind, t) :
           IF kind = "cancelMyGroup" THEN status[o] \in {"NEW", "CONFIRMED"}
                                     ELSE IsTransitionAllowed(status[o], t)

\* ... and then its orders; the request goes on, or is refused (or a no-op).
ReadOrders(h) ==
    /\ pc[h] = "load"
    /\ MayStart(req[h].kind, req[h].target)
    /\ req' = [req EXCEPT ![h].plan = ToChange(req[h].kind, req[h].target)]
    /\ Goto(h, FirstStatement(req[h].target))
    /\ UNCHANGED <<tables, messages, tx, requests>>

Refuse(h) ==
    /\ pc[h] = "load"
    /\ ~MayStart(req[h].kind, req[h].target)
    /\ Leave(h)
    /\ UNCHANGED <<tables, messages, requests>>

-----------------------------------------------------------------------------
(* The transaction: the loop over applyStatusTx                            *)

Todo(h) == req[h].plan \ tx[h].done

\* The loop follows the order in which the orders were read.
Turn(h, o) == o \in Todo(h) /\ \A p \in Todo(h) : o <= p

\* What a statement of h sees of order o, and of the group row.
Sees(h, o) == IF o \in tx[h].done THEN req[h].target ELSE status[o]
SeesGroup(h) == IF tx[h].gnew = None THEN group ELSE tx[h].gnew

\* Row locks: no other open transaction has written the row.
ListingFree(h, o) == \A k \in Handlers \ {h} : o \notin tx[k].back
OrderFree(h, o) == \A k \in Handlers \ {h} : o \notin tx[k].done
GroupFree(h) == \A k \in Handlers \ {h} : tx[k].gnew = None

\* restock(): the order's listings get their quantities back.
Restock(h) ==
    /\ pc[h] = "restock"
    /\ \E o \in Orders :
         /\ Turn(h, o)
         /\ ListingFree(h, o)
         /\ tx' = [tx EXCEPT ![h].back = @ \cup {o}]
    /\ Goto(h, "update")
    /\ UNCHANGED <<tables, messages, req, requests>>

\* order.update: status and history row, whatever the status is by now.
UpdateOrder(h) ==
    /\ pc[h] = "update"
    /\ \E o \in Orders :
         /\ Turn(h, o)
         /\ OrderFree(h, o)
         /\ tx' = [tx EXCEPT ![h].done = @ \cup {o}]
    /\ Goto(h, "siblings")
    /\ UNCHANGED <<tables, messages, req, requests>>

\* Slip: the siblings are read past the transaction, without its own writes.
ReadSiblingsOutsideTx(h) ==
    /\ pc[h] = "siblings"
    /\ tx' = [tx EXCEPT ![h].derived =
                 DeriveGroupStatus({status[o] : o \in Orders})]
    /\ Goto(h, "group")
    /\ UNCHANGED <<tables, messages, req, requests>>

\* Slip: the siblings are only the orders this transaction has changed.
ReadSiblingsChanged(h) ==
    /\ pc[h] = "siblings"
    /\ tx' = [tx EXCEPT ![h].derived =
                 DeriveGroupStatus({Sees(h, o) : o \in tx[h].done})]
    /\ Goto(h, "group")
    /\ UNCHANGED <<tables, messages, req, requests>>

\* order.findMany over the group, then deriveGroupStatus.
ReadSiblings(h) ==
    /\ pc[h] = "siblings"
    /\ tx' = [tx EXCEPT ![h].derived =
                 DeriveGroupStatus({Sees(h, o) : o \in Orders})]
    /\ Goto(h, "group")
    /\ UNCHANGED <<tables, messages, req, requests>>

\* orderGroup.findUniqueOrThrow: the status the history row is decided by.
ReadCurrentGroup(h) ==
    /\ pc[h] = "group"
    /\ tx' = [tx EXCEPT ![h].current = SeesGroup(h)]
    /\ Goto(h, "write")
    /\ UNCHANGED <<tables, messages, req, requests>>

\* Slip: the loop stops after its first order.
NextStatementOfOne(h) == "commit"

NextStatement(h) ==
    IF Todo(h) = {} THEN "commit" ELSE FirstStatement(req[h].target)

\* Slip: the comparison is the wrong way round.
NewGroupRowsWhenEqual(derived, current) ==
    IF derived = current THEN <<derived>> ELSE <<>>

\* A history row only when the derived status differs from the one read.
NewGroupRows(derived, current) ==
    IF derived # current THEN <<derived>> ELSE <<>>

\* orderGroup.update.
UpdateGroup(h) ==
    /\ pc[h] = "write"
    /\ GroupFree(h)
    /\ tx' = [tx EXCEPT ![h].gnew = tx[h].derived,
                        ![h].rows = @ \o NewGroupRows(tx[h].derived,
                                                      tx[h].current)]
    /\ Goto(h, NextStatement(h))
    /\ UNCHANGED <<tables, messages, req, requests>>

Commit(h) ==
    /\ pc[h] = "commit"
    /\ status' = [o \in Orders |-> Sees(h, o)]
    /\ hist' = [o \in Orders |-> IF o \in tx[h].done
                                 THEN Append(hist[o], req[h].target)
                                 ELSE hist[o]]
    /\ returned' = [o \in Orders |-> IF o \in tx[h].back
                                     THEN returned[o] + 1 ELSE returned[o]]
    /\ group' = SeesGroup(h)
    /\ ghist' = ghist \o tx[h].rows
    /\ tx' = [tx EXCEPT ![h] = NoTx]
    /\ Goto(h, "reread")
    /\ UNCHANGED <<messages, req, requests>>

\* The row the next statement of h updates belongs to an open transaction.
Waiting(h) ==
    \/ pc[h] = "restock" /\ \E o \in Orders : Turn(h, o) /\ ~ListingFree(h, o)
    \/ pc[h] = "update" /\ \E o \in Orders : Turn(h, o) /\ ~OrderFree(h, o)
    \/ pc[h] = "write" /\ ~GroupFree(h)

\* Slip: transactions may wait for a row for ever.
NeverGiveUp(h) == FALSE

\* PostgreSQL breaks a deadlock, or the transaction passes its time limit
\* while it waits: it is rolled back and the request fails.
GiveUp(h) ==
    /\ Waiting(h)
    /\ Leave(h)
    /\ UNCHANGED <<tables, messages, requests>>

-----------------------------------------------------------------------------
(* After the commit                                                        *)

\* The group is read again; a customer's own cancellation tells the sellers.
Reread(h) ==
    /\ pc[h] = "reread"
    /\ req' = [req EXCEPT ![h].after = group]
    /\ Goto(h, IF req[h].kind = "cancelMyGroup" THEN "tell" ELSE "notify")
    /\ UNCHANGED <<tables, messages, tx, requests>>

\* cancelledByCustomer, for the orders this operation cancelled; a seller's
\* unreachable Telegram is logged and changes nothing.
TellSellers(h) ==
    /\ pc[h] = "tell"
    /\ told' = [o \in Orders |-> IF o \in req[h].plan THEN told[o] + 1
                                                     ELSE told[o]]
    /\ Goto(h, "notify")
    /\ UNCHANGED <<tables, feed, req, tx, requests>>

\* There is no message for a group that is NEW.
WorthTelling(h) == req[h].after # req[h].before /\ req[h].after # "NEW"

\* groupStatusChanged: the row of the customer's feed (the push and the
\* Telegram message that follow it are best effort).
Notify(h) ==
    /\ pc[h] = "notify"
    /\ feed' = IF WorthTelling(h) THEN Append(feed, req[h].after) ELSE feed
    /\ Leave(h)
    /\ UNCHANGED <<tables, told, requests>>

\* Any query fails, or the process dies (then every handler fails): the open
\* transaction is undone, and what was to follow a commit never happens.
Fail(h) ==
    /\ pc[h] # "idle"
    /\ Leave(h)
    /\ UNCHANGED <<tables, messages, requests>>

-----------------------------------------------------------------------------
\* Everything a handler does by itself once its request has been accepted.
Serve(h) ==
    \/ ReadGroupBefore(h) \/ ReadOrders(h) \/ Refuse(h)
    \/ Restock(h) \/ UpdateOrder(h) \/ ReadSiblings(h)
    \/ ReadCurrentGroup(h) \/ UpdateGroup(h) \/ Commit(h) \/ GiveUp(h)
    \/ Reread(h) \/ TellSellers(h) \/ Notify(h)

Next ==
    \E h \in Handlers :
         \/ \E o \in Orders, t \in Status : ReadOrder(h, o, t)
         \/ \E kind \in Kind \ {"changeStatus"}, t \in Status :
                ReadGroup(h, kind, t)
         \/ Serve(h)
         \/ Fail(h)

Spec == Init /\ [][Next]_vars

\* The event loop goes on with every accepted request, and a transaction that
\* waits for a row is ended by its time limit; no client has to send requests.
Fairness == \A h \in Handlers : WF_vars(Serve(h))

FairSpec == Spec /\ Fairness

-----------------------------------------------------------------------------
(* Properties                                                              *)

Request == [kind : Kind \cup {None},
            target : Status \cup {None},
            plan : SUBSET Orders,
            before : GroupStatus \cup {None},
            after : GroupStatus \cup {None}]

Transaction == [back : SUBSET Orders,
                done : SUBSET Orders,
                derived : GroupStatus \cup {None},
                current : GroupStatus \cup {None},
                gnew : GroupStatus \cup {None},
                rows : Seq(GroupStatus)]

\* Every variable has its type.
TypeOK ==
    /\ status \in [Orders -> Status]
    /\ hist \in [Orders -> Seq(Status)]
    /\ returned \in [Orders -> Nat]
    /\ group \in GroupStatus
    /\ ghist \in Seq(GroupStatus)
    /\ feed \in Seq(GroupStatus)
    /\ told \in [Orders -> Nat]
    /\ pc \in [Handlers -> Stage]
    /\ req \in [Handlers -> Request]
    /\ tx \in [Handlers -> Transaction]
    /\ requests \in 0..MaxRequests

Count(s, v) == Cardinality({i \in DOMAIN s : s[i] = v})

\* (orders.service.ts:660-679) Whatever requests overlap or die half way, the
\* status of an order is the last line of its history, its items went back to
\* the stock exactly as often as its history says CANCELLED, and its seller
\* hears that the customer cancelled (453-460) no more often than that.
LedgersAgree ==
    \A o \in Orders :
        /\ status[o] = Last(hist[o])
        /\ returned[o] = Count(hist[o], "CANCELLED")
        /\ told[o] <= returned[o]

\* (order-status.ts:11-24, orders.service.ts:516-522) No order reaches a status
\* without having been, at some earlier time, in a status it may be reached
\* from: requests that race can repeat or reorder steps, never skip one.
NoStepIsSkipped ==
    \A o \in Orders : \A i \in 2..Len(hist[o]) : \E j \in 1..(i - 1) :
        IsTransitionAllowed(hist[o][j], hist[o][i])

\* (orders.service.ts:681-714) The status of the group is the one derived from
\* statuses its orders have all had, if not at the same time: a group is never
\* DELIVERED or CANCELLED with an order that has not been.
WitnessedBy(had, g) ==
    \E was \in [Orders -> Status] :
        /\ \A o \in Orders : was[o] \in had[o]
        /\ g = DeriveGroupStatus({was[o] : o \in Orders})

GroupStatusIsWitnessed == WitnessedBy([o \in Orders |-> ToSet(hist[o])], group)

\* (orders.service.ts:533-536, 595-600) The customer is never told of a status
\* the group's history does not have, and the group has none it lacks.
FeedIsInHistory ==
    /\ group \in ToSet(ghist)
    /\ ToSet(feed) \subseteq ToSet(ghist)

\* The step is the commit of the transaction of h.
Commits(h) == pc[h] = "commit" /\ pc'[h] = "reread"

\* (orders.service.ts:437-449, 540-547) A whole-group request changes all of
\* the orders it decided to change, or none: no partial cancel, no partial
\* cascade, whichever statement fails.
AllOrNothing ==
    [][\A h \in Handlers :
          Commits(h) =>
              \A o \in req[h].plan : hist'[o] = Append(hist[o], req[h].target)]_vars

\* (the time limit of a transaction) Every accepted request ends, although two
\* requests may each hold the row the other waits for.
RequestsEnd == \A h \in Handlers : pc[h] # "idle" ~> pc[h] = "idle"

(* What holds while requests do not overlap, and what the code's comments    *)
(* say without that condition.                                               *)

\* (order-status.ts:138-142) The group's status is the derived one.
GroupIsDerived == group = DeriveGroupStatus({status[o] : o \in Orders})

\* (order-status.ts:112) An order in a terminal status does not move.
TerminalStays ==
    [][\A o \in Orders : IsTerminal(status[o]) => hist'[o] = hist[o]]_vars

\* (orders.service.ts:722-723) The items of a cancelled order go back on sale:
\* once, not once per request.
ReturnedOnce == \A o \in Orders : returned[o] <= 1

\* (orders.service.ts:413-417) The customer's cancellation does not cancel an
\* order whose assembly has begun.
CustomerCancelsBeforeAssembly ==
    [][\A h \in Handlers :
          req[h].kind = "cancelMyGroup" /\ Commits(h) =>
              \A o \in req[h].plan :
                  status[o] \in {"NEW", "CONFIRMED", "CANCELLED"}]_vars

\* (orders.service.ts:524-526) The customer is told when, and only when, the
\* history of the group got a new status: never more rows than changes.
FeedMatchesHistory == Len(feed) < Len(ghist)

\* The history of the group is a record of real changes that only go forward,
\* and it ends with the present status.
GroupHistoryMovesForward ==
    /\ group = Last(ghist)
    /\ \A i \in 2..Len(ghist) : GroupRank[ghist[i - 1]] < GroupRank[ghist[i]]

\* Requests that do not overlap leave the records in step with each other, even
\* when one of them fails half way: the group has the derived status, the stock
\* got its items back once, and the customer and the history of the group saw
\* the real changes, each once.
OneAtATime ==
    /\ GroupIsDerived
    /\ ReturnedOnce
    /\ FeedMatchesHistory
    /\ GroupHistoryMovesForward

\* No step of such a request moves an order that is finished, cancels for the
\* customer what is being assembled, or carries out a cascade in part.
StepsOneAtATime ==
    /\ TerminalStays
    /\ CustomerCancelsBeforeAssembly
    /\ AllOrNothing

\* Requests that do not overlap implement the promised lifecycle.
Lifecycle == INSTANCE OrderLifecycle WITH reached <- ToSet(ghist)

ImplementsLifecycle == Lifecycle!Spec

-----------------------------------------------------------------------------
(* The inductive invariant behind NoStepIsSkipped, FeedIsInHistory and      *)
(* GroupStatusIsWitnessed (OrderGroups_proofs).                             *)

\* A transaction works on the orders of its plan, for a known target, and its
\* writes exist only while its handler is inside it.
SoundAt(stage, q, x) ==
    /\ x.done \subseteq q.plan
    /\ x.back \subseteq q.plan
    /\ stage # "idle" => q.target \in Status /\ q.kind \in Kind
    /\ q.kind = "cancelMyGroup" => q.target = "CANCELLED"
    /\ stage \in {"group", "write"} => x.derived \in GroupStatus
    /\ stage = "write" => x.current \in GroupStatus
    /\ stage \in {"tell", "notify"} => q.after \in GroupStatus
    /\ stage \notin InTx => x = NoTx

PlansAreSound == \A h \in Handlers : SoundAt(pc[h], req[h], tx[h])

\* The target of a plan may be reached from something each order once was.
Justified(o, t) ==
    \E j \in DOMAIN hist[o] : IsTransitionAllowed(hist[o][j], t)

PlansAreJustified ==
    \A h \in Handlers : pc[h] \in {"before"} \cup InTx =>
        \A o \in req[h].plan : Justified(o, req[h].target)

StatusIsLastEntry ==
    \A o \in Orders : hist[o] # <<>> /\ status[o] = Last(hist[o])

\* What a handler knows of the group is in the history of the group or among
\* the rows its own transaction adds to it.
RecordedAt(q, x) ==
    /\ x.current \in ToSet(ghist) \cup ToSet(x.rows) \cup {None}
    /\ x.gnew \in ToSet(ghist) \cup ToSet(x.rows) \cup {None}
    /\ q.after \in ToSet(ghist) \cup {None}

GroupValuesAreRecorded ==
    /\ FeedIsInHistory
    /\ \A h \in Handlers : RecordedAt(req[h], tx[h])

\* The statuses the orders have had, counting those a transaction gives them.
Had(q, x) ==
    [o \in Orders |-> ToSet(hist[o]) \cup (IF o \in x.done THEN {q.target} ELSE {})]

DerivedAt(q, x) ==
    /\ x.derived # None => WitnessedBy(Had(q, x), x.derived)
    /\ x.gnew # None => WitnessedBy(Had(q, x), x.gnew)

DerivedIsWitnessed ==
    /\ GroupStatusIsWitnessed
    /\ \A h \in Handlers : DerivedAt(req[h], tx[h])

IInv ==
    /\ TypeOK
    /\ PlansAreSound
    /\ PlansAreJustified
    /\ StatusIsLastEntry
    /\ NoStepIsSkipped
    /\ GroupValuesAreRecorded
    /\ DerivedIsWitnessed

(* The inductive invariant behind LedgersAgree.                             *)

\* A cancellation gives back the items of the orders it has changed and, for
\* the time of one statement, of the one it is about to change; it commits when
\* it has changed all.
RestocksAt(stage, q, x) ==
    /\ q.target # "CANCELLED" => x.back = {}
    /\ q.target = "CANCELLED" =>
          IF stage = "update"
          THEN \E o \in q.plan \ x.done :
                  (\A p \in q.plan \ x.done : o <= p) /\ x.back = x.done \cup {o}
          ELSE x.back = x.done
    /\ stage = "commit" => q.plan \subseteq x.done
    /\ stage = "restock" => q.target = "CANCELLED"
    /\ stage = "tell" => q.kind = "cancelMyGroup"

\* The requests that have cancelled o for the customer and not told its seller yet.
Owed(o) ==
    {h \in Handlers : /\ pc[h] \in {"reread", "tell"}
                      /\ req[h].kind = "cancelMyGroup" /\ o \in req[h].plan}

LedgerInv ==
    /\ LedgersAgree
    /\ \A h \in Handlers : RestocksAt(pc[h], req[h], tx[h])
    /\ \A o \in Orders : told[o] + Cardinality(Owed(o)) <= returned[o]

(* The inductive invariant behind OneAtATime, StepsOneAtATime and           *)
(* ImplementsLifecycle, for requests that do not overlap.                   *)

\* What the transaction x of the request q makes of the orders and the group.
View(q, x) == [o \in Orders |-> IF o \in x.done THEN q.target ELSE status[o]]
Derived(view) == DeriveGroupStatus({view[o] : o \in Orders})
ViewOfGroup(x) == IF x.gnew = None THEN group ELSE x.gnew

\* Each entry is further along than all before it, and g is the last.
RisesTo(s, g) ==
    /\ s # <<>> /\ g = Last(s)
    /\ \A i, j \in DOMAIN s : i < j => GroupRank[s[i]] < GroupRank[s[j]]

Ahead(g, f) == g = f \/ GroupRank[f] < GroupRank[g]

\* What was read before the transaction is still so while it runs, and its view
\* of the group keeps up with its view of the orders, statement by statement.
SerialAt(stage, q, x) ==
    /\ stage \in {"before"} \cup InTx =>
          /\ q.plan # {}
          /\ \A o \in q.plan :
                /\ IsTransitionAllowed(status[o], q.target)
                /\ q.kind = "cancelMyGroup" => status[o] \in {"NEW", "CONFIRMED"}
    /\ stage \in {"load"} \cup InTx => q.before = group
    /\ stage \in InTx => RisesTo(ghist \o x.rows, ViewOfGroup(x))
    /\ stage \in {"restock", "update", "commit"} =>
          ViewOfGroup(x) = Derived(View(q, x))
    /\ stage \in {"siblings", "group", "write"} =>
          Ahead(Derived(View(q, x)), ViewOfGroup(x))
    /\ stage \in {"group", "write"} => x.derived = Derived(View(q, x))
    /\ stage = "write" => x.current = ViewOfGroup(x)
    /\ stage = "reread" /\ group # q.before => Len(feed) + 1 < Len(ghist)
    /\ stage \in {"tell", "notify"} /\ q.after # q.before =>
          Len(feed) + 1 < Len(ghist)

SerialInv ==
    /\ GroupIsDerived
    /\ \A o \in Orders : returned[o] = IF status[o] = "CANCELLED" THEN 1 ELSE 0
    /\ FeedMatchesHistory
    /\ RisesTo(ghist, group)
    /\ \A h \in Handlers : SerialAt(pc[h], req[h], tx[h])
=============================================================================
