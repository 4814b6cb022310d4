------------------------ MODULE OrderGroups_proofs -------------------------
(***************************************************************************)
(* Facts about the status map and deriveGroupStatus for groups of any      *)
(* size; type correctness and the safety invariants of OrderGroups that    *)
(* hold whatever requests overlap, for any number of orders and handlers.  *)
(***************************************************************************)
EXTENDS OrderGroups, OrderRules, FiniteSetTheorems, TLAPS

-----------------------------------------------------------------------------
(* deriveGroupStatus                                                       *)

Unfinished == Status \ {"DELIVERED", "CANCELLED"}

\* The place of an unfinished status in NON_TERMINAL_ORDER.
Place == [s \in Unfinished |->
            CASE s = "NEW" -> 1 [] s = "CONFIRMED" -> 2 [] s = "ASSEMBLING" -> 3
              [] s = "DELIVERING" -> 4 [] OTHER -> 5]

\* FirstPresent returns the least advanced unfinished status of the set.
LEMMA FirstPresentIsLeast ==
    ASSUME NEW S \in SUBSET Status, S \cap Unfinished # {}
    PROVE  /\ FirstPresent(S) \in S \cap Unfinished
           /\ \A s \in S \cap Unfinished : Place[FirstPresent(S)] <= Place[s]
<1> DEFINE L == NON_TERMINAL_ORDER
           Fits(i) == L[i] \in S /\ \A j \in 1..(i - 1) : L[j] \notin S
           c == CHOOSE i \in 1..5 : Fits(i)
<1>1. /\ L[1] = "NEW" /\ L[2] = "CONFIRMED" /\ L[3] = "ASSEMBLING"
      /\ L[4] = "DELIVERING" /\ L[5] = "ARRIVED"
  BY DEF NON_TERMINAL_ORDER
<1>2. \E i \in 1..5 : L[i] \in S
  BY <1>1 DEF Unfinished, Status
<1>3. \E i \in 1..5 : Fits(i)
  <2>1. CASE L[1] \in S
    <3>1. Fits(1) BY <2>1
    <3> QED BY <3>1
  <2>2. CASE L[1] \notin S /\ L[2] \in S
    <3>1. Fits(2) BY <2>2
    <3> QED BY <3>1
  <2>3. CASE L[1] \notin S /\ L[2] \notin S /\ L[3] \in S
    <3>1. Fits(3)
      <4>1. \A j \in 1..2 : j = 1 \/ j = 2 OBVIOUS
      <4> QED BY <2>3, <4>1
    <3> QED BY <3>1
  <2>4. CASE L[1] \notin S /\ L[2] \notin S /\ L[3] \notin S /\ L[4] \in S
    <3>1. Fits(4)
      <4>1. \A j \in 1..3 : j = 1 \/ j = 2 \/ j = 3 OBVIOUS
      <4> QED BY <2>4, <4>1
    <3> QED BY <3>1
  <2>5. CASE /\ L[1] \notin S /\ L[2] \notin S /\ L[3] \notin S /\ L[4] \notin S
             /\ L[5] \in S
    <3>1. Fits(5)
      <4>1. \A j \in 1..4 : j = 1 \/ j = 2 \/ j = 3 \/ j = 4 OBVIOUS
      <4> QED BY <2>5, <4>1
    <3> QED BY <3>1
  <2>6. L[1] \in S \/ L[2] \in S \/ L[3] \in S \/ L[4] \in S \/ L[5] \in S
    BY <1>2
  <2> QED BY <2>1, <2>2, <2>3, <2>4, <2>5, <2>6
<1>4. c \in 1..5 /\ Fits(c)
  BY <1>3
<1>5. FirstPresent(S) = L[c]
  BY DEF FirstPresent
<1> HIDE DEF c
<1>6. \A i \in 1..5 : L[i] \in Unfinished /\ Place[L[i]] = i
  BY <1>1 DEF Place, Unfinished, Status
<1>7. \A s \in Unfinished : \E i \in 1..5 : s = L[i]
  BY <1>1 DEF Unfinished, Status
<1>8. ASSUME NEW s \in S \cap Unfinished
      PROVE  c <= Place[s]
  <2>1. PICK i \in 1..5 : s = L[i] BY <1>7
  <2>2. ~(i \in 1..(c - 1)) BY <1>4, <2>1
  <2>3. c <= i BY <1>4, <2>2
  <2> QED BY <2>1, <2>3, <1>6
<1> QED BY <1>4, <1>5, <1>6, <1>8

\* A group with at least one order has a derived status: the throw at the end
\* of deriveGroupStatus is never reached.
THEOREM DeriveIsTotal ==
    ASSUME NEW S \in SUBSET Status, S # {}
    PROVE  DeriveGroupStatus(S) \in GroupStatus
<1>1. CASE S \cap Unfinished # {}
  <2>1. FirstPresent(S) \in Status BY <1>1, FirstPresentIsLeast
  <2> QED BY <2>1 DEF DeriveGroupStatus, GroupStatus, Status
<1>2. CASE S \cap Unfinished = {}
  <2>1. S \subseteq {"DELIVERED", "CANCELLED"} BY <1>2 DEF Unfinished
  <2>2. S = {"CANCELLED"} \/ "DELIVERED" \in S BY <2>1
  <2> QED BY <2>2 DEF DeriveGroupStatus, GroupStatus, Status
<1> QED BY <1>1, <1>2

\* The order in which the rules of deriveGroupStatus rank one order.
OrderRank == [s \in Status |-> IF s \in Unfinished THEN GroupRank[s] ELSE 6]

LEMMA RankOfFirstPresent ==
    ASSUME NEW S \in SUBSET Status, S \cap Unfinished # {}
    PROVE  /\ GroupRank[FirstPresent(S)] \in 0..4
           /\ \A s \in S : GroupRank[FirstPresent(S)] <= OrderRank[s]
<1>1. \A s \in Unfinished : s \in GroupStatus /\ GroupRank[s] = Place[s] - 1
  BY DEF Unfinished, Place, GroupRank, GroupStatus, Status
<1>2. \A s \in Unfinished : Place[s] \in 1..5
  BY DEF Unfinished, Place, Status
<1>3. \A s \in Status : s \notin Unfinished => OrderRank[s] = 6
  BY DEF OrderRank
<1>4. \A s \in Unfinished : OrderRank[s] = GroupRank[s]
  BY DEF OrderRank, Unfinished
<1>5. FirstPresent(S) \in Unfinished
  BY FirstPresentIsLeast
<1>6. \A s \in S \cap Unfinished : Place[FirstPresent(S)] <= Place[s]
  BY FirstPresentIsLeast
<1>7. GroupRank[FirstPresent(S)] \in 0..4
  BY <1>1, <1>2, <1>5
<1>8. ASSUME NEW s \in S
      PROVE  GroupRank[FirstPresent(S)] <= OrderRank[s]
  <2>1. CASE s \in Unfinished
    BY <2>1, <1>1, <1>2, <1>4, <1>5, <1>6
  <2>2. CASE s \notin Unfinished
    BY <2>2, <1>3, <1>7
  <2> QED BY <2>1, <2>2
<1> QED BY <1>7, <1>8

(***************************************************************************)
(* Moving orders of a group along the map, one of them or many, never      *)
(* takes the derived status back (deriveGroupStatus, order-status.ts:144), *)
(* and a final status stays, in a group of any size.                       *)
(***************************************************************************)
THEOREM DeriveNeverRegresses ==
    ASSUME NEW Group, NEW before \in [Group -> Status], NEW after \in [Group -> Status],
           Group # {},
           \A x \in Group : after[x] = before[x] \/ IsTransitionAllowed(before[x], after[x])
    PROVE  LET was == DeriveGroupStatus({before[x] : x \in Group})
               is == DeriveGroupStatus({after[x] : x \in Group})
           IN  /\ GroupRank[is] >= GroupRank[was]
               /\ GroupRank[was] = 6 => is = was
<1> DEFINE S == {before[x] : x \in Group}
           T == {after[x] : x \in Group}
<1>1. /\ GroupRank["DELIVERED"] = 6 /\ GroupRank["CANCELLED"] = 6
      /\ GroupRank["PARTIALLY_DELIVERED"] = 5
  BY DEF GroupRank, GroupStatus, Status
<1>2. S \in SUBSET Status /\ T \in SUBSET Status /\ S # {} /\ T # {}
  OBVIOUS
<1>3. ASSUME NEW x \in Group
      PROVE  /\ before[x] \in S /\ after[x] \in T
             /\ before[x] \in {"DELIVERED", "CANCELLED"} => after[x] = before[x]
             /\ OrderRank[before[x]] \in Int /\ OrderRank[after[x]] \in Int
             /\ OrderRank[before[x]] <= OrderRank[after[x]]
  <2>1. /\ before[x] \in Status /\ after[x] \in Status
        /\ before[x] \in S /\ after[x] \in T
    OBVIOUS
  <2>2. after[x] = before[x] \/ after[x] \in ALLOWED_TRANSITIONS[before[x]]
    BY DEF IsTransitionAllowed
  <2> QED BY <2>1, <2>2
          DEF ALLOWED_TRANSITIONS, OrderRank, GroupRank, Unfinished, GroupStatus, Status
<1>4. \A y \in T : \E x \in Group : y = after[x]
  OBVIOUS
<1>5. \A y \in S : \E x \in Group : y = before[x]
  OBVIOUS
<1> HIDE DEF S, T
<1>6. CASE S = {"CANCELLED"} \/ S = {"DELIVERED"}
  <2>1. PICK z \in {"CANCELLED", "DELIVERED"} : S = {z}
    BY <1>6
  <2>2. T = {z}
    <3>1. \A x \in Group : before[x] = z /\ after[x] = z
      BY <1>3, <2>1
    <3>2. \A y \in T : y = z
      BY <1>4, <3>1
    <3> QED BY <1>2, <3>2
  <2>3. DeriveGroupStatus(S) = z /\ DeriveGroupStatus(T) = z
    BY <2>1, <2>2 DEF DeriveGroupStatus
  <2> QED BY <1>1, <2>3 DEF S, T
<1>7. CASE S # {"CANCELLED"} /\ S # {"DELIVERED"} /\ "DELIVERED" \in S
  <2>1. DeriveGroupStatus(S) = "PARTIALLY_DELIVERED"
    BY <1>7 DEF DeriveGroupStatus
  <2>2. "DELIVERED" \in T
    BY <1>3, <1>5, <1>7
  <2>3. DeriveGroupStatus(T) \in {"DELIVERED", "PARTIALLY_DELIVERED"}
    BY <2>2 DEF DeriveGroupStatus
  <2> QED BY <1>1, <2>1, <2>3 DEF S, T
<1>8. CASE S # {"CANCELLED"} /\ S # {"DELIVERED"} /\ "DELIVERED" \notin S
  <2>1. DeriveGroupStatus(S) = FirstPresent(S)
    BY <1>8 DEF DeriveGroupStatus
  <2>2. S \cap Unfinished # {}
    BY <1>2, <1>8 DEF Unfinished, Status
  <2>3. /\ GroupRank[FirstPresent(S)] \in 0..4
        /\ \A s \in S : GroupRank[FirstPresent(S)] <= OrderRank[s]
    BY <1>2, <2>2, RankOfFirstPresent
  <2>4. CASE T = {"CANCELLED"} \/ "DELIVERED" \in T
    <3>1. GroupRank[DeriveGroupStatus(T)] \in {5, 6}
      BY <1>1, <2>4 DEF DeriveGroupStatus
    <3> QED BY <2>1, <2>3, <3>1 DEF S, T
  <2>5. CASE T # {"CANCELLED"} /\ "DELIVERED" \notin T
    <3>1. DeriveGroupStatus(T) = FirstPresent(T)
      BY <2>5 DEF DeriveGroupStatus
    <3>2. T \cap Unfinished # {}
      BY <1>2, <2>5 DEF Unfinished, Status
    <3>3. FirstPresent(T) \in T \cap Unfinished
      BY <1>2, <3>2, FirstPresentIsLeast
    <3>4. OrderRank[FirstPresent(T)] = GroupRank[FirstPresent(T)]
      BY <3>3 DEF OrderRank, Unfinished
    <3>5. GroupRank[FirstPresent(T)] \in 0..4
      BY <1>2, <3>2, RankOfFirstPresent
    <3>6. PICK x \in Group : FirstPresent(T) = after[x]
      BY <1>4, <3>3
    <3>7. GroupRank[FirstPresent(S)] <= OrderRank[before[x]]
      BY <1>3, <2>3
    <3>8. GroupRank[FirstPresent(S)] <= GroupRank[FirstPresent(T)]
      BY <1>3, <2>3, <3>4, <3>6, <3>7
    <3> QED BY <2>1, <2>3, <3>1, <3>8 DEF S, T
  <2> QED BY <2>4, <2>5
<1> QED BY <1>6, <1>7, <1>8

-----------------------------------------------------------------------------
(* Sequences                                                               *)

LEMMA AppendFacts ==
    ASSUME NEW T, NEW s \in Seq(T), NEW v \in T
    PROVE  /\ Append(s, v) \in Seq(T)
           /\ Append(s, v) # <<>>
           /\ ToSet(Append(s, v)) = ToSet(s) \cup {v}
           /\ Last(Append(s, v)) = v
           /\ Len(Append(s, v)) = Len(s) + 1
           /\ \A i \in 1..Len(s) : Append(s, v)[i] = s[i]
<1>1. /\ Append(s, v) \in Seq(T) /\ Len(Append(s, v)) = Len(s) + 1
      /\ \A i \in 1..Len(s) : Append(s, v)[i] = s[i]
      /\ Append(s, v)[Len(s) + 1] = v
      /\ DOMAIN s = 1..Len(s) /\ DOMAIN Append(s, v) = 1..(Len(s) + 1)
      /\ Len(s) \in Nat
  OBVIOUS
<1>2. Append(s, v) # <<>> BY <1>1
<1>3. ToSet(Append(s, v)) = ToSet(s) \cup {v}
  <2>1. ASSUME NEW x \in ToSet(Append(s, v)) PROVE x \in ToSet(s) \cup {v}
    <3>1. PICK i \in 1..(Len(s) + 1) : x = Append(s, v)[i] BY <1>1 DEF ToSet
    <3>2. i \in 1..Len(s) \/ i = Len(s) + 1 BY <1>1
    <3> QED BY <1>1, <3>1, <3>2 DEF ToSet
  <2>2. ASSUME NEW x \in ToSet(s) \cup {v} PROVE x \in ToSet(Append(s, v))
    BY <1>1 DEF ToSet
  <2> QED BY <2>1, <2>2
<1> QED BY <1>1, <1>2, <1>3 DEF Last

LEMMA ConcatFacts ==
    ASSUME NEW T, NEW s \in Seq(T), NEW t \in Seq(T)
    PROVE  /\ s \o t \in Seq(T)
           /\ ToSet(s \o t) = ToSet(s) \cup ToSet(t)
<1>1. /\ s \o t \in Seq(T) /\ Len(s \o t) = Len(s) + Len(t)
      /\ \A i \in 1..Len(s) : (s \o t)[i] = s[i]
      /\ \A i \in 1..Len(t) : (s \o t)[Len(s) + i] = t[i]
      /\ DOMAIN s = 1..Len(s) /\ DOMAIN t = 1..Len(t)
      /\ DOMAIN (s \o t) = 1..(Len(s) + Len(t))
      /\ Len(s) \in Nat /\ Len(t) \in Nat
  OBVIOUS
<1>2. ASSUME NEW x \in ToSet(s \o t) PROVE x \in ToSet(s) \cup ToSet(t)
  <2>1. PICK i \in 1..(Len(s) + Len(t)) : x = (s \o t)[i] BY <1>1 DEF ToSet
  <2>2. CASE i \in 1..Len(s) BY <1>1, <2>1, <2>2 DEF ToSet
  <2>3. CASE i \notin 1..Len(s)
    <3>1. i - Len(s) \in 1..Len(t) BY <1>1, <2>3
    <3>2. i = Len(s) + (i - Len(s)) BY <1>1
    <3>3. (s \o t)[i] = t[i - Len(s)] BY <1>1, <3>1, <3>2
    <3> QED BY <1>1, <2>1, <3>1, <3>3 DEF ToSet
  <2> QED BY <2>2, <2>3
<1>3. ASSUME NEW x \in ToSet(s) \cup ToSet(t) PROVE x \in ToSet(s \o t)
  <2>1. CASE x \in ToSet(s)
    <3>1. PICK i \in 1..Len(s) : x = s[i] BY <1>1, <2>1 DEF ToSet
    <3>2. i \in 1..(Len(s) + Len(t)) BY <1>1
    <3> QED BY <1>1, <3>1, <3>2 DEF ToSet
  <2>2. CASE x \in ToSet(t)
    <3>1. PICK i \in 1..Len(t) : x = t[i] BY <1>1, <2>2 DEF ToSet
    <3>2. Len(s) + i \in 1..(Len(s) + Len(t)) BY <1>1
    <3> QED BY <1>1, <3>1, <3>2 DEF ToSet
  <2> QED BY <2>1, <2>2
<1> QED BY <1>1, <1>2, <1>3

LEMMA SeesType ==
    ASSUME TypeOK, PlansAreSound, NEW h \in Handlers, pc[h] # "idle"
    PROVE  /\ \A o \in Orders : Sees(h, o) \in Status
           /\ SeesGroup(h) \in GroupStatus
<1>1. tx[h] \in Transaction /\ req[h].target \in Status
  BY DEF TypeOK, PlansAreSound, SoundAt
<1> QED BY <1>1 DEF TypeOK, Sees, SeesGroup, Transaction

LEMMA NewGroupRowsType ==
    ASSUME NEW d \in GroupStatus, NEW c
    PROVE  /\ NewGroupRows(d, c) \in Seq(GroupStatus)
           /\ ToSet(NewGroupRows(d, c)) \subseteq {d}
           /\ d # c => ToSet(NewGroupRows(d, c)) = {d}
BY DEF NewGroupRows, ToSet

-----------------------------------------------------------------------------
(* Types                                                                   *)

TypeInv == TypeOK /\ PlansAreSound

LEMMA TypeInit == Init => TypeInv
<1> SUFFICES ASSUME Init PROVE TypeInv OBVIOUS
<1>1. NoReq \in Request
  BY DEF NoReq, Request
<1>2. NoTx \in Transaction
  BY DEF NoTx, Transaction
<1> USE DEF Init
<1>3. /\ status \in [Orders -> Status] /\ hist \in [Orders -> Seq(Status)]
      /\ group \in GroupStatus /\ ghist \in Seq(GroupStatus)
      /\ feed \in Seq(GroupStatus)
  BY DEF Status, GroupStatus
<1>4. pc \in [Handlers -> Stage] BY DEF Stage
<1>5. TypeOK
  BY <1>1, <1>2, <1>3, <1>4, MaxRequestsAssumption DEF TypeOK
<1>6. PlansAreSound
  BY NoneAssumption DEF PlansAreSound, SoundAt, NoTx, NoReq, InTx, Kind
<1> QED BY <1>5, <1>6 DEF TypeInv

\* The step of one handler leaves the other handlers alone.
OthersKeep(h) ==
    \A k \in Handlers \ {h} : pc'[k] = pc[k] /\ req'[k] = req[k] /\ tx'[k] = tx[k]

\* The step of one handler puts it into a sound state of the right type.
Local(h) ==
    /\ pc' \in [Handlers -> Stage]
    /\ req' \in [Handlers -> Request]
    /\ tx' \in [Handlers -> Transaction]
    /\ OthersKeep(h)
    /\ SoundAt(pc'[h], req'[h], tx'[h])

LEMMA LocalKeepsPlans ==
    ASSUME PlansAreSound, NEW h \in Handlers, Local(h)
    PROVE  PlansAreSound'
BY DEF Local, OthersKeep, PlansAreSound

LEMMA LeaveIsLocal ==
    ASSUME TypeInv, NEW h \in Handlers, Leave(h)
    PROVE  Local(h)
<1>1. NoReq \in Request /\ NoTx \in Transaction
  BY DEF NoReq, NoTx, Request, Transaction
<1>2. /\ pc' = [pc EXCEPT ![h] = "idle"]
      /\ req' = [req EXCEPT ![h] = NoReq]
      /\ tx' = [tx EXCEPT ![h] = NoTx]
  BY DEF Leave, Goto
<1>3. SoundAt("idle", NoReq, NoTx)
  BY NoneAssumption DEF SoundAt, NoReq, NoTx, InTx, Kind
<1> QED BY <1>1, <1>2, <1>3 DEF Local, OthersKeep, TypeInv, TypeOK, Stage

LEMMA ReadIsLocal ==
    ASSUME TypeInv, NEW h \in Handlers, NEW o \in Orders, NEW t \in Status,
           NEW kind \in Kind, ReadOrder(h, o, t) \/ ReadGroup(h, kind, t)
    PROVE  Local(h)
<1>1. PICK q \in Request : /\ q.target = t /\ q.kind \in Kind
                           /\ q.kind = "cancelMyGroup" => q.target = "CANCELLED"
                           /\ req' = [req EXCEPT ![h] = q]
  <2>1. CASE ReadOrder(h, o, t)
    <3>1. [NoReq EXCEPT !.kind = "changeStatus", !.target = t, !.plan = {o}]
             \in Request
      BY DEF NoReq, Request, Kind
    <3> QED BY <2>1, <3>1 DEF ReadOrder, NoReq, Kind
  <2>2. CASE ReadGroup(h, kind, t)
    <3>1. [NoReq EXCEPT !.kind = kind, !.target = t, !.before = group] \in Request
      BY DEF NoReq, Request, TypeInv, TypeOK
    <3> QED BY <2>2, <3>1 DEF ReadGroup, NoReq
  <2> QED BY <2>1, <2>2
<1>2. /\ pc' = [pc EXCEPT ![h] = "before"] \/ pc' = [pc EXCEPT ![h] = "load"]
      /\ tx' = tx /\ tx[h] = NoTx
  BY DEF ReadOrder, ReadGroup, Goto, TypeInv, PlansAreSound, SoundAt, InTx
<1>3. \A stage \in {"before", "load"} : SoundAt(stage, q, NoTx)
  BY <1>1 DEF SoundAt, NoTx, InTx
<1> QED BY <1>1, <1>2, <1>3 DEF Local, OthersKeep, TypeInv, TypeOK, Stage

LEMMA BeforeIsLocal ==
    ASSUME TypeInv, NEW h \in Handlers, ReadGroupBefore(h) \/ ReadOrders(h)
    PROVE  Local(h)
<1> USE DEF TypeInv, TypeOK
<1>1. /\ pc[h] # "idle" /\ pc[h] \notin InTx
      /\ tx' = tx
      /\ pc' = [pc EXCEPT ![h] = FirstStatement(req[h].target)]
  BY DEF ReadGroupBefore, ReadOrders, Goto, InTx
<1>2. /\ tx[h] = NoTx
      /\ req[h].target \in Status /\ req[h].kind \in Kind
      /\ req[h].kind = "cancelMyGroup" => req[h].target = "CANCELLED"
  BY <1>1 DEF PlansAreSound, SoundAt
<1>3. PICK q \in Request : /\ q.target = req[h].target /\ q.kind = req[h].kind
                           /\ req' = [req EXCEPT ![h] = q]
  <2>1. CASE ReadGroupBefore(h)
    <3>1. [req[h] EXCEPT !.before = group] \in Request
      BY DEF Request
    <3> QED BY <2>1, <3>1 DEF ReadGroupBefore, Request
  <2>2. CASE ReadOrders(h)
    <3>1. ToChange(req[h].kind, req[h].target) \in SUBSET Orders
      BY DEF ToChange, Active
    <3>2. [req[h] EXCEPT !.plan = ToChange(req[h].kind, req[h].target)] \in Request
      BY <3>1 DEF Request
    <3> QED BY <2>2, <3>2 DEF ReadOrders, Request
  <2> QED BY <2>1, <2>2
<1>4. FirstStatement(req[h].target) \in {"restock", "update"}
  BY DEF FirstStatement
<1>5. \A stage \in {"restock", "update"} : SoundAt(stage, q, NoTx)
  BY <1>2, <1>3 DEF SoundAt, NoTx, InTx
<1> QED BY <1>1, <1>2, <1>3, <1>4, <1>5 DEF Local, OthersKeep, Stage, InTx

LEMMA StatementIsLocal ==
    ASSUME TypeInv, NEW h \in Handlers,
           \/ Restock(h) \/ UpdateOrder(h) \/ ReadSiblings(h)
           \/ ReadCurrentGroup(h) \/ UpdateGroup(h)
    PROVE  Local(h) /\ req' = req /\ pc[h] \in InTx
<1> USE DEF TypeInv, TypeOK
<1>1. /\ req[h] \in Request /\ tx[h] \in Transaction
      /\ SoundAt(pc[h], req[h], tx[h])
      /\ pc[h] \in InTx
      /\ req' = req
  BY DEF PlansAreSound, Restock, UpdateOrder, ReadSiblings, ReadCurrentGroup,
         UpdateGroup, InTx
<1> SUFFICES \E stage \in InTx, x \in Transaction :
                 /\ pc' = [pc EXCEPT ![h] = stage]
                 /\ tx' = [tx EXCEPT ![h] = x]
                 /\ SoundAt(stage, req[h], x)
  BY <1>1 DEF Local, OthersKeep, Stage, InTx
<1>2. CASE Restock(h)
  <2>1. PICK o \in Orders : /\ Turn(h, o)
                            /\ tx' = [tx EXCEPT ![h].back = @ \cup {o}]
    BY <1>2 DEF Restock
  <2>2. [tx[h] EXCEPT !.back = @ \cup {o}] \in Transaction
    BY <1>1 DEF Transaction
  <2>3. SoundAt("update", req[h], [tx[h] EXCEPT !.back = @ \cup {o}])
    BY <1>1, <1>2, <2>1 DEF SoundAt, Transaction, Turn, Todo, InTx, Restock
  <2> QED BY <1>2, <2>1, <2>2, <2>3 DEF Restock, Goto, InTx
<1>3. CASE UpdateOrder(h)
  <2>1. PICK o \in Orders : /\ Turn(h, o)
                            /\ tx' = [tx EXCEPT ![h].done = @ \cup {o}]
    BY <1>3 DEF UpdateOrder
  <2>2. [tx[h] EXCEPT !.done = @ \cup {o}] \in Transaction
    BY <1>1 DEF Transaction
  <2>3. SoundAt("siblings", req[h], [tx[h] EXCEPT !.done = @ \cup {o}])
    BY <1>1, <1>3, <2>1 DEF SoundAt, Transaction, Turn, Todo, InTx, UpdateOrder
  <2> QED BY <1>3, <2>1, <2>2, <2>3 DEF UpdateOrder, Goto, InTx
<1>4. CASE ReadSiblings(h)
  <2> DEFINE d == DeriveGroupStatus({Sees(h, o) : o \in Orders})
  <2>1. d \in GroupStatus
    <3>1. {Sees(h, o) : o \in Orders} \in SUBSET Status
      <4>1. \A o \in Orders : Sees(h, o) \in Status
        BY <1>4, SeesType DEF ReadSiblings
      <4> QED BY <4>1
    <3>2. {Sees(h, o) : o \in Orders} # {}
      BY ZenonT(40), OrdersAssumption
    <3> QED BY <3>1, <3>2, DeriveIsTotal
  <2> HIDE DEF d
  <2>2. [tx[h] EXCEPT !.derived = d] \in Transaction
    BY <1>1, <2>1 DEF Transaction
  <2>3. SoundAt("group", req[h], [tx[h] EXCEPT !.derived = d])
    BY <1>1, <1>4, <2>1 DEF SoundAt, Transaction, InTx, ReadSiblings
  <2>4. tx' = [tx EXCEPT ![h].derived = d]
    BY <1>4 DEF ReadSiblings, d
  <2> QED BY <1>4, <2>2, <2>3, <2>4 DEF ReadSiblings, Goto, InTx
<1>5. CASE ReadCurrentGroup(h)
  <2>1. SeesGroup(h) \in GroupStatus
    BY <1>5, SeesType DEF ReadCurrentGroup
  <2>2. [tx[h] EXCEPT !.current = SeesGroup(h)] \in Transaction
    BY <1>1, <2>1 DEF Transaction
  <2>3. SoundAt("write", req[h], [tx[h] EXCEPT !.current = SeesGroup(h)])
    BY <1>1, <1>5, <2>1 DEF SoundAt, Transaction, InTx, ReadCurrentGroup
  <2> QED BY <1>5, <2>2, <2>3 DEF ReadCurrentGroup, Goto, InTx
<1>6. CASE UpdateGroup(h)
  <2> DEFINE r == NewGroupRows(tx[h].derived, tx[h].current)
             x == [tx[h] EXCEPT !.gnew = tx[h].derived, !.rows = @ \o r]
  <2>1. tx[h].derived \in GroupStatus
    BY <1>1, <1>6 DEF SoundAt, UpdateGroup
  <2>2. r \in Seq(GroupStatus)
    BY <2>1, NewGroupRowsType
  <2>3. tx[h].rows \o r \in Seq(GroupStatus)
    BY <1>1, <2>2, ConcatFacts DEF Transaction
  <2>4. x \in Transaction
    BY <1>1, <2>1, <2>3 DEF Transaction
  <2>5. NextStatement(h) \in {"commit", "restock", "update"}
    BY DEF NextStatement, FirstStatement
  <2>6. \A stage \in {"commit", "restock", "update"} : SoundAt(stage, req[h], x)
    BY <1>1, <1>6 DEF SoundAt, Transaction, InTx, UpdateGroup
  <2> QED BY <1>6, <2>4, <2>5, <2>6 DEF UpdateGroup, Goto, InTx
<1> QED BY <1>2, <1>3, <1>4, <1>5, <1>6

LEMMA AfterIsLocal ==
    ASSUME TypeInv, NEW h \in Handlers,
           Commit(h) \/ Reread(h) \/ TellSellers(h)
    PROVE  Local(h)
<1> USE DEF TypeInv, TypeOK
<1>1. /\ req[h] \in Request /\ tx[h] \in Transaction /\ NoTx \in Transaction
      /\ SoundAt(pc[h], req[h], tx[h])
  BY DEF PlansAreSound, NoTx, Transaction
<1>2. CASE Commit(h)
  <2>1. SoundAt("reread", req[h], NoTx)
    BY <1>1, <1>2 DEF SoundAt, NoTx, Commit, InTx
  <2> QED BY <1>1, <1>2, <2>1 DEF Commit, Goto, Local, OthersKeep, Stage
<1>3. CASE Reread(h)
  <2>1. [req[h] EXCEPT !.after = group] \in Request
    BY <1>1 DEF Request
  <2>2. tx[h] = NoTx
    BY <1>1, <1>3 DEF SoundAt, InTx, Reread
  <2>3. \A stage \in {"tell", "notify"} :
            SoundAt(stage, [req[h] EXCEPT !.after = group], tx[h])
    BY <1>1, <1>3, <2>2 DEF SoundAt, NoTx, InTx, Reread, Request
  <2> QED BY <1>1, <1>3, <2>1, <2>2, <2>3
          DEF Reread, Goto, Local, OthersKeep, Stage
<1>4. CASE TellSellers(h)
  <2>1. SoundAt("notify", req[h], tx[h])
    BY <1>1, <1>4 DEF SoundAt, InTx, TellSellers
  <2> QED BY <1>1, <1>4, <2>1 DEF TellSellers, Goto, Local, OthersKeep, Stage
<1> QED BY <1>2, <1>3, <1>4

\* The part of TypeOK that is about the tables and the messages.
TablesTyped ==
    /\ status \in [Orders -> Status]
    /\ hist \in [Orders -> Seq(Status)]
    /\ returned \in [Orders -> Nat]
    /\ group \in GroupStatus
    /\ ghist \in Seq(GroupStatus)
    /\ feed \in Seq(GroupStatus)
    /\ told \in [Orders -> Nat]
    /\ requests \in 0..MaxRequests

LEMMA TypeFromParts ==
    ASSUME TypeInv, NEW h \in Handlers, Local(h), TablesTyped'
    PROVE  TypeInv'
BY LocalKeepsPlans DEF TypeInv, TypeOK, Local, TablesTyped

LEMMA CommitKeepsTables ==
    ASSUME TypeInv, NEW h \in Handlers, Commit(h)
    PROVE  TablesTyped'
<1> USE DEF TypeInv, TypeOK
<1>1. /\ tx[h] \in Transaction
      /\ req[h].target \in Status
      /\ \A o \in Orders : Sees(h, o) \in Status
      /\ SeesGroup(h) \in GroupStatus
  <2>1. pc[h] # "idle" BY DEF Commit
  <2>2. SoundAt(pc[h], req[h], tx[h]) BY DEF PlansAreSound
  <2> QED BY <2>1, <2>2, SeesType DEF SoundAt
<1>2. status' \in [Orders -> Status]
  BY <1>1 DEF Commit
<1>3. hist' \in [Orders -> Seq(Status)]
  <2>1. \A o \in Orders : Append(hist[o], req[h].target) \in Seq(Status)
    BY <1>1
  <2> QED BY <2>1 DEF Commit
<1>4. returned' \in [Orders -> Nat]
  BY DEF Commit
<1>5. group' \in GroupStatus
  BY <1>1 DEF Commit
<1>6. ghist' \in Seq(GroupStatus)
  BY <1>1, ConcatFacts DEF Commit, Transaction
<1> QED BY <1>2, <1>3, <1>4, <1>5, <1>6 DEF Commit, TablesTyped, messages

LEMMA TypeStep == TypeInv /\ [Next]_vars => TypeInv'
<1> SUFFICES ASSUME TypeInv, [Next]_vars
             PROVE  TypeInv'
  OBVIOUS
<1>1. TablesTyped BY DEF TypeInv, TypeOK, TablesTyped
<1>2. UNCHANGED <<tables, messages, requests>> => TablesTyped'
  BY <1>1 DEF TablesTyped, tables, messages
<1>3. ASSUME NEW h \in Handlers, NEW o \in Orders, NEW t \in Status,
             ReadOrder(h, o, t)
      PROVE  TypeInv'
  <2>1. TablesTyped'
    BY <1>1, <1>3, MaxRequestsAssumption
       DEF ReadOrder, TablesTyped, tables, messages
  <2>2. Local(h) BY <1>3, ReadIsLocal DEF Kind
  <2> QED BY <2>1, <2>2, TypeFromParts
<1>4. ASSUME NEW h \in Handlers, NEW kind \in Kind \ {"changeStatus"},
             NEW t \in Status, ReadGroup(h, kind, t)
      PROVE  TypeInv'
  <2>1. TablesTyped'
    BY <1>1, <1>4, MaxRequestsAssumption
       DEF ReadGroup, TablesTyped, tables, messages
  <2>2. Local(h) BY <1>4, ReadIsLocal, OrdersAssumption
  <2> QED BY <2>1, <2>2, TypeFromParts
<1>5. ASSUME NEW h \in Handlers, ReadGroupBefore(h) \/ ReadOrders(h)
      PROVE  TypeInv'
  <2>1. TablesTyped' BY <1>2, <1>5 DEF ReadGroupBefore, ReadOrders
  <2> QED BY <1>5, <2>1, BeforeIsLocal, TypeFromParts
<1>6. ASSUME NEW h \in Handlers,
             \/ Restock(h) \/ UpdateOrder(h) \/ ReadSiblings(h)
             \/ ReadCurrentGroup(h) \/ UpdateGroup(h)
      PROVE  TypeInv'
  <2>1. TablesTyped'
    BY <1>2, <1>6 DEF Restock, UpdateOrder, ReadSiblings, ReadCurrentGroup,
                      UpdateGroup
  <2> QED BY <1>6, <2>1, StatementIsLocal, TypeFromParts
<1>7. ASSUME NEW h \in Handlers, Refuse(h) \/ GiveUp(h) \/ Fail(h)
      PROVE  TypeInv'
  <2>1. TablesTyped' /\ Leave(h) BY <1>2, <1>7 DEF Refuse, GiveUp, Fail
  <2> QED BY <2>1, LeaveIsLocal, TypeFromParts
<1>8. ASSUME NEW h \in Handlers, Commit(h)
      PROVE  TypeInv'
  BY <1>8, CommitKeepsTables, AfterIsLocal, TypeFromParts
<1>9. ASSUME NEW h \in Handlers, Reread(h)
      PROVE  TypeInv'
  <2>1. TablesTyped' BY <1>2, <1>9 DEF Reread
  <2> QED BY <1>9, <2>1, AfterIsLocal, TypeFromParts
<1>10. ASSUME NEW h \in Handlers, TellSellers(h)
       PROVE  TypeInv'
  <2>1. told' \in [Orders -> Nat]
    BY <1>1, <1>10 DEF TellSellers, TablesTyped
  <2>2. TablesTyped' BY <1>1, <1>10, <2>1 DEF TellSellers, TablesTyped, tables
  <2> QED BY <1>10, <2>2, AfterIsLocal, TypeFromParts
<1>11. ASSUME NEW h \in Handlers, Notify(h)
       PROVE  TypeInv'
  <2>1. Leave(h) BY <1>11 DEF Notify
  <2>2. feed' \in Seq(GroupStatus)
    <3>1. feed \in Seq(GroupStatus)
      BY DEF TypeInv, TypeOK
    <3>2. req[h].after \in GroupStatus
      BY <1>11 DEF Notify, TypeInv, PlansAreSound, SoundAt
    <3> QED BY <1>11, <3>1, <3>2 DEF Notify
  <2>3. TablesTyped' BY <1>1, <1>11, <2>2 DEF Notify, TablesTyped, tables
  <2> QED BY <2>1, <2>3, LeaveIsLocal, TypeFromParts
<1>12. CASE UNCHANGED vars
  BY <1>12 DEF vars, tables, messages, TypeInv, TypeOK, PlansAreSound, SoundAt
<1> QED BY <1>3, <1>4, <1>5, <1>6, <1>7, <1>8, <1>9, <1>10, <1>11, <1>12
        DEF Next, Serve

\* Every variable keeps its type, for any number of orders, handlers and
\* requests.
THEOREM TypeCorrect == Spec => []TypeOK
<1>1. TypeInv => TypeOK BY DEF TypeInv
<1> QED BY <1>1, TypeInit, TypeStep, PTL DEF Spec

LEMMA TypeInvariant == Spec => []TypeInv
BY TypeInit, TypeStep, PTL DEF Spec

-----------------------------------------------------------------------------
(* No step is skipped                                                      *)

HistInv == PlansAreJustified /\ StatusIsLastEntry /\ NoStepIsSkipped

LEMMA HistInit == Init => HistInv
BY DEF Init, HistInv, PlansAreJustified, StatusIsLastEntry, NoStepIsSkipped,
       InTx, Last

\* What order o is now, it is in its history.
LEMMA StatusJustifies ==
    ASSUME TypeInv, StatusIsLastEntry, NEW o \in Orders, NEW t,
           IsTransitionAllowed(status[o], t)
    PROVE  Justified(o, t)
<1>1. hist[o] \in Seq(Status) /\ hist[o] # <<>>
  BY DEF TypeInv, TypeOK, StatusIsLastEntry
<1>2. Len(hist[o]) \in DOMAIN hist[o]
  BY <1>1
<1> QED BY <1>2 DEF StatusIsLastEntry, Justified, Last

\* What MayStart lets through is justified by what the orders are now.
LEMMA MayStartJustifies ==
    ASSUME TypeInv, StatusIsLastEntry, NEW h \in Handlers, pc[h] = "load",
           MayStart(req[h].kind, req[h].target),
           NEW o \in ToChange(req[h].kind, req[h].target)
    PROVE  Justified(o, req[h].target)
<1>1. o \in Orders BY DEF ToChange, Active
<1>2. req[h].kind = "cancelMyGroup" => req[h].target = "CANCELLED"
  BY DEF TypeInv, PlansAreSound, SoundAt
<1>3. IsTransitionAllowed(status[o], req[h].target)
  <2>1. CASE req[h].kind = "cancelMyGroup"
    <3>1. status[o] \in {"NEW", "CONFIRMED"}
      BY <2>1 DEF MayStart
    <3> QED BY <1>2, <2>1, <3>1
            DEF IsTransitionAllowed, ALLOWED_TRANSITIONS, Status
  <2>2. CASE req[h].kind # "cancelMyGroup"
    BY <2>2 DEF MayStart
  <2> QED BY <2>1, <2>2
<1> QED BY <1>1, <1>3, StatusJustifies

\* A commit appends the target to the history of the orders it has changed.
LEMMA CommitAppends ==
    ASSUME TypeInv, NEW h \in Handlers, Commit(h), NEW o \in Orders
    PROVE  /\ hist[o] \in Seq(Status) /\ hist'[o] \in Seq(Status)
           /\ req[h].target \in Status
           /\ o \in tx[h].done => /\ hist'[o] = Append(hist[o], req[h].target)
                                  /\ status'[o] = req[h].target
                                  /\ o \in req[h].plan
           /\ o \notin tx[h].done => /\ hist'[o] = hist[o]
                                     /\ status'[o] = status[o]
           /\ \A j \in DOMAIN hist[o] :
                  j \in DOMAIN hist'[o] /\ hist'[o][j] = hist[o][j]
           /\ ToSet(hist'[o]) = ToSet(hist[o]) \cup
                  (IF o \in tx[h].done THEN {req[h].target} ELSE {})
<1>1. hist[o] \in Seq(Status) BY DEF TypeInv, TypeOK
<1>2. /\ req[h].target \in Status
      /\ tx[h].done \subseteq req[h].plan
  BY DEF TypeInv, PlansAreSound, SoundAt, Commit
<1>3. CASE o \in tx[h].done
  <2>1. /\ hist'[o] = Append(hist[o], req[h].target)
        /\ status'[o] = req[h].target
    BY <1>3 DEF Commit, Sees
  <2>2. /\ Append(hist[o], req[h].target) \in Seq(Status)
        /\ ToSet(Append(hist[o], req[h].target))
             = ToSet(hist[o]) \cup {req[h].target}
        /\ \A j \in DOMAIN hist[o] :
             /\ j \in DOMAIN Append(hist[o], req[h].target)
             /\ Append(hist[o], req[h].target)[j] = hist[o][j]
    BY <1>1, <1>2, AppendFacts
  <2> QED BY <1>1, <1>2, <1>3, <2>1, <2>2
<1>4. CASE o \notin tx[h].done
  BY <1>1, <1>2, <1>4 DEF Commit, Sees
<1> QED BY <1>3, <1>4

LEMMA CommitKeepsHist ==
    ASSUME TypeInv, HistInv, NEW h \in Handlers, Commit(h)
    PROVE  HistInv'
<1>1. pc[h] \in InTx BY DEF Commit, InTx
<1>2. PlansAreJustified'
  <2> SUFFICES ASSUME NEW k \in Handlers, pc'[k] \in {"before"} \cup InTx,
                      NEW o \in req'[k].plan
               PROVE  \E j \in DOMAIN hist'[o] :
                          IsTransitionAllowed(hist'[o][j], req'[k].target)
    BY DEF PlansAreJustified, Justified
  <2>1. req' = req /\ k # h /\ pc'[k] = pc[k]
    BY DEF Commit, Goto, InTx, TypeInv, TypeOK
  <2>2. o \in Orders
    BY <2>1 DEF TypeInv, TypeOK, Request
  <2>3. PICK j \in DOMAIN hist[o] :
            IsTransitionAllowed(hist[o][j], req[k].target)
    BY <2>1 DEF HistInv, PlansAreJustified, Justified
  <2>4. j \in DOMAIN hist'[o] /\ hist'[o][j] = hist[o][j]
    BY <2>2, CommitAppends
  <2> QED BY <2>1, <2>3, <2>4
<1>3. ASSUME NEW o \in Orders
      PROVE  /\ hist'[o] # <<>> /\ status'[o] = Last(hist'[o])
             /\ \A i \in 2..Len(hist'[o]) : \E j \in 1..(i - 1) :
                    IsTransitionAllowed(hist'[o][j], hist'[o][i])
  <2>1. /\ hist[o] # <<>> /\ status[o] = Last(hist[o])
        /\ \A i \in 2..Len(hist[o]) : \E j \in 1..(i - 1) :
               IsTransitionAllowed(hist[o][j], hist[o][i])
    BY DEF HistInv, StatusIsLastEntry, NoStepIsSkipped
  <2>2. CASE o \notin tx[h].done
    BY <2>1, <2>2, CommitAppends
  <2>3. CASE o \in tx[h].done
    <3> DEFINE s == hist[o]
               t == req[h].target
    <3>1. /\ s \in Seq(Status) /\ t \in Status /\ o \in req[h].plan
          /\ hist'[o] = Append(s, t) /\ status'[o] = t
      BY <2>3, CommitAppends
    <3>2. /\ Append(s, t) # <<>> /\ Last(Append(s, t)) = t
          /\ Len(Append(s, t)) = Len(s) + 1
          /\ \A i \in 1..Len(s) : Append(s, t)[i] = s[i]
      BY <3>1, AppendFacts
    <3>3. PICK j \in DOMAIN s : IsTransitionAllowed(s[j], t)
      BY <1>1, <3>1 DEF HistInv, PlansAreJustified, Justified
    <3>4. j \in 1..Len(s) /\ Len(s) \in Nat
      BY <3>1
    <3> HIDE DEF s, t
    <3>5. ASSUME NEW i \in 2..(Len(s) + 1)
          PROVE  \E m \in 1..(i - 1) :
                     IsTransitionAllowed(Append(s, t)[m], Append(s, t)[i])
      <4>1. CASE i = Len(s) + 1
        <5>1. Append(s, t)[i] = t
          BY <3>1, <4>1
        <5>2. j \in 1..(i - 1) /\ Append(s, t)[j] = s[j]
          BY <3>2, <3>4, <4>1
        <5> QED BY <3>3, <5>1, <5>2
      <4>2. CASE i # Len(s) + 1
        <5>1. i \in 2..Len(s) BY <3>4, <4>2
        <5>2. PICK m \in 1..(i - 1) : IsTransitionAllowed(s[m], s[i])
          BY <2>1, <5>1 DEF s
        <5>3. Append(s, t)[m] = s[m] /\ Append(s, t)[i] = s[i]
          BY <3>2, <3>4, <5>1
        <5> QED BY <5>2, <5>3
      <4> QED BY <4>1, <4>2
    <3> QED BY <3>1, <3>2, <3>5
  <2> QED BY <2>2, <2>3
<1> QED BY <1>2, <1>3 DEF HistInv, StatusIsLastEntry, NoStepIsSkipped

\* Steps that leave the tables alone keep the histories; what remains to show
\* is that the handler that moved still has a justified plan.
LEMMA FrameKeepsHist ==
    ASSUME HistInv, NEW h \in Handlers, OthersKeep(h), UNCHANGED tables,
           pc'[h] \in {"before"} \cup InTx =>
               \A o \in req'[h].plan : Justified(o, req'[h].target)
    PROVE  HistInv'
<1>1. hist' = hist /\ status' = status
  BY DEF tables
<1>2. PlansAreJustified'
  BY <1>1 DEF HistInv, PlansAreJustified, Justified, OthersKeep
<1> QED BY <1>1, <1>2 DEF HistInv, StatusIsLastEntry, NoStepIsSkipped

LEMMA HistStep == TypeInv /\ HistInv /\ [Next]_vars => HistInv'
<1> SUFFICES ASSUME TypeInv, HistInv, [Next]_vars
             PROVE  HistInv'
  OBVIOUS
<1>1. StatusIsLastEntry BY DEF HistInv
<1>2. ASSUME NEW h \in Handlers, NEW o \in Orders, NEW t \in Status,
             ReadOrder(h, o, t)
      PROVE  HistInv'
  <2>1. Local(h) BY <1>2, ReadIsLocal DEF Kind
  <2>2. req'[h].plan = {o} /\ req'[h].target = t
    BY <1>2 DEF ReadOrder, NoReq, TypeInv, TypeOK
  <2>3. Justified(o, t)
    BY <1>1, <1>2, StatusJustifies DEF ReadOrder
  <2> QED BY <1>2, <2>1, <2>2, <2>3, FrameKeepsHist DEF Local, ReadOrder
<1>3. ASSUME NEW h \in Handlers, NEW kind \in Kind \ {"changeStatus"},
             NEW t \in Status, ReadGroup(h, kind, t)
      PROVE  HistInv'
  <2>1. Local(h) BY <1>3, ReadIsLocal, OrdersAssumption
  <2>2. pc'[h] = "load" BY <1>3 DEF ReadGroup, Goto, TypeInv, TypeOK
  <2> QED BY <1>3, <2>1, <2>2, FrameKeepsHist DEF Local, ReadGroup, InTx
<1>4. ASSUME NEW h \in Handlers, ReadGroupBefore(h)
      PROVE  HistInv'
  <2>1. Local(h) BY <1>4, BeforeIsLocal
  <2>2. req'[h].plan = req[h].plan /\ req'[h].target = req[h].target
    BY <1>4 DEF ReadGroupBefore, TypeInv, TypeOK, Request
  <2>3. \A o \in req[h].plan : Justified(o, req[h].target)
    BY <1>4 DEF ReadGroupBefore, HistInv, PlansAreJustified
  <2> QED BY <1>4, <2>1, <2>2, <2>3, FrameKeepsHist DEF Local, ReadGroupBefore
<1>5. ASSUME NEW h \in Handlers, ReadOrders(h)
      PROVE  HistInv'
  <2>1. Local(h) BY <1>5, BeforeIsLocal
  <2>2. /\ req'[h].plan = ToChange(req[h].kind, req[h].target)
        /\ req'[h].target = req[h].target
    BY <1>5 DEF ReadOrders, TypeInv, TypeOK, Request
  <2>3. \A o \in req'[h].plan : Justified(o, req[h].target)
    BY <1>1, <1>5, <2>2, MayStartJustifies DEF ReadOrders
  <2> QED BY <1>5, <2>1, <2>2, <2>3, FrameKeepsHist DEF Local, ReadOrders
<1>6. ASSUME NEW h \in Handlers,
             \/ Restock(h) \/ UpdateOrder(h) \/ ReadSiblings(h)
             \/ ReadCurrentGroup(h) \/ UpdateGroup(h)
      PROVE  HistInv'
  <2>1. Local(h) /\ req' = req /\ pc[h] \in InTx BY <1>6, StatementIsLocal
  <2>2. UNCHANGED tables
    BY <1>6 DEF Restock, UpdateOrder, ReadSiblings, ReadCurrentGroup, UpdateGroup
  <2>3. \A o \in req[h].plan : Justified(o, req[h].target)
    BY <2>1 DEF HistInv, PlansAreJustified
  <2> QED BY <2>1, <2>2, <2>3, FrameKeepsHist DEF Local
<1>7. ASSUME NEW h \in Handlers,
             Refuse(h) \/ GiveUp(h) \/ Fail(h) \/ Notify(h)
      PROVE  HistInv'
  <2>1. Leave(h) /\ UNCHANGED tables
    BY <1>7 DEF Refuse, GiveUp, Fail, Notify
  <2>2. Local(h) /\ pc'[h] = "idle"
    BY <2>1, LeaveIsLocal DEF Leave, Goto, TypeInv, TypeOK
  <2> QED BY <2>1, <2>2, FrameKeepsHist DEF Local, InTx
<1>8. ASSUME NEW h \in Handlers, Commit(h)
      PROVE  HistInv'
  BY <1>8, CommitKeepsHist
<1>9. ASSUME NEW h \in Handlers, Reread(h) \/ TellSellers(h)
      PROVE  HistInv'
  <2>1. Local(h) BY <1>9, AfterIsLocal
  <2>2. pc'[h] \in {"tell", "notify"} /\ UNCHANGED tables
    BY <1>9 DEF Reread, TellSellers, Goto, TypeInv, TypeOK
  <2> QED BY <2>1, <2>2, FrameKeepsHist DEF Local, InTx
<1>10. CASE UNCHANGED vars
  BY <1>10 DEF vars, tables, HistInv, PlansAreJustified, Justified,
               StatusIsLastEntry, NoStepIsSkipped
<1> QED BY <1>2, <1>3, <1>4, <1>5, <1>6, <1>7, <1>8, <1>9, <1>10 DEF Next, Serve

\* However requests overlap, fail or are repeated, no order reaches a status
\* without having earlier been in one that leads to it.
THEOREM NoStepSkipped == Spec => []NoStepIsSkipped
<1>1. HistInv => NoStepIsSkipped BY DEF HistInv
<1> QED BY <1>1, TypeInvariant, HistInit, HistStep, PTL DEF Spec

-----------------------------------------------------------------------------
(* The feed and the history of the group                                   *)

LEMMA RecordedInit == Init => GroupValuesAreRecorded
BY DEF Init, GroupValuesAreRecorded, FeedIsInHistory, RecordedAt, NoTx, NoReq,
       ToSet

LEMMA FrameKeepsRecorded ==
    ASSUME GroupValuesAreRecorded, NEW h \in Handlers, OthersKeep(h),
           UNCHANGED tables, UNCHANGED feed, RecordedAt(req'[h], tx'[h])
    PROVE  GroupValuesAreRecorded'
<1>1. group' = group /\ ghist' = ghist
  BY DEF tables
<1>2. FeedIsInHistory'
  BY <1>1 DEF GroupValuesAreRecorded, FeedIsInHistory
<1>3. ASSUME NEW k \in Handlers
      PROVE  RecordedAt(req[k], tx[k])'
  BY <1>1 DEF GroupValuesAreRecorded, RecordedAt, OthersKeep
<1> QED BY <1>2, <1>3 DEF GroupValuesAreRecorded

LEMMA SeesRecorded ==
    ASSUME TypeInv, GroupValuesAreRecorded, NEW h \in Handlers
    PROVE  SeesGroup(h) \in ToSet(ghist) \cup ToSet(tx[h].rows)
BY DEF GroupValuesAreRecorded, FeedIsInHistory, RecordedAt, SeesGroup

LEMMA UpdateGroupRecords ==
    ASSUME TypeInv, GroupValuesAreRecorded, NEW h \in Handlers, UpdateGroup(h)
    PROVE  RecordedAt(req'[h], tx'[h])
<1> DEFINE d == tx[h].derived
           c == tx[h].current
           r == NewGroupRows(d, c)
<1>1. /\ tx[h] \in Transaction /\ d \in GroupStatus /\ c \in GroupStatus
      /\ RecordedAt(req[h], tx[h])
  BY DEF TypeInv, TypeOK, PlansAreSound, SoundAt, UpdateGroup,
         GroupValuesAreRecorded
<1>2. /\ req' = req
      /\ tx'[h] = [tx[h] EXCEPT !.gnew = d, !.rows = @ \o r]
  BY DEF UpdateGroup, TypeInv, TypeOK
<1>3. /\ tx'[h].current = c /\ tx'[h].gnew = d
      /\ tx'[h].rows = tx[h].rows \o r
  BY <1>1, <1>2 DEF Transaction
<1>4. /\ r \in Seq(GroupStatus)
      /\ d # c => ToSet(r) = {d}
  BY <1>1, NewGroupRowsType
<1>5. ToSet(tx[h].rows \o r) = ToSet(tx[h].rows) \cup ToSet(r)
  BY <1>1, <1>4, ConcatFacts DEF Transaction
<1>6. c \in ToSet(ghist) \cup ToSet(tx[h].rows)
  BY <1>1, NoneAssumption DEF RecordedAt
<1>7. d \in ToSet(ghist) \cup ToSet(tx[h].rows \o r)
  BY <1>4, <1>5, <1>6
<1> QED BY <1>1, <1>2, <1>3, <1>5, <1>6, <1>7 DEF RecordedAt

LEMMA StatementRecords ==
    ASSUME TypeInv, GroupValuesAreRecorded, NEW h \in Handlers,
           \/ Restock(h) \/ UpdateOrder(h) \/ ReadSiblings(h)
           \/ ReadCurrentGroup(h) \/ UpdateGroup(h)
    PROVE  RecordedAt(req'[h], tx'[h])
<1>1. tx[h] \in Transaction /\ RecordedAt(req[h], tx[h])
  BY DEF TypeInv, TypeOK, GroupValuesAreRecorded
<1>2. CASE Restock(h) \/ UpdateOrder(h) \/ ReadSiblings(h)
  <2>1. /\ req' = req
        /\ tx'[h].current = tx[h].current /\ tx'[h].gnew = tx[h].gnew
        /\ tx'[h].rows = tx[h].rows
    BY <1>1, <1>2
       DEF Restock, UpdateOrder, ReadSiblings, TypeInv, TypeOK, Transaction
  <2> QED BY <1>1, <2>1 DEF RecordedAt
<1>3. CASE ReadCurrentGroup(h)
  <2>1. /\ req' = req
        /\ tx'[h].current = SeesGroup(h) /\ tx'[h].gnew = tx[h].gnew
        /\ tx'[h].rows = tx[h].rows
    BY <1>1, <1>3 DEF ReadCurrentGroup, TypeInv, TypeOK, Transaction
  <2> QED BY <1>1, <2>1, SeesRecorded DEF RecordedAt
<1> QED BY <1>2, <1>3, UpdateGroupRecords

LEMMA CommitRecords ==
    ASSUME TypeInv, GroupValuesAreRecorded, NEW h \in Handlers, Commit(h)
    PROVE  GroupValuesAreRecorded'
<1>1. /\ ghist' = ghist \o tx[h].rows /\ group' = SeesGroup(h)
      /\ req' = req /\ feed' = feed /\ tx'[h] = NoTx
      /\ \A k \in Handlers \ {h} : tx'[k] = tx[k]
  BY DEF Commit, messages, TypeInv, TypeOK
<1>2. ToSet(ghist') = ToSet(ghist) \cup ToSet(tx[h].rows)
  BY <1>1, ConcatFacts DEF TypeInv, TypeOK, Transaction
<1>3. FeedIsInHistory'
  BY <1>1, <1>2, SeesRecorded DEF GroupValuesAreRecorded, FeedIsInHistory
<1>4. ASSUME NEW k \in Handlers
      PROVE  RecordedAt(req[k], tx[k])'
  BY <1>1, <1>2 DEF GroupValuesAreRecorded, RecordedAt, NoTx
<1> QED BY <1>3, <1>4 DEF GroupValuesAreRecorded

LEMMA NotifyRecords ==
    ASSUME TypeInv, GroupValuesAreRecorded, NEW h \in Handlers, Notify(h)
    PROVE  GroupValuesAreRecorded'
<1>1. /\ ghist' = ghist /\ group' = group
      /\ req' = [req EXCEPT ![h] = NoReq] /\ tx' = [tx EXCEPT ![h] = NoTx]
  BY DEF Notify, Leave, tables
<1>2. req[h].after \in GroupStatus /\ req[h].after \in ToSet(ghist)
  BY NoneAssumption DEF Notify, TypeInv, PlansAreSound, SoundAt,
                        GroupValuesAreRecorded, RecordedAt
<1>3. ToSet(feed') \subseteq ToSet(feed) \cup {req[h].after}
  <2>1. feed \in Seq(GroupStatus) BY DEF TypeInv, TypeOK
  <2> QED BY <1>2, <2>1, AppendFacts DEF Notify
<1>4. FeedIsInHistory'
  BY <1>1, <1>2, <1>3 DEF GroupValuesAreRecorded, FeedIsInHistory
<1>5. ASSUME NEW k \in Handlers
      PROVE  RecordedAt(req[k], tx[k])'
  BY <1>1 DEF GroupValuesAreRecorded, RecordedAt, NoTx, NoReq, TypeInv, TypeOK
<1> QED BY <1>4, <1>5 DEF GroupValuesAreRecorded

LEMMA RecordedStep ==
    TypeInv /\ GroupValuesAreRecorded /\ [Next]_vars => GroupValuesAreRecorded'
<1> SUFFICES ASSUME TypeInv, GroupValuesAreRecorded, [Next]_vars
             PROVE  GroupValuesAreRecorded'
  OBVIOUS
<1>1. \A h \in Handlers : RecordedAt(req[h], tx[h])
  BY DEF GroupValuesAreRecorded
<1>2. RecordedAt(NoReq, NoTx)
  BY DEF RecordedAt, NoReq, NoTx
<1>3. ASSUME NEW h \in Handlers, NEW o \in Orders, NEW t \in Status,
             NEW kind \in Kind, ReadOrder(h, o, t) \/ ReadGroup(h, kind, t)
      PROVE  GroupValuesAreRecorded'
  <2>1. Local(h) BY <1>3, ReadIsLocal
  <2>2. req'[h].after = None /\ tx'[h] = tx[h]
    BY <1>3 DEF ReadOrder, ReadGroup, NoReq, TypeInv, TypeOK
  <2>3. RecordedAt(req'[h], tx'[h])
    BY <1>1, <2>2 DEF RecordedAt
  <2> QED BY <1>3, <2>1, <2>3, FrameKeepsRecorded
          DEF Local, ReadOrder, ReadGroup, messages
<1>4. ASSUME NEW h \in Handlers, ReadGroupBefore(h) \/ ReadOrders(h)
      PROVE  GroupValuesAreRecorded'
  <2>1. Local(h) BY <1>4, BeforeIsLocal
  <2>2. req'[h].after = req[h].after /\ tx'[h] = tx[h]
    BY <1>4 DEF ReadGroupBefore, ReadOrders, TypeInv, TypeOK, Request
  <2>3. RecordedAt(req'[h], tx'[h])
    BY <1>1, <2>2 DEF RecordedAt
  <2> QED BY <1>4, <2>1, <2>3, FrameKeepsRecorded
          DEF Local, ReadGroupBefore, ReadOrders, messages
<1>5. ASSUME NEW h \in Handlers,
             \/ Restock(h) \/ UpdateOrder(h) \/ ReadSiblings(h)
             \/ ReadCurrentGroup(h) \/ UpdateGroup(h)
      PROVE  GroupValuesAreRecorded'
  <2>1. Local(h) BY <1>5, StatementIsLocal
  <2>2. UNCHANGED tables /\ UNCHANGED feed
    BY <1>5 DEF Restock, UpdateOrder, ReadSiblings, ReadCurrentGroup,
                UpdateGroup, messages
  <2> QED BY <1>5, <2>1, <2>2, StatementRecords, FrameKeepsRecorded DEF Local
<1>6. ASSUME NEW h \in Handlers, Refuse(h) \/ GiveUp(h) \/ Fail(h)
      PROVE  GroupValuesAreRecorded'
  <2>1. Leave(h) /\ UNCHANGED tables /\ UNCHANGED feed
    BY <1>6 DEF Refuse, GiveUp, Fail, messages
  <2>2. Local(h) /\ req'[h] = NoReq /\ tx'[h] = NoTx
    BY <2>1, LeaveIsLocal DEF Leave, TypeInv, TypeOK
  <2> QED BY <1>2, <2>1, <2>2, FrameKeepsRecorded DEF Local
<1>7. ASSUME NEW h \in Handlers, Reread(h) \/ TellSellers(h)
      PROVE  GroupValuesAreRecorded'
  <2>1. Local(h) BY <1>7, AfterIsLocal
  <2>2. /\ UNCHANGED tables /\ UNCHANGED feed /\ tx'[h] = tx[h]
        /\ req'[h].after \in {req[h].after, group}
    BY <1>7 DEF Reread, TellSellers, messages, TypeInv, TypeOK, Request
  <2>3. RecordedAt(req'[h], tx'[h])
    BY <1>1, <2>2 DEF RecordedAt, GroupValuesAreRecorded, FeedIsInHistory
  <2> QED BY <2>1, <2>2, <2>3, FrameKeepsRecorded DEF Local
<1>8. CASE UNCHANGED vars
  BY <1>8 DEF vars, tables, messages, GroupValuesAreRecorded, FeedIsInHistory,
              RecordedAt
<1>9. ASSUME NEW h \in Handlers, Commit(h) \/ Notify(h)
      PROVE  GroupValuesAreRecorded'
  BY <1>9, CommitRecords, NotifyRecords
<1> QED BY <1>3, <1>4, <1>5, <1>6, <1>7, <1>8, <1>9, OrdersAssumption
        DEF Next, Serve, Kind

\* The customer is only ever told of statuses that are in the group's history,
\* and the group itself is always in one of them.
THEOREM FeedInHistory == Spec => []FeedIsInHistory
<1>1. GroupValuesAreRecorded => FeedIsInHistory
  BY DEF GroupValuesAreRecorded
<1> QED BY <1>1, TypeInvariant, RecordedInit, RecordedStep, PTL DEF Spec

-----------------------------------------------------------------------------
(* The status of the group is derived from statuses that were had          *)

LEMMA MoreWitnesses ==
    ASSUME NEW had, NEW more, \A o \in Orders : had[o] \subseteq more[o],
           NEW g, WitnessedBy(had, g)
    PROVE  WitnessedBy(more, g)
BY DEF WitnessedBy

LEMMA WitnessedInit == Init => DerivedIsWitnessed
<1> SUFFICES ASSUME Init PROVE DerivedIsWitnessed OBVIOUS
<1>1. GroupStatusIsWitnessed
  <2> DEFINE was == [o \in Orders |-> "NEW"]
  <2>1. was \in [Orders -> Status] BY DEF Status
  <2>2. \A o \in Orders : was[o] \in ToSet(hist[o])
    BY DEF Init, ToSet
  <2>3. {was[o] : o \in Orders} = {"NEW"}
    BY OrdersAssumption
  <2>4. DeriveGroupStatus({"NEW"}) = "NEW"
    <3>1. {"NEW"} \in SUBSET Status /\ {"NEW"} \cap Unfinished = {"NEW"}
      BY DEF Status, Unfinished
    <3>2. FirstPresent({"NEW"}) = "NEW"
      BY <3>1, FirstPresentIsLeast
    <3> QED BY <3>2 DEF DeriveGroupStatus
  <2>5. group = DeriveGroupStatus({was[o] : o \in Orders})
    BY <2>3, <2>4 DEF Init
  <2>6. \A o \in Orders : was[o] \in [p \in Orders |-> ToSet(hist[p])][o]
    BY <2>2
  <2> HIDE DEF was
  <2> QED BY <2>1, <2>5, <2>6 DEF GroupStatusIsWitnessed, WitnessedBy
<1>2. \A h \in Handlers : DerivedAt(req[h], tx[h])
  BY DEF Init, DerivedAt, NoTx
<1> QED BY <1>1, <1>2 DEF DerivedIsWitnessed

\* Steps that leave the tables alone keep every witness; what remains to show
\* is that the handler that moved has one for what it has derived.
LEMMA FrameKeepsWitnesses ==
    ASSUME DerivedIsWitnessed, NEW h \in Handlers, OthersKeep(h),
           UNCHANGED tables, DerivedAt(req'[h], tx'[h])
    PROVE  DerivedIsWitnessed'
<1>1. hist' = hist /\ group' = group
  BY DEF tables
<1>2. GroupStatusIsWitnessed'
  BY <1>1 DEF DerivedIsWitnessed, GroupStatusIsWitnessed
<1>3. ASSUME NEW k \in Handlers
      PROVE  DerivedAt(req[k], tx[k])'
  <2>1. DerivedAt(req'[k], tx'[k])
    BY DEF OthersKeep, DerivedIsWitnessed
  <2> QED BY <1>1, <2>1 DEF DerivedAt, Had
<1> QED BY <1>2, <1>3 DEF DerivedIsWitnessed

\* What a transaction derives, its own view of the orders is a witness of.
LEMMA ViewIsWitness ==
    ASSUME TypeInv, StatusIsLastEntry, NEW h \in Handlers, pc[h] # "idle"
    PROVE  WitnessedBy(Had(req[h], tx[h]),
                       DeriveGroupStatus({Sees(h, o) : o \in Orders}))
<1> DEFINE was == [o \in Orders |-> Sees(h, o)]
<1>1. was \in [Orders -> Status]
  BY SeesType DEF TypeInv
<1>2. ASSUME NEW o \in Orders
      PROVE  was[o] \in Had(req[h], tx[h])[o]
  <2>1. CASE o \in tx[h].done
    BY <2>1 DEF Had, Sees
  <2>2. CASE o \notin tx[h].done
    <3>1. hist[o] \in Seq(Status) /\ hist[o] # <<>> /\ status[o] = Last(hist[o])
      BY DEF TypeInv, TypeOK, StatusIsLastEntry
    <3>2. status[o] \in ToSet(hist[o])
      BY <3>1 DEF ToSet, Last
    <3> QED BY <2>2, <3>2 DEF Had, Sees
  <2> QED BY <2>1, <2>2
<1>3. {was[o] : o \in Orders} = {Sees(h, o) : o \in Orders}
  OBVIOUS
<1> HIDE DEF was
<1> QED BY <1>1, <1>2, <1>3 DEF WitnessedBy

LEMMA StatementWitnesses ==
    ASSUME TypeInv, StatusIsLastEntry, DerivedIsWitnessed, NEW h \in Handlers,
           \/ Restock(h) \/ UpdateOrder(h) \/ ReadSiblings(h)
           \/ ReadCurrentGroup(h) \/ UpdateGroup(h)
    PROVE  DerivedAt(req'[h], tx'[h])
<1>1. tx[h] \in Transaction /\ DerivedAt(req[h], tx[h]) /\ req' = req
  BY StatementIsLocal DEF TypeInv, TypeOK, DerivedIsWitnessed
<1>2. CASE Restock(h) \/ ReadCurrentGroup(h)
  <2>1. /\ tx'[h].done = tx[h].done /\ tx'[h].derived = tx[h].derived
        /\ tx'[h].gnew = tx[h].gnew
    BY <1>1, <1>2 DEF Restock, ReadCurrentGroup, TypeInv, TypeOK, Transaction
  <2> QED BY <1>1, <2>1 DEF DerivedAt, Had
<1>3. CASE UpdateOrder(h)
  <2>1. PICK p \in Orders : tx' = [tx EXCEPT ![h].done = @ \cup {p}]
    BY <1>3 DEF UpdateOrder
  <2>2. /\ tx'[h].done = tx[h].done \cup {p}
        /\ tx'[h].derived = tx[h].derived /\ tx'[h].gnew = tx[h].gnew
    BY <1>1, <2>1 DEF TypeInv, TypeOK, Transaction
  <2>3. \A o \in Orders : Had(req[h], tx[h])[o] \subseteq Had(req[h], tx'[h])[o]
    BY <2>2 DEF Had
  <2> QED BY <1>1, <2>2, <2>3, MoreWitnesses DEF DerivedAt
<1>4. CASE ReadSiblings(h)
  <2> DEFINE d == DeriveGroupStatus({Sees(h, o) : o \in Orders})
  <2>1. WitnessedBy(Had(req[h], tx[h]), d)
    BY <1>4, ViewIsWitness DEF ReadSiblings
  <2>2. tx' = [tx EXCEPT ![h].derived = d]
    BY <1>4 DEF ReadSiblings
  <2> HIDE DEF d
  <2>3. /\ tx'[h].done = tx[h].done /\ tx'[h].derived = d
        /\ tx'[h].gnew = tx[h].gnew
    BY <1>1, <2>2 DEF TypeInv, TypeOK, Transaction
  <2>4. Had(req[h], tx'[h]) = Had(req[h], tx[h])
    BY <2>3 DEF Had
  <2> QED BY <1>1, <2>1, <2>3, <2>4 DEF DerivedAt
<1>5. CASE UpdateGroup(h)
  <2>1. /\ tx'[h].done = tx[h].done /\ tx'[h].derived = tx[h].derived
        /\ tx'[h].gnew = tx[h].derived
    BY <1>1, <1>5 DEF UpdateGroup, TypeInv, TypeOK, Transaction
  <2>2. tx[h].derived # None
    BY <1>5, NoneAssumption DEF UpdateGroup, TypeInv, PlansAreSound, SoundAt
  <2>3. Had(req[h], tx'[h]) = Had(req[h], tx[h])
    BY <2>1 DEF Had
  <2> QED BY <1>1, <2>1, <2>2, <2>3 DEF DerivedAt
<1> QED BY <1>2, <1>3, <1>4, <1>5

LEMMA CommitWitnesses ==
    ASSUME TypeInv, DerivedIsWitnessed, NEW h \in Handlers, Commit(h)
    PROVE  DerivedIsWitnessed'
<1> DEFINE now == [o \in Orders |-> ToSet(hist[o])]
           then == [o \in Orders |-> ToSet(hist'[o])]
<1>1. \A o \in Orders : then[o] = Had(req[h], tx[h])[o]
  BY CommitAppends DEF Had
<1>2. \A o \in Orders : now[o] \subseteq then[o]
  BY <1>1 DEF Had
<1>3. WitnessedBy(then, group')
  <2>1. CASE tx[h].gnew = None
    <3>1. group' = group
      BY <2>1 DEF Commit, SeesGroup
    <3>2. WitnessedBy(now, group)
      BY DEF DerivedIsWitnessed, GroupStatusIsWitnessed
    <3> HIDE DEF now, then
    <3> QED BY <1>2, <3>1, <3>2, MoreWitnesses
  <2>2. CASE tx[h].gnew # None
    <3>1. group' = tx[h].gnew
      BY <2>2 DEF Commit, SeesGroup
    <3>2. WitnessedBy(Had(req[h], tx[h]), tx[h].gnew)
      BY <2>2 DEF DerivedIsWitnessed, DerivedAt
    <3> HIDE DEF then
    <3> QED BY <1>1, <3>1, <3>2, MoreWitnesses
  <2> QED BY <2>1, <2>2
<1>4. GroupStatusIsWitnessed'
  BY <1>3 DEF GroupStatusIsWitnessed, WitnessedBy
<1>5. ASSUME NEW k \in Handlers
      PROVE  DerivedAt(req[k], tx[k])'
  <2>1. CASE k = h
    <3>1. tx'[k] = NoTx
      BY <2>1 DEF Commit, TypeInv, TypeOK
    <3> QED BY <3>1 DEF DerivedAt, NoTx
  <2>2. CASE k # h
    <3>1. req'[k] = req[k] /\ tx'[k] = tx[k]
      BY <2>2 DEF Commit, TypeInv, TypeOK
    <3> DEFINE had == Had(req[k], tx[k])
               more == [o \in Orders |-> ToSet(hist'[o]) \cup
                          (IF o \in tx[k].done THEN {req[k].target} ELSE {})]
    <3>2. \A o \in Orders : had[o] \subseteq more[o]
      BY <1>2 DEF Had
    <3>3. Had(req[k], tx[k])' = more
      BY <3>1 DEF Had
    <3>4. /\ tx[k].derived # None => WitnessedBy(had, tx[k].derived)
          /\ tx[k].gnew # None => WitnessedBy(had, tx[k].gnew)
      BY DEF DerivedIsWitnessed, DerivedAt
    <3> HIDE DEF had, more
    <3>5. /\ tx[k].derived # None => WitnessedBy(more, tx[k].derived)
          /\ tx[k].gnew # None => WitnessedBy(more, tx[k].gnew)
      BY <3>2, <3>4, MoreWitnesses
    <3> QED BY <3>1, <3>3, <3>5 DEF DerivedAt, WitnessedBy
  <2> QED BY <2>1, <2>2
<1> QED BY <1>4, <1>5 DEF DerivedIsWitnessed

LEMMA WitnessedStep ==
    TypeInv /\ HistInv /\ DerivedIsWitnessed /\ [Next]_vars
        => DerivedIsWitnessed'
<1> SUFFICES ASSUME TypeInv, HistInv, DerivedIsWitnessed, [Next]_vars
             PROVE  DerivedIsWitnessed'
  OBVIOUS
<1>1. ASSUME NEW h \in Handlers, NEW o \in Orders, NEW t \in Status,
             NEW kind \in Kind, ReadOrder(h, o, t) \/ ReadGroup(h, kind, t)
      PROVE  DerivedIsWitnessed'
  <2>1. Local(h) BY <1>1, ReadIsLocal
  <2>2. tx'[h] = NoTx
    BY <1>1 DEF ReadOrder, ReadGroup, TypeInv, PlansAreSound, SoundAt, InTx
  <2>3. DerivedAt(req'[h], tx'[h])
    BY <2>2 DEF DerivedAt, NoTx
  <2> QED BY <1>1, <2>1, <2>3, FrameKeepsWitnesses DEF Local, ReadOrder, ReadGroup
<1>2. ASSUME NEW h \in Handlers, ReadGroupBefore(h) \/ ReadOrders(h)
      PROVE  DerivedIsWitnessed'
  <2>1. Local(h) BY <1>2, BeforeIsLocal
  <2>2. tx'[h] = NoTx
    BY <1>2 DEF ReadGroupBefore, ReadOrders, TypeInv, PlansAreSound, SoundAt, InTx
  <2>3. DerivedAt(req'[h], tx'[h])
    BY <2>2 DEF DerivedAt, NoTx
  <2> QED BY <1>2, <2>1, <2>3, FrameKeepsWitnesses
          DEF Local, ReadGroupBefore, ReadOrders
<1>3. ASSUME NEW h \in Handlers,
             \/ Restock(h) \/ UpdateOrder(h) \/ ReadSiblings(h)
             \/ ReadCurrentGroup(h) \/ UpdateGroup(h)
      PROVE  DerivedIsWitnessed'
  <2>1. Local(h) BY <1>3, StatementIsLocal
  <2>2. UNCHANGED tables
    BY <1>3 DEF Restock, UpdateOrder, ReadSiblings, ReadCurrentGroup, UpdateGroup
  <2>3. DerivedAt(req'[h], tx'[h])
    BY <1>3, StatementWitnesses DEF HistInv
  <2> QED BY <2>1, <2>2, <2>3, FrameKeepsWitnesses DEF Local
<1>4. ASSUME NEW h \in Handlers,
             Refuse(h) \/ GiveUp(h) \/ Fail(h) \/ Notify(h)
      PROVE  DerivedIsWitnessed'
  <2>1. Leave(h) /\ UNCHANGED tables
    BY <1>4 DEF Refuse, GiveUp, Fail, Notify
  <2>2. Local(h) /\ tx'[h] = NoTx
    BY <2>1, LeaveIsLocal DEF Leave, TypeInv, TypeOK
  <2>3. DerivedAt(req'[h], tx'[h])
    BY <2>2 DEF DerivedAt, NoTx
  <2> QED BY <2>1, <2>2, <2>3, FrameKeepsWitnesses DEF Local
<1>5. ASSUME NEW h \in Handlers, Reread(h) \/ TellSellers(h)
      PROVE  DerivedIsWitnessed'
  <2>1. Local(h) BY <1>5, AfterIsLocal
  <2>2. tx'[h] = NoTx /\ UNCHANGED tables
    BY <1>5 DEF Reread, TellSellers, TypeInv, PlansAreSound, SoundAt, InTx
  <2>3. DerivedAt(req'[h], tx'[h])
    BY <2>2 DEF DerivedAt, NoTx
  <2> QED BY <2>1, <2>2, <2>3, FrameKeepsWitnesses DEF Local
<1>6. ASSUME NEW h \in Handlers, Commit(h)
      PROVE  DerivedIsWitnessed'
  BY <1>6, CommitWitnesses
<1>7. CASE UNCHANGED vars
  BY <1>7 DEF vars, tables, DerivedIsWitnessed, GroupStatusIsWitnessed,
              DerivedAt, Had, WitnessedBy
<1> QED BY <1>1, <1>2, <1>3, <1>4, <1>5, <1>6, <1>7, OrdersAssumption
        DEF Next, Serve, Kind

\* However requests overlap, the status of the group follows from statuses its
\* orders have all had: no group is DELIVERED, or CANCELLED, with an order that
\* never was.
THEOREM GroupStatusWitnessed == Spec => []GroupStatusIsWitnessed
<1>1. DerivedIsWitnessed => GroupStatusIsWitnessed
  BY DEF DerivedIsWitnessed
<1> QED BY <1>1, TypeInvariant, HistInit, HistStep, WitnessedInit,
           WitnessedStep, PTL DEF Spec

-----------------------------------------------------------------------------
(* The ledgers *)

LEMMA CountOfAppend ==
    ASSUME NEW T, NEW s \in Seq(T), NEW v \in T, NEW w
    PROVE  /\ Count(s, w) \in Nat
           /\ Count(Append(s, v), w) = IF v = w THEN Count(s, w) + 1 ELSE Count(s, w)
<1> DEFINE t == Append(s, v)
           n == Len(s)
           A == {i \in DOMAIN s : s[i] = w}
           B == {i \in DOMAIN t : t[i] = w}
<1>1. /\ n \in Nat /\ DOMAIN s = 1..n /\ DOMAIN t = 1..(n + 1)
      /\ t[n + 1] = v /\ \A i \in 1..n : t[i] = s[i]
  OBVIOUS
<1>2. Count(s, w) = Cardinality(A) /\ Count(t, w) = Cardinality(B)
  BY DEF Count
<1>3. IsFiniteSet(1..n)
  BY <1>1, FS_Interval
<1>4. A \subseteq 1..n /\ n + 1 \notin A
  BY <1>1
<1>5. IsFiniteSet(A) /\ Cardinality(A) \in Nat
  BY <1>3, <1>4, FS_Subset, FS_CardinalityType
<1>6. \A i : i \in B <=> i \in A \/ (v = w /\ i = n + 1)
  BY <1>1
<1> HIDE DEF A, B
<1>7. CASE v = w
  <2>1. B = A \cup {n + 1}
    BY <1>6, <1>7
  <2>2. Cardinality(B) = Cardinality(A) + 1
    BY <1>4, <1>5, <2>1, FS_AddElement
  <2> QED BY <1>2, <1>5, <1>7, <2>2
<1>8. CASE v # w
  <2>1. B = A
    BY <1>6, <1>8
  <2> QED BY <1>2, <1>5, <1>8, <2>1
<1> QED BY <1>7, <1>8

LEMMA OwedTyped ==
    ASSUME NEW o
    PROVE  IsFiniteSet(Owed(o)) /\ Cardinality(Owed(o)) \in Nat
<1>1. Owed(o) \subseteq Handlers
  BY DEF Owed
<1> QED BY <1>1, HandlersAssumption, FS_Subset, FS_CardinalityType

LEMMA LedgerInit == Init => LedgerInv
<1> SUFFICES ASSUME Init PROVE LedgerInv
  OBVIOUS
<1>1. Count(<<"NEW">>, "CANCELLED") = 0
  <2>1. {i \in DOMAIN <<"NEW">> : <<"NEW">>[i] = "CANCELLED"} = {}
    OBVIOUS
  <2> QED BY <2>1, FS_EmptySet DEF Count
<1>2. LedgersAgree
  BY <1>1 DEF Init, LedgersAgree, Last
<1>3. \A h \in Handlers : RestocksAt(pc[h], req[h], tx[h])
  BY DEF Init, RestocksAt, NoReq, NoTx
<1>4. \A o \in Orders : told[o] + Cardinality(Owed(o)) <= returned[o]
  <2> SUFFICES ASSUME NEW o \in Orders PROVE told[o] + Cardinality(Owed(o)) <= returned[o]
    OBVIOUS
  <2>1. Owed(o) = {}
    BY DEF Init, Owed
  <2> QED BY <2>1, FS_EmptySet DEF Init
<1> QED BY <1>2, <1>3, <1>4 DEF LedgerInv

\* A handler that is not about to tell a seller, and was not, changes nothing
\* of what is owed; nor does it as long as the tables stay.
LEMMA FrameKeepsLedgers ==
    ASSUME LedgerInv, TypeInv, TypeInv', NEW h \in Handlers, OthersKeep(h), UNCHANGED tables, told' = told,
           RestocksAt(pc'[h], req'[h], tx'[h]),
           \A o \in Orders : h \in Owed(o)' => h \in Owed(o)
    PROVE  LedgerInv'
<1>1. \A k \in Handlers : RestocksAt(pc'[k], req'[k], tx'[k])
  BY DEF LedgerInv, OthersKeep
<1>2. LedgersAgree'
  BY DEF LedgerInv, LedgersAgree, tables
<1>3. ASSUME NEW o \in Orders
      PROVE  told'[o] + Cardinality(Owed(o)') <= returned'[o]
  <2>1. Owed(o)' \subseteq Owed(o)
    BY <1>3 DEF Owed, OthersKeep
  <2>2. Cardinality(Owed(o)') <= Cardinality(Owed(o)) /\ Cardinality(Owed(o)') \in Nat
    BY <2>1, OwedTyped, FS_Subset, FS_CardinalityType
  <2>3. told[o] \in Nat /\ returned[o] \in Nat /\ Cardinality(Owed(o)) \in Nat
    BY OwedTyped DEF TypeInv, TypeOK
  <2>4. told[o] + Cardinality(Owed(o)) <= returned[o]
    BY DEF LedgerInv
  <2> QED BY <2>2, <2>3, <2>4 DEF tables
<1> QED BY <1>1, <1>2, <1>3 DEF LedgerInv

LEMMA NoTxRestocks ==
    ASSUME NEW q, NEW stage,
           \/ stage \notin {"update", "commit", "restock", "tell"}
           \/ stage = FirstStatement(q.target)
    PROVE  RestocksAt(stage, q, NoTx)
BY DEF RestocksAt, NoTx, FirstStatement

LEMMA StatementRestocks ==
    ASSUME TypeInv, LedgerInv, NEW h \in Handlers,
           \/ Restock(h) \/ UpdateOrder(h) \/ ReadSiblings(h)
           \/ ReadCurrentGroup(h) \/ UpdateGroup(h)
    PROVE  RestocksAt(pc'[h], req'[h], tx'[h])
<1> DEFINE q == req[h]
           x == tx[h]
<1>1. /\ RestocksAt(pc[h], q, x) /\ x \in Transaction /\ req'[h] = q
      /\ q.plan \subseteq Orders /\ Orders \subseteq Nat
  BY OrdersAssumption DEF LedgerInv, TypeInv, TypeOK, Request, Restock, UpdateOrder, ReadSiblings, ReadCurrentGroup, UpdateGroup
<1>2. CASE Restock(h)
  <2>1. PICK o \in Orders : Turn(h, o) /\ tx' = [tx EXCEPT ![h].back = @ \cup {o}]
    BY <1>2 DEF Restock
  <2>2. tx'[h].back = x.back \cup {o} /\ tx'[h].done = x.done /\ pc'[h] = "update" /\ pc[h] = "restock"
    BY <1>1, <1>2, <2>1 DEF Restock, Goto, TypeInv, TypeOK, Transaction
  <2>3. o \in q.plan \ x.done /\ \A p \in q.plan \ x.done : o <= p
    BY <2>1 DEF Turn, Todo
  <2>4. q.target = "CANCELLED"
    BY <1>1, <2>2 DEF RestocksAt
  <2> QED BY <1>1, <2>2, <2>3, <2>4 DEF RestocksAt
<1>3. CASE UpdateOrder(h)
  <2>1. PICK o \in Orders : Turn(h, o) /\ tx' = [tx EXCEPT ![h].done = @ \cup {o}]
    BY <1>3 DEF UpdateOrder
  <2>2. tx'[h].done = x.done \cup {o} /\ tx'[h].back = x.back /\ pc'[h] = "siblings" /\ pc[h] = "update"
    BY <1>1, <1>3, <2>1 DEF UpdateOrder, Goto, TypeInv, TypeOK, Transaction
  <2>3. o \in q.plan \ x.done /\ \A p \in q.plan \ x.done : o <= p
    BY <2>1 DEF Turn, Todo
  <2>4. CASE q.target = "CANCELLED"
    <3>1. PICK p \in q.plan \ x.done : (\A r \in q.plan \ x.done : p <= r) /\ x.back = x.done \cup {p}
      BY <1>1, <2>2, <2>4 DEF RestocksAt
    <3>2. p <= o /\ o <= p /\ o \in Nat /\ p \in Nat
      BY <1>1, <2>3, <3>1
    <3>3. p = o
      BY <3>2
    <3> QED BY <1>1, <2>2, <2>4, <3>1, <3>3 DEF RestocksAt
  <2>5. CASE q.target # "CANCELLED"
    BY <1>1, <2>2, <2>5 DEF RestocksAt
  <2> QED BY <2>4, <2>5
<1>4. CASE ReadSiblings(h) \/ ReadCurrentGroup(h)
  <2>1. /\ tx'[h].done = x.done /\ tx'[h].back = x.back
        /\ pc[h] \in {"siblings", "group"} /\ pc'[h] \in {"group", "write"}
    BY <1>1, <1>4 DEF ReadSiblings, ReadCurrentGroup, Goto, TypeInv, TypeOK, Transaction
  <2> QED BY <1>1, <2>1 DEF RestocksAt
<1>5. CASE UpdateGroup(h)
  <2>1. /\ tx'[h].done = x.done /\ tx'[h].back = x.back /\ pc[h] = "write"
        /\ pc'[h] = NextStatement(h)
    BY <1>1, <1>5 DEF UpdateGroup, Goto, TypeInv, TypeOK, Transaction
  <2>2. /\ pc'[h] = "commit" => q.plan \subseteq x.done
        /\ pc'[h] = "update" => q.target # "CANCELLED"
        /\ pc'[h] = "restock" => q.target = "CANCELLED"
        /\ pc'[h] # "tell"
    BY <2>1 DEF NextStatement, Todo, FirstStatement
  <2> QED BY <1>1, <2>1, <2>2 DEF RestocksAt
<1> QED BY <1>2, <1>3, <1>4, <1>5

LEMMA CommitKeepsLedgers ==
    ASSUME TypeInv, LedgerInv, NEW h \in Handlers, Commit(h)
    PROVE  LedgerInv'
<1> DEFINE q == req[h]
           x == tx[h]
<1>1. /\ pc[h] = "commit" /\ pc' = [pc EXCEPT ![h] = "reread"] /\ req' = req /\ told' = told
      /\ tx' = [tx EXCEPT ![h] = NoTx]
  BY DEF Commit, Goto, messages
<1>2. /\ pc'[h] = "reread" /\ tx'[h] = NoTx
      /\ \A k \in Handlers \ {h} : pc'[k] = pc[k] /\ tx'[k] = tx[k]
  BY <1>1 DEF TypeInv, TypeOK
<1>3. RestocksAt("commit", q, x) /\ (q.kind = "cancelMyGroup" => q.target = "CANCELLED")
  BY <1>1 DEF LedgerInv, TypeInv, PlansAreSound, SoundAt
<1>4. \A k \in Handlers : RestocksAt(pc'[k], req'[k], tx'[k])
  BY <1>1, <1>2, NoTxRestocks DEF LedgerInv
<1>5. ASSUME NEW o \in Orders
      PROVE  /\ status'[o] = Last(hist'[o])
             /\ returned'[o] = Count(hist'[o], "CANCELLED")
             /\ told'[o] + Cardinality(Owed(o)') <= returned'[o]
  <2>1. /\ status[o] = Last(hist[o]) /\ returned[o] = Count(hist[o], "CANCELLED")
        /\ told[o] + Cardinality(Owed(o)) <= returned[o]
        /\ told[o] \in Nat /\ returned[o] \in Nat /\ hist[o] \in Seq(Status) /\ q.target \in Status
    BY <1>1 DEF LedgerInv, LedgersAgree, TypeInv, TypeOK, PlansAreSound, SoundAt
  <2>2. returned'[o] = IF o \in x.back THEN returned[o] + 1 ELSE returned[o]
    BY DEF Commit
  <2>3. /\ o \in x.done => hist'[o] = Append(hist[o], q.target) /\ status'[o] = q.target
        /\ o \notin x.done => hist'[o] = hist[o] /\ status'[o] = status[o]
    BY CommitAppends
  <2>4. /\ Count(hist[o], "CANCELLED") \in Nat
        /\ Count(Append(hist[o], q.target), "CANCELLED") =
              IF q.target = "CANCELLED" THEN Count(hist[o], "CANCELLED") + 1 ELSE Count(hist[o], "CANCELLED")
    BY <2>1, CountOfAppend
  <2>5. Last(Append(hist[o], q.target)) = q.target
    BY <2>1, AppendFacts
  <2>6. IF q.target = "CANCELLED" THEN x.back = x.done ELSE x.back = {}
    BY <1>3 DEF RestocksAt
  <2>7. status'[o] = Last(hist'[o])
    BY <2>1, <2>3, <2>5
  <2>8. returned'[o] = Count(hist'[o], "CANCELLED")
    <3> HIDE DEF q, x
    <3> QED BY <2>1, <2>2, <2>3, <2>4, <2>6
  <2>9. CASE q.kind = "cancelMyGroup" /\ o \in q.plan
    <3>1. o \in x.back
      BY <1>3, <2>6, <2>9 DEF RestocksAt
    <3>2. Owed(o)' = Owed(o) \cup {h} /\ h \notin Owed(o)
      BY <1>1, <1>2, <2>9 DEF Owed
    <3>3. IsFiniteSet(Owed(o)) /\ Cardinality(Owed(o)) \in Nat
      BY OwedTyped
    <3>4. Cardinality(Owed(o)') = Cardinality(Owed(o)) + 1
      BY <3>2, <3>3, FS_AddElement
    <3> QED BY <1>1, <2>1, <2>2, <2>7, <2>8, <3>1, <3>3, <3>4
  <2>10. CASE ~(q.kind = "cancelMyGroup" /\ o \in q.plan)
    <3>1. Owed(o)' = Owed(o)
      BY <1>1, <1>2, <2>10 DEF Owed
    <3>2. Cardinality(Owed(o)) \in Nat
      BY OwedTyped
    <3> QED BY <1>1, <2>1, <2>2, <2>7, <2>8, <3>1, <3>2
  <2> QED BY <2>9, <2>10
<1>6. LedgersAgree'
  <2>1. ASSUME NEW o \in Orders PROVE told'[o] <= returned'[o]
    <3>1. told[o] \in Nat /\ returned[o] \in Nat /\ returned'[o] >= returned[o]
      BY DEF TypeInv, TypeOK, Commit
    <3>2. told[o] <= returned[o]
      BY DEF LedgerInv, LedgersAgree
    <3>3. returned'[o] \in Nat
      BY DEF TypeInv, TypeOK, Commit
    <3> QED BY <1>1, <3>1, <3>2, <3>3
  <2> QED BY <1>5, <2>1 DEF LedgersAgree
<1>7. \A o \in Orders : (told[o] + Cardinality(Owed(o)) <= returned[o])'
  BY <1>5
<1> QED BY <1>4, <1>6, <1>7 DEF LedgerInv

LEMMA TellKeepsLedgers ==
    ASSUME TypeInv, LedgerInv, NEW h \in Handlers, TellSellers(h)
    PROVE  LedgerInv'
<1> DEFINE q == req[h]
<1>1. /\ pc[h] = "tell" /\ pc' = [pc EXCEPT ![h] = "notify"] /\ req' = req /\ tx' = tx
      /\ UNCHANGED tables
      /\ told' = [o \in Orders |-> IF o \in q.plan THEN told[o] + 1 ELSE told[o]]
  BY DEF TellSellers, Goto
<1>2. pc'[h] = "notify" /\ \A k \in Handlers \ {h} : pc'[k] = pc[k]
  BY <1>1 DEF TypeInv, TypeOK
<1>3. \A k \in Handlers : RestocksAt(pc'[k], req'[k], tx'[k])
  BY <1>1, <1>2 DEF LedgerInv, RestocksAt
<1>4. ASSUME NEW o \in Orders
      PROVE  told'[o] + Cardinality(Owed(o)') <= returned'[o] /\ told'[o] <= returned'[o]
  <2>1. /\ told[o] + Cardinality(Owed(o)) <= returned[o] /\ returned' = returned
        /\ told[o] \in Nat /\ returned[o] \in Nat
    BY <1>1 DEF LedgerInv, TypeInv, TypeOK, tables
  <2>2. IsFiniteSet(Owed(o)) /\ Cardinality(Owed(o)) \in Nat
    BY OwedTyped
  <2>3. CASE o \in q.plan /\ q.kind = "cancelMyGroup"
    <3>1. Owed(o)' = Owed(o) \ {h} /\ h \in Owed(o)
      BY <1>1, <1>2, <2>3 DEF Owed
    <3>2. Cardinality(Owed(o)') = Cardinality(Owed(o)) - 1 /\ Cardinality(Owed(o)') \in Nat
      BY <2>2, <3>1, FS_RemoveElement, FS_CardinalityType
    <3> QED BY <1>1, <2>1, <2>2, <2>3, <3>2
  <2>4. CASE o \notin q.plan
    <3>1. Owed(o)' = Owed(o)
      BY <1>1, <1>2, <2>4 DEF Owed
    <3> QED BY <1>1, <2>1, <2>2, <2>4, <3>1
  <2>5. q.kind = "cancelMyGroup"
    BY <1>1 DEF LedgerInv, RestocksAt
  <2> QED BY <2>3, <2>4, <2>5
<1>5. LedgersAgree'
  BY <1>1, <1>4 DEF LedgerInv, LedgersAgree, tables
<1> QED BY <1>3, <1>4, <1>5 DEF LedgerInv

LEMMA LedgerStep == TypeInv /\ TypeInv' /\ LedgerInv /\ [Next]_vars => LedgerInv'
<1> SUFFICES ASSUME TypeInv, TypeInv', LedgerInv, [Next]_vars
             PROVE  LedgerInv'
  OBVIOUS
<1>1. ASSUME NEW h \in Handlers, NEW o \in Orders, NEW t \in Status,
             NEW kind \in Kind, ReadOrder(h, o, t) \/ ReadGroup(h, kind, t)
      PROVE  LedgerInv'
  <2>1. Local(h) BY <1>1, ReadIsLocal
  <2>2. tx'[h] = NoTx /\ pc'[h] \in {"before", "load"}
    BY <1>1 DEF ReadOrder, ReadGroup, Goto, TypeInv, TypeOK, PlansAreSound, SoundAt, InTx
  <2>3. RestocksAt(pc'[h], req'[h], tx'[h])
    BY <2>2, NoTxRestocks
  <2>4. UNCHANGED tables /\ told' = told
    BY <1>1 DEF ReadOrder, ReadGroup, messages
  <2> QED BY <2>1, <2>2, <2>3, <2>4, FrameKeepsLedgers DEF Local, Owed
<1>2. ASSUME NEW h \in Handlers, ReadGroupBefore(h) \/ ReadOrders(h)
      PROVE  LedgerInv'
  <2>1. Local(h) BY <1>2, BeforeIsLocal
  <2>2. tx'[h] = NoTx /\ pc'[h] = FirstStatement(req'[h].target)
    <3>1. tx' = tx /\ pc'[h] = FirstStatement(req[h].target) /\ pc[h] \notin InTx
      BY <1>2 DEF ReadGroupBefore, ReadOrders, Goto, TypeInv, TypeOK, InTx
    <3>2. tx[h] = NoTx
      BY <3>1 DEF TypeInv, PlansAreSound, SoundAt
    <3>3. req'[h].target = req[h].target
      BY <1>2 DEF ReadGroupBefore, ReadOrders, TypeInv, TypeOK, Request
    <3> QED BY <3>1, <3>2, <3>3
  <2>3. RestocksAt(pc'[h], req'[h], tx'[h])
    BY <2>2, NoTxRestocks
  <2>4. UNCHANGED tables /\ told' = told
    BY <1>2 DEF ReadGroupBefore, ReadOrders, messages
  <2> QED BY <2>1, <2>2, <2>3, <2>4, FrameKeepsLedgers DEF Local, Owed, FirstStatement
<1>3. ASSUME NEW h \in Handlers,
             \/ Restock(h) \/ UpdateOrder(h) \/ ReadSiblings(h)
             \/ ReadCurrentGroup(h) \/ UpdateGroup(h)
      PROVE  LedgerInv'
  <2>1. Local(h) /\ RestocksAt(pc'[h], req'[h], tx'[h])
    BY <1>3, StatementIsLocal, StatementRestocks
  <2>2. UNCHANGED tables /\ told' = told
    BY <1>3 DEF Restock, UpdateOrder, ReadSiblings, ReadCurrentGroup, UpdateGroup, messages
  <2>3. pc'[h] \notin {"reread", "tell"}
    BY <1>3 DEF Restock, UpdateOrder, ReadSiblings, ReadCurrentGroup, UpdateGroup, Goto,
                NextStatement, FirstStatement, TypeInv, TypeOK
  <2> QED BY <2>1, <2>2, <2>3, FrameKeepsLedgers DEF Local, Owed
<1>4. ASSUME NEW h \in Handlers, Refuse(h) \/ GiveUp(h) \/ Fail(h) \/ Notify(h)
      PROVE  LedgerInv'
  <2>1. Leave(h) /\ UNCHANGED tables /\ told' = told
    BY <1>4 DEF Refuse, GiveUp, Fail, Notify, messages
  <2>2. Local(h) /\ pc'[h] = "idle" /\ tx'[h] = NoTx
    BY <2>1, LeaveIsLocal DEF Leave, Goto, TypeInv, TypeOK
  <2>3. RestocksAt(pc'[h], req'[h], tx'[h])
    BY <2>2, NoTxRestocks
  <2> QED BY <2>1, <2>2, <2>3, FrameKeepsLedgers DEF Local, Owed
<1>5. ASSUME NEW h \in Handlers, Reread(h)
      PROVE  LedgerInv'
  <2>1. Local(h) BY <1>5, AfterIsLocal
  <2>2. /\ UNCHANGED tables /\ told' = told /\ pc[h] = "reread"
        /\ tx'[h] = tx[h] /\ req'[h].kind = req[h].kind /\ req'[h].plan = req[h].plan
        /\ req'[h].target = req[h].target
        /\ pc'[h] = IF req[h].kind = "cancelMyGroup" THEN "tell" ELSE "notify"
    BY <1>5 DEF Reread, Goto, messages, TypeInv, TypeOK, Request
  <2>3. RestocksAt(pc[h], req[h], tx[h])
    BY DEF LedgerInv
  <2>4. RestocksAt(pc'[h], req'[h], tx'[h])
    BY <2>2, <2>3 DEF RestocksAt
  <2> QED BY <2>1, <2>2, <2>4, FrameKeepsLedgers DEF Local, Owed
<1>6. ASSUME NEW h \in Handlers, Commit(h) \/ TellSellers(h)
      PROVE  LedgerInv'
  BY <1>6, CommitKeepsLedgers, TellKeepsLedgers
<1>7. CASE UNCHANGED vars
  BY <1>7 DEF vars, tables, messages, LedgerInv, LedgersAgree, Owed
<1> QED BY <1>1, <1>2, <1>3, <1>4, <1>5, <1>6, <1>7, OrdersAssumption
        DEF Next, Serve, Kind

\* (orders.service.ts:660-679, 722-738) Whatever requests overlap, fail or are
\* repeated, every order is what the last line of its history says, its items
\* came back to the stock once for every CANCELLED of that history, and its
\* seller was told of the customer's cancellation no more often than that.
THEOREM LedgersAlwaysAgree == Spec => []LedgersAgree
<1>1. LedgerInv => LedgersAgree
  BY DEF LedgerInv
<1> QED BY <1>1, TypeInvariant, LedgerInit, LedgerStep, PTL DEF Spec

-----------------------------------------------------------------------------
(* A whole-group request changes all of its orders or none                 *)

\* Only a commit ends the transaction with its writes kept.
LEMMA CommitsIsCommit ==
    ASSUME TypeInv, [Next]_vars, NEW h \in Handlers, Commits(h)
    PROVE  Commit(h)
<1>1. pc \in [Handlers -> Stage] /\ pc[h] = "commit" /\ pc'[h] = "reread"
  BY DEF TypeInv, TypeOK, Commits
<1>2. PICK k \in Handlers :
          \/ \E o \in Orders, t \in Status : ReadOrder(k, o, t)
          \/ \E kind \in Kind \ {"changeStatus"}, t \in Status : ReadGroup(k, kind, t)
          \/ Serve(k) \/ Fail(k)
  BY <1>1 DEF Next, vars
<1>3. Commit(k) \/ \E stage \in Stage \ {"reread"} : pc' = [pc EXCEPT ![k] = stage]
  <2>1. CASE \/ \E o \in Orders, t \in Status : ReadOrder(k, o, t)
             \/ \E kind \in Kind \ {"changeStatus"}, t \in Status : ReadGroup(k, kind, t)
    BY <2>1 DEF ReadOrder, ReadGroup, Goto, Stage
  <2>2. CASE Fail(k) \/ Refuse(k) \/ GiveUp(k) \/ Notify(k)
    BY <2>2 DEF Fail, Refuse, GiveUp, Notify, Leave, Goto, Stage
  <2>3. CASE ReadGroupBefore(k) \/ ReadOrders(k)
    BY <2>3 DEF ReadGroupBefore, ReadOrders, FirstStatement, Goto, Stage, InTx
  <2>4. CASE Restock(k) \/ UpdateOrder(k) \/ ReadSiblings(k) \/ ReadCurrentGroup(k)
    BY <2>4 DEF Restock, UpdateOrder, ReadSiblings, ReadCurrentGroup, Goto, Stage, InTx
  <2>5. CASE UpdateGroup(k)
    BY <2>5 DEF UpdateGroup, NextStatement, FirstStatement, Goto, Stage, InTx
  <2>6. CASE Reread(k) \/ TellSellers(k)
    BY <2>6 DEF Reread, TellSellers, Goto, Stage
  <2> QED BY <1>2, <2>1, <2>2, <2>3, <2>4, <2>5, <2>6 DEF Serve
<1>4. Commit(k)
  <2> SUFFICES ASSUME NEW stage \in Stage \ {"reread"}, pc' = [pc EXCEPT ![k] = stage]
               PROVE  FALSE
    BY <1>3
  <2> QED BY <1>1
<1>5. k = h
  BY <1>1, <1>4 DEF Commit, Goto
<1> QED BY <1>4, <1>5

\* (orders.service.ts:437-449, 540-547) Whatever overlaps or fails, a request
\* changes every order it decided to change, or none.
THEOREM AllOrNothingAlways == Spec => AllOrNothing
<1>1. ASSUME TypeInv, LedgerInv, [Next]_vars
      PROVE  \A h \in Handlers : Commits(h) =>
                 \A o \in req[h].plan : hist'[o] = Append(hist[o], req[h].target)
  <2> SUFFICES ASSUME NEW h \in Handlers, Commits(h), NEW o \in req[h].plan
               PROVE  hist'[o] = Append(hist[o], req[h].target)
    OBVIOUS
  <2>1. Commit(h)
    BY <1>1, CommitsIsCommit
  <2>2. o \in Orders
    BY <1>1 DEF TypeInv, TypeOK, Request
  <2>3. req[h].plan \subseteq tx[h].done
    BY <1>1, <2>1 DEF LedgerInv, RestocksAt, Commit
  <2> QED BY <1>1, <2>1, <2>2, <2>3, CommitAppends
<1>2. [Next]_vars /\ TypeInv /\ LedgerInv =>
          [\A h \in Handlers : Commits(h) =>
              \A o \in req[h].plan : hist'[o] = Append(hist[o], req[h].target)]_vars
  BY <1>1
<1> QED BY <1>2, TypeInvariant, LedgerInit, LedgerStep, PTL DEF Spec, AllOrNothing

-----------------------------------------------------------------------------
(* Requests that do not overlap                                            *)

OneHandler == \A h, k \in Handlers : h = k

\* A status of a group with an unfinished order is not a final one.
LEMMA DeriveMovesForward ==
    ASSUME NEW Group, NEW before \in [Group -> Status],
           NEW o \in Group, NEW t \in Status, IsTransitionAllowed(before[o], t)
    PROVE  Ahead(DeriveGroupStatus({[before EXCEPT ![o] = t][x] : x \in Group}),
                 DeriveGroupStatus({before[x] : x \in Group}))
<1> DEFINE S == {before[x] : x \in Group}
           T == {[before EXCEPT ![o] = t][x] : x \in Group}
           a == DeriveGroupStatus(S)
           b == DeriveGroupStatus(T)
<1>1. GroupRank[b] >= GroupRank[a]
  <2> DEFINE after == [before EXCEPT ![o] = t]
  <2>1. /\ after \in [Group -> Status] /\ Group # {}
        /\ \A x \in Group : after[x] = before[x] \/ IsTransitionAllowed(before[x], after[x])
    OBVIOUS
  <2> HIDE DEF after
  <2>2. GroupRank[DeriveGroupStatus({after[x] : x \in Group})] >= GroupRank[a]
    BY <2>1, DeriveNeverRegresses
  <2> QED BY <2>2 DEF after
<1>2. S \in SUBSET Status /\ T \in SUBSET Status /\ before[o] \in S /\ T # {}
  OBVIOUS
<1>3. a \in GroupStatus /\ b \in GroupStatus
  BY <1>2, DeriveIsTotal
<1>4. before[o] \in Status /\ before[o] \notin {"DELIVERED", "CANCELLED"}
  BY DEF IsTransitionAllowed, ALLOWED_TRANSITIONS, Status
<1>5. a \notin {"DELIVERED", "CANCELLED"}
  <2>1. S # {"CANCELLED"} /\ S # {"DELIVERED"}
    BY <1>2, <1>4
  <2>2. CASE "DELIVERED" \in S
    BY <2>1, <2>2 DEF DeriveGroupStatus
  <2>3. CASE "DELIVERED" \notin S
    <3>1. a = FirstPresent(S)
      BY <2>1, <2>3 DEF DeriveGroupStatus
    <3>2. S \cap Unfinished # {}
      BY <1>2, <1>4 DEF Unfinished
    <3>3. FirstPresent(S) \in S \cap Unfinished
      BY <1>2, <3>2, FirstPresentIsLeast
    <3> QED BY <3>1, <3>3 DEF Unfinished
  <2> QED BY <2>2, <2>3
<1> HIDE DEF a, b
<1>6. a = b \/ GroupRank[a] < GroupRank[b]
  BY <1>1, <1>3, <1>5 DEF GroupRank, GroupStatus, Status
<1> QED BY <1>6 DEF Ahead, a, b

LEMMA RankType == ASSUME NEW g \in GroupStatus PROVE GroupRank[g] \in Nat
BY DEF GroupRank, GroupStatus, Status

\* A rising history may be continued by what is ahead of its end.
LEMMA OneMoreAtTheEnd ==
    ASSUME NEW T, NEW s \in Seq(T), NEW t \in Seq(T), NEW g \in T
    PROVE  /\ s \o t \in Seq(T)
           /\ s \o (t \o <<g>>) = Append(s \o t, g)
<1> DEFINE n == Len(s)
           m == Len(t)
<1>1. n \in Nat /\ m \in Nat /\ <<g>> \in Seq(T) /\ Len(<<g>>) = 1
  OBVIOUS
<1>2. t \o <<g>> = Append(t, g)
  OBVIOUS
<1>3. s \o t \in Seq(T) /\ Append(t, g) \in Seq(T)
  OBVIOUS
<1>4. /\ s \o Append(t, g) \in Seq(T) /\ Append(s \o t, g) \in Seq(T)
      /\ Len(s \o Append(t, g)) = n + m + 1
      /\ Len(Append(s \o t, g)) = n + m + 1
  BY <1>1, <1>3
<1>5. \A i \in 1..(n + m + 1) : (s \o Append(t, g))[i] = Append(s \o t, g)[i]
  BY <1>1, <1>3
<1>6. s \o Append(t, g) = Append(s \o t, g)
  BY <1>4, <1>5
<1> QED BY <1>2, <1>3, <1>6

LEMMA OneMoreStatus ==
    ASSUME NEW s \in Seq(GroupStatus), NEW t \in Seq(GroupStatus), NEW g \in GroupStatus,
           NEW r, r = t \o <<g>>
    PROVE  s \o t \in Seq(GroupStatus) /\ s \o r = Append(s \o t, g)
BY OneMoreAtTheEnd

LEMMA RisesFurther ==
    ASSUME NEW s \in Seq(GroupStatus), NEW g \in GroupStatus, NEW f \in GroupStatus,
           RisesTo(s, f), GroupRank[f] < GroupRank[g]
    PROVE  RisesTo(Append(s, g), g)
<1> DEFINE n == Len(s)
           t == Append(s, g)
<1>1. /\ n \in Nat /\ DOMAIN s = 1..n /\ DOMAIN t = 1..(n + 1)
      /\ t[n + 1] = g /\ \A i \in 1..n : t[i] = s[i] /\ s[i] \in GroupStatus
      /\ Len(t) = n + 1
  OBVIOUS
<1>2. t # <<>> /\ Last(t) = g
  BY AppendFacts
<1>3. n \in 1..n /\ s[n] = f
  BY <1>1 DEF RisesTo, Last
<1>4. \A i, j \in 1..n : i < j => GroupRank[s[i]] < GroupRank[s[j]]
  BY <1>1 DEF RisesTo
<1>5. \A i \in 1..n : GroupRank[s[i]] \in Nat
  BY <1>1, RankType
<1>6. GroupRank[f] \in Nat /\ GroupRank[g] \in Nat
  BY RankType
<1> HIDE DEF t, n
<1>7. ASSUME NEW i \in 1..(n + 1), NEW j \in 1..(n + 1), i < j
      PROVE  GroupRank[t[i]] < GroupRank[t[j]]
  <2>1. i \in 1..n /\ t[i] = s[i]
    BY <1>1, <1>7
  <2>2. CASE j \in 1..n
    BY <1>1, <1>4, <1>7, <2>1, <2>2
  <2>3. CASE j = n + 1
    <3>1. GroupRank[s[i]] <= GroupRank[f]
      <4>1. CASE i = n
        BY <1>3, <1>6, <4>1
      <4>2. CASE i # n
        <5>1. i < n BY <1>1, <2>1, <4>2
        <5>2. GroupRank[s[i]] < GroupRank[s[n]]
          BY <1>3, <1>4, <2>1, <5>1
        <5> QED BY <1>3, <1>5, <1>6, <2>1, <5>2
      <4> QED BY <4>1, <4>2
    <3> QED BY <1>1, <1>5, <1>6, <2>1, <2>3, <3>1
  <2> QED BY <1>1, <2>2, <2>3
<1> QED BY <1>1, <1>2, <1>7 DEF RisesTo, t

LEMMA SerialInit == Init => SerialInv
<1> SUFFICES ASSUME Init PROVE SerialInv
  OBVIOUS
<1>1. {status[o] : o \in Orders} = {"NEW"}
  BY OrdersAssumption DEF Init
<1>2. DeriveGroupStatus({"NEW"}) = "NEW"
  <2>1. {"NEW"} \in SUBSET Status /\ {"NEW"} \cap Unfinished = {"NEW"}
    BY DEF Status, Unfinished
  <2>2. FirstPresent({"NEW"}) = "NEW"
    BY <2>1, FirstPresentIsLeast
  <2> QED BY <2>2 DEF DeriveGroupStatus
<1>3. GroupIsDerived /\ FeedMatchesHistory
  <2>1. group = "NEW" /\ Len(feed) = 0 /\ Len(ghist) = 1
    BY DEF Init
  <2>2. GroupIsDerived
    BY <1>1, <1>2, <2>1, Zenon DEF GroupIsDerived
  <2>3. FeedMatchesHistory
    BY <2>1 DEF FeedMatchesHistory
  <2> QED BY <2>2, <2>3
<1>4. RisesTo(ghist, group)
  BY DEF Init, RisesTo, Last
<1>5. \A h \in Handlers : SerialAt(pc[h], req[h], tx[h])
  BY DEF Init, SerialAt, InTx
<1> QED BY <1>3, <1>4, <1>5 DEF SerialInv, Init

LEMMA FrameKeepsSerial ==
    ASSUME OneHandler, SerialInv, NEW h \in Handlers, UNCHANGED tables, feed' = feed,
           SerialAt(pc'[h], req'[h], tx'[h])
    PROVE  SerialInv'
<1>1. status' = status /\ returned' = returned /\ group' = group /\ ghist' = ghist
  BY DEF tables
<1>2. GroupIsDerived' /\ FeedMatchesHistory' /\ RisesTo(ghist, group)'
  BY <1>1 DEF SerialInv, GroupIsDerived, FeedMatchesHistory, RisesTo
<1>3. \A o \in Orders : (returned[o] = IF status[o] = "CANCELLED" THEN 1 ELSE 0)'
  BY <1>1 DEF SerialInv
<1>4. ASSUME NEW k \in Handlers PROVE SerialAt(pc[k], req[k], tx[k])'
  <2>1. k = h
    BY DEF OneHandler
  <2>2. SerialAt(pc'[k], req'[k], tx'[k])
    BY <2>1
  <2> QED BY <1>1, <2>2 DEF SerialAt, View, Derived, ViewOfGroup, RisesTo
<1> QED BY <1>2, <1>3, <1>4 DEF SerialInv

\* A transaction starts from what was read.
LEMMA StartIsSerial ==
    ASSUME TypeInv, SerialInv, NEW q, NEW stage \in {"restock", "update"}, q.before = group,
           q.plan # {}, \A o \in q.plan :
              /\ IsTransitionAllowed(status[o], q.target)
              /\ q.kind = "cancelMyGroup" => status[o] \in {"NEW", "CONFIRMED"}
    PROVE  SerialAt(stage, q, NoTx)
<1>1. ViewOfGroup(NoTx) = group /\ ghist \o NoTx.rows = ghist
  BY DEF ViewOfGroup, NoTx, TypeInv, TypeOK
<1>2. \A o \in Orders : View(q, NoTx)[o] = status[o]
  BY DEF View, NoTx
<1>3. Derived(View(q, NoTx)) = group
  BY <1>2 DEF Derived, SerialInv, GroupIsDerived
<1> QED BY <1>1, <1>3 DEF SerialAt, SerialInv

LEMMA BeforeIsSerial ==
    ASSUME OneHandler, TypeInv, SerialInv, NEW h \in Handlers,
           ReadGroupBefore(h) \/ ReadOrders(h)
    PROVE  SerialInv'
<1> DEFINE q == req'[h]
<1>1. /\ pc'[h] = FirstStatement(req[h].target) /\ tx' = tx /\ pc[h] \in {"before", "load"}
      /\ UNCHANGED tables /\ feed' = feed
  BY DEF ReadGroupBefore, ReadOrders, Goto, messages, TypeInv, TypeOK
<1>2. tx[h] = NoTx
  BY <1>1 DEF TypeInv, PlansAreSound, SoundAt, InTx
<1>3. SerialAt(pc[h], req[h], tx[h]) /\ req[h] \in Request
  BY DEF SerialInv, TypeInv, TypeOK
<1>4. /\ q.before = group /\ q.plan # {}
      /\ \A o \in q.plan : /\ IsTransitionAllowed(status[o], q.target)
                           /\ q.kind = "cancelMyGroup" => status[o] \in {"NEW", "CONFIRMED"}
  <2>1. CASE ReadGroupBefore(h)
    <3>1. /\ q.before = group /\ q.plan = req[h].plan /\ q.kind = req[h].kind
          /\ q.target = req[h].target /\ pc[h] = "before"
      BY <1>3, <2>1 DEF ReadGroupBefore, TypeInv, TypeOK, Request
    <3> QED BY <1>3, <3>1 DEF SerialAt
  <2>2. CASE ReadOrders(h)
    <3>1. /\ q.before = req[h].before /\ q.plan = ToChange(req[h].kind, req[h].target)
          /\ q.kind = req[h].kind /\ q.target = req[h].target /\ pc[h] = "load"
          /\ MayStart(q.kind, q.target)
      BY <1>3, <2>2 DEF ReadOrders, TypeInv, TypeOK, Request
    <3>2. q.before = group
      BY <1>3, <3>1 DEF SerialAt
    <3>3. q.kind = "cancelMyGroup" => q.target = "CANCELLED"
      BY <3>1 DEF TypeInv, PlansAreSound, SoundAt
    <3>4. \A s \in {"NEW", "CONFIRMED"} : IsTransitionAllowed(s, "CANCELLED")
      BY DEF IsTransitionAllowed, ALLOWED_TRANSITIONS, Status
    <3> HIDE DEF q
    <3> QED BY <3>1, <3>2, <3>3, <3>4 DEF MayStart
  <2> QED BY <2>1, <2>2
<1>5. FirstStatement(req[h].target) \in {"restock", "update"}
  BY DEF FirstStatement
<1> HIDE DEF q
<1>6. SerialAt(pc'[h], q, NoTx)
  BY <1>1, <1>4, <1>5, StartIsSerial
<1> QED BY <1>1, <1>2, <1>6, FrameKeepsSerial DEF q

LEMMA StatementIsSerial ==
    ASSUME OneHandler, TypeInv, SerialInv, NEW h \in Handlers,
           \/ Restock(h) \/ UpdateOrder(h) \/ ReadSiblings(h)
           \/ ReadCurrentGroup(h) \/ UpdateGroup(h)
    PROVE  SerialAt(pc'[h], req'[h], tx'[h])
<1> DEFINE q == req[h]
           x == tx[h]
           y == tx'[h]
<1>1. /\ SerialAt(pc[h], q, x) /\ x \in Transaction /\ req' = req /\ pc[h] \in InTx
      /\ q.target \in Status /\ x.done \subseteq q.plan
  BY StatementIsLocal DEF SerialInv, TypeInv, TypeOK, PlansAreSound, SoundAt, InTx
<1>2. View(q, x) \in [Orders -> Status] /\ Derived(View(q, x)) \in GroupStatus
  <2>1. View(q, x) \in [Orders -> Status]
    BY <1>1 DEF View, TypeInv, TypeOK
  <2>2. {View(q, x)[o] : o \in Orders} \in SUBSET Status
    BY <2>1
  <2>3. {View(q, x)[o] : o \in Orders} # {}
    BY ZenonT(40), OrdersAssumption
  <2> QED BY <2>1, <2>2, <2>3, DeriveIsTotal DEF Derived
<1>3. CASE Restock(h)
  <2>1. /\ y.done = x.done /\ y.gnew = x.gnew /\ y.rows = x.rows
        /\ pc[h] = "restock" /\ pc'[h] = "update"
    BY <1>1, <1>3 DEF Restock, Goto, TypeInv, TypeOK, Transaction
  <2>2. View(q, y) = View(q, x) /\ ViewOfGroup(y) = ViewOfGroup(x)
    BY <2>1 DEF View, ViewOfGroup
  <2> QED BY <1>1, <2>1, <2>2 DEF SerialAt, InTx
<1>4. CASE UpdateOrder(h)
  <2>1. PICK o \in Orders : Turn(h, o) /\ tx' = [tx EXCEPT ![h].done = @ \cup {o}]
    BY <1>4 DEF UpdateOrder
  <2>2. /\ y.done = x.done \cup {o} /\ y.gnew = x.gnew /\ y.rows = x.rows
        /\ pc[h] = "update" /\ pc'[h] = "siblings"
    BY <1>1, <1>4, <2>1 DEF UpdateOrder, Goto, TypeInv, TypeOK, Transaction
  <2>3. o \in q.plan /\ o \notin x.done
    BY <2>1 DEF Turn, Todo
  <2>4. View(q, y) = [View(q, x) EXCEPT ![o] = q.target] /\ View(q, x)[o] = status[o]
    BY <2>2, <2>3 DEF View
  <2>5. IsTransitionAllowed(View(q, x)[o], q.target)
    BY <1>1, <2>3, <2>4 DEF SerialAt
  <2>6. Ahead(Derived(View(q, y)), Derived(View(q, x)))
    <3> DEFINE v == View(q, x)
    <3> HIDE DEF v
    <3>1. Ahead(DeriveGroupStatus({[v EXCEPT ![o] = q.target][p] : p \in Orders}),
                DeriveGroupStatus({v[p] : p \in Orders}))
      BY <1>1, <1>2, <2>5, DeriveMovesForward DEF v
    <3> QED BY <2>4, <3>1 DEF Derived, v
  <2>7. ViewOfGroup(y) = ViewOfGroup(x)
    BY <2>2 DEF ViewOfGroup
  <2> QED BY <1>1, <2>2, <2>6, <2>7 DEF SerialAt, InTx
<1>5. CASE ReadSiblings(h)
  <2>1. {Sees(h, o) : o \in Orders} = {View(q, x)[o] : o \in Orders}
    BY DEF Sees, View
  <2>2. /\ y.done = x.done /\ y.gnew = x.gnew /\ y.rows = x.rows
        /\ y.derived = Derived(View(q, x))
        /\ pc[h] = "siblings" /\ pc'[h] = "group"
    BY <1>1, <1>5, <2>1 DEF ReadSiblings, Goto, TypeInv, TypeOK, Transaction, Derived
  <2>3. View(q, y) = View(q, x) /\ ViewOfGroup(y) = ViewOfGroup(x)
    BY <2>2 DEF View, ViewOfGroup
  <2> QED BY <1>1, <2>2, <2>3 DEF SerialAt, InTx
<1>6. CASE ReadCurrentGroup(h)
  <2>1. /\ y.done = x.done /\ y.gnew = x.gnew /\ y.rows = x.rows
        /\ y.derived = x.derived /\ y.current = ViewOfGroup(x)
        /\ pc[h] = "group" /\ pc'[h] = "write"
    BY <1>1, <1>6 DEF ReadCurrentGroup, Goto, TypeInv, TypeOK, Transaction, SeesGroup, ViewOfGroup
  <2>2. View(q, y) = View(q, x) /\ ViewOfGroup(y) = ViewOfGroup(x)
    BY <2>1 DEF View, ViewOfGroup
  <2> QED BY <1>1, <2>1, <2>2 DEF SerialAt, InTx
<1>7. CASE UpdateGroup(h)
  <2> DEFINE d == x.derived
             c == x.current
  <2>1. /\ y.done = x.done /\ y.gnew = d /\ y.rows = x.rows \o NewGroupRows(d, c)
        /\ pc[h] = "write" /\ pc'[h] = NextStatement(h)
    BY <1>1, <1>7 DEF UpdateGroup, Goto, TypeInv, TypeOK, Transaction
  <2>2. View(q, y) = View(q, x)
    BY <2>1 DEF View
  <2>3. d = Derived(View(q, x)) /\ c = ViewOfGroup(x) /\ Ahead(d, c) /\ RisesTo(ghist \o x.rows, c)
    BY <1>1, <2>1 DEF SerialAt
  <2>4. d \in GroupStatus /\ c \in GroupStatus /\ d # None
    BY <1>1, <1>2, <2>1, <2>3, NoneAssumption DEF TypeInv, PlansAreSound, SoundAt
  <2>5. ViewOfGroup(y) = d
    BY <2>1, <2>4 DEF ViewOfGroup
  <2>6. RisesTo(ghist \o y.rows, d)
    <3>1. ghist \in Seq(GroupStatus) /\ x.rows \in Seq(GroupStatus)
      BY <1>1 DEF TypeInv, TypeOK, Transaction
    <3>2. CASE d = c
      <4>1. y.rows = x.rows
        BY <2>1, <3>1, <3>2 DEF NewGroupRows
      <4> QED BY <2>3, <3>2, <4>1
    <3>3. CASE d # c
      <4>1. y.rows = x.rows \o <<d>>
        BY <2>1, <3>3 DEF NewGroupRows
      <4>2. ghist \o y.rows = Append(ghist \o x.rows, d) /\ ghist \o x.rows \in Seq(GroupStatus)
        <5>1. PICK g, s, t, r : g = d /\ s = ghist /\ t = x.rows /\ r = y.rows
          OBVIOUS
        <5>2. g \in GroupStatus /\ s \in Seq(GroupStatus) /\ t \in Seq(GroupStatus) /\ r = t \o <<g>>
          BY <2>4, <3>1, <4>1, <5>1
        <5>3. s \o t \in Seq(GroupStatus) /\ s \o r = Append(s \o t, g)
          BY <5>2, OneMoreStatus
        <5> QED BY <5>1, <5>3
      <4>3. GroupRank[c] < GroupRank[d]
        BY <2>3, <3>3 DEF Ahead
      <4> HIDE DEF c, d
      <4> QED BY <2>3, <2>4, <4>2, <4>3, RisesFurther
    <3> QED BY <3>2, <3>3
  <2>7. pc'[h] \in {"commit", "restock", "update"}
    BY <2>1 DEF NextStatement, FirstStatement
  <2> QED BY <1>1, <2>1, <2>2, <2>3, <2>5, <2>6, <2>7 DEF SerialAt, InTx
<1> QED BY <1>3, <1>4, <1>5, <1>6, <1>7

LEMMA CommitIsSerial ==
    ASSUME OneHandler, TypeInv, LedgerInv, SerialInv, NEW h \in Handlers, Commit(h)
    PROVE  SerialInv'
<1> DEFINE q == req[h]
           x == tx[h]
<1>1. /\ SerialAt("commit", q, x) /\ RestocksAt("commit", q, x) /\ SoundAt("commit", q, x)
      /\ x \in Transaction
  BY DEF Commit, SerialInv, LedgerInv, TypeInv, TypeOK, PlansAreSound
<1>2. /\ pc'[h] = "reread" /\ req' = req /\ tx'[h] = NoTx /\ feed' = feed
      /\ ghist' = ghist \o x.rows /\ group' = ViewOfGroup(x)
  BY DEF Commit, Goto, messages, SeesGroup, ViewOfGroup, TypeInv, TypeOK
<1>3. \A o \in Orders : status'[o] = View(q, x)[o]
  BY DEF Commit, Sees, View
<1>4. GroupIsDerived'
  <2>1. group' = Derived(View(q, x))
    BY <1>1, <1>2 DEF SerialAt
  <2> QED BY <1>3, <2>1 DEF GroupIsDerived, Derived
<1>5. ASSUME NEW o \in Orders
      PROVE  returned'[o] = IF status'[o] = "CANCELLED" THEN 1 ELSE 0
  <2>1. returned[o] = IF status[o] = "CANCELLED" THEN 1 ELSE 0
    BY DEF SerialInv
  <2>2. returned'[o] = IF o \in x.back THEN returned[o] + 1 ELSE returned[o]
    BY DEF Commit
  <2>3. status'[o] = IF o \in x.done THEN q.target ELSE status[o]
    BY <1>3 DEF View
  <2>4. IF q.target = "CANCELLED" THEN x.back = x.done ELSE x.back = {}
    BY <1>1 DEF RestocksAt
  <2>5. o \in x.done => status[o] # "CANCELLED"
    <3>1. o \in x.done => IsTransitionAllowed(status[o], q.target)
      BY <1>1 DEF SerialAt, SoundAt, InTx
    <3> QED BY <3>1 DEF IsTransitionAllowed, ALLOWED_TRANSITIONS, Status
  <2> HIDE DEF q, x
  <2> QED BY <2>1, <2>2, <2>3, <2>4, <2>5
<1>6. RisesTo(ghist', group')
  BY <1>1, <1>2 DEF SerialAt, InTx
<1>7. /\ Len(ghist) <= Len(ghist') /\ Len(ghist) \in Nat /\ Len(feed) \in Nat /\ Len(ghist') \in Nat
      /\ group' # group => Len(ghist) < Len(ghist')
  <2>1. ghist \in Seq(GroupStatus) /\ x.rows \in Seq(GroupStatus) /\ feed \in Seq(GroupStatus)
    BY <1>1 DEF TypeInv, TypeOK, Transaction
  <2>2. Len(ghist') = Len(ghist) + Len(x.rows) /\ Len(x.rows) \in Nat
    BY <1>2, <2>1
  <2>3. CASE x.rows = <<>>
    <3>1. ghist' = ghist
      BY <1>2, <2>1, <2>3
    <3>2. group' = group
      BY <1>6, <3>1 DEF RisesTo, SerialInv
    <3> QED BY <2>1, <3>1, <3>2
  <2>4. CASE x.rows # <<>>
    <3>1. Len(x.rows) > 0
      BY <2>1, <2>4
    <3> QED BY <2>1, <2>2, <3>1
  <2> QED BY <2>3, <2>4
<1>8. Len(feed) < Len(ghist)
  BY DEF SerialInv, FeedMatchesHistory
<1>9. FeedMatchesHistory'
  BY <1>2, <1>7, <1>8 DEF FeedMatchesHistory
<1>10. ASSUME NEW k \in Handlers PROVE SerialAt(pc[k], req[k], tx[k])'
  <2>1. k = h
    BY DEF OneHandler
  <2>2. q.before = group
    BY <1>1 DEF SerialAt, InTx
  <2>3. group' # q.before => Len(feed') + 1 < Len(ghist')
    BY <1>2, <1>7, <1>8, <2>2
  <2>4. pc'[k] = "reread" /\ req'[k] = q
    BY <1>2, <2>1
  <2> QED BY <2>3, <2>4 DEF SerialAt, InTx
<1> QED BY <1>4, <1>5, <1>6, <1>9, <1>10 DEF SerialInv

LEMMA AfterIsSerial ==
    ASSUME OneHandler, TypeInv, SerialInv, NEW h \in Handlers,
           Reread(h) \/ TellSellers(h) \/ Notify(h)
    PROVE  SerialInv'
<1> DEFINE q == req[h]
<1>1. SerialAt(pc[h], q, tx[h]) /\ q \in Request /\ feed \in Seq(GroupStatus)
  BY DEF SerialInv, TypeInv, TypeOK
<1>2. CASE Reread(h)
  <2>1. /\ pc[h] = "reread" /\ pc'[h] \in {"tell", "notify"} /\ UNCHANGED tables /\ feed' = feed
        /\ req'[h].before = q.before /\ req'[h].after = group
    BY <1>1, <1>2 DEF Reread, Goto, messages, TypeInv, TypeOK, Request
  <2>2. SerialAt(pc'[h], req'[h], tx'[h])
    BY <1>1, <2>1 DEF SerialAt, InTx
  <2> QED BY <2>1, <2>2, FrameKeepsSerial
<1>3. CASE TellSellers(h)
  <2>1. /\ pc[h] = "tell" /\ pc'[h] = "notify" /\ UNCHANGED tables /\ feed' = feed /\ req' = req
    BY <1>3 DEF TellSellers, Goto, TypeInv, TypeOK
  <2>2. SerialAt(pc'[h], req'[h], tx'[h])
    BY <1>1, <2>1 DEF SerialAt, InTx
  <2> QED BY <2>1, <2>2, FrameKeepsSerial
<1>4. CASE Notify(h)
  <2>1. /\ pc[h] = "notify" /\ pc'[h] = "idle" /\ UNCHANGED tables
        /\ feed' = IF WorthTelling(h) THEN Append(feed, q.after) ELSE feed
        /\ q.after \in GroupStatus
    BY <1>4 DEF Notify, Leave, Goto, TypeInv, TypeOK, PlansAreSound, SoundAt
  <2>2. FeedMatchesHistory'
    <3>1. Len(feed) < Len(ghist) /\ Len(feed) \in Nat
      BY <1>1 DEF SerialInv, FeedMatchesHistory
    <3>2. CASE WorthTelling(h)
      <4>1. Len(feed) + 1 < Len(ghist)
        BY <1>1, <2>1, <3>2 DEF SerialAt, WorthTelling
      <4>2. Len(feed') = Len(feed) + 1
        BY <1>1, <2>1, <3>2, AppendFacts
      <4> QED BY <2>1, <4>1, <4>2 DEF FeedMatchesHistory, tables
    <3>3. CASE ~WorthTelling(h)
      BY <2>1, <3>1, <3>3 DEF FeedMatchesHistory, tables
    <3> QED BY <3>2, <3>3
  <2>3. GroupIsDerived' /\ RisesTo(ghist, group)'
    BY <2>1 DEF tables, SerialInv, GroupIsDerived, RisesTo
  <2>4. \A o \in Orders : (returned[o] = IF status[o] = "CANCELLED" THEN 1 ELSE 0)'
    BY <2>1 DEF tables, SerialInv
  <2>5. ASSUME NEW k \in Handlers PROVE SerialAt(pc[k], req[k], tx[k])'
    <3>1. pc'[k] = "idle"
      BY <2>1 DEF OneHandler
    <3> QED BY <3>1 DEF SerialAt, InTx
  <2> QED BY <2>2, <2>3, <2>4, <2>5 DEF SerialInv
<1> QED BY <1>2, <1>3, <1>4

LEMMA SerialStep ==
    OneHandler /\ TypeInv /\ LedgerInv /\ SerialInv /\ [Next]_vars => SerialInv'
<1> SUFFICES ASSUME OneHandler, TypeInv, LedgerInv, SerialInv, [Next]_vars
             PROVE  SerialInv'
  OBVIOUS
<1>1. ASSUME NEW h \in Handlers, NEW o \in Orders, NEW t \in Status, ReadOrder(h, o, t)
      PROVE  SerialInv'
  <2>1. /\ pc'[h] = "before" /\ req'[h].kind = "changeStatus" /\ req'[h].target = t
        /\ req'[h].plan = {o} /\ UNCHANGED tables /\ feed' = feed
        /\ IsTransitionAllowed(status[o], t)
    BY <1>1 DEF ReadOrder, NoReq, Goto, messages, TypeInv, TypeOK
  <2>2. SerialAt(pc'[h], req'[h], tx'[h])
    BY <2>1 DEF SerialAt, InTx
  <2> QED BY <2>1, <2>2, FrameKeepsSerial
<1>2. ASSUME NEW h \in Handlers, NEW kind \in Kind, NEW t \in Status, ReadGroup(h, kind, t)
      PROVE  SerialInv'
  <2>1. pc'[h] = "load" /\ req'[h].before = group /\ UNCHANGED tables /\ feed' = feed
    BY <1>2 DEF ReadGroup, NoReq, Goto, messages, TypeInv, TypeOK
  <2>2. SerialAt(pc'[h], req'[h], tx'[h])
    BY <2>1 DEF SerialAt, InTx
  <2> QED BY <2>1, <2>2, FrameKeepsSerial
<1>3. ASSUME NEW h \in Handlers,
             \/ Restock(h) \/ UpdateOrder(h) \/ ReadSiblings(h)
             \/ ReadCurrentGroup(h) \/ UpdateGroup(h)
      PROVE  SerialInv'
  <2>1. UNCHANGED tables /\ feed' = feed
    BY <1>3 DEF Restock, UpdateOrder, ReadSiblings, ReadCurrentGroup, UpdateGroup, messages
  <2> QED BY <1>3, <2>1, StatementIsSerial, FrameKeepsSerial
<1>4. ASSUME NEW h \in Handlers, Refuse(h) \/ GiveUp(h) \/ Fail(h)
      PROVE  SerialInv'
  <2>1. pc'[h] = "idle" /\ UNCHANGED tables /\ feed' = feed
    BY <1>4 DEF Refuse, GiveUp, Fail, Leave, Goto, messages, TypeInv, TypeOK
  <2>2. SerialAt(pc'[h], req'[h], tx'[h])
    BY <2>1 DEF SerialAt, InTx
  <2> QED BY <2>1, <2>2, FrameKeepsSerial
<1>5. CASE UNCHANGED vars
  <2>1. CASE Handlers = {}
    BY <1>5, <2>1 DEF vars, tables, messages, SerialInv, GroupIsDerived, FeedMatchesHistory, RisesTo
  <2>2. ASSUME NEW h \in Handlers PROVE SerialInv'
    <3>1. UNCHANGED tables /\ feed' = feed /\ pc' = pc /\ req' = req /\ tx' = tx
      BY <1>5 DEF vars, messages
    <3>2. SerialAt(pc'[h], req'[h], tx'[h])
      BY <3>1 DEF SerialInv
    <3> QED BY <3>1, <3>2, FrameKeepsSerial
  <2> QED BY <2>1, <2>2
<1>6. ASSUME NEW h \in Handlers,
             \/ ReadGroupBefore(h) \/ ReadOrders(h) \/ Commit(h)
             \/ Reread(h) \/ TellSellers(h) \/ Notify(h)
      PROVE  SerialInv'
  BY <1>6, BeforeIsSerial, CommitIsSerial, AfterIsSerial
<1> QED BY <1>1, <1>2, <1>3, <1>4, <1>5, <1>6, OrdersAssumption DEF Next, Serve, Kind

LEMMA SerialInvariant ==
    ASSUME OneHandler
    PROVE  Spec => [](TypeInv /\ LedgerInv /\ SerialInv)
<1>1. Init => TypeInv /\ LedgerInv /\ SerialInv
  BY TypeInit, LedgerInit, SerialInit
<1>2. TypeInv /\ LedgerInv /\ SerialInv /\ [Next]_vars
          => (TypeInv /\ LedgerInv /\ SerialInv)'
  BY TypeStep, LedgerStep, SerialStep
<1> QED BY <1>1, <1>2, PTL DEF Spec

\* Requests that do not overlap, whichever of their steps fail: the group has
\* the derived status, the items of a cancelled order went back once, and the
\* customer and the history of the group saw real steps forward, each once.
THEOREM OneAtATimeHolds ==
    ASSUME OneHandler
    PROVE  Spec => []OneAtATime
<1>1. ASSUME TypeInv, SerialInv PROVE OneAtATime
  <2>1. ReturnedOnce
    BY <1>1 DEF SerialInv, ReturnedOnce
  <2>2. GroupHistoryMovesForward
    <3>1. ghist \in Seq(GroupStatus) /\ RisesTo(ghist, group)
      BY <1>1 DEF SerialInv, TypeInv, TypeOK
    <3>2. ASSUME NEW i \in 2..Len(ghist)
          PROVE  GroupRank[ghist[i - 1]] < GroupRank[ghist[i]]
      <4>1. i - 1 \in DOMAIN ghist /\ i \in DOMAIN ghist /\ i - 1 < i
        BY <3>1
      <4> QED BY <3>1, <4>1 DEF RisesTo
    <3> QED BY <3>1, <3>2 DEF GroupHistoryMovesForward, RisesTo
  <2> QED BY <1>1, <2>1, <2>2 DEF OneAtATime, SerialInv
<1> QED BY <1>1, SerialInvariant, PTL

\* OrderLifecycle and OrderGroups speak of the same status map.
LEMMA SameRules ==
    /\ Lifecycle!Status = Status /\ Lifecycle!GroupStatus = GroupStatus
    /\ Lifecycle!GroupRank = GroupRank
    /\ \A a, b : Lifecycle!IsTransitionAllowed(a, b) <=> IsTransitionAllowed(a, b)
    /\ \A S : Lifecycle!DeriveGroupStatus(S) = DeriveGroupStatus(S)
<1>1. Lifecycle!Status = Status /\ Lifecycle!GroupStatus = GroupStatus
  BY DEF Status, GroupStatus, Lifecycle!Status, Lifecycle!GroupStatus
<1>2. Lifecycle!GroupRank = GroupRank
  BY <1>1 DEF GroupRank, Lifecycle!GroupRank
<1>3. Lifecycle!ALLOWED_TRANSITIONS = ALLOWED_TRANSITIONS
  BY <1>1 DEF ALLOWED_TRANSITIONS, Lifecycle!ALLOWED_TRANSITIONS
<1>4. \A a, b : Lifecycle!IsTransitionAllowed(a, b) <=> IsTransitionAllowed(a, b)
  BY <1>3 DEF IsTransitionAllowed, Lifecycle!IsTransitionAllowed
<1>5. Lifecycle!NON_TERMINAL_ORDER = NON_TERMINAL_ORDER
  BY DEF NON_TERMINAL_ORDER, Lifecycle!NON_TERMINAL_ORDER
<1>6. \A S : Lifecycle!FirstPresent(S) = FirstPresent(S)
  BY <1>5, Zenon DEF FirstPresent, Lifecycle!FirstPresent
<1>7. \A S : Lifecycle!DeriveGroupStatus(S) = DeriveGroupStatus(S)
  BY <1>6 DEF DeriveGroupStatus, Lifecycle!DeriveGroupStatus
<1> QED BY <1>1, <1>2, <1>4, <1>7

\* What the commit of a request that overlaps no other changes.
LEMMA CommitMoves ==
    ASSUME TypeInv, LedgerInv, SerialInv, SerialInv', NEW h \in Handlers, Commit(h)
    PROVE  /\ Lifecycle!Move(req[h].plan, req[h].target)
           /\ req[h].plan # {} /\ req[h].plan \in SUBSET Orders /\ req[h].target \in Status
           /\ \A o \in req[h].plan :
                 /\ IsTransitionAllowed(status[o], req[h].target)
                 /\ req[h].kind = "cancelMyGroup" => status[o] \in {"NEW", "CONFIRMED"}
<1> DEFINE q == req[h]
           x == tx[h]
<1>1. /\ SerialAt("commit", q, x) /\ RestocksAt("commit", q, x) /\ SoundAt("commit", q, x)
      /\ x \in Transaction /\ q \in Request
  BY DEF Commit, SerialInv, LedgerInv, TypeInv, TypeOK, PlansAreSound
<1>2. x.done = q.plan /\ q.plan \subseteq Orders
  BY <1>1 DEF RestocksAt, SoundAt, Request
<1>3. /\ q.plan # {} /\ q.target \in Status
      /\ \A o \in q.plan : /\ IsTransitionAllowed(status[o], q.target)
                           /\ q.kind = "cancelMyGroup" => status[o] \in {"NEW", "CONFIRMED"}
  BY <1>1 DEF SerialAt, SoundAt, InTx
<1>4. status' = [o \in Orders |-> IF o \in q.plan THEN q.target ELSE status[o]]
  BY <1>2 DEF Commit, Sees
<1>5. returned' = [o \in Orders |-> IF o \in q.plan /\ q.target = "CANCELLED"
                                     THEN 1 ELSE returned[o]]
  <2>1. returned' = [o \in Orders |-> IF o \in x.back THEN returned[o] + 1 ELSE returned[o]]
    BY DEF Commit
  <2>2. IF q.target = "CANCELLED" THEN x.back = q.plan ELSE x.back = {}
    BY <1>1, <1>2 DEF RestocksAt
  <2>3. \A o \in q.plan : returned[o] = 0
    <3>1. \A o \in q.plan : status[o] # "CANCELLED"
      BY <1>3 DEF IsTransitionAllowed, ALLOWED_TRANSITIONS, Status
    <3> QED BY <1>2, <3>1 DEF SerialInv
  <2> HIDE DEF q, x
  <2> QED BY <2>1, <2>2, <2>3
<1>6. group' = DeriveGroupStatus({status'[o] : o \in Orders})
  BY DEF SerialInv, GroupIsDerived
<1>7. /\ ToSet(ghist) \subseteq ToSet(ghist') /\ group' \in ToSet(ghist')
      /\ \A g \in ToSet(ghist') : g \in GroupStatus /\ GroupRank[g] <= GroupRank[group']
  <2>1. ghist \in Seq(GroupStatus) /\ x.rows \in Seq(GroupStatus) /\ ghist' = ghist \o x.rows
    BY <1>1 DEF TypeInv, TypeOK, Transaction, Commit
  <2>2. ghist' \in Seq(GroupStatus) /\ ToSet(ghist) \subseteq ToSet(ghist')
    BY <2>1, ConcatFacts
  <2>3. RisesTo(ghist', group')
    BY DEF SerialInv
  <2> DEFINE n == Len(ghist')
  <2>4. n \in DOMAIN ghist' /\ ghist'[n] = group' /\ DOMAIN ghist' = 1..n /\ n \in Nat
    BY <2>2, <2>3 DEF RisesTo, Last
  <2>5. group' \in ToSet(ghist') /\ group' \in GroupStatus
    BY <2>2, <2>4 DEF ToSet
  <2>6. ASSUME NEW g \in ToSet(ghist')
        PROVE  g \in GroupStatus /\ GroupRank[g] <= GroupRank[group']
    <3>1. PICK i \in DOMAIN ghist' : g = ghist'[i]
      BY DEF ToSet
    <3>2. g \in GroupStatus /\ i \in 1..n
      BY <2>2, <2>4, <3>1
    <3>3. CASE i = n
      BY <2>4, <2>5, <3>1, <3>2, <3>3, RankType
    <3>4. CASE i < n
      <4>1. GroupRank[ghist'[i]] < GroupRank[ghist'[n]]
        BY <2>3, <2>4, <3>1, <3>4 DEF RisesTo
      <4>2. GroupRank[g] \in Nat /\ GroupRank[group'] \in Nat
        BY <2>5, <3>2, RankType
      <4> QED BY <2>4, <3>1, <3>2, <4>1, <4>2
    <3> QED BY <2>4, <3>2, <3>3, <3>4
  <2> QED BY <2>2, <2>5, <2>6
<1>8. Lifecycle!Move(q.plan, q.target)
  <2>1. \A o \in q.plan : Lifecycle!IsTransitionAllowed(status[o], q.target)
    BY <1>3, SameRules
  <2>2. group' = Lifecycle!DeriveGroupStatus({status'[o] : o \in Orders})
    BY <1>6, SameRules
  <2>3. \A g \in ToSet(ghist)' \ ToSet(ghist) :
           g \in Lifecycle!GroupStatus /\ Lifecycle!GroupRank[g] <= Lifecycle!GroupRank[group']
    BY <1>7, SameRules
  <2> HIDE DEF q
  <2> QED BY <1>4, <1>5, <1>7, <2>1, <2>2, <2>3, Zenon DEF Lifecycle!Move
<1> QED BY <1>2, <1>3, <1>8

\* A step that is not a commit changes none of the tables.
LEMMA OnlyCommitsWrite ==
    ASSUME [Next]_vars
    PROVE  UNCHANGED tables \/ \E h \in Handlers : Commit(h)
BY DEF Next, Serve, vars, ReadOrder, ReadGroup, Fail, ReadGroupBefore, ReadOrders, Refuse,
       Restock, UpdateOrder, ReadSiblings, ReadCurrentGroup, UpdateGroup, GiveUp, Reread,
       TellSellers, Notify

\* Requests that do not overlap never move a finished order, never cancel for
\* the customer what is being assembled, and carry out no cascade in part.
THEOREM StepsOneAtATimeHold ==
    ASSUME OneHandler
    PROVE  Spec => StepsOneAtATime
<1>1. ASSUME TypeInv, LedgerInv, SerialInv, SerialInv', [Next]_vars
      PROVE  \A o \in Orders : IsTerminal(status[o]) => hist'[o] = hist[o]
  <2> SUFFICES ASSUME NEW o \in Orders, IsTerminal(status[o]), NEW h \in Handlers, Commit(h)
               PROVE  hist'[o] = hist[o]
    BY <1>1, OnlyCommitsWrite DEF tables
  <2>1. \A p \in req[h].plan : IsTransitionAllowed(status[p], req[h].target)
    BY <1>1, CommitMoves
  <2>2. o \notin req[h].plan
    BY <2>1 DEF IsTransitionAllowed, IsTerminal
  <2> QED BY <1>1, <2>2, CommitAppends
<1>2. ASSUME TypeInv, LedgerInv, SerialInv, SerialInv', [Next]_vars
      PROVE  \A h \in Handlers : req[h].kind = "cancelMyGroup" /\ Commits(h) =>
                 \A o \in req[h].plan : status[o] \in {"NEW", "CONFIRMED", "CANCELLED"}
  BY <1>2, CommitsIsCommit, CommitMoves
<1>3. TypeInv /\ LedgerInv /\ SerialInv /\ (TypeInv /\ LedgerInv /\ SerialInv)' /\ [Next]_vars
          => [\A o \in Orders : IsTerminal(status[o]) => hist'[o] = hist[o]]_vars
  BY <1>1
<1>4. TypeInv /\ LedgerInv /\ SerialInv /\ (TypeInv /\ LedgerInv /\ SerialInv)' /\ [Next]_vars
          => [\A h \in Handlers : req[h].kind = "cancelMyGroup" /\ Commits(h) =>
                 \A o \in req[h].plan : status[o] \in {"NEW", "CONFIRMED", "CANCELLED"}]_vars
  BY <1>2
<1>5. Spec => TerminalStays
  BY <1>3, SerialInvariant, PTL DEF Spec, TerminalStays
<1>6. Spec => CustomerCancelsBeforeAssembly
  BY <1>4, SerialInvariant, PTL DEF Spec, CustomerCancelsBeforeAssembly
<1> QED BY <1>5, <1>6, AllOrNothingAlways DEF StepsOneAtATime

\* Requests that do not overlap implement OrderLifecycle: statement by statement
\* they do what it does at once, or nothing.
THEOREM ImplementsTheLifecycle ==
    ASSUME OneHandler
    PROVE  Spec => ImplementsLifecycle
<1>1. Init => Lifecycle!Init
  BY DEF Init, Lifecycle!Init, ToSet
<1>2. ASSUME TypeInv, LedgerInv, SerialInv, SerialInv', [Next]_vars
      PROVE  [Lifecycle!Next]_(Lifecycle!vars)
  <2>1. CASE UNCHANGED tables
    BY <2>1 DEF tables, Lifecycle!vars
  <2>2. ASSUME NEW h \in Handlers, Commit(h)
        PROVE  Lifecycle!Next
    <3>1. /\ req[h].plan \in SUBSET Orders /\ req[h].target \in Lifecycle!Status
          /\ req[h].plan # {} /\ Lifecycle!Move(req[h].plan, req[h].target)
      BY <1>2, <2>2, CommitMoves, SameRules
    <3> QED BY <3>1, Zenon DEF Lifecycle!Next
  <2> QED BY <1>2, <2>1, <2>2, OnlyCommitsWrite
<1>3. TypeInv /\ LedgerInv /\ SerialInv /\ (TypeInv /\ LedgerInv /\ SerialInv)' /\ [Next]_vars
          => [Lifecycle!Next]_(Lifecycle!vars)
  BY <1>2
<1> QED BY <1>1, <1>3, SerialInvariant, PTL DEF Spec, ImplementsLifecycle, Lifecycle!Spec

-----------------------------------------------------------------------------
(* The orders of a checkout and the card of them (OrderRules)              *)

OrdersTyped ==
    /\ \E n \in 1..MaxOrders : statuses \in [1..n -> Status]
    /\ card \subseteq Status

LEMMA OrdersAtFirst == OrdersInit => OrdersTyped
BY DEF OrdersInit, OrdersTyped, Buttons

\* Every order stays or takes a step of the map, whatever button is pressed.
LEMMA OrdersMove ==
    ASSUME OrdersTyped, OrdersNext
    PROVE  /\ OrdersTyped'
           /\ DOMAIN statuses' = DOMAIN statuses
           /\ \A i \in DOMAIN statuses :
                 statuses'[i] = statuses[i] \/ IsTransitionAllowed(statuses[i], statuses'[i])
<1>1. PICK n \in 1..MaxOrders : statuses \in [1..n -> Status]
  BY DEF OrdersTyped
<1>2. ASSUME NEW i \in DOMAIN statuses, NEW to \in Status, Change(i, to)
      PROVE  /\ statuses' \in [1..n -> Status] /\ card' \subseteq Status
             /\ \A j \in DOMAIN statuses :
                   statuses'[j] = statuses[j] \/ IsTransitionAllowed(statuses[j], statuses'[j])
  BY <1>1, <1>2 DEF Change, OrdersTyped
<1>3. ASSUME NEW to \in Status, Press(to)
      PROVE  /\ statuses' \in [1..n -> Status] /\ card' \subseteq Status
             /\ \A j \in DOMAIN statuses :
                   statuses'[j] = statuses[j] \/ IsTransitionAllowed(statuses[j], statuses'[j])
  <2>1. card' \subseteq Status
    BY <1>3 DEF Press, Buttons
  <2>2. CASE ~Accepted(statuses, to)
    BY <1>1, <1>3, <2>1, <2>2 DEF Press
  <2>3. CASE Accepted(statuses, to)
    BY <1>1, <1>3, <2>1, <2>3 DEF Press, Accepted, Cascade
  <2> QED BY <2>2, <2>3
<1> QED BY <1>1, <1>2, <1>3 DEF OrdersNext, OrdersTyped

LEMMA OrdersTypedAlways == OrdersSpec => []OrdersTyped
<1>1. OrdersTyped /\ [OrdersNext]_orders => OrdersTyped'
  BY OrdersMove DEF OrdersTyped, orders
<1> QED BY <1>1, OrdersAtFirst, PTL DEF OrdersSpec

\* order-status.ts:138-142: deriveGroupStatus and the CASE of the migration agree on
\* the orders of every checkout.
THEOREM AgreesWithBackfill == OrdersSpec => []MatchesBackfill
<1>1. ASSUME OrdersTyped
      PROVE  MatchesBackfill
  <2>1. PICK n \in 1..MaxOrders : statuses \in [1..n -> Status]
    BY <1>1 DEF OrdersTyped
  <2> DEFINE S == ToSet(statuses)
             some(s) == \E i \in DOMAIN statuses : statuses[i] = s
             every(s) == \A i \in DOMAIN statuses : statuses[i] \in {s}
  <2>2. S \in SUBSET Status /\ S # {}
    BY <2>1, MaxOrdersAssumption DEF ToSet
  <2>3. ASSUME NEW s
        PROVE  (some(s) <=> s \in S) /\ (every(s) <=> S = {s})
    <3>1. \A x : x \in S <=> \E i \in DOMAIN statuses : statuses[i] = x
      BY DEF ToSet
    <3> HIDE DEF S
    <3>2. every(s) => S = {s}
      <4> SUFFICES ASSUME every(s) PROVE \A x : x \in S <=> x = s
        OBVIOUS
      <4> QED BY <2>2, <3>1
    <3>3. S = {s} => every(s)
      BY <3>1
    <3> QED BY <3>1, <3>2, <3>3
  <2>4. BackfillStatus(statuses) =
            CASE every("CANCELLED") -> "CANCELLED"
              [] every("DELIVERED") -> "DELIVERED"
              [] some("DELIVERED") /\ ~every("DELIVERED") -> "PARTIALLY_DELIVERED"
              [] OTHER ->
                   IF some("NEW") THEN "NEW"
                   ELSE IF some("CONFIRMED") THEN "CONFIRMED"
                   ELSE IF some("ASSEMBLING") THEN "ASSEMBLING"
                   ELSE IF some("DELIVERING") THEN "DELIVERING"
                   ELSE "ARRIVED"
    BY DEF BackfillStatus
  <2>5. BackfillStatus(statuses) =
            CASE S = {"CANCELLED"} -> "CANCELLED"
              [] S = {"DELIVERED"} -> "DELIVERED"
              [] "DELIVERED" \in S /\ S # {"DELIVERED"} -> "PARTIALLY_DELIVERED"
              [] OTHER ->
                   IF "NEW" \in S THEN "NEW"
                   ELSE IF "CONFIRMED" \in S THEN "CONFIRMED"
                   ELSE IF "ASSEMBLING" \in S THEN "ASSEMBLING"
                   ELSE IF "DELIVERING" \in S THEN "DELIVERING"
                   ELSE "ARRIVED"
    <3>1. \A s \in {"CANCELLED", "DELIVERED", "NEW", "CONFIRMED", "ASSEMBLING", "DELIVERING"} :
             (some(s) <=> s \in S) /\ (every(s) <=> S = {s})
      BY <2>3
    <3> HIDE DEF S, some, every
    <3> QED BY <2>4, <3>1
  <2> HIDE DEF S
  <2>6. CASE S = {"CANCELLED"} \/ S = {"DELIVERED"} \/ "DELIVERED" \in S
    BY <2>5, <2>6 DEF MatchesBackfill, GroupStatusNow, DeriveGroupStatus, S
  <2>7. CASE S # {"CANCELLED"} /\ S # {"DELIVERED"} /\ "DELIVERED" \notin S
    <3>1. S \cap Unfinished # {}
      BY <2>2, <2>7 DEF Unfinished, Status
    <3>2. /\ FirstPresent(S) \in S \cap Unfinished
          /\ \A s \in S \cap Unfinished : Place[FirstPresent(S)] <= Place[s]
      BY <2>2, <3>1, FirstPresentIsLeast
    <3>3. /\ Place["NEW"] = 1 /\ Place["CONFIRMED"] = 2 /\ Place["ASSEMBLING"] = 3
          /\ Place["DELIVERING"] = 4 /\ Place["ARRIVED"] = 5
          /\ Unfinished = {"NEW", "CONFIRMED", "ASSEMBLING", "DELIVERING", "ARRIVED"}
      BY DEF Place, Unfinished, Status
    <3>4. FirstPresent(S) =
            IF "NEW" \in S THEN "NEW"
            ELSE IF "CONFIRMED" \in S THEN "CONFIRMED"
            ELSE IF "ASSEMBLING" \in S THEN "ASSEMBLING"
            ELSE IF "DELIVERING" \in S THEN "DELIVERING"
            ELSE "ARRIVED"
      BY <3>2, <3>3
    <3> QED BY <2>5, <2>7, <3>4 DEF MatchesBackfill, GroupStatusNow, DeriveGroupStatus, S
  <2> QED BY <2>6, <2>7
<1> QED BY <1>1, OrdersTypedAlways, PTL

\* No order moved in the panel and no button of a card, however old, takes the checkout
\* back, and a checkout that is over stays as it is.
THEOREM OrdersNeverRegress == OrdersSpec => GroupNeverRegresses
<1> DEFINE Onward == /\ GroupRank[GroupStatusNow'] >= GroupRank[GroupStatusNow]
                     /\ GroupRank[GroupStatusNow] = 6 => GroupStatusNow' = GroupStatusNow
<1>1. ASSUME OrdersTyped, OrdersTyped', [OrdersNext]_orders
      PROVE  [Onward]_statuses
  <2> SUFFICES ASSUME statuses' # statuses
               PROVE  Onward
    OBVIOUS
  <2>1. OrdersNext
    BY <1>1 DEF orders
  <2> DEFINE Group == DOMAIN statuses
             now == statuses'
  <2>2. /\ Group # {} /\ statuses \in [Group -> Status] /\ now \in [Group -> Status]
        /\ \A i \in Group : now[i] = statuses[i] \/ IsTransitionAllowed(statuses[i], now[i])
    BY <1>1, <2>1, OrdersMove, MaxOrdersAssumption DEF OrdersTyped
  <2>3. /\ GroupStatusNow = DeriveGroupStatus({statuses[i] : i \in Group})
        /\ GroupStatusNow' = DeriveGroupStatus({now[i] : i \in Group})
    BY <2>2 DEF GroupStatusNow, ToSet
  <2> HIDE DEF Group, now
  <2> QED BY <2>2, <2>3, DeriveNeverRegresses
<1> QED BY <1>1, OrdersTypedAlways, PTL DEF OrdersSpec, GroupNeverRegresses

\* order-notifier.service.ts:160-166 and orders.service.ts:548-589: the buttons of an
\* up-to-date card are those changeGroupStatus grants, one at least while an order is
\* under way; a button of an old card moves all or none, by steps of the map.
THEOREM ButtonsDoWork == OrdersSpec => []ButtonsWork
<1>1. ASSUME OrdersTyped
      PROVE  ButtonsWork
  <2>1. PICK n \in 1..MaxOrders : statuses \in [1..n -> Status]
    BY <1>1 DEF OrdersTyped
  <2>2. ASSUME card = Buttons(statuses), NEW to \in card
        PROVE  Accepted(statuses, to)
    BY <2>2 DEF Buttons, Accepted, ToMove
  \* Every order under way can be cancelled.
  <2>3. ASSUME card = Buttons(statuses), Live(statuses) # {}
        PROVE  "CANCELLED" \in card
    <3>1. \A i \in Live(statuses) : IsTransitionAllowed(statuses[i], "CANCELLED")
      BY <2>1 DEF Live, IsTerminal, IsTransitionAllowed, ALLOWED_TRANSITIONS, Status
    <3> QED BY <2>3, <3>1 DEF Buttons, Status
  <2>4. ASSUME NEW to \in card, Accepted(statuses, to), NEW i \in Live(statuses)
        PROVE  /\ Cascade(statuses, to)[i] = to
               /\ statuses[i] = to \/ IsTransitionAllowed(statuses[i], to)
    BY <2>1, <2>4 DEF Accepted, ToMove, Live, Cascade
  <2> QED BY <2>2, <2>3, <2>4 DEF ButtonsWork
<1> QED BY <1>1, OrdersTypedAlways, PTL
=============================================================================
