-------------------------- MODULE Messages_proofs --------------------------
(***************************************************************************)
(* Proofs about Messages: that a client misses only what was overtaken,    *)
(* that the table of installations is what pushes need, that nobody has a  *)
(* broadcast twice or without its row, and that the counters of broadcasts *)
(* add up, for any customers, installations, handlers, page sizes and      *)
(* numbers of broadcasts, failures and restarts.                           *)
(***************************************************************************)
EXTENDS Messages, FiniteSetTheorems, FunctionTheorems, SequenceTheorems, WellFoundedInduction, TLAPS

-----------------------------------------------------------------------------
(* The inductive invariant, in four parts *)

Channels == {"push", "telegram"}
Letters == [channel : Channels, user : Users, to : Users \cup Tokens, about : Nat \cup {AnOrder}]

AtStages(kind) ==
    CASE kind = "none" -> {"idle"}
      [] kind = "order" -> {"draw", "commit", "tokens", "push", "telegram"}
      [] kind = "create" -> {"create", "page", "draw", "commit", "count", "deliver", "push", "telegram",
                             "stats", "done", "failed"}
      [] kind = "register" -> {"clear", "upsert"}
      [] OTHER -> {"write"}

\* What a request at a stage is.
Agrees(stage, r) ==
    /\ stage \in AtStages(r.kind)
    /\ r.kind \in {"order", "register", "delete", "join"} => r.user \in Users
    /\ r.kind \in {"register", "unregister"} => r.token \in Tokens
    /\ r.kind = "order" => r.about = AnOrder
    /\ stage = "create" => r.after = None /\ r.count = 0
    /\ stage = "commit" => r.page # {}
    /\ r.kind = "create" /\ stage \in {"draw", "push", "telegram", "stats"} => r.page # {}
    /\ r.kind = "create" /\ stage # "create" => r.about \in Nat

\* Those who are addressed.
UsersOf(ms) == {m.user : m \in ms}

\* Whom a request is about.
Involved(r) ==
    r.page \cup r.left \cup UsersOf(r.todo) \cup (IF r.kind = "order" THEN {r.user} ELSE {})

\* Types of the tables.
Tables ==
    /\ customers \subseteq Users /\ chats \subseteq customers
    /\ tokens \in [Tokens -> Installation \cup {None}]
    /\ feed \in SUBSET FeedRow /\ IsFiniteSet(feed)
    /\ drawn \in Nat
    /\ broadcasts \in Seq(Broadcast)
    /\ client \in [Users -> [cursor : Nat \cup {None}, shown : SUBSET FeedRow]]
    /\ receipts \subseteq Tokens
    /\ failures \in Nat /\ restarts \in Nat /\ asked \in Nat
    /\ known \subseteq Users /\ sent \in SUBSET Letters
    /\ mix \in Mixes

\* Whoever has a row, a message or a place on a page has joined.
Introduced ==
    /\ customers \subseteq Met
    /\ \A r \in feed : r.user \in Met
    /\ \A l \in sent : l.user \in Met
    /\ \A u \in Users : client[u].cursor # None => u \in Met

Hands ==
    /\ pc \in [Handlers -> Stages] /\ req \in [Handlers -> Request]
    /\ \A h \in Handlers : Agrees(pc[h], req[h])
    /\ \A h \in Handlers : Involved(req[h]) \subseteq Met
    /\ Joining \subseteq known
    /\ \A h, o \in Handlers : req[h].kind = "join" /\ req[o].kind = "join" /\ req[h].user = req[o].user => h = o

Shape == Tables /\ Introduced /\ Hands

\* The numbers a statement has taken are nobody else's.
Taken(r) == (r.seqs + 1)..(r.seqs + Cardinality(r.page))

Numbered ==
    /\ \A r \in feed : r.seq \in 1..drawn
    /\ \A r, s \in feed : r.seq = s.seq => r = s

Holds(r) == Taken(r) \subseteq 1..drawn /\ \A q \in feed : q.seq \notin Taken(r)

Reserved ==
    \A h \in Handlers : pc[h] = "commit" =>
        /\ Holds(req[h])
        /\ \A o \in Handlers : pc[o] = "commit" /\ o # h => Taken(req[h]) \cap Taken(req[o]) = {}

\* The cursor of a customer is the number of a row that is still there.
CursorsStand ==
    /\ \A u \in Users : client[u].cursor \in (0..drawn) \cup {None}
    /\ \A u \in customers : client[u].cursor \notin {None, 0} =>
          \E r \in feed : r.user = u /\ r.seq = client[u].cursor

Numbers == Numbered /\ Reserved /\ CursorsStand /\ DOMAIN before = Users

\* While registrations do not meet, the one that is about to write has cleared all there is.
Registering == {"clear", "upsert"}
Cleared(r) == OthersOf(r.token, r.device) \subseteq r.stale
Devices ==
    ~crossed =>
        /\ \A h, o \in Handlers : pc[h] \in Registering /\ pc[o] \in Registering => h = o
        /\ \A h \in Handlers : pc[h] = "upsert" => Cleared(req[h])

\* A handler that sends a broadcast.
Sending(stage, r) == r.kind = "create" /\ stage # "create"

Past(r) == {u \in Users : r.after # None /\ u <= r.after}

\* Between the counters: as many as were reached.
Tally(stats, i) ==
    /\ stats.pushSent <= Cardinality(Told("push", i))
    /\ Cardinality(Told("push", i)) <= stats.pushSent + stats.pushFailed
    /\ stats.tgSent <= Cardinality(Told("telegram", i))
    /\ Cardinality(Told("telegram", i)) <= stats.tgSent + stats.tgFailed

\* n recipients were counted, some of whom may have left since.
Counts(n, i, among) ==
    \E W \in SUBSET (Met \cap among \cap broadcasts[i].created \cap broadcasts[i].audience) :
        /\ Cardinality(W) = n
        /\ Written(i) \subseteq W
        /\ W \cap customers \subseteq Written(i)

Covered(i) == Recipients(broadcasts[i]) \ hidden \subseteq Written(i)

\* While the feed is written.
Writing(stage, r) ==
    LET i == r.about
        b == broadcasts[i]
    IN  /\ stage \in {"page", "draw", "commit", "count"} =>
              /\ \A l \in sent : l.about # i
              /\ b.stats = NoStats
        /\ stage \in {"page", "draw", "commit"} => Counts(r.count, i, Past(r))
        /\ stage = "page" => (Recipients(b) \cap Past(r)) \ hidden \subseteq Written(i)
        /\ stage \in {"draw", "commit"} =>
              /\ r.page \cap Past(r) = {} /\ r.page \subseteq b.created \cap b.audience
              /\ \A u \in Recipients(b) \ hidden :
                    (u \in Past(r) \/ Cardinality(r.page) < Batch \/ \E v \in r.page : u <= v)
                        => u \in Written(i) \cup r.page
        /\ stage = "count" => Covered(i) /\ Counts(r.count, i, Users)

\* While it goes out by push and Telegram.
Delivering(stage, r) ==
    LET i == r.about
        b == broadcasts[i]
    IN  /\ stage \in {"deliver", "push", "telegram", "stats", "done"} =>
              /\ Covered(i)
              /\ Counts(b.recipients, i, Users)
        /\ stage \in {"push", "telegram", "stats"} =>
              /\ r.page \cap Past(r) = {}
              /\ r.page \cap customers \subseteq Written(i) \cup hidden
              /\ UsersOf(r.todo) \subseteq r.page /\ r.left \subseteq r.page
              /\ Tally(Plus(b.stats, r.stats), i)
        /\ stage \in {"deliver", "done"} => Tally(b.stats, i)
        /\ stage \in {"deliver", "push"} => Told("push", i) \cup Told("telegram", i) \subseteq Past(r)
        /\ stage = "push" => r.stats = NoStats
        /\ stage \in {"telegram", "stats"} =>
              /\ Told("push", i) \subseteq Past(r) \cup r.page
              /\ Told("telegram", i) \subseteq Past(r) \cup (r.page \ r.left)
        /\ stage = "stats" => r.left = {}

\* The message about an order: its row comes first.
Notifying(stage, r) ==
    r.kind = "order" =>
        /\ stage = "commit" => r.page = {r.user}
        /\ stage \in {"tokens", "push", "telegram"} /\ r.user \in customers =>
              \E q \in feed : q.user = r.user /\ q.about = AnOrder
        /\ stage \in {"push", "telegram"} => UsersOf(r.todo) \subseteq {r.user}

\* What stands in the table of broadcasts.
Recorded(i) ==
    LET b == broadcasts[i]
    IN  /\ b.stats.pushSent <= Cardinality(Told("push", i))
        /\ b.stats.tgSent <= Cardinality(Told("telegram", i))
        /\ b.status = "DONE" => Covered(i) /\ Counts(b.recipients, i, Users) /\ Tally(b.stats, i)

\* A handler and the broadcast it sends.
Stands(stage, r) ==
    Sending(stage, r) =>
        /\ r.about \in DOMAIN broadcasts
        /\ broadcasts[r.about].status = "SENDING"
        /\ Writing(stage, r) /\ Delivering(stage, r)

Threads ==
    /\ \A h \in Handlers : Stands(pc[h], req[h]) /\ Notifying(pc[h], req[h])
    /\ \A h, o \in Handlers :
          Sending(pc[h], req[h]) /\ Sending(pc[o], req[o]) /\ req[h].about = req[o].about => h = o
    /\ \A q \in feed : q.about \in DOMAIN broadcasts \cup {AnOrder}
    /\ \A l \in sent : l.about \in DOMAIN broadcasts \cup {AnOrder}
    /\ \A i \in DOMAIN broadcasts : Recorded(i)

-----------------------------------------------------------------------------
(* Sets of numbers *)

LEMMA LeastNatural ==
    ASSUME NEW S \in SUBSET Nat, S # {}
    PROVE  \E m \in S : \A x \in S : m <= x
<1>1. PICK m \in S : \A x \in S : ~(<<x, m>> \in OpToRel(<, Nat))
  BY WFMin, NatLessThanWellFounded
<1>2. \A x \in S : ~(x < m)
  BY <1>1 DEF OpToRel
<1> QED  BY <1>2

LEMMA MinIn ==
    ASSUME NEW S \in SUBSET Nat, S # {}
    PROVE  Min(S) \in S /\ \A x \in S : Min(S) <= x
<1>1. \E m \in S : \A x \in S : m <= x
  BY LeastNatural
<1> QED BY <1>1 DEF Min

LEMMA MaxIn ==
    ASSUME NEW S \in SUBSET Nat, S # {}, IsFiniteSet(S)
    PROVE  Max(S) \in S /\ \A x \in S : x <= Max(S)
<1> DEFINE Above(x) == {y \in S : y > x}
           Sizes == {n \in Nat : \E x \in S : n = Cardinality(Above(x))}
<1>0. \A x \in S : IsFiniteSet(Above(x)) /\ Cardinality(Above(x)) \in Nat
  BY FS_Subset, FS_CardinalityType
<1>1. PICK n \in Sizes : \A k \in Sizes : n <= k
  <2>1. PICK x \in S : TRUE
    OBVIOUS
  <2>2. Cardinality(Above(x)) \in Sizes
    BY <2>1, <1>0
  <2> QED BY <2>2, LeastNatural
<1>2. PICK m \in S : n = Cardinality(Above(m))
  BY <1>1
<1>3. ASSUME NEW x \in S PROVE x <= m
  <2> SUFFICES ASSUME x > m PROVE FALSE
    OBVIOUS
  <2>0. m \in Nat /\ x \in Nat /\ \A y \in Above(x) : y \in Nat /\ y \in S /\ y > x
    BY <1>2
  <2>a. \A y \in Above(x) : y \in Above(m)
    BY <2>0
  <2>b. x \in Above(m) /\ x \notin Above(x)
    BY <2>0
  <2>1. Above(x) \in SUBSET Above(m) /\ x \in Above(m) /\ x \notin Above(x)
    <3> HIDE DEF Above, Sizes
    <3> QED BY <2>a, <2>b
  <2>2. Cardinality(Above(x)) <= Cardinality(Above(m)) /\ Cardinality(Above(x)) # Cardinality(Above(m))
    BY <2>1, <1>0, FS_Subset
  <2>3. Cardinality(Above(x)) \in Sizes
    BY <1>0
  <2> HIDE DEF Above, Sizes
  <2>4. n <= Cardinality(Above(x)) /\ Cardinality(Above(x)) \in Nat /\ Cardinality(Above(m)) \in Nat
    BY <2>3, <1>1, <1>0
  <2> QED BY <2>2, <2>4, <1>2
<1>4. \E m1 \in S : \A x \in S : m1 >= x
  BY <1>3
<1>5. Max(S) \in S /\ \A x \in S : Max(S) >= x
  BY <1>4 DEF Max
<1> QED BY <1>5

LEMMA UsersFinite ==
    ASSUME NEW S \in SUBSET Users
    PROVE  /\ IsFiniteSet(S) /\ Cardinality(S) \in Nat /\ S \subseteq Nat
           /\ S = {} <=> Cardinality(S) = 0
<1>1. IsFiniteSet(S)
  BY NamesAssumption, FS_Subset
<1> QED BY <1>1, FS_CardinalityType, FS_EmptySet, NamesAssumption


LEMMA Narrower ==
    ASSUME NEW T \in SUBSET Users, NEW S \in SUBSET T
    PROVE  /\ Cardinality(S) \in Nat /\ Cardinality(T) \in Nat
           /\ Cardinality(S) <= Cardinality(T)
           /\ Cardinality(S) = Cardinality(T) => S = T
BY UsersFinite, FS_Subset

-----------------------------------------------------------------------------
(* Pages *)

\* The first of the rows: none is left out before one that is in, and none at all when
\* the page is not full.
Opening(P, rows) ==
    /\ P \subseteq rows
    /\ \A u \in P, v \in rows : v <= u => v \in P
    /\ Cardinality(P) < Batch => P = rows

LEMMA FirstOpens ==
    ASSUME NEW rows \in SUBSET Users
    PROVE  Opening(First(rows), rows)
<1> DEFINE Before(u) == {v \in rows : v < u}
           P == First(rows)
<1>0. P = {u \in rows : Cardinality(Before(u)) < Batch} /\ rows \subseteq Nat /\ Batch \in Nat
  BY NamesAssumption DEF First
<1>1. \A u \in rows : Cardinality(Before(u)) \in Nat /\ IsFiniteSet(Before(u)) /\ Before(u) \subseteq rows
  BY UsersFinite
<1>2. ASSUME NEW u \in P, NEW v \in rows, v <= u
      PROVE  v \in P
  <2>1. Before(v) \in SUBSET Before(u)
    <3>1. u \in Nat /\ v \in Nat /\ \A w \in rows : w \in Nat
      BY <1>0, <1>2
    <3>2. \A w \in Before(v) : w \in Before(u)
      BY <3>1, <1>2
    <3> HIDE DEF Before
    <3> QED BY <3>2
  <2>2. Cardinality(Before(v)) <= Cardinality(Before(u))
    <3>1. Before(u) \in SUBSET Users
      OBVIOUS
    <3> HIDE DEF Before
    <3> QED BY <2>1, <3>1, Narrower
  <2>3. Cardinality(Before(u)) < Batch /\ Cardinality(Before(u)) \in Nat /\ Cardinality(Before(v)) \in Nat
    BY <1>0, <1>1
  <2>4. Cardinality(Before(v)) < Batch
    BY <2>2, <2>3, <1>0
  <2> QED BY <2>4, <1>0
<1>3. ASSUME Cardinality(P) < Batch
      PROVE  P = rows
  <2> SUFFICES ASSUME rows \ P # {} PROVE FALSE
    BY <1>0
  <2> DEFINE m == Min(rows \ P)
  <2>1. m \in rows \ P /\ \A x \in rows \ P : m <= x
    BY MinIn, <1>0
  <2> HIDE DEF m
  <2>2. Before(m) \in SUBSET P
    <3>1. \A w \in Before(m) : w \in rows /\ w < m /\ w \in Nat /\ m \in Nat
      BY <1>0, <2>1
    <3>2. \A w \in Before(m) : w \in P
      <4> HIDE DEF P, Before
      <4> QED BY <3>1, <2>1
    <3> HIDE DEF P, Before
    <3> QED BY <3>2
  <2>3. Cardinality(Before(m)) <= Cardinality(P) /\ Cardinality(Before(m)) \in Nat /\ Cardinality(P) \in Nat
    <3>1. P \in SUBSET Users
      BY <1>0
    <3> HIDE DEF Before, P
    <3> QED BY <2>2, <3>1, Narrower
  <2>4. Cardinality(Before(m)) < Batch
    BY <2>3, <1>3, <1>0
  <2> QED BY <2>4, <2>1, <1>0
<1> QED BY <1>0, <1>2, <1>3 DEF Opening

\* What a page is: rows after the cursor, and all of them up to its end but who is
\* passed over.
PageOf(P, where, after) ==
    /\ P \subseteq where
    /\ \A u \in P : after # None => u > after
    /\ \A u \in where : (after # None => u > after) /\ u \notin PassedOver(where, after)
          /\ (Cardinality(P) < Batch \/ \E v \in P : u <= v) => u \in P

LEMMA PageFacts ==
    ASSUME NEW where \in SUBSET Users, NEW after \in Users \cup {None}
    PROVE  PageOf(Page(where, after), where, after)
<1> DEFINE rows == {u \in where : after = None \/ u >= after}
           rest == IF after = None \/ rows = {} THEN rows ELSE rows \ {Min(rows)}
           P == Page(where, after)
<1>1. P = First(rest) /\ rest \in SUBSET where /\ rest \in SUBSET Users /\ where \subseteq Nat
  BY NamesAssumption DEF Page
<1>2. Opening(P, rest)
  BY <1>1, FirstOpens
<1>3. ASSUME after # None, NEW u \in rest PROVE u > after
  <2>1. rows # {} /\ rows \in SUBSET Nat /\ after \in Nat
    BY <1>1, <1>3, NamesAssumption
  <2>2. Min(rows) \in rows /\ \A x \in rows : Min(rows) <= x
    BY <2>1, MinIn
  <2>3. u \in rows /\ u # Min(rows)
    BY <1>3, <2>1
  <2> HIDE DEF rest
  <2> QED BY <2>1, <2>2, <2>3, <1>1, <1>3
<1>4. ASSUME NEW u \in where, after # None => u > after, u \notin PassedOver(where, after)
      PROVE  u \in rest
  <2>1. u \in rows
    BY <1>4, <1>1, NamesAssumption
  <2>2. CASE after = None
    BY <2>1, <2>2
  <2>3. CASE after # None /\ after \in where
    <3>0. after \in Nat
      BY <2>3, NamesAssumption
    <3>a. after \in rows
      BY <2>3, <3>0
    <3>1. after \in rows /\ rows \in SUBSET Nat
      BY <3>a, <1>1
    <3>2. Min(rows) \in rows /\ Min(rows) <= after
      BY <3>1, MinIn
    <3>3. u # Min(rows)
      BY <3>1, <3>2, <1>4, <2>3, <1>1
    <3> QED BY <2>1, <3>3
  <2>4. CASE after # None /\ after \notin where
    <3>1. PassedOver(where, after) = {Min(rows)}
      BY <2>4, <2>1 DEF PassedOver
    <3> QED BY <3>1, <1>4, <2>1
  <2> QED BY <2>2, <2>3, <2>4
<1> HIDE DEF rest, P
<1> QED BY <1>1, <1>2, <1>3, <1>4, UsersFinite DEF PageOf, Opening, P

-----------------------------------------------------------------------------
(* Lists *)

LEMMA OrderedIn ==
    ASSUME NEW S, IsFiniteSet(S)
    PROVE  \A i \in DOMAIN Ordered(S) : Ordered(S)[i] \in S
<1>1. Cardinality(S) \in Nat /\ ExistsBijection(1..Cardinality(S), S)
  BY FS_CardinalityType
<1>2. PICK f : f \in Bijection(1..Cardinality(S), S)
  BY <1>1 DEF ExistsBijection
<1>3. f \in [1..Cardinality(S) -> S] /\ IsInjective(f)
  BY <1>2 DEF Bijection, Injection, IsInjective
<1>4. Ordered(S) \in [1..Cardinality(S) -> S]
  BY <1>3 DEF Ordered, SetToSeq
<1> QED BY <1>4

\* The place of a user on a page.
Place(P, u) == Cardinality({v \in P : v <= u})

LEMMA Places ==
    ASSUME NEW P \in SUBSET Users
    PROVE  /\ \A u \in P : Place(P, u) \in 1..Cardinality(P)
           /\ \A u, w \in P : Place(P, u) = Place(P, w) => u = w
<1> DEFINE Upto(u) == {v \in P : v <= u}
<1>0. P \subseteq Nat /\ IsFiniteSet(P) /\ Cardinality(P) \in Nat
  BY UsersFinite
<1>1. \A u \in P : Upto(u) \in SUBSET P /\ IsFiniteSet(Upto(u)) /\ Cardinality(Upto(u)) \in Nat
                   /\ Cardinality(Upto(u)) # 0 /\ Cardinality(Upto(u)) <= Cardinality(P)
  <2> SUFFICES ASSUME NEW u \in P
               PROVE  Upto(u) \in SUBSET P /\ IsFiniteSet(Upto(u)) /\ Cardinality(Upto(u)) \in Nat
                      /\ Cardinality(Upto(u)) # 0 /\ Cardinality(Upto(u)) <= Cardinality(P)
    OBVIOUS
  <2>1. Upto(u) \in SUBSET P /\ u \in Upto(u)
    BY <1>0
  <2> HIDE DEF Upto
  <2> QED BY <2>1, <1>0, UsersFinite, FS_Subset
<1>2. ASSUME NEW u \in P, NEW w \in P, u < w
      PROVE  Place(P, u) # Place(P, w)
  <2>0. u \in Nat /\ w \in Nat /\ \A v \in P : v \in Nat
    BY <1>0
  <2>a. w \in Upto(w) /\ w \notin Upto(u) /\ \A v \in Upto(u) : v \in Upto(w)
    BY <2>0, <1>2
  <2>1. Upto(u) \in SUBSET Upto(w) /\ w \in Upto(w) /\ w \notin Upto(u)
    <3> HIDE DEF Upto
    <3> QED BY <2>a
  <2>2. Cardinality(Upto(w)) # Cardinality(Upto(u))
    BY <2>1, <1>1, FS_Subset
  <2> QED BY <2>2 DEF Place
<1>3. \A u \in P : Place(P, u) \in 1..Cardinality(P)
  BY <1>0, <1>1 DEF Place
<1>4. \A u, w \in P : Place(P, u) = Place(P, w) => u = w
  BY <1>0, <1>2
<1> QED BY <1>3, <1>4

-----------------------------------------------------------------------------
(* A step of one handler *)

\* h is now at stage with r in hand; nobody else has moved.
Moves(h, stage, r) ==
    /\ pc' = [pc EXCEPT ![h] = stage]
    /\ req' = [req EXCEPT ![h] = r]

\* It goes on with its request, or is done with it.
Goes(h, stage, r) ==
    /\ Moves(h, stage, r)
    /\ stage \in Stages /\ r \in Request /\ Agrees(stage, r)
    /\ Involved(r) \subseteq Met
    /\ r = NoReq \/ (r.kind = req[h].kind /\ r.user = req[h].user)
    /\ known' = known

LEMMA Moved ==
    ASSUME Hands, NEW h \in Handlers, NEW stage \in Stages, NEW r \in Request, Moves(h, stage, r)
    PROVE  /\ pc'[h] = stage /\ req'[h] = r
           /\ \A o \in Handlers \ {h} : pc'[o] = pc[o] /\ req'[o] = req[o]
           /\ pc' \in [Handlers -> Stages] /\ req' \in [Handlers -> Request]
BY DEF Hands, Moves

LEMMA InHand ==
    ASSUME Hands, NEW h \in Handlers
    PROVE  /\ pc[h] \in Stages /\ req[h] \in Request /\ Agrees(pc[h], req[h])
           /\ Involved(req[h]) \subseteq Met
BY DEF Hands

LEMMA NothingInHand ==
    /\ NoReq \in Request /\ "idle" \in Stages /\ Agrees("idle", NoReq)
    /\ Involved(NoReq) = {} /\ NoReq.kind = "none"
<1>1. NoReq.kind = "none" /\ NoReq.about = None /\ NoReq.page = {} /\ NoReq.left = {} /\ NoReq.todo = {}
  BY DEF NoReq
<1>2. NoReq \in Request
  <2>1. NoStats \in Counters
    BY DEF NoStats, Counters
  <2>2. "none" \in DOMAIN FirstStage \cup {"none"}
    OBVIOUS
  <2> HIDE DEF NoStats
  <2> QED BY <2>1, <2>2 DEF NoReq, Request
<1>3. Agrees("idle", NoReq)
  BY <1>1 DEF Agrees, AtStages
<1>4. Involved(NoReq) = {}
  BY <1>1 DEF Involved, UsersOf
<1> QED BY <1>1, <1>2, <1>3, <1>4 DEF Stages

JoinsWith(r, u) == r.kind = "join" /\ r.user = u

LEMMA JoiningIs ==
    ASSUME NEW u
    PROVE  u \in Joining <=> \E h \in Handlers : JoinsWith(req[h], u)
BY DEF Joining, JoinsWith

LEMMA JoiningIsNext ==
    ASSUME NEW u
    PROVE  u \in Joining' <=> \E h \in Handlers : JoinsWith(req'[h], u)
BY DEF Joining, JoinsWith

LEMMA GoesOn ==
    ASSUME Hands, NEW h \in Handlers, NEW stage, NEW r, Goes(h, stage, r)
    PROVE  Hands' /\ Met \subseteq Met' /\ Joining' \subseteq Joining
<1> USE DEF Goes
<1>0. /\ pc'[h] = stage /\ req'[h] = r
      /\ \A o \in Handlers \ {h} : pc'[o] = pc[o] /\ req'[o] = req[o]
      /\ pc' \in [Handlers -> Stages] /\ req' \in [Handlers -> Request]
  BY Moved
<1>1. \A o \in Handlers : \A u : JoinsWith(req'[o], u) => JoinsWith(req[o], u)
  BY <1>0, NothingInHand DEF JoinsWith
<1>2. \A u : u \in Joining' => u \in Joining
  BY <1>1, JoiningIs, JoiningIsNext
<1>3. Met \subseteq Met'
  BY <1>2 DEF Met
<1>4. \A o \in Handlers : Agrees(pc'[o], req'[o])
  BY <1>0 DEF Hands
<1>5. \A o \in Handlers : Involved(req'[o]) \subseteq Met'
  BY <1>0, <1>3 DEF Hands
<1>6. \A k, o \in Handlers : req'[k].kind = "join" /\ req'[o].kind = "join" /\ req'[k].user = req'[o].user => k = o
  <2>1. \A k, o \in Handlers : \A u : JoinsWith(req[k], u) /\ JoinsWith(req[o], u) => k = o
    BY DEF Hands, JoinsWith
  <2>2. \A k, o \in Handlers : \A u : JoinsWith(req'[k], u) /\ JoinsWith(req'[o], u) => k = o
    BY <2>1, <1>1
  <2> QED BY <2>2 DEF JoinsWith
<1>7. Joining' \subseteq known'
  BY <1>2 DEF Hands
<1> QED BY <1>0, <1>2, <1>3, <1>4, <1>5, <1>6, <1>7 DEF Hands

LEMMA DoneGoes ==
    ASSUME NEW h \in Handlers, Done(h), known' = known
    PROVE  Goes(h, "idle", NoReq)
BY NothingInHand DEF Done, Goes, Moves

LEMMA IntroducedStays ==
    ASSUME Introduced, Met \subseteq Met', customers' \subseteq Met',
           \A r \in feed' : r \in feed \/ r.user \in Met',
           \A l \in sent' : l \in sent \/ l.user \in Met',
           \A u \in Users : client'[u].cursor # None => client[u].cursor # None \/ u \in Met
    PROVE  Introduced'
BY DEF Introduced

LEMMA SamePeople ==
    ASSUME Introduced, Met \subseteq Met', customers' \subseteq customers, feed' \subseteq feed,
           sent' = sent, client' = client
    PROVE  Introduced'
BY DEF Introduced

-----------------------------------------------------------------------------
(* Types, and that whoever has anything has joined: every action *)

LEMMA FailsTo ==
    ASSUME Hands, NEW h \in Handlers, req[h].kind = "create", req[h].about \in Nat,
           Go(h, "failed"), req' = req, known' = known
    PROVE  Goes(h, "failed", req[h])
<1>1. req[h] \in Request /\ Involved(req[h]) \subseteq Met
  BY InHand
<1>2. Moves(h, "failed", req[h])
  BY DEF Moves, Go, Hands
<1>3. Agrees("failed", req[h])
  BY DEF Agrees, AtStages, Request
<1> QED BY <1>1, <1>2, <1>3 DEF Goes, Stages

LEMMA UserIsMet ==
    ASSUME Hands, NEW h \in Handlers
    PROVE  /\ req[h].page \subseteq Met /\ req[h].left \subseteq Met
           /\ UsersOf(req[h].todo) \subseteq Met
           /\ req[h].kind = "order" => req[h].user \in Met
BY InHand DEF Involved

\* Whose rows are drawn.
Drawn(h) == IF req[h].kind = "order" THEN {req[h].user} ELSE req[h].page

LEMMA DrawIs ==
    ASSUME Hands, Tables, NEW h \in Handlers, Draw(h)
    PROVE  /\ pc[h] = "draw" /\ req[h] \in Request /\ req[h].kind \in {"order", "create"}
           /\ Drawn(h) \subseteq Met /\ Drawn(h) \in SUBSET Users /\ Drawn(h) # {}
           /\ Goes(h, "commit", [req[h] EXCEPT !.page = Drawn(h), !.seqs = drawn])
           /\ drawn' = drawn + Cardinality(Drawn(h)) /\ Cardinality(Drawn(h)) \in Nat /\ drawn \in Nat
           /\ UNCHANGED <<people, feed, broadcasts, client, receipts, asked, world, history>>
<1> DEFINE us == Drawn(h)
           r == [req[h] EXCEPT !.page = us, !.seqs = drawn]
<1>1. /\ req[h] \in Request /\ Agrees(pc[h], req[h]) /\ pc[h] = "draw"
  BY InHand DEF Draw
<1>2. req[h].kind \in {"order", "create"}
  BY <1>1 DEF Agrees, AtStages, Request, FirstStage
<1>3. us \subseteq Met /\ us \in SUBSET Users /\ us # {} /\ drawn \in Nat /\ Cardinality(us) \in Nat
  <2>1. us \subseteq Met /\ us \in SUBSET Users /\ us # {} /\ drawn \in Nat
    BY <1>1, <1>2, UserIsMet DEF Agrees, Request, Tables, Drawn
  <2> HIDE DEF us
  <2> QED BY <2>1, UsersFinite
<1>4. Goes(h, "commit", r)
  <2>1. Moves(h, "commit", r)
    BY DEF Draw, Moves, Go, Hands, Drawn
  <2> HIDE DEF us
  <2>2. r \in Request
    BY <1>1, <1>3 DEF Request
  <2>3. Agrees("commit", r)
    BY <1>1, <1>2, <1>3 DEF Agrees, AtStages, Request
  <2>4. Involved(r) \subseteq Met
    BY <1>1, <1>3, UserIsMet DEF Involved, Request
  <2> QED BY <2>1, <2>2, <2>3, <2>4, <1>1 DEF Goes, Request, Stages, Draw, history
<1>5. drawn' = drawn + Cardinality(us)
  BY DEF Draw, Drawn
<1> QED BY <1>1, <1>2, <1>3, <1>4, <1>5 DEF Draw

LEMMA DrawShape ==
    ASSUME Shape, NEW h \in Handlers, Draw(h), mix' = mix
    PROVE  Shape' /\ Met \subseteq Met'
<1>0. Hands /\ Tables /\ Introduced
  BY DEF Shape
<1>1. Hands' /\ Met \subseteq Met'
  BY <1>0, DrawIs, GoesOn
<1>2. /\ drawn' = drawn + Cardinality(Drawn(h)) /\ Cardinality(Drawn(h)) \in Nat /\ drawn \in Nat
      /\ UNCHANGED <<people, feed, broadcasts, client, receipts, asked, world, history>>
  BY <1>0, DrawIs
<1>3. Tables'
  <2>1. drawn' \in Nat
    BY <1>2
  <2> QED BY <1>0, <1>2, <2>1 DEF Tables, people, world, history
<1>4. Introduced'
  BY <1>0, <1>1, <1>2, SamePeople DEF people, history, Introduced
<1> QED BY <1>1, <1>3, <1>4 DEF Shape

LEMMA ClearIs ==
    ASSUME Hands, NEW h \in Handlers, Clear(h)
    PROVE  /\ pc[h] = "clear" /\ req[h] \in Request
           /\ req[h].kind = "register" /\ req[h].token \in Tokens /\ req[h].user \in Users
           /\ Goes(h, "upsert", [req[h] EXCEPT !.stale = OthersOf(req[h].token, req[h].device)])
           /\ UNCHANGED <<people, letters, broadcasts, client, receipts, asked, world, history>>
<1> DEFINE r == [req[h] EXCEPT !.stale = OthersOf(req[h].token, req[h].device)]
<1>1. /\ req[h] \in Request /\ Agrees(pc[h], req[h]) /\ pc[h] = "clear"
  BY InHand DEF Clear
<1>2. req[h].kind = "register" /\ req[h].token \in Tokens /\ req[h].user \in Users
  BY <1>1 DEF Agrees, AtStages, Request, FirstStage
<1>3. OthersOf(req[h].token, req[h].device) \subseteq Tokens
  BY DEF OthersOf
<1>4. Goes(h, "upsert", r)
  <2>1. Moves(h, "upsert", r)
    BY DEF Clear, Moves, Go, Hands
  <2>2. r \in Request
    BY <1>1, <1>3 DEF Request
  <2>3. Agrees("upsert", r)
    BY <1>1, <1>2 DEF Agrees, AtStages, Request
  <2>4. Involved(r) \subseteq Met
    BY <1>1, UserIsMet DEF Involved, Request
  <2> QED BY <2>1, <2>2, <2>3, <2>4, <1>1 DEF Goes, Request, Stages, Clear, history
<1> QED BY <1>1, <1>2, <1>4 DEF Clear

LEMMA ReadTokensIs ==
    ASSUME Hands, NEW h \in Handlers, ReadTokens(h)
    PROVE  /\ pc[h] = "tokens" /\ req[h] \in Request
           /\ req[h].kind = "order" /\ req[h].user \in Users
           /\ UsersOf(Messages({req[h].user})) \subseteq {req[h].user}
           /\ Goes(h, "push", [req[h] EXCEPT !.todo = Messages({req[h].user})])
           /\ UNCHANGED <<people, letters, broadcasts, client, receipts, asked, world, history>>
<1> DEFINE ms == Messages({req[h].user})
           r == [req[h] EXCEPT !.todo = ms]
<1>1. /\ req[h] \in Request /\ Agrees(pc[h], req[h]) /\ pc[h] = "tokens"
  BY InHand DEF ReadTokens
<1>2. req[h].kind = "order" /\ req[h].user \in Users
  BY <1>1 DEF Agrees, AtStages, Request, FirstStage
<1>3. ms \in SUBSET [user : Users, token : Tokens] /\ (\A m \in ms : m.user = req[h].user)
      /\ UsersOf(ms) \subseteq {req[h].user}
  BY <1>2 DEF Messages, UsersOf
<1>4. Goes(h, "push", r)
  <2>1. Moves(h, "push", r)
    BY DEF ReadTokens, Moves, Go, Hands
  <2> HIDE DEF ms
  <2>2. r \in Request
    BY <1>1, <1>3 DEF Request
  <2>3. Agrees("push", r)
    BY <1>1, <1>2 DEF Agrees, AtStages, Request
  <2>4. Involved(r) \subseteq Met
    BY <1>1, <1>2, <1>3, UserIsMet DEF Involved, Request
  <2> QED BY <2>1, <2>2, <2>3, <2>4, <1>1 DEF Goes, Request, Stages, ReadTokens, history
<1> QED BY <1>1, <1>2, <1>3, <1>4 DEF ReadTokens

LEMMA ReadingShape ==
    ASSUME Shape, NEW h \in Handlers, Clear(h) \/ ReadTokens(h), mix' = mix
    PROVE  Shape' /\ Met \subseteq Met'
<1>0. Hands /\ Tables /\ Introduced
  BY DEF Shape
<1>1. Hands' /\ Met \subseteq Met'
  BY <1>0, ClearIs, ReadTokensIs, GoesOn
<1>2. UNCHANGED <<people, letters, broadcasts, client, receipts, asked, world, history>>
  BY DEF Clear, ReadTokens
<1>3. Tables'
  BY <1>0, <1>2 DEF Tables, people, letters, world, history
<1>4. Introduced'
  BY <1>0, <1>1, <1>2, SamePeople DEF people, letters, history, Introduced
<1> QED BY <1>1, <1>3, <1>4 DEF Shape

LEMMA RowsAre ==
    ASSUME NEW r \in Request, r.about \in Nat \cup {AnOrder}
    PROVE  /\ Rows(r) \subseteq FeedRow /\ IsFiniteSet(Rows(r))
           /\ \A q \in Rows(r) : q.user \in r.page /\ q.about = r.about /\ q.seq = r.seqs + Place(r.page, q.user)
           /\ \A u \in r.page : Row(u, r.seqs + Place(r.page, u), r.about) \in Rows(r)
<1> DEFINE RowFor(u) == Row(u, r.seqs + Place(r.page, u), r.about)
<1>0. r.page \in SUBSET Users /\ r.seqs \in Nat
  BY DEF Request
<1>1. Rows(r) = {RowFor(u) : u \in r.page}
  BY DEF Rows, Place
<1>2. \A u \in r.page : RowFor(u).user = u /\ RowFor(u).about = r.about /\ RowFor(u).seq = r.seqs + Place(r.page, u)
  BY DEF Row
<1>3. \A u \in r.page : RowFor(u) \in FeedRow
  <2>1. \A u \in r.page : Place(r.page, u) \in Nat
    BY <1>0, UsersFinite DEF Place
  <2> QED BY <2>1, <1>0 DEF Row, FeedRow
<1>4. IsFiniteSet(Rows(r))
  <2> DEFINE f == [u \in r.page |-> RowFor(u)]
  <2>1. f \in Surjection(r.page, Rows(r))
    BY <1>1 DEF Surjection
  <2> HIDE DEF f
  <2> QED BY <2>1, <1>0, UsersFinite, FS_Surjection
<1> HIDE DEF RowFor
<1>5. \A q \in Rows(r) : q \in FeedRow /\ q.user \in r.page /\ q.about = r.about /\ q.seq = r.seqs + Place(r.page, q.user)
  BY <1>1, <1>2, <1>3
<1>6. \A u \in r.page : RowFor(u) \in Rows(r)
  BY <1>1
<1> QED BY <1>4, <1>5, <1>6 DEF RowFor

LEMMA CommitFacts ==
    ASSUME Hands, NEW h \in Handlers, pc[h] = "commit"
    PROVE  /\ req[h] \in Request /\ Agrees(pc[h], req[h]) /\ req[h].kind \in {"order", "create"}
           /\ req[h].page # {} /\ req[h].page \subseteq Met /\ req[h].page \in SUBSET Users
           /\ req[h].about \in Nat \cup {AnOrder}
           /\ Max(req[h].page) \in req[h].page /\ \A u \in req[h].page : u <= Max(req[h].page)
           /\ Cardinality(req[h].page) \in Nat
<1>1. req[h] \in Request /\ Agrees(pc[h], req[h])
  BY InHand
<1>2. req[h].kind \in {"order", "create"}
  BY <1>1 DEF Agrees, AtStages, Request, FirstStage
<1>3. req[h].page # {} /\ req[h].page \subseteq Met /\ req[h].page \in SUBSET Users
  BY <1>1, UserIsMet DEF Agrees, Request
<1>4. req[h].about \in Nat \cup {AnOrder}
  BY <1>1, <1>2 DEF Agrees
<1>5. IsFiniteSet(req[h].page) /\ req[h].page \subseteq Nat /\ Cardinality(req[h].page) \in Nat
  BY <1>3, UsersFinite
<1> QED BY <1>1, <1>2, <1>3, <1>4, <1>5, MaxIn

\* A page of rows is counted, and the next is read after its last.
PageCounted(h) == [req[h] EXCEPT !.count = @ + Cardinality(req[h].page), !.after = Max(req[h].page)]

LEMMA CommitIs ==
    ASSUME Hands, NEW h \in Handlers, CommitRows(h)
    PROVE  /\ pc[h] = "commit"
           /\ PageCounted(h) \in Request
           /\ \/ /\ Fine /\ Committed(h)
                 /\ \/ req[h].kind = "order" /\ Goes(h, "idle", NoReq)
                    \/ req[h].kind = "order" /\ Goes(h, "tokens", req[h])
                    \/ req[h].kind = "create" /\ Goes(h, IF LastPage(req[h]) THEN "count" ELSE "page", PageCounted(h))
              \/ /\ Broken /\ feed' = feed /\ overtaken' = overtaken
                 /\ \/ req[h].kind = "order" /\ Goes(h, "idle", NoReq)
                    \/ req[h].kind = "create" /\ Goes(h, "failed", req[h])
           /\ UNCHANGED <<drawn, people, broadcasts, client, receipts, asked, known, sent, twice,
                          dead, dropped, before, hidden, lost, crossed>>
<1> DEFINE r == PageCounted(h)
<1>c. /\ pc[h] = "commit"
      /\ UNCHANGED <<drawn, people, broadcasts, client, receipts, asked, known, sent, twice,
                     dead, dropped, before, hidden, lost, crossed>>
  BY DEF CommitRows, Committed, history, letters
<1>1. /\ req[h] \in Request /\ Agrees(pc[h], req[h]) /\ req[h].kind \in {"order", "create"}
      /\ req[h].page # {} /\ req[h].page \subseteq Met /\ req[h].page \in SUBSET Users
      /\ req[h].about \in Nat \cup {AnOrder}
      /\ Max(req[h].page) \in req[h].page /\ Cardinality(req[h].page) \in Nat
  BY <1>c, CommitFacts
<1>2. r \in Request /\ r.kind = req[h].kind /\ r.user = req[h].user /\ r.about = req[h].about
      /\ r.page = req[h].page /\ r.left = req[h].left /\ r.todo = req[h].todo /\ r.token = req[h].token
  <2> DEFINE last == Max(req[h].page)
             n == req[h].count + Cardinality(req[h].page)
  <2>1. last \in Users /\ n \in Nat
    BY <1>1 DEF Request
  <2>2. r = [req[h] EXCEPT !.count = n, !.after = last]
    BY <1>1 DEF Request, PageCounted
  <2> HIDE DEF last, n, r
  <2> QED BY <2>1, <2>2, <1>1 DEF Request
<1>3. Done(h) => Goes(h, "idle", NoReq)
  BY <1>c, DoneGoes
<1>4. ASSUME Go(h, "tokens"), req[h].kind = "order", req' = req
      PROVE  Goes(h, "tokens", req[h])
  <2>1. Moves(h, "tokens", req[h])
    BY <1>4 DEF Moves, Go, Hands
  <2>2. Agrees("tokens", req[h])
    BY <1>4, <1>1 DEF Agrees, AtStages
  <2> QED BY <2>1, <2>2, <1>1, <1>c, InHand DEF Goes, Stages
<1>5. ASSUME Go(h, "failed"), req[h].kind = "create", req' = req
      PROVE  Goes(h, "failed", req[h])
  <2>1. req[h].about \in Nat
    BY <1>1, <1>c, <1>5 DEF Agrees
  <2> QED BY <2>1, <1>5, <1>c, FailsTo
<1> DEFINE stage == IF LastPage(req[h]) THEN "count" ELSE "page"
<1>6. ASSUME req[h].kind = "create", Go(h, stage),
             req' = [req EXCEPT ![h].count = @ + Cardinality(req[h].page), ![h].after = Max(req[h].page)]
      PROVE  Goes(h, stage, r)
  <2>1. Moves(h, stage, r)
    BY <1>6 DEF Moves, Go, Hands, PageCounted
  <2> HIDE DEF r
  <2>2. Agrees(stage, r)
    BY <1>6, <1>1, <1>2, <1>c DEF Agrees, AtStages
  <2>3. Involved(r) \subseteq Met
    BY <1>2, InHand DEF Involved
  <2> QED BY <2>1, <2>2, <2>3, <1>2, <1>c DEF Goes, Stages
<1>7. req[h].kind # "order" => req[h].kind = "create"
  BY <1>1
<1>8. \/ /\ Fine /\ Committed(h)
         /\ IF req[h].kind = "order"
            THEN Done(h) \/ (Go(h, "tokens") /\ req' = req)
            ELSE /\ req' = [req EXCEPT ![h].count = @ + Cardinality(req[h].page), ![h].after = Max(req[h].page)]
                 /\ Go(h, stage)
      \/ /\ Broken /\ feed' = feed /\ overtaken' = overtaken
         /\ IF req[h].kind = "order" THEN Done(h) ELSE Go(h, "failed") /\ req' = req
  BY DEF CommitRows, letters, history
<1> HIDE DEF r, stage
<1>9. \/ /\ Fine /\ Committed(h)
         /\ \/ req[h].kind = "order" /\ Goes(h, "idle", NoReq)
            \/ req[h].kind = "order" /\ Goes(h, "tokens", req[h])
            \/ req[h].kind = "create" /\ Goes(h, stage, r)
      \/ /\ Broken /\ feed' = feed /\ overtaken' = overtaken
         /\ \/ req[h].kind = "order" /\ Goes(h, "idle", NoReq)
            \/ req[h].kind = "create" /\ Goes(h, "failed", req[h])
  BY <1>3, <1>4, <1>5, <1>6, <1>7, <1>8
<1> QED BY <1>c, <1>2, <1>9 DEF r, stage

LEMMA CommitShape ==
    ASSUME Shape, NEW h \in Handlers, CommitRows(h), mix' = mix
    PROVE  Shape' /\ Met \subseteq Met'
<1>0. Hands /\ Tables /\ Introduced
  BY DEF Shape
<1>1. /\ \E stage, r : Goes(h, stage, r)
      /\ pc[h] = "commit"
      /\ feed' = feed \/ feed' = feed \cup Rows(req[h])
      /\ Fine \/ Broken
      /\ UNCHANGED <<drawn, people, broadcasts, client, receipts, asked, known, sent>>
  BY <1>0, CommitIs DEF Committed
<1>2. Hands' /\ Met \subseteq Met'
  BY <1>0, <1>1, GoesOn
<1>3. /\ Rows(req[h]) \subseteq FeedRow /\ IsFiniteSet(Rows(req[h]))
      /\ \A q \in Rows(req[h]) : q.user \in req[h].page
      /\ req[h].page \subseteq Met
  BY <1>0, <1>1, CommitFacts, RowsAre
<1>4. feed' \in SUBSET FeedRow /\ IsFiniteSet(feed')
  <2>1. feed \in SUBSET FeedRow /\ IsFiniteSet(feed)
    BY <1>0 DEF Tables
  <2>2. IsFiniteSet(feed \cup Rows(req[h]))
    BY <2>1, <1>3, FS_Union
  <2> QED BY <2>1, <2>2, <1>1, <1>3
<1>5. Tables'
  BY <1>0, <1>1, <1>4 DEF Tables, people, Fine, Broken
<1>6. Introduced'
  BY <1>0, <1>1, <1>2, <1>3 DEF Introduced, people
<1> QED BY <1>2, <1>5, <1>6 DEF Shape

LEMMA LastSeq ==
    ASSUME NEW rows \in SUBSET FeedRow, IsFiniteSet(rows), rows # {}
    PROVE  /\ Max({r.seq : r \in rows}) \in Nat
           /\ \E r \in rows : r.seq = Max({q.seq : q \in rows})
           /\ \A r \in rows : r.seq <= Max({q.seq : q \in rows})
<1> DEFINE seqs == {r.seq : r \in rows}
           f == [r \in rows |-> r.seq]
<1>1. f \in Surjection(rows, seqs)
  BY DEF Surjection
<1>2. IsFiniteSet(seqs)
  <2> HIDE DEF f, seqs
  <2> QED BY <1>1, FS_Surjection
<1>3. seqs \in SUBSET Nat /\ seqs # {}
  BY DEF FeedRow
<1>4. Max(seqs) \in seqs /\ \A n \in seqs : n <= Max(seqs)
  <2> HIDE DEF f, seqs
  <2> QED BY <1>2, <1>3, MaxIn
<1>5. \E r \in rows : r.seq = Max(seqs)
  BY <1>4
<1>6. \A r \in rows : r.seq <= Max(seqs)
  BY <1>4
<1> QED BY <1>3, <1>4, <1>5, <1>6

\* What a poll is given, and the cursor that goes with it.
NextCursor(u) ==
    LET rows == After(u, client[u].cursor)
    IN  IF rows # {} THEN Max({r.seq : r \in rows})
        ELSE IF client[u].cursor = None THEN 0 ELSE client[u].cursor

LEMMA AfterIn ==
    ASSUME Tables, NEW u \in Users
    PROVE  /\ After(u, client[u].cursor) \in SUBSET RowsOf(u)
           /\ RowsOf(u) \in SUBSET FeedRow /\ RowsOf(u) \in SUBSET feed /\ IsFiniteSet(RowsOf(u))
           /\ IsFiniteSet(After(u, client[u].cursor))
           /\ client[u].cursor \in Nat \cup {None} /\ client[u].shown \in SUBSET FeedRow
           /\ NextCursor(u) \in Nat
<1>1. feed \in SUBSET FeedRow /\ IsFiniteSet(feed)
      /\ client[u].cursor \in Nat \cup {None} /\ client[u].shown \in SUBSET FeedRow
  BY DEF Tables
<1>2. RowsOf(u) \in SUBSET feed
  BY DEF RowsOf
<1>3. After(u, client[u].cursor) \in SUBSET RowsOf(u)
  BY DEF After
<1>4. IsFiniteSet(RowsOf(u)) /\ RowsOf(u) \in SUBSET FeedRow
  BY <1>1, <1>2, FS_Subset
<1>5. IsFiniteSet(After(u, client[u].cursor)) /\ After(u, client[u].cursor) \in SUBSET FeedRow
  BY <1>3, <1>4, FS_Subset
<1>6. NextCursor(u) \in Nat
  BY <1>1, <1>5, LastSeq DEF NextCursor
<1> QED BY <1>1, <1>2, <1>3, <1>4, <1>5, <1>6

LEMMA PollIs ==
    ASSUME Tables, NEW u \in Users, Poll(u)
    PROVE  /\ u \in customers
           /\ client' = [client EXCEPT ![u] = [cursor |-> NextCursor(u),
                                               shown |-> client[u].shown \cup After(u, client[u].cursor)]]
           /\ before' = IF client[u].cursor = None THEN [before EXCEPT ![u] = RowsOf(u)] ELSE before
           /\ UNCHANGED <<people, letters, broadcasts, receipts, requests, world,
                          known, sent, twice, dead, dropped, overtaken, hidden, lost, crossed>>
BY DEF Poll, NextCursor, Tables

LEMMA SameHands ==
    ASSUME Hands, pc' = pc, req' = req, known' = known
    PROVE  Hands' /\ Met' = Met
BY DEF Hands, Met, Joining

LEMMA PollShape ==
    ASSUME Shape, NEW u \in Users, Poll(u), mix' = mix
    PROVE  Shape' /\ Met \subseteq Met'
<1>0. Hands /\ Tables /\ Introduced
  BY DEF Shape
<1>1. Hands' /\ Met' = Met
  BY <1>0, PollIs, SameHands DEF requests
<1>2. /\ u \in customers
      /\ client' = [client EXCEPT ![u] = [cursor |-> NextCursor(u),
                                          shown |-> client[u].shown \cup After(u, client[u].cursor)]]
      /\ UNCHANGED <<people, letters, broadcasts, receipts, requests, world, known, sent>>
  BY <1>0, PollIs
<1>3. client' \in [Users -> [cursor : Nat \cup {None}, shown : SUBSET FeedRow]]
  <2> DEFINE c == [cursor |-> NextCursor(u), shown |-> client[u].shown \cup After(u, client[u].cursor)]
  <2>1. c \in [cursor : Nat \cup {None}, shown : SUBSET FeedRow]
    BY <1>0, AfterIn
  <2>2. client' = [client EXCEPT ![u] = c]
    BY <1>2
  <2> HIDE DEF c
  <2> QED BY <2>1, <2>2, <1>0 DEF Tables
<1>4. Tables'
  BY <1>0, <1>2, <1>3 DEF Tables, people, letters, requests, world
<1>5. Introduced'
  BY <1>0, <1>1, <1>2 DEF Introduced, people, letters, Tables
<1> QED BY <1>1, <1>4, <1>5 DEF Shape

LEMMA UnregisteredTyped ==
    ASSUME tokens \in [Tokens -> Installation \cup {None}], NEW ts
    PROVE  /\ Unregistered(ts) \in [Tokens -> Installation \cup {None}]
           /\ \A t \in Tokens : Unregistered(ts)[t] = IF t \in ts THEN None ELSE tokens[t]
BY DEF Unregistered

LEMMA UpsertShape ==
    ASSUME Shape, NEW h \in Handlers, Upsert(h), mix' = mix
    PROVE  Shape' /\ Met \subseteq Met'
<1>0. Hands /\ Tables /\ Introduced
  BY DEF Shape
<1>1. /\ req[h] \in Request /\ Agrees(pc[h], req[h]) /\ pc[h] = "upsert"
  BY <1>0, InHand DEF Upsert
<1>2. req[h].kind = "register"
  BY <1>1 DEF Agrees, AtStages, Request, FirstStage
<1>3. req[h].user \in Users /\ req[h].token \in Tokens /\ req[h].device \in {None} \cup STRING
  BY <1>1, <1>2 DEF Agrees, Request
<1>4. Hands' /\ Met \subseteq Met'
  BY <1>0, DoneGoes, GoesOn DEF Upsert, history
<1>5. tokens' \in [Tokens -> Installation \cup {None}]
  <2> DEFINE row == [user |-> req[h].user, device |-> req[h].device]
             cleared == Unregistered(req[h].stale)
  <2>1. row \in Installation
    BY <1>3 DEF Installation
  <2>2. cleared \in [Tokens -> Installation \cup {None}]
    BY <1>0, UnregisteredTyped DEF Tables
  <2>3. tokens' = tokens \/ tokens' = [cleared EXCEPT ![req[h].token] = row]
    BY DEF Upsert
  <2> HIDE DEF row, cleared
  <2> QED BY <2>1, <2>2, <2>3, <1>0, <1>3 DEF Tables
<1>6. /\ UNCHANGED <<customers, chats, letters, broadcasts, client, receipts, asked, sent, known>>
      /\ failures' \in Nat /\ restarts' \in Nat
  BY <1>0 DEF Tables, Upsert, Fine, Broken, history
<1>7. Tables'
  BY <1>0, <1>5, <1>6 DEF Tables, letters
<1>8. Introduced'
  BY <1>0, <1>4, <1>6, SamePeople DEF letters, Introduced
<1> QED BY <1>4, <1>7, <1>8 DEF Shape

LEMMA ReceiptShape ==
    ASSUME Shape, NEW t \in Tokens, Receipt(t), mix' = mix
    PROVE  Shape' /\ Met \subseteq Met'
<1>0. Hands /\ Tables /\ Introduced
  BY DEF Shape
<1>1. Hands' /\ Met' = Met
  BY <1>0, SameHands DEF Receipt, requests
<1>2. tokens' \in [Tokens -> Installation \cup {None}]
  BY <1>0, UnregisteredTyped DEF Tables, Receipt
<1>3. Tables'
  BY <1>0, <1>2 DEF Tables, Receipt, letters, requests, world
<1>4. Introduced'
  BY <1>0, <1>1, SamePeople DEF Receipt, letters, Introduced
<1> QED BY <1>1, <1>3, <1>4 DEF Shape

LEMMA JoinedIsMet ==
    ASSUME Hands, NEW h \in Handlers, req[h].kind = "join", Done(h), known' = known
    PROVE  req[h].user \notin Met /\ req[h].user \in Met'
<1> DEFINE u == req[h].user
<1>1. u \in Joining /\ u \in known
  <2>1. JoinsWith(req[h], u)
    BY DEF JoinsWith
  <2> QED BY <2>1, JoiningIs DEF Hands
<1>2. /\ req'[h] = NoReq
      /\ \A o \in Handlers \ {h} : req'[o] = req[o]
  BY DoneGoes, Moved DEF Goes
<1>3. \A o \in Handlers : ~JoinsWith(req'[o], u)
  BY <1>2, NothingInHand DEF JoinsWith, Hands
<1>4. u \notin Joining'
  BY <1>3, JoiningIsNext
<1> QED BY <1>1, <1>4 DEF Met

LEMMA WriteIs ==
    ASSUME Hands, NEW h \in Handlers, Write(h)
    PROVE  /\ pc[h] = "write" /\ Done(h) /\ Goes(h, "idle", NoReq) /\ req[h] \in Request
           /\ req[h].kind = "unregister" => UNCHANGED <<customers, chats, feed>>
           /\ req[h].kind = "delete" =>
                 /\ customers' = customers \ {req[h].user} /\ chats' = chats \ {req[h].user}
                 /\ feed' = feed \ RowsOf(req[h].user)
           /\ req[h].kind = "join" =>
                 /\ customers' = customers \cup {req[h].user} /\ chats' = chats \cup {req[h].user}
                 /\ tokens' = tokens /\ feed' = feed
                 /\ req[h].user \in Users /\ req[h].user \in Met' /\ req[h].user \notin Met
           /\ req[h].kind \in {"unregister", "delete", "join"}
           /\ tokens' = tokens \/ \E ts : tokens' = Unregistered(ts)
           /\ hidden' = hidden \cup {u \in customers' \ customers :
                                        \E i \in DOMAIN broadcasts : u \in broadcasts[i].created}
           /\ UNCHANGED <<drawn, broadcasts, client, receipts, asked, world,
                          known, sent, twice, dead, dropped, overtaken, before, lost, crossed>>
<1>1. pc[h] = "write" /\ Done(h) /\ known' = known
  BY DEF Write
<1>2. Goes(h, "idle", NoReq) /\ req[h] \in Request /\ Agrees(pc[h], req[h])
  BY <1>1, DoneGoes, InHand
<1>3. req[h].kind \in {"unregister", "delete", "join"}
  BY DEF Write
<1>4. req[h].kind = "join" => req[h].user \in Users /\ req[h].user \in Met' /\ req[h].user \notin Met
  BY <1>1, <1>2, JoinedIsMet DEF Agrees
<1>5. tokens' = tokens \/ \E ts : tokens' = Unregistered(ts)
  BY DEF Write
<1>6. /\ req[h].kind = "unregister" => UNCHANGED <<customers, chats, feed>>
      /\ req[h].kind = "delete" =>
                 /\ customers' = customers \ {req[h].user} /\ chats' = chats \ {req[h].user}
                 /\ feed' = feed \ RowsOf(req[h].user)
      /\ req[h].kind = "join" =>
                 /\ customers' = customers \cup {req[h].user} /\ chats' = chats \cup {req[h].user}
                 /\ tokens' = tokens /\ feed' = feed
  BY DEF Write
<1>7. /\ hidden' = hidden \cup {u \in customers' \ customers :
                                   \E i \in DOMAIN broadcasts : u \in broadcasts[i].created}
      /\ UNCHANGED <<drawn, broadcasts, client, receipts, asked, world,
                     known, sent, twice, dead, dropped, overtaken, before, lost, crossed>>
  BY DEF Write
<1> QED BY <1>1, <1>2, <1>3, <1>4, <1>5, <1>6, <1>7

LEMMA WriteShape ==
    ASSUME Shape, NEW h \in Handlers, Write(h), mix' = mix
    PROVE  Shape' /\ Met \subseteq Met'
<1>0. Hands /\ Tables /\ Introduced
  BY DEF Shape
<1>1. Hands' /\ Met \subseteq Met'
  BY <1>0, WriteIs, GoesOn
<1>2. UNCHANGED <<drawn, broadcasts, client, receipts, asked, world, known, sent>>
  BY <1>0, WriteIs
<1>3. tokens' \in [Tokens -> Installation \cup {None}]
  BY <1>0, WriteIs, UnregisteredTyped DEF Tables
<1>4. /\ customers' \subseteq Users /\ chats' \subseteq customers' /\ customers' \subseteq Met'
      /\ feed' \subseteq feed
  BY <1>0, <1>1, WriteIs DEF Tables, Introduced
<1>5. IsFiniteSet(feed') /\ feed' \in SUBSET FeedRow
  BY <1>0, <1>4, FS_Subset DEF Tables
<1>6. Tables'
  BY <1>0, <1>2, <1>3, <1>4, <1>5 DEF Tables, world
<1>7. Introduced'
  BY <1>0, <1>1, <1>2, <1>4 DEF Introduced
<1> QED BY <1>1, <1>6, <1>7 DEF Shape

LEMMA CountedTyped ==
    ASSUME NEW stats \in Counters, NEW answer
    PROVE  Counted(stats, answer) \in Counters
BY DEF Counted, Counters

\* What is left of a page when its first chat has been written to.
AfterTelegram(h, answer) ==
    IF Again(answer, req[h].tries) THEN [req[h] EXCEPT !.tries = @ + 1]
    ELSE [req[h] EXCEPT !.tries = 0, !.left = @ \ {Min(@)}, !.stats = Counted(@, answer)]

LEMMA TelegramIs ==
    ASSUME Hands, NEW h \in Handlers, req[h].kind = "create", Telegram(h)
    PROVE  /\ pc[h] = "telegram" /\ req[h] \in Request /\ req[h].about \in Nat /\ req[h].page # {}
           /\ \/ /\ req[h].left = {} /\ Goes(h, "stats", req[h])
                 /\ sent' = sent /\ twice' = twice /\ Fine
              \/ \E answer \in Answers :
                   /\ req[h].left # {} /\ Min(req[h].left) \in req[h].left
                   /\ Goes(h, "telegram", AfterTelegram(h, answer))
                   /\ IF answer.delivered
                      THEN Send({Letter("telegram", Min(req[h].left), Min(req[h].left), req[h].about)})
                      ELSE sent' = sent /\ twice' = twice
                   /\ Broken \/ Fine
           /\ UNCHANGED <<people, letters, broadcasts, client, receipts, asked,
                          known, dead, dropped, overtaken, before, hidden, lost, crossed>>
<1>1. pc[h] = "telegram" /\ req[h] \in Request /\ Agrees(pc[h], req[h]) /\ known' = known
  BY InHand DEF Telegram
<1>2. req[h].about \in Nat /\ req[h].page # {}
  BY <1>1 DEF Agrees
<1>3. ASSUME req[h].left = {}
      PROVE  Goes(h, "stats", req[h]) /\ sent' = sent /\ twice' = twice /\ Fine
  <2>1. Moves(h, "stats", req[h])
    BY <1>3 DEF Telegram, Moves, Go, Hands
  <2>2. Agrees("stats", req[h])
    BY <1>1, <1>2 DEF Agrees, AtStages
  <2> QED BY <2>1, <2>2, <1>1, <1>3, InHand DEF Goes, Stages, Telegram
<1>4. ASSUME req[h].left # {}
      PROVE  \E answer \in Answers :
                   /\ Min(req[h].left) \in req[h].left
                   /\ Goes(h, "telegram", AfterTelegram(h, answer))
                   /\ IF answer.delivered
                      THEN Send({Letter("telegram", Min(req[h].left), Min(req[h].left), req[h].about)})
                      ELSE sent' = sent /\ twice' = twice
                   /\ Broken \/ Fine
  <2>1. PICK answer \in Answers :
          /\ Broken \/ Fine
          /\ IF answer.delivered
             THEN Send({Letter("telegram", Min(req[h].left), Min(req[h].left), req[h].about)})
             ELSE sent' = sent /\ twice' = twice
          /\ req' = IF Again(answer, req[h].tries)
                    THEN [req EXCEPT ![h].tries = @ + 1]
                    ELSE [req EXCEPT ![h].tries = 0, ![h].left = @ \ {Min(@)}, ![h].stats = Counted(@, answer)]
          /\ pc' = pc
    BY <1>4 DEF Telegram
  <2>2. Min(req[h].left) \in req[h].left
    <3>1. req[h].left \in SUBSET Nat
      BY <1>1, UsersFinite DEF Request
    <3> QED BY <3>1, <1>4, MinIn
  <2> DEFINE r == AfterTelegram(h, answer)
  <2>3. r \in Request /\ Agrees("telegram", r) /\ Involved(r) \subseteq Involved(req[h])
        /\ r.kind = req[h].kind /\ r.user = req[h].user
    <3>1. CASE Again(answer, req[h].tries)
      <4> DEFINE n == req[h].tries + 1
      <4>1. n \in Nat
        BY <1>1 DEF Request
      <4>2. r = [req[h] EXCEPT !.tries = n]
        BY <3>1, <1>1 DEF AfterTelegram, Request
      <4> HIDE DEF n, r
      <4>3. r \in Request
        BY <4>1, <4>2, <1>1 DEF Request
      <4>4. /\ r.kind = req[h].kind /\ r.user = req[h].user /\ r.page = req[h].page /\ r.left = req[h].left
            /\ r.todo = req[h].todo /\ r.about = req[h].about
        BY <4>2, <1>1 DEF Request
      <4> QED BY <4>3, <4>4, <1>1 DEF Agrees, Involved
    <3>2. CASE ~Again(answer, req[h].tries)
      <4> DEFINE rest == req[h].left \ {Min(req[h].left)}
                 st == Counted(req[h].stats, answer)
      <4>1. rest \in SUBSET Users /\ st \in Counters /\ rest \subseteq req[h].left
        BY <1>1, CountedTyped DEF Request
      <4>2. r = [req[h] EXCEPT !.tries = 0, !.left = rest, !.stats = st]
        BY <3>2, <1>1 DEF AfterTelegram, Request
      <4> HIDE DEF rest, st, r
      <4>3. r \in Request
        BY <4>1, <4>2, <1>1 DEF Request
      <4>4. /\ r.kind = req[h].kind /\ r.user = req[h].user /\ r.page = req[h].page /\ r.left = rest
            /\ r.todo = req[h].todo /\ r.about = req[h].about
        BY <4>2, <1>1 DEF Request
      <4> QED BY <4>1, <4>3, <4>4, <1>1 DEF Agrees, Involved
    <3> QED BY <3>1, <3>2
  <2>4. Moves(h, "telegram", r)
    <3>1. pc' = [pc EXCEPT ![h] = "telegram"]
      BY <2>1, <1>1 DEF Hands
    <3>2. req' = [req EXCEPT ![h] = r]
      BY <2>1 DEF AfterTelegram, Hands
    <3> QED BY <3>1, <3>2 DEF Moves
  <2>5. Goes(h, "telegram", r)
    BY <2>3, <2>4, <1>1, InHand DEF Goes, Stages
  <2> QED BY <2>1, <2>2, <2>5
<1> QED BY <1>1, <1>2, <1>3, <1>4 DEF Telegram

LEMMA LetterTyped ==
    ASSUME NEW channel \in Channels, NEW u \in Users, NEW to \in Users \cup Tokens, NEW about \in Nat \cup {AnOrder}
    PROVE  /\ Letter(channel, u, to, about) \in Letters
           /\ Letter(channel, u, to, about).user = u /\ Letter(channel, u, to, about).channel = channel
           /\ Letter(channel, u, to, about).about = about
BY DEF Letter, Letters

LEMMA TelegramShape ==
    ASSUME Shape, NEW h \in Handlers, req[h].kind = "create", Telegram(h), mix' = mix
    PROVE  Shape' /\ Met \subseteq Met'
<1> DEFINE u == Min(req[h].left)
           l == Letter("telegram", u, u, req[h].about)
<1>0. Hands /\ Tables /\ Introduced
  BY DEF Shape
<1>1. /\ UNCHANGED <<people, letters, broadcasts, client, receipts, asked, known>>
      /\ Broken \/ Fine
      /\ \E stage, r : Goes(h, stage, r)
      /\ req[h].about \in Nat /\ req[h] \in Request
  BY <1>0, TelegramIs
<1>2. Hands' /\ Met \subseteq Met'
  BY <1>0, <1>1, GoesOn
<1>3. sent' = sent \/ (req[h].left # {} /\ u \in req[h].left /\ sent' = sent \cup {l})
  BY <1>0, TelegramIs DEF Send
<1>4. ASSUME u \in req[h].left
      PROVE  l \in Letters /\ l.user \in Met
  <2>1. u \in Users /\ u \in Met
    BY <1>0, <1>1, <1>4, UserIsMet DEF Request
  <2> QED BY <2>1, <1>1, LetterTyped DEF Channels
<1>5. sent' \in SUBSET Letters
  BY <1>0, <1>3, <1>4 DEF Tables
<1>6. failures' \in Nat /\ restarts' \in Nat
  BY <1>0, <1>1 DEF Broken, Fine, Tables
<1>7. Tables'
  BY <1>0, <1>1, <1>5, <1>6 DEF Tables, people, letters
<1> HIDE DEF l, u
<1>8. \A m \in sent' : m \in sent \/ m.user \in Met'
  BY <1>2, <1>3, <1>4
<1>9. Introduced'
  BY <1>0, <1>1, <1>2, <1>8, IntroducedStays DEF people, letters, Introduced
<1> QED BY <1>2, <1>7, <1>9 DEF Shape

LEMMA TelegramOrderIs ==
    ASSUME Hands, NEW h \in Handlers, TelegramOrder(h)
    PROVE  /\ pc[h] = "telegram" /\ Goes(h, "idle", NoReq)
           /\ req[h].kind = "order" /\ req[h].user \in Users /\ req[h].user \in Met /\ req[h].about = AnOrder
           /\ \/ sent' = sent /\ twice' = twice
              \/ Send({Letter("telegram", req[h].user, req[h].user, req[h].about)})
           /\ UNCHANGED <<people, letters, broadcasts, client, receipts, asked, world,
                          known, dead, dropped, overtaken, before, hidden, lost, crossed>>
<1>1. req[h].kind = "order" /\ Agrees(pc[h], req[h])
  BY InHand DEF TelegramOrder
<1>2. req[h].user \in Users /\ req[h].user \in Met /\ req[h].about = AnOrder
  BY <1>1, UserIsMet DEF Agrees
<1>3. Goes(h, "idle", NoReq)
  BY DoneGoes DEF TelegramOrder
<1>4. \/ sent' = sent /\ twice' = twice
      \/ Send({Letter("telegram", req[h].user, req[h].user, req[h].about)})
  BY DEF TelegramOrder
<1> QED BY <1>1, <1>2, <1>3, <1>4 DEF TelegramOrder

LEMMA TelegramOrderShape ==
    ASSUME Shape, NEW h \in Handlers, TelegramOrder(h), mix' = mix
    PROVE  Shape' /\ Met \subseteq Met'
<1> DEFINE l == Letter("telegram", req[h].user, req[h].user, req[h].about)
<1>0. Hands /\ Tables /\ Introduced
  BY DEF Shape
<1>1. Hands' /\ Met \subseteq Met'
  BY <1>0, TelegramOrderIs, GoesOn
<1>2. l \in Letters /\ l.user \in Met
  <2>1. req[h].user \in Users /\ req[h].user \in Met /\ req[h].about \in Nat \cup {AnOrder}
    BY <1>0, TelegramOrderIs
  <2>2. "telegram" \in Channels /\ req[h].user \in Users \cup Tokens
    BY <2>1 DEF Channels
  <2>3. l \in Letters /\ l.user = req[h].user
    <3> DEFINE u == req[h].user
               about == req[h].about
    <3>1. u \in Users /\ about \in Nat \cup {AnOrder} /\ u \in Users \cup Tokens
      BY <2>1
    <3>2. l = Letter("telegram", u, u, about)
      OBVIOUS
    <3> HIDE DEF l, u, about
    <3>3. l \in Letters /\ l.user = u
      BY <2>2, <3>1, <3>2, LetterTyped
    <3> QED BY <3>3 DEF u
  <2> QED BY <2>1, <2>3
<1>3. sent' = sent \/ sent' = sent \cup {l}
  BY <1>0, TelegramOrderIs DEF Send
<1>4. UNCHANGED <<people, letters, broadcasts, client, receipts, asked, world, known>>
  BY <1>0, TelegramOrderIs
<1> HIDE DEF l
<1>5. Tables'
  BY <1>0, <1>2, <1>3, <1>4 DEF Tables, people, letters, world
<1>6. \A m \in sent' : m \in sent \/ m.user \in Met'
  BY <1>1, <1>2, <1>3
<1>7. Introduced'
  BY <1>0, <1>1, <1>4, <1>6, IntroducedStays DEF people, letters, Introduced
<1> QED BY <1>1, <1>5, <1>7 DEF Shape

-----------------------------------------------------------------------------
(* Pushes *)

\* The messages that were answered are some of those that were sent.
LEMMA AnsweredIn ==
    ASSUME NEW ms \in SUBSET [user : Users, token : Tokens], NEW tickets \in Tickets(ms), NEW verdict
    PROVE  Answered(ms, tickets, verdict) \subseteq Valid(ms) /\ Valid(ms) \subseteq ms
<1>1. IsFiniteSet(ms)
  <2>1. IsFiniteSet([user : Users, token : Tokens])
    <3> DEFINE f == [p \in Users \X Tokens |-> [user |-> p[1], token |-> p[2]]]
    <3>a. f \in [Users \X Tokens -> [user : Users, token : Tokens]]
      OBVIOUS
    <3>b. ASSUME NEW m \in [user : Users, token : Tokens]
          PROVE  \E p \in Users \X Tokens : f[p] = m
      <4>1. <<m.user, m.token>> \in Users \X Tokens /\ f[<<m.user, m.token>>] = m
        OBVIOUS
      <4> QED BY <4>1
    <3>1. f \in Surjection(Users \X Tokens, [user : Users, token : Tokens])
      BY <3>a, <3>b DEF Surjection
    <3>2. IsFiniteSet(Users \X Tokens)
      BY NamesAssumption, FS_Product
    <3> HIDE DEF f
    <3> QED BY <3>1, <3>2, FS_Surjection
  <2> QED BY <2>1, FS_Subset
<1>2. Valid(ms) \in SUBSET ms
  BY DEF Valid
<1>3. IsFiniteSet(Valid(ms))
  BY <1>1, <1>2, FS_Subset
<1>4. \A i \in DOMAIN Ordered(Valid(ms)) : Ordered(Valid(ms))[i] \in Valid(ms)
  BY <1>3, OrderedIn
<1>5. DOMAIN tickets = DOMAIN Ordered(Valid(ms))
  BY DEF Tickets
<1> QED BY <1>2, <1>4, <1>5 DEF Answered

LEMMA UsersOfTyped ==
    ASSUME NEW ms \in SUBSET [user : Users, token : Tokens], NEW taken \in SUBSET ms
    PROVE  /\ UsersOf(ms) \in SUBSET Users /\ UsersOf(taken) \in SUBSET UsersOf(ms)
           /\ Cardinality(UsersOf(ms)) \in Nat /\ Cardinality(UsersOf(taken)) \in Nat
           /\ Cardinality(UsersOf(taken)) <= Cardinality(UsersOf(ms))
<1>1. UsersOf(ms) \in SUBSET Users /\ UsersOf(taken) \in SUBSET UsersOf(ms)
  BY DEF UsersOf
<1> QED BY <1>1, Narrower

\* What the handler knows after its pushes.
Knows(h, reached) ==
    [req[h] EXCEPT !.stats = [@ EXCEPT !.pushSent = reached,
                                       !.pushFailed = Cardinality(UsersOf(req[h].todo)) - reached]]

LEMMA NotedGoes ==
    ASSUME Hands, NEW h \in Handlers, pc[h] = "push", known' = known,
           NEW reached \in Nat, reached <= Cardinality(UsersOf(req[h].todo)), Noted(h, reached)
    PROVE  Goes(h, "telegram", IF req[h].kind = "order" THEN req[h] ELSE Knows(h, reached))
<1> DEFINE n == Cardinality(UsersOf(req[h].todo))
           r == IF req[h].kind = "order" THEN req[h] ELSE Knows(h, reached)
<1>1. req[h] \in Request /\ Agrees("push", req[h]) /\ Involved(req[h]) \subseteq Met
  BY InHand
<1>2. n \in Nat /\ n - reached \in Nat
  <2>1. req[h].todo \in SUBSET [user : Users, token : Tokens] /\ {} \in SUBSET req[h].todo
    BY <1>1 DEF Request
  <2> QED BY <2>1, UsersOfTyped
<1>3. Moves(h, "telegram", r)
  BY DEF Noted, Moves, Go, Hands, Knows, UsersOf
<1>4. /\ r \in Request /\ r.kind = req[h].kind /\ r.user = req[h].user /\ r.page = req[h].page
      /\ r.left = req[h].left /\ r.todo = req[h].todo /\ r.about = req[h].about /\ r.token = req[h].token
  <2>1. CASE req[h].kind = "order"
    BY <2>1, <1>1
  <2>2. CASE req[h].kind # "order"
    <3> DEFINE st == [req[h].stats EXCEPT !.pushSent = reached, !.pushFailed = n - reached]
    <3>1. st \in Counters
      BY <1>1, <1>2 DEF Request, Counters
    <3>2. r = [req[h] EXCEPT !.stats = st]
      BY <2>2, <1>1 DEF Knows, Request
    <3> HIDE DEF st, r
    <3> QED BY <3>1, <3>2, <1>1 DEF Request
  <2> QED BY <2>1, <2>2
<1> HIDE DEF r, n
<1>5. Agrees("telegram", r)
  BY <1>1, <1>4 DEF Agrees, AtStages
<1>6. Involved(r) \subseteq Met
  BY <1>1, <1>4 DEF Involved
<1>7. Goes(h, "telegram", r)
  BY <1>3, <1>4, <1>5, <1>6 DEF Goes, Stages
<1> QED BY <1>7 DEF r

\* What a push comes to: taken are the messages that left, reached what is counted.
PushedTo(h, taken, reached) ==
    /\ taken \in SUBSET req[h].todo
    /\ reached \in {0, Cardinality(UsersOf(taken))}
    /\ Send(Pushes(taken, req[h].about))
    /\ Goes(h, "telegram", IF req[h].kind = "order" THEN req[h] ELSE Knows(h, reached))

LEMMA PushIs ==
    ASSUME Hands, NEW h \in Handlers, Push(h)
    PROVE  /\ pc[h] = "push" /\ req[h] \in Request /\ Agrees("push", req[h])
           /\ \/ \E taken, reached : PushedTo(h, taken, reached)
              \/ /\ Goes(h, IF req[h].kind = "order" THEN "telegram" ELSE "failed", req[h])
                 /\ sent' = sent /\ twice' = twice
           /\ tokens' = tokens \/ \E ts : tokens' = Unregistered(ts)
           /\ receipts' \subseteq receipts \cup Tokens
           /\ Broken \/ Fine
           /\ UNCHANGED <<customers, chats, letters, broadcasts, client, asked,
                          known, overtaken, before, hidden, lost, crossed>>
<1> DEFINE ms == req[h].todo
<1>1. /\ pc[h] = "push" /\ req[h] \in Request /\ Agrees("push", req[h]) /\ known' = known
      /\ ms \in SUBSET [user : Users, token : Tokens] /\ Involved(req[h]) \subseteq Met
  BY InHand DEF Push, Request
<1>2. UNCHANGED <<customers, chats, letters, broadcasts, client, asked,
                  known, overtaken, before, hidden, lost, crossed>>
  BY DEF Push
<1>3. ASSUME NEW tickets \in Tickets(ms), Fine, Pushed(h, tickets), Noted(h, Reached(ms, tickets))
      PROVE  /\ PushedTo(h, Answered(ms, tickets, "ok"), Cardinality(UsersOf(Answered(ms, tickets, "ok"))))
             /\ \E ts : tokens' = Unregistered(ts)
             /\ receipts' \subseteq receipts \cup Tokens
  <2> DEFINE taken == Answered(ms, tickets, "ok")
             n == Cardinality(UsersOf(taken))
  <2>1. taken \in SUBSET ms
    BY <1>1, AnsweredIn
  <2>2. n \in Nat /\ n <= Cardinality(UsersOf(ms)) /\ n = Reached(ms, tickets)
    <3>1. n = Reached(ms, tickets)
      BY DEF Reached, UsersOf
    <3> HIDE DEF taken
    <3> QED BY <3>1, <2>1, <1>1, UsersOfTyped
  <2>3. Send(Pushes(taken, req[h].about)) /\ (\E ts : tokens' = Unregistered(ts))
        /\ receipts' = receipts \cup TokensIn(taken)
    BY <1>3 DEF Pushed
  <2>4. TokensIn(taken) \subseteq Tokens
    BY <2>1, <1>1 DEF TokensIn
  <2>5. Noted(h, n)
    BY <1>3, <2>2
  <2> HIDE DEF taken, n
  <2>6. Goes(h, "telegram", IF req[h].kind = "order" THEN req[h] ELSE Knows(h, n))
    BY <1>1, <2>2, <2>5, NotedGoes
  <2>7. PushedTo(h, taken, n)
    BY <2>1, <2>3, <2>6 DEF PushedTo, n
  <2> QED BY <2>3, <2>4, <2>7 DEF taken, n
<1>4. ASSUME NEW taken \in SUBSET Valid(ms), Broken, Unheard(h, taken), Noted(h, 0)
      PROVE  /\ PushedTo(h, taken, 0)
             /\ \E ts : tokens' = Unregistered(ts)
             /\ receipts' = receipts
  <2>1. taken \in SUBSET ms
    BY DEF Valid
  <2>2. Send(Pushes(taken, req[h].about)) /\ (\E ts : tokens' = Unregistered(ts)) /\ receipts' = receipts
    BY <1>4 DEF Unheard
  <2>3. Cardinality(UsersOf(ms)) \in Nat /\ 0 <= Cardinality(UsersOf(ms))
    <3>1. Cardinality(UsersOf(ms)) \in Nat
      BY <2>1, <1>1, UsersOfTyped
    <3> QED BY <3>1
  <2>4. Goes(h, "telegram", IF req[h].kind = "order" THEN req[h] ELSE Knows(h, 0))
    BY <1>1, <1>4, <2>3, NotedGoes
  <2>5. PushedTo(h, taken, 0)
    BY <2>1, <2>2, <2>4 DEF PushedTo
  <2> QED BY <2>2, <2>5
<1>5. ASSUME Go(h, IF req[h].kind = "order" THEN "telegram" ELSE "failed"), req' = req
      PROVE  Goes(h, IF req[h].kind = "order" THEN "telegram" ELSE "failed", req[h])
  <2> DEFINE stage == IF req[h].kind = "order" THEN "telegram" ELSE "failed"
  <2>1. Moves(h, stage, req[h])
    BY <1>5 DEF Moves, Go, Hands
  <2>2. Agrees(stage, req[h]) /\ stage \in Stages
    BY <1>1 DEF Agrees, AtStages, Request, FirstStage, Stages
  <2> QED BY <2>1, <2>2, <1>1 DEF Goes
<1>6. \/ \E tickets \in Tickets(ms) :
            Fine /\ Pushed(h, tickets) /\ Noted(h, Reached(ms, tickets))
      \/ \E taken \in SUBSET Valid(ms) :
            Broken /\ Unheard(h, taken) /\ Noted(h, 0)
      \/ /\ Broken
         /\ Go(h, IF req[h].kind = "order" THEN "telegram" ELSE "failed")
         /\ UNCHANGED <<req, tokens, sent, twice, dead, dropped, receipts>>
  BY DEF Push
<1>7. /\ \/ \E taken, reached : PushedTo(h, taken, reached)
         \/ /\ Goes(h, IF req[h].kind = "order" THEN "telegram" ELSE "failed", req[h])
            /\ sent' = sent /\ twice' = twice
      /\ tokens' = tokens \/ \E ts : tokens' = Unregistered(ts)
      /\ receipts' \subseteq receipts \cup Tokens
      /\ Broken \/ Fine
  <2>1. ASSUME NEW tickets \in Tickets(ms), Fine, Pushed(h, tickets), Noted(h, Reached(ms, tickets))
        PROVE  <1>7!1 /\ <1>7!2 /\ <1>7!3 /\ <1>7!4
    BY <2>1, <1>3
  <2>2. ASSUME NEW taken \in SUBSET Valid(ms), Broken, Unheard(h, taken), Noted(h, 0)
        PROVE  <1>7!1 /\ <1>7!2 /\ <1>7!3 /\ <1>7!4
    BY <2>2, <1>4
  <2>3. ASSUME Broken, Go(h, IF req[h].kind = "order" THEN "telegram" ELSE "failed"),
               UNCHANGED <<req, tokens, sent, twice, dead, dropped, receipts>>
        PROVE  <1>7!1 /\ <1>7!2 /\ <1>7!3 /\ <1>7!4
    BY <2>3, <1>5
  <2> QED BY <1>6, <2>1, <2>2, <2>3
<1> QED BY <1>1, <1>2, <1>7

LEMMA PushesTyped ==
    ASSUME NEW ms \in SUBSET [user : Users, token : Tokens], NEW about \in Nat \cup {AnOrder}
    PROVE  /\ Pushes(ms, about) \in SUBSET Letters
           /\ \A l \in Pushes(ms, about) : l.user \in UsersOf(ms) /\ l.channel = "push" /\ l.about = about
           /\ \A u \in UsersOf(ms) : \E l \in Pushes(ms, about) : l.user = u
<1> DEFINE L(m) == Letter("push", m.user, m.token, about)
<1>1. \A m \in ms : L(m) \in Letters /\ L(m).user = m.user /\ L(m).channel = "push" /\ L(m).about = about
  BY DEF Letter, Letters, Channels
<1>2. Pushes(ms, about) = {L(m) : m \in ms}
  BY DEF Pushes
<1> HIDE DEF L
<1> QED BY <1>1, <1>2 DEF UsersOf

LEMMA PushShape ==
    ASSUME Shape, NEW h \in Handlers, Push(h), mix' = mix
    PROVE  Shape' /\ Met \subseteq Met'
<1>0. Hands /\ Tables /\ Introduced
  BY DEF Shape
<1>1. Hands' /\ Met \subseteq Met'
  <2>1. \E stage, r : Goes(h, stage, r)
    BY <1>0, PushIs DEF PushedTo
  <2> QED BY <2>1, <1>0, GoesOn
<1>2. /\ UNCHANGED <<customers, chats, letters, broadcasts, client, asked, known>>
      /\ receipts' \subseteq receipts \cup Tokens
      /\ Broken \/ Fine
      /\ tokens' = tokens \/ \E ts : tokens' = Unregistered(ts)
  BY <1>0, PushIs
<1>3. tokens' \in [Tokens -> Installation \cup {None}]
  BY <1>0, <1>2, UnregisteredTyped DEF Tables
<1>4. sent' \in SUBSET Letters /\ \A l \in sent' : l \in sent \/ l.user \in Met
  <2>1. CASE sent' = sent
    BY <2>1, <1>0 DEF Tables
  <2>2. ASSUME NEW taken, NEW reached, PushedTo(h, taken, reached)
        PROVE  sent' \in SUBSET Letters /\ \A l \in sent' : l \in sent \/ l.user \in Met
    <3>1. /\ req[h].todo \in SUBSET [user : Users, token : Tokens] /\ taken \in SUBSET req[h].todo
          /\ req[h].about \in Nat \cup {AnOrder}
      BY <1>0, <2>2, PushIs DEF PushedTo, Request, Agrees, AtStages
    <3>2. UsersOf(taken) \subseteq Met
      BY <1>0, <3>1, UserIsMet DEF UsersOf
    <3>3. sent' = sent \cup Pushes(taken, req[h].about)
      BY <2>2 DEF PushedTo, Send
    <3>4. taken \in SUBSET [user : Users, token : Tokens]
      BY <3>1
    <3>5. /\ Pushes(taken, req[h].about) \in SUBSET Letters
          /\ \A l \in Pushes(taken, req[h].about) : l.user \in UsersOf(taken)
      BY <3>1, <3>4, PushesTyped
    <3> QED BY <3>2, <3>3, <3>5, <1>0 DEF Tables
  <2> QED BY <2>1, <2>2, <1>0, PushIs
<1>5. failures' \in Nat /\ restarts' \in Nat
  BY <1>0, <1>2 DEF Broken, Fine, Tables
<1>6. Tables'
  BY <1>0, <1>2, <1>3, <1>4, <1>5 DEF Tables, letters
<1>7. Introduced'
  BY <1>0, <1>1, <1>2, <1>4 DEF letters, Introduced
<1> QED BY <1>1, <1>6, <1>7 DEF Shape

-----------------------------------------------------------------------------
(* Broadcasts *)

LEMMA ReplaceTyped ==
    ASSUME NEW S, NEW s \in Seq(S), NEW i, NEW e, i \in DOMAIN s => e \in S
    PROVE  /\ [s EXCEPT ![i] = e] \in Seq(S)
           /\ DOMAIN [s EXCEPT ![i] = e] = DOMAIN s
           /\ i \in DOMAIN s => [s EXCEPT ![i] = e][i] = e
           /\ \A j \in DOMAIN s : j # i => [s EXCEPT ![i] = e][j] = s[j]
<1> DEFINE f == [s EXCEPT ![i] = e]
<1>1. DOMAIN s = 1..Len(s) /\ Len(s) \in Nat /\ s \in [1..Len(s) -> S]
  OBVIOUS
<1>2. f = [j \in DOMAIN s |-> f[j]] /\ \A j \in DOMAIN s : f[j] = IF j = i THEN e ELSE s[j]
  BY <1>1
<1>3. \A j \in 1..Len(s) : f[j] \in S
  BY <1>1, <1>2
<1>4. f \in [1..Len(s) -> S]
  BY <1>1, <1>2, <1>3
<1> QED BY <1>1, <1>2, <1>4, SeqDef

LEMMA AppendTyped ==
    ASSUME NEW S, NEW s \in Seq(S), NEW e \in S
    PROVE  /\ Append(s, e) \in Seq(S)
           /\ DOMAIN Append(s, e) = DOMAIN s \cup {Len(s) + 1}
           /\ Len(s) \in Nat /\ Len(s) + 1 \notin DOMAIN s
           /\ \A i \in DOMAIN s : Append(s, e)[i] = s[i]
           /\ Append(s, e)[Len(s) + 1] = e
OBVIOUS

LEMMA BroadcastTyped ==
    ASSUME NEW b \in Broadcast
    PROVE  /\ \A n \in Nat : [b EXCEPT !.recipients = n] \in Broadcast
           /\ \A stats \in Counters : [b EXCEPT !.stats = stats] \in Broadcast
           /\ \A status \in {"SENDING", "DONE", "FAILED"} : [b EXCEPT !.status = status] \in Broadcast
BY DEF Broadcast

LEMMA PlusTyped ==
    ASSUME NEW a \in Counters, NEW b \in Counters
    PROVE  Plus(a, b) \in Counters
BY DEF Plus, Counters

LEMMA CreateRowIs ==
    ASSUME Hands, Tables, NEW h \in Handlers, CreateRow(h)
    PROVE  /\ pc[h] = "create" /\ req[h] \in Request /\ req[h].kind = "create"
           /\ req[h].after = None /\ req[h].count = 0
           /\ \/ broadcasts' = broadcasts /\ Goes(h, "idle", NoReq)
              \/ \E b \in Broadcast :
                   /\ broadcasts' = Append(broadcasts, b)
                   /\ b.status = "SENDING" /\ b.stats = NoStats
                   /\ b.created = customers \cup Joining
                   /\ Goes(h, "page", [req[h] EXCEPT !.about = Len(broadcasts) + 1])
           /\ UNCHANGED <<people, letters, client, receipts, asked, world, history>>
<1>1. pc[h] = "create" /\ req[h] \in Request /\ Agrees(pc[h], req[h]) /\ known' = known
  BY InHand DEF CreateRow, history
<1>2. req[h].kind = "create" /\ req[h].after = None /\ req[h].count = 0
  BY <1>1 DEF Agrees, AtStages, Request, FirstStage
<1>3. CASE req[h].push \/ req[h].telegram
  <2> DEFINE b == [created |-> customers \cup Joining, audience |-> req[h].audience, status |-> "SENDING",
                   recipients |-> 0, stats |-> NoStats,
                   push |-> req[h].push, telegram |-> req[h].telegram]
             i == Len(broadcasts) + 1
             r == [req[h] EXCEPT !.about = i]
  <2>1. b \in Broadcast
    <3>1. customers \cup Joining \subseteq Users
      BY DEF Tables, Hands
    <3>2. NoStats \in Counters
      BY DEF NoStats, Counters
    <3> QED BY <3>1, <3>2, <1>1 DEF Broadcast, Request
  <2>2. i \in Nat
    <3>1. broadcasts \in Seq(Broadcast)
      BY DEF Tables
    <3>2. Len(broadcasts) \in Nat
      BY <3>1
    <3> QED BY <3>2
  <2>3. broadcasts' = Append(broadcasts, b) /\ Moves(h, "page", r)
    BY <1>3 DEF CreateRow, Moves, Go, Hands
  <2> HIDE DEF i
  <2>4. r \in Request
    BY <1>1, <2>2 DEF Request
  <2>5. Agrees("page", r)
    BY <1>1, <1>2, <2>2 DEF Agrees, AtStages, Request
  <2>6. Involved(r) \subseteq Met
    BY <1>1, UserIsMet, <1>2 DEF Involved, Request
  <2>7. Goes(h, "page", r)
    BY <2>3, <2>4, <2>5, <2>6, <1>1 DEF Goes, Stages, Request
  <2> QED BY <1>1, <1>2, <2>1, <2>3, <2>7 DEF CreateRow, i
<1>4. CASE ~(req[h].push \/ req[h].telegram)
  BY <1>1, <1>2, <1>4, DoneGoes DEF CreateRow
<1> QED BY <1>3, <1>4

LEMMA CreateRowShape ==
    ASSUME Shape, NEW h \in Handlers, CreateRow(h), mix' = mix
    PROVE  Shape' /\ Met \subseteq Met'
<1>0. Hands /\ Tables /\ Introduced
  BY DEF Shape
<1>1. Hands' /\ Met \subseteq Met'
  <2>1. \E stage, r : Goes(h, stage, r)
    BY <1>0, CreateRowIs
  <2> QED BY <2>1, <1>0, GoesOn
<1>2. UNCHANGED <<people, letters, client, receipts, asked, world, history>>
  BY <1>0, CreateRowIs
<1>3. broadcasts' \in Seq(Broadcast)
  <2>1. broadcasts \in Seq(Broadcast)
    BY <1>0 DEF Tables
  <2>2. broadcasts' = broadcasts \/ \E b \in Broadcast : broadcasts' = Append(broadcasts, b)
    BY <1>0, CreateRowIs
  <2>3. ASSUME NEW b \in Broadcast
        PROVE  Append(broadcasts, b) \in Seq(Broadcast)
    BY <2>1, AppendTyped
  <2> QED BY <2>1, <2>2, <2>3
<1>4. Tables'
  BY <1>0, <1>2, <1>3 DEF Tables, people, letters, world, history
<1>5. Introduced'
  BY <1>0, <1>1, <1>2, SamePeople DEF people, letters, history, Introduced
<1> QED BY <1>1, <1>4, <1>5 DEF Shape

LEMMA BroadcastShape ==
    ASSUME Shape, NEW h \in Handlers, \E stage, r : Goes(h, stage, r),
           broadcasts' \in Seq(Broadcast), Broken \/ Fine,
           UNCHANGED <<mix, people, letters, client, receipts, asked, known, sent>>
    PROVE  Shape' /\ Met \subseteq Met'
<1>0. Hands /\ Tables /\ Introduced
  BY DEF Shape
<1>1. Hands' /\ Met \subseteq Met'
  BY <1>0, GoesOn
<1>2. Tables'
  BY <1>0 DEF Tables, people, letters, Broken, Fine
<1>3. Introduced'
  BY <1>0, <1>1, SamePeople DEF people, letters, Introduced
<1> QED BY <1>1, <1>2, <1>3 DEF Shape

LEMMA RecipientsIn ==
    ASSUME Tables, NEW b
    PROVE  Recipients(b) \in SUBSET customers /\ Recipients(b) \in SUBSET Users
BY DEF Recipients, Tables

\* The page that is read next.
NextPage(h) == Page(Recipients(broadcasts[req[h].about]), req[h].after)

LEMMA NextPageFacts ==
    ASSUME Shape, NEW h \in Handlers
    PROVE  /\ PageOf(NextPage(h), Recipients(broadcasts[req[h].about]), req[h].after)
           /\ NextPage(h) \in SUBSET Users /\ NextPage(h) \subseteq customers /\ NextPage(h) \subseteq Met
           /\ Recipients(broadcasts[req[h].about]) \in SUBSET Users
           /\ req[h].after \in Users \cup {None}
<1>1. req[h].after \in Users \cup {None}
  BY InHand DEF Shape, Request
<1>2. /\ Recipients(broadcasts[req[h].about]) \in SUBSET customers
      /\ Recipients(broadcasts[req[h].about]) \in SUBSET Users
  BY RecipientsIn DEF Shape
<1>3. PageOf(NextPage(h), Recipients(broadcasts[req[h].about]), req[h].after)
  BY <1>1, <1>2, PageFacts DEF NextPage
<1>4. NextPage(h) \subseteq Recipients(broadcasts[req[h].about])
  BY <1>3 DEF PageOf
<1> QED BY <1>1, <1>2, <1>3, <1>4 DEF Shape, Introduced

LEMMA ReadPageIs ==
    ASSUME Shape, NEW h \in Handlers, ReadPage(h)
    PROVE  /\ pc[h] = "page" /\ req[h] \in Request /\ req[h].kind = "create" /\ req[h].about \in Nat
           /\ \/ /\ Fine
                 /\ hidden' = hidden \cup PassedOver(Recipients(broadcasts[req[h].about]), req[h].after)
                 /\ Goes(h, IF NextPage(h) = {} THEN "count" ELSE "draw", [req[h] EXCEPT !.page = NextPage(h)])
              \/ Broken /\ Goes(h, "failed", req[h]) /\ hidden' = hidden
           /\ UNCHANGED <<people, letters, broadcasts, client, receipts, asked,
                          known, sent, twice, dead, dropped, overtaken, before, lost, crossed>>
<1>0. Hands /\ pc[h] = "page" /\ req[h] \in Request /\ Agrees("page", req[h]) /\ known' = known
  BY InHand DEF ReadPage, Shape
<1>1. req[h].kind = "create" /\ req[h].about \in Nat
  BY <1>0 DEF Agrees, AtStages, Request, FirstStage
<1>2. UNCHANGED <<people, letters, broadcasts, client, receipts, asked,
                  known, sent, twice, dead, dropped, overtaken, before, lost, crossed>>
  BY DEF ReadPage
<1> DEFINE us == NextPage(h)
           stage == IF us = {} THEN "count" ELSE "draw"
           r == [req[h] EXCEPT !.page = us]
<1>3. \/ /\ Fine
         /\ hidden' = hidden \cup PassedOver(Recipients(broadcasts[req[h].about]), req[h].after)
         /\ req' = [req EXCEPT ![h].page = us]
         /\ Go(h, stage)
      \/ Broken /\ Go(h, "failed") /\ req' = req /\ hidden' = hidden
  BY DEF ReadPage, NextPage
<1>4. us \in SUBSET Users /\ us \subseteq Met
  BY NextPageFacts
<1>5. ASSUME req' = [req EXCEPT ![h].page = us], Go(h, stage)
      PROVE  Goes(h, stage, r)
  <2>1. Moves(h, stage, r)
    BY <1>0, <1>5 DEF Moves, Go, Hands
  <2> HIDE DEF us
  <2>2. r \in Request
    BY <1>0, <1>4 DEF Request
  <2>3. Agrees(stage, r)
    BY <1>0, <1>1 DEF Agrees, AtStages, Request
  <2>4. Involved(r) \subseteq Met
    BY <1>0, <1>1, <1>4, UserIsMet DEF Involved, Request
  <2> QED BY <2>1, <2>2, <2>3, <2>4, <1>0 DEF Goes, Stages, Request
<1>6. ASSUME Go(h, "failed"), req' = req
      PROVE  Goes(h, "failed", req[h])
  BY <1>0, <1>1, <1>6, FailsTo
<1> HIDE DEF us, stage, r
<1>7. \/ /\ Fine
         /\ hidden' = hidden \cup PassedOver(Recipients(broadcasts[req[h].about]), req[h].after)
         /\ Goes(h, stage, r)
      \/ Broken /\ Goes(h, "failed", req[h]) /\ hidden' = hidden
  BY <1>3, <1>5, <1>6
<1> QED BY <1>0, <1>1, <1>2, <1>7 DEF us, stage, r

LEMMA WriteCountIs ==
    ASSUME Shape, NEW h \in Handlers, WriteCount(h)
    PROVE  /\ pc[h] = "count" /\ req[h] \in Request /\ req[h].kind = "create" /\ req[h].about \in Nat
           /\ \/ /\ Fine
                 /\ broadcasts' = [broadcasts EXCEPT ![req[h].about].recipients = req[h].count]
                 /\ Goes(h, "deliver", [req[h] EXCEPT !.after = None, !.page = {}])
              \/ Broken /\ Goes(h, "failed", req[h]) /\ broadcasts' = broadcasts
           /\ UNCHANGED <<people, letters, client, receipts, asked, history>>
<1>0. Hands /\ pc[h] = "count" /\ req[h] \in Request /\ Agrees("count", req[h]) /\ known' = known
  BY InHand DEF WriteCount, Shape, history
<1>1. req[h].kind = "create" /\ req[h].about \in Nat
  BY <1>0 DEF Agrees, AtStages, Request, FirstStage
<1> DEFINE r == [req[h] EXCEPT !.after = None, !.page = {}]
<1>2. ASSUME req' = [req EXCEPT ![h].after = None, ![h].page = {}], Go(h, "deliver")
      PROVE  Goes(h, "deliver", r)
  <2>1. Moves(h, "deliver", r)
    BY <1>0, <1>2 DEF Moves, Go, Hands
  <2>2. r \in Request
    BY <1>0 DEF Request
  <2>3. Agrees("deliver", r)
    BY <1>0, <1>1 DEF Agrees, AtStages, Request
  <2>4. Involved(r) \subseteq Met
    BY <1>0, <1>1, UserIsMet DEF Involved, Request
  <2> QED BY <2>1, <2>2, <2>3, <2>4, <1>0 DEF Goes, Stages, Request
<1>3. ASSUME Go(h, "failed"), req' = req
      PROVE  Goes(h, "failed", req[h])
  BY <1>0, <1>1, <1>3, FailsTo
<1> HIDE DEF r
<1>4. \/ /\ Fine
         /\ broadcasts' = [broadcasts EXCEPT ![req[h].about].recipients = req[h].count]
         /\ Goes(h, "deliver", r)
      \/ Broken /\ Goes(h, "failed", req[h]) /\ broadcasts' = broadcasts
  BY <1>2, <1>3 DEF WriteCount
<1> QED BY <1>0, <1>1, <1>4 DEF WriteCount, r

\* The request when a page has been read for delivery.
ForDelivery(h) ==
    LET b == broadcasts[req[h].about]
        us == NextPage(h)
    IN  [req[h] EXCEPT !.page = us, !.stats = NoStats, !.tries = 0,
                       !.todo = IF b.push THEN Messages(us) ELSE {},
                       !.left = IF b.telegram THEN us \cap chats ELSE {}]

LEMMA ForDeliveryIs ==
    ASSUME Shape, NEW h \in Handlers
    PROVE  /\ ForDelivery(h) \in Request
           /\ ForDelivery(h).page = NextPage(h) /\ ForDelivery(h).stats = NoStats
           /\ ForDelivery(h).left \subseteq NextPage(h)
           /\ UsersOf(ForDelivery(h).todo) \subseteq NextPage(h)
           /\ ForDelivery(h).kind = req[h].kind /\ ForDelivery(h).user = req[h].user
           /\ ForDelivery(h).about = req[h].about /\ ForDelivery(h).after = req[h].after
           /\ ForDelivery(h).token = req[h].token
<1> DEFINE b == broadcasts[req[h].about]
           us == NextPage(h)
           todo == IF b.push THEN Messages(us) ELSE {}
           left == IF b.telegram THEN us \cap chats ELSE {}
           r == [req[h] EXCEPT !.page = us, !.stats = NoStats, !.tries = 0, !.todo = todo, !.left = left]
<1>1. r = ForDelivery(h)
  BY DEF ForDelivery
<1>2. us \in SUBSET Users /\ NoStats \in Counters
  BY NextPageFacts DEF NoStats, Counters
<1>3. todo \in SUBSET [user : Users, token : Tokens] /\ UsersOf(todo) \subseteq us
  <2> HIDE DEF us
  <2> QED BY <1>2 DEF Messages, UsersOf
<1>4. left \in SUBSET Users /\ left \subseteq us
  BY <1>2
<1>5. req[h] \in Request
  BY InHand DEF Shape
<1> HIDE DEF todo, left, us
<1>6. /\ r.page = us /\ r.stats = NoStats /\ r.left = left /\ r.todo = todo
      /\ r.kind = req[h].kind /\ r.user = req[h].user /\ r.about = req[h].about
      /\ r.after = req[h].after /\ r.token = req[h].token
  BY <1>5 DEF Request
<1>7. r \in Request
  BY <1>2, <1>3, <1>4, <1>5 DEF Request
<1> HIDE DEF r
<1> QED BY <1>1, <1>3, <1>4, <1>6, <1>7 DEF us

LEMMA DeliverPageIs ==
    ASSUME Shape, NEW h \in Handlers, DeliverPage(h)
    PROVE  /\ pc[h] = "deliver" /\ req[h] \in Request /\ req[h].kind = "create" /\ req[h].about \in Nat
           /\ \/ Fine /\ Goes(h, IF NextPage(h) = {} THEN "done" ELSE "push", ForDelivery(h))
              \/ Broken /\ Goes(h, "failed", req[h])
           /\ UNCHANGED <<people, letters, broadcasts, client, receipts, asked, history>>
<1>0. Hands /\ pc[h] = "deliver" /\ req[h] \in Request /\ Agrees("deliver", req[h]) /\ known' = known
  BY InHand DEF DeliverPage, Shape, history
<1>1. req[h].kind = "create" /\ req[h].about \in Nat
  BY <1>0 DEF Agrees, AtStages, Request, FirstStage
<1> DEFINE stage == IF NextPage(h) = {} THEN "done" ELSE "push"
           r == ForDelivery(h)
<1>2. \/ Fine /\ req' = [req EXCEPT ![h] = r] /\ Go(h, stage)
      \/ Broken /\ Go(h, "failed") /\ req' = req
  <2>1. \/ /\ Fine
           /\ req' = [req EXCEPT ![h] = r]
           /\ Go(h, stage)
        \/ Broken /\ Go(h, "failed") /\ UNCHANGED req
    BY <1>0 DEF DeliverPage, ForDelivery, NextPage, Hands
  <2> QED BY <2>1
<1>3. ASSUME req' = [req EXCEPT ![h] = r], Go(h, stage)
      PROVE  Goes(h, stage, r)
  <2>1. Moves(h, stage, r)
    BY <1>0, <1>3 DEF Moves, Go, Hands
  <2>2. /\ r \in Request /\ r.page = NextPage(h) /\ r.left \subseteq NextPage(h)
        /\ UsersOf(r.todo) \subseteq NextPage(h)
        /\ r.kind = req[h].kind /\ r.user = req[h].user /\ r.about = req[h].about
    BY ForDeliveryIs
  <2>3. NextPage(h) \subseteq Met
    BY NextPageFacts
  <2> HIDE DEF r
  <2>4. Agrees(stage, r)
    BY <2>2, <1>1 DEF Agrees, AtStages
  <2>5. Involved(r) \subseteq Met
    BY <2>2, <2>3, <1>1 DEF Involved, UsersOf
  <2> QED BY <2>1, <2>2, <2>4, <2>5, <1>0 DEF Goes, Stages
<1>4. ASSUME Go(h, "failed"), req' = req
      PROVE  Goes(h, "failed", req[h])
  BY <1>0, <1>1, <1>4, FailsTo
<1> HIDE DEF r, stage
<1>5. \/ Fine /\ Goes(h, stage, r)
      \/ Broken /\ Goes(h, "failed", req[h])
  BY <1>2, <1>3, <1>4
<1> QED BY <1>0, <1>1, <1>5 DEF DeliverPage, r, stage

LEMMA WriteStatsIs ==
    ASSUME Shape, NEW h \in Handlers, WriteStats(h)
    PROVE  /\ pc[h] = "stats" /\ req[h] \in Request /\ req[h].kind = "create" /\ req[h].about \in Nat
           /\ Max(req[h].page) \in req[h].page /\ \A u \in req[h].page : u <= Max(req[h].page)
           /\ \/ /\ Fine
                 /\ broadcasts' = [broadcasts EXCEPT ![req[h].about].stats = Plus(@, req[h].stats)]
                 /\ Goes(h, IF LastPage(req[h]) THEN "done" ELSE "deliver",
                         [req[h] EXCEPT !.after = Max(req[h].page)])
              \/ Broken /\ Goes(h, "failed", req[h]) /\ broadcasts' = broadcasts
           /\ UNCHANGED <<people, letters, client, receipts, asked, history>>
<1>0. Hands /\ pc[h] = "stats" /\ req[h] \in Request /\ Agrees("stats", req[h]) /\ known' = known
  BY InHand DEF WriteStats, Shape, history
<1>1. req[h].kind = "create" /\ req[h].about \in Nat /\ req[h].page # {}
  BY <1>0 DEF Agrees, AtStages, Request, FirstStage
<1>2. Max(req[h].page) \in req[h].page /\ \A u \in req[h].page : u <= Max(req[h].page)
  <2>1. req[h].page \in SUBSET Nat /\ IsFiniteSet(req[h].page)
    BY <1>0, UsersFinite DEF Request
  <2> QED BY <2>1, <1>1, MaxIn
<1> DEFINE last == Max(req[h].page)
           r == [req[h] EXCEPT !.after = last]
           stage == IF LastPage(req[h]) THEN "done" ELSE "deliver"
<1>3. ASSUME req' = [req EXCEPT ![h].after = Max(req[h].page)], Go(h, stage)
      PROVE  Goes(h, stage, r)
  <2>1. Moves(h, stage, r)
    BY <1>0, <1>3 DEF Moves, Go, Hands
  <2>2. last \in Users
    BY <1>0, <1>2 DEF Request
  <2> HIDE DEF last
  <2>3. r \in Request
    BY <1>0, <2>2 DEF Request
  <2>4. Agrees(stage, r)
    BY <1>0, <1>1 DEF Agrees, AtStages, Request
  <2>5. Involved(r) \subseteq Met
    BY <1>0, <1>1, UserIsMet DEF Involved, Request
  <2> QED BY <2>1, <2>3, <2>4, <2>5, <1>0 DEF Goes, Stages, Request
<1>4. ASSUME Go(h, "failed"), req' = req
      PROVE  Goes(h, "failed", req[h])
  BY <1>0, <1>1, <1>4, FailsTo
<1>5. \/ /\ Fine
         /\ broadcasts' = [broadcasts EXCEPT ![req[h].about].stats = Plus(@, req[h].stats)]
         /\ req' = [req EXCEPT ![h].after = Max(req[h].page)] /\ Go(h, stage)
      \/ Broken /\ Go(h, "failed") /\ req' = req /\ broadcasts' = broadcasts
  BY DEF WriteStats
<1> HIDE DEF r, stage, last
<1>6. \/ /\ Fine
         /\ broadcasts' = [broadcasts EXCEPT ![req[h].about].stats = Plus(@, req[h].stats)]
         /\ Goes(h, stage, r)
      \/ Broken /\ Goes(h, "failed", req[h]) /\ broadcasts' = broadcasts
  BY <1>3, <1>4, <1>5
<1> QED BY <1>0, <1>1, <1>2, <1>6 DEF WriteStats, r, stage, last

LEMMA FinishIs ==
    ASSUME Shape, NEW h \in Handlers, Finish(h)
    PROVE  /\ req[h] \in Request /\ req[h].kind = "create" /\ req[h].about \in Nat /\ pc[h] \in {"done", "failed"}
           /\ \/ /\ Goes(h, "idle", NoReq) /\ Fine
                 /\ broadcasts' = [broadcasts EXCEPT ![req[h].about].status =
                                       IF pc[h] = "done" THEN "DONE" ELSE "FAILED"]
              \/ /\ Broken /\ broadcasts' = broadcasts
                 /\ Goes(h, "failed", req[h]) \/ Goes(h, "idle", NoReq)
           /\ UNCHANGED <<people, letters, client, receipts, asked,
                          known, sent, twice, dead, dropped, overtaken, before, hidden, crossed>>
<1>0. Hands /\ pc[h] \in {"done", "failed"} /\ req[h] \in Request /\ Agrees(pc[h], req[h]) /\ known' = known
  BY InHand DEF Finish, Shape
<1>1. req[h].kind = "create" /\ req[h].about \in Nat
  BY <1>0 DEF Agrees, AtStages, Request, FirstStage
<1>2. \/ /\ Done(h) /\ Fine
         /\ broadcasts' = [broadcasts EXCEPT ![req[h].about].status = IF pc[h] = "done" THEN "DONE" ELSE "FAILED"]
      \/ Broken /\ broadcasts' = broadcasts /\ (Done(h) \/ (Go(h, "failed") /\ req' = req))
  BY DEF Finish
<1>3. Done(h) => Goes(h, "idle", NoReq)
  BY <1>0, DoneGoes
<1>4. Go(h, "failed") /\ req' = req => Goes(h, "failed", req[h])
  BY <1>0, <1>1, FailsTo
<1> QED BY <1>0, <1>1, <1>2, <1>3, <1>4 DEF Finish

LEMMA BroadcastsTyped ==
    ASSUME Tables, NEW i, NEW e, broadcasts' = [broadcasts EXCEPT ![i] = e],
           \A b \in Broadcast : b = broadcasts[i] => e \in Broadcast
    PROVE  broadcasts' \in Seq(Broadcast)
<1>1. broadcasts \in Seq(Broadcast)
  BY DEF Tables
<1>2. i \in DOMAIN broadcasts => broadcasts[i] \in Broadcast
  BY <1>1
<1>3. i \in DOMAIN broadcasts => e \in Broadcast
  BY <1>2
<1>4. [broadcasts EXCEPT ![i] = e] \in Seq(Broadcast)
  BY <1>1, <1>3, ReplaceTyped
<1> QED BY <1>4

LEMMA SendingShape ==
    ASSUME Shape, NEW h \in Handlers, mix' = mix,
           ReadPage(h) \/ WriteCount(h) \/ DeliverPage(h) \/ WriteStats(h) \/ Finish(h)
    PROVE  Shape' /\ Met \subseteq Met'
<1>0. Tables /\ broadcasts \in Seq(Broadcast)
  BY DEF Shape, Tables
<1>1. CASE ReadPage(h)
  <2>1. \E stage, r : Goes(h, stage, r)
    BY <1>1, ReadPageIs
  <2>2. /\ UNCHANGED <<people, letters, broadcasts, client, receipts, asked, known, sent>>
        /\ Broken \/ Fine
    BY <1>1, ReadPageIs
  <2> QED BY <2>1, <2>2, <1>0, BroadcastShape
<1>2. CASE WriteCount(h)
  <2>1. \E stage, r : Goes(h, stage, r)
    BY <1>2, WriteCountIs
  <2>2. /\ UNCHANGED <<people, letters, client, receipts, asked, known, sent>>
        /\ Broken \/ Fine
        /\ req[h].count \in Nat
        /\ broadcasts' = broadcasts \/ broadcasts' = [broadcasts EXCEPT ![req[h].about].recipients = req[h].count]
    BY <1>2, WriteCountIs DEF history, Request
  <2>3. broadcasts' \in Seq(Broadcast)
    <3> DEFINE i == req[h].about
               e == [broadcasts[i] EXCEPT !.recipients = req[h].count]
    <3>1. broadcasts' = broadcasts \/ broadcasts' = [broadcasts EXCEPT ![i] = e]
      BY <2>2
    <3>2. ASSUME NEW b \in Broadcast, b = broadcasts[i]
          PROVE  e \in Broadcast
      BY <2>2, <3>2, BroadcastTyped
    <3> HIDE DEF i, e
    <3> QED BY <3>1, <3>2, <1>0, BroadcastsTyped
  <2> QED BY <2>1, <2>2, <2>3, BroadcastShape
<1>3. CASE DeliverPage(h)
  <2>1. \E stage, r : Goes(h, stage, r)
    BY <1>3, DeliverPageIs
  <2>2. /\ UNCHANGED <<people, letters, broadcasts, client, receipts, asked, known, sent>>
        /\ Broken \/ Fine
    BY <1>3, DeliverPageIs DEF history
  <2> QED BY <2>1, <2>2, <1>0, BroadcastShape
<1>4. CASE WriteStats(h)
  <2>1. \E stage, r : Goes(h, stage, r)
    BY <1>4, WriteStatsIs
  <2>2. /\ UNCHANGED <<people, letters, client, receipts, asked, known, sent>>
        /\ Broken \/ Fine
        /\ req[h].stats \in Counters
        /\ broadcasts' = broadcasts \/ broadcasts' = [broadcasts EXCEPT ![req[h].about].stats = Plus(@, req[h].stats)]
    BY <1>4, WriteStatsIs DEF history, Request
  <2>3. broadcasts' \in Seq(Broadcast)
    <3> DEFINE i == req[h].about
               e == [broadcasts[i] EXCEPT !.stats = Plus(@, req[h].stats)]
    <3>1. broadcasts' = broadcasts \/ broadcasts' = [broadcasts EXCEPT ![i] = e]
      BY <2>2
    <3>2. ASSUME NEW b \in Broadcast, b = broadcasts[i]
          PROVE  e \in Broadcast
      <4>1. Plus(b.stats, req[h].stats) \in Counters
        BY <2>2, PlusTyped DEF Broadcast
      <4>2. e = [b EXCEPT !.stats = Plus(b.stats, req[h].stats)]
        BY <3>2
      <4> HIDE DEF e
      <4> QED BY <4>1, <4>2, BroadcastTyped
    <3> HIDE DEF i, e
    <3> QED BY <3>1, <3>2, <1>0, BroadcastsTyped
  <2> QED BY <2>1, <2>2, <2>3, BroadcastShape
<1>5. CASE Finish(h)
  <2>1. \E stage, r : Goes(h, stage, r)
    BY <1>5, FinishIs
  <2>2. /\ UNCHANGED <<people, letters, client, receipts, asked, known, sent>>
        /\ Broken \/ Fine
        /\ \/ broadcasts' = broadcasts
           \/ \E status \in {"DONE", "FAILED"} : broadcasts' = [broadcasts EXCEPT ![req[h].about].status = status]
    BY <1>5, FinishIs
  <2>3. broadcasts' \in Seq(Broadcast)
    <3>0. broadcasts' = broadcasts \/ \E status \in {"DONE", "FAILED"} : broadcasts' = [broadcasts EXCEPT ![req[h].about].status = status]
      BY <2>2
    <3>1. ASSUME NEW status \in {"DONE", "FAILED"}, broadcasts' = [broadcasts EXCEPT ![req[h].about].status = status]
          PROVE  broadcasts' \in Seq(Broadcast)
      <4> DEFINE i == req[h].about
                 e == [broadcasts[i] EXCEPT !.status = status]
      <4>1. broadcasts' = [broadcasts EXCEPT ![i] = e]
        BY <3>1
      <4>2. ASSUME NEW b \in Broadcast, b = broadcasts[i]
            PROVE  e \in Broadcast
        BY <4>2, BroadcastTyped
      <4> HIDE DEF i, e
      <4> QED BY <4>1, <4>2, <1>0, BroadcastsTyped
    <3> QED BY <3>0, <3>1, <1>0
  <2> QED BY <2>1, <2>2, <2>3, BroadcastShape
<1> QED BY <1>1, <1>2, <1>3, <1>4, <1>5

-----------------------------------------------------------------------------
(* Requests, restarts, and the theorem *)

LEMMA AskIs ==
    ASSUME Shape, NEW h \in Handlers, Requested(h)
    PROVE  \E r \in Request :
              /\ WellFormed(r) /\ pc[h] = "idle"
              /\ FirstStage[r.kind] \in Stages /\ Agrees(FirstStage[r.kind], r)
              /\ Moves(h, FirstStage[r.kind], r)
              /\ r.kind = "join" => r.user \notin known
              /\ r.kind \in {"order", "register", "delete"} => r.user \in Met
              /\ known' = (IF r.kind = "join" THEN known \cup {r.user} ELSE known)
              /\ asked' = asked + 1
              /\ r.page = {} /\ r.left = {} /\ r.todo = {} /\ r.stale = {}
              /\ crossed' = (crossed \/ (r.kind = "register" /\ \E o \in Handlers : pc[o] \in {"clear", "upsert"}))
              /\ UNCHANGED <<people, letters, broadcasts, client, receipts, world,
                             sent, twice, dead, dropped, overtaken, before, hidden, lost>>
<1>1. PICK r \in mix.requests : Ask(h, r)
  BY DEF Requested
<1>2. WellFormed(r)
  BY WorldAssumption DEF Shape, Tables
<1>3. r \in Request /\ r.kind # "none" /\ r.page = {} /\ r.left = {} /\ r.todo = {} /\ r.stale = {}
      /\ r.after = None /\ r.count = 0
  BY <1>2 DEF WellFormed, NoReq
<1>4. r.kind \in {"order", "create", "register", "unregister", "delete", "join"}
  BY <1>3 DEF Request, FirstStage
<1>5. FirstStage[r.kind] \in Stages /\ Agrees(FirstStage[r.kind], r)
  BY <1>2, <1>3, <1>4 DEF Agrees, AtStages, FirstStage, Stages, WellFormed
<1>6. Moves(h, FirstStage[r.kind], r)
  BY <1>1 DEF Ask, Moves, Go
<1> QED BY <1>1, <1>2, <1>3, <1>5, <1>6 DEF Ask

LEMMA AskShape ==
    ASSUME Shape, NEW h \in Handlers, Requested(h), mix' = mix
    PROVE  Shape' /\ Met \subseteq Met'
<1>0. Hands /\ Tables /\ Introduced
  BY DEF Shape
<1>1. PICK r \in Request :
          /\ WellFormed(r) /\ pc[h] = "idle"
          /\ FirstStage[r.kind] \in Stages /\ Agrees(FirstStage[r.kind], r)
          /\ Moves(h, FirstStage[r.kind], r)
          /\ r.kind = "join" => r.user \notin known
          /\ r.kind \in {"order", "register", "delete"} => r.user \in Met
          /\ known' = (IF r.kind = "join" THEN known \cup {r.user} ELSE known)
          /\ asked' = asked + 1
          /\ r.page = {} /\ r.left = {} /\ r.todo = {}
          /\ UNCHANGED <<people, letters, broadcasts, client, receipts, world, sent>>
  BY AskIs
<1> DEFINE stage == FirstStage[r.kind]
<1>2. /\ pc'[h] = stage /\ req'[h] = r
      /\ \A o \in Handlers \ {h} : pc'[o] = pc[o] /\ req'[o] = req[o]
      /\ pc' \in [Handlers -> Stages] /\ req' \in [Handlers -> Request]
  <2>1. stage \in Stages /\ Moves(h, stage, r)
    BY <1>1
  <2> HIDE DEF stage
  <2> QED BY <2>1, <1>0, Moved
<1>3. ASSUME NEW u, u \in Joining'
      PROVE  u \in Joining \/ (r.kind = "join" /\ u = r.user)
  <2>1. PICK o \in Handlers : JoinsWith(req'[o], u)
    BY <1>3, JoiningIsNext
  <2>2. CASE o = h
    BY <2>1, <2>2, <1>2 DEF JoinsWith
  <2>3. CASE o # h
    BY <2>1, <2>3, <1>2, JoiningIs
  <2> QED BY <2>2, <2>3
<1>4. Met \subseteq Met'
  BY <1>1, <1>3 DEF Met
<1>5. \A o \in Handlers : Agrees(pc'[o], req'[o])
  BY <1>0, <1>1, <1>2 DEF Hands
<1>6. Involved(r) \subseteq Met
  BY <1>1 DEF Involved, UsersOf
<1>7. \A o \in Handlers : Involved(req'[o]) \subseteq Met'
  BY <1>0, <1>2, <1>4, <1>6 DEF Hands
<1>8. Joining' \subseteq known'
  BY <1>0, <1>1, <1>3 DEF Hands
<1>9. \A k, o \in Handlers : req'[k].kind = "join" /\ req'[o].kind = "join" /\ req'[k].user = req'[o].user => k = o
  <2>1. \A k \in Handlers : req[k].kind = "join" => req[k].user \in known
    BY <1>0 DEF Hands, Joining
  <2>2. \A k, o \in Handlers : req[k].kind = "join" /\ req[o].kind = "join" /\ req[k].user = req[o].user => k = o
    BY <1>0 DEF Hands
  <2> QED BY <1>1, <1>2, <2>1, <2>2
<1>10. Hands'
  BY <1>2, <1>5, <1>7, <1>8, <1>9 DEF Hands
<1>11. Tables'
  <2>1. known' \subseteq Users
    <3>1. r.kind = "join" => r.user \in Users
      BY <1>1 DEF WellFormed
    <3> QED BY <3>1, <1>0, <1>1 DEF Tables
  <2> QED BY <2>1, <1>0, <1>1 DEF Tables, people, letters, world
<1>12. Introduced'
  BY <1>0, <1>1, <1>4, SamePeople DEF people, letters, Introduced
<1> QED BY <1>4, <1>10, <1>11, <1>12 DEF Shape

LEMMA InterruptedTyped ==
    ASSUME NEW b \in Broadcast
    PROVE  /\ Interrupted(b) \in Broadcast
           /\ Interrupted(b).created = b.created /\ Interrupted(b).audience = b.audience
           /\ Interrupted(b).stats = b.stats /\ Interrupted(b).recipients = b.recipients
           /\ Interrupted(b).status = "DONE" => b.status = "DONE"
BY DEF Interrupted, Broadcast

LEMMA RestartShape ==
    ASSUME Shape, Restart, mix' = mix
    PROVE  Shape' /\ Met \subseteq Met'
<1>0. Hands /\ Tables /\ Introduced
  BY DEF Shape
<1>1. /\ pc' = [h \in Handlers |-> "idle"] /\ req' = [h \in Handlers |-> NoReq] /\ receipts' = {}
      /\ restarts' = restarts + 1
      /\ UNCHANGED <<people, letters, client, asked, failures, history>>
  BY DEF Restart
<1>2. \A u : u \notin Joining'
  <2>1. \A h \in Handlers : req'[h] = NoReq
    BY <1>1
  <2> QED BY <2>1, NothingInHand, JoiningIsNext DEF JoinsWith
<1>3. known' = known
  BY <1>1 DEF history
<1>4. Met \subseteq Met'
  BY <1>2, <1>3 DEF Met
<1>5. Hands'
  BY <1>1, <1>2, NothingInHand DEF Hands
<1>6. broadcasts' \in Seq(Broadcast)
  <2>1. broadcasts \in Seq(Broadcast) /\ broadcasts' = [i \in DOMAIN broadcasts |-> Interrupted(broadcasts[i])]
    BY <1>0 DEF Tables, Restart
  <2>2. \A i \in DOMAIN broadcasts : Interrupted(broadcasts[i]) \in Broadcast
    BY <2>1, InterruptedTyped
  <2>3. broadcasts' \in [1..Len(broadcasts) -> Broadcast] /\ Len(broadcasts) \in Nat
    BY <2>1, <2>2
  <2> QED BY <2>3, SeqDef
<1>7. Tables'
  BY <1>0, <1>1, <1>6 DEF Tables, people, letters, history
<1>8. Introduced'
  BY <1>0, <1>1, <1>4, SamePeople DEF people, letters, history, Introduced
<1> QED BY <1>4, <1>5, <1>7, <1>8 DEF Shape

LEMMA InitShape ==
    ASSUME Init
    PROVE  Shape
<1>1. /\ customers = World.customers /\ chats = World.chats /\ tokens = World.tokens
      /\ feed = {} /\ drawn = 0 /\ broadcasts = <<>> /\ receipts = {} /\ sent = {} /\ known = World.customers
      /\ client = [u \in Users |-> [cursor |-> None, shown |-> {}]]
      /\ pc = [h \in Handlers |-> "idle"] /\ req = [h \in Handlers |-> NoReq]
      /\ asked = 0 /\ failures = 0 /\ restarts = 0 /\ mix \in Mixes
  BY DEF Init
<1>2. \A u : u \notin Joining
  <2>1. \A h \in Handlers : req[h] = NoReq
    BY <1>1
  <2> QED BY <2>1, NothingInHand, JoiningIs DEF JoinsWith
<1>3. Met = World.customers
  BY <1>1, <1>2 DEF Met
<1>4. Hands
  BY <1>1, <1>2, NothingInHand DEF Hands
<1>5. Tables
  <2>1. IsFiniteSet(feed)
    BY <1>1, FS_EmptySet
  <2>2. broadcasts \in Seq(Broadcast)
    BY <1>1
  <2>3. client \in [Users -> [cursor : Nat \cup {None}, shown : SUBSET FeedRow]]
    BY <1>1
  <2> QED BY <1>1, <2>1, <2>2, <2>3, WorldAssumption DEF Tables
<1>6. Introduced
  BY <1>1, <1>3 DEF Introduced
<1> QED BY <1>4, <1>5, <1>6 DEF Shape

\* The actions of a handler.
LEMMA StepShape ==
    ASSUME Shape, NEW h \in Handlers, Requested(h) \/ Step(h), mix' = mix
    PROVE  Shape' /\ Met \subseteq Met'
BY AskShape, DrawShape, CommitShape, ReadingShape, UpsertShape, WriteShape, PushShape,
   TelegramOrderShape, TelegramShape, CreateRowShape, SendingShape DEF Step

LEMMA SameShape ==
    ASSUME Shape, UNCHANGED vars
    PROVE  Shape'
BY DEF Shape, vars, Tables, Hands, Introduced, Met, Joining, people, letters, requests, world, history

LEMMA NextShape ==
    ASSUME Shape, [Next]_vars
    PROVE  Shape'
<1>1. CASE UNCHANGED vars
  BY <1>1, SameShape
<1>2. CASE Next
  <2> USE <1>2
  <2>1. mix' = mix
    BY DEF Next
  <2>2. ASSUME NEW h \in Handlers, Requested(h) \/ Step(h) PROVE Shape'
    BY <2>1, <2>2, StepShape
  <2>3. ASSUME NEW u \in Users, Poll(u) PROVE Shape'
    BY <2>1, <2>3, PollShape
  <2>4. ASSUME NEW t \in Tokens, Receipt(t) PROVE Shape'
    BY <2>1, <2>4, ReceiptShape
  <2>5. CASE Restart
    BY <2>1, <2>5, RestartShape
  <2> QED BY <2>2, <2>3, <2>4, <2>5 DEF Next
<1> QED BY <1>1, <1>2

-----------------------------------------------------------------------------
(* The table of installations *)

\* No token is registered.
Fewer == \A t \in Tokens : tokens'[t] = None \/ tokens'[t] = tokens[t]

LEMMA Removing ==
    ASSUME Tables, tokens' = tokens \/ \E ts : tokens' = Unregistered(ts)
    PROVE  Fewer
BY UnregisteredTyped DEF Tables, Fewer

LEMMA OneStays ==
    ASSUME OneInstallation, Fewer, crossed' = crossed
    PROVE  OneInstallation'
BY DEF OneInstallation, Fewer

LEMMA StaysCleared ==
    ASSUME NEW r, Cleared(r), Fewer
    PROVE  Cleared(r)'
BY DEF Cleared, OthersOf, Fewer

\* A handler goes on, and does not register.
LEMMA DevicesStay ==
    ASSUME Devices, Hands, NEW h \in Handlers, NEW stage, NEW r, Goes(h, stage, r), stage \notin Registering,
           Fewer, crossed' = crossed
    PROVE  Devices'
<1>1. /\ pc'[h] = stage /\ req'[h] = r
      /\ \A o \in Handlers \ {h} : pc'[o] = pc[o] /\ req'[o] = req[o]
  BY Moved DEF Goes
<1>2. \A o \in Handlers : pc'[o] \in Registering => o # h /\ pc[o] \in Registering
  BY <1>1
<1>3. ASSUME ~crossed, NEW o \in Handlers, pc'[o] = "upsert"
      PROVE  Cleared(req[o])' /\ req'[o] = req[o]
  <2>1. o # h /\ pc[o] = "upsert"
    BY <1>1, <1>2, <1>3 DEF Registering
  <2>2. Cleared(req[o])
    BY <1>3, <2>1 DEF Devices
  <2>3. req'[o] = req[o]
    BY <1>1, <2>1
  <2> DEFINE q == req[o]
  <2>4. OthersOf(req[o].token, req[o].device)' \subseteq req'[o].stale
    BY <2>2, <2>3 DEF Cleared, OthersOf, Fewer
  <2> QED BY <2>3, <2>4 DEF Cleared
<1> QED BY <1>2, <1>3 DEF Devices, Cleared

\* What Expo names gone are the tokens it was asked about.
LEMMA GoneAre ==
    ASSUME NEW ms, NEW tickets
    PROVE  Gone(ms, tickets) \subseteq TokensIn(Answered(ms, tickets, "gone"))
<1> DEFINE I == {j \in DOMAIN tickets : tickets[j] = "gone"}
           M(i) == Ordered(Valid(ms))[i]
<1>1. \A t \in {M(i).token : i \in I} : \E m \in {M(i) : i \in I} : t = m.token
  OBVIOUS
<1>2. Gone(ms, tickets) = {M(i).token : i \in I} /\ Answered(ms, tickets, "gone") = {M(i) : i \in I}
  BY DEF Gone, Answered
<1> HIDE DEF M, I
<1>3. \A t \in Gone(ms, tickets) : \E m \in Answered(ms, tickets, "gone") : t = m.token
  BY <1>1, <1>2
<1> QED BY <1>3 DEF TokensIn

LEMMA PushDrops ==
    ASSUME OnlyTheDeadAreDropped, NEW h \in Handlers, Push(h)
    PROVE  OnlyTheDeadAreDropped'
<1> DEFINE ms == req[h].todo
<1>1. ASSUME NEW tickets \in Tickets(ms), Pushed(h, tickets)
      PROVE  OnlyTheDeadAreDropped'
  <2>1. /\ dropped' = dropped \cup (Gone(ms, tickets) \cup (TokensIn(ms) \cap Malformed))
        /\ dead' = dead \cup TokensIn(Answered(ms, tickets, "gone"))
    BY <1>1 DEF Pushed
  <2> QED BY <2>1, GoneAre DEF OnlyTheDeadAreDropped
<1>2. ASSUME NEW taken, Unheard(h, taken)
      PROVE  OnlyTheDeadAreDropped'
  BY <1>2 DEF Unheard, OnlyTheDeadAreDropped
<1>3. ASSUME UNCHANGED <<dead, dropped>>
      PROVE  OnlyTheDeadAreDropped'
  BY <1>3 DEF OnlyTheDeadAreDropped
<1>4. \/ \E tickets \in Tickets(ms) : Pushed(h, tickets)
      \/ \E taken : Unheard(h, taken)
      \/ UNCHANGED <<dead, dropped>>
  BY DEF Push
<1> QED BY <1>1, <1>2, <1>3, <1>4

Installed == Devices /\ InstallationsHold

LEMMA StaysInstalled ==
    ASSUME Installed, Hands, Tables, NEW h \in Handlers, NEW stage, NEW r, Goes(h, stage, r),
           stage \notin Registering, crossed' = crossed, tokens' = tokens \/ \E ts : tokens' = Unregistered(ts),
           OnlyTheDeadAreDropped'
    PROVE  Installed'
<1>1. Fewer
  BY Removing
<1> QED BY <1>1, OneStays, DevicesStay DEF Installed, InstallationsHold

LEMMA AskInstalled ==
    ASSUME Shape, Installed, NEW h \in Handlers, Requested(h)
    PROVE  Installed'
<1>1. PICK r \in Request :
         /\ pc[h] = "idle" /\ FirstStage[r.kind] \in Stages /\ Moves(h, FirstStage[r.kind], r)
         /\ WellFormed(r)
         /\ crossed' = (crossed \/ (r.kind = "register" /\ \E o \in Handlers : pc[o] \in {"clear", "upsert"}))
         /\ UNCHANGED <<tokens, dead, dropped>>
  BY AskIs DEF people
<1> DEFINE stage == FirstStage[r.kind]
<1>2. /\ pc'[h] = stage /\ req'[h] = r
      /\ \A o \in Handlers \ {h} : pc'[o] = pc[o] /\ req'[o] = req[o]
  BY <1>1, Moved DEF Shape
<1>3. stage # "upsert" /\ (stage \in Registering => r.kind = "register")
  BY <1>1 DEF FirstStage, Registering, Request, WellFormed
<1>4. InstallationsHold'
  BY <1>1 DEF Installed, InstallationsHold, OneInstallation, OnlyTheDeadAreDropped
<1>5. ASSUME ~crossed'
      PROVE  \A k, o \in Handlers : pc'[k] \in Registering /\ pc'[o] \in Registering => k = o
  <2> HIDE DEF stage
  <2>1. ~crossed /\ (r.kind = "register" => \A o \in Handlers : pc[o] \notin Registering)
    BY <1>5, <1>1 DEF Registering
  <2>2. \A k, o \in Handlers : pc[k] \in Registering /\ pc[o] \in Registering => k = o
    BY <2>1 DEF Installed, Devices
  <2> QED BY <2>1, <2>2, <1>2, <1>3
<1>6. ASSUME ~crossed', NEW o \in Handlers, pc'[o] = "upsert"
      PROVE  Cleared(req[o])'
  <2>1. o # h /\ pc[o] = "upsert" /\ req'[o] = req[o] /\ ~crossed /\ tokens' = tokens
    BY <1>1, <1>2, <1>3, <1>6
  <2>2. Cleared(req[o])
    BY <2>1 DEF Installed, Devices
  <2> QED BY <2>1, <2>2 DEF Cleared, OthersOf
<1> QED BY <1>4, <1>5, <1>6 DEF Installed, Devices

LEMMA ClearInstalled ==
    ASSUME Shape, Installed, NEW h \in Handlers, Clear(h)
    PROVE  Installed'
<1> DEFINE r == [req[h] EXCEPT !.stale = OthersOf(req[h].token, req[h].device)]
<1>1. /\ pc[h] = "clear" /\ req[h] \in Request /\ Goes(h, "upsert", r)
      /\ UNCHANGED <<tokens, dead, dropped, crossed>>
  BY ClearIs DEF Shape, people, history
<1>2. Cleared(r) /\ r.token = req[h].token /\ r.device = req[h].device
  BY <1>1 DEF Cleared, Request
<1> HIDE DEF r
<1>3. /\ pc'[h] = "upsert" /\ req'[h] = r
      /\ \A o \in Handlers \ {h} : pc'[o] = pc[o] /\ req'[o] = req[o]
  BY <1>1, Moved DEF Shape, Goes
<1>4. InstallationsHold'
  BY <1>1 DEF Installed, InstallationsHold, OneInstallation, OnlyTheDeadAreDropped
<1>5. ASSUME ~crossed
      PROVE  \A k, o \in Handlers : pc'[k] \in Registering /\ pc'[o] \in Registering => k = o
  BY <1>1, <1>3, <1>5 DEF Installed, Devices, Registering
<1>6. ASSUME ~crossed, NEW o \in Handlers, pc'[o] = "upsert"
      PROVE  Cleared(req[o])'
  <2>1. Cleared(req'[o])
    BY <1>2, <1>3, <1>6 DEF Installed, Devices
  <2> QED BY <1>1, <2>1 DEF Cleared, OthersOf
<1> QED BY <1>1, <1>4, <1>5, <1>6 DEF Installed, Devices

LEMMA UpsertInstalled ==
    ASSUME Shape, Installed, NEW h \in Handlers, Upsert(h)
    PROVE  Installed'
<1>0. Hands /\ Tables
  BY DEF Shape
<1>1. /\ pc[h] = "upsert" /\ Goes(h, "idle", NoReq) /\ req[h] \in Request /\ Agrees(pc[h], req[h])
      /\ UNCHANGED <<dead, dropped, crossed>>
  BY <1>0, InHand, DoneGoes DEF Upsert, history
<1>2. req[h].token \in Tokens
  BY <1>1 DEF Agrees, AtStages, Request, FirstStage
<1>3. OnlyTheDeadAreDropped'
  BY <1>1 DEF Installed, InstallationsHold, OnlyTheDeadAreDropped
<1>4. CASE tokens' = tokens
  BY <1>0, <1>1, <1>3, <1>4, StaysInstalled DEF Registering
<1>5. ASSUME tokens' = [Unregistered(req[h].stale) EXCEPT
                            ![req[h].token] = [user |-> req[h].user, device |-> req[h].device]]
      PROVE  Installed'
  <2>1. /\ pc'[h] = "idle"
        /\ \A o \in Handlers \ {h} : pc'[o] = pc[o] /\ req'[o] = req[o]
    BY <1>0, <1>1, Moved DEF Goes
  <2>2. ~crossed => \A o \in Handlers : pc'[o] \notin Registering
    BY <1>1, <2>1 DEF Installed, Devices, Registering
  <2>3. Devices'
    BY <2>2, <1>1 DEF Devices, Registering
  <2>4. \A t \in Tokens : tokens'[t] = IF t = req[h].token THEN [user |-> req[h].user, device |-> req[h].device]
                                       ELSE IF t \in req[h].stale THEN None ELSE tokens[t]
    BY <1>2, <1>5 DEF Unregistered
  <2>5. ASSUME ~crossed, NEW t \in Tokens, tokens'[t] # None, t # req[h].token,
               tokens'[t].device = req[h].device
        PROVE  req[h].device = None
    <3>1. tokens'[t] = tokens[t] /\ t \notin req[h].stale
      BY <2>4, <2>5
    <3>2. Cleared(req[h])
      BY <1>1, <2>5 DEF Installed, Devices
    <3> QED BY <2>5, <3>1, <3>2 DEF Cleared, OthersOf
  <2>6. ASSUME ~crossed, NEW t \in Tokens, NEW o \in Tokens, tokens'[t] # None, tokens'[o] # None,
               tokens'[t].device = tokens'[o].device, t # o
        PROVE  tokens'[t].device = None
    <3>1. CASE t = req[h].token
      <4>1. tokens'[t].device = req[h].device
        BY <2>4, <3>1
      <4> QED BY <2>5, <2>6, <3>1, <4>1
    <3>2. CASE o = req[h].token
      <4>1. tokens'[o].device = req[h].device
        BY <2>4, <3>2
      <4> QED BY <2>5, <2>6, <3>2, <4>1
    <3>3. CASE t # req[h].token /\ o # req[h].token
      <4>1. tokens'[t] = tokens[t] /\ tokens'[o] = tokens[o]
        BY <2>4, <2>6, <3>3
      <4> QED BY <2>6, <4>1 DEF Installed, InstallationsHold, OneInstallation
    <3> QED BY <3>1, <3>2, <3>3
  <2> QED BY <2>3, <2>6, <1>1, <1>3 DEF Installed, InstallationsHold, OneInstallation
<1> QED BY <1>4, <1>5 DEF Upsert

\* A handler has gone on, and does not register.
WentOn(h) == \E stage, r : Goes(h, stage, r) /\ stage \notin Registering

LEMMA Elsewhere ==
    ASSUME NEW h, NEW stage, NEW r, Goes(h, stage, r), stage \in Stages \ Registering
    PROVE  WentOn(h)
BY DEF WentOn

\* The actions of a handler that neither ask nor register.
LEMMA OtherInstalled ==
    ASSUME Shape, Installed, NEW h \in Handlers,
           \/ Draw(h) \/ CommitRows(h) \/ Write(h) \/ ReadTokens(h) \/ TelegramOrder(h)
           \/ req[h].kind = "create" /\ Telegram(h)
           \/ CreateRow(h) \/ ReadPage(h) \/ WriteCount(h) \/ DeliverPage(h) \/ WriteStats(h) \/ Finish(h)
    PROVE  Installed'
<1>0. Hands /\ Tables
  BY DEF Shape
<1>1. /\ UNCHANGED <<dead, dropped, crossed>>
      /\ WentOn(h)
      /\ tokens' = tokens \/ \E ts : tokens' = Unregistered(ts)
  <2>1. CASE Draw(h)
    <3>1. UNCHANGED <<tokens, dead, dropped, crossed>>
      BY <1>0, <2>1, DrawIs DEF people, history
    <3>2. WentOn(h)
      BY <1>0, <2>1, DrawIs, Elsewhere DEF Registering, Stages
    <3> QED BY <3>1, <3>2
  <2>2. CASE CommitRows(h)
    <3>1. UNCHANGED <<tokens, dead, dropped, crossed>>
      BY <1>0, <2>2, CommitIs DEF people, history
    <3>2. WentOn(h)
      BY <1>0, <2>2, CommitIs, Elsewhere DEF Registering, Stages
    <3> QED BY <3>1, <3>2
  <2>3. CASE Write(h)
    BY <1>0, <2>3, WriteIs, Elsewhere DEF Registering, Stages
  <2>4. CASE ReadTokens(h)
    <3>1. UNCHANGED <<tokens, dead, dropped, crossed>>
      BY <1>0, <2>4, ReadTokensIs DEF people, history
    <3>2. WentOn(h)
      BY <1>0, <2>4, ReadTokensIs, Elsewhere DEF Registering, Stages
    <3> QED BY <3>1, <3>2
  <2>5. CASE TelegramOrder(h)
    <3>1. UNCHANGED <<tokens, dead, dropped, crossed>>
      BY <1>0, <2>5, TelegramOrderIs DEF people, history
    <3>2. WentOn(h)
      BY <1>0, <2>5, TelegramOrderIs, Elsewhere DEF Registering, Stages
    <3> QED BY <3>1, <3>2
  <2>6. CASE req[h].kind = "create" /\ Telegram(h)
    <3>1. UNCHANGED <<tokens, dead, dropped, crossed>>
      BY <1>0, <2>6, TelegramIs DEF people, history
    <3>2. WentOn(h)
      BY <1>0, <2>6, TelegramIs, Elsewhere DEF Registering, Stages
    <3> QED BY <3>1, <3>2
  <2>7. CASE CreateRow(h)
    <3>1. UNCHANGED <<tokens, dead, dropped, crossed>>
      BY <1>0, <2>7, CreateRowIs DEF people, history
    <3>2. WentOn(h)
      BY <1>0, <2>7, CreateRowIs, Elsewhere DEF Registering, Stages
    <3> QED BY <3>1, <3>2
  <2>8. CASE ReadPage(h)
    <3>1. UNCHANGED <<tokens, dead, dropped, crossed>>
      BY <2>8, ReadPageIs DEF people, history
    <3>2. WentOn(h)
      BY <2>8, ReadPageIs, Elsewhere DEF Registering, Stages
    <3> QED BY <3>1, <3>2
  <2>9. CASE WriteCount(h)
    <3>1. UNCHANGED <<tokens, dead, dropped, crossed>>
      BY <2>9, WriteCountIs DEF people, history
    <3>2. WentOn(h)
      BY <2>9, WriteCountIs, Elsewhere DEF Registering, Stages
    <3> QED BY <3>1, <3>2
  <2>10. CASE DeliverPage(h)
    <3>1. UNCHANGED <<tokens, dead, dropped, crossed>>
      BY <2>10, DeliverPageIs DEF people, history
    <3>2. WentOn(h)
      BY <2>10, DeliverPageIs, Elsewhere DEF Registering, Stages
    <3> QED BY <3>1, <3>2
  <2>11. CASE WriteStats(h)
    <3>1. UNCHANGED <<tokens, dead, dropped, crossed>>
      BY <2>11, WriteStatsIs DEF people, history
    <3>2. WentOn(h)
      BY <2>11, WriteStatsIs, Elsewhere DEF Registering, Stages
    <3> QED BY <3>1, <3>2
  <2>12. CASE Finish(h)
    <3>1. UNCHANGED <<tokens, dead, dropped, crossed>>
      BY <2>12, FinishIs DEF people, history
    <3>2. WentOn(h)
      BY <2>12, FinishIs, Elsewhere DEF Registering, Stages
    <3> QED BY <3>1, <3>2
  <2> QED BY <2>1, <2>2, <2>3, <2>4, <2>5, <2>6, <2>7, <2>8, <2>9, <2>10, <2>11, <2>12
<1>2. OnlyTheDeadAreDropped'
  BY <1>1 DEF Installed, InstallationsHold, OnlyTheDeadAreDropped
<1> QED BY <1>0, <1>1, <1>2, StaysInstalled DEF WentOn

LEMMA PushInstalled ==
    ASSUME Shape, Installed, NEW h \in Handlers, Push(h)
    PROVE  Installed'
<1>0. Hands /\ Tables /\ OnlyTheDeadAreDropped
  BY DEF Shape, Installed, InstallationsHold
<1>1. /\ crossed' = crossed
      /\ WentOn(h)
      /\ tokens' = tokens \/ \E ts : tokens' = Unregistered(ts)
  BY <1>0, PushIs, Elsewhere DEF PushedTo, Registering, Stages
<1>2. OnlyTheDeadAreDropped'
  BY <1>0, PushDrops
<1> QED BY <1>0, <1>1, <1>2, StaysInstalled DEF WentOn

LEMMA ReceiptInstalled ==
    ASSUME Shape, Installed, NEW t \in Tokens, Receipt(t)
    PROVE  Installed'
<1>1. Fewer
  BY Removing DEF Shape, Receipt
<1>2. InstallationsHold'
  BY <1>1, OneStays DEF Receipt, Installed, InstallationsHold, OnlyTheDeadAreDropped
<1>3. pc' = pc /\ req' = req /\ crossed' = crossed
  BY DEF Receipt, requests
<1>4. ASSUME NEW o \in Handlers, Cleared(req[o])
      PROVE  Cleared(req[o])'
  BY <1>1, <1>3, <1>4 DEF Cleared, OthersOf, Fewer
<1>5. Devices'
  BY <1>3, <1>4 DEF Installed, Devices
<1> QED BY <1>2, <1>5 DEF Installed

LEMMA QuietInstalled ==
    ASSUME Installed, UNCHANGED <<tokens, dead, dropped, crossed>>,
           (pc' = pc /\ req' = req) \/ \A h \in Handlers : pc'[h] = "idle"
    PROVE  Installed'
BY DEF Installed, InstallationsHold, OneInstallation, OnlyTheDeadAreDropped, Devices, Cleared, OthersOf, Registering

LEMMA NextInstalled ==
    ASSUME Shape, Installed, [Next]_vars
    PROVE  Installed'
<1>1. CASE UNCHANGED vars
  BY <1>1, QuietInstalled DEF vars, people, requests, history
<1>2. CASE Next
  <2>1. ASSUME NEW h \in Handlers, Requested(h) \/ Step(h) PROVE Installed'
    BY <2>1, AskInstalled, ClearInstalled, UpsertInstalled, PushInstalled, OtherInstalled DEF Step
  <2>2. ASSUME NEW u \in Users, Poll(u) PROVE Installed'
    BY <2>2, QuietInstalled DEF Poll, people, requests
  <2>3. ASSUME NEW t \in Tokens, Receipt(t) PROVE Installed'
    BY <2>3, ReceiptInstalled
  <2>4. ASSUME Restart PROVE Installed'
    BY <2>4, QuietInstalled DEF Restart, people, history
  <2> QED BY <1>2, <2>1, <2>2, <2>3, <2>4 DEF Next
<1> QED BY <1>1, <1>2

LEMMA InitInstalled ==
    ASSUME Init
    PROVE  Installed
<1>1. tokens = World.tokens /\ dead = {} /\ dropped = {} /\ \A h \in Handlers : pc[h] = "idle"
  BY DEF Init
<1>2. InstallationsHold
  BY <1>1, WorldAssumption DEF InstallationsHold, OneInstallation, OnlyTheDeadAreDropped
<1> QED BY <1>1, <1>2 DEF Installed, Devices, Registering

\* (push-tokens.service.ts:16-19, push.service.ts:18-20) A device has one installation
\* as long as it does not register two at once, and what the push service removes are
\* tokens Expo named and those that never were tokens - however registrations, pushes,
\* receipts, deletions of accounts, failures and restarts interleave.
THEOREM InstallationsAlwaysHold == Spec => []InstallationsHold
<1>1. Init => Shape /\ Installed
  BY InitShape, InitInstalled
<1>2. Shape /\ Installed /\ [Next]_vars => (Shape /\ Installed)'
  BY NextShape, NextInstalled
<1>3. Installed => InstallationsHold
  BY DEF Installed
<1> QED BY <1>1, <1>2, <1>3, PTL DEF Spec

-----------------------------------------------------------------------------
(* The feed and its cursors *)

LEMMA TakenSame ==
    ASSUME NEW r, NEW q, q.seqs = r.seqs, q.page = r.page
    PROVE  Taken(q) = Taken(r)
BY DEF Taken

LEMMA ReservedStays ==
    ASSUME Reserved, Hands, NEW h \in Handlers, NEW stage, NEW r, Goes(h, stage, r), stage # "commit",
           feed' \subseteq feed, drawn' = drawn
    PROVE  Reserved'
<1>1. /\ pc'[h] = stage
      /\ \A o \in Handlers \ {h} : pc'[o] = pc[o] /\ req'[o] = req[o]
  BY Moved DEF Goes
<1>2. \A o \in Handlers : pc'[o] = "commit" => pc[o] = "commit" /\ req'[o] = req[o]
  BY <1>1
<1>3. ASSUME NEW o \in Handlers, pc'[o] = "commit"
      PROVE  Holds(req[o])'
  <2>1. Holds(req[o]) /\ req'[o] = req[o]
    BY <1>2, <1>3 DEF Reserved
  <2>2. Taken(req[o])' = Taken(req[o])
    BY <2>1 DEF Taken
  <2> QED BY <2>1, <2>2 DEF Holds
<1>4. ASSUME NEW o \in Handlers, NEW k \in Handlers, pc'[o] = "commit", pc'[k] = "commit", k # o
      PROVE  Taken(req[o])' \cap Taken(req[k])' = {}
  <2>1. Taken(req[o]) \cap Taken(req[k]) = {}
    BY <1>2, <1>4 DEF Reserved
  <2>2. Taken(req[o])' = Taken(req[o]) /\ Taken(req[k])' = Taken(req[k])
    BY <1>2, <1>4 DEF Taken
  <2> QED BY <2>1, <2>2
<1> QED BY <1>3, <1>4 DEF Reserved

LEMMA DrawReserved ==
    ASSUME Shape, Numbers, NEW h \in Handlers, Draw(h)
    PROVE  Numbers'
<1> DEFINE n == Cardinality(Drawn(h))
           r == [req[h] EXCEPT !.page = Drawn(h), !.seqs = drawn]
<1>0. Hands /\ Tables
  BY DEF Shape
<1>1. /\ Goes(h, "commit", r) /\ req[h] \in Request
      /\ drawn' = drawn + n /\ n \in Nat /\ drawn \in Nat
      /\ UNCHANGED <<feed, client, customers, before>>
  BY <1>0, DrawIs DEF people, history
<1>2. r.page = Drawn(h) /\ r.seqs = drawn
  BY <1>1 DEF Request
<1>3. Taken(r) = (drawn + 1)..(drawn + n)
  BY <1>2 DEF Taken
<1> HIDE DEF r, n
<1>4. /\ pc'[h] = "commit" /\ req'[h] = r
      /\ \A o \in Handlers \ {h} : pc'[o] = pc[o] /\ req'[o] = req[o]
  BY <1>0, <1>1, Moved DEF Goes
<1>5. 1..drawn \subseteq 1..drawn' /\ 0..drawn \subseteq 0..drawn' /\ Taken(r) \subseteq 1..drawn'
      /\ Taken(r) \cap 1..drawn = {}
  BY <1>1, <1>3
<1>6. Numbered'
  BY <1>1, <1>5 DEF Numbers, Numbered
<1>7. CursorsStand'
  BY <1>1, <1>5 DEF Numbers, CursorsStand
<1>8. Taken(req[h])' = Taken(r)
  BY <1>4 DEF Taken
<1>9. Holds(req[h])'
  BY <1>1, <1>5, <1>8 DEF Holds, Numbers, Numbered
<1>10. ASSUME NEW o \in Handlers \ {h}, pc'[o] = "commit"
       PROVE  /\ Holds(req[o])' /\ Taken(req[o])' = Taken(req[o])
              /\ Taken(req[o])' \cap Taken(req[h])' = {}
  <2>1. pc[o] = "commit" /\ req'[o] = req[o]
    BY <1>4, <1>10
  <2>2. Holds(req[o]) /\ Taken(req[o])' = Taken(req[o])
    BY <2>1 DEF Numbers, Reserved, Taken
  <2> QED BY <1>1, <1>5, <1>8, <2>2 DEF Holds
<1>11. ASSUME NEW o \in Handlers \ {h}, NEW k \in Handlers \ {h}, k # o, pc'[o] = "commit", pc'[k] = "commit"
       PROVE  Taken(req[o])' \cap Taken(req[k])' = {}
  <2>1. Taken(req[o]) \cap Taken(req[k]) = {}
    BY <1>4, <1>11 DEF Numbers, Reserved
  <2> QED BY <1>10, <1>11, <2>1
<1>12. Reserved'
  BY <1>9, <1>10, <1>11 DEF Reserved
<1> QED BY <1>1, <1>6, <1>7, <1>12 DEF Numbers

\* The rows of a page have the numbers it took.
LEMMA RowsNumbered ==
    ASSUME NEW r \in Request, r.about \in Nat \cup {AnOrder}
    PROVE  /\ \A q \in Rows(r) : q.seq \in Taken(r)
           /\ \A q, s \in Rows(r) : q.seq = s.seq => q = s
<1>0. r.page \in SUBSET Users /\ r.seqs \in Nat
  BY DEF Request
<1>1. /\ Rows(r) \subseteq FeedRow
      /\ \A q \in Rows(r) : q.user \in r.page /\ q.about = r.about /\ q.seq = r.seqs + Place(r.page, q.user)
  BY RowsAre
<1>2. /\ \A u \in r.page : Place(r.page, u) \in 1..Cardinality(r.page)
      /\ \A u, w \in r.page : Place(r.page, u) = Place(r.page, w) => u = w
      /\ Cardinality(r.page) \in Nat
  BY <1>0, Places, UsersFinite
<1>3. ASSUME NEW q \in Rows(r)
      PROVE  q.seq \in Taken(r)
  <2>1. Place(r.page, q.user) \in 1..Cardinality(r.page) /\ q.seq = r.seqs + Place(r.page, q.user)
    BY <1>1, <1>2
  <2> QED BY <1>0, <1>2, <2>1 DEF Taken
<1>4. ASSUME NEW q \in Rows(r), NEW s \in Rows(r), q.seq = s.seq
      PROVE  q = s
  <2>1. Place(r.page, q.user) \in Nat /\ Place(r.page, s.user) \in Nat
        /\ q.seq = r.seqs + Place(r.page, q.user) /\ s.seq = r.seqs + Place(r.page, s.user)
    BY <1>1, <1>2
  <2>2. Place(r.page, q.user) = Place(r.page, s.user)
    <3> DEFINE a == Place(r.page, q.user)
               b == Place(r.page, s.user)
               n == r.seqs
               m == q.seq
    <3>1. a \in Nat /\ b \in Nat /\ n \in Nat /\ m = n + a /\ m = n + b
      BY <1>0, <1>4, <2>1
    <3> HIDE DEF a, b, n, m
    <3>2. a = b
      BY <3>1
    <3> QED BY <3>2 DEF a, b
  <2>3. q.user = s.user /\ q.about = s.about
    BY <1>1, <1>2, <2>2
  <2> QED BY <1>1, <1>4, <2>3 DEF FeedRow
<1> QED BY <1>3, <1>4

Leaves(h) == \E stage, r : Goes(h, stage, r) /\ stage # "commit"

LEMMA LeavesFor ==
    ASSUME NEW h, NEW stage, NEW r, Goes(h, stage, r), stage # "commit"
    PROVE  Leaves(h)
BY DEF Leaves

LEMMA CommitNumbers ==
    ASSUME Shape, Numbers, NEW h \in Handlers, CommitRows(h)
    PROVE  Numbers'
<1>0. Hands /\ Tables
  BY DEF Shape
<1>1. /\ pc[h] = "commit" /\ Leaves(h)
      /\ feed' = feed \/ feed' = feed \cup Rows(req[h])
      /\ UNCHANGED <<drawn, client, customers, before>>
  <2>1. pc[h] = "commit" /\ UNCHANGED <<drawn, client, customers, before>>
        /\ (feed' = feed \/ feed' = feed \cup Rows(req[h]))
    BY <1>0, CommitIs DEF Committed, people
  <2>2. Leaves(h)
    BY <1>0, CommitIs, LeavesFor
  <2> QED BY <2>1, <2>2
<1>2. CASE feed' = feed
  <2>1. Reserved'
    BY <1>0, <1>1, <1>2, ReservedStays DEF Numbers, Leaves
  <2> QED BY <1>1, <1>2, <2>1 DEF Numbers, Numbered, CursorsStand
<1>3. CASE feed' = feed \cup Rows(req[h])
  <2>1. /\ \A q \in Rows(req[h]) : q.seq \in Taken(req[h])
        /\ \A q, s \in Rows(req[h]) : q.seq = s.seq => q = s
    BY <1>0, <1>1, CommitFacts, RowsNumbered
  <2>2. Holds(req[h])
    BY <1>1 DEF Numbers, Reserved
  <2>3. Numbered'
    BY <1>1, <1>3, <2>1, <2>2 DEF Numbers, Numbered, Holds
  <2>4. CursorsStand'
    BY <1>1, <1>3 DEF Numbers, CursorsStand
  <2>5. /\ pc'[h] # "commit"
        /\ \A o \in Handlers \ {h} : pc'[o] = pc[o] /\ req'[o] = req[o]
    BY <1>0, <1>1, Moved DEF Goes, Leaves
  <2>6. ASSUME NEW o \in Handlers, pc'[o] = "commit"
        PROVE  Holds(req[o])' /\ Taken(req[o])' = Taken(req[o])
    <3>1. o # h /\ pc[o] = "commit" /\ req'[o] = req[o]
      BY <2>5, <2>6
    <3>2. Holds(req[o]) /\ Taken(req[o])' = Taken(req[o]) /\ Taken(req[o]) \cap Taken(req[h]) = {}
      BY <1>1, <3>1 DEF Numbers, Reserved, Taken
    <3> QED BY <1>1, <1>3, <2>1, <3>2 DEF Holds
  <2>7. ASSUME NEW o \in Handlers, NEW k \in Handlers, pc'[o] = "commit", pc'[k] = "commit", k # o
        PROVE  Taken(req[o])' \cap Taken(req[k])' = {}
    <3>1. Taken(req[o]) \cap Taken(req[k]) = {}
      BY <2>5, <2>7 DEF Numbers, Reserved
    <3> QED BY <2>6, <2>7, <3>1
  <2>8. Reserved'
    BY <2>6, <2>7 DEF Reserved
  <2> QED BY <1>1, <2>3, <2>4, <2>8 DEF Numbers
<1> QED BY <1>1, <1>2, <1>3

LEMMA CommitMissed ==
    ASSUME Shape, Numbers, MissedOnlyOvertaken, NEW h \in Handlers, CommitRows(h)
    PROVE  MissedOnlyOvertaken'
<1>0. Hands /\ Tables
  BY DEF Shape
<1>1. /\ pc[h] = "commit" /\ UNCHANGED <<client, customers, before>>
      /\ \/ feed' = feed /\ overtaken' = overtaken
         \/ /\ feed' = feed \cup Rows(req[h])
            /\ overtaken' = overtaken \cup {r \in Rows(req[h]) : \E o \in feed : o.user = r.user /\ o.seq > r.seq}
  BY <1>0, CommitIs DEF Committed, people
<1>2. CASE feed' = feed /\ overtaken' = overtaken
  BY <1>1, <1>2 DEF MissedOnlyOvertaken, RowsOf
<1>3. CASE /\ feed' = feed \cup Rows(req[h])
           /\ overtaken' = overtaken \cup {r \in Rows(req[h]) : \E o \in feed : o.user = r.user /\ o.seq > r.seq}
  <2> SUFFICES ASSUME NEW u \in customers, client[u].cursor # None, NEW q \in feed', q.user = u,
                      q.seq <= client[u].cursor
               PROVE  q \in client[u].shown \cup before[u] \cup overtaken'
    BY <1>1 DEF MissedOnlyOvertaken, RowsOf
  <2>1. CASE q \in feed
    BY <1>3, <2>1 DEF MissedOnlyOvertaken, RowsOf
  <2>2. CASE q \in Rows(req[h])
    <3>1. q.seq \in Taken(req[h]) /\ Holds(req[h]) /\ drawn \in Nat
      BY <1>0, <1>1, <2>2, CommitFacts, RowsNumbered DEF Numbers, Reserved, Tables
    <3>2. client[u].cursor \in 0..drawn /\ q.seq \in 1..drawn
      <4>1. u \in Users /\ client[u].cursor \in (0..drawn) \cup {None}
        BY <1>0 DEF Numbers, CursorsStand, Tables
      <4>2. q.seq \in 1..drawn
        BY <3>1 DEF Holds
      <4> QED BY <4>1, <4>2
    <3>3. client[u].cursor # 0
      BY <3>1, <3>2
    <3>4. PICK o \in feed : o.user = u /\ o.seq = client[u].cursor
      BY <3>3 DEF Numbers, CursorsStand
    <3>5. o.seq # q.seq
      BY <3>1 DEF Holds
    <3>6. o.seq > q.seq
      BY <3>1, <3>2, <3>4, <3>5
    <3> QED BY <1>3, <2>2, <3>4, <3>6
  <2> QED BY <1>3, <2>1, <2>2
<1> QED BY <1>1, <1>2, <1>3

\* What a poll with a cursor is given: all there is after it, up to the last of them.
LEMMA NoneBetween ==
    ASSUME Tables, NEW u \in Users, client[u].cursor # None,
           NEW r \in RowsOf(u), r.seq > client[u].cursor, r.seq <= NextCursor(u)
    PROVE  r \in After(u, client[u].cursor)
<1> DEFINE c == client[u].cursor
           rows == {q \in RowsOf(u) : c = None \/ q.seq > c}
           Upto(n) == {s \in rows : s.seq <= n}
           given == After(u, c)
<1>1. /\ RowsOf(u) \in SUBSET FeedRow /\ IsFiniteSet(RowsOf(u)) /\ c \in Nat
      /\ given \in SUBSET RowsOf(u) /\ IsFiniteSet(given)
  BY AfterIn
<1>2. given = {q \in rows : Cardinality(Upto(q.seq)) <= Limit}
  BY DEF After
<1>3. given # {}
  <2>1. given = {} => NextCursor(u) = c
    BY DEF NextCursor
  <2>2. r.seq \in Nat
    BY <1>1 DEF FeedRow
  <2> HIDE DEF given
  <2> QED BY <2>1, <2>2, <1>1
<1>4. PICK m \in given : m.seq = NextCursor(u)
  <2>1. given \in SUBSET FeedRow
    BY <1>1
  <2>2. NextCursor(u) = Max({q.seq : q \in given})
    BY <1>3 DEF NextCursor
  <2> HIDE DEF given
  <2> QED BY <1>1, <1>3, <2>1, <2>2, LastSeq
<1>5. Cardinality(Upto(m.seq)) <= Limit /\ m \in rows
  BY <1>2
<1>6. Upto(r.seq) \in SUBSET Upto(m.seq) /\ IsFiniteSet(Upto(m.seq))
  <2>1. \A s \in rows : s.seq \in Nat
    BY <1>1 DEF FeedRow
  <2>2. r.seq \in Nat /\ m.seq \in Nat /\ r.seq <= m.seq
    BY <1>1, <1>4 DEF FeedRow
  <2>3. \A s \in Upto(r.seq) : s \in Upto(m.seq)
    BY <2>1, <2>2
  <2>4. Upto(m.seq) \in SUBSET RowsOf(u)
    OBVIOUS
  <2>5. IsFiniteSet(Upto(m.seq))
    BY <2>4, <1>1, FS_Subset
  <2> HIDE DEF Upto
  <2> QED BY <2>3, <2>5
<1>7. /\ Cardinality(Upto(r.seq)) \in Nat /\ Cardinality(Upto(m.seq)) \in Nat
      /\ Cardinality(Upto(r.seq)) <= Cardinality(Upto(m.seq))
  <2> HIDE DEF Upto
  <2> QED BY <1>6, FS_Subset, FS_CardinalityType
<1>8. Cardinality(Upto(r.seq)) <= Limit
  <2> HIDE DEF Upto
  <2> QED BY <1>5, <1>7, NamesAssumption
<1> QED BY <1>2, <1>8

LEMMA PollNumbers ==
    ASSUME Shape, Numbers, MissedOnlyOvertaken, NEW u \in Users, Poll(u)
    PROVE  Numbers' /\ MissedOnlyOvertaken'
<1> DEFINE c == client[u].cursor
           given == After(u, c)
<1>0. Hands /\ Tables /\ drawn \in Nat
  BY DEF Shape, Tables
<1>1. /\ u \in customers
      /\ client' = [client EXCEPT ![u] = [cursor |-> NextCursor(u), shown |-> client[u].shown \cup given]]
      /\ before' = IF c = None THEN [before EXCEPT ![u] = RowsOf(u)] ELSE before
      /\ UNCHANGED <<customers, feed, drawn, pc, req, overtaken>>
  BY <1>0, PollIs DEF people, letters, requests
<1>2. /\ given \in SUBSET RowsOf(u) /\ RowsOf(u) \in SUBSET FeedRow /\ RowsOf(u) \in SUBSET feed
      /\ IsFiniteSet(given) /\ c \in Nat \cup {None} /\ NextCursor(u) \in Nat
  BY <1>0, AfterIn
<1>3. /\ client'[u].cursor = NextCursor(u) /\ client'[u].shown = client[u].shown \cup given
      /\ \A w \in Users : w # u => client'[w] = client[w]
  BY <1>0, <1>1 DEF Tables
<1> HIDE DEF given
<1>4. /\ NextCursor(u) \in 0..drawn
      /\ NextCursor(u) # 0 => \E r \in feed : r.user = u /\ r.seq = NextCursor(u)
  <2>1. CASE given # {}
    <3>1. PICK m \in given : m.seq = NextCursor(u)
      <4>1. given \in SUBSET FeedRow /\ NextCursor(u) = Max({q.seq : q \in given})
        BY <1>2, <2>1 DEF NextCursor, given
      <4> QED BY <1>2, <2>1, <4>1, LastSeq
    <3>2. m \in feed /\ m.user = u
      BY <1>2 DEF RowsOf
    <3>3. m.seq \in 1..drawn
      BY <3>2 DEF Numbers, Numbered
    <3> QED BY <1>0, <3>1, <3>2, <3>3
  <2>2. CASE given = {}
    <3>1. NextCursor(u) = IF c = None THEN 0 ELSE c
      BY <2>2 DEF NextCursor, given
    <3>2. c \in (0..drawn) \cup {None} /\ (c \notin {None, 0} => \E r \in feed : r.user = u /\ r.seq = c)
      BY <1>1 DEF Numbers, CursorsStand
    <3> QED BY <1>0, <3>1, <3>2, NamesAssumption
  <2> QED BY <2>1, <2>2
<1>5. Reserved' /\ Numbered'
  BY <1>1 DEF Numbers, Reserved, Numbered, Holds, Taken
<1>6. CursorsStand'
  BY <1>1, <1>3, <1>4 DEF Numbers, CursorsStand
<1>7. MissedOnlyOvertaken'
  <2> SUFFICES ASSUME NEW w \in customers, client'[w].cursor # None, NEW q \in feed, q.user = w,
                      q.seq <= client'[w].cursor
               PROVE  q \in client'[w].shown \cup before'[w] \cup overtaken
    BY <1>1 DEF MissedOnlyOvertaken, RowsOf
  <2>1. CASE w # u
    <3>1. client'[w] = client[w]
      BY <1>0, <1>3, <2>1 DEF Tables
    <3>2. before'[w] = before[w]
      BY <1>1, <2>1
    <3> QED BY <3>1, <3>2 DEF MissedOnlyOvertaken, RowsOf
  <2>2. CASE w = u /\ c = None
    <3>1. before'[u] = RowsOf(u)
      BY <1>1, <2>2 DEF Numbers
    <3> QED BY <2>2, <3>1 DEF RowsOf
  <2>3. CASE w = u /\ c # None
    <3>1. before' = before /\ c \in Nat /\ q.seq \in Nat /\ q \in RowsOf(u) /\ q.seq <= NextCursor(u)
      BY <1>0, <1>1, <1>2, <1>3, <2>3 DEF Tables, RowsOf, FeedRow
    <3>2. CASE q.seq <= c
      BY <1>1, <1>3, <2>3, <3>1, <3>2 DEF MissedOnlyOvertaken, RowsOf
    <3>3. CASE q.seq > c
      <4>1. q \in given
        BY <1>0, <2>3, <3>1, <3>3, NoneBetween DEF given
      <4> QED BY <1>3, <2>3, <4>1
    <3> QED BY <3>1, <3>2, <3>3
  <2> QED BY <2>1, <2>2, <2>3
<1>8. DOMAIN before' = Users
  BY <1>1 DEF Numbers
<1> QED BY <1>5, <1>6, <1>7, <1>8 DEF Numbers

LEMMA WriteNumbers ==
    ASSUME Shape, Numbers, MissedOnlyOvertaken, NEW h \in Handlers, Write(h)
    PROVE  Numbers' /\ MissedOnlyOvertaken'
<1> DEFINE u == req[h].user
<1>0. Hands /\ Tables
  BY DEF Shape
<1>1. /\ Goes(h, "idle", NoReq)
      /\ \/ UNCHANGED <<customers, feed>>
         \/ customers' = customers \ {u} /\ feed' = feed \ RowsOf(u)
         \/ customers' = customers \cup {u} /\ feed' = feed /\ u \in Users /\ u \notin Met
      /\ UNCHANGED <<drawn, client, before, overtaken>>
  BY <1>0, WriteIs
<1>2. feed' \subseteq feed /\ \A r \in feed : r.user \in customers' /\ r.user \in customers => r \in feed'
  BY <1>1 DEF RowsOf
<1>3. \A w \in customers' : w \in customers \/ (w \in Users /\ client[w].cursor = None)
  BY <1>1 DEF Shape, Introduced
<1> HIDE DEF u
<1>4. Reserved'
  BY <1>0, <1>1, <1>2, ReservedStays DEF Numbers
<1>5. Numbered'
  BY <1>1, <1>2 DEF Numbers, Numbered
<1>6. CursorsStand'
  BY <1>1, <1>2, <1>3 DEF Numbers, CursorsStand
<1>7. MissedOnlyOvertaken'
  BY <1>1, <1>2, <1>3 DEF MissedOnlyOvertaken, RowsOf
<1> QED BY <1>1, <1>4, <1>5, <1>6, <1>7 DEF Numbers

LEMMA SameMissed ==
    ASSUME MissedOnlyOvertaken, UNCHANGED <<customers, feed, client, before, overtaken>>
    PROVE  MissedOnlyOvertaken'
BY DEF MissedOnlyOvertaken, RowsOf

LEMMA OtherNumbers ==
    ASSUME Shape, Numbers, NEW h \in Handlers, NEW stage, NEW r, Goes(h, stage, r), stage # "commit",
           UNCHANGED <<customers, feed, drawn, client, before>>
    PROVE  Numbers'
<1>1. Reserved'
  BY ReservedStays DEF Numbers, Shape
<1> QED BY <1>1 DEF Numbers, Numbered, CursorsStand

\* The actions of a handler that leave the feed, and who is a customer, alone.
LEMMA HandlerNumbers ==
    ASSUME Shape, Numbers, MissedOnlyOvertaken, NEW h \in Handlers,
           \/ Requested(h) \/ Clear(h) \/ Upsert(h) \/ ReadTokens(h) \/ Push(h) \/ TelegramOrder(h)
           \/ req[h].kind = "create" /\ Telegram(h)
           \/ CreateRow(h) \/ ReadPage(h) \/ WriteCount(h) \/ DeliverPage(h) \/ WriteStats(h) \/ Finish(h)
    PROVE  Numbers' /\ MissedOnlyOvertaken'
<1>0. Hands /\ Tables
  BY DEF Shape
<1>1. UNCHANGED <<customers, feed, drawn, client, before, overtaken>>
  BY DEF Requested, Ask, Clear, Upsert, ReadTokens, Push, TelegramOrder, Telegram, CreateRow, ReadPage, WriteCount,
         DeliverPage, WriteStats, Finish, people, letters, history
<1>2. MissedOnlyOvertaken'
  BY <1>1, SameMissed
<1>3. Leaves(h) => Numbers'
  BY <1>1, OtherNumbers DEF Leaves
<1>4. CASE Requested(h)
  <2>1. PICK r \in Request :
          /\ WellFormed(r) /\ FirstStage[r.kind] \in Stages /\ Moves(h, FirstStage[r.kind], r)
    BY <1>4, AskIs
  <2>2. FirstStage[r.kind] # "commit"
    BY <2>1 DEF WellFormed, Request, FirstStage
  <2>3. /\ pc'[h] # "commit"
        /\ \A o \in Handlers \ {h} : pc'[o] = pc[o] /\ req'[o] = req[o]
    BY <1>0, <2>1, <2>2, Moved
  <2>4. ASSUME NEW o \in Handlers, pc'[o] = "commit"
        PROVE  pc[o] = "commit" /\ req'[o] = req[o] /\ Taken(req[o])' = Taken(req[o])
    BY <2>3, <2>4 DEF Taken
  <2>5. Reserved'
    BY <1>1, <2>4 DEF Numbers, Reserved, Holds
  <2> QED BY <1>1, <1>2, <2>5 DEF Numbers, Numbered, CursorsStand
<1>5. CASE \/ Clear(h) \/ Upsert(h) \/ ReadTokens(h) \/ TelegramOrder(h) \/ Push(h)
           \/ req[h].kind = "create" /\ Telegram(h)
  <2>1. CASE Clear(h)
    BY <1>0, <1>3, <1>2, <2>1, ClearIs, LeavesFor
  <2>2. CASE Upsert(h)
    <3>1. Goes(h, "idle", NoReq)
      BY <2>2, DoneGoes DEF Upsert, history
    <3> QED BY <1>2, <1>3, <3>1, LeavesFor
  <2>3. CASE ReadTokens(h)
    BY <1>0, <1>3, <1>2, <2>3, ReadTokensIs, LeavesFor
  <2>4. CASE TelegramOrder(h)
    BY <1>0, <1>3, <1>2, <2>4, TelegramOrderIs, LeavesFor
  <2>5. CASE Push(h)
    BY <1>0, <1>3, <1>2, <2>5, PushIs, LeavesFor DEF PushedTo
  <2>6. CASE req[h].kind = "create" /\ Telegram(h)
    BY <1>0, <1>3, <1>2, <2>6, TelegramIs, LeavesFor
  <2> QED BY <1>5, <2>1, <2>2, <2>3, <2>4, <2>5, <2>6
<1>6. CASE CreateRow(h) \/ ReadPage(h) \/ WriteCount(h) \/ DeliverPage(h) \/ WriteStats(h) \/ Finish(h)
  <2>1. CASE CreateRow(h)
    BY <1>0, <1>3, <1>2, <2>1, CreateRowIs, LeavesFor
  <2>2. CASE ReadPage(h)
    BY <1>3, <1>2, <2>2, ReadPageIs, LeavesFor
  <2>3. CASE WriteCount(h)
    BY <1>3, <1>2, <2>3, WriteCountIs, LeavesFor
  <2>4. CASE DeliverPage(h)
    BY <1>3, <1>2, <2>4, DeliverPageIs, LeavesFor
  <2>5. CASE WriteStats(h)
    BY <1>3, <1>2, <2>5, WriteStatsIs, LeavesFor
  <2>6. CASE Finish(h)
    BY <1>3, <1>2, <2>6, FinishIs, LeavesFor
  <2> QED BY <1>6, <2>1, <2>2, <2>3, <2>4, <2>5, <2>6
<1> QED BY <1>4, <1>5, <1>6

LEMMA QuietNumbers ==
    ASSUME Numbers, MissedOnlyOvertaken, UNCHANGED <<customers, feed, drawn, client, before, overtaken>>,
           (pc' = pc /\ req' = req) \/ \A h \in Handlers : pc'[h] # "commit"
    PROVE  Numbers' /\ MissedOnlyOvertaken'
<1>1. Reserved'
  BY DEF Numbers, Reserved, Holds, Taken
<1> QED BY <1>1, SameMissed DEF Numbers, Numbered, CursorsStand

LEMMA NextNumbers ==
    ASSUME Shape, Numbers, MissedOnlyOvertaken, [Next]_vars
    PROVE  Numbers' /\ MissedOnlyOvertaken'
<1>1. CASE UNCHANGED vars
  BY <1>1, QuietNumbers DEF vars, people, letters, requests, history
<1>2. CASE Next
  <2>1. ASSUME NEW h \in Handlers, Requested(h) \/ Step(h) PROVE Numbers' /\ MissedOnlyOvertaken'
    <3>1. CASE Draw(h)
      <4>1. UNCHANGED <<customers, feed, client, before, overtaken>>
        BY <3>1 DEF Draw, people, history
      <4> QED BY <3>1, <4>1, DrawReserved, SameMissed
    <3>2. CASE CommitRows(h)
      BY <3>2, CommitNumbers, CommitMissed
    <3>3. CASE Write(h)
      BY <3>3, WriteNumbers
    <3>4. CASE ~(Draw(h) \/ CommitRows(h) \/ Write(h))
      BY <2>1, <3>4, HandlerNumbers DEF Step
    <3> QED BY <3>1, <3>2, <3>3, <3>4
  <2>2. ASSUME NEW u \in Users, Poll(u) PROVE Numbers' /\ MissedOnlyOvertaken'
    BY <2>2, PollNumbers
  <2>3. ASSUME NEW t \in Tokens, Receipt(t) PROVE Numbers' /\ MissedOnlyOvertaken'
    BY <2>3, QuietNumbers DEF Receipt, letters, requests
  <2>4. ASSUME Restart PROVE Numbers' /\ MissedOnlyOvertaken'
    BY <2>4, QuietNumbers DEF Restart, people, letters, history
  <2> QED BY <1>2, <2>1, <2>2, <2>3, <2>4 DEF Next
<1> QED BY <1>1, <1>2

LEMMA InitNumbers ==
    ASSUME Init
    PROVE  Numbers /\ MissedOnlyOvertaken
<1>1. /\ feed = {} /\ drawn = 0 /\ client = [u \in Users |-> [cursor |-> None, shown |-> {}]]
      /\ customers = World.customers /\ \A h \in Handlers : pc[h] = "idle"
      /\ DOMAIN before = Users
  BY DEF Init
<1>2. Numbers
  BY <1>1, WorldAssumption DEF Numbers, Numbered, Reserved, CursorsStand
<1>3. MissedOnlyOvertaken
  BY <1>1, WorldAssumption DEF MissedOnlyOvertaken
<1> QED BY <1>2, <1>3

\* (schema.prisma:926-932) A client that polls from cursor to cursor has shown every
\* row up to its cursor that is still there, but those from before its first poll and
\* those that committed behind a later number of the same user - whatever handlers
\* draw numbers and commit them in whatever order.
THEOREM OnlyTheOvertakenAreMissed == Spec => []MissedOnlyOvertaken
<1>1. Init => Shape /\ Numbers /\ MissedOnlyOvertaken
  BY InitShape, InitNumbers
<1>2. Shape /\ Numbers /\ MissedOnlyOvertaken /\ [Next]_vars => (Shape /\ Numbers /\ MissedOnlyOvertaken)'
  BY NextShape, NextNumbers
<1> QED BY <1>1, <1>2, PTL DEF Spec

-----------------------------------------------------------------------------
(* Broadcasts: what a step leaves of them *)

LEMMA ToldAre ==
    ASSUME Tables, NEW i
    PROVE  /\ Told("push", i) \in SUBSET Users /\ Cardinality(Told("push", i)) \in Nat
           /\ Told("telegram", i) \in SUBSET Users /\ Cardinality(Told("telegram", i)) \in Nat
           /\ Written(i) \in SUBSET Users /\ IsFiniteSet(Written(i)) /\ Cardinality(Written(i)) \in Nat
<1>1. Told("push", i) \in SUBSET Users /\ Told("telegram", i) \in SUBSET Users /\ Written(i) \in SUBSET Users
  BY DEF Tables, Told, Written, Letters, FeedRow
<1> QED BY <1>1, UsersFinite

LEMMA IsTold ==
    ASSUME NEW channel, NEW i, NEW u
    PROVE  u \in Told(channel, i) <=> \E l \in sent : l.channel = channel /\ l.about = i /\ l.user = u
BY DEF Told

LEMMA IsWritten ==
    ASSUME NEW i, NEW u
    PROVE  u \in Written(i) <=> \E q \in feed : q.about = i /\ q.user = u
BY DEF Written

LEMMA BroadcastIn ==
    ASSUME Tables, NEW i \in DOMAIN broadcasts
    PROVE  /\ broadcasts[i] \in Broadcast /\ i \in Nat /\ i # AnOrder
           /\ broadcasts[i].stats \in Counters /\ broadcasts[i].recipients \in Nat
<1>1. broadcasts \in Seq(Broadcast)
  BY DEF Tables
<1>2. broadcasts[i] \in Broadcast /\ i \in Nat
  BY <1>1
<1> QED BY <1>2, NamesAssumption DEF Broadcast

\* What every step does to people and rows: rows go with their users, and whoever comes
\* is new, and hidden from the broadcasts that counted on him.
Keeps ==
    /\ Met \subseteq Met' /\ hidden \subseteq hidden'
    /\ \A q \in feed : q.user \in customers' => q \in feed'
    /\ \A u \in customers' : u \in customers \/
          (u \notin Met /\ \A i \in DOMAIN broadcasts : u \in broadcasts[i].created => u \in hidden')

\* What every step does to the broadcasts it is not about.
Untouched(i) ==
    /\ i \in DOMAIN broadcasts'
    /\ broadcasts'[i].created = broadcasts[i].created /\ broadcasts'[i].audience = broadcasts[i].audience
    /\ broadcasts'[i].stats = broadcasts[i].stats /\ broadcasts'[i].recipients = broadcasts[i].recipients
    /\ broadcasts'[i].status = "DONE" => broadcasts[i].status = "DONE"
    /\ \A q \in feed' : q.about = i => q \in feed
    /\ \A l \in sent' : l.about = i => l \in sent
    /\ sent \subseteq sent'

LEMMA UntouchedIs ==
    ASSUME Keeps, NEW i, Untouched(i)
    PROVE  /\ Told("push", i)' = Told("push", i) /\ Told("telegram", i)' = Told("telegram", i)
           /\ \A u : u \in Written(i)' => u \in Written(i)
           /\ \A u \in Written(i) : u \in customers' => u \in Written(i)'
<1>1. ASSUME NEW u
      PROVE  /\ u \in Told("push", i)' <=> u \in Told("push", i)
             /\ u \in Told("telegram", i)' <=> u \in Told("telegram", i)
  BY DEF Told, Untouched
<1>2. Told("push", i)' = Told("push", i)
  <2>1. \A u : u \in Told("push", i)' <=> u \in Told("push", i)
    BY <1>1
  <2> QED BY <2>1
<1>3. Told("telegram", i)' = Told("telegram", i)
  <2>1. \A u : u \in Told("telegram", i)' <=> u \in Told("telegram", i)
    BY <1>1
  <2> QED BY <2>1
<1>4. ASSUME NEW u, u \in Written(i)'
      PROVE  u \in Written(i)
  BY <1>4 DEF Written, Untouched
<1>5. ASSUME NEW u \in Written(i), u \in customers'
      PROVE  u \in Written(i)'
  BY <1>5 DEF Written, Keeps
<1> QED BY <1>2, <1>3, <1>4, <1>5

LEMMA CoveredStays ==
    ASSUME Keeps, NEW i \in DOMAIN broadcasts, Untouched(i), Covered(i)
    PROVE  Covered(i)'
<1> SUFFICES ASSUME NEW u, u \in Recipients(broadcasts[i])', u \notin hidden' PROVE u \in Written(i)'
  BY DEF Covered
<1>1. u \in customers' /\ u \in broadcasts[i].audience /\ u \in broadcasts[i].created
  BY DEF Recipients, Untouched
<1>2. u \in customers /\ u \notin hidden
  BY <1>1 DEF Keeps
<1>3. u \in Recipients(broadcasts[i])
  BY <1>1, <1>2 DEF Recipients
<1>4. u \in Written(i)
  BY <1>2, <1>3 DEF Covered
<1> QED BY <1>1, <1>4, UntouchedIs

LEMMA CountsStay ==
    ASSUME Keeps, NEW i \in DOMAIN broadcasts, Untouched(i), NEW n, NEW among, Counts(n, i, among)
    PROVE  Counts(n, i, among)'
<1>1. PICK W \in SUBSET (Met \cap among \cap broadcasts[i].created \cap broadcasts[i].audience) :
        /\ Cardinality(W) = n
        /\ Written(i) \subseteq W
        /\ W \cap customers \subseteq Written(i)
  BY DEF Counts
<1>2. W \in SUBSET (Met \cap among \cap broadcasts[i].created \cap broadcasts[i].audience)'
  BY <1>1 DEF Keeps, Untouched
<1>3. Written(i)' \subseteq W
  BY <1>1, UntouchedIs
<1>4. ASSUME NEW u \in W, u \in customers'
      PROVE  u \in Written(i)'
  <2>1. u \in customers
    BY <1>1, <1>4 DEF Keeps
  <2> QED BY <1>1, <1>4, <2>1, UntouchedIs
<1> QED BY <1>1, <1>2, <1>3, <1>4 DEF Counts

LEMMA TallyStays ==
    ASSUME Keeps, NEW i, Untouched(i), NEW stats, Tally(stats, i)
    PROVE  Tally(stats, i)'
BY UntouchedIs DEF Tally

LEMMA RecordedStays ==
    ASSUME Keeps, NEW i \in DOMAIN broadcasts, Untouched(i), Recorded(i)
    PROVE  Recorded(i)'
<1>1. Told("push", i)' = Told("push", i) /\ Told("telegram", i)' = Told("telegram", i)
  BY UntouchedIs
<1>2. /\ broadcasts'[i].stats = broadcasts[i].stats /\ broadcasts'[i].recipients = broadcasts[i].recipients
      /\ broadcasts'[i].status = "DONE" => broadcasts[i].status = "DONE"
  BY DEF Untouched
<1>3. ASSUME broadcasts'[i].status = "DONE"
      PROVE  Covered(i)' /\ Counts(broadcasts[i].recipients, i, Users)' /\ Tally(broadcasts[i].stats, i)'
  <2>1. Covered(i) /\ Counts(broadcasts[i].recipients, i, Users) /\ Tally(broadcasts[i].stats, i)
    BY <1>2, <1>3 DEF Recorded
  <2> DEFINE n == broadcasts[i].recipients
             stats == broadcasts[i].stats
  <2>2. Covered(i)'
    BY <2>1, CoveredStays
  <2>3. PICK m, s : m = broadcasts[i].recipients /\ s = broadcasts[i].stats
    OBVIOUS
  <2>4. Counts(m, i, Users)'
    BY <2>1, <2>3, CountsStay
  <2>5. Tally(s, i)'
    BY <2>1, <2>3, TallyStays
  <2> QED BY <1>2, <2>2, <2>3, <2>4, <2>5
<1> QED BY <1>1, <1>2, <1>3 DEF Recorded

LEMMA WritingStays ==
    ASSUME Keeps, NEW stage, NEW r, NEW i, i = r.about, i \in DOMAIN broadcasts, Untouched(i), Writing(stage, r)
    PROVE  Writing(stage, r)'
<1>1. broadcasts[i].stats = NoStats => broadcasts'[i].stats = NoStats
  BY DEF Untouched
<1>2. (\A l \in sent : l.about # i) => (\A l \in sent' : l.about # i)
  BY DEF Untouched
<1>3. \A u \in Recipients(broadcasts[i])' : u \notin hidden' => u \in Recipients(broadcasts[i]) \ hidden
  BY DEF Recipients, Untouched, Keeps
<1>4. \A u \in Recipients(broadcasts[i])' : u \in customers'
  BY DEF Recipients
<1>5. \A u \in Written(i) : u \in customers' => u \in Written(i)'
  BY UntouchedIs
<1>6. stage \in {"page", "draw", "commit", "count"} =>
              /\ \A l \in sent' : l.about # i
              /\ broadcasts'[i].stats = NoStats
  BY <1>1, <1>2 DEF Writing
<1>7. ASSUME stage \in {"page", "draw", "commit"}
      PROVE  Counts(r.count, i, Past(r))'
  <2>1. PICK n, among : n = r.count /\ among = Past(r)
    OBVIOUS
  <2>2. Counts(n, i, among)
    BY <1>7, <2>1 DEF Writing
  <2>3. Counts(n, i, among)'
    BY <2>2, CountsStay
  <2> QED BY <2>1, <2>3
<1>8. ASSUME stage = "page"
      PROVE  ((Recipients(broadcasts[i]) \cap Past(r)) \ hidden \subseteq Written(i))'
  <2>1. (Recipients(broadcasts[i]) \cap Past(r)) \ hidden \subseteq Written(i)
    BY <1>8 DEF Writing
  <2>2. Past(r)' = Past(r)
    BY DEF Past
  <2> QED BY <1>3, <1>4, <1>5, <2>1, <2>2
<1>9. ASSUME stage \in {"draw", "commit"}
      PROVE  (/\ r.page \cap Past(r) = {} /\ r.page \subseteq broadcasts[i].created \cap broadcasts[i].audience
              /\ \A u \in Recipients(broadcasts[i]) \ hidden :
                    (u \in Past(r) \/ Cardinality(r.page) < Batch \/ \E v \in r.page : u <= v)
                        => u \in Written(i) \cup r.page)'
  <2>1. /\ r.page \cap Past(r) = {} /\ r.page \subseteq broadcasts[i].created \cap broadcasts[i].audience
        /\ \A u \in Recipients(broadcasts[i]) \ hidden :
                    (u \in Past(r) \/ Cardinality(r.page) < Batch \/ \E v \in r.page : u <= v)
                        => u \in Written(i) \cup r.page
    BY <1>9 DEF Writing
  <2>2. Past(r)' = Past(r)
    BY DEF Past
  <2>3. broadcasts'[i].created = broadcasts[i].created /\ broadcasts'[i].audience = broadcasts[i].audience
    BY DEF Untouched
  <2> QED BY <1>3, <1>4, <1>5, <2>1, <2>2, <2>3
<1>10. ASSUME stage = "count"
       PROVE  Covered(i)' /\ Counts(r.count, i, Users)'
  <2>1. PICK n : n = r.count
    OBVIOUS
  <2>2. Covered(i) /\ Counts(n, i, Users)
    BY <1>10, <2>1 DEF Writing
  <2>3. Covered(i)' /\ Counts(n, i, Users)'
    BY <2>2, CountsStay, CoveredStays
  <2> QED BY <2>1, <2>3
<1> QED BY <1>6, <1>7, <1>8, <1>9, <1>10 DEF Writing

LEMMA DeliveringStays ==
    ASSUME Keeps, NEW stage, NEW r, NEW i, i = r.about, i \in DOMAIN broadcasts, Untouched(i),
           r.page \subseteq Met, Delivering(stage, r)
    PROVE  Delivering(stage, r)'
<1>1. Told("push", i)' = Told("push", i) /\ Told("telegram", i)' = Told("telegram", i) /\ Past(r)' = Past(r)
  BY UntouchedIs DEF Past
<1>2. broadcasts'[i].stats = broadcasts[i].stats /\ broadcasts'[i].recipients = broadcasts[i].recipients
  BY DEF Untouched
<1>3. ASSUME stage \in {"deliver", "push", "telegram", "stats", "done"}
      PROVE  Covered(i)' /\ Counts(broadcasts[i].recipients, i, Users)'
  <2>1. PICK n : n = broadcasts[i].recipients
    OBVIOUS
  <2>2. Covered(i) /\ Counts(n, i, Users)
    BY <1>3, <2>1 DEF Delivering
  <2>3. Covered(i)' /\ Counts(n, i, Users)'
    BY <2>2, CountsStay, CoveredStays
  <2> QED BY <1>2, <2>1, <2>3
<1>4. ASSUME r.page \cap customers \subseteq Written(i) \cup hidden
      PROVE  (r.page \cap customers \subseteq Written(i) \cup hidden)'
  <2> SUFFICES ASSUME NEW u \in r.page, u \in customers' PROVE u \in Written(i)' \cup hidden'
    OBVIOUS
  <2>1. u \in customers
    BY DEF Keeps
  <2>2. CASE u \in Written(i)
    BY <2>2, UntouchedIs
  <2>3. CASE u \in hidden
    BY <2>3 DEF Keeps
  <2> QED BY <1>4, <2>1, <2>2, <2>3
<1>5. ASSUME NEW s, Tally(s, i)
      PROVE  Tally(s, i)'
  BY <1>5, TallyStays
<1>6. Tally(broadcasts[i].stats, i) => Tally(broadcasts[i].stats, i)'
  <2>1. PICK s : s = broadcasts[i].stats
    OBVIOUS
  <2> QED BY <1>2, <1>5, <2>1
<1>7. Tally(Plus(broadcasts[i].stats, r.stats), i) => Tally(Plus(broadcasts[i].stats, r.stats), i)'
  <2>1. PICK s : s = Plus(broadcasts[i].stats, r.stats)
    OBVIOUS
  <2>2. s = Plus(broadcasts[i].stats, r.stats)'
    BY <1>2, <2>1 DEF Plus
  <2> QED BY <1>5, <2>1, <2>2
<1> QED BY <1>1, <1>3, <1>4, <1>6, <1>7 DEF Delivering

LEMMA StandsStill ==
    ASSUME Keeps, NEW stage, NEW r, r.page \subseteq Met, Stands(stage, r),
           Sending(stage, r) => Untouched(r.about) /\ broadcasts'[r.about].status = broadcasts[r.about].status
    PROVE  Stands(stage, r)'
<1> SUFFICES ASSUME Sending(stage, r)
             PROVE  Stands(stage, r)'
  BY DEF Stands, Sending
<1>1. PICK i : i = r.about
  OBVIOUS
<1>2. /\ i \in DOMAIN broadcasts /\ broadcasts[i].status = "SENDING"
      /\ Writing(stage, r) /\ Delivering(stage, r)
      /\ Untouched(i) /\ broadcasts'[i].status = broadcasts[i].status
  BY <1>1 DEF Stands
<1>3. Writing(stage, r)' /\ Delivering(stage, r)'
  BY <1>1, <1>2, WritingStays, DeliveringStays
<1>4. i \in DOMAIN broadcasts' /\ broadcasts'[i].status = "SENDING"
  BY <1>2 DEF Untouched
<1> QED BY <1>1, <1>3, <1>4 DEF Stands

LEMMA NotifyingStill ==
    ASSUME Keeps, NEW stage, NEW r, r.kind = "order" => r.user \in Met, Notifying(stage, r)
    PROVE  Notifying(stage, r)'
<1>1. ASSUME r.kind = "order", r.user \in customers', r.user \in customers => \E q \in feed : q.user = r.user /\ q.about = AnOrder
      PROVE  \E q \in feed' : q.user = r.user /\ q.about = AnOrder
  BY <1>1 DEF Keeps
<1> QED BY <1>1 DEF Notifying

\* A step of one handler: what is to be shown is that its own broadcast, if it has one,
\* stands as it should.
LEMMA ThreadsMove ==
    ASSUME Shape, Threads, Keeps, NEW h \in Handlers, NEW stage, NEW r, NEW j,
           Moves(h, stage, r), stage \in Stages, r \in Request,
           \A i \in DOMAIN broadcasts : i # j =>
               Untouched(i) /\ broadcasts'[i].status = broadcasts[i].status,
           \A i \in DOMAIN broadcasts' : i # j => i \in DOMAIN broadcasts,
           \A o \in Handlers \ {h} : Sending(pc[o], req[o]) => req[o].about # j,
           Sending(stage, r) => r.about = j,
           Stands(stage, r)', Notifying(stage, r)',
           j \in DOMAIN broadcasts' => Recorded(j)',
           \A q \in feed' : q.about \in DOMAIN broadcasts' \cup {AnOrder},
           \A l \in sent' : l.about \in DOMAIN broadcasts' \cup {AnOrder}
    PROVE  Threads'
<1>0. Hands
  BY DEF Shape
<1>1. /\ pc'[h] = stage /\ req'[h] = r
      /\ \A o \in Handlers \ {h} : pc'[o] = pc[o] /\ req'[o] = req[o]
  BY <1>0, Moved
<1>2. ASSUME NEW o \in Handlers \ {h}
      PROVE  Stands(pc[o], req[o])' /\ Notifying(pc[o], req[o])'
  <2>1. PICK st, q : st = pc[o] /\ q = req[o]
    OBVIOUS
  <2>2. st = pc'[o] /\ q = req'[o]
    BY <1>1, <2>1
  <2>3. Stands(st, q) /\ Notifying(st, q)
    BY <2>1 DEF Threads
  <2>4. q.page \subseteq Met /\ (q.kind = "order" => q.user \in Met)
    BY <1>0, <2>1, UserIsMet
  <2>5. Sending(st, q) => Untouched(q.about) /\ broadcasts'[q.about].status = broadcasts[q.about].status
    <3>1. Sending(st, q) => q.about # j /\ q.about \in DOMAIN broadcasts
      BY <2>1, <2>3 DEF Stands
    <3> QED BY <3>1
  <2>6. Stands(st, q)' /\ Notifying(st, q)'
    BY <2>3, <2>4, <2>5, StandsStill, NotifyingStill
  <2> QED BY <2>2, <2>6
<1>3. Stands(pc[h], req[h])' /\ Notifying(pc[h], req[h])'
  BY <1>1
<1>4. \A k, o \in Handlers :
          Sending(pc'[k], req'[k]) /\ Sending(pc'[o], req'[o]) /\ req'[k].about = req'[o].about => k = o
  BY <1>1 DEF Threads
<1>5. ASSUME NEW i \in DOMAIN broadcasts', i # j
      PROVE  Recorded(i)'
  <2>1. i \in DOMAIN broadcasts /\ Untouched(i) /\ Recorded(i)
    BY <1>5 DEF Threads
  <2> QED BY <2>1, RecordedStays
<1>6. \A o \in Handlers : (Stands(pc[o], req[o]) /\ Notifying(pc[o], req[o]))'
  BY <1>2, <1>3
<1>7. \A k, o \in Handlers :
          (Sending(pc[k], req[k]) /\ Sending(pc[o], req[o]) /\ req[k].about = req[o].about)' => k = o
  BY <1>4 DEF Sending
<1>8. \A i \in DOMAIN broadcasts' : Recorded(i)'
  BY <1>5
<1> QED BY <1>6, <1>7, <1>8 DEF Threads

-----------------------------------------------------------------------------
(* Broadcasts: steps that send and write nothing *)

LEMMA NotSending ==
    ASSUME NEW stage, NEW r, ~Sending(stage, r)
    PROVE  Stands(stage, r) /\ Stands(stage, r)'
BY DEF Stands, Sending

LEMMA NotNotifying ==
    ASSUME NEW stage, NEW r, r.kind # "order"
    PROVE  Notifying(stage, r) /\ Notifying(stage, r)'
BY DEF Notifying

LEMMA QuietUntouched ==
    ASSUME feed' = feed, sent' = sent, broadcasts' = broadcasts, NEW i \in DOMAIN broadcasts
    PROVE  Untouched(i) /\ broadcasts'[i].status = broadcasts[i].status
BY DEF Untouched

LEMMA QuietKeeps ==
    ASSUME customers' = customers, feed' = feed, hidden \subseteq hidden', Met \subseteq Met'
    PROVE  Keeps
BY DEF Keeps

LEMMA Advances ==
    ASSUME Shape, Threads, NEW h \in Handlers, NEW stage, NEW r,
           Moves(h, stage, r), stage \in Stages, r \in Request,
           UNCHANGED <<customers, feed, sent, broadcasts>>, Met \subseteq Met', hidden \subseteq hidden',
           Sending(stage, r) => Sending(pc[h], req[h]) /\ r.about = req[h].about,
           Stands(stage, r)', Notifying(stage, r)'
    PROVE  Threads'
<1> DEFINE j == IF Sending(stage, r) THEN r.about ELSE AnOrder
<1>1. Keeps
  BY QuietKeeps
<1>2. \A i \in DOMAIN broadcasts : Untouched(i) /\ broadcasts'[i].status = broadcasts[i].status
  BY QuietUntouched
<1>3. AnOrder \notin DOMAIN broadcasts
  BY BroadcastIn DEF Shape
<1>4. \A o \in Handlers \ {h} : Sending(pc[o], req[o]) => req[o].about # j
  <2>1. \A o \in Handlers : Sending(pc[o], req[o]) => req[o].about \in DOMAIN broadcasts
    BY DEF Threads, Stands
  <2>2. Sending(stage, r) => \A o \in Handlers \ {h} : Sending(pc[o], req[o]) => req[o].about # r.about
    BY DEF Threads
  <2> QED BY <1>3, <2>1, <2>2
<1>5. ASSUME NEW i \in DOMAIN broadcasts
      PROVE  Recorded(i)'
  BY <1>1, <1>2, RecordedStays DEF Threads
<1>6. /\ \A q \in feed' : q.about \in DOMAIN broadcasts' \cup {AnOrder}
      /\ \A l \in sent' : l.about \in DOMAIN broadcasts' \cup {AnOrder}
  BY DEF Threads
<1>7. PICK i : i = j
  OBVIOUS
<1>8. /\ \A o \in Handlers \ {h} : Sending(pc[o], req[o]) => req[o].about # i
      /\ Sending(stage, r) => r.about = i
      /\ i \in DOMAIN broadcasts' => Recorded(i)'
  <2>1. i \in DOMAIN broadcasts' => Recorded(i)'
    BY <1>5
  <2> QED BY <1>4, <1>7, <2>1
<1> QED BY <1>1, <1>2, <1>6, <1>8, ThreadsMove

\* The same, where hidden stays too.
LEMMA Proceeds ==
    ASSUME Shape, Threads, NEW h \in Handlers, NEW stage, NEW r, Goes(h, stage, r),
           UNCHANGED <<customers, feed, sent, broadcasts, hidden>>, Met \subseteq Met',
           Sending(stage, r) => Sending(pc[h], req[h]) /\ r.about = req[h].about,
           Stands(stage, r), Notifying(stage, r)
    PROVE  Threads'
<1>1. Keeps
  BY QuietKeeps
<1>2. r.page \subseteq Met /\ (r.kind = "order" => r.user \in Met)
  BY DEF Goes, Involved
<1>3. Sending(stage, r) => Untouched(r.about) /\ broadcasts'[r.about].status = broadcasts[r.about].status
  BY QuietUntouched DEF Stands
<1>4. Stands(stage, r)'
  BY <1>1, <1>2, <1>3, StandsStill
<1>5. Notifying(stage, r)'
  BY <1>1, <1>2, NotifyingStill
<1> QED BY <1>4, <1>5, Advances DEF Goes

Telling == ToldOnce /\ NobodyToldWithoutRow

LEMMA SameTelling ==
    ASSUME Telling, UNCHANGED <<feed, sent, twice, customers>>, hidden \subseteq hidden'
    PROVE  Telling'
BY DEF Telling, ToldOnce, NobodyToldWithoutRow

\* Whoever goes wrong has only to say so.
LEMMA Failing ==
    ASSUME Shape, Threads, NEW h \in Handlers, Goes(h, "failed", req[h]), pc[h] # "create",
           UNCHANGED <<customers, feed, sent, broadcasts, hidden>>
    PROVE  Threads'
<1>1. Met \subseteq Met'
  BY GoesOn DEF Shape
<1>2. PICK r : r = req[h]
  OBVIOUS
<1>3. Agrees("failed", r) /\ r \in Request
  BY <1>2 DEF Goes
<1>4. r.kind = "create"
  BY <1>3 DEF Agrees, AtStages, Request, FirstStage
<1>5. Sending(pc[h], req[h]) /\ Stands(pc[h], req[h])
  BY <1>2, <1>4 DEF Sending, Threads
<1>6. Stands("failed", r)
  BY <1>2, <1>5 DEF Stands, Writing, Delivering
<1>7. Notifying("failed", r)
  BY <1>4, NotNotifying
<1> QED BY <1>1, <1>2, <1>5, <1>6, <1>7, Proceeds

\* Whoever is done has no broadcast.
LEMMA Ending ==
    ASSUME Shape, Threads, NEW h \in Handlers, Goes(h, "idle", NoReq),
           UNCHANGED <<customers, feed, sent, broadcasts, hidden>>
    PROVE  Threads'
<1>1. Met \subseteq Met'
  BY GoesOn DEF Shape
<1>2. ~Sending("idle", NoReq) /\ NoReq.kind # "order"
  BY NothingInHand DEF Sending
<1> QED BY <1>1, <1>2, NotSending, NotNotifying, Proceeds

LEMMA AskThreads ==
    ASSUME Shape, Threads, Telling, NEW h \in Handlers, Requested(h), mix' = mix
    PROVE  Threads' /\ Telling'
<1>1. PICK r \in Request :
          /\ WellFormed(r) /\ FirstStage[r.kind] \in Stages
          /\ Moves(h, FirstStage[r.kind], r)
          /\ UNCHANGED <<people, letters, broadcasts, sent, twice, hidden>>
  BY AskIs
<1>2. PICK stage : stage = FirstStage[r.kind]
  OBVIOUS
<1>3. r.kind = "create" => stage = "create"
  BY <1>2 DEF FirstStage
<1>4. r.kind = "order" => stage = "draw"
  BY <1>2 DEF FirstStage
<1>5. ~Sending(stage, r)
  BY <1>3 DEF Sending
<1>6. Stands(stage, r)'
  BY <1>5, NotSending
<1>7. Notifying(stage, r)'
  BY <1>4 DEF Notifying
<1>8. Met \subseteq Met'
  BY AskShape
<1>9. UNCHANGED <<customers, feed, sent, broadcasts, hidden>>
  BY <1>1 DEF people, letters
<1>10. Threads'
  BY <1>1, <1>2, <1>5, <1>6, <1>7, <1>8, <1>9, Advances
<1>11. Telling'
  BY <1>1, <1>9, SameTelling
<1> QED BY <1>10, <1>11

LEMMA ReadingThreads ==
    ASSUME Shape, Threads, Telling, NEW h \in Handlers, Clear(h) \/ ReadTokens(h) \/ Upsert(h)
    PROVE  Threads' /\ Telling'
<1>0. Hands /\ Tables
  BY DEF Shape
<1>1. UNCHANGED <<customers, feed, sent, broadcasts, hidden, twice>> /\ known' = known
  BY DEF Clear, ReadTokens, Upsert, people, letters, history
<1>2. CASE Clear(h)
  <2>1. PICK r : /\ r = [req[h] EXCEPT !.stale = OthersOf(req[h].token, req[h].device)]
                 /\ Goes(h, "upsert", r) /\ req[h] \in Request /\ req[h].kind = "register"
    BY <1>0, <1>2, ClearIs
  <2>2. r.kind = "register"
    BY <2>1 DEF Goes, NoReq
  <2>3. ~Sending("upsert", r) /\ r.kind # "order"
    BY <2>2 DEF Sending
  <2>4. Met \subseteq Met'
    BY <1>0, <2>1, GoesOn
  <2> QED BY <1>1, <2>1, <2>3, <2>4, NotSending, NotNotifying, Proceeds, SameTelling
<1>3. CASE ReadTokens(h)
  <2>1. PICK r : /\ r = [req[h] EXCEPT !.todo = Messages({req[h].user})]
                 /\ Goes(h, "push", r) /\ req[h] \in Request /\ req[h].kind = "order" /\ pc[h] = "tokens"
                 /\ UsersOf(Messages({req[h].user})) \subseteq {req[h].user}
    BY <1>0, <1>3, ReadTokensIs
  <2>2. r.kind = "order" /\ r.user = req[h].user /\ r.todo = Messages({req[h].user})
    BY <2>1 DEF Request
  <2>3. ~Sending("push", r)
    BY <2>2 DEF Sending
  <2>4. Notifying("tokens", req[h])
    BY <2>1 DEF Threads
  <2>5. Notifying("push", r)
    BY <2>1, <2>2, <2>4 DEF Notifying
  <2>6. Met \subseteq Met'
    BY <1>0, <2>1, GoesOn
  <2> QED BY <1>1, <2>1, <2>3, <2>5, <2>6, NotSending, Proceeds, SameTelling
<1>4. CASE Upsert(h)
  <2>1. Goes(h, "idle", NoReq)
    BY <1>1, <1>4, DoneGoes DEF Upsert
  <2> QED BY <1>1, <2>1, Ending, SameTelling
<1> QED BY <1>2, <1>3, <1>4

LEMMA DrawThreads ==
    ASSUME Shape, Threads, Telling, NEW h \in Handlers, Draw(h)
    PROVE  Threads' /\ Telling'
<1>0. Hands /\ Tables
  BY DEF Shape
<1>1. PICK r : /\ r = [req[h] EXCEPT !.page = Drawn(h), !.seqs = drawn]
               /\ Goes(h, "commit", r) /\ req[h] \in Request /\ req[h].kind \in {"order", "create"} /\ pc[h] = "draw"
               /\ UNCHANGED <<people, feed, broadcasts, history>>
  BY <1>0, DrawIs
<1>2. /\ r.kind = req[h].kind /\ r.user = req[h].user /\ r.page = Drawn(h) /\ r.about = req[h].about
      /\ r.after = req[h].after /\ r.count = req[h].count /\ r.todo = req[h].todo
  BY <1>1 DEF Request
<1>3. UNCHANGED <<customers, feed, sent, broadcasts, hidden, twice>> /\ Met \subseteq Met'
  BY <1>0, <1>1, GoesOn DEF people, history
<1>4. CASE req[h].kind = "order"
  <2>1. ~Sending("commit", r)
    BY <1>2, <1>4 DEF Sending
  <2>2. Notifying("commit", r)
    BY <1>2, <1>4 DEF Notifying, Drawn
  <2> QED BY <1>1, <1>3, <2>1, <2>2, NotSending, Proceeds, SameTelling
<1>5. CASE req[h].kind = "create"
  <2>1. r.page = req[h].page /\ r.kind # "order" /\ Past(r) = Past(req[h])
    BY <1>2, <1>5 DEF Drawn, Past
  <2>2. Sending("draw", req[h]) /\ Sending("commit", r) /\ Stands("draw", req[h])
    BY <1>1, <1>2, <1>5 DEF Sending, Threads
  <2>3. /\ Writing("draw", req[h])
        /\ r.about \in DOMAIN broadcasts /\ broadcasts[r.about].status = "SENDING"
    BY <1>2, <2>2 DEF Stands
  <2>4. Writing("commit", r)
    BY <1>2, <2>1, <2>3 DEF Writing
  <2>5. Stands("commit", r)
    BY <2>3, <2>4 DEF Stands, Delivering
  <2> QED BY <1>1, <1>2, <1>3, <2>1, <2>2, <2>5, NotNotifying, Proceeds, SameTelling
<1> QED BY <1>1, <1>4, <1>5

-----------------------------------------------------------------------------
(* Broadcasts: pages are read, and what is known is written down *)

\* What it means that a handler sends i.
LEMMA SendsIt ==
    ASSUME Threads, NEW h \in Handlers, req[h].kind = "create", pc[h] # "create"
    PROVE  /\ Sending(pc[h], req[h])
           /\ req[h].about \in DOMAIN broadcasts
           /\ broadcasts[req[h].about].status = "SENDING"
           /\ Writing(pc[h], req[h]) /\ Delivering(pc[h], req[h])
           /\ Recorded(req[h].about)
BY DEF Threads, Stands, Sending

LEMMA AfterPast ==
    ASSUME NEW r, r.after \in Users \cup {None}, NEW P \in SUBSET Users, NEW where, PageOf(P, where, r.after)
    PROVE  P \cap Past(r) = {}
<1> SUFFICES ASSUME NEW u \in P, u \in Past(r) PROVE FALSE
  OBVIOUS
<1>1. r.after # None /\ u <= r.after /\ u \in Users
  BY DEF Past
<1>2. u > r.after
  BY <1>1 DEF PageOf
<1>3. u \in Nat /\ r.after \in Nat
  BY <1>1, NamesAssumption
<1> QED BY <1>1, <1>2, <1>3

LEMMA ReadPageThreads ==
    ASSUME Shape, Threads, Telling, NEW h \in Handlers, ReadPage(h)
    PROVE  Threads' /\ Telling'
<1>0. Hands /\ Tables
  BY DEF Shape
<1>1. /\ pc[h] = "page" /\ req[h] \in Request /\ req[h].kind = "create"
      /\ UNCHANGED <<customers, feed, sent, broadcasts, twice>> /\ known' = known
  BY ReadPageIs DEF people, letters
<1>2. CASE Goes(h, "failed", req[h]) /\ hidden' = hidden
  BY <1>1, <1>2, Failing, SameTelling
<1>3. ASSUME hidden' = hidden \cup PassedOver(Recipients(broadcasts[req[h].about]), req[h].after),
             Goes(h, IF NextPage(h) = {} THEN "count" ELSE "draw", [req[h] EXCEPT !.page = NextPage(h)])
      PROVE  Threads' /\ Telling'
  <2>1. PICK stage, r, i, where :
          /\ r = [req[h] EXCEPT !.page = NextPage(h)] /\ i = req[h].about
          /\ stage = IF NextPage(h) = {} THEN "count" ELSE "draw"
          /\ where = Recipients(broadcasts[i])
    OBVIOUS
  <2>2. /\ r.page = NextPage(h) /\ r.about = i /\ r.after = req[h].after /\ r.count = req[h].count
        /\ r.kind = "create"
    BY <1>1, <2>1 DEF Request
  <2>3. PageOf(r.page, where, r.after) /\ r.page \in SUBSET Users /\ where \in SUBSET Users
        /\ r.after \in Users \cup {None}
    BY <2>1, <2>2, NextPageFacts
  <2>4. Goes(h, stage, r) /\ hidden' = hidden \cup PassedOver(where, r.after) /\ Met \subseteq Met'
    BY <1>0, <1>3, <2>1, <2>2, GoesOn
  <2>5. /\ Sending(pc[h], req[h]) /\ i \in DOMAIN broadcasts /\ broadcasts[i].status = "SENDING"
        /\ Writing("page", req[h])
    BY <1>1, <2>1, SendsIt
  <2>6. /\ \A l \in sent : l.about # i
        /\ broadcasts[i].stats = NoStats
        /\ Counts(r.count, i, Past(r))
        /\ (where \cap Past(r)) \ hidden \subseteq Written(i)
    BY <2>1, <2>2, <2>5 DEF Writing, Past
  <2>7. ASSUME NEW u \in where, u \notin hidden',
               u \in Past(r) \/ Cardinality(r.page) < Batch \/ \E v \in r.page : u <= v
        PROVE  u \in Written(i) \cup r.page
    <3>1. CASE u \in Past(r)
      BY <2>4, <2>6, <2>7, <3>1
    <3>2. CASE u \notin Past(r)
      <4>1. r.after # None => u > r.after
        BY <2>3, <3>2, NamesAssumption DEF Past
      <4>2. u \notin PassedOver(where, r.after)
        BY <2>4, <2>7
      <4>3. Cardinality(r.page) < Batch \/ \E v \in r.page : u <= v
        BY <2>7, <3>2
      <4> QED BY <2>3, <4>1, <4>2, <4>3 DEF PageOf
    <3> QED BY <3>1, <3>2
  <2>8. where' = where /\ Recipients(broadcasts[i])' = where /\ Written(i)' = Written(i) /\ Past(r)' = Past(r)
    BY <1>1, <2>1 DEF Recipients, Written, Past
  <2>9. Counts(r.count, i, Past(r))' /\ (Past(r) \subseteq Users => Counts(r.count, i, Users)')
    BY <1>1, <2>4, <2>6, <2>8 DEF Counts
  <2>10. Past(r) \subseteq Users
    BY DEF Past
  <2>11. CASE r.page = {}
    <3>1. stage = "count"
      BY <2>1, <2>2, <2>11
    <3>2. Cardinality(r.page) < Batch
      BY <2>11, FS_EmptySet, NamesAssumption
    <3>3. Covered(i)'
      BY <2>7, <2>8, <2>11, <3>2 DEF Covered
    <3>4. Stands("count", r)'
      BY <1>1, <2>2, <2>5, <2>6, <2>9, <2>10, <3>3 DEF Stands, Writing, Delivering
    <3> QED BY <1>1, <2>2, <2>4, <2>5, <3>1, <3>4, Advances, NotNotifying, SameTelling, <2>1 DEF Goes, Sending
  <2>12. CASE r.page # {}
    <3>1. stage = "draw"
      BY <2>1, <2>2, <2>12
    <3>2. r.page \cap Past(r) = {}
      BY <2>3, AfterPast
    <3>3. r.page \subseteq broadcasts[i].created \cap broadcasts[i].audience
      BY <2>1, <2>3 DEF PageOf, Recipients
    <3>4. Writing("draw", r)'
      BY <1>1, <2>2, <2>6, <2>7, <2>8, <2>9, <3>2, <3>3 DEF Writing
    <3>5. Stands("draw", r)'
      BY <1>1, <2>2, <2>5, <3>4 DEF Stands, Delivering
    <3> QED BY <1>1, <2>2, <2>4, <2>5, <3>1, <3>5, Advances, NotNotifying, SameTelling, <2>1 DEF Goes, Sending
  <2> QED BY <2>11, <2>12
<1> QED BY <1>2, <1>3, ReadPageIs

LEMMA PlusNothing ==
    ASSUME NEW a \in Counters
    PROVE  Plus(a, NoStats) = a
BY DEF Plus, NoStats, Counters

LEMMA DeliverPageThreads ==
    ASSUME Shape, Threads, Telling, NEW h \in Handlers, DeliverPage(h)
    PROVE  Threads' /\ Telling'
<1>0. Hands /\ Tables
  BY DEF Shape
<1>1. /\ pc[h] = "deliver" /\ req[h] \in Request /\ req[h].kind = "create"
      /\ UNCHANGED <<customers, feed, sent, broadcasts, twice, hidden>> /\ known' = known
  BY DeliverPageIs DEF people, letters, history
<1>2. CASE Goes(h, "failed", req[h])
  BY <1>1, <1>2, Failing, SameTelling
<1>3. ASSUME Goes(h, IF NextPage(h) = {} THEN "done" ELSE "push", ForDelivery(h))
      PROVE  Threads' /\ Telling'
  <2>1. PICK stage, r, i, where :
          /\ r = ForDelivery(h) /\ i = req[h].about
          /\ stage = IF NextPage(h) = {} THEN "done" ELSE "push"
          /\ where = Recipients(broadcasts[i])
    OBVIOUS
  <2>2. /\ r.page = NextPage(h) /\ r.about = i /\ r.after = req[h].after /\ r.stats = NoStats
        /\ r.left \subseteq r.page /\ UsersOf(r.todo) \subseteq r.page
        /\ r.kind = "create"
    BY <1>1, <2>1, ForDeliveryIs
  <2>3. PageOf(r.page, where, r.after) /\ r.page \in SUBSET Users /\ where \in SUBSET Users
        /\ r.after \in Users \cup {None}
    BY <2>1, <2>2, NextPageFacts
  <2>4. Goes(h, stage, r) /\ Met \subseteq Met'
    BY <1>0, <1>3, <2>1, GoesOn
  <2>5. /\ Sending(pc[h], req[h]) /\ i \in DOMAIN broadcasts /\ broadcasts[i].status = "SENDING"
        /\ Delivering("deliver", req[h])
    BY <1>1, <2>1, SendsIt
  <2>6. /\ Covered(i) /\ Counts(broadcasts[i].recipients, i, Users) /\ Tally(broadcasts[i].stats, i)
        /\ Told("push", i) \cup Told("telegram", i) \subseteq Past(r)
    BY <2>1, <2>2, <2>5 DEF Delivering, Past
  <2>7. r.page \cap Past(r) = {}
    BY <2>3, AfterPast
  <2>8. r.page \cap customers \subseteq Written(i) \cup hidden
    BY <2>1, <2>3, <2>6 DEF PageOf, Covered
  <2>9. Tally(Plus(broadcasts[i].stats, r.stats), i)
    <3>1. broadcasts[i].stats \in Counters
      BY <1>0, <2>5, BroadcastIn
    <3> QED BY <2>2, <2>6, <3>1, PlusNothing
  <2>10. Writing(stage, r) /\ Delivering(stage, r)
    BY <2>1, <2>2, <2>6, <2>7, <2>8, <2>9 DEF Writing, Delivering
  <2>11. Stands(stage, r)
    BY <2>2, <2>5, <2>10 DEF Stands
  <2>12. Notifying(stage, r)
    BY <2>2, NotNotifying
  <2> QED BY <1>1, <2>1, <2>2, <2>4, <2>5, <2>11, <2>12, Proceeds, SameTelling
<1> QED BY <1>2, <1>3, DeliverPageIs

LEMMA BroadcastSet ==
    ASSUME Tables, NEW i \in DOMAIN broadcasts, NEW e, broadcasts' = [broadcasts EXCEPT ![i] = e]
    PROVE  /\ DOMAIN broadcasts' = DOMAIN broadcasts /\ broadcasts'[i] = e
           /\ \A k \in DOMAIN broadcasts : k # i => broadcasts'[k] = broadcasts[k]
<1>1. broadcasts \in Seq(Broadcast)
  BY DEF Tables
<1> QED BY <1>1

\* What does not depend on what is written down.
LEMMA Rewritten ==
    ASSUME UNCHANGED <<customers, feed, sent, hidden>>, Met \subseteq Met', NEW i,
           broadcasts'[i].created = broadcasts[i].created, broadcasts'[i].audience = broadcasts[i].audience
    PROVE  /\ Told("push", i)' = Told("push", i) /\ Told("telegram", i)' = Told("telegram", i)
           /\ Covered(i) => Covered(i)'
<1>1. Told("push", i)' = Told("push", i) /\ Told("telegram", i)' = Told("telegram", i) /\ Written(i)' = Written(i)
  BY DEF Told, Written
<1>2. Recipients(broadcasts[i])' = Recipients(broadcasts[i])
  BY DEF Recipients
<1> QED BY <1>1, <1>2 DEF Covered

LEMMA RewrittenCounts ==
    ASSUME UNCHANGED <<customers, feed>>, Met \subseteq Met', NEW i,
           broadcasts'[i].created = broadcasts[i].created, broadcasts'[i].audience = broadcasts[i].audience,
           NEW n, NEW among, Counts(n, i, among)
    PROVE  Counts(n, i, among)'
<1>1. Written(i)' = Written(i)
  BY DEF Written
<1> QED BY <1>1 DEF Counts

LEMMA Records ==
    ASSUME Shape, Threads, NEW h \in Handlers, Sending(pc[h], req[h]),
           NEW stage, NEW r, Goes(h, stage, r), NEW i, i = req[h].about, Sending(stage, r) => r.about = i,
           NEW e, broadcasts' = [broadcasts EXCEPT ![i] = e],
           UNCHANGED <<customers, feed, sent, hidden>>,
           Stands(stage, r)', Notifying(stage, r)', Recorded(i)'
    PROVE  Threads'
<1>0. Hands /\ Tables
  BY DEF Shape
<1>1. Met \subseteq Met'
  BY <1>0, GoesOn
<1>2. Keeps
  BY <1>1, QuietKeeps
<1>3. i \in DOMAIN broadcasts
  BY DEF Threads, Stands
<1>4. /\ DOMAIN broadcasts' = DOMAIN broadcasts
      /\ \A k \in DOMAIN broadcasts : k # i => broadcasts'[k] = broadcasts[k]
  BY <1>0, <1>3, BroadcastSet
<1>5. \A k \in DOMAIN broadcasts : k # i => Untouched(k) /\ broadcasts'[k].status = broadcasts[k].status
  BY <1>4 DEF Untouched
<1>6. \A o \in Handlers \ {h} : Sending(pc[o], req[o]) => req[o].about # i
  BY DEF Threads
<1>7. /\ \A q \in feed' : q.about \in DOMAIN broadcasts' \cup {AnOrder}
      /\ \A l \in sent' : l.about \in DOMAIN broadcasts' \cup {AnOrder}
  BY <1>4 DEF Threads
<1>8. Moves(h, stage, r) /\ stage \in Stages /\ r \in Request
  BY DEF Goes
<1>9. \A k \in DOMAIN broadcasts' : k # i => k \in DOMAIN broadcasts
  BY <1>4
<1> QED BY <1>2, <1>5, <1>6, <1>7, <1>8, <1>9, ThreadsMove

LEMMA TallyNothing ==
    ASSUME Tables, NEW i, \A l \in sent : l.about # i
    PROVE  Tally(NoStats, i) /\ Told("push", i) = {} /\ Told("telegram", i) = {}
<1>1. Told("push", i) = {} /\ Told("telegram", i) = {}
  BY DEF Told
<1> QED BY <1>1, FS_EmptySet DEF Tally, NoStats

LEMMA WriteCountThreads ==
    ASSUME Shape, Threads, Telling, NEW h \in Handlers, WriteCount(h)
    PROVE  Threads' /\ Telling'
<1>0. Hands /\ Tables
  BY DEF Shape
<1>1. /\ pc[h] = "count" /\ req[h] \in Request /\ req[h].kind = "create"
      /\ UNCHANGED <<customers, feed, sent, twice, hidden>> /\ known' = known
  BY WriteCountIs DEF people, letters, history
<1>2. CASE Goes(h, "failed", req[h]) /\ broadcasts' = broadcasts
  BY <1>1, <1>2, Failing, SameTelling
<1>3. ASSUME broadcasts' = [broadcasts EXCEPT ![req[h].about].recipients = req[h].count],
             Goes(h, "deliver", [req[h] EXCEPT !.after = None, !.page = {}])
      PROVE  Threads' /\ Telling'
  <2>1. PICK r, i, e :
          /\ r = [req[h] EXCEPT !.after = None, !.page = {}] /\ i = req[h].about
          /\ e = [broadcasts[i] EXCEPT !.recipients = req[h].count]
    OBVIOUS
  <2>2. r.about = i /\ r.kind = "create" /\ r.count = req[h].count
    BY <1>1, <2>1 DEF Request
  <2>3. Goes(h, "deliver", r) /\ Met \subseteq Met' /\ broadcasts' = [broadcasts EXCEPT ![i] = e]
    BY <1>0, <1>3, <2>1, GoesOn
  <2>4. /\ Sending(pc[h], req[h]) /\ i \in DOMAIN broadcasts /\ broadcasts[i].status = "SENDING"
        /\ Writing("count", req[h])
    BY <1>1, <2>1, SendsIt
  <2>5. /\ \A l \in sent : l.about # i
        /\ broadcasts[i].stats = NoStats
        /\ Covered(i) /\ Counts(r.count, i, Users)
    BY <2>1, <2>2, <2>4 DEF Writing
  <2>6. /\ DOMAIN broadcasts' = DOMAIN broadcasts /\ broadcasts'[i] = e
    BY <1>0, <2>3, <2>4, BroadcastSet
  <2>7. broadcasts[i] \in Broadcast
    BY <1>0, <2>4, BroadcastIn
  <2>8. /\ e.created = broadcasts[i].created /\ e.audience = broadcasts[i].audience
        /\ e.stats = NoStats /\ e.recipients = r.count /\ e.status = "SENDING"
    BY <2>1, <2>2, <2>4, <2>5, <2>7 DEF Broadcast
  <2>9. /\ Told("push", i)' = Told("push", i) /\ Told("telegram", i)' = Told("telegram", i) /\ Covered(i)'
        /\ Counts(r.count, i, Users)'
    BY <1>1, <2>3, <2>5, <2>6, <2>8, Rewritten, RewrittenCounts
  <2>10. Tally(NoStats, i) /\ Told("push", i) = {} /\ Told("telegram", i) = {}
    BY <1>0, <2>5, TallyNothing
  <2>11. Stands("deliver", r)'
    BY <2>2, <2>4, <2>6, <2>8, <2>9, <2>10 DEF Stands, Writing, Delivering, Tally, NoStats
  <2>12. Recorded(i)'
    BY <2>6, <2>8, <2>9, <2>10 DEF Recorded, Tally
  <2>13. Notifying("deliver", r)'
    BY <2>2, NotNotifying
  <2> QED BY <1>1, <2>1, <2>2, <2>3, <2>4, <2>11, <2>12, <2>13, Records, SameTelling
<1> QED BY <1>2, <1>3, WriteCountIs

LEMMA PastGrows ==
    ASSUME NEW r, r.after \in Users \cup {None}, r.page \in SUBSET Users, r.page \cap Past(r) = {},
           NEW last, last \in r.page, \A u \in r.page : u <= last,
           NEW q, q.after = last
    PROVE  Past(r) \subseteq Past(q) /\ r.page \subseteq Past(q)
<1>0. last \in Nat /\ Users \subseteq Nat /\ last # None /\ last \in Users
  BY NamesAssumption
<1>1. \A u \in r.page : u \in Past(q)
  BY <1>0 DEF Past
<1>2. ASSUME NEW u \in Past(r)
      PROVE  u \in Past(q)
  <2>1. u \in Nat /\ u <= r.after /\ r.after \in Nat /\ u \in Users
    BY <1>0 DEF Past
  <2>2. ~(last <= r.after)
    BY <1>0, <2>1 DEF Past
  <2>3. u <= last
    BY <1>0, <2>1, <2>2
  <2> QED BY <1>0, <2>1, <2>3 DEF Past
<1> QED BY <1>1, <1>2

LEMMA WriteStatsThreads ==
    ASSUME Shape, Threads, Telling, NEW h \in Handlers, WriteStats(h)
    PROVE  Threads' /\ Telling'
<1>0. Hands /\ Tables
  BY DEF Shape
<1>1. /\ pc[h] = "stats" /\ req[h] \in Request /\ req[h].kind = "create"
      /\ Max(req[h].page) \in req[h].page /\ \A u \in req[h].page : u <= Max(req[h].page)
      /\ UNCHANGED <<customers, feed, sent, twice, hidden>> /\ known' = known
  BY WriteStatsIs DEF people, letters, history
<1>2. CASE Goes(h, "failed", req[h]) /\ broadcasts' = broadcasts
  BY <1>1, <1>2, Failing, SameTelling
<1>3. ASSUME broadcasts' = [broadcasts EXCEPT ![req[h].about].stats = Plus(@, req[h].stats)],
             Goes(h, IF LastPage(req[h]) THEN "done" ELSE "deliver", [req[h] EXCEPT !.after = Max(req[h].page)])
      PROVE  Threads' /\ Telling'
  <2>1. PICK stage, r, i, e, old, last :
          /\ old = req[h] /\ last = Max(old.page)
          /\ r = [old EXCEPT !.after = last] /\ i = old.about
          /\ e = [broadcasts[i] EXCEPT !.stats = Plus(broadcasts[i].stats, old.stats)]
          /\ stage = IF LastPage(old) THEN "done" ELSE "deliver"
    OBVIOUS
  <2>2. r.about = i /\ r.kind = "create" /\ r.after = last /\ old \in Request
    BY <1>1, <2>1 DEF Request
  <2>3. Goes(h, stage, r) /\ Met \subseteq Met' /\ broadcasts' = [broadcasts EXCEPT ![i] = e]
    BY <1>0, <1>3, <2>1, GoesOn
  <2>4. /\ Sending(pc[h], req[h]) /\ i \in DOMAIN broadcasts /\ broadcasts[i].status = "SENDING"
        /\ Delivering("stats", old)
    BY <1>1, <2>1, SendsIt
  <2>5. /\ Covered(i) /\ Counts(broadcasts[i].recipients, i, Users)
        /\ old.page \cap Past(old) = {} /\ old.left = {}
        /\ Tally(Plus(broadcasts[i].stats, old.stats), i)
        /\ Told("push", i) \subseteq Past(old) \cup old.page
        /\ Told("telegram", i) \subseteq Past(old) \cup (old.page \ old.left)
    BY <2>1, <2>4 DEF Delivering
  <2>6. /\ DOMAIN broadcasts' = DOMAIN broadcasts /\ broadcasts'[i] = e
    BY <1>0, <2>3, <2>4, BroadcastSet
  <2>7. broadcasts[i] \in Broadcast
    BY <1>0, <2>4, BroadcastIn
  <2>8. /\ e.created = broadcasts[i].created /\ e.audience = broadcasts[i].audience
        /\ e.recipients = broadcasts[i].recipients /\ e.status = "SENDING"
        /\ e.stats = Plus(broadcasts[i].stats, old.stats)
    BY <2>1, <2>4, <2>7 DEF Broadcast
  <2>9. PICK n, s : n = broadcasts[i].recipients /\ s = e.stats
    OBVIOUS
  <2>10. /\ Told("push", i)' = Told("push", i) /\ Told("telegram", i)' = Told("telegram", i) /\ Covered(i)'
         /\ Counts(n, i, Users)'
    BY <1>1, <2>3, <2>5, <2>6, <2>8, <2>9, Rewritten, RewrittenCounts
  <2>11. Tally(s, i)'
    BY <2>5, <2>8, <2>9, <2>10 DEF Tally
  <2>12. Past(old) \subseteq Past(r) /\ old.page \subseteq Past(r)
    BY <1>1, <2>1, <2>2, <2>5, PastGrows DEF Request
  <2>13. (Told("push", i) \cup Told("telegram", i) \subseteq Past(r))'
    <3>1. Past(r)' = Past(r)
      BY DEF Past
    <3> QED BY <2>5, <2>10, <2>12, <3>1
  <2>14. Delivering(stage, r)'
    BY <2>1, <2>2, <2>6, <2>8, <2>9, <2>10, <2>11, <2>13 DEF Delivering
  <2>15. Stands(stage, r)'
    BY <2>1, <2>2, <2>4, <2>6, <2>8, <2>14 DEF Stands, Writing
  <2>16. Recorded(i)'
    BY <2>6, <2>8, <2>9, <2>11 DEF Recorded, Tally
  <2>17. Notifying(stage, r)'
    BY <2>2, NotNotifying
  <2> QED BY <1>1, <2>1, <2>2, <2>3, <2>4, <2>15, <2>16, <2>17, Records, SameTelling
<1> QED BY <1>2, <1>3, WriteStatsIs

LEMMA FinishThreads ==
    ASSUME Shape, Threads, Telling, NEW h \in Handlers, Finish(h)
    PROVE  Threads' /\ Telling'
<1>0. Hands /\ Tables
  BY DEF Shape
<1>1. /\ pc[h] \in {"done", "failed"} /\ req[h] \in Request /\ req[h].kind = "create"
      /\ UNCHANGED <<customers, feed, sent, twice, hidden>> /\ known' = known
  BY FinishIs DEF people, letters
<1>2. CASE /\ broadcasts' = broadcasts
           /\ Goes(h, "failed", req[h]) \/ Goes(h, "idle", NoReq)
  BY <1>1, <1>2, Failing, Ending, SameTelling
<1>3. ASSUME broadcasts' = [broadcasts EXCEPT ![req[h].about].status = IF pc[h] = "done" THEN "DONE" ELSE "FAILED"],
             Goes(h, "idle", NoReq)
      PROVE  Threads' /\ Telling'
  <2>0. PICK i, stage, word :
          i = req[h].about /\ stage = pc[h] /\ word = IF stage = "done" THEN "DONE" ELSE "FAILED"
    OBVIOUS
  <2>1. PICK e : /\ i = req[h].about /\ stage = pc[h]
                 /\ word = IF stage = "done" THEN "DONE" ELSE "FAILED"
                 /\ e = [broadcasts[i] EXCEPT !.status = word]
    BY <2>0
  <2>2. Goes(h, "idle", NoReq) /\ Met \subseteq Met' /\ broadcasts' = [broadcasts EXCEPT ![i] = e]
    BY <1>0, <1>3, <2>1, GoesOn
  <2>3. /\ Sending(pc[h], req[h]) /\ i \in DOMAIN broadcasts
        /\ Delivering(stage, req[h]) /\ Recorded(i)
    BY <1>1, <2>1, SendsIt
  <2>4. /\ DOMAIN broadcasts' = DOMAIN broadcasts /\ broadcasts'[i] = e
    BY <1>0, <2>2, <2>3, BroadcastSet
  <2>5. broadcasts[i] \in Broadcast
    BY <1>0, <2>3, BroadcastIn
  <2>6. /\ e.created = broadcasts[i].created /\ e.audience = broadcasts[i].audience
        /\ e.recipients = broadcasts[i].recipients /\ e.stats = broadcasts[i].stats
        /\ e.status = "DONE" => stage = "done"
    BY <2>1, <2>5 DEF Broadcast
  <2>7. PICK n, s : n = broadcasts[i].recipients /\ s = broadcasts[i].stats
    OBVIOUS
  <2>8. /\ Told("push", i)' = Told("push", i) /\ Told("telegram", i)' = Told("telegram", i)
        /\ Covered(i) => Covered(i)'
    BY <1>1, <2>2, <2>4, <2>6, Rewritten
  <2>9. Counts(n, i, Users) => Counts(n, i, Users)'
    BY <1>1, <2>2, <2>4, <2>6, RewrittenCounts
  <2>10. Tally(s, i) => Tally(s, i)'
    BY <2>8 DEF Tally
  <2>11. stage = "done" => Covered(i) /\ Counts(n, i, Users) /\ Tally(s, i)
    BY <2>1, <2>3, <2>7 DEF Delivering
  <2>12. Recorded(i)'
    BY <2>3, <2>4, <2>6, <2>7, <2>8, <2>9, <2>10, <2>11 DEF Recorded
  <2>13. ~Sending("idle", NoReq) /\ NoReq.kind # "order"
    BY NothingInHand DEF Sending
  <2>14. PICK q : q = NoReq
    OBVIOUS
  <2>15. Stands("idle", q)' /\ Notifying("idle", q)' /\ ~Sending("idle", q)
    BY <2>13, <2>14, NotSending, NotNotifying
  <2> QED BY <1>1, <2>1, <2>2, <2>3, <2>12, <2>14, <2>15, Records, SameTelling
<1> QED BY <1>2, <1>3, FinishIs

LEMMA CreateRowThreads ==
    ASSUME Shape, Threads, Telling, NEW h \in Handlers, CreateRow(h)
    PROVE  Threads' /\ Telling'
<1>0. Hands /\ Tables /\ broadcasts \in Seq(Broadcast)
  BY DEF Shape, Tables
<1>1. /\ pc[h] = "create" /\ req[h] \in Request /\ req[h].kind = "create"
      /\ req[h].after = None /\ req[h].count = 0
      /\ UNCHANGED <<customers, feed, sent, twice, hidden>> /\ known' = known
  BY <1>0, CreateRowIs DEF people, letters, history
<1>2. CASE broadcasts' = broadcasts /\ Goes(h, "idle", NoReq)
  BY <1>1, <1>2, Ending, SameTelling
<1>3. ASSUME NEW b \in Broadcast, broadcasts' = Append(broadcasts, b), b.status = "SENDING", b.stats = NoStats,
             Goes(h, "page", [req[h] EXCEPT !.about = Len(broadcasts) + 1])
      PROVE  Threads' /\ Telling'
  <2>1. PICK r, i : i = Len(broadcasts) + 1 /\ r = [req[h] EXCEPT !.about = i]
    OBVIOUS
  <2>2. r.about = i /\ r.kind = "create" /\ r.after = None /\ r.count = 0
    BY <1>1, <2>1 DEF Request
  <2>3. Goes(h, "page", r) /\ Met \subseteq Met'
    BY <1>0, <1>3, <2>1, GoesOn
  <2>4. /\ DOMAIN broadcasts' = DOMAIN broadcasts \cup {i} /\ i \notin DOMAIN broadcasts /\ i \in Nat
        /\ \A k \in DOMAIN broadcasts : broadcasts'[k] = broadcasts[k]
        /\ broadcasts'[i] = b
    BY <1>0, <1>3, <2>1, AppendTyped
  <2>5. i # AnOrder
    BY <2>4, NamesAssumption
  <2>6. (\A l \in sent' : l.about # i) /\ (\A q \in feed' : q.about # i)
    BY <1>1, <2>4, <2>5 DEF Threads
  <2>7. Written(i)' = {} /\ Past(r) = {}
    BY <2>2, <2>6 DEF Written, Past
  <2>8. Tally(NoStats, i)'
    <3>1. Told("push", i)' = {} /\ Told("telegram", i)' = {}
      BY <2>6 DEF Told
    <3> QED BY <3>1, FS_EmptySet DEF Tally, NoStats
  <2>9. Counts(0, i, {})'
    BY <2>7, FS_EmptySet DEF Counts
  <2>10. Counts(r.count, i, Past(r))'
    <3>1. Past(r)' = {}
      BY <2>2 DEF Past
    <3> QED BY <2>2, <2>9, <3>1
  <2>11. Writing("page", r)'
    <3>1. Past(r)' = {}
      BY <2>2 DEF Past
    <3> QED BY <1>3, <2>2, <2>4, <2>6, <2>10, <3>1 DEF Writing
  <2>12. Stands("page", r)'
    BY <1>3, <2>2, <2>4, <2>11 DEF Stands, Delivering
  <2>13. Recorded(i)'
    BY <1>3, <2>4, <2>8 DEF Recorded, Tally
  <2>14. Notifying("page", r)'
    BY <2>2, NotNotifying
  <2>15. Keeps
    BY <1>1, <2>3, QuietKeeps
  <2>16. \A k \in DOMAIN broadcasts : k # i => Untouched(k) /\ broadcasts'[k].status = broadcasts[k].status
    BY <1>1, <2>4 DEF Untouched
  <2>17. \A o \in Handlers \ {h} : Sending(pc[o], req[o]) => req[o].about # i
    BY <2>4 DEF Threads, Stands
  <2>18. /\ \A q \in feed' : q.about \in DOMAIN broadcasts' \cup {AnOrder}
         /\ \A l \in sent' : l.about \in DOMAIN broadcasts' \cup {AnOrder}
    BY <1>1, <2>4 DEF Threads
  <2>19. Moves(h, "page", r) /\ "page" \in Stages /\ r \in Request
    BY <2>3 DEF Goes
  <2>20. \A k \in DOMAIN broadcasts' : k # i => k \in DOMAIN broadcasts
    BY <2>4
  <2>21. Threads'
    BY <2>2, <2>12, <2>13, <2>14, <2>15, <2>16, <2>17, <2>18, <2>19, <2>20, ThreadsMove
  <2> QED BY <1>1, <2>21, SameTelling
<1> QED BY <1>0, <1>2, <1>3, CreateRowIs

-----------------------------------------------------------------------------
(* Broadcasts: a page of the feed is written *)

\* The rows of a page join those of a broadcast.
LEMMA RowsJoin ==
    ASSUME Shape, NEW h \in Handlers, CommitRows(h), Committed(h),
           NEW r, r = req[h], NEW i, i = r.about, i \in Nat \cup {AnOrder}
    PROVE  /\ Written(i)' = Written(i) \cup r.page
           /\ \A k \in DOMAIN broadcasts : k # i =>
                  Untouched(k) /\ broadcasts'[k].status = broadcasts[k].status
           /\ Keeps
<1>0. Hands /\ Tables
  BY DEF Shape
<1>2. r \in Request /\ i \in Nat \cup {AnOrder} /\ pc[h] = "commit"
  BY <1>0, CommitIs, InHand
<1>3. /\ \A q \in Rows(r) : q.user \in r.page /\ q.about = i
      /\ \A u \in r.page : Row(u, r.seqs + Place(r.page, u), i) \in Rows(r)
  BY <1>2, RowsAre
<1>4. feed' = feed \cup Rows(r) /\ UNCHANGED <<customers, sent, broadcasts, hidden, known>>
  BY DEF Committed, people
<1>5. ASSUME NEW u \in r.page
      PROVE  u \in Written(i)'
  <2>1. PICK q : q = Row(u, r.seqs + Place(r.page, u), i)
    OBVIOUS
  <2>2. q \in feed' /\ q.user = u /\ q.about = i
    BY <1>3, <1>4, <2>1 DEF Row
  <2> QED BY <2>2 DEF Written
<1>6. ASSUME NEW u \in Written(i)
      PROVE  u \in Written(i)'
  BY <1>4 DEF Written
<1>7. ASSUME NEW u \in Written(i)'
      PROVE  u \in Written(i) \cup r.page
  BY <1>3, <1>4 DEF Written
<1>8. Written(i)' = Written(i) \cup r.page
  BY <1>5, <1>6, <1>7
<1>9. ASSUME NEW k \in DOMAIN broadcasts, k # i
      PROVE  Untouched(k) /\ broadcasts'[k].status = broadcasts[k].status
  BY <1>3, <1>4, <1>9 DEF Untouched
<1>10. Met \subseteq Met'
  <2>1. \E stage, q : Goes(h, stage, q)
    BY <1>0, CommitIs
  <2> QED BY <1>0, <1>4, <2>1, GoesOn
<1>11. Keeps
  BY <1>4, <1>10 DEF Keeps
<1> QED BY <1>8, <1>9, <1>11

\* Whoever is counted, and the page that is counted next.
LEMMA CountsGrow ==
    ASSUME Shape, NEW i, NEW n \in Nat, NEW among, NEW page \in SUBSET Users, NEW wider,
           Counts(n, i, among), among \subseteq wider, page \subseteq wider, among \cap page = {},
           page \subseteq Met, page \subseteq broadcasts[i].created \cap broadcasts[i].audience,
           Keeps, UNCHANGED <<customers, broadcasts>>, Written(i)' = Written(i) \cup page
    PROVE  Counts(n + Cardinality(page), i, wider)'
<1>1. PICK W \in SUBSET (Met \cap among \cap broadcasts[i].created \cap broadcasts[i].audience) :
        /\ Cardinality(W) = n
        /\ Written(i) \subseteq W
        /\ W \cap customers \subseteq Written(i)
  BY DEF Counts
<1>2. PICK V : V = W \cup page
  OBVIOUS
<1>3. V \in SUBSET (Met \cap wider \cap broadcasts[i].created \cap broadcasts[i].audience)'
  BY <1>1, <1>2 DEF Keeps
<1>4. Cardinality(V) = n + Cardinality(page)
  <2>1. Met \subseteq Users
    BY DEF Shape, Tables, Met
  <2>2. W \in SUBSET Users /\ W \cap page = {}
    BY <1>1, <2>1
  <2>3. IsFiniteSet(W) /\ IsFiniteSet(page) /\ Cardinality(page) \in Nat
    BY <2>2, UsersFinite
  <2>4. Cardinality(W \cap page) = 0
    BY <2>2, FS_EmptySet
  <2>5. Cardinality(W \cup page) = Cardinality(W) + Cardinality(page) - Cardinality(W \cap page)
    BY <2>3, FS_Union
  <2> QED BY <1>1, <1>2, <2>3, <2>4, <2>5
<1>5. Written(i)' \subseteq V /\ V \cap customers' \subseteq Written(i)'
  BY <1>1, <1>2
<1>6. PICK m : m = n + Cardinality(page)
  OBVIOUS
<1>7. Counts(m, i, wider)'
  BY <1>3, <1>4, <1>5, <1>6 DEF Counts
<1> QED BY <1>6, <1>7

\* What a commit leaves to be shown.
LEMMA CommitMoves ==
    ASSUME Shape, Threads, NEW h \in Handlers, CommitRows(h), Committed(h),
           NEW old, old = req[h], NEW i, i = old.about, i \in DOMAIN broadcasts \cup {AnOrder},
           NEW stage, NEW r, Goes(h, stage, r), Sending(stage, r) => r.about = i /\ Sending(pc[h], req[h]),
           Stands(stage, r)', Notifying(stage, r)', i \in DOMAIN broadcasts => Recorded(i)'
    PROVE  Threads'
<1>0. Hands /\ Tables
  BY DEF Shape
<1>1. old \in Request /\ pc[h] = "commit" /\ i \in Nat \cup {AnOrder}
  BY <1>0, CommitIs, InHand, BroadcastIn
<1>2. \A q \in Rows(old) : q.user \in old.page /\ q.about = i
  BY <1>1, RowsAre
<1>3. feed' = feed \cup Rows(old) /\ UNCHANGED <<sent, broadcasts>>
  BY DEF Committed
<1>4. /\ \A q \in feed' : q.about \in DOMAIN broadcasts' \cup {AnOrder}
      /\ \A l \in sent' : l.about \in DOMAIN broadcasts' \cup {AnOrder}
  BY <1>2, <1>3 DEF Threads
<1>5. /\ \A k \in DOMAIN broadcasts : k # i =>
                  Untouched(k) /\ broadcasts'[k].status = broadcasts[k].status
      /\ Keeps
  BY <1>1, RowsJoin
<1>6. \A o \in Handlers \ {h} : Sending(pc[o], req[o]) => req[o].about # i
  <2>1. AnOrder \notin DOMAIN broadcasts
    BY <1>0, BroadcastIn
  <2>2. \A o \in Handlers : Sending(pc[o], req[o]) => req[o].about \in DOMAIN broadcasts
    BY DEF Threads, Stands
  <2>3. ASSUME i \in DOMAIN broadcasts
        PROVE  Sending(pc[h], req[h])
    <3>1. old.kind = "create"
      BY <1>0, <1>1, <2>1, <2>3, CommitIs, CommitFacts DEF Agrees
    <3> QED BY <1>1, <3>1 DEF Sending
  <2> QED BY <2>1, <2>2, <2>3 DEF Threads
<1>7. Moves(h, stage, r) /\ stage \in Stages /\ r \in Request
  BY DEF Goes
<1>8. \A k \in DOMAIN broadcasts' : k # i => k \in DOMAIN broadcasts
  BY <1>3
<1>9. i \in DOMAIN broadcasts' => Recorded(i)'
  BY <1>3
<1> QED BY <1>4, <1>5, <1>6, <1>7, <1>8, <1>9, ThreadsMove

\* The rows of a page are the first their users have about the broadcast.
LEMMA RowsTell ==
    ASSUME Shape, Telling, NEW h \in Handlers, CommitRows(h), Committed(h),
           NEW r, r = req[h], NEW i, i = r.about, i \in Nat \cup {AnOrder},
           i # AnOrder => Written(i) \cap r.page = {}
    PROVE  Telling'
<1>0. Hands /\ Tables
  BY DEF Shape
<1>1. r \in Request /\ pc[h] = "commit"
  BY <1>0, CommitIs, InHand
<1>2. /\ \A q \in Rows(r) : q.user \in r.page /\ q.about = i /\ q.seq = r.seqs + Place(r.page, q.user)
      /\ Rows(r) \subseteq FeedRow
  BY <1>1, RowsAre
<1>3. feed' = feed \cup Rows(r) /\ UNCHANGED <<customers, sent, twice, hidden>>
  BY DEF Committed, people
<1>4. ASSUME NEW q \in feed', NEW s \in feed', q.user = s.user, q.about = s.about, q.about # AnOrder
      PROVE  q = s
  <2>1. CASE q \in feed /\ s \in feed
    BY <2>1, <1>4 DEF Telling, ToldOnce
  <2>2. CASE q \in Rows(r) /\ s \in Rows(r)
    <3>1. q.seq = s.seq /\ q \in FeedRow /\ s \in FeedRow
      BY <1>2, <1>4, <2>2
    <3> QED BY <3>1, <1>4 DEF FeedRow
  <2>3. ASSUME NEW new \in Rows(r), NEW old \in feed, new.user = old.user, new.about = old.about, old.about # AnOrder
        PROVE  FALSE
    <3>1. old.user \in Written(i)
      BY <1>2, <2>3 DEF Written
    <3> QED BY <1>2, <2>3, <3>1
  <2>4. CASE q \in Rows(r) /\ s \in feed
    BY <2>3, <2>4, <1>4
  <2>5. CASE q \in feed /\ s \in Rows(r)
    BY <2>3, <2>5, <1>4
  <2> QED BY <1>3, <2>1, <2>2, <2>4, <2>5
<1>5. ToldOnce'
  BY <1>3, <1>4 DEF Telling, ToldOnce
<1>6. NobodyToldWithoutRow'
  BY <1>3 DEF Telling, NobodyToldWithoutRow
<1> QED BY <1>5, <1>6 DEF Telling

LEMMA CommitOrderThreads ==
    ASSUME Shape, Threads, Telling, NEW h \in Handlers, CommitRows(h), Committed(h), req[h].kind = "order",
           Goes(h, "idle", NoReq) \/ Goes(h, "tokens", req[h])
    PROVE  Threads' /\ Telling'
<1>0. Hands /\ Tables
  BY DEF Shape
<1>1. PICK r, i : r = req[h] /\ i = r.about
  OBVIOUS
<1>2. r \in Request /\ r.kind = "order" /\ i = AnOrder /\ pc[h] = "commit" /\ Notifying("commit", r)
  <2>1. pc[h] = "commit" /\ Notifying("commit", r)
    BY <1>0, <1>1, CommitIs DEF Threads
  <2> QED BY <1>0, <1>1, <2>1, CommitFacts DEF Agrees
<1>3. Telling'
  BY <1>1, <1>2, RowsTell
<1>4. i \notin DOMAIN broadcasts
  BY <1>0, <1>2, BroadcastIn
<1>5. CASE Goes(h, "idle", NoReq)
  <2>1. PICK q : q = NoReq
    OBVIOUS
  <2>2. ~Sending("idle", q) /\ q.kind # "order"
    BY <2>1, NothingInHand DEF Sending
  <2>3. Stands("idle", q)' /\ Notifying("idle", q)'
    BY <2>2, NotSending, NotNotifying
  <2> QED BY <1>1, <1>2, <1>3, <1>4, <1>5, <2>1, <2>2, <2>3, CommitMoves
<1>6. CASE Goes(h, "tokens", req[h])
  <2>1. ~Sending("tokens", r)
    BY <1>2 DEF Sending
  <2>2. Stands("tokens", r)'
    BY <2>1, NotSending
  <2>3. \E q \in feed' : q.user = r.user /\ q.about = AnOrder
    <3>1. r.page = {r.user}
      BY <1>2 DEF Notifying
    <3>2. Row(r.user, r.seqs + Place(r.page, r.user), i) \in Rows(r)
      BY <1>1, <1>2, <3>1, RowsAre
    <3> QED BY <1>1, <1>2, <3>2 DEF Committed, Row
  <2>4. Notifying("tokens", r)'
    BY <1>2, <2>3 DEF Notifying
  <2> QED BY <1>1, <1>2, <1>3, <1>4, <1>6, <2>1, <2>2, <2>4, CommitMoves
<1> QED BY <1>5, <1>6

LEMMA CommitPageThreads ==
    ASSUME Shape, Threads, Telling, NEW h \in Handlers, CommitRows(h), Committed(h), req[h].kind = "create",
           NEW stage, stage = IF LastPage(req[h]) THEN "count" ELSE "page", Goes(h, stage, PageCounted(h))
    PROVE  Threads' /\ Telling'
<1>0. Hands /\ Tables
  BY DEF Shape
<1>1. PICK old, i, n, last, r :
        /\ old = req[h] /\ i = old.about /\ n = old.count + Cardinality(old.page) /\ last = Max(old.page)
        /\ r = PageCounted(h)
  OBVIOUS
<1>2. /\ old \in Request /\ old.kind = "create" /\ pc[h] = "commit"
      /\ old.page \in SUBSET Users /\ old.page \subseteq Met /\ Cardinality(old.page) \in Nat
      /\ last \in old.page /\ \A u \in old.page : u <= last
  <2>1. pc[h] = "commit"
    BY <1>0, CommitIs
  <2> QED BY <1>0, <1>1, <2>1, CommitFacts
<1>3. /\ Sending(pc[h], req[h]) /\ i \in DOMAIN broadcasts /\ broadcasts[i].status = "SENDING"
      /\ Writing("commit", old)
  BY <1>1, <1>2, SendsIt
<1>4. /\ i \in Nat /\ broadcasts[i] \in Broadcast /\ i # AnOrder
  BY <1>0, <1>3, BroadcastIn
<1>5. /\ r.about = i /\ r.kind = "create" /\ r.count = n /\ r.after = last
      /\ n \in Nat /\ old.count \in Nat
  <2>1. r = [old EXCEPT !.count = n, !.after = last]
    BY <1>1 DEF PageCounted
  <2> QED BY <1>1, <1>2, <2>1 DEF Request
<1>6. /\ \A l \in sent : l.about # i
      /\ broadcasts[i].stats = NoStats
      /\ Counts(old.count, i, Past(old))
      /\ old.page \cap Past(old) = {} /\ old.page \subseteq broadcasts[i].created \cap broadcasts[i].audience
      /\ \A u \in Recipients(broadcasts[i]) \ hidden :
            (u \in Past(old) \/ Cardinality(old.page) < Batch \/ \E v \in old.page : u <= v)
                => u \in Written(i) \cup old.page
  BY <1>1, <1>3 DEF Writing
<1>7. Past(old) \subseteq Past(r) /\ old.page \subseteq Past(r) /\ Past(r) \subseteq Users
  BY <1>2, <1>5, <1>6, PastGrows DEF Request, Past
<1>8. /\ Written(i)' = Written(i) \cup old.page
      /\ Keeps
  BY <1>1, <1>4, RowsJoin
<1>9. UNCHANGED <<customers, sent, broadcasts, hidden>>
  BY DEF Committed, people
<1>10. Written(i) \cap old.page = {}
  BY <1>6 DEF Counts
<1>11. Telling'
  BY <1>1, <1>4, <1>10, RowsTell
<1>12. PICK among : among = Past(r)
  OBVIOUS
<1>13. PICK c, before_ : c = old.count /\ before_ = Past(old)
  OBVIOUS
<1>14. Counts(n, i, among)' /\ Counts(n, i, Users)'
  <2>1. Counts(c, i, before_) /\ before_ \subseteq among /\ before_ \subseteq Users
        /\ old.page \subseteq among /\ before_ \cap old.page = {} /\ c \in Nat /\ n = c + Cardinality(old.page)
    BY <1>1, <1>5, <1>6, <1>7, <1>12, <1>13
  <2>2. Counts(c + Cardinality(old.page), i, among)'
    BY <1>2, <1>6, <1>8, <1>9, <2>1, CountsGrow
  <2>3. Counts(c + Cardinality(old.page), i, Users)'
    BY <1>2, <1>6, <1>8, <1>9, <2>1, CountsGrow
  <2> QED BY <2>1, <2>2, <2>3
<1>15. Past(r)' = Past(r)
  BY DEF Past
<1>16. Recipients(broadcasts[i])' = Recipients(broadcasts[i])
  BY <1>9 DEF Recipients
<1>17. stage \in {"count", "page"}
  OBVIOUS
<1>18. stage = "count" => Covered(i)'
  <2> SUFFICES ASSUME stage = "count", NEW u \in Recipients(broadcasts[i]) \ hidden PROVE u \in Written(i)'
    BY <1>9, <1>16 DEF Covered
  <2>1. Cardinality(old.page) < Batch
    BY <1>1 DEF LastPage
  <2> QED BY <1>6, <1>8, <2>1
<1>19. ASSUME NEW u \in (Recipients(broadcasts[i]) \cap Past(r)) \ hidden
       PROVE  u \in Written(i)'
  <2>1. \E v \in old.page : u <= v
    BY <1>2, <1>5 DEF Past
  <2> QED BY <1>6, <1>8, <2>1
<1>20. ((Recipients(broadcasts[i]) \cap Past(r)) \ hidden \subseteq Written(i))'
  BY <1>9, <1>15, <1>16, <1>19
<1>21. Writing(stage, r)'
  BY <1>5, <1>6, <1>9, <1>12, <1>14, <1>15, <1>17, <1>18, <1>20 DEF Writing
<1>22. Stands(stage, r)'
  BY <1>3, <1>5, <1>9, <1>17, <1>21 DEF Stands, Delivering
<1>23. Notifying(stage, r)'
  BY <1>5, NotNotifying
<1>24. Recorded(i)'
  <2>1. Told("push", i)' = Told("push", i) /\ Told("telegram", i)' = Told("telegram", i)
    BY <1>9 DEF Told
  <2>2. Cardinality(Told("push", i)) \in Nat /\ Cardinality(Told("telegram", i)) \in Nat
    BY <1>0, ToldAre
  <2> QED BY <1>3, <1>6, <1>9, <2>1, <2>2 DEF Recorded, NoStats
<1>25. Threads'
  BY <1>1, <1>3, <1>5, <1>22, <1>23, <1>24, CommitMoves
<1> QED BY <1>11, <1>25

LEMMA CommitThreads ==
    ASSUME Shape, Threads, Telling, NEW h \in Handlers, CommitRows(h)
    PROVE  Threads' /\ Telling'
<1>0. Hands /\ Tables
  BY DEF Shape
<1>1. /\ pc[h] = "commit"
      /\ UNCHANGED <<people, broadcasts, sent, twice, hidden>>
  BY <1>0, CommitIs
<1>2. CASE Committed(h) /\ req[h].kind = "order" /\ (Goes(h, "idle", NoReq) \/ Goes(h, "tokens", req[h]))
  BY <1>2, CommitOrderThreads
<1>3. CASE /\ Committed(h) /\ req[h].kind = "create"
           /\ Goes(h, IF LastPage(req[h]) THEN "count" ELSE "page", PageCounted(h))
  <2>1. PICK stage : stage = IF LastPage(req[h]) THEN "count" ELSE "page"
    OBVIOUS
  <2> QED BY <1>3, <2>1, CommitPageThreads
<1>4. CASE feed' = feed /\ Goes(h, "idle", NoReq)
  BY <1>1, <1>4, Ending, SameTelling DEF people
<1>5. CASE feed' = feed /\ Goes(h, "failed", req[h])
  BY <1>1, <1>5, Failing, SameTelling DEF people
<1> QED BY <1>0, <1>2, <1>3, <1>4, <1>5, CommitIs

-----------------------------------------------------------------------------
(* Broadcasts: letters leave *)

\* What leaves is about the broadcast of the handler, or about an order.
LEMMA LettersMove ==
    ASSUME Shape, Threads, NEW h \in Handlers, NEW new, NEW i, \A l \in new : l.about = i, sent' = sent \cup new,
           i \in DOMAIN broadcasts \cup {AnOrder},
           i \in DOMAIN broadcasts => Sending(pc[h], req[h]) /\ req[h].about = i,
           UNCHANGED <<customers, feed, broadcasts, hidden>>,
           NEW stage, NEW r, Goes(h, stage, r), Sending(stage, r) => r.about = i,
           Stands(stage, r)', Notifying(stage, r)', i \in DOMAIN broadcasts => Recorded(i)'
    PROVE  Threads'
<1>0. Hands /\ Tables
  BY DEF Shape
<1>1. Keeps
  BY <1>0, GoesOn, QuietKeeps
<1>2. \A k \in DOMAIN broadcasts : k # i =>
          Untouched(k) /\ broadcasts'[k].status = broadcasts[k].status
  BY DEF Untouched
<1>3. /\ \A q \in feed' : q.about \in DOMAIN broadcasts' \cup {AnOrder}
      /\ \A l \in sent' : l.about \in DOMAIN broadcasts' \cup {AnOrder}
  BY DEF Threads
<1>4. \A o \in Handlers \ {h} : Sending(pc[o], req[o]) => req[o].about # i
  <2>1. AnOrder \notin DOMAIN broadcasts
    BY <1>0, BroadcastIn
  <2>2. \A o \in Handlers : Sending(pc[o], req[o]) => req[o].about \in DOMAIN broadcasts
    BY DEF Threads, Stands
  <2> QED BY <2>1, <2>2 DEF Threads
<1>5. Moves(h, stage, r) /\ stage \in Stages /\ r \in Request
  BY DEF Goes
<1>6. \A k \in DOMAIN broadcasts' : k # i => k \in DOMAIN broadcasts
  OBVIOUS
<1> QED BY <1>1, <1>2, <1>3, <1>4, <1>5, <1>6, ThreadsMove

\* What is new goes to those who have their row.
LEMMA LettersTell ==
    ASSUME Telling, NEW new, NEW i, \A l \in new : l.about = i, Send(new),
           i # AnOrder => new \cap sent = {},
           \A l \in new : l.user \in customers =>
               (\E q \in feed : q.user = l.user /\ q.about = i) \/ (l.user \in hidden /\ i # AnOrder),
           UNCHANGED <<customers, feed, hidden>>
    PROVE  Telling'
<1>1. sent' = sent \cup new /\ twice' = twice \cup (sent \cap new)
  BY DEF Send
<1>2. ToldOnce'
  BY <1>1 DEF Telling, ToldOnce
<1>3. NobodyToldWithoutRow'
  BY <1>1 DEF Telling, NobodyToldWithoutRow
<1> QED BY <1>2, <1>3 DEF Telling

LEMMA TallyPushed ==
    ASSUME Tables, NEW b \in Counters, NEW i, Tally(Plus(b, NoStats), i),
           NEW m \in Nat, NEW n \in Nat, NEW reached \in {0, m}, m <= n,
           NEW s, s = [NoStats EXCEPT !.pushSent = reached, !.pushFailed = n - reached],
           Cardinality(Told("push", i)') = Cardinality(Told("push", i)) + m,
           Told("telegram", i)' = Told("telegram", i)
    PROVE  /\ Tally(Plus(b, s), i)'
           /\ b.pushSent <= Cardinality(Told("push", i)') /\ b.tgSent <= Cardinality(Told("telegram", i)')
<1>1. PICK p, t : p = Cardinality(Told("push", i)) /\ t = Cardinality(Told("telegram", i))
  OBVIOUS
<1>2. p \in Nat /\ t \in Nat
  BY <1>1, ToldAre
<1>3. PICK f : f = n - reached
  OBVIOUS
<1>4. s.pushSent = reached /\ s.pushFailed = f /\ s.tgSent = 0 /\ s.tgFailed = 0
  BY <1>3 DEF NoStats
<1>5. /\ b.pushSent \in Nat /\ b.pushFailed \in Nat /\ b.tgSent \in Nat /\ b.tgFailed \in Nat
      /\ b.pushSent <= p /\ p <= b.pushSent + b.pushFailed
      /\ b.tgSent <= t /\ t <= b.tgSent + b.tgFailed
  BY <1>1, PlusNothing DEF Counters, Tally
<1>6. Cardinality(Told("push", i)') = p + m /\ Cardinality(Told("telegram", i)') = t
  BY <1>1
<1>7. /\ b.pushSent + reached <= p + m
      /\ p + m <= (b.pushSent + reached) + (b.pushFailed + f)
      /\ b.pushSent <= p + m
  BY <1>2, <1>3, <1>5
<1>8. Tally(Plus(b, s), i)'
  BY <1>2, <1>4, <1>5, <1>6, <1>7 DEF Tally, Plus
<1> QED BY <1>5, <1>6, <1>7, <1>8

LEMMA PushTells ==
    ASSUME Shape, NEW i, NEW taken \in SUBSET [user : Users, token : Tokens], i \in Nat \cup {AnOrder},
           sent' = sent \cup Pushes(taken, i)
    PROVE  /\ Told("push", i)' = Told("push", i) \cup UsersOf(taken)
           /\ Told("telegram", i)' = Told("telegram", i)
<1>1. /\ \A l \in Pushes(taken, i) : l.user \in UsersOf(taken) /\ l.channel = "push" /\ l.about = i
      /\ \A u \in UsersOf(taken) : \E l \in Pushes(taken, i) : l.user = u
  BY PushesTyped
<1>2. ASSUME NEW u
      PROVE  /\ u \in Told("push", i)' <=> u \in Told("push", i) \cup UsersOf(taken)
             /\ u \in Told("telegram", i)' <=> u \in Told("telegram", i)
  <2>1. u \in Told("telegram", i)' <=> u \in Told("telegram", i)
    BY <1>1 DEF Told
  <2>2. u \in UsersOf(taken) => u \in Told("push", i)'
    BY <1>1 DEF Told
  <2>3. u \in Told("push", i) => u \in Told("push", i)'
    BY DEF Told
  <2>4. u \in Told("push", i)' => u \in Told("push", i) \cup UsersOf(taken)
    BY <1>1 DEF Told
  <2> QED BY <2>1, <2>2, <2>3, <2>4
<1>3. \A u : u \in Told("push", i)' <=> u \in Told("push", i) \cup UsersOf(taken)
  BY <1>2
<1>4. \A u : u \in Told("telegram", i)' <=> u \in Told("telegram", i)
  BY <1>2
<1>5. Told("push", i)' = Told("push", i) \cup UsersOf(taken)
  BY <1>3
<1> QED BY <1>4, <1>5

LEMMA PushedThreads ==
    ASSUME Shape, Threads, Telling, NEW h \in Handlers, Push(h), req[h].kind = "create",
           NEW taken, NEW reached, PushedTo(h, taken, reached)
    PROVE  Threads' /\ Telling'
<1>0. Hands /\ Tables
  BY DEF Shape
<1>1. PICK old, i, n, m, r, new :
        /\ old = req[h] /\ i = old.about /\ n = Cardinality(UsersOf(old.todo)) /\ m = Cardinality(UsersOf(taken))
        /\ r = Knows(h, reached) /\ new = Pushes(taken, i)
  OBVIOUS
<1>2. /\ pc[h] = "push" /\ old \in Request /\ old.kind = "create"
      /\ UNCHANGED <<customers, feed, broadcasts, hidden>>
      /\ taken \in SUBSET old.todo /\ reached \in {0, m} /\ Send(new) /\ Goes(h, "telegram", r)
  <2>1. /\ pc[h] = "push" /\ req[h] \in Request
        /\ UNCHANGED <<customers, feed, broadcasts, hidden>>
    BY <1>0, PushIs DEF letters
  <2> QED BY <1>1, <2>1 DEF PushedTo
<1>3. /\ Sending(pc[h], req[h]) /\ i \in DOMAIN broadcasts /\ broadcasts[i].status = "SENDING"
      /\ Delivering("push", old)
  BY <1>1, <1>2, SendsIt
<1>4. /\ i \in Nat /\ i # AnOrder /\ broadcasts[i].stats \in Counters
  BY <1>0, <1>3, BroadcastIn
<1>5. /\ Covered(i)
      /\ Counts(broadcasts[i].recipients, i, Users)
      /\ old.page \cap Past(old) = {}
      /\ old.page \cap customers \subseteq Written(i) \cup hidden
      /\ UsersOf(old.todo) \subseteq old.page /\ old.left \subseteq old.page
      /\ Tally(Plus(broadcasts[i].stats, NoStats), i)
      /\ Told("push", i) \cup Told("telegram", i) \subseteq Past(old)
      /\ old.stats = NoStats
  BY <1>1, <1>3 DEF Delivering
<1>6. /\ old.todo \in SUBSET [user : Users, token : Tokens] /\ taken \in SUBSET [user : Users, token : Tokens]
      /\ UsersOf(taken) \subseteq UsersOf(old.todo)
      /\ m \in Nat /\ n \in Nat /\ m <= n /\ reached \in Nat /\ n - reached \in Nat
  <2>1. old.todo \in SUBSET [user : Users, token : Tokens]
    BY <1>2 DEF Request
  <2>2. UsersOf(taken) \subseteq UsersOf(old.todo) /\ m \in Nat /\ n \in Nat /\ m <= n
    BY <1>1, <1>2, <2>1, UsersOfTyped
  <2> QED BY <1>2, <2>1, <2>2
<1>7. /\ r.about = i /\ r.page = old.page /\ r.after = old.after /\ r.left = old.left /\ r.kind = "create"
      /\ r.todo = old.todo
      /\ r.stats = [NoStats EXCEPT !.pushSent = reached, !.pushFailed = n - reached]
  <2>1. PICK s : s = [NoStats EXCEPT !.pushSent = reached, !.pushFailed = n - reached]
    OBVIOUS
  <2>2. r = [old EXCEPT !.stats = s]
    BY <1>1, <1>2, <1>5, <2>1 DEF Knows, Request
  <2>3. /\ r.about = i /\ r.page = old.page /\ r.after = old.after /\ r.left = old.left /\ r.kind = "create"
        /\ r.todo = old.todo /\ r.stats = s
    BY <1>1, <1>2, <2>2 DEF Request
  <2> QED BY <2>1, <2>3
<1>8. sent' = sent \cup new
  BY <1>2 DEF Send
<1>9. /\ \A l \in new : l.user \in UsersOf(taken) /\ l.channel = "push" /\ l.about = i
  BY <1>1, <1>4, <1>6, PushesTyped
<1>10. /\ Told("push", i)' = Told("push", i) \cup UsersOf(taken)
       /\ Told("telegram", i)' = Told("telegram", i)
  BY <1>1, <1>4, <1>6, <1>8, PushTells
<1>11. UsersOf(taken) \subseteq old.page /\ Told("push", i) \cap UsersOf(taken) = {}
  BY <1>5, <1>6
<1>12. Cardinality(Told("push", i)') = Cardinality(Told("push", i)) + m
  <2>1. IsFiniteSet(Told("push", i)) /\ IsFiniteSet(UsersOf(taken)) /\ Cardinality(Told("push", i)) \in Nat
    <3>1. Told("push", i) \in SUBSET Users /\ UsersOf(taken) \in SUBSET Users
      BY <1>0, <1>6, ToldAre, UsersOfTyped
    <3> QED BY <3>1, UsersFinite
  <2>2. Cardinality(Told("push", i) \cap UsersOf(taken)) = 0
    BY <1>11, FS_EmptySet
  <2>3. Cardinality(Told("push", i) \cup UsersOf(taken))
            = Cardinality(Told("push", i)) + Cardinality(UsersOf(taken)) - Cardinality(Told("push", i) \cap UsersOf(taken))
    BY <2>1, FS_Union
  <2>4. Cardinality(Told("push", i) \cup UsersOf(taken)) = Cardinality(Told("push", i)) + m
    BY <1>1, <1>6, <2>1, <2>2, <2>3
  <2> QED BY <1>10, <2>4
<1>13. PICK b, s : b = broadcasts[i].stats /\ s = r.stats
  OBVIOUS
<1>14. /\ Tally(Plus(b, s), i)'
       /\ b.pushSent <= Cardinality(Told("push", i)') /\ b.tgSent <= Cardinality(Told("telegram", i)')
  BY <1>0, <1>2, <1>4, <1>5, <1>6, <1>7, <1>10, <1>12, <1>13, TallyPushed
<1>15. Tally(Plus(broadcasts[i].stats, r.stats), i)'
  BY <1>2, <1>13, <1>14
<1>16. Covered(i)' /\ Written(i)' = Written(i)
  BY <1>2, <1>5 DEF Covered, Recipients, Written
<1>17. Counts(broadcasts[i].recipients, i, Users)'
  <2>1. PICK k : k = broadcasts[i].recipients
    OBVIOUS
  <2>2. Met \subseteq Met'
    BY <1>0, <1>2, GoesOn
  <2>3. Counts(k, i, Users)'
    BY <1>2, <1>5, <2>1, <2>2, RewrittenCounts
  <2> QED BY <1>2, <2>1, <2>3
<1>18. Past(old)' = Past(old) /\ Past(r)' = Past(old)
  BY <1>7 DEF Past
<1>19. Delivering("telegram", r)'
  BY <1>2, <1>5, <1>6, <1>7, <1>10, <1>11, <1>15, <1>16, <1>17, <1>18 DEF Delivering
<1>20. Stands("telegram", r)'
  BY <1>2, <1>3, <1>7, <1>19 DEF Stands, Writing
<1>21. Notifying("telegram", r)'
  BY <1>7, NotNotifying
<1>22. Recorded(i)'
  BY <1>2, <1>3, <1>13, <1>14 DEF Recorded
<1>23. Threads'
  BY <1>1, <1>2, <1>3, <1>7, <1>8, <1>9, <1>20, <1>21, <1>22, LettersMove
<1>24. new \cap sent = {}
  <2> SUFFICES ASSUME NEW l \in new, l \in sent PROVE FALSE
    OBVIOUS
  <2>1. l.user \in Told("push", i) /\ l.user \in UsersOf(taken)
    BY <1>9 DEF Told
  <2> QED BY <1>11, <2>1
<1>25. \A l \in new : l.user \in customers =>
               (\E q \in feed : q.user = l.user /\ q.about = i) \/ (l.user \in hidden /\ i # AnOrder)
  <2> SUFFICES ASSUME NEW l \in new, l.user \in customers
               PROVE  (\E q \in feed : q.user = l.user /\ q.about = i) \/ (l.user \in hidden /\ i # AnOrder)
    OBVIOUS
  <2>1. l.user \in Written(i) \cup hidden
    BY <1>5, <1>9, <1>11
  <2> QED BY <1>4, <2>1, IsWritten
<1>26. Telling'
  BY <1>2, <1>9, <1>24, <1>25, LettersTell
<1> QED BY <1>23, <1>26

LEMMA PushedOrderThreads ==
    ASSUME Shape, Threads, Telling, NEW h \in Handlers, Push(h), req[h].kind = "order",
           NEW taken, NEW reached, PushedTo(h, taken, reached)
    PROVE  Threads' /\ Telling'
<1>0. Hands /\ Tables
  BY DEF Shape
<1>1. PICK r, i, new : r = req[h] /\ i = r.about /\ new = Pushes(taken, i)
  OBVIOUS
<1>2. /\ pc[h] = "push" /\ r \in Request /\ r.kind = "order" /\ i = AnOrder
      /\ UNCHANGED <<customers, feed, broadcasts, hidden>>
      /\ taken \in SUBSET r.todo /\ Send(new) /\ Goes(h, "telegram", r)
  <2>1. /\ pc[h] = "push" /\ req[h] \in Request /\ Agrees("push", req[h])
        /\ UNCHANGED <<customers, feed, broadcasts, hidden>>
    BY <1>0, PushIs DEF letters
  <2> QED BY <1>1, <2>1 DEF PushedTo, Agrees
<1>3. i \notin DOMAIN broadcasts /\ ~Sending("telegram", r)
  BY <1>0, <1>2, BroadcastIn DEF Sending
<1>4. Notifying("push", r)
  BY <1>1, <1>2 DEF Threads
<1>5. taken \in SUBSET [user : Users, token : Tokens] /\ UsersOf(taken) \subseteq {r.user}
  BY <1>2, <1>4 DEF Request, Notifying, UsersOf
<1>6. \A l \in new : l.user = r.user /\ l.about = i
  <2>1. i \in Nat \cup {AnOrder}
    BY <1>2
  <2>2. taken \in SUBSET [user : Users, token : Tokens]
    BY <1>5
  <2>3. \A l \in Pushes(taken, i) : l.user \in UsersOf(taken) /\ l.about = i
    BY <2>1, <2>2, PushesTyped
  <2> QED BY <1>1, <1>5, <2>3
<1>7. Notifying("telegram", r)'
  <2>1. Notifying("telegram", r)
    BY <1>2, <1>4 DEF Notifying
  <2>2. Keeps
    BY <1>0, <1>2, GoesOn, QuietKeeps
  <2>3. r.user \in Met
    BY <1>0, <1>1, <1>2, UserIsMet
  <2> QED BY <2>1, <2>2, <2>3, NotifyingStill
<1>8. Stands("telegram", r)'
  BY <1>3, NotSending
<1>9. sent' = sent \cup new
  BY <1>2 DEF Send
<1>10. Threads'
  BY <1>2, <1>3, <1>6, <1>7, <1>8, <1>9, LettersMove
<1>11. \A l \in new : l.user \in customers => \E q \in feed : q.user = l.user /\ q.about = i
  BY <1>2, <1>4, <1>6 DEF Notifying
<1>12. Telling'
  <2>1. (\A l \in new : l.about = i) /\ i = AnOrder
    BY <1>2, <1>6
  <2>2. \A l \in new : l.user \in customers =>
               (\E q \in feed : q.user = l.user /\ q.about = i) \/ (l.user \in hidden /\ i # AnOrder)
    BY <1>11
  <2> QED BY <1>2, <2>1, <2>2, LettersTell
<1> QED BY <1>10, <1>12

LEMMA PushThreads ==
    ASSUME Shape, Threads, Telling, NEW h \in Handlers, Push(h)
    PROVE  Threads' /\ Telling'
<1>0. Hands /\ Tables
  BY DEF Shape
<1>1. /\ pc[h] = "push" /\ req[h] \in Request /\ req[h].kind \in {"order", "create"}
      /\ UNCHANGED <<customers, feed, broadcasts, hidden>> /\ known' = known
  <2>1. Agrees("push", req[h]) /\ req[h] \in Request
    BY <1>0, PushIs
  <2>2. req[h].kind \in {"order", "create"}
    BY <2>1 DEF Agrees, AtStages, Request, FirstStage
  <2> QED BY <1>0, <2>1, <2>2, PushIs DEF letters
<1>2. CASE \E taken, reached : PushedTo(h, taken, reached)
  BY <1>1, <1>2, PushedThreads, PushedOrderThreads
<1>3. ASSUME Goes(h, IF req[h].kind = "order" THEN "telegram" ELSE "failed", req[h]), sent' = sent, twice' = twice
      PROVE  Threads' /\ Telling'
  <2>1. CASE req[h].kind = "create"
    BY <1>1, <1>3, <2>1, Failing, SameTelling
  <2>2. CASE req[h].kind = "order"
    <3>1. PICK r : r = req[h]
      OBVIOUS
    <3>2. ~Sending("telegram", r) /\ Goes(h, "telegram", r)
      BY <1>3, <2>2, <3>1 DEF Sending
    <3>3. Notifying("push", r)
      BY <1>1, <3>1 DEF Threads
    <3>4. Notifying("telegram", r)
      BY <3>3 DEF Notifying
    <3>5. Met \subseteq Met'
      BY <1>0, <3>2, GoesOn
    <3> QED BY <1>1, <1>3, <3>2, <3>4, <3>5, NotSending, Proceeds, SameTelling
  <2> QED BY <1>1, <2>1, <2>2
<1> QED BY <1>0, <1>2, <1>3, PushIs

LEMMA TelegramOrderThreads ==
    ASSUME Shape, Threads, Telling, NEW h \in Handlers, TelegramOrder(h)
    PROVE  Threads' /\ Telling'
<1>0. Hands /\ Tables
  BY DEF Shape
<1>1. PICK r, i, l : r = req[h] /\ i = r.about /\ l = Letter("telegram", r.user, r.user, i)
  OBVIOUS
<1>2. /\ pc[h] = "telegram" /\ Goes(h, "idle", NoReq) /\ r.kind = "order" /\ i = AnOrder
      /\ r.user \in Users
      /\ UNCHANGED <<customers, feed, broadcasts, hidden>>
      /\ (sent' = sent /\ twice' = twice) \/ Send({l})
  BY <1>0, <1>1, TelegramOrderIs DEF people, letters
<1>3. CASE sent' = sent /\ twice' = twice
  BY <1>2, <1>3, Ending, SameTelling
<1>4. CASE Send({l})
  <2>1. l.user = r.user /\ l.about = i
    BY <1>1 DEF Letter
  <2>2. PICK q : q = NoReq
    OBVIOUS
  <2>3. ~Sending("idle", q) /\ q.kind # "order"
    BY <2>2, NothingInHand DEF Sending
  <2>4. Stands("idle", q)' /\ Notifying("idle", q)'
    BY <2>3, NotSending, NotNotifying
  <2>5. i \notin DOMAIN broadcasts
    BY <1>0, <1>2, BroadcastIn
  <2>6. sent' = sent \cup {l}
    BY <1>4 DEF Send
  <2>7. Threads'
    <3>1. \A m \in {l} : m.about = i
      BY <2>1
    <3> QED BY <1>2, <2>2, <2>3, <2>4, <2>5, <2>6, <3>1, LettersMove
  <2>8. Notifying("telegram", r)
    BY <1>1, <1>2 DEF Threads
  <2>9. \A m \in {l} : m.about = i /\ (m.user \in customers => \E q_ \in feed : q_.user = m.user /\ q_.about = i)
    BY <1>2, <2>1, <2>8 DEF Notifying
  <2>10. Telling'
    BY <1>2, <1>4, <2>9, LettersTell
  <2> QED BY <2>7, <2>10
<1> QED BY <1>2, <1>3, <1>4

LEMMA TallyCounted ==
    ASSUME Tables, NEW b \in Counters, NEW i, NEW s \in Counters, Tally(Plus(b, s), i),
           NEW answer \in Answers, NEW t, t = Counted(s, answer),
           NEW d, d = IF answer.delivered THEN 1 ELSE 0,
           Cardinality(Told("telegram", i)') = Cardinality(Told("telegram", i)) + d,
           Told("push", i)' = Told("push", i)
    PROVE  Tally(Plus(b, t), i)'
<1>1. PICK p, n : p = Cardinality(Told("push", i)) /\ n = Cardinality(Told("telegram", i))
  OBVIOUS
<1>2. p \in Nat /\ n \in Nat
  BY <1>1, ToldAre
<1>3. /\ Cardinality(Told("push", i)') = p /\ Cardinality(Told("telegram", i)') = n + d
  BY <1>1
<1>4. /\ b.pushSent + s.pushSent <= p /\ p <= (b.pushSent + s.pushSent) + (b.pushFailed + s.pushFailed)
      /\ b.tgSent + s.tgSent <= n /\ n <= (b.tgSent + s.tgSent) + (b.tgFailed + s.tgFailed)
  BY <1>1 DEF Tally, Plus
<1>5. /\ t.pushSent = s.pushSent /\ t.pushFailed = s.pushFailed
      /\ t.tgSent \in Nat /\ t.tgFailed \in Nat
      /\ s.tgSent <= t.tgSent /\ t.tgSent <= s.tgSent + d
      /\ s.tgSent + s.tgFailed + d <= t.tgSent + t.tgFailed
  <2>1. CASE answer.says = "ok"
    <3>1. answer.delivered
      BY <2>1 DEF Answers
    <3>2. t = [s EXCEPT !.tgSent = s.tgSent + 1]
      BY <2>1 DEF Counted
    <3>3. PICK k : k = s.tgSent + 1
      OBVIOUS
    <3>4. t = [s EXCEPT !.tgSent = k]
      BY <3>2, <3>3
    <3>5. t.tgSent = k /\ t.pushSent = s.pushSent /\ t.pushFailed = s.pushFailed /\ t.tgFailed = s.tgFailed
      BY <3>4 DEF Counters
    <3> QED BY <3>1, <3>3, <3>5 DEF Counters
  <2>2. CASE answer.says = "blocked"
    <3>1. ~answer.delivered
      BY <2>2 DEF Answers
    <3>2. PICK k : k = s.tgBlocked + 1
      OBVIOUS
    <3>3. t = [s EXCEPT !.tgBlocked = k]
      BY <2>2, <3>2 DEF Counted
    <3>4. t.tgSent = s.tgSent /\ t.pushSent = s.pushSent /\ t.pushFailed = s.pushFailed /\ t.tgFailed = s.tgFailed
      BY <3>3 DEF Counters
    <3> QED BY <3>1, <3>4 DEF Counters
  <2>3. CASE answer.says \notin {"ok", "blocked"}
    <3>1. PICK k : k = s.tgFailed + 1
      OBVIOUS
    <3>2. t = [s EXCEPT !.tgFailed = k]
      BY <2>3, <3>1 DEF Counted
    <3>3. t.tgSent = s.tgSent /\ t.pushSent = s.pushSent /\ t.pushFailed = s.pushFailed /\ t.tgFailed = k
      BY <3>2 DEF Counters
    <3> QED BY <3>1, <3>3 DEF Counters
  <2> QED BY <2>1, <2>2, <2>3
<1>6. d \in {0, 1}
  OBVIOUS
<1>7. /\ b.pushSent + t.pushSent <= p /\ p <= (b.pushSent + t.pushSent) + (b.pushFailed + t.pushFailed)
      /\ b.tgSent + t.tgSent <= n + d /\ n + d <= (b.tgSent + t.tgSent) + (b.tgFailed + t.tgFailed)
  BY <1>2, <1>4, <1>5, <1>6 DEF Counters
<1> QED BY <1>3, <1>7 DEF Tally, Plus

LEMMA MessageTells ==
    ASSUME NEW i, NEW u, NEW new, sent' = sent \cup new,
           new = {} \/ new = {Letter("telegram", u, u, i)}
    PROVE  /\ Told("push", i)' = Told("push", i)
           /\ Told("telegram", i)' = IF new = {} THEN Told("telegram", i) ELSE Told("telegram", i) \cup {u}
<1>1. \A l \in new : l.channel = "telegram" /\ l.about = i /\ l.user = u
  BY DEF Letter
<1>2. \A v : v \in Told("push", i)' <=> v \in Told("push", i)
  BY <1>1 DEF Told
<1>3. \A v : v \in Told("telegram", i)' <=> v \in Told("telegram", i) \/ (new # {} /\ v = u)
  BY <1>1 DEF Told
<1>4. Told("push", i)' = Told("push", i)
  BY <1>2
<1> QED BY <1>3, <1>4

\* A message to the next of the page, which may be the last that is known of it.
LEMMA WroteThreads ==
    ASSUME Shape, Threads, Telling, NEW h \in Handlers, Telegram(h), req[h].kind = "create",
           NEW answer \in Answers, ~Again(answer, req[h].tries),
           req[h].left # {}, Min(req[h].left) \in req[h].left, Goes(h, "telegram", AfterTelegram(h, answer)),
           IF answer.delivered
           THEN Send({Letter("telegram", Min(req[h].left), Min(req[h].left), req[h].about)})
           ELSE sent' = sent /\ twice' = twice
    PROVE  Threads' /\ Telling'
<1>0. Hands /\ Tables
  BY DEF Shape
<1>1. PICK old, i, u, r, new :
        /\ old = req[h] /\ i = old.about /\ u = Min(old.left) /\ r = AfterTelegram(h, answer)
        /\ new = IF answer.delivered THEN {Letter("telegram", u, u, i)} ELSE {}
  OBVIOUS
<1>2. /\ pc[h] = "telegram" /\ old \in Request /\ old.kind = "create"
      /\ UNCHANGED <<customers, feed, broadcasts, hidden>>
      /\ u \in old.left /\ Goes(h, "telegram", r)
  <2>1. /\ pc[h] = "telegram" /\ req[h] \in Request
        /\ UNCHANGED <<customers, feed, broadcasts, hidden>>
    BY <1>0, TelegramIs DEF people, letters
  <2> QED BY <1>1, <2>1
<1>3. /\ Sending(pc[h], req[h]) /\ i \in DOMAIN broadcasts /\ broadcasts[i].status = "SENDING"
      /\ Delivering("telegram", old) /\ Recorded(i)
  BY <1>1, <1>2, SendsIt
<1>4. /\ i \in Nat /\ i # AnOrder /\ broadcasts[i].stats \in Counters /\ old.stats \in Counters
  BY <1>0, <1>2, <1>3, BroadcastIn DEF Request
<1>5. /\ Covered(i)
      /\ Counts(broadcasts[i].recipients, i, Users)
      /\ old.page \cap Past(old) = {}
      /\ old.page \cap customers \subseteq Written(i) \cup hidden
      /\ UsersOf(old.todo) \subseteq old.page /\ old.left \subseteq old.page
      /\ Tally(Plus(broadcasts[i].stats, old.stats), i)
      /\ Told("push", i) \subseteq Past(old) \cup old.page
      /\ Told("telegram", i) \subseteq Past(old) \cup (old.page \ old.left)
  BY <1>1, <1>3 DEF Delivering
<1>6. PICK rest, s : rest = old.left \ {u} /\ s = Counted(old.stats, answer)
  OBVIOUS
<1>7. /\ r.about = i /\ r.page = old.page /\ r.after = old.after /\ r.kind = "create"
      /\ r.todo = old.todo /\ r.left = rest /\ r.stats = s
  <2>1. r = [old EXCEPT !.tries = 0, !.left = rest, !.stats = s]
    BY <1>1, <1>2, <1>6 DEF AfterTelegram, Request
  <2> QED BY <1>1, <1>2, <2>1 DEF Request
<1>8. Send(new)
  <2>1. answer.delivered => Send({Letter("telegram", u, u, i)})
    BY <1>1
  <2>2. ~answer.delivered => sent' = sent /\ twice' = twice
    OBVIOUS
  <2> QED BY <1>1, <2>1, <2>2 DEF Send
<1>9. sent' = sent \cup new /\ \A l \in new : l.user = u /\ l.channel = "telegram" /\ l.about = i
  BY <1>1, <1>8 DEF Send, Letter
<1>10. /\ Told("push", i)' = Told("push", i)
       /\ Told("telegram", i)' = IF new = {} THEN Told("telegram", i) ELSE Told("telegram", i) \cup {u}
  BY <1>1, <1>9, MessageTells
<1>11. u \notin Told("telegram", i) /\ u \in old.page
  BY <1>2, <1>5
<1>12. PICK d : d = IF answer.delivered THEN 1 ELSE 0
  OBVIOUS
<1>13. Cardinality(Told("telegram", i)') = Cardinality(Told("telegram", i)) + d
  <2>1. Cardinality(Told("telegram", i)) \in Nat /\ IsFiniteSet(Told("telegram", i))
    BY <1>0, ToldAre, UsersFinite
  <2>2. Cardinality(Told("telegram", i) \cup {u}) = Cardinality(Told("telegram", i)) + 1
    BY <1>11, <2>1, FS_AddElement
  <2>3. CASE answer.delivered
    <3>1. Told("telegram", i)' = Told("telegram", i) \cup {u} /\ d = 1
      BY <1>1, <1>10, <1>12, <2>3
    <3> QED BY <2>2, <3>1
  <2>4. CASE ~answer.delivered
    <3>1. Told("telegram", i)' = Told("telegram", i) /\ d = 0
      BY <1>1, <1>10, <1>12, <2>4
    <3> QED BY <2>1, <3>1
  <2> QED BY <2>3, <2>4
<1>14. PICK b, o : b = broadcasts[i].stats /\ o = old.stats
  OBVIOUS
<1>15. Tally(Plus(b, s), i)'
  <2>1. b \in Counters /\ o \in Counters /\ Tally(Plus(b, o), i) /\ s = Counted(o, answer)
    BY <1>4, <1>5, <1>6, <1>14
  <2> QED BY <1>0, <1>10, <1>12, <1>13, <2>1, TallyCounted
<1>16. Tally(Plus(broadcasts[i].stats, r.stats), i)'
  BY <1>2, <1>7, <1>14, <1>15
<1>17. Covered(i)' /\ Written(i)' = Written(i)
  BY <1>2, <1>5 DEF Covered, Recipients, Written
<1>18. Counts(broadcasts[i].recipients, i, Users)'
  <2>1. PICK k : k = broadcasts[i].recipients
    OBVIOUS
  <2>2. Met \subseteq Met'
    BY <1>0, <1>2, GoesOn
  <2>3. Counts(k, i, Users)'
    BY <1>2, <1>5, <2>1, <2>2, RewrittenCounts
  <2> QED BY <1>2, <2>1, <2>3
<1>19. Past(old)' = Past(old) /\ Past(r)' = Past(old)
  BY <1>7 DEF Past
<1>20. Delivering("telegram", r)'
  BY <1>2, <1>5, <1>6, <1>7, <1>10, <1>11, <1>16, <1>17, <1>18, <1>19 DEF Delivering
<1>21. Stands("telegram", r)'
  BY <1>2, <1>3, <1>7, <1>20 DEF Stands, Writing
<1>22. Notifying("telegram", r)'
  BY <1>7, NotNotifying
<1>23. Recorded(i)'
  <2>1. b.pushSent <= Cardinality(Told("push", i)) /\ b.tgSent <= Cardinality(Told("telegram", i))
    BY <1>3, <1>14 DEF Recorded
  <2>2. Cardinality(Told("telegram", i)) \in Nat /\ d \in {0, 1} /\ b.tgSent \in Nat
    BY <1>0, <1>4, <1>12, <1>14, ToldAre DEF Counters
  <2>3. b.pushSent <= Cardinality(Told("push", i)') /\ b.tgSent <= Cardinality(Told("telegram", i)')
    BY <1>10, <1>13, <2>1, <2>2
  <2> QED BY <1>2, <1>3, <1>14, <2>3 DEF Recorded
<1>24. Threads'
  BY <1>1, <1>2, <1>3, <1>7, <1>9, <1>21, <1>22, <1>23, LettersMove
<1>25. new \cap sent = {}
  <2> SUFFICES ASSUME NEW l \in new, l \in sent PROVE FALSE
    OBVIOUS
  <2>1. u \in Told("telegram", i)
    BY <1>9 DEF Told
  <2> QED BY <1>11, <2>1
<1>26. \A l \in new : l.user \in customers =>
               (\E q \in feed : q.user = l.user /\ q.about = i) \/ (l.user \in hidden /\ i # AnOrder)
  <2> SUFFICES ASSUME NEW l \in new, l.user \in customers
               PROVE  (\E q \in feed : q.user = l.user /\ q.about = i) \/ (l.user \in hidden /\ i # AnOrder)
    OBVIOUS
  <2>1. l.user \in Written(i) \cup hidden
    BY <1>5, <1>9, <1>11
  <2> QED BY <1>4, <2>1, IsWritten
<1>27. Telling'
  BY <1>2, <1>8, <1>9, <1>25, <1>26, LettersTell
<1> QED BY <1>24, <1>27

LEMMA TelegramThreads ==
    ASSUME Shape, Threads, Telling, NEW h \in Handlers, Telegram(h), req[h].kind = "create"
    PROVE  Threads' /\ Telling'
<1>0. Hands /\ Tables
  BY DEF Shape
<1>1. /\ pc[h] = "telegram" /\ req[h] \in Request
      /\ UNCHANGED <<customers, feed, broadcasts, hidden>>
  BY <1>0, TelegramIs DEF people, letters
<1>2. PICK old, i : old = req[h] /\ i = old.about
  OBVIOUS
<1>3. /\ Sending(pc[h], req[h]) /\ i \in DOMAIN broadcasts /\ broadcasts[i].status = "SENDING"
      /\ Delivering("telegram", old)
  BY <1>1, <1>2, SendsIt
<1>4. CASE old.left = {} /\ Goes(h, "stats", old) /\ sent' = sent /\ twice' = twice
  <2>1. Delivering("stats", old)
    BY <1>3, <1>4 DEF Delivering
  <2>2. Stands("stats", old)
    BY <1>2, <1>3, <2>1 DEF Stands, Writing
  <2>3. Notifying("stats", old) /\ Met \subseteq Met'
    BY <1>0, <1>2, <1>4, GoesOn, NotNotifying
  <2> QED BY <1>1, <1>2, <1>3, <1>4, <2>2, <2>3, Proceeds, SameTelling
<1>5. ASSUME NEW answer \in Answers,
             old.left # {}, Min(old.left) \in old.left, Goes(h, "telegram", AfterTelegram(h, answer)),
             IF answer.delivered
             THEN Send({Letter("telegram", Min(old.left), Min(old.left), i)})
             ELSE sent' = sent /\ twice' = twice
      PROVE  Threads' /\ Telling'
  <2>1. CASE ~Again(answer, old.tries)
    BY <1>2, <1>5, <2>1, WroteThreads
  <2>2. CASE Again(answer, old.tries)
    <3>1. sent' = sent /\ twice' = twice
      BY <1>5, <2>2 DEF Again, Answers
    <3>2. PICK n, r : n = old.tries + 1 /\ r = AfterTelegram(h, answer)
      OBVIOUS
    <3>3. r = [old EXCEPT !.tries = n]
      BY <1>1, <1>2, <2>2, <3>2 DEF AfterTelegram, Request
    <3>4. /\ r.about = i /\ r.page = old.page /\ r.after = old.after /\ r.kind = "create"
          /\ r.todo = old.todo /\ r.left = old.left /\ r.stats = old.stats
      BY <1>1, <1>2, <3>3 DEF Request
    <3>5. Delivering("telegram", r)
      BY <1>2, <1>3, <3>4 DEF Delivering, Past
    <3>6. Stands("telegram", r)
      BY <1>2, <1>3, <3>4, <3>5 DEF Stands, Writing
    <3>7. Goes(h, "telegram", r) /\ Met \subseteq Met'
      BY <1>0, <1>5, <3>2, GoesOn
    <3>8. Notifying("telegram", r)
      BY <3>4, NotNotifying
    <3>9. Threads'
      BY <1>1, <1>2, <1>3, <3>1, <3>4, <3>6, <3>7, <3>8, Proceeds
    <3> QED BY <1>1, <3>1, <3>9, SameTelling
  <2> QED BY <2>1, <2>2
<1> QED BY <1>0, <1>2, <1>4, <1>5, TelegramIs

-----------------------------------------------------------------------------
(* Broadcasts: people come and go, and the process comes back *)

LEMMA WriteThreads ==
    ASSUME Shape, Threads, Telling, NEW h \in Handlers, Write(h)
    PROVE  Threads' /\ Telling'
<1>0. Hands /\ Tables /\ Introduced
  BY DEF Shape
<1>1. /\ Goes(h, "idle", NoReq) /\ req[h].kind \in {"unregister", "delete", "join"}
      /\ req[h].kind = "unregister" => UNCHANGED <<customers, feed>>
      /\ req[h].kind = "delete" => customers' = customers \ {req[h].user} /\ feed' = feed \ RowsOf(req[h].user)
      /\ req[h].kind = "join" => customers' = customers \cup {req[h].user} /\ feed' = feed /\ req[h].user \notin Met
      /\ hidden' = hidden \cup {u \in customers' \ customers : \E i \in DOMAIN broadcasts : u \in broadcasts[i].created}
      /\ UNCHANGED <<broadcasts, sent, twice, known>>
  BY <1>0, WriteIs
<1>2. Met \subseteq Met'
  BY <1>0, <1>1, GoesOn
<1>3. \A u \in customers' : u \in customers \/ u \notin Met
  BY <1>1
<1>4. feed' \subseteq feed /\ \A q \in feed : q.user \in customers' => q \in feed'
  BY <1>1 DEF RowsOf
<1>5. Keeps
  BY <1>1, <1>2, <1>3, <1>4 DEF Keeps
<1>6. \A k \in DOMAIN broadcasts : Untouched(k) /\ broadcasts'[k].status = broadcasts[k].status
  BY <1>1, <1>4 DEF Untouched
<1>7. PICK q : q = NoReq
  OBVIOUS
<1>8. ~Sending("idle", q) /\ q.kind # "order"
  BY <1>7, NothingInHand DEF Sending
<1>9. Stands("idle", q)' /\ Notifying("idle", q)'
  BY <1>8, NotSending, NotNotifying
<1>10. /\ \A r \in feed' : r.about \in DOMAIN broadcasts' \cup {AnOrder}
       /\ \A l \in sent' : l.about \in DOMAIN broadcasts' \cup {AnOrder}
  BY <1>1, <1>4 DEF Threads
<1>11. PICK j : j = AnOrder
  OBVIOUS
<1>12. j \notin DOMAIN broadcasts /\ \A o \in Handlers \ {h} : Sending(pc[o], req[o]) => req[o].about # j
  <2>1. j \notin DOMAIN broadcasts
    BY <1>0, <1>11, BroadcastIn
  <2> QED BY <2>1 DEF Threads, Stands
<1>13. Moves(h, "idle", q) /\ "idle" \in Stages /\ q \in Request
  BY <1>1, <1>7 DEF Goes
<1>14. /\ \A k \in DOMAIN broadcasts' : k # j => k \in DOMAIN broadcasts
       /\ j \notin DOMAIN broadcasts'
  BY <1>1, <1>12
<1>15. Threads'
  BY <1>5, <1>6, <1>8, <1>9, <1>10, <1>12, <1>13, <1>14, ThreadsMove
<1>16. ToldOnce'
  BY <1>1, <1>4 DEF Telling, ToldOnce
<1>17. ASSUME NEW l \in sent', l.user \in customers'
       PROVE  (\E r \in feed' : r.user = l.user /\ r.about = l.about) \/ (l.user \in hidden' /\ l.about # AnOrder)
  <2>1. l \in sent /\ l.user \in customers
    BY <1>0, <1>1, <1>3, <1>17 DEF Introduced
  <2>2. (\E r \in feed : r.user = l.user /\ r.about = l.about) \/ (l.user \in hidden /\ l.about # AnOrder)
    BY <2>1 DEF Telling, NobodyToldWithoutRow
  <2> QED BY <1>1, <1>4, <1>17, <2>2
<1>18. NobodyToldWithoutRow'
  BY <1>17 DEF NobodyToldWithoutRow
<1> QED BY <1>15, <1>16, <1>18 DEF Telling

LEMMA RestartThreads ==
    ASSUME Shape, Threads, Telling, Restart, mix' = mix
    PROVE  Threads' /\ Telling'
<1>0. Hands /\ Tables
  BY DEF Shape
<1>1. /\ pc' = [h \in Handlers |-> "idle"] /\ req' = [h \in Handlers |-> NoReq]
      /\ broadcasts' = [i \in DOMAIN broadcasts |-> Interrupted(broadcasts[i])]
      /\ UNCHANGED <<customers, feed, sent, twice, hidden, known>>
  BY DEF Restart, people, letters, history
<1>2. Keeps
  BY <1>1, RestartShape, QuietKeeps
<1>3. ASSUME NEW k \in DOMAIN broadcasts
      PROVE  Untouched(k)
  <2>1. broadcasts[k] \in Broadcast /\ broadcasts'[k] = Interrupted(broadcasts[k]) /\ k \in DOMAIN broadcasts'
    BY <1>0, <1>1, BroadcastIn
  <2> QED BY <1>1, <2>1, InterruptedTyped DEF Untouched
<1>4. DOMAIN broadcasts' = DOMAIN broadcasts
  BY <1>1
<1>5. ASSUME NEW k \in DOMAIN broadcasts'
      PROVE  Recorded(k)'
  BY <1>2, <1>3, <1>4, RecordedStays DEF Threads
<1>6. ASSUME NEW h \in Handlers
      PROVE  (~Sending(pc[h], req[h]) /\ Stands(pc[h], req[h]) /\ Notifying(pc[h], req[h]))'
  <2>1. pc'[h] = "idle" /\ req'[h] = NoReq /\ NoReq.kind = "none"
    BY <1>1, NothingInHand DEF NoReq
  <2> QED BY <2>1 DEF Sending, Stands, Notifying
<1>7. /\ \A q \in feed' : q.about \in DOMAIN broadcasts' \cup {AnOrder}
      /\ \A l \in sent' : l.about \in DOMAIN broadcasts' \cup {AnOrder}
  BY <1>1, <1>4 DEF Threads
<1>8. Threads'
  BY <1>5, <1>6, <1>7 DEF Threads
<1> QED BY <1>1, <1>8, SameTelling

LEMMA QuietThreads ==
    ASSUME Threads, Telling, UNCHANGED <<customers, feed, sent, twice, hidden, broadcasts, known, pc, req>>
    PROVE  Threads' /\ Telling'
<1>1. Met' = Met
  BY DEF Met, Joining
<1>2. ASSUME NEW stage, NEW r, Stands(stage, r)
      PROVE  Stands(stage, r)'
  BY <1>1, <1>2 DEF Stands, Writing, Delivering, Counts, Covered, Tally, Told, Written, Recipients, Past
<1>3. ASSUME NEW stage, NEW r, Notifying(stage, r)
      PROVE  Notifying(stage, r)'
  BY <1>3 DEF Notifying
<1>4. ASSUME NEW i, Recorded(i)
      PROVE  Recorded(i)'
  BY <1>1, <1>4 DEF Recorded, Counts, Covered, Tally, Told, Written, Recipients
<1>5. ASSUME NEW h \in Handlers
      PROVE  (Stands(pc[h], req[h]) /\ Notifying(pc[h], req[h]))'
  <2>1. PICK stage, r : stage = pc[h] /\ r = req[h]
    OBVIOUS
  <2>2. Stands(stage, r)' /\ Notifying(stage, r)'
    BY <1>2, <1>3, <2>1 DEF Threads
  <2> QED BY <2>1, <2>2
<1>6. \A i \in DOMAIN broadcasts' : Recorded(i)'
  BY <1>4 DEF Threads
<1>7. \A h, o \in Handlers :
          (Sending(pc[h], req[h]) /\ Sending(pc[o], req[o]) /\ req[h].about = req[o].about)' => h = o
  BY DEF Threads
<1>8. Threads'
  BY <1>5, <1>6, <1>7 DEF Threads
<1> QED BY <1>8, SameTelling

LEMMA NextThreads ==
    ASSUME Shape, Threads, Telling, [Next]_vars
    PROVE  Threads' /\ Telling'
<1>1. CASE UNCHANGED vars
  BY <1>1, QuietThreads DEF vars, people, letters, requests, history
<1>2. CASE Next
  <2>0. mix' = mix
    BY <1>2 DEF Next
  <2>1. ASSUME NEW h \in Handlers, Requested(h) \/ Step(h) PROVE Threads' /\ Telling'
    BY <2>0, <2>1, AskThreads, DrawThreads, CommitThreads, ReadingThreads, WriteThreads, PushThreads,
       TelegramOrderThreads, TelegramThreads, CreateRowThreads, ReadPageThreads, WriteCountThreads,
       DeliverPageThreads, WriteStatsThreads, FinishThreads DEF Step
  <2>2. ASSUME NEW u \in Users, Poll(u) PROVE Threads' /\ Telling'
    BY <2>2, QuietThreads DEF Poll, people, letters, requests
  <2>3. ASSUME NEW t \in Tokens, Receipt(t) PROVE Threads' /\ Telling'
    BY <2>3, QuietThreads DEF Receipt, letters, requests
  <2>4. ASSUME Restart PROVE Threads' /\ Telling'
    BY <2>0, <2>4, RestartThreads
  <2> QED BY <1>2, <2>1, <2>2, <2>3, <2>4 DEF Next
<1> QED BY <1>1, <1>2

LEMMA InitThreads ==
    ASSUME Init
    PROVE  Threads /\ Telling
<1>1. /\ feed = {} /\ sent = {} /\ twice = {} /\ broadcasts = <<>>
      /\ \A h \in Handlers : pc[h] = "idle" /\ req[h] = NoReq
  BY DEF Init
<1>2. \A h \in Handlers : req[h].kind = "none"
  BY <1>1 DEF NoReq
<1>3. Threads
  BY <1>1, <1>2 DEF Threads, Sending, Stands, Notifying
<1>4. Telling
  BY <1>1 DEF Telling, ToldOnce, NobodyToldWithoutRow
<1> QED BY <1>3, <1>4

-----------------------------------------------------------------------------
(* Broadcasts: what follows *)

LEMMA ShapeIsTyped ==
    ASSUME Shape, Numbers
    PROVE  TypeOK
<1>1. client \in [Users -> [cursor : (0..drawn) \cup {None}, shown : SUBSET FeedRow]]
  BY DEF Shape, Tables, Numbers, CursorsStand
<1> QED BY <1>1 DEF TypeOK, Shape, Tables, Hands, Numbers, Numbered

LEMMA WhatIsDoneAddsUp ==
    ASSUME Shape, Threads, NEW i \in DOMAIN broadcasts, broadcasts[i].status = "DONE"
    PROVE  /\ Recipients(broadcasts[i]) \ hidden \subseteq Written(i)
           /\ broadcasts[i].recipients \in Cardinality(Written(i))..
                 Cardinality(Written(i) \cup ((broadcasts[i].created \cap broadcasts[i].audience) \ customers))
<1>0. Tables
  BY DEF Shape
<1>1. Covered(i) /\ Counts(broadcasts[i].recipients, i, Users)
  BY DEF Threads, Recorded
<1>2. PICK W \in SUBSET (Met \cap Users \cap broadcasts[i].created \cap broadcasts[i].audience) :
        /\ Cardinality(W) = broadcasts[i].recipients
        /\ Written(i) \subseteq W
        /\ W \cap customers \subseteq Written(i)
  BY <1>1 DEF Counts
<1>3. PICK V : V = Written(i) \cup ((broadcasts[i].created \cap broadcasts[i].audience) \ customers)
  OBVIOUS
<1>4. V \in SUBSET Users /\ W \in SUBSET V /\ Written(i) \in SUBSET W /\ W \in SUBSET Users
  <2>1. broadcasts[i].created \subseteq Users /\ Written(i) \subseteq Users
    BY <1>0, BroadcastIn, ToldAre DEF Broadcast
  <2> QED BY <1>2, <1>3, <2>1
<1>5. /\ Cardinality(Written(i)) <= Cardinality(W) /\ Cardinality(W) <= Cardinality(V)
      /\ Cardinality(Written(i)) \in Nat /\ Cardinality(W) \in Nat /\ Cardinality(V) \in Nat
  BY <1>4, Narrower
<1> QED BY <1>1, <1>2, <1>3, <1>5 DEF Covered

LEMMA ThreadsAddUp ==
    ASSUME Shape, Threads
    PROVE  BroadcastsAddUp
<1>1. DoneReachesAll
  BY WhatIsDoneAddsUp DEF DoneReachesAll
<1>2. CountersAddUp
  BY DEF CountersAddUp, Threads, Recorded, Tally
<1> QED BY <1>1, <1>2 DEF BroadcastsAddUp

\* (broadcasts.service.ts:69-72, 204-205, 391-406; order-notifier.service.ts:272-274)
\* Nobody has a broadcast twice, in the feed, by push or by Telegram, and nobody has it
\* or the message about an order without the row of his feed - for any pages, audiences,
\* installations and numbers of broadcasts, whatever fails and whoever comes and goes.
THEOREM EachIsToldOnce == Spec => []EachToldOnce
<1>1. Init => Shape /\ Numbers /\ MissedOnlyOvertaken /\ Threads /\ Telling
  BY InitShape, InitNumbers, InitThreads
<1>2. Shape /\ Numbers /\ MissedOnlyOvertaken /\ Threads /\ Telling /\ [Next]_vars
          => (Shape /\ Numbers /\ MissedOnlyOvertaken /\ Threads /\ Telling)'
  BY NextShape, NextNumbers, NextThreads
<1>3. Shape /\ Numbers /\ Telling => EachToldOnce
  BY ShapeIsTyped DEF EachToldOnce, Telling
<1> QED BY <1>1, <1>2, <1>3, PTL DEF Spec

\* (schema.prisma:1024, broadcasts.service.ts:293-296) A broadcast that is DONE has
\* reached the feed of all it is for, and what it counts lies between those who have a
\* row and those who may have had one; its counters never say more were reached than
\* were, and at the end account for whoever was.
THEOREM BroadcastsAlwaysAddUp == Spec => []BroadcastsAddUp
<1>1. Init => Shape /\ Threads /\ Telling
  BY InitShape, InitThreads
<1>2. Shape /\ Threads /\ Telling /\ [Next]_vars => (Shape /\ Threads /\ Telling)'
  BY NextShape, NextThreads
<1>3. Shape /\ Threads => BroadcastsAddUp
  BY ThreadsAddUp
<1> QED BY <1>1, <1>2, <1>3, PTL DEF Spec
=============================================================================
