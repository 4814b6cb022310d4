----------------------------- MODULE Team_proofs -----------------------------
(***************************************************************************)
(* Proofs about Team, for any sellers, accounts, chats, invitations and    *)
(* number of requests at a time: who is on a team, that an invitation      *)
(* links once, and whom the cards and answers reach.                       *)
(***************************************************************************)
EXTENDS Team, FiniteSetTheorems, SequenceTheorems, TLAPS

-----------------------------------------------------------------------------
(* Sequences *)

LEMMA SetOfTail ==
    ASSUME NEW S, NEW s \in Seq(S), s # <<>>
    PROVE  /\ Head(s) \in S /\ Tail(s) \in Seq(S)
           /\ ToSet(s) = {Head(s)} \cup ToSet(Tail(s))
<1>1. Len(s) \in Nat \ {0} /\ DOMAIN s = 1..Len(s) /\ Head(s) = s[1] /\ Head(s) \in S
  OBVIOUS
<1>2. Tail(s) \in Seq(S) /\ DOMAIN Tail(s) = 1..(Len(s) - 1)
      /\ \A i \in 1..(Len(s) - 1) : Tail(s)[i] = s[i + 1]
  BY <1>1
<1>3. ToSet(s) = {s[i] : i \in 1..Len(s)} /\ ToSet(Tail(s)) = {s[i + 1] : i \in 1..(Len(s) - 1)}
  BY <1>1, <1>2 DEF ToSet
<1>4. \A i \in 1..Len(s) : i = 1 \/ (i - 1 \in 1..(Len(s) - 1) /\ s[i] = s[(i - 1) + 1])
  BY <1>1
<1>5. \A i \in 1..(Len(s) - 1) : i + 1 \in 1..Len(s)
  BY <1>1
<1>6. \A x : x \in ToSet(s) <=> x = Head(s) \/ x \in ToSet(Tail(s))
  <2>1. ASSUME NEW x \in ToSet(s) PROVE x = Head(s) \/ x \in ToSet(Tail(s))
    <3>1. PICK i \in 1..Len(s) : x = s[i]
      BY <1>3
    <3>2. CASE i = 1
      BY <1>1, <3>1, <3>2
    <3>3. CASE i - 1 \in 1..(Len(s) - 1) /\ s[i] = s[(i - 1) + 1]
      BY <1>3, <3>1, <3>3
    <3> QED BY <1>4, <3>1, <3>2, <3>3
  <2>2. Head(s) \in ToSet(s)
    BY <1>1, <1>3
  <2>3. ASSUME NEW x \in ToSet(Tail(s)) PROVE x \in ToSet(s)
    <3>1. PICK i \in 1..(Len(s) - 1) : x = s[i + 1]
      BY <1>3
    <3> QED BY <1>1, <1>3, <1>5, <3>1
  <2> QED BY <2>1, <2>2, <2>3
<1> QED BY <1>1, <1>2, <1>6

LEMMA EmptySet == ToSet(<<>>) = {}
BY DEF ToSet

\* SetToSeq has the elements of the set.
LEMMA SeqOfSet ==
    ASSUME NEW S, IsFiniteSet(S)
    PROVE  SetToSeq(S) \in Seq(S) /\ ToSet(SetToSeq(S)) = S
<1> DEFINE n == Cardinality(S)
           q == SetToSeq(S)
<1>1. n \in Nat /\ ExistsBijection(1..n, S)
  BY FS_CardinalityType
<1>2. PICK b \in Bijection(1..n, S) : TRUE
  BY <1>1 DEF ExistsBijection
<1>3. b \in [1..n -> S] /\ IsInjective(b)
  BY <1>2 DEF Bijection, Injection, IsInjective
<1>4. q \in [1..n -> S] /\ IsInjective(q)
  BY <1>3, Zenon DEF SetToSeq
<1>5. q \in Injection(1..n, S)
  BY <1>4 DEF Injection, IsInjective
<1>6. IsFiniteSet(1..n) /\ Cardinality(1..n) = n
  BY <1>1, FS_Interval
<1>7. q \in Surjection(1..n, S)
  BY <1>5, <1>6, FS_Injection
<1>8. \A x \in S : \E i \in 1..n : q[i] = x
  BY <1>7 DEF Surjection
<1>9. ToSet(q) = S
  BY <1>4, <1>8 DEF ToSet
<1> QED BY <1>1, <1>4, <1>9, SeqDef

-----------------------------------------------------------------------------
(* A step of one handler *)

\* h is now at label with r in hand, everybody else where they were.
Moves(h, label, r) ==
    /\ label \in Label /\ InPlace(label, r)
    /\ pc' = [pc EXCEPT ![h] = label]
    /\ req' = [req EXCEPT ![h] = r]

LEMMA NothingInHand == InPlace("idle", NoReq)
<1>1. NoReq \in Request
  BY DEF NoReq, Request
<1> QED BY <1>1 DEF InPlace, Sound, KindsAt, NoReq, NeedsLogin

LEMMA HandlerFacts ==
    ASSUME TypeOK, RequestsAreSound, NEW h \in Handlers
    PROVE  /\ pc[h] \in Label /\ req[h] \in Request /\ InPlace(pc[h], req[h])
           /\ Sound(req[h]) /\ req[h].kind \in KindsAt(pc[h])
BY DEF TypeOK, RequestsAreSound, InPlace

LEMMA DoneMoves ==
    ASSUME NEW h \in Handlers, Done(h)
    PROVE  Moves(h, "idle", NoReq)
BY NothingInHand DEF Done, Moves, Label

LEMMA StayMoves ==
    ASSUME TypeOK, NEW h \in Handlers, NEW label \in Label, InPlace(label, req[h]),
           Go(h, label), UNCHANGED req
    PROVE  Moves(h, label, req[h])
BY DEF TypeOK, Moves, Go

LEMMA MovedHandlers ==
    ASSUME TypeOK, RequestsAreSound, NEW h \in Handlers, NEW label, NEW r, Moves(h, label, r)
    PROVE  /\ pc' \in [Handlers -> Label] /\ req' \in [Handlers -> Request] /\ RequestsAreSound'
           /\ pc'[h] = label /\ req'[h] = r
           /\ \A o \in Handlers \ {h} : pc'[o] = pc[o] /\ req'[o] = req[o]
<1>1. r \in Request
  BY DEF Moves, InPlace, Sound
<1>2. /\ pc' \in [Handlers -> Label] /\ req' \in [Handlers -> Request]
      /\ pc'[h] = label /\ req'[h] = r
      /\ \A o \in Handlers \ {h} : pc'[o] = pc[o] /\ req'[o] = req[o]
  BY <1>1 DEF Moves, TypeOK
<1>3. \A o \in Handlers : InPlace(pc'[o], req'[o])
  BY <1>2 DEF Moves, RequestsAreSound
<1>4. RequestsAreSound'
  BY <1>3 DEF RequestsAreSound, InPlace, Sound
<1> QED BY <1>2, <1>4

\* Whom a card is for has a chat.
LEMMA AudienceTyped ==
    ASSUME TypeOK, NEW p \in Sellers \cup {None}
    PROVE  Audience(staff, p) \subseteq Chats /\ MayShow(staff, p) \subseteq Chats
BY DEF TypeOK, Audience, MayShow, ChatsOf, Platform, Members, Employee

LEMMA AskMoves ==
    ASSUME IInv, NEW h \in Handlers, NEW r \in mix.requests, Ask(h, r)
    PROVE  /\ Moves(h, First[r.kind], req'[h])
           /\ req'[h].kind = r.kind /\ req'[h].parts = r.parts /\ req'[h].nonce = r.nonce
           /\ req'[h].spent <=> r.kind = "start" /\ (opened[r.nonce] \/ links[r.nonce].expired)
           /\ req'[h].got = {} /\ req'[h].excused = {}
<1>1. Sound(r) /\ r.kind # "none" /\ r.got = {} /\ r.excused = {}
  BY MixesAssumption DEF IInv, TypeOK
<1> DEFINE p == IF r.kind \in NeedsLogin THEN staff[r.by] ELSE None
           b == r.kind = "start" /\ (opened[r.nonce] \/ links[r.nonce].expired)
           q == [r EXCEPT !.principal = p, !.spent = b]
<1>2. req' = [req EXCEPT ![h] = q] /\ pc' = [pc EXCEPT ![h] = First[r.kind]]
  BY DEF Ask, Go
<1>3. req'[h] = q
  BY <1>2 DEF IInv, TypeOK
<1>4. r \in Request
  BY <1>1 DEF Sound
<1>5. p \in Employee \cup {None}
  BY <1>1 DEF IInv, TypeOK, Sound
<1>6. b \in BOOLEAN
  OBVIOUS
<1>7. /\ q \in Request
      /\ q.kind = r.kind /\ q.by = r.by /\ q.seller = r.seller /\ q.account = r.account
      /\ q.chat = r.chat /\ q.nonce = r.nonce /\ q.parts = r.parts
      /\ q.got = r.got /\ q.excused = r.excused
      /\ q.spent = b
  <2> HIDE DEF p, b
  <2>1. q \in Request
    BY <1>4, <1>5, <1>6, Zenon DEF Request
  <2>2. /\ q.kind = r.kind /\ q.by = r.by /\ q.seller = r.seller /\ q.account = r.account
        /\ q.chat = r.chat /\ q.nonce = r.nonce /\ q.parts = r.parts
        /\ q.got = r.got /\ q.excused = r.excused
    BY <1>4 DEF Request
  <2>3. q.spent = b
    BY <1>4 DEF Request
  <2> QED BY <2>1, <2>2, <2>3
<1>8. Sound(q)
  BY <1>1, <1>7 DEF Sound
<1>9. r.kind \in DOMAIN First
  BY <1>1, <1>4 DEF Request
<1>10. /\ First[r.kind] \in Label \ {"idle", "occupant", "linked", "answer", "card", "send", "sent"}
       /\ r.kind \in KindsAt(First[r.kind])
  BY <1>9 DEF First, Label, KindsAt, NeedsLogin
<1>11. InPlace(First[r.kind], q)
  BY <1>7, <1>8, <1>10 DEF InPlace
<1> QED BY <1>1, <1>2, <1>3, <1>7, <1>10, <1>11 DEF Moves

LEMMA ManageMoves ==
    ASSUME TypeOK, RequestsAreSound, NEW h \in Handlers, Manage(h) \/ Member(h) \/ Occupant(h)
    PROVE  \E label \in Label : Moves(h, label, IF label = "idle" THEN NoReq ELSE req[h])
<1> USE HandlerFacts
<1>1. CASE Manage(h)
  <2>1. CASE Done(h)
    BY <2>1, DoneMoves DEF Label
  <2>2. CASE Go(h, IF req[h].kind = "hire" THEN "write" ELSE "member") /\ UNCHANGED req
    <3> DEFINE label == IF req[h].kind = "hire" THEN "write" ELSE "member"
    <3>1. label \in Label \ {"idle"} /\ InPlace(label, req[h])
      BY <1>1 DEF Manage, InPlace, KindsAt, NeedsLogin, Label
    <3> QED BY <2>2, <3>1, StayMoves
  <2> QED BY <1>1, <2>1, <2>2 DEF Manage
<1>2. CASE Member(h)
  <2>1. CASE Done(h)
    BY <2>1, DoneMoves DEF Label
  <2>2. CASE Go(h, "write") /\ UNCHANGED req
    <3>1. InPlace("write", req[h]) /\ "write" \in Label \ {"idle"}
      BY <1>2 DEF Member, InPlace, KindsAt, NeedsLogin, Label
    <3> QED BY <2>2, <3>1, StayMoves
  <2> QED BY <1>2, <2>1, <2>2 DEF Member
<1>3. CASE Occupant(h)
  <2>1. CASE Done(h)
    BY <2>1, DoneMoves DEF Label
  <2>2. CASE Go(h, "linked") /\ UNCHANGED req
    <3>1. InPlace("linked", req[h]) /\ "linked" \in Label \ {"idle"}
      BY <1>3 DEF Occupant, InPlace, KindsAt, Label
    <3> QED BY <2>2, <3>1, StayMoves
  <2> QED BY <1>3, <2>1, <2>2 DEF Occupant
<1> QED BY <1>1, <1>2, <1>3

LEMMA FindMoves ==
    ASSUME TypeOK, RequestsAreSound, NEW h \in Handlers, Find(h), links[req[h].nonce] # None
    PROVE  \/ Moves(h, "idle", NoReq)
           \/ /\ Moves(h, "occupant", [req[h] EXCEPT !.account = links[req[h].nonce].user])
              /\ ~links[req[h].nonce].consumed /\ ~links[req[h].nonce].expired
<1> DEFINE r == req[h]
           u == links[req[h].nonce].user
           q == [r EXCEPT !.account = u]
<1>1. CASE Done(h)
  BY <1>1, DoneMoves
<1>2. CASE /\ req' = [req EXCEPT ![h].account = u] /\ Go(h, "occupant")
           /\ ~(links[r.nonce].consumed \/ links[r.nonce].expired)
  <2>1. r.kind = "start" /\ Sound(r) /\ r \in Request
    BY HandlerFacts DEF Find, KindsAt
  <2>2. u \in Accounts
    BY <2>1 DEF TypeOK, Sound, Invitation
  <2>3. q \in Request /\ q.account = u /\ q.kind = r.kind /\ q.chat = r.chat /\ q.nonce = r.nonce
    BY <2>1, <2>2 DEF Request
  <2>4. InPlace("occupant", q)
    BY <2>1, <2>2, <2>3 DEF InPlace, Sound, KindsAt, NeedsLogin
  <2> QED BY <1>2, <2>4 DEF Moves, Go, Label, TypeOK
<1> QED BY <1>1, <1>2 DEF Find

LEMMA RecipientsMoves ==
    ASSUME TypeOK, RequestsAreSound, NEW h \in Handlers, Recipients(h)
    PROVE  \/ req[h].parts = <<>> /\ Moves(h, "sent", req[h])
           \/ /\ req[h].parts # <<>>
              /\ Part(req[h]) \in Sellers \cup {None}
              /\ Moves(h, "card", [req[h] EXCEPT !.left = SetToSeq(Audience(staff, Part(req[h])))])
           \/ /\ req[h].parts # <<>>
              /\ Part(req[h]) \in Sellers \cup {None}
              /\ Moves(h, "recipients", [req[h] EXCEPT !.parts = Tail(@),
                          !.excused = @ \cup {Card(c, Part(req[h])) : c \in Chats}])
<1> DEFINE r == req[h]
<1>1. r.kind = "cards" /\ Sound(r) /\ r \in Request /\ pc[h] = "recipients"
  BY HandlerFacts DEF Recipients, KindsAt
<1>2. CASE r.parts = <<>> /\ Go(h, "sent") /\ UNCHANGED req
  <2>1. InPlace("sent", r) /\ "sent" \in Label
    BY <1>1, <1>2 DEF InPlace, KindsAt, Label
  <2> QED BY <1>2, <2>1, StayMoves
<1>3. CASE r.parts # <<>>
  <2>1. r.parts \in Seq(Sellers \cup {None})
    BY <1>1 DEF Request
  <2>2. Part(r) \in Sellers \cup {None} /\ Tail(r.parts) \in Seq(Sellers \cup {None})
    BY <1>3, <2>1, SetOfTail DEF Part
  <2>3. CASE /\ req' = [req EXCEPT ![h].left = SetToSeq(Audience(staff, Part(r)))]
             /\ Go(h, "card")
    <3> DEFINE q == [r EXCEPT !.left = SetToSeq(Audience(staff, Part(r)))]
    <3>1. Audience(staff, Part(r)) \subseteq Chats /\ IsFiniteSet(Audience(staff, Part(r)))
      BY <2>2, AudienceTyped, ChatsAssumption, FS_Subset
    <3>2. SetToSeq(Audience(staff, Part(r))) \in Seq(Chats)
      <4>1. SetToSeq(Audience(staff, Part(r))) \in Seq(Audience(staff, Part(r)))
        BY <3>1, SeqOfSet
      <4> QED BY <3>1, <4>1, SeqDef
    <3>3. q \in Request /\ q.kind = r.kind /\ q.parts = r.parts
      BY <1>1, <3>2 DEF Request
    <3>4. InPlace("card", q)
      BY <1>1, <1>3, <3>3 DEF InPlace, Sound, KindsAt, NeedsLogin
    <3> QED BY <1>3, <2>2, <2>3, <3>4 DEF Moves, Go, Label, TypeOK
  <2>4. CASE /\ req' = [req EXCEPT ![h].parts = Tail(@),
                            ![h].excused = @ \cup {Card(c, Part(r)) : c \in Chats}]
             /\ UNCHANGED pc
    <3> DEFINE q == [r EXCEPT !.parts = Tail(@), !.excused = @ \cup {Card(c, Part(r)) : c \in Chats}]
    <3>1. {Card(c, Part(r)) : c \in Chats} \subseteq Told
      BY <2>2 DEF Card, Told
    <3>2. q \in Request /\ q.kind = r.kind
      BY <1>1, <2>2, <3>1 DEF Request
    <3>3. InPlace("recipients", q)
      BY <1>1, <3>2 DEF InPlace, Sound, KindsAt, NeedsLogin
    <3>4. pc' = [pc EXCEPT ![h] = "recipients"]
      BY <1>1, <2>4 DEF TypeOK
    <3> QED BY <1>3, <2>2, <2>4, <3>3, <3>4 DEF Moves, Label, TypeOK
  <2> QED BY <1>3, <2>3, <2>4 DEF Recipients
<1> QED BY <1>2, <1>3 DEF Recipients

LEMMA BuildCardMoves ==
    ASSUME TypeOK, RequestsAreSound, NEW h \in Handlers, BuildCard(h)
    PROVE  \/ Moves(h, "send", req[h])
           \/ Moves(h, "send", [req[h] EXCEPT !.left = <<>>,
                          !.excused = @ \cup {Card(c, Part(req[h])) : c \in Chats}])
<1> DEFINE r == req[h]
           all == {Card(c, Part(r)) : c \in Chats}
           q == [r EXCEPT !.left = <<>>, !.excused = @ \cup all]
<1>1. r.kind = "cards" /\ Sound(r) /\ r \in Request /\ r.parts # <<>>
  BY HandlerFacts DEF BuildCard, KindsAt, InPlace
<1>2. CASE UNCHANGED req
  <2>1. InPlace("send", r) /\ "send" \in Label
    BY <1>1 DEF InPlace, KindsAt, Label
  <2> QED BY <1>2, <2>1, StayMoves DEF BuildCard
<1>3. CASE req' = [req EXCEPT ![h].left = <<>>,
                     ![h].excused = @ \cup {Card(c, Part(r)) : c \in Chats}]
  <2>1. r.parts \in Seq(Sellers \cup {None})
    BY <1>1 DEF Request
  <2>2. all \subseteq Told
    BY <1>1, <2>1, SetOfTail DEF Card, Told, Part
  <2>3. q \in Request /\ q.kind = r.kind /\ q.parts = r.parts
    <3>1. <<>> \in Seq(Chats)
      OBVIOUS
    <3> HIDE DEF all
    <3> QED BY <1>1, <2>2, <3>1 DEF Request
  <2>4. InPlace("send", q)
    BY <1>1, <2>3 DEF InPlace, Sound, KindsAt, NeedsLogin
  <2> QED BY <1>3, <2>4 DEF BuildCard, Moves, Go, Label, TypeOK
<1> QED BY <1>2, <1>3 DEF BuildCard

LEMMA SendCardMoves ==
    ASSUME TypeOK, RequestsAreSound, NEW h \in Handlers, SendCard(h)
    PROVE  \/ /\ req[h].left = <<>>
              /\ Moves(h, "recipients", [req[h] EXCEPT !.parts = Tail(@)])
           \/ /\ req[h].left # <<>>
              /\ \/ Moves(h, "send", [req[h] EXCEPT !.got = @ \cup {Card(Head(req[h].left), Part(req[h]))},
                                                   !.left = Tail(@)])
                 \/ Moves(h, "send", [req[h] EXCEPT !.excused = @ \cup {Card(Head(req[h].left), Part(req[h]))},
                                                   !.left = Tail(@)])
<1> DEFINE r == req[h]
           card == Card(Head(r.left), Part(r))
<1>1. r.kind = "cards" /\ Sound(r) /\ r \in Request /\ r.parts # <<>> /\ pc[h] = "send"
  BY HandlerFacts DEF SendCard, KindsAt, InPlace
<1>2. r.parts \in Seq(Sellers \cup {None}) /\ r.left \in Seq(Chats)
  BY <1>1 DEF Request
<1>3. Part(r) \in Sellers \cup {None} /\ Tail(r.parts) \in Seq(Sellers \cup {None})
  BY <1>1, <1>2, SetOfTail DEF Part
<1>4. CASE r.left = <<>>
  <2> DEFINE q == [r EXCEPT !.parts = Tail(@)]
  <2>1. q \in Request /\ q.kind = r.kind
    BY <1>1, <1>3 DEF Request
  <2>2. InPlace("recipients", q)
    BY <1>1, <2>1 DEF InPlace, Sound, KindsAt, NeedsLogin
  <2> QED BY <1>4, <2>2 DEF SendCard, Moves, Go, Label, TypeOK
<1>5. CASE r.left # <<>>
  <2>1. card \in Told /\ Tail(r.left) \in Seq(Chats)
    BY <1>2, <1>3, <1>5, SetOfTail DEF Card, Told
  <2>2. pc' = [pc EXCEPT ![h] = "send"]
    BY <1>1, <1>5 DEF SendCard, TypeOK
  <2>3. CASE req' = [req EXCEPT ![h].got = @ \cup {card}, ![h].left = Remaining(@, TRUE)]
    <3> DEFINE q == [r EXCEPT !.got = @ \cup {card}, !.left = Tail(@)]
    <3>1. q \in Request /\ q.kind = r.kind /\ q.parts = r.parts
      BY <1>1, <2>1 DEF Request
    <3>2. InPlace("send", q)
      BY <1>1, <3>1 DEF InPlace, Sound, KindsAt, NeedsLogin
    <3> QED BY <1>5, <2>2, <2>3, <3>2 DEF Moves, Label, TypeOK, Remaining
  <2>4. CASE req' = [req EXCEPT ![h].excused = @ \cup {card}, ![h].left = Remaining(@, FALSE)]
    <3> DEFINE q == [r EXCEPT !.excused = @ \cup {card}, !.left = Tail(@)]
    <3>1. q \in Request /\ q.kind = r.kind /\ q.parts = r.parts
      BY <1>1, <2>1 DEF Request
    <3>2. InPlace("send", q)
      BY <1>1, <3>1 DEF InPlace, Sound, KindsAt, NeedsLogin
    <3> QED BY <1>5, <2>2, <2>4, <3>2 DEF Moves, Label, TypeOK, Remaining
  <2> QED BY <1>5, <2>3, <2>4 DEF SendCard
<1> QED BY <1>4, <1>5

LEMMA ResolveMoves ==
    ASSUME TypeOK, RequestsAreSound, NEW h \in Handlers, Resolve(h)
    PROVE  \/ Moves(h, "idle", NoReq)
           \/ \E u \in HasChat(req[h].chat) :
                 /\ staff[u].role = "SUPER_ADMIN" \/ (staff[u].role = "SELLER" /\ staff[u].seller # None)
                 /\ Moves(h, "answer", [req[h] EXCEPT !.principal = staff[u]])
<1> DEFINE r == req[h]
           us == {u \in HasChat(r.chat) :
                     staff[u].role = "SUPER_ADMIN" \/ (staff[u].role = "SELLER" /\ staff[u].seller # None)}
<1>1. CASE Done(h)
  BY <1>1, DoneMoves
<1>2. CASE us # {} /\ req' = [req EXCEPT ![h].principal = staff[CHOOSE u \in us : TRUE]] /\ Go(h, "answer")
  <2>1. PICK u \in us : u = CHOOSE v \in us : TRUE
    BY <1>2
  <2>2. r.kind \in {"list", "show"} /\ Sound(r) /\ r \in Request
    BY HandlerFacts DEF Resolve, KindsAt
  <2>3. staff[u] \in Employee
    BY <2>1 DEF HasChat, TypeOK
  <2> DEFINE q == [r EXCEPT !.principal = staff[u]]
  <2>4. q \in Request /\ q.principal = staff[u] /\ q.kind = r.kind /\ q.chat = r.chat /\ q.seller = r.seller
    BY <2>2, <2>3 DEF Request
  <2>5. InPlace("answer", q)
    BY <2>2, <2>3, <2>4 DEF InPlace, Sound, KindsAt, NeedsLogin
  <2>6. Moves(h, "answer", q)
    BY <1>2, <2>1, <2>5 DEF Moves, Go, Label, TypeOK
  <2> QED BY <2>1, <2>6
<1> QED BY <1>1, <1>2 DEF Resolve

LEMMA AnswerMoves ==
    ASSUME TypeOK, RequestsAreSound, NEW h \in Handlers, Answer(h)
    PROVE  \E shown \in SUBSET Sellers :
              /\ shown \subseteq IF req[h].principal.role = "SUPER_ADMIN" THEN Sellers
                                 ELSE {s \in Sellers : req[h].principal.seller = s}
              /\ Moves(h, "sent", [req[h] EXCEPT !.got = {Card(req[h].chat, s) : s \in shown}])
<1> DEFINE r == req[h]
           shown == IF r.kind = "list" THEN Shows(r.principal) ELSE ShowsOne(r.principal, r.seller)
           got == {Card(r.chat, s) : s \in shown}
           q == [r EXCEPT !.got = got]
<1>1. /\ r.kind \in {"list", "show"} /\ Sound(r) /\ r \in Request /\ r.principal \in Employee
      /\ r.chat \in Chats
      /\ r.kind = "show" => r.seller \in Sellers
  BY HandlerFacts DEF Answer, KindsAt, InPlace, Sound
<1>2. shown \subseteq IF r.principal.role = "SUPER_ADMIN" THEN Sellers
                      ELSE {s \in Sellers : r.principal.seller = s}
  BY <1>1 DEF Shows, ShowsOne
<1>3. shown \subseteq Sellers
  BY <1>2
<1> HIDE DEF shown
<1>4. got \subseteq Told
  BY <1>1, <1>3 DEF Card, Told
<1>5. q \in Request /\ q.kind = r.kind /\ q.parts = r.parts /\ q.chat = r.chat /\ q.seller = r.seller
  BY <1>1, <1>4 DEF Request
<1>6. InPlace("sent", q)
  BY <1>1, <1>5 DEF InPlace, Sound, KindsAt, NeedsLogin
<1>7. req' = [req EXCEPT ![h] = q]
  BY DEF Answer, shown, TypeOK
<1>8. Moves(h, "sent", q)
  BY <1>6, <1>7 DEF Answer, Moves, Go, Label
<1> QED BY <1>2, <1>3, <1>8

-----------------------------------------------------------------------------
(* The tables *)

\* The part of the invariant about the tables alone.
Tables ==
    /\ staff \in [Accounts -> Employee \cup {None}]
    /\ owner \in [Sellers -> Accounts \cup {None}]
    /\ links \in [Nonces -> Invitation \cup {None}]
    /\ retired \subseteq Accounts
    /\ OwnersStay
    /\ \A u \in retired : staff[u] = None

\* Nobody changes teams, no id and no invitation is taken up again.
Kept ==
    /\ retired \subseteq retired'
    /\ \A u \in Accounts : staff[u] # None =>
          u \in retired' \/ (staff'[u] # None /\ staff'[u].seller = staff[u].seller)
    /\ \A n \in Nonces : links[n] # None =>
          /\ links'[n] # None
          /\ links[n].consumed => links'[n].consumed
          /\ links[n].expired => links'[n].expired

LEMMA RowsKept ==
    ASSUME Tables, UNCHANGED rows
    PROVE  Tables' /\ Kept
BY DEF Tables, Kept, rows, OwnersStay

LEMMA ChatKept ==
    ASSUME Tables, NEW u \in Accounts, staff[u] # None, NEW c \in Chats \cup {None},
           staff' = [staff EXCEPT ![u].chat = c], UNCHANGED <<owner, retired>>
    PROVE  /\ staff' \in [Accounts -> Employee \cup {None}]
           /\ owner' \in [Sellers -> Accounts \cup {None}] /\ retired' \subseteq Accounts
           /\ OwnersStay' /\ \A v \in retired' : staff'[v] = None
           /\ \A v \in Accounts : staff[v] # None => staff'[v] # None /\ staff'[v].seller = staff[v].seller
<1>1. staff[u] \in Employee
  BY DEF Tables
<1>2. [staff[u] EXCEPT !.chat = c] \in Employee /\ [staff[u] EXCEPT !.chat = c].seller = staff[u].seller
  BY <1>1 DEF Employee
<1>3. [staff[u] EXCEPT !.chat = c] # None
  BY <1>2, NoneAssumption
<1>4. staff' \in [Accounts -> Employee \cup {None}]
      /\ \A v \in Accounts : staff[v] # None => staff'[v] # None /\ staff'[v].seller = staff[v].seller
  BY <1>2, <1>3 DEF Tables
<1>5. \A v \in retired : staff'[v] = None
  BY DEF Tables
<1>6. OwnersStay'
  BY <1>4 DEF Tables, OwnersStay
<1> QED BY <1>4, <1>5, <1>6 DEF Tables

\* sellers and seller-staff: who is opened, hired and fired.
LEMMA WrittenKeeps ==
    ASSUME TypeOK, RequestsAreSound, Tables, MembersStay, NEW h \in Handlers,
           pc[h] = "write", Written(req[h])
    PROVE  Tables' /\ Kept
<1> DEFINE r == req[h]
<1>1. Sound(r) /\ r.by \in Accounts
  BY HandlerFacts DEF KindsAt, Sound
<1>2. ASSUME NEW a \in Accounts, NEW s \in Sellers, Unused(a),
             staff' = [staff EXCEPT ![a] = Person("SELLER", s)], UNCHANGED <<links, retired>>,
             \/ UNCHANGED owner
             \/ owner[s] = None /\ owner' = [owner EXCEPT ![s] = a]
      PROVE  Tables' /\ Kept
  <2>1. Person("SELLER", s) \in Employee /\ Person("SELLER", s) # None /\ Person("SELLER", s).seller = s
    BY NoneAssumption DEF Person, Employee
  <2>2. staff' \in [Accounts -> Employee \cup {None}] /\ owner' \in [Sellers -> Accounts \cup {None}]
    BY <1>2, <2>1 DEF Tables
  <2>3. staff'[a] = Person("SELLER", s) /\ \A v \in Accounts \ {a} : staff'[v] = staff[v]
    BY <1>2 DEF Tables
  <2>4. a \notin retired /\ staff[a] = None
    BY <1>2 DEF Unused
  <2>5. OwnersStay'
    <3> SUFFICES ASSUME NEW t \in Sellers, owner'[t] # None
                 PROVE  staff'[owner'[t]] # None /\ staff'[owner'[t]].seller = t
      BY DEF OwnersStay
    <3>1. CASE owner'[t] = owner[t]
      BY <2>2, <2>3, <2>4, <3>1 DEF Tables, OwnersStay
    <3>2. CASE t = s /\ owner'[t] = a
      BY <2>1, <2>3, <3>2
    <3> QED BY <1>2, <3>1, <3>2 DEF Tables
  <2> QED BY <1>2, <2>2, <2>3, <2>4, <2>5 DEF Tables, Kept
<1>3. CASE r.kind = "open" /\ Open(r)
  BY <1>1, <1>2, <1>3 DEF Open, Sound
<1>4. CASE r.kind = "hire" /\ Hire(r)
  BY <1>1, <1>2, <1>4 DEF Hire, Sound
<1>5. CASE r.kind = "fire" /\ Fire(r)
  <2> DEFINE a == r.account
  <2>1. a \in Accounts /\ r.seller \in Sellers
    BY <1>1, <1>5 DEF Sound
  <2>2. /\ staff[a] # None /\ a # owner[r.seller] /\ UNCHANGED <<owner, links>>
        /\ staff' = [staff EXCEPT ![a] = None] /\ retired' = retired \cup {a}
    BY <1>5 DEF Fire, Fires
  <2>3. staff[a].seller = r.seller
    BY <1>5, <2>2 DEF MembersStay
  <2>4. \A t \in Sellers : owner[t] # a
    BY <2>1, <2>2, <2>3, NoneAssumption DEF Tables, OwnersStay
  <2>5. staff' \in [Accounts -> Employee \cup {None}] /\ staff'[a] = None
        /\ \A v \in Accounts \ {a} : staff'[v] = staff[v]
    BY <2>1, <2>2 DEF Tables
  <2>6. OwnersStay'
    BY <2>2, <2>4, <2>5 DEF Tables, OwnersStay
  <2> QED BY <2>1, <2>2, <2>5, <2>6 DEF Tables, Kept
<1>6. ASSUME NEW a \in Accounts, Invite(a) PROVE Tables' /\ Kept
  <2>1. PICK n \in Nonces :
            /\ links[n] = None
            /\ links' = [links EXCEPT ![n] = [user |-> a, consumed |-> FALSE, expired |-> FALSE]]
    BY <1>6 DEF Invite
  <2>2. [user |-> a, consumed |-> FALSE, expired |-> FALSE] \in Invitation
    BY DEF Invitation
  <2>3. links' \in [Nonces -> Invitation \cup {None}]
        /\ \A m \in Nonces : links[m] # None => links'[m] = links[m]
    BY <2>1, <2>2 DEF Tables
  <2>4. UNCHANGED <<staff, owner, retired>>
    BY <1>6 DEF Invite
  <2> QED BY <2>3, <2>4 DEF Tables, Kept, OwnersStay
<1>7. ASSUME NEW a \in Accounts, Unlink(a) PROVE Tables' /\ Kept
  <2>1. /\ staff[a] # None /\ staff' = [staff EXCEPT ![a].chat = None]
        /\ UNCHANGED <<owner, links, retired>>
    BY <1>7 DEF Unlink
  <2> QED BY <2>1, ChatKept DEF Tables, Kept
<1>8. CASE r.kind = "invite" /\ Invite(r.account)
  BY <1>1, <1>6, <1>8 DEF Sound
<1>9. CASE r.kind = "unlink" /\ Unlink(r.account)
  BY <1>1, <1>7, <1>9 DEF Sound
<1>10. CASE Invite(r.by)
  BY <1>1, <1>6, <1>10
<1>11. CASE Unlink(r.by)
  BY <1>1, <1>7, <1>11
<1> QED BY <1>3, <1>4, <1>5, <1>8, <1>9, <1>10, <1>11 DEF Written

\* telegram-link.service.ts: the link of a chat.
LEMMA LinkKeeps ==
    ASSUME TypeOK, RequestsAreSound, Tables, UsedIsOver, NEW h \in Handlers, Link(h)
    PROVE  /\ Tables' /\ Kept
           /\ \/ UNCHANGED <<rows, opened, reopened>>
              \/ /\ opened' = [opened EXCEPT ![req[h].nonce] = TRUE]
                 /\ links'[req[h].nonce] # None /\ links'[req[h].nonce].consumed
                 /\ reopened' = (reopened \/ req[h].spent)
<1> DEFINE r == req[h]
<1>1. /\ r.account \in Accounts /\ r.chat \in Chats /\ r.nonce \in Nonces
      /\ pc[h] = "linked" /\ r.kind = "start"
  BY HandlerFacts DEF Link, InPlace, Sound, KindsAt
<1>2. CASE UNCHANGED <<rows, opened, reopened>>
  BY <1>2, RowsKept
<1>3. CASE /\ staff[r.account] # None
           /\ staff' = [staff EXCEPT ![r.account].chat = r.chat] /\ UNCHANGED <<owner, retired>>
           /\ Consumed(r.nonce)
           /\ opened' = [opened EXCEPT ![r.nonce] = TRUE] /\ reopened' = (reopened \/ r.spent)
  <2>1. links[r.nonce] # None /\ links[r.nonce] \in Invitation
    BY <1>1 DEF UsedIsOver, Tables
  <2>2. [links[r.nonce] EXCEPT !.consumed = TRUE] \in Invitation
    BY <2>1 DEF Invitation
  <2>3. /\ [links[r.nonce] EXCEPT !.consumed = TRUE].consumed
        /\ [links[r.nonce] EXCEPT !.consumed = TRUE].expired = links[r.nonce].expired
    BY <2>1 DEF Invitation
  <2>4. /\ links' \in [Nonces -> Invitation \cup {None}]
        /\ links'[r.nonce] = [links[r.nonce] EXCEPT !.consumed = TRUE]
        /\ \A n \in Nonces \ {r.nonce} : links'[n] = links[n]
    BY <1>1, <1>3, <2>2 DEF Tables, Consumed
  <2>5. links'[r.nonce] # None
    BY <2>2, <2>4, NoneAssumption
  <2>6. Tables'
    BY <1>1, <1>3, <2>4, ChatKept DEF Tables
  <2>7. Kept
    BY <1>1, <1>3, <2>3, <2>4, <2>5, ChatKept DEF Tables, Kept
  <2> QED BY <1>3, <2>3, <2>4, <2>5, <2>6, <2>7
<1> QED BY <1>2, <1>3 DEF Link

LEMMA ExpireKeeps ==
    ASSUME Tables, NEW n \in Nonces, Expire(n)
    PROVE  Tables' /\ Kept
<1>1. /\ links[n] # None /\ links' = [links EXCEPT ![n].expired = TRUE]
      /\ UNCHANGED <<staff, owner, retired>> /\ links[n] \in Invitation
  BY DEF Expire, Tables
<1>2. [links[n] EXCEPT !.expired = TRUE] \in Invitation
  BY <1>1 DEF Invitation
<1>3. /\ [links[n] EXCEPT !.expired = TRUE].expired
      /\ [links[n] EXCEPT !.expired = TRUE].consumed = links[n].consumed
  BY <1>1 DEF Invitation
<1>4. /\ links' \in [Nonces -> Invitation \cup {None}]
      /\ links'[n] = [links[n] EXCEPT !.expired = TRUE]
      /\ \A m \in Nonces \ {n} : links'[m] = links[m]
  BY <1>1, <1>2 DEF Tables
<1>5. links'[n] # None
  BY <1>2, <1>4, NoneAssumption
<1> QED BY <1>1, <1>3, <1>4, <1>5 DEF Tables, Kept, OwnersStay

-----------------------------------------------------------------------------
(* Who is told *)

\* The part of the invariant about what h has told, is about to tell and still owes.
ToldInTime(h) ==
    /\ req[h].got \subseteq seen[h].ever
    /\ pc[h] \in {"card", "send"} =>
          \A c \in ToSet(req[h].left) : Card(c, Part(req[h])) \in seen[h].ever
    /\ pc[h] = "answer" =>
          \A s \in Sellers : req[h].principal.role = "SUPER_ADMIN" \/ req[h].principal.seller = s =>
              Card(req[h].chat, s) \in seen[h].ever
    /\ pc[h] # "idle" /\ req[h].kind = "cards" =>
          \A c \in seen[h].always : c \in req[h].got \cup req[h].excused \/ StillToCome(h, c)

LEMMA CardParts ==
    ASSUME NEW c \in Told
    PROVE  c.chat \in Chats /\ c.seller \in Sellers \cup {None} /\ c = Card(c.chat, c.seller)
BY DEF Told, Card

LEMMA InScopeTyped ==
    ASSUME TypeOK, NEW r, Sound(r), NEW users \in [Accounts -> Employee \cup {None}]
    PROVE  InScope(r, users) \subseteq Told
<1>1. r.parts \in Seq(Sellers \cup {None})
  BY DEF Sound, Request
<1>2. ToSet(r.parts) \subseteq Sellers \cup {None}
  BY <1>1 DEF ToSet
<1>3. \A p \in Sellers \cup {None} : Audience(users, p) \subseteq Chats /\ MayShow(users, p) \subseteq Chats
  BY DEF Audience, MayShow, ChatsOf, Platform, Members, Employee
<1> QED BY <1>2, <1>3 DEF InScope, Card, Told

\* Whoever is owed a card of a notification is in the audience of one of its parts.
LEMMA InScopeCards ==
    ASSUME NEW r, r.kind = "cards", NEW users
    PROVE  /\ \A c \in InScope(r, users) : c.seller \in ToSet(r.parts) /\ c.chat \in Audience(users, c.seller)
           /\ \A p \in ToSet(r.parts) : \A ch \in Audience(users, p) : Card(ch, p) \in InScope(r, users)
BY DEF InScope, Card

LEMMA InScopeShown ==
    ASSUME NEW r, r.kind # "cards", NEW users, NEW s \in Sellers, NEW ch \in MayShow(users, s)
    PROVE  Card(ch, s) \in InScope(r, users)
BY DEF InScope

\* What the history of a request gains in a step.
LEMMA WatchFacts ==
    ASSUME TypeOK, RequestsAreSound, RequestsAreSound',
           staff' \in [Accounts -> Employee \cup {None}], NEW o \in Handlers,
           seen' = [h \in Handlers |-> Watch(h)]
    PROVE  /\ seen'[o] \in [ever : SUBSET Told, always : SUBSET Told]
           /\ pc'[o] = "idle" => seen'[o].ever = {} /\ seen'[o].always = {}
           /\ pc'[o] # "idle" /\ pc[o] = "idle" =>
                 seen'[o].always = InScope(req'[o], staff)
           /\ pc'[o] # "idle" /\ pc[o] # "idle" =>
                 /\ seen[o].ever \subseteq seen'[o].ever
                 /\ InScope(req[o], staff') \subseteq seen'[o].ever
                 /\ seen'[o].always \subseteq seen[o].always
                 /\ \A c \in seen'[o].always : req[o].kind = "cards" /\ c.seller \in ToSet(req[o].parts) =>
                       c \in InScope(req[o], staff')
<1>1. seen'[o] = Watch(o)
  OBVIOUS
<1>2. Sound(req[o]) /\ Sound(req'[o])
  BY DEF RequestsAreSound, InPlace, Sound
<1>3. seen[o] \in [ever : SUBSET Told, always : SUBSET Told]
  BY DEF TypeOK
<1>4. CASE pc'[o] = "idle"
  BY <1>1, <1>4 DEF Watch, Nothing
<1>5. CASE pc'[o] # "idle" /\ pc[o] = "idle"
  <2> DEFINE now == InScope(req'[o], staff)
  <2>1. seen'[o] = [ever |-> now, always |-> now]
    BY <1>1, <1>5 DEF Watch
  <2>2. now \subseteq Told
    BY <1>2, InScopeTyped DEF TypeOK
  <2> HIDE DEF now
  <2>3. seen'[o].always = now /\ seen'[o].ever = now
    BY <2>1
  <2> QED BY <1>5, <2>1, <2>2, <2>3 DEF now
<1>6. CASE pc'[o] # "idle" /\ pc[o] # "idle"
  <2> DEFINE now == InScope(req[o], staff')
             over == {c \in seen[o].always : req[o].kind = "cards" /\ c.seller \notin ToSet(req[o].parts)}
  <2>1. seen'[o] = [ever |-> seen[o].ever \cup now, always |-> (seen[o].always \cap now) \cup over]
    BY <1>1, <1>6 DEF Watch
  <2>2. now \subseteq Told
    BY <1>2, InScopeTyped
  <2>3. over \subseteq seen[o].always
        /\ \A c \in over : req[o].kind = "cards" /\ c.seller \notin ToSet(req[o].parts)
    OBVIOUS
  <2> HIDE DEF now, over
  <2>4. seen'[o].ever = seen[o].ever \cup now /\ seen'[o].always = (seen[o].always \cap now) \cup over
    BY <2>1
  <2>5. seen'[o] \in [ever : SUBSET Told, always : SUBSET Told]
    BY <1>3, <2>1, <2>2, <2>3
  <2> QED BY <1>6, <2>3, <2>4, <2>5 DEF now
<1> QED BY <1>4, <1>5, <1>6

\* Whatever others do, what is in order for a request stays so.
LEMMA StillInTime ==
    ASSUME TypeOK, RequestsAreSound, RequestsAreSound',
           staff' \in [Accounts -> Employee \cup {None}], NEW o \in Handlers,
           seen' = [h \in Handlers |-> Watch(h)],
           ToldInTime(o), pc'[o] = pc[o], req'[o] = req[o]
    PROVE  ToldInTime(o)'
<1>1. CASE pc[o] = "idle"
  <2>1. req'[o] = NoReq /\ pc'[o] = "idle"
    BY <1>1 DEF RequestsAreSound, InPlace
  <2> QED BY <2>1 DEF ToldInTime, NoReq
<1>2. CASE pc[o] # "idle"
  <2>1. seen[o].ever \subseteq seen'[o].ever /\ seen'[o].always \subseteq seen[o].always
    BY <1>2, WatchFacts
  <2> QED BY <2>1 DEF ToldInTime, StillToCome, Part
<1> QED BY <1>1, <1>2

LEMMA IdleInTime ==
    ASSUME NEW h, pc'[h] = "idle", req'[h] = NoReq
    PROVE  ToldInTime(h)'
BY DEF ToldInTime, NoReq

LEMMA NotACardInTime ==
    ASSUME NEW h, pc'[h] \notin {"answer", "card", "send"}, req'[h].kind # "cards", req'[h].got = {}
    PROVE  ToldInTime(h)'
BY DEF ToldInTime

LEMMA AskInTime ==
    ASSUME IInv, NEW h \in Handlers, NEW r \in mix.requests, Ask(h, r),
           RequestsAreSound', seen' = [o \in Handlers |-> Watch(o)]
    PROVE  ToldInTime(h)'
<1>1. /\ pc'[h] = First[r.kind] /\ req'[h].kind = r.kind /\ req'[h].parts = r.parts
      /\ req'[h].got = {} /\ r.kind \in DOMAIN First /\ pc[h] = "idle"
  <2>1. r.kind \in DOMAIN First
    BY MixesAssumption DEF Sound, Request, IInv, TypeOK
  <2>2. pc'[h] = First[r.kind]
    BY AskMoves, MovedHandlers DEF IInv
  <2>3. pc[h] = "idle"
    BY DEF Ask
  <2> QED BY <2>1, <2>2, <2>3, AskMoves
<1>2. CASE r.kind # "cards"
  <2>1. pc'[h] \notin {"answer", "card", "send"}
    BY <1>1 DEF First
  <2> QED BY <1>1, <1>2, <2>1, NotACardInTime
<1>3. CASE r.kind = "cards"
  <2>1. pc'[h] = "recipients"
    BY <1>1, <1>3 DEF First
  <2>2. seen'[h].always = InScope(req'[h], staff)
    <3>1. TypeOK /\ RequestsAreSound /\ staff' \in [Accounts -> Employee \cup {None}]
      BY DEF IInv, Ask, rows, TypeOK
    <3> QED BY <1>1, <2>1, <3>1, WatchFacts
  <2>3. \A c \in seen'[h].always : c.seller \in ToSet(req'[h].parts)
    BY <1>1, <1>3, <2>2, InScopeCards
  <2> QED BY <1>1, <2>1, <2>3 DEF ToldInTime, StillToCome
<1> QED BY <1>2, <1>3

\* The state of a handler in the middle of its request, after a step that changes only it.
Acting(h) ==
    /\ TypeOK /\ RequestsAreSound /\ RequestsAreSound'
    /\ ToldInTime(h)
    /\ UNCHANGED rows
    /\ seen' = [o \in Handlers |-> Watch(o)]

LEMMA ActingFacts ==
    ASSUME NEW h \in Handlers, NEW label, NEW r, Acting(h), Moves(h, label, r), label # "idle", pc[h] # "idle"
    PROVE  /\ pc'[h] = label /\ req'[h] = r
           /\ seen[h].ever \subseteq seen'[h].ever
           /\ InScope(req[h], staff) \subseteq seen'[h].ever
           /\ seen'[h].always \subseteq seen[h].always
           /\ \A c \in seen'[h].always : req[h].kind = "cards" /\ c.seller \in ToSet(req[h].parts) =>
                 c \in InScope(req[h], staff)
<1>1. pc'[h] = label /\ req'[h] = r
  BY MovedHandlers DEF Acting
<1>2. staff' = staff
  BY DEF Acting, rows
<1>3. staff' \in [Accounts -> Employee \cup {None}]
  BY <1>2 DEF Acting, TypeOK
<1> QED BY <1>1, <1>2, <1>3, WatchFacts DEF Acting

LEMMA RecipientsInTime ==
    ASSUME NEW h \in Handlers, Acting(h), Recipients(h)
    PROVE  ToldInTime(h)'
<1> DEFINE r == req[h]
           part == Part(r)
<1>1. /\ r.kind = "cards" /\ r \in Request /\ pc[h] = "recipients"
      /\ r.parts \in Seq(Sellers \cup {None})
  BY HandlerFacts DEF Recipients, KindsAt, Acting, Request
<1>2. /\ r.got \subseteq seen[h].ever
      /\ \A c \in seen[h].always : c \in r.got \cup r.excused \/ c.seller \in ToSet(r.parts)
  BY <1>1 DEF Acting, ToldInTime, StillToCome
<1>3. CASE r.parts = <<>> /\ Moves(h, "sent", r)
  <2>1. ToSet(r.parts) = {}
    BY <1>3, EmptySet
  <2> QED BY <1>1, <1>2, <1>3, <2>1, ActingFacts DEF ToldInTime
<1>4. ASSUME r.parts # <<>>
      PROVE  /\ ToSet(r.parts) = {part} \cup ToSet(Tail(r.parts))
             /\ part \in Sellers \cup {None}
             /\ Audience(staff, part) \subseteq Chats
  BY <1>1, <1>4, SetOfTail, AudienceTyped DEF Part, Acting
<1>5. CASE /\ r.parts # <<>>
           /\ Moves(h, "card", [r EXCEPT !.left = SetToSeq(Audience(staff, part))])
  <2> DEFINE q == [r EXCEPT !.left = SetToSeq(Audience(staff, part))]
  <2>1. /\ q.kind = r.kind /\ q.parts = r.parts /\ q.got = r.got /\ q.excused = r.excused
        /\ q.left = SetToSeq(Audience(staff, part))
    BY <1>1 DEF Request
  <2>2. ToSet(q.left) = Audience(staff, part)
    BY <1>4, <1>5, <2>1, SeqOfSet, ChatsAssumption, FS_Subset
  <2>3. /\ pc'[h] = "card" /\ req'[h] = q
        /\ seen[h].ever \subseteq seen'[h].ever
        /\ InScope(r, staff) \subseteq seen'[h].ever
        /\ seen'[h].always \subseteq seen[h].always
        /\ \A c \in seen'[h].always : c.seller \in ToSet(r.parts) => c \in InScope(r, staff)
    BY <1>1, <1>5, ActingFacts
  <2> HIDE DEF q
  <2>4. \A c \in ToSet(q.left) : Card(c, part) \in seen'[h].ever
    BY <1>1, <1>4, <1>5, <2>2, <2>3, InScopeCards
  <2>5. \A c \in seen'[h].always :
            \/ c \in q.got \cup q.excused
            \/ c.seller \in ToSet(Tail(q.parts))
            \/ c.seller = part /\ c.chat \in ToSet(q.left)
    <3> SUFFICES ASSUME NEW c \in seen'[h].always, c \notin q.got \cup q.excused
                 PROVE  \/ c.seller \in ToSet(Tail(q.parts))
                        \/ c.seller = part /\ c.chat \in ToSet(q.left)
      OBVIOUS
    <3>1. c.seller \in ToSet(r.parts)
      BY <1>2, <2>1, <2>3
    <3>2. c \in InScope(r, staff)
      BY <2>3, <3>1
    <3>3. c.chat \in Audience(staff, c.seller)
      BY <1>1, <3>2, InScopeCards
    <3>4. c.seller = part \/ c.seller \in ToSet(Tail(r.parts))
      BY <1>4, <1>5, <3>1
    <3> QED BY <2>1, <2>2, <3>3, <3>4
  <2> QED BY <1>2, <2>1, <2>3, <2>4, <2>5 DEF ToldInTime, StillToCome, Part
<1>6. CASE /\ r.parts # <<>>
           /\ Moves(h, "recipients", [r EXCEPT !.parts = Tail(@),
                                            !.excused = @ \cup {Card(c, part) : c \in Chats}])
  <2> DEFINE all == {Card(c, part) : c \in Chats}
             q == [r EXCEPT !.parts = Tail(@), !.excused = @ \cup all]
  <2>1. /\ q.kind = r.kind /\ q.parts = Tail(r.parts) /\ q.got = r.got /\ q.excused = r.excused \cup all
    BY <1>1 DEF Request
  <2>2. /\ pc'[h] = "recipients" /\ req'[h] = q
        /\ seen[h].ever \subseteq seen'[h].ever
        /\ seen'[h].always \subseteq seen[h].always
    BY <1>1, <1>6, ActingFacts
  <2>3. seen[h].always \subseteq Told
    BY DEF Acting, TypeOK
  <2>4. \A c \in Told : c.seller = part => c \in all
    BY CardParts
  <2> HIDE DEF q, all
  <2>5. \A c \in seen'[h].always : c \in q.got \cup q.excused \/ c.seller \in ToSet(q.parts)
    BY <1>2, <1>4, <1>6, <2>1, <2>2, <2>3, <2>4
  <2> QED BY <1>2, <2>1, <2>2, <2>5 DEF ToldInTime, StillToCome
<1> QED BY <1>3, <1>5, <1>6, RecipientsMoves DEF Acting

LEMMA BuildCardInTime ==
    ASSUME NEW h \in Handlers, Acting(h), BuildCard(h)
    PROVE  ToldInTime(h)'
<1> DEFINE r == req[h]
           part == Part(r)
           all == {Card(c, part) : c \in Chats}
           q == [r EXCEPT !.left = <<>>, !.excused = @ \cup all]
<1>1. r.kind = "cards" /\ r \in Request /\ pc[h] = "card"
  BY HandlerFacts DEF BuildCard, KindsAt, Acting
<1>2. /\ r.got \subseteq seen[h].ever
      /\ \A c \in ToSet(r.left) : Card(c, part) \in seen[h].ever
      /\ \A c \in seen[h].always :
            \/ c \in r.got \cup r.excused
            \/ c.seller \in ToSet(Tail(r.parts))
            \/ c.seller = part /\ c.chat \in ToSet(r.left)
  BY <1>1 DEF Acting, ToldInTime, StillToCome
<1>3. CASE Moves(h, "send", r)
  <2>1. /\ pc'[h] = "send" /\ req'[h] = r
        /\ seen[h].ever \subseteq seen'[h].ever /\ seen'[h].always \subseteq seen[h].always
    BY <1>1, <1>3, ActingFacts
  <2> QED BY <1>2, <2>1 DEF ToldInTime, StillToCome
<1>4. CASE Moves(h, "send", q)
  <2>1. /\ q.kind = r.kind /\ q.parts = r.parts /\ q.got = r.got
        /\ q.excused = r.excused \cup all /\ q.left = <<>>
    BY <1>1 DEF Request
  <2>2. /\ pc'[h] = "send" /\ req'[h] = q
        /\ seen[h].ever \subseteq seen'[h].ever /\ seen'[h].always \subseteq seen[h].always
    BY <1>1, <1>4, ActingFacts
  <2>3. \A c \in seen[h].always : c.seller = part => c \in all
    BY CardParts DEF Acting, TypeOK
  <2> HIDE DEF q, all
  <2>4. \A c \in seen'[h].always : c \in q.got \cup q.excused \/ c.seller \in ToSet(Tail(q.parts))
    BY <1>2, <2>1, <2>2, <2>3
  <2>5. ToSet(q.left) = {}
    BY <2>1, EmptySet
  <2> QED BY <1>2, <2>1, <2>2, <2>4, <2>5 DEF ToldInTime, StillToCome
<1> QED BY <1>3, <1>4, BuildCardMoves DEF Acting

LEMMA SendCardInTime ==
    ASSUME NEW h \in Handlers, Acting(h), SendCard(h)
    PROVE  ToldInTime(h)'
<1> DEFINE r == req[h]
           part == Part(r)
           card == Card(Head(r.left), part)
<1>1. /\ r.kind = "cards" /\ r \in Request /\ pc[h] = "send"
      /\ r.parts \in Seq(Sellers \cup {None}) /\ r.left \in Seq(Chats)
  BY HandlerFacts DEF SendCard, KindsAt, Acting, Request
<1>2. /\ r.got \subseteq seen[h].ever
      /\ \A c \in ToSet(r.left) : Card(c, part) \in seen[h].ever
      /\ \A c \in seen[h].always :
            \/ c \in r.got \cup r.excused
            \/ c.seller \in ToSet(Tail(r.parts))
            \/ c.seller = part /\ c.chat \in ToSet(r.left)
  BY <1>1 DEF Acting, ToldInTime, StillToCome
<1>3. CASE r.left = <<>> /\ Moves(h, "recipients", [r EXCEPT !.parts = Tail(@)])
  <2> DEFINE q == [r EXCEPT !.parts = Tail(@)]
  <2>1. /\ q.kind = r.kind /\ q.parts = Tail(r.parts) /\ q.got = r.got /\ q.excused = r.excused
    BY <1>1 DEF Request
  <2>2. /\ pc'[h] = "recipients" /\ req'[h] = q
        /\ seen[h].ever \subseteq seen'[h].ever /\ seen'[h].always \subseteq seen[h].always
    BY <1>1, <1>3, ActingFacts
  <2> HIDE DEF q
  <2>3. ToSet(r.left) = {}
    BY <1>3, EmptySet
  <2> QED BY <1>2, <2>1, <2>2, <2>3 DEF ToldInTime, StillToCome
<1>4. ASSUME r.left # <<>>, NEW q, Moves(h, "send", q),
             q.kind = r.kind, q.parts = r.parts, q.left = Tail(r.left), q.got \subseteq r.got \cup {card},
             q.got \cup q.excused = r.got \cup r.excused \cup {card}
      PROVE  ToldInTime(h)'
  <2>1. ToSet(r.left) = {Head(r.left)} \cup ToSet(q.left)
    BY <1>1, <1>4, SetOfTail
  <2>2. /\ pc'[h] = "send" /\ req'[h] = q
        /\ seen[h].ever \subseteq seen'[h].ever /\ seen'[h].always \subseteq seen[h].always
    BY <1>1, <1>4, ActingFacts
  <2>3. card \in seen'[h].ever /\ q.got \subseteq seen'[h].ever
        /\ \A c \in ToSet(q.left) : Card(c, part) \in seen'[h].ever
    BY <1>2, <1>4, <2>1, <2>2
  <2>4. \A c \in seen[h].always : c = Card(c.chat, c.seller)
    BY CardParts DEF Acting, TypeOK
  <2>5. \A c \in seen'[h].always :
            \/ c \in q.got \cup q.excused
            \/ c.seller \in ToSet(Tail(q.parts))
            \/ c.seller = part /\ c.chat \in ToSet(q.left)
    BY <1>2, <1>4, <2>1, <2>2, <2>4
  <2> QED BY <1>4, <2>2, <2>3, <2>5 DEF ToldInTime, StillToCome, Part
<1>5. ASSUME r.left # <<>>, Moves(h, "send", [r EXCEPT !.got = @ \cup {card}, !.left = Tail(@)])
      PROVE  ToldInTime(h)'
  <2> DEFINE q == [r EXCEPT !.got = @ \cup {card}, !.left = Tail(@)]
  <2>1. /\ q.kind = r.kind /\ q.parts = r.parts /\ q.left = Tail(r.left)
        /\ q.got = r.got \cup {card} /\ q.excused = r.excused
    BY <1>1 DEF Request
  <2> HIDE DEF q
  <2> QED BY <1>4, <1>5, <2>1 DEF q
<1>6. ASSUME r.left # <<>>, Moves(h, "send", [r EXCEPT !.excused = @ \cup {card}, !.left = Tail(@)])
      PROVE  ToldInTime(h)'
  <2> DEFINE q == [r EXCEPT !.excused = @ \cup {card}, !.left = Tail(@)]
  <2>1. /\ q.kind = r.kind /\ q.parts = r.parts /\ q.left = Tail(r.left)
        /\ q.got = r.got /\ q.excused = r.excused \cup {card}
    BY <1>1 DEF Request
  <2> HIDE DEF q
  <2> QED BY <1>4, <1>6, <2>1 DEF q
<1> QED BY <1>3, <1>5, <1>6, SendCardMoves DEF Acting

LEMMA ResolveInTime ==
    ASSUME NEW h \in Handlers, Acting(h), Resolve(h)
    PROVE  ToldInTime(h)'
<1> DEFINE r == req[h]
<1>1. r.kind \in {"list", "show"} /\ r \in Request /\ pc[h] = "resolve" /\ r.chat \in Chats
  BY HandlerFacts DEF Resolve, KindsAt, Acting, Sound
<1>2. CASE Moves(h, "idle", NoReq)
  BY <1>2, MovedHandlers, IdleInTime DEF Acting
<1>3. ASSUME NEW u \in HasChat(r.chat),
             staff[u].role = "SUPER_ADMIN" \/ (staff[u].role = "SELLER" /\ staff[u].seller # None),
             Moves(h, "answer", [r EXCEPT !.principal = staff[u]])
      PROVE  ToldInTime(h)'
  <2> DEFINE q == [r EXCEPT !.principal = staff[u]]
  <2>1. q.kind = r.kind /\ q.principal = staff[u] /\ q.chat = r.chat /\ q.got = r.got
    BY <1>1 DEF Request
  <2>2. /\ pc'[h] = "answer" /\ req'[h] = q
        /\ seen[h].ever \subseteq seen'[h].ever /\ InScope(r, staff) \subseteq seen'[h].ever
    BY <1>1, <1>3, ActingFacts
  <2> HIDE DEF q
  <2>3. u \in Accounts /\ staff[u] # None /\ staff[u].chat = r.chat /\ r.chat # None
    BY <1>1, NoneAssumption DEF HasChat
  <2>4. ASSUME NEW s \in Sellers, staff[u].role = "SUPER_ADMIN" \/ staff[u].seller = s
        PROVE  Card(r.chat, s) \in seen'[h].ever
    <3>1. r.chat \in MayShow(staff, s)
      BY <2>3, <2>4 DEF MayShow, ChatsOf, Platform, Members
    <3> QED BY <1>1, <2>2, <3>1, InScopeShown
  <2>5. r.got \subseteq seen[h].ever
    BY DEF Acting, ToldInTime
  <2> QED BY <1>1, <2>1, <2>2, <2>4, <2>5 DEF ToldInTime
<1> QED BY <1>2, <1>3, ResolveMoves DEF Acting

LEMMA AnswerInTime ==
    ASSUME NEW h \in Handlers, Acting(h), Answer(h)
    PROVE  ToldInTime(h)'
<1> DEFINE r == req[h]
<1>1. r.kind \in {"list", "show"} /\ r \in Request /\ pc[h] = "answer"
  BY HandlerFacts DEF Answer, KindsAt, Acting
<1>2. PICK shown \in SUBSET Sellers :
         /\ shown \subseteq IF r.principal.role = "SUPER_ADMIN" THEN Sellers
                            ELSE {s \in Sellers : r.principal.seller = s}
         /\ Moves(h, "sent", [r EXCEPT !.got = {Card(r.chat, s) : s \in shown}])
  BY AnswerMoves DEF Acting
<1> DEFINE got == {Card(r.chat, s) : s \in shown}
           q == [r EXCEPT !.got = got]
<1>3. \A s \in shown : Card(r.chat, s) \in seen[h].ever
  BY <1>1, <1>2 DEF Acting, ToldInTime
<1>4. got \subseteq seen[h].ever
  BY <1>3
<1>5. pc'[h] = "sent" /\ req'[h] = q /\ seen[h].ever \subseteq seen'[h].ever
  BY <1>1, <1>2, ActingFacts
<1>6. q.kind = r.kind /\ q.got = got
  BY <1>1 DEF Request
<1> HIDE DEF q, got
<1> QED BY <1>1, <1>4, <1>5, <1>6 DEF ToldInTime

-----------------------------------------------------------------------------
(* The invariant *)

LEMMA InvParts ==
    ASSUME IInv
    PROVE  /\ TypeOK /\ RequestsAreSound /\ Tables /\ MembersStay /\ UsedIsOver /\ ~reopened
           /\ \A h \in Handlers : ToldInTime(h)
BY DEF IInv, TypeOK, Tables, MembersStay, InvitationOpensOnce, CardsStayInTheTeam, AboutToTell,
       OwedIsToCome, ToldInTime

\* What a step leaves for the handler that makes it.
MembersFound(label, r) ==
    label = "write" /\ r.kind = "fire" =>
        r.account \in retired \/ (staff[r.account] # None /\ staff[r.account].seller = r.seller)

InvitationRead(label, r) ==
    r.kind = "start" =>
        /\ links[r.nonce] # None
        /\ r.spent => links[r.nonce].consumed \/ links[r.nonce].expired
        /\ label \in {"occupant", "linked"} => ~r.spent

\* A step of h, if it is in order for h and for the tables, is in order for everybody.
LEMMA MoveKeeps ==
    ASSUME IInv, NEW h \in Handlers, NEW label, NEW r, Moves(h, label, r),
           Tables', Kept, seen' = [o \in Handlers |-> Watch(o)], mix' = mix,
           asked' \in Nat, failures' \in Nat, opened' \in [Nonces -> BOOLEAN], ~reopened', reopened' \in BOOLEAN,
           \A n \in Nonces : opened'[n] => links'[n] # None /\ links'[n].consumed,
           MembersFound(label, r)', InvitationRead(label, r)', ToldInTime(h)'
    PROVE  IInv'
<1>1. /\ TypeOK /\ RequestsAreSound /\ Tables /\ MembersStay /\ UsedIsOver
      /\ \A o \in Handlers : ToldInTime(o)
  BY InvParts
<1>2. /\ pc' \in [Handlers -> Label] /\ req' \in [Handlers -> Request] /\ RequestsAreSound'
      /\ pc'[h] = label /\ req'[h] = r
      /\ \A o \in Handlers \ {h} : pc'[o] = pc[o] /\ req'[o] = req[o]
  BY <1>1, MovedHandlers
<1>3. staff' \in [Accounts -> Employee \cup {None}]
  BY DEF Tables
<1>4. seen' \in [Handlers -> [ever : SUBSET Told, always : SUBSET Told]]
  <2>1. \A o \in Handlers : seen'[o] \in [ever : SUBSET Told, always : SUBSET Told]
    BY <1>1, <1>2, <1>3, WatchFacts
  <2> QED BY <2>1
<1>5. TypeOK'
  <2>1. mix' \in Mixes
    BY <1>1 DEF TypeOK
  <2> QED BY <1>2, <1>4, <2>1 DEF TypeOK, Tables
<1>6. MembersStay'
  <2> SUFFICES ASSUME NEW o \in Handlers, pc'[o] = "write", req'[o].kind = "fire"
               PROVE  \/ req'[o].account \in retired'
                      \/ staff'[req'[o].account] # None /\ staff'[req'[o].account].seller = req'[o].seller
    BY DEF MembersStay, Tables
  <2>1. CASE o = h
    BY <1>2, <2>1 DEF MembersFound
  <2>2. CASE o # h
    <3>1. pc[o] = "write" /\ req[o].kind = "fire" /\ req'[o] = req[o] /\ req[o].account \in Accounts
      BY <1>1, <1>2, <2>2, HandlerFacts DEF Sound
    <3> QED BY <1>1, <3>1 DEF MembersStay, Kept
  <2> QED BY <2>1, <2>2
<1>7. UsedIsOver'
  <2> SUFFICES ASSUME NEW o \in Handlers, req'[o].kind = "start"
               PROVE  /\ links'[req'[o].nonce] # None
                      /\ req'[o].spent => links'[req'[o].nonce].consumed \/ links'[req'[o].nonce].expired
                      /\ pc'[o] \in {"occupant", "linked"} => ~req'[o].spent
    BY DEF UsedIsOver
  <2>1. CASE o = h
    BY <1>2, <2>1 DEF InvitationRead
  <2>2. CASE o # h
    <3>1. req[o].kind = "start" /\ req'[o] = req[o] /\ pc'[o] = pc[o] /\ req[o].nonce \in Nonces
      BY <1>1, <1>2, <2>2, HandlerFacts DEF Sound
    <3> QED BY <1>1, <3>1 DEF UsedIsOver, Kept
  <2> QED BY <2>1, <2>2
<1>8. \A o \in Handlers : ToldInTime(o)'
  BY <1>1, <1>2, <1>3, StillInTime
<1> QED BY <1>2, <1>5, <1>6, <1>7, <1>8
        DEF IInv, Tables, InvitationOpensOnce, CardsStayInTheTeam, AboutToTell, OwedIsToCome, ToldInTime

LEMMA QuietKeeps ==
    ASSUME IInv, NEW h \in Handlers, NEW label, NEW r, Moves(h, label, r),
           UNCHANGED <<rows, opened, reopened, mix>>, seen' = [o \in Handlers |-> Watch(o)],
           asked' \in Nat, failures' \in Nat,
           MembersFound(label, r), InvitationRead(label, r), ToldInTime(h)'
    PROVE  IInv'
<1>1. Tables' /\ Kept
  BY InvParts, RowsKept
<1>2. /\ opened' \in [Nonces -> BOOLEAN] /\ reopened' \in BOOLEAN /\ ~reopened'
      /\ \A n \in Nonces : opened'[n] => links'[n] # None /\ links'[n].consumed
  BY InvParts DEF TypeOK, UsedIsOver, rows
<1>3. MembersFound(label, r)' /\ InvitationRead(label, r)'
  BY DEF MembersFound, InvitationRead, rows
<1> QED BY <1>1, <1>2, <1>3, MoveKeeps

LEMMA EndKeeps ==
    ASSUME IInv, NEW h \in Handlers, Done(h), Tables', Kept, mix' = mix,
           seen' = [o \in Handlers |-> Watch(o)], asked' \in Nat, failures' \in Nat,
           opened' \in [Nonces -> BOOLEAN], reopened' \in BOOLEAN, ~reopened',
           \A n \in Nonces : opened'[n] => links'[n] # None /\ links'[n].consumed
    PROVE  IInv'
<1>1. Moves(h, "idle", NoReq)
  BY DoneMoves
<1>2. pc'[h] = "idle" /\ req'[h] = NoReq
  BY <1>1, InvParts, MovedHandlers
<1>3. ToldInTime(h)'
  BY <1>2, IdleInTime
<1>4. MembersFound("idle", NoReq)' /\ InvitationRead("idle", NoReq)'
  BY DEF MembersFound, InvitationRead, NoReq
<1> QED BY <1>1, <1>3, <1>4, MoveKeeps

LEMMA AskKeeps ==
    ASSUME IInv, NEW h \in Handlers, NEW r \in mix.requests, Ask(h, r), mix' = mix,
           seen' = [o \in Handlers |-> Watch(o)]
    PROVE  IInv'
<1> DEFINE q == req'[h]
<1>1. /\ Moves(h, First[r.kind], q) /\ q.kind = r.kind /\ q.nonce = r.nonce
      /\ q.spent <=> r.kind = "start" /\ (opened[r.nonce] \/ links[r.nonce].expired)
  BY AskMoves
<1>2. RequestsAreSound'
  BY <1>1, InvParts, MovedHandlers
<1>3. ToldInTime(h)'
  BY <1>2, AskInTime
<1>4. Sound(r) /\ r.kind \in DOMAIN First
  BY InvParts, MixesAssumption DEF TypeOK, Sound, Request
<1>5. First[r.kind] \notin {"occupant", "linked"} /\ (r.kind = "fire" => First[r.kind] # "write")
  BY <1>4 DEF First
<1>6. MembersFound(First[r.kind], q)
  BY <1>1, <1>5 DEF MembersFound
<1>7. InvitationRead(First[r.kind], q)
  <2>1. r.kind = "start" => r.nonce \in Nonces /\ links[r.nonce] # None
    BY <1>4 DEF Ask, Sound
  <2>2. r.kind = "start" /\ opened[r.nonce] => links[r.nonce].consumed
    BY <2>1, InvParts DEF UsedIsOver
  <2> QED BY <1>1, <1>5, <2>1, <2>2 DEF InvitationRead
<1>8. UNCHANGED <<rows, opened, reopened>> /\ asked' \in Nat /\ failures' \in Nat
  BY InvParts DEF Ask, TypeOK
<1> QED BY <1>1, <1>3, <1>6, <1>7, <1>8, QuietKeeps

\* manage, member and occupant: a check, and the next place of the code.
LEMMA CheckKeeps ==
    ASSUME IInv, NEW h \in Handlers, Manage(h) \/ Member(h) \/ Occupant(h), mix' = mix,
           seen' = [o \in Handlers |-> Watch(o)]
    PROVE  IInv'
<1> DEFINE r == req[h]
<1>1. UNCHANGED <<rows, opened, reopened>> /\ asked' \in Nat /\ failures' \in Nat
  BY InvParts DEF Manage, Member, Occupant, TypeOK, bounds
<1>2. PICK label \in Label : Moves(h, label, IF label = "idle" THEN NoReq ELSE r)
  BY InvParts, ManageMoves
<1>3. /\ r.kind \in KindsAt(pc[h]) /\ pc[h] \in {"manage", "member", "occupant"}
      /\ Sound(r) /\ r.got \subseteq seen[h].ever
  BY InvParts, HandlerFacts DEF Manage, Member, Occupant, ToldInTime
<1>4. pc'[h] = label /\ req'[h] = IF label = "idle" THEN NoReq ELSE r
  BY <1>2, InvParts, MovedHandlers
<1>5. CASE label = "idle"
  BY <1>1, <1>2, <1>4, <1>5, IdleInTime, QuietKeeps DEF MembersFound, InvitationRead, NoReq
<1>6. CASE label # "idle"
  <2>1. label \notin {"answer", "card", "send"} /\ r.kind # "cards"
    BY <1>2, <1>3, <1>6 DEF KindsAt, Moves, InPlace
  <2>2. r.got \subseteq seen'[h].ever
    <3>1. RequestsAreSound'
      BY <1>2, InvParts, MovedHandlers
    <3>2. Acting(h)
      BY <1>1, <3>1, InvParts DEF Acting
    <3> QED BY <1>2, <1>3, <1>6, <3>2, ActingFacts
  <2>3. ToldInTime(h)'
    BY <1>4, <1>6, <2>1, <2>2 DEF ToldInTime
  <2>4. MembersFound(label, r)
    <3>1. CASE Manage(h)
      BY <1>4, <1>6, <3>1, InvParts DEF Manage, Go, Done, TypeOK, MembersFound
    <3>2. CASE Member(h)
      BY <1>4, <1>6, <3>2, InvParts DEF Member, Go, Done, TypeOK, MembersFound
    <3>3. CASE Occupant(h)
      BY <1>3, <3>3 DEF Occupant, KindsAt, MembersFound
    <3> QED BY <3>1, <3>2, <3>3
  <2>5. InvitationRead(label, r)
    <3>1. r.kind = "start" => pc[h] = "occupant"
      BY <1>3 DEF KindsAt
    <3> QED BY <3>1, InvParts DEF UsedIsOver, InvitationRead
  <2> QED BY <1>1, <1>2, <1>6, <2>3, <2>4, <2>5, QuietKeeps
<1> QED BY <1>5, <1>6

LEMMA WriteKeeps ==
    ASSUME IInv, NEW h \in Handlers, Write(h), mix' = mix, seen' = [o \in Handlers |-> Watch(o)]
    PROVE  IInv'
<1>1. Tables' /\ Kept
  BY InvParts, RowsKept, WrittenKeeps DEF Write
<1>2. /\ UNCHANGED <<opened, reopened>> /\ asked' \in Nat /\ failures' \in Nat /\ Done(h)
  BY InvParts DEF Write, TypeOK, bounds
<1>3. \A n \in Nonces : opened'[n] => links'[n] # None /\ links'[n].consumed
  BY <1>1, <1>2, InvParts DEF UsedIsOver, Kept
<1>4. opened' \in [Nonces -> BOOLEAN] /\ reopened' \in BOOLEAN /\ ~reopened'
  BY <1>2, InvParts DEF TypeOK
<1> QED BY <1>1, <1>2, <1>3, <1>4, EndKeeps

LEMMA FindKeeps ==
    ASSUME IInv, NEW h \in Handlers, Find(h), mix' = mix, seen' = [o \in Handlers |-> Watch(o)]
    PROVE  IInv'
<1> DEFINE r == req[h]
           q == [r EXCEPT !.account = links[r.nonce].user]
<1>1. UNCHANGED <<rows, opened, reopened>> /\ asked' \in Nat /\ failures' \in Nat
  BY InvParts DEF Find, TypeOK, bounds
<1>2. r.kind = "start" /\ r \in Request /\ r.nonce \in Nonces /\ pc[h] = "find"
  BY InvParts, HandlerFacts DEF Find, KindsAt, Sound
<1>3. links[r.nonce] # None /\ (r.spent => links[r.nonce].consumed \/ links[r.nonce].expired)
  BY <1>2, InvParts DEF UsedIsOver
<1>4. CASE Moves(h, "idle", NoReq)
  <2>1. pc'[h] = "idle" /\ req'[h] = NoReq
    BY <1>4, InvParts, MovedHandlers
  <2> QED BY <1>1, <1>4, <2>1, IdleInTime, QuietKeeps DEF MembersFound, InvitationRead, NoReq
<1>5. CASE Moves(h, "occupant", q) /\ ~links[r.nonce].consumed /\ ~links[r.nonce].expired
  <2>1. q.kind = r.kind /\ q.nonce = r.nonce /\ q.spent = r.spent /\ q.got = r.got
    BY <1>2 DEF Request
  <2>2. RequestsAreSound' /\ pc'[h] = "occupant" /\ req'[h] = q
    BY <1>5, InvParts, MovedHandlers
  <2>3. Acting(h)
    BY <1>1, <2>2, InvParts DEF Acting
  <2>4. r.got \subseteq seen'[h].ever
    BY <1>2, <1>5, <2>3, ActingFacts DEF Acting, ToldInTime
  <2> HIDE DEF q
  <2>5. ToldInTime(h)'
    BY <1>2, <2>1, <2>2, <2>4 DEF ToldInTime
  <2>6. MembersFound("occupant", q) /\ InvitationRead("occupant", q)
    BY <1>2, <1>3, <1>5, <2>1 DEF MembersFound, InvitationRead
  <2> QED BY <1>1, <1>5, <2>5, <2>6, QuietKeeps DEF q
<1> QED BY <1>3, <1>4, <1>5, InvParts, FindMoves

LEMMA LinkStepKeeps ==
    ASSUME IInv, NEW h \in Handlers, Link(h), mix' = mix, seen' = [o \in Handlers |-> Watch(o)]
    PROVE  IInv'
<1> DEFINE r == req[h]
<1>1. Done(h) /\ asked' \in Nat /\ failures' \in Nat
  BY InvParts DEF Link, TypeOK, Broken, Fine, bounds
<1>2. /\ Tables' /\ Kept
      /\ \/ UNCHANGED <<rows, opened, reopened>>
         \/ /\ opened' = [opened EXCEPT ![r.nonce] = TRUE]
            /\ links'[r.nonce] # None /\ links'[r.nonce].consumed
            /\ reopened' = (reopened \/ r.spent)
  BY InvParts, LinkKeeps
<1>3. r.kind = "start" /\ ~r.spent /\ r.nonce \in Nonces
  BY InvParts, HandlerFacts DEF Link, KindsAt, Sound, UsedIsOver
<1>4. \A n \in Nonces : opened[n] => links'[n] # None /\ links'[n].consumed
  BY <1>2, InvParts DEF UsedIsOver, Kept
<1>5. opened \in [Nonces -> BOOLEAN] /\ reopened \in BOOLEAN /\ ~reopened
  BY InvParts DEF TypeOK
<1>6. /\ opened' \in [Nonces -> BOOLEAN]
      /\ \A n \in Nonces : opened'[n] => links'[n] # None /\ links'[n].consumed
  <2>1. CASE UNCHANGED opened
    BY <1>4, <1>5, <2>1
  <2>2. CASE opened' = [opened EXCEPT ![r.nonce] = TRUE] /\ links'[r.nonce] # None /\ links'[r.nonce].consumed
    <3>1. opened' \in [Nonces -> BOOLEAN] /\ \A n \in Nonces : opened'[n] => n = r.nonce \/ opened[n]
      BY <1>3, <1>5, <2>2
    <3> QED BY <1>4, <2>2, <3>1
  <2> QED BY <1>2, <2>1, <2>2
<1>7. reopened' \in BOOLEAN /\ ~reopened'
  <2>1. CASE reopened' = reopened
    BY <1>5, <2>1
  <2>2. CASE reopened' = (reopened \/ r.spent)
    BY <1>3, <1>5, <2>2
  <2> QED BY <1>2, <2>1, <2>2
<1> QED BY <1>1, <1>2, <1>6, <1>7, EndKeeps

\* Cards and buttons change no table.
LEMMA TellKeeps ==
    ASSUME IInv, NEW h \in Handlers, mix' = mix, seen' = [o \in Handlers |-> Watch(o)],
           \/ Recipients(h) \/ BuildCard(h) \/ SendCard(h)
           \/ Resolve(h) \/ Answer(h)
    PROVE  IInv'
<1>1. UNCHANGED <<rows, opened, reopened>> /\ asked' \in Nat /\ failures' \in Nat
  <2>1. asked \in Nat /\ failures \in Nat
    BY InvParts DEF TypeOK
  <2>2. Fine \/ Broken \/ UNCHANGED bounds => asked' \in Nat /\ failures' \in Nat
    BY <2>1 DEF Fine, Broken, bounds
  <2>3. CASE Recipients(h)
    BY <2>2, <2>3 DEF Recipients
  <2>4. CASE BuildCard(h)
    BY <2>2, <2>4 DEF BuildCard
  <2>5. CASE SendCard(h)
    BY <2>2, <2>5 DEF SendCard
  <2>6. CASE Resolve(h) \/ Answer(h)
    BY <2>2, <2>6 DEF Resolve, Answer
  <2> QED BY <2>3, <2>4, <2>5, <2>6
<1>2. pc'[h] \in {"idle", "sent", "recipients", "card", "send", "answer"}
  BY InvParts DEF Recipients, BuildCard, SendCard, Resolve, Answer, Go, Done, TypeOK
<1>3. \E label, r : Moves(h, label, r)
  BY InvParts, RecipientsMoves, BuildCardMoves, SendCardMoves, ResolveMoves, AnswerMoves
<1>4. PICK label, r : Moves(h, label, r)
  BY <1>3
<1>5. RequestsAreSound'
  BY <1>4, InvParts, MovedHandlers
<1>6. Acting(h)
  BY <1>1, <1>5, InvParts DEF Acting
<1>7. ToldInTime(h)'
  BY <1>6, RecipientsInTime, BuildCardInTime, SendCardInTime, ResolveInTime, AnswerInTime
<1>8. MembersFound(label, r) /\ InvitationRead(label, r)
  <2>1. label = pc'[h] /\ r.kind \in KindsAt(label)
    BY <1>4, InvParts, MovedHandlers DEF Moves, InPlace
  <2> QED BY <1>2, <2>1 DEF MembersFound, InvitationRead, KindsAt
<1> QED BY <1>1, <1>4, <1>7, <1>8, QuietKeeps

LEMMA EndStepKeeps ==
    ASSUME IInv, NEW h \in Handlers, End(h), mix' = mix, seen' = [o \in Handlers |-> Watch(o)]
    PROVE  IInv'
<1>1. UNCHANGED <<rows, opened, reopened>> /\ asked' \in Nat /\ failures' \in Nat /\ Done(h)
  BY InvParts DEF End, TypeOK, bounds
<1>2. Tables' /\ Kept
  BY <1>1, InvParts, RowsKept
<1>3. /\ \A n \in Nonces : opened'[n] => links'[n] # None /\ links'[n].consumed
      /\ opened' \in [Nonces -> BOOLEAN] /\ reopened' \in BOOLEAN /\ ~reopened'
  BY <1>1, InvParts DEF UsedIsOver, TypeOK, rows
<1> QED BY <1>1, <1>2, <1>3, EndKeeps

\* Nobody moves when an invitation expires.
LEMMA ExpireStepKeeps ==
    ASSUME IInv, NEW n \in Nonces, Expire(n), mix' = mix, seen' = [o \in Handlers |-> Watch(o)]
    PROVE  IInv'
<1>1. Tables' /\ Kept
  BY InvParts, ExpireKeeps
<1>2. UNCHANGED <<staff, owner, retired, pc, req, asked, failures, opened, reopened>>
  BY DEF Expire, bounds
<1>3. RequestsAreSound'
  BY <1>2, InvParts DEF RequestsAreSound, InPlace, Sound
<1>4. staff' \in [Accounts -> Employee \cup {None}]
  BY <1>1 DEF Tables
<1>5. \A o \in Handlers : seen'[o] \in [ever : SUBSET Told, always : SUBSET Told] /\ ToldInTime(o)'
  BY <1>2, <1>3, <1>4, InvParts, WatchFacts, StillInTime
<1>6. seen' \in [Handlers -> [ever : SUBSET Told, always : SUBSET Told]]
  BY <1>5
<1>7. TypeOK'
  <2>1. mix' \in Mixes
    BY InvParts DEF TypeOK
  <2> QED BY <1>1, <1>2, <1>6, <2>1, InvParts DEF TypeOK, Tables
<1>8. MembersStay'
  BY <1>2, InvParts DEF MembersStay
<1>9. UsedIsOver'
  <2>1. \A o \in Handlers : req[o].kind = "start" => req[o].nonce \in Nonces
    BY InvParts, HandlerFacts DEF Sound
  <2> QED BY <1>1, <1>2, <2>1, InvParts DEF UsedIsOver, Kept
<1> QED BY <1>1, <1>2, <1>3, <1>5, <1>7, <1>8, <1>9, InvParts
        DEF IInv, Tables, InvitationOpensOnce, CardsStayInTheTeam, AboutToTell, OwedIsToCome, ToldInTime

LEMMA InvInit == Init => IInv
<1> SUFFICES ASSUME Init PROVE IInv
  OBVIOUS
<1>1. NoReq \in Request /\ InPlace("idle", NoReq)
  BY NothingInHand DEF InPlace, Sound
<1>2. TypeOK
  <2>1. opened \in [Nonces -> BOOLEAN] /\ reopened \in BOOLEAN
    BY Zenon DEF Init
  <2>2. seen \in [Handlers -> [ever : SUBSET Told, always : SUBSET Told]]
    BY DEF Init, Nothing
  <2> QED BY <1>1, <2>1, <2>2, WorldAssumption DEF Init, TypeOK, Label
<1>3. RequestsAreSound
  BY <1>1 DEF Init, RequestsAreSound
<1>4. OwnersStay /\ MembersStay
  BY WorldAssumption DEF Init, OwnersStay, MembersStay, NoReq
<1>5. InvitationOpensOnce /\ UsedIsOver
  BY DEF Init, InvitationOpensOnce, UsedIsOver, NoReq
<1>6. CardsStayInTheTeam /\ AboutToTell /\ OwedIsToCome
  BY DEF Init, CardsStayInTheTeam, AboutToTell, OwedIsToCome, NoReq
<1> QED BY <1>2, <1>3, <1>4, <1>5, <1>6 DEF IInv

LEMMA InvStep == IInv /\ [Next]_vars => IInv'
<1> SUFFICES ASSUME IInv, [Next]_vars PROVE IInv'
  OBVIOUS
<1>1. CASE UNCHANGED vars
  BY <1>1 DEF vars, rows, bounds, IInv, TypeOK, RequestsAreSound, InPlace, Sound, OwnersStay, MembersStay,
              InvitationOpensOnce, UsedIsOver, CardsStayInTheTeam, AboutToTell, OwedIsToCome, StillToCome, Part
<1>2. CASE Next
  <2>1. seen' = [o \in Handlers |-> Watch(o)] /\ mix' = mix
    BY <1>2 DEF Next
  <2>2. ASSUME NEW h \in Handlers, Step(h) PROVE IInv'
    BY <2>1, <2>2, CheckKeeps, WriteKeeps, FindKeeps, LinkStepKeeps, TellKeeps, EndStepKeeps DEF Step
  <2> QED BY <1>2, <2>1, <2>2, AskKeeps, ExpireStepKeeps DEF Next
<1> QED BY <1>1, <1>2

LEMMA AlwaysInv == Spec => []IInv
BY InvInit, InvStep, PTL DEF Spec

-----------------------------------------------------------------------------
(* What follows *)

\* (seller-staff.service.ts:103-105, telegram-link.service.ts:74-120) However the requests
\* about teams overlap, every table has its type, a seller's owner exists and is of its
\* team, and no invitation used up or expired links anybody.
THEOREM TeamsStandAlways == Spec => []TeamsStand
<1>1. IInv => TeamsStand
  BY DEF IInv, TeamsStand
<1> QED BY <1>1, AlwaysInv, PTL

\* (order-notifier.service.ts:350-399, seller.composer.ts:199-223) However fan-outs,
\* buttons, unlinks and removals overlap, what is told of an order reaches only a chat that
\* was its team's or the platform's at some moment of the request.
THEOREM CardsStay == Spec => []CardsStayInTheTeam
<1>1. IInv => CardsStayInTheTeam
  BY DEF IInv
<1> QED BY <1>1, AlwaysInv, PTL

\* (order-notifier.service.ts:382-399) Whichever calls fail, a chat that is the team's from
\* the beginning to the end of a notification gets its card, but for the failures of its own
\* card or part.
THEOREM TeamTold == Spec => []TeamIsTold
<1>1. IInv => TeamIsTold
  <2> SUFFICES ASSUME IInv, NEW h \in Handlers, pc[h] = "sent", req[h].kind = "cards"
               PROVE  seen[h].always \subseteq req[h].got \cup req[h].excused
    BY DEF TeamIsTold
  <2> QED BY DEF IInv, OwedIsToCome, StillToCome
<1> QED BY <1>1, AlwaysInv, PTL
=============================================================================
