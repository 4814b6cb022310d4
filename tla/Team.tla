-------------------------------- MODULE Team ---------------------------------
(***************************************************************************)
(* The people who work for a seller and what reaches their chats: accounts *)
(* of a team (sellers.service.ts, seller-staff.service.ts), the link of a  *)
(* chat by an invitation (telegram-link.service.ts), the cards about new   *)
(* and cancelled orders (order-notifier.service.ts) and the buttons of the *)
(* seller's bot (seller.composer.ts, superadmin-orders.composer.ts).       *)
(*                                                                         *)
(* Each action is the code from one query or call to the next.  Of an      *)
(* order only the seller matters here; None stands for the card of a whole *)
(* checkout, which is for the platform.                                    *)
(***************************************************************************)
EXTENDS Naturals, FiniteSets, Sequences, SequencesExt

CONSTANTS
    None,
    Handlers,        \* requests running at the same time, numbered
    Accounts,        \* ids of users
    Sellers,         \* ids of sellers
    Nonces,          \* of invitations, numbered
    Chats,           \* Telegram accounts of people
    Tied,            \* accounts with orders of their own: RESTRICT keeps their rows
    World,           \* the accounts and sellers there are when the process starts
    Mixes            \* what a behaviour is about: requests to draw on, and bounds on
                     \* how many are made and on calls that fail

VARIABLES
    mix,
    staff,           \* users: role, sellerId and staffTelegramId
    owner,           \* sellers: ownerUserId
    links,           \* bot_link_sessions: the account, consumedAt and expiry
    retired,         \* ids of accounts that were removed: a new account gets a new one
    pc, req,
    asked, failures,
    opened,          \* history: invitations that a finished request has used up
    reopened,        \* history: an account was linked by one of those, or an expired one
    seen             \* history: the cards that were somebody's to have at some moment of
                     \* a request, and those that were at every moment

rows == <<staff, owner, links, retired>>
bounds == <<asked, failures>>
vars == <<mix, rows, pc, req, bounds, opened, reopened, seen>>

-----------------------------------------------------------------------------

Card(chat, seller) == [chat |-> chat, seller |-> seller]

ChatsOf(users, us) == {users[u].chat : u \in {v \in us : users[v].chat # None}}

\* sellerTelegramIds: members and the owner.
Members(users, s) ==
    {u \in Accounts : users[u] # None /\ (users[u].seller = s \/ owner[s] = u)}

Platform(users) == {u \in Accounts : users[u] # None /\ users[u].role = "SUPER_ADMIN"}

\* Whose chats a card is for.
Audience(users, s) == ChatsOf(users, IF s = None THEN Platform(users) ELSE Members(users, s))

\* What may be shown on request: to the platform, every order.
MayShow(users, s) == ChatsOf(users, Platform(users) \cup Members(users, s))

NoReq == [kind |-> "none", by |-> None, seller |-> None, account |-> None, nonce |-> None,
          chat |-> None, spent |-> FALSE, principal |-> None, parts |-> <<>>, left |-> <<>>,
          got |-> {}, excused |-> {}]

First == [open |-> "write", hire |-> "manage", fire |-> "manage", invite |-> "manage",
          unlink |-> "manage", link |-> "write", leave |-> "write", start |-> "find",
          cards |-> "recipients", list |-> "resolve", show |-> "resolve"]

NeedsLogin == {"open", "hire", "fire", "invite", "unlink", "link", "leave"}

Employee == [role : {"SELLER", "SUPER_ADMIN"}, seller : Sellers \cup {None}, chat : Chats \cup {None}]

Invitation == [user : Accounts, consumed : BOOLEAN, expired : BOOLEAN]

Told == [chat : Chats, seller : Sellers \cup {None}]

Request == [kind : DOMAIN First \cup {"none"}, by : Accounts \cup {None}, seller : Sellers \cup {None},
            account : Accounts \cup {None}, nonce : Nonces \cup {None}, chat : Chats \cup {None},
            spent : BOOLEAN, principal : Employee \cup {None}, parts : Seq(Sellers \cup {None}),
            left : Seq(Chats), got : SUBSET Told, excused : SUBSET Told]

\* What a request names is there to be named: ids are parsed, the routes have them all.
Sound(r) ==
    /\ r \in Request
    /\ r.kind \in NeedsLogin => r.by \in Accounts
    /\ r.kind \in {"open", "hire", "fire", "invite", "unlink"} => r.seller \in Sellers /\ r.account \in Accounts
    /\ r.kind \in {"start", "list", "show"} => r.chat \in Chats
    /\ r.kind = "start" => r.nonce \in Nonces
    /\ r.kind = "show" => r.seller \in Sellers

ASSUME NoneAssumption ==
    None \notin Accounts \cup Sellers \cup Nonces \cup Chats \cup Employee \cup Invitation
ASSUME ChatsAssumption == IsFiniteSet(Chats)
ASSUME WorldAssumption ==
    /\ World.staff \in [Accounts -> Employee \cup {None}]
    /\ World.owner \in [Sellers -> Accounts \cup {None}]
    /\ \A s \in Sellers : World.owner[s] # None =>
           /\ World.staff[World.owner[s]] # None
           /\ World.staff[World.owner[s]].seller = s
ASSUME MixesAssumption ==
    \A m \in Mixes :
        /\ m.asked \in Nat /\ m.failures \in Nat
        /\ \A r \in m.requests : Sound(r) /\ r.kind # "none" /\ r.got = {} /\ r.excused = {}

Go(h, label) == pc' = [pc EXCEPT ![h] = label]
Done(h) == pc' = [pc EXCEPT ![h] = "idle"] /\ req' = [req EXCEPT ![h] = NoReq]

\* A query or a call of the Bot API that fails.
Broken == failures < mix.failures /\ failures' = failures + 1 /\ UNCHANGED asked
Fine == UNCHANGED bounds

\* Handlers are alike: the first idle one takes the request.  deserializeUser reads the
\* user of a session on every request.
Ask(h, r) ==
    /\ pc[h] = "idle"
    /\ \A o \in Handlers : pc[o] = "idle" => h <= o
    /\ asked < mix.asked
    /\ r.kind \in NeedsLogin => staff[r.by] # None
    /\ r.kind = "start" => links[r.nonce] # None
    /\ asked' = asked + 1
    /\ req' = [req EXCEPT ![h] = [r EXCEPT
                  !.principal = IF r.kind \in NeedsLogin THEN staff[r.by] ELSE None,
                  !.spent = r.kind = "start" /\ (opened[r.nonce] \/ links[r.nonce].expired)]]
    /\ Go(h, First[r.kind])
    /\ UNCHANGED <<rows, failures, opened, reopened>>

-----------------------------------------------------------------------------
(* The team *)

\* assertCanManage: the platform, and the owner for his own seller.
CanManage(r) ==
    /\ owner[r.seller] # None
    /\ \/ r.principal.role = "SUPER_ADMIN"
       \/ r.principal.seller = r.seller /\ owner[r.seller] = r.by

Manage(h) ==
    /\ pc[h] = "manage"
    /\ IF CanManage(req[h])
       THEN Go(h, IF req[h].kind = "hire" THEN "write" ELSE "member") /\ UNCHANGED req
       ELSE Done(h)
    /\ UNCHANGED <<rows, bounds, opened, reopened>>

\* assertMember.
Member(h) ==
    /\ pc[h] = "member"
    /\ IF staff[req[h].account] # None /\ staff[req[h].account].seller = req[h].seller
       THEN Go(h, "write") /\ UNCHANGED req
       ELSE Done(h)
    /\ UNCHANGED <<rows, bounds, opened, reopened>>

Person(role, seller) == [role |-> role, seller |-> seller, chat |-> None]

\* Ids are cuids: none is given out twice.
Unused(account) == staff[account] = None /\ account \notin retired

\* remove: not the owner.
Fires(r) == r.account # owner[r.seller]

\* create of sellers: the owner, the seller and the owner's sellerId in one transaction.
Open(r) ==
    /\ r.principal.role = "SUPER_ADMIN"
    /\ owner[r.seller] = None
    /\ Unused(r.account)
    /\ staff' = [staff EXCEPT ![r.account] = Person("SELLER", r.seller)]
    /\ owner' = [owner EXCEPT ![r.seller] = r.account]
    /\ UNCHANGED <<links, retired>>

\* create of staff: a new account, whose contacts nobody has.
Hire(r) ==
    /\ Unused(r.account)
    /\ staff' = [staff EXCEPT ![r.account] = Person("SELLER", r.seller)]
    /\ UNCHANGED <<owner, links, retired>>

Fire(r) ==
    /\ staff[r.account] # None
    /\ r.account \notin Tied
    /\ Fires(r)
    /\ staff' = [staff EXCEPT ![r.account] = None]
    /\ retired' = retired \cup {r.account}
    /\ UNCHANGED <<owner, links>>

\* createSession: no foreign key ties it to the account.
Invite(account) ==
    /\ \E n \in Nonces :
          /\ links[n] = None
          /\ \A o \in Nonces : links[o] = None => n <= o
          /\ links' = [links EXCEPT ![n] = [user |-> account, consumed |-> FALSE, expired |-> FALSE]]
    /\ UNCHANGED <<staff, owner, retired>>

\* unlinkSeller.
Unlink(account) ==
    /\ staff[account] # None
    /\ staff' = [staff EXCEPT ![account].chat = None]
    /\ UNCHANGED <<owner, links, retired>>

Written(r) ==
    \/ r.kind = "open" /\ Open(r)
    \/ r.kind = "hire" /\ Hire(r)
    \/ r.kind = "fire" /\ Fire(r)
    \/ r.kind = "invite" /\ Invite(r.account)
    \/ r.kind = "link" /\ Invite(r.by)
    \/ r.kind = "unlink" /\ Unlink(r.account)
    \/ r.kind = "leave" /\ Unlink(r.by)

\* The write of a request, or a refusal: a right, a unique contact, a row that is gone or
\* tied.
Write(h) ==
    /\ pc[h] = "write"
    /\ Written(req[h]) \/ UNCHANGED rows
    /\ Done(h)
    /\ UNCHANGED <<bounds, opened, reopened>>

-----------------------------------------------------------------------------
(* /start sel_<nonce> *)

\* findLive.
Find(h) ==
    /\ pc[h] = "find"
    /\ LET session == links[req[h].nonce]
       IN  IF session.consumed \/ session.expired
           THEN Done(h)
           ELSE /\ req' = [req EXCEPT ![h].account = session.user]
                /\ Go(h, "occupant")
    /\ UNCHANGED <<rows, bounds, opened, reopened>>

HasChat(chat) == {u \in Accounts : staff[u] # None /\ staff[u].chat = chat}

Occupant(h) ==
    /\ pc[h] = "occupant"
    /\ IF HasChat(req[h].chat) \ {req[h].account} = {} THEN Go(h, "linked") /\ UNCHANGED req
                                                       ELSE Done(h)
    /\ UNCHANGED <<rows, bounds, opened, reopened>>

\* Slip: the invitation is not used up.
NotConsumed(nonce) == UNCHANGED links

Consumed(nonce) == links' = [links EXCEPT ![nonce].consumed = TRUE]

\* The transaction: the chat and consumedAt.  It fails for an account that is gone
\* (P2025) and a chat that another account got since (P2002).
Link(h) ==
    /\ pc[h] = "linked"
    /\ LET r == req[h]
       IN  \/ /\ staff[r.account] # None
              /\ HasChat(r.chat) \ {r.account} = {}
              /\ Fine
              /\ staff' = [staff EXCEPT ![r.account].chat = r.chat]
              /\ Consumed(r.nonce)
              /\ UNCHANGED <<owner, retired>>
              /\ opened' = [opened EXCEPT ![r.nonce] = TRUE]
              /\ reopened' = (reopened \/ r.spent)
           \/ /\ staff[r.account] = None \/ HasChat(r.chat) \ {r.account} # {} \/ failures < mix.failures
              /\ IF staff[r.account] # None /\ HasChat(r.chat) \ {r.account} = {} THEN Broken ELSE Fine
              /\ UNCHANGED <<rows, opened, reopened>>
    /\ Done(h)

\* Five minutes pass.
Expire(n) ==
    /\ links[n] # None
    /\ ~links[n].expired
    /\ links' = [links EXCEPT ![n].expired = TRUE]
    /\ UNCHANGED <<staff, owner, retired, pc, req, bounds, opened, reopened>>

-----------------------------------------------------------------------------
(* Cards: orderCreated, groupCreatedForSuperAdmins and cancelledByCustomer *)

Part(r) == Head(r.parts)

\* The recipients of the next part, read when its turn comes; an error leaves out this
\* part only.
Recipients(h) ==
    /\ pc[h] = "recipients"
    /\ IF req[h].parts = <<>>
       THEN Go(h, "sent") /\ Fine /\ UNCHANGED req
       ELSE \/ /\ Fine
               /\ req' = [req EXCEPT ![h].left = SetToSeq(Audience(staff, Part(req[h])))]
               /\ Go(h, "card")
            \/ /\ Broken
               /\ req' = [req EXCEPT ![h].parts = Tail(@),
                             ![h].excused = @ \cup {Card(c, Part(req[h])) : c \in Chats}]
               /\ UNCHANGED pc
    /\ UNCHANGED <<rows, opened, reopened>>

\* buildSellerCard reads the other orders of the checkout.
BuildCard(h) ==
    /\ pc[h] = "card"
    /\ \/ Fine /\ UNCHANGED req
       \/ /\ Part(req[h]) # None
          /\ Broken
          /\ req' = [req EXCEPT ![h].left = <<>>,
                        ![h].excused = @ \cup {Card(c, Part(req[h])) : c \in Chats}]
    /\ Go(h, "send")
    /\ UNCHANGED <<rows, opened, reopened>>

\* Slip: one chat that cannot be reached ends it for the others.
StopAtFailure(left, delivered) == IF delivered THEN Tail(left) ELSE <<>>

\* fanOut: the next chat, whatever came of this one.
Remaining(left, delivered) == Tail(left)

SendCard(h) ==
    /\ pc[h] = "send"
    /\ LET r == req[h]
       IN  IF r.left = <<>>
           THEN /\ req' = [req EXCEPT ![h].parts = Tail(@)]
                /\ Go(h, "recipients")
                /\ Fine
           ELSE LET card == Card(Head(r.left), Part(r))
                IN  /\ \/ /\ Fine
                          /\ req' = [req EXCEPT ![h].got = @ \cup {card},
                                        ![h].left = Remaining(@, TRUE)]
                       \/ /\ Broken
                          /\ req' = [req EXCEPT ![h].excused = @ \cup {card},
                                        ![h].left = Remaining(@, FALSE)]
                    /\ UNCHANGED pc
    /\ UNCHANGED <<rows, opened, reopened>>

-----------------------------------------------------------------------------
(* The seller's bot *)

\* resolveSeller: whoever has the chat now; a seller's account needs a seller.
Resolve(h) ==
    /\ pc[h] = "resolve"
    /\ LET us == {u \in HasChat(req[h].chat) :
                      staff[u].role = "SUPER_ADMIN" \/ (staff[u].role = "SELLER" /\ staff[u].seller # None)}
       IN  IF us = {} THEN Done(h)
           ELSE /\ req' = [req EXCEPT ![h].principal = staff[CHOOSE u \in us : TRUE]]
                /\ Go(h, "answer")
    /\ UNCHANGED <<rows, bounds, opened, reopened>>

\* Slip: the order is shown to any team that has its number.
ShowsAny(p) == {s \in Sellers : owner[s] # None}

\* sendOrderList and assertStaffAccess: the orders of one's seller, all of them for the
\* platform.
Shows(p) == {s \in Sellers : owner[s] # None /\ (p.seller = s \/ (p.role = "SUPER_ADMIN" /\ p.seller = None))}

\* findOneForStaff asks for the role first.
ShowsOne(p, s) == IF p.role = "SUPER_ADMIN" THEN {s} ELSE Shows(p) \cap {s}

Answer(h) ==
    /\ pc[h] = "answer"
    /\ LET r == req[h]
           shown == IF r.kind = "list" THEN Shows(r.principal) ELSE ShowsOne(r.principal, r.seller)
       IN  req' = [req EXCEPT ![h].got = {Card(r.chat, s) : s \in shown}]
    /\ Go(h, "sent")
    /\ UNCHANGED <<rows, bounds, opened, reopened>>

End(h) ==
    /\ pc[h] = "sent"
    /\ Done(h)
    /\ UNCHANGED <<rows, bounds, opened, reopened>>

-----------------------------------------------------------------------------

Nothing == [ever |-> {}, always |-> {}]

\* What could rightly be sent or shown by a request, as things are now.
InScope(r, users) ==
    IF r.kind = "cards"
    THEN UNION {{Card(c, p) : c \in Audience(users, p)} : p \in ToSet(r.parts)}
    ELSE UNION {{Card(c, s) : c \in MayShow(users, s)} : s \in Sellers}

Watch(h) ==
    IF pc'[h] = "idle" THEN Nothing
    ELSE IF pc[h] = "idle" THEN LET now == InScope(req'[h], staff) IN [ever |-> now, always |-> now]
    ELSE LET now == InScope(req[h], staff')
             over == {c \in seen[h].always : req[h].kind = "cards" /\ c.seller \notin ToSet(req[h].parts)}
         IN  [ever |-> seen[h].ever \cup now, always |-> (seen[h].always \cap now) \cup over]

Init ==
    /\ mix \in Mixes
    /\ staff = World.staff
    /\ owner = World.owner
    /\ links = [n \in Nonces |-> None]
    /\ retired = {}
    /\ pc = [h \in Handlers |-> "idle"]
    /\ req = [h \in Handlers |-> NoReq]
    /\ asked = 0 /\ failures = 0
    /\ opened = [n \in Nonces |-> FALSE] /\ reopened = FALSE
    /\ seen = [h \in Handlers |-> Nothing]

Step(h) ==
    \/ Manage(h) \/ Member(h) \/ Write(h)
    \/ Find(h) \/ Occupant(h) \/ Link(h)
    \/ Recipients(h) \/ BuildCard(h) \/ SendCard(h)
    \/ Resolve(h) \/ Answer(h) \/ End(h)

Next ==
    /\ \/ \E h \in Handlers : (\E r \in mix.requests : Ask(h, r)) \/ Step(h)
       \/ \E n \in Nonces : Expire(n)
    /\ seen' = [h \in Handlers |-> Watch(h)]
    /\ UNCHANGED mix

Spec == Init /\ [][Next]_vars

-----------------------------------------------------------------------------
(* Properties *)

Label == {"idle", "manage", "member", "write", "find", "occupant", "linked",
          "recipients", "card", "send", "resolve", "answer", "sent"}

\* Every variable has its type.
TypeOK ==
    /\ mix \in Mixes
    /\ staff \in [Accounts -> Employee \cup {None}]
    /\ owner \in [Sellers -> Accounts \cup {None}]
    /\ links \in [Nonces -> Invitation \cup {None}]
    /\ retired \subseteq Accounts
    /\ pc \in [Handlers -> Label]
    /\ req \in [Handlers -> Request]
    /\ asked \in Nat /\ failures \in Nat
    /\ opened \in [Nonces -> BOOLEAN] /\ reopened \in BOOLEAN
    /\ seen \in [Handlers -> [ever : SUBSET Told, always : SUBSET Told]]

\* (telegram-link.service.ts:74-80, 130-143) An invitation presented after it was used, or
\* has expired, does not link anybody.
InvitationOpensOnce == ~reopened

\* (seller-staff.service.ts:26-29) Whoever is hired and fired, a seller keeps the owner it
\* stands on, and he is of its team.
OwnersStay ==
    \A s \in Sellers : owner[s] # None => staff[owner[s]] # None /\ staff[owner[s]].seller = s

\* Who is on a team, and in which chat, is only ever decided by its owner and the
\* platform: a team does not lose its owner, and nobody joins by an invitation that is
\* over.
TeamsStand == TypeOK /\ OwnersStay /\ InvitationOpensOnce

\* (order-notifier.service.ts:350-365, seller.composer.ts:47-50) What a card or an answer
\* of the bot tells about an order reaches a chat only if, at some moment of that request,
\* it was the chat of the order's team or of the platform: not after an unlink, a removal
\* or a new owner of the chat that was over before.
CardsStayInTheTeam == \A h \in Handlers : req[h].got \subseteq seen[h].ever

\* (order-notifier.service.ts:382-385) A chat that belongs to the team from the beginning
\* to the end of a notification gets its card, whatever happens to the cards of others and
\* of other parts of the checkout.
TeamIsTold ==
    \A h \in Handlers :
        pc[h] = "sent" /\ req[h].kind = "cards" => seen[h].always \subseteq req[h].got \cup req[h].excused

(* The inductive invariant behind these (Team_proofs).                     *)

\* The requests a handler may have in hand at each place of the code.
KindsAt(label) ==
    CASE label = "idle" -> {"none"}
      [] label = "manage" -> {"hire", "fire", "invite", "unlink"}
      [] label = "member" -> {"fire", "invite", "unlink"}
      [] label = "write" -> NeedsLogin
      [] label \in {"find", "occupant", "linked"} -> {"start"}
      [] label \in {"recipients", "card", "send"} -> {"cards"}
      [] label \in {"resolve", "answer"} -> {"list", "show"}
      [] label = "sent" -> {"cards", "list", "show"}

InPlace(label, r) ==
    /\ Sound(r)
    /\ r.kind \in KindsAt(label)
    /\ label = "idle" => r = NoReq
    /\ label \in {"occupant", "linked"} => r.account \in Accounts
    /\ label = "answer" => r.principal \in Employee
    /\ label \in {"card", "send"} => r.parts # <<>>
    /\ label = "sent" /\ r.kind = "cards" => r.parts = <<>>

RequestsAreSound == \A h \in Handlers : InPlace(pc[h], req[h])

\* An account removed does not come back, nor does it move to another team: what
\* assertMember found holds until the account is gone.
MembersStay ==
    /\ \A u \in retired : staff[u] = None
    /\ \A h \in Handlers : pc[h] = "write" /\ req[h].kind = "fire" =>
          \/ req[h].account \in retired
          \/ staff[req[h].account] # None /\ staff[req[h].account].seller = req[h].seller

\* An invitation used up is consumed, one presented too late is over for findLive.
UsedIsOver ==
    /\ \A n \in Nonces : opened[n] => links[n] # None /\ links[n].consumed
    /\ \A h \in Handlers : req[h].kind = "start" =>
          /\ links[req[h].nonce] # None
          /\ req[h].spent => links[req[h].nonce].consumed \/ links[req[h].nonce].expired
          /\ pc[h] \in {"occupant", "linked"} => ~req[h].spent

\* What is about to be sent, or answered to whom the bot took him for, was in order when
\* it was read.
AboutToTell ==
    \A h \in Handlers :
        /\ pc[h] \in {"card", "send"} =>
              \A c \in ToSet(req[h].left) : Card(c, Part(req[h])) \in seen[h].ever
        /\ pc[h] = "answer" =>
              LET p == req[h].principal
              IN  \A s \in Sellers : p.role = "SUPER_ADMIN" \/ p.seller = s =>
                      Card(req[h].chat, s) \in seen[h].ever

\* What a chat is owed is sent, excused or still to come.
StillToCome(h, c) ==
    \/ pc[h] = "recipients" /\ c.seller \in ToSet(req[h].parts)
    \/ pc[h] \in {"card", "send"} /\ c.seller \in ToSet(Tail(req[h].parts))
    \/ pc[h] \in {"card", "send"} /\ c.seller = Part(req[h]) /\ c.chat \in ToSet(req[h].left)

OwedIsToCome ==
    \A h \in Handlers : pc[h] # "idle" /\ req[h].kind = "cards" =>
        \A c \in seen[h].always : c \in req[h].got \cup req[h].excused \/ StillToCome(h, c)

IInv ==
    /\ TypeOK /\ RequestsAreSound
    /\ OwnersStay /\ MembersStay
    /\ InvitationOpensOnce /\ UsedIsOver
    /\ CardsStayInTheTeam /\ AboutToTell
    /\ OwedIsToCome
=============================================================================
