------------------------------ MODULE Messages -------------------------------
(***************************************************************************)
(* What customers are told, and where: the feed that the application polls *)
(* (notifications.service.ts), the installations pushes go to              *)
(* (push-tokens.service.ts, push.service.ts), the message about the status *)
(* of an order (order-notifier.service.ts) and the broadcasts of the admin *)
(* panel (broadcasts.service.ts).                                          *)
(*                                                                         *)
(* Each action is the code from one query to the next.  A row of the feed  *)
(* takes its number when it is inserted and is seen when it is committed.  *)
(* A broadcast goes on in the background after the answer, page by page,   *)
(* and dies with the process.                                              *)
(***************************************************************************)
EXTENDS Integers, FiniteSets, Sequences, SequencesExt, FiniteSetsExt

CONSTANTS
    None,
    AnOrder,         \* what a message is about, when not a broadcast by its number
    Handlers,        \* requests running at the same time, numbered
    Users,           \* accounts, numbered in the order of their ids
    Tokens,          \* push tokens
    Malformed,       \* those that Expo.isExpoPushToken rejects
    Batch,           \* BATCH: customers read at a time
    Limit,           \* rows of the feed a poll asks for
    MaxRetries,      \* TG_MAX_RETRIES
    MaxBroadcasts,   \* bound: broadcasts that are made
    World,           \* customers, their chats and tokens when the process starts
    Mixes            \* what a behaviour is about: requests to draw on, and bounds on
                     \* how many are made, on calls that fail and on restarts

VARIABLES
    mix,
    customers,       \* rows of role CUSTOMER with deletedAt null
    chats,           \* of them, those with a telegramId
    tokens,          \* push_tokens: whose installation it is and on which device
    feed, drawn,     \* the committed rows of notifications; the last seq given
    broadcasts,      \* the rows of broadcasts
    client,          \* per user: the cursor of its application and what it has shown
    receipts,        \* tokens whose receipts are asked for 15 seconds after the push
    pc, req,
    asked, failures, restarts,
    known,           \* history: accounts whose id has been given, to a customer or one who joins
    sent, twice,     \* history: what left by Telegram and by push; what left again
    dead, dropped,   \* history: tokens Expo called gone; tokens the push service removed
    overtaken,       \* history: rows committed after a later row of the same user
    before,          \* history: per user, the rows committed before its first poll
    hidden,          \* history: users who were on no page of a broadcast they are of
    lost,            \* history: broadcasts whose last word was itself a failing query
    crossed          \* history: two registrations have met

people == <<customers, chats, tokens>>
letters == <<feed, drawn>>
requests == <<pc, req, asked>>
world == <<failures, restarts>>
history == <<known, sent, twice, dead, dropped, overtaken, before, hidden, lost, crossed>>
vars == <<mix, people, letters, broadcasts, client, receipts, requests, world, history>>

-----------------------------------------------------------------------------
(* Pages *)

First(rows) == {u \in rows : Cardinality({v \in rows : v < u}) < Batch}

\* Slip: the first row is skipped on the first page as well.
PageSkipping(where, after) ==
    LET rows == {u \in where : after = None \/ u >= after}
    IN  IF rows = {} THEN {} ELSE First(rows \ {Min(rows)})

\* findMany with a cursor: the rows from the cursor's id on, the first of which is
\* skipped - whoever it is.
Page(where, after) ==
    LET rows == {u \in where : after = None \/ u >= after}
    IN  IF after = None \/ rows = {} THEN First(rows) ELSE First(rows \ {Min(rows)})

\* The one who is skipped for a row that is no longer there.
PassedOver(where, after) ==
    IF after = None \/ after \in where THEN {}
    ELSE LET next == {u \in where : u >= after} IN IF next = {} THEN {} ELSE {Min(next)}

\* broadcastRecipientsWhere: live customers of the audience that were there when the
\* broadcast was made.
Recipients(b) == customers \cap b.audience \cap b.created

TokensOf(u) == {t \in Tokens : tokens[t] # None /\ tokens[t].user = u}

-----------------------------------------------------------------------------

NoStats == [pushSent |-> 0, pushFailed |-> 0, tgSent |-> 0, tgFailed |-> 0, tgBlocked |-> 0]

NoReq == [kind |-> "none", user |-> None, token |-> None, device |-> None, feedOnly |-> FALSE,
          audience |-> {}, push |-> FALSE, telegram |-> FALSE, about |-> None,
          page |-> {}, after |-> None, seqs |-> 0, stale |-> {}, count |-> 0,
          todo |-> {}, tries |-> 0, left |-> {}, stats |-> NoStats]

FirstStage == [order |-> "draw", create |-> "create", register |-> "clear",
          unregister |-> "write", delete |-> "write", join |-> "write"]

FeedRow == [user : Users, seq : Nat, about : Nat \cup {AnOrder}]

Installation == [user : Users, device : {None} \cup STRING]

Counters == [pushSent : Nat, pushFailed : Nat, tgSent : Nat, tgFailed : Nat, tgBlocked : Nat]

Broadcast == [created : SUBSET Users, audience : SUBSET Users, status : {"SENDING", "DONE", "FAILED"},
              recipients : Nat, stats : Counters, push : BOOLEAN, telegram : BOOLEAN]

Request == [kind : DOMAIN FirstStage \cup {"none"}, user : Users \cup {None}, token : Tokens \cup {None},
            device : {None} \cup STRING, feedOnly : BOOLEAN, audience : SUBSET Users,
            push : BOOLEAN, telegram : BOOLEAN, about : Nat \cup {AnOrder, None},
            page : SUBSET Users, after : Users \cup {None}, seqs : Nat, stale : SUBSET Tokens,
            count : Nat, todo : SUBSET [user : Users, token : Tokens], tries : Nat, left : SUBSET Users, stats : Counters]

Stages == {"idle", "draw", "commit", "clear", "upsert", "write", "tokens", "push", "telegram",
           "stats", "create", "page", "count", "deliver", "done", "failed"}

\* What is asked for is well formed, and nothing of it has been done.
WellFormed(r) ==
    /\ r \in Request
    /\ r = [NoReq EXCEPT !.kind = r.kind, !.user = r.user, !.token = r.token, !.device = r.device,
                         !.feedOnly = r.feedOnly, !.audience = r.audience, !.push = r.push,
                         !.telegram = r.telegram, !.about = r.about]
    /\ r.kind # "none"
    /\ r.kind \in {"order", "register", "delete", "join"} => r.user \in Users
    /\ r.kind \in {"register", "unregister"} => r.token \in Tokens
    /\ r.kind = "order" <=> r.about = AnOrder
    /\ r.about \in {AnOrder, None}

ASSUME NamesAssumption ==
    /\ None \notin Nat /\ AnOrder \notin Nat /\ AnOrder # None
    /\ Users \subseteq Nat /\ IsFiniteSet(Users) /\ IsFiniteSet(Tokens)
    /\ Batch \in Nat \ {0} /\ Limit \in Nat \ {0} /\ MaxRetries \in Nat

\* The tables as they are when the process starts, and what it is then asked for.
ASSUME WorldAssumption ==
    /\ World.customers \subseteq Users /\ World.chats \subseteq World.customers
    /\ World.tokens \in [Tokens -> Installation \cup {None}]
    /\ \A t, o \in Tokens :
          World.tokens[t] # None /\ World.tokens[o] # None /\ World.tokens[t].device = World.tokens[o].device =>
              t = o \/ World.tokens[t].device = None
    /\ \A m \in Mixes : \A r \in m.requests : WellFormed(r)

-----------------------------------------------------------------------------

Go(h, label) == pc' = [pc EXCEPT ![h] = label]
Done(h) == pc' = [pc EXCEPT ![h] = "idle"] /\ req' = [req EXCEPT ![h] = NoReq]

\* A query or a call that fails.
Broken == failures < mix.failures /\ failures' = failures + 1 /\ UNCHANGED restarts
Fine == UNCHANGED <<failures, restarts>>

\* Accounts whose createdAt has been taken and whose row is not yet to be seen.
Joining == {req[h].user : h \in {o \in Handlers : req[o].kind = "join"}}

\* The others whose id is known.
Met == known \ Joining

\* Handlers are alike: the first idle one takes the request.  An account joins once, and
\* whoever asks for something has one.
Ask(h, r) ==
    /\ pc[h] = "idle"
    /\ \A o \in Handlers : pc[o] = "idle" => h <= o
    /\ asked < mix.asked
    /\ r.kind = "create" =>
          Len(broadcasts) + Cardinality({o \in Handlers : pc[o] = "create"}) < MaxBroadcasts
    /\ r.kind = "join" => r.user \notin known
    /\ r.kind \in {"order", "register", "delete"} => r.user \in Met
    /\ known' = IF r.kind = "join" THEN known \cup {r.user} ELSE known
    /\ asked' = asked + 1
    /\ req' = [req EXCEPT ![h] = r]
    /\ Go(h, FirstStage[r.kind])
    /\ crossed' = (crossed \/ (r.kind = "register" /\ \E o \in Handlers : pc[o] \in {"clear", "upsert"}))
    /\ UNCHANGED <<people, letters, broadcasts, client, receipts, world,
                   sent, twice, dead, dropped, overtaken, before, hidden, lost>>

-----------------------------------------------------------------------------
(* The feed *)

Row(u, seq, about) == [user |-> u, seq |-> seq, about |-> about]

RowsOf(u) == {r \in feed : r.user = u}

\* emit and createMany: the rows take their numbers now,
Draw(h) ==
    /\ pc[h] = "draw"
    /\ LET us == IF req[h].kind = "order" THEN {req[h].user} ELSE req[h].page
       IN  /\ req' = [req EXCEPT ![h].page = us, ![h].seqs = drawn]
           /\ drawn' = drawn + Cardinality(us)
    /\ Go(h, "commit")
    /\ UNCHANGED <<people, feed, broadcasts, client, receipts, asked, world, history>>

\* and are there for others when the statement has committed, which may be after a
\* later number.
Rows(r) == {Row(u, r.seqs + Cardinality({v \in r.page : v <= u}), r.about) : u \in r.page}

LastPage(r) == Cardinality(r.page) < Batch

Committed(h) ==
    /\ feed' = feed \cup Rows(req[h])
    /\ overtaken' = overtaken \cup
          {r \in Rows(req[h]) : \E o \in feed : o.user = r.user /\ o.seq > r.seq}
    /\ UNCHANGED <<drawn, people, broadcasts, client, receipts, asked, known, sent, twice, dead, dropped,
                   before, hidden, lost, crossed>>

\* The message about an order goes on by push and Telegram, unless the customer has
\* cancelled it; a page of a broadcast is followed by the next.
CommitRows(h) ==
    /\ pc[h] = "commit"
    /\ \/ /\ Fine
          /\ Committed(h)
          /\ IF req[h].kind = "order"
             THEN IF req[h].feedOnly THEN Done(h) ELSE Go(h, "tokens") /\ UNCHANGED req
             ELSE /\ req' = [req EXCEPT ![h].count = @ + Cardinality(req[h].page),
                                        ![h].after = Max(req[h].page)]
                  /\ Go(h, IF LastPage(req[h]) THEN "count" ELSE "page")
       \/ /\ Broken
          /\ IF req[h].kind = "order" THEN Done(h) ELSE Go(h, "failed") /\ UNCHANGED req
          /\ UNCHANGED <<people, letters, broadcasts, client, receipts, asked, history>>

\* Slip: the newest rows first, as without a cursor.
NewestAfter(u, cursor) ==
    LET rows == {r \in RowsOf(u) : cursor = None \/ r.seq > cursor}
    IN  {r \in rows : Cardinality({s \in rows : s.seq >= r.seq}) <= Limit}

\* page: the last rows to begin with; then those after the cursor, oldest first.
After(u, cursor) ==
    LET rows == {r \in RowsOf(u) : cursor = None \/ r.seq > cursor}
    IN  {r \in rows :
            Cardinality({s \in rows : IF cursor = None THEN s.seq >= r.seq ELSE s.seq <= r.seq}) <= Limit}

\* The application polls; the cursor it gets is that of the last row it is given.
Poll(u) ==
    /\ u \in customers
    /\ u \in mix.polls
    /\ LET rows == After(u, client[u].cursor)
           cursor == IF rows # {} THEN Max({r.seq : r \in rows})
                     ELSE IF client[u].cursor = None THEN 0 ELSE client[u].cursor
       IN  /\ client' = [client EXCEPT ![u] = [cursor |-> cursor, shown |-> @.shown \cup rows]]
           /\ before' = IF client[u].cursor = None THEN [before EXCEPT ![u] = RowsOf(u)] ELSE before
    /\ UNCHANGED <<people, letters, broadcasts, receipts, requests, world,
                   known, sent, twice, dead, dropped, overtaken, hidden, lost, crossed>>

-----------------------------------------------------------------------------
(* Installations *)

Unregistered(ts) == [t \in Tokens |-> IF t \in ts THEN None ELSE tokens[t]]

\* register, its first statement: the other tokens of the device.
OthersOf(token, device) ==
    IF device = None THEN {}
    ELSE {t \in Tokens \ {token} : tokens[t] # None /\ tokens[t].device = device}

Clear(h) ==
    /\ pc[h] = "clear"
    /\ req' = [req EXCEPT ![h].stale = OthersOf(req[h].token, req[h].device)]
    /\ Go(h, "upsert")
    /\ UNCHANGED <<people, letters, broadcasts, client, receipts, asked, world, history>>

\* The upsert by token, and the commit of both: the token moves to whoever is logged
\* in now.
Upsert(h) ==
    /\ pc[h] = "upsert"
    /\ \/ /\ Fine
          /\ tokens' = [Unregistered(req[h].stale) EXCEPT
                            ![req[h].token] = [user |-> req[h].user, device |-> req[h].device]]
       \/ Broken /\ UNCHANGED tokens
    /\ Done(h)
    /\ UNCHANGED <<customers, chats, letters, broadcasts, client, receipts, asked, history>>

\* unregister; deleteAccount; an account that is new.
Write(h) ==
    /\ pc[h] = "write"
    /\ LET r == req[h]
       IN  \/ /\ r.kind = "unregister"
              /\ tokens' = Unregistered({r.token})
              /\ UNCHANGED <<customers, chats, feed>>
           \/ /\ r.kind = "delete"
              /\ customers' = customers \ {r.user}
              /\ chats' = chats \ {r.user}
              /\ tokens' = Unregistered(TokensOf(r.user))
              /\ feed' = feed \ RowsOf(r.user)
           \/ /\ r.kind = "join"
              /\ customers' = customers \cup {r.user}
              /\ chats' = chats \cup {r.user}
              /\ UNCHANGED <<tokens, feed>>
    /\ hidden' = hidden \cup {u \in customers' \ customers : \E i \in DOMAIN broadcasts : u \in broadcasts[i].created}
    /\ Done(h)
    /\ UNCHANGED <<drawn, broadcasts, client, receipts, asked, world,
                   known, sent, twice, dead, dropped, overtaken, before, lost, crossed>>

-----------------------------------------------------------------------------
(* Pushes *)

Letter(channel, u, to, about) == [channel |-> channel, user |-> u, to |-> to, about |-> about]

Send(letters_) == sent' = sent \cup letters_ /\ twice' = twice \cup (sent \cap letters_)

\* What is addressed: a message for each installation of each user of a page.
Messages(us) == {m \in [user : us, token : Tokens] : m.token \in TokensOf(m.user)}

\* listFor, and the read of a page with its users' chats and tokens.
ReadTokens(h) ==
    /\ pc[h] = "tokens"
    /\ req' = [req EXCEPT ![h].todo = Messages({req[h].user})]
    /\ Go(h, "push")
    /\ UNCHANGED <<people, letters, broadcasts, client, receipts, asked, world, history>>

IsValid(m) == m.token \notin Malformed
Valid(ms) == {m \in ms : IsValid(m)}

\* As they are listed.
Ordered(ms) == SetToSeq(ms)

\* Slip: the answers are read against all the messages.
GoneOfAll(ms, tickets) == {Ordered(ms)[i].token : i \in {j \in DOMAIN tickets : tickets[j] = "gone"}}

\* dropDeadTokens: a ticket per message that was sent, in their order.
Gone(ms, tickets) == {Ordered(Valid(ms))[i].token : i \in {j \in DOMAIN tickets : tickets[j] = "gone"}}

\* Expo takes a message, calls the installation gone, or refuses for another reason.
Tickets(ms) == [DOMAIN Ordered(Valid(ms)) -> {"ok", "gone", "refused"}]
Answered(ms, tickets, verdict) == {Ordered(Valid(ms))[i] : i \in {j \in DOMAIN tickets : tickets[j] = verdict}}

\* Of the users addressed, those whom at least one installation accepted.
Reached(ms, tickets) == Cardinality({m.user : m \in Answered(ms, tickets, "ok")})

Pushes(ms, about) == {Letter("push", m.user, m.token, about) : m \in ms}
TokensIn(ms) == {m.token : m \in ms}

Pushed(h, tickets) ==
    LET ms == req[h].todo
        taken == Answered(ms, tickets, "ok")
        removed == Gone(ms, tickets) \cup (TokensIn(ms) \cap Malformed)
    IN  /\ Send(Pushes(taken, req[h].about))
        /\ tokens' = Unregistered(removed)
        /\ dropped' = dropped \cup removed
        /\ dead' = dead \cup TokensIn(Answered(ms, tickets, "gone"))
        /\ receipts' = receipts \cup TokensIn(taken)

\* Expo is down for all of the messages or the rest of them, or a dead token is not
\* removed: what it took it has, but no answer is known.
Unheard(h, taken) ==
    LET malformed == TokensIn(req[h].todo) \cap Malformed
    IN  /\ Send(Pushes(taken, req[h].about))
        /\ tokens' = Unregistered(malformed)
        /\ dropped' = dropped \cup malformed
        /\ UNCHANGED <<dead, receipts>>

\* The flags of sendMany are counted by people.
Noted(h, reached) ==
    LET addressed == Cardinality({m.user : m \in req[h].todo})
    IN  /\ req' = IF req[h].kind = "order" THEN req
                  ELSE [req EXCEPT ![h].stats = [@ EXCEPT !.pushSent = reached, !.pushFailed = addressed - reached]]
        /\ Go(h, "telegram")

\* sendToUser and sendMany swallow the errors of Expo, not that of removing a token
\* that never was one.
Push(h) ==
    /\ pc[h] = "push"
    /\ \/ \E tickets \in Tickets(req[h].todo) :
              Fine /\ Pushed(h, tickets) /\ Noted(h, Reached(req[h].todo, tickets))
       \/ \E taken \in SUBSET Valid(req[h].todo) :
              Valid(req[h].todo) # {} /\ Broken /\ Unheard(h, taken) /\ Noted(h, 0)
       \/ /\ Valid(req[h].todo) # req[h].todo
          /\ Broken
          /\ Go(h, IF req[h].kind = "order" THEN "telegram" ELSE "failed")
          /\ UNCHANGED <<req, tokens, sent, twice, dead, dropped, receipts>>
    /\ UNCHANGED <<customers, chats, letters, broadcasts, client, asked,
                   known, overtaken, before, hidden, lost, crossed>>

\* checkReceipts: the verdict of the stores, later; a token that is gone is removed,
\* whoever has it by then.
Receipt(t) ==
    /\ t \in receipts
    /\ receipts' = receipts \ {t}
    /\ \/ UNCHANGED <<tokens, dead, dropped>>
       \/ /\ tokens' = Unregistered({t})
          /\ dead' = dead \cup {t}
          /\ dropped' = dropped \cup {t}
    /\ UNCHANGED <<customers, chats, letters, broadcasts, client, requests, world,
                   known, sent, twice, overtaken, before, hidden, lost, crossed>>

-----------------------------------------------------------------------------
(* Telegram *)

\* What the Bot API may answer, and whether the message was delivered then: an error
\* on the way back is one that was.
Answers == {[says |-> "ok", delivered |-> TRUE], [says |-> "blocked", delivered |-> FALSE],
            [says |-> "retry", delivered |-> FALSE],
            [says |-> "error", delivered |-> FALSE], [says |-> "error", delivered |-> TRUE]}

\* Slip: whatever went wrong is tried again.
AgainOnError(answer, tries) == answer.says \in {"retry", "error"} /\ tries < MaxRetries

\* sendTelegram: 429 is the only answer after which it is sent again.
Again(answer, tries) == answer.says = "retry" /\ tries < MaxRetries

Counted(stats, answer) ==
    CASE answer.says = "ok" -> [stats EXCEPT !.tgSent = @ + 1]
      [] answer.says = "blocked" -> [stats EXCEPT !.tgBlocked = @ + 1]
      [] OTHER -> [stats EXCEPT !.tgFailed = @ + 1]

\* One message to one chat of the page; the last of them ends the page.
Telegram(h) ==
    /\ pc[h] = "telegram"
    /\ IF req[h].left = {}
       THEN Go(h, "stats") /\ Fine /\ UNCHANGED <<req, sent, twice>>
       ELSE \E answer \in Answers :
               /\ IF answer.says = "error" THEN Broken ELSE Fine
               /\ LET u == Min(req[h].left)
                  IN  IF answer.delivered THEN Send({Letter("telegram", u, u, req[h].about)})
                      ELSE UNCHANGED <<sent, twice>>
               /\ req' = IF Again(answer, req[h].tries)
                         THEN [req EXCEPT ![h].tries = @ + 1]
                         ELSE [req EXCEPT ![h].tries = 0, ![h].left = @ \ {Min(@)},
                                          ![h].stats = Counted(@, answer)]
               /\ UNCHANGED pc
    /\ UNCHANGED <<people, letters, broadcasts, client, receipts, asked,
                   known, dead, dropped, overtaken, before, hidden, lost, crossed>>

\* The message about an order goes to the chat the customer has by now, once.
TelegramOrder(h) ==
    /\ pc[h] = "telegram"
    /\ req[h].kind = "order"
    /\ \E answer \in Answers :
          IF req[h].user \in chats /\ answer.delivered
          THEN Send({Letter("telegram", req[h].user, req[h].user, req[h].about)})
          ELSE UNCHANGED <<sent, twice>>
    /\ Done(h)
    /\ UNCHANGED <<people, letters, broadcasts, client, receipts, asked, world,
                   known, dead, dropped, overtaken, before, hidden, lost, crossed>>

-----------------------------------------------------------------------------
(* Broadcasts *)

\* create: the row, SENDING from the start, with the moment it was made.
CreateRow(h) ==
    /\ pc[h] = "create"
    /\ IF req[h].push \/ req[h].telegram
       THEN /\ broadcasts' = Append(broadcasts,
                  [created |-> customers \cup Joining, audience |-> req[h].audience, status |-> "SENDING",
                   recipients |-> 0, stats |-> NoStats,
                   push |-> req[h].push, telegram |-> req[h].telegram])
            /\ req' = [req EXCEPT ![h].about = Len(broadcasts) + 1]
            /\ Go(h, "page")
       ELSE Done(h) /\ UNCHANGED broadcasts
    /\ UNCHANGED <<people, letters, client, receipts, asked, world, history>>

\* writeFeed: a page of recipients.
ReadPage(h) ==
    /\ pc[h] = "page"
    /\ LET where == Recipients(broadcasts[req[h].about])
           us == Page(where, req[h].after)
       IN  \/ /\ Fine
              /\ hidden' = hidden \cup PassedOver(where, req[h].after)
              /\ req' = [req EXCEPT ![h].page = us]
              /\ Go(h, IF us = {} THEN "count" ELSE "draw")
           \/ Broken /\ Go(h, "failed") /\ UNCHANGED <<req, hidden>>
    /\ UNCHANGED <<people, letters, broadcasts, client, receipts, asked,
                   known, sent, twice, dead, dropped, overtaken, before, lost, crossed>>

\* recipientsCount; the answer; and the delivery goes on in the background.
WriteCount(h) ==
    /\ pc[h] = "count"
    /\ \/ /\ Fine
          /\ broadcasts' = [broadcasts EXCEPT ![req[h].about].recipients = req[h].count]
          /\ req' = [req EXCEPT ![h].after = None, ![h].page = {}]
          /\ Go(h, "deliver")
       \/ Broken /\ Go(h, "failed") /\ UNCHANGED <<broadcasts, req>>
    /\ UNCHANGED <<people, letters, client, receipts, asked, history>>

\* deliver: a page of recipients with their chats and tokens.
DeliverPage(h) ==
    /\ pc[h] = "deliver"
    /\ LET b == broadcasts[req[h].about]
           us == Page(Recipients(b), req[h].after)
       IN  \/ /\ Fine
              /\ req' = [req EXCEPT ![h].page = us, ![h].stats = NoStats, ![h].tries = 0,
                            ![h].todo = IF b.push THEN Messages(us) ELSE {},
                            ![h].left = IF b.telegram THEN us \cap chats ELSE {}]
              /\ Go(h, IF us = {} THEN "done" ELSE "push")
           \/ Broken /\ Go(h, "failed") /\ UNCHANGED req
    /\ UNCHANGED <<people, letters, broadcasts, client, receipts, asked, history>>

Plus(a, b) ==
    [pushSent |-> a.pushSent + b.pushSent, pushFailed |-> a.pushFailed + b.pushFailed,
     tgSent |-> a.tgSent + b.tgSent, tgFailed |-> a.tgFailed + b.tgFailed,
     tgBlocked |-> a.tgBlocked + b.tgBlocked]

\* The counters of the page are added, and the next page is read after its last user.
WriteStats(h) ==
    /\ pc[h] = "stats"
    /\ \/ /\ Fine
          /\ broadcasts' = [broadcasts EXCEPT ![req[h].about].stats = Plus(@, req[h].stats)]
          /\ req' = [req EXCEPT ![h].after = Max(req[h].page)]
          /\ Go(h, IF LastPage(req[h]) THEN "done" ELSE "deliver")
       \/ Broken /\ Go(h, "failed") /\ UNCHANGED <<broadcasts, req>>
    /\ UNCHANGED <<people, letters, client, receipts, asked, history>>

\* finish: DONE, which may fail and be followed by FAILED; FAILED, after which nothing
\* is tried.
Finish(h) ==
    /\ \/ /\ pc[h] \in {"done", "failed"}
          /\ Fine
          /\ broadcasts' = [broadcasts EXCEPT ![req[h].about].status =
                                IF pc[h] = "done" THEN "DONE" ELSE "FAILED"]
          /\ Done(h)
          /\ UNCHANGED lost
       \/ /\ pc[h] = "done"
          /\ Broken
          /\ Go(h, "failed")
          /\ UNCHANGED <<broadcasts, req, lost>>
       \/ /\ pc[h] = "failed"
          /\ Broken
          /\ lost' = lost \cup {req[h].about}
          /\ Done(h)
          /\ UNCHANGED broadcasts
    /\ UNCHANGED <<people, letters, client, receipts, asked,
                   known, sent, twice, dead, dropped, overtaken, before, hidden, crossed>>

-----------------------------------------------------------------------------

\* Slip: what was under way is left as it is.
LeftAsItIs(b) == b

\* onModuleInit: what was under way is called FAILED.
Interrupted(b) == IF b.status = "SENDING" THEN [b EXCEPT !.status = "FAILED"] ELSE b

Restart ==
    /\ restarts < mix.restarts
    /\ restarts' = restarts + 1
    /\ pc' = [h \in Handlers |-> "idle"]
    /\ req' = [h \in Handlers |-> NoReq]
    /\ receipts' = {}
    /\ broadcasts' = [i \in DOMAIN broadcasts |-> Interrupted(broadcasts[i])]
    /\ UNCHANGED <<people, letters, client, asked, failures, history>>

Init ==
    /\ mix \in Mixes
    /\ customers = World.customers
    /\ chats = World.chats
    /\ tokens = World.tokens
    /\ feed = {} /\ drawn = 0 /\ broadcasts = <<>>
    /\ client = [u \in Users |-> [cursor |-> None, shown |-> {}]]
    /\ receipts = {}
    /\ pc = [h \in Handlers |-> "idle"]
    /\ req = [h \in Handlers |-> NoReq]
    /\ asked = 0 /\ failures = 0 /\ restarts = 0
    /\ known = World.customers
    /\ sent = {} /\ twice = {} /\ dead = {} /\ dropped = {}
    /\ overtaken = {} /\ hidden = {} /\ lost = {}
    /\ before = [u \in Users |-> {}]
    /\ crossed = FALSE

Requested(h) == \E r \in mix.requests : Ask(h, r)

Step(h) ==
    \/ Draw(h) \/ CommitRows(h) \/ Clear(h) \/ Upsert(h) \/ Write(h)
    \/ ReadTokens(h) \/ Push(h) \/ TelegramOrder(h)
    \/ req[h].kind = "create" /\ Telegram(h)
    \/ CreateRow(h) \/ ReadPage(h) \/ WriteCount(h) \/ DeliverPage(h) \/ WriteStats(h) \/ Finish(h)

Next ==
    /\ UNCHANGED mix
    /\ \/ \E h \in Handlers : Requested(h) \/ Step(h)
       \/ \E u \in Users : Poll(u)
       \/ \E t \in Tokens : Receipt(t)
       \/ Restart

Spec == Init /\ [][Next]_vars

\* The process goes on with what it has begun.
FairSpec == Spec /\ \A h \in Handlers : WF_vars(UNCHANGED mix /\ Step(h))

-----------------------------------------------------------------------------
(* Properties *)

\* Every variable has its type.
TypeOK ==
    /\ customers \subseteq Users /\ chats \subseteq customers
    /\ tokens \in [Tokens -> Installation \cup {None}]
    /\ \A r \in feed : r \in FeedRow /\ r.seq \in 1..drawn
    /\ \A r, s \in feed : r.seq = s.seq => r = s
    /\ drawn \in Nat
    /\ broadcasts \in Seq(Broadcast)
    /\ client \in [Users -> [cursor : (0..drawn) \cup {None}, shown : SUBSET FeedRow]]
    /\ receipts \subseteq Tokens
    /\ pc \in [Handlers -> Stages]
    /\ req \in [Handlers -> Request]
    /\ failures \in Nat /\ restarts \in Nat /\ asked \in Nat
    /\ known \subseteq Users

Told(channel, i) == {l.user : l \in {m \in sent : m.channel = channel /\ m.about = i}}
Written(i) == {r.user : r \in {q \in feed : q.about = i}}

\* (schema.prisma:926-932, the cursor of the feed) A client that polls from cursor to
\* cursor shows every row it was ever to see, but those that committed behind a later
\* number of the same user.
MissedOnlyOvertaken ==
    \A u \in customers : client[u].cursor # None =>
        {r \in RowsOf(u) : r.seq <= client[u].cursor} \subseteq client[u].shown \cup before[u] \cup overtaken

\* (push-tokens.service.ts:16-19) A device has one installation, as long as it does
\* not register two at once.
OneInstallation ==
    ~crossed => \A t, o \in Tokens :
        tokens[t] # None /\ tokens[o] # None /\ tokens[t].device = tokens[o].device =>
            t = o \/ tokens[t].device = None

\* (push.service.ts:18-20, 129) What the push service removes are the tokens Expo named,
\* and those that never were tokens: the answers fall on the messages they are about.
OnlyTheDeadAreDropped == dropped \subseteq dead \cup Malformed

\* The table of installations is what pushes need it to be.
InstallationsHold == OneInstallation /\ OnlyTheDeadAreDropped

\* (broadcasts.service.ts:69-72, 391-406) Whatever fails and whoever comes and goes,
\* nobody has a broadcast twice: one row in the feed, one message in the chat, one push
\* to an installation.
ToldOnce ==
    /\ \A l \in twice : l.about = AnOrder
    /\ \A r, s \in feed : r.user = s.user /\ r.about = s.about /\ r.about # AnOrder => r = s

\* (broadcasts.service.ts:204-205, order-notifier.service.ts:272-274) The row in the
\* feed comes first: whoever got a push or a message has it, unless he has left, the
\* page passed him over because the row before him was gone, or his account was not
\* yet to be seen when the broadcast was made.
NobodyToldWithoutRow ==
    \A l \in sent : l.user \in customers =>
        \/ \E r \in feed : r.user = l.user /\ r.about = l.about
        \/ l.user \in hidden /\ l.about # AnOrder

\* Channels agree: each tells a broadcast once, after the feed, to those it is for.
EachToldOnce == TypeOK /\ ToldOnce /\ NobodyToldWithoutRow

\* (schema.prisma:1024) A broadcast that is DONE has reached the feed of every customer
\* of its audience who was there when it was made and still is, but those passed over,
\* and counts no more recipients than there are rows, those of the deleted included.
DoneReachesAll ==
    \A i \in DOMAIN broadcasts :
        LET b == broadcasts[i]
        IN  b.status = "DONE" =>
               /\ Recipients(b) \ hidden \subseteq Written(i)
               /\ b.recipients \in Cardinality(Written(i))..
                                   Cardinality(Written(i) \cup ((b.created \cap b.audience) \ customers))

\* (broadcasts.service.ts:293-296) The counters speak of people and never of more than
\* were reached; when the broadcast is DONE whoever was reached is counted, as sent or,
\* when the answer was lost, as failed.
CountersAddUp ==
    \A i \in DOMAIN broadcasts :
        LET b == broadcasts[i]
            pushed == Cardinality(Told("push", i))
            written == Cardinality(Told("telegram", i))
        IN  /\ b.stats.pushSent <= pushed
            /\ b.stats.tgSent <= written
            /\ b.status = "DONE" => /\ pushed <= b.stats.pushSent + b.stats.pushFailed
                                    /\ written <= b.stats.tgSent + b.stats.tgFailed

\* What the panel says of a broadcast is what became of it.
BroadcastsAddUp == DoneReachesAll /\ CountersAddUp

\* (broadcasts.service.ts:69-72) A broadcast does not stay SENDING: it is finished, or
\* called FAILED when the process comes back, unless the very query that was to finish
\* it failed.
BroadcastEnds ==
    \A i \in 1..MaxBroadcasts :
        (i \in DOMAIN broadcasts /\ broadcasts[i].status = "SENDING")
            ~> (i \in lost \/ (i \in DOMAIN broadcasts /\ broadcasts[i].status # "SENDING"))
=============================================================================
