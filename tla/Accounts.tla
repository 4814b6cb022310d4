------------------------------ MODULE Accounts ------------------------------
(***************************************************************************)
(* Accounts, their sessions and their end: users.service.ts,               *)
(* auth.service.ts, email-auth.service.ts, telegram-auth.service.ts, the   *)
(* guard strategies/jwt.strategy.ts, and what checkout does to an account  *)
(* (orders.service.ts).                                                    *)
(*                                                                         *)
(* Each action is the code from one await to the next; pc[h] is the await  *)
(* at which request h stands.  Rows are numbered and never removed from    *)
(* the sequences: a deleted row is in state "gone".  Passwords, the test   *)
(* account, display names, locales and the verification date of an address *)
(* are left out, and of the limit on codes per address only that it may    *)
(* refuse: no property tells them apart.                                   *)
(***************************************************************************)
EXTENDS Integers, Sequences, FiniteSets

CONSTANTS
    Handlers,      \* requests being served at the same time
    Addresses,     \* e-mail addresses
    Telegrams,     \* Telegram ids
    None,          \* NULL
    MaxAttempts,   \* MAX_ATTEMPTS: wrong codes a session takes
    MaxRequests    \* bound: requests served and sessions expired in a behaviour

ASSUME NoneAssumption == None \notin Addresses \cup Telegrams
ASSUME HandlersAssumption == IsFiniteSet(Handlers) /\ Handlers # {}
ASSUME BoundAssumption == MaxAttempts \in Nat \ {0} /\ MaxRequests \in Nat

VARIABLES
    users,      \* rows of users
    groups,     \* order_groups: whose, still active, contacts kept
    tokens,     \* refresh_tokens
    codes,      \* email_auth_sessions
    links,      \* telegram_auth_sessions
    pc,         \* where each request stands
    req,        \* what it knows
    asked,      \* requests and expiries so far
    crossed,    \* history: accounts whose deletion overlapped another request
    contended   \* history: logins of which two requests used a token at once

rows == <<users, groups, tokens, codes, links>>
vars == <<users, groups, tokens, codes, links, pc, req, asked, crossed, contended>>

Stage == {"idle", "find", "create", "winner", "bind",           \* Telegram
          "claimLink", "issue", "persist", "rotate", "logout",  \* tokens
          "address", "store", "send", "withdraw",               \* a new code
          "read", "wrong", "shut", "claim", "resolve", "register", "email",
          "order", "profile", "phone",                          \* checkout
          "account", "count", "erase"}                          \* deleteAccount

NoReq == [user |-> 0, goal |-> "none", email |-> None, telegram |-> None,
          code |-> 0, link |-> 0, token |-> 0]

NewUser(email, telegram) ==
    [state |-> "live", email |-> email, telegram |-> telegram, phone |-> "none"]

NewCode(email, u) ==
    [state |-> "open", time |-> "fresh", email |-> email, user |-> u, attempts |-> 0]

TriedCode(email, u) == [NewCode(email, u) EXCEPT !.attempts = MaxAttempts - 1]

NewLink == [state |-> "open", time |-> "fresh", user |-> 0]

\* The model begins with one customer who has logged in: by mail, and asks for a
\* code to do so again; or by Telegram, and has asked for a code to add an address
\* and for another to log in by it.  Of each code all wrong guesses but one are
\* used up.  There is a Telegram session that no bot has confirmed.
Init ==
    /\ \E a \in Addresses, t \in Telegrams :
          \/ users = <<NewUser(a, None)>> /\ codes = <<TriedCode(a, 0)>>
          \/ users = <<NewUser(None, t)>> /\ codes = <<TriedCode(a, 1), TriedCode(a, 0)>>
    /\ groups = <<>>
    /\ tokens = <<[user |-> 1, state |-> "live", code |-> 0, link |-> 0, login |-> 1]>>
    /\ links = <<NewLink>>
    /\ pc = [h \in Handlers |-> "idle"]
    /\ req = [h \in Handlers |-> NoReq]
    /\ asked = 0
    /\ crossed = {}
    /\ contended = {}

-----------------------------------------------------------------------------
(* Requests *)

Goto(h, stage) == pc' = [pc EXCEPT ![h] = stage]

Go(h, stage, r) == Goto(h, stage) /\ req' = [req EXCEPT ![h] = r]

Stay(h, stage) == Goto(h, stage) /\ UNCHANGED req

Leave(h) == Go(h, "idle", NoReq)

Tick == asked < MaxRequests /\ asked' = asked + 1

\* A request arrives; its first query is still to come.
Accept(h, stage, r) ==
    /\ pc[h] = "idle"
    /\ Tick
    /\ Go(h, stage, r)

\* Slip: the guard takes the token's word.
AuthenticatedByToken(u) == TRUE

\* JwtStrategy.validate: an access token outlives its account, and is refused.
Authenticated(u) == users[u].state = "live"

AcceptFrom(h, u, stage, r) ==
    /\ Authenticated(u)
    /\ Accept(h, stage, [r EXCEPT !.user = u])
    /\ UNCHANGED rows

-----------------------------------------------------------------------------
(* users.service.ts: look up by what identifies a person *)

FindByEmail(a) == {u \in DOMAIN users : users[u].email = a /\ users[u].state = "live"}

FindByTelegram(t) == {u \in DOMAIN users : users[u].telegram = t /\ users[u].state = "live"}

\* The unique indexes do not look at deletedAt.
EmailFree(a) == \A u \in DOMAIN users : users[u].email # a

TelegramFree(t) == \A u \in DOMAIN users : users[u].telegram # t

\* confirm (the bot) writes the account into the session, a login goes on to
\* its tokens.
AfterTelegram(h) == IF req[h].link # 0 THEN "bind" ELSE "issue"

\* findOrCreateByTelegram: the first look.
Find(h) ==
    /\ pc[h] = "find"
    /\ \/ \E u \in FindByTelegram(req[h].telegram) :
              Go(h, AfterTelegram(h), [req[h] EXCEPT !.user = u])
       \/ /\ FindByTelegram(req[h].telegram) = {}
          /\ Stay(h, "create")
    /\ UNCHANGED <<rows, asked>>

\* The insert, or P2002 when the telegramId is taken by now.
Create(h) ==
    /\ pc[h] = "create"
    /\ IF TelegramFree(req[h].telegram)
       THEN /\ users' = Append(users, NewUser(None, req[h].telegram))
            /\ Go(h, AfterTelegram(h), [req[h] EXCEPT !.user = Len(users) + 1])
       ELSE /\ Stay(h, "winner")
            /\ UNCHANGED users
    /\ UNCHANGED <<groups, tokens, codes, links, asked>>

\* The loser of the race reads the row of the winner, or rethrows.
Winner(h) ==
    /\ pc[h] = "winner"
    /\ \/ \E u \in FindByTelegram(req[h].telegram) :
              Go(h, AfterTelegram(h), [req[h] EXCEPT !.user = u])
       \/ FindByTelegram(req[h].telegram) = {} /\ Leave(h)
    /\ UNCHANGED <<rows, asked>>

-----------------------------------------------------------------------------
(* auth.service.ts *)

\* loginWithTelegram: the Mini App, its signature already verified.
LoginWithTelegram(h, t) ==
    /\ Accept(h, "find", [NoReq EXCEPT !.telegram = t])
    /\ UNCHANGED rows

\* issueTokens reads the account and does not look at deletedAt.
IssueTokens(h) ==
    /\ pc[h] = "issue"
    /\ Stay(h, "persist")
    /\ UNCHANGED <<rows, asked>>

\* persistRefreshToken.  code, link and login are history: the session the
\* token was given for, and the first token of its chain of rotations.
PersistRefreshToken(h) ==
    /\ pc[h] = "persist"
    /\ tokens' = Append(tokens,
          [user |-> req[h].user, state |-> "live",
           code |-> req[h].code, link |-> req[h].link,
           login |-> IF req[h].token = 0 THEN Len(tokens) + 1
                     ELSE tokens[req[h].token].login])
    /\ Leave(h)
    /\ UNCHANGED <<users, groups, codes, links, asked>>

\* refreshTokens: the row must be there and unrevoked when it is read ...
RefreshTokens(h, t) ==
    /\ tokens[t].state = "live"
    /\ Accept(h, "rotate", [NoReq EXCEPT !.user = tokens[t].user, !.token = t])
    /\ UNCHANGED rows

\* ... and is revoked by its id: the update fails only on a deleted row.
Rotate(h) ==
    /\ pc[h] = "rotate"
    /\ LET t == req[h].token IN
       IF tokens[t].state = "gone"
       THEN Leave(h) /\ UNCHANGED tokens
       ELSE /\ tokens' = [tokens EXCEPT ![t].state = "revoked"]
            /\ Stay(h, "issue")
    /\ UNCHANGED <<users, groups, codes, links, asked>>

\* revokeRefreshToken (logout): somebody who is logged in sends a token.
RevokeRefreshToken(h, t) ==
    /\ \E u \in DOMAIN users : Authenticated(u)
    /\ Accept(h, "logout", [NoReq EXCEPT !.token = t])
    /\ UNCHANGED rows

Logout(h) ==
    /\ pc[h] = "logout"
    /\ LET t == req[h].token IN
       tokens' = [tokens EXCEPT ![t].state = IF @ = "live" THEN "revoked" ELSE @]
    /\ Leave(h)
    /\ UNCHANGED <<users, groups, codes, links, asked>>

-----------------------------------------------------------------------------
(* telegram-auth.service.ts *)

\* What every read of a session asks before anything else.
Usable(session) == session.state = "open" /\ session.time = "fresh"

\* createSession: one insert.
CreateLink(h) ==
    /\ pc[h] = "idle"
    /\ Tick
    /\ links' = Append(links, NewLink)
    /\ UNCHANGED <<users, groups, tokens, codes, pc, req>>

\* confirm: the bot got /start with a nonce.
Confirm(h, n, t) ==
    /\ Usable(links[n])
    /\ Accept(h, "find", [NoReq EXCEPT !.link = n, !.telegram = t])
    /\ UNCHANGED rows

\* Its update, by id, does not look at the session again.
Bind(h) ==
    /\ pc[h] = "bind"
    /\ LET n == req[h].link IN
       links' = IF links[n].state = "gone" THEN links
                ELSE [links EXCEPT ![n].user = req[h].user]
    /\ Leave(h)
    /\ UNCHANGED <<users, groups, tokens, codes, asked>>

\* poll: a confirmed session is claimed ...
Poll(h, n) ==
    /\ Usable(links[n])
    /\ links[n].user # 0
    /\ Accept(h, "claimLink", [NoReq EXCEPT !.link = n, !.user = links[n].user])
    /\ UNCHANGED rows

\* ... by the statement that finds it unconsumed; the tokens are for the
\* account that was read.
ClaimLink(h) ==
    /\ pc[h] = "claimLink"
    /\ LET n == req[h].link IN
       IF links[n].state = "open"
       THEN /\ links' = [links EXCEPT ![n].state = "used"]
            /\ Stay(h, "issue")
       ELSE Leave(h) /\ UNCHANGED links
    /\ UNCHANGED <<users, groups, tokens, codes, asked>>

-----------------------------------------------------------------------------
(* email-auth.service.ts: a code is sent *)

\* createSession, up to the count of assertNotFlooding (which may refuse: Fail).
CreateSession(h, a) ==
    /\ Accept(h, "store", [NoReq EXCEPT !.email = a])
    /\ UNCHANGED rows

\* createLinkSession: a customer wants another address.
CreateLinkSession(h, u, a) ==
    AcceptFrom(h, u, "address", [NoReq EXCEPT !.email = a])

CheckAddress(h) ==
    /\ pc[h] = "address"
    /\ IF FindByEmail(req[h].email) \subseteq {req[h].user}
       THEN Stay(h, "store")
       ELSE Leave(h)
    /\ UNCHANGED <<rows, asked>>

\* createAndSend: the row, the mail, and the row shut when the mail fails.
Store(h) ==
    /\ pc[h] = "store"
    /\ codes' = Append(codes, NewCode(req[h].email, req[h].user))
    /\ Go(h, "send", [req[h] EXCEPT !.code = Len(codes) + 1])
    /\ UNCHANGED <<users, groups, tokens, links, asked>>

Send(h) ==
    /\ pc[h] = "send"
    /\ Leave(h) \/ Stay(h, "withdraw")
    /\ UNCHANGED <<rows, asked>>

\* update ... consumedAt: by id, so it throws when the row was deleted.
Shut(s) == codes' = [codes EXCEPT ![s].state = IF @ = "gone" THEN @ ELSE "used"]

Withdraw(h) ==
    /\ pc[h] = "withdraw"
    /\ Shut(req[h].code)
    /\ Leave(h)
    /\ UNCHANGED <<users, groups, tokens, links, asked>>

-----------------------------------------------------------------------------
(* email-auth.service.ts: a code comes back *)

Verify(h, s) ==
    /\ Accept(h, "read", [NoReq EXCEPT !.code = s, !.goal = "login"])
    /\ UNCHANGED rows

VerifyLink(h, u, s) ==
    AcceptFrom(h, u, "read", [NoReq EXCEPT !.code = s, !.goal = "link"])

\* Slip: one attempt more.
AttemptsLeftOneMore(row) == row.attempts <= MaxAttempts

AttemptsLeft(row) == row.attempts < MaxAttempts

\* claim reads the session, refuses it, or compares the code.  A login goes on
\* with the account the row names, if it names one.
ReadCode(h) ==
    /\ pc[h] = "read"
    /\ LET s == req[h].code
           row == codes[s]
       IN  IF ~Usable(row) \/ ~AttemptsLeft(row)
           THEN Leave(h)
           ELSE \/ Stay(h, "wrong")
                \/ Go(h, "claim", [req[h] EXCEPT
                       !.user = IF req[h].goal = "login" THEN row.user ELSE @])
    /\ UNCHANGED <<rows, asked>>

\* A wrong code is counted, and the count it reaches may shut the session.
Wrong(h) ==
    /\ pc[h] = "wrong"
    /\ LET s == req[h].code IN
       IF codes[s].state = "gone"
       THEN Leave(h) /\ UNCHANGED codes
       ELSE /\ codes' = [codes EXCEPT ![s].attempts = @ + 1]
            /\ IF codes[s].attempts + 1 >= MaxAttempts THEN Stay(h, "shut") ELSE Leave(h)
    /\ UNCHANGED <<users, groups, tokens, links, asked>>

ShutCode(h) ==
    /\ pc[h] = "shut"
    /\ Shut(req[h].code)
    /\ Leave(h)
    /\ UNCHANGED <<users, groups, tokens, links, asked>>

\* A right code claims the session if nobody has.  Only then is it asked whose
\* session a link request has claimed.
AfterClaim(h) ==
    IF req[h].goal = "login" THEN Stay(h, "resolve")
    ELSE IF codes[req[h].code].user = req[h].user THEN Stay(h, "email")
    ELSE Leave(h)

\* Slip: the session is claimed by its id alone.
OpenAlways(s) == codes[s].state # "gone"

\* where: { id, consumedAt: null }
Open(s) == codes[s].state = "open"

ClaimCode(h) ==
    /\ pc[h] = "claim"
    /\ LET s == req[h].code IN
       IF Open(s)
       THEN /\ codes' = [codes EXCEPT ![s].state = "used"]
            /\ AfterClaim(h)
       ELSE Leave(h) /\ UNCHANGED codes
    /\ UNCHANGED <<users, groups, tokens, links, asked>>

\* resolveUser: the account of the row, or the one that has the address, or a
\* new one.
ResolveUser(h) ==
    /\ pc[h] = "resolve"
    /\ LET owner == FindByEmail(codes[req[h].code].email) IN
       IF req[h].user # 0 THEN Stay(h, "issue")
       ELSE \/ \E u \in owner : Go(h, "issue", [req[h] EXCEPT !.user = u])
            \/ owner = {} /\ Stay(h, "register")
    /\ UNCHANGED <<rows, asked>>

\* createFromEmailLogin, or a conflict when the address is taken by now.
Register(h) ==
    /\ pc[h] = "register"
    /\ LET a == codes[req[h].code].email IN
       IF EmailFree(a)
       THEN /\ users' = Append(users, NewUser(a, None))
            /\ Go(h, "issue", [req[h] EXCEPT !.user = Len(users) + 1])
       ELSE Leave(h) /\ UNCHANGED users
    /\ UNCHANGED <<groups, tokens, codes, links, asked>>

\* verifyLink moves the address to the account, whatever became of it.
WriteEmail(h) ==
    /\ pc[h] = "email"
    /\ LET a == codes[req[h].code].email
           u == req[h].user
       IN  users' = IF \A v \in DOMAIN users \ {u} : users[v].email # a
                    THEN [users EXCEPT ![u].email = a]
                    ELSE users
    /\ Leave(h)
    /\ UNCHANGED <<groups, tokens, codes, links, asked>>

-----------------------------------------------------------------------------
(* orders.service.ts: an order, and the phone it brings to the profile *)

CreateFromCart(h, u) == AcceptFrom(h, u, "order", NoReq)

Order(h) ==
    /\ pc[h] = "order"
    /\ groups' = Append(groups,
          [user |-> req[h].user, state |-> "active", contact |-> "kept"])
    /\ Stay(h, "profile")
    /\ UNCHANGED <<users, tokens, codes, links, asked>>

\* An order is delivered or cancelled (module OrderGroups).
Finish(g) ==
    /\ groups[g].state = "active"
    /\ groups' = [groups EXCEPT ![g].state = "final"]
    /\ UNCHANGED <<users, tokens, codes, links, pc, req, asked>>

\* updateProfile fills the phone in once, the way backfillProfilePhone does.
UpdateProfile(h, u) == AcceptFrom(h, u, "profile", NoReq)

ReadProfile(h) ==
    /\ pc[h] = "profile"
    /\ IF users[req[h].user].phone = "none" THEN Stay(h, "phone") ELSE Leave(h)
    /\ UNCHANGED <<rows, asked>>

WritePhone(h) ==
    /\ pc[h] = "phone"
    /\ users' = [users EXCEPT ![req[h].user].phone = "given"]
    /\ Leave(h)
    /\ UNCHANGED <<groups, tokens, codes, links, asked>>

-----------------------------------------------------------------------------
(* users.service.ts: deleteAccount *)

DeleteAccount(h, u) == AcceptFrom(h, u, "account", NoReq)

ReadAccount(h) ==
    /\ pc[h] = "account"
    /\ LET user == users[req[h].user] IN
       IF user.state = "live"
       THEN Go(h, "count", [req[h] EXCEPT !.email = user.email])
       ELSE Leave(h)
    /\ UNCHANGED <<rows, asked>>

CountActive(h) ==
    /\ pc[h] = "count"
    /\ IF \E g \in DOMAIN groups : groups[g].user = req[h].user /\ groups[g].state = "active"
       THEN Leave(h)
       ELSE Stay(h, "erase")
    /\ UNCHANGED <<rows, asked>>

\* The sessions that go with an account: those that name it, and the codes for
\* the address it had when it was read.
Mine(h, code) ==
    \/ code.user = req[h].user
    \/ req[h].email # None /\ code.email = req[h].email

\* The transaction.  Its statements touch a table each, so what commits between
\* two of them is as if it had come before or after.
Erase(h) ==
    /\ pc[h] = "erase"
    /\ LET u == req[h].user IN
       /\ users' = [users EXCEPT ![u] =
             [state |-> "deleted", email |-> None, telegram |-> None, phone |-> "none"]]
       /\ groups' = [g \in DOMAIN groups |->
             IF groups[g].user = u THEN [groups[g] EXCEPT !.contact = "wiped"] ELSE groups[g]]
       /\ tokens' = [t \in DOMAIN tokens |->
             IF tokens[t].user = u THEN [tokens[t] EXCEPT !.state = "gone"] ELSE tokens[t]]
       /\ codes' = [s \in DOMAIN codes |->
             IF Mine(h, codes[s]) THEN [codes[s] EXCEPT !.state = "gone"] ELSE codes[s]]
       /\ links' = [n \in DOMAIN links |->
             IF links[n].user = u THEN [links[n] EXCEPT !.state = "gone"] ELSE links[n]]
    /\ Leave(h)
    /\ UNCHANGED asked

-----------------------------------------------------------------------------
(* What happens by itself *)

\* A query throws, a limit refuses, or the process dies.
Fail(h) ==
    /\ pc[h] # "idle"
    /\ Leave(h)
    /\ UNCHANGED <<rows, asked>>

\* Time passes.  A token that has expired is as good as revoked.
ExpireCode(s) ==
    /\ Tick
    /\ Usable(codes[s])
    /\ codes' = [codes EXCEPT ![s].time = "expired"]
    /\ UNCHANGED <<users, groups, tokens, links, pc, req>>

ExpireLink(n) ==
    /\ Tick
    /\ Usable(links[n])
    /\ links' = [links EXCEPT ![n].time = "expired"]
    /\ UNCHANGED <<users, groups, tokens, codes, pc, req>>

ExpireToken(t) ==
    /\ Tick
    /\ tokens[t].state = "live"
    /\ tokens' = [tokens EXCEPT ![t].state = "revoked"]
    /\ UNCHANGED <<users, groups, codes, links, pc, req>>

-----------------------------------------------------------------------------
(* The specification *)

Login(h) ==
    \/ \E t \in Telegrams : LoginWithTelegram(h, t)
    \/ CreateLink(h)
    \/ \E n \in DOMAIN links : (\E t \in Telegrams : Confirm(h, n, t)) \/ Poll(h, n)
    \/ \E a \in Addresses : CreateSession(h, a)
    \/ \E s \in DOMAIN codes : Verify(h, s)
    \/ \E t \in DOMAIN tokens : RefreshTokens(h, t) \/ RevokeRefreshToken(h, t)

Use(h) ==
    \E u \in DOMAIN users :
        \/ \E a \in Addresses : CreateLinkSession(h, u, a)
        \/ \E s \in DOMAIN codes : VerifyLink(h, u, s)
        \/ CreateFromCart(h, u)
        \/ UpdateProfile(h, u)
        \/ DeleteAccount(h, u)

Serve(h) ==
    \/ Find(h) \/ Create(h) \/ Winner(h)
    \/ IssueTokens(h) \/ PersistRefreshToken(h) \/ Rotate(h) \/ Logout(h)
    \/ Bind(h) \/ ClaimLink(h)
    \/ CheckAddress(h) \/ Store(h) \/ Send(h) \/ Withdraw(h)
    \/ ReadCode(h) \/ Wrong(h) \/ ShutCode(h) \/ ClaimCode(h)
    \/ ResolveUser(h) \/ Register(h) \/ WriteEmail(h)
    \/ Order(h) \/ ReadProfile(h) \/ WritePhone(h)
    \/ ReadAccount(h) \/ CountActive(h) \/ Erase(h)

Time ==
    \/ \E g \in DOMAIN groups : Finish(g)
    \/ \E s \in DOMAIN codes : ExpireCode(s)
    \/ \E n \in DOMAIN links : ExpireLink(n)
    \/ \E t \in DOMAIN tokens : ExpireToken(t)

\* The accounts whose deletion overlaps another request about them, and the
\* logins of which two requests hold a token.
Crossing ==
    {req[h].user : h \in {k \in Handlers :
        /\ pc[k] \in {"account", "count", "erase"}
        /\ \E j \in Handlers \ {k} : req[j].user = req[k].user}}

Contending ==
    {tokens[req[h].token].login : h \in {k \in Handlers :
        /\ req[k].token # 0
        /\ \E j \in Handlers \ {k} :
              /\ req[j].token # 0
              /\ tokens[req[j].token].login = tokens[req[k].token].login}}

Next ==
    /\ Time \/ \E h \in Handlers : Login(h) \/ Use(h) \/ Serve(h) \/ Fail(h)
    /\ crossed' = crossed \cup Crossing'
    /\ contended' = contended \cup Contending'

Spec == Init /\ [][Next]_vars

-----------------------------------------------------------------------------
(* Properties *)

User == [state : {"live", "deleted"}, email : Addresses \cup {None},
         telegram : Telegrams \cup {None}, phone : {"none", "given"}]

Group == [user : Nat, state : {"active", "final"}, contact : {"kept", "wiped"}]

Token == [user : Nat, state : {"live", "revoked", "gone"},
          code : Nat, link : Nat, login : Nat]

Code == [state : {"open", "used", "gone"}, time : {"fresh", "expired"},
         email : Addresses, user : Nat, attempts : Nat]

Link == [state : {"open", "used", "gone"}, time : {"fresh", "expired"}, user : Nat]

Request == [user : Nat, goal : {"none", "login", "link"},
            email : Addresses \cup {None}, telegram : Telegrams \cup {None},
            code : Nat, link : Nat, token : Nat]

\* A reference to a row, which may be NULL.
RefTo(table) == {0} \cup DOMAIN table

\* What rows refer to is there (the foreign keys) ...
RowsReferToRows ==
    /\ \A g \in DOMAIN groups : groups[g].user \in DOMAIN users
    /\ \A t \in DOMAIN tokens : /\ tokens[t].user \in DOMAIN users
                               /\ tokens[t].code \in RefTo(codes)
                               /\ tokens[t].link \in RefTo(links)
                               /\ tokens[t].login \in DOMAIN tokens
    /\ \A s \in DOMAIN codes : codes[s].user \in RefTo(users)
    /\ \A n \in DOMAIN links : links[n].user \in RefTo(users)

\* ... and so is what a request has in hand.
RefersToRows(r) ==
    /\ r.user \in RefTo(users)
    /\ r.code \in RefTo(codes)
    /\ r.link \in RefTo(links)
    /\ r.token \in RefTo(tokens)

\* Types and references.
TypeOK ==
    /\ users \in Seq(User)
    /\ groups \in Seq(Group)
    /\ tokens \in Seq(Token)
    /\ codes \in Seq(Code)
    /\ links \in Seq(Link)
    /\ pc \in [Handlers -> Stage]
    /\ req \in [Handlers -> Request]
    /\ asked \in 0..MaxRequests
    /\ RowsReferToRows
    /\ \A h \in Handlers : RefersToRows(req[h])

\* (email-auth.service.ts:104, telegram-auth.service.ts:101) A session gives
\* tokens exactly once, however many requests present it at once.
SpentOnce ==
    \A i, j \in DOMAIN tokens : i # j =>
        /\ tokens[i].code # 0 => tokens[i].code # tokens[j].code
        /\ tokens[i].link # 0 => tokens[i].link # tokens[j].link

\* (email-auth.service.ts:31) The count of wrong codes is read, compared and
\* written in separate statements, and the session shut in a third: overlapping
\* guesses pass the limit, a crash leaves the session open at it, and still no
\* session takes more guesses than the limit and the requests that overlap.
AttemptsBounded ==
    \A s \in DOMAIN codes : codes[s].attempts < MaxAttempts + Cardinality(Handlers)

\* (users.service.ts:203-212, schema.prisma:193-198) A deleted account has no
\* contact, no way in and no order a courier still has to bring, and nothing
\* gives it one again - unless a request about it overlapped the deletion.
Blank(u) ==
    /\ users[u].email = None /\ users[u].telegram = None /\ users[u].phone = "none"
    /\ \A t \in DOMAIN tokens : tokens[t].user = u => tokens[t].state # "live"
    /\ \A s \in DOMAIN codes : codes[s].user = u => codes[s].state # "open"
    /\ \A n \in DOMAIN links : links[n].user = u => links[n].state # "open"
    /\ \A g \in DOMAIN groups : groups[g].user = u =>
           groups[g].state = "final" /\ groups[g].contact = "wiped"

DeletedStaysBlank ==
    \A u \in DOMAIN users : users[u].state = "deleted" /\ u \notin crossed => Blank(u)

\* (auth.service.ts:103) Rotation: of the tokens that descend from one login
\* one at most is good, whatever fails in between - unless two requests
\* presented tokens of that login at the same time.
OneTokenPerLogin ==
    \A i, j \in DOMAIN tokens :
        /\ i # j
        /\ tokens[i].login = tokens[j].login
        /\ tokens[i].state = "live" /\ tokens[j].state = "live"
        => tokens[i].login \in contended

\* What ends stays ended: an account that is deleted, and a refresh token that was
\* exchanged, open nothing any more.
EndedStaysEnded == DeletedStaysBlank /\ OneTokenPerLogin

-----------------------------------------------------------------------------
(* The inductive invariant behind the theorems of Accounts_proofs.           *)

\* What a request has in hand at each await.
InHand(stage, r) ==
    /\ stage \in {"bind", "claimLink", "issue", "persist", "rotate", "email",
                  "order", "profile", "phone", "account", "count", "erase"} => r.user # 0
    /\ stage \in {"read", "claim"} /\ r.goal # "login" => r.user # 0
    /\ stage \in {"find", "create", "winner"} => r.telegram # None
    /\ stage \in {"address", "store"} => r.email # None
    /\ stage \in {"send", "withdraw", "read", "wrong", "shut", "claim",
                  "resolve", "register", "email"} => r.code # 0
    /\ stage \in {"bind", "claimLink"} => r.link # 0
    /\ stage \in {"rotate", "logout"} => r.token # 0

\* No request is about a code and a Telegram session; one that has not claimed
\* a session yet does not go to its tokens with it.
OneSession(stage, r) ==
    /\ r.code = 0 \/ r.link = 0
    /\ stage \in {"address", "store"} => r.link = 0
    /\ stage \in {"find", "create", "winner", "bind", "claimLink", "rotate"} => r.code = 0
    /\ stage = "rotate" => r.link = 0

RequestsAreSound ==
    \A h \in Handlers : InHand(pc[h], req[h]) /\ OneSession(pc[h], req[h])

\* The sessions h has claimed and not given tokens for yet.
CodeHeld(stage, r) ==
    IF stage \in {"resolve", "register", "issue", "persist"} THEN r.code ELSE 0

LinkHeld(stage, r) == IF stage \in {"issue", "persist"} THEN r.link ELSE 0

\* A session that is held or has given tokens is not open; it is held once, and
\* only before it has given tokens.
HeldOnce ==
    /\ \A h \in Handlers :
          LET s == CodeHeld(pc[h], req[h])
              n == LinkHeld(pc[h], req[h])
          IN  /\ s # 0 => /\ codes[s].state # "open"
                          /\ \A t \in DOMAIN tokens : tokens[t].code # s
                          /\ \A k \in Handlers \ {h} : CodeHeld(pc[k], req[k]) # s
              /\ n # 0 => /\ links[n].state # "open"
                          /\ \A t \in DOMAIN tokens : tokens[t].link # n
                          /\ \A k \in Handlers \ {h} : LinkHeld(pc[k], req[k]) # n
    /\ \A t \in DOMAIN tokens :
          /\ tokens[t].code # 0 => codes[tokens[t].code].state # "open"
          /\ tokens[t].link # 0 => links[tokens[t].link].state # "open"

\* Wrong guesses of a code that are compared and not counted yet.
Guessing(s) == {h \in Handlers : pc[h] = "wrong" /\ req[h].code = s}

GuessesCovered ==
    \A s \in DOMAIN codes :
        codes[s].attempts + Cardinality(Guessing(s)) < MaxAttempts + Cardinality(Handlers)

IInv == TypeOK /\ RequestsAreSound /\ HeldOnce /\ SpentOnce /\ GuessesCovered

(* The inductive invariant behind EndedStaysEnded.                           *)

\* Nobody has turned to an account that is deleted, unless a request about it
\* overlapped the deletion.
NobodyReturns ==
    \A u \in DOMAIN users : users[u].state = "deleted" /\ u \notin crossed =>
        \A h \in Handlers : req[h].user # u

\* What CountActive saw is so until the account is erased, with that exception.
FinalAt(stage, r) ==
    stage = "erase" /\ r.user \notin crossed =>
        \A g \in DOMAIN groups : groups[g].user = r.user => groups[g].state = "final"

\* A rotation revokes the one good token of its login before it gives the next.
ChainAt(stage, r) ==
    r.token # 0 =>
        /\ stage \in {"rotate", "logout", "issue", "persist"}
        /\ \A t \in DOMAIN tokens :
              /\ tokens[t].state = "live" /\ tokens[t].login = tokens[r.token].login
              /\ stage # "logout" /\ ~(stage = "rotate" /\ t = r.token)
              => tokens[t].login \in contended

EndedInv ==
    /\ Crossing \subseteq crossed /\ Contending \subseteq contended
    /\ EndedStaysEnded /\ NobodyReturns
    /\ \A h \in Handlers : FinalAt(pc[h], req[h]) /\ ChainAt(pc[h], req[h])
=============================================================================
