-------------------------- MODULE Accounts_proofs --------------------------
(***************************************************************************)
(* Proofs about Accounts: its types and references, that a session gives   *)
(* tokens once, that wrong guesses are bounded, and that what has ended    *)
(* stays ended, for any number of requests at a time, addresses, Telegram  *)
(* ids and attempts.                                                       *)
(***************************************************************************)
EXTENDS Accounts, AppVersions, FiniteSetTheorems, SequenceTheorems, WellFoundedInduction, TLAPS

-----------------------------------------------------------------------------
(* Sequences *)

LEMMA AppendTyped ==
    ASSUME NEW S, NEW s \in Seq(S), NEW e \in S
    PROVE  /\ Append(s, e) \in Seq(S)
           /\ DOMAIN Append(s, e) = 1..(Len(s) + 1)
           /\ DOMAIN s = 1..Len(s) /\ Len(s) \in Nat
           /\ \A i \in DOMAIN s : Append(s, e)[i] = s[i]
           /\ Append(s, e)[Len(s) + 1] = e
OBVIOUS

LEMMA SameIndices ==
    ASSUME NEW S, NEW s \in Seq(S), NEW f,
           f = [i \in DOMAIN s |-> f[i]], \A i \in DOMAIN s : f[i] \in S
    PROVE  f \in Seq(S) /\ DOMAIN f = DOMAIN s
<1>1. DOMAIN s = 1..Len(s) /\ Len(s) \in Nat
  OBVIOUS
<1>2. f \in [1..Len(s) -> S]
  BY <1>1
<1> QED BY <1>1, <1>2, SeqDef

LEMMA ReplaceTyped ==
    ASSUME NEW S, NEW s \in Seq(S), NEW i \in DOMAIN s, NEW e \in S
    PROVE  /\ [s EXCEPT ![i] = e] \in Seq(S)
           /\ DOMAIN [s EXCEPT ![i] = e] = DOMAIN s
           /\ \A j \in DOMAIN s : [s EXCEPT ![i] = e][j] = IF j = i THEN e ELSE s[j]
<1> DEFINE f == [s EXCEPT ![i] = e]
<1>1. DOMAIN s = 1..Len(s) /\ s \in [1..Len(s) -> S]
  OBVIOUS
<1>2. f = [j \in DOMAIN s |-> f[j]] /\ \A j \in DOMAIN s : f[j] = IF j = i THEN e ELSE s[j]
  BY <1>1
<1>3. \A j \in DOMAIN s : f[j] \in S
  BY <1>1, <1>2
<1> QED BY <1>2, <1>3, SameIndices

-----------------------------------------------------------------------------
(* A step of one handler *)

\* Rows are only added.
Grow ==
    /\ DOMAIN users \subseteq DOMAIN users'
    /\ DOMAIN tokens \subseteq DOMAIN tokens'
    /\ DOMAIN codes \subseteq DOMAIN codes'
    /\ DOMAIN links \subseteq DOMAIN links'

\* h is now at stage with r in hand, everybody else where they were.
Moves(h, stage, r) ==
    /\ stage \in Stage /\ r \in Request
    /\ pc' = [pc EXCEPT ![h] = stage]
    /\ req' = [req EXCEPT ![h] = r]

\* The part of the invariant about the tables alone.
Tables ==
    /\ users \in Seq(User) /\ groups \in Seq(Group) /\ tokens \in Seq(Token)
    /\ codes \in Seq(Code) /\ links \in Seq(Link)
    /\ RowsReferToRows

\* What is held is not lost, or was claimed in this step.
HoldsOn(h, stage, r) ==
    /\ \/ CodeHeld(stage, r) \in {0, CodeHeld(pc[h], req[h])}
       \/ LET s == CodeHeld(stage, r) IN
             s \in DOMAIN codes /\ codes[s].state = "open" /\ codes'[s].state # "open"
    /\ \/ LinkHeld(stage, r) \in {0, LinkHeld(pc[h], req[h])}
       \/ LET n == LinkHeld(stage, r) IN
             n \in DOMAIN links /\ links[n].state = "open" /\ links'[n].state # "open"

\* No session is opened again, no token changes hands.
StaysClosed ==
    /\ \A s \in DOMAIN codes : codes[s].state # "open" => codes'[s].state # "open"
    /\ \A n \in DOMAIN links : links[n].state # "open" => links'[n].state # "open"

SameOrigins ==
    /\ DOMAIN tokens' = DOMAIN tokens
    /\ \A t \in DOMAIN tokens : /\ tokens'[t].code = tokens[t].code
                               /\ tokens'[t].link = tokens[t].link

LEMMA NothingInHand ==
    /\ NoReq \in Request /\ RefersToRows(NoReq)'
    /\ InHand("idle", NoReq) /\ OneSession("idle", NoReq)
    /\ CodeHeld("idle", NoReq) = 0 /\ LinkHeld("idle", NoReq) = 0
    /\ "idle" \in Stage
BY DEF NoReq, Request, RefersToRows, RefTo, InHand, OneSession, CodeHeld, LinkHeld, Stage

LEMMA HandlerFacts ==
    ASSUME IInv, NEW h \in Handlers
    PROVE  /\ pc[h] \in Stage /\ req[h] \in Request /\ RefersToRows(req[h])
           /\ InHand(pc[h], req[h]) /\ OneSession(pc[h], req[h])
BY DEF IInv, TypeOK, RequestsAreSound

LEMMA MovedHandlers ==
    ASSUME IInv, NEW h \in Handlers, NEW stage, NEW r, Moves(h, stage, r)
    PROVE  /\ pc'[h] = stage /\ req'[h] = r
           /\ \A k \in Handlers \ {h} : pc'[k] = pc[k] /\ req'[k] = req[k]
           /\ pc' \in [Handlers -> Stage] /\ req' \in [Handlers -> Request]
BY DEF IInv, TypeOK, Moves

LEMMA RequestsStaySound ==
    ASSUME IInv, NEW h \in Handlers, NEW stage, NEW r, Moves(h, stage, r), Grow,
           RefersToRows(r)', InHand(stage, r), OneSession(stage, r),
           asked' \in 0..MaxRequests, Tables'
    PROVE  TypeOK' /\ RequestsAreSound'
<1>1. ASSUME NEW k \in Handlers
      PROVE  RefersToRows(req[k])'
  <2>1. CASE k = h
    BY <2>1, MovedHandlers DEF RefersToRows
  <2>2. CASE k # h
    <3>1. req'[k] = req[k] /\ RefersToRows(req[k])
      BY <2>2, MovedHandlers, HandlerFacts
    <3> QED BY <3>1 DEF RefersToRows, RefTo, Grow
  <2> QED BY <2>1, <2>2
<1>2. RequestsAreSound'
  BY MovedHandlers, HandlerFacts DEF RequestsAreSound
<1> QED BY <1>1, <1>2, MovedHandlers DEF TypeOK, Tables


LEMMA HeldFacts ==
    ASSUME IInv, NEW h \in Handlers
    PROVE  /\ CodeHeld(pc[h], req[h]) # 0 =>
                  /\ CodeHeld(pc[h], req[h]) \in DOMAIN codes
                  /\ codes[CodeHeld(pc[h], req[h])].state # "open"
                  /\ \A t \in DOMAIN tokens : tokens[t].code # CodeHeld(pc[h], req[h])
                  /\ \A k \in Handlers \ {h} :
                        CodeHeld(pc[k], req[k]) # CodeHeld(pc[h], req[h])
           /\ LinkHeld(pc[h], req[h]) # 0 =>
                  /\ LinkHeld(pc[h], req[h]) \in DOMAIN links
                  /\ links[LinkHeld(pc[h], req[h])].state # "open"
                  /\ \A t \in DOMAIN tokens : tokens[t].link # LinkHeld(pc[h], req[h])
                  /\ \A k \in Handlers \ {h} :
                        LinkHeld(pc[k], req[k]) # LinkHeld(pc[h], req[h])
<1>1. /\ CodeHeld(pc[h], req[h]) # 0 => CodeHeld(pc[h], req[h]) \in DOMAIN codes
      /\ LinkHeld(pc[h], req[h]) # 0 => LinkHeld(pc[h], req[h]) \in DOMAIN links
  BY HandlerFacts DEF CodeHeld, LinkHeld, RefersToRows, RefTo
<1> QED BY <1>1 DEF IInv, HeldOnce

LEMMA HoldingStaysSound ==
    ASSUME IInv, NEW h \in Handlers, NEW stage, NEW r, Moves(h, stage, r), Grow,
           HoldsOn(h, stage, r), StaysClosed, SameOrigins
    PROVE  HeldOnce' /\ SpentOnce'
<1> DEFINE Held(k) == CodeHeld(pc[k], req[k])
           HeldLink(k) == LinkHeld(pc[k], req[k])
           NewHeld(k) == CodeHeld(pc'[k], req'[k])
           NewLinkHeld(k) == LinkHeld(pc'[k], req'[k])
<1>1. \A k \in Handlers \ {h} : NewHeld(k) = Held(k) /\ NewLinkHeld(k) = HeldLink(k)
  BY MovedHandlers
<1>2. NewHeld(h) = CodeHeld(stage, r) /\ NewLinkHeld(h) = LinkHeld(stage, r)
  BY MovedHandlers
<1>3. SpentOnce'
  BY DEF IInv, SpentOnce, SameOrigins
<1>4. \A t \in DOMAIN tokens :
          /\ tokens[t].code # 0 => /\ tokens[t].code \in DOMAIN codes
                                   /\ codes[tokens[t].code].state # "open"
          /\ tokens[t].link # 0 => /\ tokens[t].link \in DOMAIN links
                                   /\ links[tokens[t].link].state # "open"
  BY DEF IInv, HeldOnce, TypeOK, RowsReferToRows, RefTo
<1>5. \A t \in DOMAIN tokens' :
          /\ tokens'[t].code # 0 => codes'[tokens'[t].code].state # "open"
          /\ tokens'[t].link # 0 => links'[tokens'[t].link].state # "open"
  BY <1>4 DEF SameOrigins, StaysClosed
\* What anybody else holds is as it was, and h has not claimed it.
<1>6. ASSUME NEW k \in Handlers \ {h}, NewHeld(k) # 0
      PROVE  /\ codes'[NewHeld(k)].state # "open"
             /\ \A t \in DOMAIN tokens' : tokens'[t].code # NewHeld(k)
             /\ \A j \in Handlers \ {k} : NewHeld(j) # NewHeld(k)
  <2>1. /\ Held(k) # 0 /\ Held(k) \in DOMAIN codes /\ codes[Held(k)].state # "open"
        /\ \A t \in DOMAIN tokens : tokens[t].code # Held(k)
        /\ \A j \in Handlers \ {k} : Held(j) # Held(k)
    BY <1>1, <1>6, HeldFacts
  <2>2. NewHeld(h) # NewHeld(k)
    BY <1>1, <1>2, <2>1 DEF HoldsOn
  <2> QED BY <1>1, <2>1, <2>2 DEF StaysClosed, SameOrigins
<1>7. ASSUME NEW k \in Handlers \ {h}, NewLinkHeld(k) # 0
      PROVE  /\ links'[NewLinkHeld(k)].state # "open"
             /\ \A t \in DOMAIN tokens' : tokens'[t].link # NewLinkHeld(k)
             /\ \A j \in Handlers \ {k} : NewLinkHeld(j) # NewLinkHeld(k)
  <2>1. /\ HeldLink(k) # 0 /\ HeldLink(k) \in DOMAIN links /\ links[HeldLink(k)].state # "open"
        /\ \A t \in DOMAIN tokens : tokens[t].link # HeldLink(k)
        /\ \A j \in Handlers \ {k} : HeldLink(j) # HeldLink(k)
    BY <1>1, <1>7, HeldFacts
  <2>2. NewLinkHeld(h) # NewLinkHeld(k)
    BY <1>1, <1>2, <2>1 DEF HoldsOn
  <2> QED BY <1>1, <2>1, <2>2 DEF StaysClosed, SameOrigins
\* What h holds it held before, or claimed while it was open, when nobody held it.
<1>8. ASSUME NewHeld(h) # 0
      PROVE  /\ codes'[NewHeld(h)].state # "open"
             /\ \A t \in DOMAIN tokens' : tokens'[t].code # NewHeld(h)
  <2>1. CASE NewHeld(h) = Held(h)
    <3>1. /\ Held(h) \in DOMAIN codes /\ codes[Held(h)].state # "open"
          /\ \A t \in DOMAIN tokens : tokens[t].code # Held(h)
      BY <1>8, <2>1, HeldFacts
    <3> QED BY <2>1, <3>1 DEF StaysClosed, SameOrigins
  <2>2. CASE /\ NewHeld(h) \in DOMAIN codes /\ codes[NewHeld(h)].state = "open"
             /\ codes'[NewHeld(h)].state # "open"
    BY <1>4, <1>8, <2>2 DEF SameOrigins
  <2> QED BY <1>2, <1>8, <2>1, <2>2 DEF HoldsOn
<1>9. ASSUME NewLinkHeld(h) # 0
      PROVE  /\ links'[NewLinkHeld(h)].state # "open"
             /\ \A t \in DOMAIN tokens' : tokens'[t].link # NewLinkHeld(h)
  <2>1. CASE NewLinkHeld(h) = HeldLink(h)
    <3>1. /\ HeldLink(h) \in DOMAIN links /\ links[HeldLink(h)].state # "open"
          /\ \A t \in DOMAIN tokens : tokens[t].link # HeldLink(h)
      BY <1>9, <2>1, HeldFacts
    <3> QED BY <2>1, <3>1 DEF StaysClosed, SameOrigins
  <2>2. CASE /\ NewLinkHeld(h) \in DOMAIN links /\ links[NewLinkHeld(h)].state = "open"
             /\ links'[NewLinkHeld(h)].state # "open"
    BY <1>4, <1>9, <2>2 DEF SameOrigins
  <2> QED BY <1>2, <1>9, <2>1, <2>2 DEF HoldsOn
<1>10. /\ \A k \in Handlers \ {h} : NewHeld(k) # 0 => NewHeld(k) # NewHeld(h)
       /\ \A k \in Handlers \ {h} : NewLinkHeld(k) # 0 => NewLinkHeld(k) # NewLinkHeld(h)
  BY <1>6, <1>7
<1> HIDE DEF NewHeld, NewLinkHeld
<1>11. \A k \in Handlers :
          /\ NewHeld(k) # 0 =>
                /\ codes'[NewHeld(k)].state # "open"
                /\ \A t \in DOMAIN tokens' : tokens'[t].code # NewHeld(k)
                /\ \A j \in Handlers \ {k} : NewHeld(j) # NewHeld(k)
          /\ NewLinkHeld(k) # 0 =>
                /\ links'[NewLinkHeld(k)].state # "open"
                /\ \A t \in DOMAIN tokens' : tokens'[t].link # NewLinkHeld(k)
                /\ \A j \in Handlers \ {k} : NewLinkHeld(j) # NewLinkHeld(k)
  BY <1>6, <1>7, <1>8, <1>9, <1>10
<1> QED BY <1>3, <1>5, <1>11 DEF HeldOnce, NewHeld, NewLinkHeld

\* The count of a code is as it was and h is not one guess more, or it is below
\* the limit.
GuessesHold(h, stage, r) ==
    \A s \in DOMAIN codes' :
        \/ codes'[s].attempts < MaxAttempts
        \/ /\ s \in DOMAIN codes
           /\ codes'[s].attempts = codes[s].attempts
           /\ stage = "wrong" /\ r.code = s => h \in Guessing(s)

LEMMA Guessers ==
    \A s : /\ Guessing(s) \subseteq Handlers /\ IsFiniteSet(Guessing(s))
           /\ Cardinality(Guessing(s)) \in Nat /\ Cardinality(Handlers) \in Nat
           /\ Cardinality(Guessing(s)) <= Cardinality(Handlers)
BY HandlersAssumption, FS_Subset, FS_CardinalityType DEF Guessing

LEMMA GuessersNext ==
    \A s : /\ Guessing(s)' \subseteq Handlers /\ IsFiniteSet(Guessing(s)')
           /\ Cardinality(Guessing(s)') \in Nat
           /\ Cardinality(Guessing(s)') <= Cardinality(Handlers)
BY HandlersAssumption, FS_Subset, FS_CardinalityType DEF Guessing

LEMMA GuessesStayCovered ==
    ASSUME IInv, NEW h \in Handlers, NEW stage, NEW r, Moves(h, stage, r),
           GuessesHold(h, stage, r), codes' \in Seq(Code)
    PROVE  GuessesCovered'
<1> SUFFICES ASSUME NEW s \in DOMAIN codes'
             PROVE  codes'[s].attempts + Cardinality(Guessing(s)')
                      < MaxAttempts + Cardinality(Handlers)
  BY DEF GuessesCovered
<1> DEFINE before == Cardinality(Guessing(s))
           after == Cardinality(Guessing(s)')
           all == Cardinality(Handlers)
<1>0. before \in Nat /\ after \in Nat /\ all \in Nat /\ after <= all
  BY Guessers, GuessersNext
<1>1. codes'[s].attempts \in Nat /\ MaxAttempts \in Nat
  <2>1. codes'[s] \in Code
    OBVIOUS
  <2> QED BY <2>1, BoundAssumption DEF Code
<1> HIDE DEF before, after, all
<1>2. CASE codes'[s].attempts < MaxAttempts
  <2>1. codes'[s].attempts + after < MaxAttempts + all
    BY <1>0, <1>1, <1>2
  <2> QED BY <2>1 DEF after, all
<1>3. CASE /\ s \in DOMAIN codes /\ codes'[s].attempts = codes[s].attempts
           /\ stage = "wrong" /\ r.code = s => h \in Guessing(s)
  <2>1. Guessing(s)' \subseteq Guessing(s)
    BY <1>3, MovedHandlers DEF Guessing
  <2>2. after <= before
    BY <2>1, Guessers, FS_Subset DEF after, before
  <2>3. codes[s].attempts + before < MaxAttempts + all
    BY <1>3 DEF IInv, GuessesCovered, before, all
  <2>4. codes'[s].attempts + after < MaxAttempts + all
    BY <1>0, <1>1, <1>3, <2>2, <2>3
  <2> QED BY <2>4 DEF after, all
<1> QED BY <1>2, <1>3 DEF GuessesHold


LEMMA StepSound ==
    ASSUME IInv, NEW h \in Handlers, NEW stage, NEW r, Moves(h, stage, r), Grow,
           RefersToRows(r)', InHand(stage, r), OneSession(stage, r),
           asked' \in 0..MaxRequests, Tables',
           HoldsOn(h, stage, r), StaysClosed, SameOrigins, GuessesHold(h, stage, r)
    PROVE  IInv'
<1>1. TypeOK' /\ RequestsAreSound'
  BY RequestsStaySound
<1>2. HeldOnce' /\ SpentOnce'
  BY HoldingStaysSound
<1>3. GuessesCovered'
  BY GuessesStayCovered DEF Tables
<1> QED BY <1>1, <1>2, <1>3 DEF IInv

LEMMA TablesNow ==
    ASSUME IInv
    PROVE  Tables
BY DEF IInv, TypeOK, Tables

\* The handler moves and the tables stay.
LEMMA QuietStep ==
    ASSUME IInv, NEW h \in Handlers, NEW stage, NEW r, Moves(h, stage, r),
           UNCHANGED rows, asked' \in 0..MaxRequests,
           RefersToRows(r), InHand(stage, r), OneSession(stage, r),
           CodeHeld(stage, r) \in {0, CodeHeld(pc[h], req[h])},
           LinkHeld(stage, r) \in {0, LinkHeld(pc[h], req[h])},
           stage = "wrong" => codes[r.code].attempts < MaxAttempts
    PROVE  IInv'
<1>1. Tables' /\ Grow /\ RefersToRows(r)'
  BY TablesNow DEF Tables, Grow, rows, RowsReferToRows, RefTo, RefersToRows
<1>2. HoldsOn(h, stage, r) /\ StaysClosed /\ SameOrigins
  BY DEF HoldsOn, StaysClosed, SameOrigins, rows
<1>3. GuessesHold(h, stage, r)
  BY DEF GuessesHold, rows
<1> QED BY <1>1, <1>2, <1>3, StepSound

LEMMA LeaveMoves ==
    ASSUME NEW h \in Handlers, Leave(h)
    PROVE  Moves(h, "idle", NoReq)
BY NothingInHand DEF Leave, Go, Goto, Moves

LEMMA LeaveQuietly ==
    ASSUME IInv, NEW h \in Handlers, Leave(h), UNCHANGED <<rows, asked>>
    PROVE  IInv'
<1>1. RefersToRows(NoReq)
  BY DEF RefersToRows, NoReq, RefTo
<1>2. asked' \in 0..MaxRequests
  BY DEF IInv, TypeOK
<1> QED BY <1>1, <1>2, LeaveMoves, NothingInHand, QuietStep

\* Going on to another await with the same things in hand.
LEMMA StayQuietly ==
    ASSUME IInv, NEW h \in Handlers, NEW stage \in Stage, Stay(h, stage),
           UNCHANGED <<rows, asked>>,
           InHand(stage, req[h]), OneSession(stage, req[h]),
           CodeHeld(stage, req[h]) \in {0, CodeHeld(pc[h], req[h])},
           LinkHeld(stage, req[h]) \in {0, LinkHeld(pc[h], req[h])},
           stage = "wrong" => codes[req[h].code].attempts < MaxAttempts
    PROVE  IInv'
<1>1. Moves(h, stage, req[h])
  BY HandlerFacts DEF Stay, Goto, Moves, IInv, TypeOK
<1>2. asked' \in 0..MaxRequests
  BY DEF IInv, TypeOK
<1> QED BY <1>1, <1>2, HandlerFacts, QuietStep

\* A request comes in and has claimed nothing.
LEMMA AcceptSound ==
    ASSUME IInv, NEW h \in Handlers, NEW stage \in Stage, NEW r \in Request,
           Accept(h, stage, r), UNCHANGED rows,
           RefersToRows(r), InHand(stage, r), OneSession(stage, r),
           stage \notin {"resolve", "register", "issue", "persist", "wrong"}
    PROVE  IInv'
<1>1. Moves(h, stage, r)
  BY DEF Accept, Go, Goto, Moves
<1>2. asked' \in 0..MaxRequests
  BY BoundAssumption DEF Accept, Tick, IInv, TypeOK
<1>3. CodeHeld(stage, r) = 0 /\ LinkHeld(stage, r) = 0
  BY DEF CodeHeld, LinkHeld
<1> QED BY <1>1, <1>2, <1>3, QuietStep


-----------------------------------------------------------------------------
(* Requests come in *)

LEMMA LoginSound ==
    ASSUME IInv, NEW h \in Handlers,
           \/ \E t \in Telegrams : LoginWithTelegram(h, t)
           \/ \E n \in DOMAIN links : (\E t \in Telegrams : Confirm(h, n, t)) \/ Poll(h, n)
           \/ \E a \in Addresses : CreateSession(h, a)
           \/ \E s \in DOMAIN codes : Verify(h, s)
           \/ \E t \in DOMAIN tokens : RefreshTokens(h, t) \/ RevokeRefreshToken(h, t)
    PROVE  IInv'
<1> USE DEF NoReq, Request, RefersToRows, RefTo, InHand, OneSession, Stage
<1>0. /\ DOMAIN users \subseteq Nat \ {0} /\ DOMAIN tokens \subseteq Nat \ {0}
      /\ DOMAIN codes \subseteq Nat \ {0} /\ DOMAIN links \subseteq Nat \ {0}
  BY SMTT(30) DEF IInv, TypeOK
<1>1. CASE \E t \in Telegrams : LoginWithTelegram(h, t)
  <2>1. PICK t \in Telegrams : LoginWithTelegram(h, t)
    BY <1>1
  <2> QED BY <2>1, AcceptSound, NoneAssumption DEF LoginWithTelegram
<1>2. CASE \E n \in DOMAIN links, t \in Telegrams : Confirm(h, n, t)
  <2>1. PICK n \in DOMAIN links, t \in Telegrams : Confirm(h, n, t)
    BY <1>2
  <2> QED BY ZenonT(40), <1>0, <2>1, AcceptSound, NoneAssumption DEF Confirm
<1>3. CASE \E n \in DOMAIN links : Poll(h, n)
  <2>1. PICK n \in DOMAIN links : Poll(h, n)
    BY <1>3
  <2>2. links[n].user \in DOMAIN users
    BY <2>1 DEF Poll, IInv, TypeOK, RowsReferToRows
  <2> QED BY <1>0, <2>1, <2>2, AcceptSound DEF Poll
<1>4. CASE \E a \in Addresses : CreateSession(h, a)
  <2>1. PICK a \in Addresses : CreateSession(h, a)
    BY <1>4
  <2> QED BY <2>1, AcceptSound, NoneAssumption DEF CreateSession
<1>5. CASE \E s \in DOMAIN codes : Verify(h, s)
  <2>1. PICK s \in DOMAIN codes : Verify(h, s)
    BY <1>5
  <2> DEFINE r == [NoReq EXCEPT !.code = s, !.goal = "login"]
  <2>2. r \in Request /\ RefersToRows(r) /\ r.user = 0 /\ r.code # 0 /\ r.link = 0
        /\ r.goal = "login"
    BY <1>0
  <2>3. Accept(h, "read", r) /\ UNCHANGED rows
    BY <2>1 DEF Verify
  <2> HIDE DEF r
  <2>4. InHand("read", r) /\ OneSession("read", r) /\ "read" \in Stage
    BY <2>2
  <2> QED BY <2>2, <2>3, <2>4, AcceptSound
<1>6. CASE \E t \in DOMAIN tokens : RefreshTokens(h, t)
  <2>1. PICK t \in DOMAIN tokens : RefreshTokens(h, t)
    BY <1>6
  <2>2. tokens[t].user \in DOMAIN users
    BY <2>1 DEF IInv, TypeOK, RowsReferToRows
  <2> DEFINE r == [NoReq EXCEPT !.user = tokens[t].user, !.token = t]
  <2>3. r \in Request /\ RefersToRows(r) /\ r.user # 0 /\ r.token # 0 /\ r.code = 0 /\ r.link = 0
    BY <1>0, <2>2
  <2>4. Accept(h, "rotate", r) /\ UNCHANGED rows
    BY <2>1 DEF RefreshTokens
  <2> HIDE DEF r
  <2>5. InHand("rotate", r) /\ OneSession("rotate", r) /\ "rotate" \in Stage
    BY <2>3
  <2> QED BY <2>3, <2>4, <2>5, AcceptSound
<1>7. CASE \E t \in DOMAIN tokens : RevokeRefreshToken(h, t)
  <2>1. PICK t \in DOMAIN tokens : RevokeRefreshToken(h, t)
    BY <1>7
  <2> QED BY <1>0, <2>1, AcceptSound DEF RevokeRefreshToken
<1> QED BY <1>1, <1>2, <1>3, <1>4, <1>5, <1>6, <1>7

LEMMA UseSound ==
    ASSUME IInv, NEW h \in Handlers, Use(h)
    PROVE  IInv'
<1> USE DEF NoReq, Request, RefersToRows, RefTo, InHand, OneSession, Stage, AcceptFrom
<1>0. /\ DOMAIN users \subseteq Nat \ {0} /\ DOMAIN codes \subseteq Nat \ {0}
  BY DEF IInv, TypeOK
<1>1. PICK u \in DOMAIN users :
          \/ \E a \in Addresses : CreateLinkSession(h, u, a)
          \/ \E s \in DOMAIN codes : VerifyLink(h, u, s)
          \/ CreateFromCart(h, u)
          \/ UpdateProfile(h, u)
          \/ DeleteAccount(h, u)
  BY DEF Use
<1>2. CASE \E a \in Addresses : CreateLinkSession(h, u, a)
  <2>1. PICK a \in Addresses : CreateLinkSession(h, u, a)
    BY <1>2
  <2> QED BY ZenonT(40), <1>0, <2>1, AcceptSound, NoneAssumption DEF CreateLinkSession
<1>3. CASE \E s \in DOMAIN codes : VerifyLink(h, u, s)
  <2>1. PICK s \in DOMAIN codes : VerifyLink(h, u, s)
    BY <1>3
  <2> QED BY ZenonT(40), <1>0, <2>1, AcceptSound DEF VerifyLink
<1>4. CASE CreateFromCart(h, u)
  BY <1>0, <1>4, AcceptSound DEF CreateFromCart
<1>5. CASE UpdateProfile(h, u)
  BY <1>0, <1>5, AcceptSound DEF UpdateProfile
<1>6. CASE DeleteAccount(h, u)
  BY <1>0, <1>6, AcceptSound DEF DeleteAccount
<1> QED BY <1>1, <1>2, <1>3, <1>4, <1>5, <1>6


-----------------------------------------------------------------------------
(* Reads *)

LEMMA GoQuietly ==
    ASSUME IInv, NEW h \in Handlers, NEW stage \in Stage, NEW r \in Request,
           Go(h, stage, r), UNCHANGED <<rows, asked>>,
           RefersToRows(r), InHand(stage, r), OneSession(stage, r),
           CodeHeld(stage, r) \in {0, CodeHeld(pc[h], req[h])},
           LinkHeld(stage, r) \in {0, LinkHeld(pc[h], req[h])},
           stage # "wrong"
    PROVE  IInv'
<1>1. Moves(h, stage, r)
  BY DEF Go, Goto, Moves
<1>2. asked' \in 0..MaxRequests
  BY DEF IInv, TypeOK
<1> QED BY <1>1, <1>2, QuietStep

\* The account is known: the bot binds it, a login has no session to lose.
LEMMA AfterTelegramSound ==
    ASSUME IInv, NEW h \in Handlers, pc[h] \in {"find", "create", "winner"},
           NEW u \in Nat \ {0}, NEW r, r = [req[h] EXCEPT !.user = u]
    PROVE  /\ AfterTelegram(h) \in {"bind", "issue"} /\ r \in Request
           /\ InHand(AfterTelegram(h), r) /\ OneSession(AfterTelegram(h), r)
           /\ CodeHeld(AfterTelegram(h), r) = 0 /\ LinkHeld(AfterTelegram(h), r) = 0
           /\ r.user = u /\ r.code = req[h].code /\ r.link = req[h].link /\ r.token = req[h].token
<1>1. /\ r \in Request /\ r.user = u /\ r.code = req[h].code
      /\ r.link = req[h].link /\ r.token = req[h].token
  BY HandlerFacts DEF Request
<1>2. req[h].code = 0
  BY HandlerFacts DEF OneSession
<1>3. CASE req[h].link = 0
  <2>1. AfterTelegram(h) = "issue"
    BY <1>3 DEF AfterTelegram
  <2> QED BY <1>1, <1>2, <1>3, <2>1 DEF InHand, OneSession, CodeHeld, LinkHeld
<1>4. CASE req[h].link # 0
  <2>1. AfterTelegram(h) = "bind"
    BY <1>4 DEF AfterTelegram
  <2> QED BY <1>1, <1>2, <1>4, <2>1 DEF InHand, OneSession, CodeHeld, LinkHeld
<1> QED BY <1>3, <1>4

LEMMA FoundByTelegramSound ==
    ASSUME IInv, NEW h \in Handlers, pc[h] \in {"find", "create", "winner"},
           NEW u \in DOMAIN users,
           Go(h, AfterTelegram(h), [req[h] EXCEPT !.user = u]), UNCHANGED <<rows, asked>>
    PROVE  IInv'
<1> DEFINE r == [req[h] EXCEPT !.user = u]
<1>1. u \in Nat \ {0}
  BY DEF IInv, TypeOK
<1>2. /\ AfterTelegram(h) \in {"bind", "issue"} /\ r \in Request
      /\ InHand(AfterTelegram(h), r) /\ OneSession(AfterTelegram(h), r)
      /\ CodeHeld(AfterTelegram(h), r) = 0 /\ LinkHeld(AfterTelegram(h), r) = 0
      /\ r.user = u /\ r.code = req[h].code /\ r.link = req[h].link /\ r.token = req[h].token
  BY <1>1, AfterTelegramSound
<1>3. Go(h, AfterTelegram(h), r)
  OBVIOUS
<1> HIDE DEF r
<1>4. RefersToRows(r)
  BY <1>2, HandlerFacts DEF RefersToRows, RefTo
<1>5. AfterTelegram(h) \in Stage /\ AfterTelegram(h) # "wrong"
  BY <1>2 DEF Stage
<1> QED BY <1>2, <1>3, <1>4, <1>5, GoQuietly

LEMMA FindSound ==
    ASSUME IInv, NEW h \in Handlers, Find(h)
    PROVE  IInv'
<1>1. CASE \E u \in FindByTelegram(req[h].telegram) :
              Go(h, AfterTelegram(h), [req[h] EXCEPT !.user = u])
  BY <1>1, FoundByTelegramSound DEF Find, FindByTelegram
<1>2. CASE Stay(h, "create")
  <2>1. /\ InHand("create", req[h]) /\ OneSession("create", req[h]) /\ "create" \in Stage
        /\ CodeHeld("create", req[h]) = 0 /\ LinkHeld("create", req[h]) = 0
    BY HandlerFacts DEF Find, InHand, OneSession, CodeHeld, LinkHeld, Stage
  <2> QED BY <1>2, <2>1, StayQuietly DEF Find
<1> QED BY <1>1, <1>2 DEF Find

LEMMA WinnerSound ==
    ASSUME IInv, NEW h \in Handlers, Winner(h)
    PROVE  IInv'
<1>1. CASE \E u \in FindByTelegram(req[h].telegram) :
              Go(h, AfterTelegram(h), [req[h] EXCEPT !.user = u])
  BY <1>1, FoundByTelegramSound DEF Winner, FindByTelegram
<1>2. CASE Leave(h)
  BY <1>2, LeaveQuietly DEF Winner
<1> QED BY <1>1, <1>2 DEF Winner

\* Going on with the same things in hand, where what is held stays held.
LEMMA IssueTokensSound ==
    ASSUME IInv, NEW h \in Handlers, IssueTokens(h)
    PROVE  IInv'
<1>1. /\ InHand("persist", req[h]) /\ OneSession("persist", req[h]) /\ "persist" \in Stage
      /\ CodeHeld("persist", req[h]) = CodeHeld(pc[h], req[h])
      /\ LinkHeld("persist", req[h]) = LinkHeld(pc[h], req[h])
  BY HandlerFacts DEF IssueTokens, InHand, OneSession, CodeHeld, LinkHeld, Stage
<1> QED BY <1>1, StayQuietly DEF IssueTokens

LEMMA CheckAddressSound ==
    ASSUME IInv, NEW h \in Handlers, CheckAddress(h)
    PROVE  IInv'
<1>1. /\ InHand("store", req[h]) /\ OneSession("store", req[h]) /\ "store" \in Stage
      /\ CodeHeld("store", req[h]) = 0 /\ LinkHeld("store", req[h]) = 0
  BY HandlerFacts DEF CheckAddress, InHand, OneSession, CodeHeld, LinkHeld, Stage
<1> QED BY <1>1, StayQuietly, LeaveQuietly DEF CheckAddress

LEMMA SendSound ==
    ASSUME IInv, NEW h \in Handlers, Send(h)
    PROVE  IInv'
<1>1. /\ InHand("withdraw", req[h]) /\ OneSession("withdraw", req[h]) /\ "withdraw" \in Stage
      /\ CodeHeld("withdraw", req[h]) = 0 /\ LinkHeld("withdraw", req[h]) = 0
  BY HandlerFacts DEF Send, InHand, OneSession, CodeHeld, LinkHeld, Stage
<1> QED BY <1>1, StayQuietly, LeaveQuietly DEF Send

LEMMA ReadCodeSound ==
    ASSUME IInv, NEW h \in Handlers, ReadCode(h)
    PROVE  IInv'
<1>0. req[h].goal # "login" => req[h].user # 0
  BY HandlerFacts DEF ReadCode, InHand
<1> DEFINE s == req[h].code
           r == [req[h] EXCEPT !.user = IF req[h].goal = "login" THEN codes[s].user ELSE @]
<1>1. s # 0 /\ s \in DOMAIN codes
  BY HandlerFacts DEF ReadCode, InHand, RefersToRows, RefTo
<1>2. CASE Leave(h)
  BY <1>2, LeaveQuietly DEF ReadCode
<1>3. CASE codes[s].attempts < MaxAttempts /\ Stay(h, "wrong")
  <2>1. /\ InHand("wrong", req[h]) /\ OneSession("wrong", req[h]) /\ "wrong" \in Stage
        /\ CodeHeld("wrong", req[h]) = 0 /\ LinkHeld("wrong", req[h]) = 0
    BY HandlerFacts DEF ReadCode, InHand, OneSession, CodeHeld, LinkHeld, Stage
  <2> QED BY <1>3, <2>1, StayQuietly DEF ReadCode
<1>4. CASE Go(h, "claim", r)
  <2>1. codes[s].user \in RefTo(users)
    BY <1>1 DEF IInv, TypeOK, RowsReferToRows
  <2>2. r.user \in RefTo(users)
    BY <2>1, HandlerFacts DEF Request, RefersToRows
  <2>3. RefTo(users) \subseteq Nat
    BY DEF IInv, TypeOK, RefTo
  <2>4. /\ r \in Request /\ r.code = s /\ r.link = req[h].link /\ r.token = req[h].token
        /\ r.goal = req[h].goal
        /\ r.goal # "login" => r.user = req[h].user
    BY <2>1, <2>3, HandlerFacts DEF Request
  <2>5. Go(h, "claim", r)
    BY <1>4
  <2> HIDE DEF r
  <2>6. RefersToRows(r)
    BY <2>2, <2>4, HandlerFacts DEF RefersToRows
  <2>7. r.goal # "login" => r.user # 0
    BY <1>0, <2>4
  <2>8. /\ InHand("claim", r) /\ OneSession("claim", r) /\ "claim" \in Stage
        /\ CodeHeld("claim", r) = 0 /\ LinkHeld("claim", r) = 0
    BY <1>1, <2>4, <2>7, HandlerFacts DEF InHand, OneSession, CodeHeld, LinkHeld, Stage
  <2> QED BY <2>4, <2>5, <2>6, <2>8, GoQuietly DEF ReadCode
<1> QED BY <1>2, <1>3, <1>4 DEF ReadCode, AttemptsLeft

LEMMA ResolveUserSound ==
    ASSUME IInv, NEW h \in Handlers, ResolveUser(h)
    PROVE  IInv'
<1>0. req[h].code # 0 /\ req[h].link = 0 /\ pc[h] = "resolve"
  BY HandlerFacts DEF ResolveUser, InHand, OneSession
<1>1. CASE req[h].user # 0 /\ Stay(h, "issue")
  <2>1. /\ InHand("issue", req[h]) /\ OneSession("issue", req[h]) /\ "issue" \in Stage
        /\ CodeHeld("issue", req[h]) = CodeHeld(pc[h], req[h]) /\ LinkHeld("issue", req[h]) = 0
    BY <1>0, <1>1 DEF InHand, OneSession, CodeHeld, LinkHeld, Stage
  <2> QED BY <1>1, <2>1, StayQuietly DEF ResolveUser
<1>2. CASE \E u \in FindByEmail(codes[req[h].code].email) :
              Go(h, "issue", [req[h] EXCEPT !.user = u])
  <2>1. PICK u \in DOMAIN users : Go(h, "issue", [req[h] EXCEPT !.user = u])
    BY <1>2 DEF FindByEmail
  <2> DEFINE r == [req[h] EXCEPT !.user = u]
  <2>2. u \in Nat \ {0}
    BY DEF IInv, TypeOK
  <2>3. /\ r \in Request /\ r.user = u /\ r.code = req[h].code
        /\ r.link = req[h].link /\ r.token = req[h].token
    BY <2>2, HandlerFacts DEF Request
  <2>4. Go(h, "issue", r)
    BY <2>1
  <2> HIDE DEF r
  <2>5. RefersToRows(r)
    BY <2>3, HandlerFacts DEF RefersToRows, RefTo
  <2>6. /\ InHand("issue", r) /\ OneSession("issue", r) /\ "issue" \in Stage
        /\ CodeHeld("issue", r) = CodeHeld(pc[h], req[h]) /\ LinkHeld("issue", r) = 0
    BY <1>0, <2>2, <2>3 DEF InHand, OneSession, CodeHeld, LinkHeld, Stage
  <2> QED BY <2>3, <2>4, <2>5, <2>6, GoQuietly DEF ResolveUser
<1>3. CASE Stay(h, "register")
  <2>1. /\ InHand("register", req[h]) /\ OneSession("register", req[h]) /\ "register" \in Stage
        /\ CodeHeld("register", req[h]) = CodeHeld(pc[h], req[h])
        /\ LinkHeld("register", req[h]) = 0
    BY <1>0 DEF InHand, OneSession, CodeHeld, LinkHeld, Stage
  <2> QED BY <1>3, <2>1, StayQuietly DEF ResolveUser
<1> QED BY <1>1, <1>2, <1>3 DEF ResolveUser

LEMMA ReadProfileSound ==
    ASSUME IInv, NEW h \in Handlers, ReadProfile(h)
    PROVE  IInv'
<1>1. /\ InHand("phone", req[h]) /\ OneSession("phone", req[h]) /\ "phone" \in Stage
      /\ CodeHeld("phone", req[h]) = 0 /\ LinkHeld("phone", req[h]) = 0
  BY HandlerFacts DEF ReadProfile, InHand, OneSession, CodeHeld, LinkHeld, Stage
<1> QED BY <1>1, StayQuietly, LeaveQuietly DEF ReadProfile

LEMMA CountActiveSound ==
    ASSUME IInv, NEW h \in Handlers, CountActive(h)
    PROVE  IInv'
<1>1. /\ InHand("erase", req[h]) /\ OneSession("erase", req[h]) /\ "erase" \in Stage
      /\ CodeHeld("erase", req[h]) = 0 /\ LinkHeld("erase", req[h]) = 0
  BY HandlerFacts DEF CountActive, InHand, OneSession, CodeHeld, LinkHeld, Stage
<1> QED BY <1>1, StayQuietly, LeaveQuietly DEF CountActive

LEMMA ReadAccountSound ==
    ASSUME IInv, NEW h \in Handlers, ReadAccount(h)
    PROVE  IInv'
<1> DEFINE email == users[req[h].user].email
           r == [req[h] EXCEPT !.email = email]
<1>0. req[h].user \in DOMAIN users
  BY HandlerFacts DEF ReadAccount, InHand, RefersToRows, RefTo
<1>1. CASE Leave(h)
  BY <1>1, LeaveQuietly DEF ReadAccount
<1>2. CASE Go(h, "count", r)
  <2>1. email \in Addresses \cup {None}
    <3>1. users[req[h].user] \in User
      BY <1>0 DEF IInv, TypeOK
    <3> QED BY <3>1 DEF User
  <2>2. /\ r \in Request /\ r.user = req[h].user /\ r.code = req[h].code
        /\ r.link = req[h].link /\ r.token = req[h].token
    BY <2>1, HandlerFacts DEF Request
  <2>3. Go(h, "count", r)
    BY <1>2
  <2> HIDE DEF r
  <2>4. RefersToRows(r)
    BY <2>2, HandlerFacts DEF RefersToRows
  <2>5. /\ InHand("count", r) /\ OneSession("count", r) /\ "count" \in Stage
        /\ CodeHeld("count", r) = 0 /\ LinkHeld("count", r) = 0
    BY <2>2, HandlerFacts DEF ReadAccount, InHand, OneSession, CodeHeld, LinkHeld, Stage
  <2> QED BY <2>2, <2>3, <2>4, <2>5, GoQuietly DEF ReadAccount
<1> QED BY <1>1, <1>2 DEF ReadAccount


-----------------------------------------------------------------------------
(* Writes: what may become of a table *)

AttemptsKept ==
    \A s \in DOMAIN codes' :
        \/ codes'[s].attempts < MaxAttempts
        \/ s \in DOMAIN codes /\ codes'[s].attempts = codes[s].attempts

\* Everything StepSound asks about the tables.
SoundWrite == Tables' /\ Grow /\ StaysClosed /\ SameOrigins /\ AttemptsKept

LEMMA UsersWritten ==
    ASSUME IInv, users' \in Seq(User), DOMAIN users \subseteq DOMAIN users',
           UNCHANGED <<groups, tokens, codes, links>>
    PROVE  SoundWrite
BY TablesNow DEF SoundWrite, Tables, Grow, StaysClosed, SameOrigins, AttemptsKept,
                 RowsReferToRows, RefTo

LEMMA GroupsWritten ==
    ASSUME IInv, groups' \in Seq(Group),
           \A g \in DOMAIN groups' : groups'[g].user \in DOMAIN users,
           UNCHANGED <<users, tokens, codes, links>>
    PROVE  SoundWrite
BY TablesNow DEF SoundWrite, Tables, Grow, StaysClosed, SameOrigins, AttemptsKept,
                 RowsReferToRows, RefTo

SameToken(t) ==
    /\ tokens'[t].user = tokens[t].user /\ tokens'[t].login = tokens[t].login
    /\ tokens'[t].code = tokens[t].code /\ tokens'[t].link = tokens[t].link

LEMMA TokensWritten ==
    ASSUME IInv, tokens' \in Seq(Token), DOMAIN tokens' = DOMAIN tokens,
           \A t \in DOMAIN tokens : SameToken(t),
           UNCHANGED <<users, groups, codes, links>>
    PROVE  SoundWrite
BY TablesNow DEF SoundWrite, Tables, Grow, StaysClosed, SameOrigins, AttemptsKept,
                 RowsReferToRows, RefTo, SameToken

LEMMA CodesWritten ==
    ASSUME IInv, codes' \in Seq(Code), DOMAIN codes \subseteq DOMAIN codes',
           \A s \in DOMAIN codes' : codes'[s].user \in RefTo(users),
           \A s \in DOMAIN codes : codes[s].state # "open" => codes'[s].state # "open",
           UNCHANGED <<users, groups, tokens, links>>
    PROVE  Tables' /\ Grow /\ StaysClosed /\ SameOrigins
BY TablesNow DEF Tables, Grow, StaysClosed, SameOrigins, RowsReferToRows, RefTo

LEMMA LinksWritten ==
    ASSUME IInv, links' \in Seq(Link), DOMAIN links \subseteq DOMAIN links',
           \A n \in DOMAIN links' : links'[n].user \in RefTo(users),
           \A n \in DOMAIN links : links[n].state # "open" => links'[n].state # "open",
           UNCHANGED <<users, groups, tokens, codes>>
    PROVE  SoundWrite
BY TablesNow DEF SoundWrite, Tables, Grow, StaysClosed, SameOrigins, AttemptsKept,
                 RowsReferToRows, RefTo

LEMMA LeaveSound ==
    ASSUME IInv, NEW h \in Handlers, Leave(h), UNCHANGED asked, SoundWrite
    PROVE  IInv'
<1>1. HoldsOn(h, "idle", NoReq) /\ GuessesHold(h, "idle", NoReq)
  BY NothingInHand DEF HoldsOn, GuessesHold, SoundWrite, AttemptsKept
<1>2. asked' \in 0..MaxRequests
  BY DEF IInv, TypeOK
<1> QED BY <1>1, <1>2, LeaveMoves, NothingInHand, StepSound DEF SoundWrite

\* Nobody moves.
LEMMA NobodyMoves ==
    ASSUME IInv, UNCHANGED <<pc, req>>, asked' \in 0..MaxRequests, SoundWrite
    PROVE  IInv'
<1>1. PICK h \in Handlers : TRUE
  BY HandlersAssumption
<1>2. Moves(h, pc[h], req[h])
  BY HandlerFacts DEF Moves, IInv, TypeOK
<1>3. HoldsOn(h, pc[h], req[h]) /\ GuessesHold(h, pc[h], req[h])
  BY DEF HoldsOn, GuessesHold, SoundWrite, AttemptsKept, Guessing
<1>4. RefersToRows(req[h])'
  <2>1. RefersToRows(req[h]) /\ req'[h] = req[h]
    BY HandlerFacts
  <2> QED BY <2>1 DEF RefersToRows, RefTo, SoundWrite, Grow
<1>5. req'[h] = req[h]
  OBVIOUS
<1>6. \A r : r = req[h] => RefersToRows(r)'
  BY <1>4, <1>5 DEF RefersToRows
<1> QED BY <1>1, <1>2, <1>3, <1>6, HandlerFacts, StepSound DEF SoundWrite

\* One handler moves on, with what it held.
LEMMA MoveSound ==
    ASSUME IInv, NEW h \in Handlers, NEW stage \in Stage, NEW r \in Request,
           Go(h, stage, r), UNCHANGED asked, SoundWrite,
           RefersToRows(r)', InHand(stage, r), OneSession(stage, r),
           CodeHeld(stage, r) \in {0, CodeHeld(pc[h], req[h])},
           LinkHeld(stage, r) \in {0, LinkHeld(pc[h], req[h])},
           stage # "wrong"
    PROVE  IInv'
<1>1. HoldsOn(h, stage, r) /\ GuessesHold(h, stage, r)
  BY DEF HoldsOn, GuessesHold, SoundWrite, AttemptsKept
<1>2. asked' \in 0..MaxRequests
  BY DEF IInv, TypeOK
<1>3. Moves(h, stage, r)
  BY DEF Go, Goto, Moves
<1> QED BY <1>1, <1>2, <1>3, StepSound DEF SoundWrite

LEMMA StayIsGo ==
    ASSUME IInv, NEW h \in Handlers, NEW stage, Stay(h, stage)
    PROVE  Go(h, stage, req[h])
BY DEF Stay, Go, IInv, TypeOK


-----------------------------------------------------------------------------
(* Writes to users and groups *)

LEMMA NewUserTyped ==
    ASSUME IInv, NEW email \in Addresses \cup {None}, NEW telegram \in Telegrams \cup {None},
           users' = Append(users, NewUser(email, telegram))
    PROVE  /\ users' \in Seq(User) /\ DOMAIN users \subseteq DOMAIN users'
           /\ Len(users) + 1 \in DOMAIN users' /\ Len(users) + 1 \in Nat \ {0}
<1>1. NewUser(email, telegram) \in User
  BY DEF NewUser, User
<1>2. users \in Seq(User)
  BY DEF IInv, TypeOK
<1> QED BY <1>1, <1>2, AppendTyped

LEMMA UserReplaced ==
    ASSUME IInv, NEW u \in DOMAIN users, NEW e \in User, users' = [users EXCEPT ![u] = e]
    PROVE  users' \in Seq(User) /\ DOMAIN users' = DOMAIN users
BY ReplaceTyped DEF IInv, TypeOK

LEMMA CreateSound ==
    ASSUME IInv, NEW h \in Handlers, Create(h)
    PROVE  IInv'
<1> DEFINE u == Len(users) + 1
           r == [req[h] EXCEPT !.user = u]
<1>1. CASE /\ users' = Append(users, NewUser(None, req[h].telegram))
           /\ Go(h, AfterTelegram(h), r)
  <2>1. req[h].telegram \in Telegrams \cup {None}
    BY HandlerFacts DEF Request
  <2>2. /\ users' \in Seq(User) /\ DOMAIN users \subseteq DOMAIN users'
        /\ u \in DOMAIN users' /\ u \in Nat \ {0}
    BY <1>1, <2>1, NewUserTyped
  <2>3. SoundWrite
    BY <2>2, UsersWritten DEF Create
  <2>4. Go(h, AfterTelegram(h), r)
    BY <1>1
  <2>5. /\ AfterTelegram(h) \in {"bind", "issue"} /\ r \in Request
        /\ InHand(AfterTelegram(h), r) /\ OneSession(AfterTelegram(h), r)
        /\ CodeHeld(AfterTelegram(h), r) = 0 /\ LinkHeld(AfterTelegram(h), r) = 0
        /\ r.user = u /\ r.code = req[h].code /\ r.link = req[h].link /\ r.token = req[h].token
    BY <2>2, AfterTelegramSound DEF Create
  <2> HIDE DEF r, u
  <2>6. \A x : x.user = u /\ x.code = req[h].code /\ x.link = req[h].link
                 /\ x.token = req[h].token => RefersToRows(x)'
    BY <2>2, HandlerFacts DEF RefersToRows, RefTo, Create
  <2>7. AfterTelegram(h) \in Stage /\ AfterTelegram(h) # "wrong"
    BY <2>5 DEF Stage
  <2> QED BY <2>3, <2>4, <2>5, <2>6, <2>7, MoveSound DEF Create
<1>2. CASE Stay(h, "winner") /\ UNCHANGED users
  <2>1. /\ InHand("winner", req[h]) /\ OneSession("winner", req[h]) /\ "winner" \in Stage
        /\ CodeHeld("winner", req[h]) = 0 /\ LinkHeld("winner", req[h]) = 0
    BY HandlerFacts DEF Create, InHand, OneSession, CodeHeld, LinkHeld, Stage
  <2> QED BY <1>2, <2>1, StayQuietly DEF Create, rows
<1> QED BY <1>1, <1>2 DEF Create

LEMMA RegisterSound ==
    ASSUME IInv, NEW h \in Handlers, Register(h)
    PROVE  IInv'
<1> DEFINE u == Len(users) + 1
           r == [req[h] EXCEPT !.user = u]
           a == codes[req[h].code].email
<1>0. pc[h] = "register" /\ req[h].code # 0 /\ req[h].link = 0 /\ req[h].code \in DOMAIN codes
  BY HandlerFacts DEF Register, InHand, OneSession, RefersToRows, RefTo
<1>1. CASE users' = Append(users, NewUser(a, None)) /\ Go(h, "issue", r)
  <2>1. a \in Addresses
    <3>1. codes[req[h].code] \in Code
      BY <1>0 DEF IInv, TypeOK
    <3> QED BY <3>1 DEF Code
  <2>2. /\ users' \in Seq(User) /\ DOMAIN users \subseteq DOMAIN users'
        /\ u \in DOMAIN users' /\ u \in Nat \ {0}
    BY <1>1, <2>1, NewUserTyped
  <2>3. SoundWrite
    BY <2>2, UsersWritten DEF Register
  <2>4. Go(h, "issue", r)
    BY <1>1
  <2>5. /\ r \in Request /\ r.user = u /\ r.code = req[h].code
        /\ r.link = req[h].link /\ r.token = req[h].token
    BY <2>2, HandlerFacts DEF Request
  <2> HIDE DEF r, u
  <2>6. \A x : x.user = u /\ x.code = req[h].code /\ x.link = req[h].link
                 /\ x.token = req[h].token => RefersToRows(x)'
    BY <2>2, HandlerFacts DEF RefersToRows, RefTo, Register
  <2>7. /\ InHand("issue", r) /\ OneSession("issue", r) /\ "issue" \in Stage
        /\ CodeHeld("issue", r) = CodeHeld(pc[h], req[h]) /\ LinkHeld("issue", r) = 0
    BY <1>0, <2>2, <2>5 DEF InHand, OneSession, CodeHeld, LinkHeld, Stage
  <2> QED BY <2>3, <2>4, <2>5, <2>6, <2>7, MoveSound DEF Register
<1>2. CASE Leave(h) /\ UNCHANGED users
  BY <1>2, LeaveQuietly DEF Register, rows
<1> QED BY <1>1, <1>2 DEF Register

LEMMA WriteEmailSound ==
    ASSUME IInv, NEW h \in Handlers, WriteEmail(h)
    PROVE  IInv'
<1> DEFINE u == req[h].user
           a == codes[req[h].code].email
<1>1. u \in DOMAIN users /\ req[h].code \in DOMAIN codes
  BY HandlerFacts DEF WriteEmail, InHand, RefersToRows, RefTo
<1>2. users[u] \in User /\ codes[req[h].code] \in Code
  BY <1>1 DEF IInv, TypeOK
<1>3. [users[u] EXCEPT !.email = a] \in User
  BY <1>2 DEF User, Code
<1>4. CASE users' = users
  BY <1>4, LeaveQuietly DEF WriteEmail, rows
<1>5. CASE users' = [users EXCEPT ![u] = [users[u] EXCEPT !.email = a]]
  <2>1. SoundWrite
    BY <1>1, <1>3, <1>5, UserReplaced, UsersWritten DEF WriteEmail
  <2> QED BY <2>1, LeaveSound DEF WriteEmail
<1>6. users' = users \/ users' = [users EXCEPT ![u].email = a]
  BY DEF WriteEmail
<1> QED BY <1>4, <1>5, <1>6

LEMMA WritePhoneSound ==
    ASSUME IInv, NEW h \in Handlers, WritePhone(h)
    PROVE  IInv'
<1> DEFINE u == req[h].user
<1>1. u \in DOMAIN users
  BY HandlerFacts DEF WritePhone, InHand, RefersToRows, RefTo
<1>2. users[u] \in User
  BY <1>1 DEF IInv, TypeOK
<1>3. [users[u] EXCEPT !.phone = "given"] \in User
  BY <1>2 DEF User
<1>4. users' = [users EXCEPT ![u] = [users[u] EXCEPT !.phone = "given"]]
  BY DEF WritePhone
<1>5. SoundWrite
  BY <1>1, <1>3, <1>4, UserReplaced, UsersWritten DEF WritePhone
<1> QED BY <1>5, LeaveSound DEF WritePhone

LEMMA OrderSound ==
    ASSUME IInv, NEW h \in Handlers, Order(h)
    PROVE  IInv'
<1> DEFINE g == [user |-> req[h].user, state |-> "active", contact |-> "kept"]
<1>1. req[h].user \in DOMAIN users /\ req[h].user \in Nat
  BY HandlerFacts DEF Order, InHand, RefersToRows, RefTo, Request
<1>2. g \in Group /\ groups \in Seq(Group) /\ groups' = Append(groups, g)
  BY <1>1 DEF Group, Order, IInv, TypeOK
<1>3. /\ groups' \in Seq(Group) /\ DOMAIN groups' = 1..(Len(groups) + 1)
      /\ DOMAIN groups = 1..Len(groups) /\ Len(groups) \in Nat
      /\ \A i \in DOMAIN groups : groups'[i] = groups[i]
      /\ groups'[Len(groups) + 1] = g
  BY <1>2, AppendTyped
<1>4. \A i \in DOMAIN groups' : i \in DOMAIN groups \/ i = Len(groups) + 1
  BY <1>3
<1>5. ASSUME NEW i \in DOMAIN groups'
      PROVE  groups'[i].user \in DOMAIN users
  <2>1. CASE i \in DOMAIN groups
    BY <1>3, <2>1 DEF IInv, TypeOK, RowsReferToRows
  <2>2. CASE i = Len(groups) + 1
    BY <1>1, <1>3, <2>2
  <2> QED BY <1>4, <2>1, <2>2
<1>6. SoundWrite
  BY <1>3, <1>5, GroupsWritten DEF Order
<1>7. /\ InHand("profile", req[h]) /\ OneSession("profile", req[h]) /\ "profile" \in Stage
      /\ CodeHeld("profile", req[h]) = 0 /\ LinkHeld("profile", req[h]) = 0
  BY HandlerFacts DEF Order, InHand, OneSession, CodeHeld, LinkHeld, Stage
<1>8. \A x : x = req[h] => RefersToRows(x)'
  BY HandlerFacts DEF RefersToRows, RefTo, Order
<1> QED BY <1>6, <1>7, <1>8, HandlerFacts, StayIsGo, MoveSound DEF Order

LEMMA FinishSound ==
    ASSUME IInv, NEW g \in DOMAIN groups, Finish(g)
    PROVE  IInv'
<1> DEFINE e == [groups[g] EXCEPT !.state = "final"]
<1>1. groups \in Seq(Group) /\ groups[g] \in Group
  BY DEF IInv, TypeOK
<1>2. e \in Group /\ e.user = groups[g].user
  BY <1>1 DEF Group
<1>3. groups' = [groups EXCEPT ![g] = e]
  BY DEF Finish
<1> HIDE DEF e
<1>4. /\ groups' \in Seq(Group) /\ DOMAIN groups' = DOMAIN groups
      /\ \A i \in DOMAIN groups : groups'[i] = IF i = g THEN e ELSE groups[i]
  BY <1>1, <1>2, <1>3, ReplaceTyped
<1>5. \A i \in DOMAIN groups' : groups'[i].user \in DOMAIN users
  BY <1>2, <1>4 DEF IInv, TypeOK, RowsReferToRows
<1>6. SoundWrite
  BY <1>4, <1>5, GroupsWritten DEF Finish
<1> QED BY <1>6, NobodyMoves DEF Finish, IInv, TypeOK


-----------------------------------------------------------------------------
(* Writes to tokens and links *)

\* A token changes its state and nothing else.
LEMMA TokenReplaced ==
    ASSUME IInv, NEW t \in DOMAIN tokens, NEW state \in {"live", "revoked", "gone"},
           tokens' = [tokens EXCEPT ![t].state = state],
           UNCHANGED <<users, groups, codes, links>>
    PROVE  SoundWrite
<1> DEFINE e == [tokens[t] EXCEPT !.state = state]
<1>1. tokens \in Seq(Token) /\ tokens[t] \in Token
  BY DEF IInv, TypeOK
<1>2. /\ e \in Token /\ e.user = tokens[t].user /\ e.login = tokens[t].login
      /\ e.code = tokens[t].code /\ e.link = tokens[t].link
  BY <1>1 DEF Token
<1>3. tokens' = [tokens EXCEPT ![t] = e]
  OBVIOUS
<1> HIDE DEF e
<1>4. /\ tokens' \in Seq(Token) /\ DOMAIN tokens' = DOMAIN tokens
      /\ \A i \in DOMAIN tokens : tokens'[i] = IF i = t THEN e ELSE tokens[i]
  BY SMTT(30), <1>1, <1>2, <1>3, ReplaceTyped
<1>5. \A i \in DOMAIN tokens : SameToken(i)
  BY <1>2, <1>4 DEF SameToken
<1> QED BY <1>4, <1>5, TokensWritten

LEMMA RotateSound ==
    ASSUME IInv, NEW h \in Handlers, Rotate(h)
    PROVE  IInv'
<1> DEFINE t == req[h].token
<1>1. t \in DOMAIN tokens /\ req[h].link = 0 /\ req[h].code = 0 /\ req[h].user # 0
  BY HandlerFacts DEF Rotate, InHand, OneSession, RefersToRows, RefTo
<1>2. CASE Leave(h) /\ UNCHANGED tokens
  BY <1>2, LeaveQuietly DEF Rotate, rows
<1>3. CASE tokens' = [tokens EXCEPT ![t].state = "revoked"] /\ Stay(h, "issue")
  <2>1. SoundWrite
    BY <1>1, <1>3, TokenReplaced DEF Rotate
  <2>2. /\ InHand("issue", req[h]) /\ OneSession("issue", req[h]) /\ "issue" \in Stage
        /\ CodeHeld("issue", req[h]) = 0 /\ LinkHeld("issue", req[h]) = 0
    BY <1>1 DEF InHand, OneSession, CodeHeld, LinkHeld, Stage
  <2>3. \A x : x = req[h] => RefersToRows(x)'
    BY <2>1, HandlerFacts DEF RefersToRows, RefTo, SoundWrite, Grow
  <2> QED BY <1>3, <2>1, <2>2, <2>3, HandlerFacts, StayIsGo, MoveSound DEF Rotate
<1> QED BY <1>2, <1>3 DEF Rotate

LEMMA LogoutSound ==
    ASSUME IInv, NEW h \in Handlers, Logout(h)
    PROVE  IInv'
<1> DEFINE t == req[h].token
           state == IF tokens[t].state = "live" THEN "revoked" ELSE tokens[t].state
<1>1. t \in DOMAIN tokens
  BY HandlerFacts DEF Logout, InHand, RefersToRows, RefTo
<1>2. tokens[t] \in Token
  BY <1>1 DEF IInv, TypeOK
<1>3. state \in {"live", "revoked", "gone"}
  BY <1>2 DEF Token
<1>4. tokens' = [tokens EXCEPT ![t].state = state]
  BY DEF Logout
<1>5. SoundWrite
  BY <1>1, <1>3, <1>4, TokenReplaced DEF Logout
<1> QED BY <1>5, LeaveSound DEF Logout

LEMMA ExpireTokenSound ==
    ASSUME IInv, NEW t \in DOMAIN tokens, ExpireToken(t)
    PROVE  IInv'
<1>1. SoundWrite
  BY TokenReplaced DEF ExpireToken
<1> QED BY <1>1, NobodyMoves, BoundAssumption DEF ExpireToken, Tick, IInv, TypeOK

LEMMA LinkReplaced ==
    ASSUME IInv, NEW n \in DOMAIN links, NEW e \in Link, links' = [links EXCEPT ![n] = e],
           e.user \in RefTo(users), links[n].state # "open" => e.state # "open",
           UNCHANGED <<users, groups, tokens, codes>>
    PROVE  SoundWrite
<1>1. links \in Seq(Link)
  BY DEF IInv, TypeOK
<1>2. /\ links' \in Seq(Link) /\ DOMAIN links' = DOMAIN links
      /\ \A i \in DOMAIN links : links'[i] = IF i = n THEN e ELSE links[i]
  BY <1>1, ReplaceTyped
<1>3. \A i \in DOMAIN links' : links'[i].user \in RefTo(users)
  BY <1>2 DEF IInv, TypeOK, RowsReferToRows
<1>4. \A i \in DOMAIN links : links[i].state # "open" => links'[i].state # "open"
  BY <1>2
<1> QED BY <1>2, <1>3, <1>4, LinksWritten

LEMMA CreateLinkSound ==
    ASSUME IInv, NEW h \in Handlers, CreateLink(h)
    PROVE  IInv'
<1>1. links \in Seq(Link) /\ NewLink \in Link /\ NewLink.user = 0
  BY DEF IInv, TypeOK, Link, NewLink
<1>2. links' = Append(links, NewLink)
  BY DEF CreateLink
<1>3. /\ links' \in Seq(Link) /\ DOMAIN links' = 1..(Len(links) + 1)
      /\ DOMAIN links = 1..Len(links) /\ Len(links) \in Nat
      /\ \A i \in DOMAIN links : links'[i] = links[i]
      /\ links'[Len(links) + 1] = NewLink
  BY <1>1, <1>2, AppendTyped
<1>4. /\ \A i \in DOMAIN links' : i \in DOMAIN links \/ i = Len(links) + 1
      /\ DOMAIN links \subseteq DOMAIN links'
  BY <1>3
<1>5. ASSUME NEW i \in DOMAIN links'
      PROVE  links'[i].user \in RefTo(users)
  <2>1. CASE i \in DOMAIN links
    BY <1>3, <2>1 DEF IInv, TypeOK, RowsReferToRows
  <2>2. CASE i = Len(links) + 1
    BY <1>1, <1>3, <2>2 DEF RefTo
  <2> QED BY <1>4, <2>1, <2>2
<1>6. SoundWrite
  BY <1>3, <1>4, <1>5, LinksWritten DEF CreateLink
<1> QED BY <1>6, NobodyMoves, BoundAssumption DEF CreateLink, Tick, IInv, TypeOK

LEMMA BindSound ==
    ASSUME IInv, NEW h \in Handlers, Bind(h)
    PROVE  IInv'
<1> DEFINE n == req[h].link
           e == [links[n] EXCEPT !.user = req[h].user]
<1>1. /\ n \in DOMAIN links /\ req[h].user \in RefTo(users) /\ req[h].user \in Nat
      /\ links[n] \in Link
  BY HandlerFacts DEF Bind, InHand, RefersToRows, RefTo, Request, IInv, TypeOK
<1>2. e \in Link /\ e.user = req[h].user /\ e.state = links[n].state
  BY <1>1 DEF Link
<1>3. CASE links' = links
  BY <1>3, LeaveQuietly DEF Bind, rows
<1>4. CASE links' = [links EXCEPT ![n] = e]
  <2> HIDE DEF e
  <2>1. SoundWrite
    BY <1>1, <1>2, <1>4, LinkReplaced DEF Bind
  <2> QED BY <2>1, LeaveSound DEF Bind
<1> QED BY <1>3, <1>4 DEF Bind

LEMMA ExpireLinkSound ==
    ASSUME IInv, NEW n \in DOMAIN links, ExpireLink(n)
    PROVE  IInv'
<1> DEFINE e == [links[n] EXCEPT !.time = "expired"]
<1>1. links[n] \in Link /\ links[n].user \in RefTo(users)
  BY DEF IInv, TypeOK, RowsReferToRows
<1>2. e \in Link /\ e.user = links[n].user /\ e.state = links[n].state
  BY <1>1 DEF Link
<1>3. links' = [links EXCEPT ![n] = e]
  BY DEF ExpireLink
<1> HIDE DEF e
<1>4. SoundWrite
  BY <1>1, <1>2, <1>3, LinkReplaced DEF ExpireLink
<1> QED BY <1>4, NobodyMoves, BoundAssumption DEF ExpireLink, Tick, IInv, TypeOK

LEMMA ClaimLinkSound ==
    ASSUME IInv, NEW h \in Handlers, ClaimLink(h)
    PROVE  IInv'
<1> DEFINE n == req[h].link
           e == [links[n] EXCEPT !.state = "used"]
<1>1. /\ n \in DOMAIN links /\ n # 0 /\ req[h].code = 0 /\ req[h].user # 0
      /\ links[n] \in Link /\ links[n].user \in RefTo(users)
  BY HandlerFacts DEF ClaimLink, InHand, OneSession, RefersToRows, RefTo, IInv, TypeOK,
                      RowsReferToRows
<1>2. CASE Leave(h) /\ UNCHANGED links
  BY <1>2, LeaveQuietly DEF ClaimLink, rows
<1>3. CASE /\ links[n].state = "open"
           /\ links' = [links EXCEPT ![n].state = "used"] /\ Stay(h, "issue")
  <2>1. e \in Link /\ e.user = links[n].user /\ e.state = "used"
    BY <1>1 DEF Link
  <2>2. links' = [links EXCEPT ![n] = e]
    BY <1>3
  <2> HIDE DEF e
  <2>3. links'[n].state = "used"
    BY <1>1, <2>1, <2>2, ReplaceTyped DEF IInv, TypeOK
  <2>4. SoundWrite
    BY <1>1, <2>1, <2>2, LinkReplaced DEF ClaimLink
  <2>5. /\ InHand("issue", req[h]) /\ OneSession("issue", req[h]) /\ "issue" \in Stage
        /\ CodeHeld("issue", req[h]) = 0 /\ LinkHeld("issue", req[h]) = n
    BY <1>1 DEF InHand, OneSession, CodeHeld, LinkHeld, Stage
  <2>6. HoldsOn(h, "issue", req[h]) /\ GuessesHold(h, "issue", req[h])
    BY <1>1, <1>3, <2>3, <2>4, <2>5 DEF HoldsOn, GuessesHold, SoundWrite, AttemptsKept
  <2>7. \A x : x = req[h] => RefersToRows(x)'
    BY <2>4, HandlerFacts DEF RefersToRows, RefTo, SoundWrite, Grow
  <2>8. Moves(h, "issue", req[h])
    BY <1>3, <2>5, HandlerFacts, StayIsGo DEF Moves, Go, Goto
  <2>9. asked' \in 0..MaxRequests
    BY DEF ClaimLink, IInv, TypeOK
  <2> QED BY <2>4, <2>5, <2>6, <2>7, <2>8, <2>9, StepSound DEF SoundWrite
<1> QED BY <1>2, <1>3 DEF ClaimLink


-----------------------------------------------------------------------------
(* Writes to codes *)

LEMMA CodeReplaced ==
    ASSUME IInv, NEW s \in DOMAIN codes, NEW e \in Code, codes' = [codes EXCEPT ![s] = e],
           e.user = codes[s].user, codes[s].state # "open" => e.state # "open",
           UNCHANGED <<users, groups, tokens, links>>
    PROVE  /\ Tables' /\ Grow /\ StaysClosed /\ SameOrigins
           /\ DOMAIN codes' = DOMAIN codes
           /\ \A i \in DOMAIN codes : codes'[i] = IF i = s THEN e ELSE codes[i]
<1>1. codes \in Seq(Code)
  BY DEF IInv, TypeOK
<1>2. /\ codes' \in Seq(Code) /\ DOMAIN codes' = DOMAIN codes
      /\ \A i \in DOMAIN codes : codes'[i] = IF i = s THEN e ELSE codes[i]
  BY <1>1, ReplaceTyped
<1>3. \A i \in DOMAIN codes' : codes'[i].user \in RefTo(users)
  BY <1>2 DEF IInv, TypeOK, RowsReferToRows
<1>4. \A i \in DOMAIN codes : codes[i].state # "open" => codes'[i].state # "open"
  BY <1>2
<1> QED BY <1>2, <1>3, <1>4, CodesWritten

\* A code changes its state or its time.
LEMMA CodeWritten ==
    ASSUME IInv, NEW s \in DOMAIN codes, NEW e \in Code, codes' = [codes EXCEPT ![s] = e],
           e.user = codes[s].user, codes[s].state # "open" => e.state # "open",
           e.attempts = codes[s].attempts,
           UNCHANGED <<users, groups, tokens, links>>
    PROVE  SoundWrite
<1>1. /\ Tables' /\ Grow /\ StaysClosed /\ SameOrigins
      /\ DOMAIN codes' = DOMAIN codes
      /\ \A i \in DOMAIN codes : codes'[i] = IF i = s THEN e ELSE codes[i]
  BY CodeReplaced
<1>2. AttemptsKept
  BY <1>1 DEF AttemptsKept
<1> QED BY <1>1, <1>2 DEF SoundWrite

LEMMA ShutIsSound ==
    ASSUME IInv, NEW s \in DOMAIN codes, Shut(s), UNCHANGED <<users, groups, tokens, links>>
    PROVE  SoundWrite
<1> DEFINE state == IF codes[s].state = "gone" THEN codes[s].state ELSE "used"
           e == [codes[s] EXCEPT !.state = state]
<1>1. codes[s] \in Code
  BY DEF IInv, TypeOK
<1>2. /\ e \in Code /\ e.user = codes[s].user /\ e.attempts = codes[s].attempts
      /\ e.state # "open"
  BY <1>1 DEF Code
<1>3. codes' = [codes EXCEPT ![s] = e]
  BY DEF Shut
<1> HIDE DEF e
<1> QED BY <1>2, <1>3, CodeWritten

LEMMA WithdrawSound ==
    ASSUME IInv, NEW h \in Handlers, Withdraw(h)
    PROVE  IInv'
<1>1. req[h].code \in DOMAIN codes
  BY HandlerFacts DEF Withdraw, InHand, RefersToRows, RefTo
<1> QED BY <1>1, ShutIsSound, LeaveSound DEF Withdraw

LEMMA ShutCodeSound ==
    ASSUME IInv, NEW h \in Handlers, ShutCode(h)
    PROVE  IInv'
<1>1. req[h].code \in DOMAIN codes
  BY HandlerFacts DEF ShutCode, InHand, RefersToRows, RefTo
<1> QED BY <1>1, ShutIsSound, LeaveSound DEF ShutCode

LEMMA ExpireCodeSound ==
    ASSUME IInv, NEW s \in DOMAIN codes, ExpireCode(s)
    PROVE  IInv'
<1> DEFINE e == [codes[s] EXCEPT !.time = "expired"]
<1>1. codes[s] \in Code
  BY DEF IInv, TypeOK
<1>2. /\ e \in Code /\ e.user = codes[s].user /\ e.attempts = codes[s].attempts
      /\ e.state = codes[s].state
  BY <1>1 DEF Code
<1>3. codes' = [codes EXCEPT ![s] = e]
  BY DEF ExpireCode
<1> HIDE DEF e
<1>4. SoundWrite
  BY <1>2, <1>3, CodeWritten DEF ExpireCode
<1> QED BY <1>4, NobodyMoves, BoundAssumption DEF ExpireCode, Tick, IInv, TypeOK

LEMMA StoreSound ==
    ASSUME IInv, NEW h \in Handlers, Store(h)
    PROVE  IInv'
<1> DEFINE s == Len(codes) + 1
           e == NewCode(req[h].email, req[h].user)
           r == [req[h] EXCEPT !.code = s]
<1>1. /\ req[h].email \in Addresses /\ req[h].user \in Nat /\ req[h].user \in RefTo(users)
      /\ req[h].link = 0 /\ codes \in Seq(Code)
  BY HandlerFacts DEF Store, InHand, OneSession, RefersToRows, Request, IInv, TypeOK
<1>2. e \in Code /\ e.user = req[h].user /\ e.attempts = 0
  BY <1>1 DEF Code, NewCode
<1>3. codes' = Append(codes, e) /\ Go(h, "send", r)
  BY DEF Store
<1> HIDE DEF e
<1>4. /\ codes' \in Seq(Code) /\ DOMAIN codes' = 1..s
      /\ DOMAIN codes = 1..Len(codes) /\ Len(codes) \in Nat
      /\ \A i \in DOMAIN codes : codes'[i] = codes[i]
      /\ codes'[s] = e
  BY <1>1, <1>2, <1>3, AppendTyped
<1>5. /\ \A i \in DOMAIN codes' : i \in DOMAIN codes \/ i = s
      /\ DOMAIN codes \subseteq DOMAIN codes' /\ s \in DOMAIN codes' /\ s \in Nat \ {0}
  BY <1>4
<1>6. ASSUME NEW i \in DOMAIN codes'
      PROVE  codes'[i].user \in RefTo(users)
  <2>1. CASE i \in DOMAIN codes
    BY <1>4, <2>1 DEF IInv, TypeOK, RowsReferToRows
  <2>2. CASE i = s
    BY <1>1, <1>2, <1>4, <2>2
  <2> QED BY <1>5, <2>1, <2>2
<1>7. AttemptsKept
  BY <1>2, <1>4, <1>5, BoundAssumption DEF AttemptsKept
<1>8. \A i \in DOMAIN codes : codes[i].state # "open" => codes'[i].state # "open"
  BY <1>4
<1>9. SoundWrite
  BY <1>4, <1>5, <1>6, <1>7, <1>8, CodesWritten DEF Store, SoundWrite
<1>10. /\ r \in Request /\ r.user = req[h].user /\ r.code = s
       /\ r.link = req[h].link /\ r.token = req[h].token
  BY <1>5, HandlerFacts DEF Request
<1> HIDE DEF r, s
<1>11. \A x : x.user = req[h].user /\ x.code = s /\ x.link = req[h].link
                  /\ x.token = req[h].token => RefersToRows(x)'
  BY <1>5, HandlerFacts DEF RefersToRows, RefTo, Store
<1>12. /\ InHand("send", r) /\ OneSession("send", r) /\ "send" \in Stage
       /\ CodeHeld("send", r) = 0 /\ LinkHeld("send", r) = 0
  BY <1>1, <1>5, <1>10 DEF InHand, OneSession, CodeHeld, LinkHeld, Stage
<1> QED BY <1>3, <1>9, <1>10, <1>11, <1>12, MoveSound DEF Store

LEMMA ClaimCodeSound ==
    ASSUME IInv, NEW h \in Handlers, ClaimCode(h)
    PROVE  IInv'
<1> DEFINE s == req[h].code
           e == [codes[s] EXCEPT !.state = "used"]
<1>1. /\ s \in DOMAIN codes /\ s # 0 /\ req[h].link = 0 /\ codes[s] \in Code
  BY HandlerFacts DEF ClaimCode, InHand, OneSession, RefersToRows, RefTo, IInv, TypeOK
<1>2. CASE Leave(h) /\ UNCHANGED codes
  BY <1>2, LeaveQuietly DEF ClaimCode, rows
<1>3. CASE codes[s].state = "open" /\ codes' = [codes EXCEPT ![s].state = "used"] /\ AfterClaim(h)
  <2>1. e \in Code /\ e.user = codes[s].user /\ e.state = "used" /\ e.attempts = codes[s].attempts
    BY <1>1 DEF Code
  <2>2. codes' = [codes EXCEPT ![s] = e]
    BY <1>3
  <2> HIDE DEF e
  <2>3. codes'[s].state = "used"
    BY <1>1, <2>1, <2>2, ReplaceTyped DEF IInv, TypeOK
  <2>4. SoundWrite
    BY <1>1, <2>1, <2>2, CodeWritten DEF ClaimCode
  <2>5. CASE Leave(h)
    BY <2>4, <2>5, LeaveSound DEF ClaimCode
  <2>6. \A x : x = req[h] => RefersToRows(x)'
    BY <2>4, HandlerFacts DEF RefersToRows, RefTo, SoundWrite, Grow
  <2>7. CASE Stay(h, "resolve")
    <3>1. /\ InHand("resolve", req[h]) /\ OneSession("resolve", req[h]) /\ "resolve" \in Stage
          /\ CodeHeld("resolve", req[h]) = s /\ LinkHeld("resolve", req[h]) = 0
      BY <1>1 DEF InHand, OneSession, CodeHeld, LinkHeld, Stage
    <3>2. HoldsOn(h, "resolve", req[h]) /\ GuessesHold(h, "resolve", req[h])
      BY <1>1, <1>3, <2>3, <2>4, <3>1 DEF HoldsOn, GuessesHold, SoundWrite, AttemptsKept
    <3>3. Moves(h, "resolve", req[h])
      BY <2>7, <3>1, HandlerFacts, StayIsGo DEF Moves, Go, Goto
    <3>4. asked' \in 0..MaxRequests
      BY DEF ClaimCode, IInv, TypeOK
    <3> QED BY <2>4, <2>6, <3>1, <3>2, <3>3, <3>4, StepSound DEF SoundWrite
  <2>8. CASE req[h].goal # "login" /\ Stay(h, "email")
    <3>0. req[h].user # 0
      BY <2>8, HandlerFacts DEF ClaimCode, InHand
    <3>1. /\ InHand("email", req[h]) /\ OneSession("email", req[h]) /\ "email" \in Stage
          /\ CodeHeld("email", req[h]) = 0 /\ LinkHeld("email", req[h]) = 0
      BY <1>1, <3>0 DEF InHand, OneSession, CodeHeld, LinkHeld, Stage
    <3> QED BY <2>4, <2>6, <2>8, <3>1, HandlerFacts, StayIsGo, MoveSound DEF ClaimCode
  <2> QED BY <1>3, <2>5, <2>7, <2>8 DEF AfterClaim
<1> QED BY <1>2, <1>3 DEF ClaimCode, Open


-----------------------------------------------------------------------------
(* A wrong guess is counted *)

LEMMA GuessCounted ==
    ASSUME IInv, NEW h \in Handlers, NEW stage, NEW r, Moves(h, stage, r), stage # "wrong",
           NEW s \in DOMAIN codes, pc[h] = "wrong", req[h].code = s,
           DOMAIN codes' = DOMAIN codes,
           \A i \in DOMAIN codes : codes'[i].attempts =
               IF i = s THEN codes[i].attempts + 1 ELSE codes[i].attempts
    PROVE  GuessesCovered'
<1> SUFFICES ASSUME NEW i \in DOMAIN codes
             PROVE  codes'[i].attempts + Cardinality(Guessing(i)')
                      < MaxAttempts + Cardinality(Handlers)
  BY DEF GuessesCovered
<1> DEFINE before == Cardinality(Guessing(i))
           after == Cardinality(Guessing(i)')
           all == Cardinality(Handlers)
           bound == MaxAttempts + all
<1>1. before \in Nat /\ after \in Nat /\ bound \in Nat
  BY Guessers, GuessersNext, BoundAssumption
<1>2. codes[i].attempts \in Nat
  <2>1. codes[i] \in Code
    BY DEF IInv, TypeOK
  <2> QED BY <2>1 DEF Code
<1>3. codes[i].attempts + before < bound
  BY DEF IInv, GuessesCovered
<1> HIDE DEF bound
<1>4. CASE i # s
  <2>1. Guessing(i)' \subseteq Guessing(i)
    BY MovedHandlers DEF Guessing
  <2>2. after <= before
    BY <2>1, Guessers, FS_Subset
  <2> HIDE DEF before, after
  <2>3. codes'[i].attempts + after < bound
    BY <1>1, <1>2, <1>3, <1>4, <2>2
  <2> QED BY <2>3 DEF after, bound
<1>5. CASE i = s
  <2>1. Guessing(i)' = Guessing(i) \ {h} /\ h \in Guessing(i)
    BY <1>5, MovedHandlers DEF Guessing
  <2>2. after = before - 1
    BY <2>1, Guessers, FS_RemoveElement
  <2> HIDE DEF before, after
  <2>3. codes'[i].attempts + after < bound
    BY <1>1, <1>2, <1>3, <1>5, <2>2
  <2> QED BY <2>3 DEF after, bound
<1> QED BY <1>4, <1>5

LEMMA WrongSound ==
    ASSUME IInv, NEW h \in Handlers, Wrong(h)
    PROVE  IInv'
<1> DEFINE s == req[h].code
           e == [codes[s] EXCEPT !.attempts = @ + 1]
<1>1. s \in DOMAIN codes /\ s # 0 /\ pc[h] = "wrong" /\ codes[s] \in Code
  BY HandlerFacts DEF Wrong, InHand, RefersToRows, RefTo, IInv, TypeOK
<1>2. CASE Leave(h) /\ UNCHANGED codes
  BY <1>2, LeaveQuietly DEF Wrong, rows
<1>3. CASE /\ codes' = [codes EXCEPT ![s].attempts = @ + 1]
           /\ Stay(h, "shut") \/ Leave(h)
  <2>1. /\ e \in Code /\ e.user = codes[s].user /\ e.state = codes[s].state
        /\ e.attempts = codes[s].attempts + 1
    BY <1>1 DEF Code
  <2>2. codes' = [codes EXCEPT ![s] = e]
    BY <1>3
  <2> HIDE DEF e
  <2>3. /\ Tables' /\ Grow /\ StaysClosed /\ SameOrigins
        /\ DOMAIN codes' = DOMAIN codes
        /\ \A i \in DOMAIN codes : codes'[i] = IF i = s THEN e ELSE codes[i]
    BY <1>1, <2>1, <2>2, CodeReplaced DEF Wrong
  <2>4. \A i \in DOMAIN codes : codes'[i].attempts =
            IF i = s THEN codes[i].attempts + 1 ELSE codes[i].attempts
    BY <2>1, <2>3
  <2>5. PICK stage \in {"shut", "idle"}, r \in {req[h], NoReq} :
            Moves(h, stage, r) /\ (stage = "shut" => r = req[h])
    BY <1>3, HandlerFacts, LeaveMoves, StayIsGo DEF Moves, Go, Goto, Stage
  <2>6. \A x \in {req[h], NoReq} : RefersToRows(x)'
    BY <2>3, HandlerFacts DEF RefersToRows, RefTo, Grow, NoReq
  <2>7. InHand(stage, r) /\ OneSession(stage, r)
    BY <1>1, <2>5, NothingInHand, HandlerFacts DEF InHand, OneSession, NoReq
  <2>8. HoldsOn(h, stage, r)
    BY DEF HoldsOn, CodeHeld, LinkHeld
  <2>9. asked' \in 0..MaxRequests
    BY DEF Wrong, IInv, TypeOK
  <2>10. TypeOK' /\ RequestsAreSound'
    BY <2>3, <2>5, <2>6, <2>7, <2>9, RequestsStaySound
  <2>11. HeldOnce' /\ SpentOnce'
    BY <2>3, <2>5, <2>8, HoldingStaysSound
  <2>12. GuessesCovered'
    BY <1>1, <2>3, <2>4, <2>5, GuessCounted
  <2> QED BY <2>10, <2>11, <2>12 DEF IInv
<1> QED BY <1>2, <1>3 DEF Wrong

-----------------------------------------------------------------------------
(* A session gives its tokens *)

\* What h holds is spent: nobody else held it, and no token was given for it.
LEMMA SpendingIsSound ==
    ASSUME IInv, NEW h \in Handlers, Moves(h, "idle", NoReq), pc[h] = "persist",
           UNCHANGED <<codes, links>>,
           NEW e, e.code = req[h].code, e.link = req[h].link,
           NEW new, DOMAIN tokens' = DOMAIN tokens \cup {new}, new \notin DOMAIN tokens,
           \A t \in DOMAIN tokens : tokens'[t] = tokens[t],
           tokens'[new] = e
    PROVE  HeldOnce' /\ SpentOnce'
<1> DEFINE Held(k) == CodeHeld(pc[k], req[k])
           HeldLink(k) == LinkHeld(pc[k], req[k])
           NewHeld(k) == CodeHeld(pc'[k], req'[k])
           NewLinkHeld(k) == LinkHeld(pc'[k], req'[k])
<1>1. Held(h) = e.code /\ HeldLink(h) = e.link
  BY DEF CodeHeld, LinkHeld
<1>2. NewHeld(h) = 0 /\ NewLinkHeld(h) = 0
  BY MovedHandlers, NothingInHand
<1>3. \A k \in Handlers \ {h} : NewHeld(k) = Held(k) /\ NewLinkHeld(k) = HeldLink(k)
  BY MovedHandlers
<1>4. /\ e.code # 0 => /\ codes[e.code].state # "open"
                       /\ \A t \in DOMAIN tokens : tokens[t].code # e.code
                       /\ \A k \in Handlers \ {h} : Held(k) # e.code
      /\ e.link # 0 => /\ links[e.link].state # "open"
                       /\ \A t \in DOMAIN tokens : tokens[t].link # e.link
                       /\ \A k \in Handlers \ {h} : HeldLink(k) # e.link
  BY <1>1, HeldFacts
<1>5. SpentOnce'
  BY <1>4 DEF SpentOnce, IInv
<1>6. \A t \in DOMAIN tokens' :
          /\ tokens'[t].code # 0 => codes'[tokens'[t].code].state # "open"
          /\ tokens'[t].link # 0 => links'[tokens'[t].link].state # "open"
  BY <1>4 DEF IInv, HeldOnce
<1>7. ASSUME NEW k \in Handlers \ {h}
      PROVE  /\ Held(k) # 0 => /\ codes[Held(k)].state # "open"
                               /\ \A t \in DOMAIN tokens : tokens[t].code # Held(k)
                               /\ \A j \in Handlers \ {k} : Held(j) # Held(k)
             /\ HeldLink(k) # 0 => /\ links[HeldLink(k)].state # "open"
                                   /\ \A t \in DOMAIN tokens : tokens[t].link # HeldLink(k)
                                   /\ \A j \in Handlers \ {k} : HeldLink(j) # HeldLink(k)
  BY HeldFacts
<1> HIDE DEF Held, HeldLink, NewHeld, NewLinkHeld
<1>8. \A k \in Handlers :
          /\ NewHeld(k) # 0 =>
                /\ codes'[NewHeld(k)].state # "open"
                /\ \A t \in DOMAIN tokens' : tokens'[t].code # NewHeld(k)
                /\ \A j \in Handlers \ {k} : NewHeld(j) # NewHeld(k)
          /\ NewLinkHeld(k) # 0 =>
                /\ links'[NewLinkHeld(k)].state # "open"
                /\ \A t \in DOMAIN tokens' : tokens'[t].link # NewLinkHeld(k)
                /\ \A j \in Handlers \ {k} : NewLinkHeld(j) # NewLinkHeld(k)
  BY <1>1, <1>2, <1>3, <1>7
<1> QED BY <1>5, <1>6, <1>8 DEF HeldOnce, NewHeld, NewLinkHeld

LEMMA PersistRefreshTokenSound ==
    ASSUME IInv, NEW h \in Handlers, PersistRefreshToken(h)
    PROVE  IInv'
<1> DEFINE new == Len(tokens) + 1
           login == IF req[h].token = 0 THEN new ELSE tokens[req[h].token].login
           e == [user |-> req[h].user, state |-> "live",
                 code |-> req[h].code, link |-> req[h].link, login |-> login]
<1>1. /\ pc[h] = "persist" /\ req[h].user \in DOMAIN users /\ req[h] \in Request
      /\ req[h].code \in RefTo(codes) /\ req[h].link \in RefTo(links)
      /\ req[h].token \in RefTo(tokens) /\ tokens \in Seq(Token)
  BY HandlerFacts DEF PersistRefreshToken, InHand, RefersToRows, RefTo, IInv, TypeOK
<1>2. login \in DOMAIN tokens \cup {new} /\ login \in Nat
  <2>1. \A t \in DOMAIN tokens : tokens[t].login \in DOMAIN tokens
    BY DEF IInv, TypeOK, RowsReferToRows
  <2>2. DOMAIN tokens \subseteq Nat /\ new \in Nat
    BY <1>1
  <2>3. req[h].token = 0 \/ req[h].token \in DOMAIN tokens
    BY <1>1 DEF RefTo
  <2> HIDE DEF new
  <2> QED BY <2>1, <2>2, <2>3
<1>3. /\ e \in Token /\ e.user = req[h].user /\ e.code = req[h].code
      /\ e.link = req[h].link /\ e.login = login
  BY <1>1, <1>2 DEF Token, Request
<1>4. tokens' = Append(tokens, e) /\ Leave(h)
  BY DEF PersistRefreshToken
<1> HIDE DEF e, login
<1>5. /\ tokens' \in Seq(Token) /\ DOMAIN tokens' = 1..new
      /\ DOMAIN tokens = 1..Len(tokens) /\ Len(tokens) \in Nat
      /\ \A t \in DOMAIN tokens : tokens'[t] = tokens[t]
      /\ tokens'[new] = e
  BY <1>1, <1>3, <1>4, AppendTyped
<1>6. DOMAIN tokens' = DOMAIN tokens \cup {new} /\ new \notin DOMAIN tokens
  BY <1>5
<1> HIDE DEF new
<1>7. Tables'
  <2>1. ASSUME NEW t \in DOMAIN tokens'
        PROVE  /\ tokens'[t].user \in DOMAIN users
               /\ tokens'[t].code \in RefTo(codes)
               /\ tokens'[t].link \in RefTo(links)
               /\ tokens'[t].login \in DOMAIN tokens'
    <3>1. CASE t \in DOMAIN tokens
      BY <1>5, <1>6, <3>1 DEF IInv, TypeOK, RowsReferToRows
    <3>2. CASE t = new
      BY <1>1, <1>2, <1>3, <1>5, <1>6, <3>2
    <3> QED BY <1>6, <3>1, <3>2
  <2> QED BY <1>5, <2>1, TablesNow DEF Tables, RowsReferToRows, RefTo, PersistRefreshToken
<1>8. Grow
  BY <1>6 DEF Grow, PersistRefreshToken
<1>9. asked' \in 0..MaxRequests
  BY DEF PersistRefreshToken, IInv, TypeOK
<1>10. TypeOK' /\ RequestsAreSound'
  BY <1>4, <1>7, <1>8, <1>9, LeaveMoves, NothingInHand, RequestsStaySound
<1>11. HeldOnce' /\ SpentOnce'
  BY <1>1, <1>3, <1>4, <1>5, <1>6, LeaveMoves, SpendingIsSound DEF PersistRefreshToken
<1>12. GuessesCovered'
  <2>1. GuessesHold(h, "idle", NoReq)
    BY DEF GuessesHold, PersistRefreshToken
  <2>2. codes' \in Seq(Code)
    BY <1>7 DEF Tables
  <2> QED BY <1>4, <2>1, <2>2, LeaveMoves, GuessesStayCovered
<1> QED BY <1>10, <1>11, <1>12 DEF IInv


-----------------------------------------------------------------------------
(* An account is erased *)

LEMMA EraseSound ==
    ASSUME IInv, NEW h \in Handlers, Erase(h)
    PROVE  IInv'
<1> DEFINE u == req[h].user
           blank == [state |-> "deleted", email |-> None, telegram |-> None, phone |-> "none"]
<1>1. /\ u \in DOMAIN users /\ users \in Seq(User) /\ groups \in Seq(Group)
      /\ tokens \in Seq(Token) /\ codes \in Seq(Code) /\ links \in Seq(Link)
  BY HandlerFacts DEF Erase, InHand, RefersToRows, RefTo, IInv, TypeOK
<1>2. users' \in Seq(User) /\ DOMAIN users' = DOMAIN users
  <2>1. blank \in User
    BY DEF User
  <2>2. users' = [users EXCEPT ![u] = blank]
    BY DEF Erase
  <2> HIDE DEF blank
  <2> QED BY <1>1, <2>1, <2>2, UserReplaced
<1>3. /\ groups' \in Seq(Group) /\ DOMAIN groups' = DOMAIN groups
      /\ \A g \in DOMAIN groups : groups'[g].user = groups[g].user
  <2>1. \A g \in DOMAIN groups : groups[g] \in Group
    BY <1>1
  <2>2. /\ groups' = [g \in DOMAIN groups |-> groups'[g]]
        /\ \A g \in DOMAIN groups : groups'[g] \in {groups[g], [groups[g] EXCEPT !.contact = "wiped"]}
    BY DEF Erase
  <2>3. \A g \in DOMAIN groups : groups'[g] \in Group /\ groups'[g].user = groups[g].user
    BY <2>1, <2>2 DEF Group
  <2> QED BY <1>1, <2>2, <2>3, SameIndices
<1>4. /\ tokens' \in Seq(Token) /\ DOMAIN tokens' = DOMAIN tokens
      /\ \A t \in DOMAIN tokens : SameToken(t)
  <2>1. \A t \in DOMAIN tokens : tokens[t] \in Token
    BY <1>1
  <2>2. /\ tokens' = [t \in DOMAIN tokens |-> tokens'[t]]
        /\ \A t \in DOMAIN tokens : tokens'[t] \in {tokens[t], [tokens[t] EXCEPT !.state = "gone"]}
    BY DEF Erase
  <2>3. \A t \in DOMAIN tokens : tokens'[t] \in Token /\ SameToken(t)
    BY <2>1, <2>2 DEF Token, SameToken
  <2> QED BY <1>1, <2>2, <2>3, SameIndices
<1>5. /\ codes' \in Seq(Code) /\ DOMAIN codes' = DOMAIN codes
      /\ \A s \in DOMAIN codes :
            /\ codes'[s].user = codes[s].user /\ codes'[s].attempts = codes[s].attempts
            /\ codes[s].state # "open" => codes'[s].state # "open"
  <2>1. \A s \in DOMAIN codes : codes[s] \in Code
    BY <1>1
  <2>2. /\ codes' = [s \in DOMAIN codes |-> codes'[s]]
        /\ \A s \in DOMAIN codes : codes'[s] \in {codes[s], [codes[s] EXCEPT !.state = "gone"]}
    BY DEF Erase
  <2>3. \A s \in DOMAIN codes :
            /\ codes'[s] \in Code
            /\ codes'[s].user = codes[s].user /\ codes'[s].attempts = codes[s].attempts
            /\ codes[s].state # "open" => codes'[s].state # "open"
    BY <2>1, <2>2 DEF Code
  <2> QED BY <1>1, <2>2, <2>3, SameIndices
<1>6. /\ links' \in Seq(Link) /\ DOMAIN links' = DOMAIN links
      /\ \A n \in DOMAIN links : /\ links'[n].user = links[n].user
                                 /\ links[n].state # "open" => links'[n].state # "open"
  <2>1. \A n \in DOMAIN links : links[n] \in Link
    BY <1>1
  <2>2. /\ links' = [n \in DOMAIN links |-> links'[n]]
        /\ \A n \in DOMAIN links : links'[n] \in {links[n], [links[n] EXCEPT !.state = "gone"]}
    BY DEF Erase
  <2>3. \A n \in DOMAIN links : /\ links'[n] \in Link /\ links'[n].user = links[n].user
                                /\ links[n].state # "open" => links'[n].state # "open"
    BY <2>1, <2>2 DEF Link
  <2> QED BY <1>1, <2>2, <2>3, SameIndices
<1>7. Tables'
  <2>1. RowsReferToRows
    BY DEF IInv, TypeOK
  <2>2. RowsReferToRows'
    BY <1>2, <1>3, <1>4, <1>5, <1>6, <2>1 DEF RowsReferToRows, RefTo, SameToken
  <2> QED BY <1>2, <1>3, <1>4, <1>5, <1>6, <2>2 DEF Tables
<1>8. Grow /\ StaysClosed /\ SameOrigins /\ AttemptsKept
  BY <1>2, <1>4, <1>5, <1>6 DEF Grow, StaysClosed, SameOrigins, SameToken, AttemptsKept
<1> QED BY <1>7, <1>8, LeaveSound DEF Erase, SoundWrite

-----------------------------------------------------------------------------
(* The invariant is inductive *)

LEMMA InitSound ==
    ASSUME Init
    PROVE  IInv
<1>1. PICK a \in Addresses, t \in Telegrams :
          \/ users = <<NewUser(a, None)>> /\ codes = <<TriedCode(a, 0)>>
          \/ users = <<NewUser(None, t)>> /\ codes = <<TriedCode(a, 1), TriedCode(a, 0)>>
  BY DEF Init
<1>2. /\ NewUser(a, None) \in User /\ NewUser(None, t) \in User
      /\ \A u \in {0, 1} : /\ TriedCode(a, u) \in Code /\ TriedCode(a, u).user = u
                          /\ TriedCode(a, u).attempts = MaxAttempts - 1
      /\ NewLink \in Link /\ NewLink.user = 0
  BY BoundAssumption DEF NewUser, User, TriedCode, NewCode, Code, NewLink, Link
<1>3. /\ users \in Seq(User) /\ DOMAIN users = {1}
      /\ codes \in Seq(Code) /\ \A s \in DOMAIN codes :
            codes[s].user \in {0, 1} /\ codes[s].attempts = MaxAttempts - 1
  <2>1. PICK row \in User : users = <<row>>
    BY <1>1, <1>2
  <2>2. users \in Seq(User) /\ DOMAIN users = {1}
    BY <2>1
  <2>3. CASE codes = <<TriedCode(a, 0)>>
    <3>1. TriedCode(a, 0) \in Code
      BY <1>2
    <3>2. codes \in Seq(Code) /\ DOMAIN codes = {1} /\ codes[1] = TriedCode(a, 0)
      BY <2>3, <3>1
    <3> QED BY <1>2, <2>2, <3>2
  <2>4. CASE codes = <<TriedCode(a, 1), TriedCode(a, 0)>>
    <3>1. TriedCode(a, 0) \in Code /\ TriedCode(a, 1) \in Code
      BY <1>2
    <3>2. /\ codes \in Seq(Code) /\ DOMAIN codes = {1, 2}
          /\ codes[1] = TriedCode(a, 1) /\ codes[2] = TriedCode(a, 0)
      BY <2>4, <3>1
    <3> QED BY <1>2, <2>2, <3>2
  <2> QED BY <1>1, <2>3, <2>4
<1>4. /\ links \in Seq(Link) /\ DOMAIN links = {1} /\ links[1].user = 0
      /\ groups \in Seq(Group) /\ DOMAIN groups = {}
  BY <1>2 DEF Init
<1>5. /\ tokens \in Seq(Token) /\ DOMAIN tokens = {1}
      /\ tokens[1].user = 1 /\ tokens[1].code = 0 /\ tokens[1].link = 0 /\ tokens[1].login = 1
  BY DEF Init, Token
<1>6. RowsReferToRows
  BY <1>3, <1>4, <1>5 DEF RowsReferToRows, RefTo
<1>7. \A h \in Handlers : pc[h] = "idle" /\ req[h] = NoReq
  BY DEF Init
<1>8. NoReq \in Request /\ RefersToRows(NoReq) /\ InHand("idle", NoReq) /\ OneSession("idle", NoReq)
  BY NothingInHand DEF RefersToRows, RefTo, NoReq
<1>9. TypeOK
  <2>1. pc \in [Handlers -> Stage] /\ req \in [Handlers -> Request] /\ asked \in 0..MaxRequests
    BY <1>8, BoundAssumption DEF Init, Stage
  <2> QED BY <1>3, <1>4, <1>5, <1>6, <1>7, <1>8, <2>1 DEF TypeOK
<1>10. RequestsAreSound
  BY <1>7, <1>8 DEF RequestsAreSound
<1>11. HeldOnce /\ SpentOnce
  BY <1>5, <1>7, NothingInHand DEF HeldOnce, SpentOnce
<1>12. GuessesCovered
  <2> SUFFICES ASSUME NEW s \in DOMAIN codes
               PROVE  codes[s].attempts + Cardinality(Guessing(s))
                        < MaxAttempts + Cardinality(Handlers)
    BY DEF GuessesCovered
  <2>1. Guessing(s) = {}
    BY <1>7 DEF Guessing
  <2>2. Cardinality(Guessing(s)) = 0
    BY <2>1, FS_EmptySet
  <2>3. codes[s].attempts = MaxAttempts - 1 /\ Cardinality(Handlers) \in Nat
    BY <1>3, Guessers
  <2> QED BY <2>2, <2>3, BoundAssumption
<1> QED BY <1>9, <1>10, <1>11, <1>12 DEF IInv

LEMMA ServeSound ==
    ASSUME IInv, NEW h \in Handlers, Serve(h)
    PROVE  IInv'
<1>1. CASE Find(h) \/ Create(h) \/ Winner(h)
  BY <1>1, FindSound, CreateSound, WinnerSound
<1>2. CASE IssueTokens(h) \/ PersistRefreshToken(h) \/ Rotate(h) \/ Logout(h)
  BY <1>2, IssueTokensSound, PersistRefreshTokenSound, RotateSound, LogoutSound
<1>3. CASE Bind(h) \/ ClaimLink(h)
  BY <1>3, BindSound, ClaimLinkSound
<1>4. CASE CheckAddress(h) \/ Store(h) \/ Send(h) \/ Withdraw(h)
  BY <1>4, CheckAddressSound, StoreSound, SendSound, WithdrawSound
<1>5. CASE ReadCode(h) \/ Wrong(h) \/ ShutCode(h) \/ ClaimCode(h)
  BY <1>5, ReadCodeSound, WrongSound, ShutCodeSound, ClaimCodeSound
<1>6. CASE ResolveUser(h) \/ Register(h) \/ WriteEmail(h)
  BY <1>6, ResolveUserSound, RegisterSound, WriteEmailSound
<1>7. CASE Order(h) \/ ReadProfile(h) \/ WritePhone(h)
  BY <1>7, OrderSound, ReadProfileSound, WritePhoneSound
<1>8. CASE ReadAccount(h) \/ CountActive(h) \/ Erase(h)
  BY <1>8, ReadAccountSound, CountActiveSound, EraseSound
<1> QED BY <1>1, <1>2, <1>3, <1>4, <1>5, <1>6, <1>7, <1>8 DEF Serve

LEMMA StepPreserves ==
    ASSUME IInv, [Next]_vars
    PROVE  IInv'
<1>1. CASE UNCHANGED vars
  BY ZenonT(40), <1>1 DEF vars, IInv, TypeOK, RowsReferToRows, RefersToRows, RefTo, RequestsAreSound,
              HeldOnce, SpentOnce, GuessesCovered, Guessing
<1>2. CASE Time
  BY <1>2, FinishSound, ExpireCodeSound, ExpireLinkSound, ExpireTokenSound DEF Time
<1>3. ASSUME NEW h \in Handlers, Login(h)
      PROVE  IInv'
  BY <1>3, LoginSound, CreateLinkSound DEF Login
<1>4. ASSUME NEW h \in Handlers, Use(h) \/ Serve(h)
      PROVE  IInv'
  BY <1>4, UseSound, ServeSound
<1>5. ASSUME NEW h \in Handlers, Fail(h)
      PROVE  IInv'
  BY <1>5, LeaveQuietly DEF Fail
<1> QED BY <1>1, <1>2, <1>3, <1>4, <1>5 DEF Next

\* IInv holds in every state.
LEMMA AlwaysSound == Spec => []IInv
<1>1. Init => IInv
  BY InitSound
<1>2. IInv /\ [Next]_vars => IInv'
  BY StepPreserves
<1> QED BY <1>1, <1>2, PTL DEF Spec

-----------------------------------------------------------------------------
(* The theorems *)

\* (users.service.ts, auth.service.ts, both session services) Whatever requests
\* are served at once, wherever they fail and whatever is deleted under them,
\* the tables stay well formed and no row or request refers to a row that was
\* never written.
THEOREM TypeCorrect == Spec => []TypeOK
<1>1. IInv => TypeOK
  BY DEF IInv
<1> QED BY <1>1, AlwaysSound, PTL

\* (email-auth.service.ts:104, telegram-auth.service.ts:101) However many
\* requests present a session at once, it gives tokens once at most.
THEOREM SessionsSpentOnce == Spec => []SpentOnce
<1>1. IInv => SpentOnce
  BY DEF IInv
<1> QED BY <1>1, AlwaysSound, PTL

\* (email-auth.service.ts:31) A session never takes as many wrong guesses as
\* the limit and the number of requests at a time together.
THEOREM GuessesBounded == Spec => []AttemptsBounded
<1>1. ASSUME IInv, NEW s \in DOMAIN codes
      PROVE  codes[s].attempts < MaxAttempts + Cardinality(Handlers)
  <2>1. codes[s] \in Code
    BY <1>1 DEF IInv, TypeOK
  <2>2. codes[s].attempts \in Nat
    BY <2>1 DEF Code
  <2>3. codes[s].attempts + Cardinality(Guessing(s)) < MaxAttempts + Cardinality(Handlers)
    BY <1>1 DEF IInv, GuessesCovered
  <2>4. Cardinality(Guessing(s)) \in Nat /\ MaxAttempts + Cardinality(Handlers) \in Nat
    BY Guessers, BoundAssumption
  <2> DEFINE guesses == Cardinality(Guessing(s))
             bound == MaxAttempts + Cardinality(Handlers)
  <2> HIDE DEF guesses, bound
  <2>5. codes[s].attempts + guesses < bound /\ guesses \in Nat /\ bound \in Nat
    BY <2>3, <2>4 DEF guesses, bound
  <2>6. codes[s].attempts < bound
    BY <2>2, <2>5
  <2> QED BY <2>6 DEF bound
<1>2. IInv => AttemptsBounded
  BY <1>1 DEF AttemptsBounded
<1> QED BY <1>2, AlwaysSound, PTL

-----------------------------------------------------------------------------
(* What has ended stays ended *)

LEMMA Appended ==
    ASSUME NEW S, NEW s \in Seq(S), NEW e
    PROVE  /\ DOMAIN Append(s, e) = DOMAIN s \cup {Len(s) + 1}
           /\ Len(s) + 1 \notin DOMAIN s
           /\ \A i \in DOMAIN s : Append(s, e)[i] = s[i]
           /\ Append(s, e)[Len(s) + 1] = e
<1>1. s \in Seq(S \cup {e}) /\ e \in S \cup {e}
  OBVIOUS
<1>2. /\ DOMAIN Append(s, e) = 1..(Len(s) + 1)
      /\ DOMAIN s = 1..Len(s) /\ Len(s) \in Nat
      /\ \A i \in DOMAIN s : Append(s, e)[i] = s[i]
      /\ Append(s, e)[Len(s) + 1] = e
  BY <1>1, AppendTyped
<1> QED BY <1>2

\* An account whose deletion no other request about it overlapped.
Dead(u) == u \in DOMAIN users /\ users[u].state = "deleted" /\ u \notin crossed

\* The history variables grow by what is the case.
Histories ==
    /\ crossed \subseteq crossed' /\ Crossing' \subseteq crossed'
    /\ contended \subseteq contended' /\ Contending' \subseteq contended'

\* h is now at stage with r in hand, everybody else where they were.
Steps(h, stage, r) == pc' = [pc EXCEPT ![h] = stage] /\ req' = [req EXCEPT ![h] = r]

\* Nothing is written about an account other than w, except a new one, that is
\* live or opens anything.
KeepsUsers(w) ==
    \A u \in DOMAIN users' :
        u = w \/ users'[u].state = "live" \/ (u \in DOMAIN users /\ users'[u] = users[u])

KeepsTokens(w) ==
    \A t \in DOMAIN tokens' :
        \/ tokens'[t].user = w \/ tokens'[t].state # "live"
        \/ /\ t \in DOMAIN tokens
           /\ tokens[t].user = tokens'[t].user /\ tokens[t].state = "live"

KeepsCodes(w) ==
    \A s \in DOMAIN codes' :
        \/ codes'[s].user = w \/ codes'[s].state # "open"
        \/ /\ s \in DOMAIN codes
           /\ codes[s].user = codes'[s].user /\ codes[s].state = "open"

KeepsLinks(w) ==
    \A n \in DOMAIN links' :
        \/ links'[n].user = w \/ links'[n].state # "open"
        \/ /\ n \in DOMAIN links
           /\ links[n].user = links'[n].user /\ links[n].state = "open"

KeepsGroups(w) ==
    \A g \in DOMAIN groups' :
        \/ groups'[g].user = w
        \/ /\ g \in DOMAIN groups /\ groups[g].user = groups'[g].user
           /\ groups[g].state = "final" => groups'[g].state = "final"
           /\ groups[g].contact = "wiped" => groups'[g].contact = "wiped"

KeepsRest(w) ==
    KeepsUsers(w) /\ KeepsTokens(w) /\ KeepsCodes(w) /\ KeepsLinks(w) /\ KeepsGroups(w)

\* h turns to nobody who is gone.
Knows(h, r) == r.user \in {0, req[h].user} \/ ~Dead(r.user)

DeletesNone ==
    \A u \in DOMAIN users' :
        users'[u].state = "deleted" => u \in DOMAIN users /\ users[u].state = "deleted"

FinalKept(h, w, stage, r) ==
    stage = "erase" =>
        \/ pc[h] = "erase" /\ r.user = req[h].user /\ w = 0
        \/ \A g \in DOMAIN groups' : groups'[g].user = r.user => groups'[g].state = "final"

FadeTokens ==
    /\ DOMAIN tokens' = DOMAIN tokens
    /\ \A t \in DOMAIN tokens :
          /\ tokens'[t].login = tokens[t].login
          /\ tokens'[t].state = "live" => tokens[t].state = "live"

ChainKept(h, stage, r) ==
    r.token # 0 =>
        /\ stage \in {"rotate", "logout", "issue", "persist"}
        /\ r.token \in DOMAIN tokens
        /\ stage = "rotate" =>
              (pc[h] = "rotate" /\ r.token = req[h].token) \/ tokens[r.token].state = "live"
        /\ stage \in {"issue", "persist"} =>
              /\ r.token = req[h].token
              /\ \/ pc[h] \in {"issue", "persist"}
                 \/ pc[h] = "rotate" /\ tokens'[r.token].state # "live"

LEMMA Numbered ==
    ASSUME IInv
    PROVE  /\ DOMAIN users \subseteq Nat \ {0} /\ DOMAIN tokens \subseteq Nat \ {0}
           /\ DOMAIN codes \subseteq Nat \ {0} /\ DOMAIN links \subseteq Nat \ {0}
BY SMTT(30) DEF IInv, TypeOK

LEMMA Stepped ==
    ASSUME IInv, NEW h \in Handlers, NEW stage, NEW r, Steps(h, stage, r)
    PROVE  /\ pc'[h] = stage /\ req'[h] = r
           /\ \A k \in Handlers \ {h} : pc'[k] = pc[k] /\ req'[k] = req[k]
BY DEF IInv, TypeOK, Steps

LEMMA DeadAreBlank ==
    ASSUME EndedInv, NEW u, Dead(u)
    PROVE  Blank(u) /\ \A h \in Handlers : req[h].user # u
BY DEF EndedInv, EndedStaysEnded, DeletedStaysBlank, NobodyReturns, Dead

LEMMA BlankStays ==
    ASSUME IInv, EndedInv, Histories, NEW h \in Handlers, NEW stage, NEW r,
           Steps(h, stage, r), NEW w \in {0, req[h].user}, KeepsRest(w), Knows(h, r),
           NEW u \in DOMAIN users', users'[u].state = "deleted", u \notin crossed', Dead(u)
    PROVE  Blank(u)' /\ \A k \in Handlers : req'[k].user # u
<1>1. Blank(u) /\ \A k \in Handlers : req[k].user # u
  BY DeadAreBlank
<1>2. u # w
  BY <1>1, Numbered DEF Dead
<1>3. \A k \in Handlers : req'[k].user # u
  <2>1. r.user # u
    BY <1>1, Numbered DEF Knows, Dead
  <2> QED BY <1>1, <2>1, Stepped
<1>4. users'[u] = users[u]
  BY <1>2 DEF KeepsRest, KeepsUsers
<1>5. /\ \A t \in DOMAIN tokens' : tokens'[t].user = u => tokens'[t].state # "live"
      /\ \A s \in DOMAIN codes' : codes'[s].user = u => codes'[s].state # "open"
      /\ \A n \in DOMAIN links' : links'[n].user = u => links'[n].state # "open"
  BY <1>1, <1>2 DEF Blank, KeepsRest, KeepsTokens, KeepsCodes, KeepsLinks
<1>6. \A g \in DOMAIN groups' : groups'[g].user = u =>
          groups'[g].state = "final" /\ groups'[g].contact = "wiped"
  BY <1>1, <1>2 DEF Blank, KeepsRest, KeepsGroups
<1> QED BY <1>1, <1>3, <1>4, <1>5, <1>6 DEF Blank

LEMMA FinalStays ==
    ASSUME IInv, EndedInv, Histories, NEW h \in Handlers, NEW stage, NEW r,
           Steps(h, stage, r), NEW w \in {0, req[h].user}, KeepsGroups(w),
           FinalKept(h, w, stage, r)
    PROVE  \A k \in Handlers : FinalAt(pc[k], req[k])'
<1> SUFFICES ASSUME NEW k \in Handlers, pc'[k] = "erase", req'[k].user \notin crossed',
                    NEW g \in DOMAIN groups', groups'[g].user = req'[k].user
             PROVE  groups'[g].state = "final"
  BY DEF FinalAt
<1>1. req'[k].user \notin crossed
  BY DEF Histories
<1>2. CASE k # h
  <2>1. pc[k] = "erase" /\ req'[k].user = req[k].user /\ FinalAt(pc[k], req[k])
    BY <1>2, Stepped DEF EndedInv
  <2>2. req[k].user # 0
    BY <2>1, HandlerFacts DEF InHand
  <2>3. req[h].user # req[k].user
    <3>1. req[h].user = req[k].user => req[k].user \in Crossing
      BY <1>2, <2>1 DEF Crossing
    <3> QED BY <1>1, <2>1, <3>1 DEF EndedInv
  <2>4. g \in DOMAIN groups /\ groups[g].user = req[k].user
        /\ (groups[g].state = "final" => groups'[g].state = "final")
    BY <2>1, <2>2, <2>3 DEF KeepsGroups
  <2> QED BY <1>1, <2>1, <2>4 DEF FinalAt
<1>3. CASE k = h
  <2>1. stage = "erase" /\ req'[h] = r
    BY <1>3, Stepped
  <2>2. CASE pc[h] = "erase" /\ r.user = req[h].user /\ w = 0
    <3>1. req[h].user # 0 /\ FinalAt(pc[h], req[h])
      BY <2>2, HandlerFacts DEF InHand, EndedInv
    <3>2. g \in DOMAIN groups /\ groups[g].user = req[h].user
          /\ (groups[g].state = "final" => groups'[g].state = "final")
      BY <1>3, <2>1, <2>2, <3>1 DEF KeepsGroups
    <3> QED BY <1>1, <1>3, <2>1, <2>2, <3>1, <3>2 DEF FinalAt
  <2> QED BY <1>3, <2>1, <2>2 DEF FinalKept
<1> QED BY <1>2, <1>3

LEMMA ChainsStay ==
    ASSUME IInv, EndedInv, Histories, NEW h \in Handlers, NEW stage, NEW r,
           Steps(h, stage, r), FadeTokens, ChainKept(h, stage, r)
    PROVE  OneTokenPerLogin' /\ \A k \in Handlers : ChainAt(pc[k], req[k])'
<1>1. OneTokenPerLogin /\ \A k \in Handlers : ChainAt(pc[k], req[k])
  BY DEF EndedInv, EndedStaysEnded
<1>2. OneTokenPerLogin'
  BY <1>1 DEF OneTokenPerLogin, FadeTokens, Histories
<1>3. ASSUME NEW k \in Handlers \ {h}
      PROVE  ChainAt(pc[k], req[k])'
  <2>1. pc'[k] = pc[k] /\ req'[k] = req[k] /\ ChainAt(pc[k], req[k])
    BY <1>1, Stepped
  <2>2. req[k].token = 0 \/ req[k].token \in DOMAIN tokens
    BY HandlerFacts DEF RefersToRows, RefTo
  <2> QED BY <2>1, <2>2 DEF ChainAt, FadeTokens, Histories
<1>4. ChainAt(pc[h], req[h])'
  <2> SUFFICES ASSUME r.token # 0
               PROVE  ChainAt(stage, r)'
    BY Stepped DEF ChainAt
  <2>1. ChainAt(pc[h], req[h])
    BY <1>1
  <2>2. /\ stage \in {"rotate", "logout", "issue", "persist"} /\ r.token \in DOMAIN tokens
        /\ tokens'[r.token].login = tokens[r.token].login
    BY DEF ChainKept, FadeTokens
  <2>3. CASE stage = "rotate" /\ tokens[r.token].state = "live"
    <3>1. \A t \in DOMAIN tokens : /\ tokens[t].state = "live" /\ t # r.token
                                   /\ tokens[t].login = tokens[r.token].login
                                   => tokens[t].login \in contended
      BY <1>1, <2>2, <2>3 DEF OneTokenPerLogin
    <3> QED BY <2>2, <2>3, <3>1 DEF ChainAt, FadeTokens, Histories
  <2>4. CASE stage = "rotate" /\ pc[h] = "rotate" /\ r.token = req[h].token
    BY <2>1, <2>2, <2>4 DEF ChainAt, FadeTokens, Histories
  <2>5. CASE stage = "logout"
    BY <2>5 DEF ChainAt
  <2>6. CASE stage \in {"issue", "persist"} /\ r.token = req[h].token /\ pc[h] \in {"issue", "persist"}
    BY <2>1, <2>2, <2>6 DEF ChainAt, FadeTokens, Histories
  <2>7. CASE /\ stage \in {"issue", "persist"} /\ r.token = req[h].token /\ pc[h] = "rotate"
             /\ tokens'[r.token].state # "live"
    BY <2>1, <2>2, <2>7 DEF ChainAt, FadeTokens, Histories
  <2> QED BY <2>2, <2>3, <2>4, <2>5, <2>6, <2>7 DEF ChainKept
<1> QED BY <1>2, <1>3, <1>4

LEMMA StepKeepsEnded ==
    ASSUME IInv, EndedInv, Histories, NEW h \in Handlers, NEW stage, NEW r,
           Steps(h, stage, r), NEW w \in {0, req[h].user}, KeepsRest(w), DeletesNone,
           Knows(h, r), FinalKept(h, w, stage, r), FadeTokens, ChainKept(h, stage, r)
    PROVE  EndedInv'
<1>1. OneTokenPerLogin' /\ \A k \in Handlers : ChainAt(pc[k], req[k])'
  BY ChainsStay
<1>2. \A k \in Handlers : FinalAt(pc[k], req[k])'
  BY FinalStays DEF KeepsRest
<1>3. ASSUME NEW u \in DOMAIN users', users'[u].state = "deleted", u \notin crossed'
      PROVE  Blank(u)' /\ \A k \in Handlers : req'[k].user # u
  <2>1. Dead(u)
    BY <1>3 DEF DeletesNone, Histories, Dead
  <2> QED BY <1>3, <2>1, BlankStays
<1>4. DeletedStaysBlank' /\ NobodyReturns'
  BY <1>3 DEF DeletedStaysBlank, NobodyReturns
<1> QED BY <1>1, <1>2, <1>4 DEF EndedInv, EndedStaysEnded, Histories

LEMMA QuietKeepsEnded ==
    ASSUME IInv, EndedInv, Histories, NEW h \in Handlers, NEW stage, NEW r,
           Steps(h, stage, r), UNCHANGED rows, Knows(h, r), FinalKept(h, 0, stage, r),
           ChainKept(h, stage, r)
    PROVE  EndedInv'
<1>1. KeepsRest(0) /\ DeletesNone /\ FadeTokens
  BY DEF KeepsRest, KeepsUsers, KeepsTokens, KeepsCodes, KeepsLinks, KeepsGroups, DeletesNone,
         FadeTokens, rows
<1> QED BY <1>1, StepKeepsEnded
LEMMA GoSteps ==
    ASSUME IInv, NEW h \in Handlers, NEW stage
    PROVE  /\ \A r : Go(h, stage, r) => Steps(h, stage, r)
           /\ Stay(h, stage) => Steps(h, stage, req[h])
           /\ Leave(h) => Steps(h, "idle", NoReq)
BY DEF Go, Goto, Stay, Leave, Steps, IInv, TypeOK

\* Who holds a token is rotating it or logging out.
LEMMA TokensInHand ==
    ASSUME EndedInv, NEW h \in Handlers, req[h].token # 0
    PROVE  pc[h] \in {"rotate", "logout", "issue", "persist"}
BY DEF EndedInv, ChainAt

LEMMA QuietGo ==
    ASSUME IInv, EndedInv, Histories, NEW h \in Handlers, NEW stage, NEW r,
           Go(h, stage, r), UNCHANGED rows, Knows(h, r), stage # "erase", r.token = 0
    PROVE  EndedInv'
<1>1. Steps(h, stage, r)
  BY GoSteps
<1>2. FinalKept(h, 0, stage, r) /\ ChainKept(h, stage, r)
  BY DEF FinalKept, ChainKept
<1> QED BY <1>1, <1>2, QuietKeepsEnded

LEMMA QuietStay ==
    ASSUME IInv, EndedInv, Histories, NEW h \in Handlers, NEW stage,
           Stay(h, stage), UNCHANGED rows, stage # "erase",
           pc[h] \notin {"rotate", "logout", "issue", "persist"}
    PROVE  EndedInv'
<1>1. Steps(h, stage, req[h])
  BY GoSteps
<1>2. req[h].token = 0
  BY TokensInHand
<1>3. FinalKept(h, 0, stage, req[h]) /\ ChainKept(h, stage, req[h]) /\ Knows(h, req[h])
  BY <1>2 DEF FinalKept, ChainKept, Knows
<1> QED BY <1>1, <1>3, QuietKeepsEnded

LEMMA NobodyInHand ==
    ASSUME NEW h, NEW w
    PROVE  Knows(h, NoReq) /\ FinalKept(h, w, "idle", NoReq) /\ ChainKept(h, "idle", NoReq)
BY DEF Knows, FinalKept, ChainKept, NoReq

LEMMA QuietLeave ==
    ASSUME IInv, EndedInv, Histories, NEW h \in Handlers, Leave(h), UNCHANGED rows
    PROVE  EndedInv'
<1>1. Steps(h, "idle", NoReq)
  BY GoSteps
<1> QED BY <1>1, NobodyInHand, QuietKeepsEnded

\* An account that is live, or that opens anything, is not dead.
LEMMA NotDead ==
    ASSUME EndedInv
    PROVE  /\ \A u : users[u].state = "live" => ~Dead(u)
           /\ \A t \in DOMAIN tokens : tokens[t].state = "live" => ~Dead(tokens[t].user)
           /\ \A s \in DOMAIN codes : codes[s].state = "open" => ~Dead(codes[s].user)
           /\ \A n \in DOMAIN links : links[n].state = "open" => ~Dead(links[n].user)
<1>1. ASSUME NEW u, Dead(u)
      PROVE  users[u].state = "deleted" /\ Blank(u)
  BY <1>1, DeadAreBlank DEF Dead
<1> QED BY <1>1 DEF Blank

LEMMA LoginKeepsEnded ==
    ASSUME IInv, EndedInv, Histories, NEW h \in Handlers,
           \/ \E t \in Telegrams : LoginWithTelegram(h, t)
           \/ \E n \in DOMAIN links : (\E t \in Telegrams : Confirm(h, n, t)) \/ Poll(h, n)
           \/ \E a \in Addresses : CreateSession(h, a)
           \/ \E s \in DOMAIN codes : Verify(h, s)
           \/ \E t \in DOMAIN tokens : RefreshTokens(h, t) \/ RevokeRefreshToken(h, t)
    PROVE  EndedInv'
<1>1. CASE \E t \in Telegrams : LoginWithTelegram(h, t)
  <2>1. PICK t \in Telegrams : LoginWithTelegram(h, t)
    BY <1>1
  <2> DEFINE r == [NoReq EXCEPT !.telegram = t]
  <2>2. Go(h, "find", r) /\ UNCHANGED rows /\ r.user = 0 /\ r.token = 0
    BY <2>1 DEF LoginWithTelegram, Accept, NoReq
  <2> HIDE DEF r
  <2> QED BY <2>2, QuietGo DEF Knows
<1>2. CASE \E n \in DOMAIN links, t \in Telegrams : Confirm(h, n, t)
  <2>1. PICK n \in DOMAIN links, t \in Telegrams : Confirm(h, n, t)
    BY <1>2
  <2> DEFINE r == [NoReq EXCEPT !.link = n, !.telegram = t]
  <2>2. Go(h, "find", r) /\ UNCHANGED rows /\ r.user = 0 /\ r.token = 0
    BY <2>1 DEF Confirm, Accept, NoReq
  <2> HIDE DEF r
  <2> QED BY <2>2, QuietGo DEF Knows
<1>3. CASE \E n \in DOMAIN links : Poll(h, n)
  <2>1. PICK n \in DOMAIN links : Poll(h, n)
    BY <1>3
  <2> DEFINE r == [NoReq EXCEPT !.link = n, !.user = links[n].user]
  <2>2. Go(h, "claimLink", r) /\ UNCHANGED rows /\ r.user = links[n].user /\ r.token = 0
    BY <2>1 DEF Poll, Accept, NoReq
  <2>3. ~Dead(links[n].user)
    BY <2>1, NotDead DEF Poll, Usable
  <2> HIDE DEF r
  <2>4. Knows(h, r)
    BY <2>2, <2>3 DEF Knows
  <2> QED BY <2>2, <2>4, QuietGo
<1>4. CASE \E a \in Addresses : CreateSession(h, a)
  <2>1. PICK a \in Addresses : CreateSession(h, a)
    BY <1>4
  <2> DEFINE r == [NoReq EXCEPT !.email = a]
  <2>2. Go(h, "store", r) /\ UNCHANGED rows /\ r.user = 0 /\ r.token = 0
    BY <2>1 DEF CreateSession, Accept, NoReq
  <2> HIDE DEF r
  <2> QED BY <2>2, QuietGo DEF Knows
<1>5. CASE \E s \in DOMAIN codes : Verify(h, s)
  <2>1. PICK s \in DOMAIN codes : Verify(h, s)
    BY <1>5
  <2> DEFINE r == [NoReq EXCEPT !.code = s, !.goal = "login"]
  <2>2. Go(h, "read", r) /\ UNCHANGED rows /\ r.user = 0 /\ r.token = 0
    BY <2>1 DEF Verify, Accept, NoReq
  <2> HIDE DEF r
  <2> QED BY <2>2, QuietGo DEF Knows
<1>6. CASE \E t \in DOMAIN tokens : RefreshTokens(h, t)
  <2>1. PICK t \in DOMAIN tokens : RefreshTokens(h, t)
    BY <1>6
  <2> DEFINE r == [NoReq EXCEPT !.user = tokens[t].user, !.token = t]
  <2>2. /\ Go(h, "rotate", r) /\ UNCHANGED rows /\ r.user = tokens[t].user /\ r.token = t
        /\ tokens[t].state = "live"
    BY <2>1 DEF RefreshTokens, Accept, NoReq
  <2>3. ~Dead(tokens[t].user)
    BY <2>2, NotDead
  <2> HIDE DEF r
  <2>4. Knows(h, r) /\ FinalKept(h, 0, "rotate", r) /\ ChainKept(h, "rotate", r)
    BY <2>2, <2>3 DEF Knows, FinalKept, ChainKept
  <2>5. Steps(h, "rotate", r)
    BY <2>2, GoSteps
  <2> QED BY <2>2, <2>4, <2>5, QuietKeepsEnded
<1>7. CASE \E t \in DOMAIN tokens : RevokeRefreshToken(h, t)
  <2>1. PICK t \in DOMAIN tokens : RevokeRefreshToken(h, t)
    BY <1>7
  <2> DEFINE r == [NoReq EXCEPT !.token = t]
  <2>2. Go(h, "logout", r) /\ UNCHANGED rows /\ r.user = 0 /\ r.token = t
    BY <2>1 DEF RevokeRefreshToken, Accept, NoReq
  <2> HIDE DEF r
  <2>4. Knows(h, r) /\ FinalKept(h, 0, "logout", r) /\ ChainKept(h, "logout", r)
    BY <2>2 DEF Knows, FinalKept, ChainKept
  <2>5. Steps(h, "logout", r)
    BY <2>2, GoSteps
  <2> QED BY <2>2, <2>4, <2>5, QuietKeepsEnded
<1> QED BY <1>1, <1>2, <1>3, <1>4, <1>5, <1>6, <1>7

LEMMA AcceptFromKeepsEnded ==
    ASSUME IInv, EndedInv, Histories, NEW h \in Handlers, NEW u \in DOMAIN users,
           NEW stage, stage # "erase", NEW r \in Request, r.token = 0,
           AcceptFrom(h, u, stage, r)
    PROVE  EndedInv'
<1> DEFINE q == [r EXCEPT !.user = u]
<1>1. Go(h, stage, q) /\ UNCHANGED rows /\ q.user = u /\ q.token = 0 /\ users[u].state = "live"
  BY DEF AcceptFrom, Accept, Authenticated, Request
<1> HIDE DEF q
<1>2. Knows(h, q)
  BY <1>1, NotDead DEF Knows
<1> QED BY <1>1, <1>2, QuietGo

LEMMA UseKeepsEnded ==
    ASSUME IInv, EndedInv, Histories, NEW h \in Handlers, Use(h)
    PROVE  EndedInv'
<1>1. PICK u \in DOMAIN users :
          \/ \E a \in Addresses : CreateLinkSession(h, u, a)
          \/ \E s \in DOMAIN codes : VerifyLink(h, u, s)
          \/ CreateFromCart(h, u)
          \/ UpdateProfile(h, u)
          \/ DeleteAccount(h, u)
  BY DEF Use
<1>2. NoReq \in Request /\ NoReq.token = 0
  BY DEF NoReq, Request
<1>3. CASE \E a \in Addresses : CreateLinkSession(h, u, a)
  <2>1. PICK a \in Addresses : AcceptFrom(h, u, "address", [NoReq EXCEPT !.email = a])
    BY <1>3 DEF CreateLinkSession
  <2>2. [NoReq EXCEPT !.email = a] \in Request /\ [NoReq EXCEPT !.email = a].token = 0
    BY DEF NoReq, Request
  <2> QED BY <2>1, <2>2, AcceptFromKeepsEnded
<1>4. CASE \E s \in DOMAIN codes : VerifyLink(h, u, s)
  <2>1. PICK s \in DOMAIN codes : AcceptFrom(h, u, "read", [NoReq EXCEPT !.code = s, !.goal = "link"])
    BY <1>4 DEF VerifyLink
  <2>2. /\ [NoReq EXCEPT !.code = s, !.goal = "link"] \in Request
        /\ [NoReq EXCEPT !.code = s, !.goal = "link"].token = 0
    BY Numbered DEF NoReq, Request
  <2> QED BY <2>1, <2>2, AcceptFromKeepsEnded
<1>5. CASE CreateFromCart(h, u)
  BY <1>2, <1>5, AcceptFromKeepsEnded DEF CreateFromCart
<1>6. CASE UpdateProfile(h, u)
  BY <1>2, <1>6, AcceptFromKeepsEnded DEF UpdateProfile
<1>7. CASE DeleteAccount(h, u)
  BY <1>2, <1>7, AcceptFromKeepsEnded DEF DeleteAccount
<1> QED BY <1>1, <1>3, <1>4, <1>5, <1>6, <1>7
\* A request that holds no token turns to an account that is not dead.
LEMMA TurnTo ==
    ASSUME IInv, EndedInv, Histories, NEW h \in Handlers, NEW stage, stage # "erase",
           pc[h] \notin {"rotate", "logout", "issue", "persist"},
           NEW u, u \in {0, req[h].user} \/ ~Dead(u),
           Go(h, stage, [req[h] EXCEPT !.user = u]), UNCHANGED rows
    PROVE  EndedInv'
<1> DEFINE r == [req[h] EXCEPT !.user = u]
<1>1. req[h] \in Request /\ req[h].token = 0
  BY HandlerFacts, TokensInHand
<1>2. r.user = u /\ r.token = 0 /\ Go(h, stage, r)
  BY <1>1 DEF Request
<1> HIDE DEF r
<1>3. Knows(h, r)
  BY <1>2 DEF Knows
<1> QED BY <1>2, <1>3, QuietGo

LEMMA FoundKeepsEnded ==
    ASSUME IInv, EndedInv, Histories, NEW h \in Handlers, Find(h) \/ Winner(h)
    PROVE  EndedInv'
<1>1. AfterTelegram(h) # "erase" /\ pc[h] \notin {"rotate", "logout", "issue", "persist"} /\ UNCHANGED rows
  BY DEF AfterTelegram, Find, Winner
<1>2. CASE \E u \in FindByTelegram(req[h].telegram) :
              Go(h, AfterTelegram(h), [req[h] EXCEPT !.user = u])
  <2>1. PICK u \in FindByTelegram(req[h].telegram) :
            Go(h, AfterTelegram(h), [req[h] EXCEPT !.user = u])
    BY <1>2
  <2>2. ~Dead(u)
    BY NotDead DEF FindByTelegram
  <2> QED BY <1>1, <2>1, <2>2, TurnTo
<1>3. CASE Stay(h, "create")
  BY <1>1, <1>3, QuietStay
<1>4. CASE Leave(h)
  BY <1>1, <1>4, QuietLeave
<1> QED BY <1>2, <1>3, <1>4 DEF Find, Winner

LEMMA IssueTokensKeepsEnded ==
    ASSUME IInv, EndedInv, Histories, NEW h \in Handlers, IssueTokens(h)
    PROVE  EndedInv'
<1>1. pc[h] = "issue" /\ Steps(h, "persist", req[h]) /\ UNCHANGED rows
  BY GoSteps DEF IssueTokens
<1>2. req[h].token = 0 \/ req[h].token \in DOMAIN tokens
  BY HandlerFacts DEF RefersToRows, RefTo
<1>3. /\ Knows(h, req[h]) /\ FinalKept(h, 0, "persist", req[h])
      /\ ChainKept(h, "persist", req[h])
  BY <1>1, <1>2 DEF Knows, FinalKept, ChainKept
<1> QED BY <1>1, <1>3, QuietKeepsEnded

LEMMA ReadCodeKeepsEnded ==
    ASSUME IInv, EndedInv, Histories, NEW h \in Handlers, ReadCode(h)
    PROVE  EndedInv'
<1> DEFINE s == req[h].code
           u == IF req[h].goal = "login" THEN codes[s].user ELSE req[h].user
<1>1. pc[h] = "read" /\ UNCHANGED rows /\ s \in DOMAIN codes
  BY HandlerFacts DEF ReadCode, InHand, RefersToRows, RefTo
<1>2. CASE Leave(h)
  BY <1>1, <1>2, QuietLeave
<1>3. CASE Stay(h, "wrong")
  BY <1>1, <1>3, QuietStay
<1>4. CASE Usable(codes[s]) /\ Go(h, "claim", [req[h] EXCEPT !.user = u])
  <2>1. ~Dead(codes[s].user)
    BY <1>1, <1>4, NotDead DEF Usable
  <2>2. u \in {0, req[h].user} \/ ~Dead(u)
    BY <2>1
  <2>3. Go(h, "claim", [req[h] EXCEPT !.user = u])
    BY <1>4
  <2> HIDE DEF u
  <2> QED BY <1>1, <2>2, <2>3, TurnTo
<1>5. /\ [req[h] EXCEPT !.user = IF req[h].goal = "login" THEN codes[s].user ELSE @]
            = [req[h] EXCEPT !.user = u]
  BY HandlerFacts DEF Request
<1> QED BY <1>2, <1>3, <1>4, <1>5 DEF ReadCode

LEMMA ResolveUserKeepsEnded ==
    ASSUME IInv, EndedInv, Histories, NEW h \in Handlers, ResolveUser(h)
    PROVE  EndedInv'
<1>1. pc[h] = "resolve" /\ UNCHANGED rows
  BY DEF ResolveUser
<1>2. CASE Stay(h, "issue")
  BY <1>1, <1>2, QuietStay
<1>3. CASE Stay(h, "register")
  BY <1>1, <1>3, QuietStay
<1>4. CASE \E u \in FindByEmail(codes[req[h].code].email) :
              Go(h, "issue", [req[h] EXCEPT !.user = u])
  <2>1. PICK u \in FindByEmail(codes[req[h].code].email) :
            Go(h, "issue", [req[h] EXCEPT !.user = u])
    BY <1>4
  <2>2. ~Dead(u)
    BY NotDead DEF FindByEmail
  <2> QED BY <1>1, <2>1, <2>2, TurnTo
<1> QED BY <1>2, <1>3, <1>4 DEF ResolveUser

LEMMA ReadAccountKeepsEnded ==
    ASSUME IInv, EndedInv, Histories, NEW h \in Handlers, ReadAccount(h)
    PROVE  EndedInv'
<1> DEFINE r == [req[h] EXCEPT !.email = users[req[h].user].email]
<1>1. /\ pc[h] = "account" /\ UNCHANGED rows /\ req[h].token = 0 /\ req[h] \in Request
      /\ Leave(h) \/ Go(h, "count", r)
  BY HandlerFacts, TokensInHand DEF ReadAccount
<1>2. r.user = req[h].user /\ r.token = 0
  BY <1>1 DEF Request
<1> HIDE DEF r
<1>3. Knows(h, r)
  BY <1>2 DEF Knows
<1> QED BY <1>1, <1>2, <1>3, QuietGo, QuietLeave

\* CountActive sees every order final before it goes on to erase.
LEMMA CountActiveKeepsEnded ==
    ASSUME IInv, EndedInv, Histories, NEW h \in Handlers, CountActive(h)
    PROVE  EndedInv'
<1>1. pc[h] = "count" /\ UNCHANGED rows /\ req[h].token = 0
  BY TokensInHand DEF CountActive
<1>2. CASE Leave(h)
  BY <1>1, <1>2, QuietLeave
<1>3. CASE /\ Stay(h, "erase")
           /\ \A g \in DOMAIN groups : groups[g].user = req[h].user => groups[g].state # "active"
  <2>1. \A g \in DOMAIN groups : groups[g].state \in {"active", "final"}
    <3>1. \A g \in DOMAIN groups : groups[g] \in Group
      BY DEF IInv, TypeOK
    <3> QED BY <3>1 DEF Group
  <2>2. Steps(h, "erase", req[h])
    BY <1>3, GoSteps
  <2>3. /\ Knows(h, req[h]) /\ FinalKept(h, 0, "erase", req[h])
        /\ ChainKept(h, "erase", req[h])
    BY <1>1, <1>3, <2>1 DEF Knows, FinalKept, ChainKept, rows
  <2> QED BY <1>1, <2>2, <2>3, QuietKeepsEnded
<1> QED BY <1>2, <1>3 DEF CountActive

LEMMA ReadsKeepEnded ==
    ASSUME IInv, EndedInv, Histories, NEW h \in Handlers,
           CheckAddress(h) \/ Send(h) \/ ReadProfile(h) \/ Fail(h)
    PROVE  EndedInv'
<1>1. CASE CheckAddress(h)
  BY <1>1, QuietStay, QuietLeave DEF CheckAddress
<1>2. CASE Send(h)
  BY <1>2, QuietStay, QuietLeave DEF Send
<1>3. CASE ReadProfile(h)
  BY <1>3, QuietStay, QuietLeave DEF ReadProfile
<1>4. CASE Fail(h)
  BY <1>4, QuietLeave DEF Fail
<1> QED BY <1>1, <1>2, <1>3, <1>4
-----------------------------------------------------------------------------
(* What has ended stays ended: the writes *)

LEMMA WriteKeepsEnded ==
    ASSUME IInv, EndedInv, Histories, NEW h \in Handlers, NEW stage, NEW r,
           Steps(h, stage, r), NEW w \in {0, req[h].user}, KeepsRest(w), DeletesNone,
           FadeTokens, Knows(h, r), stage # "erase", r.token = 0
    PROVE  EndedInv'
<1>1. FinalKept(h, w, stage, r) /\ ChainKept(h, stage, r)
  BY DEF FinalKept, ChainKept
<1> QED BY <1>1, StepKeepsEnded

\* ... and h goes on with what it has, or leaves.
LEMMA StayAfterWrite ==
    ASSUME IInv, EndedInv, Histories, NEW h \in Handlers, NEW stage, NEW w \in {0, req[h].user},
           Stay(h, stage) \/ Leave(h), KeepsRest(w), DeletesNone, FadeTokens, stage # "erase",
           pc[h] \notin {"rotate", "logout", "issue", "persist"}
    PROVE  EndedInv'
<1>1. CASE Stay(h, stage)
  <2>1. Steps(h, stage, req[h]) /\ Knows(h, req[h]) /\ req[h].token = 0
    BY <1>1, GoSteps, TokensInHand DEF Knows
  <2> QED BY <2>1, WriteKeepsEnded
<1>2. CASE Leave(h)
  <2>1. Steps(h, "idle", NoReq) /\ Knows(h, NoReq) /\ NoReq.token = 0
    BY <1>2, GoSteps, NobodyInHand DEF NoReq
  <2> QED BY <2>1, WriteKeepsEnded
<1> QED BY <1>1, <1>2

\* Nobody moves.
LEMMA StillKeepsEnded ==
    ASSUME IInv, EndedInv, Histories, UNCHANGED <<pc, req>>, KeepsRest(0), DeletesNone, FadeTokens
    PROVE  EndedInv'
<1>1. PICK h \in Handlers : TRUE
  BY HandlersAssumption
<1>2. Steps(h, pc[h], req[h])
  BY DEF Steps, IInv, TypeOK
<1>3. req[h].token = 0 \/ req[h].token \in DOMAIN tokens
  BY HandlerFacts DEF RefersToRows, RefTo
<1>4. Knows(h, req[h]) /\ FinalKept(h, 0, pc[h], req[h])
  BY DEF Knows, FinalKept
<1>5. ChainKept(h, pc[h], req[h])
  BY <1>3, TokensInHand DEF ChainKept
<1> QED BY <1>2, <1>4, <1>5, StepKeepsEnded

\* What becomes of the tables.
LEMMA UserAdded ==
    ASSUME IInv, NEW a, NEW t, users' = Append(users, NewUser(a, t)),
           UNCHANGED <<groups, tokens, codes, links>>
    PROVE  KeepsRest(0) /\ DeletesNone /\ FadeTokens /\ ~Dead(Len(users) + 1)
<1>1. users \in Seq(User)
  BY DEF IInv, TypeOK
<1>2. /\ DOMAIN users' = DOMAIN users \cup {Len(users) + 1} /\ Len(users) + 1 \notin DOMAIN users
      /\ \A u \in DOMAIN users : users'[u] = users[u]
      /\ users'[Len(users) + 1] = NewUser(a, t)
  BY <1>1, Appended
<1>3. NewUser(a, t).state = "live"
  BY DEF NewUser
<1>4. KeepsUsers(0) /\ DeletesNone
  BY <1>2, <1>3 DEF KeepsUsers, DeletesNone
<1>5. KeepsTokens(0) /\ KeepsCodes(0) /\ KeepsLinks(0) /\ KeepsGroups(0) /\ FadeTokens
  BY DEF KeepsTokens, KeepsCodes, KeepsLinks, KeepsGroups, FadeTokens
<1> QED BY <1>2, <1>4, <1>5 DEF KeepsRest, Dead

LEMMA UserWritten ==
    ASSUME NEW u \in DOMAIN users, NEW e, e.state = users[u].state,
           users' = [users EXCEPT ![u] = e], UNCHANGED <<groups, tokens, codes, links>>
    PROVE  KeepsRest(u) /\ DeletesNone /\ FadeTokens
BY DEF KeepsRest, KeepsUsers, KeepsTokens, KeepsCodes, KeepsLinks, KeepsGroups, DeletesNone,
       FadeTokens

LEMMA GroupsKept ==
    ASSUME NEW w, KeepsGroups(w), UNCHANGED <<users, tokens, codes, links>>
    PROVE  KeepsRest(w) /\ DeletesNone /\ FadeTokens
BY DEF KeepsRest, KeepsUsers, KeepsTokens, KeepsCodes, KeepsLinks, DeletesNone, FadeTokens

LEMMA CodesKept ==
    ASSUME NEW w, KeepsCodes(w), UNCHANGED <<users, groups, tokens, links>>
    PROVE  KeepsRest(w) /\ DeletesNone /\ FadeTokens
BY DEF KeepsRest, KeepsUsers, KeepsTokens, KeepsGroups, KeepsLinks, DeletesNone, FadeTokens

LEMMA LinksKept ==
    ASSUME NEW w, KeepsLinks(w), UNCHANGED <<users, groups, tokens, codes>>
    PROVE  KeepsRest(w) /\ DeletesNone /\ FadeTokens
BY DEF KeepsRest, KeepsUsers, KeepsTokens, KeepsGroups, KeepsCodes, DeletesNone, FadeTokens

LEMMA TokenFaded ==
    ASSUME NEW t \in DOMAIN tokens, NEW e, e.user = tokens[t].user, e.login = tokens[t].login,
           e.state = "live" => tokens[t].state = "live",
           tokens' = [tokens EXCEPT ![t] = e], UNCHANGED <<users, groups, codes, links>>
    PROVE  KeepsRest(0) /\ DeletesNone /\ FadeTokens
<1>1. /\ DOMAIN tokens' = DOMAIN tokens
      /\ \A i \in DOMAIN tokens :
            /\ tokens'[i].user = tokens[i].user /\ tokens'[i].login = tokens[i].login
            /\ tokens'[i].state = "live" => tokens[i].state = "live"
  OBVIOUS
<1>2. KeepsTokens(0) /\ FadeTokens
  BY <1>1 DEF KeepsTokens, FadeTokens
<1>3. KeepsUsers(0) /\ KeepsCodes(0) /\ KeepsLinks(0) /\ KeepsGroups(0) /\ DeletesNone
  BY DEF KeepsUsers, KeepsCodes, KeepsLinks, KeepsGroups, DeletesNone
<1> QED BY <1>2, <1>3 DEF KeepsRest

LEMMA CodeFaded ==
    ASSUME NEW s \in DOMAIN codes, NEW e, e.user = codes[s].user,
           e.state = "open" => codes[s].state = "open",
           codes' = [codes EXCEPT ![s] = e]
    PROVE  KeepsCodes(0)
BY DEF KeepsCodes

LEMMA RowsAreRecords ==
    ASSUME IInv
    PROVE  /\ \A u \in DOMAIN users : users[u] \in User
           /\ \A g \in DOMAIN groups : groups[g] \in Group
           /\ \A t \in DOMAIN tokens : tokens[t] \in Token
           /\ \A s \in DOMAIN codes : codes[s] \in Code
           /\ \A n \in DOMAIN links : links[n] \in Link
           /\ users \in Seq(User) /\ groups \in Seq(Group) /\ tokens \in Seq(Token)
           /\ codes \in Seq(Code) /\ links \in Seq(Link)
BY DEF IInv, TypeOK

LEMMA CreateKeepsEnded ==
    ASSUME IInv, EndedInv, Histories, NEW h \in Handlers, Create(h)
    PROVE  EndedInv'
<1>1. pc[h] = "create" /\ req[h].token = 0 /\ req[h] \in Request
  BY HandlerFacts, TokensInHand DEF Create
<1>2. CASE Stay(h, "winner") /\ UNCHANGED users
  BY <1>1, <1>2, QuietStay DEF Create, rows
<1>3. CASE /\ users' = Append(users, NewUser(None, req[h].telegram))
           /\ Go(h, AfterTelegram(h), [req[h] EXCEPT !.user = Len(users) + 1])
  <2> DEFINE r == [req[h] EXCEPT !.user = Len(users) + 1]
  <2>1. r.user = Len(users) + 1 /\ r.token = 0 /\ Steps(h, AfterTelegram(h), r)
    BY <1>1, <1>3, GoSteps DEF Request
  <2>2. KeepsRest(0) /\ DeletesNone /\ FadeTokens /\ ~Dead(Len(users) + 1)
    BY <1>3, UserAdded DEF Create
  <2>3. AfterTelegram(h) # "erase"
    BY DEF AfterTelegram
  <2> HIDE DEF r
  <2>4. Knows(h, r)
    BY <2>1, <2>2 DEF Knows
  <2> QED BY <2>1, <2>2, <2>3, <2>4, WriteKeepsEnded
<1> QED BY <1>2, <1>3 DEF Create

LEMMA RegisterKeepsEnded ==
    ASSUME IInv, EndedInv, Histories, NEW h \in Handlers, Register(h)
    PROVE  EndedInv'
<1>1. pc[h] = "register" /\ req[h].token = 0 /\ req[h] \in Request
  BY HandlerFacts, TokensInHand DEF Register
<1>2. CASE Leave(h) /\ UNCHANGED users
  BY <1>2, QuietLeave DEF Register, rows
<1>3. CASE /\ users' = Append(users, NewUser(codes[req[h].code].email, None))
           /\ Go(h, "issue", [req[h] EXCEPT !.user = Len(users) + 1])
  <2> DEFINE r == [req[h] EXCEPT !.user = Len(users) + 1]
  <2>1. r.user = Len(users) + 1 /\ r.token = 0 /\ Steps(h, "issue", r)
    BY <1>1, <1>3, GoSteps DEF Request
  <2>2. KeepsRest(0) /\ DeletesNone /\ FadeTokens /\ ~Dead(Len(users) + 1)
    BY <1>3, UserAdded DEF Register
  <2> HIDE DEF r
  <2>4. Knows(h, r)
    BY <2>1, <2>2 DEF Knows
  <2> QED BY <2>1, <2>2, <2>4, WriteKeepsEnded
<1> QED BY <1>2, <1>3 DEF Register

LEMMA UserWritesKeepEnded ==
    ASSUME IInv, EndedInv, Histories, NEW h \in Handlers, WriteEmail(h) \/ WritePhone(h)
    PROVE  EndedInv'
<1> DEFINE u == req[h].user
           a == codes[req[h].code].email
<1>1. /\ u \in DOMAIN users /\ pc[h] \in {"email", "phone"} /\ users[u] \in User
      /\ Leave(h) /\ UNCHANGED <<groups, tokens, codes, links>>
  BY HandlerFacts, RowsAreRecords DEF WriteEmail, WritePhone, InHand, RefersToRows, RefTo
<1>2. CASE UNCHANGED users
  BY <1>1, <1>2, QuietLeave DEF rows
<1>3. CASE \/ users' = [users EXCEPT ![u].email = a]
           \/ users' = [users EXCEPT ![u].phone = "given"]
  <2>1. PICK e \in {[users[u] EXCEPT !.email = a], [users[u] EXCEPT !.phone = "given"]} :
            users' = [users EXCEPT ![u] = e]
    BY <1>3
  <2>2. e.state = users[u].state
    BY <1>1 DEF User
  <2>3. KeepsRest(u) /\ DeletesNone /\ FadeTokens
    BY <1>1, <2>1, <2>2, UserWritten
  <2> QED BY <1>1, <2>3, StayAfterWrite
<1> QED BY <1>2, <1>3 DEF WriteEmail, WritePhone
LEMMA OrderKeepsEnded ==
    ASSUME IInv, EndedInv, Histories, NEW h \in Handlers, Order(h)
    PROVE  EndedInv'
<1> DEFINE e == [user |-> req[h].user, state |-> "active", contact |-> "kept"]
<1>1. groups \in Seq(Group) /\ groups' = Append(groups, e) /\ e.user = req[h].user
  BY RowsAreRecords DEF Order
<1> HIDE DEF e
<1>2. /\ DOMAIN groups' = DOMAIN groups \cup {Len(groups) + 1}
      /\ \A g \in DOMAIN groups : groups'[g] = groups[g]
      /\ groups'[Len(groups) + 1] = e
  BY <1>1, Appended
<1>3. KeepsGroups(req[h].user)
  BY <1>1, <1>2 DEF KeepsGroups
<1>4. KeepsRest(req[h].user) /\ DeletesNone /\ FadeTokens
  BY <1>3, GroupsKept DEF Order
<1>5. Stay(h, "profile") /\ pc[h] = "order"
  BY DEF Order
<1> QED BY <1>4, <1>5, StayAfterWrite

LEMMA StoreKeepsEnded ==
    ASSUME IInv, EndedInv, Histories, NEW h \in Handlers, Store(h)
    PROVE  EndedInv'
<1> DEFINE e == NewCode(req[h].email, req[h].user)
           r == [req[h] EXCEPT !.code = Len(codes) + 1]
<1>1. /\ codes \in Seq(Code) /\ codes' = Append(codes, e) /\ e.user = req[h].user
      /\ req[h] \in Request /\ pc[h] = "store" /\ req[h].token = 0
  BY RowsAreRecords, HandlerFacts, TokensInHand DEF Store, NewCode
<1>2. r.user = req[h].user /\ r.token = 0 /\ Steps(h, "send", r)
  BY <1>1, GoSteps DEF Store, Request
<1> HIDE DEF e, r
<1>3. /\ DOMAIN codes' = DOMAIN codes \cup {Len(codes) + 1}
      /\ \A s \in DOMAIN codes : codes'[s] = codes[s]
      /\ codes'[Len(codes) + 1] = e
  BY <1>1, Appended
<1>4. KeepsCodes(req[h].user)
  BY <1>1, <1>3 DEF KeepsCodes
<1>5. KeepsRest(req[h].user) /\ DeletesNone /\ FadeTokens
  BY <1>4, CodesKept DEF Store
<1>6. Knows(h, r)
  BY <1>2 DEF Knows
<1> QED BY <1>2, <1>5, <1>6, WriteKeepsEnded

LEMMA ShutKeeps ==
    ASSUME IInv, NEW s \in DOMAIN codes, Shut(s), UNCHANGED <<users, groups, tokens, links>>
    PROVE  KeepsRest(0) /\ DeletesNone /\ FadeTokens
<1> DEFINE state == IF codes[s].state = "gone" THEN codes[s].state ELSE "used"
           e == [codes[s] EXCEPT !.state = state]
<1>1. codes[s] \in Code /\ codes' = [codes EXCEPT ![s] = e]
  BY RowsAreRecords DEF Shut
<1>2. e.user = codes[s].user /\ e.state # "open"
  BY <1>1 DEF Code
<1> HIDE DEF e
<1>3. KeepsCodes(0)
  BY <1>1, <1>2, CodeFaded
<1> QED BY <1>3, CodesKept

LEMMA ClosingKeepsEnded ==
    ASSUME IInv, EndedInv, Histories, NEW h \in Handlers, Withdraw(h) \/ ShutCode(h)
    PROVE  EndedInv'
<1>1. req[h].code \in DOMAIN codes
  BY HandlerFacts DEF Withdraw, ShutCode, InHand, RefersToRows, RefTo
<1>2. KeepsRest(0) /\ DeletesNone /\ FadeTokens
  BY <1>1, ShutKeeps DEF Withdraw, ShutCode
<1>3. Leave(h) /\ pc[h] \notin {"rotate", "logout", "issue", "persist"}
  BY DEF Withdraw, ShutCode
<1> QED BY <1>2, <1>3, StayAfterWrite

LEMMA WrongKeepsEnded ==
    ASSUME IInv, EndedInv, Histories, NEW h \in Handlers, Wrong(h)
    PROVE  EndedInv'
<1> DEFINE s == req[h].code
           e == [codes[s] EXCEPT !.attempts = @ + 1]
<1>1. s \in DOMAIN codes /\ codes[s] \in Code /\ pc[h] = "wrong"
  BY HandlerFacts, RowsAreRecords DEF Wrong, InHand, RefersToRows, RefTo
<1>2. CASE Leave(h) /\ UNCHANGED codes
  BY <1>2, QuietLeave DEF Wrong, rows
<1>3. CASE codes' = [codes EXCEPT ![s] = e] /\ (Stay(h, "shut") \/ Leave(h))
  <2>1. e.user = codes[s].user /\ e.state = codes[s].state
    BY <1>1 DEF Code
  <2>2. KeepsCodes(0)
    BY <1>1, <1>3, <2>1, CodeFaded
  <2>3. KeepsRest(0) /\ DeletesNone /\ FadeTokens
    BY <2>2, CodesKept DEF Wrong
  <2> QED BY <1>1, <1>3, <2>3, StayAfterWrite
<1> QED BY <1>2, <1>3 DEF Wrong

LEMMA ClaimCodeKeepsEnded ==
    ASSUME IInv, EndedInv, Histories, NEW h \in Handlers, ClaimCode(h)
    PROVE  EndedInv'
<1> DEFINE s == req[h].code
           e == [codes[s] EXCEPT !.state = "used"]
<1>1. s \in DOMAIN codes /\ codes[s] \in Code /\ pc[h] = "claim"
  BY HandlerFacts, RowsAreRecords DEF ClaimCode, InHand, RefersToRows, RefTo
<1>2. CASE Leave(h) /\ UNCHANGED codes
  BY <1>2, QuietLeave DEF ClaimCode, rows
<1>3. CASE codes' = [codes EXCEPT ![s] = e] /\ AfterClaim(h)
  <2>1. e.user = codes[s].user /\ e.state # "open"
    BY <1>1 DEF Code
  <2>2. KeepsCodes(0)
    BY <1>1, <1>3, <2>1, CodeFaded
  <2>3. KeepsRest(0) /\ DeletesNone /\ FadeTokens
    BY <2>2, CodesKept DEF ClaimCode
  <2>4. PICK stage \in {"resolve", "email"} : Stay(h, stage) \/ Leave(h)
    BY <1>3 DEF AfterClaim
  <2> QED BY <1>1, <2>3, <2>4, StayAfterWrite
<1> QED BY <1>2, <1>3 DEF ClaimCode

LEMMA CreateLinkKeepsEnded ==
    ASSUME IInv, EndedInv, Histories, NEW h \in Handlers, CreateLink(h)
    PROVE  EndedInv'
<1>1. links \in Seq(Link) /\ links' = Append(links, NewLink) /\ NewLink.user = 0
  BY RowsAreRecords DEF CreateLink, NewLink
<1>2. /\ DOMAIN links' = DOMAIN links \cup {Len(links) + 1}
      /\ \A n \in DOMAIN links : links'[n] = links[n]
      /\ links'[Len(links) + 1] = NewLink
  BY <1>1, Appended
<1>3. KeepsLinks(0)
  BY <1>1, <1>2 DEF KeepsLinks
<1>4. KeepsRest(0) /\ DeletesNone /\ FadeTokens
  BY <1>3, LinksKept DEF CreateLink
<1> QED BY <1>4, StillKeepsEnded DEF CreateLink

LEMMA BindKeepsEnded ==
    ASSUME IInv, EndedInv, Histories, NEW h \in Handlers, Bind(h)
    PROVE  EndedInv'
<1> DEFINE n == req[h].link
           u == req[h].user
<1>1. n \in DOMAIN links /\ links[n] \in Link /\ pc[h] = "bind" /\ Leave(h)
  BY HandlerFacts, RowsAreRecords DEF Bind, InHand, RefersToRows, RefTo
<1>2. CASE UNCHANGED links
  BY <1>1, <1>2, QuietLeave DEF Bind, rows
<1>3. CASE links' = [links EXCEPT ![n].user = u]
  <2>1. KeepsLinks(u)
    BY <1>1, <1>3 DEF KeepsLinks, Link
  <2>2. KeepsRest(u) /\ DeletesNone /\ FadeTokens
    BY <2>1, LinksKept DEF Bind
  <2> QED BY <1>1, <2>2, StayAfterWrite
<1> QED BY <1>2, <1>3 DEF Bind

LEMMA ClaimLinkKeepsEnded ==
    ASSUME IInv, EndedInv, Histories, NEW h \in Handlers, ClaimLink(h)
    PROVE  EndedInv'
<1> DEFINE n == req[h].link
<1>1. n \in DOMAIN links /\ links[n] \in Link /\ pc[h] = "claimLink"
  BY HandlerFacts, RowsAreRecords DEF ClaimLink, InHand, RefersToRows, RefTo
<1>2. CASE Leave(h) /\ UNCHANGED links
  BY <1>2, QuietLeave DEF ClaimLink, rows
<1>3. CASE links' = [links EXCEPT ![n].state = "used"] /\ Stay(h, "issue")
  <2>1. KeepsLinks(0)
    BY <1>1, <1>3 DEF KeepsLinks, Link
  <2>2. KeepsRest(0) /\ DeletesNone /\ FadeTokens
    BY <2>1, LinksKept DEF ClaimLink
  <2> QED BY <1>1, <1>3, <2>2, StayAfterWrite
<1> QED BY <1>2, <1>3 DEF ClaimLink

\* A rotation revokes the token it was given and goes on to the next.
LEMMA RotateKeepsEnded ==
    ASSUME IInv, EndedInv, Histories, NEW h \in Handlers, Rotate(h)
    PROVE  EndedInv'
<1> DEFINE t == req[h].token
           e == [tokens[t] EXCEPT !.state = "revoked"]
<1>1. t \in DOMAIN tokens /\ tokens[t] \in Token /\ pc[h] = "rotate"
  BY HandlerFacts, RowsAreRecords DEF Rotate, InHand, RefersToRows, RefTo
<1>2. CASE Leave(h) /\ UNCHANGED tokens
  BY <1>2, QuietLeave DEF Rotate, rows
<1>3. CASE tokens' = [tokens EXCEPT ![t] = e] /\ Stay(h, "issue")
  <2>1. e.user = tokens[t].user /\ e.login = tokens[t].login /\ e.state = "revoked"
    BY <1>1 DEF Token
  <2>2. KeepsRest(0) /\ DeletesNone /\ FadeTokens
    BY <1>1, <1>3, <2>1, TokenFaded DEF Rotate
  <2>3. tokens'[t].state = "revoked"
    BY <1>1, <1>3, <2>1
  <2>4. Steps(h, "issue", req[h])
    BY <1>3, GoSteps
  <2>5. /\ Knows(h, req[h]) /\ FinalKept(h, 0, "issue", req[h])
        /\ ChainKept(h, "issue", req[h])
    BY <1>1, <2>3 DEF Knows, FinalKept, ChainKept
  <2> QED BY <2>2, <2>4, <2>5, StepKeepsEnded
<1> QED BY <1>2, <1>3 DEF Rotate

LEMMA LogoutKeepsEnded ==
    ASSUME IInv, EndedInv, Histories, NEW h \in Handlers, Logout(h)
    PROVE  EndedInv'
<1> DEFINE t == req[h].token
           state == IF tokens[t].state = "live" THEN "revoked" ELSE tokens[t].state
           e == [tokens[t] EXCEPT !.state = state]
<1>1. t \in DOMAIN tokens /\ tokens[t] \in Token /\ Leave(h)
  BY HandlerFacts, RowsAreRecords DEF Logout, InHand, RefersToRows, RefTo
<1>2. tokens' = [tokens EXCEPT ![t] = e]
  BY DEF Logout
<1>3. e.user = tokens[t].user /\ e.login = tokens[t].login /\ e.state # "live"
  BY <1>1 DEF Token
<1> HIDE DEF e
<1>4. KeepsRest(0) /\ DeletesNone /\ FadeTokens
  BY <1>1, <1>2, <1>3, TokenFaded DEF Logout
<1>5. Steps(h, "idle", NoReq) /\ Knows(h, NoReq) /\ NoReq.token = 0
  BY <1>1, GoSteps, NobodyInHand DEF NoReq
<1> QED BY <1>4, <1>5, WriteKeepsEnded

LEMMA TimeKeepsEnded ==
    ASSUME IInv, EndedInv, Histories, Time
    PROVE  EndedInv'
<1>1. CASE \E g \in DOMAIN groups : Finish(g)
  <2>1. PICK g \in DOMAIN groups : Finish(g)
    BY <1>1
  <2>2. groups[g] \in Group
    BY RowsAreRecords
  <2>3. KeepsGroups(0)
    BY <2>1, <2>2 DEF Finish, KeepsGroups, Group
  <2>4. KeepsRest(0) /\ DeletesNone /\ FadeTokens
    BY <2>1, <2>3, GroupsKept DEF Finish
  <2> QED BY <2>1, <2>4, StillKeepsEnded DEF Finish
<1>2. CASE \E s \in DOMAIN codes : ExpireCode(s)
  <2>1. PICK s \in DOMAIN codes : ExpireCode(s)
    BY <1>2
  <2>2. codes[s] \in Code
    BY RowsAreRecords
  <2>3. KeepsCodes(0)
    BY <2>1, <2>2 DEF ExpireCode, KeepsCodes, Code
  <2>4. KeepsRest(0) /\ DeletesNone /\ FadeTokens
    BY <2>1, <2>3, CodesKept DEF ExpireCode
  <2> QED BY <2>1, <2>4, StillKeepsEnded DEF ExpireCode
<1>3. CASE \E n \in DOMAIN links : ExpireLink(n)
  <2>1. PICK n \in DOMAIN links : ExpireLink(n)
    BY <1>3
  <2>2. links[n] \in Link
    BY RowsAreRecords
  <2>3. KeepsLinks(0)
    BY <2>1, <2>2 DEF ExpireLink, KeepsLinks, Link
  <2>4. KeepsRest(0) /\ DeletesNone /\ FadeTokens
    BY <2>1, <2>3, LinksKept DEF ExpireLink
  <2> QED BY <2>1, <2>4, StillKeepsEnded DEF ExpireLink
<1>4. CASE \E t \in DOMAIN tokens : ExpireToken(t)
  <2>1. PICK t \in DOMAIN tokens : ExpireToken(t)
    BY <1>4
  <2> DEFINE e == [tokens[t] EXCEPT !.state = "revoked"]
  <2>2. tokens[t] \in Token /\ tokens' = [tokens EXCEPT ![t] = e]
    BY <2>1, RowsAreRecords DEF ExpireToken
  <2>3. e.user = tokens[t].user /\ e.login = tokens[t].login /\ e.state # "live"
    BY <2>2 DEF Token
  <2> HIDE DEF e
  <2>4. KeepsRest(0) /\ DeletesNone /\ FadeTokens
    BY <2>1, <2>2, <2>3, TokenFaded DEF ExpireToken
  <2> QED BY <2>1, <2>4, StillKeepsEnded DEF ExpireToken
<1> QED BY <1>1, <1>2, <1>3, <1>4 DEF Time
\* A new token is for somebody h knows; it is the first of its login, or takes
\* the place of the one that was revoked for it.
LEMMA PersistKeepsEnded ==
    ASSUME IInv, EndedInv, Histories, NEW h \in Handlers, PersistRefreshToken(h)
    PROVE  EndedInv'
<1> DEFINE new == Len(tokens) + 1
           login == IF req[h].token = 0 THEN new ELSE tokens[req[h].token].login
           e == [user |-> req[h].user, state |-> "live",
                 code |-> req[h].code, link |-> req[h].link, login |-> login]
<1>1. /\ pc[h] = "persist" /\ Leave(h) /\ tokens \in Seq(Token) /\ tokens' = Append(tokens, e)
      /\ e.user = req[h].user /\ e.login = login
      /\ UNCHANGED <<users, groups, codes, links>>
  BY RowsAreRecords DEF PersistRefreshToken
<1> HIDE DEF e
<1>2. /\ DOMAIN tokens' = DOMAIN tokens \cup {new} /\ new \notin DOMAIN tokens
      /\ \A t \in DOMAIN tokens : tokens'[t] = tokens[t]
      /\ tokens'[new] = e
  BY <1>1, Appended
<1> HIDE DEF new
<1>3. /\ Steps(h, "idle", NoReq) /\ NoReq.token = 0
      /\ Knows(h, NoReq) /\ FinalKept(h, req[h].user, "idle", NoReq)
  BY <1>1, GoSteps, NobodyInHand DEF NoReq
<1>4. KeepsRest(req[h].user) /\ DeletesNone
  <2>1. KeepsTokens(req[h].user)
    BY <1>1, <1>2 DEF KeepsTokens
  <2>2. /\ KeepsUsers(req[h].user) /\ KeepsCodes(req[h].user) /\ KeepsLinks(req[h].user)
        /\ KeepsGroups(req[h].user) /\ DeletesNone
    BY <1>1 DEF KeepsUsers, KeepsCodes, KeepsLinks, KeepsGroups, DeletesNone
  <2> QED BY <2>1, <2>2 DEF KeepsRest
\* The chain.
<1>5. /\ \A t \in DOMAIN tokens : tokens[t].login \in DOMAIN tokens
      /\ \A k \in Handlers : req[k].token = 0 \/ req[k].token \in DOMAIN tokens
  BY HandlerFacts DEF RefersToRows, RefTo, IInv, TypeOK, RowsReferToRows
<1>6. OneTokenPerLogin /\ \A k \in Handlers : ChainAt(pc[k], req[k])
  BY DEF EndedInv, EndedStaysEnded
<1>7. \A t \in DOMAIN tokens :
          tokens[t].state = "live" /\ tokens[t].login = login => login \in contended
  <2>1. CASE req[h].token = 0
    BY <1>2, <1>5, <2>1
  <2>2. CASE req[h].token # 0
    BY <1>1, <1>6, <2>2 DEF ChainAt
  <2> QED BY <2>1, <2>2
<1>8. \A k \in Handlers \ {h} :
          req[k].token # 0 /\ tokens[req[k].token].login = login => login \in contended
  <2> SUFFICES ASSUME NEW k \in Handlers \ {h}, req[k].token # 0,
                      tokens[req[k].token].login = login
               PROVE  login \in contended
    OBVIOUS
  <2>1. req[h].token # 0
    BY <1>2, <1>5
  <2>2. login \in Contending
    BY <2>1 DEF Contending
  <2> QED BY <2>2 DEF EndedInv
<1> HIDE DEF login
<1>9. OneTokenPerLogin'
  <2> SUFFICES ASSUME NEW i \in DOMAIN tokens', NEW j \in DOMAIN tokens', i # j,
                      tokens'[i].login = tokens'[j].login,
                      tokens'[i].state = "live", tokens'[j].state = "live"
               PROVE  tokens'[i].login \in contended
    BY DEF OneTokenPerLogin, Histories
  <2>1. CASE i \in DOMAIN tokens /\ j \in DOMAIN tokens
    BY <1>2, <1>6, <2>1 DEF OneTokenPerLogin
  <2>2. CASE i = new /\ j \in DOMAIN tokens
    BY <1>1, <1>2, <1>7, <2>2
  <2>3. CASE j = new /\ i \in DOMAIN tokens
    BY <1>1, <1>2, <1>7, <2>3
  <2> QED BY <1>2, <2>1, <2>2, <2>3
<1>10. ASSUME NEW k \in Handlers
       PROVE  ChainAt(pc[k], req[k])'
  <2>1. CASE k = h
    BY <1>3, <2>1, Stepped DEF ChainAt
  <2>2. CASE k # h
    <3>1. pc'[k] = pc[k] /\ req'[k] = req[k] /\ ChainAt(pc[k], req[k])
      BY <1>3, <1>6, <2>2, Stepped
    <3> SUFFICES ASSUME req[k].token # 0
                 PROVE  ChainAt(pc[k], req[k])'
      BY <3>1 DEF ChainAt
    <3>2. /\ req[k].token \in DOMAIN tokens
          /\ tokens'[req[k].token].login = tokens[req[k].token].login
      BY <1>2, <1>5
    <3>3. pc[k] \in {"rotate", "logout", "issue", "persist"}
      BY <3>1 DEF ChainAt
    <3>4. ASSUME NEW t \in DOMAIN tokens', tokens'[t].state = "live",
                 tokens'[t].login = tokens[req[k].token].login,
                 pc[k] # "logout", ~(pc[k] = "rotate" /\ t = req[k].token)
          PROVE  tokens'[t].login \in contended
      <4>1. CASE t \in DOMAIN tokens
        BY <1>2, <3>1, <3>4, <4>1 DEF ChainAt
      <4>2. CASE t = new
        BY <1>1, <1>2, <1>8, <2>2, <3>4, <4>2
      <4> QED BY <1>2, <4>1, <4>2
    <3> QED BY <3>1, <3>2, <3>3, <3>4 DEF ChainAt, Histories
  <2> QED BY <2>1, <2>2
\* The rest is as for any other write.
<1>11. \A k \in Handlers : FinalAt(pc[k], req[k])'
  BY <1>3, <1>4, FinalStays DEF KeepsRest
<1>12. ASSUME NEW u \in DOMAIN users', users'[u].state = "deleted", u \notin crossed'
       PROVE  Blank(u)' /\ \A k \in Handlers : req'[k].user # u
  <2>1. Dead(u)
    BY <1>4, <1>12 DEF DeletesNone, Histories, Dead
  <2> QED BY <1>3, <1>4, <1>12, <2>1, BlankStays
<1>13. DeletedStaysBlank' /\ NobodyReturns'
  BY <1>12 DEF DeletedStaysBlank, NobodyReturns
<1> QED BY <1>9, <1>10, <1>11, <1>13 DEF EndedInv, EndedStaysEnded, Histories

\* Nobody else has the account in hand when it is erased, or the deletion is
\* overlapped; its orders are final, and all else that opens it goes with it.
LEMMA EraseKeepsEnded ==
    ASSUME IInv, EndedInv, Histories, NEW h \in Handlers, Erase(h)
    PROVE  EndedInv'
<1> DEFINE u == req[h].user
           blank == [state |-> "deleted", email |-> None, telegram |-> None, phone |-> "none"]
<1>1. pc[h] = "erase" /\ Leave(h) /\ u \in DOMAIN users /\ u # 0
  BY HandlerFacts DEF Erase, InHand, RefersToRows, RefTo
<1>2. /\ DOMAIN users' = DOMAIN users /\ users'[u] = blank
      /\ \A v \in DOMAIN users : v # u => users'[v] = users[v]
  BY <1>1 DEF Erase
<1>3. /\ DOMAIN groups' = DOMAIN groups
      /\ \A g \in DOMAIN groups :
            /\ groups'[g].user = groups[g].user /\ groups'[g].state = groups[g].state
            /\ groups[g].contact = "wiped" => groups'[g].contact = "wiped"
            /\ groups[g].user = u => groups'[g].contact = "wiped"
  <2>1. \A g \in DOMAIN groups : groups[g] \in Group
    BY RowsAreRecords
  <2>2. /\ DOMAIN groups' = DOMAIN groups
        /\ \A g \in DOMAIN groups :
              groups'[g] = IF groups[g].user = u THEN [groups[g] EXCEPT !.contact = "wiped"]
                           ELSE groups[g]
    BY DEF Erase
  <2> QED BY <2>1, <2>2 DEF Group
<1>4. /\ DOMAIN tokens' = DOMAIN tokens
      /\ \A t \in DOMAIN tokens :
            /\ tokens'[t].user = tokens[t].user /\ tokens'[t].login = tokens[t].login
            /\ tokens'[t].state = "live" => tokens[t].state = "live" /\ tokens[t].user # u
  <2>1. \A t \in DOMAIN tokens : tokens[t] \in Token
    BY RowsAreRecords
  <2>2. /\ DOMAIN tokens' = DOMAIN tokens
        /\ \A t \in DOMAIN tokens :
              tokens'[t] = IF tokens[t].user = u THEN [tokens[t] EXCEPT !.state = "gone"]
                           ELSE tokens[t]
    BY DEF Erase
  <2> QED BY <2>1, <2>2 DEF Token
<1>5. /\ DOMAIN codes' = DOMAIN codes
      /\ \A s \in DOMAIN codes :
            /\ codes'[s].user = codes[s].user
            /\ codes'[s].state = "open" => codes[s].state = "open" /\ codes[s].user # u
  <2>1. \A s \in DOMAIN codes : codes[s] \in Code
    BY RowsAreRecords
  <2>2. /\ DOMAIN codes' = DOMAIN codes
        /\ \A s \in DOMAIN codes :
              codes'[s] = IF Mine(h, codes[s]) THEN [codes[s] EXCEPT !.state = "gone"]
                          ELSE codes[s]
    BY DEF Erase
  <2>3. \A s \in DOMAIN codes : codes[s].user = u => Mine(h, codes[s])
    BY DEF Mine
  <2> QED BY <2>1, <2>2, <2>3 DEF Code
<1>6. /\ DOMAIN links' = DOMAIN links
      /\ \A n \in DOMAIN links :
            /\ links'[n].user = links[n].user
            /\ links'[n].state = "open" => links[n].state = "open" /\ links[n].user # u
  <2>1. \A n \in DOMAIN links : links[n] \in Link
    BY RowsAreRecords
  <2>2. /\ DOMAIN links' = DOMAIN links
        /\ \A n \in DOMAIN links :
              links'[n] = IF links[n].user = u THEN [links[n] EXCEPT !.state = "gone"]
                          ELSE links[n]
    BY DEF Erase
  <2> QED BY <2>1, <2>2 DEF Link
<1>7. /\ Steps(h, "idle", NoReq) /\ Knows(h, NoReq)
      /\ FinalKept(h, u, "idle", NoReq) /\ ChainKept(h, "idle", NoReq) /\ NoReq.user = 0
  BY <1>1, GoSteps, NobodyInHand DEF NoReq
<1>8. KeepsRest(u) /\ FadeTokens
  <2>1. KeepsUsers(u)
    BY <1>2 DEF KeepsUsers
  <2>2. KeepsTokens(u) /\ FadeTokens
    BY <1>4 DEF KeepsTokens, FadeTokens
  <2>3. KeepsCodes(u) /\ KeepsLinks(u) /\ KeepsGroups(u)
    BY <1>3, <1>5, <1>6 DEF KeepsCodes, KeepsLinks, KeepsGroups
  <2> QED BY <2>1, <2>2, <2>3 DEF KeepsRest
<1>9. OneTokenPerLogin' /\ \A k \in Handlers : ChainAt(pc[k], req[k])'
  BY <1>7, <1>8, ChainsStay
<1>10. \A k \in Handlers : FinalAt(pc[k], req[k])'
  BY <1>7, <1>8, FinalStays DEF KeepsRest
<1>11. ASSUME NEW v \in DOMAIN users', users'[v].state = "deleted", v \notin crossed'
       PROVE  Blank(v)' /\ \A k \in Handlers : req'[k].user # v
  <2>1. CASE v # u
    <3>1. Dead(v)
      BY <1>2, <1>11, <2>1 DEF Histories, Dead
    <3> QED BY <1>7, <1>8, <1>11, <3>1, BlankStays
  <2>2. CASE v = u
    <3>1. u \notin crossed
      BY <1>11, <2>2 DEF Histories
    <3>2. \A k \in Handlers \ {h} : req[k].user # u
      <4>1. \A k \in Handlers \ {h} : req[k].user = u => u \in Crossing
        BY <1>1 DEF Crossing
      <4> QED BY <3>1, <4>1 DEF EndedInv
    <3>3. \A k \in Handlers : req'[k].user # u
      BY <1>1, <1>7, <3>2, Stepped
    <3>4. \A g \in DOMAIN groups : groups[g].user = u => groups[g].state = "final"
      BY <1>1, <3>1 DEF EndedInv, FinalAt
    <3>5. /\ users'[u].email = None /\ users'[u].telegram = None /\ users'[u].phone = "none"
      BY <1>2
    <3> QED BY <1>3, <1>4, <1>5, <1>6, <2>2, <3>3, <3>4, <3>5 DEF Blank
  <2> QED BY <2>1, <2>2
<1>12. DeletedStaysBlank' /\ NobodyReturns'
  BY <1>11 DEF DeletedStaysBlank, NobodyReturns
<1> QED BY <1>9, <1>10, <1>12 DEF EndedInv, EndedStaysEnded, Histories

LEMMA EndedInit ==
    ASSUME Init
    PROVE  EndedInv
<1>1. DOMAIN users = {1} /\ users[1].state = "live"
  BY DEF Init, NewUser
<1>2. DOMAIN tokens = {1}
  BY DEF Init
<1>3. \A h \in Handlers : pc[h] = "idle" /\ req[h].token = 0
  BY DEF Init, NoReq
<1>4. Crossing = {} /\ Contending = {}
  BY <1>3 DEF Crossing, Contending
<1>5. EndedStaysEnded /\ NobodyReturns
  BY <1>1, <1>2 DEF EndedStaysEnded, DeletedStaysBlank, OneTokenPerLogin, NobodyReturns
<1>6. \A h \in Handlers : FinalAt(pc[h], req[h]) /\ ChainAt(pc[h], req[h])
  BY <1>3 DEF FinalAt, ChainAt
<1> QED BY <1>4, <1>5, <1>6 DEF EndedInv

LEMMA EndedStep ==
    ASSUME IInv, EndedInv, [Next]_vars
    PROVE  EndedInv'
<1>1. CASE UNCHANGED vars
  <2>1. Crossing' = Crossing /\ Contending' = Contending
    BY <1>1 DEF vars, Crossing, Contending
  <2>2. Histories
    BY <1>1, <2>1 DEF Histories, vars, EndedInv
  <2>3. KeepsRest(0) /\ DeletesNone /\ FadeTokens
    BY <1>1 DEF vars, KeepsRest, KeepsUsers, KeepsTokens, KeepsCodes, KeepsLinks, KeepsGroups,
                DeletesNone, FadeTokens
  <2> QED BY <1>1, <2>2, <2>3, StillKeepsEnded DEF vars
<1>2. CASE Next
  <2>1. Histories
    BY <1>2 DEF Next, Histories
  <2>2. CASE Time
    BY <2>1, <2>2, TimeKeepsEnded
  <2>3. ASSUME NEW h \in Handlers, Login(h)
        PROVE  EndedInv'
    BY <2>1, <2>3, LoginKeepsEnded, CreateLinkKeepsEnded DEF Login
  <2>4. ASSUME NEW h \in Handlers, Use(h) \/ Fail(h)
        PROVE  EndedInv'
    BY <2>1, <2>4, UseKeepsEnded, ReadsKeepEnded
  <2>5. ASSUME NEW h \in Handlers, Serve(h)
        PROVE  EndedInv'
    <3>1. CASE Find(h) \/ Create(h) \/ Winner(h)
      BY <2>1, <3>1, FoundKeepsEnded, CreateKeepsEnded
    <3>2. CASE IssueTokens(h) \/ PersistRefreshToken(h) \/ Rotate(h) \/ Logout(h)
      BY <2>1, <3>2, IssueTokensKeepsEnded, PersistKeepsEnded, RotateKeepsEnded, LogoutKeepsEnded
    <3>3. CASE Bind(h) \/ ClaimLink(h)
      BY <2>1, <3>3, BindKeepsEnded, ClaimLinkKeepsEnded
    <3>4. CASE CheckAddress(h) \/ Store(h) \/ Send(h) \/ Withdraw(h)
      BY <2>1, <3>4, ReadsKeepEnded, StoreKeepsEnded, ClosingKeepsEnded
    <3>5. CASE ReadCode(h) \/ Wrong(h) \/ ShutCode(h) \/ ClaimCode(h)
      BY <2>1, <3>5, ReadCodeKeepsEnded, WrongKeepsEnded, ClosingKeepsEnded, ClaimCodeKeepsEnded
    <3>6. CASE ResolveUser(h) \/ Register(h) \/ WriteEmail(h)
      BY <2>1, <3>6, ResolveUserKeepsEnded, RegisterKeepsEnded, UserWritesKeepEnded
    <3>7. CASE Order(h) \/ ReadProfile(h) \/ WritePhone(h)
      BY <2>1, <3>7, OrderKeepsEnded, ReadsKeepEnded, UserWritesKeepEnded
    <3>8. CASE ReadAccount(h) \/ CountActive(h) \/ Erase(h)
      BY <2>1, <3>8, ReadAccountKeepsEnded, CountActiveKeepsEnded, EraseKeepsEnded
    <3> QED BY <2>5, <3>1, <3>2, <3>3, <3>4, <3>5, <3>6, <3>7, <3>8 DEF Serve
  <2> QED BY <1>2, <2>2, <2>3, <2>4, <2>5 DEF Next
<1> QED BY <1>1, <1>2

\* (users.service.ts:203, auth.service.ts:103) A deleted account stays without a
\* contact, a way in and an unfinished order, and a login has one good token at
\* most, whatever is served at once and wherever it fails: except accounts whose
\* deletion another request about them overlapped, and logins of which two
\* requests used a token at once.
THEOREM EndedAlwaysStays == Spec => []EndedStaysEnded
<1>1. Init => EndedInv
  BY EndedInit
<1>2. IInv /\ EndedInv /\ [Next]_vars => EndedInv'
  BY EndedStep
<1>3. EndedInv => EndedStaysEnded
  BY DEF EndedInv
<1> QED BY <1>1, <1>2, <1>3, AlwaysSound, PTL DEF Spec

-----------------------------------------------------------------------------
(* The versions of the app (AppVersions).  An installation compares its own *)
(* version with two others; that it is never shut out rests on the          *)
(* comparison being an order.                                               *)

Known == Seq(Nat) \cup {Unparsable}

Positive == Nat \ {0}

Same(a, b) == \A i \in Positive : Segment(a, i) = Segment(b, i)

\* The first segment in which a and b differ is the smaller one in a.
Earlier(a, b) ==
    \E i \in Positive : /\ Segment(a, i) < Segment(b, i)
                         /\ \A j \in 1..(i - 1) : Segment(a, j) = Segment(b, j)

LEMMA SegmentType == \A a \in Seq(Nat), i \in Positive : Segment(a, i) \in Nat
BY DEF Segment, Positive

LEMMA LeastPositive ==
    ASSUME NEW S \in SUBSET Nat, S # {}
    PROVE  \E m \in S : \A x \in S : m <= x
<1>1. PICK m \in S : \A x \in S : ~(<<x, m>> \in OpToRel(<, Nat))
  BY WFMin, NatLessThanWellFounded
<1>2. \A x \in S : ~(x < m)
  BY <1>1 DEF OpToRel
<1> QED  BY <1>2

\* compareVersions is this order, for versions of any length.
LEMMA CompareIsOrder ==
    ASSUME NEW a \in Seq(Nat), NEW b \in Seq(Nat), Unparsable \notin {a, b}
    PROVE  /\ CompareVersions(a, b) \in {-1, 0, 1}
           /\ CompareVersions(a, b) = -1 <=> Earlier(a, b)
           /\ CompareVersions(a, b) = 0 <=> Same(a, b)
<1> DEFINE D == Differ(a, b)
           first == CHOOSE j \in D : \A k \in D : j <= k
<1>1. Len(a) \in Nat /\ Len(b) \in Nat
  OBVIOUS
<1>2. \A i \in Positive : Segment(a, i) \in Nat /\ Segment(b, i) \in Nat
  BY SegmentType
\* Behind the end of both, they do not differ.
<1>3. \A i \in Positive : i \in D <=> Segment(a, i) # Segment(b, i)
  <2> SUFFICES ASSUME NEW i \in Positive, Segment(a, i) # Segment(b, i)
               PROVE  i \in 1..(Len(a) + Len(b))
    BY DEF Differ
  <2>1. i <= Len(a) \/ i <= Len(b)
    BY DEF Segment
  <2> QED  BY <1>1, <2>1 DEF Positive
<1>4. D \subseteq Positive
  BY DEF Differ, Positive
<1>5. CASE D = {}
  <2>1. Same(a, b)
    BY <1>3, <1>5 DEF Same
  <2>2. ~Earlier(a, b)
    BY <1>2, <2>1 DEF Same, Earlier
  <2>3. CompareVersions(a, b) = 0
    BY <1>5 DEF CompareVersions
  <2> QED  BY <2>1, <2>2, <2>3
<1>6. CASE D # {}
  <2>1. first \in D /\ \A k \in D : first <= k
    <3>1. \E m \in D : \A x \in D : m <= x
      BY <1>4, <1>6, LeastPositive DEF Positive
    <3> HIDE DEF D
    <3> QED  BY <3>1
  <2>2. CompareVersions(a, b) = IF Segment(a, first) < Segment(b, first) THEN -1 ELSE 1
    BY <1>6 DEF CompareVersions
  <2> HIDE DEF first, D
  <2>3. first \in Positive /\ Segment(a, first) # Segment(b, first) /\ ~Same(a, b)
    BY <1>3, <1>4, <2>1 DEF Same
  <2>4. \A j \in 1..(first - 1) : Segment(a, j) = Segment(b, j)
    <3> SUFFICES ASSUME NEW j \in 1..(first - 1) PROVE j \in Positive /\ j \notin D
      BY <1>3
    <3> QED  BY <2>1, <2>3 DEF Positive
  <2>5. CASE Segment(a, first) < Segment(b, first)
    BY <2>2, <2>3, <2>4, <2>5 DEF Earlier
  <2>6. CASE ~(Segment(a, first) < Segment(b, first))
    <3>1. ~Earlier(a, b)
      <4> SUFFICES ASSUME NEW i \in Positive, Segment(a, i) < Segment(b, i),
                          \A j \in 1..(i - 1) : Segment(a, j) = Segment(b, j)
                   PROVE  FALSE
        BY DEF Earlier
      <4>1. Segment(a, i) # Segment(b, i)
        BY <1>2
      <4>2. i # first /\ ~(i < first)
        BY <2>3, <2>4, <2>6, <4>1 DEF Positive
      <4>3. first \in 1..(i - 1)
        BY <2>3, <4>2 DEF Positive
      <4> QED  BY <2>3, <4>3
    <3> QED  BY <2>2, <2>3, <2>6, <3>1
  <2> QED  BY <2>5, <2>6
<1> QED  BY <1>5, <1>6

LEMMA EarlierIsTransitive ==
    ASSUME NEW a \in Seq(Nat), NEW b \in Seq(Nat), NEW c \in Seq(Nat),
           Earlier(a, b), Earlier(b, c) \/ Same(b, c)
    PROVE  Earlier(a, c)
<1>1. PICK i \in Positive : /\ Segment(a, i) < Segment(b, i)
                            /\ \A j \in 1..(i - 1) : Segment(a, j) = Segment(b, j)
  BY DEF Earlier
<1>2. \A k \in Positive : Segment(a, k) \in Nat /\ Segment(b, k) \in Nat /\ Segment(c, k) \in Nat
  BY SegmentType
<1>3. CASE Same(b, c)
  <2>1. \A j \in 1..(i - 1) : j \in Positive
    BY DEF Positive
  <2> QED  BY <1>1, <1>3, <2>1 DEF Same, Earlier
<1>4. ASSUME NEW k \in Positive, Segment(b, k) < Segment(c, k),
             \A j \in 1..(k - 1) : Segment(b, j) = Segment(c, j)
      PROVE  Earlier(a, c)
  <2>1. PICK m \in Positive : m <= i /\ m <= k /\ (m = i \/ m = k)
    <3>1. CASE i <= k
      <4>1. i \in Positive /\ i <= i /\ i <= k
        BY <3>1 DEF Positive
      <4> QED  BY <4>1
    <3>2. CASE ~(i <= k)
      <4>1. k \in Positive /\ k <= i /\ k <= k
        BY <3>2 DEF Positive
      <4> QED  BY <4>1
    <3> QED  BY <3>1, <3>2
  <2>2. \A j \in 1..(m - 1) : j \in 1..(i - 1) /\ j \in 1..(k - 1)
    BY <2>1 DEF Positive
  <2>3. \A j \in 1..(m - 1) : Segment(a, j) = Segment(c, j)
    BY <1>1, <1>4, <2>2
  <2>4. (m < i => m \in 1..(i - 1)) /\ (m < k => m \in 1..(k - 1))
    BY DEF Positive
  <2>5. Segment(a, m) <= Segment(b, m) /\ Segment(b, m) <= Segment(c, m)
    <3>1. m = i \/ m < i
      BY <2>1 DEF Positive
    <3>2. m = k \/ m < k
      BY <2>1 DEF Positive
    <3> QED  BY <1>1, <1>2, <1>4, <2>4, <3>1, <3>2
  <2>6. Segment(a, m) < Segment(c, m)
    BY <1>1, <1>2, <1>4, <2>1, <2>5
  <2> QED  BY <2>3, <2>6 DEF Earlier
<1> QED  BY <1>3, <1>4 DEF Earlier

LEMMA EarlierIsOneWay ==
    ASSUME NEW a \in Seq(Nat), NEW b \in Seq(Nat), Earlier(a, b)
    PROVE  ~Earlier(b, a) /\ ~Same(a, b)
<1>1. \A k \in Positive : Segment(a, k) \in Nat /\ Segment(b, k) \in Nat
  BY SegmentType
<1>2. ~Same(a, b)
  BY <1>1 DEF Earlier, Same
<1>3. ~Earlier(a, a)
  BY <1>1 DEF Earlier
<1> QED  BY <1>2, <1>3, EarlierIsTransitive

AppTyped ==
    /\ installed \in Known \cup {Null}
    /\ store # Null => /\ {"latestVersion", "minSupportedVersion"} \subseteq DOMAIN store
                       /\ store.latestVersion \in Known /\ store.minSupportedVersion \in Known

LEMMA AppAtFirst == AppInit => AppTyped
<1>1. <<1, 0, 0>> \in Seq(Nat)
  OBVIOUS
<1>2. ASSUME AppInit, store # Null
      PROVE  /\ {"latestVersion", "minSupportedVersion"} \subseteq DOMAIN store
             /\ store.latestVersion \in Known /\ store.minSupportedVersion \in Known
  <2> DEFINE v == <<1, 0, 0>>
  <2>1. v \in Known
    BY <1>1 DEF Known
  <2> HIDE DEF v
  <2>2. FALLBACK = [latestVersion |-> v, minSupportedVersion |-> v, enabled |-> TRUE,
                    ru |-> Null, uz |-> Null, en |-> Null]
    BY DEF FALLBACK, v
  <2>3. store = FALLBACK \/ store = [FALLBACK EXCEPT !.latestVersion = Unparsable]
    BY <1>2 DEF AppInit
  <2> QED  BY <2>1, <2>2, <2>3 DEF Known
<1>3. AppInit => installed \in Known \cup {Null}
  BY VersionsAssumption DEF AppInit, Known
<1> QED  BY <1>2, <1>3 DEF AppTyped

LEMMA AppStep == AppTyped /\ [AppNext]_app => AppTyped'
<1> SUFFICES ASSUME AppTyped, [AppNext]_app PROVE AppTyped'
  OBVIOUS
<1>1. ASSUME NEW dto \in Patches, Publish(dto)
      PROVE  AppTyped'
  <2> DEFINE base == IF store = Null THEN FALLBACK ELSE store
             data == Data(dto)
  <2>1. /\ {"latestVersion", "minSupportedVersion"} \subseteq DOMAIN base
        /\ base.latestVersion \in Known /\ base.minSupportedVersion \in Known
    <3>1. <<1, 0, 0>> \in Seq(Nat)
      OBVIOUS
    <3> QED  BY <3>1 DEF AppTyped, FALLBACK, Known
  <2>2. DOMAIN data = DOMAIN dto
    BY DEF Data
  <2>3. ASSUME NEW f \in {"latestVersion", "minSupportedVersion"}, f \in DOMAIN data
        PROVE  data[f] \in Known
    <3>1. data[f] = dto[f]
      BY <2>2, <2>3 DEF Data
    <3>2. dto[f] \in Versions
      BY <2>2, <2>3, PatchesAssumption
    <3> QED  BY <3>1, <3>2, VersionsAssumption DEF Known
  <2>4. store' = [f \in DOMAIN base |-> IF f \in DOMAIN data THEN data[f] ELSE base[f]]
    BY <1>1 DEF Publish, Upsert
  <2> HIDE DEF base, data
  <2>5. /\ {"latestVersion", "minSupportedVersion"} \subseteq DOMAIN store'
        /\ store'["latestVersion"] \in Known /\ store'["minSupportedVersion"] \in Known
    BY <2>1, <2>3, <2>4
  <2> QED  BY <1>1, <2>5 DEF AppTyped, Publish
<1>2. CASE Install
  BY <1>2, VersionsAssumption DEF Install, AppTyped, Known
<1>3. CASE UNCHANGED app
  BY <1>3 DEF app, AppTyped
<1> QED  BY <1>1, <1>2, <1>3 DEF AppNext

\* app-version.service.ts:139-141 and version-compare.ts: whatever is typed into the
\* panel, in any order and of any length, an installation that is told it must update
\* is older than the version in the store, and that version is let in.
THEOREM TheStoreLetsIn == AppSpec => []NobodyIsLockedOut
<1>1. ASSUME AppTyped
      PROVE  NobodyIsLockedOut
  <2> SUFFICES ASSUME NEW locale \in {"ru", "uz", "en"},
                      Check(store, installed, locale).updateRequired
               PROVE  /\ Check(store, installed, locale).updateAvailable
                      /\ ~Check(store, store.latestVersion, locale).updateRequired
                      /\ ~Check(store, store.latestVersion, locale).updateAvailable
    BY DEF NobodyIsLockedOut
  <2> DEFINE latest == store.latestVersion
             min == store.minSupportedVersion
             vsLatest == CompareVersions(installed, latest)
             vsMin == CompareVersions(installed, min)
  <2>1. /\ store # Null /\ store.enabled /\ installed # Null
        /\ vsLatest # Null /\ vsMin # Null
        /\ MinIsSane(store) /\ vsMin = -1
    BY DEF Check, Verdict, NO_UPDATE
  <2>2. Unparsable \notin {installed, latest, min}
    BY <2>1 DEF CompareVersions
  <2>3. installed \in Seq(Nat) /\ latest \in Seq(Nat) /\ min \in Seq(Nat)
    BY <1>1, <2>1, <2>2 DEF AppTyped, Known
  <2>4. Earlier(installed, min)
    BY <2>1, <2>2, <2>3, CompareIsOrder
  <2>5. Earlier(min, latest) \/ Same(min, latest)
    BY <2>1, <2>2, <2>3, CompareIsOrder DEF MinIsSane
  <2>6. vsLatest = -1
    BY <2>2, <2>3, <2>4, <2>5, CompareIsOrder, EarlierIsTransitive
  <2>7. Check(store, installed, locale).updateAvailable
    BY <2>1, <2>6 DEF Check, Verdict
  <2>8. CompareVersions(latest, latest) = 0
    BY <2>2, <2>3, CompareIsOrder DEF Same
  <2>9. CompareVersions(latest, min) # -1
    <3>1. ~Earlier(latest, min)
      BY <2>3, <2>5, EarlierIsOneWay DEF Same, Earlier
    <3> QED  BY <2>2, <2>3, <3>1, CompareIsOrder
  <2>10. /\ ~Check(store, latest, locale).updateRequired
         /\ ~Check(store, latest, locale).updateAvailable
    <3>1. Check(store, latest, locale) = Verdict(store, locale, FALSE, FALSE)
      <4>1. (CompareVersions(latest, latest) = -1) = FALSE
        BY <2>8
      <4>2. (MinIsSane(store) /\ CompareVersions(latest, min) = -1) = FALSE
        BY <2>9
      <4> QED  BY <2>1, <4>1, <4>2 DEF Check
    <3> QED  BY <3>1 DEF Verdict
  <2> QED  BY <2>7, <2>10
<1> QED  BY <1>1, AppAtFirst, AppStep, PTL DEF AppSpec
=============================================================================
