----------------------------- MODULE MCMessages ------------------------------
(***************************************************************************)
(* Three customers, read two at a time, and a fourth who may join; the     *)
(* first and the second have two installations each, one of them with a    *)
(* token stored before the controller checked their form.                  *)
(***************************************************************************)
EXTENDS Messages

MCUsers == 1..4
MCTokens == 1..4

Installed(u, d) == [user |-> u, device |-> d]

MCWorld ==
    [customers |-> 1..3, chats |-> {1, 3},
     tokens |-> <<Installed(1, None), Installed(1, "d1"), Installed(2, "d2"), Installed(2, None)>>]

R(kind, u) == [NoReq EXCEPT !.kind = kind, !.user = u]
Order(u, feedOnly) == [R("order", u) EXCEPT !.about = AnOrder, !.feedOnly = feedOnly]
ToAll == [R("create", None) EXCEPT !.audience = MCUsers]
ByPush == [ToAll EXCEPT !.push = TRUE]
ByTelegram == [ToAll EXCEPT !.telegram = TRUE]
ToSome == [ByTelegram EXCEPT !.audience = {1, 3}, !.push = TRUE]
Install(u, t, d) == [R("register", u) EXCEPT !.token = t, !.device = d]
Uninstall(t) == [R("unregister", None) EXCEPT !.token = t]

Mix(rs, n, faults, crashes) ==
    [requests |-> rs, polls |-> {}, asked |-> n, failures |-> faults, restarts |-> crashes]

MCMixes ==
    {[Mix({Order(1, TRUE), ByTelegram}, 3, 0, 0) EXCEPT !.polls = {1}],
     Mix({Order(1, FALSE), Order(2, FALSE), Uninstall(3)}
            \cup {Install(u, t, "d1") : u \in {1, 3}, t \in {2, 4}}, 2, 1, 0),
     Mix({ByTelegram, R("delete", 2), R("join", 4)}, 3, 0, 0),
     Mix({ByPush, R("delete", 2), Install(3, 2, "d1"), ToAll}, 2, 1, 0),
     Mix({ToSome}, 1, 2, 1)}
=============================================================================
