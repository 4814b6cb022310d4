------------------------------- MODULE MCTeam --------------------------------
(***************************************************************************)
(* A seller with its owner and one member, both linked, another seller     *)
(* with its owner, an account to be hired, and the platform, linked too;   *)
(* a fourth chat is nobody's yet.                                          *)
(***************************************************************************)
EXTENDS Team

CONSTANTS boss, clerk, rival, admin, fresh, s1, s2, s3

MCAccounts == {boss, clerk, rival, admin, fresh}
MCSellers == {s1, s2, s3}
MCChats == 1..4

Linked(role, seller, chat) == [role |-> role, seller |-> seller, chat |-> chat]

MCWorld ==
    [staff |-> (boss :> Linked("SELLER", s1, 1)) @@ (clerk :> Linked("SELLER", s1, 2))
               @@ (rival :> Linked("SELLER", s2, None)) @@ (admin :> Linked("SUPER_ADMIN", None, 3))
               @@ (fresh :> None),
     owner |-> (s1 :> boss) @@ (s2 :> rival) @@ (s3 :> None)]

R(kind, by, seller, account) ==
    [NoReq EXCEPT !.kind = kind, !.by = by, !.seller = seller, !.account = account]
Start(n, c) == [NoReq EXCEPT !.kind = "start", !.nonce = n, !.chat = c]
Cards(ps) == [NoReq EXCEPT !.kind = "cards", !.parts = ps]
Press(kind, c, s) == [NoReq EXCEPT !.kind = kind, !.chat = c, !.seller = s]

Mix(rs, n, faults) == [requests |-> rs, asked |-> n, failures |-> faults]

MCMixes ==
    {Mix({R("open", admin, s3, fresh), R("hire", boss, s1, fresh), R("hire", clerk, s1, fresh)}
             \cup {R("fire", a, s1, b) : a \in {boss, admin, rival}, b \in {boss, clerk, fresh}}, 3, 0),
     Mix({R("invite", boss, s1, clerk), R("link", rival, None, None), R("fire", boss, s1, clerk),
          R("unlink", boss, s1, clerk), R("leave", clerk, None, None)}
             \cup {Start(n, c) : n \in Nonces, c \in {2, 4}}, 4, 1),
     Mix({R("invite", boss, s1, clerk), Start(1, 1), Start(1, 4)}, 5, 0),
     Mix({Cards(<<s1, s2, None>>), Cards(<<s1>>), R("unlink", boss, s1, clerk), R("fire", boss, s1, clerk),
          R("link", rival, None, None), Start(1, 2)}, 4, 1),
     Mix({R("leave", clerk, None, None), R("link", rival, None, None), Start(1, 2)}
             \cup {Press(k, c, s) : k \in {"list", "show"}, c \in {2, 3}, s \in {s1, s2}}, 4, 0)}
=============================================================================
