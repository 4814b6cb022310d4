------------------------------- MODULE Shop --------------------------------
(***************************************************************************)
(* What checkout promises, without requests, reads or transactions: a cart *)
(* is bought whole out of the stock there is, split by seller; an order    *)
(* that is cancelled gives all of its items back; a seller edits a stock.  *)
(***************************************************************************)
EXTENDS Integers, Sequences

CONSTANTS
    Listings,   \* what is on sale
    Seller,     \* the seller of each listing
    Users,      \* the customers
    MaxQuantity \* bound: how many of one listing a cart can hold

VARIABLES
    stock,      \* how many of each listing are left
    groups      \* the order groups, oldest first

vars == <<stock, groups>>

Cart == [Listings -> 0..MaxQuantity]

Empty == [l \in Listings |-> 0]

\* The quantities of items that belong to seller s.
PartOf(items, s) == [l \in Listings |-> IF Seller[l] = s THEN items[l] ELSE 0]

Sellers(items) == {Seller[l] : l \in {k \in Listings : items[k] > 0}}

\* A group with one order for each seller who has something in it.
NewGroup(u, items) ==
    [user |-> u,
     order |-> [s \in Sellers(items) |-> [items |-> PartOf(items, s),
                                          returned |-> 0]]]

Init ==
    /\ stock \in [Listings -> Nat]
    /\ groups = <<>>

Buy(u, items) ==
    /\ items # Empty
    /\ \A l \in Listings : items[l] <= stock[l]
    /\ stock' = [l \in Listings |-> stock[l] - items[l]]
    /\ groups' = Append(groups, NewGroup(u, items))

Return(g, s) ==
    /\ stock' = [l \in Listings |-> stock[l] + groups[g].order[s].items[l]]
    /\ groups' = [groups EXCEPT ![g].order[s].returned = @ + 1]

Edit(l) ==
    /\ stock'[l] \in Nat
    /\ stock' = [stock EXCEPT ![l] = stock'[l]]
    /\ UNCHANGED groups

Next ==
    \/ \E u \in Users, items \in Cart : Buy(u, items)
    \/ \E g \in DOMAIN groups : \E s \in DOMAIN groups[g].order : Return(g, s)
    \/ \E l \in Listings : Edit(l)

Spec == Init /\ [][Next]_vars
=============================================================================
