--------------------------- MODULE PositionCustody ---------------------------
(***************************************************************************)
(* What the executor program promises a stealth wallet that puts liquidity *)
(* into a pool through it: the value stays with the position and, but for  *)
(* the pool's own trades, leaves it only to the recipient named when the   *)
(* position was opened; and while the program is paused nothing moves.     *)
(***************************************************************************)
EXTENDS Integers

CONSTANTS
    Keys,       \* pairs of a stealth wallet and a pool
    Wallets, OwnerOf, Nobody

VARIABLES
    recipient,  \* of each key: Nobody while it has no position
    held,       \* value in the position of each key
    purse,      \* value in each wallet
    frozen

vars == <<recipient, held, purse, frozen>>

Init ==
    /\ recipient = [k \in Keys |-> Nobody]
    /\ held = [k \in Keys |-> 0]
    /\ purse \in [Wallets -> Nat]
    /\ frozen \in BOOLEAN

Open(k, w) ==
    /\ ~frozen /\ recipient[k] = Nobody /\ held[k] = 0
    /\ recipient' = [recipient EXCEPT ![k] = w]
    /\ UNCHANGED <<held, purse, frozen>>

\* The wallet of the key puts value in.
Add(k, a) ==
    /\ ~frozen /\ recipient[k] # Nobody
    /\ purse' = [purse EXCEPT ![OwnerOf[k]] = @ - a]
    /\ held' = [held EXCEPT ![k] = @ + a]
    /\ UNCHANGED <<recipient, frozen>>

\* Some of the value goes to the recipient.
Pay(k, a) ==
    /\ ~frozen /\ recipient[k] # Nobody
    /\ purse' = [purse EXCEPT ![recipient[k]] = @ + a]
    /\ held' = [held EXCEPT ![k] = @ - a]
    /\ UNCHANGED <<recipient, frozen>>

\* All of it does, and the position is gone.
Close(k) ==
    /\ ~frozen /\ recipient[k] # Nobody
    /\ purse' = [purse EXCEPT ![recipient[k]] = @ + held[k]]
    /\ held' = [held EXCEPT ![k] = 0]
    /\ recipient' = [recipient EXCEPT ![k] = Nobody]
    /\ UNCHANGED frozen

\* Trades of others earn fees, pause or no pause: the pool is not ours.
Earn(k) ==
    /\ recipient[k] # Nobody /\ held'[k] >= held[k]
    /\ held' = [held EXCEPT ![k] = held'[k]]
    /\ UNCHANGED <<recipient, purse, frozen>>

\* A wallet trades with the pool, at a price that it consented to: no other
\* wallet has a part in it.
Exchange(w) ==
    /\ ~frozen /\ purse'[w] >= 0
    /\ purse' = [purse EXCEPT ![w] = purse'[w]]
    /\ UNCHANGED <<recipient, held, frozen>>

Freeze ==
    /\ frozen' \in BOOLEAN
    /\ UNCHANGED <<recipient, held, purse>>

Next ==
    \/ \E k \in Keys, w \in Wallets : Open(k, w)
    \/ \E k \in Keys : \E a \in 0 .. purse[OwnerOf[k]] : Add(k, a)
    \/ \E k \in Keys : \E a \in 0 .. held[k] : Pay(k, a)
    \/ \E k \in Keys : Close(k) \/ Earn(k)
    \/ \E w \in Wallets : Exchange(w)
    \/ Freeze

Spec == Init /\ [][Next]_vars
=============================================================================
