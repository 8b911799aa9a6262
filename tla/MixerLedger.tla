----------------------------- MODULE MixerLedger -----------------------------
(***************************************************************************)
(* What the mixer program promises its users: a note is taken once, for    *)
(* one denomination, and each nullifier behind a taken note is paid once,  *)
(* one denomination in total, split between a recipient and a relayer.     *)
(***************************************************************************)
EXTENDS Integers

CONSTANTS Notes, Nullifiers, NullifierOf, Payees, Denomination, Gifts

VARIABLES
    deposited,   \* notes taken
    receipts,    \* payments made
    vault        \* lamports held for the notes, gifts included

vars == <<deposited, receipts, vault>>

Init ==
    /\ deposited = {}
    /\ receipts = {}
    /\ vault = 0

Take(note) ==
    /\ note \notin deposited
    /\ deposited' = deposited \cup {note}
    /\ vault' = vault + Denomination
    /\ UNCHANGED receipts

Give(note, recipient, relayer, amount, fee) ==
    /\ note \in deposited
    /\ \A r \in receipts : r.nullifier # NullifierOf[note]
    /\ vault >= Denomination
    /\ amount > 0 /\ fee >= 0 /\ amount + fee = Denomination
    /\ receipts' = receipts \cup
           {[nullifier |-> NullifierOf[note], recipient |-> recipient,
             relayer |-> relayer, amount |-> amount, fee |-> fee]}
    /\ vault' = vault - Denomination
    /\ UNCHANGED deposited

\* Nobody can be kept from sending lamports to the vault.
Gift(amount) ==
    /\ vault' = vault + amount
    /\ UNCHANGED <<deposited, receipts>>

Next ==
    \/ \E note \in Notes : Take(note)
    \/ \E amount \in Gifts : Gift(amount)
    \/ \E note \in Notes, recipient, relayer \in Payees,
          amount, fee \in 0 .. Denomination :
          Give(note, recipient, relayer, amount, fee)

Spec == Init /\ [][Next]_vars

==============================================================================
