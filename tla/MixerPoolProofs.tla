--------------------------- MODULE MixerPoolProofs ---------------------------
(***************************************************************************)
(* Proofs about the mixer program: about MixerPool, for every set of       *)
(* notes, every size of the ring and of the tree, and every denomination;  *)
(* then about MerkleInsertion, for every number of levels and every hash.  *)
(***************************************************************************)
EXTENDS MixerPool, MerkleInsertion, FiniteSetTheorems, WellFoundedInduction, TLAPS

\* The pool account does not exist before initialize.
NothingBefore ==
    ~initialized => /\ nextLeafIndex = 0
                    /\ lamports[Pool] = 0
                    /\ payouts = <<>>

\* The commitment PDAs are the leaves, each at one place.
LeavesMatch ==
    /\ Len(leaves) = nextLeafIndex
    /\ commitmentAccounts = {leaves[i] : i \in 1 .. Len(leaves)}

\* The nullifier PDAs are the canonical encodings of what was paid.
NullifiersMatch ==
    nullifierAccounts = {<<payouts[i].nullifier, 0>> : i \in 1 .. Len(payouts)}

\* How many pushes ago slot s was written, when the last went to slot c.
Age(s, c) == IF s <= c THEN c - s ELSE c + RootHistorySize - s

\* The ring holds the latest roots in order, and the empty root where
\* nothing was pushed yet.
RingInOrder ==
    \A s \in Slots :
        LET age == Age(s, currentRootIndex)
        IN  rootHistory[s] = IF age <= nextLeafIndex THEN nextLeafIndex - age
                                                     ELSE EmptyRoot

\* Every proof in circulation is of a leaf.
ProofsSound == \A p \in proofs : InTree(p.note, p.root)

(* The inductive invariant. *)
IndInv ==
    /\ TypeOK
    /\ NothingBefore
    /\ LeavesMatch
    /\ NullifiersMatch
    /\ RingInOrder
    /\ ProofsSound
    /\ Solvent
    /\ NoDoubleSpend
    /\ PaidAsProved

\* The index push_root moves to: the next slot, or the first after the last.
LEMMA NextSlot ==
    ASSUME NEW K \in Nat \ {0}, NEW c \in 0 .. K - 1
    PROVE  (c + 1) % K = IF c + 1 = K THEN 0 ELSE c + 1
  BY SMT

\* A push makes every slot one older, except the one it writes.
LEMMA AgeStep ==
    ASSUME NEW c \in Slots, NEW s \in Slots, NEW d \in Slots,
           d = IF c + 1 = RootHistorySize THEN 0 ELSE c + 1
    PROVE  /\ Age(s, c) \in Nat
           /\ Age(s, d) = IF s = d THEN 0 ELSE Age(s, c) + 1
  BY AmountsAssumption DEF Slots, Age

\* What one note more, or one less, does to the amount owed.
LEMMA OneMore ==
    ASSUME NEW d \in Nat, NEW a \in Int
    PROVE  /\ d * (a + 1) = d * a + d
           /\ d * (a - 1) = d * a - d
  BY SMT

\* A transfer between two accounts changes those two, by the amount.
LEMMA MoveFacts ==
    ASSUME NEW balances \in [Accounts -> Nat],
           NEW from \in Accounts, NEW to \in Accounts, from # to,
           NEW amount \in Nat, balances[from] >= amount
    PROVE  /\ Move(balances, from, to, amount) \in [Accounts -> Nat]
           /\ Move(balances, from, to, amount)[from] = balances[from] - amount
           /\ Move(balances, from, to, amount)[to] = balances[to] + amount
           /\ \A a \in Accounts \ {from, to} :
                  Move(balances, from, to, amount)[a] = balances[a]
<1> DEFINE debited == [balances EXCEPT ![from] = @ - amount]
<1>1. debited \in [Accounts -> Nat]
  OBVIOUS
<1>2. Move(balances, from, to, amount) = [debited EXCEPT ![to] = @ + amount]
  BY DEF Move
<1>3. QED
  BY <1>1, <1>2

\* Every paid nullifier belongs to a leaf.
PaidNullifiers ==
    \A i \in 1 .. Len(payouts) : \E k \in 1 .. Len(leaves) :
        NullifierOf[leaves[k]] = payouts[i].nullifier

\* Every payout is of some deposited leaf.
LEMMA PaidNullifiersHold == IndInv => PaidNullifiers
<1> SUFFICES ASSUME IndInv, NEW i \in 1 .. Len(payouts)
             PROVE  \E k \in 1 .. Len(leaves) :
                        NullifierOf[leaves[k]] = payouts[i].nullifier
  BY DEF PaidNullifiers
<1>1. PICK p \in proofs :
          /\ p.note \in commitmentAccounts
          /\ payouts[i] = [nullifier |-> NullifierOf[p.note],
                           recipient |-> p.terms.recipient,
                           relayer |-> p.terms.relayer,
                           amount |-> Denomination - p.terms.feeField,
                           fee |-> p.terms.feeField]
  BY DEF IndInv, PaidAsProved
<1>2. payouts[i].nullifier = NullifierOf[p.note]
  BY <1>1
<1>3. QED
  BY <1>1, <1>2 DEF IndInv, LeavesMatch

\* The invariant holds before the pool exists.
LEMMA InitInv == Init => IndInv
<1> SUFFICES ASSUME Init PROVE IndInv
  OBVIOUS
<1>1. TypeOK
  <2>1. lamports \in [Accounts -> Nat]
    BY AmountsAssumption DEF Init
  <2>2. rootHistory \in [Slots -> Roots] /\ currentRootIndex \in Slots
        /\ nextLeafIndex \in 0 .. MaxLeaves
    BY AmountsAssumption DEF Init, Slots, Roots, EmptyRoot
  <2>3. QED
    BY <2>1, <2>2 DEF Init, TypeOK
<1>2. NothingBefore /\ LeavesMatch /\ NullifiersMatch /\ ProofsSound
  BY KeysAssumption DEF Init, NothingBefore, LeavesMatch, NullifiersMatch,
                        ProofsSound, Accounts
<1>3. RingInOrder
  BY AmountsAssumption DEF Init, RingInOrder, Age, Slots, EmptyRoot
<1>4. Solvent /\ NoDoubleSpend /\ PaidAsProved
  BY DEF Init, Solvent, NoDoubleSpend, PaidAsProved
<1>5. QED
  BY <1>1, <1>2, <1>3, <1>4 DEF IndInv

\* initialize keeps the invariant: empty tree, empty ring, rent only.
LEMMA InitializeInv ==
    ASSUME IndInv, NEW caller \in Wallets, Initialize(caller)
    PROVE  IndInv' /\ lamports'[Pool] = RentMin
<1>1. /\ lamports \in [Accounts -> Nat] /\ lamports[Pool] = 0
      /\ lamports[caller] >= RentMin
      /\ lamports' = Move(lamports, caller, Pool, RentMin)
  BY DEF IndInv, TypeOK, NothingBefore, Initialize
<1>2. caller \in Accounts /\ Pool \in Accounts /\ caller # Pool /\ RentMin \in Nat
  BY KeysAssumption, AmountsAssumption DEF Accounts
<1>3. lamports' \in [Accounts -> Nat] /\ lamports'[Pool] = RentMin
  BY <1>1, <1>2, MoveFacts
<1>4. TypeOK'
  <2>1. rootHistory' \in [Slots -> Roots] /\ nextLeafIndex' \in 0 .. MaxLeaves
    BY AmountsAssumption DEF Initialize, EmptyRoot, Roots
  <2>2. authority' \in Wallets \cup {NoKey} /\ currentRootIndex' \in Slots
    BY AmountsAssumption DEF Initialize, Slots
  <2>3. initialized' = TRUE /\ isPaused' = FALSE
    BY DEF Initialize
  <2>4. UNCHANGED <<commitmentAccounts, nullifierAccounts, leaves, payouts, proofs>>
    BY DEF Initialize, paidVars
  <2>5. QED
    BY <1>3, <2>1, <2>2, <2>3, <2>4 DEF IndInv, TypeOK
<1>5. /\ NothingBefore'
      /\ LeavesMatch'
      /\ NullifiersMatch'
      /\ ProofsSound'
      /\ NoDoubleSpend'
      /\ PaidAsProved'
  BY DEF IndInv, Initialize, NothingBefore, LeavesMatch, NullifiersMatch,
         ProofsSound, InTree, NoDoubleSpend, PaidAsProved, paidVars
<1>6. RingInOrder'
  BY AmountsAssumption DEF Initialize, RingInOrder, Age, EmptyRoot, Slots
<1>7. Solvent'
  BY <1>3, AmountsAssumption DEF IndInv, Initialize, Solvent, NothingBefore, paidVars
<1>8. QED
  BY <1>3, <1>4, <1>5, <1>6, <1>7 DEF IndInv

\* set_paused keeps the invariant: it touches the flag alone.
LEMMA SetPausedInv ==
    ASSUME IndInv, NEW caller \in Wallets, NEW paused \in BOOLEAN,
           SetPaused(caller, paused)
    PROVE  IndInv'
<1>1. TypeOK'
  BY DEF IndInv, TypeOK, SetPaused, treeVars, paidVars
<1>2. /\ UNCHANGED <<initialized, nextLeafIndex, currentRootIndex, rootHistory>>
      /\ UNCHANGED <<commitmentAccounts, nullifierAccounts, lamports>>
      /\ UNCHANGED <<leaves, payouts, proofs>>
  BY DEF SetPaused, treeVars, paidVars
<1>3. NothingBefore' /\ LeavesMatch' /\ NullifiersMatch' /\ Solvent'
  BY <1>2 DEF IndInv, NothingBefore, LeavesMatch, NullifiersMatch, Solvent
<1>4. RingInOrder' /\ ProofsSound'
  BY <1>2 DEF IndInv, RingInOrder, ProofsSound, InTree
<1>5. NoDoubleSpend' /\ PaidAsProved'
  BY <1>2 DEF IndInv, NoDoubleSpend, PaidAsProved
<1>6. QED
  BY <1>1, <1>3, <1>4, <1>5 DEF IndInv

\* Making a proof keeps the invariant: the circuit checked the leaf.
LEMMA ProveInv ==
    ASSUME IndInv, NEW p \in Statement, Prove(p)
    PROVE  IndInv'
<1> USE DEF IndInv, Prove, poolVars, treeVars, paidVars
<1>1. TypeOK'
  BY DEF TypeOK
<1>2. ProofsSound'
  BY DEF ProofsSound, InTree
<1>3. PaidAsProved'
  BY DEF PaidAsProved
<1>4. QED
  BY <1>1, <1>2, <1>3 DEF NothingBefore, LeavesMatch, NullifiersMatch,
     RingInOrder, Age, Solvent, NoDoubleSpend

\* deposit keeps the invariant: one leaf, one root and one denomination more.
LEMMA DepositInv ==
    ASSUME IndInv, NEW depositor \in Wallets, NEW note \in Notes,
           Deposit(depositor, note)
    PROVE  IndInv'
<1> USE KeysAssumption, AmountsAssumption
        DEF IndInv, TypeOK, Deposit, Accounts, Slots, Roots
<1>1. lamports' \in [Accounts -> Nat] /\ lamports'[Pool] = lamports[Pool] + Denomination
  <2>1. /\ lamports \in [Accounts -> Nat]
        /\ depositor \in Accounts /\ Pool \in Accounts /\ depositor # Pool
        /\ Denomination \in Nat /\ lamports[depositor] >= Denomination
    OBVIOUS
  <2>2. lamports' = Move(lamports, depositor, Pool, Denomination)
    OBVIOUS
  <2>3. QED
    BY ONLY <2>1, <2>2, MoveFacts
<1>3. currentRootIndex' = IF currentRootIndex + 1 = RootHistorySize
                          THEN 0 ELSE currentRootIndex + 1
  BY NextSlot DEF PushRoot
<1>4. /\ currentRootIndex' \in Slots
      /\ nextLeafIndex' \in Roots
      /\ rootHistory' = [rootHistory EXCEPT ![currentRootIndex'] = nextLeafIndex']
  BY <1>3 DEF PushRoot
<1>5. TypeOK'
  <2>1. rootHistory' \in [Slots -> Roots]
    BY <1>4
  <2>2. leaves' \in Seq(Notes) /\ commitmentAccounts' \subseteq Notes
    OBVIOUS
  <2>3. UNCHANGED <<initialized, authority, isPaused, nullifierAccounts, payouts, proofs>>
    BY DEF poolVars, paidVars
  <2>4. QED
    BY <1>1, <1>4, <2>1, <2>2, <2>3
<1>6. LeavesMatch'
  <2>1. Len(leaves') = nextLeafIndex'
    <3>1. Len(leaves) = nextLeafIndex /\ leaves \in Seq(Notes)
      BY DEF LeavesMatch
    <3>2. leaves' = Append(leaves, note) /\ nextLeafIndex' = nextLeafIndex + 1
      OBVIOUS
    <3>3. QED
      BY ONLY <3>1, <3>2
  <2>2. \A i \in 1 .. Len(leaves') :
            leaves'[i] = IF i <= Len(leaves) THEN leaves[i] ELSE note
    OBVIOUS
  <2>3. {leaves'[i] : i \in 1 .. Len(leaves')}
            = {leaves[i] : i \in 1 .. Len(leaves)} \cup {note}
    BY <2>1, <2>2 DEF LeavesMatch
  <2>4. QED
    BY <2>1, <2>3 DEF LeavesMatch
<1>7. RingInOrder'
  <2>1. \A s \in Slots :
            /\ Age(s, currentRootIndex) \in Nat
            /\ Age(s, currentRootIndex') =
                   IF s = currentRootIndex' THEN 0 ELSE Age(s, currentRootIndex) + 1
    BY <1>3, <1>4, AgeStep
  <2>2. \A s \in Slots :
            rootHistory'[s] = IF s = currentRootIndex' THEN nextLeafIndex'
                                                       ELSE rootHistory[s]
    BY <1>4
  <2>3. nextLeafIndex \in Nat /\ nextLeafIndex' = nextLeafIndex + 1
    OBVIOUS
  <2>4. SUFFICES ASSUME NEW s \in Slots
                 PROVE  rootHistory'[s] =
                            IF Age(s, currentRootIndex') <= nextLeafIndex'
                            THEN nextLeafIndex' - Age(s, currentRootIndex')
                            ELSE EmptyRoot
    BY DEF RingInOrder
  <2>5. PICK age \in Nat : age = Age(s, currentRootIndex)
    BY <2>1, <2>4
  <2>6. rootHistory[s] = IF age <= nextLeafIndex THEN nextLeafIndex - age ELSE 0
    BY <2>4, <2>5 DEF RingInOrder, EmptyRoot
  <2>7. Age(s, currentRootIndex') = IF s = currentRootIndex' THEN 0 ELSE age + 1
    BY <2>1, <2>4, <2>5
  <2>8. rootHistory'[s] = IF s = currentRootIndex' THEN nextLeafIndex'
                                                   ELSE rootHistory[s]
    BY <2>2, <2>4
  <2>9. QED
    BY ONLY <2>3, <2>5, <2>6, <2>7, <2>8 DEF EmptyRoot
<1>8. ProofsSound'
  <2>1. /\ proofs' = proofs /\ leaves \in Seq(Notes) /\ leaves' = Append(leaves, note)
        /\ \A p \in proofs : p.root \in Nat /\ p.root <= Len(leaves)
               /\ \E i \in 1 .. p.root : leaves[i] = p.note
    BY DEF ProofsSound, InTree, Statement
  <2>2. /\ Len(leaves') = Len(leaves) + 1 /\ Len(leaves) \in Nat
        /\ \A i \in 1 .. Len(leaves) : leaves'[i] = leaves[i]
    BY ONLY <2>1
  <2>3. SUFFICES ASSUME NEW p \in proofs
                 PROVE  p.root <= Len(leaves') /\ \E i \in 1 .. p.root : leaves'[i] = p.note
    BY ONLY <2>1 DEF ProofsSound, InTree
  <2>4. p.root \in Nat /\ p.root <= Len(leaves)
    BY ONLY <2>1, <2>3
  <2>5. PICK i \in 1 .. p.root : leaves[i] = p.note
    BY ONLY <2>1, <2>3
  <2>6. i \in 1 .. Len(leaves)
    BY ONLY <2>2, <2>4, <2>5
  <2>7. QED
    BY ONLY <2>2, <2>4, <2>5, <2>6
<1>9. Solvent'
  <2>1. /\ Len(payouts) \in Nat
        /\ nextLeafIndex' - Len(payouts') = (nextLeafIndex - Len(payouts)) + 1
    BY DEF paidVars
  <2>2. QED
    BY <1>1, <2>1, OneMore, SMTT(30) DEF Solvent, paidVars
<1>10. NoDoubleSpend' /\ NullifiersMatch' /\ NothingBefore'
  <2>1. NoDoubleSpend' /\ NullifiersMatch'
    BY DEF NoDoubleSpend, NullifiersMatch, paidVars
  <2>2. NothingBefore'
    BY DEF NothingBefore, poolVars
  <2>3. QED
    BY <2>1, <2>2
<1>11. PaidAsProved'
  BY DEF PaidAsProved, paidVars
<1>12. QED
  BY <1>5, <1>6, <1>7, <1>8, <1>9, <1>10, <1>11

\* Truncating a fee that fits in 64 bits does not change it.
LEMMA SmallMod ==
    ASSUME NEW m \in Nat \ {0}, NEW n \in Nat, n < m
    PROVE  n % m = n
  BY SMT

\* The two transfers of withdraw take one denomination from the vault.
LEMMA PayFacts ==
    ASSUME lamports \in [Accounts -> Nat], NEW fee \in Nat, fee < Denomination,
           NEW recipient \in Wallets, NEW relayer \in Wallets,
           lamports[Pool] >= Denomination
    PROVE  /\ Pay(recipient, relayer, fee) \in [Accounts -> Nat]
           /\ Pay(recipient, relayer, fee)[Pool] = lamports[Pool] - Denomination
<1> DEFINE paid == Move(lamports, Pool, recipient, Denomination - fee)
<1>1. /\ Pool \in Accounts /\ recipient \in Accounts /\ relayer \in Accounts
      /\ Pool # recipient /\ Pool # relayer
  BY KeysAssumption DEF Accounts
<1>2. /\ Denomination - fee \in Nat /\ lamports[Pool] \in Nat
      /\ lamports[Pool] >= Denomination - fee
  BY <1>1, AmountsAssumption
<1>3. paid \in [Accounts -> Nat] /\ paid[Pool] = lamports[Pool] - (Denomination - fee)
  BY <1>1, <1>2, MoveFacts
<1>4. paid[Pool] >= fee
  BY <1>2, <1>3, AmountsAssumption
<1>5. /\ Move(paid, Pool, relayer, fee) \in [Accounts -> Nat]
      /\ Move(paid, Pool, relayer, fee)[Pool] = paid[Pool] - fee
  BY <1>1, <1>3, <1>4, MoveFacts
<1>6. Pay(recipient, relayer, fee) =
          IF fee > 0 THEN Move(paid, Pool, relayer, fee) ELSE paid
  BY DEF Pay
<1>7. CASE fee > 0
  BY <1>2, <1>3, <1>5, <1>6, <1>7, AmountsAssumption
<1>8. CASE ~(fee > 0)
  <2>1. fee = 0 /\ Pay(recipient, relayer, fee) = paid
    BY <1>6, <1>8
  <2>2. QED
    BY <1>2, <1>3, <2>1, AmountsAssumption
<1>9. QED
  BY <1>7, <1>8

\* What the checks of withdraw establish, in the terms the proof needs.
LEMMA WithdrawFacts ==
    ASSUME IndInv, NEW p \in proofs, NEW shift \in Shifts,
           NEW recipient \in Accounts, NEW relayer \in Accounts,
           Withdraw(p, shift, recipient, relayer)
    PROVE  /\ p \in Statement /\ p.note \in commitmentAccounts
           /\ NullifierOf[p.note] \in Nullifiers
           /\ shift = 0
           /\ FeeOf(p) = p.terms.feeField /\ FeeOf(p) \in Nat
           /\ FeeOf(p) < Denomination
           /\ recipient = p.terms.recipient /\ relayer = p.terms.relayer
           /\ recipient \in Wallets /\ relayer \in Wallets
           /\ \A i \in 1 .. Len(payouts) :
                  payouts[i].nullifier # NullifierOf[p.note]
           /\ lamports[Pool] \in Nat /\ lamports[Pool] >= RentMin + Denomination
<1>1. p \in Statement
  BY DEF IndInv, TypeOK
<1>2. p.note \in commitmentAccounts
  <2>1. p.root \in Nat /\ p.root <= Len(leaves)
           /\ \E i \in 1 .. p.root : leaves[i] = p.note
    BY <1>1, AmountsAssumption DEF IndInv, ProofsSound, InTree, Statement, Roots
  <2>2. \E i \in 1 .. Len(leaves) : leaves[i] = p.note
    BY <2>1 DEF IndInv, TypeOK
  <2>3. QED
    BY <2>2 DEF IndInv, LeavesMatch
<1>3. NullifierOf[p.note] \in Nullifiers
  BY <1>1, KeysAssumption DEF Statement
<1>4. shift = 0
  BY DEF Withdraw, WithdrawAccepts, Canonical
<1>5. p.terms.feeField \in Nat
  BY <1>1, KeysAssumption DEF Statement
<1>6. FeeOf(p) = p.terms.feeField /\ FeeOf(p) < Denomination
  BY <1>5, SmallMod, AmountsAssumption DEF Withdraw, WithdrawAccepts, FeeFits, FeeOf
<1>7. /\ recipient = p.terms.recipient /\ relayer = p.terms.relayer
      /\ recipient \in Wallets /\ relayer \in Wallets
  BY DEF Withdraw, WithdrawAccepts, BoundTo, NoAlias, Accounts
<1>8. \A i \in 1 .. Len(payouts) : payouts[i].nullifier # NullifierOf[p.note]
  BY <1>4 DEF Withdraw, WithdrawAccepts, NullifierUnused, IndInv, NullifiersMatch
<1>9. lamports[Pool] \in Nat /\ lamports[Pool] >= RentMin + Denomination
  <2>1. lamports[Pool] \in Nat
    BY DEF IndInv, TypeOK, Accounts
  <2>2. QED
    BY <2>1, AmountsAssumption DEF Withdraw, Available
<1>10. QED
  BY <1>1, <1>2, <1>3, <1>4, <1>5, <1>6, <1>7, <1>8, <1>9

\* Payouts spend distinct nullifiers of distinct leaves, so an unspent leaf
\* leaves room: the counting argument behind Solvent and NoNoteLocked.
LEMMA UnpaidLeavesRoom ==
    ASSUME IndInv, PaidNullifiers, NEW note \in commitmentAccounts,
           \A i \in 1 .. Len(payouts) : payouts[i].nullifier # NullifierOf[note]
    PROVE  Len(payouts) < nextLeafIndex
<1> DEFINE m == Len(payouts)
           n == nextLeafIndex
<1>1. /\ m \in Nat /\ n \in Nat /\ n = Len(leaves)
  BY AmountsAssumption DEF IndInv, TypeOK, LeavesMatch
<1>2. PICK j \in 1 .. n : leaves[j] = note
  BY <1>1 DEF IndInv, LeavesMatch
<1> DEFINE S == 1 .. m
           T == (1 .. n) \ {j}
           f == [i \in S |-> CHOOSE k \in T :
                               NullifierOf[leaves[k]] = payouts[i].nullifier]
<1>3. \A i \in S : \E k \in T : NullifierOf[leaves[k]] = payouts[i].nullifier
  BY <1>1, <1>2 DEF PaidNullifiers
<1>4. f \in [S -> T]
  BY <1>3
<1>5. \A i \in S : NullifierOf[leaves[f[i]]] = payouts[i].nullifier
  BY <1>3
<1> HIDE DEF f
<1>6. \A i, k \in S : f[i] = f[k] => i = k
  <2>1. SUFFICES ASSUME NEW i \in S, NEW k \in S, f[i] = f[k]
                 PROVE  i = k
    OBVIOUS
  <2>2. payouts[i].nullifier = payouts[k].nullifier
    BY <1>5, <2>1
  <2>3. QED
    BY <2>2 DEF IndInv, NoDoubleSpend
<1> HIDE DEF m, n
<1>7. IsFiniteSet(S) /\ Cardinality(S) = m
  <2>1. 1 \in Int /\ m \in Int
    BY <1>1
  <2>2. IsFiniteSet(1 .. m) /\ Cardinality(1 .. m) = IF 1 > m THEN 0 ELSE m - 1 + 1
    BY <2>1, FS_Interval, Zenon
  <2>3. QED
    BY <1>1, <2>2
<1>8. IsFiniteSet(T) /\ Cardinality(T) = n - 1
  <2>1. IsFiniteSet(1 .. n) /\ Cardinality(1 .. n) = IF 1 > n THEN 0 ELSE n - 1 + 1
    BY <1>1, FS_Interval
  <2>2. /\ IsFiniteSet((1 .. n) \ {j})
        /\ Cardinality((1 .. n) \ {j}) = Cardinality(1 .. n) - 1
    BY <2>1, FS_RemoveElement
  <2>3. n >= 1
    BY <1>1
  <2>4. QED
    BY <1>1, <2>1, <2>2, <2>3
<1> HIDE DEF S, T
<1>9. ~(Cardinality(T) < Cardinality(S))
  BY <1>4, <1>6, <1>7, <1>8, FS_PigeonHole
<1>10. QED
  BY <1>1, <1>7, <1>8, <1>9 DEF m, n

\* withdraw keeps the invariant: one fresh nullifier, one denomination less.
LEMMA WithdrawInv ==
    ASSUME IndInv, NEW p \in proofs, NEW shift \in Shifts,
           NEW recipient \in Accounts, NEW relayer \in Accounts,
           Withdraw(p, shift, recipient, relayer)
    PROVE  IndInv'
<1> DEFINE fee == FeeOf(p)
           nf  == NullifierOf[p.note]
           paid == [nullifier |-> nf, recipient |-> recipient,
                    relayer |-> relayer, amount |-> Denomination - fee,
                    fee |-> fee]
<1>1. /\ payouts \in Seq(Payout) /\ payouts' = Append(payouts, paid)
      /\ nullifierAccounts' = nullifierAccounts \cup {<<nf, shift>>}
      /\ lamports' = Pay(recipient, relayer, fee)
      /\ initialized
      /\ UNCHANGED <<poolVars, treeVars, proofs>>
  BY DEF IndInv, TypeOK, Withdraw, WithdrawAccepts
<1>2. paid \in Payout
  BY WithdrawFacts, AmountsAssumption DEF Payout
<1>3. /\ payouts' \in Seq(Payout) /\ Len(payouts) \in Nat
      /\ Len(payouts') = Len(payouts) + 1
      /\ \A i \in 1 .. Len(payouts) : payouts'[i] = payouts[i]
      /\ payouts'[Len(payouts) + 1] = paid
  BY <1>1, <1>2
<1>4. lamports' \in [Accounts -> Nat] /\ lamports'[Pool] = lamports[Pool] - Denomination
  <2>1. lamports \in [Accounts -> Nat] /\ lamports[Pool] >= Denomination
    BY WithdrawFacts, AmountsAssumption DEF IndInv, TypeOK
  <2>2. QED
    BY <1>1, <2>1, WithdrawFacts, PayFacts
<1>5. nullifierAccounts' \subseteq RawNullifier
  BY <1>1, WithdrawFacts DEF IndInv, TypeOK, RawNullifier
<1>6. TypeOK'
  BY <1>1, <1>3, <1>4, <1>5 DEF IndInv, TypeOK, poolVars, treeVars
<1>7. NullifiersMatch'
  BY <1>1, <1>3, WithdrawFacts DEF IndInv, NullifiersMatch
<1>8. NoDoubleSpend'
  BY <1>3, WithdrawFacts DEF IndInv, NoDoubleSpend
<1>9. PaidAsProved'
  <2>1. /\ p \in proofs' /\ p.note \in commitmentAccounts'
        /\ paid = [nullifier |-> nf,
                   recipient |-> p.terms.recipient,
                   relayer |-> p.terms.relayer,
                   amount |-> Denomination - p.terms.feeField,
                   fee |-> p.terms.feeField]
    BY <1>1, WithdrawFacts DEF treeVars
  <2>2. SUFFICES ASSUME NEW i \in 1 .. Len(payouts')
                 PROVE  \E q \in proofs' :
                          /\ q.note \in commitmentAccounts'
                          /\ payouts'[i] = [nullifier |-> NullifierOf[q.note],
                                            recipient |-> q.terms.recipient,
                                            relayer |-> q.terms.relayer,
                                            amount |-> Denomination - q.terms.feeField,
                                            fee |-> q.terms.feeField]
    BY DEF PaidAsProved
  <2>3. CASE i = Len(payouts) + 1
    BY <1>3, <2>1, <2>3
  <2>4. CASE i \in 1 .. Len(payouts)
    <3>1. payouts'[i] = payouts[i] /\ proofs' = proofs
          /\ commitmentAccounts' = commitmentAccounts
      BY <1>1, <1>3, <2>4 DEF treeVars
    <3>2. QED
      BY <2>4, <3>1 DEF IndInv, PaidAsProved
  <2>5. QED
    BY <1>3, <2>3, <2>4
<1>10. Solvent'
  <2>1. /\ nextLeafIndex \in Int /\ nextLeafIndex' = nextLeafIndex
        /\ Len(payouts) <= nextLeafIndex
        /\ lamports[Pool] >= RentMin + Denomination * (nextLeafIndex - Len(payouts))
        /\ lamports[Pool] \in Nat
    BY <1>1, WithdrawFacts, AmountsAssumption DEF IndInv, TypeOK, Solvent, treeVars
  <2> DEFINE owed == nextLeafIndex - Len(payouts)
  <2>2. owed \in Nat /\ nextLeafIndex' - Len(payouts') = owed - 1
    BY <1>3, <2>1
  <2>3. lamports[Pool] >= RentMin + Denomination * owed
    BY <2>1
  <2>4. owed # 0
    <3>1. Len(payouts) < nextLeafIndex
      BY WithdrawFacts, PaidNullifiersHold, UnpaidLeavesRoom
    <3>2. QED
      BY <2>1, <1>3, <3>1
  <2> HIDE DEF owed
  <2>5. /\ Denomination * (owed - 1) = Denomination * owed - Denomination
        /\ Denomination * owed \in Int
    BY <2>2, OneMore, AmountsAssumption
  <2>6. lamports'[Pool] >= RentMin + Denomination * (owed - 1)
    BY <1>4, <2>1, <2>2, <2>3, <2>5, AmountsAssumption
  <2>7. Len(payouts') <= nextLeafIndex'
    BY <1>3, <2>1, <2>2, <2>4
  <2>8. QED
    BY <2>2, <2>6, <2>7 DEF Solvent
<1>11. ProofsSound' /\ LeavesMatch' /\ RingInOrder' /\ NothingBefore'
  BY <1>1 DEF IndInv, ProofsSound, InTree, LeavesMatch, RingInOrder,
              NothingBefore, treeVars, poolVars
<1>12. QED
  BY <1>6, <1>7, <1>8, <1>9, <1>10, <1>11 DEF IndInv

\* A gift keeps the invariant: it only adds to the vault.
LEMMA GiftInv ==
    ASSUME IndInv, NEW from \in Wallets, NEW amount \in Gifts, Gift(from, amount)
    PROVE  /\ IndInv'
           /\ lamports'[Pool] = lamports[Pool] + amount /\ lamports[Pool] \in Nat
<1>1. /\ lamports \in [Accounts -> Nat] /\ amount \in Nat
      /\ from \in Accounts /\ Pool \in Accounts /\ from # Pool
      /\ lamports[from] >= amount /\ lamports' = Move(lamports, from, Pool, amount)
  BY KeysAssumption, AmountsAssumption DEF Gift, Accounts, IndInv, TypeOK
<1>2. lamports' \in [Accounts -> Nat] /\ lamports'[Pool] = lamports[Pool] + amount
  BY <1>1, MoveFacts
<1>3. /\ initialized /\ UNCHANGED <<initialized, authority, isPaused>>
      /\ UNCHANGED <<nextLeafIndex, currentRootIndex, rootHistory>>
      /\ UNCHANGED <<commitmentAccounts, nullifierAccounts>>
      /\ UNCHANGED <<leaves, payouts, proofs>>
  BY DEF Gift, poolVars, treeVars, paidVars
<1>4. TypeOK' /\ NothingBefore'
  BY <1>2, <1>3 DEF IndInv, TypeOK, NothingBefore
<1>5. Solvent'
  <2> DEFINE due == RentMin + Denomination * (nextLeafIndex - Len(payouts))
  <2>1. lamports[Pool] >= due /\ due \in Int /\ lamports[Pool] \in Nat
    <3>1. /\ nextLeafIndex \in Nat /\ Len(payouts) \in Nat
          /\ RentMin \in Nat /\ Denomination \in Nat
      BY AmountsAssumption DEF IndInv, TypeOK, Roots
    <3>2. nextLeafIndex - Len(payouts) \in Int
      BY ONLY <3>1
    <3>3. due \in Int
      BY ONLY <3>1, <3>2
    <3>4. lamports[Pool] \in Nat
      BY <1>1
    <3>5. lamports[Pool] >= due
      BY <1>3 DEF IndInv, Solvent
    <3>6. QED
      BY ONLY <3>3, <3>4, <3>5
  <2>2. due' = due
    BY <1>3
  <2> HIDE DEF due
  <2>3. lamports'[Pool] >= due'
    BY <1>1, <1>2, <2>1, <2>2
  <2>4. QED
    BY <1>3, <2>3 DEF IndInv, Solvent, due
<1>6. /\ LeavesMatch' /\ NullifiersMatch' /\ RingInOrder' /\ ProofsSound'
      /\ NoDoubleSpend' /\ PaidAsProved'
  <2>1. LeavesMatch' /\ NullifiersMatch'
    BY <1>3 DEF IndInv, LeavesMatch, NullifiersMatch
  <2>2. RingInOrder' /\ NoDoubleSpend'
    BY <1>3 DEF IndInv, RingInOrder, NoDoubleSpend
  <2>3. ProofsSound' /\ PaidAsProved'
    BY <1>3 DEF IndInv, ProofsSound, InTree, PaidAsProved
  <2>4. QED
    BY <2>1, <2>2, <2>3
<1>7. QED
  BY <1>1, <1>2, <1>4, <1>5, <1>6 DEF IndInv

\* Every step keeps the invariant.
LEMMA StepInv == IndInv /\ [Next]_vars => IndInv'
<1> SUFFICES ASSUME IndInv, [Next]_vars PROVE IndInv'
  OBVIOUS
<1>1. CASE \E caller \in Wallets : Initialize(caller)
  BY <1>1, InitializeInv
<1>2. CASE \E caller \in Wallets, paused \in BOOLEAN : SetPaused(caller, paused)
  BY <1>2, SetPausedInv
<1>3. CASE \E depositor \in Wallets, note \in Notes : Deposit(depositor, note)
  BY <1>3, DepositInv
<1>4. CASE \E p \in proofs, shift \in Shifts, recipient, relayer \in Accounts :
              Withdraw(p, shift, recipient, relayer)
  BY <1>4, WithdrawInv
<1>5. CASE \E p \in Statement : Prove(p)
  BY <1>5, ProveInv
<1>6. CASE UNCHANGED vars
  <2>1. TypeOK'
    BY <1>6 DEF IndInv, TypeOK, vars, poolVars, treeVars, paidVars
  <2>2. /\ UNCHANGED <<initialized, nextLeafIndex, currentRootIndex, rootHistory>>
        /\ UNCHANGED <<commitmentAccounts, nullifierAccounts, lamports>>
        /\ UNCHANGED <<leaves, payouts, proofs>>
    BY <1>6 DEF vars, poolVars, treeVars, paidVars
  <2>3. NothingBefore' /\ LeavesMatch' /\ NullifiersMatch' /\ Solvent'
    BY <2>2 DEF IndInv, NothingBefore, LeavesMatch, NullifiersMatch, Solvent
  <2>4. RingInOrder' /\ ProofsSound'
    BY <2>2 DEF IndInv, RingInOrder, ProofsSound, InTree
  <2>5. NoDoubleSpend' /\ PaidAsProved'
    BY <2>2 DEF IndInv, NoDoubleSpend, PaidAsProved
  <2>6. QED
    BY <2>1, <2>3, <2>4, <2>5 DEF IndInv
<1>7. CASE \E from \in Wallets, amount \in Gifts : Gift(from, amount)
  BY <1>7, GiftInv
<1>8. QED
  BY <1>1, <1>2, <1>3, <1>4, <1>5, <1>6, <1>7 DEF Next

\* The inductive invariant holds of every reachable state.
THEOREM Invariant == Spec => []IndInv
  BY InitInv, StepInv, PTL DEF Spec

\* Every variable stays in its Rust type, the u8 ring index in the ring.
THEOREM TypeCorrect == Spec => []TypeOK
  BY Invariant, PTL DEF IndInv

\* The vault always covers one denomination per unpaid commitment.
THEOREM VaultSolvent == Spec => []Solvent
  BY Invariant, PTL DEF IndInv

\* No nullifier is paid twice, however it is encoded or re-proved.
THEOREM PaidOnce == Spec => []NoDoubleSpend
  BY Invariant, PTL DEF IndInv

\* Every payout is, to the lamport, one a holder of a note asked for.
THEOREM PaidToHolder == Spec => []PaidAsProved
  BY Invariant, PTL DEF IndInv

\* Searching the ring finds exactly the recent roots.
LEMMA RingLookup == IndInv => RecentRootsKnown
<1> SUFFICES ASSUME IndInv, NEW count \in Roots
             PROVE  IsKnownRoot(count) <=> /\ count <= nextLeafIndex
                                          /\ nextLeafIndex - count < RootHistorySize
  BY DEF RecentRootsKnown
<1>1. /\ RootHistorySize \in Nat \ {0} /\ currentRootIndex \in 0 .. RootHistorySize - 1
      /\ count \in Nat /\ nextLeafIndex \in Nat
  BY AmountsAssumption DEF IndInv, TypeOK, Slots, Roots
<1>2. ASSUME NEW s \in Slots, rootHistory[s] = count
      PROVE  count <= nextLeafIndex /\ nextLeafIndex - count < RootHistorySize
  <2> DEFINE age == Age(s, currentRootIndex)
  <2>1. age \in Nat /\ age < RootHistorySize
    BY <1>1 DEF Slots, Age
  <2>2. count = IF age <= nextLeafIndex THEN nextLeafIndex - age ELSE 0
    BY <1>2 DEF IndInv, RingInOrder, EmptyRoot
  <2>3. QED
    BY <1>1, <2>1, <2>2
<1>3. ASSUME count <= nextLeafIndex, nextLeafIndex - count < RootHistorySize
      PROVE  \E s \in Slots : rootHistory[s] = count
  <2> DEFINE d == nextLeafIndex - count
             s == IF d <= currentRootIndex THEN currentRootIndex - d
                  ELSE currentRootIndex + RootHistorySize - d
  <2>1. s \in Slots /\ Age(s, currentRootIndex) = d
    BY <1>1, <1>3 DEF Slots, Age
  <2>2. d <= nextLeafIndex /\ nextLeafIndex - d = count
    BY <1>1, <1>3
  <2>3. rootHistory[s] = count
    BY <2>1, <2>2 DEF IndInv, RingInOrder
  <2>4. QED
    BY <2>1, <2>3
<1>4. QED
  BY <1>2, <1>3 DEF IsKnownRoot

\* A root is accepted exactly while fewer than RootHistorySize deposits
\* have followed it.
THEOREM RootsStayKnown == Spec => []RecentRootsKnown
  BY Invariant, RingLookup, PTL

\* Owing at least one note is owing at least a denomination.
LEMMA AtLeastOne ==
    ASSUME NEW d \in Nat, NEW a \in Nat, a >= 1
    PROVE  d * a >= d
<1>1. a - 1 \in Nat /\ d * (a - 1) = d * a - d
  BY OneMore
<1>2. d * (a - 1) >= 0
  BY <1>1, SMT
<1>3. d * a \in Nat
  BY SMT
<1>4. QED
  BY <1>1, <1>2, <1>3

\* Under the invariant every reasonable withdrawal is accepted and covered.
LEMMA NothingLocked == IndInv => NoNoteLocked
<1> SUFFICES ASSUME IndInv, initialized, ~isPaused,
                    NEW p \in Statement, Reasonable(p)
             PROVE  /\ InTree(p.note, p.root)
                    /\ WithdrawAccepts(p, 0, p.terms.recipient, p.terms.relayer)
                    /\ Available >= Denomination
  BY DEF NoNoteLocked
<1>1. /\ p.root = nextLeafIndex /\ p.note \in commitmentAccounts
      /\ p.terms.feeField \in Nat /\ p.terms.feeField < U64
      /\ p.terms.feeField < Denomination
      /\ \A i \in 1 .. Len(payouts) : payouts[i].nullifier # NullifierOf[p.note]
  BY KeysAssumption DEF Reasonable, Statement
<1>2. InTree(p.note, p.root)
  BY <1>1 DEF IndInv, LeavesMatch, InTree, TypeOK
<1>3. WithdrawAccepts(p, 0, p.terms.recipient, p.terms.relayer)
  <2>1. NullifierUnused(<<NullifierOf[p.note], 0>>)
    BY <1>1 DEF IndInv, NullifiersMatch, NullifierUnused
  <2>2. IsKnownRoot(p.root)
    <3>1. p.root \in Roots /\ nextLeafIndex - p.root < RootHistorySize
      BY <1>1, AmountsAssumption DEF Statement, IndInv, TypeOK
    <3>2. QED
      BY <1>1, <3>1, RingLookup, AmountsAssumption
         DEF RecentRootsKnown, IndInv, TypeOK
  <2>3. FeeFits(p.terms.feeField) /\ FeeOf(p) < Denomination
    BY <1>1, SmallMod, AmountsAssumption DEF FeeFits, FeeOf
  <2>4. NotPaused /\ Canonical(0)
    BY DEF NotPaused, Canonical
  <2>5. /\ NoAlias(p.terms.recipient, p.terms.relayer)
        /\ BoundTo(p, p.terms.recipient, p.terms.relayer)
    BY DEF Reasonable, NoAlias, BoundTo
  <2>6. QED
    BY <2>1, <2>2, <2>3, <2>4, <2>5 DEF WithdrawAccepts
<1>4. Available >= Denomination
  <2>1. Len(payouts) < nextLeafIndex
    BY <1>1, PaidNullifiersHold, UnpaidLeavesRoom
  <2> DEFINE owed == nextLeafIndex - Len(payouts)
  <2>2. owed \in Nat /\ owed >= 1
    BY <2>1, AmountsAssumption DEF IndInv, TypeOK
  <2>3. lamports[Pool] >= RentMin + Denomination * owed /\ lamports[Pool] \in Nat
    BY DEF IndInv, Solvent, TypeOK, Accounts
  <2> HIDE DEF owed
  <2>4. Denomination * owed >= Denomination /\ Denomination * owed \in Nat
    BY <2>2, AtLeastOne, AmountsAssumption
  <2>5. QED
    BY <2>3, <2>4, AmountsAssumption DEF Available
<1>5. QED
  BY <1>2, <1>3, <1>4

\* No deposit is ever locked in: unless the pool is paused, a note whose
\* nullifier is unpaid passes every check of withdraw and the vault covers it.
THEOREM NothingLockedIn == Spec => []NoNoteLocked
  BY Invariant, NothingLocked, PTL

(***************************************************************************)
(* Refinement of the ledger.                                               *)
(***************************************************************************)

Receipts == {payouts[i] : i \in 1 .. Len(payouts)}
Vault    == IF initialized THEN lamports[Pool] - RentMin ELSE 0

\* The program starts where the ledger does.
LEMMA LedgerInit == Init => Ledger!Init
<1> SUFFICES ASSUME Init PROVE Ledger!Init
  OBVIOUS
<1>1. commitmentAccounts = {} /\ payouts = <<>> /\ ~initialized
  BY DEF Init
<1>2. {payouts[i] : i \in 1 .. Len(payouts)} = {}
  BY <1>1
<1>3. QED
  BY <1>1, <1>2 DEF Ledger!Init

\* The ledger does not see initialize.
LEMMA InitializeStutters ==
    ASSUME IndInv, NEW caller \in Wallets, Initialize(caller)
    PROVE  UNCHANGED <<commitmentAccounts, Receipts, Vault>>
<1>1. ~initialized /\ initialized' /\ UNCHANGED <<commitmentAccounts, payouts>>
  BY DEF Initialize, paidVars
<1>2. lamports'[Pool] = RentMin
  BY InitializeInv
<1>3. Vault = 0 /\ Vault' = 0
  BY <1>1, <1>2, AmountsAssumption DEF Vault
<1>4. QED
  BY <1>1, <1>3 DEF Receipts

\* A deposit is the ledger taking a note.
LEMMA DepositTakes ==
    ASSUME IndInv, NEW depositor \in Wallets, NEW note \in Notes,
           Deposit(depositor, note)
    PROVE  /\ note \notin commitmentAccounts
           /\ commitmentAccounts' = commitmentAccounts \cup {note}
           /\ Vault' = Vault + Denomination
           /\ UNCHANGED Receipts
<1>1. /\ note \notin commitmentAccounts
      /\ commitmentAccounts' = commitmentAccounts \cup {note}
      /\ initialized /\ initialized' = initialized /\ payouts' = payouts
  BY DEF Deposit, CommitmentUnused, poolVars, paidVars
<1>2. lamports'[Pool] = lamports[Pool] + Denomination /\ lamports[Pool] \in Nat
  <2>1. /\ lamports \in [Accounts -> Nat]
        /\ depositor \in Accounts /\ Pool \in Accounts /\ depositor # Pool
        /\ Denomination \in Nat /\ lamports[depositor] >= Denomination
        /\ lamports' = Move(lamports, depositor, Pool, Denomination)
    BY KeysAssumption, AmountsAssumption DEF Deposit, Accounts, IndInv, TypeOK
  <2>2. QED
    BY <2>1, MoveFacts
<1>3. Vault' = Vault + Denomination
  BY <1>1, <1>2, AmountsAssumption DEF Vault
<1>4. QED
  BY <1>1, <1>3 DEF Receipts

\* A withdrawal is the ledger paying the nullifier of a taken note.
LEMMA WithdrawGives ==
    ASSUME IndInv, NEW p \in proofs, NEW shift \in Shifts,
           NEW recipient \in Accounts, NEW relayer \in Accounts,
           Withdraw(p, shift, recipient, relayer)
    PROVE  /\ \A r \in Receipts : r.nullifier # NullifierOf[p.note]
           /\ Vault \in Int /\ Vault >= Denomination
           /\ Vault' = Vault - Denomination
           /\ Receipts' = Receipts \cup
                 {[nullifier |-> NullifierOf[p.note], recipient |-> recipient,
                   relayer |-> relayer, amount |-> Denomination - FeeOf(p),
                   fee |-> FeeOf(p)]}
           /\ UNCHANGED commitmentAccounts
<1> DEFINE paid == [nullifier |-> NullifierOf[p.note], recipient |-> recipient,
                    relayer |-> relayer, amount |-> Denomination - FeeOf(p),
                    fee |-> FeeOf(p)]
<1>1. /\ payouts \in Seq(Payout) /\ payouts' = Append(payouts, paid)
      /\ lamports' = Pay(recipient, relayer, FeeOf(p))
      /\ initialized /\ UNCHANGED <<initialized, commitmentAccounts>>
  BY DEF IndInv, TypeOK, Withdraw, WithdrawAccepts, poolVars, treeVars
<1>2. lamports'[Pool] = lamports[Pool] - Denomination
  <2>1. lamports \in [Accounts -> Nat] /\ lamports[Pool] >= Denomination
    BY WithdrawFacts, AmountsAssumption DEF IndInv, TypeOK
  <2>2. QED
    BY <1>1, <2>1, WithdrawFacts, PayFacts
<1>3. /\ Vault \in Int /\ Vault >= Denomination
      /\ Vault' = Vault - Denomination
  BY <1>1, <1>2, WithdrawFacts, AmountsAssumption DEF Vault
<1>4. paid \in Payout
  BY WithdrawFacts, AmountsAssumption DEF Payout
<1>5. Receipts' = Receipts \cup {paid}
  <2> HIDE DEF paid
  <2>1. /\ Len(payouts) \in Nat /\ Len(payouts') = Len(payouts) + 1
        /\ \A i \in 1 .. Len(payouts') :
               payouts'[i] = IF i <= Len(payouts) THEN payouts[i] ELSE paid
    BY <1>1, <1>4
  <2>2. QED
    BY <2>1 DEF Receipts
<1>6. \A r \in Receipts : r.nullifier # NullifierOf[p.note]
  BY WithdrawFacts DEF Receipts
<1>7. QED
  BY <1>1, <1>3, <1>5, <1>6

\* Every step of the program is a step of the ledger, or a stutter.
LEMMA LedgerStep == IndInv /\ [Next]_vars => [Ledger!Next]_(Ledger!vars)
<1> SUFFICES ASSUME IndInv, [Next]_vars PROVE [Ledger!Next]_(Ledger!vars)
  OBVIOUS
<1>1. ASSUME UNCHANGED <<commitmentAccounts, Receipts, Vault>>
      PROVE  UNCHANGED Ledger!vars
  BY <1>1 DEF Ledger!vars, Receipts, Vault
<1>2. CASE \E caller \in Wallets : Initialize(caller)
  BY <1>1, <1>2, InitializeStutters
<1>3. CASE \E caller \in Wallets, paused \in BOOLEAN : SetPaused(caller, paused)
  BY <1>1, <1>3 DEF SetPaused, treeVars, paidVars, Receipts, Vault
<1>4. CASE \E depositor \in Wallets, note \in Notes : Deposit(depositor, note)
  <2>1. PICK depositor \in Wallets, note \in Notes : Deposit(depositor, note)
    BY <1>4
  <2>2. Ledger!Take(note)
    BY <2>1, DepositTakes DEF Ledger!Take, Receipts, Vault
  <2>3. QED
    BY <2>2 DEF Ledger!Next
<1>5. CASE \E p \in proofs, shift \in Shifts, recipient, relayer \in Accounts :
              Withdraw(p, shift, recipient, relayer)
  <2>1. PICK p \in proofs, shift \in Shifts, recipient \in Accounts,
             relayer \in Accounts : Withdraw(p, shift, recipient, relayer)
    BY <1>5
  <2> DEFINE amount == Denomination - FeeOf(p)
  <2>2. /\ p.note \in Notes /\ p.note \in commitmentAccounts
        /\ recipient \in Wallets /\ relayer \in Wallets
        /\ amount \in 0 .. Denomination /\ FeeOf(p) \in 0 .. Denomination
        /\ amount > 0 /\ FeeOf(p) >= 0 /\ amount + FeeOf(p) = Denomination
    BY <2>1, WithdrawFacts, AmountsAssumption DEF Statement
  <2>3. Ledger!Give(p.note, recipient, relayer, amount, FeeOf(p))
    BY <2>1, <2>2, WithdrawGives DEF Ledger!Give, Receipts, Vault
  <2>4. QED
    BY <2>2, <2>3 DEF Ledger!Next
<1>6. CASE \E p \in Statement : Prove(p)
  BY <1>1, <1>6 DEF Prove, poolVars, treeVars, paidVars, Receipts, Vault
<1>7. CASE UNCHANGED vars
  BY <1>1, <1>7 DEF vars, poolVars, treeVars, paidVars, Receipts, Vault
<1>8. CASE \E from \in Wallets, amount \in Gifts : Gift(from, amount)
  <2>1. PICK from \in Wallets, amount \in Gifts : Gift(from, amount)
    BY <1>8
  <2>2. lamports'[Pool] = lamports[Pool] + amount /\ lamports[Pool] \in Nat
    BY <2>1, GiftInv
  <2>3. initialized /\ UNCHANGED <<initialized, commitmentAccounts, payouts>>
    BY <2>1 DEF Gift, poolVars, treeVars, paidVars
  <2>4. Vault' = Vault + amount
    BY <2>2, <2>3, AmountsAssumption DEF Vault
  <2>5. Ledger!Gift(amount)
    BY <2>3, <2>4 DEF Ledger!Gift, Vault
  <2>6. QED
    BY <2>5 DEF Ledger!Next
<1>9. QED
  BY <1>2, <1>3, <1>4, <1>5, <1>6, <1>7, <1>8 DEF Next

\* The program implements the ledger: nothing in the tree, the root ring, the
\* encodings or the account checks lets it give more than the ledger gives.
THEOREM Refinement == Spec => ImplementsLedger
  BY Invariant, LedgerInit, LedgerStep, PTL DEF Spec, ImplementsLedger, Ledger!Spec

(***************************************************************************)
(* MerkleInsertion, for any number of levels and any hash.  First an       *)
(* induction that the provers can instantiate: over a set of heights.      *)
(***************************************************************************)

\* Every nonempty set of natural numbers has a least element.
LEMMA LeastNatural ==
    ASSUME NEW T \in SUBSET Nat, T # {}
    PROVE  \E m \in T : \A k \in T : m <= k
<1> DEFINE R == {ss \in Nat \X Nat : ss[1] < ss[2]}
<1>1. IsWellFoundedOn(R, Nat)
  BY NatLessThanWellFounded DEF OpToRel
<1> HIDE DEF R
<1>2. PICK m \in T : \A k \in T : <<k, m>> \notin R
  BY <1>1, WFMin
<1>3. \A k \in T : k \in Nat /\ m \in Nat /\ ~(k < m)
  BY <1>2 DEF R
<1> QED
  BY <1>3

\* A set of heights that holds 0 and is closed under one step up is all of them.
LEMMA Climb ==
    ASSUME NEW n \in Nat, NEW S, 0 \in S,
           \A i \in 0 .. n - 1 : i \in S => i + 1 \in S
    PROVE  \A i \in 0 .. n : i \in S
<1> DEFINE T == {i \in 0 .. n : i \notin S}
<1>1. SUFFICES ASSUME T # {} PROVE FALSE
  OBVIOUS
<1>2. T \in SUBSET Nat
  OBVIOUS
<1> HIDE DEF T
<1>3. PICK m \in T : \A k \in T : m <= k
  BY <1>1, <1>2, LeastNatural
<1> USE DEF T
<1>4. m # 0 /\ m - 1 \in 0 .. n - 1 /\ m - 1 \notin T
  BY <1>3
<1> QED
  BY <1>4

\* The number of leaves below a node doubles with each level.
DoublesTo(f, n) == f = [h \in 0 .. n |-> IF h = 0 THEN 1 ELSE 2 * f[h - 1]]

LEMMA DoublingExists ==
    ASSUME NEW n \in Nat
    PROVE  \E f : DoublesTo(f, n)
<1> DEFINE S == {m \in Nat : \E f : DoublesTo(f, m)}
<1>1. 0 \in S
  <2>1. DoublesTo([h \in 0 .. 0 |-> 1], 0)
    BY DEF DoublesTo
  <2> QED
    BY <2>1
<1>2. ASSUME NEW m \in 0 .. n - 1, m \in S
      PROVE  m + 1 \in S
  <2>1. PICK f : DoublesTo(f, m)
    BY <1>2
  <2> DEFINE g == [h \in 0 .. m + 1 |-> IF h = 0 THEN 1 ELSE 2 * f[h - 1]]
  <2>2. \A h \in 0 .. m : g[h] = f[h]
    BY <2>1 DEF DoublesTo
  <2>3. DoublesTo(g, m + 1)
    BY <2>2, SMTT(30) DEF DoublesTo
  <2> QED
    BY <2>3
<1> HIDE DEF S
<1>3. n \in S
  BY <1>1, <1>2, Climb
<1> QED
  BY <1>3 DEF S

LEMMA LeavesDef == DoublesTo(Leaves, Levels)
<1>1. \E f : f = [h \in 0 .. Levels |-> IF h = 0 THEN 1 ELSE 2 * f[h - 1]]
  BY DoublingExists, LevelsAssumption DEF DoublesTo
<1> QED
  BY <1>1 DEF Leaves, DoublesTo

LEMMA LeavesStep ==
    /\ Leaves[0] = 1
    /\ \A h \in 0 .. Levels : Leaves[h] \in Nat \ {0}
    /\ \A h \in 0 .. Levels - 1 : Leaves[h + 1] = 2 * Leaves[h]
<1>1. /\ Leaves[0] = 1
      /\ \A h \in 0 .. Levels - 1 : Leaves[h + 1] = 2 * Leaves[h]
  BY LeavesDef, LevelsAssumption DEF DoublesTo
<1> DEFINE S == {h \in 0 .. Levels : Leaves[h] \in Nat \ {0}}
<1>2. 0 \in S
  BY <1>1, LevelsAssumption
<1>3. ASSUME NEW h \in 0 .. Levels - 1, h \in S
      PROVE  h + 1 \in S
  BY <1>1, <1>3, LevelsAssumption
<1> HIDE DEF S
<1>4. \A h \in 0 .. Levels : h \in S
  BY <1>2, <1>3, Climb, LevelsAssumption
<1> QED
  BY <1>1, <1>4 DEF S

(***************************************************************************)
(* The node of height l above leaf k.                                      *)
(***************************************************************************)
Up(k, l) == k \div Leaves[l]

LEMMA DivHalf ==
    ASSUME NEW k \in Nat, NEW p \in Nat \ {0}
    PROVE  k \div p \in Nat /\ k \div (2 * p) = (k \div p) \div 2
  OBVIOUS

LEMMA DivNext ==
    ASSUME NEW k \in Nat, NEW p \in Nat \ {0}
    PROVE  (k + 1) \div p \in {k \div p, k \div p + 1}
  OBVIOUS

LEMMA DivOrder ==
    ASSUME NEW k \in Nat, NEW j \in 0 .. k, NEW p \in Nat \ {0}
    PROVE  j \div p <= k \div p
  OBVIOUS

LEMMA UpStep ==
    ASSUME NEW k \in Nat
    PROVE  /\ Up(k, 0) = k
           /\ \A l \in 0 .. Levels : Up(k, l) \in Nat
           /\ \A l \in 0 .. Levels - 1 : Up(k, l + 1) = Up(k, l) \div 2
<1>1. Up(k, 0) = k
  BY LeavesStep DEF Up
<1>2. \A l \in 0 .. Levels : Up(k, l) \in Nat
  BY LeavesStep, DivHalf DEF Up
<1>3. ASSUME NEW l \in 0 .. Levels - 1
      PROVE  Up(k, l + 1) = Up(k, l) \div 2
  <2>1. Leaves[l] \in Nat \ {0} /\ Leaves[l + 1] = 2 * Leaves[l]
    BY LeavesStep, LevelsAssumption
  <2> QED
    BY <2>1, DivHalf DEF Up
<1> QED
  BY <1>1, <1>2, <1>3

\* A leaf of the tree has a node above it in every layer, at the top the root.
LEMMA UpInLayer ==
    ASSUME NEW k \in 0 .. Leaves[Levels] - 1
    PROVE  /\ \A l \in 0 .. Levels : Up(k, l) \in 0 .. Leaves[Levels - l] - 1
           /\ Up(k, Levels) = 0
<1>1. k \in Nat
  BY LeavesStep, LevelsAssumption
<1> DEFINE S == {l \in 0 .. Levels : Up(k, l) < Leaves[Levels - l]}
<1>2. 0 \in S
  BY <1>1, UpStep, LeavesStep, LevelsAssumption
<1>3. ASSUME NEW l \in 0 .. Levels - 1, l \in S
      PROVE  l + 1 \in S
  <2> DEFINE h == Levels - (l + 1)
  <2>1. h \in 0 .. Levels - 1 /\ Levels - l = h + 1 /\ l \in 0 .. Levels /\ l + 1 \in 0 .. Levels
    BY LevelsAssumption
  <2>2. Leaves[Levels - l] = 2 * Leaves[h] /\ Leaves[h] \in Nat
    BY <2>1, LeavesStep, LevelsAssumption
  <2>3. Up(k, l) \in Nat /\ Up(k, l) < 2 * Leaves[h] /\ Up(k, l + 1) = Up(k, l) \div 2
    BY <1>1, <1>3, <2>1, <2>2, UpStep
  <2>4. Up(k, l + 1) < Leaves[h]
    BY <2>2, <2>3
  <2> QED
    BY <2>1, <2>4
<1> HIDE DEF S
<1>4. \A l \in 0 .. Levels : l \in S
  BY <1>2, <1>3, Climb, LevelsAssumption
<1>5. \A l \in 0 .. Levels : Up(k, l) \in Nat /\ Leaves[Levels - l] \in Nat
  <2>1. \A l \in 0 .. Levels : Levels - l \in 0 .. Levels
    BY LevelsAssumption
  <2> QED
    BY <1>1, <2>1, UpStep, LeavesStep
<1>6. \A l \in 0 .. Levels : Up(k, l) \in 0 .. Leaves[Levels - l] - 1
  BY <1>4, <1>5 DEF S
<1>7. Levels \in 0 .. Levels /\ Levels - Levels = 0
  BY LevelsAssumption
<1> QED
  BY <1>6, <1>7, LeavesStep

(***************************************************************************)
(* The recursion equations of the zero hashes, of the tree and of the path *)
(* check; everything else is derived from them.                            *)
(***************************************************************************)
ZerosTo(f, n) ==
    f = [i \in 0 .. n |-> IF i = 0 THEN Hash(Zero, Zero)
                                   ELSE Hash(f[i - 1], f[i - 1])]

LEMMA ZerosExist ==
    ASSUME NEW n \in Nat
    PROVE  \E f : ZerosTo(f, n)
<1> DEFINE S == {m \in Nat : \E f : ZerosTo(f, m)}
<1>1. 0 \in S
  <2>1. ZerosTo([i \in 0 .. 0 |-> Hash(Zero, Zero)], 0)
    BY DEF ZerosTo
  <2> QED
    BY <2>1
<1>2. ASSUME NEW m \in 0 .. n - 1, m \in S
      PROVE  m + 1 \in S
  <2>1. PICK f : ZerosTo(f, m)
    BY <1>2
  <2> DEFINE g == [i \in 0 .. m + 1 |-> IF i = 0 THEN Hash(Zero, Zero)
                                                 ELSE Hash(f[i - 1], f[i - 1])]
  <2>2. \A i \in 0 .. m : g[i] = f[i]
    BY <2>1 DEF ZerosTo
  <2>3. \A i \in 0 .. m + 1 : g[i] = IF i = 0 THEN Hash(Zero, Zero)
                                             ELSE Hash(g[i - 1], g[i - 1])
    BY <2>2
  <2> HIDE DEF g
  <2>4. g = [i \in 0 .. m + 1 |-> g[i]]
    BY DEF g
  <2>5. ZerosTo(g, m + 1)
    BY <2>3, <2>4 DEF ZerosTo
  <2> QED
    BY <2>5
<1> HIDE DEF S
<1>3. n \in S
  BY <1>1, <1>2, Climb
<1> QED
  BY <1>3 DEF S

LEMMA ZeroHashesDef == ZerosTo(ZeroHashes, Levels - 1)
<1>1. Levels - 1 \in Nat
  BY LevelsAssumption
<1>2. \E f : f = [i \in 0 .. Levels - 1 |-> IF i = 0 THEN Hash(Zero, Zero)
                                             ELSE Hash(f[i - 1], f[i - 1])]
  BY <1>1, ZerosExist DEF ZerosTo
<1> QED
  BY <1>2 DEF ZeroHashes, ZerosTo

\* An empty subtree is two empty subtrees of the height below.
LEMMA ZeroStep ==
    /\ ZeroSibling(0) = Zero
    /\ \A l \in 0 .. Levels - 1 :
          ZeroSibling(l + 1) = Hash(ZeroSibling(l), ZeroSibling(l))
  BY ZeroHashesDef, LevelsAssumption DEF ZerosTo, ZeroSibling

LayersTo(t, s, n) ==
    t = [l \in 0 .. n |-> IF l = 0 THEN LeafLayer(s) ELSE LayerOver(t[l - 1], l)]

LEMMA LayersExist ==
    ASSUME NEW s, NEW n \in Nat
    PROVE  \E t : LayersTo(t, s, n)
<1> DEFINE S == {m \in Nat : \E t : LayersTo(t, s, m)}
<1>1. 0 \in S
  <2>1. LayersTo([l \in 0 .. 0 |-> LeafLayer(s)], s, 0)
    BY DEF LayersTo
  <2> QED
    BY <2>1
<1>2. ASSUME NEW m \in 0 .. n - 1, m \in S
      PROVE  m + 1 \in S
  <2>1. PICK t : LayersTo(t, s, m)
    BY <1>2
  <2> DEFINE g == [l \in 0 .. m + 1 |-> IF l = 0 THEN LeafLayer(s)
                                                 ELSE LayerOver(t[l - 1], l)]
  <2>2. \A l \in 0 .. m : g[l] = t[l]
    BY <2>1 DEF LayersTo
  <2>3. \A l \in 0 .. m + 1 : g[l] = IF l = 0 THEN LeafLayer(s)
                                             ELSE LayerOver(g[l - 1], l)
    BY <2>2, SMTT(30)
  <2> HIDE DEF g
  <2>4. g = [l \in 0 .. m + 1 |-> g[l]]
    BY DEF g
  <2>5. LayersTo(g, s, m + 1)
    BY <2>3, <2>4 DEF LayersTo
  <2> QED
    BY <2>5
<1> HIDE DEF S
<1>3. n \in S
  BY <1>1, <1>2, Climb
<1> QED
  BY <1>3 DEF S

LEMMA TreeDef ==
    ASSUME NEW s
    PROVE  LayersTo(TreeOf(s), s, Levels)
<1>1. \E t : LayersTo(t, s, Levels)
  BY LayersExist, LevelsAssumption
<1>2. \E t : t = [l \in 0 .. Levels |-> IF l = 0 THEN LeafLayer(s)
                                       ELSE LayerOver(t[l - 1], l)]
  BY <1>1 DEF LayersTo
<1> QED
  BY <1>2 DEF TreeOf, LayersTo

\* The lowest layer is the leaves, each other one the hashes of that below.
LEMMA TreeStep ==
    ASSUME NEW s
    PROVE  /\ \A k \in 0 .. Leaves[Levels] - 1 : TreeOf(s)[0][k] = Leaf(s, k)
           /\ \A l \in 0 .. Levels - 1 : \A k \in 0 .. Leaves[Levels - (l + 1)] - 1 :
                 TreeOf(s)[l + 1][k] = Hash(TreeOf(s)[l][2 * k], TreeOf(s)[l][2 * k + 1])
<1>1. TreeOf(s)[0] = LeafLayer(s)
  BY TreeDef, LevelsAssumption DEF LayersTo
<1>2. ASSUME NEW l \in 0 .. Levels - 1
      PROVE  TreeOf(s)[l + 1] = LayerOver(TreeOf(s)[l], l + 1)
  BY TreeDef, LevelsAssumption DEF LayersTo
<1> QED
  BY <1>1, <1>2 DEF LeafLayer, LayerOver

\* The two nodes below a node, and what lies under them.
LEMMA Below ==
    ASSUME NEW l \in 0 .. Levels - 1, NEW k \in 0 .. Leaves[Levels - (l + 1)] - 1
    PROVE  /\ 2 * k \in 0 .. Leaves[Levels - l] - 1
           /\ 2 * k + 1 \in 0 .. Leaves[Levels - l] - 1
           /\ \A i \in Nat : Up(i, l) \in {2 * k, 2 * k + 1} => Up(i, l + 1) = k
<1> DEFINE h == Levels - (l + 1)
<1>1. h \in 0 .. Levels - 1 /\ Levels - l = h + 1 /\ l \in 0 .. Levels
  BY LevelsAssumption
<1>2. Leaves[Levels - l] = 2 * Leaves[h] /\ Leaves[h] \in Nat
  BY <1>1, LeavesStep, LevelsAssumption
<1>3. k \in 0 .. Leaves[h] - 1
  OBVIOUS
<1> HIDE DEF h
<1>4. /\ 2 * k \in 0 .. Leaves[Levels - l] - 1
      /\ 2 * k + 1 \in 0 .. Leaves[Levels - l] - 1
  BY <1>2, <1>3
<1>5. ASSUME NEW i \in Nat, Up(i, l) \in {2 * k, 2 * k + 1}
      PROVE  Up(i, l + 1) = k
  <2>1. Up(i, l + 1) = Up(i, l) \div 2 /\ k \in Nat
    BY <1>2, <1>3, UpStep
  <2>2. CASE Up(i, l) = 2 * k
    BY <2>1, <2>2
  <2>3. CASE Up(i, l) = 2 * k + 1
    BY <2>1, <2>3
  <2> QED
    BY <1>5, <2>2, <2>3
<1> QED
  BY <1>4, <1>5

\* A node depends on the leaves under it only.
LEMMA SameNode ==
    ASSUME NEW s, NEW t
    PROVE  \A l \in 0 .. Levels : \A k \in 0 .. Leaves[Levels - l] - 1 :
              (\A i \in Nat : Up(i, l) = k => Leaf(s, i) = Leaf(t, i))
              => TreeOf(s)[l][k] = TreeOf(t)[l][k]
<1> DEFINE Agree(l, k) == \A i \in Nat : Up(i, l) = k => Leaf(s, i) = Leaf(t, i)
           S == {l \in 0 .. Levels : \A k \in 0 .. Leaves[Levels - l] - 1 :
                    Agree(l, k) => TreeOf(s)[l][k] = TreeOf(t)[l][k]}
<1>1. 0 \in S
  <2>1. 0 \in 0 .. Levels /\ Levels - 0 = Levels /\ Leaves[Levels] \in Nat
    BY LeavesStep, LevelsAssumption
  <2>2. ASSUME NEW k \in 0 .. Leaves[Levels] - 1, Agree(0, k)
        PROVE  TreeOf(s)[0][k] = TreeOf(t)[0][k]
    <3>1. k \in Nat /\ Up(k, 0) = k
      BY <2>1, UpStep
    <3>2. Leaf(s, k) = Leaf(t, k)
      BY <2>2, <3>1
    <3> QED
      BY <3>2, TreeStep
  <2> QED
    BY <2>1, <2>2
<1>2. ASSUME NEW l \in 0 .. Levels - 1, l \in S
      PROVE  l + 1 \in S
  <2>1. l + 1 \in 0 .. Levels
    BY LevelsAssumption
  <2>2. ASSUME NEW k \in 0 .. Leaves[Levels - (l + 1)] - 1, Agree(l + 1, k)
        PROVE  TreeOf(s)[l + 1][k] = TreeOf(t)[l + 1][k]
    <3>1. Agree(l, 2 * k) /\ Agree(l, 2 * k + 1)
      BY <2>2, Below
    <3> HIDE DEF Agree
    <3>2. /\ TreeOf(s)[l][2 * k] = TreeOf(t)[l][2 * k]
          /\ TreeOf(s)[l][2 * k + 1] = TreeOf(t)[l][2 * k + 1]
      BY <1>2, <3>1, Below
    <3> QED
      BY <3>2, TreeStep
  <2> QED
    BY <2>1, <2>2
<1> HIDE DEF S
<1>3. \A l \in 0 .. Levels : l \in S
  BY <1>1, <1>2, Climb, LevelsAssumption
<1> QED
  BY <1>3 DEF S

\* A node with no leaf under it is the empty subtree of its height.
LEMMA EmptyNode ==
    ASSUME NEW s
    PROVE  \A l \in 0 .. Levels : \A k \in 0 .. Leaves[Levels - l] - 1 :
              (\A i \in Nat : Up(i, l) = k => Leaf(s, i) = Zero)
              => TreeOf(s)[l][k] = ZeroSibling(l)
<1> DEFINE Bare(l, k) == \A i \in Nat : Up(i, l) = k => Leaf(s, i) = Zero
           S == {l \in 0 .. Levels : \A k \in 0 .. Leaves[Levels - l] - 1 :
                    Bare(l, k) => TreeOf(s)[l][k] = ZeroSibling(l)}
<1>1. 0 \in S
  <2>1. 0 \in 0 .. Levels /\ Levels - 0 = Levels /\ Leaves[Levels] \in Nat
    BY LeavesStep, LevelsAssumption
  <2>2. ASSUME NEW k \in 0 .. Leaves[Levels] - 1, Bare(0, k)
        PROVE  TreeOf(s)[0][k] = ZeroSibling(0)
    <3>1. k \in Nat /\ Up(k, 0) = k
      BY <2>1, UpStep
    <3>2. Leaf(s, k) = Zero
      BY <2>2, <3>1
    <3> QED
      BY <3>2, TreeStep, ZeroStep
  <2> QED
    BY <2>1, <2>2
<1>2. ASSUME NEW l \in 0 .. Levels - 1, l \in S
      PROVE  l + 1 \in S
  <2>1. l + 1 \in 0 .. Levels
    BY LevelsAssumption
  <2>2. ASSUME NEW k \in 0 .. Leaves[Levels - (l + 1)] - 1, Bare(l + 1, k)
        PROVE  TreeOf(s)[l + 1][k] = ZeroSibling(l + 1)
    <3>1. Bare(l, 2 * k) /\ Bare(l, 2 * k + 1)
      BY <2>2, Below
    <3> HIDE DEF Bare
    <3>2. /\ TreeOf(s)[l][2 * k] = ZeroSibling(l)
          /\ TreeOf(s)[l][2 * k + 1] = ZeroSibling(l)
      BY <1>2, <3>1, Below
    <3> QED
      BY <3>2, TreeStep, ZeroStep
  <2> QED
    BY <2>1, <2>2
<1> HIDE DEF S
<1>3. \A l \in 0 .. Levels : l \in S
  BY <1>1, <1>2, Climb, LevelsAssumption
<1> QED
  BY <1>3 DEF S

\* A new leaf changes only the nodes above it.
LEMMA AppendElsewhere ==
    ASSUME NEW s \in Seq(Commitments), NEW c \in Commitments,
           NEW l \in 0 .. Levels, NEW k \in 0 .. Leaves[Levels - l] - 1,
           Up(Len(s), l) # k
    PROVE  TreeOf(Append(s, c))[l][k] = TreeOf(s)[l][k]
<1>1. ASSUME NEW i \in Nat, i # Len(s)
      PROVE  Leaf(Append(s, c), i) = Leaf(s, i)
  BY <1>1 DEF Leaf
<1>2. \A i \in Nat : Up(i, l) = k => Leaf(Append(s, c), i) = Leaf(s, i)
  BY <1>1
<1> QED
  BY <1>2, SameNode

\* To the right of the last leaf there are only empty subtrees.
LEMMA EmptyBeyond ==
    ASSUME NEW s \in Seq(Commitments), NEW n \in 0 .. Leaves[Levels] - 1,
           Len(s) = n + 1, NEW l \in 0 .. Levels - 1, Up(n, l) % 2 = 0
    PROVE  /\ Up(n, l) + 1 \in 0 .. Leaves[Levels - l] - 1
           /\ TreeOf(s)[l][Up(n, l) + 1] = ZeroSibling(l)
<1>1. n \in Nat /\ l \in 0 .. Levels /\ l + 1 \in 0 .. Levels
  BY LeavesStep, LevelsAssumption
<1>2. /\ Up(n, l) \in Nat
      /\ Up(n, l + 1) = Up(n, l) \div 2
      /\ Up(n, l + 1) \in 0 .. Leaves[Levels - (l + 1)] - 1
  BY <1>1, UpStep, UpInLayer
<1>3. Up(n, l) + 1 = 2 * Up(n, l + 1) + 1
  BY <1>2
<1>4. Up(n, l) + 1 \in 0 .. Leaves[Levels - l] - 1
  BY <1>2, <1>3, Below
<1>5. ASSUME NEW i \in Nat, Up(i, l) = Up(n, l) + 1
      PROVE  Leaf(s, i) = Zero
  <2>1. CASE i \in 0 .. n
    <3>1. Up(i, l) <= Up(n, l)
      BY <1>1, <2>1, DivOrder, LeavesStep DEF Up
    <3> QED
      BY <1>2, <1>5, <3>1
  <2>2. CASE ~(i < Len(s))
    BY <2>2 DEF Leaf
  <2> QED
    BY <1>1, <2>1, <2>2
<1> QED
  BY <1>1, <1>4, <1>5, EmptyNode

\* Hashing a node with its sibling gives the node above, on either side.
LEMMA Upward ==
    ASSUME NEW s, NEW n \in 0 .. Leaves[Levels] - 1, NEW l \in 0 .. Levels - 1
    PROVE  LET x == Up(n, l) IN
           /\ x \in Nat
           /\ Up(n, l + 1) = x \div 2
           /\ x % 2 = 0 => TreeOf(s)[l + 1][x \div 2] =
                              Hash(TreeOf(s)[l][x], TreeOf(s)[l][x + 1])
           /\ x % 2 # 0 => TreeOf(s)[l + 1][x \div 2] =
                              Hash(TreeOf(s)[l][x - 1], TreeOf(s)[l][x])
<1>1. n \in Nat /\ l \in 0 .. Levels /\ l + 1 \in 0 .. Levels
  BY LeavesStep, LevelsAssumption
<1>2. PICK x : x = Up(n, l)
  OBVIOUS
<1>3. /\ x \in Nat
      /\ Up(n, l + 1) = x \div 2
      /\ x \div 2 \in 0 .. Leaves[Levels - (l + 1)] - 1
  BY <1>1, <1>2, UpStep, UpInLayer
<1>4. TreeOf(s)[l + 1][x \div 2] =
         Hash(TreeOf(s)[l][2 * (x \div 2)], TreeOf(s)[l][2 * (x \div 2) + 1])
  BY <1>3, TreeStep
<1>5. CASE x % 2 = 0
  <2>1. 2 * (x \div 2) = x
    BY <1>3, <1>5
  <2> QED
    BY <1>2, <1>3, <1>4, <1>5, <2>1
<1>6. CASE x % 2 # 0
  <2>1. 2 * (x \div 2) = x - 1 /\ 2 * (x \div 2) + 1 = x
    BY <1>3, <1>6
  <2> QED
    BY <1>2, <1>3, <1>4, <1>6, <2>1
<1> QED
  BY <1>5, <1>6

(***************************************************************************)
(* The path check: it goes up the nodes above the leaf.                    *)
(***************************************************************************)
PathTo(f, k, n) ==
    f = [l \in 0 .. n |-> IF l = 0 THEN Leaf(leafs, k) ELSE Combine(k, l - 1, f[l - 1])]

LEMMA PathExists ==
    ASSUME NEW k, NEW n \in Nat
    PROVE  \E f : PathTo(f, k, n)
<1> DEFINE S == {m \in Nat : \E f : PathTo(f, k, m)}
<1>1. 0 \in S
  <2>1. PathTo([l \in 0 .. 0 |-> Leaf(leafs, k)], k, 0)
    BY DEF PathTo
  <2> QED
    BY <2>1
<1>2. ASSUME NEW m \in 0 .. n - 1, m \in S
      PROVE  m + 1 \in S
  <2>1. PICK f : PathTo(f, k, m)
    BY <1>2
  <2> DEFINE g == [l \in 0 .. m + 1 |-> IF l = 0 THEN Leaf(leafs, k)
                                                 ELSE Combine(k, l - 1, f[l - 1])]
  <2>2. \A l \in 0 .. m : g[l] = f[l]
    BY <2>1 DEF PathTo
  <2>3. \A l \in 0 .. m + 1 : g[l] = IF l = 0 THEN Leaf(leafs, k)
                                             ELSE Combine(k, l - 1, g[l - 1])
    <3>1. \A l \in 0 .. m + 1 : l # 0 => l - 1 \in 0 .. m
      OBVIOUS
    <3> QED
      BY <2>2, <3>1
  <2> HIDE DEF g
  <2>4. g = [l \in 0 .. m + 1 |-> g[l]]
    BY DEF g
  <2>5. PathTo(g, k, m + 1)
    BY <2>3, <2>4 DEF PathTo
  <2> QED
    BY <2>5
<1> HIDE DEF S
<1>3. n \in S
  BY <1>1, <1>2, Climb
<1> QED
  BY <1>3 DEF S

\* The circuit's check of the path of any leaf ends at the root of the tree.
LEMMA CheckedIsRoot ==
    ASSUME NEW k \in 0 .. Leaves[Levels] - 1
    PROVE  Checked(k) = Tree[Levels][0]
<1>1. \E f : PathTo(f, k, Levels)
  BY PathExists, LevelsAssumption
<1>2. \E f : f = [l \in 0 .. Levels |-> IF l = 0 THEN Leaf(leafs, k)
                                       ELSE Combine(k, l - 1, f[l - 1])]
  BY <1>1 DEF PathTo
<1>3. PICK f : Checked(k) = f[Levels] /\ PathTo(f, k, Levels)
  BY <1>2 DEF Checked, PathTo
<1>4. /\ f[0] = Leaf(leafs, k)
      /\ \A l \in 0 .. Levels - 1 : f[l + 1] = Combine(k, l, f[l])
  BY <1>3, LevelsAssumption DEF PathTo
<1> DEFINE S == {l \in 0 .. Levels : f[l] = Tree[l][Up(k, l)]}
<1>5. 0 \in S
  <2>1. k \in Nat
    BY LeavesStep, LevelsAssumption
  <2> QED
    BY <1>4, <2>1, TreeStep, UpStep, LevelsAssumption DEF Tree
<1>6. ASSUME NEW l \in 0 .. Levels - 1, l \in S
      PROVE  l + 1 \in S
  <2>1. f[l + 1] = Combine(k, l, Tree[l][Up(k, l)])
    BY <1>4, <1>6
  <2>2. Up(k, l) \in Nat /\ Up(k, l + 1) = Up(k, l) \div 2
    BY Upward
  <2>3. ASSUME Up(k, l) % 2 = 0
        PROVE  f[l + 1] = Tree[l + 1][Up(k, l + 1)]
    <3>1. /\ PathIndex(k, l) = 0
          /\ PathElement(k, l) = Tree[l][Up(k, l) + 1]
      BY <2>3 DEF PathIndex, PathElement, Up
    <3>2. Tree[l + 1][Up(k, l + 1)] = Hash(Tree[l][Up(k, l)], Tree[l][Up(k, l) + 1])
      BY <2>3, Upward DEF Tree
    <3> QED
      BY <2>1, <3>1, <3>2 DEF Combine
  <2>4. ASSUME Up(k, l) % 2 # 0
        PROVE  f[l + 1] = Tree[l + 1][Up(k, l + 1)]
    <3>1. /\ PathIndex(k, l) # 0
          /\ PathElement(k, l) = Tree[l][Up(k, l) - 1]
      BY <2>4 DEF PathIndex, PathElement, Up
    <3>2. Tree[l + 1][Up(k, l + 1)] = Hash(Tree[l][Up(k, l) - 1], Tree[l][Up(k, l)])
      BY <2>4, Upward DEF Tree
    <3> QED
      BY <2>1, <3>1, <3>2 DEF Combine
  <2>5. f[l + 1] = Tree[l + 1][Up(k, l + 1)]
    BY <2>3, <2>4
  <2> QED
    BY <2>5, LevelsAssumption
<1> HIDE DEF S
<1>7. Levels \in S
  BY <1>5, <1>6, Climb, LevelsAssumption
<1> QED
  BY <1>3, <1>7, UpInLayer DEF S

(***************************************************************************)
(* The invariant of the loop.                                              *)
(***************************************************************************)

\* When m leaves are taken and the next one goes below a right child of
\* height l, filled_subtrees holds the left sibling.
ReadyAt(cache, s, l, m) ==
    Up(m, l) % 2 = 1 => cache[l] = TreeOf(s)[l][Up(m, l) - 1]

CacheHolds(l, m) == ReadyAt(filled, leafs, l, m)

\* Between insertions the stored root is that of the tree, and the whole cache
\* is ready for the next leaf.
AtRest ==
    ~running => /\ root = Tree[Levels][0]
                /\ \A l \in 0 .. Levels - 1 : CacheHolds(l, Len(leafs))

\* In the loop the running hash is the node above the new leaf; the cache is
\* ready for the next leaf below the loop's level, for the new one from there on.
InTheLoop ==
    running =>
        /\ Len(leafs) > 0
        /\ currentIndex = Up(Len(leafs) - 1, level)
        /\ currentHash = Tree[level][currentIndex]
        /\ \A l \in 0 .. level - 1 : CacheHolds(l, Len(leafs))
        /\ \A l \in level .. Levels - 1 : CacheHolds(l, Len(leafs) - 1)

(* The inductive invariant. *)
InsertionInv ==
    /\ IndexInTree
    /\ Len(leafs) <= Leaves[Levels]
    /\ AtRest
    /\ InTheLoop

LEMMA NewTreeInv == NewTree => InsertionInv
<1> SUFFICES ASSUME NewTree
             PROVE  InsertionInv
  OBVIOUS
<1>1. leafs = <<>> /\ Len(leafs) = 0 /\ running = FALSE
  BY DEF NewTree
<1>2. Leaves[Levels] \in Nat \ {0}
  BY LeavesStep, LevelsAssumption
<1>3. IndexInTree
  <2>1. DOMAIN filled = 0 .. Levels - 1 /\ level = Levels /\ currentIndex = 0
    BY DEF NewTree
  <2>2. <<>> \in Seq(Commitments)
    OBVIOUS
  <2>3. leafs \in Seq(Commitments) /\ running \in BOOLEAN
    BY <1>1, <2>2
  <2>4. level \in 0 .. Levels
    BY <2>1, LevelsAssumption
  <2>5. currentIndex \in 0 .. Leaves[Levels] - 1
    BY <1>2, <2>1
  <2> QED
    BY <2>1, <2>3, <2>4, <2>5 DEF IndexInTree
<1>4. root = Tree[Levels][0]
  <2>1. Levels \in 0 .. Levels /\ 0 \in 0 .. Leaves[Levels - Levels] - 1
    BY LeavesStep, LevelsAssumption
  <2>2. \A i \in Nat : Leaf(leafs, i) = Zero
    BY <1>1 DEF Leaf
  <2>3. Tree[Levels][0] = ZeroSibling(Levels)
    BY <2>1, <2>2, EmptyNode DEF Tree
  <2> QED
    BY <2>3, LevelsAssumption DEF ZeroSibling, NewTree
<1>5. ASSUME NEW l \in 0 .. Levels - 1
      PROVE  CacheHolds(l, Len(leafs))
  <2>1. 0 \in 0 .. Leaves[Levels] - 1 /\ Up(0, Levels) = 0
    BY <1>2, UpInLayer
  <2>2. Leaves[l] \in Nat \ {0}
    BY LeavesStep, LevelsAssumption
  <2>3. Up(0, l) = 0
    BY <2>2 DEF Up
  <2> QED
    BY <1>1, <2>3 DEF CacheHolds, ReadyAt
<1> QED
  BY <1>1, <1>2, <1>3, <1>4, <1>5 DEF InsertionInv, AtRest, InTheLoop

LEMMA BeginInv ==
    ASSUME InsertionInv, NEW c \in Commitments, Begin(c)
    PROVE  InsertionInv'
<1> DEFINE n == Len(leafs)
<1>1. /\ ~running /\ running' /\ level' = 0 /\ filled' = filled
      /\ leafs' = Append(leafs, c) /\ currentHash' = c /\ currentIndex' = n
  BY DEF Begin
<1>2. leafs \in Seq(Commitments)
  BY DEF InsertionInv, IndexInTree
<1>3. /\ n \in 0 .. Leaves[Levels] - 1
      /\ leafs' \in Seq(Commitments)
      /\ Len(leafs') = n + 1
  BY <1>1, <1>2, LeavesStep, LevelsAssumption DEF Begin, HasRoom
<1>4. IndexInTree'
  BY <1>1, <1>3, LevelsAssumption DEF InsertionInv, IndexInTree
<1>5. Len(leafs') <= Leaves[Levels]
  BY <1>3, LeavesStep, LevelsAssumption
<1>6. Up(n, 0) = n /\ n \in Nat
  BY <1>2, UpStep
<1>7. currentHash' = TreeOf(leafs')[0][currentIndex']
  <2>1. Leaf(leafs', n) = c
    BY <1>1, <1>2, <1>3 DEF Leaf
  <2> QED
    BY <1>1, <1>3, <2>1, TreeStep
<1>8. ASSUME NEW l \in 0 .. Levels - 1
      PROVE  ReadyAt(filled', leafs', l, n)
  <2>1. ReadyAt(filled, leafs, l, n)
    BY <1>1 DEF InsertionInv, AtRest, CacheHolds
  <2>2. SUFFICES ASSUME Up(n, l) % 2 = 1
                 PROVE  filled[l] = TreeOf(leafs')[l][Up(n, l) - 1]
    BY <1>1 DEF ReadyAt
  <2>3. /\ l \in 0 .. Levels
        /\ Up(n, l) \in 0 .. Leaves[Levels - l] - 1
        /\ Leaves[Levels - l] \in Nat
    <3>1. l \in 0 .. Levels /\ Levels - l \in 0 .. Levels
      BY LevelsAssumption
    <3> QED
      BY <1>3, <3>1, UpInLayer, LeavesStep
  <2>4. Up(n, l) - 1 \in 0 .. Leaves[Levels - l] - 1 /\ Up(n, l) # Up(n, l) - 1
    BY <2>2, <2>3
  <2>5. TreeOf(Append(leafs, c))[l][Up(n, l) - 1] = TreeOf(leafs)[l][Up(n, l) - 1]
    BY <1>2, <2>3, <2>4, AppendElsewhere
  <2> QED
    BY <1>1, <2>1, <2>2, <2>5 DEF ReadyAt
<1>9. Len(leafs') - 1 = n /\ Len(leafs') > 0
  BY <1>3, <1>6
<1>10. InTheLoop'
  <2>1. \A l \in level' .. Levels - 1 : ReadyAt(filled', leafs', l, Len(leafs') - 1)
    BY <1>1, <1>8, <1>9
  <2>2. 0 .. level' - 1 = {}
    BY <1>1
  <2>3. currentIndex' = Up(Len(leafs') - 1, level')
    BY <1>1, <1>6, <1>9
  <2>4. currentHash' = Tree'[level'][currentIndex']
    BY <1>1, <1>7 DEF Tree
  <2> QED
    BY <1>9, <2>1, <2>2, <2>3, <2>4 DEF InTheLoop, CacheHolds
<1> QED
  BY <1>1, <1>4, <1>5, <1>10 DEF InsertionInv, AtRest

LEMMA HashLevelInv ==
    ASSUME InsertionInv, HashLevel
    PROVE  InsertionInv'
<1>1. PICK i, n, x : i = level /\ n = Len(leafs) - 1 /\ x = Up(n, i)
  OBVIOUS
<1>2. /\ running /\ running' /\ level' = i + 1 /\ leafs' = leafs
      /\ i \in 0 .. Levels - 1 /\ currentIndex' = currentIndex \div 2
  BY <1>1, LevelsAssumption DEF HashLevel, InsertionInv, IndexInTree
<1>3. leafs \in Seq(Commitments) /\ DOMAIN filled = 0 .. Levels - 1
  BY DEF InsertionInv, IndexInTree
<1>4. n \in 0 .. Leaves[Levels] - 1 /\ Len(leafs) = n + 1
  BY <1>1, <1>2, <1>3, LeavesStep, LevelsAssumption DEF InsertionInv, InTheLoop
<1>5. currentIndex = x /\ currentHash = TreeOf(leafs)[i][x]
  BY <1>1, <1>2 DEF InsertionInv, InTheLoop, Tree
<1>6. /\ \A l \in 0 .. i - 1 : ReadyAt(filled, leafs, l, n + 1)
      /\ \A l \in i .. Levels - 1 : ReadyAt(filled, leafs, l, n)
  BY <1>1, <1>2, <1>4 DEF InsertionInv, InTheLoop, CacheHolds
<1>7. x \in Nat /\ Up(n, i + 1) = x \div 2
  BY <1>1, <1>2, <1>4, Upward
<1>8. Up(n + 1, i) \in {x, x + 1}
  <2>1. n \in Nat /\ Leaves[i] \in Nat \ {0}
    BY <1>2, <1>4, LeavesStep, LevelsAssumption
  <2> QED
    BY <1>1, <2>1, DivNext DEF Up
<1>9. ASSUME x % 2 = 0
      PROVE  /\ filled' = [filled EXCEPT ![i] = currentHash]
             /\ currentHash' = TreeOf(leafs)[i + 1][x \div 2]
             /\ ReadyAt(filled', leafs, i, n + 1)
  <2>1. /\ filled' = [filled EXCEPT ![i] = currentHash]
        /\ currentHash' = Hash(currentHash, ZeroSibling(i))
    BY <1>1, <1>5, <1>9 DEF HashLevel, Remember
  <2>2. TreeOf(leafs)[i][x + 1] = ZeroSibling(i)
    BY <1>1, <1>2, <1>3, <1>4, <1>9, EmptyBeyond
  <2>3. currentHash' = TreeOf(leafs)[i + 1][x \div 2]
    BY <1>1, <1>2, <1>4, <1>5, <1>9, <2>1, <2>2, Upward
  <2>4. filled'[i] = TreeOf(leafs)[i][x]
    BY <1>2, <1>3, <1>5, <2>1
  <2>5. Up(n + 1, i) % 2 = 1 => Up(n + 1, i) - 1 = x
    BY <1>7, <1>8, <1>9
  <2> QED
    BY <2>1, <2>3, <2>4, <2>5 DEF ReadyAt
<1>10. ASSUME x % 2 = 1
       PROVE  /\ filled' = filled
              /\ currentHash' = TreeOf(leafs)[i + 1][x \div 2]
              /\ ReadyAt(filled', leafs, i, n + 1)
  <2>1. /\ filled' = filled
        /\ currentHash' = Hash(filled[i], currentHash)
    BY <1>1, <1>5, <1>10 DEF HashLevel, Remember
  <2>2. filled[i] = TreeOf(leafs)[i][x - 1]
    <3>1. ReadyAt(filled, leafs, i, n)
      BY <1>2, <1>6
    <3> QED
      BY <1>1, <1>10, <3>1 DEF ReadyAt
  <2>3. currentHash' = TreeOf(leafs)[i + 1][x \div 2]
    BY <1>1, <1>2, <1>4, <1>5, <1>10, <2>1, <2>2, Upward
  <2>4. Up(n + 1, i) % 2 = 1 => Up(n + 1, i) = x
    BY <1>7, <1>8, <1>10
  <2> QED
    BY <2>1, <2>2, <2>3, <2>4 DEF ReadyAt
<1>11. x % 2 = 0 \/ x % 2 = 1
  BY <1>7
<1>12. /\ DOMAIN filled' = 0 .. Levels - 1
       /\ \A l \in 0 .. Levels - 1 : l # i => filled'[l] = filled[l]
  BY <1>3, <1>9, <1>10, <1>11
<1>13. currentHash' = TreeOf(leafs')[level'][currentIndex']
  BY <1>2, <1>5, <1>9, <1>10, <1>11
<1>14. currentIndex' = Up(n, level')
  BY <1>2, <1>5, <1>7
<1>15. /\ \A l \in 0 .. level' - 1 : ReadyAt(filled', leafs', l, n + 1)
       /\ \A l \in level' .. Levels - 1 : ReadyAt(filled', leafs', l, n)
  <2>1. ReadyAt(filled', leafs, i, n + 1)
    BY <1>9, <1>10, <1>11
  <2>2. ASSUME NEW l \in 0 .. Levels - 1, NEW m, l # i, ReadyAt(filled, leafs, l, m)
        PROVE  ReadyAt(filled', leafs, l, m)
    BY <1>12, <2>2 DEF ReadyAt
  <2>3. ASSUME NEW l \in 0 .. i
        PROVE  ReadyAt(filled', leafs, l, n + 1)
    <3>1. CASE l = i
      BY <2>1, <3>1
    <3>2. CASE l # i
      <4>1. l \in 0 .. i - 1 /\ l \in 0 .. Levels - 1
        BY <1>2, <3>2, LevelsAssumption
      <4> QED
        BY <1>6, <2>2, <3>2, <4>1
    <3> QED
      BY <3>1, <3>2
  <2>4. ASSUME NEW l \in i + 1 .. Levels - 1
        PROVE  ReadyAt(filled', leafs, l, n)
    BY <1>2, <1>6, <2>2
  <2>5. 0 .. level' - 1 = 0 .. i
    BY <1>2
  <2> QED
    BY <1>2, <2>3, <2>4, <2>5
<1>16. IndexInTree'
  <2>1. level' \in 0 .. Levels
    BY <1>2, LevelsAssumption
  <2>2. currentIndex' \in 0 .. Leaves[Levels] - 1
    BY <1>2, LeavesStep, LevelsAssumption DEF InsertionInv, IndexInTree
  <2> QED
    BY <1>2, <1>3, <1>12, <2>1, <2>2 DEF IndexInTree
<1>17. InTheLoop'
  <2>1. Len(leafs') - 1 = n /\ Len(leafs') = n + 1 /\ Len(leafs') > 0
    BY <1>2, <1>4, LeavesStep, LevelsAssumption
  <2> QED
    BY <1>13, <1>14, <1>15, <2>1 DEF InTheLoop, CacheHolds, Tree
<1> QED
  BY <1>2, <1>16, <1>17 DEF InsertionInv, AtRest

LEMMA FinishInv ==
    ASSUME InsertionInv, Finish
    PROVE  InsertionInv'
<1>1. /\ running /\ running' = FALSE /\ level = Levels /\ root' = currentHash
      /\ leafs' = leafs /\ filled' = filled
      /\ level' = level /\ currentIndex' = currentIndex
  BY DEF Finish
<1>2. Len(leafs) - 1 \in 0 .. Leaves[Levels] - 1
  BY <1>1, LeavesStep, LevelsAssumption DEF InsertionInv, InTheLoop, IndexInTree
<1>3. currentIndex = 0
  BY <1>1, <1>2, UpInLayer DEF InsertionInv, InTheLoop
<1>4. root' = Tree'[Levels][0]
  BY <1>1, <1>3 DEF InsertionInv, InTheLoop, Tree
<1>5. \A l \in 0 .. Levels - 1 : ReadyAt(filled', leafs', l, Len(leafs'))
  BY <1>1 DEF InsertionInv, InTheLoop, CacheHolds
<1>6. AtRest'
  BY <1>4, <1>5 DEF AtRest, CacheHolds
<1> QED
  BY <1>1, <1>6 DEF InsertionInv, IndexInTree, InTheLoop

\* The invariant of the loop holds at every step of every insertion.
THEOREM InsertionInvariant == Insertion => []InsertionInv
<1>1. ASSUME InsertionInv, [Insert]_insertionVars
      PROVE  InsertionInv'
  <2>1. CASE Insert
    BY <1>1, <2>1, BeginInv, HashLevelInv, FinishInv DEF Insert
  <2>2. CASE UNCHANGED insertionVars
    BY <1>1, <2>2 DEF insertionVars, InsertionInv, IndexInTree, AtRest, InTheLoop,
                      CacheHolds, Tree
  <2> QED
    BY <1>1, <2>1, <2>2
<1> QED
  BY <1>1, NewTreeInv, PTL DEF Insertion

(* IndexInTree of MerkleInsertion: the u32 index of deposit.rs stays that  *)
(* of a leaf, and the loop inside filled_subtrees and ZERO_HASHES.         *)
THEOREM InsertionStaysInTree == Insertion => []IndexInTree
<1>1. InsertionInv => IndexInTree
  BY DEF InsertionInv
<1> QED
  BY <1>1, InsertionInvariant, PTL

(* CacheMatchesTree of MerkleInsertion: at every height at which the next  *)
(* leaf goes to the right, filled_subtrees of deposit.rs holds its left    *)
(* sibling in the tree that is rebuilt from the deposits.                  *)
THEOREM CacheIsOfTheTree == Insertion => []CacheMatchesTree
<1>1. InsertionInv => CacheMatchesTree
  BY DEF InsertionInv, AtRest, CacheHolds, ReadyAt, CacheMatchesTree, Tree, Up
<1> QED
  BY <1>1, InsertionInvariant, PTL

(* The root that push_root of deposit.rs stores is the root of the full    *)
(* tree over the deposits, which the API and the browser rebuild.          *)
RootMatchesTree == ~running => root = Tree[Levels][0]

THEOREM RootIsOfTheTree == Insertion => []RootMatchesTree
<1>1. InsertionInv => RootMatchesTree
  BY DEF InsertionInv, AtRest, RootMatchesTree
<1> QED
  BY <1>1, InsertionInvariant, PTL

(* EveryLeafProvable of MerkleInsertion: the circuit's check of the path   *)
(* of any leaf ends at the stored root, so no depositor is left without a  *)
(* proof.                                                                  *)
THEOREM EveryDepositorCanProve == Insertion => []EveryLeafProvable
<1>1. InsertionInv => EveryLeafProvable
  <2> SUFFICES ASSUME InsertionInv, ~running, NEW k \in 0 .. Len(leafs) - 1
               PROVE  Checked(k) = root
    BY DEF EveryLeafProvable
  <2>1. k \in 0 .. Leaves[Levels] - 1
    BY LeavesStep, LevelsAssumption DEF InsertionInv, IndexInTree
  <2> QED
    BY <2>1, CheckedIsRoot DEF InsertionInv, AtRest
<1> QED
  BY <1>1, InsertionInvariant, PTL

(***************************************************************************)
(* What MixerPool takes from the tree: that a root stands for the leaves   *)
(* below it, and that a proof is of one of them.  Both hold of a hash      *)
(* without collisions.                                                     *)
(***************************************************************************)
CollisionFree == \A a, b, c, d : Hash(a, b) = Hash(c, d) => a = c /\ b = d

\* The constraints of MerkleTreeChecker in withdraw.circom, for whatever path
\* a prover puts in: any siblings, on either side.
Convinces(leaf, pathElements, pathIndices, treeRoot) ==
    \E levelHashes :
        /\ levelHashes[0] = leaf
        /\ \A l \in 0 .. Levels - 1 :
              \/ /\ pathIndices[l] = 0
                 /\ levelHashes[l + 1] = Hash(levelHashes[l], pathElements[l])
              \/ /\ pathIndices[l] = 1
                 /\ levelHashes[l + 1] = Hash(pathElements[l], levelHashes[l])
        /\ levelHashes[Levels] = treeRoot

\* The layers from the root down.
LEMMA Downward ==
    ASSUME NEW m \in 0 .. Levels - 1
    PROVE  /\ Levels - (m + 1) \in 0 .. Levels - 1
           /\ (Levels - (m + 1)) + 1 = Levels - m
           /\ Levels - (Levels - m) = m
           /\ Leaves[m] \in Nat \ {0} /\ Leaves[m + 1] = 2 * Leaves[m]
  BY LeavesStep, LevelsAssumption

\* Two sequences of deposits under one root have the same leaves.
LEMMA SameRootSameLeaves ==
    ASSUME CollisionFree, NEW s, NEW t, TreeOf(s)[Levels][0] = TreeOf(t)[Levels][0]
    PROVE  \A k \in 0 .. Leaves[Levels] - 1 : Leaf(s, k) = Leaf(t, k)
<1> DEFINE S == {m \in 0 .. Levels : \A k \in 0 .. Leaves[m] - 1 :
                    TreeOf(s)[Levels - m][k] = TreeOf(t)[Levels - m][k]}
<1>1. 0 \in S
  BY LeavesStep, LevelsAssumption
<1>2. ASSUME NEW m \in 0 .. Levels - 1, m \in S
      PROVE  m + 1 \in S
  <2>1. PICK l : l = Levels - (m + 1)
    OBVIOUS
  <2>2. /\ l \in 0 .. Levels - 1 /\ l + 1 = Levels - m /\ Levels - (l + 1) = m
        /\ Leaves[m] \in Nat \ {0} /\ Leaves[m + 1] = 2 * Leaves[m]
    BY <2>1, Downward
  <2>3. ASSUME NEW k \in 0 .. Leaves[m + 1] - 1
        PROVE  TreeOf(s)[l][k] = TreeOf(t)[l][k]
    <3>1. PICK p \in 0 .. Leaves[m] - 1 : k = 2 * p \/ k = 2 * p + 1
      <4>1. k \div 2 \in 0 .. Leaves[m] - 1
        BY <2>2
      <4>2. k = 2 * (k \div 2) \/ k = 2 * (k \div 2) + 1
        BY <2>2
      <4> QED
        BY <4>1, <4>2
    <3>2. TreeOf(s)[l + 1][p] = TreeOf(t)[l + 1][p]
      BY <1>2, <2>2
    <3>3. Hash(TreeOf(s)[l][2 * p], TreeOf(s)[l][2 * p + 1])
             = Hash(TreeOf(t)[l][2 * p], TreeOf(t)[l][2 * p + 1])
      BY <2>2, <3>2, TreeStep
    <3>4. /\ TreeOf(s)[l][2 * p] = TreeOf(t)[l][2 * p]
          /\ TreeOf(s)[l][2 * p + 1] = TreeOf(t)[l][2 * p + 1]
      BY <3>3 DEF CollisionFree
    <3> QED
      BY <3>1, <3>4
  <2> QED
    BY <2>1, <2>3, LevelsAssumption
<1> HIDE DEF S
<1>3. Levels \in S
  BY <1>1, <1>2, Climb, LevelsAssumption
<1>4. \A k \in 0 .. Leaves[Levels] - 1 : TreeOf(s)[0][k] = TreeOf(t)[0][k]
  BY <1>3, LevelsAssumption DEF S
<1> QED
  BY <1>4, TreeStep

(* Roots of MixerPool: a root of deposit.rs names the deposits below it.   *)
(* Two different histories of deposits in one tree never have one root.    *)
THEOREM RootNamesLeaves ==
    ASSUME CollisionFree, Zero \notin Commitments,
           NEW s \in Seq(Commitments), NEW t \in Seq(Commitments),
           Len(s) <= Leaves[Levels], Len(t) <= Leaves[Levels],
           TreeOf(s)[Levels][0] = TreeOf(t)[Levels][0]
    PROVE  s = t
<1>1. \A k \in 0 .. Leaves[Levels] - 1 : Leaf(s, k) = Leaf(t, k)
  BY SameRootSameLeaves
<1>2. Leaves[Levels] \in Nat /\ Len(s) \in Nat /\ Len(t) \in Nat
  BY LeavesStep, LevelsAssumption
<1>3. \A k \in 0 .. Len(s) - 1 : Leaf(s, k) = s[k + 1] /\ s[k + 1] \in Commitments
  BY <1>2 DEF Leaf
<1>4. \A k \in 0 .. Len(t) - 1 : Leaf(t, k) = t[k + 1] /\ t[k + 1] \in Commitments
  BY <1>2 DEF Leaf
<1>5. ~(Len(s) < Len(t))
  <2>1. Leaf(s, Len(s)) = Zero
    BY <1>2 DEF Leaf
  <2> QED
    BY <1>1, <1>2, <1>4, <2>1
<1>6. ~(Len(t) < Len(s))
  <2>1. Leaf(t, Len(t)) = Zero
    BY <1>2 DEF Leaf
  <2> QED
    BY <1>1, <1>2, <1>3, <2>1
<1>7. Len(s) = Len(t)
  BY <1>2, <1>5, <1>6
<1>8. ASSUME NEW i \in 1 .. Len(s)
      PROVE  s[i] = t[i]
  <2>1. i - 1 \in 0 .. Len(s) - 1 /\ i - 1 \in 0 .. Leaves[Levels] - 1 /\ (i - 1) + 1 = i
    BY <1>2
  <2> QED
    BY <1>1, <1>3, <1>4, <1>7, <2>1
<1> QED
  BY <1>7, <1>8

\* A path that satisfies the circuit for a root of the tree ends at a leaf.
LEMMA PathIsOfLeaf ==
    ASSUME CollisionFree, NEW s, NEW leaf, NEW pathElements, NEW pathIndices,
           Convinces(leaf, pathElements, pathIndices, TreeOf(s)[Levels][0])
    PROVE  \E k \in 0 .. Leaves[Levels] - 1 : leaf = Leaf(s, k)
<1>1. PICK f : /\ f[0] = leaf
               /\ \A l \in 0 .. Levels - 1 :
                     \/ f[l + 1] = Hash(f[l], pathElements[l])
                     \/ f[l + 1] = Hash(pathElements[l], f[l])
               /\ f[Levels] = TreeOf(s)[Levels][0]
  BY DEF Convinces
<1> DEFINE S == {m \in 0 .. Levels : \E k \in 0 .. Leaves[m] - 1 :
                    f[Levels - m] = TreeOf(s)[Levels - m][k]}
<1>2. 0 \in S
  <2>1. 0 \in 0 .. Leaves[0] - 1 /\ Levels - 0 = Levels /\ 0 \in 0 .. Levels
    BY LeavesStep, LevelsAssumption
  <2> QED
    BY <1>1, <2>1
<1>3. ASSUME NEW m \in 0 .. Levels - 1, m \in S
      PROVE  m + 1 \in S
  <2>1. PICK l : l = Levels - (m + 1)
    OBVIOUS
  <2>2. /\ l \in 0 .. Levels - 1 /\ l + 1 = Levels - m /\ Levels - (l + 1) = m
        /\ Leaves[m] \in Nat \ {0} /\ Leaves[m + 1] = 2 * Leaves[m]
    BY <2>1, Downward
  <2>3. PICK p \in 0 .. Leaves[m] - 1 : f[l + 1] = TreeOf(s)[l + 1][p]
    BY <1>3, <2>2
  <2>4. f[l + 1] = Hash(TreeOf(s)[l][2 * p], TreeOf(s)[l][2 * p + 1])
    BY <2>2, <2>3, TreeStep
  <2>5. f[l] = TreeOf(s)[l][2 * p] \/ f[l] = TreeOf(s)[l][2 * p + 1]
    BY <1>1, <2>2, <2>4 DEF CollisionFree
  <2>6. 2 * p \in 0 .. Leaves[m + 1] - 1 /\ 2 * p + 1 \in 0 .. Leaves[m + 1] - 1
    BY <2>2
  <2>7. \E k \in 0 .. Leaves[m + 1] - 1 : f[l] = TreeOf(s)[l][k]
    BY <2>5, <2>6
  <2> QED
    BY <2>1, <2>7, LevelsAssumption
<1> HIDE DEF S
<1>4. Levels \in S
  BY <1>2, <1>3, Climb, LevelsAssumption
<1>5. \E k \in 0 .. Leaves[Levels] - 1 : f[0] = TreeOf(s)[0][k]
  BY <1>4, LevelsAssumption DEF S
<1> QED
  BY <1>1, <1>5, TreeStep

(* The other side of EveryLeafProvable, and what InTree of MixerPool takes *)
(* for granted: whatever path a prover puts into withdraw.circom, under    *)
(* the root that deposit.rs stored it convinces only for a commitment that *)
(* was deposited (or for the value of an empty leaf).                      *)
OnlyLeavesProvable ==
    ~running => \A leaf, pathElements, pathIndices :
        Convinces(leaf, pathElements, pathIndices, root) =>
            leaf = Zero \/ \E i \in 1 .. Len(leafs) : leaf = leafs[i]

THEOREM OnlyDepositorsCanProve ==
    ASSUME CollisionFree
    PROVE  Insertion => []OnlyLeavesProvable
<1>1. InsertionInv => OnlyLeavesProvable
  <2> SUFFICES ASSUME InsertionInv, ~running, NEW leaf, NEW pathElements,
                      NEW pathIndices, Convinces(leaf, pathElements, pathIndices, root)
               PROVE  leaf = Zero \/ \E i \in 1 .. Len(leafs) : leaf = leafs[i]
    BY DEF OnlyLeavesProvable
  <2>1. root = TreeOf(leafs)[Levels][0]
    BY DEF InsertionInv, AtRest, Tree
  <2>2. PICK k \in 0 .. Leaves[Levels] - 1 : leaf = Leaf(leafs, k)
    BY <2>1, PathIsOfLeaf
  <2>3. k \in Nat /\ Len(leafs) \in Nat
    BY LeavesStep, LevelsAssumption DEF InsertionInv, IndexInTree
  <2>4. CASE k < Len(leafs)
    <3>1. leaf = leafs[k + 1] /\ k + 1 \in 1 .. Len(leafs)
      BY <2>2, <2>3, <2>4 DEF Leaf
    <3> QED
      BY <3>1
  <2>5. CASE ~(k < Len(leafs))
    BY <2>2, <2>5 DEF Leaf
  <2> QED
    BY <2>4, <2>5
<1> QED
  BY <1>1, InsertionInvariant, PTL

==============================================================================
