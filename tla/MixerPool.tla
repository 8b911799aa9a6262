------------------------------ MODULE MixerPool ------------------------------
(***************************************************************************)
(* The on-chain mixer program (programs/octora-mixer): one pool account,   *)
(* which is both the Merkle tree of commitments and the vault of their     *)
(* lamports.  An instruction is one atomic transaction, so every handler   *)
(* is one action; a handler that returns an error changes nothing, so it   *)
(* is an action that is not enabled.                                       *)
(*                                                                         *)
(* A note is the pair (secret, nullifier) behind a commitment; the         *)
(* commitment is identified with its note (Poseidon is collision free).    *)
(* NullifierOf need not be injective: nothing stops a depositor from       *)
(* committing twice to the same nullifier.  A Merkle root is identified    *)
(* with the number of leaves below it, leaves being only ever appended;    *)
(* MerkleInsertion shows that deposit.rs computes exactly that root.       *)
(***************************************************************************)
EXTENDS Integers, Sequences, FiniteSets

CONSTANTS
    Notes,             \* (secret, nullifier) pairs
    Nullifiers,        \* nullifier hashes, as field elements
    NullifierOf,       \* the nullifier hash of a note
    Wallets,           \* keys that hold lamports
    Pool,              \* the key of the pool account itself
    Admin,             \* ADMIN_AUTHORITY of constants.rs
    Denomination,      \* lamports of one deposit
    RentMin,           \* rent-exempt minimum of the pool account
    InitialLamports,   \* what each wallet starts with
    Gifts,             \* amounts anyone may send to the pool's key
    Terms,             \* what holders ask for: recipient, relayer, fee field
    U64,               \* 2^64, scaled down
    Shifts,            \* 32-byte encodings of x: x + k * r for k \in Shifts
    RootHistorySize,   \* slots of the root ring
    MaxLeaves,         \* 2^TREE_LEVELS
    MaxProofs,         \* bound: proofs in circulation
    NoKey              \* authority of a pool that does not exist yet

Accounts == Wallets \cup {Pool}
Slots    == 0 .. RootHistorySize - 1
Roots    == 0 .. MaxLeaves          \* root k: the tree of the first k leaves
EmptyRoot == 0

ASSUME KeysAssumption ==
    /\ NullifierOf \in [Notes -> Nullifiers]
    /\ Pool \notin Wallets
    /\ Admin \in Wallets
    /\ NoKey \notin Wallets
    /\ Terms \subseteq [recipient: Accounts, relayer: Accounts, feeField: Nat]

ASSUME AmountsAssumption ==
    /\ Denomination \in Nat \ {0}    \* initialize.rs rejects 0
    /\ RentMin \in Nat
    /\ InitialLamports \in Nat
    /\ Gifts \subseteq Nat
    /\ U64 \in Nat \ {0}
    /\ Shifts \subseteq Nat
    /\ RootHistorySize \in Nat \ {0}
    /\ MaxLeaves \in Nat
    /\ MaxProofs \in Nat

VARIABLES
    initialized,        \* the pool PDA exists
    authority,          \* MixerPool.authority
    nextLeafIndex,      \* MixerPool.next_leaf_index
    currentRootIndex,   \* MixerPool.current_root_index
    rootHistory,        \* MixerPool.root_history
    isPaused,           \* MixerPool.is_paused
    commitmentAccounts, \* the CommitmentAccount PDAs
    nullifierAccounts,  \* the NullifierAccount PDAs, keyed by raw bytes
    lamports,           \* balances of every account
    leaves,             \* the DepositEvents, in order
    payouts,            \* the WithdrawEvents, in order
    proofs              \* withdrawal proofs that have left a prover

poolVars == <<initialized, authority, isPaused>>
treeVars == <<nextLeafIndex, currentRootIndex, rootHistory,
              commitmentAccounts, leaves>>
paidVars == <<nullifierAccounts, payouts>>
vars == <<poolVars, treeVars, paidVars, lamports, proofs>>

(* What the public inputs of withdraw.circom bind a proof to; note stands  *)
(* for the private inputs.                                                 *)
Statement == [note: Notes, root: Roots, terms: Terms]

RawNullifier == Nullifiers \X Shifts

Payout == [nullifier: Nullifiers, recipient: Accounts, relayer: Accounts,
           amount: Nat, fee: Nat]

Init ==
    /\ initialized = FALSE
    /\ authority = NoKey
    /\ nextLeafIndex = 0
    /\ currentRootIndex = 0
    /\ rootHistory = [s \in Slots |-> EmptyRoot]
    /\ isPaused = FALSE
    /\ commitmentAccounts = {}
    /\ nullifierAccounts = {}
    /\ lamports = [a \in Accounts |-> IF a = Pool THEN 0 ELSE InitialLamports]
    /\ leaves = <<>>
    /\ payouts = <<>>
    /\ proofs = {}

(***************************************************************************)
(* Helpers of the program.                                                 *)
(***************************************************************************)

\* is_known_root: the ring is searched, not indexed.
IsKnownRoot(root) == \E s \in Slots : rootHistory[s] = root

\* push_root: advance the index around the ring, then write there.
PushRoot_inPlace(root) ==               \* mutant: the index never advances
    /\ UNCHANGED currentRootIndex
    /\ rootHistory' = [rootHistory EXCEPT ![currentRootIndex] = root]
PushRoot_noWrap(root) ==                \* mutant: the index never wraps
    /\ currentRootIndex' = currentRootIndex + 1
    /\ rootHistory' = [rootHistory EXCEPT ![currentRootIndex'] = root]
PushRoot(root) ==
    /\ currentRootIndex' = (currentRootIndex + 1) % RootHistorySize
    /\ rootHistory' = [rootHistory EXCEPT ![currentRootIndex'] = root]

\* A debit and a credit of lamports, in that order (the keys may be equal).
Move(balances, from, to, amount) ==
    LET debited == [balances EXCEPT ![from] = @ - amount]
    IN  [debited EXCEPT ![to] = @ + amount]

\* require!(pool.is_paused == 0, PoolPaused)
NotPaused == ~isPaused

\* require_lt_field_order: only the canonical encoding of a public input.
\* The other four inputs are compared byte for byte with canonical values.
Canonical_skipped(shift) == TRUE        \* mutant: guard dropped
Canonical(shift) == shift = 0

\* `init` of the nullifier PDA fails when the account is already there.
NullifierUnused(raw) == raw \notin nullifierAccounts

\* pubkey_to_field_hash(account) == the field of the proof
BoundTo_skipped(p, recipient, relayer) == relayer = p.terms.relayer
BoundTo(p, recipient, relayer) ==
    /\ recipient = p.terms.recipient
    /\ relayer = p.terms.relayer

\* Neither payee may be the pool itself.
NoAlias(recipient, relayer) == recipient # Pool /\ relayer # Pool

\* pool_info.lamports().saturating_sub(min_balance)
Available_rentTwice ==                  \* mutant: rent kept back twice
    IF lamports[Pool] >= 2 * RentMin THEN lamports[Pool] - 2 * RentMin ELSE 0
Available == IF lamports[Pool] >= RentMin THEN lamports[Pool] - RentMin ELSE 0

(***************************************************************************)
(* Instructions.                                                           *)
(***************************************************************************)

\* initialize: the `init` of the PDA makes it happen once.
Initialize(caller) ==
    /\ ~initialized
    /\ caller = Admin
    /\ lamports[caller] >= RentMin
    /\ initialized' = TRUE
    /\ authority' = caller
    /\ isPaused' = FALSE
    /\ nextLeafIndex' = 0
    /\ currentRootIndex' = 0
    /\ rootHistory' = [s \in Slots |-> EmptyRoot]
    /\ lamports' = Move(lamports, caller, Pool, RentMin)
    /\ UNCHANGED <<commitmentAccounts, leaves, paidVars, proofs>>

\* set_paused: has_one = authority.
SetPaused(caller, paused) ==
    /\ initialized
    /\ caller = authority
    /\ isPaused' = paused
    /\ UNCHANGED <<initialized, authority, treeVars, paidVars, lamports, proofs>>

\* deposit: the `init` of the commitment PDA refuses a second deposit of
\* the same commitment.  The insertion loop is MerkleInsertion.
CommitmentUnused_skipped(note) == TRUE  \* mutant: init_if_needed
CommitmentUnused(note) == note \notin commitmentAccounts

Deposit(depositor, note) ==
    /\ initialized
    /\ NotPaused
    /\ nextLeafIndex < MaxLeaves
    /\ CommitmentUnused(note)
    /\ lamports[depositor] >= Denomination
    /\ lamports' = Move(lamports, depositor, Pool, Denomination)
    /\ commitmentAccounts' = commitmentAccounts \cup {note}
    /\ PushRoot(nextLeafIndex + 1)
    /\ nextLeafIndex' = nextLeafIndex + 1
    /\ leaves' = Append(leaves, note)
    /\ UNCHANGED <<poolVars, paidVars, proofs>>

\* The transfers of withdraw: denomination - fee out, then fee if any.
Pay_feeOnTop(recipient, relayer, fee) ==   \* mutant: fee not taken off the amount
    LET paid == Move(lamports, Pool, recipient, Denomination)
    IN  IF fee > 0 THEN Move(paid, Pool, relayer, fee) ELSE paid
Pay(recipient, relayer, fee) ==
    LET paid == Move(lamports, Pool, recipient, Denomination - fee)
    IN  IF fee > 0 THEN Move(paid, Pool, relayer, fee) ELSE paid

\* u64::from_be_bytes of the last 8 bytes, the first 24 being zero.
FeeFits(feeField) == feeField < U64
FeeOf(p) == p.terms.feeField % U64

\* Every require! of withdraw, for proof p sent with its nullifier encoded
\* as shift and with these two accounts.
WithdrawAccepts(p, shift, recipient, relayer) ==
    /\ initialized
    /\ NullifierUnused(<<NullifierOf[p.note], shift>>)
    /\ Canonical(shift)
    /\ FeeFits(p.terms.feeField)
    /\ NotPaused
    /\ FeeOf(p) < Denomination
    /\ IsKnownRoot(p.root)
    /\ NoAlias(recipient, relayer)
    /\ BoundTo(p, recipient, relayer)

\* withdraw: verify_proof accepts exactly the proofs that exist.
Withdraw(p, shift, recipient, relayer) ==
    /\ p \in proofs
    /\ WithdrawAccepts(p, shift, recipient, relayer)
    /\ Available >= Denomination
    /\ nullifierAccounts' =
           nullifierAccounts \cup {<<NullifierOf[p.note], shift>>}
    /\ lamports' = Pay(recipient, relayer, FeeOf(p))
    /\ payouts' = Append(payouts,
           [nullifier |-> NullifierOf[p.note], recipient |-> recipient,
            relayer |-> relayer, amount |-> Denomination - FeeOf(p),
            fee |-> FeeOf(p)])
    /\ UNCHANGED <<poolVars, treeVars, proofs>>

\* withdraw.circom: a proof exists for a statement only if the commitment is
\* a leaf of the tree with that root; the holder of the note picks the rest.
InTree(note, root) ==
    /\ root <= Len(leaves)
    /\ \E i \in 1 .. root : leaves[i] = note

Prove(p) ==
    /\ Cardinality(proofs) < MaxProofs
    /\ InTree(p.note, p.root)
    /\ proofs' = proofs \cup {p}
    /\ UNCHANGED <<poolVars, treeVars, paidVars, lamports>>

\* A plain system transfer to the pool's key, which the program cannot refuse.
\* (Sent before initialize, it would only pay part of the rent.)
Gift(from, amount) ==
    /\ initialized
    /\ lamports[from] >= amount
    /\ lamports' = Move(lamports, from, Pool, amount)
    /\ UNCHANGED <<poolVars, treeVars, paidVars, proofs>>

Next ==
    \/ \E caller \in Wallets : Initialize(caller)
    \/ \E caller \in Wallets, paused \in BOOLEAN : SetPaused(caller, paused)
    \/ \E depositor \in Wallets, note \in Notes : Deposit(depositor, note)
    \/ \E p \in proofs, shift \in Shifts, recipient, relayer \in Accounts :
           Withdraw(p, shift, recipient, relayer)
    \/ \E p \in Statement : Prove(p)
    \/ \E from \in Wallets, amount \in Gifts : Gift(from, amount)

Spec == Init /\ [][Next]_vars

(***************************************************************************)
(* Properties.                                                             *)
(***************************************************************************)

\* Every variable stays in the range its Rust type and the runtime give it;
\* in particular the u8 ring index never leaves the ring.
TypeOK ==
    /\ initialized \in BOOLEAN
    /\ authority \in Wallets \cup {NoKey}
    /\ nextLeafIndex \in 0 .. MaxLeaves
    /\ currentRootIndex \in Slots
    /\ rootHistory \in [Slots -> Roots]
    /\ isPaused \in BOOLEAN
    /\ commitmentAccounts \subseteq Notes
    /\ nullifierAccounts \subseteq RawNullifier
    /\ lamports \in [Accounts -> Nat]
    /\ leaves \in Seq(Notes)
    /\ payouts \in Seq(Payout)
    /\ proofs \subseteq Statement

\* The vault holds a denomination for every commitment that has not been paid
\* out, on top of its rent (deposit.rs and withdraw.rs move lamports with no
\* counter of what is owed).
Solvent ==
    initialized =>
        /\ Len(payouts) <= nextLeafIndex
        /\ lamports[Pool] >= RentMin + Denomination * (nextLeafIndex - Len(payouts))

\* A nullifier is paid once, whatever encoding of it, proof of it or
\* duplicate note behind it is sent (withdraw.rs, the nullifier PDA).
NoDoubleSpend ==
    \A i, j \in 1 .. Len(payouts) :
        payouts[i].nullifier = payouts[j].nullifier => i = j

\* Each payout is one that the holder of a deposited note asked for, to the
\* lamport: the accounts are those of the proof and the fee is the whole
\* field element the circuit bound (withdraw.rs, the parameter checks).
PaidAsProved ==
    \A i \in 1 .. Len(payouts) : \E p \in proofs :
        /\ p.note \in commitmentAccounts
        /\ payouts[i] = [nullifier |-> NullifierOf[p.note],
                         recipient |-> p.terms.recipient,
                         relayer |-> p.terms.relayer,
                         amount |-> Denomination - p.terms.feeField,
                         fee |-> p.terms.feeField]

\* A root stays usable for exactly RootHistorySize - 1 further deposits
\* (state.rs, push_root and is_known_root; constants.rs on the ring size).
RecentRootsKnown ==
    \A root \in Roots :
        IsKnownRoot(root) <=> /\ root <= nextLeafIndex
                              /\ nextLeafIndex - root < RootHistorySize

\* What a holder asks for that the program should never refuse.
Reasonable(p) ==
    /\ p.root = nextLeafIndex
    /\ p.note \in commitmentAccounts
    /\ p.terms.recipient # Pool /\ p.terms.relayer # Pool
    /\ p.terms.feeField < U64 /\ p.terms.feeField < Denomination
    /\ \A i \in 1 .. Len(payouts) :
           payouts[i].nullifier # NullifierOf[p.note]

\* No deposit gets locked in: while the pool is not paused, every note whose
\* nullifier has not been paid has a proof against the current root, every
\* check of withdraw passes and the vault can pay it.
NoNoteLocked ==
    initialized /\ ~isPaused =>
        \A p \in Statement : Reasonable(p) =>
            /\ InTree(p.note, p.root)
            /\ WithdrawAccepts(p, 0, p.terms.recipient, p.terms.relayer)
            /\ Available >= Denomination

(* What the program promises, with the tree, the ring and the encodings    *)
(* taken away.                                                             *)
Ledger == INSTANCE MixerLedger WITH
    Payees    <- Wallets,
    deposited <- commitmentAccounts,
    receipts  <- {payouts[i] : i \in 1 .. Len(payouts)},
    vault     <- IF initialized THEN lamports[Pool] - RentMin ELSE 0

\* The program implements the ledger: each transaction is a deposit, a
\* payment of one unpaid nullifier in full, or nothing the ledger sees.
ImplementsLedger == Ledger!Spec

==============================================================================
