# Octora in TLA+

Octora lets a wallet provide liquidity on Meteora without a visible link to it.
A browser flow deposits a fixed denomination into a mixer pool on Solana, proves
in zero knowledge that it may withdraw, has a relayer pay the withdrawal to a
fresh stealth wallet, and opens the position from there. An API keeps the
managed life of positions, relays withdrawals and serves the pool's history.

This directory models the parts that hold state. `PROJECT.json` maps every
definition to the lines it stands for.

## 1. The system

| Component | State it keeps | Operations | Talks to |
|---|---|---|---|
| Mixer program (`programs/octora-mixer`) | the pool account: next leaf, ring of roots, cached left subtrees, pause flag, lamports; one PDA per commitment and per nullifier | initialize, set_paused, deposit, withdraw | everyone, by transactions |
| Withdraw circuit, off-chain trees | none (rebuilt from deposit events) | prove, path | browser, API |
| Mixer relayer (`modules/relayer`) | in-flight map, spent cache, pending counter; first-seen table of roots in Postgres | POST withdraw: gate, coalesce, delay, verify, submit with retries | program, mixer service |
| Mixer service (`modules/mixer`) | deposits and spent nullifiers it has seen | deposit/withdraw builders, confirm, list, hydrate | program, browser, relayer |
| Position lifecycle (`modules/positions`, `modules/indexer`) | Position, ExecutionSession, PositionReconciliation rows | create, execute, claim, close, get | adapters, worker |
| Recovery worker | where its last scan ended | tick every minute: scan executing, scan indexing, log failures | the same rows |
| Execution state machine (`domain`) | none | the table of 11 states | position service |
| Browser flows (`octora-web/src/lib/private*.ts`) | the note and a local list of positions | deposit, exit, claim, rebalance, sweep as step lists | all of the above |
| Deposit page (`PoolDetailView`, `PrivateDepositModal`, `SolanaProvider`) | range, size, dialog, connected wallet, cached bins | drag, pick, open, close, try again, connect | the deposit flow, DLMM service |
| Executor program (`programs/octora-executor`) | config, PoolAuthority PDAs | init config, set paused, init position, add, claim, withdraw-close, swap | Meteora |
| Executor and DLMM services (`modules/executor`, `modules/dlmm`) | a cache of pool instances | range arithmetic, single-sided plan, transaction builders, quotes | browser, Meteora |
| Auth, beta list, beta caps, rate limits | nonces, the list, counters | issue, verify, admit | every route |
| Adapters, prices, tokens, waitlist, health, custody wallets | caches only | lookups | third parties |

What is hard here:

- *The program*: two views of one fact (root ring and leaf counter; lamports and
  unpaid notes; raw bytes and field elements) must agree after any sequence of
  legal calls by strangers. The same holds of the executor, whose caller names
  every account.
- *The API* is one Node process: every `await` lets other requests, the worker
  and unawaited writes in, and a restart keeps only Postgres. Positions are two
  rows, written one after the other.
- *The relayer* pays gas for a transaction that may land, be dropped or land
  after its confirmation call failed, while other transactions for the same
  nullifier exist.
- *The flows* span a browser, an API and a chain, none of which waits for the
  others: a run that threw leaves a transaction behind, "Try again" starts over, a
  dialog closes, a wallet connects, a price moves.

What makes each part correct:

- mixer program: the vault covers what is unpaid; a nullifier is paid once, to
  whom its holder said; recent roots stay usable; nothing is locked in;
- trees: stored root, rebuilt tree and circuit agree for every leaf;
- positions: the two rows never claim more than the venue did, follow the table,
  stay terminal, and every position resolves;
- relayer: one request at a time per nullifier, truthful answers and caches,
  the delay holds where gas is paid, everyone is answered (per *spelling* of a
  nullifier, as it turns out: section 5);
- deposit flow: the API serves every commitment at its own leaf index, a stored
  position is open and paid for, a landed deposit becomes a position. Of these the
  code ensures parts only: what was in the pool before a run read its index goes
  before it, and a stored position was opened and paid by its own deposit;
- exit, claim, rebalance: a record that says closed has no liquidity behind it, nothing
  but dust goes to the main wallet in the open, and what was closed is sold (for one
  run at a time; two at once break the first);
- deposit page: a record is of the run that opened its position, the last step is not
  refused for a range that the page proposed, and one dialog has one run;
- executor: only the recorded recipient is paid, and what the API opened it can
  close;
- API: one position per signature, caps passed by no more than what is in flight
  (rows revived after their end aside).

## 2. The modules

| Module | Models | Checked by |
|---|---|---|
| `MixerLedger` | what the program promises: `Take` a note, `Give` one denomination for an unpaid nullifier, `Gift` | as `ImplementsLedger` of `MixerPool` |
| `MixerPool` | the program: `Initialize`, `SetPaused`, `Deposit`, `Withdraw`, with `Prove` for provers and `Gift` for plain transfers | `MCMixerPool`, run `mixer_pool` |
| `MixerPoolProofs` | theorems about `MixerPool` and `MerkleInsertion` | tlapm |
| `MerkleInsertion` | the insertion loop of deposit.rs, the rebuilt tree, the circuit's path check | `MCMerkleInsertion`, run `merkle_insertion` |
| `ExecutionStateMachine` | the transition table, and the specification it amounts to | as `FollowsMachine` |
| `PositionLifecycle` | position.service.ts, indexer.service.ts, recovery-worker.ts | `MCPositionLifecycle`, runs `position_*` |
| `PositionLifecycleProofs` | theorems about `PositionLifecycle` | tlapm |
| `Relayer` | the withdrawal path of the relayer and the anonymity tracker | `MCRelayer`, runs `relayer_*` |
| `RelayerProofs` | theorems about `Relayer` | tlapm |
| `PrivateDeposit` | privateDeposit.ts run by several users at once, with the API's cache of deposits and the pool's order of leaves | `MCPrivateDeposit`, run `private_deposit` |
| `PrivateDepositProofs` | theorems about `PrivateDeposit` | tlapm |
| `StealthFlows` | exit, claim, rebalance, quick claim and sweep, one run or two at once, their dialogs, the local record | `MCStealthFlows`, run `stealth_flows` |
| `StealthFlowsProofs` | theorems about `StealthFlows` | tlapm |
| `PoolRange` | the arithmetic of bin ranges: `useExistingPool`, the single-sided plan | used by the next four |
| `PositionCustody` | what the executor promises: value leaves a position only to its recipient | as `ImplementsCustody` |
| `ExecutorProgram` | the seven instructions for any accounts a caller names | `MCExecutorProgram`, run `executor_program` |
| `ExecutorProofs` | theorems about `ExecutorProgram` and `PoolRange` | tlapm |
| `DepositPage` | the page, the dialog and the wallet around the deposit flow, and its steps from use-pool on | `MCDepositPage`, run `deposit_page` |
| `DepositPageProofs` | theorems about `DepositPage` | tlapm |
| `ApiServer` | nonces, beta list and caps, rows whose state is written at any time, restarts | `MCApiServer`, run `api_server` |
| `ApiServerProofs` | theorems about `ApiServer` | tlapm |

### MixerPool

An instruction is one atomic transaction: a handler that errors changes nothing
and is an action that is not enabled. Variables are the fields of the pool
account, the two families of PDAs, lamports, and the two event logs. A
commitment is its note (Poseidon is injective), a root is the number of leaves
under it (leaves are only appended; that the loop computes the root of those
leaves, and that a root has one sequence of leaves, are theorems about
`MerkleInsertion`), a public input is a field element together
with the number of times r is added to encode it. `Prove` is the soundness of
Groth16: a proof exists only for a statement that holds, and the chain accepts
only proofs that exist. `NullifierOf` need not be injective, since nothing keeps
a depositor from using a nullifier twice; `MCMixerPool` has such a pair.
Left out: the rent minimum of the payees' own accounts, and lamports sent to the
pool's key before `initialize`.

`MixerLedger` is what a user is promised. The mapping takes the commitment PDAs
for the notes taken, the payout events for the receipts, and the lamports above
the rent for the vault. A deposit with a commitment used before, a payment that
is not of a whole denomination, or one for a paid nullifier is no step of it.

### MerkleInsertion

One action per round of the loop, so that the cache, the index and the running
hash are visible between rounds. `Hash` is a constant operator and the run gives
it a free interpretation (a pair), under which two hashes are equal only if
their inputs are: an insertion that agrees with the tree there agrees for every
hash function. `TreeOf` builds the full tree layer by layer, as `fixed-merkle-tree`
does; `Leaves[h]` is `1 << h`, written as a recursive function, since the provers know
nothing of `^`. The names (`Insert`, `Insertion`) are its own, so that one module can
prove about both this and `MixerPool`.

### PositionLifecycle

Each `await` ends an action. `req[r].pc` is the await at which request r stands;
`PositionStep` and `SessionStep` are the two repository writes; `Accepted` and
`Rejected` are the two ways in which an adapter call ends, the second with or
without effect; `Throws` is a repository call that rejects outside a `try`.
`beginReconciliation` and `registerSnapshot` are called without `await`, so they
put a save in `saves` that lands later (`SaveLands`) or is lost (`Crash`). The
repository methods read no state before they write, and neither do the actions.
How long a row has been there is left out: a scan may come at any time. The
worker's first scan asks for rows with `Position.state` executing_on_meteora and
is no action, because there are none: `NoExecutingRow` is an invariant of the
model without that scan, it is proved, and the scan's only effect would be
conditional on such a row. `SavesInOrder` says whether two saves of one position
may overtake each other (a pool of database connections may reorder them).

### Relayer

A request carries its nullifier and its root as the strings of its body
(`Hashes`), and `BigInt` says which nullifier a string spells; nothing between body
and map makes spellings one. The in-flight map, the cache and the first-seen table
are keyed by such strings, the chain by nullifiers; the mixer's own memory holds the
strings of successful requests and, after a restart, what `toString` gives (`Decimal`). `Arrive` is the route hook and the
synchronous head of `processWithdrawal`: join the request in flight, fail on the
cache, or take the string. `Settle` is the promise settling: everyone who joined
gets the first one's reply and the `finally` frees the string. `GetSlot` and `Observe` are the two awaits of the
privacy delay. `Send` and `Confirm` are one attempt of `submitConfirmed`; each
attempt is a different transaction, kept in `txs` until it executes or expires,
even after its request is over or the process has died. The program is the map
`paid`. Asks that fail the body, parity or proof checks never leave their
handler. `armedAt` is a history variable: the height of the cluster when the
relayer first met a root.

### PrivateDeposit

A run of `runPrivateDeposit` is an element of `Runs` and, since each run draws
its own note, also the name of its commitment; a user who tries again starts
another run. `pc` is the step at which a run stands; steps that touch nothing
shared belong to the step they lead to. The chain is `history`, the commitments
in the order in which they landed. A tree is the sequence it is built from, so
that `IsKnownRoot` is: a prefix of the history, not older than the ring.
`deposits` is the API's map in the order of insertion; `ListDeposits(order)` lists it
in an order of `ByLeafIndex`, the one that a stable sort gives, as the API and the
browser do, and `Hydrated(order)` takes the events in the order of the chain. `Execute` is the cluster deciding what was
sent; the run learns of it in `WaitForConfirmation`. `Restart` is a new API
process, whose map is what `hydrateFromChain` finds.

Nothing keeps two runs apart: any of them may read the same next index (`ReadStatus`)
and record itself there. The constants say what else may happen, and `private_deposit`
allows all of it. `Outcomes` is what may become of a transaction that passed preflight;
"erred" is one that landed with an error, which `waitForConfirmation` takes for done.
`FailsAt` are the steps at which a call may throw or the tab may be closed: all of
them. `PrivacyDelay` is on, as it is by default: a root that the relayer sees for the
first time is refused and its run ends, since the flow has no retry; another run with
the same tree may find it armed. The relayer is reduced to the delay and the program's
check of the root; what else it does is in `Relayer`. `confirm-deposit` asks for no
authentication (`mixer.controller.ts:182-198`) and takes any record; the model has
only the records that the flow makes, each under its own commitment.

### StealthFlows

One stealth wallet, one position on one pool paired with SOL, and up to two runs at
once. `run` is the one at hand and takes the steps; `other` stands behind it, in
another tab, or left by Back and still going; `Switch` changes the two, so that they
interleave in any way, and `alone` says that there has been one at a time so far. What
a run was started from may show an older record by then (`ShownOpen`, `ShownClosed`).
Transactions of runs that have thrown are kept in `late`. `run.pc` is the step at which the run stands. Each step
reads, sends (`Send`) or learns (`Confirmed`); `Lands` executes a transaction,
`Fail` is any await that throws, `Dismiss` and `TryAgain` are the dialog. A
transaction is a record of what it does and `Apply` what it does to the chain:
everything that leaves the pool arrives in token accounts, SOL as wrapped SOL.
`Seen` and `Balance` are what a run reads through the stealth wallet that it
derived, which is the wrong and empty one if the record's version says so
(`DialogsDerive`, `QuickClaimDerives`, `SweepDerives`). `lost` counts lamports in
notes whose secret is gone; `openly` the largest amount swept in the open.
Amounts are small numbers and the token trades at one: a claim below the smallest
denomination, a swap that returns less than quoted and a price that empties one
side all occur.

### ExecutorProgram, PoolRange and PositionCustody

A caller chooses every account: signer, key of the PoolAuthority, position, pool,
payees, rent payee, recipient of an exit (a wallet, a position, the pool itself), range,
fraction. The guards are the constraints and `require!`s
of the handlers; accounts with only one possible value are left out. DLMM is
external and is what the handlers and executor.service.ts rely on (an add needs two
bin arrays and at most five bins of drift, a close an empty position and no more: that
the fees of a position are paid out by the close itself is taken from the handler's
single CPI, and nothing in the repository settles it). Value is in
lamports and the token trades at one, so that claim, close and swap conserve it.

The mapping to `PositionCustody` takes the exit of the PoolAuthority for the
recipient and what the position holds for the value held. A payment to anybody
else, a swap that touches another's purse, a close that leaves value behind and any
step under a pause are no steps of it.

### DepositPage

A run is `use-pool`, `add-liquidity`, ended; what comes before is in
`PrivateDeposit`. `Run` is the closure of `start`: wallet, target and range are
fixed by the click, and `mounted` says whether the run's `setState`s still reach a
dialog. The active bin that the page shows is cached by the API for thirty seconds
and by the browser for as long, so any bin may be shown (`UsePoolBins`), and a new
one resets the range, also one that was dragged. `asked` is the range of the click,
`got` what use-pool made of it, `given` the active bin that use-pool put into the
configuration, for which the plan of add-liquidity is made. The record is written with
`asked`. SOL is token X or Y, whichever. `Connect` asks a picked wallet, which stays
`pending` until it answers (`Connected`), under an open dialog too; the connection at
load is pending from the start. `around` is a history
variable: the bin in the middle of a default range, while the pool's own bin is
within `Tolerance` (seven) of it. The size of the deposit and the state of the
network only hold clicks back and are abstract. `forced` marks a dialog closed by
the explainer's cancel.

### ApiServer

`Admit` is the route up to the queries of `assertBetaCaps`, which are two awaits
(`CountActiveByWallet`, `SumActiveAmountSol`) before the row (`CreatePosition`). A
nonce is a row, claimed by an update whether or not the signature is good.
`UpdatePositionState` is the repository's write, which asks for no former state: it may
give any row any state at any time. Who writes it when is `PositionLifecycle`'s; there a
second execute and the worker do write rows open again that had ended. Such a row is
marked `revived`, which nothing but the property reads. The worker's alerts are left
out: the app creates the worker without `captureException`, so that they are log lines.
`SumOf` adds the amounts of rows by counting their units, which is the sum without
recursion.

## 3. The runs

| Run | Bounds | Shows |
|---|---|---|
| `mixer_pool` | 3 notes (2 share a nullifier), 2 wallets, ring of 2 roots, tree of 3 leaves, 2 proofs, both encodings, 4 kinds of terms | all properties of `MixerPool` and the refinement |
| `merkle_insertion` | 3 levels, 9 commitments for 8 leaves | the loop, the tree and the circuit agree; a full tree refuses |
| `position_one_client` | 1 request slot, errors anywhere, 1 restart, saves in any order, no worker | the session implements the table; funds move once; stages are true; terminal is final |
| `position_races` | 2 request slots, worker, errors, 1 restart | rows never run ahead of the venue, nothing is added unfunded or taken out unadded, an abandoned session stays inert |
| `position_liveness` | 1 slot, worker, no restart and no throw, fair | indexing resolves |
| `relayer_safety` | 2 slots, 2 notes, 3 asks (one note in two spellings, for a recipient each), 2 attempts, delay 2, lag 1, 1 restart, incomplete hydration | the relayer's safety |
| `relayer_answers` | 2 slots, 1 note asked for two recipients in one spelling, 1 restart, fair | everyone is answered, who joined too, and truly |
| `private_deposit` | 3 runs at once, ring of 2 roots, privacy delay, 1 restart with an incomplete scan, failed and expired transactions, breaks at every step | earlier deposits go before, what is stored is open and paid for |
| `stealth_flows` | 5 runs of any kind, 2 at once while there were no more than 3, 2 late transactions, 1 trade, denominations 3 and 5, transactions that fail on chain | consent to every sweep; for one run at a time, closed means without liquidity, nothing but dust in the open, what was closed is sold |
| `executor_program` | 1 stealth wallet, the account of a pool as the other key, 2 pools (SOL on either side), 2 position keys, ranges at the end of and across a whole bin array, 3 active bins, 1 trade | authority and position go together, the API's close is accepted, the refinement |
| `deposit_page` | 2 runs, 2 wallets of which both may be asked to connect, active bins 73 and 78, 1 dragged range, the test-pool button | default range accepted, records of their own run, one run per dialog |
| `api_server` | 2 requests, 2 wallets, 3 nonces, 3 positions whose states may be written at any time, 1 restart, clock to 2 | one position per signature, bounded overshoot |

The type invariants of `MerkleInsertion`, `PositionLifecycle`, `Relayer`,
`PrivateDeposit`, `StealthFlows`, `ApiServer` and `DepositPage` hold in the same instances and are
left out of the runs; all of them are proved.

Why the bounds are enough. The ring wraps after 2 roots and a third leaf evicts
one; `U64 = 4` makes the field element 5 a fee that truncates to 1; the balances
are such that the pool is emptied, refilled and given a gift. Nine commitments
meet the full tree. Two request slots suffice for every pair of handlers, and a
slot that is idle serves the next request, so sequences of any length occur;
`venue` counters are bounded by the position's life, since neither row ever
leaves a terminal state for one from which the venue is called again more than
the slots allow. In the relayer two slots give an owner and a joiner, or two
owners, of one spelling or of two; `MaxSlot` only needs to reach the delay. Three
deposits give a tree that misses its last leaf, one that has another run's leaf on
either side, and two runs with one index; the third evicts a root of a ring of two.
Five runs on one
stealth wallet allow an exit that throws after any of its steps, its second and
third try, a claim or a rebalance before and a sweep after; two late transactions
are one more than a run that throws leaves; two of three runs at once are every pair
of flows in any interleaving (`StealthTwoRuns.cfg` needs no more). For the executor, one
wallet that is owner and one key that is not, a pool's own account, give every mix-up
of accounts; the active bins lie below,
inside and above the ranges. For the page, 78 - 8 is the first bin of an array, at
which widening upwards gives up the lowest bin, and 73 is five bins from 78, the
drift that add-liquidity still bears after use-pool; the
theorem covers all other bins. For the API, three positions exceed both caps, and
any of them may end and be written open again at any moment.

Fairness. Positions: weak fairness of a request *in progress*, of a tick and of
pending saves: Node runs every ready callback, the timer repeats, Postgres
answers. Nobody has to send a request, so no fairness on the first step of a
handler. Relayer: weak fairness of the steps of a request being served, since
awaited RPC calls return or reject; transactions need not execute and slots need
not pass. Deposit flow (`FairSpec`, of `PrivateDepositDelay.cfg` only): weak fairness
of the steps of a run that was started and of the cluster deciding on what was sent.
The other modules promise no progress: their flows
wait for clicks and for a chain that may drop every transaction.

Deadlock is not checked for the two mixer modules (a full tree whose notes are
all paid is the end of a pool), for the relayer (bounded slots, leaves and
restarts, and every note paid), for the flows (their runs end) and for the API
(its clock ends). It is checked for the positions, the executor and the page.

## 4. What is proved

`tlapm` proves the following for every value of the constants that satisfies the
named assumptions (`KeysAssumption`, `AmountsAssumption`, `LevelsAssumption`, `ConfigAssumption`,
`ExecutorAssumption`, `PageAssumption`, `RelayerAssumption`, `FlowAssumption`,
`FlowsAssumption`, `ApiAssumption`). Each invariant of a proof was checked by TLC
before it was proved. A theorem with further hypotheses says so below; they are the
parts of the world that the run of the same property assumes too. Some properties
carry hypotheses in themselves (a flag such as `erred`, `alone`, `forced`, or rows set
apart as `Revived`): what they exclude does happen, and section 5 has its
counterexample.

*MixerPoolProofs.* `Invariant`: `Spec => []IndInv`, and from it the type
invariant, `Solvent`, `NoDoubleSpend`, `PaidAsProved`, `RecentRootsKnown`,
`NoNoteLocked` and, with `ImplementsLedger`, that every step of the program is a
step of `MixerLedger` or a stutter. None of the six is inductive alone:

- what the ring contains follows from *where*: slot s holds the root of the last
  deposit whose number is s modulo the ring's size; `RecentRootsKnown` is then
  arithmetic;
- that a paid nullifier cannot be paid again needs that the PDAs are exactly
  those of the payouts, all in canonical encoding;
- `NoNoteLocked`, and that payouts never outnumber leaves, need a count: each
  payout has a nullifier of its own, each of these is that of a leaf, so an
  unpaid nullifier leaves one denomination more than was paid;
- the PDAs of commitments must be exactly the leaves, and every proof in
  circulation a proof of a leaf (`PaidAsProved`, `NoNoteLocked`).

The same module proves the insertion, for a tree of any height and any hash
function: `CacheMatchesTree`, `RootMatchesTree` and `EveryLeafProvable`. The
invariant `InsertionInv` says what the loop knows at its level: the running hash is the
node above the new leaf; below that level the cache holds the left siblings that the next
leaf will need, from it on still those that the new leaf needs (`InTheLoop`; `AtRest`
between two insertions). That an entry outlives the insertion which passes it by is the
heart of it: a node depends on nothing but the leaves below it (`SameNode`), and a left
sibling of the path has no new leaf below it. A right sibling is empty, and
therefore a zero hash (`EmptyNode`). What a recursive definition computes at every
height is proved by taking the least height at which it fails (`LeastNatural`,
`Climb`), since the induction theorems of the library cannot be instantiated.

With `CollisionFree`, that the hash is injective, which is what the circuit assumes of
Poseidon, two more: `OnlyDepositorsCanProve`, that whatever path the circuit accepts
for the stored root, its leaf is a commitment that was deposited (or the value of an
empty leaf), and `RootNamesLeaves`, that two histories of deposits with one root are
the same. `MixerPool` takes both for granted where it writes a root as a number of
leaves and a proof as a statement about a leaf.

*PositionLifecycleProofs.* For any number of concurrent requests, restarts and
errors, with or without worker, with saves in any order: `TypeOK`,
`LandedOnlyIfAdded`, `CompletedOnlyIfExited`, `NoExecutingRow`,
`SignatureOfRealAdd` and `AbandonedIsInert`. The invariant (`IndInv`) adds what each program counter knows: a
request past `addLiquidity` knows that liquidity was added (`PcTrue`), one past
the venue's exit that it took effect, a worker or reader past a load that the
signature it saw was real (`WorkerTrue`). The table plays no part, which is why
the theorems survive the races that break the table.

`AbandonedIsInert` is about a session that a restart, or a throw of an await, left
executing: no execute, exit, poll, late save or tick ever touches its rows or the venue
again. Nobody knows whether its liquidity was added, so this is what keeps a retry from
adding twice; it is also why nothing resolves it (`ExecutingResolves` fails, section 5).
The proof needs that no request other than the one that is gone could have been past the
check: reading a draft row leads to `execute` only, and `MayExecute` refuses the session.

`MoneyInOrder` relates the calls outside to one another: liquidity is added at most as
often as it was funded, and nothing is claimed or closed before something was added. It
is proved for any finite number of requests (`IsFiniteSet(Requests)`), since its
invariant counts: each addition, and each request between its funding and the answer of
the venue, has a funding of its own (`Covered`). A request that is broken off there
leaves its funding unused, so the two numbers need not meet again. This is what remains
of `AtMostOnce` when two clients execute at once.

With one client at a time and no worker (`OneClient`), and still any number of errors
and restarts and saves in any order: `AtMostOnce`, `StageIsTrue`, `TerminalIsFinal`
and `FollowsMachine`, that the session implements `ExecutionStateMachine`. The
invariant `Alone` is a table: which states of the two rows occur together
(`RowsTogether`, all that a handler may leave behind when it is broken off), what the venue has
not done by the state of the session (`NotYet`), and what each await knows
(`HandlerKnows`). The step that is not a matter of the table is the activation: a
reader who finds a signature makes an exit possible again. `OneSignature` closes
that: there is one signature in the store and among the unawaited saves together, and
as long as there is one nothing has been exited. Both halves of `OneClient` are needed:
TLC refutes each of the four properties for one client with the worker on, and for two
clients without it.

*ExecutorProofs.* First the ranges, for all bins: a widened range spans two arrays
and fits a position (`UsePoolFits`), widening loses at most one bin at one end
(`UsePoolKeeps`) and is idempotent (`UsePoolStable`), which is what lets the API
rebuild the transaction of a position. Then the program, for any wallets, pools,
ranges and amounts: `TypeOK`, `AuthorityHasPosition`, `AlwaysClosable` and the
refinement of `PositionCustody`. The invariant is `AuthorityHasPosition` with
`FilledWithin` (bins with liquidity lie inside the position): a close empties
exactly the range that it names, so `AlwaysClosable` needs both that the range is
reproduced and that nothing lies outside it, and that the recorded recipient is neither the
position nor the pool, which `init` accepts and `close` refuses; the refinement needs that one position
has one key, or a payment from it would be a step of two.

*DepositPageProofs.* `DefaultRangeTakesSol` is the arithmetic: around any bin, at
any two active bins within seven of it. `PageInv` carries it to the specification:
until it is dragged, the range on the page is the default one of the bin shown
(`PageOK`), and each run knows which range it asked for and at which bin that was
widened (`RunOK`). From it `DefaultRangeAccepted`, for drifts that the run's two bins do
not have. `RecordOfItsRun` is about the run that a record names: it is done, on that pool
and under that wallet, and since a run that is done stays as it is (`DoneStays`) and
use-pool gives up one bin at most (`UsePoolCovers`), its position covers the recorded
range but for one. It does not say that the record *is* the position's range; that fails
(section 5). Both hold for any wallets, ranges and number of
runs. `PhaseTrue` speaks of a cardinality; `PhaseOK` says instead that the runs in
flight and on the page are none, or one in a dialog that is open and says running.

*RelayerProofs.* `OneServed`, `SpentMemoryTrue`, `PaidAsAnswered`, `DelayHeld`, the
types and `JoinersHaveOwner`, for any requests, notes, spellings, asks, attempts, delay
and lag, with rival withdrawals, restarts and transactions that land late. The request
that works on a string is the one that the in-flight map names (`Owned`), which gives
exclusion per string, and that who joined has an owner; two spellings of one nullifier
are served together, and `SpentMemoryTrue` and `PaidAsAnswered` hold in spite of it.
`Counted` says that the counter is the
number of submissions under way, in any finite set of requests. For the delay, `Timely`
orders the three clocks: the row of a root and the slot that a request has read trail
the moment at which the relayer met the root by the lag at most, and no root is in the
table that it has not met.

*PrivateDepositProofs.* For any number of concurrent runs, with every outcome of a
transaction, runs that break off anywhere, restarts and incomplete scans, and without a
hypothesis: `ServedInOrder`, `StoredIsOpen` and the types. What makes the first hold is
that an index only ever lies between what its run read and where its deposit landed
(`Placed`): a deposit that had landed when another run read was recorded, or scanned, at
an index below the other's. A hydrated cache holds entries of the chain, each once and at
its place (`HydratedTrue`). For the second, what a run has done is fixed by where it stands
(`Paid`): the program takes only a prefix of its history for a root, the tree holds the
run's own leaf, so whoever is paid has landed; and preflight refuses to add to a position
that was not opened. That an entry's index is right (`CacheTrue`), that a stored position
has liquidity (`StoredIsTrue`) and that a landed deposit is served (`Served`) are not
theorems, because they are not true of the code (section 5).

*StealthFlowsProofs.* `ClosedHoldsNothing`, `OnlyDustInTheOpen`, `SoldWhatItClosed`
and the types, for any denominations, fees, funding, number of runs, trades and late
transactions, whether or not transactions fail on chain. What a late transaction can
still do is decided by the position that it names: names are used in order (`Named`),
an init on its way names a position that is not there and nothing else names
(`Unborn`), so once a position is closed no late add or close applies to it (`Gone`,
`Closed`). The bound on sweeps follows every sweep from the check of the balance to
its landing (`Dust`); `Tracked` follows the other token through close, claim and swap.
`Placed` is what each step of the three step lists knows of its own transaction.
With a second run beside the first (`Beside`, `Switched`), the types and the consent to
every sweep remain, and nothing else does: `ClosedHoldsNothing` and the bound on a sweep
are claims about one run at a time (`alone`), and `SoldWhatItClosed` about a run that
nothing disturbed (`quiet`). `ClosedHoldsNothing` is about liquidity: token and wrapped
SOL may remain in the accounts of the stealth wallet.

*ApiServerProofs.* `OnePositionPerSignature` and `OvershootBounded` for any wallets,
requests, caps, amounts and restarts, and whatever state is written to whatever row in
between: a nonce is behind one row or one request past
the check, not both (`OneUse`); rows and the requests that have read a cap and not
written yet stay together within the cap and one less than the requests there can be
(`CountBound`, `AmountBound`), where a request that has read less than there is now is
bounded by those that were in flight with it. Rows that were written open again after an
end are in neither bound: they were in no count while they had ended, and nothing limits
their number.

Only model-checked: the liveness properties (`IndexingResolves`, `Answered`), which are
out of reach of the prover, as is fairness; and the counterexamples of section 5.

## 5. Where the code and its documents disagree

These were met while modelling. Each configuration named here is kept beside the
modules and makes TLC show the behaviour (`tlc -config <file> <MC module>`); none of them
is one of the runs of `PROJECT.json`, which all pass.

| Where | What is said | What the code does | Shown by |
|---|---|---|---|
| `runbooks/ARCHITECTURE.md:258`, `recovery-worker.ts:18-24`, `app.ts:224` | the worker watches `executing_on_meteora` and advances it | it selects by `Position.state`, which execute does not move, so a row left executing by one restart, or by one throw between the venue and the save, is never selected (`NoExecutingRow` is proved) and never resolves | `PositionStuckExecuting.cfg` (`ExecutingResolves`) |
| `README.md:48` | every move is validated by the state machine | it is, on a value read before an `await`: two requests at once leave the table | `FollowsMachine`, `StageIsTrue` with two request slots |
| `README.md:262` | positions are never orphaned | a restart between the reconciler's two updates leaves one in indexing | `IndexingResolves` with `MaxCrashes = 1` |
| `position.repository.ts:36-40` | the caps count what "is still holding or about to hold capital" | the state is written without regard to the one before (`:83`): a row that ended, and whose place was taken, is written open again by a concurrent execute (`position.service.ts:259`) or by the worker (`recovery-worker.ts:291`), and the cap is passed with one intent in flight | `ApiRevived.cfg` (`WithinBetaCaps`) |
| `relayer.service.ts:59-64` | concurrent requests "for the same nullifier" are serialized, so that two cannot both pay gas | the map is keyed by the string of the body, which nothing puts in one form: two spellings of a nullifier pass together and both are submitted; one of the two is paid | `RelayerTwoSpellings.cfg` (`OneServedPerNullifier`) |
| `mixer.service.ts:385`, `relayer.routes.ts:69` | gas is paid only for a pool with a minimum of unspent deposits | withdrawals made without the relayer are not counted, and two admitted together may both pay below the minimum | read in the code; no property of `Relayer` claims the minimum |
| `privateDeposit.ts:27` (step 8) | the relayer submits and funds the stealth wallet | under the default delay it refuses a root it sees for the first time and asks for a retry, which the flow does not make: it throws and its note is gone. The first withdrawal of every root ends so | `PrivateDepositDelay.cfg` (`Served`) |
| `privateDeposit.ts:333-337` | the leaf index is read free of races unless one tab runs two deposits | two users suffice: both read one index and both are recorded at it, and the trees of later users are wrong until the API restarts. (`confirm-deposit` takes any record without authentication, `mixer.controller.ts:182-198`) | `PrivateDepositIndex.cfg` (`CacheTrue`) |
| `privateDeposit.ts:30` (step 11) | the stealth wallet adds liquidity, and then the position is stored | `waitForConfirmation` (`:572-582`) does not look at the error of a transaction that landed: a position whose add-liquidity failed is stored like any other | `PrivateDepositErred.cfg` (`StoredIsTrue`) |
| `runbooks/PRIVACY_MODEL.md:91`, `stealthVault.ts:14` | the stealth wallet can be recovered on any device | the signed message holds a random position id, stored only after the last step | `PrivateDepositStealth.cfg` (`StealthRecoverable`) |
| `PrivateDepositModal.tsx:428-429`, `usePortfolioPositions.ts:176` | the record's bins are the position's, to fall back on when the chain cannot be read | use-pool may widen or trim the range (`executor.service.ts:278-309`); the record keeps what was asked for | `DepositRecord.cfg` (`RecordIsPosition`) |
| `PrivateDepositModal.tsx:455` | "don't allow closing mid-flight" | a connection asked for before (at page load, or by a click) may answer under a running dialog and bring up the explainer, whose cancel closes both | `DepositForced.cfg` (`NeverForced`) |
| `PrivateExitModal.tsx:184` | "the funds are now at the main wallet, so the position record is closed" | `confirmTransaction`'s `err` is not read: after a close or payout that failed on chain the record is closed too | `StealthUnconfirmed.cfg` (`ClosedIsGone`) |
| `PrivateExitModal.tsx:184` | the same | a rebalance left by Back, or in another tab, between its close and its init goes on beside an exit, which finds no position, marks the record closed, and has it refilled | `StealthTwoRuns.cfg` (`ClosedStaysClosed`) |
| `privateExit.ts:381-384`, `PrivateExitModal.tsx:364-368` | after a close that landed, the SOL is at the stealth wallet and only the mixer is left | it may be in a note of the run before, whose secret lived in that run only | `StealthNoteLost.cfg` (`NoNoteLost`) |
| `localPositions.ts:31-32` | a record is removed "only after the funds have been swept out" | wrapped SOL is not unwrapped by close, claim or swap, and the sweep page drops the record | `StealthDropped.cfg` (`DroppedIsEmpty`) |
| `executor.service.ts:267-269` | widening "widens capacity without changing the liquidity footprint" | ten bins `[0..9]` become `[1..70]`; a request whose only bin for SOL is the one given up is refused | `ExecutorFootprint.cfg` (`DepositAsAsked`) |
| `docs/test-plan.md:131` (EXE-DLM-WC-002), `tests/octora-executor-dlmm-edge-cases.ts:286-326` | a withdrawal of half of the liquidity leaves the position open | `dlmm_withdraw_close` removes what it is told to, then always closes position and authority: with liquidity left the whole transaction is refused | `WithdrawCloseAccepts` of `ExecutorProgram`, translated from `withdraw_close.rs` |
| `docs/test-plan.md:100` (EXE-DLM-INIT-009; `:420` lists it as not yet tested) | an exit recipient that is the PoolAuthority itself is rejected | `init_position.rs:77` stores any key. A recipient that is the position or the pool is accepted as well, and such a position can never be closed (`withdraw_close.rs:86-95`) | the hypothesis of `AlwaysClosable`: without it the run fails |
| `recovery-worker.ts:31`, `:107-111`, `app.ts:225-226`, `ARCHITECTURE_AND_MAINNET_GAPS.md:67` | a newly failed position is paged "exactly once" ("Sentry captures one event per new failure") | `app.ts:230-237` creates the worker without `captureException`, so that the capture does nothing: there is a log line and nobody is paged; with the hook, a restart would page again, as `:113-116` admits | read in the code; alerts are not modelled |

Read in the code, not shown by a configuration:

- The portfolio's direct claim (`PortfolioPage.handleClaim`) takes the bins of the record
  where the chain cannot be read: the asked range, not the position's.
- Drafts count in the beta caps for ever, and `completed` frees the cap while the
  liquidity may remain.
- A nonce is used up by a signature that does not verify.
- `executor.service.ts:401-410` handles a stale PoolAuthority, which cannot occur
  (`Paired`).
- `PrivateExitModal.tsx:34` says that a missing version means v1; the code treats
  it as v2.
- `PortfolioPage.handleClaim` never passes `positionId`; `validateSwapIntent` is
  used by no route; dust in the escrow of a PoolAuthority has no way out.
- `getSwapQuote` quotes from a pool instance up to 30 s old.
- On the deposit page: a bootstrap that answers after the dialog was closed still
  sets its target (`:230-231` says otherwise); the acknowledgement of a thin pool is
  skipped because preselection starts at the preview (`:155-158`); "Try again"
  ignores `networkUnsafe`; a refetch of the active bin discards a dragged range even
  under the dialog; the "Active in range" pill is constant
  (`PoolDetailView.tsx:239`); a late connection at load overwrites one made by hand;
  the text at `:558` promises that a deposit resumes, and nothing resumes it.

## 6. Plan

Done: `MixerPool`, `MixerLedger`, `MerkleInsertion`, `ExecutionStateMachine`,
`PositionLifecycle`, `Relayer`, `PrivateDeposit`, `StealthFlows`,
`ExecutorProgram` with `PoolRange` and `PositionCustody`, `DepositPage`, `ApiServer`.

Proved: every safety property of the runs, the refinements of `MixerLedger` and
`PositionCustody`, and the table of positions. What could follow:

1. the steps that the map leaves thin: the builders of dlmm.service.ts and the rest of
   the two dialogs;
2. the gate of the relayer at submission: a property that bounds by how much the
   minimum of unspent deposits may be missed between the check and the payment.

Not modelled, and why:

- the constraints of the withdraw circuit and Groth16: the model takes that a proof
  convinces only with a real path, since field arithmetic is out of TLC's reach;
- the rate limiter: a counter per address and minute that no other state depends on;
- changes of the beta list: rows an administrator writes, one at a time;
- the portfolio, pool-list and landing pages: they draw what the API returns;
- prices, tokens, market data of the DLMM service, waitlist, health, metrics: lookups
  and caches with a time to live, on which no property above depends;
- custody wallets: derivation of keys and encryption at rest;
- the pages and scripts for the devnet test pair.

The map covers about a sixth of the implementation's lines. The rest is mostly
presentation, lookups and thin HTTP handlers, with no state that outlives a call.
