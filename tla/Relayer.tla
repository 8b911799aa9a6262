-------------------------------- MODULE Relayer --------------------------------
(***************************************************************************)
(* The mixer relayer of octora-api for one denomination: the route hooks   *)
(* and RelayerService.processWithdrawal over the in-flight map, the cache  *)
(* of spent nullifiers, the persistent first-seen table of the privacy     *)
(* delay, and submitConfirmed with its retries; with the tracker of the    *)
(* anonymity set that the relayer shares with the mixer service.           *)
(*                                                                         *)
(* Each await is the end of an action.  The program of MixerPool appears   *)
(* as the set of nullifiers it has paid; any transaction may also be       *)
(* dropped, which is how the program's other refusals show here.  Proofs   *)
(* that fail the body, parity or verification checks never leave their     *)
(* handler and are not enumerated: an ask is a request with a valid proof. *)
(*                                                                         *)
(* A client spells the nullifier as a string, and any string that BigInt   *)
(* reads as the nullifier passes the checks ("123", "0123", "0x7b").  The  *)
(* maps of the process are keyed by that string; the parity check, the     *)
(* lookup on chain and the transaction go by its value.  A root is spelled *)
(* too: as the table and the checks never compare two spellings of a root, *)
(* Roots are the strings.                                                  *)
(***************************************************************************)
EXTENDS Integers, FiniteSets

CONSTANTS
    Requests,        \* HTTP requests the relayer can be serving at once
    Nullifiers, Roots, Recipients,
    Hashes,          \* strings that clients send as nullifierHash
    BigInt,          \* the nullifier that each spells
    Decimal,         \* the spelling that toString gives
    Asks,            \* [nullifierHash, root, recipient] that clients submit
    Delay,           \* privacyDelaySlots
    Lag,             \* slots by which the RPC node's getSlot may trail
    MaxAttempts,     \* of submitConfirmed
    MinAnonymitySet, \* MIN_ANONYMITY_SET
    InitialLeaves,   \* deposits in the pool at the start
    MaxLeaves,       \* bound: deposits
    MaxSlot,         \* bound: slots
    MaxCrashes,      \* bound: restarts of the relayer
    SelfWithdrawals, \* holders may also withdraw without the relayer
    HydrateMayMiss,  \* the scan of past withdrawals may leave some out
    Nobody           \* no request, no recipient

ASSUME RelayerAssumption ==
    /\ BigInt \in [Hashes -> Nullifiers] /\ Decimal \in [Nullifiers -> Hashes]
    /\ \A n \in Nullifiers : BigInt[Decimal[n]] = n
    /\ Asks \subseteq [nullifierHash: Hashes, root: Roots, recipient: Recipients]
    /\ Nobody \notin Requests \cup Recipients
    /\ Delay \in Nat \ {0} /\ Lag \in Nat
    /\ MaxAttempts \in Nat \ {0}
    /\ MinAnonymitySet \in Nat /\ InitialLeaves \in Nat /\ MaxLeaves \in Nat
    /\ MaxSlot \in Nat /\ MaxCrashes \in Nat
    /\ SelfWithdrawals \in BOOLEAN /\ HydrateMayMiss \in BOOLEAN
    /\ IsFiniteSet(Requests)

VARIABLES
    req,        \* the requests: where they are, what they ask, last reply
    inFlight,   \* RelayerService.inFlight: nullifierHash to the request serving it
    cache,      \* OnChainNullifierRegistry.cache
    pending,    \* RelayerService.pendingWithdrawals
    known,      \* MixerService.knownNullifiers
    firstSeen,  \* the MixerRootSeen table; -1: no row
    txs,        \* transactions sent and neither executed nor expired
    paid,       \* nullifier account: the transaction that created it
    leaves,     \* MixerPool.next_leaf_index
    slot,       \* height of the cluster
    armedAt,    \* height of the cluster when the relayer first met a root
    crashes

local == <<req, inFlight, cache, pending, known>>
chain == <<paid, leaves, slot>>
vars == <<local, firstSeen, txs, chain, armedAt, crashes>>

Unpaid == [owner |-> Nobody, attempt |-> 0, recipient |-> Nobody]
Orphan(t) == [t EXCEPT !.owner = Nobody, !.attempt = 0]
Spent == {n \in Nullifiers : paid[n] # Unpaid}

\* No request yet, and none answered.
NoAsk == [nullifierHash |-> Nobody, root |-> Nobody, recipient |-> Nobody]
Idle == [pc |-> "idle", ask |-> NoAsk, slot |-> 0, attempt |-> 0, reply |-> "none",
         recipient |-> Nobody]

Init ==
    /\ req = [r \in Requests |-> Idle]
    /\ inFlight = [h \in Hashes |-> Nobody]
    /\ cache = {} /\ known = {}
    /\ pending = 0
    /\ firstSeen = [x \in Roots |-> -1]
    /\ armedAt = [x \in Roots |-> -1]
    /\ txs = {}
    /\ paid = [n \in Nullifiers |-> Unpaid]
    /\ leaves = InitialLeaves
    /\ slot = 0
    /\ crashes = 0

At(r, pc) == req[r].pc = pc
Goto(r, pc) == req' = [req EXCEPT ![r].pc = pc]
Hash(r) == req[r].ask.nullifierHash
Nul(r) == BigInt[Hash(r)]

\* The promise of r settles: r and everyone who joined it get its result,
\* recipient included, and the finally clause frees the string.
Waiters(r) == {q \in Requests : At(q, "joined") /\ Hash(q) = Hash(r)} \cup {r}
Settle_kept(r, reply) ==                       \* mutant: no finally
    /\ req' = [q \in Requests |->
                 IF q \in Waiters(r)
                 THEN [req[q] EXCEPT !.pc = "idle", !.reply = reply, !.slot = 0,
                                     !.attempt = 0, !.recipient = req[r].ask.recipient]
                 ELSE req[q]]
    /\ UNCHANGED inFlight
Settle(r, reply) ==
    /\ req' = [q \in Requests |->
                 IF q \in Waiters(r)
                 THEN [req[q] EXCEPT !.pc = "idle", !.reply = reply, !.slot = 0,
                                     !.attempt = 0, !.recipient = req[r].ask.recipient]
                 ELSE req[q]]
    /\ inFlight' = [inFlight EXCEPT ![Hash(r)] = Nobody]

(***************************************************************************)
(* preSubmit, then processWithdrawal up to its first real await: join the  *)
(* request in flight under this string, or take it and look in the cache.  *)
(***************************************************************************)
AnonymitySet == leaves - Cardinality(known)     \* as the tracker counts it, string by string

Free_unlocked(h) == TRUE                        \* mutant: in-flight map not read
Free(h) == inFlight[h] = Nobody

Arrive(r, ask) ==
    /\ At(r, "idle")
    /\ AnonymitySet >= MinAnonymitySet
    /\ LET h  == ask.nullifierHash
           to(pc) == req' = [req EXCEPT ![r] = [Idle EXCEPT !.pc = pc, !.ask = ask]]
       IN  \/ /\ ~Free(h)
              /\ to("joined") /\ UNCHANGED inFlight
           \/ /\ Free(h) /\ h \in cache
              /\ req' = [req EXCEPT ![r] = [Idle EXCEPT !.ask = ask, !.reply = "failed",
                                                        !.recipient = ask.recipient]]
              /\ UNCHANGED inFlight
           \/ /\ Free(h) /\ h \notin cache
              /\ to("isSpent") /\ inFlight' = [inFlight EXCEPT ![h] = r]
    /\ UNCHANGED <<cache, pending, known, firstSeen, txs, chain, armedAt, crashes>>

\* isSpent on a cache miss: the nullifier account is looked up on chain.
IsSpent(r) ==
    /\ At(r, "isSpent")
    /\ IF Nul(r) \in Spent
       THEN cache' = cache \cup {Hash(r)} /\ Settle(r, "failed")
       ELSE Goto(r, "getSlot") /\ UNCHANGED <<cache, inFlight>>
    /\ UNCHANGED <<pending, known, firstSeen, txs, chain, armedAt, crashes>>

GetSlot(r) ==
    /\ At(r, "getSlot")
    /\ \E s \in slot - Lag .. slot :
           /\ s >= 0
           /\ req' = [req EXCEPT ![r].pc = "observe", ![r].slot = s]
    /\ LET x == req[r].ask.root
       IN  armedAt' = [armedAt EXCEPT ![x] = IF @ = -1 THEN slot ELSE @]
    /\ UNCHANGED <<inFlight, cache, pending, known, firstSeen, txs, chain, crashes>>

(***************************************************************************)
(* checkPrivacyDelay: upsert the first-seen slot of the root and refuse    *)
(* until Delay slots later; the request that arms a root is refused.       *)
(* With the delay met and the proof verified, the submission is counted.   *)
(***************************************************************************)
FirstSeen(r) ==
    LET x == req[r].ask.root
    IN  IF firstSeen[x] = -1 THEN req[r].slot ELSE firstSeen[x]

DelayMet_armAccepts(r) ==                       \* mutant: arming is enough
    firstSeen[req[r].ask.root] = -1 \/ req[r].slot - FirstSeen(r) >= Delay
DelayMet(r) == req[r].slot - FirstSeen(r) >= Delay

Observe(r) ==
    /\ At(r, "observe")
    /\ firstSeen' = [firstSeen EXCEPT ![req[r].ask.root] = FirstSeen(r)]
    /\ IF DelayMet(r)
       THEN /\ req' = [req EXCEPT ![r].pc = "send", ![r].attempt = 1]
            /\ pending' = pending + 1
            /\ UNCHANGED inFlight
       ELSE /\ Settle(r, "failed")
            /\ UNCHANGED pending
    /\ UNCHANGED <<cache, known, txs, chain, armedAt, crashes>>

\* An RPC or database call before the submission rejects: a 400, no reply body.
Throws(r) ==
    /\ req[r].pc \in {"isSpent", "getSlot", "observe"}
    /\ Settle(r, "failed")
    /\ UNCHANGED <<cache, pending, known, firstSeen, txs, chain, armedAt, crashes>>

(***************************************************************************)
(* submitConfirmed: each attempt signs with a fresh blockhash, so attempts *)
(* are different transactions and an earlier one may still execute.        *)
(***************************************************************************)
Tx(r) == [owner |-> r, attempt |-> req[r].attempt, nullifier |-> Nul(r),
          root |-> req[r].ask.root, recipient |-> req[r].ask.recipient]

\* What is still in the network when its request is over belongs to nobody.
Disown(set, owners) ==
    {IF t.owner \in owners THEN Orphan(t) ELSE t : t \in set}

\* The submission throws: pendingWithdrawals--, success false.
GiveUp(r, sent) ==
    /\ Settle(r, "failed")
    /\ pending' = pending - 1
    /\ txs' = Disown(sent, {r})

\* A retryable RPC error: next attempt, or give up after the last one.
Retry(r, sent) ==
    IF req[r].attempt < MaxAttempts
    THEN /\ req' = [req EXCEPT ![r].pc = "send", ![r].attempt = @ + 1]
         /\ txs' = sent
         /\ UNCHANGED <<inFlight, pending>>
    ELSE GiveUp(r, sent)

\* sendTransaction simulates first, so a spent nullifier is refused there.  An
\* error of the RPC node does not say whether it forwarded the transaction.
Send(r) ==
    /\ At(r, "send")
    /\ \/ /\ Nul(r) \notin Spent
          /\ txs' = txs \cup {Tx(r)}
          /\ Goto(r, "confirm")
          /\ UNCHANGED <<inFlight, pending>>
       \/ Nul(r) \in Spent /\ GiveUp(r, txs)
       \/ GiveUp(r, txs)
       \/ \E sent \in {txs, txs \cup {Tx(r)}} :
              Nul(r) \notin Spent /\ Retry(r, sent)
    /\ UNCHANGED <<cache, known, firstSeen, chain, armedAt, crashes>>

Landed_byAccount(r) == paid[Nul(r)] # Unpaid    \* mutant: anyone's transaction
Landed(r) == paid[Nul(r)] = [owner |-> r, attempt |-> req[r].attempt,
                             recipient |-> req[r].ask.recipient]

\* confirmTransaction resolved: success only without confirmation.value.err.
Confirmed_unchecked(r) == Tx(r) \notin txs      \* mutant: value.err ignored
Confirmed(r) == Landed(r)

\* markSpent, the reply, and postCommit for every caller that gets it.
Succeed(r) ==
    /\ Confirmed(r)
    /\ cache' = cache \cup {Hash(r)}
    /\ known' = known \cup {Hash(r)}
    /\ pending' = pending - 1
    /\ Settle(r, "success")
    /\ txs' = Disown(txs, {r})

\* The transaction failed on chain or its blockhash expired: not retryable.
\* Or the RPC node fails while the transaction is in any state.
Confirm(r) ==
    /\ At(r, "confirm")
    /\ \/ Succeed(r)
       \/ /\ GiveUp(r, txs)
          /\ UNCHANGED <<cache, known>>
       \/ /\ Retry(r, txs)
          /\ UNCHANGED <<cache, known>>
    /\ UNCHANGED <<firstSeen, chain, armedAt, crashes>>

(***************************************************************************)
(* The cluster and the other users of the pool.                            *)
(***************************************************************************)
\* A sent transaction executes: `init` of the nullifier account decides.
Execute(t) ==
    /\ txs' = txs \ {t}
    /\ paid' = IF paid[t.nullifier] # Unpaid THEN paid
               ELSE [paid EXCEPT ![t.nullifier] =
                        [owner |-> t.owner, attempt |-> t.attempt,
                         recipient |-> t.recipient]]
    /\ UNCHANGED <<local, firstSeen, leaves, slot, armedAt, crashes>>

\* Its blockhash expires, or the program refuses it (paused, unknown root).
Drop(t) ==
    /\ txs' = txs \ {t}
    /\ UNCHANGED <<local, firstSeen, chain, armedAt, crashes>>

\* A holder submits the transaction of POST /mixer/withdraw without the relayer.
SelfWithdraw(ask) ==
    /\ SelfWithdrawals
    /\ BigInt[ask.nullifierHash] \notin Spent
    /\ paid' = [paid EXCEPT ![BigInt[ask.nullifierHash]] =
                  [owner |-> Nobody, attempt |-> 0, recipient |-> ask.recipient]]
    /\ UNCHANGED <<local, firstSeen, txs, leaves, slot, armedAt, crashes>>

Deposit ==
    /\ leaves < MaxLeaves
    /\ leaves' = leaves + 1
    /\ UNCHANGED <<local, firstSeen, txs, paid, slot, armedAt, crashes>>

Tick ==
    /\ slot < MaxSlot
    /\ slot' = slot + 1
    /\ UNCHANGED <<local, firstSeen, txs, paid, leaves, armedAt, crashes>>

\* The process dies with all its maps and comes back; hydrateFromChain reads
\* past WithdrawEvents, skipping every transaction it fails to fetch.
Crash ==
    /\ crashes < MaxCrashes
    /\ crashes' = crashes + 1
    /\ req' = [r \in Requests |-> Idle]
    /\ inFlight' = [h \in Hashes |-> Nobody]
    /\ cache' = {}
    /\ pending' = 0
    /\ \E found \in SUBSET Spent :
           /\ ~HydrateMayMiss => found = Spent
           /\ known' = {Decimal[n] : n \in found}
    /\ txs' = Disown(txs, Requests)
    /\ UNCHANGED <<firstSeen, chain, armedAt>>

\* Handler steps of a request that is being served; a joined one only waits.
Serve(r) == IsSpent(r) \/ GetSlot(r) \/ Observe(r) \/ Throws(r) \/ Send(r)
            \/ Confirm(r)

Next ==
    \/ \E r \in Requests : Serve(r) \/ \E ask \in Asks : Arrive(r, ask)
    \/ \E t \in txs : Execute(t) \/ Drop(t)
    \/ \E ask \in Asks : SelfWithdraw(ask)
    \/ Deposit
    \/ Tick
    \/ Crash

Spec == Init /\ [][Next]_vars

\* Awaited calls return or reject, so a request being served goes on.
FairSpec == Spec /\ \A r \in Requests : WF_vars(Serve(r))

(***************************************************************************)
(* Properties.                                                             *)
(***************************************************************************)
PCs == {"idle", "joined", "isSpent", "getSlot", "observe", "send", "confirm"}
Working == PCs \ {"idle", "joined"}

\* The maps, counters and tables have the shapes that the classes declare.
TypeOK ==
    /\ req \in [Requests -> [pc: PCs, ask: Asks \cup {NoAsk}, slot: 0 .. MaxSlot,
                             attempt: 0 .. MaxAttempts,
                             reply: {"none", "failed", "success"},
                             recipient: Recipients \cup {Nobody}]]
    /\ inFlight \in [Hashes -> Requests \cup {Nobody}]
    /\ cache \subseteq Hashes /\ known \subseteq Hashes
    /\ pending \in 0 .. Cardinality(Requests)
    /\ firstSeen \in [Roots -> -1 .. MaxSlot]
    /\ \A t \in txs : t.nullifier \in Nullifiers /\ t.root \in Roots
                      /\ t.owner \in Requests \cup {Nobody}
    /\ leaves \in Nat /\ slot \in 0 .. MaxSlot

\* A success names the recipient the program paid: through retries, restarts,
\* joined callers and rival transactions for the same nullifier, other spellings
\* of it included.
PaidAsAnswered ==
    \A r \in Requests : req[r].reply = "success" =>
        paid[Nul(r)] # Unpaid /\ paid[Nul(r)].recipient = req[r].recipient

\* Of the requests past admission no two spell a nullifier alike, through joins,
\* failures, retries and restarts, and what is under way in the network for one
\* spelling was sent for one of them (the lock of relayer.service.ts:141-149).
OneServed ==
    /\ \A q, r \in Requests :
           q # r /\ req[q].pc \in Working /\ req[r].pc \in Working => Hash(q) # Hash(r)
    /\ \A t, u \in txs : t.owner # u.owner /\ Nobody \notin {t.owner, u.owner} =>
           Hash(t.owner) # Hash(u.owner)

\* "We serialize concurrent withdrawal requests for the same nullifier" (H-2,
\* relayer.service.ts:59-64).  It does not hold: two spellings of one nullifier pass
\* together, and gas is paid for both.
OneServedPerNullifier ==
    \A q, r \in Requests :
        q # r /\ req[q].pc \in Working /\ req[r].pc \in Working => Nul(q) # Nul(r)

\* The in-flight map points at the request that is being served, so whoever
\* joins it waits for someone.
JoinersHaveOwner ==
    /\ \A h \in Hashes : inFlight[h] # Nobody =>
           req[inFlight[h]].pc \in Working /\ Hash(inFlight[h]) = h
    /\ \A r \in Requests : At(r, "joined") => inFlight[Hash(r)] # Nobody

\* A nullifier is remembered as spent, by the cache or by the anonymity-set
\* tracker, only if the program has paid for it.
SpentMemoryTrue == \A h \in cache \cup known : BigInt[h] \in Spent

\* Nothing is sent for a root less than Delay slots after the relayer first
\* saw it, up to the lag of the RPC node, restarts included (P0-15).
DelayHeld ==
    /\ \A t \in txs : armedAt[t.root] # -1 /\ slot - armedAt[t.root] >= Delay - Lag
    /\ \A r \in Requests : req[r].pc \in {"send", "confirm"} =>
           slot - armedAt[req[r].ask.root] >= Delay - Lag

\* Every request is answered, joined ones with the one they joined.
Answered == \A r \in Requests : req[r].pc # "idle" ~> req[r].pc = "idle"
=============================================================================
