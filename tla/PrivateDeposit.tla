------------------------------ MODULE PrivateDeposit ------------------------------
(***************************************************************************)
(* The private deposit of the browser (privateDeposit.ts), run by several  *)
(* users over one mixer pool, with the API's cache of deposits from which  *)
(* every one of them rebuilds the Merkle tree.                             *)
(*                                                                         *)
(* A run generates its own note, so a commitment is named by its run; a    *)
(* user who tries again starts another run.  The note, the stealth key     *)
(* and the position id live in the run's memory: a run that throws, or     *)
(* whose window is closed, takes them along.  The chain is the sequence of *)
(* commitments; a tree is the sequence of commitments it is built from.    *)
(* Steps that touch nothing shared (derive, relayer-info, prepare, prove,  *)
(* use-pool) are part of the step they lead to.                            *)
(***************************************************************************)
EXTENDS Integers, Sequences, FiniteSets, SequencesExt

CONSTANTS
    Runs,            \* runs of the deposit flow
    Outcomes,        \* what may become of a transaction that passed preflight
    FailsAt,         \* steps at which a run may throw or be closed
    PrivacyDelay,    \* the relayer refuses a root that it sees for the first time
                     \* (the default; a delay of 0 turns it off)
    RootHistorySize, \* as in MixerPool
    HydrateMayMiss,  \* hydrateFromChain may skip transactions
    MaxRestarts      \* bound: restarts of the API

Steps == {"status", "submit", "confirm", "record", "list", "withdraw", "init",
          "add", "store"}
Ended == {"done", "refused", "abandoned"}

ASSUME FlowAssumption ==
    /\ Outcomes \subseteq {"landed", "erred", "expired"}
    /\ FailsAt \subseteq Steps
    /\ {PrivacyDelay, HydrateMayMiss} \subseteq BOOLEAN
    /\ RootHistorySize \in Nat \ {0} /\ MaxRestarts \in Nat

VARIABLES
    pc,         \* where each run is
    leafIndex,  \* what each run read for its leaf index
    tree,       \* the tree each run built
    tx,         \* each run's deposit transaction
    history,    \* the commitments in the pool, in order
    deposits,   \* MixerService.deposits, in the order of insertion
    armed,      \* trees whose root the relayer has seen
    funded,     \* runs whose stealth wallet was paid
    opened,     \* runs whose position was initialized
    added,      \* runs whose liquidity was added
    stored,     \* runs in the browser's localPositions
    restarts

chain == <<tx, history>>
stealth == <<funded, opened, added>>
vars == <<pc, leafIndex, tree, chain, deposits, armed, stealth, stored, restarts>>

Init ==
    /\ pc = [r \in Runs |-> "idle"]
    /\ leafIndex = [r \in Runs |-> 0]
    /\ tree = [r \in Runs |-> <<>>]
    /\ tx = [r \in Runs |-> "none"]
    /\ history = <<>>
    /\ deposits = <<>>
    /\ armed = {} /\ funded = {} /\ opened = {} /\ added = {} /\ stored = {}
    /\ restarts = 0

At(r, step) == pc[r] = step
Goto(r, step) == pc' = [pc EXCEPT ![r] = step]

(***************************************************************************)
(* The API: the cache of deposits.                                         *)
(***************************************************************************)
Recorded == {deposits[i].commitment : i \in DOMAIN deposits}

RecordDeposit(r, index) ==
    deposits' = IF r \in Recorded THEN deposits
                ELSE Append(deposits, [commitment |-> r, leafIndex |-> index])

\* A set of positions in a sequence, one after the other.
Orders(S) == [1 .. Cardinality(S) -> S]

\* listDeposits: sorted by leaf index; entries with the same index stay in
\* the order of insertion.
Before(i, j) ==
    \/ deposits[i].leafIndex < deposits[j].leafIndex
    \/ deposits[i].leafIndex = deposits[j].leafIndex /\ i < j
ByLeafIndex ==
    {f \in Orders(DOMAIN deposits) : \A i, j \in DOMAIN f : i < j => Before(f[i], f[j])}
ListDeposits(order) == [i \in DOMAIN order |-> deposits[order[i]].commitment]

\* A new process scans the chain, from its beginning, before it serves anybody.
ByTime(found) == {f \in Orders(found) : \A i, j \in DOMAIN f : i < j => f[i] < f[j]}
Hydrated(order) ==
    [k \in DOMAIN order |-> [commitment |-> history[order[k]], leafIndex |-> order[k] - 1]]

Restart ==
    /\ restarts < MaxRestarts
    /\ restarts' = restarts + 1
    /\ \E found \in SUBSET DOMAIN history :
           /\ ~HydrateMayMiss => found = DOMAIN history
           /\ \E order \in ByTime(found) : deposits' = Hydrated(order)
    /\ UNCHANGED <<pc, leafIndex, tree, chain, armed, stealth, stored>>

(***************************************************************************)
(* Up to the deposit: read the next index, submit, wait.  Nothing keeps    *)
(* two browsers from reading the same one.                                 *)
(***************************************************************************)
Start(r) ==
    /\ At(r, "idle")
    /\ Goto(r, "status")
    /\ UNCHANGED <<leafIndex, tree, chain, deposits, armed, stealth, stored, restarts>>

ReadStatus(r) ==
    /\ At(r, "status")
    /\ leafIndex' = [leafIndex EXCEPT ![r] = Len(history)]
    /\ Goto(r, "submit")
    /\ UNCHANGED <<tree, chain, deposits, armed, stealth, stored, restarts>>

Submit(r) ==
    /\ At(r, "submit")
    /\ tx' = [tx EXCEPT ![r] = "sent"]
    /\ Goto(r, "confirm")
    /\ UNCHANGED <<leafIndex, tree, history, deposits, armed, stealth, stored, restarts>>

\* The transaction executes, with or without an error, or expires.
Execute(r) ==
    /\ tx[r] = "sent"
    /\ \E outcome \in Outcomes :
           /\ tx' = [tx EXCEPT ![r] = outcome]
           /\ history' = IF outcome = "landed" THEN Append(history, r) ELSE history
    /\ UNCHANGED <<pc, leafIndex, tree, deposits, armed, stealth, stored, restarts>>

\* waitForConfirmation throws on expiry and does not look at the error.
WaitForConfirmation(r) ==
    /\ At(r, "confirm")
    /\ tx[r] # "sent"
    /\ Goto(r, IF tx[r] = "expired" THEN "abandoned" ELSE "record")
    /\ UNCHANGED <<leafIndex, tree, chain, deposits, armed, stealth, stored, restarts>>

(***************************************************************************)
(* From the deposit to the money: record, rebuild, withdraw.               *)
(***************************************************************************)
\* confirm-deposit is best effort: its failure is reported and passed over.
ConfirmDeposit_late(r) ==        \* mutant: the index of the pool as it is by now
    /\ At(r, "record")
    /\ RecordDeposit(r, Len(history))
    /\ Goto(r, "list")
    /\ UNCHANGED <<leafIndex, tree, chain, armed, stealth, stored, restarts>>
ConfirmDeposit(r) ==
    /\ At(r, "record")
    /\ \E reached \in IF "record" \in FailsAt THEN BOOLEAN ELSE {TRUE} :
           IF reached THEN RecordDeposit(r, leafIndex[r]) ELSE UNCHANGED deposits
    /\ Goto(r, "list")
    /\ UNCHANGED <<leafIndex, tree, chain, armed, stealth, stored, restarts>>

BuildTree(r) ==
    /\ At(r, "list")
    /\ \E order \in ByLeafIndex :
           /\ tree' = [tree EXCEPT ![r] = ListDeposits(order)]
           /\ Goto(r, IF r \in Range(ListDeposits(order)) THEN "withdraw" ELSE "refused")
    /\ UNCHANGED <<leafIndex, chain, deposits, armed, stealth, stored, restarts>>

\* The program: the root is that of a recent state of the pool.
IsKnownRoot(leaves) ==
    /\ IsPrefix(leaves, history)
    /\ Len(history) - Len(leaves) < RootHistorySize

\* The relayer arms a root that is new to it; how long ago it armed another
\* one is left open.  What it refuses makes the flow throw.
DelayMet(leaves) ==
    IF ~PrivacyDelay THEN {TRUE} ELSE IF leaves \in armed THEN BOOLEAN ELSE {FALSE}

RelayerWithdraw(r) ==
    /\ At(r, "withdraw")
    /\ armed' = IF PrivacyDelay THEN armed \cup {tree[r]} ELSE armed
    /\ \E delayMet \in DelayMet(tree[r]) :
           IF delayMet /\ IsKnownRoot(tree[r])
           THEN funded' = funded \cup {r} /\ Goto(r, "init")
           ELSE UNCHANGED funded /\ Goto(r, "refused")
    /\ UNCHANGED <<leafIndex, tree, chain, deposits, opened, added, stored, restarts>>

(***************************************************************************)
(* With the money: open the position, add liquidity, remember it.  The     *)
(* stealth key signs; each step waits as the deposit does.                 *)
(***************************************************************************)
InitPosition(r) ==
    /\ At(r, "init")
    /\ \E outcome \in Outcomes :
           /\ opened' = IF outcome = "landed" THEN opened \cup {r} ELSE opened
           /\ Goto(r, IF outcome = "expired" THEN "abandoned" ELSE "add")
    /\ UNCHANGED <<leafIndex, tree, chain, deposits, armed, funded, added, stored,
                   restarts>>

\* Preflight refuses to add to a position that was not opened.
AddLiquidity_blind(r) ==                        \* mutant: sent without preflight
    /\ At(r, "add")
    /\ \E outcome \in Outcomes :
          /\ added' = IF outcome = "landed" /\ r \in opened THEN added \cup {r} ELSE added
          /\ Goto(r, IF outcome = "expired" THEN "abandoned" ELSE "store")
    /\ UNCHANGED <<leafIndex, tree, chain, deposits, armed, funded, opened, stored,
                   restarts>>
AddLiquidity(r) ==
    /\ At(r, "add")
    /\ IF r \notin opened
       THEN UNCHANGED added /\ Goto(r, "refused")
       ELSE \E outcome \in Outcomes :
              /\ added' = IF outcome = "landed" THEN added \cup {r} ELSE added
              /\ Goto(r, IF outcome = "expired" THEN "abandoned" ELSE "store")
    /\ UNCHANGED <<leafIndex, tree, chain, deposits, armed, funded, opened, stored,
                   restarts>>

\* addLocalPosition, by the modal: the first time that anything is stored.
Store(r) ==
    /\ At(r, "store")
    /\ stored' = stored \cup {r}
    /\ Goto(r, "done")
    /\ UNCHANGED <<leafIndex, tree, chain, deposits, armed, stealth, restarts>>

\* A call throws, its effect there or not, or the user leaves.
Fails(r) ==
    /\ pc[r] \in FailsAt
    /\ Goto(r, "abandoned")
    /\ UNCHANGED <<leafIndex, tree, chain, deposits, armed, stealth, stored, restarts>>

Step(r) ==
    \/ ReadStatus(r)
    \/ Submit(r)
    \/ WaitForConfirmation(r)
    \/ ConfirmDeposit(r)
    \/ BuildTree(r)
    \/ RelayerWithdraw(r)
    \/ InitPosition(r)
    \/ AddLiquidity(r)
    \/ Store(r)

Next ==
    \/ \E r \in Runs : Start(r) \/ Step(r) \/ Execute(r) \/ Fails(r)
    \/ Restart

Spec == Init /\ [][Next]_vars

\* The page runs while its window is open, calls return or throw, and the
\* cluster executes or expires what was sent.  Nobody has to start a run.
FairSpec == Spec /\ \A r \in Runs : WF_vars(Step(r)) /\ WF_vars(Execute(r))

(***************************************************************************)
(* Properties.                                                             *)
(***************************************************************************)

\* The cache is a map: one entry per commitment (recordDeposit).
TypeOK ==
    /\ pc \in [Runs -> Steps \cup Ended \cup {"idle"}]
    /\ leafIndex \in [Runs -> Nat]
    /\ tree \in [Runs -> Seq(Runs)]
    /\ tx \in [Runs -> {"none", "sent", "landed", "erred", "expired"}]
    /\ history \in Seq(Runs)
    /\ deposits \in Seq([commitment: Runs, leafIndex: Nat])
    /\ Cardinality(Recorded) = Len(deposits)
    /\ armed \subseteq Seq(Runs)
    /\ funded \cup opened \cup added \cup stored \subseteq Runs
    /\ restarts \in 0 .. MaxRestarts

\* A deposit that had landed before another run read its leaf index is served
\* before it, and so goes before it in every tree: whatever else is false in the
\* cache (privateDeposit.ts:333-337), only runs that were under way together can
\* be taken in the wrong order, across errors, restarts and scans that miss some.
Landed(r, upTo) == \E k \in DOMAIN history : history[k] = r /\ k <= upTo

ServedInOrder ==
    \A i, j \in DOMAIN deposits :
        Landed(deposits[i].commitment, leafIndex[deposits[j].commitment]) => Before(i, j)

\* A stealth wallet is paid only out of a deposit of its own run, however false
\* the tree was that the run proved for; and a position that the portfolio shows
\* was opened by a wallet so paid, whichever transaction landed with an error
\* that waitForConfirmation does not look at (privateDeposit.ts:572-582).
StoredIsOpen ==
    /\ funded \subseteq Range(history)
    /\ stored \subseteq funded \cap opened

(* What the code or its documents say, and what does not hold.             *)

\* Every deposit that the API serves is in the pool, at the index it is served
\* with ("race-free", privateDeposit.ts:333-337).
CacheTrue ==
    \A i \in DOMAIN deposits :
        LET entry == deposits[i]
        IN  /\ entry.leafIndex < Len(history)
            /\ history[entry.leafIndex + 1] = entry.commitment

\* A position that the portfolio shows has its liquidity (privateDeposit.ts:30).
StoredIsTrue == stored \subseteq added

\* Whoever's deposit lands ends up with a position, unless the run broke off:
\* nobody is refused (privateDeposit.ts:27, step 8).
Served ==
    \A r \in Runs : tx[r] = "landed" ~> pc[r] \in {"done", "abandoned"}

\* A stealth wallet that was paid can be derived again: its position id is in
\* a running flow or in the browser's store (PRIVACY_MODEL.md:91).
StealthRecoverable ==
    \A r \in funded : pc[r] \in Steps \/ r \in stored
=============================================================================
