----------------------------- MODULE DepositPage -----------------------------
(***************************************************************************)
(* The page on which a user opens a private position: the active bin as the *)
(* API and the browser cache it (dlmm.service.ts, usePoolBins.ts), the range *)
(* and the deposit size chosen on the page (PoolDetailView.tsx), the dialog *)
(* that confirms and runs the deposit (PrivateDepositModal.tsx), the wallet *)
(* connection under it (SolanaProvider.tsx), and the runs of the flow from  *)
(* use-pool on.  What a run does before that is PrivateDeposit's.           *)
(*                                                                         *)
(* A run outlives what it was started from: the dialog may be closed under  *)
(* it, the page left, the wallet connected anew, the bins fetched again.    *)
(* An overlay keeps clicks from the page while a dialog is open.  The size  *)
(* is abstract, and so is the state of the network (useNetworkStatus):      *)
(* either may hold a click back at any time.                                *)
(***************************************************************************)
EXTENDS PoolRange, Sequences, FiniteSets

CONSTANTS
    Wallets, NoWallet,
    ActiveBins, NoBin,    \* where the active bin of the pool may be
    Dragged,              \* ranges that a user may drag to
    Devnet,               \* the test-pool button is shown
    TestRange,            \* the range of a test pool, which crosses two bin arrays
    MaxRuns, MaxPicks     \* bounds: runs, and picked wallets that have not answered

ASSUME PageAssumption ==
    /\ NoWallet \notin Wallets /\ NoBin \notin ActiveBins
    /\ ActiveBins \subseteq Int /\ NoBin \in Int /\ Dragged \subseteq Ranges /\ TestRange \in Ranges
    /\ TwoArrays(TestRange)
    /\ Devnet \in BOOLEAN /\ MaxRuns \in Nat /\ MaxPicks \in Nat

VARIABLES
    active,     \* the active bin, on chain
    page,       \* PoolDetailView
    dialog,     \* PrivateDepositModal
    wallet,     \* the connected wallet
    pending,    \* wallets that were asked to connect and have not answered
    seen,       \* wallets that have seen the explainer
    runs,       \* runs of runPrivateDeposit
    store       \* localPositions of each wallet

user == <<wallet, pending, seen>>
vars == <<active, page, dialog, user, runs, store>>

\* What usePoolBins answers while it has no data: bins modelled around the
\* activeBinId of the pool's summary, which is 0.
ShownBin(shown) == IF shown = NoBin THEN 0 ELSE shown

DefaultRange_oneSided(bin) == [lower |-> bin, upper |-> bin + 8]  \* mutant: from the active bin up
DefaultRange(bin) == [lower |-> bin - 8, upper |-> bin + 8]

FreshPage(shown) == [shown |-> shown, range |-> DefaultRange(ShownBin(shown)),
                     touched |-> FALSE]
ClosedDialog == [open |-> FALSE, phase |-> "preview", explainer |-> FALSE,
                 target |-> "pool", boot |-> FALSE, forced |-> FALSE]

Init ==
    /\ active \in ActiveBins
    /\ page = FreshPage(NoBin)
    /\ dialog = ClosedDialog
    /\ wallet = NoWallet /\ seen = {}
    /\ \E w \in Wallets \cup {NoWallet} : pending = {w} \ {NoWallet}  \* the auto-connect at load
    /\ runs = <<>>
    /\ store = [w \in Wallets |-> {}]

-----------------------------------------------------------------------------
(* Bins: the API answers from an instance that lives for thirty seconds and *)
(* keeps the active bin it was created with, so any earlier one may come.    *)

Move ==
    /\ active' \in ActiveBins \ {active}
    /\ UNCHANGED <<page, dialog, user, runs, store>>

\* The query resolves: the first time, after a reconnect, or on a new visit.  A
\* new active bin resets the range, which the page may have been told to change.
UsePoolBins ==
    /\ \E bin \in ActiveBins :
          page' = IF ShownBin(page.shown) = bin
                  THEN [page EXCEPT !.shown = bin]
                  ELSE [page EXCEPT !.shown = bin, !.touched = FALSE,
                                    !.range = DefaultRange(bin)]
    /\ UNCHANGED <<active, dialog, user, runs, store>>

-----------------------------------------------------------------------------
(* The page.                                                               *)

OnPage == ~dialog.open

SetRange ==
    /\ OnPage
    /\ \E r \in Dragged : page' = [page EXCEPT !.range = r, !.touched = TRUE]
    /\ UNCHANGED <<active, dialog, user, runs, store>>

\* Deposit privately.  The dialog starts at the preview, since a size is chosen.
OpenDialog ==
    /\ OnPage /\ page.range.lower <= page.range.upper
    /\ dialog' = [dialog EXCEPT !.open = TRUE, !.phase = "preview",
                                !.explainer = wallet \in Wallets \ seen]
    /\ UNCHANGED <<active, page, user, runs, store>>

\* And a return to it: what happens in between may as well happen before the first
\* click.  Everything on the page is unmounted; the browser's cache of bins is kept,
\* and whatever answers for the old page is lost on it.
LeavePage ==
    /\ page' = FreshPage(page.shown)
    /\ dialog' = ClosedDialog
    /\ runs' = [i \in 1 .. Len(runs) |-> [runs[i] EXCEPT !.mounted = FALSE]]
    /\ UNCHANGED <<active, user, store>>

-----------------------------------------------------------------------------
(* The wallet.                                                             *)

WalletBecomes(w) ==
    /\ wallet' = w
    /\ dialog' = [dialog EXCEPT !.explainer = dialog.open /\ w \in Wallets \ seen]

\* A wallet is picked: provider.connect() waits for its user.  That the picker is held
\* while one is connecting, unless the auto-connect answers first, is left out: any
\* number may be asked at once.
Connect ==
    /\ ~dialog.open /\ Cardinality(pending) < MaxPicks
    /\ \E w \in Wallets \ pending : pending' = pending \cup {w}
    /\ UNCHANGED <<active, page, dialog, wallet, seen, runs, store>>

\* It answers, whatever is connected or open by then; or throws, which disconnects
\* (connect) or is ignored (the auto-connect).
Connected ==
    /\ \E w \in pending :
          /\ pending' = pending \ {w}
          /\ \E now \in {w, NoWallet, wallet} : WalletBecomes(now)
    /\ UNCHANGED <<active, page, seen, runs, store>>

\* From the menu; or by declining the terms, which may be shown above a dialog.
Disconnect ==
    /\ wallet # NoWallet
    /\ WalletBecomes(NoWallet)
    /\ UNCHANGED <<active, page, pending, seen, runs, store>>

-----------------------------------------------------------------------------
(* The dialog.                                                             *)

InDialog == dialog.open /\ ~dialog.explainer

\* The effects on open forget what the dialog showed (which OpenDialog would do as
\* well) and the test pool, not a request for one, which may still turn the target
\* of a later dialog.
Shut == [dialog EXCEPT !.open = FALSE, !.explainer = FALSE, !.target = "pool",
                       !.phase = IF @ = "running" THEN @ ELSE "preview"]

ExplainerContinue ==
    /\ dialog.open /\ dialog.explainer
    /\ seen' = seen \cup {wallet}
    /\ dialog' = [dialog EXCEPT !.explainer = FALSE]
    /\ UNCHANGED <<active, page, wallet, pending, runs, store>>

\* Closes the dialog as well, whatever it is doing.
ExplainerCancel ==
    /\ dialog.open /\ dialog.explainer
    /\ dialog' = [Shut EXCEPT !.forced = @ \/ dialog.phase = "running"]
    /\ UNCHANGED <<active, page, user, runs, store>>

Dismissible_always == TRUE                      \* mutant: closes mid-flight
Dismissible == dialog.phase # "running"

Close ==
    /\ InDialog /\ Dismissible
    /\ dialog' = Shut
    /\ UNCHANGED <<active, page, user, runs, store>>

\* Back or Change; and Continue, when a size is chosen and, if its pool is
\* thin, the box ticked.
DenominationSelect ==
    /\ InDialog
    /\ \/ dialog.phase = "preview" /\ dialog' = [dialog EXCEPT !.phase = "select"]
       \/ dialog.phase = "select" /\ dialog' = [dialog EXCEPT !.phase = "preview"]
    /\ UNCHANGED <<active, page, user, runs, store>>

\* Create devnet test pool: two requests, then the dialog's target is that pool.
BootstrapTestPool ==
    /\ Devnet /\ InDialog /\ dialog.phase = "preview"
    /\ dialog.target = "pool" /\ ~dialog.boot /\ wallet # NoWallet
    /\ dialog' = [dialog EXCEPT !.boot = TRUE]
    /\ UNCHANGED <<active, page, user, runs, store>>

Bootstrapped ==
    /\ dialog.boot
    /\ \E target \in {dialog.target, "test"} :
          dialog' = [dialog EXCEPT !.boot = FALSE, !.target = target]
    /\ UNCHANGED <<active, page, user, runs, store>>

\* start: what a run is given, and what it will be stored under, is fixed here.
\* around (history): the live bin of the pool itself around which the range is
\* the default one.
Run ==
    LET effective == IF dialog.target = "test" THEN TestRange ELSE page.range IN
    [wallet |-> wallet, pool |-> dialog.target, asked |-> effective, got |-> effective,
     given |-> NoBin, pc |-> "use-pool", mounted |-> TRUE,
     around |-> IF dialog.target = "pool" /\ ~page.touched THEN page.shown ELSE NoBin]

Begin ==
    /\ Len(runs) < MaxRuns
    /\ runs' = Append(runs, Run)
    /\ dialog' = [dialog EXCEPT !.phase = "running"]
    /\ UNCHANGED <<active, page, user, store>>

Ready == wallet # NoWallet /\ dialog.phase = "preview"
Start == InDialog /\ Ready /\ Begin

\* start again, by a button of its own.
TryAgain == InDialog /\ dialog.phase = "error" /\ wallet # NoWallet /\ Begin

-----------------------------------------------------------------------------
(* A run.  Its set-states reach the dialog that it was started from.        *)

Ended == {"done", "refused", "failed"}

\* A run without a position leaves nothing behind.
Nothing == [wallet |-> NoWallet, pool |-> "pool", asked |-> TestRange, got |-> TestRange,
            given |-> NoBin, pc |-> "failed", mounted |-> FALSE, around |-> NoBin]

Finished(r, how, around) ==
    IF how = "done" THEN [r EXCEPT !.pc = how, !.given = NoBin, !.mounted = FALSE,
                                   !.around = around]
    ELSE [Nothing EXCEPT !.pc = how, !.around = around]

Ends(i, how, around) ==
    /\ runs' = [runs EXCEPT ![i] = Finished(runs[i], how, around)]
    /\ dialog' = IF runs[i].mounted
                 THEN [dialog EXCEPT !.phase = IF how = "done" THEN "success" ELSE "error"]
                 ELSE dialog

\* Drift that the default range bears.
Tolerance == 7
Nearby(bin) == IF active - bin \in -Tolerance .. Tolerance THEN bin ELSE NoBin

\* use-pool and init-position: the range becomes that of a position, and the active
\* bin of the moment goes with it to add-liquidity (given).
Widened(r) == [r EXCEPT !.pc = "add-liquidity", !.got = UsePool(r.got, active),
                        !.given = active, !.around = Nearby(r.around)]

UsePoolStep(i) ==
    /\ runs[i].pc = "use-pool"
    /\ runs' = [runs EXCEPT ![i] = Widened(runs[i])]
    /\ UNCHANGED <<active, page, dialog, user, store>>

Record_connected(i) == [wallet |-> wallet, pool |-> dialog.target, range |-> page.range]
                                                \* mutant: the state of the page by then
Record(i) == [wallet |-> runs[i].wallet, pool |-> runs[i].pool, range |-> runs[i].asked]

\* maxActiveBinSlippage, since use-pool.
Slippage == 5
Slipped(r) == active - r.given \notin -Slippage .. Slippage

\* The plan is made for the bin given by use-pool; the pool checks the slippage and
\* takes SOL at its own active bin.
Accepts(r, solIsX) ==
    \/ r.pool = "test"
    \/ /\ PlanAccepts(r.got, r.given, solIsX) /\ PlanAccepts(r.got, active, solIsX)
       /\ ~Slipped(r)

\* add-liquidity, and the record that start then writes.  SOL is either token.
AddLiquidityStep(i) ==
    LET r == runs[i]
        rec == Record(i)
    IN
    /\ r.pc = "add-liquidity"
    /\ \/ /\ \E solIsX \in BOOLEAN : Accepts(r, solIsX)
          /\ Ends(i, "done", NoBin)
          /\ store' = IF rec.wallet \in Wallets
                      THEN [store EXCEPT ![rec.wallet] = @ \cup
                               {[run |-> i, pool |-> rec.pool, range |-> rec.range]}]
                      ELSE store
       \/ /\ \E solIsX \in BOOLEAN : ~Accepts(r, solIsX)
          /\ Ends(i, "refused", IF Slipped(r) THEN NoBin ELSE Nearby(r.around))
          /\ store' = store
    /\ UNCHANGED <<active, page, user>>

\* Any call of the run throws.
RunFails(i) ==
    /\ runs[i].pc \notin Ended
    /\ Ends(i, "failed", NoBin)
    /\ UNCHANGED <<active, page, user, store>>

Next ==
    \/ Move \/ UsePoolBins
    \/ SetRange \/ OpenDialog \/ LeavePage
    \/ Connect \/ Connected \/ Disconnect
    \/ ExplainerContinue \/ ExplainerCancel \/ Close \/ DenominationSelect
    \/ BootstrapTestPool \/ Bootstrapped \/ Start \/ TryAgain
    \/ \E i \in DOMAIN runs : UsePoolStep(i) \/ AddLiquidityStep(i) \/ RunFails(i)

Spec == Init /\ [][Next]_vars

-----------------------------------------------------------------------------
Pools == {"pool", "test"}
Connections == Wallets \cup {NoWallet}
RunType == [wallet : Connections, pool : Pools, asked : Ranges, got : Ranges,
            given : ActiveBins \cup {NoBin}, pc : {"use-pool", "add-liquidity"} \cup Ended,
            mounted : BOOLEAN, around : ActiveBins \cup {NoBin}]

\* Type correctness: ranges stay ranges through every reset, drag and widening, and
\* a record names a run (the state of the page's components and of localPositions).
TypeOK ==
    /\ active \in ActiveBins
    /\ page \in [shown : ActiveBins \cup {NoBin}, range : Ranges,
                 touched : BOOLEAN]
    /\ dialog \in [open : BOOLEAN, phase : {"preview", "select", "running", "success", "error"},
                   explainer : BOOLEAN, target : Pools, boot : BOOLEAN, forced : BOOLEAN]
    /\ wallet \in Connections /\ pending \subseteq Wallets /\ seen \subseteq Connections
    /\ runs \in Seq(RunType)
    /\ store \in [Wallets -> SUBSET [run : Nat, pool : Pools, range : Ranges]]

\* add-liquidity comes last, when the mixer has been paid and the stealth wallet
\* funded (privateDeposit.ts:523): over a default range around live bins it is
\* not refused, however stale those bins were, as long as the active bin is within
\* Tolerance of the one shown and has not slipped since use-pool; whichever token SOL is and wherever the
\* range meets the border of a bin array, at which useExistingPool widens and
\* trims it (executor.service.ts:278-309).
DefaultRangeAccepted ==
    \A i \in DOMAIN runs : runs[i].pc = "refused" => runs[i].around = NoBin

\* What bounds the disagreement of a record with its position.
CoversAllButOne(range, kept) ==
    \/ range.lower - 1 <= kept.lower /\ kept.upper <= range.upper
    \/ range.lower <= kept.lower /\ kept.upper <= range.upper + 1

\* addLocalPosition writes the range that was asked for (PrivateDepositModal.tsx:428),
\* from a closure minutes after the click, whatever is connected, dragged or shown by
\* then, while use-pool may have made another of it (executor.service.ts:278-309).
\* The record is under the wallet that paid, of a run that is done on that pool, and
\* the position covers its range but for at most one bin, at one end.
RecordOfItsRun ==
    \A w \in Wallets : \A rec \in store[w] :
        LET r == runs[rec.run] IN
        r.pc = "done" /\ r.wallet = w /\ rec.pool = r.pool /\ CoversAllButOne(r.got, rec.range)

\* "don't allow closing mid-flight" (PrivateDepositModal.tsx:455): the dialog says
\* running exactly while the one run started from it is in flight, through errors,
\* further tries, visits to other pages and new connections; unless it was closed
\* by the explainer of a wallet connected meanwhile (forced).
PhaseTrue ==
    LET flying == {i \in DOMAIN runs : runs[i].mounted /\ runs[i].pc \notin Ended} IN
    ~dialog.forced => Cardinality(flying) = (IF dialog.phase = "running" THEN 1 ELSE 0)

\* A record shows the range of its position.  It does not hold: use-pool widens the
\* range and may give up a bin of it, and the record keeps what was asked for.
RecordIsPosition ==
    \A w \in Wallets : \A rec \in store[w] : rec.range = runs[rec.run].got

\* PhaseTrue's comment without its exception.  It does not hold: a connection asked
\* for before (at load, or by a click) may answer under a running dialog and bring up the explainer,
\* whose cancel closes both (:467-473).
NeverForced == ~dialog.forced
=============================================================================
