---------------------------- MODULE StealthFlows ----------------------------
(***************************************************************************)
(* What the browser does with a position after its deposit: the exit, the  *)
(* claim and the rebalance (privateExit.ts, privateClaim.ts,               *)
(* privateRebalance.ts), the direct sweep and the quick claim              *)
(* (privateLifecycle.ts), the dialogs that start them and the local record *)
(* of the position (localPositions.ts).                                    *)
(*                                                                         *)
(* One position on one pool paired with SOL, one stealth wallet, and two   *)
(* runs at most at once: nothing but its own dialog keeps a run from being *)
(* joined by another, and Back or a second tab gets past that. Each step   *)
(* is one of the run at hand; Switch turns to the other. A run sends one   *)
(* transaction at a time: it is refused by the preflight, or is sent, and  *)
(* then lands, or fails on chain, or expires. A run that throws (any await *)
(* may) leaves its transaction behind, which may land later. The chain's   *)
(* effects are those of the transactions that executor.service.ts builds:  *)
(* what leaves the pool arrives in the token accounts of the stealth       *)
(* wallet, SOL as wrapped SOL, and only add-liquidity, which closes that   *)
(* account, turns it into native SOL. The price of the token is one: what  *)
(* varies is how much of the position it makes up.                         *)
(***************************************************************************)
EXTENDS Integers, FiniteSets, Sequences, FiniteSetsExt, SequencesExt

CONSTANTS
    Denoms,     \* the mixer's denominations, as /relayer/info lists them
    RelayerFee,
    Reserve,    \* STEALTH_RESERVE_LAMPORTS
    SweepFee,   \* STEALTH_SWEEP_FEE_LAMPORTS
    TopUp,      \* STEALTH_INIT_FUNDING_LAMPORTS
    Slip,       \* how far below the quote the least output of a swap may be
    Funded,     \* the liquidity of the position at the start
    Version,    \* derivationVersion of the local record
    FailsOnChain, \* a transaction that passed preflight may yet fail in its block
    MaxTrades, MaxRuns, MaxLate,  \* bounds
    MaxShared   \* and of the runs, once two have been under way at once

ASSUME FlowsAssumption ==
    /\ Denoms \subseteq Nat \ {0} /\ IsFiniteSet(Denoms) /\ Denoms # {}
    /\ {Reserve, SweepFee, TopUp, Slip, Funded} \subseteq Nat
    /\ RelayerFee \in 0 .. Min(Denoms)
    /\ FailsOnChain \in BOOLEAN
    /\ Version \in {"v1", "v2", "missing"}
    /\ {MaxTrades, MaxRuns, MaxLate, MaxShared} \subseteq Nat

VARIABLES
    native, wsol, tok,  \* the stealth wallet: SOL, wrapped SOL, the other token
    main,       \* lamports the main wallet got out
    pos,        \* the PoolAuthority and the position it names
    run,        \* the run at hand
    other,      \* the run behind it, in another tab or left by Back
    alone,      \* so far there was never another one
    late,       \* transactions whose run has thrown
    local,      \* the position's entry in localPositions
    lost,       \* lamports in notes whose secret nobody holds
    openly,     \* the largest amount that an exit swept to the main wallet
    acked,      \* the user agreed to a sweep in the open
    erred,      \* a transaction that a run waited for failed on chain
    trades, runs

wallet == <<native, wsol, tok>>
chain == <<wallet, main, pos, openly>>
count == <<trades, runs>>
flow == <<chain, run, late, local, lost, acked, erred, count>>
vars == <<flow, other, alone>>

NoPosition == [id |-> 0, sol |-> 0, tok |-> 0, feeSol |-> 0, feeTok |-> 0]
Opened(id) == [NoPosition EXCEPT !.id = id]
IsOpen == pos.id # 0

\* A transaction, by what it does; unused fields are 0.
Tx(kind, amt, least, id) == [kind |-> kind, amt |-> amt, least |-> least, id |-> id]
NoTx == Tx("none", 0, 0, 0)

NoRun ==
    [kind |-> "none", pc |-> "idle", ack |-> FALSE, own |-> TRUE, skip |-> FALSE,
     quiet |-> TRUE, snap |-> NoPosition, had |-> 0, id |-> 0, denom |-> 0,
     note |-> 0,
     sent |-> "no", tx |-> NoTx]

Init ==
    /\ native = Reserve + TopUp /\ wsol = 0 /\ tok = 0 /\ main = 0
    /\ pos = [Opened(1) EXCEPT !.sol = Funded]
    /\ run = NoRun /\ other = NoRun /\ alone = TRUE /\ late = <<>>
    /\ local = [state |-> "open", id |-> 1]
    /\ lost = 0 /\ openly = 0 /\ acked = FALSE /\ erred = FALSE
    /\ trades = 0 /\ runs = 1

-----------------------------------------------------------------------------
(* The stealth wallet that a run derives.  A wrong one is empty.           *)

\* Whether the dialogs derive the wallet of the position: they take a record
\* without a version for one of version 2, whose message holds the positionId.
DialogsDerive == Version # "missing"
\* The page's quick claim never passes the positionId; the sweep does for "v2".
QuickClaimDerives == Version # "v2"
SweepDerives == TRUE

Balance == IF run.own THEN native ELSE 0
Seen == IF run.own THEN pos ELSE NoPosition

\* What a flow may put into the mixer, and the largest denomination that fits.
Available == Balance - Reserve
Fitting == {d \in Denoms : d <= Available}

\* The least output that the quote of a swap promises.
LeastOut(amount) == Max({0, amount - Slip})

\* preflightEstimateExit: would the exit fall below the smallest denomination?
\* A quote that cannot be had counts as nothing.
Estimates ==
    IF ~IsOpen THEN {Max({0, native - Reserve})}
    ELSE {Max({0, pos.sol + pos.feeSol + out - Reserve}) :
             out \in {0, LeastOut(pos.tok + pos.feeTok)}}

-----------------------------------------------------------------------------
(* Transactions on chain.                                                  *)

Applies(t) ==
    CASE t.kind \in {"close", "claim"} -> IsOpen /\ pos.id = t.id
      [] t.kind = "swap" -> tok >= t.amt
      [] t.kind = "sweep" -> native >= t.amt + SweepFee
      [] t.kind = "deposit" -> native >= t.amt
      [] t.kind = "init" -> ~IsOpen
      [] t.kind = "add" -> native >= t.amt /\ IsOpen /\ pos.id = t.id

\* dlmm_withdraw_close with all of the liquidity; fees come along.
WithdrawClose ==
    /\ wsol' = wsol + pos.sol + pos.feeSol
    /\ tok' = tok + pos.tok + pos.feeTok
    /\ pos' = NoPosition
    /\ UNCHANGED <<native, main, openly>>

ClaimFees ==
    /\ wsol' = wsol + pos.feeSol
    /\ tok' = tok + pos.feeTok
    /\ pos' = [pos EXCEPT !.feeSol = 0, !.feeTok = 0]
    /\ UNCHANGED <<native, main, openly>>

\* dlmm_swap pays into the wrapped account: the transaction does not unwrap.
Swap(t) ==
    /\ tok' = tok - t.amt
    /\ \E received \in t.least .. t.amt : wsol' = wsol + received
    /\ UNCHANGED <<native, main, pos, openly>>

\* id 0 marks the sweep of the closed position's page, which is no exit.
Sweep(t) ==
    /\ native' = native - t.amt - SweepFee
    /\ main' = main + t.amt
    /\ openly' = IF t.id = 0 THEN openly ELSE Max({openly, t.amt})
    /\ UNCHANGED <<wsol, tok, pos>>

MixerDeposit(t) == native' = native - t.amt /\ UNCHANGED <<wsol, tok, main, pos, openly>>

InitPosition(t) ==
    /\ pos' = Opened(t.id)
    /\ native' = native + TopUp
    /\ UNCHANGED <<wsol, tok, main, openly>>

\* Wraps t.amt, hands it to the position and closes the wrapped account.
AddLiquidity(t) ==
    /\ native' = native - t.amt + wsol
    /\ wsol' = 0
    /\ pos' = [pos EXCEPT !.sol = @ + t.amt]
    /\ UNCHANGED <<tok, main, openly>>

Apply(t) ==
    \/ t.kind = "close" /\ WithdrawClose
    \/ t.kind = "claim" /\ ClaimFees
    \/ t.kind = "swap" /\ Swap(t)
    \/ t.kind = "sweep" /\ Sweep(t)
    \/ t.kind = "deposit" /\ MixerDeposit(t)
    \/ t.kind = "init" /\ InitPosition(t)
    \/ t.kind = "add" /\ AddLiquidity(t)

\* The run's transaction reaches a block, where it may fail: because the state
\* is no longer what preflight saw, or for a reason of the chain's own (a pause
\* of the executor, compute, bins that moved).
Lands ==
    /\ run.sent = "pending"
    /\ \/ /\ Applies(run.tx) /\ Apply(run.tx)
          /\ run' = [run EXCEPT
                !.sent = "ok",
                !.note = IF run.tx.kind = "deposit" THEN run.tx.amt ELSE @]
          /\ UNCHANGED erred
       \/ /\ FailsOnChain \/ ~Applies(run.tx)
          /\ run' = [run EXCEPT !.sent = "failed"]
          /\ erred' = TRUE
          /\ UNCHANGED chain
    /\ UNCHANGED <<late, local, lost, acked, count>>

\* So does one that its run no longer waits for; the secret of a deposit is gone.
LandsLate(i) ==
    /\ late' = RemoveAt(late, i)
    /\ IF Applies(late[i])
          THEN /\ Apply(late[i])
               /\ lost' = IF late[i].kind = "deposit" THEN lost + late[i].amt ELSE lost
               /\ run' = [run EXCEPT !.quiet = run.pc = "idle"]
          ELSE UNCHANGED <<chain, lost, run>>
    /\ UNCHANGED <<local, acked, erred, count>>

\* Somebody trades against the position: a side of it turns into the other.
Trade ==
    /\ trades < MaxTrades /\ pos.sol + pos.tok > 0
    /\ \/ \E m \in 1 .. pos.sol :
             pos' = [pos EXCEPT !.sol = @ - m, !.tok = @ + m, !.feeTok = @ + 1]
       \/ \E m \in 1 .. pos.tok :
             pos' = [pos EXCEPT !.tok = @ - m, !.sol = @ + m, !.feeSol = @ + 1]
    /\ trades' = trades + 1
    /\ run' = [run EXCEPT !.quiet = run.pc = "idle"]
    /\ UNCHANGED <<wallet, main, openly, late, local, lost, acked, erred, runs>>

-----------------------------------------------------------------------------
(* The dialogs.                                                            *)

Dialogs == {"exit", "claim", "rebalance"}
\* Every run has a number; the position that it may open bears it.
Begin(kind, own) ==
    [NoRun EXCEPT !.kind = kind, !.pc = "state", !.own = own, !.id = runs + 1]

Room == runs < (IF alone THEN MaxRuns ELSE MaxShared)

\* What the page offers goes by the record; another tab may show an older one.
ShownOpen == local.state = "open" \/ ~alone
ShownClosed == local.state = "closed" \/ (~alone /\ local.state = "removed")

\* The button asks for the consent to a sweep if, and only if, the estimate is dust.
StartExit ==
    /\ run.pc = "idle" /\ ShownOpen /\ Room
    /\ \E estimate \in Estimates :
          LET dust == estimate < Min(Denoms) IN
          /\ run' = [Begin("exit", DialogsDerive) EXCEPT !.ack = dust]
          /\ acked' = (acked \/ dust)
    /\ runs' = runs + 1
    /\ UNCHANGED <<chain, late, local, lost, erred, trades>>

Start(kind, own) ==
    /\ run.pc = "idle" /\ ShownOpen /\ Room
    /\ run' = Begin(kind, own)
    /\ runs' = runs + 1
    /\ UNCHANGED <<chain, late, local, lost, acked, erred, trades>>

StartClaim == Start("claim", DialogsDerive)
StartRebalance == Start("rebalance", DialogsDerive)
StartQuick == Start("quick", QuickClaimDerives)

\* The page of a closed position offers the sweep instead.
StartSweep ==
    /\ run.pc = "idle" /\ ShownClosed /\ Room
    /\ run' = [Begin("sweep", SweepDerives) EXCEPT !.pc = "sweep"]
    /\ acked' = TRUE
    /\ runs' = runs + 1
    /\ UNCHANGED <<chain, late, local, lost, erred, trades>>

\* "Try again" runs with the consent of before, without another estimate.
TryAgain ==
    /\ run.pc = "error" /\ run.kind \in Dialogs /\ Room
    /\ run' = [Begin(run.kind, run.own) EXCEPT !.ack = run.ack]
    /\ runs' = runs + 1
    /\ UNCHANGED <<chain, late, local, lost, acked, erred, trades>>

Dismiss ==
    /\ run.pc \in {"error", "done"}
    /\ run' = NoRun
    /\ UNCHANGED <<chain, late, local, lost, acked, erred, count>>

\* Any await of a run may throw, and the window may be closed: what the run
\* knew is gone, and what it sent expires or is still on its way.
Fail ==
    /\ run.pc \notin {"idle", "error", "done"}
    /\ run' = [NoRun EXCEPT !.kind = run.kind, !.pc = "error", !.ack = run.ack,
                            !.own = run.own]
    /\ \/ late' = late
       \/ run.sent = "pending" /\ Len(late) < MaxLate /\ late' = Append(late, run.tx)
    /\ lost' = lost + run.note
    /\ UNCHANGED <<chain, local, acked, erred, count>>

-----------------------------------------------------------------------------
(* The steps of the runs.                                                  *)

At(pc) == run.pc = pc /\ run.sent = "no"
\* confirmTransaction resolves for a transaction that failed on chain, too, and
\* nobody looks at the error it resolves with.
Confirmed(pc) == run.pc = pc /\ run.sent \in {"ok", "failed"}

Goto(pc) ==
    /\ run' = [run EXCEPT !.pc = pc, !.sent = "no", !.tx = NoTx]
    /\ UNCHANGED <<chain, late, local, lost, acked, erred, count>>

\* Preflight refuses what would not apply now: the run throws (Fail).
Send(t) ==
    /\ Applies(t)
    /\ run' = [run EXCEPT !.sent = "pending", !.tx = t]
    /\ UNCHANGED <<chain, late, local, lost, acked, erred, count>>

\* The local record follows the result that is shown.
MarkClosed == [local EXCEPT !.state = "closed"]
MarkRebalanced == [local EXCEPT !.id = run.id]
RemoveRecord == [local EXCEPT !.state = "removed"]

Finish ==
    /\ run' = [run EXCEPT !.pc = "done", !.sent = "no", !.tx = NoTx, !.note = 0]
    /\ local' = CASE run.kind = "exit" -> MarkClosed
                  [] run.kind = "rebalance" -> MarkRebalanced
                  [] run.kind = "sweep" -> RemoveRecord
                  [] OTHER -> local
    /\ UNCHANGED <<wallet, pos, openly, late, lost, acked, erred, count>>
Complete == Finish /\ UNCHANGED main

\* What the flow reads of the PoolAuthority and the position, and where it goes.
Read(found, pc) ==
    /\ At("state")
    /\ run' = [run EXCEPT !.snap = found, !.had = tok, !.quiet = TRUE,
                          !.skip = found.id = 0, !.pc = pc]
    /\ UNCHANGED <<chain, late, local, lost, acked, erred, count>>

\* Without a position an exit goes on with what the wallet holds; a claim and a
\* rebalance refuse.  (The quick claim meets the refusal at its transaction.)
ReadForExit_anyError ==                       \* mutant: any error is taken for a 404
    \E found \in {Seen, NoPosition} : Read(found, IF found.id = 0 THEN "pick" ELSE "close")
ReadForExit == Read(Seen, IF Seen.id = 0 THEN "pick" ELSE "close")
ReadForClaim == Seen.id # 0 /\ Read(Seen, "claim")
ReadForRebalance == Seen.id # 0 /\ Read(Seen, "close")
ReadForQuick == Read(Seen, "claim")

SendClose == At("close") /\ Seen.id # 0 /\ Send(Tx("close", 0, 0, Seen.id))
CloseConfirmed == Confirmed("close") /\ Goto("swap")

SendClaim == At("claim") /\ Seen.id # 0 /\ Send(Tx("claim", 0, 0, Seen.id))
ClaimConfirmed == Confirmed("claim") /\ Goto("swap")
QuickConfirmed == Confirmed("claim") /\ Complete

\* Sells for SOL on the same pool, for no less than the quote promised.
Sell(amount, pc) ==
    \/ At("swap") /\ amount = 0 /\ Goto(pc)
    \/ At("swap") /\ amount > 0 /\ Send(Tx("swap", amount, LeastOut(amount), 0))
    \/ Confirmed("swap") /\ Goto(pc)

\* What is sold is what the position held when it was read, not what came out.
ToSell_noFees == run.snap.tok                 \* mutant: the fees are kept
ToSell == run.snap.tok + run.snap.feeTok
ExitSells == Sell(ToSell, "pick")
RebalanceSells == Sell(ToSell, "init")
ClaimSells == Sell(run.snap.feeTok, "pick")

\* Only native SOL counts towards a denomination.
Pick == /\ At("pick") /\ Available > 0 /\ Fitting # {}
        /\ run' = [run EXCEPT !.pc = "deposit", !.denom = Max(Fitting)]
        /\ UNCHANGED <<chain, late, local, lost, acked, erred, count>>

\* A claim below the smallest one throws; an exit falls back on the sweep.
ClaimPicks == Pick
FallBack_ackDecides == At("pick") /\ Available > 0 /\ run.ack /\ Goto("sweep")  \* mutant
FallBack == At("pick") /\ Available > 0 /\ Fitting = {} /\ run.ack /\ Goto("sweep")
ExitPicks == Pick \/ FallBack

\* executeStealthSweep reads the balance once more and sends all of it.
Drain(id) ==
    \/ At("sweep") /\ Balance > SweepFee /\ Send(Tx("sweep", Balance - SweepFee, 0, id))
    \/ At("sweep") /\ Balance <= SweepFee /\ Complete
    \/ Confirmed("sweep") /\ Complete

SendDeposit == At("deposit") /\ Send(Tx("deposit", run.denom, 0, 0))
DepositConfirmed == Confirmed("deposit") /\ Goto("tree")

\* The tree must hold the run's own commitment.
RebuildTree == At("tree") /\ run.note > 0 /\ Goto("withdraw")

\* The relayer pays the main wallet; its answer may not arrive.
RelayerPays ==
    /\ At("withdraw")
    /\ main' = main + run.note - RelayerFee
    /\ \/ Finish
       \/ /\ run' = [run EXCEPT !.note = 0, !.pc = "unanswered"]
          /\ UNCHANGED <<wallet, pos, openly, late, local, lost, acked, erred, count>>

Mix == SendDeposit \/ DepositConfirmed \/ RebuildTree \/ RelayerPays

\* A position that is there already is used, whoever opened it.
SendInit ==
    At("init") /\ Seen.id = 0 /\ Send(Tx("init", 0, 0, run.id))
ReusePosition ==
    /\ At("init") /\ Seen.id # 0
    /\ run' = [run EXCEPT !.pc = "add", !.id = Seen.id]
    /\ UNCHANGED <<chain, late, local, lost, acked, erred, count>>
InitConfirmed == Confirmed("init") /\ Goto("add")

SendAdd ==
    /\ At("add") /\ Available > 0 /\ Seen.id # 0
    /\ Send(Tx("add", Available, 0, Seen.id))
AddConfirmed == Confirmed("add") /\ Complete

-----------------------------------------------------------------------------
(* The flows, each in its order.                                           *)

Exit ==
    /\ run.kind = "exit"
    /\ ReadForExit \/ SendClose \/ CloseConfirmed \/ ExitSells \/ ExitPicks \/ Drain(1) \/ Mix

Claim ==
    /\ run.kind = "claim"
    /\ ReadForClaim \/ SendClaim \/ ClaimConfirmed \/ ClaimSells \/ ClaimPicks \/ Mix

Rebalance ==
    /\ run.kind = "rebalance"
    /\ \/ ReadForRebalance \/ SendClose \/ CloseConfirmed \/ RebalanceSells
       \/ SendInit \/ ReusePosition \/ InitConfirmed \/ SendAdd \/ AddConfirmed

Quick == run.kind = "quick" /\ (ReadForQuick \/ SendClaim \/ QuickConfirmed)

SweepOfClosed == run.kind = "sweep" /\ Drain(0)

-----------------------------------------------------------------------------
Dialog ==
    \/ StartExit \/ StartClaim \/ StartRebalance \/ StartQuick \/ StartSweep
    \/ TryAgain \/ Dismiss \/ Fail

Step == Exit \/ Claim \/ Rebalance \/ Quick \/ SweepOfClosed

OneRun == Dialog \/ Step \/ Lands \/ (\E i \in DOMAIN late : LandsLate(i)) \/ Trade

\* The other run goes on.  What either read may no longer be what is there.
Aside(r) == [r EXCEPT !.quiet = r.pc = "idle"]
Switch ==
    /\ run.pc # "idle" \/ other.pc # "idle"
    /\ runs <= MaxShared
    /\ run' = Aside(other) /\ other' = Aside(run)
    /\ alone' = FALSE
    /\ UNCHANGED <<chain, late, local, lost, acked, erred, count>>

Next == (OneRun /\ UNCHANGED <<other, alone>>) \/ Switch

Spec == Init /\ [][Next]_vars

-----------------------------------------------------------------------------
Amounts == Nat
Positions == [id : Nat, sol : Nat, tok : Nat, feeSol : Nat, feeTok : Nat]
Txs == [kind : {"none", "close", "claim", "swap", "sweep", "deposit", "init", "add"},
        amt : Nat, least : Nat, id : Nat]

\* Types: in particular no balance ever falls below zero (every effect of
\* Apply takes out at most what Applies has seen).
TypeOK ==
    /\ {native, wsol, tok, main, lost, openly} \subseteq Nat
    /\ pos \in Positions
    /\ \A r \in {run, other} :
          /\ r.snap \in Positions /\ r.tx \in Txs
          /\ r.sent \in {"no", "pending", "ok", "failed"}
          /\ {r.had, r.id, r.denom, r.note} \subseteq Nat
    /\ \A i \in DOMAIN late : late[i] \in Txs
    /\ local \in [state : {"open", "closed", "removed"}, id : Nat]

\* A position whose record is marked closed, or dropped (localPositions.ts:114
\* and :181), holds no liquidity: whatever answers were lost, runs broken off,
\* steps repeated and transactions late, the exit dialog marks it only after a
\* close took effect, and nothing refills it.  Two things defeat it: a transaction
\* that fails on chain, which the flows take for done (ClosedIsGone), and another
\* run, which nothing keeps from going on (ClosedStaysClosed).
ClosedHoldsNothing == local.state # "open" /\ ~erred /\ alone => pos.sol + pos.tok = 0

\* An exit sends SOL to the main wallet in the open (privateExit.ts:580) only
\* when the user agreed to it, however many runs there are; and never an amount
\* that the mixer would have taken, though it reads the balance again after the
\* denomination was looked for.  A position opened late may add the funding of its
\* rent; and after a close that failed on chain, or beside another run, an
\* add-liquidity may unwrap what was closed before, so that no bound holds.
OnlyDustInTheOpen ==
    openly > 0 => acked /\ (erred \/ ~alone \/ openly < Min(Denoms) + Reserve + TopUp)

\* A run that closed the position (or claimed its fees) and met no trade, no late
\* transaction and no other run since it read it leaves none of the other token
\* behind (privateExit.ts:483: "We swap the full non-SOL balance").
SoldWhatItClosed ==
    run.pc = "done" /\ run.kind \in Dialogs /\ ~run.skip /\ run.quiet /\ ~erred
    => tok = run.had

\* What the exit dialog says of a finished exit, "Either way the funds are now
\* at the main wallet" (PrivateExitModal.tsx:184).
ClosedIsGone == local.state = "closed" => pos.sol + pos.tok = 0

\* The same when nothing failed on chain: what was marked closed is not refilled
\* by a run that was left (PrivateExitModal.tsx:184, too).
ClosedStaysClosed == local.state = "closed" /\ ~erred => pos.sol + pos.tok = 0

\* What a failed run put into the mixer is not out of reach
\* (privateExit.ts:381-384: a prior run that "failed at the mixer step" leaves
\* "SOL ... sitting at the stealth wallet").
NoNoteLost == lost = 0

\* A record is dropped "only after the funds have been swept out"
\* (localPositions.ts:32).
DroppedIsEmpty == local.state = "removed" => wsol = 0 /\ tok = 0
=============================================================================
