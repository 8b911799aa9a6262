------------------------- MODULE StealthFlowsProofs -------------------------
(***************************************************************************)
(* Theorems about the flows of the browser after the deposit, for any       *)
(* denominations and fees and any number of runs, trades and late           *)
(* transactions.                                                            *)
(*                                                                         *)
(* What a late transaction can still do is decided by the position it names: *)
(* every init names a new one (Unborn), so that an add or a close that is    *)
(* late for a closed position never applies again (Gone).  That is so as long *)
(* as one run is under way at a time (alone); what holds for two at once is   *)
(* in Beside, and what each of them sells in Tracked.                         *)
(***************************************************************************)
EXTENDS StealthFlows, FiniteSetTheorems, SequenceTheorems, WellFoundedInduction, TLAPS

Kinds == {"none", "exit", "claim", "rebalance", "quick", "sweep"}
Places == {"idle", "state", "close", "claim", "swap", "pick", "sweep", "deposit", "tree",
           "withdraw", "unanswered", "init", "add", "error", "done"}
RunType == [kind : Kinds, pc : Places, ack : BOOLEAN, own : BOOLEAN, skip : BOOLEAN,
            quiet : BOOLEAN, snap : Positions, had : Nat, id : Nat,
            denom : {0} \cup Denoms, note : {0} \cup Denoms,
            sent : {"no", "pending", "ok", "failed"}, tx : Txs]

Shape ==
    /\ native \in Nat /\ wsol \in Nat /\ tok \in Nat /\ main \in Nat
    /\ lost \in Nat /\ openly \in Nat
    /\ pos \in Positions /\ run \in RunType /\ late \in Seq(Txs)
    /\ local \in [state : {"open", "closed", "removed"}, id : Nat]
    /\ acked \in BOOLEAN /\ erred \in BOOLEAN /\ trades \in Nat /\ runs \in Nat \ {0}

\* What a run may have sent where it stands, and what it knows there.
Sends == [close |-> {"close"}, claim |-> {"claim"}, swap |-> {"swap"}, sweep |-> {"sweep"},
          deposit |-> {"deposit"}, init |-> {"init"}, add |-> {"add"}]

Placed ==
    /\ run.sent # "no" => run.pc \in DOMAIN Sends /\ run.tx.kind \in Sends[run.pc]
    /\ run.sent = "failed" => erred
    /\ run.sent = "pending" /\ run.pc = "deposit" => run.tx.amt \in Denoms
    /\ run.pc = "deposit" => run.denom \in Denoms
    /\ run.pc = "withdraw" => run.note \in Denoms
    /\ pos.id = 0 => pos = NoPosition
    /\ run.kind = "exit" => run.pc \notin {"claim", "init", "add"}
    /\ run.kind = "claim" => run.pc \notin {"close", "init", "add", "sweep"}
    /\ run.kind = "rebalance" =>
           run.pc \in {"state", "close", "swap", "init", "add", "error", "done"}
    /\ run.kind \in {"sweep", "quick"} =>
           run.pc \in {"state", "claim", "sweep", "error", "done"}
    /\ run.kind = "sweep" => run.pc \in {"sweep", "error", "done"}
    /\ run.kind = "none" <=> run.pc = "idle"
    /\ run.kind = "exit" /\ ~run.own => run.pc \in {"state", "pick", "error"}

\* The transactions that name a position.
Naming == {"close", "claim", "init", "add"}
Late(i) == late[i].kind \in Naming
Pends == run.sent = "pending" /\ run.tx.kind \in Naming

\* The run may still send an init: no position has its name.
MayOpen ==
    run.kind = "rebalance" /\ (run.pc \in {"state", "close", "swap"}
                               \/ (run.pc = "init" /\ run.sent = "no"))
Opens == run.sent = "pending" /\ run.tx.kind = "init"

Named ==
    /\ pos.id <= runs
    /\ \A i \in DOMAIN late : Late(i) => late[i].id \in 1 .. runs
    /\ Pends => run.tx.id \in 1 .. runs
    /\ MayOpen \/ Opens =>
           pos.id < runs /\ \A i \in DOMAIN late : Late(i) => late[i].id < runs
    /\ MayOpen => run.id = runs
    /\ Opens => run.tx.id = runs

\* A position that an init on its way will open is not there, and nothing that is
\* on its way names it but that init.
Unborn ==
    \A i \in DOMAIN late : late[i].kind = "init" =>
        /\ pos.id # late[i].id
        /\ \A j \in DOMAIN late : j # i /\ Late(j) => late[j].id # late[i].id
        /\ Pends => run.tx.id # late[i].id

\* The position holds nothing, and nothing late changes that.
Gone ==
    /\ pos.sol + pos.tok = 0
    /\ \A i \in DOMAIN late :
           late[i].kind \in {"close", "claim", "add"} => late[i].id # pos.id

\* An exit that has closed the position, or found none.
Past ==
    /\ run.kind = "exit" /\ run.own
    /\ \/ run.pc \in {"swap", "pick", "sweep", "deposit", "tree", "withdraw", "unanswered"}
       \/ run.pc = "close" /\ run.sent = "ok"

Closed ==
    /\ (Past \/ local.state # "open") /\ ~erred => Gone
    /\ local.state # "open" =>
           run.kind \in {"none", "sweep"} \/ (run.kind = "exit" /\ run.pc = "done")
    /\ run.kind = "sweep" => local.state # "open"

\* The part of Placed that is about a run, of any run.
Fits(r) ==
    /\ r.sent # "no" => r.pc \in DOMAIN Sends /\ r.tx.kind \in Sends[r.pc]
    /\ r.sent = "failed" => erred
    /\ r.sent = "pending" /\ r.pc = "deposit" => r.tx.amt \in Denoms
    /\ r.pc = "deposit" => r.denom \in Denoms
    /\ r.pc = "withdraw" => r.note \in Denoms
    /\ r.kind = "exit" => r.pc \notin {"claim", "init", "add"}
    /\ r.kind = "claim" => r.pc \notin {"close", "init", "add", "sweep"}
    /\ r.kind = "rebalance" =>
           r.pc \in {"state", "close", "swap", "init", "add", "error", "done"}
    /\ r.kind \in {"sweep", "quick"} =>
           r.pc \in {"state", "claim", "sweep", "error", "done"}
    /\ r.kind = "sweep" => r.pc \in {"sweep", "error", "done"}
    /\ r.kind = "none" <=> r.pc = "idle"
    /\ r.kind = "exit" /\ ~r.own => r.pc \in {"state", "pick", "error"}

\* No run sweeps in the open what the user has not agreed to.
Agreed(r) ==
    /\ r.ack => acked
    /\ r.kind = "exit" /\ r.pc = "sweep" => r.ack
    /\ r.sent = "pending" /\ r.tx.kind = "sweep" /\ r.tx.id # 0 => acked

Bound == Min(Denoms) + Reserve + TopUp

\* From here on an exit may sweep more.
Spoilt == erred \/ ~alone

\* What an exit sweeps, and is about to sweep.
Dust ==
    /\ run.ack => acked
    /\ run.kind = "exit" /\ run.pc = "sweep" =>
           run.ack /\ (Spoilt \/ native < Min(Denoms) + Reserve + (IF IsOpen THEN TopUp ELSE 0))
    /\ run.sent = "pending" /\ run.tx.kind = "sweep" /\ run.tx.id # 0 =>
           acked /\ (Spoilt \/ run.tx.amt < Bound)
    /\ \A i \in DOMAIN late : late[i].kind = "sweep" /\ late[i].id # 0 =>
           acked /\ (Spoilt \/ late[i].amt < Bound)

\* Of the other token the wallet holds what it held when the run read it, and
\* what the run has taken out of the position and not sold.
Taken ==
    IF run.kind = "claim" THEN run.snap.feeTok ELSE run.snap.tok + run.snap.feeTok

Watched ==
    run.kind \in Dialogs /\ ~run.skip /\ run.quiet /\ ~erred /\ run.pc \notin {"state", "error"}

Tracked ==
    Watched =>
        /\ run.pc \in {"close", "claim"} /\ run.sent # "ok" => pos = run.snap /\ tok = run.had
        /\ run.pc \in {"close", "claim"} /\ run.sent = "ok" => tok = run.had + Taken
        /\ run.pc = "swap" /\ run.sent # "ok" =>
               tok = run.had + Taken /\ (run.sent = "pending" => run.tx.amt = Taken)
        /\ run.pc \notin {"close", "claim", "swap"} \/ (run.pc = "swap" /\ run.sent = "ok") =>
               tok = run.had

-----------------------------------------------------------------------------
(* Least and greatest elements; removal from a sequence.                   *)

LEMMA LeastNatural ==
    ASSUME NEW T \in SUBSET Nat, T # {}
    PROVE  \E m \in T : \A k \in T : m <= k
  <1> DEFINE R == {ss \in Nat \X Nat : ss[1] < ss[2]}
  <1>1. IsWellFoundedOn(R, Nat)
    BY NatLessThanWellFounded DEF OpToRel
  <1> HIDE DEF R
  <1>2. PICK m \in T : \A k \in T : <<k, m>> \notin R
    BY <1>1, WFMin
  <1>3. \A k \in T : k \in Nat /\ m \in Nat /\ ~(k < m)
    BY <1>2 DEF R
  <1> QED
    BY <1>3

LEMMA MinDenoms ==
    /\ Min(Denoms) \in Denoms /\ Min(Denoms) \in Nat
    /\ \A d \in Denoms : Min(Denoms) <= d
  <1>1. Denoms \in SUBSET Nat /\ Denoms # {}
    BY FlowsAssumption
  <1>2. \E m \in Denoms : \A k \in Denoms : m <= k
    BY <1>1, LeastNatural
  <1> QED
    BY <1>1, <1>2 DEF Min

LEMMA MaxPair ==
    ASSUME NEW a \in Int, NEW b \in Int
    PROVE  Max({a, b}) \in {a, b} /\ Max({a, b}) >= a /\ Max({a, b}) >= b
  <1>1. \E m \in {a, b} : \A k \in {a, b} : m >= k
    BY a >= b \/ b >= a
  <1> QED
    BY <1>1 DEF Max

\* The largest denomination that fits is one of them.
LEMMA MaxFitting ==
    ASSUME Available \in Int, Fitting # {}
    PROVE  Max(Fitting) \in Denoms /\ Max(Fitting) <= Available
  <1> DEFINE Rest == {Available - d : d \in Fitting}
  <1>1. \A d \in Fitting : d \in Denoms /\ d \in Nat /\ d <= Available /\ Available - d \in Nat
    BY FlowsAssumption DEF Fitting
  <1>2. Rest \in SUBSET Nat /\ Rest # {}
    BY <1>1
  <1>3. PICK m \in Rest : \A k \in Rest : m <= k
    BY <1>2, LeastNatural
  <1>4. PICK d \in Fitting : m = Available - d
    BY <1>3
  <1>5. \A e \in Fitting : d >= e
    BY <1>1, <1>3, <1>4
  <1>6. \E e \in Fitting : \A k \in Fitting : e >= k
    BY <1>5
  <1>7. Max(Fitting) \in Fitting
    BY <1>6 DEF Max
  <1> QED
    BY <1>1, <1>7

\* What is left of a sequence, and where it was before.
LEMMA Removed ==
    ASSUME NEW S, NEW s \in Seq(S), NEW i \in DOMAIN s
    PROVE  LET r == RemoveAt(s, i)
               Was(j) == IF j < i THEN j ELSE j + 1
           IN  /\ r \in Seq(S)
               /\ \A j \in DOMAIN r : Was(j) \in DOMAIN s /\ Was(j) # i /\ r[j] = s[Was(j)]
               /\ \A j, k \in DOMAIN r : j # k => Was(j) # Was(k)
  <1> DEFINE n == Len(s)
             a == SubSeq(s, 1, i - 1)
             b == SubSeq(s, i + 1, n)
  <1>1. n \in Nat /\ DOMAIN s = 1 .. n /\ i \in 1 .. n /\ \A j \in 1 .. n : s[j] \in S
    BY LenProperties, ElementOfSeq
  <1>2. a \in Seq(S) /\ Len(a) = i - 1 /\ \A j \in 1 .. i - 1 : a[j] = s[j]
    <2>1. \A j \in 1 .. i - 1 : s[j] \in S
      BY <1>1
    <2>2. /\ a \in Seq(S) /\ Len(a) = (IF 1 <= i - 1 THEN i - 1 - 1 + 1 ELSE 0)
          /\ \A j \in 1 .. i - 1 - 1 + 1 : a[j] = s[1 + j - 1]
      BY <1>1, <2>1, SubSeqProperties
    <2> HIDE DEF a
    <2> QED
      BY <1>1, <2>2
  <1>3. b \in Seq(S) /\ Len(b) = n - i /\ \A j \in 1 .. n - i : b[j] = s[i + j]
    <2>1. \A j \in i + 1 .. n : s[j] \in S
      BY <1>1
    <2>2. /\ b \in Seq(S) /\ Len(b) = (IF i + 1 <= n THEN n - (i + 1) + 1 ELSE 0)
          /\ \A j \in 1 .. n - (i + 1) + 1 : b[j] = s[i + 1 + j - 1]
      BY <1>1, <2>1, SubSeqProperties
    <2> HIDE DEF b, n
    <2>3. Len(b) = n - i
      BY <1>1, <2>2
    <2>4. ASSUME NEW j \in 1 .. n - i PROVE b[j] = s[i + j]
      <3>1. j \in 1 .. n - (i + 1) + 1 /\ i + 1 + j - 1 = i + j
        BY <1>1
      <3> QED
        BY <2>2, <3>1
    <2> QED
      BY <2>2, <2>3, <2>4
  <1> HIDE DEF a, b, n
  <1> DEFINE r == a \o b
  <1>4. /\ r \in Seq(S) /\ Len(r) = n - 1
        /\ \A j \in 1 .. n - 1 : r[j] = IF j <= i - 1 THEN a[j] ELSE b[j - (i - 1)]
    <2>1. /\ r \in Seq(S) /\ Len(r) = Len(a) + Len(b)
          /\ \A j \in 1 .. Len(a) + Len(b) : r[j] = IF j <= Len(a) THEN a[j] ELSE b[j - Len(a)]
      BY <1>2, <1>3, ConcatProperties
    <2>2. Len(a) = i - 1 /\ Len(a) + Len(b) = n - 1
      BY <1>1, <1>2, <1>3
    <2> QED
      BY <2>1, <2>2
  <1>5. DOMAIN r = 1 .. n - 1 /\ r = RemoveAt(s, i)
    BY <1>4, LenProperties DEF RemoveAt, a, b, n
  <1> HIDE DEF r
  <1>6. \A j \in 1 .. n - 1 : r[j] = s[IF j < i THEN j ELSE j + 1]
    <2>1. ASSUME NEW j \in 1 .. n - 1, j < i PROVE r[j] = s[j]
      BY <1>1, <1>2, <1>4, <2>1
    <2>2. ASSUME NEW j \in 1 .. n - 1, ~(j < i) PROVE r[j] = s[j + 1]
      <3>1. r[j] = b[j - (i - 1)] /\ j - (i - 1) \in 1 .. n - i
        BY <1>1, <1>4, <2>2
      <3>2. b[j - (i - 1)] = s[i + (j - (i - 1))] /\ i + (j - (i - 1)) = j + 1
        BY <1>1, <1>3, <3>1
      <3> QED
        BY <3>1, <3>2
    <2> QED
      BY <2>1, <2>2
  <1> QED
    BY <1>1, <1>4, <1>5, <1>6

-----------------------------------------------------------------------------
(* The steps of the flows, sorted by what they do to the run.              *)

Asked == /\ At("swap") /\ Taken = 0
Sold == Asked \/ Confirmed("swap")

Going(p) ==
    /\ Goto(p)
    /\ \/ p = "swap" /\ run.kind \in {"exit", "rebalance"} /\ Confirmed("close")
       \/ p = "swap" /\ run.kind = "claim" /\ Confirmed("claim")
       \/ p = "pick" /\ run.kind \in {"exit", "claim"} /\ Sold
       \/ p = "init" /\ run.kind = "rebalance" /\ Sold
       \/ /\ p = "sweep" /\ run.kind = "exit"
          /\ At("pick") /\ Available > 0 /\ Fitting = {} /\ run.ack
       \/ p = "tree" /\ run.kind \in {"exit", "claim"} /\ Confirmed("deposit")
       \/ p = "withdraw" /\ run.kind \in {"exit", "claim"} /\ At("tree") /\ run.note > 0
       \/ p = "add" /\ run.kind = "rebalance" /\ Confirmed("init")

Sending(t) ==
    /\ Send(t)
    /\ \/ /\ run.kind \in {"exit", "rebalance"} /\ At("close") /\ Seen.id # 0
          /\ t = Tx("close", 0, 0, Seen.id)
       \/ /\ run.kind \in {"claim", "quick"} /\ At("claim") /\ Seen.id # 0
          /\ t = Tx("claim", 0, 0, Seen.id)
       \/ /\ run.kind \in Dialogs /\ At("swap") /\ Taken > 0
          /\ t = Tx("swap", Taken, LeastOut(Taken), 0)
       \/ /\ run.kind \in {"exit", "sweep"} /\ At("sweep") /\ Balance > SweepFee
          /\ t = Tx("sweep", Balance - SweepFee, 0, IF run.kind = "exit" THEN 1 ELSE 0)
       \/ /\ run.kind \in {"exit", "claim"} /\ At("deposit")
          /\ t = Tx("deposit", run.denom, 0, 0)
       \/ /\ run.kind = "rebalance" /\ At("add") /\ Available > 0 /\ Seen.id # 0
          /\ t = Tx("add", Available, 0, Seen.id)

Reading(p) ==
    /\ Read(Seen, p)
    /\ \/ p = "pick" /\ run.kind = "exit" /\ Seen.id = 0
       \/ p = "close" /\ run.kind \in {"exit", "rebalance"} /\ Seen.id # 0
       \/ p = "claim" /\ run.kind = "claim" /\ Seen.id # 0
       \/ p = "claim" /\ run.kind = "quick"

Finishing ==
    /\ Finish
    /\ \/ /\ run.kind \in {"exit", "sweep"} /\ (At("sweep") \/ Confirmed("sweep"))
          /\ UNCHANGED main
       \/ run.kind = "quick" /\ Confirmed("claim") /\ UNCHANGED main
       \/ run.kind = "rebalance" /\ Confirmed("add") /\ UNCHANGED main
       \/ /\ run.kind \in {"exit", "claim"} /\ At("withdraw")
          /\ main' = main + run.note - RelayerFee

Unanswered ==
    /\ run.kind \in {"exit", "claim"} /\ At("withdraw")
    /\ main' = main + run.note - RelayerFee
    /\ run' = [run EXCEPT !.note = 0, !.pc = "unanswered"]
    /\ UNCHANGED <<wallet, pos, openly, late, local, lost, acked, erred, count>>

Picking == run.kind \in {"exit", "claim"} /\ Pick
Opening == run.kind = "rebalance" /\ SendInit
Reusing == run.kind = "rebalance" /\ ReusePosition

Known ==
    \/ \E p \in Places : Going(p) \/ Reading(p)
    \/ \E t : Sending(t)
    \/ Finishing \/ Unanswered \/ Picking \/ Opening \/ Reusing

LEMMA Sorted == ASSUME Step PROVE Known
  <1>1. CASE Exit
    <2>1. CASE ReadForExit
      BY <1>1, <2>1 DEF Exit, ReadForExit, Known, Reading, Places
    <2>2. CASE SendClose
      BY <1>1, <2>2 DEF Exit, SendClose, Known, Sending
    <2>3. CASE CloseConfirmed
      BY <1>1, <2>3 DEF Exit, CloseConfirmed, Known, Going, Places
    <2>4. CASE ExitSells
      BY <1>1, <2>4 DEF Exit, ExitSells, Sell, ToSell, Taken, Known, Going, Sending, Places,
         Sold, Asked, Dialogs
    <2>5. CASE ExitPicks
      BY <1>1, <2>5 DEF Exit, ExitPicks, FallBack, Picking, Known, Going, Places
    <2>6. CASE Drain(1)
      BY <1>1, <2>6 DEF Exit, Drain, Complete, Known, Sending, Finishing
    <2>7. CASE Mix
      BY <1>1, <2>7 DEF Exit, Mix, SendDeposit, DepositConfirmed, RebuildTree, RelayerPays,
         Known, Sending, Going, Finishing, Unanswered, Places
    <2> QED
      BY <1>1, <2>1, <2>2, <2>3, <2>4, <2>5, <2>6, <2>7 DEF Exit
  <1>2. CASE Claim
    <2>1. CASE ReadForClaim
      BY <1>2, <2>1 DEF Claim, ReadForClaim, Known, Reading, Places
    <2>2. CASE SendClaim
      BY <1>2, <2>2 DEF Claim, SendClaim, Known, Sending
    <2>3. CASE ClaimConfirmed
      BY <1>2, <2>3 DEF Claim, ClaimConfirmed, Known, Going, Places
    <2>4. CASE ClaimSells
      BY <1>2, <2>4 DEF Claim, ClaimSells, Sell, Taken, Known, Going, Sending, Places,
         Sold, Asked, Dialogs
    <2>5. CASE ClaimPicks
      BY <1>2, <2>5 DEF Claim, ClaimPicks, Picking, Known
    <2>6. CASE Mix
      BY <1>2, <2>6 DEF Claim, Mix, SendDeposit, DepositConfirmed, RebuildTree, RelayerPays,
         Known, Sending, Going, Finishing, Unanswered, Places
    <2> QED
      BY <1>2, <2>1, <2>2, <2>3, <2>4, <2>5, <2>6 DEF Claim
  <1>3. CASE Rebalance
    <2>1. CASE ReadForRebalance
      BY <1>3, <2>1 DEF Rebalance, ReadForRebalance, Known, Reading, Places
    <2>2. CASE SendClose
      BY <1>3, <2>2 DEF Rebalance, SendClose, Known, Sending
    <2>3. CASE CloseConfirmed
      BY <1>3, <2>3 DEF Rebalance, CloseConfirmed, Known, Going, Places
    <2>4. CASE RebalanceSells
      BY <1>3, <2>4 DEF Rebalance, RebalanceSells, Sell, ToSell, Taken, Known, Going, Sending,
         Places, Sold, Asked, Dialogs
    <2>5. CASE SendInit \/ ReusePosition
      BY <1>3, <2>5 DEF Rebalance, Known, Opening, Reusing
    <2>6. CASE InitConfirmed
      BY <1>3, <2>6 DEF Rebalance, InitConfirmed, Known, Going, Places
    <2>7. CASE SendAdd
      BY <1>3, <2>7 DEF Rebalance, SendAdd, Known, Sending
    <2>8. CASE AddConfirmed
      BY <1>3, <2>8 DEF Rebalance, AddConfirmed, Complete, Known, Finishing
    <2> QED
      BY <1>3, <2>1, <2>2, <2>3, <2>4, <2>5, <2>6, <2>7, <2>8 DEF Rebalance
  <1>4. CASE Quick
    BY <1>4 DEF Quick, ReadForQuick, SendClaim, QuickConfirmed, Complete, Known, Reading,
       Sending, Finishing, Places
  <1>5. CASE SweepOfClosed
    BY <1>5 DEF SweepOfClosed, Drain, Complete, Known, Sending, Finishing
  <1> QED
    BY <1>1, <1>2, <1>3, <1>4, <1>5 DEF Step

-----------------------------------------------------------------------------
(* Types.                                                                  *)

LEMMA Sizes ==
    /\ Reserve \in Nat /\ SweepFee \in Nat /\ TopUp \in Nat /\ Slip \in Nat /\ Funded \in Nat
    /\ RelayerFee \in Nat
    /\ \A d \in Denoms : d \in Nat /\ d > 0 /\ d >= RelayerFee
  BY FlowsAssumption, MinDenoms

LEMMA Blank ==
    /\ NoPosition \in Positions /\ NoPosition.id = 0 /\ NoPosition.sol = 0 /\ NoPosition.tok = 0
    /\ NoTx \in Txs /\ NoTx.kind = "none"
    /\ NoRun \in RunType /\ NoRun.kind = "none" /\ NoRun.pc = "idle" /\ NoRun.ack = FALSE
    /\ NoRun.sent = "no" /\ NoRun.note = 0
  <1>1. NoPosition \in Positions /\ NoTx \in Txs
    BY DEF NoPosition, Positions, NoTx, Tx, Txs
  <1>2. NoRun \in RunType
    BY <1>1 DEF NoRun, RunType, Kinds, Places
  <1> QED
    BY <1>1, <1>2 DEF NoPosition, NoTx, Tx, NoRun

LEMMA Beginning ==
    ASSUME runs \in Nat, NEW kind \in Kinds, NEW own \in BOOLEAN
    PROVE  /\ Begin(kind, own) \in RunType
           /\ Begin(kind, own).kind = kind /\ Begin(kind, own).own = own
           /\ Begin(kind, own).pc = "state" /\ Begin(kind, own).sent = "no"
           /\ Begin(kind, own).ack = FALSE /\ Begin(kind, own).id = runs + 1
  <1>1. NoRun \in RunType /\ NoRun.sent = "no" /\ NoRun.ack = FALSE
    BY Blank
  <1>2. \A q \in RunType :
           [q EXCEPT !.kind = kind, !.pc = "state", !.own = own, !.id = runs + 1] \in RunType
    <2>1. runs + 1 \in Nat
      OBVIOUS
    <2> QED
      BY <2>1 DEF RunType, Places
  <1>3. Begin(kind, own) \in RunType
    BY <1>1, <1>2 DEF Begin
  <1>4. /\ Begin(kind, own).kind = kind /\ Begin(kind, own).own = own
        /\ Begin(kind, own).pc = "state" /\ Begin(kind, own).sent = "no"
        /\ Begin(kind, own).ack = FALSE /\ Begin(kind, own).id = runs + 1
    BY <1>1 DEF Begin, RunType
  <1> QED
    BY <1>3, <1>4

\* The same with the consent to a sweep.
LEMMA BeginningWith ==
    ASSUME runs \in Nat, NEW kind \in Kinds, NEW own \in BOOLEAN, NEW ack \in BOOLEAN,
           run' = [Begin(kind, own) EXCEPT !.ack = ack]
    PROVE  /\ run' \in RunType
           /\ run'.kind = kind /\ run'.ack = ack /\ run'.pc = "state" /\ run'.sent = "no"
           /\ run'.id = runs + 1
  <1> DEFINE b == Begin(kind, own)
  <1>1. b \in RunType /\ b.kind = kind /\ b.pc = "state" /\ b.sent = "no" /\ b.id = runs + 1
    BY Beginning
  <1>2. run' = [b EXCEPT !.ack = ack]
    OBVIOUS
  <1> HIDE DEF b
  <1> QED
    BY <1>1, <1>2 DEF RunType

\* A transaction that applies takes out no more than there is.
LEMMA Applied ==
    ASSUME Shape, NEW t \in Txs, Applies(t), Apply(t)
    PROVE  /\ native' \in Nat /\ wsol' \in Nat /\ tok' \in Nat /\ main' \in Nat
           /\ openly' \in Nat /\ pos' \in Positions
  <1>0. t.kind # "none" /\ t.amt \in Nat /\ t.least \in Nat /\ t.id \in Nat
    BY DEF Txs, Apply
  <1>a. /\ native \in Nat /\ wsol \in Nat /\ tok \in Nat /\ main \in Nat /\ openly \in Nat
        /\ pos \in Positions
    BY DEF Shape
  <1>b. pos.sol \in Nat /\ pos.tok \in Nat /\ pos.feeSol \in Nat /\ pos.feeTok \in Nat
    BY <1>a DEF Positions
  <1>1. CASE t.kind = "close" /\ WithdrawClose
    <2>1. wsol' = wsol + pos.sol + pos.feeSol /\ tok' = tok + pos.tok + pos.feeTok
      BY <1>1 DEF WithdrawClose
    <2>2. pos' \in Positions /\ native' = native /\ main' = main /\ openly' = openly
      BY <1>1, Blank DEF WithdrawClose
    <2> QED
      BY <1>a, <1>b, <2>1, <2>2
  <1>2. CASE t.kind = "claim" /\ ClaimFees
    <2>1. wsol' = wsol + pos.feeSol /\ tok' = tok + pos.feeTok
      BY <1>2 DEF ClaimFees
    <2>2. pos' = [pos EXCEPT !.feeSol = 0, !.feeTok = 0]
      BY <1>2 DEF ClaimFees
    <2>3. pos' \in Positions
      BY <1>a, <2>2 DEF Positions
    <2>4. native' = native /\ main' = main /\ openly' = openly
      BY <1>2 DEF ClaimFees
    <2> QED
      BY <1>a, <1>b, <2>1, <2>3, <2>4
  <1>3. CASE t.kind = "swap" /\ Swap(t)
    <2>1. tok >= t.amt
      BY <1>3 DEF Applies
    <2> QED
      BY <1>0, <1>a, <1>3, <2>1 DEF Swap
  <1>4. CASE t.kind = "sweep" /\ Sweep(t)
    <2>1. native >= t.amt + SweepFee
      BY <1>4 DEF Applies
    <2>2. openly \in Int /\ t.amt \in Int
      BY <1>0, <1>a
    <2>3. Max({openly, t.amt}) \in {openly, t.amt}
      BY <2>2, MaxPair
    <2>4. Max({openly, t.amt}) \in Nat
      BY <1>0, <1>a, <2>3
    <2> QED
      BY <1>0, <1>a, <1>4, <2>1, <2>4, Sizes DEF Sweep
  <1>5. CASE t.kind = "deposit" /\ MixerDeposit(t)
    <2>1. native >= t.amt
      BY <1>5 DEF Applies
    <2> QED
      BY <1>0, <1>a, <1>5, <2>1 DEF MixerDeposit
  <1>6. CASE t.kind = "init" /\ InitPosition(t)
    <2>1. Opened(t.id) \in Positions
      BY <1>0, Blank DEF Opened, Positions
    <2> QED
      BY <1>a, <1>6, <2>1, Sizes DEF InitPosition
  <1>7. CASE t.kind = "add" /\ AddLiquidity(t)
    <2>1. native >= t.amt
      BY <1>7 DEF Applies
    <2>2. pos.sol + t.amt \in Nat
      BY <1>0, <1>b
    <2>3. [pos EXCEPT !.sol = pos.sol + t.amt] \in Positions
      BY <1>a, <2>2 DEF Positions
    <2> QED
      BY <1>0, <1>a, <1>7, <2>1, <2>3 DEF AddLiquidity
  <1> QED
    BY <1>1, <1>2, <1>3, <1>4, <1>5, <1>6, <1>7 DEF Apply

\* What a run sends.
LEMMA SentType ==
    ASSUME Shape, Placed, NEW t, Sending(t)
    PROVE  t \in Txs /\ t.kind \in Sends[run.pc] /\ run.pc \in DOMAIN Sends
  <1>1. Balance \in Nat /\ Seen \in Positions
    BY Blank DEF Balance, Seen, Shape
  <1>2. Taken \in Nat
    BY DEF Taken, Shape, RunType, Positions
  <1>3. LeastOut(Taken) \in Nat
    <2>1. Taken - Slip \in Int
      BY <1>2, Sizes
    <2>2. Max({0, Taken - Slip}) \in {0, Taken - Slip} /\ Max({0, Taken - Slip}) >= 0
      BY <2>1, MaxPair
    <2> QED
      BY <2>1, <2>2 DEF LeastOut
  <1>4. Balance > SweepFee => Balance - SweepFee \in Nat
    BY <1>1, Sizes
  <1>5. Available > 0 => Available \in Nat
    BY <1>1, Sizes DEF Available
  <1>6. Seen.id \in Nat
    BY <1>1 DEF Positions
  <1>7. run.denom \in Nat
    BY Sizes DEF Shape, RunType
  <1> HIDE DEF Seen, Balance, Available
  <1>8. /\ \A kind \in {"close", "claim", "swap", "sweep", "deposit", "add"} :
              \A amt, least, id \in Nat : Tx(kind, amt, least, id) \in Txs
        /\ \A kind, amt, least, id : Tx(kind, amt, least, id).kind = kind
    BY DEF Tx, Txs
  <1>9. /\ DOMAIN Sends = {"close", "claim", "swap", "sweep", "deposit", "init", "add"}
        /\ Sends["close"] = {"close"} /\ Sends["claim"] = {"claim"} /\ Sends["swap"] = {"swap"}
        /\ Sends["sweep"] = {"sweep"} /\ Sends["deposit"] = {"deposit"}
        /\ Sends["init"] = {"init"} /\ Sends["add"] = {"add"}
    BY DEF Sends
  <1> HIDE DEF Tx, Sends
  <1>11. CASE run.kind \in {"exit", "sweep"} /\ At("sweep") /\ Balance > SweepFee
              /\ t = Tx("sweep", Balance - SweepFee, 0, IF run.kind = "exit" THEN 1 ELSE 0)
    BY <1>4, <1>8, <1>9, <1>11 DEF At
  <1>12. CASE run.kind \in Dialogs /\ At("swap") /\ Taken > 0
              /\ t = Tx("swap", Taken, LeastOut(Taken), 0)
    BY <1>2, <1>3, <1>8, <1>9, <1>12 DEF At
  <1>13. CASE run.kind = "rebalance" /\ At("add") /\ Available > 0
              /\ t = Tx("add", Available, 0, Seen.id)
    BY <1>5, <1>6, <1>8, <1>9, <1>13 DEF At
  <1>14. CASE run.kind \in {"exit", "claim"} /\ At("deposit") /\ t = Tx("deposit", run.denom, 0, 0)
    BY <1>7, <1>8, <1>9, <1>14 DEF At
  <1>15. CASE run.kind \in {"exit", "rebalance"} /\ At("close") /\ t = Tx("close", 0, 0, Seen.id)
    BY <1>6, <1>8, <1>9, <1>15 DEF At
  <1>16. CASE run.kind \in {"claim", "quick"} /\ At("claim") /\ t = Tx("claim", 0, 0, Seen.id)
    BY <1>6, <1>8, <1>9, <1>16 DEF At
  <1> QED
    BY <1>11, <1>12, <1>13, <1>14, <1>15, <1>16 DEF Sending

\* What the steps of a flow make of the run.
LEMMA FlowRun ==
    ASSUME Shape, Placed, Known
    PROVE  run' \in RunType
  <1>1. run \in RunType /\ pos \in Positions /\ runs \in Nat /\ tok \in Nat
    BY DEF Shape
  <1>2. Seen \in Positions /\ Seen.id \in Nat /\ (Seen.id = 0) \in BOOLEAN
    BY <1>1, Blank DEF Seen, Positions
  <1>3. NoTx \in Txs
    BY Blank
  <1> HIDE DEF Seen
  <1>4. ASSUME NEW p \in Places, Going(p) \/ Reading(p) PROVE run' \in RunType
    <2>1. CASE Going(p)
      <3>1. run' = [run EXCEPT !.pc = p, !.sent = "no", !.tx = NoTx]
        BY <2>1 DEF Going, Goto
      <3> QED
        BY <1>1, <1>3, <3>1 DEF RunType
    <2>2. CASE Reading(p)
      <3>1. run' = [run EXCEPT !.snap = Seen, !.had = tok, !.quiet = TRUE,
                               !.skip = Seen.id = 0, !.pc = p]
        BY <2>2 DEF Reading, Read
      <3> DEFINE none == Seen.id = 0
      <3>2. run' = [run EXCEPT !.snap = Seen, !.had = tok, !.quiet = TRUE,
                               !.skip = none, !.pc = p] /\ none \in BOOLEAN
        BY <3>1
      <3> HIDE DEF none
      <3> QED
        BY <1>1, <1>2, <3>2 DEF RunType
    <2> QED
      BY <1>4, <2>1, <2>2
  <1>5. ASSUME NEW t, Sending(t) PROVE run' \in RunType
    <2>1. t \in Txs
      BY <1>5, SentType
    <2>2. run' = [run EXCEPT !.sent = "pending", !.tx = t]
      BY <1>5 DEF Sending, Send
    <2> QED
      BY <1>1, <2>1, <2>2 DEF RunType
  <1>6. CASE Finishing
    BY <1>1, <1>3, <1>6 DEF Finishing, Finish, RunType, Places
  <1>7. CASE Unanswered
    BY <1>1, <1>7 DEF Unanswered, RunType, Places
  <1>8. CASE Picking
    <2>1. Available \in Int
      BY <1>1, Sizes DEF Available, Balance, Shape
    <2>2. Max(Fitting) \in Denoms
      BY <1>8, <2>1, MaxFitting DEF Picking, Pick
    <2>3. run' = [run EXCEPT !.pc = "deposit", !.denom = Max(Fitting)]
      BY <1>8 DEF Picking, Pick
    <2> QED
      BY <1>1, <2>2, <2>3 DEF RunType, Places
  <1>9. CASE Opening
    <2>1. Tx("init", 0, 0, run.id) \in Txs
      BY <1>1 DEF Tx, Txs, RunType
    <2>2. run' = [run EXCEPT !.sent = "pending", !.tx = Tx("init", 0, 0, run.id)]
      BY <1>9 DEF Opening, SendInit, Send
    <2> QED
      BY <1>1, <2>1, <2>2 DEF RunType
  <1>10. CASE Reusing
    BY <1>1, <1>2, <1>10 DEF Reusing, ReusePosition, RunType, Places
  <1> QED
    BY <1>4, <1>5, <1>6, <1>7, <1>8, <1>9, <1>10 DEF Known

\* The steps of a flow leave everything else alone, but for what Finish and the
\* relayer do.
LEMMA FlowFrame ==
    ASSUME Shape, Placed, Known
    PROVE  /\ UNCHANGED <<native, wsol, tok, pos, openly, late, lost, acked, erred, trades, runs>>
           /\ main' \in Nat
           /\ ~Finishing => local' = local
           /\ local' \in [state : {"open", "closed", "removed"}, id : Nat]
  <1>1. ASSUME NEW p \in Places, Going(p) \/ Reading(p)
        PROVE  UNCHANGED <<chain, late, local, lost, acked, erred, count>>
    BY <1>1 DEF Going, Goto, Reading, Read
  <1>2. ASSUME NEW t, Sending(t)
        PROVE  UNCHANGED <<chain, late, local, lost, acked, erred, count>>
    BY <1>2 DEF Sending, Send
  <1>3. ASSUME Picking \/ Opening \/ Reusing
        PROVE  UNCHANGED <<chain, late, local, lost, acked, erred, count>>
    BY <1>3 DEF Picking, Pick, Opening, SendInit, Send, Reusing, ReusePosition
  <1>4. main \in Nat /\ local \in [state : {"open", "closed", "removed"}, id : Nat]
        /\ run.id \in Nat
    BY DEF Shape, RunType
  <1>5. At("withdraw") => main + run.note - RelayerFee \in Nat
    <2>1. At("withdraw") => run.note \in Denoms
      BY DEF At, Placed
    <2> QED
      BY <1>4, <2>1, Sizes
  <1>6. CASE Finishing
    <2>1. UNCHANGED <<wallet, pos, openly, late, lost, acked, erred, count>>
      BY <1>6 DEF Finishing, Finish
    <2>2. main' \in Nat
      BY <1>4, <1>5, <1>6 DEF Finishing
    <2>3. local' = MarkClosed \/ local' = MarkRebalanced \/ local' = RemoveRecord \/ local' = local
      BY <1>6 DEF Finishing, Finish
    <2>4. local' \in [state : {"open", "closed", "removed"}, id : Nat]
      BY <1>4, <2>3 DEF MarkClosed, MarkRebalanced, RemoveRecord
    <2> QED
      BY <1>6, <2>1, <2>2, <2>4 DEF wallet, count
  <1>7. CASE Unanswered
    BY <1>4, <1>5, <1>7 DEF Unanswered, wallet, count
  <1>8. CASE UNCHANGED <<chain, late, local, lost, acked, erred, count>>
    BY <1>4, <1>8 DEF chain, wallet, count
  <1> QED
    BY <1>1, <1>2, <1>3, <1>6, <1>7, <1>8 DEF Known

-----------------------------------------------------------------------------
(* The steps of the dialogs.                                               *)

Begins ==
    /\ run'.pc = "state" /\ run'.sent = "no" /\ run'.id = runs'
    /\ run'.kind \in {"exit", "claim", "rebalance", "quick"}
    /\ \/ run.pc = "idle" /\ ShownOpen
       \/ run.pc = "error" /\ run.kind \in Dialogs
    /\ runs' = runs + 1 /\ late' = late /\ lost' = lost
    /\ acked => acked'
    /\ run'.ack => acked' \/ run.ack

Sweeps ==
    /\ run'.kind = "sweep" /\ run'.pc = "sweep" /\ run'.sent = "no" /\ run'.ack = FALSE
    /\ ShownClosed /\ runs' = runs + 1 /\ late' = late /\ lost' = lost /\ acked'

Dismisses ==
    run' = NoRun /\ runs' = runs /\ late' = late /\ lost' = lost /\ acked' = acked

Breaks ==
    /\ run.pc \notin {"idle", "error", "done"}
    /\ run'.kind = run.kind /\ run'.pc = "error" /\ run'.sent = "no" /\ run'.ack = run.ack
    /\ \/ late' = late
       \/ run.sent = "pending" /\ late' = Append(late, run.tx)
    /\ lost' = lost + run.note /\ runs' = runs /\ acked' = acked

LEMMA DialogStep ==
    ASSUME Shape, Dialog
    PROVE  /\ run' \in RunType
           /\ UNCHANGED <<native, wsol, tok, main, pos, openly, local, erred, trades>>
           /\ acked' \in BOOLEAN
           /\ Begins \/ Sweeps \/ Dismisses \/ Breaks
  <1>1. run \in RunType /\ acked \in BOOLEAN /\ runs \in Nat
    BY DEF Shape
  <1>2. run.own \in BOOLEAN /\ run.ack \in BOOLEAN /\ run.kind \in Kinds
    BY <1>1 DEF RunType
  <1>3. DialogsDerive \in BOOLEAN /\ QuickClaimDerives \in BOOLEAN /\ SweepDerives \in BOOLEAN
    BY DEF DialogsDerive, QuickClaimDerives, SweepDerives
  <1> HIDE DEF DialogsDerive, QuickClaimDerives, SweepDerives
  <1>4. ASSUME NEW kind \in {"claim", "rebalance", "quick"}, NEW own \in BOOLEAN, Start(kind, own)
        PROVE  /\ run' \in RunType /\ Begins /\ acked' \in BOOLEAN
               /\ UNCHANGED <<native, wsol, tok, main, pos, openly, local, erred, trades>>
    <2>1. /\ run' = Begin(kind, own) /\ runs' = runs + 1 /\ run.pc = "idle" /\ ShownOpen
          /\ UNCHANGED <<chain, late, local, lost, acked, erred, trades>>
      BY <1>4 DEF Start
    <2>2. kind \in Kinds
      BY DEF Kinds
    <2>4. /\ run' \in RunType /\ run'.kind = kind /\ run'.ack = FALSE /\ run'.pc = "state"
          /\ run'.sent = "no" /\ run'.id = runs + 1
      BY <1>1, <2>1, <2>2, Beginning
    <2> QED
      BY <1>1, <2>1, <2>4 DEF Begins, chain, wallet
  <1>5. CASE StartExit
    <2>1. PICK estimate \in Estimates :
               /\ run' = [Begin("exit", DialogsDerive) EXCEPT !.ack = estimate < Min(Denoms)]
               /\ acked' = (acked \/ estimate < Min(Denoms))
      BY <1>5 DEF StartExit
    <2> DEFINE dust == estimate < Min(Denoms)
    <2>2. /\ run' = [Begin("exit", DialogsDerive) EXCEPT !.ack = dust]
          /\ dust \in BOOLEAN /\ acked' = (acked \/ dust)
      BY <2>1
    <2> HIDE DEF dust
    <2>3. /\ run' \in RunType /\ run'.kind = "exit" /\ run'.ack = dust /\ run'.pc = "state"
          /\ run'.sent = "no" /\ run'.id = runs + 1
      <3>1. "exit" \in Kinds
        BY DEF Kinds
      <3> QED
        BY <1>1, <1>3, <2>2, <3>1, BeginningWith
    <2>4. /\ runs' = runs + 1 /\ run.pc = "idle" /\ ShownOpen
          /\ UNCHANGED <<chain, late, local, lost, erred, trades>>
      BY <1>5 DEF StartExit
    <2> QED
      BY <1>1, <2>2, <2>3, <2>4 DEF Begins, chain, wallet
  <1>6. CASE StartSweep
    <2>1. /\ run' = [Begin("sweep", SweepDerives) EXCEPT !.pc = "sweep"]
          /\ acked' = TRUE /\ ShownClosed /\ runs' = runs + 1
          /\ UNCHANGED <<chain, late, local, lost, erred, trades>>
      BY <1>6 DEF StartSweep
    <2> DEFINE b == Begin("sweep", SweepDerives)
    <2>2. /\ b \in RunType /\ b.kind = "sweep" /\ b.ack = FALSE /\ b.sent = "no"
      <3>1. "sweep" \in Kinds
        BY DEF Kinds
      <3> QED
        BY <1>1, <1>3, <3>1, Beginning
    <2>3. run' = [b EXCEPT !.pc = "sweep"]
      BY <2>1
    <2> HIDE DEF b
    <2>4. /\ run' \in RunType /\ run'.kind = "sweep" /\ run'.ack = FALSE /\ run'.sent = "no"
          /\ run'.pc = "sweep"
      BY <2>2, <2>3 DEF RunType, Places
    <2> QED
      BY <2>1, <2>4 DEF Sweeps, chain, wallet
  <1>7. CASE TryAgain
    <2>1. /\ run' = [Begin(run.kind, run.own) EXCEPT !.ack = run.ack]
          /\ run.pc = "error" /\ run.kind \in Dialogs /\ runs' = runs + 1
          /\ UNCHANGED <<chain, late, local, lost, acked, erred, trades>>
      BY <1>7 DEF TryAgain
    <2>2. /\ run' \in RunType /\ run'.kind = run.kind /\ run'.ack = run.ack /\ run'.pc = "state"
          /\ run'.sent = "no" /\ run'.id = runs + 1
      BY <1>1, <1>2, <2>1, BeginningWith
    <2> QED
      BY <1>1, <2>1, <2>2 DEF Begins, chain, wallet, Dialogs
  <1>8. CASE Dismiss
    BY <1>1, <1>8, Blank DEF Dismiss, Dismisses, chain, wallet, count
  <1>9. CASE Fail
    <2>1. /\ run' = [NoRun EXCEPT !.kind = run.kind, !.pc = "error", !.ack = run.ack,
                                  !.own = run.own]
          /\ run.pc \notin {"idle", "error", "done"}
          /\ late' = late \/ (run.sent = "pending" /\ late' = Append(late, run.tx))
          /\ lost' = lost + run.note
          /\ UNCHANGED <<chain, local, acked, erred, count>>
      BY <1>9 DEF Fail
    <2>2. NoRun \in RunType /\ NoRun.sent = "no"
      BY Blank
    <2>3. /\ run' \in RunType /\ run'.kind = run.kind /\ run'.pc = "error" /\ run'.ack = run.ack
          /\ run'.sent = "no"
      BY <1>2, <2>1, <2>2 DEF RunType, Places
    <2> QED
      BY <1>1, <2>1, <2>3 DEF Breaks, chain, wallet, count
  <1> QED
    BY <1>3, <1>4, <1>5, <1>6, <1>7, <1>8, <1>9
       DEF Dialog, StartClaim, StartRebalance, StartQuick

\* A transaction lands that a run waits for, or that none does.
LEMMA LandedRun ==
    ASSUME Shape, Placed, Lands
    PROVE  /\ run' \in RunType
           /\ UNCHANGED <<late, local, lost, acked, trades, runs>>
           /\ run.sent = "pending" /\ run.tx \in Txs
           /\ \/ /\ Applies(run.tx) /\ Apply(run.tx) /\ erred' = erred
                 /\ run' = [run EXCEPT !.sent = "ok",
                                       !.note = IF run.tx.kind = "deposit" THEN run.tx.amt ELSE @]
              \/ /\ UNCHANGED <<native, wsol, tok, main, pos, openly>>
                 /\ run' = [run EXCEPT !.sent = "failed"] /\ erred' = TRUE
  <1>1. run \in RunType
    BY DEF Shape
  <1>2. run.sent = "pending" /\ run.tx \in Txs
    BY <1>1 DEF Lands, RunType
  <1>3. UNCHANGED <<late, local, lost, acked, trades, runs>>
    BY DEF Lands, count
  <1>4. CASE /\ Applies(run.tx) /\ Apply(run.tx) /\ erred' = erred
             /\ run' = [run EXCEPT !.sent = "ok",
                                   !.note = IF run.tx.kind = "deposit" THEN run.tx.amt ELSE @]
    <2> DEFINE n == IF run.tx.kind = "deposit" THEN run.tx.amt ELSE run.note
    <2>1. n \in {0} \cup Denoms
      <3>1. run.tx.kind = "deposit" => run.pc = "deposit"
        BY <1>2 DEF Placed, Sends
      <3> QED
        BY <1>1, <1>2, <3>1 DEF Placed, RunType
    <2>2. run' = [run EXCEPT !.sent = "ok", !.note = n]
      BY <1>4
    <2> HIDE DEF n
    <2>3. run' \in RunType
      BY <1>1, <2>1, <2>2 DEF RunType
    <2> QED
      BY <1>2, <1>3, <1>4, <2>3
  <1>5. CASE /\ run' = [run EXCEPT !.sent = "failed"] /\ erred' = TRUE /\ UNCHANGED chain
    <2>1. run' \in RunType
      BY <1>1, <1>5 DEF RunType
    <2> QED
      BY <1>2, <1>3, <1>5, <2>1 DEF chain, wallet
  <1> QED
    BY <1>4, <1>5 DEF Lands

LEMMA LandedLate ==
    ASSUME Shape, NEW i \in DOMAIN late, LandsLate(i)
    PROVE  /\ run' \in RunType /\ late' = RemoveAt(late, i) /\ late[i] \in Txs
           /\ UNCHANGED <<local, acked, erred, trades, runs>>
           /\ \/ /\ Applies(late[i]) /\ Apply(late[i]) /\ lost' \in Nat
                 /\ run' = [run EXCEPT !.quiet = run.pc = "idle"]
              \/ UNCHANGED <<native, wsol, tok, main, pos, openly, lost, run>>
  <1>1. run \in RunType /\ lost \in Nat /\ late[i] \in Txs
    BY ElementOfSeq DEF Shape
  <1>2. [run EXCEPT !.quiet = run.pc = "idle"] \in RunType
    <2> DEFINE q == run.pc = "idle"
    <2>1. q \in BOOLEAN
      OBVIOUS
    <2> HIDE DEF q
    <2>2. [run EXCEPT !.quiet = q] \in RunType
      BY <1>1, <2>1 DEF RunType
    <2> QED
      BY <2>2 DEF q
  <1>3. lost + late[i].amt \in Nat
    BY <1>1 DEF Txs
  <1> QED
    BY <1>1, <1>2, <1>3 DEF LandsLate, chain, wallet, count

\* Somebody trades.
LEMMA Traded ==
    ASSUME Shape, Trade
    PROVE  /\ run' \in RunType /\ pos' \in Positions /\ trades' \in Nat
           /\ run' = [run EXCEPT !.quiet = run.pc = "idle"]
           /\ pos'.id = pos.id /\ pos.sol + pos.tok > 0
           /\ UNCHANGED <<native, wsol, tok, main, openly, late, local, lost, acked, erred, runs>>
  <1>1. run \in RunType /\ pos \in Positions /\ trades \in Nat
    BY DEF Shape
  <1>2. [run EXCEPT !.quiet = run.pc = "idle"] \in RunType
    <2> DEFINE q == run.pc = "idle"
    <2>1. q \in BOOLEAN
      OBVIOUS
    <2> HIDE DEF q
    <2>2. [run EXCEPT !.quiet = q] \in RunType
      BY <1>1, <2>1 DEF RunType
    <2> QED
      BY <2>2 DEF q
  <1>3. pos.sol \in Nat /\ pos.tok \in Nat /\ pos.feeSol \in Nat /\ pos.feeTok \in Nat
    BY <1>1 DEF Positions
  <1>4. pos' \in Positions /\ pos'.id = pos.id
    <2>1. ASSUME NEW m \in 1 .. pos.sol,
                 pos' = [pos EXCEPT !.sol = @ - m, !.tok = @ + m, !.feeTok = @ + 1]
          PROVE  pos' \in Positions /\ pos'.id = pos.id
      <3>1. pos.sol - m \in Nat /\ pos.tok + m \in Nat /\ pos.feeTok + 1 \in Nat
        BY <1>3
      <3> QED
        BY <1>1, <2>1, <3>1 DEF Positions
    <2>2. ASSUME NEW m \in 1 .. pos.tok,
                 pos' = [pos EXCEPT !.tok = @ - m, !.sol = @ + m, !.feeSol = @ + 1]
          PROVE  pos' \in Positions /\ pos'.id = pos.id
      <3>1. pos.tok - m \in Nat /\ pos.sol + m \in Nat /\ pos.feeSol + 1 \in Nat
        BY <1>3
      <3> QED
        BY <1>1, <2>2, <3>1 DEF Positions
    <2> QED
      BY <2>1, <2>2 DEF Trade
  <1>5. run' = [run EXCEPT !.quiet = run.pc = "idle"]
    BY DEF Trade
  <1>6. run' \in RunType
    BY <1>2, <1>5
  <1>7. /\ trades' = trades + 1 /\ pos.sol + pos.tok > 0
        /\ UNCHANGED <<native, wsol, tok, main, openly, late, local, lost, acked, erred, runs>>
    BY DEF Trade, wallet
  <1> QED
    BY <1>1, <1>4, <1>5, <1>6, <1>7

LEMMA ShapeStep == ASSUME Shape, Placed, [OneRun]_flow PROVE Shape'
  <1>1. /\ native \in Nat /\ wsol \in Nat /\ tok \in Nat /\ main \in Nat /\ lost \in Nat
        /\ openly \in Nat /\ pos \in Positions /\ run \in RunType /\ late \in Seq(Txs)
        /\ local \in [state : {"open", "closed", "removed"}, id : Nat]
        /\ acked \in BOOLEAN /\ erred \in BOOLEAN /\ trades \in Nat /\ runs \in Nat \ {0}
    BY DEF Shape
  <1>2. run.tx \in Txs /\ run.note \in Nat
    BY <1>1, Sizes DEF RunType
  <1>3. CASE Dialog
    <2>1. /\ run' \in RunType /\ acked' \in BOOLEAN
          /\ UNCHANGED <<native, wsol, tok, main, pos, openly, local, erred, trades>>
          /\ Begins \/ Sweeps \/ Dismisses \/ Breaks
      BY <1>3, DialogStep
    <2>2. Append(late, run.tx) \in Seq(Txs)
      BY <1>1, <1>2, AppendProperties
    <2>3. late' \in {late, Append(late, run.tx)} /\ lost' \in {lost, lost + run.note}
          /\ runs' \in {runs, runs + 1}
      <3>1. CASE Begins
        BY <3>1 DEF Begins
      <3>2. CASE Sweeps
        BY <3>2 DEF Sweeps
      <3>3. CASE Dismisses
        BY <3>3 DEF Dismisses
      <3>4. CASE Breaks
        BY <3>4 DEF Breaks
      <3> QED
        BY <2>1, <3>1, <3>2, <3>3, <3>4
    <2>4. late' \in Seq(Txs) /\ lost' \in Nat /\ runs' \in Nat \ {0}
      <3>1. late' \in Seq(Txs)
        BY <1>1, <2>2, <2>3
      <3>2. lost \in Nat /\ run.note \in Nat /\ runs \in Nat \ {0}
        BY <1>1, <1>2
      <3>3. lost' \in {lost, lost + run.note} /\ runs' \in {runs, runs + 1}
        BY <2>3
      <3> QED
        BY <3>1, <3>2, <3>3
    <2> QED
      BY <1>1, <2>1, <2>4 DEF Shape
  <1>4. CASE Step
    BY <1>1, <1>4, Sorted, FlowRun, FlowFrame DEF Shape
  <1>5. CASE Lands
    <2>1. native' \in Nat /\ wsol' \in Nat /\ tok' \in Nat /\ main' \in Nat
           /\ openly' \in Nat /\ pos' \in Positions
      BY <1>1, <1>5, LandedRun, Applied
    <2>2. run' \in RunType /\ erred' \in BOOLEAN
          /\ UNCHANGED <<late, local, lost, acked, trades, runs>>
      BY <1>1, <1>5, LandedRun
    <2> QED
      BY <1>1, <2>1, <2>2 DEF Shape
  <1>6. ASSUME NEW i \in DOMAIN late, LandsLate(i) PROVE Shape'
    <2>1. native' \in Nat /\ wsol' \in Nat /\ tok' \in Nat /\ main' \in Nat
           /\ openly' \in Nat /\ pos' \in Positions /\ lost' \in Nat
      BY <1>1, <1>6, LandedLate, Applied
    <2>2. run' \in RunType /\ late' = RemoveAt(late, i)
          /\ UNCHANGED <<local, acked, erred, trades, runs>>
      BY <1>6, LandedLate
    <2>3. late' \in Seq(Txs)
      BY <1>1, <2>2, Removed
    <2> QED
      BY <1>1, <2>1, <2>2, <2>3 DEF Shape
  <1>7. CASE Trade
    BY <1>1, <1>7, Traded DEF Shape
  <1>8. CASE UNCHANGED flow
    BY <1>8 DEF Shape, flow, chain, wallet, count
  <1> QED
    BY <1>3, <1>4, <1>5, <1>6, <1>7, <1>8 DEF OneRun

-----------------------------------------------------------------------------
(* What every step leaves in the run, field by field.                      *)

Kept == run'.kind = run.kind /\ run'.ack = run.ack /\ run'.own = run.own
KeptAll ==
    /\ Kept /\ run'.skip = run.skip /\ run'.quiet = run.quiet
    /\ run'.snap = run.snap /\ run'.had = run.had

GoesOn(p) ==
    /\ Going(p) /\ KeptAll
    /\ run'.pc = p /\ run'.sent = "no" /\ run'.note = run.note /\ run'.id = run.id
Reads(p) ==
    /\ Reading(p) /\ Kept /\ run.pc = "state" /\ run.sent = "no"
    /\ run'.pc = p /\ run'.sent = "no" /\ run'.id = run.id
    /\ run'.skip = (Seen.id = 0) /\ run'.quiet = TRUE /\ run'.snap = Seen /\ run'.had = tok
HasSent(t) ==
    /\ Sending(t) /\ Applies(t) /\ t \in Txs /\ KeptAll /\ run.sent = "no"
    /\ run'.pc = run.pc /\ run'.sent = "pending" /\ run'.tx = t
    /\ run'.denom = run.denom /\ run'.id = run.id
Finishes == Finishing /\ KeptAll /\ run'.pc = "done" /\ run'.sent = "no"
GetsNoAnswer ==
    /\ Unanswered /\ KeptAll
    /\ run.sent = "no" /\ run'.pc = "unanswered" /\ run'.sent = "no"
Picks ==
    /\ Picking /\ KeptAll /\ run.pc = "pick" /\ run'.pc = "deposit" /\ run'.sent = "no"
    /\ run'.denom \in Denoms
OpensOne ==
    /\ Opening /\ KeptAll /\ run.pc = "init" /\ run.sent = "no" /\ pos.id = 0
    /\ run'.pc = "init" /\ run'.sent = "pending"
    /\ run'.tx \in Txs /\ run'.tx.kind = "init" /\ run'.tx.id = run.id /\ run'.tx.amt = 0
Reuses ==
    /\ Reusing /\ KeptAll /\ run.pc = "init" /\ run'.pc = "add" /\ run'.sent = "no"

Works ==
    \/ \E p \in Places : GoesOn(p) \/ Reads(p)
    \/ \E t : HasSent(t)
    \/ Finishes \/ GetsNoAnswer \/ Picks \/ OpensOne \/ Reuses

LEMMA Working == ASSUME Shape, Placed, Step PROVE Works
  <1>1. run \in RunType /\ Known
    BY Sorted DEF Shape
  <1>2. ASSUME NEW p \in Places, Going(p) PROVE GoesOn(p)
    <2>1. run' = [run EXCEPT !.pc = p, !.sent = "no", !.tx = NoTx]
      BY <1>2 DEF Going, Goto
    <2> QED
      BY <1>1, <1>2, <2>1 DEF GoesOn, Kept, KeptAll, RunType
  <1>3. ASSUME NEW p \in Places, Reading(p) PROVE Reads(p)
    <2> DEFINE none == Seen.id = 0
    <2>1. /\ run' = [run EXCEPT !.snap = Seen, !.had = tok, !.quiet = TRUE,
                                !.skip = none, !.pc = p]
          /\ run.pc = "state" /\ run.sent = "no" /\ none \in BOOLEAN
      BY <1>3 DEF Reading, Read, At
    <2> HIDE DEF none
    <2>2. /\ Kept /\ run'.pc = p /\ run'.sent = "no" /\ run'.snap = Seen /\ run'.had = tok
          /\ run'.id = run.id
          /\ run'.quiet = TRUE /\ run'.skip = none
      BY <1>1, <2>1 DEF Kept, RunType
    <2> QED
      BY <1>3, <2>1, <2>2 DEF Reads, none
  <1>4. ASSUME NEW t, Sending(t) PROVE HasSent(t)
    <2>1. run' = [run EXCEPT !.sent = "pending", !.tx = t] /\ Applies(t)
      BY <1>4 DEF Sending, Send
    <2>2. t \in Txs
      BY <1>4, SentType
    <2>3. run.sent = "no"
      BY <1>4 DEF Sending, At
    <2> QED
      BY <1>1, <1>4, <2>1, <2>2, <2>3 DEF HasSent, Kept, KeptAll, RunType
  <1>5. ASSUME Finishing PROVE Finishes
    <2>1. run' = [run EXCEPT !.pc = "done", !.sent = "no", !.tx = NoTx, !.note = 0]
      BY <1>5 DEF Finishing, Finish
    <2> QED
      BY <1>1, <1>5, <2>1 DEF Finishes, Kept, KeptAll, RunType
  <1>6. ASSUME Unanswered PROVE GetsNoAnswer
    <2>1. run' = [run EXCEPT !.note = 0, !.pc = "unanswered"] /\ run.sent = "no"
      BY <1>6 DEF Unanswered, At
    <2> QED
      BY <1>1, <1>6, <2>1 DEF GetsNoAnswer, Kept, KeptAll, RunType
  <1>7. ASSUME Picking PROVE Picks
    <2>1. /\ run' = [run EXCEPT !.pc = "deposit", !.denom = Max(Fitting)]
          /\ run.pc = "pick" /\ run.sent = "no"
      BY <1>7 DEF Picking, Pick, At
    <2>2. Available \in Int
      BY Sizes DEF Available, Balance, Shape
    <2>3. Max(Fitting) \in Denoms
      BY <1>7, <2>2, MaxFitting DEF Picking, Pick
    <2> QED
      BY <1>1, <1>7, <2>1, <2>3 DEF Picks, Kept, KeptAll, RunType
  <1>8. ASSUME Opening PROVE OpensOne
    <2> DEFINE t == Tx("init", 0, 0, run.id)
    <2>1. /\ run' = [run EXCEPT !.sent = "pending", !.tx = t]
          /\ run.pc = "init" /\ run.sent = "no" /\ Applies(t)
      BY <1>8 DEF Opening, SendInit, Send, At
    <2>2. t \in Txs /\ t.kind = "init" /\ t.id = run.id /\ t.amt = 0
      BY <1>1 DEF Tx, Txs, RunType
    <2> HIDE DEF t
    <2>3. pos.id = 0
      BY <2>1, <2>2 DEF Applies, IsOpen
    <2> QED
      BY <1>1, <1>8, <2>1, <2>2, <2>3 DEF OpensOne, Kept, KeptAll, RunType
  <1>9. ASSUME Reusing PROVE Reuses
    <2>1. /\ run' = [run EXCEPT !.pc = "add", !.id = Seen.id]
          /\ run.pc = "init" /\ run.sent = "no"
      BY <1>9 DEF Reusing, ReusePosition, At
    <2> QED
      BY <1>1, <1>9, <2>1 DEF Reuses, Kept, KeptAll, RunType
  <1> QED
    BY <1>1, <1>2, <1>3, <1>4, <1>5, <1>6, <1>7, <1>8, <1>9 DEF Known, Works

\* The transaction of the run lands.
LandsOk ==
    /\ Applies(run.tx) /\ Apply(run.tx) /\ KeptAll /\ erred' = erred
    /\ run'.pc = run.pc /\ run'.sent = "ok"
    /\ run'.denom = run.denom /\ run'.id = run.id
    /\ run.tx.kind # "deposit" => run'.note = run.note
LandsFailing ==
    /\ UNCHANGED <<native, wsol, tok, main, pos, openly>> /\ KeptAll /\ erred' = TRUE
    /\ run'.pc = run.pc /\ run'.sent = "failed" /\ run'.note = run.note
    /\ run'.denom = run.denom /\ run'.id = run.id

LEMMA Landing ==
    ASSUME Shape, Placed, Lands
    PROVE  LandsOk \/ LandsFailing
  <1>1. run \in RunType
    BY DEF Shape
  <1>2. CASE /\ Applies(run.tx) /\ Apply(run.tx) /\ erred' = erred
             /\ run' = [run EXCEPT !.sent = "ok",
                                   !.note = IF run.tx.kind = "deposit" THEN run.tx.amt ELSE @]
    BY <1>1, <1>2 DEF LandsOk, Kept, KeptAll, RunType
  <1>3. CASE /\ UNCHANGED <<native, wsol, tok, main, pos, openly>>
             /\ run' = [run EXCEPT !.sent = "failed"] /\ erred' = TRUE
    BY <1>1, <1>3 DEF LandsFailing, Kept, KeptAll, RunType
  <1> QED
    BY <1>2, <1>3, LandedRun

\* A trade and a late transaction leave the run where it is.
Disturbed ==
    /\ Kept /\ run'.skip = run.skip /\ run'.snap = run.snap /\ run'.had = run.had
    /\ run'.pc = run.pc /\ run'.sent = run.sent /\ run'.tx = run.tx /\ run'.note = run.note
    /\ run'.denom = run.denom /\ run'.id = run.id
    /\ run'.quiet => run.pc = "idle"

LEMMA Disturbance ==
    ASSUME run \in RunType, run' = [run EXCEPT !.quiet = run.pc = "idle"]
    PROVE  Disturbed
  <1> DEFINE q == run.pc = "idle"
  <1>1. run' = [run EXCEPT !.quiet = q]
    OBVIOUS
  <1> HIDE DEF q
  <1>2. /\ Kept /\ run'.skip = run.skip /\ run'.snap = run.snap /\ run'.had = run.had
        /\ run'.pc = run.pc /\ run'.sent = run.sent /\ run'.tx = run.tx /\ run'.note = run.note
        /\ run'.denom = run.denom /\ run'.id = run.id /\ run'.quiet = q
    BY <1>1 DEF Kept, RunType
  <1> QED
    BY <1>2 DEF Disturbed, q

-----------------------------------------------------------------------------
(* What a transaction does to the chain, kind by kind.                     *)

Empties(t) ==
    /\ t.kind = "close" /\ pos.id # 0 /\ pos.id = t.id /\ pos' = NoPosition
    /\ tok' = tok + pos.tok + pos.feeTok /\ native' = native /\ openly' = openly
TakesFees(t) ==
    /\ t.kind = "claim" /\ pos.id # 0 /\ pos.id = t.id
    /\ pos'.id = pos.id /\ pos'.sol = pos.sol /\ pos'.tok = pos.tok
    /\ tok' = tok + pos.feeTok /\ native' = native /\ openly' = openly
Sells(t) ==
    /\ t.kind = "swap" /\ pos' = pos /\ native' = native /\ openly' = openly
    /\ tok' = tok - t.amt
Pays(t) ==
    /\ pos' = pos /\ tok' = tok /\ native' <= native
    /\ \/ t.kind = "deposit" /\ openly' = openly
       \/ t.kind = "sweep" /\ t.id = 0 /\ openly' = openly
       \/ t.kind = "sweep" /\ t.id # 0 /\ openly' \in {openly, t.amt}
Creates(t) ==
    /\ t.kind = "init" /\ pos.id = 0 /\ pos'.id = t.id /\ pos'.sol = 0 /\ pos'.tok = 0
    /\ pos'.id = 0 => pos' = NoPosition
    /\ tok' = tok /\ native' = native + TopUp /\ openly' = openly
Adds(t) ==
    /\ t.kind = "add" /\ pos.id # 0 /\ pos.id = t.id /\ pos'.id = pos.id
    /\ tok' = tok /\ openly' = openly

LEMMA Effects ==
    ASSUME Shape, NEW t \in Txs, Applies(t), Apply(t)
    PROVE  \/ Empties(t) \/ TakesFees(t) \/ Sells(t) \/ Pays(t) \/ Creates(t) \/ Adds(t)
  <1>1. pos \in Positions /\ native \in Nat /\ t.amt \in Nat /\ t.id \in Nat /\ openly \in Nat
    BY DEF Shape, Txs
  <1>2. CASE t.kind = "close" /\ WithdrawClose
    BY <1>2 DEF WithdrawClose, Applies, IsOpen, Empties
  <1>3. CASE t.kind = "claim" /\ ClaimFees
    <2>1. pos' = [pos EXCEPT !.feeSol = 0, !.feeTok = 0]
      BY <1>3 DEF ClaimFees
    <2>2. pos'.id = pos.id /\ pos'.sol = pos.sol /\ pos'.tok = pos.tok
      BY <1>1, <2>1 DEF Positions
    <2> QED
      BY <1>3, <2>2 DEF ClaimFees, Applies, IsOpen, TakesFees
  <1>4. CASE t.kind = "swap" /\ Swap(t)
    BY <1>4 DEF Swap, Sells
  <1>5. CASE t.kind = "sweep" /\ Sweep(t)
    <2>1. native' = native - t.amt - SweepFee
      BY <1>5 DEF Sweep
    <2>2. native' <= native
      BY <1>1, <2>1, Sizes
    <2>3. openly' = IF t.id = 0 THEN openly ELSE Max({openly, t.amt})
      BY <1>5 DEF Sweep
    <2>4. openly \in Int /\ t.amt \in Int
      BY <1>1
    <2>5. Max({openly, t.amt}) \in {openly, t.amt}
      BY <2>4, MaxPair
    <2> QED
      BY <1>5, <2>2, <2>3, <2>5 DEF Sweep, Pays
  <1>6. CASE t.kind = "deposit" /\ MixerDeposit(t)
    <2>1. native' = native - t.amt
      BY <1>6 DEF MixerDeposit
    <2>2. native' <= native
      BY <1>1, <2>1
    <2> QED
      BY <1>6, <2>2 DEF MixerDeposit, Pays
  <1>7. CASE t.kind = "init" /\ InitPosition(t)
    <2>1. pos' = [NoPosition EXCEPT !.id = t.id] /\ NoPosition \in Positions
          /\ NoPosition.sol = 0 /\ NoPosition.tok = 0 /\ NoPosition.id = 0
      BY <1>7, Blank DEF InitPosition, Opened
    <2>2. pos'.id = t.id /\ pos'.sol = 0 /\ pos'.tok = 0
      BY <2>1 DEF Positions
    <2>3. t.id = 0 => pos' = NoPosition
      BY <2>1 DEF Positions
    <2> QED
      BY <1>7, <2>2, <2>3 DEF InitPosition, Applies, IsOpen, Creates
  <1>8. CASE t.kind = "add" /\ AddLiquidity(t)
    <2>1. pos' = [pos EXCEPT !.sol = @ + t.amt]
      BY <1>8 DEF AddLiquidity
    <2>2. pos'.id = pos.id
      BY <1>1, <2>1 DEF Positions
    <2> QED
      BY <1>8, <2>2 DEF AddLiquidity, Applies, IsOpen, Adds
  <1> QED
    BY <1>2, <1>3, <1>4, <1>5, <1>6, <1>7, <1>8 DEF Apply

-----------------------------------------------------------------------------
(* Where a run stands.                                                     *)

\* The part of Placed about the run alone.
OnItsWay ==
    /\ run.sent # "no" => run.pc \in DOMAIN Sends /\ run.tx.kind \in Sends[run.pc]
    /\ run.sent = "failed" => erred
    /\ run.sent = "pending" /\ run.pc = "deposit" => run.tx.amt \in Denoms
    /\ run.pc = "deposit" => run.denom \in Denoms
    /\ run.pc = "withdraw" => run.note \in Denoms
Course ==
    /\ run.kind = "exit" => run.pc \notin {"claim", "init", "add"}
    /\ run.kind = "claim" => run.pc \notin {"close", "init", "add", "sweep"}
    /\ run.kind = "rebalance" =>
           run.pc \in {"state", "close", "swap", "init", "add", "error", "done"}
    /\ run.kind \in {"sweep", "quick"} =>
           run.pc \in {"state", "claim", "sweep", "error", "done"}
    /\ run.kind = "sweep" => run.pc \in {"sweep", "error", "done"}
    /\ run.kind = "none" <=> run.pc = "idle"
    /\ run.kind = "exit" /\ ~run.own => run.pc \in {"state", "pick", "error"}

LEMMA PlacedParts ==
    /\ Placed <=> OnItsWay /\ Course /\ (pos.id = 0 => pos = NoPosition)
    /\ Placed' <=> OnItsWay' /\ Course' /\ (pos'.id = 0 => pos' = NoPosition)
  BY DEF Placed, OnItsWay, Course

LEMMA SendsDomain ==
    /\ DOMAIN Sends = {"close", "claim", "swap", "sweep", "deposit", "init", "add"}
    /\ Sends["deposit"] = {"deposit"} /\ Sends["init"] = {"init"} /\ Sends["add"] = {"add"}
    /\ Sends["close"] = {"close"} /\ Sends["claim"] = {"claim"} /\ Sends["swap"] = {"swap"}
    /\ Sends["sweep"] = {"sweep"}
  BY DEF Sends

LEMMA CourseStep == ASSUME Shape, Placed, [OneRun]_flow PROVE Course'
  <1>1. Course /\ run \in RunType
    BY PlacedParts DEF Shape
  <1>2. CASE Dialog
    <2>1. CASE Begins
      BY <2>1 DEF Begins, Course
    <2>2. CASE Sweeps
      BY <2>2 DEF Sweeps, Course
    <2>3. CASE Dismisses
      <3>1. run'.kind = "none" /\ run'.pc = "idle"
        BY <2>3, Blank DEF Dismisses
      <3> QED
        BY <3>1 DEF Course
    <2>4. CASE Breaks
      BY <1>1, <2>4 DEF Breaks, Course
    <2> QED
      BY <1>2, <2>1, <2>2, <2>3, <2>4, DialogStep
  <1>3. CASE Step
    <2>1. ASSUME NEW p \in Places, GoesOn(p) PROVE Course'
      <3>1. CASE run.kind = "exit" /\ ~run.own
        <4>1. Available <= 0
          BY <3>1, Sizes DEF Available, Balance
        <4>2. Available \in Int
          BY <3>1, Sizes DEF Available, Balance
        <4> QED
          BY <1>1, <2>1, <3>1, <4>1, <4>2 DEF GoesOn, Going, KeptAll, Kept, Course, At, Sold, Asked, Confirmed
      <3>2. CASE ~(run.kind = "exit" /\ ~run.own)
        BY <1>1, <2>1, <3>2 DEF GoesOn, Going, KeptAll, Kept, Course, At, Sold, Asked, Confirmed
      <3> QED
        BY <3>1, <3>2
    <2>2. ASSUME NEW p \in Places, Reads(p) PROVE Course'
      <3>1. ~run.own => Seen.id = 0
        BY Blank DEF Seen
      <3> QED
        BY <1>1, <2>2, <3>1 DEF Reads, Reading, Kept, Course
    <2>3. ASSUME NEW t, HasSent(t) PROVE Course'
      BY <1>1, <2>3 DEF HasSent, KeptAll, Kept, Course
    <2>4. CASE Finishes
      BY <1>1, <2>4 DEF Finishes, Finishing, KeptAll, Kept, Course, At, Confirmed
    <2>5. CASE GetsNoAnswer
      BY <1>1, <2>5 DEF GetsNoAnswer, Unanswered, KeptAll, Kept, Course, At
    <2>6. CASE Picks
      <3>1. run.own
        <4>1. ~run.own => ~(Available > 0)
          BY Sizes DEF Available, Balance
        <4> QED
          BY <2>6, <4>1 DEF Picks, Picking, Pick
      <3> QED
        BY <1>1, <2>6, <3>1 DEF Picks, Picking, KeptAll, Kept, Course
    <2>7. CASE OpensOne
      BY <1>1, <2>7 DEF OpensOne, Opening, KeptAll, Kept, Course
    <2>8. CASE Reuses
      BY <1>1, <2>8 DEF Reuses, Reusing, KeptAll, Kept, Course
    <2> QED
      BY <1>3, <2>1, <2>2, <2>3, <2>4, <2>5, <2>6, <2>7, <2>8, Working DEF Works
  <1>4. CASE Lands
    BY <1>1, <1>4, Landing DEF LandsOk, LandsFailing, KeptAll, Kept, Course
  <1>5. ASSUME NEW i \in DOMAIN late, LandsLate(i) PROVE Course'
    <2>1. Disturbed \/ run' = run
      BY <1>1, <1>5, LandedLate, Disturbance
    <2> QED
      BY <1>1, <2>1 DEF Disturbed, Kept, Course
  <1>6. CASE Trade
    <2>1. Disturbed
      BY <1>1, <1>6, Traded, Disturbance
    <2> QED
      BY <1>1, <2>1 DEF Disturbed, Kept, Course
  <1>7. CASE UNCHANGED flow
    BY <1>1, <1>7 DEF flow, Course
  <1> QED
    BY <1>2, <1>3, <1>4, <1>5, <1>6, <1>7 DEF OneRun

LEMMA OnItsWayStep == ASSUME Shape, Placed, [OneRun]_flow PROVE OnItsWay'
  <1>1. OnItsWay /\ run \in RunType
    BY PlacedParts DEF Shape
  <1>2. run.tx \in Txs /\ run.note \in {0} \cup Denoms
    BY <1>1 DEF RunType
  <1>3. CASE Dialog
    <2>1. run'.sent = "no" /\ run'.pc \notin {"deposit", "withdraw"}
      <3>1. CASE Dismisses
        <4>1. run'.sent = "no" /\ run'.pc = "idle"
          BY <3>1, Blank DEF Dismisses
        <4> QED
          BY <4>1
      <3> QED
        BY <1>3, <3>1, DialogStep DEF Begins, Sweeps, Breaks
    <2> QED
      BY <2>1 DEF OnItsWay
  <1>4. CASE Step
    <2>0. erred' = erred
      BY <1>4, Sorted, FlowFrame
    <2>1. ASSUME NEW p \in Places, GoesOn(p) PROVE OnItsWay'
      <3>1. p = "withdraw" => run.note \in Denoms
        BY <1>2, <2>1 DEF GoesOn, Going
      <3>2. p # "deposit" /\ run'.pc = p /\ run'.sent = "no" /\ run'.note = run.note
        BY <2>1 DEF GoesOn, Going
      <3> QED
        BY <3>1, <3>2 DEF OnItsWay
    <2>2. ASSUME NEW p \in Places, Reads(p) PROVE OnItsWay'
      BY <2>2 DEF Reads, Reading, OnItsWay
    <2>3. ASSUME NEW t, HasSent(t) PROVE OnItsWay'
      <3>1. t.kind \in Sends[run.pc] /\ run.pc \in DOMAIN Sends
        BY <2>3, SentType DEF HasSent
      <3>2. run.pc = "deposit" => t.amt \in Denoms
        <4>1. run.pc = "deposit" => t = Tx("deposit", run.denom, 0, 0)
          BY <2>3 DEF HasSent, Sending, At
        <4>2. run.pc = "deposit" => t.amt = run.denom
          BY <4>1 DEF Tx
        <4> QED
          BY <1>1, <4>2 DEF OnItsWay
      <3>3. run.pc # "withdraw"
        BY <3>1, SendsDomain
      <3> QED
        BY <1>1, <2>3, <3>1, <3>2, <3>3 DEF HasSent, OnItsWay
    <2>4. CASE Finishes
      BY <2>4 DEF Finishes, OnItsWay
    <2>5. CASE GetsNoAnswer
      BY <2>5 DEF GetsNoAnswer, OnItsWay
    <2>6. CASE Picks
      BY <2>6 DEF Picks, OnItsWay
    <2>7. CASE OpensOne
      BY <2>7, SendsDomain DEF OpensOne, OnItsWay
    <2>8. CASE Reuses
      BY <2>8 DEF Reuses, OnItsWay
    <2> QED
      BY <1>4, <2>1, <2>2, <2>3, <2>4, <2>5, <2>6, <2>7, <2>8, Working DEF Works
  <1>5. CASE Lands
    <2>1. run.sent = "pending" /\ run.pc \in DOMAIN Sends
      BY <1>1, <1>5, LandedRun DEF OnItsWay
    <2>2. run.pc # "withdraw"
      BY <2>1, SendsDomain
    <2>3. run'.tx = run.tx
      <3>1. ASSUME run' = [run EXCEPT !.sent = "failed"] PROVE run'.tx = run.tx
        BY <1>1, <3>1 DEF RunType
      <3>2. ASSUME run' = [run EXCEPT !.sent = "ok",
                              !.note = IF run.tx.kind = "deposit" THEN run.tx.amt ELSE @]
            PROVE  run'.tx = run.tx
        BY <1>1, <3>2 DEF RunType
      <3> QED
        BY <1>5, <3>1, <3>2, LandedRun
    <2> QED
      BY <1>1, <1>5, <2>1, <2>2, <2>3, Landing DEF LandsOk, LandsFailing, OnItsWay
  <1>6. ASSUME NEW i \in DOMAIN late, LandsLate(i) PROVE OnItsWay'
    <2>1. (Disturbed \/ run' = run) /\ erred' = erred
      BY <1>1, <1>6, LandedLate, Disturbance
    <2> QED
      BY <1>1, <2>1 DEF Disturbed, OnItsWay
  <1>7. CASE Trade
    <2>1. Disturbed /\ erred' = erred
      BY <1>1, <1>7, Traded, Disturbance
    <2> QED
      BY <1>1, <2>1 DEF Disturbed, OnItsWay
  <1>8. CASE UNCHANGED flow
    BY <1>1, <1>8 DEF flow, OnItsWay
  <1> QED
    BY <1>3, <1>4, <1>5, <1>6, <1>7, <1>8 DEF OneRun


LEMMA BlankStep == ASSUME Shape, Placed, [OneRun]_flow PROVE pos'.id = 0 => pos' = NoPosition
  <1>1. pos.id = 0 => pos = NoPosition
    BY PlacedParts
  <1>2. ASSUME NEW t \in Txs, Applies(t), Apply(t) PROVE pos'.id = 0 => pos' = NoPosition
    BY <1>1, <1>2, Effects DEF Empties, TakesFees, Sells, Pays, Creates, Adds
  <1>3. CASE Dialog
    BY <1>1, <1>3, DialogStep
  <1>4. CASE Step
    BY <1>1, <1>4, Sorted, FlowFrame
  <1>5. CASE Lands
    BY <1>1, <1>2, <1>5, LandedRun
  <1>6. ASSUME NEW i \in DOMAIN late, LandsLate(i) PROVE pos'.id = 0 => pos' = NoPosition
    BY <1>1, <1>2, <1>6, LandedLate
  <1>7. CASE Trade
    <2>1. pos'.id = pos.id /\ pos.sol + pos.tok > 0
      BY <1>7, Traded
    <2> QED
      BY <1>1, <2>1, Blank
  <1>8. CASE UNCHANGED flow
    BY <1>1, <1>8 DEF flow, chain
  <1> QED
    BY <1>3, <1>4, <1>5, <1>6, <1>7, <1>8 DEF OneRun

LEMMA PlacedStep == ASSUME Shape, Placed, [OneRun]_flow PROVE Placed'
  BY CourseStep, OnItsWayStep, BlankStep, PlacedParts

-----------------------------------------------------------------------------
(* The transactions that are late.                                         *)

LEMMA LateTypes ==
    ASSUME Shape
    PROVE  \A k \in DOMAIN late : late[k] \in Txs /\ late[k].id \in Nat /\ late[k].amt \in Nat
  <1>1. \A k \in DOMAIN late : late[k] \in Txs
    BY ElementOfSeq DEF Shape
  <1> QED
    BY <1>1 DEF Txs

LEMMA LateShrinks ==
    ASSUME Shape, NEW i \in DOMAIN late, late' = RemoveAt(late, i)
    PROVE  /\ \A j \in DOMAIN late' : \E k \in DOMAIN late : k # i /\ late'[j] = late[k]
           /\ \A j, k \in DOMAIN late' : j # k =>
                  \E u, v \in DOMAIN late :
                      u # v /\ u # i /\ v # i /\ late'[j] = late[u] /\ late'[k] = late[v]
  <1> DEFINE Was(j) == IF j < i THEN j ELSE j + 1
  <1>1. /\ \A j \in DOMAIN late' : Was(j) \in DOMAIN late /\ Was(j) # i /\ late'[j] = late[Was(j)]
        /\ \A j, k \in DOMAIN late' : j # k => Was(j) # Was(k)
    BY Removed DEF Shape
  <1> HIDE DEF Was
  <1> QED
    BY <1>1

LEMMA LateGrows ==
    ASSUME Shape, NEW t \in Txs, late' = Append(late, t)
    PROVE  \E n : /\ n \notin DOMAIN late /\ DOMAIN late' = DOMAIN late \cup {n} /\ late'[n] = t
                  /\ \A j \in DOMAIN late : late'[j] = late[j]
  <1>1. late \in Seq(Txs)
    BY DEF Shape
  <1>2. Len(late) \in Nat /\ DOMAIN late = 1 .. Len(late)
    BY <1>1, LenProperties
  <1>3. /\ late' \in Seq(Txs) /\ Len(late') = Len(late) + 1
        /\ \A j \in 1 .. Len(late) : late'[j] = late[j]
        /\ late'[Len(late) + 1] = t
    BY <1>1, AppendProperties
  <1>4. DOMAIN late' = 1 .. Len(late) + 1
    BY <1>3, LenProperties
  <1>5. DOMAIN late' = DOMAIN late \cup {Len(late) + 1} /\ Len(late) + 1 \notin DOMAIN late
    BY <1>2, <1>4
  <1> QED
    BY <1>2, <1>3, <1>5

\* Where the late transactions of the next state come from.
LEMMA LateAfter ==
    ASSUME Shape, [OneRun]_flow, NEW j \in DOMAIN late'
    PROVE  \/ \E k \in DOMAIN late : late'[j] = late[k]
           \/ run.sent = "pending" /\ late'[j] = run.tx /\ Breaks
  <1>1. run.tx \in Txs
    BY DEF Shape, RunType
  <1>2. CASE late' = late
    BY <1>2
  <1>3. CASE Dialog
    <2>1. late' = late \/ (Breaks /\ run.sent = "pending" /\ late' = Append(late, run.tx))
      <3>1. CASE Breaks
        BY <3>1 DEF Breaks
      <3> QED
        BY <1>3, <3>1, DialogStep DEF Begins, Sweeps, Dismisses
    <2>2. CASE Breaks /\ run.sent = "pending" /\ late' = Append(late, run.tx)
      <3>1. PICK n : /\ DOMAIN late' = DOMAIN late \cup {n} /\ late'[n] = run.tx
                     /\ \A k \in DOMAIN late : late'[k] = late[k]
        BY <1>1, <2>2, LateGrows
      <3> QED
        BY <2>2, <3>1
    <2> QED
      BY <1>2, <2>1, <2>2
  <1>4. CASE Step
    <2>1. late' = late
      <3>1. ASSUME NEW p \in Places, Going(p) \/ Reading(p) PROVE late' = late
        BY <3>1 DEF Going, Goto, Reading, Read
      <3>2. ASSUME NEW t, Sending(t) PROVE late' = late
        BY <3>2 DEF Sending, Send
      <3> QED
        BY <1>4, <3>1, <3>2, Sorted DEF Known, Picking, Pick, Opening, SendInit, Send, Reusing,
           ReusePosition, Finishing, Finish, Unanswered
    <2> QED
      BY <1>2, <2>1
  <1>5. CASE Lands
    BY <1>2, <1>5 DEF Lands
  <1>6. ASSUME NEW i \in DOMAIN late, LandsLate(i)
        PROVE  \E k \in DOMAIN late : late'[j] = late[k]
    BY <1>6, LandedLate, LateShrinks
  <1>7. CASE Trade
    BY <1>2, <1>7, Traded
  <1>8. CASE UNCHANGED flow
    BY <1>2, <1>8 DEF flow
  <1> QED
    BY <1>3, <1>4, <1>5, <1>6, <1>7, <1>8 DEF OneRun

-----------------------------------------------------------------------------
(* Names of positions.                                                     *)

LEMMA NamedStep == ASSUME Shape, Placed, Named, [OneRun]_flow PROVE Named'
  <1>1. /\ run \in RunType /\ pos \in Positions /\ runs \in Nat \ {0} /\ run.tx \in Txs
        /\ pos.id \in Nat /\ run.tx.id \in Nat
    BY DEF Shape, RunType, Positions, Txs
  <1>2. \A k \in DOMAIN late : late[k].id \in Nat
    BY LateTypes
  <1> DEFINE Old == \A k \in DOMAIN late : Late(k) => late[k].id \in 1 .. runs
             Free == pos.id < runs /\ \A k \in DOMAIN late : Late(k) => late[k].id < runs
  <1>3. /\ pos.id <= runs /\ Old /\ (Pends => run.tx.id \in 1 .. runs)
        /\ (MayOpen \/ Opens => Free) /\ (Opens => run.tx.id = runs)
        /\ (MayOpen => run.id = runs)
    BY DEF Named
  <1>4. CASE Dialog
    <2>1. pos' = pos
      BY <1>4, DialogStep
    <2>2. CASE Begins \/ Sweeps
      <3>1. late' = late /\ runs' = runs + 1 /\ run'.sent = "no"
        BY <2>2 DEF Begins, Sweeps
      <3>2. MayOpen' => run'.id = runs'
        BY <2>2 DEF Begins, Sweeps, MayOpen
      <3> QED
        BY <1>1, <1>2, <1>3, <2>1, <3>1, <3>2 DEF Named, Late, Pends, Opens, Naming
    <2>3. CASE Dismisses
      <3>1. late' = late /\ runs' = runs /\ run'.sent = "no" /\ run'.kind = "none"
        BY <2>3, Blank DEF Dismisses
      <3> QED
        BY <1>1, <1>3, <2>1, <3>1 DEF Named, Late, Pends, Opens, Naming, MayOpen
    <2>4. CASE Breaks
      <3>1. runs' = runs /\ run'.sent = "no" /\ run'.pc = "error"
        BY <2>4 DEF Breaks
      <3>2. ~Pends' /\ ~Opens' /\ ~MayOpen'
        BY <3>1 DEF Pends, Opens, MayOpen
      <3>3. ASSUME NEW j \in DOMAIN late', Late(j)' PROVE late'[j].id \in 1 .. runs
        <4>1. CASE \E k \in DOMAIN late : late'[j] = late[k]
          BY <1>3, <3>3, <4>1 DEF Late
        <4>2. CASE run.sent = "pending" /\ late'[j] = run.tx
          BY <1>3, <3>3, <4>2 DEF Late, Pends
        <4> QED
          BY <4>1, <4>2, LateAfter
      <3> QED
        BY <1>3, <2>1, <3>1, <3>2, <3>3 DEF Named
    <2> QED
      BY <1>4, <2>2, <2>3, <2>4, DialogStep
  <1>5. CASE Step
    <2>0. pos' = pos /\ late' = late /\ runs' = runs
      BY <1>5, Sorted, FlowFrame
    <2>a. ASSUME run'.sent = "no", MayOpen' => MayOpen /\ run'.id = run.id PROVE Named'
      BY <1>3, <2>0, <2>a DEF Named, Late, Pends, Opens
    <2>1. ASSUME NEW p \in Places, GoesOn(p) PROVE Named'
      BY <2>1, <2>a DEF GoesOn, Going, KeptAll, Kept, MayOpen, Sold, Asked, At, Confirmed
    <2>2. ASSUME NEW p \in Places, Reads(p) PROVE Named'
      BY <2>2, <2>a DEF Reads, Reading, Kept, MayOpen
    <2>3. ASSUME NEW t, HasSent(t) PROVE Named'
      <3>1. t.kind # "init"
        BY <2>3 DEF HasSent, Sending, Tx
      <3>2. t.kind \in Naming => t.id = pos.id /\ pos.id # 0
        <4>1. Seen.id # 0 => Seen.id = pos.id
          BY Blank DEF Seen
        <4> QED
          BY <2>3, <4>1 DEF HasSent, Sending, Tx, Naming
      <3>3. MayOpen' => MayOpen /\ run'.id = run.id
        BY <2>3 DEF HasSent, KeptAll, Kept, MayOpen
      <3>4. run'.tx = t
        BY <2>3 DEF HasSent
      <3>5. ~Opens' /\ (Pends' => t.kind \in Naming)
        BY <3>1, <3>4 DEF Opens, Pends
      <3>6. Pends' => run'.tx.id \in 1 .. runs
        BY <1>1, <1>3, <3>2, <3>4, <3>5
      <3> QED
        BY <1>3, <2>0, <3>3, <3>5, <3>6 DEF Named, Late
    <2>4. CASE Finishes
      BY <2>4, <2>a DEF Finishes, MayOpen
    <2>5. CASE GetsNoAnswer
      BY <2>5, <2>a DEF GetsNoAnswer, MayOpen
    <2>6. CASE Picks
      BY <2>6, <2>a DEF Picks, MayOpen
    <2>7. CASE OpensOne
      <3>1. MayOpen /\ run'.tx.id = runs /\ ~MayOpen'
        BY <1>3, <2>7 DEF OpensOne, Opening, MayOpen
      <3> QED
        BY <1>1, <1>3, <2>0, <3>1 DEF Named, Late
    <2>8. CASE Reuses
      BY <2>8, <2>a DEF Reuses, MayOpen
    <2> QED
      BY <1>5, <2>1, <2>2, <2>3, <2>4, <2>5, <2>6, <2>7, <2>8, Working DEF Works
  <1>6. CASE Lands
    <2>1. /\ late' = late /\ runs' = runs /\ run.sent = "pending" /\ run'.id = run.id
          /\ run'.sent \in {"ok", "failed"} /\ run'.pc = run.pc /\ Kept
      BY <1>6, LandedRun, Landing DEF LandsOk, LandsFailing, KeptAll
    <2>2. ~Pends' /\ ~Opens' /\ (MayOpen' => MayOpen /\ run.pc # "init")
      BY <2>1 DEF Pends, Opens, MayOpen, Kept
    <2>3. run.tx.kind = "init" => Opens /\ run.pc = "init"
      BY <2>1, SendsDomain DEF Opens, Placed
    <2>4. \/ pos'.id = pos.id \/ pos'.id = 0 \/ (run.tx.kind = "init" /\ pos'.id = run.tx.id)
      <3>1. CASE LandsOk
        BY <1>1, <3>1, Effects, Blank
           DEF LandsOk, Empties, TakesFees, Sells, Pays, Creates, Adds
      <3>2. CASE LandsFailing
        BY <3>2 DEF LandsFailing
      <3> QED
        BY <1>6, <3>1, <3>2, Landing
    <2>5. pos'.id <= runs /\ (MayOpen' => pos'.id < runs)
      BY <1>1, <1>3, <2>2, <2>3, <2>4
    <2> QED
      BY <1>3, <2>1, <2>2, <2>5 DEF Named, Late
  <1>7. ASSUME NEW i \in DOMAIN late, LandsLate(i) PROVE Named'
    <2>1. runs' = runs /\ (Disturbed \/ run' = run)
      BY <1>1, <1>7, LandedLate, Disturbance
    <2>2. /\ (MayOpen' => MayOpen) /\ (Opens' => Opens) /\ (Pends' => Pends)
          /\ run'.tx = run.tx /\ run'.id = run.id
      BY <2>1 DEF Disturbed, Kept, MayOpen, Opens, Pends
    <2>3. \/ pos'.id = pos.id \/ pos'.id = 0 \/ (Late(i) /\ pos'.id = late[i].id)
      <3>1. CASE Applies(late[i]) /\ Apply(late[i]) /\ late[i] \in Txs
        BY <3>1, Effects, Blank
           DEF Empties, TakesFees, Sells, Pays, Creates, Adds, Late, Naming
      <3> QED
        BY <1>7, <3>1, LandedLate
    <2>4. \A j \in DOMAIN late' : \E k \in DOMAIN late : late'[j] = late[k]
      BY <1>7, LandedLate, LateShrinks
    <2>5. pos'.id <= runs /\ (MayOpen' \/ Opens' => pos'.id < runs)
      BY <1>1, <1>3, <2>2, <2>3
    <2>6. /\ \A j \in DOMAIN late' : Late(j)' => late'[j].id \in 1 .. runs
          /\ MayOpen' \/ Opens' => \A j \in DOMAIN late' : Late(j)' => late'[j].id < runs
      BY <1>3, <2>2, <2>4 DEF Late
    <2> QED
      BY <1>3, <2>1, <2>2, <2>5, <2>6 DEF Named
  <1>8. CASE Trade
    <2>1. /\ runs' = runs /\ Disturbed /\ pos'.id = pos.id /\ late' = late
      BY <1>1, <1>8, Traded, Disturbance
    <2>2. /\ (MayOpen' => MayOpen) /\ (Opens' => Opens) /\ (Pends' => Pends)
          /\ run'.tx = run.tx /\ run'.id = run.id
      BY <2>1 DEF Disturbed, Kept, MayOpen, Opens, Pends
    <2> QED
      BY <1>3, <2>1, <2>2 DEF Named, Late
  <1>9. CASE UNCHANGED flow
    <2>1. runs' = runs /\ run' = run /\ pos' = pos /\ late' = late
      BY <1>9 DEF flow, chain, count
    <2> QED
      BY <1>3, <2>1 DEF Named, Late, MayOpen, Opens, Pends
  <1> QED
    BY <1>4, <1>5, <1>6, <1>7, <1>8, <1>9 DEF OneRun

LEMMA UnbornStep == ASSUME Shape, Placed, Named, Unborn, [OneRun]_flow PROVE Unborn'
  <1>1. /\ run \in RunType /\ pos \in Positions /\ runs \in Nat \ {0} /\ run.tx \in Txs
        /\ pos.id \in Nat /\ run.tx.id \in Nat
    BY DEF Shape, RunType, Positions, Txs
  <1>2. \A k \in DOMAIN late : late[k] \in Txs /\ late[k].id \in Nat
    BY LateTypes
  <1>3. \A k \in DOMAIN late : Late(k) => late[k].id \in 1 .. runs
    BY DEF Named
  <1>4. \A k \in DOMAIN late : late[k].kind = "init" => Late(k)
    BY DEF Late, Naming
  <1>5. \A k \in DOMAIN late : late[k].kind = "init" =>
            /\ pos.id # late[k].id
            /\ \A j \in DOMAIN late : j # k /\ Late(j) => late[j].id # late[k].id
            /\ Pends => run.tx.id # late[k].id
    BY DEF Unborn
  \* Nothing new is late, and the position is not one of those.
  <1>a. ASSUME late' = late, \A k \in DOMAIN late : late[k].kind = "init" => pos'.id # late[k].id,
               Pends' => \A k \in DOMAIN late : late[k].kind = "init" => run'.tx.id # late[k].id
        PROVE  Unborn'
    BY <1>5, <1>a DEF Unborn, Late
  <1>6. CASE Dialog
    <2>1. pos' = pos /\ run'.sent = "no"
      <3>1. CASE Dismisses
        BY <1>6, <3>1, Blank, DialogStep DEF Dismisses
      <3> QED
        BY <1>6, <3>1, DialogStep DEF Begins, Sweeps, Breaks
    <2>2. ~Pends'
      BY <2>1 DEF Pends
    <2>3. CASE late' = late
      BY <1>5, <1>a, <2>1, <2>2, <2>3
    <2>4. CASE run.sent = "pending" /\ late' = Append(late, run.tx)
      <3>1. PICK n : /\ n \notin DOMAIN late /\ DOMAIN late' = DOMAIN late \cup {n}
                     /\ late'[n] = run.tx /\ \A k \in DOMAIN late : late'[k] = late[k]
        BY <1>1, <2>4, LateGrows
      <3>2. Late(n)' => Pends
        BY <2>4, <3>1 DEF Late, Pends
      <3>3. ASSUME NEW i \in DOMAIN late', late'[i].kind = "init"
            PROVE  /\ pos.id # late'[i].id
                   /\ \A j \in DOMAIN late' : j # i /\ Late(j)' => late'[j].id # late'[i].id
        <4>1. CASE i = n
          <5>1. Opens
            BY <2>4, <3>1, <3>3, <4>1 DEF Opens
          <5>2. run.tx.id = runs /\ pos.id < runs
                /\ \A k \in DOMAIN late : Late(k) => late[k].id < runs
            BY <5>1 DEF Named
          <5> QED
            BY <1>1, <1>2, <3>1, <4>1, <5>2 DEF Late
        <4>2. CASE i \in DOMAIN late
          <5>1. late[i].kind = "init" /\ late'[i] = late[i]
            BY <3>1, <3>3, <4>2
          <5>2. ASSUME NEW j \in DOMAIN late', j # i, Late(j)' PROVE late'[j].id # late'[i].id
            <6>1. CASE j = n
              BY <1>5, <3>1, <3>2, <4>2, <5>1, <5>2, <6>1
            <6>2. CASE j \in DOMAIN late
              BY <1>5, <3>1, <4>2, <5>1, <5>2, <6>2 DEF Late
            <6> QED
              BY <3>1, <5>2, <6>1, <6>2
          <5> QED
            BY <1>5, <4>2, <5>1, <5>2
        <4> QED
          BY <3>1, <3>3, <4>1, <4>2
      <3> QED
        BY <2>1, <2>2, <3>3 DEF Unborn
    <2>5. late' = late \/ (run.sent = "pending" /\ late' = Append(late, run.tx))
      BY <1>6, DialogStep DEF Begins, Sweeps, Dismisses, Breaks
    <2> QED
      BY <2>3, <2>4, <2>5
  <1>7. CASE Step
    <2>0. pos' = pos /\ late' = late
      BY <1>7, Sorted, FlowFrame
    <2>a. ASSUME run'.sent = "no" PROVE Unborn'
      BY <1>5, <1>a, <2>0, <2>a DEF Pends
    <2>1. ASSUME NEW t, HasSent(t) PROVE Unborn'
      <3>1. t.kind \in Naming => t.id = pos.id
        <4>1. Seen.id # 0 => Seen.id = pos.id
          BY Blank DEF Seen
        <4> QED
          BY <2>1, <4>1 DEF HasSent, Sending, Tx, Naming
      <3>2. Pends' => run'.tx.id = pos.id
        BY <2>1, <3>1 DEF HasSent, Pends
      <3> QED
        BY <1>5, <1>a, <2>0, <3>2
    <2>2. CASE OpensOne
      <3>1. MayOpen /\ run'.tx.id = runs
        BY <2>2 DEF OpensOne, Opening, MayOpen, Named
      <3>2. \A k \in DOMAIN late : Late(k) => late[k].id < runs
        BY <3>1 DEF Named
      <3>3. \A k \in DOMAIN late : late[k].kind = "init" => run'.tx.id # late[k].id
        BY <1>1, <1>2, <1>4, <3>1, <3>2
      <3> QED
        BY <1>5, <1>a, <2>0, <3>3
    <2> QED
      BY <1>7, <2>a, <2>1, <2>2, Working
         DEF Works, GoesOn, Reads, Finishes, GetsNoAnswer, Picks, Reuses
  <1>8. CASE Lands
    <2>1. /\ late' = late /\ run.sent = "pending" /\ run'.sent \in {"ok", "failed"}
      BY <1>8, LandedRun, Landing DEF LandsOk, LandsFailing
    <2>2. \/ pos'.id = pos.id \/ pos'.id = 0 \/ (run.tx.kind = "init" /\ pos'.id = run.tx.id)
      <3>1. CASE LandsOk
        BY <1>1, <3>1, Effects, Blank
           DEF LandsOk, Empties, TakesFees, Sells, Pays, Creates, Adds
      <3>2. CASE LandsFailing
        BY <3>2 DEF LandsFailing
      <3> QED
        BY <1>8, <3>1, <3>2, Landing
    <2>3. run.tx.kind = "init" => Pends
      BY <2>1 DEF Pends, Naming
    <2>4. \A k \in DOMAIN late : late[k].kind = "init" => pos'.id # late[k].id
      BY <1>1, <1>3, <1>4, <1>5, <2>2, <2>3
    <2>5. ~Pends'
      BY <2>1 DEF Pends
    <2> QED
      BY <1>a, <2>1, <2>4, <2>5
  <1>9. ASSUME NEW i \in DOMAIN late, LandsLate(i) PROVE Unborn'
    <2>1. Disturbed \/ run' = run
      BY <1>1, <1>9, LandedLate, Disturbance
    <2>2. (Pends' => Pends) /\ run'.tx = run.tx
      BY <2>1 DEF Disturbed, Pends
    <2>3. \/ pos'.id = pos.id \/ pos'.id = 0 \/ (Late(i) /\ pos'.id = late[i].id)
      <3>1. CASE Applies(late[i]) /\ Apply(late[i]) /\ late[i] \in Txs
        BY <3>1, Effects, Blank
           DEF Empties, TakesFees, Sells, Pays, Creates, Adds, Late, Naming
      <3> QED
        BY <1>9, <3>1, LandedLate
    <2>4. /\ \A j \in DOMAIN late' : \E k \in DOMAIN late : k # i /\ late'[j] = late[k]
          /\ \A j, k \in DOMAIN late' : j # k =>
                 \E u, v \in DOMAIN late :
                      u # v /\ u # i /\ v # i /\ late'[j] = late[u] /\ late'[k] = late[v]
      BY <1>9, LandedLate, LateShrinks
    <2>5. ASSUME NEW j \in DOMAIN late', late'[j].kind = "init"
          PROVE  /\ pos'.id # late'[j].id /\ (Pends' => run'.tx.id # late'[j].id)
                 /\ \A k \in DOMAIN late' : k # j /\ Late(k)' => late'[k].id # late'[j].id
      <3>1. PICK u \in DOMAIN late : u # i /\ late'[j] = late[u]
        BY <2>4
      <3>2. Late(u) /\ late[u].id \in 1 .. runs
        BY <1>3, <1>4, <2>5, <3>1
      <3>3. pos'.id # late[u].id /\ (Pends' => run'.tx.id # late[u].id)
        BY <1>1, <1>5, <2>2, <2>3, <2>5, <3>1, <3>2
      <3>4. ASSUME NEW k \in DOMAIN late', k # j, Late(k)' PROVE late'[k].id # late'[j].id
        <4>1. PICK v, w \in DOMAIN late : v # w /\ late'[j] = late[v] /\ late'[k] = late[w]
          BY <2>4, <3>4
        <4> QED
          BY <1>5, <2>5, <3>4, <4>1 DEF Late
      <3> QED
        BY <3>1, <3>3, <3>4
    <2> QED
      BY <2>5 DEF Unborn
  <1>10. CASE Trade
    <2>1. Disturbed /\ pos'.id = pos.id /\ late' = late
      BY <1>1, <1>10, Traded, Disturbance
    <2>2. (Pends' => Pends) /\ run'.tx = run.tx
      BY <2>1 DEF Disturbed, Pends
    <2> QED
      BY <1>5, <1>a, <2>1, <2>2
  <1>11. CASE UNCHANGED flow
    <2>1. run' = run /\ pos' = pos /\ late' = late
      BY <1>11 DEF flow, chain
    <2> QED
      BY <1>5, <1>a, <2>1 DEF Pends
  <1> QED
    BY <1>6, <1>7, <1>8, <1>9, <1>10, <1>11 DEF OneRun

-----------------------------------------------------------------------------
(* What is closed stays empty.                                             *)

\* Nothing names the position that is not there.
LEMMA NoneIsGone == ASSUME Shape, Placed, Named, pos.id = 0 PROVE Gone
  <1>1. pos.sol + pos.tok = 0
    BY Blank DEF Placed
  <1>2. \A k \in DOMAIN late : late[k].kind \in {"close", "claim", "add"} => late[k].id # pos.id
    BY DEF Named, Late, Naming
  <1> QED
    BY <1>1, <1>2 DEF Gone

\* A position that holds nothing is changed by an init at most, and not by a trade.
LEMMA GoneLate ==
    ASSUME Shape, Placed, Named, Unborn, Gone, NEW i \in DOMAIN late, LandsLate(i)
    PROVE  Gone' /\ (late[i].kind \in {"close", "claim", "add"} => UNCHANGED <<native, tok, pos>>)
  <1>1. late[i] \in Txs /\ \A j \in DOMAIN late' : \E k \in DOMAIN late : k # i /\ late'[j] = late[k]
    BY LandedLate, LateShrinks
  <1>2. /\ pos.sol + pos.tok = 0
        /\ \A k \in DOMAIN late :
               late[k].kind \in {"close", "claim", "add"} => late[k].id # pos.id
    BY DEF Gone
  <1>3. CASE UNCHANGED <<native, wsol, tok, pos>>
    BY <1>1, <1>2, <1>3 DEF Gone
  <1>4. CASE Applies(late[i]) /\ Apply(late[i])
    <2>1. ~Empties(late[i]) /\ ~TakesFees(late[i]) /\ ~Adds(late[i])
      BY <1>2 DEF Empties, TakesFees, Adds
    <2>2. CASE Sells(late[i]) \/ Pays(late[i])
      BY <1>1, <1>2, <2>2 DEF Gone, Sells, Pays
    <2>3. CASE Creates(late[i])
      <3>1. late[i].kind = "init" /\ pos'.id = late[i].id /\ pos'.sol + pos'.tok = 0
        BY <2>3 DEF Creates
      <3>2. \A k \in DOMAIN late : k # i /\ late[k].kind \in {"close", "claim", "add"} =>
                late[k].id # pos'.id
        BY <3>1 DEF Unborn, Late, Naming
      <3> QED
        BY <1>1, <3>1, <3>2 DEF Gone
    <2> QED
      BY <1>1, <1>4, <2>1, <2>2, <2>3, Effects
  <1> QED
    BY <1>3, <1>4, LandedLate

\* Only a finished run changes the record.
LEMMA Recorded ==
    ASSUME Shape, Finishing
    PROVE  /\ run.kind = "exit" => local'.state = "closed"
           /\ run.kind = "sweep" => local'.state = "removed"
           /\ run.kind \notin {"exit", "sweep"} => local'.state = local.state
  <1>1. local \in [state : {"open", "closed", "removed"}, id : Nat]
    BY DEF Shape
  <1>2. /\ run.kind = "exit" => local' = MarkClosed
        /\ run.kind = "rebalance" => local' = MarkRebalanced
        /\ run.kind = "sweep" => local' = RemoveRecord
        /\ run.kind \notin {"exit", "rebalance", "sweep"} => local' = local
    BY DEF Finishing, Finish
  <1>3. /\ MarkClosed.state = "closed" /\ MarkRebalanced.state = local.state
        /\ RemoveRecord.state = "removed"
    BY <1>1 DEF MarkClosed, MarkRebalanced, RemoveRecord
  <1> QED
    BY <1>2, <1>3

LEMMA ClosedStep ==
    ASSUME alone = TRUE, Shape, Placed, Named, Unborn, Closed, [OneRun]_flow
    PROVE  Closed'
  <1>1. /\ run \in RunType /\ pos \in Positions /\ run.tx \in Txs /\ erred \in BOOLEAN
        /\ OnItsWay /\ Course
    BY PlacedParts DEF Shape, RunType
  <1>2. /\ (Past \/ local.state # "open") /\ ~erred => Gone
        /\ local.state # "open" =>
               run.kind \in {"none", "sweep"} \/ (run.kind = "exit" /\ run.pc = "done")
        /\ run.kind = "sweep" => local.state # "open"
    BY DEF Closed
  <1>3. CASE Dialog
    <2>1. pos' = pos /\ local' = local /\ erred' = erred
      BY <1>3, DialogStep
    <2>2. CASE Begins
      <3>1. local.state = "open"
        BY <1>2, <2>2 DEF Begins, Dialogs, ShownOpen
      <3>2. ~Past' /\ run'.kind # "sweep"
        BY <2>2 DEF Begins, Past
      <3> QED
        BY <2>1, <3>1, <3>2 DEF Closed
    <2>3. CASE Sweeps
      <3>1. run'.kind = "sweep" /\ local.state # "open" /\ late' = late
        BY <2>3 DEF Sweeps, ShownClosed
      <3> QED
        BY <1>2, <2>1, <3>1 DEF Closed, Gone
    <2>4. CASE Dismisses
      <3>1. run'.kind = "none" /\ late' = late
        BY <2>4, Blank DEF Dismisses
      <3> QED
        BY <1>2, <2>1, <3>1 DEF Closed, Gone, Past
    <2>5. CASE Breaks
      <3>1. ~Past' /\ run'.kind = run.kind
        BY <2>5 DEF Breaks, Past
      <3>2. local.state # "open" => run.kind = "sweep"
        BY <1>1, <1>2, <2>5 DEF Breaks, Course
      <3>3. run.kind = "sweep" /\ run.sent = "pending" => run.tx.kind = "sweep"
        BY <1>1, SendsDomain DEF OnItsWay, Course
      <3>4. ASSUME local.state # "open", ~erred PROVE Gone'
        <4>1. Gone
          BY <1>2, <3>4
        <4>2. ASSUME NEW j \in DOMAIN late', late'[j].kind \in {"close", "claim", "add"}
              PROVE  late'[j].id # pos.id
          BY <3>2, <3>3, <3>4, <4>1, <4>2, LateAfter DEF Gone
        <4> QED
          BY <2>1, <4>1, <4>2 DEF Gone
      <3> QED
        BY <1>2, <2>1, <3>1, <3>2, <3>4 DEF Closed
    <2> QED
      BY <1>3, <2>2, <2>3, <2>4, <2>5, DialogStep
  <1>4. CASE Step
    <2>0. pos' = pos /\ late' = late /\ erred' = erred /\ (~Finishing => local' = local)
      BY <1>4, Sorted, FlowFrame
    <2>a. Gone' <=> Gone
      BY <2>0 DEF Gone
    <2>b. ASSUME run'.kind = run.kind, run.pc # "done", local'.state = local.state,
                 Past' => Past \/ erred \/ Gone
          PROVE  Closed'
      BY <1>2, <2>0, <2>a, <2>b DEF Closed
    <2>1. ASSUME NEW p \in Places, GoesOn(p) PROVE Closed'
      <3>1. run'.kind = run.kind /\ run'.own = run.own /\ run'.pc = p /\ Going(p)
            /\ run'.sent = "no"
        BY <2>1 DEF GoesOn, KeptAll, Kept
      <3>2. Past' => Past \/ erred
        BY <1>1, <3>1 DEF Going, Past, Confirmed, At, Sold, Asked, OnItsWay
      <3>3. run.pc # "done" /\ ~Finishing
        BY <3>1 DEF Going, Confirmed, At, Sold, Asked, Finishing
      <3> QED
        BY <2>0, <2>b, <3>1, <3>2, <3>3
    <2>2. ASSUME NEW p \in Places, Reads(p) PROVE Closed'
      <3>1. run'.kind = run.kind /\ run'.own = run.own /\ run'.pc = p /\ Reading(p)
            /\ run'.sent = "no" /\ run.pc = "state"
        BY <2>2 DEF Reads, Kept
      <3>2. Past' => Gone
        <4>1. Past' => run.own /\ Seen.id = 0
          BY <3>1 DEF Past, Reading
        <4>2. Past' => pos.id = 0
          BY <4>1 DEF Seen
        <4> QED
          BY <4>2, NoneIsGone
      <3>3. ~Finishing
        BY <3>1 DEF Finishing, At, Confirmed
      <3> QED
        BY <2>0, <2>b, <3>1, <3>2, <3>3
    <2>3. ASSUME NEW t, HasSent(t) PROVE Closed'
      <3>1. run'.kind = run.kind /\ run'.own = run.own /\ run'.pc = run.pc
            /\ run.sent = "no" /\ run'.sent = "pending" /\ Sending(t)
        BY <2>3 DEF HasSent, KeptAll, Kept
      <3>2. (Past' => Past) /\ run.pc # "done"
        BY <3>1 DEF Past, Sending, At
      <3>3. ~Finishing
        <4>1. Finishing => run'.pc = "done"
          BY <1>1 DEF Finishing, Finish, RunType
        <4> QED
          BY <3>1, <3>2, <4>1
      <3> QED
        BY <2>0, <2>b, <3>1, <3>2, <3>3
    <2>4. CASE Finishes
      <3>1. run'.kind = run.kind /\ run'.own = run.own /\ run'.pc = "done" /\ Finishing
        BY <2>4 DEF Finishes, KeptAll, Kept
      <3>2. ~Past'
        BY <3>1 DEF Past
      <3>3. CASE run.kind = "exit"
        <4>1. Past
          BY <1>1, <3>1, <3>3 DEF Finishing, At, Confirmed, Past, Course
        <4> QED
          BY <1>2, <2>0, <2>a, <3>1, <3>2, <3>3, <4>1 DEF Closed
      <3>4. CASE run.kind = "sweep"
        <4>1. local'.state = "removed"
          BY <3>1, <3>4, Recorded
        <4> QED
          BY <1>2, <2>0, <2>a, <3>1, <3>4, <4>1 DEF Closed
      <3>5. CASE run.kind \notin {"exit", "sweep"}
        <4>1. local'.state = local.state
          BY <3>1, <3>5, Recorded
        <4>2. run.kind # "none"
          BY <3>1 DEF Finishing
        <4> QED
          BY <1>2, <3>1, <3>2, <3>5, <4>1, <4>2 DEF Closed
      <3> QED
        BY <3>3, <3>4, <3>5
    <2>5. CASE GetsNoAnswer
      <3>1. run'.kind = run.kind /\ run'.own = run.own /\ run.pc = "withdraw"
            /\ run'.pc = "unanswered" /\ local' = local
        BY <2>5 DEF GetsNoAnswer, Unanswered, At, KeptAll, Kept
      <3> QED
        BY <2>b, <3>1 DEF Past
    <2>6. CASE Picks
      <3>1. run'.kind = run.kind /\ run'.own = run.own /\ run.pc = "pick"
            /\ run'.pc = "deposit" /\ local' = local
        BY <2>6 DEF Picks, Picking, Pick, KeptAll, Kept
      <3> QED
        BY <2>b, <3>1 DEF Past
    <2>7. CASE OpensOne \/ Reuses
      <3>1. run'.kind = run.kind /\ run.kind = "rebalance" /\ run.pc = "init" /\ local' = local
        BY <2>7 DEF OpensOne, Opening, SendInit, Send, Reuses, Reusing, ReusePosition, KeptAll, Kept
      <3> QED
        BY <2>b, <3>1 DEF Past
    <2> QED
      BY <1>4, <2>1, <2>2, <2>3, <2>4, <2>5, <2>6, <2>7, Working DEF Works
  <1>5. CASE Lands
    <2>1. /\ late' = late /\ local' = local /\ run.sent = "pending" /\ run'.kind = run.kind
          /\ run'.own = run.own /\ run'.pc = run.pc
      BY <1>5, LandedRun, Landing DEF LandsOk, LandsFailing, KeptAll, Kept
    <2>2. run.pc \in DOMAIN Sends /\ run.tx.kind \in Sends[run.pc]
      BY <1>1, <2>1 DEF OnItsWay
    <2>3. CASE LandsFailing
      BY <1>2, <2>1, <2>3 DEF LandsFailing, Closed
    <2>4. CASE LandsOk
      <3>1. Empties(run.tx) \/ TakesFees(run.tx) \/ Sells(run.tx) \/ Pays(run.tx)
            \/ Creates(run.tx) \/ Adds(run.tx)
        BY <1>1, <2>4, Effects DEF LandsOk
      <3>2. CASE run.pc = "close"
        <4>1. Empties(run.tx)
          BY <2>2, <3>1, <3>2, SendsDomain
             DEF TakesFees, Sells, Pays, Creates, Adds
        <4>2. pos'.id = 0 /\ pos'.sol + pos'.tok = 0
          BY <4>1, Blank DEF Empties
        <4>3. Gone'
          BY <2>1, <4>2 DEF Gone, Named, Late, Naming
        <4> QED
          BY <1>2, <2>1, <4>3 DEF Closed
      <3>3. CASE run.pc # "close"
        <4>1. (Past \/ local.state # "open") => run.tx.kind \in {"swap", "sweep", "deposit"}
          BY <1>1, <1>2, <2>2, <3>3, SendsDomain DEF Past, Course
        <4>2. (Past \/ local.state # "open") => pos' = pos
          BY <3>1, <4>1 DEF Empties, TakesFees, Sells, Pays, Creates, Adds
        <4>3. Past' => Past
          BY <2>1, <3>3 DEF Past
        <4>4. erred' = erred
          BY <2>4 DEF LandsOk
        <4> QED
          BY <1>2, <2>1, <4>2, <4>3, <4>4 DEF Closed, Gone
      <3> QED
        BY <3>2, <3>3
    <2> QED
      BY <1>5, <2>3, <2>4, Landing
  <1>6. ASSUME NEW i \in DOMAIN late, LandsLate(i) PROVE Closed'
    <2>1. (Disturbed \/ run' = run) /\ local' = local /\ erred' = erred
      BY <1>1, <1>6, LandedLate, Disturbance
    <2>2. run'.kind = run.kind /\ run'.pc = run.pc /\ (Past' => Past)
      BY <2>1 DEF Disturbed, Kept, Past
    <2>3. Gone => Gone'
      BY <1>6, GoneLate
    <2> QED
      BY <1>2, <2>1, <2>2, <2>3 DEF Closed
  <1>7. CASE Trade
    <2>1. Disturbed /\ local' = local /\ erred' = erred /\ pos.sol + pos.tok > 0
      BY <1>1, <1>7, Traded, Disturbance
    <2>2. run'.kind = run.kind /\ run'.pc = run.pc /\ (Past' => Past)
      BY <2>1 DEF Disturbed, Kept, Past
    <2>3. ~Gone
      BY <2>1 DEF Gone
    <2> QED
      BY <1>2, <2>1, <2>2, <2>3 DEF Closed
  <1>8. CASE UNCHANGED flow
    BY <1>2, <1>8 DEF flow, chain, Closed, Gone, Past
  <1> QED
    BY <1>3, <1>4, <1>5, <1>6, <1>7, <1>8 DEF OneRun

-----------------------------------------------------------------------------
(* What is swept in the open.                                              *)

Small(amount) == Spoilt \/ amount < Bound
Still(amount) == Spoilt' \/ amount < Bound
Low == Spoilt \/ native < Min(Denoms) + Reserve + (IF IsOpen THEN TopUp ELSE 0)

\* Only the sweep of an exit shows.
LEMMA Shown ==
    ASSUME Shape, NEW t \in Txs, Applies(t), Apply(t)
    PROVE  openly' = openly \/ (t.kind = "sweep" /\ t.id # 0 /\ openly' = t.amt)
  BY Effects DEF Empties, TakesFees, Sells, Pays, Creates, Adds

\* What lands late leaves an exit that is about to sweep with little.
LEMMA LowLate ==
    ASSUME Shape, Placed, Named, Unborn, Gone, Low, NEW i \in DOMAIN late, LandsLate(i),
           alone' = alone
    PROVE  Low'
  <1>1. /\ native \in Nat /\ Min(Denoms) \in Nat /\ Reserve \in Nat /\ TopUp \in Nat
        /\ late[i] \in Txs /\ (Spoilt' <=> Spoilt)
    BY MinDenoms, Sizes, LandedLate DEF Shape, Spoilt
  <1>2. CASE UNCHANGED <<native, pos>>
    BY <1>1, <1>2 DEF Low, IsOpen
  <1>3. CASE Applies(late[i]) /\ Apply(late[i])
    <2>1. CASE Empties(late[i]) \/ TakesFees(late[i]) \/ Adds(late[i])
      <3>1. UNCHANGED <<native, pos>>
        BY <2>1, GoneLate DEF Empties, TakesFees, Adds
      <3> QED
        BY <1>2, <3>1
    <2>2. CASE Sells(late[i]) \/ Pays(late[i])
      <3>1. native' <= native /\ pos' = pos
        BY <1>1, <2>2 DEF Sells, Pays
      <3>2. native' \in Nat
        BY <1>1, <1>3, Applied
      <3> QED
        BY <1>1, <3>1, <3>2 DEF Low, IsOpen
    <2>3. CASE Creates(late[i])
      <3>1. pos'.id # 0
        BY <2>3 DEF Creates, Named, Late, Naming
      <3> QED
        BY <1>1, <2>3, <3>1 DEF Creates, Low, IsOpen
    <2> QED
      BY <1>1, <1>3, <2>1, <2>2, <2>3, Effects
  <1> QED
    BY <1>2, <1>3, LandedLate

LEMMA DustStep ==
    ASSUME Shape, Placed, alone => Named /\ Unborn /\ Closed, Dust, OnlyDustInTheOpen,
           [OneRun]_flow, alone' = alone
    PROVE  Dust' /\ OnlyDustInTheOpen'
  <1>1. /\ run \in RunType /\ run.tx \in Txs /\ erred \in BOOLEAN /\ acked \in BOOLEAN
        /\ run.ack \in BOOLEAN /\ native \in Nat /\ openly \in Nat
        /\ OnItsWay /\ Course
    BY PlacedParts DEF Shape, RunType
  <1>2. Min(Denoms) \in Nat /\ Reserve \in Nat /\ TopUp \in Nat /\ SweepFee \in Nat
    BY MinDenoms, Sizes
  <1> DEFINE Shows(t) == t.kind = "sweep" /\ t.id # 0
  <1>3. /\ run.ack => acked
        /\ run.kind = "exit" /\ run.pc = "sweep" => run.ack /\ Low
        /\ run.sent = "pending" /\ Shows(run.tx) => acked /\ Small(run.tx.amt)
        /\ \A k \in DOMAIN late : Shows(late[k]) => acked /\ Small(late[k].amt)
        /\ openly > 0 => acked /\ Small(openly)
    BY DEF Dust, Low, Small, Still, OnlyDustInTheOpen, Bound, Spoilt
  <1>b. erred' = erred => (Spoilt' <=> Spoilt)
    BY DEF Spoilt
  <1>c. erred' \/ Spoilt => Spoilt'
    <2>1. erred => erred'
      <3>1. CASE Dialog
        BY <3>1, DialogStep
      <3>2. CASE Step
        BY <3>2, Sorted, FlowFrame
      <3>3. CASE Lands
        BY <3>3, LandedRun
      <3>4. ASSUME NEW i \in DOMAIN late, LandsLate(i) PROVE erred' = erred
        BY <3>4, LandedLate
      <3>5. CASE Trade
        BY <3>5, Traded
      <3>6. CASE UNCHANGED flow
        BY <3>6 DEF flow
      <3> QED
        BY <3>1, <3>2, <3>3, <3>4, <3>5, <3>6 DEF OneRun
    <2> QED
      BY <2>1 DEF Spoilt
  \* The five parts of the claim.
  <1>a. ASSUME run'.ack => acked',
               run'.kind = "exit" /\ run'.pc = "sweep" => run'.ack /\ Low',
               run'.sent = "pending" /\ Shows(run'.tx) => acked' /\ Still(run'.tx.amt),
               \A k \in DOMAIN late' : Shows(late'[k]) => acked' /\ Still(late'[k].amt),
               openly' > 0 => acked' /\ Still(openly')
        PROVE  Dust' /\ OnlyDustInTheOpen'
    BY <1>a DEF Dust, Low, Small, Still, OnlyDustInTheOpen, Bound, Spoilt
  <1>4. CASE Dialog
    <2>1. native' = native /\ pos' = pos /\ openly' = openly /\ erred' = erred
      BY <1>4, DialogStep
    <2>2. /\ (acked => acked') /\ (run'.ack => acked') /\ run'.sent = "no"
          /\ ~(run'.kind = "exit" /\ run'.pc = "sweep")
      <3>1. CASE Begins
        BY <1>3, <3>1 DEF Begins
      <3>2. CASE Sweeps
        BY <3>2 DEF Sweeps
      <3>3. CASE Dismisses
        BY <3>3, Blank DEF Dismisses
      <3>4. CASE Breaks
        BY <1>3, <3>4 DEF Breaks
      <3> QED
        BY <1>4, <3>1, <3>2, <3>3, <3>4, DialogStep
    <2>3. ASSUME NEW j \in DOMAIN late', Shows(late'[j])
          PROVE  acked' /\ Still(late'[j].amt)
      <3>1. acked /\ Small(late'[j].amt)
        BY <1>3, <2>3, LateAfter
      <3> QED
        BY <1>b, <2>1, <2>2, <3>1 DEF Small, Still
    <2>4. openly' > 0 => acked' /\ Still(openly')
      BY <1>3, <1>b, <2>1, <2>2 DEF Small, Still
    <2> QED
      BY <1>a, <2>2, <2>3, <2>4
  <1>5. CASE Step
    <2>0. /\ native' = native /\ pos' = pos /\ late' = late /\ acked' = acked
          /\ openly' = openly /\ erred' = erred
      BY <1>5, Sorted, FlowFrame
    <2>1. Kept
      BY <1>5, Working DEF Works, GoesOn, Reads, HasSent, Finishes, GetsNoAnswer, Picks,
         OpensOne, Reuses, KeptAll
    <2>2. (Low' <=> Low) /\ \A amount : Still(amount) <=> Small(amount)
      BY <1>b, <2>0 DEF Low, Small, Still, IsOpen
    <2>3. /\ run'.ack => acked'
          /\ \A k \in DOMAIN late' : Shows(late'[k]) => acked' /\ Still(late'[k].amt)
          /\ openly' > 0 => acked' /\ Still(openly')
      BY <1>3, <1>b, <2>0, <2>1 DEF Kept, Small, Still
    <2>4. run'.kind = "exit" /\ run'.pc = "sweep" => run'.ack /\ Low'
      <3>1. ASSUME GoesOn("sweep"), run.kind = "exit" PROVE run.ack /\ Low
        <4>1. Available > 0 /\ Fitting = {} /\ run.ack
          BY <3>1 DEF GoesOn, Going
        <4>2. Available = native - Reserve
          BY <1>2, <4>1 DEF Available, Balance
        <4>3. ~(Min(Denoms) <= Available)
          BY <4>1, MinDenoms DEF Fitting
        <4>4. native < Min(Denoms) + Reserve
          BY <1>1, <1>2, <4>2, <4>3
        <4> QED
          BY <1>1, <1>2, <4>1, <4>4 DEF Low
      <3>2. ASSUME run'.kind = "exit", run'.pc = "sweep" PROVE GoesOn("sweep") \/ run.pc = "sweep"
        BY <1>5, <3>2, Working DEF Works, GoesOn, Reads, Reading, HasSent, Finishes,
           GetsNoAnswer, Picks, OpensOne, Reuses
      <3> QED
        BY <1>3, <2>1, <2>2, <3>1, <3>2 DEF Kept
    <2>5. run'.sent = "pending" /\ Shows(run'.tx) => acked' /\ Still(run'.tx.amt)
      <3>1. ASSUME NEW t, HasSent(t), Shows(t) PROVE acked /\ Small(t.amt)
        <4>1. /\ run.kind = "exit" /\ run.pc = "sweep" /\ t = Tx("sweep", Balance - SweepFee, 0, 1)
              /\ Balance > SweepFee
          BY <3>1 DEF HasSent, Sending, At, Tx
        <4>2. Balance = native /\ t.amt = native - SweepFee
          BY <1>2, <4>1 DEF Balance, Tx
        <4>3. run.ack /\ Low
          BY <1>3, <4>1
        <4>4. Spoilt \/ native - SweepFee < Bound
          <5>1. Spoilt \/ native < Min(Denoms) + Reserve + TopUp
            BY <1>1, <1>2, <4>3 DEF Low
          <5> QED
            BY <1>1, <1>2, <5>1 DEF Bound
        <4> QED
          BY <1>3, <4>2, <4>3, <4>4 DEF Small
      <3>2. ASSUME run'.sent = "pending", Shows(run'.tx) PROVE HasSent(run'.tx)
        BY <1>5, <3>2, Working DEF Works, GoesOn, Reads, HasSent, Finishes,
           GetsNoAnswer, Picks, OpensOne, Reuses
      <3>3. ASSUME run'.sent = "pending", Shows(run'.tx) PROVE acked' /\ Still(run'.tx.amt)
        <4>1. acked /\ Small(run'.tx.amt)
          BY <3>1, <3>2, <3>3
        <4> QED
          BY <1>b, <2>0, <4>1 DEF Small, Still
      <3> QED
        BY <3>3
    <2> QED
      BY <1>a, <2>3, <2>4, <2>5
  <1>6. CASE Lands
    <2>1. /\ late' = late /\ acked' = acked /\ run.sent = "pending" /\ Kept
          /\ run'.pc = run.pc /\ run'.sent # "pending" /\ (erred => erred')
      <3>1. late' = late /\ acked' = acked /\ run.sent = "pending"
        BY <1>6, LandedRun
      <3>2. CASE LandsOk
        BY <3>1, <3>2 DEF LandsOk, KeptAll
      <3>3. CASE LandsFailing
        <4>1. erred' = TRUE /\ run'.sent = "failed" /\ run'.pc = run.pc /\ Kept
          BY <3>3 DEF LandsFailing, KeptAll
        <4> QED
          BY <3>1, <4>1
      <3> QED
        BY <1>6, <3>2, <3>3, Landing
    <2>2. /\ run'.ack => acked'
          /\ \A k \in DOMAIN late' : Shows(late'[k]) => acked' /\ Still(late'[k].amt)
      BY <1>3, <1>c, <2>1 DEF Kept, Small, Still
    <2>3. run'.kind = "exit" /\ run'.pc = "sweep" => run'.ack /\ Low'
      <3>1. CASE LandsFailing
        BY <1>3, <1>c, <2>1, <3>1 DEF LandsFailing, Low, Kept
      <3>2. CASE LandsOk
        <4>1. run.pc = "sweep" => run.tx.kind = "sweep"
          BY <1>1, <2>1, SendsDomain DEF OnItsWay
        <4>2. run.pc = "sweep" => Pays(run.tx)
          BY <1>1, <3>2, <4>1, Effects
             DEF LandsOk, Empties, TakesFees, Sells, Creates, Adds
        <4>3. native' \in Nat /\ erred' = erred
          BY <1>1, <3>2, Applied DEF LandsOk
        <4>4. run.pc = "sweep" /\ Low => Low'
          BY <1>1, <1>2, <1>b, <4>2, <4>3 DEF Pays, Low, IsOpen
        <4> QED
          BY <1>3, <2>1, <4>4 DEF Kept
      <3> QED
        BY <1>6, <3>1, <3>2, Landing
    <2>4. openly' > 0 => acked' /\ Still(openly')
      <3>1. openly' = openly \/ (Shows(run.tx) /\ openly' = run.tx.amt)
        BY <1>1, <1>6, Landing, Shown DEF LandsOk, LandsFailing
      <3> QED
        BY <1>3, <1>c, <2>1, <3>1 DEF Small, Still
    <2> QED
      BY <1>a, <2>1, <2>2, <2>3, <2>4
  <1>7. ASSUME NEW i \in DOMAIN late, LandsLate(i) PROVE Dust' /\ OnlyDustInTheOpen'
    <2>1. (Disturbed \/ run' = run) /\ acked' = acked /\ erred' = erred
      BY <1>1, <1>7, LandedLate, Disturbance
    <2>2. /\ Kept /\ run'.pc = run.pc /\ run'.sent = run.sent /\ run'.tx = run.tx
      BY <2>1 DEF Disturbed, Kept
    <2>3. \A j \in DOMAIN late' : \E k \in DOMAIN late : late'[j] = late[k]
      BY <1>7, LandedLate, LateShrinks
    <2>4. \A amount : Small(amount) <=> (Spoilt' \/ amount < Bound)
      BY <1>b, <2>1 DEF Small
    <2>5. \A k \in DOMAIN late' : Shows(late'[k]) => acked' /\ Still(late'[k].amt)
      <3>1. ASSUME NEW j \in DOMAIN late', Shows(late'[j]) PROVE acked' /\ Still(late'[j].amt)
        <4>1. acked /\ Small(late'[j].amt)
          BY <1>3, <2>3, <3>1
        <4> QED
          BY <1>b, <2>1, <4>1 DEF Small, Still
      <3> QED
        BY <3>1
    <2>6. openly' > 0 => acked' /\ Still(openly')
      <3>1. openly' = openly \/ (Shows(late[i]) /\ openly' = late[i].amt)
        BY <1>7, LandedLate, Shown
      <3> QED
        BY <1>3, <1>b, <2>1, <3>1 DEF Small, Still
    <2>7. run'.kind = "exit" /\ run'.pc = "sweep" => run'.ack /\ Low'
      <3>1. ASSUME run.kind = "exit", run.pc = "sweep" PROVE run.ack /\ Low'
        <4>1. Past
          BY <1>1, <3>1 DEF Past, Course
        <4>2. CASE Spoilt
          BY <1>3, <1>b, <2>1, <3>1, <4>2 DEF Low
        <4>3. CASE ~Spoilt
          <5>1. Gone /\ Low /\ Named /\ Unborn
            BY <1>3, <3>1, <4>1, <4>3 DEF Closed, Spoilt
          <5> QED
            BY <1>3, <1>7, <3>1, <5>1, LowLate
        <4> QED
          BY <4>2, <4>3
      <3> QED
        BY <2>2, <3>1 DEF Kept
    <2>8. /\ run'.ack => acked'
          /\ run'.sent = "pending" /\ Shows(run'.tx) => acked' /\ Still(run'.tx.amt)
      BY <1>3, <1>b, <2>1, <2>2 DEF Kept, Small, Still
    <2> QED
      BY <1>a, <2>5, <2>6, <2>7, <2>8
  <1>8. CASE Trade
    <2>1. /\ Disturbed /\ acked' = acked /\ erred' = erred /\ pos'.id = pos.id
          /\ native' = native /\ late' = late /\ openly' = openly
      BY <1>1, <1>8, Traded, Disturbance
    <2>2. /\ Kept /\ run'.pc = run.pc /\ run'.sent = run.sent /\ run'.tx = run.tx
      BY <2>1 DEF Disturbed
    <2>3. Low' <=> Low
      BY <1>b, <2>1 DEF Low, IsOpen
    <2> QED
      BY <1>3, <1>a, <1>b, <2>1, <2>2, <2>3 DEF Kept, Small, Still
  <1>9. CASE UNCHANGED flow
    <2>1. /\ run' = run /\ acked' = acked /\ erred' = erred /\ pos' = pos
          /\ native' = native /\ late' = late /\ openly' = openly
      BY <1>9 DEF flow, chain, wallet
    <2> QED
      BY <1>3, <1>a, <1>b, <2>1 DEF Low, Small, Still, IsOpen
  <1> QED
    BY <1>4, <1>5, <1>6, <1>7, <1>8, <1>9 DEF OneRun

-----------------------------------------------------------------------------
(* What a run sells.                                                       *)

LEMMA TrackedStep ==
    ASSUME Shape, Placed, Tracked, [OneRun]_flow
    PROVE  Tracked'
  <1>1. /\ run \in RunType /\ pos \in Positions /\ run.tx \in Txs /\ tok \in Nat
        /\ run.had \in Nat /\ Taken \in Nat /\ run.snap \in Positions
        /\ OnItsWay /\ Course
    BY PlacedParts DEF Shape, RunType, Taken, Positions
  <1>2. CASE Dialog
    <2>1. run'.pc \in {"state", "error"} \/ run'.kind \notin Dialogs
      <3>1. CASE Dismisses
        BY <3>1, Blank DEF Dismisses, Dialogs
      <3> QED
        BY <1>2, <3>1, DialogStep DEF Begins, Sweeps, Breaks, Dialogs
    <2> QED
      BY <2>1 DEF Tracked, Watched
  <1>3. CASE Step
    <2>0. pos' = pos /\ tok' = tok /\ erred' = erred
      BY <1>3, Sorted, FlowFrame
    <2>a. KeptAll => Taken' = Taken
      BY DEF KeptAll, Kept, Taken
    <2>1. ASSUME NEW p \in Places, GoesOn(p) PROVE Tracked'
      <3>1. KeptAll /\ run'.pc = p /\ run'.sent = "no" /\ Going(p)
        BY <2>1 DEF GoesOn
      <3>2. Watched' => Watched
        <4>1. run.pc \notin {"state", "error"}
          BY <3>1 DEF Going, At, Confirmed, Sold, Asked
        <4> QED
          BY <2>0, <3>1, <4>1 DEF Watched, KeptAll, Kept
      <3>3. run.sent = "failed" => ~Watched
        BY <1>1 DEF OnItsWay, Watched
      <3>4. CASE p = "swap"
        <4>1. run.pc \in {"close", "claim"} /\ run.sent \in {"ok", "failed"}
          BY <3>1, <3>4 DEF Going, Confirmed
        <4> QED
          BY <2>0, <2>a, <3>1, <3>2, <3>3, <3>4, <4>1 DEF Tracked, KeptAll
      <3>5. CASE p \in {"pick", "init"}
        <4>1. Sold
          BY <3>1, <3>5 DEF Going
        <4>2. Watched => tok = run.had
          BY <1>1, <3>3, <4>1 DEF Sold, Asked, At, Confirmed, Tracked
        <4> QED
          BY <2>0, <3>1, <3>2, <3>5, <4>2 DEF Tracked, KeptAll
      <3>6. CASE p \notin {"swap", "pick", "init"}
        <4>1. run.pc \notin {"close", "claim", "swap"} /\ p \notin {"close", "claim"}
          BY <3>1, <3>6 DEF Going, At, Confirmed
        <4> QED
          BY <2>0, <3>1, <3>2, <3>6, <4>1 DEF Tracked, KeptAll
      <3> QED
        BY <3>4, <3>5, <3>6
    <2>2. ASSUME NEW p \in Places, Reads(p) PROVE Tracked'
      <3>1. p \in {"pick", "close", "claim"} /\ run'.pc = p /\ run'.sent = "no"
        BY <2>2 DEF Reads, Reading
      <3>2. Watched' => Seen.id # 0
        BY <2>2 DEF Reads, Watched
      <3>3. Watched' => Seen = pos
        BY <3>2, Blank DEF Seen
      <3>4. run'.snap = Seen /\ run'.had = tok
        BY <2>2 DEF Reads
      <3> QED
        BY <2>0, <3>1, <3>3, <3>4 DEF Tracked
    <2>3. ASSUME NEW t, HasSent(t) PROVE Tracked'
      <3>1. /\ KeptAll /\ run'.pc = run.pc /\ run.sent = "no" /\ run'.sent = "pending"
            /\ run'.tx = t
        BY <2>3 DEF HasSent
      <3>2. run.pc = "swap" => t.amt = Taken
        BY <2>3 DEF HasSent, Sending, At, Tx
      <3>3. Watched' => Watched
        BY <2>0, <3>1 DEF Watched, KeptAll, Kept
      <3> QED
        BY <2>0, <2>a, <3>1, <3>2, <3>3 DEF Tracked, KeptAll
    <2>b. ASSUME KeptAll, run.pc \notin {"state", "error", "close", "claim", "swap"},
                 run'.pc \notin {"close", "claim", "swap"}
          PROVE  Tracked'
      <3>1. Watched' => Watched
        BY <2>0, <2>b DEF Watched, KeptAll, Kept
      <3> QED
        BY <2>0, <2>b, <3>1 DEF Tracked, KeptAll
    <2>4. CASE Finishes
      <3>1. CASE run.kind = "quick"
        <4>1. run'.kind \notin Dialogs
          BY <2>4, <3>1 DEF Finishes, KeptAll, Kept, Dialogs
        <4> QED
          BY <4>1 DEF Tracked, Watched
      <3>2. CASE run.kind # "quick"
        BY <2>4, <2>b, <3>2 DEF Finishes, Finishing, At, Confirmed
      <3> QED
        BY <3>1, <3>2
    <2>5. CASE GetsNoAnswer
      BY <2>5, <2>b DEF GetsNoAnswer, Unanswered, At
    <2>6. CASE Picks
      BY <2>6, <2>b DEF Picks
    <2>7. CASE OpensOne
      BY <2>7, <2>b DEF OpensOne
    <2>8. CASE Reuses
      BY <2>8, <2>b DEF Reuses
    <2> QED
      BY <1>3, <2>1, <2>2, <2>3, <2>4, <2>5, <2>6, <2>7, <2>8, Working DEF Works
  <1>4. CASE Lands
    <2>1. CASE LandsFailing
      BY <2>1 DEF LandsFailing, Tracked, Watched
    <2>2. CASE LandsOk
      <3>1. KeptAll /\ run'.pc = run.pc /\ run'.sent = "ok" /\ erred' = erred
            /\ run.sent = "pending"
        BY <1>4, <2>2, LandedRun DEF LandsOk
      <3>2. Watched' => Watched
        BY <3>1 DEF Watched, KeptAll, Kept
      <3>3. Taken' = Taken /\ run'.had = run.had
        BY <3>1 DEF KeptAll, Kept, Taken
      <3>4. run.pc \in DOMAIN Sends /\ run.tx.kind \in Sends[run.pc]
        BY <1>1, <3>1 DEF OnItsWay
      <3>5. Empties(run.tx) \/ TakesFees(run.tx) \/ Sells(run.tx) \/ Pays(run.tx)
            \/ Creates(run.tx) \/ Adds(run.tx)
        BY <1>1, <2>2, Effects DEF LandsOk
      <3>6. CASE run.pc = "close"
        <4>1. Empties(run.tx)
          BY <3>4, <3>5, <3>6, SendsDomain DEF TakesFees, Sells, Pays, Creates, Adds
        <4>2. tok' = tok + pos.tok + pos.feeTok
          BY <4>1 DEF Empties
        <4>3. Watched => pos = run.snap /\ tok = run.had /\ run.kind # "claim"
          BY <1>1, <3>1, <3>6 DEF Tracked, Course
        <4>4. Watched => tok' = run.had + Taken
          <5>1. Watched => Taken = pos.tok + pos.feeTok
            BY <4>3 DEF Taken
          <5>2. pos.tok \in Nat /\ pos.feeTok \in Nat
            BY <1>1 DEF Positions
          <5> QED
            BY <1>1, <4>2, <4>3, <5>1, <5>2
        <4> QED
          BY <3>1, <3>2, <3>3, <3>6, <4>4 DEF Tracked
      <3>7. CASE run.pc = "claim"
        <4>1. TakesFees(run.tx)
          BY <3>4, <3>5, <3>7, SendsDomain DEF Empties, Sells, Pays, Creates, Adds
        <4>2. Watched => pos = run.snap /\ tok = run.had /\ run.kind = "claim"
          BY <1>1, <3>1, <3>7 DEF Tracked, Course, Watched, Dialogs
        <4>3. Watched => tok' = run.had + Taken
          BY <4>1, <4>2 DEF TakesFees, Taken
        <4> QED
          BY <3>1, <3>2, <3>3, <3>7, <4>3 DEF Tracked
      <3>8. CASE run.pc = "swap"
        <4>1. Sells(run.tx)
          BY <3>4, <3>5, <3>8, SendsDomain DEF Empties, TakesFees, Pays, Creates, Adds
        <4>2. Watched => tok = run.had + Taken /\ run.tx.amt = Taken
          BY <3>1, <3>8 DEF Tracked
        <4>3. Watched => tok' = run.had
          BY <1>1, <4>1, <4>2 DEF Sells
        <4> QED
          BY <3>1, <3>2, <3>3, <3>8, <4>3 DEF Tracked
      <3>9. CASE run.pc \notin {"close", "claim", "swap"}
        <4>1. tok' = tok
          BY <3>4, <3>5, <3>9, SendsDomain
             DEF Empties, TakesFees, Sells, Pays, Creates, Adds
        <4> QED
          BY <3>1, <3>2, <3>3, <3>9, <4>1 DEF Tracked
      <3> QED
        BY <3>6, <3>7, <3>8, <3>9
    <2> QED
      BY <1>4, <2>1, <2>2, Landing
  <1>5. ASSUME Disturbed PROVE Tracked'
    <2>1. Watched' => run.pc = "idle" /\ run.kind \in Dialogs
      BY <1>5 DEF Disturbed, Kept, Watched
    <2> QED
      BY <1>1, <2>1 DEF Course, Dialogs, Tracked
  <1>6. ASSUME NEW i \in DOMAIN late, LandsLate(i) PROVE Tracked'
    <2>1. CASE UNCHANGED <<tok, pos, run, erred>>
      BY <2>1 DEF Tracked, Watched, Taken
    <2>2. erred' = erred /\ (Disturbed \/ UNCHANGED <<tok, pos, run>>)
      BY <1>1, <1>6, LandedLate, Disturbance
    <2> QED
      BY <1>5, <2>1, <2>2
  <1>7. CASE Trade
    BY <1>1, <1>5, <1>7, Traded, Disturbance
  <1>8. CASE UNCHANGED flow
    BY <1>8 DEF flow, chain, wallet, Tracked, Watched, Taken
  <1> QED
    BY <1>2, <1>3, <1>4, <1>6, <1>7, <1>8 DEF OneRun

-----------------------------------------------------------------------------
(* The theorems.                                                           *)

\* The other run, and what no longer holds once there was one.
Beside ==
    /\ other \in RunType /\ alone \in BOOLEAN
    /\ Fits(other) /\ Agreed(other)

FlowsInv ==
    /\ Shape /\ Placed /\ Dust /\ OnlyDustInTheOpen /\ Tracked /\ Beside
    /\ alone => Named /\ Unborn /\ Closed

\* What Placed and Dust say of the run at hand, of any run.
LEMMA OfTheRun ==
    /\ Placed <=> Fits(run) /\ (pos.id = 0 => pos = NoPosition)
    /\ Dust => Agreed(run)
  BY DEF Placed, Fits, Dust, Agreed

LEMMA TurnedAside ==
    ASSUME NEW r \in RunType, Fits(r)
    PROVE  /\ Aside(r) \in RunType /\ Fits(Aside(r)) /\ (Agreed(r) => Agreed(Aside(r)))
           /\ Aside(r).quiet => r.kind = "none"
           /\ Aside(r).kind = r.kind
  <1> DEFINE q == r.pc = "idle"
  <1>1. Aside(r) = [r EXCEPT !.quiet = q] /\ q \in BOOLEAN
    BY DEF Aside
  <1>2. q => r.kind = "none"
    BY DEF Fits
  <1> HIDE DEF q
  <1> DEFINE s == Aside(r)
  <1>3. /\ s \in RunType /\ s.quiet = q
        /\ s.kind = r.kind /\ s.pc = r.pc /\ s.sent = r.sent /\ s.tx = r.tx /\ s.own = r.own
        /\ s.denom = r.denom /\ s.note = r.note /\ s.ack = r.ack
    BY <1>1 DEF RunType
  <1> HIDE DEF s
  <1>4. Fits(s)
    BY <1>3 DEF Fits
  <1>5. Agreed(r) => Agreed(s)
    BY <1>3 DEF Agreed
  <1> QED
    BY <1>2, <1>3, <1>4, <1>5 DEF s

\* Turning to the other run.
LEMMA Switched == ASSUME FlowsInv, Switch PROVE FlowsInv'
  <1>1. /\ run' = Aside(other) /\ other' = Aside(run) /\ alone' = FALSE
        /\ UNCHANGED <<native, wsol, tok, main, pos, openly, late, local, lost, acked, erred,
                       trades, runs>>
    BY DEF Switch, chain, wallet, count
  <1>2. /\ run \in RunType /\ Fits(run) /\ Agreed(run)
        /\ other \in RunType /\ Fits(other) /\ Agreed(other)
        /\ pos.id = 0 => pos = NoPosition
    BY OfTheRun DEF FlowsInv, Shape, Beside
  <1>3. /\ run' \in RunType /\ Fits(Aside(other)) /\ Agreed(Aside(other))
        /\ run'.quiet => run'.kind = "none"
    BY <1>1, <1>2, TurnedAside
  <1>4. other' \in RunType /\ Fits(Aside(run)) /\ Agreed(Aside(run))
    BY <1>1, <1>2, TurnedAside
  <1>5. Shape'
    BY <1>1, <1>3 DEF FlowsInv, Shape
  <1>6. Placed'
    BY <1>1, <1>2, <1>3 DEF Placed, Fits
  <1>7. Beside'
    BY <1>1, <1>4 DEF Beside, Fits, Agreed
  <1>8. Spoilt'
    BY <1>1 DEF Spoilt
  <1>9. Dust'
    <2>1. \A i \in DOMAIN late : late[i].kind = "sweep" /\ late[i].id # 0 => acked
      BY DEF FlowsInv, Dust
    <2> QED
      BY <1>1, <1>3, <1>8, <2>1 DEF Dust, Agreed
  <1>10. OnlyDustInTheOpen'
    BY <1>1 DEF FlowsInv, OnlyDustInTheOpen
  <1>11. Tracked'
    BY <1>3 DEF Tracked, Watched, Dialogs
  <1> QED
    BY <1>1, <1>5, <1>6, <1>7, <1>9, <1>10, <1>11 DEF FlowsInv

\* A step of the run at hand leaves the other where it is.
LEMMA Untouched ==
    ASSUME Shape, Placed, Beside, [OneRun]_flow, other' = other, alone' = alone
    PROVE  Beside'
  <1>1. (erred => erred') /\ (acked => acked')
    <2>1. CASE Dialog
      <3>1. acked => acked'
        <4>1. CASE Begins
          BY <4>1 DEF Begins
        <4>2. CASE Sweeps
          BY <4>2 DEF Sweeps
        <4>3. CASE Dismisses
          BY <4>3 DEF Dismisses
        <4>4. CASE Breaks
          BY <4>4 DEF Breaks
        <4> QED
          BY <2>1, <4>1, <4>2, <4>3, <4>4, DialogStep
      <3>2. erred' = erred
        BY <2>1, DialogStep
      <3> QED
        BY <3>1, <3>2
    <2>2. CASE Step
      BY <2>2, Sorted, FlowFrame
    <2>3. CASE Lands
      <3>1. acked' = acked /\ (erred' = erred \/ erred' = TRUE)
        BY <2>3, LandedRun
      <3> QED
        BY <3>1
    <2>4. ASSUME NEW i \in DOMAIN late, LandsLate(i) PROVE erred' = erred /\ acked' = acked
      BY <2>4, LandedLate
    <2>5. CASE Trade
      BY <2>5, Traded
    <2>6. CASE UNCHANGED flow
      BY <2>6 DEF flow
    <2> QED
      BY <2>1, <2>2, <2>3, <2>4, <2>5, <2>6 DEF OneRun
  <1> QED
    BY <1>1 DEF Beside, Fits, Agreed

LEMMA InitHolds == ASSUME Init PROVE FlowsInv
  <1>1. /\ Reserve \in Nat /\ TopUp \in Nat /\ Funded \in Nat /\ Min(Denoms) \in Nat
        /\ NoPosition \in Positions /\ NoRun \in RunType /\ NoRun.kind = "none"
        /\ NoRun.pc = "idle" /\ NoRun.ack = FALSE /\ NoRun.sent = "no"
    BY Sizes, MinDenoms, Blank
  <1>2. /\ native = Reserve + TopUp /\ wsol = 0 /\ tok = 0 /\ main = 0
        /\ pos = [[NoPosition EXCEPT !.id = 1] EXCEPT !.sol = Funded]
        /\ run = NoRun /\ late = <<>> /\ local = [state |-> "open", id |-> 1]
        /\ lost = 0 /\ openly = 0 /\ acked = FALSE /\ erred = FALSE
        /\ trades = 0 /\ runs = 1 /\ other = NoRun /\ alone = TRUE
    BY DEF Init, Opened
  <1>3. pos \in Positions /\ pos.id = 1
    BY <1>1, <1>2 DEF Positions
  <1>4. late \in Seq(Txs) /\ \A i \in DOMAIN late : FALSE
    BY <1>2
  <1>5. local \in [state : {"open", "closed", "removed"}, id : Nat] /\ local.state = "open"
    BY <1>2
  <1>6. /\ native \in Nat /\ wsol \in Nat /\ tok \in Nat /\ main \in Nat /\ lost \in Nat
        /\ openly \in Nat /\ trades \in Nat /\ runs \in Nat \ {0}
        /\ acked \in BOOLEAN /\ erred \in BOOLEAN
    <2>1. native = Reserve + TopUp /\ wsol = 0 /\ tok = 0 /\ main = 0 /\ lost = 0
          /\ openly = 0 /\ trades = 0 /\ runs = 1
      BY <1>2
    <2>2. acked \in BOOLEAN /\ erred \in BOOLEAN
      BY <1>2
    <2>3. Reserve \in Nat /\ TopUp \in Nat
      BY <1>1
    <2> QED
      BY <2>1, <2>2, <2>3
  <1>a. run \in RunType
    BY <1>1, <1>2
  <1>7. Shape
    BY <1>3, <1>4, <1>5, <1>6, <1>a DEF Shape
  <1>8. Placed
    BY <1>1, <1>2, <1>3 DEF Placed
  <1>9. Named /\ Unborn
    BY <1>1, <1>2, <1>3, <1>4 DEF Named, Unborn, Pends, MayOpen, Opens
  <1>10. Closed
    BY <1>1, <1>2, <1>5 DEF Closed, Past
  <1>11. Dust /\ OnlyDustInTheOpen
    BY <1>1, <1>2, <1>4 DEF Dust, OnlyDustInTheOpen
  <1>12. Tracked
    BY <1>1, <1>2 DEF Tracked, Watched, Dialogs
  <1>13. Beside
    BY <1>1, <1>2, <1>8, <1>11, OfTheRun DEF Beside
  <1> QED
    BY <1>7, <1>8, <1>9, <1>10, <1>11, <1>12, <1>13 DEF FlowsInv

\* The invariant of the flows: what a run may have sent where it stands, which
\* names of positions are in use, that what is closed stays empty, that what an
\* exit is about to sweep is small, and how much of the token is still to be sold.
THEOREM FlowsInvariant == Spec => []FlowsInv
  <1>1. Init => FlowsInv
    BY InitHolds
  <1>2. ASSUME FlowsInv, [OneRun]_flow, other' = other, alone' = alone PROVE FlowsInv'
    <2>1. /\ Shape /\ Placed /\ Dust /\ OnlyDustInTheOpen /\ Tracked /\ Beside
          /\ alone \in BOOLEAN /\ (alone => Named /\ Unborn /\ Closed)
      BY <1>2 DEF FlowsInv, Beside
    <2>2. Shape' /\ Placed' /\ Dust' /\ OnlyDustInTheOpen' /\ Tracked' /\ Beside'
      BY <1>2, <2>1, ShapeStep, PlacedStep, DustStep, TrackedStep, Untouched
    <2>3. alone => Named' /\ Unborn' /\ Closed'
      BY <1>2, <2>1, NamedStep, UnbornStep, ClosedStep
    <2> QED
      BY <1>2, <2>2, <2>3 DEF FlowsInv
  <1>3. FlowsInv /\ [Next]_vars => FlowsInv'
    BY <1>2, Switched DEF Next, vars
  <1> QED
    BY <1>1, <1>3, PTL DEF Spec

\* Whatever is late, fails or is repeated, no balance of the wallet falls below
\* zero: what a transaction takes out, Applies has seen there
\* (executor.service.ts builds no transfer that its own read does not cover).
THEOREM FlowsTypes == Spec => []TypeOK
  <1>1. FlowsInv => TypeOK
    <2> SUFFICES ASSUME FlowsInv PROVE TypeOK
      OBVIOUS
    <2>1. Shape
      BY DEF FlowsInv
    <2>2. ASSUME NEW r \in RunType
          PROVE  /\ r.snap \in Positions /\ r.tx \in Txs
                 /\ r.sent \in {"no", "pending", "ok", "failed"}
                 /\ {r.had, r.id, r.denom, r.note} \subseteq Nat
      BY Sizes DEF RunType
    <2>4. run \in RunType /\ other \in RunType
      BY DEF FlowsInv, Shape, Beside
    <2>3. \A i \in DOMAIN late : late[i] \in Txs
      BY <2>1, LateTypes
    <2> QED
      BY <2>1, <2>2, <2>3, <2>4 DEF Shape, TypeOK
  <1> QED
    BY <1>1, FlowsInvariant, PTL

\* A position whose record is marked closed holds no liquidity
\* (localPositions.ts:114), and none comes back, as long as no transaction fails
\* on chain and no other run is under way: the adds and closes that are late do not
\* name it, and an init that is late opens an empty one.
THEOREM ClosedStaysEmpty == Spec => []ClosedHoldsNothing
  <1>1. FlowsInv => ClosedHoldsNothing
    BY DEF FlowsInv, Closed, Gone, ClosedHoldsNothing
  <1> QED
    BY <1>1, FlowsInvariant, PTL

\* An exit sweeps in the open (privateExit.ts:580) with the user's consent, and
\* one run at a time less than a denomination, the reserve and the funding of one
\* position, for any denominations and fees.
THEOREM SweepsAreSmall == Spec => []OnlyDustInTheOpen
  <1>1. FlowsInv => OnlyDustInTheOpen
    BY DEF FlowsInv
  <1> QED
    BY <1>1, FlowsInvariant, PTL

\* A finished run that nothing disturbed has sold the whole of the other token
\* that it took out of the position (privateExit.ts:483).
THEOREM RunsSellAll == Spec => []SoldWhatItClosed
  <1>1. FlowsInv => SoldWhatItClosed
    BY DEF FlowsInv, Tracked, Watched, SoldWhatItClosed
  <1> QED
    BY <1>1, FlowsInvariant, PTL

=============================================================================
