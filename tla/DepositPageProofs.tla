-------------------------- MODULE DepositPageProofs --------------------------
(***************************************************************************)
(* Theorems about the deposit page, for any wallets, bins, ranges and any   *)
(* number of runs.                                                         *)
(*                                                                         *)
(* A run over the default range is not refused because of what RunOK says   *)
(* of each run: which range it asked for, and at which active bin the range *)
(* was widened.  That needs PageOK: until it is dragged, the range on the   *)
(* page is the default one around the bin that is shown.                    *)
(*                                                                         *)
(* The dialog tells the truth because it stays open while it is running     *)
(* (PhaseOK): the page cannot open it anew over a run in flight.            *)
(***************************************************************************)
EXTENDS DepositPage, SequenceTheorems, FiniteSetTheorems, TLAPS

-----------------------------------------------------------------------------
(* Ranges.                                                                 *)

Near(bin, other) == bin - other \in -Tolerance .. Tolerance

LEMMA DefaultRangeType ==
    ASSUME NEW bin \in Int
    PROVE  DefaultRange(bin) \in Ranges
  BY DEF DefaultRange, Ranges

LEMMA UsePoolType ==
    ASSUME NEW r \in Ranges, NEW bin \in Int
    PROVE  UsePool(r, bin) \in Ranges
  BY DEF UsePool, Ranges, WidenedDown, WidenedUp, TwoArrays, ArrayIndex,
         BinsPerArray, MaxWidth, Least, Greatest

\* A default range takes SOL, on either side, at any active bin within Tolerance of
\* the bin in its middle, although it was widened at another such bin
\* (executor.service.ts:278-309, single-sided.ts).
THEOREM DefaultRangeTakesSol ==
    ASSUME NEW shown \in Int, NEW then \in Int, NEW now \in Int, NEW x \in BOOLEAN,
           Near(then, shown), Near(now, shown)
    PROVE  PlanAccepts(UsePool(DefaultRange(shown), then), now, x)
  BY DEF PlanAccepts, DefaultRange, Near, Tolerance, UsePool, WidenedDown, WidenedUp,
         TwoArrays, ArrayIndex, BinsPerArray, MaxWidth, Least, Greatest

\* use-pool gives up at most one bin of any range, at one end of it.
LEMMA UsePoolCovers ==
    ASSUME NEW r \in Ranges, NEW bin \in Int
    PROVE  CoversAllButOne(UsePool(r, bin), r) /\ CoversAllButOne(r, r)
  BY DEF CoversAllButOne, UsePool, Ranges, WidenedDown, WidenedUp, TwoArrays, ArrayIndex,
         BinsPerArray, MaxWidth, Least, Greatest

-----------------------------------------------------------------------------
(* The runs, step by step.                                                 *)

PageOK == ~page.touched => page.range = DefaultRange(ShownBin(page.shown))

RunOK(r) ==
    /\ r.pc = "use-pool" => r.got = r.asked
    /\ CoversAllButOne(r.got, r.asked)
    /\ r.around # NoBin =>
        /\ r.asked = DefaultRange(r.around)
        /\ r.pc = "add-liquidity" =>
              Near(r.given, r.around) /\ r.got = UsePool(r.asked, r.given)
        /\ r.pc # "refused"

PageInv == TypeOK /\ PageOK /\ \A i \in DOMAIN runs : RunOK(runs[i])

LEMMA RunsDomain ==
    ASSUME TypeOK
    PROVE  /\ DOMAIN runs = 1 .. Len(runs) /\ Len(runs) \in Nat
           /\ \A i \in DOMAIN runs : runs[i] \in RunType
  BY LenProperties, ElementOfSeq DEF TypeOK

LEMMA AppendRun ==
    ASSUME TypeOK, NEW r \in RunType
    PROVE  /\ Append(runs, r) \in Seq(RunType)
           /\ DOMAIN Append(runs, r) = 1 .. Len(runs) + 1
           /\ \A i \in 1 .. Len(runs) : Append(runs, r)[i] = runs[i]
           /\ Append(runs, r)[Len(runs) + 1] = r
  BY RunsDomain DEF TypeOK

LEMMA ChangeRun ==
    ASSUME TypeOK, NEW i \in DOMAIN runs, NEW r \in RunType
    PROVE  /\ [runs EXCEPT ![i] = r] \in Seq(RunType)
           /\ DOMAIN [runs EXCEPT ![i] = r] = DOMAIN runs
           /\ \A j \in DOMAIN runs :
                 [runs EXCEPT ![i] = r][j] = IF j = i THEN r ELSE runs[j]
  BY RunsDomain, ExceptSeq DEF TypeOK

LEMMA PageConstants == 0 \in Int /\ NoBin \in Int /\ ActiveBins \subseteq Int
  BY PageAssumption

LEMMA ShownBinType ==
    ASSUME NEW shown \in ActiveBins \cup {NoBin}
    PROVE  ShownBin(shown) \in Int /\ DefaultRange(ShownBin(shown)) \in Ranges
  BY PageConstants, DefaultRangeType DEF ShownBin

\* start: the run is of the page's range, the default one unless it was dragged.
LEMMA RunBegins ==
    ASSUME TypeOK, PageOK
    PROVE  Run \in RunType /\ RunOK(Run)
  <1>1. page.shown \in ActiveBins \cup {NoBin} /\ page.range \in Ranges
        /\ wallet \in Connections /\ dialog.target \in Pools
    BY DEF TypeOK
  <1>2. Run \in RunType
    BY <1>1, PageAssumption DEF Run, RunType, Ended
  <1>3. ASSUME Run.around # NoBin
        PROVE  Run.asked = DefaultRange(Run.around)
    BY <1>1, <1>3 DEF Run, PageOK, ShownBin, Pools
  <1>4. Run.pc = "use-pool" /\ Run.got = Run.asked
    BY DEF Run
  <1> QED
    BY <1>1, <1>2, <1>3, <1>4, UsePoolCovers DEF RunOK, RunType

LEMMA RunWidens ==
    ASSUME TypeOK, NEW r \in RunType, RunOK(r), r.pc = "use-pool"
    PROVE  Widened(r) \in RunType /\ RunOK(Widened(r))
  <1>1. active \in Int /\ r.got \in Ranges /\ r.around \in ActiveBins \cup {NoBin}
    BY PageConstants DEF TypeOK, RunType
  <1>2. UsePool(r.got, active) \in Ranges
    BY <1>1, UsePoolType
  <1>3. Nearby(r.around) \in ActiveBins \cup {NoBin} /\ active \in ActiveBins
    BY <1>1 DEF Nearby, TypeOK
  <1>4. Widened(r) \in RunType
    BY <1>2, <1>3 DEF Widened, RunType
  <1>5. ASSUME Nearby(r.around) # NoBin
        PROVE  Nearby(r.around) = r.around /\ Near(active, r.around) /\ r.around # NoBin
    BY <1>5 DEF Nearby, Near
  <1>6. /\ Widened(r).pc = "add-liquidity" /\ Widened(r).asked = r.asked
        /\ Widened(r).got = UsePool(r.got, active) /\ Widened(r).given = active
        /\ Widened(r).around = Nearby(r.around)
    BY DEF Widened, RunType
  <1>7. r.got = r.asked /\ CoversAllButOne(UsePool(r.got, active), r.asked)
    BY <1>1, UsePoolCovers DEF RunOK
  <1> QED
    BY <1>1, <1>4, <1>5, <1>6, <1>7 DEF RunOK

LEMMA RunFinishes ==
    ASSUME NEW r \in RunType, RunOK(r), NEW how \in Ended,
           NEW around \in ActiveBins \cup {NoBin}
    PROVE  /\ Finished(r, how, around) \in RunType
           /\ ~Finished(r, how, around).mounted
           /\ around = NoBin => RunOK(Finished(r, how, around))
  <1>1. CASE how = "done"
    BY <1>1 DEF Finished, RunType, RunOK, Ended
  <1>2. CASE how # "done"
    <2>1. Nothing \in RunType /\ CoversAllButOne(Nothing.got, Nothing.asked)
      BY PageAssumption, UsePoolCovers DEF Nothing, RunType, Connections, Pools, Ended
    <2>2. Finished(r, how, around) = [Nothing EXCEPT !.pc = how, !.around = around]
      BY <1>2 DEF Finished
    <2> QED
      BY <2>1, <2>2 DEF RunType, RunOK, Ended, Nothing
  <1> QED
    BY <1>1, <1>2

\* A run whose range was widened near its middle is refused nowhere near it.
LEMMA RunAccepted ==
    ASSUME TypeOK, NEW r \in RunType, RunOK(r), r.pc = "add-liquidity",
           NEW solIsX \in BOOLEAN,
           ~PlanAccepts(r.got, r.given, solIsX) \/ ~PlanAccepts(r.got, active, solIsX)
    PROVE  Nearby(r.around) = NoBin
  <1> SUFFICES ASSUME Nearby(r.around) # NoBin PROVE FALSE
    OBVIOUS
  <1>1. /\ active \in Int /\ r.given \in Int /\ r.around \in Int
        /\ r.around # NoBin /\ Near(active, r.around)
    BY PageConstants DEF TypeOK, RunType, Nearby, Near
  <1>2. /\ Near(r.given, r.around) /\ r.got = UsePool(r.asked, r.given)
        /\ r.asked = DefaultRange(r.around)
    BY <1>1 DEF RunOK
  <1>3. /\ PlanAccepts(UsePool(DefaultRange(r.around), r.given), r.given, solIsX)
        /\ PlanAccepts(UsePool(DefaultRange(r.around), r.given), active, solIsX)
    BY <1>1, <1>2, DefaultRangeTakesSol
  <1> QED
    BY <1>2, <1>3

-----------------------------------------------------------------------------
(* The invariant.                                                          *)

Phases == {"preview", "select", "running", "success", "error"}
PageType == [shown : ActiveBins \cup {NoBin}, range : Ranges,
             touched : BOOLEAN]
DialogType == [open : BOOLEAN, phase : Phases, explainer : BOOLEAN, target : Pools,
               boot : BOOLEAN, forced : BOOLEAN]
StoreType == [Wallets -> SUBSET [run : Nat, pool : Pools, range : Ranges]]

AllRunsOK == \A i \in DOMAIN runs : RunOK(runs[i])

LEMMA InitPageInv == Init => PageInv
  <1> SUFFICES ASSUME Init PROVE PageInv
    OBVIOUS
  <1>1. page \in PageType /\ PageOK
    <2>1. DefaultRange(ShownBin(NoBin)) \in Ranges
      BY ShownBinType
    <2> QED
      BY <2>1 DEF Init, FreshPage, PageType, PageOK
  <1>2. dialog \in DialogType
    BY DEF Init, ClosedDialog, DialogType, Phases, Pools
  <1>3. runs \in Seq(RunType) /\ AllRunsOK
    BY DEF Init, AllRunsOK
  <1>4. store \in StoreType
    BY DEF Init, StoreType
  <1>5. /\ active \in ActiveBins
        /\ wallet \in Connections /\ pending \subseteq Wallets /\ seen \subseteq Connections
    BY DEF Init, Connections
  <1> QED
    BY <1>1, <1>2, <1>3, <1>4, <1>5
       DEF PageInv, TypeOK, PageType, DialogType, StoreType, Phases, AllRunsOK

\* The page: whatever changes it resets the range to the default one or marks it.
LEMMA PageStep ==
    ASSUME TypeOK, PageOK, [Next]_vars
    PROVE  page' \in PageType /\ PageOK'
  <1>1. page \in PageType
    BY DEF TypeOK, PageType
  <1>2. DefaultRange(ShownBin(page.shown)) \in Ranges /\ page.shown \in ActiveBins \cup {NoBin}
    BY <1>1, ShownBinType DEF PageType
  <1>3. CASE UNCHANGED page
    BY <1>1, <1>3 DEF PageOK
  <1>4. CASE UsePoolBins
    <2>1. PICK bin \in ActiveBins :
            page' = IF ShownBin(page.shown) = bin
                    THEN [page EXCEPT !.shown = bin]
                    ELSE [page EXCEPT !.shown = bin, !.touched = FALSE,
                                      !.range = DefaultRange(bin)]
      BY <1>4 DEF UsePoolBins
    <2>2. bin # NoBin /\ DefaultRange(bin) \in Ranges
      BY PageAssumption, PageConstants, DefaultRangeType
    <2> QED
      BY <1>1, <2>1, <2>2 DEF PageType, PageOK, ShownBin
  <1>5. CASE SetRange
    BY <1>1, <1>5, PageAssumption DEF SetRange, PageType, PageOK
  <1>6. CASE LeavePage
    BY <1>2, <1>6 DEF LeavePage, FreshPage, PageType, PageOK
  <1> QED
    BY <1>3, <1>4, <1>5, <1>6
       DEF Next, vars, Move, OpenDialog, Connect, Connected, Disconnect, ExplainerContinue,
           ExplainerCancel, Close, DenominationSelect, BootstrapTestPool, Bootstrapped,
           Start, TryAgain, Begin, UsePoolStep, AddLiquidityStep, RunFails

LEMMA DialogStep ==
    ASSUME TypeOK, [Next]_vars
    PROVE  dialog' \in DialogType
  <1>1. dialog \in DialogType
    BY DEF TypeOK, DialogType, Phases
  <1>2. CASE UNCHANGED dialog
    BY <1>1, <1>2
  <1>3. CASE OpenDialog \/ Connect \/ Connected \/ Disconnect
    <2>1. ASSUME NEW w
          PROVE  /\ (w \in Wallets \ seen) \in BOOLEAN
                 /\ (dialog.open /\ w \in Wallets \ seen) \in BOOLEAN
      OBVIOUS
    <2>2. ASSUME NEW b \in BOOLEAN
          PROVE  /\ [dialog EXCEPT !.explainer = b] \in DialogType
                 /\ [dialog EXCEPT !.open = TRUE, !.phase = "preview", !.explainer = b]
                       \in DialogType
      BY <1>1 DEF DialogType, Phases
    <2>3. CASE OpenDialog
      BY <2>1, <2>2, <2>3 DEF OpenDialog
    <2>4. ASSUME NEW w, WalletBecomes(w)
          PROVE  dialog' \in DialogType
      BY <2>1, <2>2, <2>4 DEF WalletBecomes
    <2> QED
      BY <1>1, <1>3, <2>3, <2>4 DEF Connect, Connected, Disconnect
  <1>4. CASE LeavePage
    BY <1>4 DEF LeavePage, ClosedDialog, DialogType, Phases, Pools
  <1>5. CASE ExplainerContinue \/ ExplainerCancel \/ Close
    BY <1>1, <1>5 DEF ExplainerContinue, ExplainerCancel, Close, Shut, DialogType, Phases,
                      Pools
  <1>6. CASE DenominationSelect \/ BootstrapTestPool \/ Bootstrapped
    BY <1>1, <1>6 DEF DenominationSelect, BootstrapTestPool, Bootstrapped, DialogType,
                      Phases, Pools
  <1>7. CASE Start \/ TryAgain
    BY <1>1, <1>7 DEF Start, TryAgain, Begin, DialogType, Phases
  <1>8. ASSUME NEW i \in DOMAIN runs, AddLiquidityStep(i) \/ RunFails(i)
        PROVE  dialog' \in DialogType
    BY <1>1, <1>8 DEF AddLiquidityStep, RunFails, Ends, DialogType, Phases
  <1> QED
    BY <1>2, <1>3, <1>4, <1>5, <1>6, <1>7, <1>8
       DEF Next, vars, Move, UsePoolBins, SetRange, UsePoolStep

\* The runs.
LEMMA RunsStep ==
    ASSUME PageInv, [Next]_vars
    PROVE  runs' \in Seq(RunType) /\ AllRunsOK'
  <1> USE DEF PageInv
  <1>1. CASE UNCHANGED runs
    BY <1>1 DEF TypeOK, AllRunsOK
  <1>2. CASE Begin
    <2>1. runs' = Append(runs, Run) /\ Run \in RunType /\ RunOK(Run)
      BY <1>2, RunBegins DEF Begin
    <2> QED
      BY <2>1, AppendRun, RunsDomain DEF AllRunsOK
  <1>3. CASE LeavePage
    <2>1. \A i \in DOMAIN runs : [runs[i] EXCEPT !.mounted = FALSE] \in RunType
                                 /\ RunOK([runs[i] EXCEPT !.mounted = FALSE])
      BY RunsDomain DEF RunType, RunOK
    <2>2. runs' = [i \in 1 .. Len(runs) |-> [runs[i] EXCEPT !.mounted = FALSE]]
      BY <1>3 DEF LeavePage
    <2> QED
      BY <2>1, <2>2, RunsDomain DEF AllRunsOK
  <1>4. ASSUME NEW i \in DOMAIN runs, NEW r \in RunType, RunOK(r),
               runs' = [runs EXCEPT ![i] = r]
        PROVE  runs' \in Seq(RunType) /\ AllRunsOK'
    BY <1>4, ChangeRun DEF AllRunsOK
  <1>5. ASSUME NEW i \in DOMAIN runs, UsePoolStep(i)
        PROVE  runs' \in Seq(RunType) /\ AllRunsOK'
    <2>1. Widened(runs[i]) \in RunType /\ RunOK(Widened(runs[i]))
      BY <1>5, RunsDomain, RunWidens DEF UsePoolStep
    <2> QED
      BY <1>4, <1>5, <2>1 DEF UsePoolStep
  <1>6. ASSUME NEW i \in DOMAIN runs, NEW how \in Ended, Ends(i, how, NoBin)
        PROVE  runs' \in Seq(RunType) /\ AllRunsOK'
    <2>1. /\ Finished(runs[i], how, NoBin) \in RunType
          /\ RunOK(Finished(runs[i], how, NoBin))
      BY RunsDomain, RunFinishes, PageAssumption DEF AllRunsOK
    <2> QED
      BY <1>4, <1>6, <2>1 DEF Ends
  <1>7. ASSUME NEW i \in DOMAIN runs, AddLiquidityStep(i)
        PROVE  runs' \in Seq(RunType) /\ AllRunsOK'
    <2>1. Ends(i, "done", NoBin) \/ Ends(i, "refused", NoBin)
      <3>1. runs[i] \in RunType /\ RunOK(runs[i]) /\ runs[i].pc = "add-liquidity"
        BY <1>7, RunsDomain DEF AddLiquidityStep
      <3>2. CASE Ends(i, "refused", NoBin) \/ Ends(i, "done", NoBin)
        BY <3>2
      <3>3. ASSUME NEW solIsX \in BOOLEAN, ~Accepts(runs[i], solIsX), ~Slipped(runs[i]),
                   Ends(i, "refused", Nearby(runs[i].around))
            PROVE  Ends(i, "refused", NoBin)
        <4>1. Nearby(runs[i].around) = NoBin
          BY <3>1, <3>3, RunAccepted DEF Accepts
        <4> QED
          BY <3>3, <4>1
      <3> QED
        BY <1>7, <3>2, <3>3 DEF AddLiquidityStep
    <2> QED
      BY <1>6, <2>1 DEF Ended
  <1>8. ASSUME NEW i \in DOMAIN runs, RunFails(i)
        PROVE  runs' \in Seq(RunType) /\ AllRunsOK'
    BY <1>6, <1>8 DEF RunFails, Ended
  <1> QED
    BY <1>1, <1>2, <1>3, <1>5, <1>7, <1>8
       DEF Next, vars, Move, UsePoolBins, SetRange, OpenDialog,
            Connect, Connected, Disconnect, ExplainerContinue, ExplainerCancel, Close,
           DenominationSelect, BootstrapTestPool, Bootstrapped, Start, TryAgain

\* A run that is done stays as it is, and a record is of such a run.
LEMMA DoneStays ==
    ASSUME PageInv, [Next]_vars, NEW i \in DOMAIN runs, runs[i].pc = "done"
    PROVE  /\ i \in DOMAIN runs' /\ runs'[i].pc = "done"
           /\ runs'[i].wallet = runs[i].wallet /\ runs'[i].pool = runs[i].pool
           /\ runs'[i].got = runs[i].got
  <1>1. TypeOK /\ runs[i] \in RunType
    BY RunsDomain DEF PageInv
  <1>2. CASE UNCHANGED runs
    BY <1>2
  <1>3. CASE Begin
    BY <1>1, <1>3, RunBegins, RunsDomain, AppendRun DEF Begin, PageInv
  <1>4. CASE LeavePage
    BY <1>1, <1>4, RunsDomain DEF LeavePage, RunType
  <1>5. ASSUME NEW j \in DOMAIN runs, NEW r, runs[j].pc # "done",
               runs' = [runs EXCEPT ![j] = r]
        PROVE  runs'[i] = runs[i] /\ i \in DOMAIN runs'
    BY <1>1, <1>5, RunsDomain
  <1>6. ASSUME NEW j \in DOMAIN runs, UsePoolStep(j) \/ AddLiquidityStep(j) \/ RunFails(j)
        PROVE  runs'[i] = runs[i] /\ i \in DOMAIN runs'
    BY <1>5, <1>6 DEF UsePoolStep, AddLiquidityStep, RunFails, Ends, Ended
  <1> QED
    BY <1>2, <1>3, <1>4, <1>6
       DEF Next, vars, Move, UsePoolBins, SetRange, OpenDialog,
            Connect, Connected, Disconnect, ExplainerContinue, ExplainerCancel, Close,
           DenominationSelect, BootstrapTestPool, Bootstrapped, Start, TryAgain

RecordsOK ==
    \A w \in Wallets : \A rec \in store[w] : rec.run \in DOMAIN runs

StoreInv == RecordsOK /\ RecordOfItsRun

\* addLocalPosition: the one record that a step adds is that of the run it ends.
LEMMA StoreStep ==
    ASSUME PageInv, StoreInv, [Next]_vars
    PROVE  store' \in StoreType /\ StoreInv'
  <1>1. store \in StoreType /\ TypeOK
    BY DEF PageInv, TypeOK, StoreType
  <1>2. ASSUME UNCHANGED store
        PROVE  store' \in StoreType /\ StoreInv'
    BY <1>1, <1>2, DoneStays DEF StoreInv, RecordsOK, RecordOfItsRun
  <1>3. ASSUME NEW i \in DOMAIN runs, AddLiquidityStep(i), store' # store
        PROVE  store' \in StoreType /\ StoreInv'
    <2> DEFINE r == runs[i]
               rec == [run |-> i, pool |-> Record(i).pool, range |-> Record(i).range]
    <2>1. /\ r \in RunType /\ r.wallet \in Wallets /\ i \in Nat
          /\ store' = [store EXCEPT ![r.wallet] = @ \cup {rec}]
          /\ Ends(i, "done", NoBin)
      BY <1>1, <1>3, RunsDomain DEF AddLiquidityStep, Record
    <2>2. rec = [run |-> i, pool |-> r.pool, range |-> r.asked]
      BY DEF Record
    <2>3. /\ i \in DOMAIN runs' /\ runs'[i].pc = "done" /\ runs'[i].wallet = r.wallet
          /\ runs'[i].pool = r.pool /\ runs'[i].got = r.got
      BY <2>1, <1>1, RunsDomain DEF Ends, Finished, RunType
    <2>4. r.pool \in Pools /\ r.asked \in Ranges /\ CoversAllButOne(r.got, r.asked)
      BY <2>1 DEF RunType, PageInv, RunOK
    <2>5. store' \in StoreType
      <3> HIDE DEF r
      <3> QED
        BY <1>1, <2>1, <2>2, <2>4 DEF StoreType
    <2>6. ASSUME NEW w \in Wallets, NEW old \in store[w]
          PROVE  /\ old.run \in DOMAIN runs' /\ runs'[old.run].pc = "done"
                 /\ runs'[old.run].wallet = w /\ old.pool = runs'[old.run].pool
                 /\ CoversAllButOne(runs'[old.run].got, old.range)
      BY DoneStays DEF StoreInv, RecordsOK, RecordOfItsRun
    <2>7. ASSUME NEW w \in Wallets, NEW new \in store'[w]
          PROVE  new \in store[w] \/ (new = rec /\ w = r.wallet)
      <3> HIDE DEF r, rec
      <3> QED
        BY <1>1, <2>1, <2>7 DEF StoreType
    <2>8. ASSUME NEW w \in Wallets, NEW new \in store'[w]
          PROVE  /\ new.run \in DOMAIN runs' /\ runs'[new.run].pc = "done"
                 /\ runs'[new.run].wallet = w /\ new.pool = runs'[new.run].pool
                 /\ CoversAllButOne(runs'[new.run].got, new.range)
      <3>1. CASE new \in store[w]
        BY <2>6, <3>1
      <3>2. CASE new = rec /\ w = r.wallet
        <4> HIDE DEF r
        <4> QED
          BY <2>2, <2>3, <2>4, <3>2
      <3> QED
        BY <2>7, <2>8, <3>1, <3>2
    <2> QED
      BY <2>5, <2>8 DEF StoreInv, RecordsOK, RecordOfItsRun
  <1> QED
    BY <1>2, <1>3
       DEF Next, vars, Move, UsePoolBins, SetRange, OpenDialog, LeavePage,
            Connect, Connected, Disconnect, ExplainerContinue, ExplainerCancel, Close,
           DenominationSelect, BootstrapTestPool, Bootstrapped, Start, TryAgain, Begin,
           UsePoolStep, RunFails

LEMMA UserStep ==
    ASSUME TypeOK, [Next]_vars
    PROVE  /\ active' \in ActiveBins
           /\ wallet' \in Connections /\ pending' \subseteq Wallets /\ seen' \subseteq Connections
  BY DEF TypeOK, Connections, Next, vars, user, Move, UsePoolBins, SetRange, OpenDialog,
         LeavePage, Connect, Connected, Disconnect, WalletBecomes, ExplainerContinue, ExplainerCancel, Close, DenominationSelect,
         BootstrapTestPool, Bootstrapped, Start, TryAgain, Begin, UsePoolStep,
         AddLiquidityStep, RunFails

LEMMA Inductive ==
    ASSUME PageInv, StoreInv, [Next]_vars
    PROVE  PageInv' /\ StoreInv'
  <1>1. /\ page' \in PageType /\ PageOK' /\ dialog' \in DialogType
        /\ runs' \in Seq(RunType) /\ AllRunsOK'
    BY PageStep, DialogStep, RunsStep DEF PageInv
  <1>2. store' \in StoreType /\ StoreInv'
    BY StoreStep
  <1>3. TypeOK'
    BY <1>1, <1>2, UserStep DEF PageInv, TypeOK, PageType, DialogType, StoreType, Phases
  <1> QED
    BY <1>1, <1>2, <1>3 DEF PageInv, AllRunsOK

LEMMA InitStoreInv == Init => StoreInv
  BY DEF Init, StoreInv, RecordsOK, RecordOfItsRun

LEMMA Invariance == Spec => [](PageInv /\ StoreInv)
  <1>1. Init => PageInv /\ StoreInv
    BY InitPageInv, InitStoreInv
  <1>2. PageInv /\ StoreInv /\ [Next]_vars => (PageInv /\ StoreInv)'
    BY Inductive
  <1> QED
    BY <1>1, <1>2, PTL DEF Spec

-----------------------------------------------------------------------------
(* The dialog and the run that was started from it.                        *)

Flying == {i \in DOMAIN runs : runs[i].mounted /\ runs[i].pc \notin Ended}

PhaseOK ==
    ~dialog.forced =>
        /\ dialog.phase # "running" => Flying = {}
        /\ dialog.phase = "running" => dialog.open /\ \E i \in DOMAIN runs : Flying = {i}

\* What one changed run does to those in flight.
LEMMA FlyingAfter ==
    ASSUME TypeOK, NEW i \in DOMAIN runs, NEW r \in RunType, runs' = [runs EXCEPT ![i] = r]
    PROVE  /\ DOMAIN runs' = DOMAIN runs
           /\ r.mounted = runs[i].mounted /\ r.pc \notin Ended /\ runs[i].pc \notin Ended
                 => Flying' = Flying
           /\ ~r.mounted => Flying' = Flying \ {i}
  <1>1. /\ DOMAIN runs' = DOMAIN runs
        /\ \A j \in DOMAIN runs : runs'[j] = IF j = i THEN r ELSE runs[j]
    BY ChangeRun
  <1>2. \A j : j \in Flying' <=> j \in DOMAIN runs /\ (IF j = i THEN r ELSE runs[j]).mounted
                                 /\ (IF j = i THEN r ELSE runs[j]).pc \notin Ended
    BY <1>1 DEF Flying
  <1>3. \A j : j \in Flying <=> j \in DOMAIN runs /\ runs[j].mounted /\ runs[j].pc \notin Ended
    BY DEF Flying
  <1> QED
    BY <1>1, <1>2, <1>3

\* Nothing but its own run takes the dialog out of running, and nothing brings it
\* there but a start; the cancel of the explainer is the exception that is forced.
LEMMA PhaseStep ==
    ASSUME PageInv, PhaseOK, [Next]_vars
    PROVE  PhaseOK'
  <1>1. dialog \in DialogType /\ TypeOK
    BY DEF PageInv, TypeOK, DialogType, Phases
  <1>2. ASSUME UNCHANGED runs, dialog'.forced = dialog.forced, dialog'.open = dialog.open,
               dialog'.phase = dialog.phase \/ (dialog.phase # "running" /\ dialog'.phase # "running")
        PROVE  PhaseOK'
    BY <1>2 DEF PhaseOK, Flying
  <1>3. CASE UNCHANGED <<runs, dialog>>
    BY <1>2, <1>3
  <1>4. CASE OpenDialog
    <2>1. /\ runs' = runs /\ ~dialog.open
          /\ dialog'.forced = dialog.forced /\ dialog'.phase = "preview"
      BY <1>1, <1>4 DEF OpenDialog, OnPage, DialogType
    <2> QED
      BY <2>1 DEF PhaseOK, Flying
  <1>5. CASE Connect \/ Connected \/ Disconnect
    <2>1. ASSUME NEW w, WalletBecomes(w)
          PROVE  dialog'.forced = dialog.forced /\ dialog'.open = dialog.open
                 /\ dialog'.phase = dialog.phase
      BY <1>1, <2>1 DEF WalletBecomes, DialogType
    <2> QED
      BY <1>2, <1>5, <2>1 DEF Connect, Connected, Disconnect
  <1>6. CASE LeavePage
    <2>1. dialog'.phase = "preview"
      BY <1>6 DEF LeavePage, ClosedDialog
    <2>2. \A i \in DOMAIN runs' : ~runs'[i].mounted
      <3>1. runs' = [i \in 1 .. Len(runs) |-> [runs[i] EXCEPT !.mounted = FALSE]]
        BY <1>6 DEF LeavePage
      <3> QED
        BY <1>1, <3>1, RunsDomain DEF RunType
    <2> QED
      BY <2>1, <2>2 DEF PhaseOK, Flying
  <1>7. CASE ExplainerContinue \/ DenominationSelect \/ BootstrapTestPool \/ Bootstrapped
    BY <1>1, <1>2, <1>7 DEF ExplainerContinue, DenominationSelect, BootstrapTestPool,
       Bootstrapped, DialogType
  <1>8. CASE ExplainerCancel
    <2>1. runs' = runs /\ dialog' = [Shut EXCEPT !.forced = @ \/ dialog.phase = "running"]
      BY <1>8 DEF ExplainerCancel
    <2>2. CASE dialog.phase = "running"
      <3>1. dialog'.forced
        BY <1>1, <2>1, <2>2 DEF Shut, DialogType
      <3> QED
        BY <3>1 DEF PhaseOK
    <2>3. CASE dialog.phase # "running"
      <3>1. (dialog'.forced <=> dialog.forced) /\ dialog'.phase = "preview"
        BY <1>1, <2>1, <2>3 DEF Shut, DialogType
      <3> QED
        BY <2>1, <2>3, <3>1 DEF PhaseOK, Flying
    <2> QED
      BY <2>2, <2>3
  <1>9. CASE Close
    <2>1. /\ runs' = runs /\ dialog.phase # "running"
          /\ dialog'.forced = dialog.forced /\ dialog'.phase = "preview"
      BY <1>1, <1>9 DEF Close, Shut, Dismissible, DialogType
    <2> QED
      BY <2>1 DEF PhaseOK, Flying
  <1>10. CASE Start \/ TryAgain
    <2>1. /\ runs' = Append(runs, Run) /\ dialog' = [dialog EXCEPT !.phase = "running"]
          /\ dialog.open /\ dialog.phase # "running"
      BY <1>10 DEF Start, TryAgain, Begin, Ready, InDialog
    <2>2. Run \in RunType /\ Run.mounted /\ Run.pc \notin Ended
      BY <1>1, RunBegins DEF PageInv, Run, Ended
    <2> DEFINE n == Len(runs) + 1
    <2>3. /\ DOMAIN runs' = DOMAIN runs \cup {n} /\ n \notin DOMAIN runs
          /\ \A i \in DOMAIN runs : runs'[i] = runs[i]
          /\ runs'[n] = Run
      BY <1>1, <2>1, <2>2, AppendRun, RunsDomain
    <2>4. dialog'.phase = "running" /\ dialog'.open /\ dialog'.forced = dialog.forced
      BY <1>1, <2>1 DEF DialogType
    <2> HIDE DEF n
    <2>5. ~dialog.forced => Flying' = {n}
      BY <2>1, <2>2, <2>3 DEF PhaseOK, Flying
    <2> QED
      BY <2>3, <2>4, <2>5 DEF PhaseOK
  <1>11. ASSUME NEW i \in DOMAIN runs, UsePoolStep(i)
         PROVE  PhaseOK'
    <2>1. /\ runs' = [runs EXCEPT ![i] = Widened(runs[i])] /\ dialog' = dialog
          /\ runs[i].pc = "use-pool" /\ runs[i] \in RunType
      BY <1>1, <1>11, RunsDomain DEF UsePoolStep
    <2>2. /\ Widened(runs[i]) \in RunType /\ Widened(runs[i]).mounted = runs[i].mounted
          /\ Widened(runs[i]).pc = "add-liquidity"
      <3>1. Widened(runs[i]) \in RunType
        BY <1>1, <2>1, RunWidens DEF PageInv
      <3> QED
        BY <2>1, <3>1 DEF Widened, RunType
    <2>3. Flying' = Flying /\ DOMAIN runs' = DOMAIN runs
      BY <1>1, <2>1, <2>2, FlyingAfter DEF Ended
    <2> QED
      BY <2>1, <2>3 DEF PhaseOK
  <1>12. ASSUME NEW i \in DOMAIN runs, runs[i].pc \notin Ended, NEW how \in Ended,
                NEW around \in ActiveBins \cup {NoBin}, Ends(i, how, around)
         PROVE  PhaseOK'
    <2> DEFINE r == Finished(runs[i], how, around)
    <2>1. r \in RunType /\ ~r.mounted
      <3>1. runs[i] \in RunType /\ RunOK(runs[i])
        BY <1>1, RunsDomain DEF PageInv
      <3> QED
        BY <3>1, RunFinishes
    <2>2. runs' = [runs EXCEPT ![i] = r]
      BY <1>12 DEF Ends
    <2> HIDE DEF r
    <2>3. Flying' = Flying \ {i} /\ DOMAIN runs' = DOMAIN runs
      BY <1>1, <2>1, <2>2, FlyingAfter
    <2>4. CASE runs[i].mounted
      <3>1. i \in Flying
        BY <1>12, <2>4 DEF Flying
      <3>2. dialog'.forced = dialog.forced /\ dialog'.phase # "running"
        BY <1>1, <1>12, <2>4 DEF Ends, DialogType
      <3> QED
        BY <2>3, <3>1, <3>2 DEF PhaseOK
    <2>5. CASE ~runs[i].mounted
      <3>1. i \notin Flying /\ dialog' = dialog
        BY <1>12, <2>5 DEF Flying, Ends
      <3>2. Flying' = Flying
        BY <2>3, <3>1
      <3> QED
        BY <2>3, <3>1, <3>2 DEF PhaseOK
    <2> QED
      BY <2>4, <2>5
  <1>13. ASSUME NEW i \in DOMAIN runs, AddLiquidityStep(i)
         PROVE  PhaseOK'
    <2>1. \/ Ends(i, "done", NoBin) \/ Ends(i, "refused", NoBin)
          \/ Ends(i, "refused", Nearby(runs[i].around))
      BY <1>13 DEF AddLiquidityStep
    <2>2. Nearby(runs[i].around) \in ActiveBins \cup {NoBin}
      BY <1>1, RunsDomain DEF RunType, Nearby
    <2>3. runs[i].pc \notin Ended
      BY <1>13 DEF AddLiquidityStep, Ended
    <2> QED
      BY <1>12, <2>1, <2>2, <2>3 DEF Ended
  <1>14. ASSUME NEW i \in DOMAIN runs, RunFails(i)
         PROVE  PhaseOK'
    BY <1>12, <1>14 DEF RunFails, Ended
  <1> QED
    BY <1>3, <1>4, <1>5, <1>6, <1>7, <1>8, <1>9, <1>10, <1>11, <1>13, <1>14
       DEF Next, vars, Move, UsePoolBins, SetRange

LEMMA PhaseInvariance == Spec => []PhaseOK
  <1>1. Init => PhaseOK
    BY DEF Init, ClosedDialog, PhaseOK, Flying
  <1>2. PageInv /\ PhaseOK /\ [Next]_vars => PhaseOK'
    BY PhaseStep
  <1> QED
    BY <1>1, <1>2, Invariance, PTL DEF Spec

-----------------------------------------------------------------------------
\* Every component's state and every run keep their types, whatever is dragged,
\* fetched or connected meanwhile.
THEOREM TypeCorrect == Spec => []TypeOK
  BY Invariance, PTL DEF PageInv

\* The last step of a deposit over a default range is not refused, for every pair of
\* active bins within Tolerance of the one shown and Slippage of one another, and however many runs there are.
THEOREM Accepted == Spec => []DefaultRangeAccepted
  <1>1. PageInv => DefaultRangeAccepted
    BY DEF PageInv, RunOK, DefaultRangeAccepted
  <1> QED
    BY <1>1, Invariance, PTL

\* What addLocalPosition writes is under the wallet that paid, of a run that is done on
\* that pool, and the position which use-pool gave that run covers the recorded range
\* but for one bin at most, at one end; whatever became of the page and the connection,
\* and for any range and active bin.
THEOREM Recorded == Spec => []RecordOfItsRun
  BY Invariance, PTL DEF StoreInv

\* The dialog says running exactly while the one run started from it is in flight
\* (PrivateDepositModal.tsx:455), for any number of runs, wallets and visits, unless
\* the explainer of a wallet connected meanwhile closed it.
THEOREM PhaseIsTrue == Spec => []PhaseTrue
  <1>1. PhaseOK => PhaseTrue
    BY FS_EmptySet, FS_Singleton DEF PhaseOK, PhaseTrue, Flying
  <1> QED
    BY <1>1, PhaseInvariance, PTL
=============================================================================
