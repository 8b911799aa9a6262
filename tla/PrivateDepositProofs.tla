------------------------ MODULE PrivateDepositProofs ------------------------
(***************************************************************************)
(* Theorems about the private deposit of the browser, for any number of     *)
(* runs, any places at which they break off and any restarts of the API.    *)
(***************************************************************************)
EXTENDS PrivateDeposit, FiniteSetTheorems, SequenceTheorems, TLAPS

EntryType == [commitment : Runs, leafIndex : Nat]

Shape ==
    /\ pc \in [Runs -> Steps \cup Ended \cup {"idle"}]
    /\ leafIndex \in [Runs -> Nat]
    /\ tree \in [Runs -> Seq(Runs)]
    /\ tx \in [Runs -> {"none", "sent", "landed", "erred", "expired"}]
    /\ history \in Seq(Runs)
    /\ deposits \in Seq(EntryType)
    /\ armed \subseteq Seq(Runs)
    /\ funded \cup opened \cup added \cup stored \subseteq Runs
    /\ restarts \in 0 .. MaxRestarts

\* A deposit is sent once and lands once; the cache holds it once.
Once ==
    /\ \A r \in Runs : pc[r] \in {"idle", "status", "submit"} => tx[r] = "none"
    /\ \A i \in DOMAIN history : tx[history[i]] = "landed"
    /\ \A i, j \in DOMAIN history : i # j => history[i] # history[j]
    /\ \A i, j \in DOMAIN deposits :
           i # j => deposits[i].commitment # deposits[j].commitment

\* An index that a run read is not ahead of its own deposit: landed deposits are
\* behind it, and what is served of the run is between the two.
ReadBefore(index, landed) == \A k \in DOMAIN landed : index[landed[k]] < k

EntryPlaced(e, where, index, landed) ==
    /\ where[e.commitment] \notin {"idle", "status"}
    /\ index[e.commitment] <= e.leafIndex /\ e.leafIndex <= Len(landed)
    /\ \A k \in DOMAIN landed : landed[k] = e.commitment => e.leafIndex < k

Placed ==
    /\ \A r \in Runs : leafIndex[r] <= Len(history)
    /\ ReadBefore(leafIndex, history)
    /\ \A i \in DOMAIN deposits : EntryPlaced(deposits[i], pc, leafIndex, history)

\* What a run has to have done before it stands where it does.
Paid ==
    /\ \A r \in Runs :
           /\ pc[r] = "withdraw" => r \in Range(tree[r])
           /\ pc[r] \in {"init", "add", "store"} => r \in funded
           /\ pc[r] = "store" => r \in opened
    /\ opened \subseteq funded
    /\ StoredIsOpen

-----------------------------------------------------------------------------
(* Sequences and their orders.                                             *)

LEMMA History ==
    ASSUME Shape
    PROVE  /\ Len(history) \in Nat /\ DOMAIN history = 1 .. Len(history)
           /\ \A i \in DOMAIN history : history[i] \in Runs
           /\ Len(deposits) \in Nat /\ DOMAIN deposits = 1 .. Len(deposits)
           /\ \A i \in DOMAIN deposits : deposits[i] \in EntryType
  BY LenProperties, ElementOfSeq DEF Shape

LEMMA Appended ==
    ASSUME NEW S, NEW s \in Seq(S), NEW x \in S
    PROVE  LET t == Append(s, x) IN
           /\ t \in Seq(S) /\ Len(t) = Len(s) + 1 /\ DOMAIN t = 1 .. Len(s) + 1
           /\ \A i \in 1 .. Len(s) : t[i] = s[i]
           /\ t[Len(s) + 1] = x
  <1>1. Len(s) \in Nat
    BY LenProperties
  <1> QED
    BY <1>1, LenProperties

LEMMA FunctionIsSeq ==
    ASSUME NEW S, NEW n \in Nat, NEW f \in [1 .. n -> S]
    PROVE  f \in Seq(S) /\ Len(f) = n
  <1>1. f \in Seq(S)
    BY SeqDef
  <1>2. 1 .. Len(f) = 1 .. n /\ Len(f) \in Nat
    BY <1>1, LenProperties
  <1> QED
    BY <1>1, <1>2

\* A subset of the positions of a sequence has a natural number of elements.
LEMMA PositionsCounted ==
    ASSUME NEW n \in Nat, NEW S \in SUBSET (1 .. n)
    PROVE  Cardinality(S) \in Nat
  <1>1. IsFiniteSet(1 .. n)
    BY FS_Interval
  <1> QED
    BY <1>1, FS_Subset, FS_CardinalityType

\* What hydration leaves in the cache: entries of the chain, none of them twice.
LEMMA HydratedTrue ==
    ASSUME Shape, NEW found \in SUBSET DOMAIN history, NEW order \in ByTime(found)
    PROVE  LET d == Hydrated(order) IN
           /\ d \in Seq(EntryType)
           /\ \A k \in DOMAIN d : /\ order[k] \in DOMAIN history
                                  /\ d[k].leafIndex = order[k] - 1
                                  /\ d[k].commitment = history[order[k]]
           /\ \A j, k \in DOMAIN d : j # k => order[j] # order[k]
  <1> DEFINE n == Cardinality(found)
             d == Hydrated(order)
  <1>1. n \in Nat
    BY History, PositionsCounted
  <1>2. /\ order \in [1 .. n -> found] /\ DOMAIN order = 1 .. n
        /\ \A i, j \in 1 .. n : i < j => order[i] < order[j]
    BY DEF ByTime, Orders
  <1> HIDE DEF n
  <1>3. ASSUME NEW k \in 1 .. n
        PROVE  /\ order[k] \in DOMAIN history /\ order[k] - 1 \in Nat
               /\ history[order[k]] \in Runs
    <2>1. order[k] \in DOMAIN history
      BY <1>2
    <2>2. DOMAIN history = 1 .. Len(history) /\ Len(history) \in Nat
      BY History
    <2>3. order[k] \in Nat /\ order[k] >= 1
      BY <2>1, <2>2
    <2> QED
      BY <2>1, <2>3, History
  <1>4. d \in [1 .. n -> EntryType]
    BY <1>2, <1>3 DEF Hydrated, EntryType
  <1>5. d \in Seq(EntryType) /\ DOMAIN d = 1 .. n
    BY <1>1, <1>4, FunctionIsSeq
  <1>6. \A k \in 1 .. n : /\ d[k].leafIndex = order[k] - 1
                          /\ d[k].commitment = history[order[k]]
    BY <1>2 DEF Hydrated
  <1>7. \A j, k \in 1 .. n : j # k => order[j] # order[k]
    <2>1. \A k \in 1 .. n : order[k] \in Int
      BY <1>3, History
    <2>2. \A j, k \in 1 .. n : j < k => order[j] # order[k]
      BY <1>2, <2>1
    <2>3. \A j, k \in 1 .. n : j # k => j < k \/ k < j
      BY <1>1
    <2> QED
      BY <2>2, <2>3
  <1> HIDE DEF d
  <1> QED
    BY <1>3, <1>5, <1>6, <1>7 DEF d

\* A tree is rebuilt from runs.
LEMMA ListedType ==
    ASSUME Shape, NEW order \in ByLeafIndex
    PROVE  ListDeposits(order) \in Seq(Runs)
  <1> DEFINE n == Cardinality(DOMAIN deposits)
  <1>1. n \in Nat
    BY History, PositionsCounted
  <1>2. order \in [1 .. n -> DOMAIN deposits] /\ DOMAIN order = 1 .. n
    BY DEF ByLeafIndex, Orders
  <1> HIDE DEF n
  <1>3. \A i \in 1 .. n : deposits[order[i]].commitment \in Runs
    BY <1>2, History DEF EntryType
  <1>4. ListDeposits(order) \in [1 .. n -> Runs]
    BY <1>2, <1>3 DEF ListDeposits
  <1> QED
    BY <1>1, <1>4, FunctionIsSeq

-----------------------------------------------------------------------------
(* One step.                                                               *)

\* The chain gets a deposit at its end or nothing.
HistoryMoves ==
    \/ history' = history
    \/ \E r \in Runs : /\ tx[r] = "sent" /\ tx' = [tx EXCEPT ![r] = "landed"]
                       /\ history' = Append(history, r)
                       /\ pc' = pc /\ leafIndex' = leafIndex /\ deposits' = deposits

\* So does the cache, or it is filled from the chain.
DepositsMove ==
    \/ deposits' = deposits
    \/ \E r \in Runs : /\ pc[r] = "record" /\ pc' = [pc EXCEPT ![r] = "list"]
                       /\ r \notin Recorded
                       /\ deposits' = Append(deposits, [commitment |-> r, leafIndex |-> leafIndex[r]])
    \/ \E found \in SUBSET DOMAIN history : \E order \in ByTime(found) :
           deposits' = Hydrated(order)

LEMMA ChainStep ==
    ASSUME Shape, [Next]_vars
    PROVE  HistoryMoves /\ DepositsMove
  <1>1. ASSUME NEW r \in Runs, Execute(r) PROVE HistoryMoves
    <2>1. PICK outcome \in Outcomes :
             /\ tx[r] = "sent" /\ tx' = [tx EXCEPT ![r] = outcome]
             /\ history' = IF outcome = "landed" THEN Append(history, r) ELSE history
      BY <1>1 DEF Execute
    <2> QED
      BY <1>1, <2>1 DEF Execute, HistoryMoves
  <1>2. ASSUME NEW r \in Runs, ConfirmDeposit(r) PROVE DepositsMove
    BY <1>2 DEF ConfirmDeposit, RecordDeposit, DepositsMove, At, Goto
  <1>3. CASE Restart
    BY <1>3 DEF Restart, DepositsMove, HistoryMoves, chain
  <1>4. ASSUME NEW r \in Runs,
               \/ Start(r) \/ ReadStatus(r) \/ Submit(r) \/ WaitForConfirmation(r)
               \/ BuildTree(r) \/ RelayerWithdraw(r) \/ InitPosition(r) \/ AddLiquidity(r)
               \/ Store(r) \/ Fails(r)
        PROVE  history' = history /\ deposits' = deposits
    BY <1>4 DEF Start, ReadStatus, Submit, WaitForConfirmation, BuildTree, RelayerWithdraw,
       InitPosition, AddLiquidity, Store, Fails, chain
  <1>5. ASSUME NEW r \in Runs, Execute(r) PROVE deposits' = deposits
    BY <1>5 DEF Execute
  <1>6. ASSUME NEW r \in Runs, ConfirmDeposit(r) PROVE history' = history
    BY <1>6 DEF ConfirmDeposit, chain
  <1>7. CASE UNCHANGED vars
    BY <1>7 DEF vars, chain, HistoryMoves, DepositsMove
  <1> QED
    BY <1>1, <1>2, <1>3, <1>4, <1>5, <1>6, <1>7 DEF Next, Step, HistoryMoves, DepositsMove

LEMMA ShapeStep ==
    ASSUME Shape, [Next]_vars
    PROVE  Shape'
  <1> USE FlowAssumption
  <1>0. /\ Len(history) \in Nat
        /\ \A r \in Runs : Append(history, r) \in Seq(Runs)
    BY History, Appended DEF Shape
  <1>1. history' \in Seq(Runs)
    <2>1. HistoryMoves
      BY ChainStep
    <2> QED
      BY <1>0, <2>1 DEF HistoryMoves, Shape
  <1>2. deposits' \in Seq(EntryType)
    <2>1. DepositsMove
      BY ChainStep
    <2>2. ASSUME NEW r \in Runs,
                 deposits' = Append(deposits, [commitment |-> r, leafIndex |-> leafIndex[r]])
          PROVE  deposits' \in Seq(EntryType)
      <3>1. [commitment |-> r, leafIndex |-> leafIndex[r]] \in EntryType
        BY DEF EntryType, Shape
      <3> QED
        BY <2>2, <3>1, Appended DEF Shape
    <2>3. ASSUME NEW found \in SUBSET DOMAIN history, NEW order \in ByTime(found),
                 deposits' = Hydrated(order)
          PROVE  deposits' \in Seq(EntryType)
      BY <2>3, HydratedTrue
    <2>4. CASE deposits' = deposits
      BY <2>4 DEF Shape
    <2> QED
      BY <2>1, <2>2, <2>3, <2>4 DEF DepositsMove
  <1>3. tree' \in [Runs -> Seq(Runs)]
    <2>1. ASSUME NEW r \in Runs, BuildTree(r) PROVE tree' \in [Runs -> Seq(Runs)]
      <3>1. PICK order \in ByLeafIndex : tree' = [tree EXCEPT ![r] = ListDeposits(order)]
        BY <2>1 DEF BuildTree
      <3>2. ListDeposits(order) \in Seq(Runs)
        BY ListedType
      <3> QED
        BY <3>1, <3>2 DEF Shape
    <2>2. CASE UNCHANGED tree
      BY <2>2 DEF Shape
    <2> QED
      BY <2>1, <2>2 DEF Next, Step, Start, ReadStatus, Submit, Execute, WaitForConfirmation,
         ConfirmDeposit, RelayerWithdraw, InitPosition, AddLiquidity, Store, Fails, Restart, vars
  <1>4. pc' \in [Runs -> Steps \cup Ended \cup {"idle"}]
    <2>1. ASSUME NEW r \in Runs, NEW s \in Steps \cup Ended, Goto(r, s)
          PROVE  pc' \in [Runs -> Steps \cup Ended \cup {"idle"}]
      BY <2>1 DEF Goto, Shape
    <2>2. {"status", "submit", "confirm", "record", "list", "withdraw", "init", "add", "store",
           "done", "refused", "abandoned"} \subseteq Steps \cup Ended
      BY DEF Steps, Ended
    <2>3. ASSUME NEW r \in Runs, Start(r) \/ Step(r) \/ Fails(r)
          PROVE  \E s \in Steps \cup Ended : Goto(r, s)
      BY <2>2, <2>3 DEF Step, Start, ReadStatus, Submit, WaitForConfirmation, ConfirmDeposit,
         BuildTree, RelayerWithdraw, InitPosition, AddLiquidity, Store, Fails
    <2>4. CASE UNCHANGED pc
      BY <2>4 DEF Shape
    <2> QED
      BY <2>1, <2>3, <2>4 DEF Next, Execute, Restart, vars
  <1>5. leafIndex' \in [Runs -> Nat]
    <2>1. ASSUME NEW r \in Runs, ReadStatus(r) PROVE leafIndex' \in [Runs -> Nat]
      BY <1>0, <2>1 DEF ReadStatus, Shape
    <2>2. CASE UNCHANGED leafIndex
      BY <2>2 DEF Shape
    <2> QED
      BY <2>1, <2>2 DEF Next, Step, Start, BuildTree, Submit, Execute, WaitForConfirmation,
         ConfirmDeposit, RelayerWithdraw, InitPosition, AddLiquidity, Store, Fails, Restart, vars
  <1>6. tx' \in [Runs -> {"none", "sent", "landed", "erred", "expired"}]
    <2>1. ASSUME NEW r \in Runs, Submit(r) \/ Execute(r)
          PROVE  tx' \in [Runs -> {"none", "sent", "landed", "erred", "expired"}]
      BY <2>1 DEF Submit, Execute, Shape
    <2>2. CASE UNCHANGED tx
      BY <2>2 DEF Shape
    <2> QED
      BY <2>1, <2>2 DEF Next, Step, Start, ReadStatus, BuildTree, WaitForConfirmation,
         ConfirmDeposit, RelayerWithdraw, InitPosition, AddLiquidity, Store, Fails, Restart,
         vars, chain
  <1>7. armed' \subseteq Seq(Runs)
    <2>1. ASSUME NEW r \in Runs, RelayerWithdraw(r) PROVE armed' \subseteq Seq(Runs)
      BY <2>1 DEF RelayerWithdraw, Shape
    <2>2. CASE UNCHANGED armed
      BY <2>2 DEF Shape
    <2> QED
      BY <2>1, <2>2 DEF Next, Step, Start, ReadStatus, Submit, Execute, WaitForConfirmation,
         BuildTree, ConfirmDeposit, InitPosition, AddLiquidity, Store, Fails, Restart, vars
  <1>8. funded' \cup opened' \cup added' \cup stored' \subseteq Runs
    <2>1. ASSUME NEW r \in Runs, RelayerWithdraw(r) \/ InitPosition(r) \/ AddLiquidity(r) \/ Store(r)
          PROVE  funded' \cup opened' \cup added' \cup stored' \subseteq Runs
      BY <2>1 DEF RelayerWithdraw, InitPosition, AddLiquidity, Store, stealth, Shape
    <2>2. CASE UNCHANGED <<stealth, stored>>
      BY <2>2 DEF stealth, Shape
    <2> QED
      BY <2>1, <2>2 DEF Next, Step, Start, ReadStatus, Submit, Execute, WaitForConfirmation,
         BuildTree, ConfirmDeposit, Fails, Restart, vars
  <1>9. restarts' \in 0 .. MaxRestarts
    <2>1. CASE Restart
      BY <2>1 DEF Restart, Shape
    <2>2. CASE UNCHANGED restarts
      BY <2>2 DEF Shape
    <2> QED
      BY <2>1, <2>2 DEF Next, Step, Start, ReadStatus, Submit, Execute, WaitForConfirmation,
         BuildTree, ConfirmDeposit, RelayerWithdraw, InitPosition, AddLiquidity, Store, Fails, vars
  <1> QED
    BY <1>1, <1>2, <1>3, <1>4, <1>5, <1>6, <1>7, <1>8, <1>9 DEF Shape

LEMMA OnceStep ==
    ASSUME Shape, Once, [Next]_vars
    PROVE  Once'
  <1>0. HistoryMoves /\ DepositsMove
    BY ChainStep
  <1>1. \A r \in Runs : pc'[r] \in {"idle", "status", "submit"} => tx'[r] = "none"
    <2> SUFFICES ASSUME NEW r \in Runs, pc'[r] \in {"idle", "status", "submit"}
                 PROVE  tx'[r] = "none"
      OBVIOUS
    <2>1. ASSUME NEW s \in Runs, Start(s) \/ ReadStatus(s) PROVE tx'[r] = "none"
      BY <2>1 DEF Once, Shape, Start, ReadStatus, Goto, At, chain
    <2>2. ASSUME NEW s \in Runs, Submit(s) PROVE tx'[r] = "none"
      BY <2>2 DEF Once, Shape, Submit, Goto, At
    <2>3. ASSUME NEW s \in Runs, Execute(s) PROVE tx'[r] = "none"
      BY <2>3 DEF Once, Shape, Execute
    <2>4. ASSUME NEW s \in Runs, NEW step \in Steps \cup Ended, Goto(s, step),
                 step \notin {"idle", "status", "submit"}, tx' = tx
          PROVE  tx'[r] = "none"
      BY <2>4 DEF Once, Shape, Goto
    <2>5. {"record", "list", "withdraw", "init", "add", "store", "done", "refused", "abandoned"}
              \subseteq Steps \cup Ended
      BY DEF Steps, Ended
    <2>6. ASSUME NEW s \in Runs,
                 \/ WaitForConfirmation(s) \/ ConfirmDeposit(s) \/ BuildTree(s)
                 \/ RelayerWithdraw(s) \/ InitPosition(s) \/ AddLiquidity(s) \/ Store(s)
                 \/ Fails(s)
          PROVE  /\ tx' = tx
                 /\ \E step \in {"record", "list", "withdraw", "init", "add", "store", "done",
                                 "refused", "abandoned"} : Goto(s, step)
      BY <2>6 DEF WaitForConfirmation, ConfirmDeposit, BuildTree, RelayerWithdraw,
         InitPosition, AddLiquidity, Store, Fails, chain
    <2>7. CASE UNCHANGED <<pc, tx>>
      BY <2>7 DEF Once
    <2>8. ASSUME NEW s \in Runs,
                 \/ WaitForConfirmation(s) \/ ConfirmDeposit(s) \/ BuildTree(s)
                 \/ RelayerWithdraw(s) \/ InitPosition(s) \/ AddLiquidity(s) \/ Store(s)
                 \/ Fails(s)
          PROVE  tx'[r] = "none"
      BY <2>4, <2>5, <2>6, <2>8
    <2> QED
      BY <2>1, <2>2, <2>3, <2>7, <2>8 DEF Next, Step, Restart, vars, chain
  <1>2. \A r \in Runs : tx[r] = "landed" => tx'[r] = "landed"
    <2>1. ASSUME NEW s \in Runs, Submit(s) \/ Execute(s)
          PROVE  \A r \in Runs : tx[r] = "landed" => tx'[r] = "landed"
      BY <2>1 DEF Once, Shape, Submit, Execute, At
    <2> QED
      BY <2>1 DEF Next, Step, Start, ReadStatus, BuildTree, WaitForConfirmation,
         ConfirmDeposit, RelayerWithdraw, InitPosition, AddLiquidity, Store, Fails, Restart,
         vars, chain
  <1>3. /\ \A i \in DOMAIN history' : tx'[history'[i]] = "landed"
        /\ \A i, j \in DOMAIN history' : i # j => history'[i] # history'[j]
    <2>1. CASE history' = history
      BY <1>2, <2>1, History DEF Once
    <2>2. ASSUME NEW r \in Runs, tx[r] = "sent", tx' = [tx EXCEPT ![r] = "landed"],
                 history' = Append(history, r)
          PROVE  /\ \A i \in DOMAIN history' : tx'[history'[i]] = "landed"
                 /\ \A i, j \in DOMAIN history' : i # j => history'[i] # history'[j]
      <3>1. /\ DOMAIN history' = 1 .. Len(history) + 1 /\ history'[Len(history) + 1] = r
            /\ \A i \in 1 .. Len(history) : history'[i] = history[i]
        BY <2>2, Appended DEF Shape
      <3>2. \A i \in 1 .. Len(history) + 1 : i = Len(history) + 1 \/ i \in 1 .. Len(history)
        BY History
      <3>3. \A i \in 1 .. Len(history) : tx[history[i]] = "landed" /\ history[i] # r
        BY <2>2, History DEF Once
      <3>4. tx'[r] = "landed"
        BY <2>2 DEF Shape
      <3>5. \A i \in DOMAIN history' : tx'[history'[i]] = "landed"
        BY <1>2, <3>1, <3>2, <3>3, <3>4, History
      <3> QED
        BY <3>1, <3>2, <3>3, <3>5, History DEF Once
    <2> QED
      BY <1>0, <2>1, <2>2 DEF HistoryMoves
  <1>4. \A i, j \in DOMAIN deposits' : i # j => deposits'[i].commitment # deposits'[j].commitment
    <2>1. CASE deposits' = deposits
      BY <2>1 DEF Once
    <2>2. ASSUME NEW r \in Runs, r \notin Recorded,
                 deposits' = Append(deposits, [commitment |-> r, leafIndex |-> leafIndex[r]])
          PROVE  \A i, j \in DOMAIN deposits' :
                     i # j => deposits'[i].commitment # deposits'[j].commitment
      <3> DEFINE e == [commitment |-> r, leafIndex |-> leafIndex[r]]
      <3>1. e \in EntryType /\ e.commitment = r
        BY DEF EntryType, Shape
      <3> HIDE DEF e
      <3>2. /\ DOMAIN deposits' = 1 .. Len(deposits) + 1 /\ deposits'[Len(deposits) + 1] = e
            /\ \A i \in 1 .. Len(deposits) : deposits'[i] = deposits[i]
        BY <2>2, <3>1, Appended DEF Shape, e
      <3>3. \A i \in 1 .. Len(deposits) + 1 : i = Len(deposits) + 1 \/ i \in 1 .. Len(deposits)
        BY History
      <3>4. \A i \in 1 .. Len(deposits) : deposits[i].commitment # r
        BY <2>2, History DEF Recorded
      <3> QED
        BY <3>1, <3>2, <3>3, <3>4, History DEF Once
    <2>3. ASSUME NEW found \in SUBSET DOMAIN history, NEW order \in ByTime(found),
                 deposits' = Hydrated(order)
          PROVE  \A i, j \in DOMAIN deposits' :
                     i # j => deposits'[i].commitment # deposits'[j].commitment
      BY <2>3, HydratedTrue DEF Once
    <2> QED
      BY <1>0, <2>1, <2>2, <2>3 DEF DepositsMove
  <1> QED
    BY <1>1, <1>3, <1>4 DEF Once

-----------------------------------------------------------------------------
(* The order in which deposits are served.                                 *)

\* A run that has read its index keeps it.
LEMMA IndexKept ==
    ASSUME Shape, [Next]_vars, NEW r \in Runs, pc[r] \notin {"idle", "status"}
    PROVE  pc'[r] \notin {"idle", "status"} /\ leafIndex'[r] = leafIndex[r]
  <1>1. ASSUME NEW s \in Runs, NEW step \in Steps \cup Ended, Goto(s, step),
               step \notin {"idle", "status"}
        PROVE  pc'[r] \notin {"idle", "status"}
    BY <1>1 DEF Goto, Shape
  <1>2. ASSUME NEW s \in Runs, Start(s) \/ ReadStatus(s)
        PROVE  pc'[r] \notin {"idle", "status"} /\ leafIndex'[r] = leafIndex[r]
    BY <1>2 DEF Start, ReadStatus, At, Goto, Shape
  <1>3. {"submit", "confirm", "record", "list", "withdraw", "init", "add", "store", "done",
         "refused", "abandoned"} \subseteq Steps \cup Ended
    BY DEF Steps, Ended
  <1>4. ASSUME NEW s \in Runs,
               \/ Submit(s) \/ WaitForConfirmation(s) \/ ConfirmDeposit(s) \/ BuildTree(s)
               \/ RelayerWithdraw(s) \/ InitPosition(s) \/ AddLiquidity(s) \/ Store(s)
               \/ Fails(s)
        PROVE  pc'[r] \notin {"idle", "status"} /\ leafIndex'[r] = leafIndex[r]
    <2>1. /\ leafIndex' = leafIndex
          /\ \E step \in {"submit", "confirm", "record", "list", "withdraw", "init", "add",
                          "store", "done", "refused", "abandoned"} : Goto(s, step)
      BY <1>4 DEF Submit, WaitForConfirmation, ConfirmDeposit, BuildTree, RelayerWithdraw,
         InitPosition, AddLiquidity, Store, Fails
    <2> QED
      BY <1>1, <1>3, <2>1
  <1>5. CASE UNCHANGED <<pc, leafIndex>>
    BY <1>5
  <1> QED
    BY <1>2, <1>4, <1>5 DEF Next, Step, Execute, Restart, vars

LEMMA PlacedStep ==
    ASSUME Shape, Once, Placed, [Next]_vars
    PROVE  Placed'
  <1>0. HistoryMoves /\ DepositsMove /\ Shape'
    BY ChainStep, ShapeStep
  <1>1. /\ Len(history) \in Nat /\ DOMAIN history = 1 .. Len(history)
        /\ \A r \in Runs : leafIndex[r] \in Nat /\ leafIndex'[r] \in Nat
        /\ \A k \in DOMAIN history : history[k] \in Runs
    BY <1>0, History DEF Shape
  <1>2. \A r \in Runs : pc[r] \notin {"idle", "status"} =>
            pc'[r] \notin {"idle", "status"} /\ leafIndex'[r] = leafIndex[r]
    BY IndexKept
  \* What the chain gains is the deposit of a run that has read its index.
  <1>3. \/ history' = history
        \/ \E r \in Runs : /\ tx[r] = "sent" /\ leafIndex' = leafIndex /\ deposits' = deposits
                           /\ Len(history') = Len(history) + 1
                           /\ DOMAIN history' = 1 .. Len(history) + 1
                           /\ \A k \in 1 .. Len(history) : history'[k] = history[k]
                           /\ history'[Len(history) + 1] = r
    <2>1. ASSUME NEW r \in Runs, history' = Append(history, r)
          PROVE  /\ Len(history') = Len(history) + 1
                 /\ DOMAIN history' = 1 .. Len(history) + 1
                 /\ \A k \in 1 .. Len(history) : history'[k] = history[k]
                 /\ history'[Len(history) + 1] = r
      BY <2>1, Appended DEF Shape
    <2> QED
      BY <1>0, <2>1 DEF HistoryMoves
  <1>4. Len(history') \in Nat /\ Len(history) <= Len(history')
    BY <1>1, <1>3
  <1>5. \A r \in Runs : leafIndex'[r] <= Len(history')
    <2>1. ASSUME NEW s \in Runs, ReadStatus(s)
          PROVE  \A r \in Runs : leafIndex'[r] <= Len(history')
      BY <1>1, <1>4, <2>1 DEF ReadStatus, Placed, Shape, chain
    <2>2. CASE leafIndex' = leafIndex
      BY <1>1, <1>4, <2>2 DEF Placed
    <2> QED
      BY <2>1, <2>2 DEF Next, Step, Start, Submit, Execute, WaitForConfirmation,
         ConfirmDeposit, BuildTree, RelayerWithdraw, InitPosition, AddLiquidity, Store, Fails,
         Restart, vars
  \* A run whose deposit is in the chain has read its index.
  <1>6. \A k \in DOMAIN history : pc[history[k]] \notin {"idle", "status"}
    BY <1>1 DEF Once
  <1>7. ReadBefore(leafIndex', history')
    <2>1. \A k \in DOMAIN history : leafIndex'[history[k]] < k
      BY <1>1, <1>2, <1>6 DEF Placed, ReadBefore
    <2>2. CASE history' = history
      BY <2>1, <2>2 DEF ReadBefore
    <2>3. ASSUME NEW r \in Runs, leafIndex' = leafIndex,
                 DOMAIN history' = 1 .. Len(history) + 1,
                 \A k \in 1 .. Len(history) : history'[k] = history[k],
                 history'[Len(history) + 1] = r
          PROVE  ReadBefore(leafIndex', history')
      <3>1. leafIndex[r] < Len(history) + 1
        BY <1>1 DEF Placed
      <3>2. \A k \in 1 .. Len(history) + 1 : k \in 1 .. Len(history) \/ k = Len(history) + 1
        BY <1>1
      <3> QED
        BY <1>1, <2>1, <2>3, <3>1, <3>2 DEF ReadBefore
    <2> QED
      BY <1>3, <2>2, <2>3
  \* An entry well placed stays so.
  <1>8. ASSUME NEW e \in EntryType, EntryPlaced(e, pc, leafIndex, history)
        PROVE  EntryPlaced(e, pc', leafIndex', history')
    <2>1. /\ e.commitment \in Runs /\ e.leafIndex \in Nat
          /\ pc'[e.commitment] \notin {"idle", "status"}
          /\ leafIndex'[e.commitment] <= e.leafIndex /\ e.leafIndex <= Len(history)
      BY <1>2, <1>8 DEF EntryPlaced, EntryType
    <2>2. \A k \in DOMAIN history' : history'[k] = e.commitment => e.leafIndex < k
      <3>1. CASE history' = history
        BY <1>8, <3>1 DEF EntryPlaced
      <3>2. ASSUME DOMAIN history' = 1 .. Len(history) + 1,
                   \A k \in 1 .. Len(history) : history'[k] = history[k]
            PROVE  \A k \in DOMAIN history' : history'[k] = e.commitment => e.leafIndex < k
        <4>1. \A k \in 1 .. Len(history) + 1 :
                  k \in 1 .. Len(history) \/ k = Len(history) + 1
          BY <1>1
        <4> QED
          BY <1>1, <1>8, <2>1, <3>2, <4>1 DEF EntryPlaced
      <3> QED
        BY <1>3, <3>1, <3>2
    <2> QED
      BY <1>1, <1>4, <2>1, <2>2 DEF EntryPlaced
  <1>9. ASSUME NEW i \in DOMAIN deposits' PROVE EntryPlaced(deposits'[i], pc', leafIndex', history')
    <2>1. ASSUME i \in DOMAIN deposits, deposits'[i] = deposits[i]
          PROVE  EntryPlaced(deposits'[i], pc', leafIndex', history')
      BY <1>8, <2>1, History DEF Placed
    <2>2. ASSUME NEW r \in Runs, pc[r] = "record",
                 deposits' = Append(deposits, [commitment |-> r, leafIndex |-> leafIndex[r]])
          PROVE  EntryPlaced(deposits'[i], pc', leafIndex', history')
      <3> DEFINE e == [commitment |-> r, leafIndex |-> leafIndex[r]]
      <3>1. e \in EntryType /\ e.leafIndex = leafIndex[r] /\ e.commitment = r
        BY <1>1 DEF EntryType
      <3> HIDE DEF e
      <3>2. /\ DOMAIN deposits' = 1 .. Len(deposits) + 1 /\ deposits'[Len(deposits) + 1] = e
            /\ \A k \in 1 .. Len(deposits) : deposits'[k] = deposits[k]
        BY <2>2, <3>1, Appended DEF Shape, e
      <3>3. EntryPlaced(e, pc, leafIndex, history)
        BY <1>1, <2>2, <3>1 DEF EntryPlaced, Placed, ReadBefore
      <3>4. CASE i = Len(deposits) + 1
        BY <1>8, <3>1, <3>2, <3>3, <3>4
      <3>5. CASE i \in 1 .. Len(deposits)
        BY <2>1, <3>2, <3>5, History
      <3> QED
        BY <3>2, <3>4, <3>5, History
    <2>3. ASSUME NEW found \in SUBSET DOMAIN history, NEW order \in ByTime(found),
                 deposits' = Hydrated(order)
          PROVE  EntryPlaced(deposits'[i], pc', leafIndex', history')
      <3>1. /\ order[i] \in DOMAIN history /\ deposits'[i].leafIndex = order[i] - 1
            /\ deposits'[i].commitment = history[order[i]] /\ deposits' \in Seq(EntryType)
        BY <2>3, HydratedTrue
      <3>2. deposits'[i] \in EntryType
        BY <3>1, ElementOfSeq, LenProperties
      <3>3. /\ pc[history[order[i]]] \notin {"idle", "status"}
            /\ leafIndex[history[order[i]]] < order[i]
            /\ order[i] \in 1 .. Len(history) /\ history[order[i]] \in Runs
            /\ leafIndex[history[order[i]]] \in Nat
        BY <1>1, <1>6, <3>1 DEF Placed, ReadBefore
      <3>4. \A k \in DOMAIN history : history[k] = history[order[i]] => k = order[i]
        BY <3>1 DEF Once
      <3>5. EntryPlaced(deposits'[i], pc, leafIndex, history)
        BY <1>1, <3>1, <3>3, <3>4 DEF EntryPlaced
      <3> QED
        BY <1>8, <3>2, <3>5
    <2>4. CASE deposits' = deposits
      BY <2>1, <2>4
    <2> QED
      BY <1>0, <2>2, <2>3, <2>4 DEF DepositsMove
  <1> QED
    BY <1>5, <1>7, <1>9 DEF Placed

-----------------------------------------------------------------------------
(* What is remembered was paid for and opened.                             *)

\* What is in a prefix of the chain is in the chain.
LEMMA PrefixRange ==
    ASSUME Shape, NEW s \in Seq(Runs), IsPrefix(s, history)
    PROVE  Range(s) \subseteq Range(history)
  <1>1. /\ Len(s) \in Nat /\ DOMAIN s = 1 .. Len(s) /\ Len(s) <= Len(history)
        /\ SubSeq(s, 1, Len(s)) = SubSeq(history, 1, Len(s))
    BY LenProperties DEF IsPrefix
  <1>2. Len(history) \in Nat /\ DOMAIN history = 1 .. Len(history)
    BY History
  <1>3. ASSUME NEW i \in 1 .. Len(s) PROVE s[i] = history[i]
    <2>1. \A k \in 1 .. Len(s) : s[k] \in Runs /\ history[k] \in Runs
      <3>1. 1 .. Len(s) \subseteq 1 .. Len(history)
        BY <1>1, <1>2
      <3> QED
        BY <1>2, <3>1, ElementOfSeq, History
    <2>2. SubSeq(s, 1, Len(s))[i] = s[1 + i - 1]
      BY <1>1, <2>1, SubSeqProperties
    <2>3. SubSeq(history, 1, Len(s))[i] = history[1 + i - 1]
      BY <1>1, <2>1, SubSeqProperties
    <2> QED
      BY <1>1, <2>2, <2>3
  <1> QED
    BY <1>1, <1>2, <1>3 DEF Range

LEMMA HistoryGrows ==
    ASSUME Shape, [Next]_vars
    PROVE  Range(history) \subseteq Range(history)'
  <1>1. HistoryMoves
    BY ChainStep
  <1>2. ASSUME NEW r \in Runs, history' = Append(history, r)
        PROVE  Range(history) \subseteq Range(history')
    <2>1. /\ DOMAIN history' = 1 .. Len(history) + 1
          /\ \A i \in 1 .. Len(history) : history'[i] = history[i]
      BY <1>2, Appended DEF Shape
    <2>2. DOMAIN history \subseteq DOMAIN history'
      BY <2>1, History
    <2> QED
      BY <2>1, <2>2, History DEF Range
  <1> QED
    BY <1>1, <1>2 DEF HistoryMoves

LEMMA PaidStep ==
    ASSUME Shape, Paid, [Next]_vars
    PROVE  Paid'
  <1> USE FlowAssumption
  <1>1. Range(history) \subseteq Range(history')
    BY HistoryGrows
  \* A run that goes on to where nothing more is asked of it.
  <1>2. ASSUME NEW s \in Runs, NEW step, pc' = [pc EXCEPT ![s] = step],
               step \notin {"withdraw", "init", "add", "store"},
               UNCHANGED <<tree, stealth>>, stored' \subseteq stored \cup {s},
               s \in stored' => s \in stored \/ pc[s] = "store"
        PROVE  Paid'
    <2>1. \A r \in Runs : pc'[r] = IF r = s THEN step ELSE pc[r]
      BY <1>2 DEF Shape
    <2> QED
      BY <1>1, <1>2, <2>1 DEF Paid, StoredIsOpen, stealth
  <1>3. ASSUME NEW s \in Runs,
               Start(s) \/ ReadStatus(s) \/ Submit(s) \/ WaitForConfirmation(s)
               \/ ConfirmDeposit(s) \/ Store(s) \/ Fails(s)
        PROVE  Paid'
    BY <1>2, <1>3 DEF Start, ReadStatus, Submit, WaitForConfirmation, ConfirmDeposit, Store,
       Fails, At, Goto
  <1>4. ASSUME NEW s \in Runs, BuildTree(s) PROVE Paid'
    <2>1. PICK order \in ByLeafIndex :
             /\ tree' = [tree EXCEPT ![s] = ListDeposits(order)]
             /\ pc' = [pc EXCEPT ![s] =
                    IF s \in Range(ListDeposits(order)) THEN "withdraw" ELSE "refused"]
      BY <1>4 DEF BuildTree, Goto
    <2> DEFINE leaves == ListDeposits(order)
    <2> HIDE DEF leaves
    <2>2. /\ \A r \in Runs : tree'[r] = IF r = s THEN leaves ELSE tree[r]
          /\ \A r \in Runs : pc'[r] = IF r = s
                 THEN (IF s \in Range(leaves) THEN "withdraw" ELSE "refused") ELSE pc[r]
          /\ UNCHANGED <<stealth, stored, history>>
      BY <1>4, <2>1 DEF leaves, Shape, BuildTree, chain
    <2> QED
      BY <2>2 DEF Paid, StoredIsOpen, stealth
  <1>5. ASSUME NEW s \in Runs, RelayerWithdraw(s) PROVE Paid'
    <2>1. PICK delayMet \in DelayMet(tree[s]) :
             IF delayMet /\ IsKnownRoot(tree[s])
             THEN funded' = funded \cup {s} /\ pc' = [pc EXCEPT ![s] = "init"]
             ELSE UNCHANGED funded /\ pc' = [pc EXCEPT ![s] = "refused"]
      BY <1>5 DEF RelayerWithdraw, Goto
    <2>2. pc[s] = "withdraw" /\ UNCHANGED <<tree, opened, added, stored, history>>
      BY <1>5 DEF RelayerWithdraw, At, chain
    <2>3. CASE delayMet /\ IsKnownRoot(tree[s])
      <3>1. s \in Range(history)
        BY <2>2, <2>3, PrefixRange DEF Paid, IsKnownRoot, Shape
      <3>2. \A r \in Runs : pc'[r] = IF r = s THEN "init" ELSE pc[r]
        BY <2>1, <2>3 DEF Shape
      <3> QED
        BY <2>1, <2>2, <2>3, <3>1, <3>2 DEF Paid, StoredIsOpen
    <2>4. CASE ~(delayMet /\ IsKnownRoot(tree[s]))
      BY <1>2, <2>1, <2>2, <2>4 DEF stealth
    <2> QED
      BY <2>3, <2>4
  <1>6. ASSUME NEW s \in Runs, InitPosition(s) PROVE Paid'
    <2>1. PICK outcome \in {"landed", "erred", "expired"} :
             /\ opened' = IF outcome = "landed" THEN opened \cup {s} ELSE opened
             /\ pc' = [pc EXCEPT ![s] = IF outcome = "expired" THEN "abandoned" ELSE "add"]
      BY <1>6 DEF InitPosition, Goto
    <2>2. /\ \A r \in Runs : pc'[r] = IF r = s
                 THEN (IF outcome = "expired" THEN "abandoned" ELSE "add") ELSE pc[r]
          /\ pc[s] = "init" /\ UNCHANGED <<tree, funded, added, stored, history>>
          /\ opened \subseteq opened' /\ opened' \subseteq opened \cup {s}
      BY <1>6, <2>1 DEF InitPosition, At, Shape, chain
    <2> QED
      BY <2>2 DEF Paid, StoredIsOpen
  <1>7. ASSUME NEW s \in Runs, AddLiquidity(s) PROVE Paid'
    <2>1. pc[s] = "add" /\ UNCHANGED <<tree, funded, opened, stored, history>>
      BY <1>7 DEF AddLiquidity, At, chain
    <2>2. CASE s \notin opened
      BY <1>2, <1>7, <2>2 DEF AddLiquidity, stealth, Goto
    <2>3. CASE s \in opened
      <3>1. PICK outcome \in {"landed", "erred", "expired"} :
               pc' = [pc EXCEPT ![s] = IF outcome = "expired" THEN "abandoned" ELSE "store"]
        BY <1>7, <2>3 DEF AddLiquidity, Goto
      <3>2. \A r \in Runs : pc'[r] = IF r = s
                   THEN (IF outcome = "expired" THEN "abandoned" ELSE "store") ELSE pc[r]
        BY <3>1 DEF Shape
      <3> QED
        BY <2>1, <2>3, <3>2 DEF Paid, StoredIsOpen
    <2> QED
      BY <2>2, <2>3
  <1>8. ASSUME UNCHANGED <<pc, tree, stealth, stored>> PROVE Paid'
    BY <1>1, <1>8 DEF Paid, StoredIsOpen, stealth
  <1> QED
    BY <1>3, <1>4, <1>5, <1>6, <1>7, <1>8 DEF Next, Step, Execute, Restart, vars

-----------------------------------------------------------------------------
(* The theorems.                                                           *)

LEMMA FlowInit ==
    ASSUME Init
    PROVE  Shape /\ Once /\ Placed /\ Paid
  <1> USE FlowAssumption DEF Init
  <1>1. \A S : <<>> \in Seq(S)
    BY EmptySeq
  <1>2. Len(<<>>) = 0 /\ DOMAIN history = {} /\ DOMAIN deposits = {}
    BY EmptySeq
  <1>3. Shape
    BY <1>1 DEF Shape
  <1>4. Once
    BY <1>2 DEF Once
  <1>5. Placed
    BY <1>2 DEF Placed, ReadBefore
  <1>6. Paid
    BY DEF Paid, StoredIsOpen
  <1> QED
    BY <1>3, <1>4, <1>5, <1>6

FlowInv == Shape /\ Once

THEOREM FlowInvariant == Spec => []FlowInv
  <1>1. Init => FlowInv
    BY FlowInit DEF FlowInv
  <1>2. FlowInv /\ [Next]_vars => FlowInv'
    BY ShapeStep, OnceStep DEF FlowInv
  <1> QED
    BY <1>1, <1>2, PTL DEF Spec

\* Types, and a cache that is a map: one entry per commitment, however often a
\* deposit is recorded and the process restarts.
THEOREM FlowTypes == Spec => []TypeOK
  <1>1. ASSUME FlowInv PROVE TypeOK
    <2>1. Shape /\ Once
      BY <1>1 DEF FlowInv
    <2> DEFINE n == Len(deposits)
               f == [i \in 1 .. n |-> deposits[i].commitment]
    <2>2. n \in Nat /\ DOMAIN deposits = 1 .. n
      BY <2>1, History
    <2>3. f \in Bijection(1 .. n, Recorded)
      <3>1. Recorded = {f[i] : i \in 1 .. n} /\ DOMAIN f = 1 .. n
        BY <2>2 DEF Recorded
      <3>2. \A i, j \in 1 .. n : f[i] = f[j] => i = j
        BY <2>1, <2>2 DEF Once
      <3> HIDE DEF f, n
      <3>3. f \in [1 .. n -> Recorded]
        BY <3>1 DEF f
      <3> QED
        BY <3>1, <3>2, <3>3 DEF Bijection, Injection, Surjection, IsInjective
    <2>4. IsFiniteSet(1 .. n) /\ Cardinality(1 .. n) = n
      <3> HIDE DEF n
      <3>1. IsFiniteSet(1 .. n) /\ Cardinality(1 .. n) = IF 1 > n THEN 0 ELSE n - 1 + 1
        BY <2>2, FS_Interval
      <3> QED
        BY <2>2, <3>1
    <2>5. ExistsBijection(1 .. n, Recorded)
      BY <2>3 DEF ExistsBijection
    <2>6. Cardinality(Recorded) = n
      <3> HIDE DEF n
      <3> QED
        BY <2>4, <2>5, FS_Bijection
    <2> QED
      BY <2>1, <2>6 DEF TypeOK, Shape, EntryType
  <1> QED
    BY <1>1, FlowInvariant, PTL

\* Deposits are served in the order in which they landed, but for those whose runs
\* were under way together, with any number of runs, transactions that err or
\* expire, runs that break off, restarts and scans of the chain that miss some.
\* (Records come from runs; the route asks nobody who they are.)
THEOREM ServedAsLanded == Spec => []ServedInOrder
  <1> DEFINE I == Shape /\ Once /\ Placed
  <1>1. Init => I
    BY FlowInit
  <1>2. I /\ [Next]_vars => I'
    BY ShapeStep, OnceStep, PlacedStep
  <1>3. ASSUME I PROVE ServedInOrder
    <2> SUFFICES ASSUME NEW i \in DOMAIN deposits, NEW j \in DOMAIN deposits,
                        Landed(deposits[i].commitment, leafIndex[deposits[j].commitment])
                 PROVE  Before(i, j)
      BY DEF ServedInOrder
    <2>1. PICK k \in DOMAIN history : /\ history[k] = deposits[i].commitment
                                      /\ k <= leafIndex[deposits[j].commitment]
      BY DEF Landed
    <2>2. /\ deposits[i].leafIndex < k
          /\ leafIndex[deposits[j].commitment] <= deposits[j].leafIndex
      BY <1>3, <2>1 DEF Placed, EntryPlaced
    <2>3. /\ k \in Nat /\ deposits[i].leafIndex \in Nat /\ deposits[j].leafIndex \in Nat
          /\ leafIndex[deposits[j].commitment] \in Nat
      <3>1. Shape
        BY <1>3
      <3>2. /\ deposits[i] \in EntryType /\ deposits[j] \in EntryType
            /\ leafIndex \in [Runs -> Nat]
        BY <3>1, History DEF Shape
      <3>3. k \in Nat
        BY <3>1, <2>1 DEF Shape
      <3> QED
        BY <3>2, <3>3 DEF EntryType
    <2> QED
      BY <2>1, <2>2, <2>3 DEF Before
  <1> HIDE DEF I
  <1> QED
    BY <1>1, <1>2, <1>3, PTL DEF Spec

\* A stealth wallet is paid only for a deposit of its own run, and what the
\* portfolio remembers was opened by a wallet so paid, wherever runs break off,
\* however they interleave and whichever transactions err or expire.
THEOREM RememberedIsOpen == Spec => []StoredIsOpen
  <1> DEFINE I == Shape /\ Paid
  <1>1. Init => I
    BY FlowInit
  <1>2. I /\ [Next]_vars => I'
    BY ShapeStep, PaidStep
  <1>3. I => StoredIsOpen
    BY DEF Paid
  <1> QED
    BY <1>1, <1>2, <1>3, PTL DEF Spec

=============================================================================
