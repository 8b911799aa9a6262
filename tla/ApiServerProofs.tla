--------------------------- MODULE ApiServerProofs ---------------------------
(***************************************************************************)
(* Theorems about the API process, for any wallets, requests, caps, times   *)
(* and numbers of nonces, positions and restarts, and any writes of states. *)
(*                                                                         *)
(* A nonce is behind at most one row or one request past the signature check *)
(* (OneUse).  The caps are passed by requests that have read them and not    *)
(* written yet: rows and such requests together stay within the cap and one  *)
(* less than the requests there can be (CountBound, AmountBound).            *)
(***************************************************************************)
EXTENDS ApiServer, SequenceTheorems, FiniteSetTheorems, TLAPS

NonceType == [wallet : Wallets, expires : Nat, used : BOOLEAN]
PosType == [wallet : Wallets, signer : Wallets, nonce : Nat, amount : 1 .. MaxPositionSol,
            state : {"open", "revived", "completed", "failed"}]
CapsType == [pc : {"caps"}, wallet : Wallets, signer : Wallets, nonce : Nat,
             amount : Amounts \cap (1 .. MaxPositionSol), count : -1 .. MaxPositions,
             total : Int]

Shape ==
    /\ nonces \in Seq(NonceType)
    /\ positions \in Seq(PosType) /\ Len(positions) <= MaxPositions
    /\ req \in [Requests -> CapsType \cup {Idle}]

\* The clock.
Clocks == now \in 0 .. MaxTime

InCaps(r) == req[r].pc = "caps"

\* Whose nonce, signed by whom, claimed: of a row and of a request that counts.
Backed(q) ==
    /\ q.nonce \in DOMAIN nonces /\ q.signer = q.wallet
    /\ nonces[q.nonce].wallet = q.wallet /\ nonces[q.nonce].used

Signed ==
    /\ \A i \in DOMAIN positions : Backed(positions[i])
    /\ \A r \in Requests : InCaps(r) => Backed(req[r])

OneUse ==
    /\ \A i, j \in DOMAIN positions : i # j => positions[i].nonce # positions[j].nonce
    /\ \A q, r \in Requests : q # r /\ InCaps(q) /\ InCaps(r) => req[q].nonce # req[r].nonce
    /\ \A r \in Requests, i \in DOMAIN positions :
           InCaps(r) => req[r].nonce # positions[i].nonce

\* The rows that were never revived: once such a row has ended it does not come back.
Fresh == Active \ Revived
FreshOf(w) == ActiveOf(w) \ Revived

\* The requests that have counted the rows of w and may still add one to them,
\* and those that have summed the amounts and may still add to the sum.
Passing(w) == {r \in Requests : /\ InCaps(r) /\ req[r].wallet = w
                                /\ req[r].count >= 0 /\ req[r].count < MaxPositionsPerWallet}
PassingSum == {r \in Requests : /\ InCaps(r) /\ req[r].total >= 0
                                /\ req[r].total + req[r].amount <= MaxGlobalTvl}
AskOf == [r \in Requests |-> req[r].amount]

Others == Cardinality(Requests) - 1

CountBound == \A w \in Wallets :
    Cardinality(FreshOf(w)) + Cardinality(Passing(w)) <= MaxPositionsPerWallet + Others

AmountBound ==
    SumOf(Fresh) + Cardinality(UnitsOf(AskOf, PassingSum))
        <= MaxGlobalTvl + Others * MaxPositionSol

-----------------------------------------------------------------------------
(* Rows.                                                                   *)

\* The fields that a row keeps; what is not fresh does not become so.
SameRow(p, q) ==
    /\ q.wallet = p.wallet /\ q.signer = p.signer /\ q.nonce = p.nonce
    /\ q.amount = p.amount
    /\ q.state = "open" => p.state = "open"

RowsKept ==
    /\ positions' \in Seq(PosType) /\ Len(positions') = Len(positions)
    /\ \A i \in 1 .. Len(positions) : SameRow(positions[i], positions'[i])

NewRow(r) == [wallet |-> req[r].wallet, signer |-> req[r].signer, nonce |-> req[r].nonce,
              amount |-> req[r].amount, state |-> "open"]

RowAdded(r) ==
    /\ InCaps(r) /\ WithinCaps(req[r]) /\ req[r].count >= 0 /\ req[r].total >= 0
    /\ Len(positions) < MaxPositions
    /\ req' = [req EXCEPT ![r] = Idle] /\ nonces' = nonces
    /\ NewRow(r) \in PosType
    /\ positions' \in Seq(PosType) /\ Len(positions') = Len(positions) + 1
    /\ \A i \in 1 .. Len(positions) : positions'[i] = positions[i]
    /\ positions'[Len(positions) + 1] = NewRow(r)

LEMMA Rows ==
    ASSUME Shape
    PROVE  /\ Len(positions) \in Nat /\ DOMAIN positions = 1 .. Len(positions)
           /\ \A i \in 1 .. Len(positions) : positions[i] \in PosType
           /\ Len(nonces) \in Nat /\ DOMAIN nonces = 1 .. Len(nonces)
           /\ \A n \in 1 .. Len(nonces) : nonces[n] \in NonceType
  BY LenProperties, ElementOfSeq DEF Shape

LEMMA AppendRow ==
    ASSUME Shape, NEW p \in PosType
    PROVE  /\ Append(positions, p) \in Seq(PosType)
           /\ Len(Append(positions, p)) = Len(positions) + 1
           /\ \A i \in 1 .. Len(positions) : Append(positions, p)[i] = positions[i]
           /\ Append(positions, p)[Len(positions) + 1] = p
  BY Rows DEF Shape

LEMMA FunctionIsSeq ==
    ASSUME NEW S, NEW n \in Nat, NEW f \in [1 .. n -> S]
    PROVE  f \in Seq(S) /\ Len(f) = n
  <1>1. f \in Seq(S)
    BY SeqDef
  <1>2. 1 .. Len(f) = 1 .. n /\ Len(f) \in Nat
    BY <1>1, LenProperties
  <1> QED
    BY <1>1, <1>2

LEMMA CapsIsNotIdle ==
    ASSUME Shape, NEW r \in Requests
    PROVE  /\ InCaps(r) => req[r] \in CapsType
           /\ ~InCaps(r) => req[r] = Idle
           /\ Idle.pc = "idle"
  BY DEF Shape, InCaps, Idle, CapsType

LEMMA CreateAdds ==
    ASSUME Shape, NEW r \in Requests, CreatePosition(r), WithinCaps(req[r])
    PROVE  RowAdded(r)
  <1>1. /\ req[r].pc = "caps" /\ req[r].count >= 0 /\ req[r].total >= 0
        /\ Len(positions) < MaxPositions
        /\ req' = [req EXCEPT ![r] = Idle] /\ nonces' = nonces
        /\ positions' = Append(positions, NewRow(r))
    BY DEF CreatePosition, NewRow
  <1>2. NewRow(r) \in PosType
    BY <1>1, CapsIsNotIdle, ApiAssumption DEF NewRow, PosType, CapsType, InCaps
  <1>3. /\ positions' \in Seq(PosType) /\ Len(positions') = Len(positions) + 1
        /\ \A i \in 1 .. Len(positions) : positions'[i] = positions[i]
        /\ positions'[Len(positions) + 1] = NewRow(r)
    BY <1>1, <1>2, AppendRow
  <1> QED
    BY <1>1, <1>2, <1>3 DEF RowAdded, InCaps

LEMMA RowsStep ==
    ASSUME Shape, Clocks, [Next]_vars
    PROVE  RowsKept \/ \E r \in Requests : RowAdded(r)
  <1> USE ApiAssumption
  <1>1. CASE UNCHANGED positions
    BY <1>1, Rows DEF RowsKept, SameRow, Shape
  <1>2. ASSUME NEW r \in Requests, CreatePosition(r), WithinCaps(req[r]) PROVE RowAdded(r)
    BY <1>2, CreateAdds
  <1>3. ASSUME NEW i \in DOMAIN positions, NEW s \in {"open", "completed", "failed"},
               UpdatePositionState(i, s)
        PROVE  RowsKept
    <2> DEFINE p == [positions[i] EXCEPT !.state =
                        IF s = "open" /\ @ # "open" THEN "revived" ELSE s]
    <2>1. positions[i] \in PosType /\ i \in 1 .. Len(positions)
      BY Rows
    <2>2. p \in PosType /\ SameRow(positions[i], p)
      BY <2>1 DEF PosType, SameRow
    <2>3. positions' = [positions EXCEPT ![i] = p]
      BY <1>3 DEF UpdatePositionState
    <2> HIDE DEF p
    <2>4. positions' \in Seq(PosType) /\ Len(positions') = Len(positions)
      BY <2>1, <2>2, <2>3, ExceptSeq DEF Shape
    <2>5. ASSUME NEW j \in 1 .. Len(positions) PROVE SameRow(positions[j], positions'[j])
      BY <2>1, <2>2, <2>3, Rows DEF SameRow
    <2> QED
      BY <2>4, <2>5 DEF RowsKept
  <1>6. ASSUME NEW r \in Requests, CreatePosition(r), ~WithinCaps(req[r]) PROVE UNCHANGED positions
    BY <1>6 DEF CreatePosition
  <1>8. CASE \E r \in Requests :
                CountActiveByWallet(r) \/ SumActiveAmountSol(r) \/ CreatePosition(r)
    BY <1>1, <1>2, <1>6, <1>8 DEF CountActiveByWallet, SumActiveAmountSol, tables
  <1>10. CASE (\E w \in Wallets : IssueAuthNonce(w))
              \/ (\E r \in Requests, w \in Wallets, n \in DOMAIN nonces,
                     signer \in Wallets, amount \in Amounts : Admit(r, w, n, signer, amount))
              \/ Crash \/ Clock \/ UNCHANGED vars
    BY <1>1, <1>10 DEF IssueAuthNonce, Admit, Crash, Clock, tables, vars
  <1> QED
    BY <1>3, <1>8, <1>10 DEF Next

-----------------------------------------------------------------------------
(* Nonces and requests.                                                    *)

NoncesKept ==
    /\ nonces' \in Seq(NonceType) /\ Len(nonces) <= Len(nonces')
    /\ \A n \in 1 .. Len(nonces) : /\ nonces'[n].wallet = nonces[n].wallet
                                   /\ nonces[n].used => nonces'[n].used

LEMMA NoncesStep ==
    ASSUME Shape, Clocks, [Next]_vars
    PROVE  NoncesKept
  <1> USE ApiAssumption
  <1>1. CASE UNCHANGED nonces
    BY <1>1, Rows DEF NoncesKept, Shape
  <1>2. ASSUME NEW w \in Wallets, IssueAuthNonce(w) PROVE NoncesKept
    <2> DEFINE n == [wallet |-> w, expires |-> now + NonceTtl, used |-> FALSE]
    <2>1. n \in NonceType
      BY DEF NonceType, Clocks
    <2> HIDE DEF n
    <2>2. nonces' = Append(nonces, n)
      BY <1>2 DEF IssueAuthNonce, n
    <2>3. /\ nonces' \in Seq(NonceType) /\ Len(nonces') = Len(nonces) + 1
          /\ \A i \in 1 .. Len(nonces) : nonces'[i] = nonces[i]
      BY <2>1, <2>2, Rows DEF Shape
    <2> QED
      BY <2>3, Rows DEF NoncesKept
  <1>3. ASSUME NEW n \in DOMAIN nonces, nonces' = [nonces EXCEPT ![n].used = TRUE]
        PROVE  NoncesKept
    <2> DEFINE e == [nonces[n] EXCEPT !.used = TRUE]
    <2>1. n \in 1 .. Len(nonces) /\ nonces[n] \in NonceType
      BY Rows
    <2>2. e \in NonceType /\ e.wallet = nonces[n].wallet /\ e.used
      BY <2>1 DEF NonceType
    <2>3. nonces' = [nonces EXCEPT ![n] = e]
      BY <1>3
    <2> HIDE DEF e
    <2>4. nonces' \in Seq(NonceType) /\ Len(nonces') = Len(nonces)
      BY <2>1, <2>2, <2>3, ExceptSeq DEF Shape
    <2> QED
      BY <2>1, <2>2, <2>3, <2>4, Rows DEF NoncesKept
  <1>4. ASSUME NEW r \in Requests, NEW w \in Wallets, NEW n \in DOMAIN nonces,
               NEW signer \in Wallets, NEW amount \in Amounts, Admit(r, w, n, signer, amount)
        PROVE  NoncesKept
    BY <1>3, <1>4 DEF Admit
  <1> QED
    BY <1>1, <1>2, <1>4 DEF Next, CountActiveByWallet, SumActiveAmountSol, CreatePosition,
       UpdatePositionState, Crash, Clock, tables, vars

SameAsk(e, f) ==
    f.wallet = e.wallet /\ f.signer = e.signer /\ f.nonce = e.nonce /\ f.amount = e.amount

\* r passes the signature check with a nonce not used before.
Enters(r) ==
    LET q == req'[r] IN
    /\ ~InCaps(r) /\ positions' = positions
    /\ \A s \in Requests : s # r => req'[s] = req[s]
    /\ q.count = -1 /\ q.total = -1
    /\ q.nonce \in DOMAIN nonces /\ ~nonces[q.nonce].used /\ nonces'[q.nonce].used
    /\ q.signer = q.wallet /\ nonces[q.nonce].wallet = q.wallet

\* r has one more answer of its two queries.
Counts(r) ==
    LET e == req[r]  f == req'[r] IN
    /\ InCaps(r) /\ SameAsk(e, f) /\ positions' = positions
    /\ \A s \in Requests : s # r => req'[s] = req[s]
    /\ \/ e.count = -1 /\ f.count = Cardinality(ActiveOf(e.wallet)) /\ f.total = e.total
       \/ e.total = -1 /\ f.total = SumOf(Active) /\ f.count = e.count

RequestsMove ==
    /\ req' \in [Requests -> CapsType \cup {Idle}]
    /\ \/ \E r \in Requests : Enters(r) \/ Counts(r)
       \/ \A r \in Requests : req'[r] = req[r] \/ req'[r] = Idle

LEMMA RowsFinite ==
    ASSUME Shape, NEW T \in SUBSET DOMAIN positions
    PROVE  IsFiniteSet(T) /\ Cardinality(T) \in Nat /\ Cardinality(T) <= Len(positions)
  <1>1. Len(positions) \in Nat
    BY Rows
  <1>2. T \in SUBSET (1 .. Len(positions))
    BY Rows
  <1> HIDE DEF Shape
  <1>3. /\ IsFiniteSet(1 .. Len(positions))
        /\ Cardinality(1 .. Len(positions)) =
               IF 1 > Len(positions) THEN 0 ELSE Len(positions) - 1 + 1
    BY <1>1, FS_Interval
  <1>4. Cardinality(1 .. Len(positions)) = Len(positions)
    BY <1>1, <1>3
  <1> QED
    BY <1>2, <1>3, <1>4, FS_Subset, FS_CardinalityType

LEMMA ActiveFinite ==
    ASSUME Shape
    PROVE  /\ IsFiniteSet(Active) /\ Cardinality(Active) \in Nat
           /\ Cardinality(Active) <= Len(positions)
           /\ \A w : /\ IsFiniteSet(ActiveOf(w)) /\ Cardinality(ActiveOf(w)) \in Nat
                     /\ Cardinality(ActiveOf(w)) <= Len(positions)
  <1>1. Active \subseteq DOMAIN positions /\ \A w : ActiveOf(w) \subseteq DOMAIN positions
    BY DEF Active, ActiveOf
  <1> QED
    BY <1>1, RowsFinite

LEMMA UnitsFinite ==
    ASSUME NEW S, IsFiniteSet(S), NEW f
    PROVE  IsFiniteSet(UnitsOf(f, S)) /\ Cardinality(UnitsOf(f, S)) \in Nat
  <1>1. MaxPositionSol \in Nat
    BY ApiAssumption
  <1>2. IsFiniteSet(1 .. MaxPositionSol)
    BY <1>1, FS_Interval
  <1>3. IsFiniteSet(S \X (1 .. MaxPositionSol))
    BY <1>2, FS_Product
  <1>4. UnitsOf(f, S) \in SUBSET (S \X (1 .. MaxPositionSol))
    BY DEF UnitsOf
  <1> QED
    BY <1>3, <1>4, FS_Subset, FS_CardinalityType

LEMMA RequestsStep ==
    ASSUME Shape, Clocks, [Next]_vars
    PROVE  RequestsMove
  <1> USE ApiAssumption
  <1>0. \A r \in Requests : req[r] \in CapsType \cup {Idle}
    BY DEF Shape
  <1>1. CASE UNCHANGED req
    BY <1>1 DEF RequestsMove, Shape
  <1>2. ASSUME NEW r \in Requests, NEW w \in Wallets, NEW n \in DOMAIN nonces,
               NEW signer \in Wallets, NEW amount \in Amounts, Admit(r, w, n, signer, amount)
        PROVE  RequestsMove
    <2>1. CASE ~Admitted(w, signer, amount)
      BY <1>1, <1>2, <2>1 DEF Admit
    <2>2. CASE Admitted(w, signer, amount)
      <3> DEFINE e == [Idle EXCEPT !.pc = "caps", !.wallet = w,
                                   !.signer = signer, !.nonce = n, !.amount = amount]
      <3>1. req' = [req EXCEPT ![r] = e] /\ positions' = positions /\ req[r] = Idle
        BY <1>2, <2>2 DEF Admit
      <3>2. n \in 1 .. Len(nonces) /\ n \in Nat /\ nonces[n] \in NonceType
        BY Rows
      <3>3. amount \in Amounts \cap (1 .. MaxPositionSol) /\ signer = w
        BY <2>2 DEF Admitted
      <3>4. /\ e \in CapsType /\ e.wallet = w /\ e.signer = signer /\ e.nonce = n
            /\ e.count = -1 /\ e.total = -1
        <4>1. Idle \in [pc : {"idle"}, wallet : {"none"}, signer : {"none"}, nonce : {0},
                        amount : {0}, count : {-1}, total : {-1}]
          BY DEF Idle
        <4>2. -1 \in Int /\ -1 \in -1 .. MaxPositions
          OBVIOUS
        <4> QED
          BY <3>2, <3>3, <4>1, <4>2 DEF CapsType
      <3> HIDE DEF e
      <3>5. req' \in [Requests -> CapsType \cup {Idle}] /\ req'[r] = e
            /\ \A s \in Requests : s # r => req'[s] = req[s]
        BY <3>1, <3>4 DEF Shape
      <3>6. nonces[n].wallet = w /\ ~nonces[n].used /\ nonces'[n].used
        BY <1>2, <3>2 DEF Admit, Claimable, NonceType
      <3>7. ~InCaps(r)
        BY <3>1 DEF InCaps, Idle
      <3>8. Enters(r)
        BY <3>1, <3>3, <3>4, <3>5, <3>6, <3>7 DEF Enters
      <3> QED
        BY <3>5, <3>8 DEF RequestsMove
    <2> QED
      BY <2>1, <2>2
  <1>3. ASSUME NEW r \in Requests, CountActiveByWallet(r) PROVE RequestsMove
    <2> DEFINE c == Cardinality(ActiveOf(req[r].wallet))
               e == [req[r] EXCEPT !.count = c]
    <2>1. InCaps(r) /\ req[r] \in CapsType /\ req[r].count = -1 /\ positions' = positions
          /\ req' = [req EXCEPT ![r] = e]
      BY <1>3, CapsIsNotIdle DEF CountActiveByWallet, InCaps, tables
    <2>2. c \in -1 .. MaxPositions
      <3>1. c \in Nat /\ c <= Len(positions)
        BY ActiveFinite
      <3>2. Len(positions) \in Nat /\ Len(positions) <= MaxPositions
        BY Rows DEF Shape
      <3> HIDE DEF c
      <3> QED
        BY <3>1, <3>2
    <2> HIDE DEF c
    <2>3. e \in CapsType /\ SameAsk(req[r], e) /\ e.count = c /\ e.total = req[r].total
      BY <2>1, <2>2 DEF CapsType, SameAsk
    <2> HIDE DEF e
    <2>4. req' \in [Requests -> CapsType \cup {Idle}] /\ req'[r] = e
          /\ \A s \in Requests : s # r => req'[s] = req[s]
      BY <2>1, <2>3 DEF Shape
    <2>5. Counts(r)
      BY <2>1, <2>3, <2>4 DEF Counts, c
    <2> QED
      BY <2>4, <2>5 DEF RequestsMove
  <1>4. ASSUME NEW r \in Requests, SumActiveAmountSol(r) PROVE RequestsMove
    <2> DEFINE t == SumOf(Active)
               e == [req[r] EXCEPT !.total = t]
    <2>1. InCaps(r) /\ req[r] \in CapsType /\ req[r].total = -1 /\ positions' = positions
          /\ req' = [req EXCEPT ![r] = e]
      BY <1>4, CapsIsNotIdle DEF SumActiveAmountSol, InCaps, tables
    <2>2. t \in Int
      BY ActiveFinite, UnitsFinite DEF SumOf
    <2> HIDE DEF t
    <2>3. e \in CapsType /\ SameAsk(req[r], e) /\ e.total = t /\ e.count = req[r].count
      BY <2>1, <2>2 DEF CapsType, SameAsk
    <2> HIDE DEF e
    <2>4. req' \in [Requests -> CapsType \cup {Idle}] /\ req'[r] = e
          /\ \A s \in Requests : s # r => req'[s] = req[s]
      BY <2>1, <2>3 DEF Shape
    <2>5. Counts(r)
      BY <2>1, <2>3, <2>4 DEF Counts, t
    <2> QED
      BY <2>4, <2>5 DEF RequestsMove
  <1>5. ASSUME NEW r \in Requests, CreatePosition(r) PROVE RequestsMove
    <2>1. req' = [req EXCEPT ![r] = Idle]
      BY <1>5 DEF CreatePosition
    <2> QED
      BY <2>1 DEF RequestsMove, Shape
  <1>6. CASE Crash
    BY <1>6 DEF Crash, RequestsMove
  <1> QED
    BY <1>1, <1>2, <1>3, <1>4, <1>5, <1>6 DEF Next, IssueAuthNonce,
       UpdatePositionState, Clock, vars

-----------------------------------------------------------------------------
(* One nonce, one row.                                                     *)

LEMMA ShapeStep ==
    ASSUME Shape, Clocks, [Next]_vars
    PROVE  Shape'
  <1>1. positions' \in Seq(PosType) /\ Len(positions') <= MaxPositions
    <2>1. CASE RowsKept
      BY <2>1 DEF RowsKept, Shape
    <2>2. ASSUME NEW r \in Requests, RowAdded(r)
          PROVE  positions' \in Seq(PosType) /\ Len(positions') <= MaxPositions
      BY <2>2, Rows, ApiAssumption DEF RowAdded
    <2> QED
      BY <2>1, <2>2, RowsStep
  <1>2. nonces' \in Seq(NonceType) /\ req' \in [Requests -> CapsType \cup {Idle}]
    BY NoncesStep, RequestsStep DEF NoncesKept, RequestsMove
  <1> QED
    BY <1>1, <1>2 DEF Shape

\* What backs a row or a request goes on backing it.
LEMMA BackedStays ==
    ASSUME Shape, NoncesKept, NEW p, Backed(p), NEW q,
           q.nonce = p.nonce, q.signer = p.signer, q.wallet = p.wallet
    PROVE  Backed(q)'
  <1>1. /\ DOMAIN nonces = 1 .. Len(nonces) /\ DOMAIN nonces' = 1 .. Len(nonces')
        /\ Len(nonces) \in Nat /\ Len(nonces') \in Nat
    BY Rows, LenProperties DEF NoncesKept
  <1> QED
    BY <1>1 DEF Backed, NoncesKept

\* A request that counts, before a step and after it.
LEMMA AskStep ==
    ASSUME Shape, Shape', RequestsMove, NEW r \in Requests, InCaps(r)'
    PROVE  Enters(r) \/ (InCaps(r) /\ SameAsk(req[r], req'[r]))
  <1>1. ASSUME NEW s \in Requests, Enters(s) \/ Counts(s)
        PROVE  Enters(r) \/ (InCaps(r) /\ SameAsk(req[r], req'[r]))
    <2>1. CASE s = r
      BY <1>1, <2>1 DEF Counts
    <2>2. CASE s # r
      <3>1. req'[r] = req[r]
        BY <1>1, <2>2 DEF Enters, Counts
      <3> QED
        BY <3>1 DEF InCaps, SameAsk
    <2> QED
      BY <2>1, <2>2
  <1>2. CASE \A s \in Requests : req'[s] = req[s] \/ req'[s] = Idle
    <2>1. req'[r] = req[r]
      BY <1>2 DEF InCaps, Idle
    <2> QED
      BY <2>1 DEF InCaps, SameAsk
  <1> QED
    BY <1>1, <1>2 DEF RequestsMove

\* A row, before a step and after it.
LEMMA RowStep ==
    ASSUME Shape, Clocks, [Next]_vars, NEW i \in DOMAIN positions'
    PROVE  \/ i \in DOMAIN positions /\ SameRow(positions[i], positions'[i])
           \/ \E r \in Requests : RowAdded(r) /\ i = Len(positions) + 1
  <1>1. CASE RowsKept
    <2>1. DOMAIN positions' = 1 .. Len(positions')
      BY <1>1, LenProperties DEF RowsKept
    <2> QED
      BY <1>1, <2>1, Rows DEF RowsKept
  <1>2. ASSUME NEW r \in Requests, RowAdded(r), i # Len(positions) + 1
        PROVE  i \in DOMAIN positions /\ SameRow(positions[i], positions'[i])
    <2>1. DOMAIN positions' = 1 .. Len(positions')
      BY <1>2, LenProperties DEF RowAdded
    <2>2. i \in 1 .. Len(positions)
      BY <1>2, <2>1, Rows DEF RowAdded
    <2> QED
      BY <1>2, <2>2, Rows DEF RowAdded, SameRow
  <1> QED
    BY <1>1, <1>2, RowsStep

LEMMA OneUseStep ==
    ASSUME Shape, Clocks, Signed, OneUse, [Next]_vars
    PROVE  Signed' /\ OneUse'
  <1>1. Shape' /\ NoncesKept /\ RequestsMove
    BY ShapeStep, NoncesStep, RequestsStep
  <1>2. ASSUME NEW r \in Requests, InCaps(r)' PROVE Backed(req[r])'
    <2>1. CASE Enters(r)
      <3>1. DOMAIN nonces \subseteq DOMAIN nonces' /\ DOMAIN nonces = 1 .. Len(nonces)
        BY <1>1, Rows, LenProperties DEF NoncesKept
      <3> QED
        BY <2>1, <3>1, <1>1 DEF Enters, Backed, NoncesKept
    <2>2. CASE InCaps(r) /\ SameAsk(req[r], req'[r])
      <3>1. Backed(req[r])
        BY <2>2 DEF Signed
      <3> QED
        BY <1>1, <2>2, <3>1, BackedStays DEF SameAsk, Backed
    <2> QED
      BY <1>1, <1>2, <2>1, <2>2, AskStep
  <1>3. ASSUME NEW r \in Requests, RowAdded(r)
        PROVE  /\ positions'[Len(positions) + 1] = NewRow(r)
               /\ NewRow(r).nonce = req[r].nonce /\ NewRow(r).signer = req[r].signer
               /\ NewRow(r).wallet = req[r].wallet
               /\ InCaps(r) /\ Backed(req[r]) /\ ~InCaps(r)'
    BY <1>3 DEF RowAdded, NewRow, Signed, InCaps, Idle, Shape
  <1>4. ASSUME NEW i \in DOMAIN positions' PROVE Backed(positions[i])'
    <2>1. CASE i \in DOMAIN positions /\ SameRow(positions[i], positions'[i])
      <3>1. Backed(positions[i])
        BY <2>1 DEF Signed
      <3> QED
        BY <1>1, <2>1, <3>1, BackedStays DEF SameRow, Backed
    <2>2. ASSUME NEW r \in Requests, RowAdded(r), i = Len(positions) + 1
          PROVE  Backed(positions[i])'
      BY <1>1, <1>3, <2>2, BackedStays DEF Backed
    <2> QED
      BY <2>1, <2>2, RowStep
  <1>5. ASSUME NEW i \in DOMAIN positions', NEW j \in DOMAIN positions', i # j
        PROVE  positions'[i].nonce # positions'[j].nonce
    <2> DEFINE Old(k) == k \in DOMAIN positions /\ SameRow(positions[k], positions'[k])
               Added(k) == \E r \in Requests : RowAdded(r) /\ k = Len(positions) + 1
    <2>1. (Old(i) \/ Added(i)) /\ (Old(j) \/ Added(j))
      BY RowStep
    <2>2. ASSUME NEW k \in DOMAIN positions', NEW l \in DOMAIN positions', Old(k), Added(l)
          PROVE  positions'[k].nonce # positions'[l].nonce
      BY <1>3, <2>2 DEF SameRow, OneUse
    <2>3. CASE Old(i) /\ Old(j)
      BY <2>3, <1>5 DEF SameRow, OneUse
    <2> QED
      BY <1>5, <2>1, <2>2, <2>3
  <1>6. ASSUME NEW q \in Requests, NEW r \in Requests, q # r, InCaps(q)', InCaps(r)'
        PROVE  req'[q].nonce # req'[r].nonce
    <2>1. ASSUME NEW a \in Requests, NEW b \in Requests, a # b, Enters(a), InCaps(b)'
          PROVE  req'[a].nonce # req'[b].nonce
      <3>1. req'[b] = req[b] /\ InCaps(b)
        BY <2>1 DEF Enters, InCaps
      <3>2. nonces[req[b].nonce].used
        BY <3>1 DEF Signed, Backed
      <3> QED
        BY <2>1, <3>1, <3>2 DEF Enters
    <2>2. CASE InCaps(q) /\ SameAsk(req[q], req'[q]) /\ InCaps(r) /\ SameAsk(req[r], req'[r])
      BY <1>6, <2>2 DEF SameAsk, OneUse
    <2> QED
      BY <1>1, <1>6, <2>1, <2>2, AskStep
  <1>7. ASSUME NEW r \in Requests, NEW i \in DOMAIN positions', InCaps(r)'
        PROVE  req'[r].nonce # positions'[i].nonce
    <2>1. CASE Enters(r)
      <3>1. i \in DOMAIN positions /\ positions'[i] = positions[i]
        BY <2>1 DEF Enters
      <3>2. nonces[positions[i].nonce].used
        BY <3>1 DEF Signed, Backed
      <3> QED
        BY <2>1, <3>1, <3>2 DEF Enters
    <2>2. CASE InCaps(r) /\ SameAsk(req[r], req'[r])
      <3>1. CASE i \in DOMAIN positions /\ SameRow(positions[i], positions'[i])
        BY <2>2, <3>1 DEF SameAsk, SameRow, OneUse
      <3>2. ASSUME NEW s \in Requests, RowAdded(s), i = Len(positions) + 1
            PROVE  req'[r].nonce # positions'[i].nonce
        BY <1>3, <1>7, <2>2, <3>2 DEF SameAsk, OneUse
      <3> QED
        BY <3>1, <3>2, RowStep
    <2> QED
      BY <1>1, <1>7, <2>1, <2>2, AskStep
  <1>8. Signed'
    BY <1>2, <1>4 DEF Signed
  <1>9. OneUse'
    BY <1>5, <1>6, <1>7 DEF OneUse
  <1> QED
    BY <1>8, <1>9

-----------------------------------------------------------------------------
(* Time.                                                                   *)

LEMMA ClocksStep ==
    ASSUME Clocks, [Next]_vars
    PROVE  Clocks'
  <1>1. CASE Clock
    BY <1>1, ApiAssumption DEF Clock, Clocks
  <1>2. CASE now' = now
    BY <1>2 DEF Clocks
  <1> QED
    BY <1>1, <1>2 DEF Next, IssueAuthNonce, Admit, CountActiveByWallet, SumActiveAmountSol,
       CreatePosition, UpdatePositionState, Crash, vars

-----------------------------------------------------------------------------
(* Sums of amounts.                                                        *)

LEMMA UnitsMonotone ==
    ASSUME NEW S, NEW T, IsFiniteSet(T), S \subseteq T, NEW f, NEW g,
           \A x \in S : f[x] = g[x]
    PROVE  Cardinality(UnitsOf(f, S)) <= Cardinality(UnitsOf(g, T))
  <1>1. UnitsOf(f, S) \in SUBSET UnitsOf(g, T)
    BY DEF UnitsOf
  <1> QED
    BY <1>1, UnitsFinite, FS_Subset

\* Fresh rows are among the active ones, which the requests count.
LEMMA FreshFinite ==
    ASSUME Shape
    PROVE  /\ IsFiniteSet(Fresh) /\ SumOf(Fresh) \in Nat /\ SumOf(Active) \in Nat
           /\ SumOf(Fresh) <= SumOf(Active)
           /\ \A w : /\ IsFiniteSet(FreshOf(w)) /\ Cardinality(FreshOf(w)) \in Nat
                     /\ Cardinality(ActiveOf(w)) \in Nat
                     /\ Cardinality(FreshOf(w)) <= Cardinality(ActiveOf(w))
  <1>1. Fresh \subseteq Active /\ \A w : FreshOf(w) \subseteq ActiveOf(w)
    BY DEF Fresh, FreshOf
  <1>2. IsFiniteSet(Active) /\ \A w : IsFiniteSet(ActiveOf(w))
    BY ActiveFinite
  <1>3. IsFiniteSet(Fresh) /\ \A w : IsFiniteSet(FreshOf(w))
    BY <1>1, <1>2, FS_Subset
  <1>4. SumOf(Fresh) <= SumOf(Active)
    BY <1>1, <1>2, UnitsMonotone DEF SumOf
  <1>5. SumOf(Fresh) \in Nat /\ SumOf(Active) \in Nat
    BY <1>2, <1>3, UnitsFinite DEF SumOf
  <1> QED
    BY <1>1, <1>2, <1>3, <1>4, <1>5, FS_Subset, FS_CardinalityType

LEMMA AddOne ==
    ASSUME NEW S, IsFiniteSet(S), NEW x
    PROVE  IsFiniteSet(S \cup {x}) /\ Cardinality(S \cup {x}) <= Cardinality(S) + 1
  <1>1. Cardinality(S) \in Nat
    BY FS_CardinalityType
  <1>2. IsFiniteSet(S \cup {x})
    BY FS_AddElement
  <1>3. Cardinality(S \cup {x}) = IF x \in S THEN Cardinality(S) ELSE Cardinality(S) + 1
    BY FS_AddElement
  <1> QED
    BY <1>1, <1>2, <1>3

LEMMA DisjointUnion ==
    ASSUME NEW S, NEW T, IsFiniteSet(S), IsFiniteSet(T), S \cap T = {}
    PROVE  Cardinality(S \cup T) = Cardinality(S) + Cardinality(T)
  <1>1. Cardinality(S) \in Nat /\ Cardinality(T) \in Nat /\ Cardinality(S \cap T) = 0
    BY FS_CardinalityType, FS_EmptySet
  <1>2. Cardinality(S \cup T) = Cardinality(S) + Cardinality(T) - Cardinality(S \cap T)
    BY FS_Union
  <1> QED
    BY <1>1, <1>2

LEMMA UnitsAdd ==
    ASSUME NEW S, IsFiniteSet(S), NEW x, x \notin S, NEW f, f[x] \in 1 .. MaxPositionSol
    PROVE  Cardinality(UnitsOf(f, S \cup {x})) = Cardinality(UnitsOf(f, S)) + f[x]
  <1> DEFINE n == f[x]
             New == {x} \X (1 .. n)
  <1>1. n \in Nat /\ n >= 1 /\ MaxPositionSol \in Nat
    BY ApiAssumption
  <1>2. 1 .. n \subseteq 1 .. MaxPositionSol
    BY <1>1, ApiAssumption
  <1> HIDE DEF n
  <1>3. IsFiniteSet(1 .. n) /\ Cardinality(1 .. n) = n
    BY <1>1, FS_Interval
  <1>4. IsFiniteSet({x}) /\ Cardinality({x}) = 1
    BY FS_Singleton
  <1>5. IsFiniteSet(New) /\ Cardinality(New) = n
    BY <1>1, <1>3, <1>4, FS_Product
  <1>6. UnitsOf(f, S \cup {x}) = UnitsOf(f, S) \cup New
    <2>1. ASSUME NEW y \in S \cup {x}, NEW k \in 1 .. MaxPositionSol, k <= f[y]
          PROVE  <<y, k>> \in UnitsOf(f, S) \cup New
      BY <2>1, <1>1 DEF UnitsOf, n
    <2>2. UnitsOf(f, S \cup {x}) \subseteq UnitsOf(f, S) \cup New
      BY <2>1 DEF UnitsOf
    <2>3. New \subseteq UnitsOf(f, S \cup {x})
      BY <1>2 DEF UnitsOf, n
    <2>4. UnitsOf(f, S) \subseteq UnitsOf(f, S \cup {x})
      BY DEF UnitsOf
    <2> QED
      BY <2>2, <2>3, <2>4
  <1>7. UnitsOf(f, S) \cap New = {}
    BY DEF UnitsOf
  <1> HIDE DEF New
  <1>8. IsFiniteSet(UnitsOf(f, S)) /\ Cardinality(UnitsOf(f, S)) \in Nat
    BY UnitsFinite
  <1>9. Cardinality(UnitsOf(f, S) \cup New) = Cardinality(UnitsOf(f, S)) + n
    BY <1>5, <1>7, <1>8, DisjointUnion
  <1> QED
    BY <1>6, <1>9 DEF n

LEMMA UnitsBound ==
    ASSUME NEW S, IsFiniteSet(S), NEW f
    PROVE  Cardinality(UnitsOf(f, S)) <= Cardinality(S) * MaxPositionSol
  <1>1. MaxPositionSol \in Nat
    BY ApiAssumption
  <1>2. IsFiniteSet(1 .. MaxPositionSol) /\ Cardinality(1 .. MaxPositionSol) = MaxPositionSol
    BY <1>1, FS_Interval
  <1>3. /\ IsFiniteSet(S \X (1 .. MaxPositionSol))
        /\ Cardinality(S \X (1 .. MaxPositionSol)) = Cardinality(S) * MaxPositionSol
    BY <1>2, FS_Product
  <1>4. UnitsOf(f, S) \in SUBSET (S \X (1 .. MaxPositionSol))
    BY DEF UnitsOf
  <1> QED
    BY <1>3, <1>4, FS_Subset

LEMMA TimesMonotone ==
    ASSUME NEW a \in Nat, NEW b \in Nat, NEW c \in Nat, a <= b
    PROVE  a * c <= b * c /\ a * c \in Nat /\ b * c \in Nat
  OBVIOUS

-----------------------------------------------------------------------------
(* The caps.                                                               *)

LEMMA RequestsFinite ==
    ASSUME NEW S \in SUBSET Requests
    PROVE  /\ IsFiniteSet(S) /\ Cardinality(S) \in Nat
           /\ Cardinality(S) <= Others + 1 /\ Others \in Nat
           /\ \A r \in S : Cardinality(S \ {r}) = Cardinality(S) - 1
                           /\ Cardinality(S \ {r}) <= Others
  <1>1. IsFiniteSet(Requests) /\ Requests # {} /\ Cardinality(Requests) \in Nat
    BY ApiAssumption, FS_CardinalityType
  <1>2. Cardinality(Requests) # 0
    BY <1>1, FS_EmptySet
  <1>3. IsFiniteSet(S) /\ Cardinality(S) \in Nat /\ Cardinality(S) <= Cardinality(Requests)
    BY <1>1, FS_Subset, FS_CardinalityType
  <1>4. \A r \in S : Cardinality(S \ {r}) = Cardinality(S) - 1
    BY <1>3, FS_RemoveElement
  <1> QED
    BY <1>1, <1>2, <1>3, <1>4 DEF Others

\* Where no row is added, nothing becomes fresh and no amount changes.
LEMMA FreshKept ==
    ASSUME Shape, RowsKept
    PROVE  /\ Fresh' \subseteq Fresh
           /\ \A w : FreshOf(w)' \subseteq FreshOf(w)
           /\ \A i \in Fresh' : AmountOf'[i] = AmountOf[i]
  <1>1. DOMAIN positions' = DOMAIN positions /\ DOMAIN positions = 1 .. Len(positions)
    BY Rows, LenProperties DEF RowsKept
  <1>2. ASSUME NEW i \in Fresh'
        PROVE  /\ i \in Fresh /\ positions'[i].wallet = positions[i].wallet
               /\ AmountOf'[i] = AmountOf[i]
    <2>1. /\ i \in DOMAIN positions' /\ positions'[i].state \notin Terminal
          /\ positions'[i].state # "revived"
      BY <1>2 DEF Fresh, Revived, Active
    <2>2. positions'[i] \in PosType /\ SameRow(positions[i], positions'[i])
      BY <1>1, <2>1, ElementOfSeq DEF RowsKept
    <2>3. positions'[i].state = "open"
      BY <2>1, <2>2 DEF PosType, Terminal
    <2>4. positions[i].state = "open"
      BY <2>2, <2>3 DEF SameRow
    <2> QED
      BY <1>1, <2>1, <2>2, <2>4 DEF Fresh, Revived, Active, Terminal, SameRow, AmountOf
  <1> QED
    BY <1>2 DEF Fresh, FreshOf, ActiveOf

\* Where r's row is added, it alone becomes fresh.
LEMMA FreshGrows ==
    ASSUME Shape, NEW r \in Requests, RowAdded(r)
    PROVE  LET n == Len(positions) + 1 IN
           /\ n \notin Fresh
           /\ Fresh' \subseteq Fresh \cup {n}
           /\ \A w : /\ FreshOf(w)' \subseteq FreshOf(w) \cup {n}
                     /\ w # req[r].wallet => FreshOf(w)' \subseteq FreshOf(w)
           /\ \A i \in Fresh : AmountOf'[i] = AmountOf[i]
           /\ AmountOf'[n] = req[r].amount
  <1> DEFINE n == Len(positions) + 1
  <1>1. /\ Len(positions) \in Nat /\ DOMAIN positions = 1 .. Len(positions)
        /\ DOMAIN positions' = 1 .. n
    BY Rows, LenProperties DEF RowAdded
  <1>2. \A i \in DOMAIN positions' : i = n \/ i \in DOMAIN positions
    BY <1>1
  <1>3. \A i \in DOMAIN positions : positions'[i] = positions[i]
    BY <1>1 DEF RowAdded
  <1>4. /\ positions'[n].wallet = req[r].wallet /\ positions'[n].amount = req[r].amount
        /\ n \in DOMAIN positions' /\ n \notin DOMAIN positions
    BY <1>1 DEF RowAdded, NewRow
  <1>5. DOMAIN positions \subseteq DOMAIN positions'
    BY <1>1
  <1> HIDE DEF n
  <1>6. n \notin Fresh /\ Fresh' \subseteq Fresh \cup {n}
    BY <1>2, <1>3, <1>4 DEF Fresh, Revived, Active
  <1>7. ASSUME NEW w
        PROVE  /\ FreshOf(w)' \subseteq FreshOf(w) \cup {n}
               /\ w # req[r].wallet => FreshOf(w)' \subseteq FreshOf(w)
    BY <1>2, <1>3, <1>4, <1>6 DEF FreshOf, ActiveOf, Fresh, Active
  <1>8. \A i \in Fresh : AmountOf'[i] = AmountOf[i]
    BY <1>3, <1>5 DEF Fresh, Active, AmountOf
  <1>9. AmountOf'[n] = req[r].amount
    BY <1>4 DEF AmountOf
  <1> QED
    BY <1>6, <1>7, <1>8, <1>9 DEF n

LEMMA FreshFiniteStep ==
    ASSUME Shape, Clocks, [Next]_vars
    PROVE  /\ IsFiniteSet(Fresh')
           /\ \A w : IsFiniteSet(FreshOf(w)') /\ Cardinality(FreshOf(w)') \in Nat
  <1>1. PICK n : Fresh' \subseteq Fresh \cup {n} /\ \A w : FreshOf(w)' \subseteq FreshOf(w) \cup {n}
    BY RowsStep, FreshKept, FreshGrows
  <1>2. ASSUME NEW S, IsFiniteSet(S), NEW T, T \subseteq S \cup {n}
        PROVE  IsFiniteSet(T) /\ Cardinality(T) \in Nat
    <2>1. IsFiniteSet(S \cup {n})
      BY <1>2, FS_AddElement
    <2> QED
      BY <1>2, <2>1, FS_Subset, FS_CardinalityType
  <1> QED
    BY <1>1, <1>2, FreshFinite

\* The requests that pass after a step passed before it, or have counted in it.
LEMMA PassingStep ==
    ASSUME Shape, RequestsMove, NEW r \in Requests
    PROVE  /\ \A w : r \in Passing(w)' =>
                  \/ r \in Passing(w) /\ req'[r].amount = req[r].amount
                  \/ /\ Counts(r) /\ req[r].wallet = w
                     /\ Cardinality(ActiveOf(w)) < MaxPositionsPerWallet
           /\ r \in PassingSum' =>
                  \/ r \in PassingSum /\ req'[r].amount = req[r].amount
                  \/ Counts(r) /\ SumOf(Active) + req'[r].amount <= MaxGlobalTvl
  <1>1. CASE req'[r] = req[r] \/ req'[r] = Idle
    BY <1>1 DEF Passing, PassingSum, InCaps, Idle
  <1>2. CASE Enters(r)
    BY <1>2 DEF Enters, Passing, PassingSum
  <1>3. CASE Counts(r)
    BY <1>3 DEF Counts, Passing, PassingSum, InCaps, SameAsk
  <1>4. ASSUME NEW s \in Requests, s # r, Enters(s) \/ Counts(s) PROVE req'[r] = req[r]
    BY <1>4 DEF Enters, Counts
  <1> QED
    BY <1>1, <1>2, <1>3, <1>4 DEF RequestsMove


LEMMA CountStep ==
    ASSUME Shape, Clocks, Signed, CountBound, [Next]_vars
    PROVE  CountBound'
  <1> USE ApiAssumption
  <1>1. RequestsMove
    BY RequestsStep
  <1> SUFFICES ASSUME NEW w \in Wallets
               PROVE  Cardinality(FreshOf(w)') + Cardinality(Passing(w)')
                          <= MaxPositionsPerWallet + Others
    BY DEF CountBound, Others
  <1>2. /\ Cardinality(FreshOf(w)) + Cardinality(Passing(w)) <= MaxPositionsPerWallet + Others
        /\ IsFiniteSet(FreshOf(w)) /\ Cardinality(FreshOf(w)) \in Nat
        /\ IsFiniteSet(FreshOf(w)') /\ Cardinality(FreshOf(w)') \in Nat
    BY FreshFinite, FreshFiniteStep DEF CountBound
  <1>3. /\ Passing(w) \in SUBSET Requests /\ Passing(w)' \in SUBSET Requests
        /\ IsFiniteSet(Passing(w)) /\ Cardinality(Passing(w)) \in Nat
        /\ IsFiniteSet(Passing(w)') /\ Cardinality(Passing(w)') \in Nat
        /\ Cardinality(Passing(w)') <= Others + 1 /\ Others \in Nat
    <2>1. Passing(w) \in SUBSET Requests /\ Passing(w)' \in SUBSET Requests
      BY DEF Passing
    <2> QED
      BY <2>1, RequestsFinite
  <1>4. CASE RowsKept
    <2>1. Cardinality(FreshOf(w)') <= Cardinality(FreshOf(w))
      BY <1>2, <1>4, FreshKept, FS_Subset
    <2>2. CASE Passing(w)' \subseteq Passing(w)
      <3>1. Cardinality(Passing(w)') <= Cardinality(Passing(w))
        BY <1>3, <2>2, FS_Subset
      <3> QED
        BY <1>2, <1>3, <2>1, <3>1
    <2>3. CASE ~(Passing(w)' \subseteq Passing(w))
      <3>1. Cardinality(FreshOf(w)) < MaxPositionsPerWallet
        <4>1. Cardinality(ActiveOf(w)) < MaxPositionsPerWallet
          BY <1>1, <1>3, <2>3, PassingStep
        <4> QED
          BY <4>1, FreshFinite
      <3> QED
        BY <1>2, <1>3, <2>1, <3>1
    <2> QED
      BY <2>2, <2>3
  <1>5. ASSUME NEW r \in Requests, RowAdded(r)
        PROVE  Cardinality(FreshOf(w)') + Cardinality(Passing(w)')
                          <= MaxPositionsPerWallet + Others
    <2>1. Passing(w)' \subseteq Passing(w) \ {r}
      <3>1. req' = [req EXCEPT ![r] = Idle]
        BY <1>5 DEF RowAdded
      <3>2. \A s \in Requests : s # r => req'[s] = req[s]
        BY <3>1
      <3>3. req'[r] = Idle
        BY <3>1 DEF Shape
      <3> QED
        BY <3>2, <3>3 DEF Passing, InCaps, Idle
    <2>2. CASE w = req[r].wallet
      <3> DEFINE n == Len(positions) + 1
      <3>1. FreshOf(w)' \subseteq FreshOf(w) \cup {n}
        BY <1>5, FreshGrows
      <3>2. Cardinality(FreshOf(w)') <= Cardinality(FreshOf(w)) + 1
        <4> HIDE DEF n
        <4>1. /\ IsFiniteSet(FreshOf(w) \cup {n})
              /\ Cardinality(FreshOf(w) \cup {n}) <= Cardinality(FreshOf(w)) + 1
          BY <1>2, AddOne
        <4>2. Cardinality(FreshOf(w)') <= Cardinality(FreshOf(w) \cup {n})
          BY <3>1, <4>1, FS_Subset
        <4>3. Cardinality(FreshOf(w) \cup {n}) \in Nat
          BY <4>1, FS_CardinalityType
        <4> QED
          BY <1>2, <4>1, <4>2, <4>3
      <3>3. r \in Passing(w)
        BY <1>5, <2>2 DEF RowAdded, Passing, WithinCaps
      <3>4. Cardinality(Passing(w)') <= Cardinality(Passing(w)) - 1
        <4>1. IsFiniteSet(Passing(w) \ {r}) /\ Cardinality(Passing(w) \ {r}) = Cardinality(Passing(w)) - 1
          BY <1>3, <3>3, FS_RemoveElement
        <4>2. Cardinality(Passing(w)') <= Cardinality(Passing(w) \ {r})
          BY <2>1, <4>1, FS_Subset
        <4> QED
          BY <4>1, <4>2
      <3> QED
        BY <1>2, <1>3, <3>2, <3>4
    <2>3. CASE w # req[r].wallet
      <3>1. Cardinality(FreshOf(w)') <= Cardinality(FreshOf(w))
        BY <1>2, <1>5, <2>3, FreshGrows, FS_Subset
      <3>2. Cardinality(Passing(w)') <= Cardinality(Passing(w))
        BY <1>3, <2>1, FS_Subset
      <3> QED
        BY <1>2, <1>3, <3>1, <3>2
    <2> QED
      BY <2>2, <2>3
  <1> QED
    BY <1>4, <1>5, RowsStep

LEMMA AmountStep ==
    ASSUME Shape, Clocks, AmountBound, [Next]_vars
    PROVE  AmountBound'
  <1> USE ApiAssumption
  <1> DEFINE A == SumOf(Fresh)
             P == PassingSum
             U == Cardinality(UnitsOf(AskOf, PassingSum))
             M == MaxPositionSol
  <1>1. RequestsMove /\ Shape'
    BY RequestsStep, ShapeStep
  <1>2. IsFiniteSet(Fresh) /\ IsFiniteSet(Fresh') /\ A \in Nat /\ A' \in Nat
    <2>1. IsFiniteSet(Fresh) /\ IsFiniteSet(Fresh')
      BY FreshFinite, FreshFiniteStep
    <2>2. \A f : /\ Cardinality(UnitsOf(f, Fresh)) \in Nat
                 /\ Cardinality(UnitsOf(f, Fresh')) \in Nat
      BY <2>1, UnitsFinite
    <2> QED
      BY <2>1, <2>2 DEF SumOf
  <1>3. P \in SUBSET Requests /\ P' \in SUBSET Requests
    BY DEF PassingSum
  <1>4. /\ IsFiniteSet(P) /\ IsFiniteSet(P') /\ U \in Nat /\ U' \in Nat
        /\ Others \in Nat /\ M \in Nat /\ MaxGlobalTvl \in Nat
        /\ Others * M \in Nat
    <2>1. IsFiniteSet(P) /\ IsFiniteSet(P') /\ Others \in Nat
      BY <1>3, RequestsFinite
    <2>2. U \in Nat /\ U' \in Nat
      BY <2>1, UnitsFinite
    <2> QED
      BY <2>1, <2>2, TimesMonotone
  <1>5. A + U <= MaxGlobalTvl + Others * M
    BY DEF AmountBound
  <1>6. \A r \in Requests : AskOf[r] = req[r].amount /\ AskOf'[r] = req'[r].amount
    BY DEF AskOf
  <1> SUFFICES A' + U' <= MaxGlobalTvl + Others * M
    BY DEF AmountBound, Others
  <1>7. CASE RowsKept
    <2>1. A' <= A
      <3>1. /\ Fresh' \subseteq Fresh
            /\ \A i \in Fresh' : AmountOf'[i] = AmountOf[i]
        BY <1>7, FreshKept
      <3> QED
        BY <1>2, <3>1, UnitsMonotone DEF SumOf
    <2>2. CASE \A r \in P' : r \in P /\ req'[r].amount = req[r].amount
      <3>1. P' \subseteq P /\ \A r \in P' : AskOf'[r] = AskOf[r]
        BY <1>3, <1>6, <2>2
      <3>2. U' <= U
        BY <1>4, <3>1, UnitsMonotone
      <3> QED
        BY <1>2, <1>4, <1>5, <2>1, <3>2
    <2>3. CASE ~\A r \in P' : r \in P /\ req'[r].amount = req[r].amount
      <3>1. PICK r \in P' : A + req'[r].amount <= MaxGlobalTvl
        <4>1. PICK r \in P' : SumOf(Active) + req'[r].amount <= MaxGlobalTvl
          BY <1>1, <1>3, <2>3, PassingStep
        <4>2. req'[r].amount \in 1 .. M
          BY <1>1, <1>3, <4>1 DEF Shape, PassingSum, InCaps, CapsType, Idle
        <4> QED
          BY <1>4, <4>1, <4>2, FreshFinite
      <3>2. AskOf'[r] = req'[r].amount /\ req'[r].amount \in 1 .. M
        BY <1>1, <1>3, <1>6, <3>1 DEF Shape, PassingSum, InCaps, CapsType, Idle
      <3> DEFINE Q == P' \ {r}
                 V == Cardinality(UnitsOf(AskOf', Q))
      <3>3. IsFiniteSet(Q) /\ Cardinality(Q) \in Nat /\ Cardinality(Q) <= Others
        BY <1>3, <1>4, <3>1, RequestsFinite, FS_RemoveElement
      <3>4. V <= Others * M /\ V \in Nat
        <4> HIDE DEF Q
        <4>1. V <= Cardinality(Q) * M /\ V \in Nat
          BY <3>3, UnitsBound, UnitsFinite
        <4>2. Cardinality(Q) * M <= Others * M /\ Cardinality(Q) * M \in Nat
          BY <1>4, <3>3, TimesMonotone
        <4> HIDE DEF V
        <4> QED
          BY <1>4, <4>1, <4>2
      <3>5. U' = V + req'[r].amount
        <4>1. P' = Q \cup {r} /\ r \notin Q
          BY <3>1
        <4> HIDE DEF Q
        <4>2. Cardinality(UnitsOf(AskOf', Q \cup {r})) = V + AskOf'[r]
          BY <3>2, <3>3, <4>1, UnitsAdd
        <4> QED
          BY <3>2, <4>1, <4>2
      <3> HIDE DEF V, A, U
      <3> QED
        BY <1>2, <1>4, <2>1, <3>1, <3>2, <3>4, <3>5
    <2> QED
      BY <2>2, <2>3
  <1>8. ASSUME NEW r \in Requests, RowAdded(r)
        PROVE  A' + U' <= MaxGlobalTvl + Others * M
    <2>1. InCaps(r) /\ req[r] \in CapsType /\ req[r].amount \in 1 .. M /\ r \in P
      BY <1>8, CapsIsNotIdle DEF RowAdded, PassingSum, WithinCaps, CapsType
    <2>2. A' <= A + req[r].amount
      <3> DEFINE n == Len(positions) + 1
      <3>1. /\ n \notin Fresh /\ Fresh' \subseteq Fresh \cup {n}
            /\ \A i \in Fresh : AmountOf'[i] = AmountOf[i]
            /\ AmountOf'[n] = req[r].amount
        BY <1>8, FreshGrows
      <3> HIDE DEF n
      <3> DEFINE B == Cardinality(UnitsOf(AmountOf', Fresh))
                 C == Cardinality(UnitsOf(AmountOf', Fresh \cup {n}))
      <3>2. C = B + req[r].amount
        BY <1>2, <2>1, <3>1, UnitsAdd
      <3>3. B <= A
        BY <1>2, <3>1, UnitsMonotone DEF SumOf
      <3>4. IsFiniteSet(Fresh \cup {n})
        BY <1>2, FS_AddElement
      <3>5. A' <= C
        BY <3>1, <3>4, UnitsMonotone DEF SumOf
      <3>6. B \in Nat /\ C \in Nat
        BY <1>2, <3>4, UnitsFinite
      <3> HIDE DEF B, C, A
      <3> QED
        BY <1>2, <2>1, <3>2, <3>3, <3>5, <3>6
    <2>3. U' + req[r].amount <= U
      <3> DEFINE Q == P \ {r}
                 V == Cardinality(UnitsOf(AskOf, Q))
      <3>1. req' = [req EXCEPT ![r] = Idle]
        BY <1>8 DEF RowAdded
      <3>2. req'[r] = Idle /\ \A s \in Requests : s # r => req'[s] = req[s]
        BY <3>1 DEF Shape
      <3>3. P' \subseteq Q /\ \A s \in P' : AskOf'[s] = AskOf[s]
        BY <1>6, <3>2 DEF PassingSum, InCaps, Idle
      <3>4. P = Q \cup {r} /\ r \notin Q /\ IsFiniteSet(Q)
        BY <1>4, <2>1, FS_RemoveElement
      <3> HIDE DEF Q
      <3>5. Cardinality(UnitsOf(AskOf, Q \cup {r})) = V + AskOf[r]
        BY <1>6, <2>1, <3>4, UnitsAdd
      <3>6. U = V + req[r].amount
        BY <1>6, <3>4, <3>5
      <3>7. U' <= V /\ V \in Nat
        BY <3>3, <3>4, UnitsMonotone, UnitsFinite
      <3> HIDE DEF V, U
      <3> QED
        BY <1>4, <2>1, <3>6, <3>7
    <2>4. req[r].amount \in Nat
      BY <1>4, <2>1
    <2> DEFINE Cap == MaxGlobalTvl + Others * M
    <2>5. Cap \in Nat /\ A + U <= Cap
      BY <1>4, <1>5
    <2> HIDE DEF A, U, Cap
    <2>6. A' + U' <= Cap
      BY <1>2, <1>4, <2>2, <2>3, <2>4, <2>5
    <2> QED
      BY <2>6 DEF Cap
  <1> QED
    BY <1>7, <1>8, RowsStep

-----------------------------------------------------------------------------
(* The theorems.                                                           *)

ApiInv == Shape /\ Clocks /\ Signed /\ OneUse /\ CountBound /\ AmountBound

LEMMA ApiInit ==
    ASSUME Init
    PROVE  ApiInv
  <1> USE ApiAssumption DEF Init
  <1>1. positions = <<>> /\ nonces = <<>> /\ DOMAIN positions = {} /\ Len(positions) = 0
    BY EmptySeq
  <1>2. Shape
    <2>1. nonces \in Seq(NonceType) /\ positions \in Seq(PosType)
      BY <1>1, EmptySeq
    <2>3. req \in [Requests -> CapsType \cup {Idle}]
      OBVIOUS
    <2> QED
      BY <1>1, <2>1, <2>3 DEF Shape
  <1>3. Clocks
    BY DEF Clocks
  <1>4. \A r \in Requests : ~InCaps(r)
    BY DEF InCaps, Idle
  <1>5. Signed /\ OneUse
    BY <1>1, <1>4 DEF Signed, OneUse
  <1>6. Fresh = {} /\ \A w : FreshOf(w) = {} /\ Passing(w) = {}
    BY <1>1, <1>4 DEF Active, ActiveOf, Fresh, FreshOf, Passing
  <1>7. PassingSum = {} /\ \A f : UnitsOf(f, {}) = {}
    BY <1>4 DEF PassingSum, UnitsOf
  <1>8. Others \in Nat /\ Others * MaxPositionSol \in Nat /\ Cardinality({}) = 0
    <2>1. {} \in SUBSET Requests
      OBVIOUS
    <2> QED
      BY <2>1, RequestsFinite, TimesMonotone, FS_EmptySet
  <1>9. CountBound
    <2>1. \A w : Cardinality(FreshOf(w)) = 0 /\ Cardinality(Passing(w)) = 0
      BY <1>6, <1>8
    <2>2. MaxPositionsPerWallet \in Nat
      OBVIOUS
    <2> QED
      BY <1>8, <2>1, <2>2 DEF CountBound
  <1>10. AmountBound
    <2>1. SumOf(Fresh) = 0 /\ Cardinality(UnitsOf(AskOf, PassingSum)) = 0
      BY <1>6, <1>7, <1>8 DEF SumOf
    <2> QED
      BY <1>8, <2>1 DEF AmountBound
  <1> QED
    BY <1>2, <1>3, <1>5, <1>9, <1>10 DEF ApiInv

LEMMA ApiStep ==
    ASSUME ApiInv, [Next]_vars
    PROVE  ApiInv'
  BY ShapeStep, ClocksStep, OneUseStep, CountStep, AmountStep DEF ApiInv

THEOREM ApiInvariant == Spec => []ApiInv
  <1>1. Init => ApiInv
    BY ApiInit
  <1>2. ApiInv /\ [Next]_vars => ApiInv'
    BY ApiStep
  <1> QED
    BY <1>1, <1>2, PTL DEF Spec

\* Every row, request and the clock keep their types, and the request that counts its
\* caps carries a nonce that exists.
THEOREM ApiTypes == Spec => []TypeOK
  <1>1. ASSUME ApiInv PROVE TypeOK
    <2>1. Shape /\ Clocks /\ Signed
      BY <1>1 DEF ApiInv
    <2>2. \A n \in DOMAIN nonces : nonces[n] \in NonceType
      BY <2>1, Rows
    <2>3. ASSUME NEW i \in DOMAIN positions
          PROVE  positions[i] \in [wallet : Wallets, signer : Wallets, nonce : DOMAIN nonces,
                     amount : 1 .. MaxPositionSol,
                     state : {"open", "revived", "completed", "failed"}]
      <3>1. positions[i] \in PosType
        BY <2>1, Rows
      <3>2. positions[i].nonce \in DOMAIN nonces
        BY <2>1 DEF Signed, Backed
      <3> QED
        BY <3>1, <3>2 DEF PosType
    <2>4. ASSUME NEW r \in Requests, req[r] # Idle
          PROVE  req[r] \in [pc : {"caps"}, wallet : Wallets, signer : Wallets,
                     nonce : DOMAIN nonces, amount : Amounts,
                     count : -1 .. MaxPositions, total : Int]
      <3>1. InCaps(r) /\ req[r] \in CapsType
        BY <2>1, <2>4, CapsIsNotIdle
      <3>2. req[r].nonce \in DOMAIN nonces
        BY <2>1, <3>1 DEF Signed, Backed
      <3> QED
        BY <3>1, <3>2 DEF CapsType
    <2> QED
      BY <2>1, <2>2, <2>3, <2>4 DEF TypeOK, Shape, Clocks, NonceType
  <1> QED
    BY <1>1, ApiInvariant, PTL

\* However a signed request is repeated, and whatever runs beside it, at most one
\* position comes of its nonce, and none of a nonce that its wallet did not sign.
THEOREM SignedOnce == Spec => []OnePositionPerSignature
  <1>1. ApiInv => OnePositionPerSignature
    BY DEF ApiInv, Signed, OneUse, Backed, OnePositionPerSignature
  <1> QED
    BY <1>1, ApiInvariant, PTL

\* The caps are read before the row is written; what the requests in flight can
\* add beyond them is bounded by their number, whatever states are written in
\* between.  Rows written open again after an end are not among those counted.
THEOREM CapsOvershoot == Spec => []OvershootBounded
  <1>1. ASSUME ApiInv PROVE OvershootBounded
    <2>1. Shape /\ CountBound /\ AmountBound
      BY <1>1 DEF ApiInv
    <2>2. ASSUME NEW w \in Wallets
          PROVE  Cardinality(FreshOf(w)) <= MaxPositionsPerWallet + Others
      <3>1. Passing(w) \in SUBSET Requests
        BY DEF Passing
      <3>2. /\ Cardinality(FreshOf(w)) \in Nat /\ Cardinality(Passing(w)) \in Nat
            /\ Others \in Nat /\ MaxPositionsPerWallet \in Nat
        BY <2>1, <3>1, FreshFinite, RequestsFinite, ApiAssumption
      <3> QED
        BY <2>1, <3>2 DEF CountBound
    <2>3. SumOf(Fresh) <= MaxGlobalTvl + Others * MaxPositionSol
      <3>1. PassingSum \in SUBSET Requests
        BY DEF PassingSum
      <3>2. IsFiniteSet(Fresh) /\ IsFiniteSet(PassingSum) /\ Others \in Nat
        BY <2>1, <3>1, FreshFinite, RequestsFinite
      <3>3. SumOf(Fresh) \in Nat /\ Cardinality(UnitsOf(AskOf, PassingSum)) \in Nat
        BY <3>2, UnitsFinite DEF SumOf
      <3> DEFINE Cap == MaxGlobalTvl + Others * MaxPositionSol
      <3>4. Cap \in Nat
        BY <3>2, ApiAssumption, TimesMonotone
      <3>5. SumOf(Fresh) + Cardinality(UnitsOf(AskOf, PassingSum)) <= Cap
        BY <2>1 DEF AmountBound
      <3> HIDE DEF Cap
      <3>6. SumOf(Fresh) <= Cap
        BY <3>3, <3>4, <3>5
      <3> QED
        BY <3>6 DEF Cap
    <2> QED
      BY <2>2, <2>3 DEF OvershootBounded, Others, Fresh, FreshOf
  <1> QED
    BY <1>1, ApiInvariant, PTL

=============================================================================
