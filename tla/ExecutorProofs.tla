--------------------------- MODULE ExecutorProofs ---------------------------
(***************************************************************************)
(* Theorems about the executor program and the ranges that the API builds  *)
(* for it, for any wallets, pools, ranges, bins and amounts.               *)
(*                                                                         *)
(* The invariant behind them pairs each PoolAuthority with a live position *)
(* (AuthorityHasPosition) and keeps the bins with liquidity inside the     *)
(* range of the position (FilledWithin).                                   *)
(***************************************************************************)
EXTENDS ExecutorProgram, TLAPS

-----------------------------------------------------------------------------
(* Ranges.                                                                 *)

LEMMA UsePoolType ==
    ASSUME NEW r \in Ranges, NEW bin \in Int
    PROVE  UsePool(r, bin) \in Ranges
  BY DEF UsePool, Ranges, WidenedDown, WidenedUp, TwoArrays, ArrayIndex,
         BinsPerArray, MaxWidth, Least, Greatest

\* use-pool reproduces the range of a position that spans two arrays, wherever
\* the active bin is by then (privateLifecycle.ts:66).
THEOREM UsePoolStable ==
    ASSUME NEW r \in Ranges, NEW bin \in Int, TwoArrays(r)
    PROVE  UsePool(r, bin) = r
  BY DEF UsePool

\* What use-pool returns for a range that fits a position spans two distinct
\* arrays and fits a position (executor.service.ts:260-273).
THEOREM UsePoolFits ==
    ASSUME NEW r \in Ranges, NEW bin \in Int, Width(r) \in 1 .. MaxWidth
    PROVE  /\ TwoArrays(UsePool(r, bin))
           /\ Width(UsePool(r, bin)) \in 1 .. MaxWidth
  BY DEF UsePool, Ranges, WidenedDown, WidenedUp, TwoArrays, ArrayIndex,
         BinsPerArray, MaxWidth, Least, Greatest, Width

\* It loses at most one of the bins that were asked for, at the end away from
\* which it grew, and never crosses the active bin.
THEOREM UsePoolKeeps ==
    ASSUME NEW r \in Ranges, NEW bin \in Int, Width(r) \in 1 .. MaxWidth
    PROVE  LET u == UsePool(r, bin) IN
           /\ u.lower <= r.lower + 1 /\ r.upper - 1 <= u.upper
           /\ r.upper < bin => u.upper < bin
           /\ r.lower > bin => u.lower > bin
  BY DEF UsePool, Ranges, WidenedDown, WidenedUp, TwoArrays, ArrayIndex,
         BinsPerArray, MaxWidth, Least, Greatest, Width

-----------------------------------------------------------------------------
(* Types.                                                                  *)

LEMMA OfferedRanges == Asked \subseteq Ranges /\ Offered \subseteq Ranges
  BY ExecutorAssumption, UsePoolType DEF Offered

LEMMA SolSideType ==
    ASSUME NEW r \in Ranges, NEW bin \in Int, NEW x \in BOOLEAN
    PROVE  SolSide(r, bin, x) \in Ranges
  BY DEF SolSide, Ranges, Least, Greatest

LEMMA InitTypeOK == Init => TypeOK
  <1> SUFFICES ASSUME Init PROVE TypeOK
    OBVIOUS
  <1>1. active \in [Pools -> Int]
    BY ExecutorAssumption DEF Init
  <1>2. sol \in [Wallets -> Nat] /\ tok \in [Wallets -> Nat]
    BY ExecutorAssumption DEF Init
  <1>3. QED
    BY <1>1, <1>2 DEF Init, TypeOK

LEMMA InitPositionTypeOK ==
    ASSUME TypeOK, NEW k \in Keys, NEW n \in PositionKeys, NEW pool \in Pools,
           NEW range \in Ranges, NEW asked \in Ranges, NEW exit \in Wallets,
           DlmmInitPosition(k, n, pool, range, asked, exit)
    PROVE  TypeOK'
  <1>1. authority' \in [Keys -> Authorities \cup {NoAuthority}]
    BY DEF DlmmInitPosition, TypeOK, Authorities
  <1>2. position' \in [PositionKeys -> Positions \cup {NoPosition}]
    BY DEF DlmmInitPosition, InitializePosition, TypeOK, Positions
  <1>3. UNCHANGED <<config, active, sol, tok, trades>>
    BY DEF DlmmInitPosition, purses
  <1>4. QED
    BY <1>1, <1>2, <1>3 DEF TypeOK

\* The one position that an add-liquidity changes, and how.
LEMMA AddEffect ==
    ASSUME TypeOK, NEW k \in Keys, NEW n \in PositionKeys, NEW pool \in Pools,
           NEW r \in Ranges, NEW given \in Int, NEW amount \in Nat,
           DlmmAddLiquidity(k, n, pool, r, given, amount)
    PROVE  /\ position[n] \in Positions
           /\ \E p \in Positions :
                 /\ position' = [position EXCEPT ![n] = p]
                 /\ p.owner = position[n].owner /\ p.pool = position[n].pool
                 /\ p.sol = position[n].sol + amount
                 /\ p.tok = position[n].tok /\ p.fees = position[n].fees
  <1> DEFINE taken == SolSide(r, active[pool], SolIsTokenX[pool])
             now == position[n]
             hull == IF IsEmpty(now) THEN taken
                     ELSE [lower |-> Least(now.filled.lower, taken.lower),
                           upper |-> Greatest(now.filled.upper, taken.upper)]
             p == [now EXCEPT !.sol = now.sol + amount, !.filled = hull]
  <1>1. now \in Positions
    BY DEF DlmmAddLiquidity, AddLiquidityByStrategy, Owns, TypeOK
  <1>2. taken \in Ranges
    BY SolSideType, ExecutorAssumption DEF TypeOK
  <1>3. hull \in Ranges
    BY <1>1, <1>2 DEF Positions, Ranges, Least, Greatest
  <1>4. position' = [position EXCEPT ![n] = p]
    BY <1>1 DEF DlmmAddLiquidity, AddLiquidityByStrategy, TypeOK, Positions
  <1>5. /\ p \in Positions
        /\ p.owner = now.owner /\ p.pool = now.pool
        /\ p.sol = now.sol + amount /\ p.tok = now.tok /\ p.fees = now.fees
    <2> HIDE DEF hull, taken
    <2>1. now.sol + amount \in Nat
      BY <1>1 DEF Positions
    <2>2. QED
      BY <1>1, <1>3, <2>1 DEF Positions
  <1>6. QED
    BY <1>1, <1>4, <1>5

LEMMA AddLiquidityTypeOK ==
    ASSUME TypeOK, NEW k \in Keys, NEW n \in PositionKeys, NEW pool \in Pools,
           NEW r \in Ranges, NEW given \in Int, NEW amount \in Nat,
           DlmmAddLiquidity(k, n, pool, r, given, amount)
    PROVE  TypeOK'
  <1>1. position' \in [PositionKeys -> Positions \cup {NoPosition}]
    BY AddEffect DEF TypeOK
  <1>2. sol' \in [Wallets -> Nat]
    <2>1. k[1] \in Wallets
      BY DEF Keys, Wallets
    <2>2. sol[k[1]] - amount \in Nat
      BY <2>1 DEF DlmmAddLiquidity, TypeOK
    <2>3. QED
      BY <2>1, <2>2 DEF DlmmAddLiquidity, TypeOK
  <1>3. UNCHANGED <<config, authority, active, tok, trades>>
    BY DEF DlmmAddLiquidity
  <1>4. QED
    BY <1>1, <1>2, <1>3 DEF TypeOK

LEMMA ClaimFeesTypeOK ==
    ASSUME TypeOK, NEW k \in Keys, NEW n \in PositionKeys, NEW pool \in Pools,
           NEW toX \in Wallets, NEW toY \in Wallets,
           DlmmClaimFees(k, n, pool, toX, toY)
    PROVE  TypeOK'
  <1>1. position[n] \in Positions
    BY DEF DlmmClaimFees, Owns, TypeOK
  <1>2. position' \in [PositionKeys -> Positions \cup {NoPosition}]
    BY <1>1 DEF DlmmClaimFees, TypeOK, Positions
  <1>3. sol' \in [Wallets -> Nat]
    BY <1>1 DEF DlmmClaimFees, SolPayee, TypeOK, Positions
  <1>4. UNCHANGED <<config, authority, active, tok, trades>>
    BY DEF DlmmClaimFees
  <1>5. QED
    BY <1>2, <1>3, <1>4 DEF TypeOK

LEMMA WithdrawCloseTypeOK ==
    ASSUME TypeOK, NEW k \in Keys, NEW n \in PositionKeys, NEW pool \in Pools,
           NEW toX \in Wallets, NEW toY \in Wallets, NEW rent \in Wallets,
           NEW from, NEW upto, NEW bps,
           DlmmWithdrawClose(k, n, pool, toX, toY, rent, from, upto, bps)
    PROVE  TypeOK'
  <1>1. position[n] \in Positions
    BY DEF DlmmWithdrawClose, WithdrawCloseAccepts, Owns, TypeOK
  <1>2. position' \in [PositionKeys -> Positions \cup {NoPosition}]
    BY DEF DlmmWithdrawClose, TypeOK
  <1>3. authority' \in [Keys -> Authorities \cup {NoAuthority}]
    BY DEF DlmmWithdrawClose, TypeOK
  <1>4. sol' \in [Wallets -> Nat]
    BY <1>1 DEF DlmmWithdrawClose, SolPayee, TypeOK, Positions
  <1>5. tok' \in [Wallets -> Nat]
    BY <1>1 DEF DlmmWithdrawClose, TypeOK, Positions
  <1>6. UNCHANGED <<config, active, trades>>
    BY DEF DlmmWithdrawClose
  <1>7. QED
    BY <1>2, <1>3, <1>4, <1>5, <1>6 DEF TypeOK

LEMMA SwapTypeOK ==
    ASSUME TypeOK, NEW signer \in Stealths, NEW user \in Wallets,
           NEW payer \in Wallets, NEW payee \in Wallets, NEW sellSol \in BOOLEAN,
           NEW amount \in Nat, NEW least \in Nat,
           DlmmSwap(signer, user, payer, payee, sellSol, amount, least)
    PROVE  TypeOK'
  <1>1. PICK received \in least .. amount :
            IF sellSol
               THEN /\ sol[payer] >= amount
                    /\ sol' = [sol EXCEPT ![payer] = @ - amount]
                    /\ tok' = [tok EXCEPT ![payee] = @ + received]
               ELSE /\ tok[payer] >= amount
                    /\ tok' = [tok EXCEPT ![payer] = @ - amount]
                    /\ sol' = [sol EXCEPT ![payee] = @ + received]
    BY DEF DlmmSwap
  <1>2. received \in Nat
    OBVIOUS
  <1>3. sol' \in [Wallets -> Nat] /\ tok' \in [Wallets -> Nat]
    <2>1. CASE sellSol
      BY <2>1, <1>1, <1>2 DEF TypeOK
    <2>2. CASE ~sellSol
      BY <2>2, <1>1, <1>2 DEF TypeOK
    <2>3. QED
      BY <2>1, <2>2
  <1>4. UNCHANGED <<config, authority, position, active, trades>>
    BY DEF DlmmSwap, dlmm
  <1>5. QED
    BY <1>3, <1>4 DEF TypeOK

LEMMA Transfer ==
    ASSUME NEW a \in Nat, NEW b \in Nat, a > 0
    PROVE  /\ a - 1 \in Nat /\ b + 1 \in Nat
           /\ (a - 1) + (b + 1) = a + b
           /\ (b + 1) + (a - 1) = b + a
  OBVIOUS

\* The one position that a trade changes, and how.
LEMMA TradeEffect ==
    ASSUME TypeOK, NEW n \in PositionKeys, Trade(n)
    PROVE  /\ position[n] \in Positions
           /\ \E p \in Positions :
                 /\ position' = [position EXCEPT ![n] = p]
                 /\ p.owner = position[n].owner /\ p.pool = position[n].pool
                 /\ p.range = position[n].range /\ p.filled = position[n].filled
                 /\ p.sol + p.tok + p.fees
                       = position[n].sol + position[n].tok + position[n].fees + 1
  <1> DEFINE now == position[n]
  <1>1. now \in Positions
    BY DEF Trade, TypeOK
  <1>2. now.sol \in Nat /\ now.tok \in Nat /\ now.fees \in Nat
    BY <1>1 DEF Positions
  <1>3. SUFFICES
        ASSUME NEW s \in Nat, NEW t \in Nat, s + t = now.sol + now.tok,
               position' = [position EXCEPT ![n] =
                   [now EXCEPT !.sol = s, !.tok = t, !.fees = now.fees + 1]]
        PROVE  \E p \in Positions :
                 /\ position' = [position EXCEPT ![n] = p]
                 /\ p.owner = now.owner /\ p.pool = now.pool
                 /\ p.range = now.range /\ p.filled = now.filled
                 /\ p.sol + p.tok + p.fees = now.sol + now.tok + now.fees + 1
    <2>1. CASE now.sol > 0 /\ position' = [position EXCEPT
                   ![n].sol = @ - 1, ![n].tok = @ + 1, ![n].fees = @ + 1]
      <3>1. position' = [position EXCEPT ![n] = [now EXCEPT
                !.sol = now.sol - 1, !.tok = now.tok + 1, !.fees = now.fees + 1]]
        BY <1>1, <2>1 DEF TypeOK, Positions
      <3>2. now.sol - 1 \in Nat /\ now.tok + 1 \in Nat
            /\ (now.sol - 1) + (now.tok + 1) = now.sol + now.tok
        <4>1. now.sol > 0
          BY <2>1
        <4> HIDE DEF now
        <4>2. QED
          BY ONLY <1>2, <4>1, Transfer
      <3>3. QED
        BY <1>1, <1>3, <3>1, <3>2
    <2>2. CASE now.tok > 0 /\ position' = [position EXCEPT
                   ![n].tok = @ - 1, ![n].sol = @ + 1, ![n].fees = @ + 1]
      <3>1. position' = [position EXCEPT ![n] = [now EXCEPT
                !.sol = now.sol + 1, !.tok = now.tok - 1, !.fees = now.fees + 1]]
        BY <1>1, <2>2 DEF TypeOK, Positions
      <3>2. now.sol + 1 \in Nat /\ now.tok - 1 \in Nat
            /\ (now.sol + 1) + (now.tok - 1) = now.sol + now.tok
        <4>1. now.tok > 0
          BY <2>2
        <4> HIDE DEF now
        <4>2. QED
          BY ONLY <1>2, <4>1, Transfer
      <3>3. QED
        BY <1>1, <1>3, <3>1, <3>2
    <2>3. QED
      BY <2>1, <2>2 DEF Trade
  <1> DEFINE p == [now EXCEPT !.sol = s, !.tok = t, !.fees = now.fees + 1]
  <1>4. now.fees + 1 \in Nat /\ s + t + (now.fees + 1) = now.sol + now.tok + now.fees + 1
    BY <1>2, <1>3
  <1>5. /\ p \in Positions
        /\ p.owner = now.owner /\ p.pool = now.pool
        /\ p.range = now.range /\ p.filled = now.filled
        /\ p.sol = s /\ p.tok = t /\ p.fees = now.fees + 1
    <2> HIDE DEF now
    <2>1. QED
      BY <1>1, <1>3, <1>4 DEF Positions
  <1>6. QED
    BY <1>3, <1>4, <1>5

LEMMA TradeTypeOK ==
    ASSUME TypeOK, NEW n \in PositionKeys, Trade(n)
    PROVE  TypeOK'
  <1>1. position' \in [PositionKeys -> Positions \cup {NoPosition}]
    BY TradeEffect DEF TypeOK
  <1>2. trades' \in Nat
    BY DEF Trade, TypeOK
  <1>3. UNCHANGED <<config, authority, active, sol, tok>>
    BY DEF Trade, purses
  <1>4. QED
    BY <1>1, <1>2, <1>3 DEF TypeOK

LEMMA NextTypeOK == TypeOK /\ [Next]_vars => TypeOK'
  <1> SUFFICES ASSUME TypeOK, [Next]_vars PROVE TypeOK'
    OBVIOUS
  <1>1. CASE Admins
    <2>1. UNCHANGED <<authority, position, active, sol, tok, trades>>
      BY <1>1 DEF Admins, InitConfig, SetPaused, dlmm, purses
    <2>2. config' \in [exists : BOOLEAN, authority : {Nobody, Admin}, paused : BOOLEAN]
      <3>1. PICK signer \in Wallets \cup {Admin} :
                InitConfig(signer) \/ \E paused \in BOOLEAN : SetPaused(signer, paused)
        BY <1>1 DEF Admins
      <3>2. CASE InitConfig(signer)
        BY <3>2 DEF InitConfig
      <3>3. ASSUME NEW paused \in BOOLEAN, SetPaused(signer, paused)
            PROVE  config' \in [exists : BOOLEAN, authority : {Nobody, Admin},
                                paused : BOOLEAN]
        BY <3>3 DEF SetPaused, TypeOK
      <3>4. QED
        BY <3>1, <3>2, <3>3
    <2>3. QED
      BY <2>1, <2>2 DEF TypeOK
  <1>2. CASE Opens
    BY <1>2, InitPositionTypeOK, OfferedRanges, UsePoolType, ExecutorAssumption DEF Opens
  <1>3. CASE Fills
    BY <1>3, AddLiquidityTypeOK, OfferedRanges, ExecutorAssumption DEF Fills
  <1>4. CASE Claims
    BY <1>4, ClaimFeesTypeOK DEF Claims
  <1>5. CASE Closes
    BY <1>5, WithdrawCloseTypeOK DEF Closes
  <1>6. CASE Swaps
    <2>1. PICK signer \in Stealths, user \in Wallets, payer \in Wallets,
               payee \in Wallets, sellSol \in BOOLEAN,
               amount \in Amounts, least \in {0} \cup Amounts :
              DlmmSwap(signer, user, payer, payee, sellSol, amount, least)
      BY <1>6 DEF Swaps
    <2>2. amount \in Nat /\ least \in Nat
      BY ExecutorAssumption
    <2>3. QED
      BY <2>1, <2>2, SwapTypeOK
  <1>7. CASE Trades
    BY <1>7, TradeTypeOK DEF Trades
  <1>8. CASE Moves
    BY <1>8, ExecutorAssumption DEF Moves, Move, TypeOK, purses
  <1>9. CASE UNCHANGED vars
    BY <1>9 DEF vars, dlmm, purses, TypeOK
  <1>10. QED
    BY <1>1, <1>2, <1>3, <1>4, <1>5, <1>6, <1>7, <1>8, <1>9 DEF Next

\* Every variable keeps its type; in particular nobody but the admin ever is
\* the authority of the config, and no balance falls below zero.
THEOREM TypeCorrect == Spec => []TypeOK
  <1>1. Init => TypeOK
    BY InitTypeOK
  <1>2. TypeOK /\ [Next]_vars => TypeOK'
    BY NextTypeOK
  <1>3. QED
    BY <1>1, <1>2, PTL DEF Spec

-----------------------------------------------------------------------------
(* Each PoolAuthority has its position.                                    *)

FilledWithin ==
    \A n \in PositionKeys : position[n] # NoPosition =>
        /\ Width(position[n].range) \in 1 .. MaxWidth
        /\ Within(position[n].filled, position[n].range)

\* A step that leaves the authorities alone, and the owner, pool, range and
\* filled bins of each position too, keeps the pairing.
SameHolding ==
    /\ authority' = authority
    /\ \A n \in PositionKeys :
          /\ position'[n] = NoPosition <=> position[n] = NoPosition
          /\ position[n] # NoPosition =>
                /\ position'[n].owner = position[n].owner
                /\ position'[n].pool = position[n].pool

LEMMA SamePairs ==
    ASSUME TypeOK, AuthorityHasPosition, SameHolding
    PROVE  AuthorityHasPosition'
  <1>1. ASSUME NEW k \in Keys, authority'[k] # NoAuthority
        PROVE  LET n == authority'[k].position IN
               /\ position'[n] # NoPosition
               /\ position'[n].owner = k
               /\ position'[n].pool = k[2] /\ authority'[k].pool = k[2]
    <2>1. authority[k].position \in PositionKeys
      BY <1>1 DEF SameHolding, TypeOK, Authorities
    <2>2. QED
      BY <1>1, <2>1 DEF SameHolding, AuthorityHasPosition
  <1>2. ASSUME NEW n \in PositionKeys, position'[n] # NoPosition
        PROVE  LET k == position'[n].owner IN
               authority'[k] # NoAuthority /\ authority'[k].position = n
    BY <1>2 DEF SameHolding, AuthorityHasPosition
  <1>3. QED
    BY <1>1, <1>2 DEF AuthorityHasPosition

LEMMA InitPairs == Init => AuthorityHasPosition /\ FilledWithin
  BY DEF Init, AuthorityHasPosition, FilledWithin

LEMMA OpenPairs ==
    ASSUME TypeOK, AuthorityHasPosition,
           NEW k \in Keys, NEW n \in PositionKeys, NEW pool \in Pools,
           NEW range \in Ranges, NEW asked \in Ranges, NEW exit \in Wallets,
           DlmmInitPosition(k, n, pool, range, asked, exit)
    PROVE  AuthorityHasPosition'
  <1>1. /\ authority[k] = NoAuthority /\ position[n] = NoPosition /\ pool = k[2]
        /\ authority' = [authority EXCEPT ![k] =
               [exit |-> exit, pool |-> pool, position |-> n]]
    BY DEF DlmmInitPosition, InitializePosition
  <1>2. PICK p : /\ p.owner = k /\ p.pool = pool /\ p \in Positions
                 /\ position' = [position EXCEPT ![n] = p]
    <2>1. [owner |-> k, pool |-> pool, range |-> range, asked |-> asked,
           filled |-> range, sol |-> 0, tok |-> 0, fees |-> 0] \in Positions
      BY DEF Positions
    <2>2. QED
      BY <2>1 DEF DlmmInitPosition, InitializePosition
  <1>3. p # NoPosition
    BY <1>2, ExecutorAssumption
  <1>4. [exit |-> exit, pool |-> pool, position |-> n] # NoAuthority
    BY ExecutorAssumption DEF Authorities
  <1>5. \A j \in Keys : j # k => authority'[j] = authority[j]
    BY <1>1 DEF TypeOK
  <1>6. \A m \in PositionKeys : m # n => position'[m] = position[m]
    BY <1>2 DEF TypeOK
  <1>7. authority'[k].position = n /\ authority'[k].pool = pool /\ authority'[k] # NoAuthority
    BY <1>1, <1>4 DEF TypeOK
  <1>8. position'[n] = p
    BY <1>2 DEF TypeOK
  <1>9. ASSUME NEW j \in Keys, authority'[j] # NoAuthority
        PROVE  LET m == authority'[j].position IN
               /\ position'[m] # NoPosition
               /\ position'[m].owner = j
               /\ position'[m].pool = j[2] /\ authority'[j].pool = j[2]
    <2>1. CASE j = k
      BY <2>1, <1>1, <1>2, <1>3, <1>7, <1>8
    <2>2. CASE j # k
      <3>1. authority[j] # NoAuthority /\ authority[j].position \in PositionKeys
        BY <2>2, <1>5, <1>9 DEF TypeOK, Authorities
      <3>2. authority[j].position # n
        BY <3>1, <1>1 DEF AuthorityHasPosition
      <3>3. QED
        BY <3>1, <3>2, <2>2, <1>5, <1>6 DEF AuthorityHasPosition
    <2>3. QED
      BY <2>1, <2>2
  <1>10. ASSUME NEW m \in PositionKeys, position'[m] # NoPosition
         PROVE  LET j == position'[m].owner IN
                authority'[j] # NoAuthority /\ authority'[j].position = m
    <2>1. CASE m = n
      BY <2>1, <1>2, <1>7, <1>8
    <2>2. CASE m # n
      <3>1. position[m] # NoPosition /\ position[m].owner \in Keys
        BY <2>2, <1>6, <1>10 DEF TypeOK, Positions
      <3>2. position[m].owner # k
        BY <3>1, <1>1 DEF AuthorityHasPosition
      <3>3. QED
        BY <3>1, <3>2, <2>2, <1>5, <1>6 DEF AuthorityHasPosition
    <2>3. QED
      BY <2>1, <2>2
  <1>11. QED
    BY <1>9, <1>10 DEF AuthorityHasPosition

LEMMA ClosePairs ==
    ASSUME TypeOK, AuthorityHasPosition,
           NEW k \in Keys, NEW n \in PositionKeys, NEW pool \in Pools,
           NEW toX \in Wallets, NEW toY \in Wallets, NEW rent \in Wallets,
           NEW from, NEW upto, NEW bps,
           DlmmWithdrawClose(k, n, pool, toX, toY, rent, from, upto, bps)
    PROVE  AuthorityHasPosition'
  <1>0. /\ authority[k] # NoAuthority /\ authority[k].position = n
        /\ authority' = [authority EXCEPT ![k] = NoAuthority]
        /\ position' = [position EXCEPT ![n] = NoPosition]
    BY DEF DlmmWithdrawClose, WithdrawCloseAccepts, Bound
  <1>1. position[n].owner = k
    BY <1>0 DEF AuthorityHasPosition
  <1>2. ASSUME NEW j \in Keys, authority'[j] # NoAuthority
        PROVE  LET m == authority'[j].position IN
               /\ position'[m] # NoPosition
               /\ position'[m].owner = j
               /\ position'[m].pool = j[2] /\ authority'[j].pool = j[2]
    <2>1. j # k /\ authority'[j] = authority[j]
      BY <1>0, <1>2 DEF TypeOK
    <2>2. authority[j].position \in PositionKeys
      BY <1>2, <2>1 DEF TypeOK, Authorities
    <2>3. authority[j].position # n
      BY <1>0, <1>1, <1>2, <2>1 DEF AuthorityHasPosition
    <2>4. position'[authority[j].position] = position[authority[j].position]
      BY <1>0, <2>2, <2>3 DEF TypeOK
    <2>5. QED
      BY <1>2, <2>1, <2>2, <2>4 DEF AuthorityHasPosition
  <1>3. ASSUME NEW m \in PositionKeys, position'[m] # NoPosition
        PROVE  LET j == position'[m].owner IN
               authority'[j] # NoAuthority /\ authority'[j].position = m
    <2>1. m # n /\ position'[m] = position[m]
      BY <1>0, <1>3 DEF TypeOK
    <2>2. position[m].owner \in Keys
      BY <1>3, <2>1 DEF TypeOK, Positions
    <2>3. position[m].owner # k
      BY <1>0, <1>3, <2>1 DEF AuthorityHasPosition
    <2>4. authority'[position[m].owner] = authority[position[m].owner]
      BY <1>0, <2>2, <2>3 DEF TypeOK
    <2>5. QED
      BY <1>3, <2>1, <2>4 DEF AuthorityHasPosition
  <1>4. QED
    BY <1>2, <1>3 DEF AuthorityHasPosition

(* The bins with liquidity stay inside the range of the position.          *)

LEMMA SolSideWithin ==
    ASSUME NEW r \in Ranges, NEW bin \in Int, NEW x \in BOOLEAN
    PROVE  Within(SolSide(r, bin, x), r)
  BY DEF SolSide, Within, Ranges, Least, Greatest

LEMMA HullWithin ==
    ASSUME NEW r \in Ranges, NEW a \in Ranges, NEW b \in Ranges,
           Within(a, r), Within(b, r)
    PROVE  Within([lower |-> Least(a.lower, b.lower),
                   upper |-> Greatest(a.upper, b.upper)], r)
  BY DEF Within, Ranges, Least, Greatest

LEMMA WithinTransitive ==
    ASSUME NEW a \in Ranges, NEW b \in Ranges, NEW c \in Ranges,
           Within(a, b), Within(b, c)
    PROVE  Within(a, c)
  BY DEF Within, Ranges

\* What an action does to one position, when it keeps its range and bins.
SameBins ==
    \A n \in PositionKeys : position'[n] # NoPosition =>
        /\ position[n] # NoPosition
        /\ position'[n].range = position[n].range
        /\ position'[n].filled = position[n].filled

LEMMA SameFilled ==
    ASSUME FilledWithin, SameBins
    PROVE  FilledWithin'
  BY DEF FilledWithin, SameBins

LEMMA OpenFilled ==
    ASSUME TypeOK, FilledWithin,
           NEW k \in Keys, NEW n \in PositionKeys, NEW pool \in Pools,
           NEW range \in Ranges, NEW asked \in Ranges, NEW exit \in Wallets,
           DlmmInitPosition(k, n, pool, range, asked, exit)
    PROVE  FilledWithin'
  <1>1. /\ Width(range) \in 1 .. MaxWidth
        /\ position'[n].range = range /\ position'[n].filled = range
        /\ \A m \in PositionKeys : m # n => position'[m] = position[m]
    BY DEF DlmmInitPosition, InitializePosition, TypeOK
  <1>2. Within(range, range)
    BY DEF Within, Ranges
  <1>3. QED
    BY <1>1, <1>2 DEF FilledWithin

LEMMA AddFilled ==
    ASSUME TypeOK, FilledWithin,
           NEW k \in Keys, NEW n \in PositionKeys, NEW pool \in Pools,
           NEW r \in Ranges, NEW given \in Int, NEW amount \in Nat,
           DlmmAddLiquidity(k, n, pool, r, given, amount)
    PROVE  FilledWithin'
  <1> DEFINE taken == SolSide(r, active[pool], SolIsTokenX[pool])
             now == position[n]
             hull == [lower |-> Least(now.filled.lower, taken.lower),
                      upper |-> Greatest(now.filled.upper, taken.upper)]
  <1>1. now \in Positions /\ Within(r, now.range)
    BY DEF DlmmAddLiquidity, AddLiquidityByStrategy, Owns, TypeOK
  <1>2. now.range \in Ranges /\ now.filled \in Ranges
    BY <1>1 DEF Positions
  <1>3. active[pool] \in Int /\ SolIsTokenX[pool] \in BOOLEAN
    BY ExecutorAssumption DEF TypeOK
  <1>4. taken \in Ranges /\ Within(taken, r)
    BY <1>3, SolSideType, SolSideWithin
  <1>5. position' = [position EXCEPT
            ![n].sol = @ + amount,
            ![n].filled = IF IsEmpty(now) THEN taken ELSE hull]
    BY <1>1 DEF DlmmAddLiquidity, AddLiquidityByStrategy, TypeOK, Positions
  <1> HIDE DEF taken, now, hull
  <1>6. Within(taken, now.range)
    BY <1>1, <1>2, <1>4, WithinTransitive
  <1>7. Within(now.filled, now.range) /\ Width(now.range) \in 1 .. MaxWidth
    BY DEF FilledWithin, now, DlmmAddLiquidity, AddLiquidityByStrategy, Owns
  <1>8. Within(hull, now.range)
    BY <1>2, <1>4, <1>6, <1>7, HullWithin DEF hull
  <1>9. /\ position'[n].range = now.range
        /\ position'[n].filled = IF IsEmpty(now) THEN taken ELSE hull
        /\ \A m \in PositionKeys : m # n => position'[m] = position[m]
    BY <1>1, <1>5 DEF TypeOK, Positions, now
  <1>10. QED
    BY <1>6, <1>7, <1>8, <1>9 DEF FilledWithin

IInv == TypeOK /\ AuthorityHasPosition /\ FilledWithin

LEMMA NextIInv == IInv /\ [Next]_vars => IInv'
  <1> SUFFICES ASSUME IInv, [Next]_vars PROVE IInv'
    OBVIOUS
  <1> USE DEF IInv
  <1>0. TypeOK'
    BY NextTypeOK
  <1>1. ASSUME UNCHANGED <<authority, position>>
        PROVE  AuthorityHasPosition' /\ FilledWithin'
    BY <1>1 DEF AuthorityHasPosition, FilledWithin
  <1>2. CASE Admins
    BY <1>0, <1>1, <1>2 DEF Admins, InitConfig, SetPaused, dlmm
  <1>3. CASE Opens
    BY <1>0, <1>3, OpenPairs, OpenFilled, OfferedRanges, UsePoolType, ExecutorAssumption
       DEF Opens
  <1>4. CASE Fills
    <2>1. PICK k \in Keys, n \in PositionKeys, pool \in Pools, r \in Offered,
               given \in ActiveBins, amount \in Amounts :
              DlmmAddLiquidity(k, n, pool, r, given, amount)
      BY <1>4 DEF Fills
    <2>2. r \in Ranges /\ given \in Int /\ amount \in Nat
      BY OfferedRanges, ExecutorAssumption
    <2>3. FilledWithin'
      BY <2>1, <2>2, AddFilled
    <2>4. PICK p \in Positions :
              /\ position[n] \in Positions
              /\ position' = [position EXCEPT ![n] = p]
              /\ p.owner = position[n].owner /\ p.pool = position[n].pool
      BY <2>1, <2>2, AddEffect
    <2>5. SameHolding
      <3>1. authority' = authority
        BY <2>1 DEF DlmmAddLiquidity
      <3>2. position[n] # NoPosition /\ p # NoPosition
        BY <2>4, ExecutorAssumption
      <3>3. \A m \in PositionKeys : position'[m] = IF m = n THEN p ELSE position[m]
        BY <2>4 DEF TypeOK
      <3>4. QED
        BY <2>4, <3>1, <3>2, <3>3 DEF SameHolding
    <2>6. QED
      BY <1>0, <2>3, <2>5, SamePairs
  <1>5. CASE Claims
    <2>1. PICK k \in Keys, n \in PositionKeys, pool \in Pools,
               toX \in Wallets, toY \in Wallets : DlmmClaimFees(k, n, pool, toX, toY)
      BY <1>5 DEF Claims
    <2>2. position[n] \in Positions /\ position[n] # NoPosition
      BY <2>1 DEF DlmmClaimFees, Owns, TypeOK
    <2>3. [position[n] EXCEPT !.fees = 0] \in Positions
      BY <2>2 DEF Positions
    <2>4. position' = [position EXCEPT ![n] = [position[n] EXCEPT !.fees = 0]]
      BY <2>1 DEF DlmmClaimFees
    <2>5. SameHolding /\ SameBins
      BY <2>1, <2>2, <2>3, <2>4, ExecutorAssumption
         DEF SameHolding, SameBins, DlmmClaimFees, TypeOK, Positions
    <2>6. QED
      BY <1>0, <2>5, SamePairs, SameFilled
  <1>6. CASE Closes
    <2>1. PICK k \in Keys, n \in PositionKeys, pool \in Pools, toX \in Wallets,
               toY \in Wallets, rent \in Wallets, r \in Offered, bps \in {0, 5000, 10000} :
              DlmmWithdrawClose(k, n, pool, toX, toY, rent, r.lower, r.upper, bps)
      BY <1>6 DEF Closes
    <2>2. /\ authority[k] # NoAuthority /\ authority[k].position = n
          /\ authority' = [authority EXCEPT ![k] = NoAuthority]
          /\ position' = [position EXCEPT ![n] = NoPosition]
      BY <2>1 DEF DlmmWithdrawClose, WithdrawCloseAccepts, Bound
    <2>3. SameBins
      BY <2>2 DEF SameBins, TypeOK
    <2>4. AuthorityHasPosition'
      BY <2>1, ClosePairs
    <2>5. FilledWithin'
      BY <2>3, SameFilled
    <2>6. QED
      BY <1>0, <2>4, <2>5
  <1>7. CASE Swaps
    BY <1>0, <1>1, <1>7 DEF Swaps, DlmmSwap, dlmm
  <1>8. CASE Trades
    <2>1. PICK n \in PositionKeys : Trade(n)
      BY <1>8 DEF Trades
    <2>2. position[n] \in Positions /\ position[n] # NoPosition
      BY <2>1 DEF Trade, TypeOK
    <2>3. PICK p \in Positions :
              /\ position' = [position EXCEPT ![n] = p]
              /\ p.owner = position[n].owner /\ p.pool = position[n].pool
              /\ p.range = position[n].range /\ p.filled = position[n].filled
      BY <2>1, TradeEffect
    <2>4. authority' = authority
      BY <2>1 DEF Trade
    <2>5. SameHolding /\ SameBins
      BY <2>2, <2>3, <2>4, ExecutorAssumption DEF SameHolding, SameBins, TypeOK
    <2>6. QED
      BY <1>0, <2>5, SamePairs, SameFilled
  <1>9. CASE Moves
    BY <1>0, <1>1, <1>9 DEF Moves, Move
  <1>10. CASE UNCHANGED vars
    BY <1>0, <1>1, <1>10 DEF vars, dlmm
  <1>11. QED
    BY <1>2, <1>3, <1>4, <1>5, <1>6, <1>7, <1>8, <1>9, <1>10 DEF Next

LEMMA AlwaysIInv == Spec => []IInv
  <1>1. Init => IInv
    BY InitTypeOK, InitPairs DEF IInv
  <1>2. QED
    BY <1>1, NextIInv, PTL DEF Spec

\* A PoolAuthority never outlives its position, nor a position its PoolAuthority.
THEOREM Paired == Spec => []AuthorityHasPosition
  <1>1. IInv => AuthorityHasPosition
    BY DEF IInv
  <1>2. QED
    BY <1>1, AlwaysIInv, PTL

\* The exit of a position over two bin arrays is never refused, wherever the
\* active bin has gone since it was opened and filled.
THEOREM Closable == Spec => []AlwaysClosable
  <1>1. IInv => AlwaysClosable
    <2> SUFFICES ASSUME IInv, NEW k \in Keys, Running, authority[k] # NoAuthority,
                        TwoArrays(position[authority[k].position].range),
                        authority[k].exit \notin {authority[k].position, k[2]},
                        NEW bin \in ActiveBins
                 PROVE  WithdrawCloseAccepts(k, authority[k].position, k[2],
                            authority[k].exit, authority[k].exit, authority[k].exit,
                            UsePool(position[authority[k].position].range, bin).lower,
                            UsePool(position[authority[k].position].range, bin).upper,
                            10000)
      BY DEF AlwaysClosable
    <2> DEFINE n == authority[k].position
               range == position[n].range
               filled == position[n].filled
    <2>1. n \in PositionKeys /\ authority[k].exit \in Wallets
      BY DEF IInv, TypeOK, Authorities
    <2>2. position[n] # NoPosition /\ Owns(k, n, k[2]) /\ Bound(k, n, k[2])
      BY DEF IInv, AuthorityHasPosition, Owns, Bound
    <2>3. range \in Ranges /\ filled \in Ranges
      BY <2>1, <2>2 DEF IInv, TypeOK, Positions
    <2>4. Width(range) \in 1 .. MaxWidth /\ Within(filled, range)
      BY <2>1, <2>2 DEF IInv, FilledWithin
    <2>5. UsePool(range, bin) = range
      BY <2>3, UsePoolStable, ExecutorAssumption
    <2>6. range.lower <= range.upper /\ Within(range, range)
          /\ Within([lower |-> range.lower, upper |-> range.upper], range)
      <3> HIDE DEF range
      <3>1. QED
        BY <2>3, <2>4 DEF Ranges, Width, Within
    <2>7. Empties(position[n], range.lower, range.upper, 10000)
      BY <2>4 DEF Empties, Within
    <2>8. Payees(k, authority[k].exit, authority[k].exit)
      BY DEF Payees
    <2>9. 10000 \in 1 .. 10000 /\ authority[k].exit # n /\ authority[k].exit # k[2]
      OBVIOUS
    <2> HIDE DEF n, range, filled
    <2>10. WithdrawCloseAccepts(k, n, k[2], authority[k].exit, authority[k].exit,
                                authority[k].exit, range.lower, range.upper, 10000)
      BY <2>2, <2>6, <2>7, <2>8, <2>9 DEF WithdrawCloseAccepts, range
    <2>11. QED
      BY <2>5, <2>10 DEF n, range
  <1>2. QED
    BY <1>1, AlwaysIInv, PTL

-----------------------------------------------------------------------------
(* The program implements PositionCustody: what the custody sees of it.     *)

Recipient == [k \in Keys |->
    IF authority[k] = NoAuthority THEN Nobody ELSE authority[k].exit]
Held == [k \in Keys |->
    IF authority[k] = NoAuthority THEN 0 ELSE ValueOf(authority[k].position)]
Purses == [w \in Wallets |-> sol[w] + tok[w]]

LEMMA PursesType ==
    ASSUME TypeOK
    PROVE  /\ Purses \in [Wallets -> Nat]
           /\ \A w \in Wallets : sol[w] \in Nat /\ tok[w] \in Nat /\ Purses[w] = sol[w] + tok[w]
  BY DEF TypeOK, Purses

LEMMA ValueType ==
    ASSUME TypeOK, NEW n \in PositionKeys, position[n] # NoPosition
    PROVE  /\ position[n].sol \in Nat /\ position[n].tok \in Nat
           /\ position[n].fees \in Nat /\ ValueOf(n) \in Nat
  BY DEF TypeOK, Positions, ValueOf

LEMMA CustodyInit == Init => Custody!Init
  <1> SUFFICES ASSUME Init PROVE Custody!Init
    OBVIOUS
  <1>1. Purses \in [Wallets -> Nat]
    BY InitTypeOK, PursesType
  <1>2. Recipient = [k \in Keys |-> Nobody] /\ Held = [k \in Keys |-> 0]
    BY DEF Init, Recipient, Held
  <1>3. (~Running) \in BOOLEAN
    <2>1. Running = FALSE
      BY DEF Running, Init
    <2>2. QED
      BY <2>1
  <1>4. QED
    BY <1>1, <1>2, <1>3 DEF Custody!Init, Purses, Recipient, Held

\* A step that changes one position, of key k, changes what is held for k alone.
LEMMA HeldElsewhere ==
    ASSUME TypeOK, AuthorityHasPosition, NEW n \in PositionKeys, position[n] # NoPosition,
           NEW p, position' = [position EXCEPT ![n] = p], authority' = authority,
           p \in Positions
    PROVE  /\ position[n].owner \in Keys
           /\ Held' = [Held EXCEPT ![position[n].owner] = p.sol + p.tok + p.fees]
           /\ Held[position[n].owner] = ValueOf(n)
           /\ Recipient' = Recipient
           /\ Recipient[position[n].owner] # Nobody
  <1> DEFINE k == position[n].owner
  <1>1. k \in Keys /\ authority[k] # NoAuthority /\ authority[k].position = n
    BY DEF AuthorityHasPosition, TypeOK, Positions
  <1>2. authority[k].exit \in Wallets
    BY <1>1 DEF TypeOK, Authorities
  <1>3. ValueOf(n)' = p.sol + p.tok + p.fees
    BY DEF TypeOK, ValueOf
  <1>4. ASSUME NEW j \in Keys, j # k, authority[j] # NoAuthority
        PROVE  position'[authority[j].position] = position[authority[j].position]
    <2>1. authority[j].position \in PositionKeys /\ authority[j].position # n
      BY <1>4 DEF AuthorityHasPosition, TypeOK, Authorities
    <2>2. QED
      BY <2>1 DEF TypeOK
  <1>5. \A j \in Keys : Held'[j] = IF j = k THEN p.sol + p.tok + p.fees ELSE Held[j]
    <2>1. TAKE j \in Keys
    <2>2. CASE j = k
      BY <2>2, <1>1, <1>3 DEF Held, ValueOf
    <2>3. CASE j # k
      BY <2>3, <1>4 DEF Held, ValueOf
    <2>4. QED
      BY <2>2, <2>3
  <1>6. Held' = [Held EXCEPT ![k] = p.sol + p.tok + p.fees]
    <2> HIDE DEF k
    <2>1. QED
      BY <1>1, <1>5 DEF Held
  <1>7. Held[k] = ValueOf(n)
    BY <1>1 DEF Held
  <1>8. Recipient[k] # Nobody
    BY <1>1, <1>2, ExecutorAssumption DEF Recipient
  <1>9. QED
    BY <1>1, <1>6, <1>7, <1>8 DEF Recipient

LEMMA OpenStep ==
    ASSUME IInv, NEW k \in Keys, NEW n \in PositionKeys, NEW pool \in Pools,
           NEW range \in Ranges, NEW asked \in Ranges, NEW exit \in Wallets,
           DlmmInitPosition(k, n, pool, range, asked, exit)
    PROVE  Custody!Open(k, exit)
  <1>1. /\ Running /\ Running' = Running /\ Purses' = Purses
        /\ authority[k] = NoAuthority /\ position[n] = NoPosition
        /\ authority' = [authority EXCEPT ![k] =
               [exit |-> exit, pool |-> pool, position |-> n]]
        /\ position' = [position EXCEPT ![n] =
               [owner |-> k, pool |-> pool, range |-> range, asked |-> asked,
                filled |-> range, sol |-> 0, tok |-> 0, fees |-> 0]]
    BY DEF DlmmInitPosition, InitializePosition, Running, Purses, purses
  <1>2. [exit |-> exit, pool |-> pool, position |-> n] # NoAuthority
    BY ExecutorAssumption DEF Authorities
  <1>3. \A j \in Keys : authority'[j] = IF j = k
            THEN [exit |-> exit, pool |-> pool, position |-> n] ELSE authority[j]
    BY <1>1 DEF IInv, TypeOK
  <1>4. Recipient[k] = Nobody /\ Held[k] = 0
    BY <1>1 DEF Recipient, Held
  <1>5. Recipient' = [Recipient EXCEPT ![k] = exit]
    <2> DEFINE named == [exit |-> exit, pool |-> pool, position |-> n]
    <2>1. named.exit = exit /\ named # NoAuthority
      BY <1>2
    <2>2. \A j \in Keys : authority'[j] = IF j = k THEN named ELSE authority[j]
      BY <1>3
    <2> HIDE DEF named
    <2>3. \A j \in Keys : Recipient'[j] = IF j = k THEN exit ELSE Recipient[j]
      BY <2>1, <2>2 DEF Recipient
    <2>4. QED
      BY <2>3 DEF Recipient
  <1>6. \A j \in Keys : Held'[j] = Held[j]
    <2>1. TAKE j \in Keys
    <2>2. CASE j = k
      <3>1. ValueOf(n)' = 0
        BY <1>1 DEF ValueOf, IInv, TypeOK
      <3>2. QED
        BY <2>2, <3>1, <1>2, <1>3, <1>4 DEF Held
    <2>3. CASE j # k /\ authority[j] = NoAuthority
      BY <2>3, <1>3 DEF Held
    <2>4. CASE j # k /\ authority[j] # NoAuthority
      <3>1. authority[j].position \in PositionKeys /\ authority[j].position # n
        BY <2>4, <1>1 DEF IInv, AuthorityHasPosition, TypeOK, Authorities
      <3>2. position'[authority[j].position] = position[authority[j].position]
        BY <3>1, <1>1 DEF IInv, TypeOK
      <3>3. QED
        BY <2>4, <3>2, <1>3 DEF Held, ValueOf
    <2>5. QED
      BY <2>2, <2>3, <2>4
  <1>7. Held' = Held
    BY <1>6 DEF Held
  <1>8. QED
    BY <1>1, <1>4, <1>5, <1>7 DEF Custody!Open, Recipient, Held, Purses

LEMMA FillStep ==
    ASSUME IInv, NEW k \in Keys, NEW n \in PositionKeys, NEW pool \in Pools,
           NEW r \in Ranges, NEW given \in Int, NEW amount \in Nat,
           DlmmAddLiquidity(k, n, pool, r, given, amount)
    PROVE  Custody!Add(k, amount) /\ amount \in 0 .. Purses[k[1]]
  <1>1. /\ Running /\ Running' = Running /\ authority' = authority
        /\ position[n] # NoPosition /\ position[n].owner = k
        /\ sol[k[1]] >= amount /\ sol' = [sol EXCEPT ![k[1]] = @ - amount]
        /\ tok' = tok
    BY DEF DlmmAddLiquidity, AddLiquidityByStrategy, Owns, Running
  <1>2. PICK p \in Positions :
            /\ position' = [position EXCEPT ![n] = p]
            /\ p.sol = position[n].sol + amount
            /\ p.tok = position[n].tok /\ p.fees = position[n].fees
    BY AddEffect DEF IInv
  <1>3. TypeOK /\ AuthorityHasPosition
    BY DEF IInv
  <1>4. /\ Held' = [Held EXCEPT ![k] = p.sol + p.tok + p.fees]
        /\ Held[k] = ValueOf(n) /\ Recipient' = Recipient /\ Recipient[k] # Nobody
    BY <1>1, <1>2, <1>3, HeldElsewhere
  <1>5. p.sol + p.tok + p.fees = ValueOf(n) + amount
    BY <1>1, <1>2, <1>3, ValueType DEF ValueOf
  <1>6. Held' = [Held EXCEPT ![k] = Held[k] + amount]
    BY <1>4, <1>5
  <1>7. k[1] \in Wallets
    BY DEF Keys, Wallets
  <1>8. /\ sol[k[1]] \in Nat /\ tok[k[1]] \in Nat
        /\ Purses[k[1]] = sol[k[1]] + tok[k[1]]
    BY <1>3, <1>7, PursesType
  <1>9. Purses' = [Purses EXCEPT ![k[1]] = Purses[k[1]] - amount]
    <2>1. \A w \in Wallets : Purses'[w] = IF w = k[1] THEN Purses[k[1]] - amount ELSE Purses[w]
      <3>1. TAKE w \in Wallets
      <3>2. CASE w = k[1]
        <4>1. sol'[w] = sol[k[1]] - amount
          BY <3>2, <1>1, <1>3, <1>7 DEF TypeOK
        <4>2. Purses'[w] = (sol[k[1]] - amount) + tok[k[1]]
          BY <3>2, <4>1, <1>1, <1>7 DEF Purses
        <4>3. QED
          BY <3>2, <4>2, <1>8
      <3>3. CASE w # k[1]
        BY <3>3, <1>1, <1>3 DEF TypeOK, Purses
      <3>4. QED
        BY <3>2, <3>3
    <2>2. QED
      BY <2>1, <1>7 DEF Purses
  <1>10. amount \in 0 .. Purses[k[1]]
    BY <1>1, <1>8
  <1>11. QED
    BY <1>1, <1>4, <1>6, <1>9, <1>10 DEF Custody!Add, Recipient, Held, Purses

\* Two payments to the same wallet, of sol and of tok.
LEMMA PaidIn ==
    ASSUME TypeOK, NEW w \in Wallets, NEW s \in Nat, NEW t \in Nat,
           sol' = [sol EXCEPT ![w] = @ + s], tok' = [tok EXCEPT ![w] = @ + t]
    PROVE  Purses' = [Purses EXCEPT ![w] = Purses[w] + (s + t)]
  <1>1. \A v \in Wallets : Purses'[v] = IF v = w THEN Purses[w] + (s + t) ELSE Purses[v]
    <2>1. TAKE v \in Wallets
    <2>2. CASE v = w
      <3>1. sol'[v] = sol[w] + s /\ tok'[v] = tok[w] + t
        BY <2>2 DEF TypeOK
      <3>2. Purses'[v] = (sol[w] + s) + (tok[w] + t)
        BY <3>1 DEF Purses
      <3>3. QED
        BY <2>2, <3>2, PursesType
    <2>3. CASE v # w
      BY <2>3 DEF TypeOK, Purses
    <2>4. QED
      BY <2>2, <2>3
  <1>2. QED
    BY <1>1 DEF Purses

LEMMA ClaimStep ==
    ASSUME IInv, NEW k \in Keys, NEW n \in PositionKeys, NEW pool \in Pools,
           NEW toX \in Wallets, NEW toY \in Wallets,
           DlmmClaimFees(k, n, pool, toX, toY)
    PROVE  \E paid \in 0 .. Held[k] : Custody!Pay(k, paid)
  <1>0. PICK a : a = position[n].fees
    OBVIOUS
  <1> DEFINE p == [position[n] EXCEPT !.fees = 0]
  <1>1. /\ Running /\ Running' = Running /\ authority' = authority
        /\ authority[k] # NoAuthority
        /\ position[n] # NoPosition /\ position[n].owner = k
        /\ toX = authority[k].exit /\ toY = authority[k].exit
        /\ sol' = [sol EXCEPT ![SolPayee(pool, toX, toY)] = @ + a] /\ tok' = tok
        /\ position' = [position EXCEPT ![n] = p]
    BY <1>0 DEF DlmmClaimFees, Owns, Running, Bound, Payees
  <1>2. TypeOK /\ AuthorityHasPosition
    BY DEF IInv
  <1>3. position[n] \in Positions
    BY <1>1, <1>2 DEF TypeOK
  <1>4. p \in Positions /\ p.sol = position[n].sol /\ p.tok = position[n].tok /\ p.fees = 0
    BY <1>3 DEF Positions
  <1> HIDE DEF p
  <1>5. /\ Held' = [Held EXCEPT ![k] = p.sol + p.tok + p.fees]
        /\ Held[k] = ValueOf(n) /\ Recipient' = Recipient /\ Recipient[k] # Nobody
    BY <1>1, <1>2, <1>4, HeldElsewhere
  <1>6. a \in Nat /\ a \in 0 .. Held[k] /\ p.sol + p.tok + p.fees = Held[k] - a
    BY <1>0, <1>1, <1>2, <1>4, <1>5, ValueType DEF ValueOf
  <1>7. authority[k].exit \in Wallets /\ Recipient[k] = authority[k].exit
    BY <1>1, <1>2 DEF TypeOK, Authorities, Recipient
  <1>8. /\ sol' = [sol EXCEPT ![authority[k].exit] = @ + a]
        /\ tok' = [tok EXCEPT ![authority[k].exit] = @ + 0]
    BY <1>1, <1>2, <1>7 DEF SolPayee, TypeOK
  <1>9. Purses' = [Purses EXCEPT ![authority[k].exit] = Purses[authority[k].exit] + (a + 0)]
    BY <1>2, <1>6, <1>7, <1>8, PaidIn
  <1>10. Purses' = [Purses EXCEPT ![Recipient[k]] = Purses[Recipient[k]] + a]
    <2>1. a + 0 = a
      BY <1>6
    <2>2. QED
      BY <1>7, <1>9, <2>1
  <1>11. Held' = [Held EXCEPT ![k] = Held[k] - a]
    BY <1>5, <1>6
  <1>12. Custody!Pay(k, a)
    BY <1>1, <1>5, <1>10, <1>11 DEF Custody!Pay, Recipient, Held, Purses
  <1>13. QED
    BY <1>6, <1>12

LEMMA CloseStep ==
    ASSUME IInv, NEW k \in Keys, NEW n \in PositionKeys, NEW pool \in Pools,
           NEW toX \in Wallets, NEW toY \in Wallets, NEW rent \in Wallets,
           NEW from, NEW upto, NEW bps,
           DlmmWithdrawClose(k, n, pool, toX, toY, rent, from, upto, bps)
    PROVE  Custody!Close(k)
  <1> DEFINE s == position[n].sol + position[n].fees
             t == position[n].tok
             exit == authority[k].exit
  <1>1. /\ Running /\ Running' = Running
        /\ authority[k] # NoAuthority /\ authority[k].position = n
        /\ position[n] # NoPosition
        /\ toX = exit /\ toY = exit
        /\ authority' = [authority EXCEPT ![k] = NoAuthority]
        /\ position' = [position EXCEPT ![n] = NoPosition]
    BY DEF DlmmWithdrawClose, WithdrawCloseAccepts, Owns, Running, Bound, Payees
  <1>2. TypeOK /\ AuthorityHasPosition
    BY DEF IInv
  <1>3. exit \in Wallets /\ Recipient[k] = exit /\ Recipient[k] # Nobody
    BY <1>1, <1>2, ExecutorAssumption DEF TypeOK, Authorities, Recipient
  <1>4. s \in Nat /\ t \in Nat /\ s + t = ValueOf(n) /\ Held[k] = ValueOf(n)
    BY <1>1, <1>2, ValueType DEF ValueOf, Held
  <1>5. sol' = [sol EXCEPT ![exit] = @ + s] /\ tok' = [tok EXCEPT ![exit] = @ + t]
    <2>1. sol[exit] \in Nat /\ position[n].sol \in Nat /\ position[n].fees \in Nat
      BY <1>1, <1>2, <1>3, ValueType DEF TypeOK
    <2>2. SolPayee(pool, toX, toY) = exit
      BY <1>1 DEF SolPayee
    <2>3. sol' = [sol EXCEPT ![exit] = @ + position[n].sol + position[n].fees]
      BY <2>2 DEF DlmmWithdrawClose
    <2>4. sol[exit] + position[n].sol + position[n].fees = sol[exit] + s
      BY <2>1
    <2>5. tok' = [tok EXCEPT ![exit] = @ + t]
      BY <1>1 DEF DlmmWithdrawClose
    <2>6. QED
      BY <2>3, <2>4, <2>5
  <1> HIDE DEF s, t, exit
  <1>6. Purses' = [Purses EXCEPT ![exit] = Purses[exit] + (s + t)]
    BY <1>2, <1>3, <1>4, <1>5, PaidIn
  <1>7. Purses' = [Purses EXCEPT ![Recipient[k]] = Purses[Recipient[k]] + Held[k]]
    BY <1>3, <1>4, <1>6
  <1>8. \A j \in Keys : authority'[j] = IF j = k THEN NoAuthority ELSE authority[j]
    BY <1>1, <1>2 DEF TypeOK
  <1>9. Recipient' = [Recipient EXCEPT ![k] = Nobody]
    BY <1>8 DEF Recipient
  <1>10. \A j \in Keys : Held'[j] = IF j = k THEN 0 ELSE Held[j]
    <2>1. TAKE j \in Keys
    <2>2. CASE j = k \/ authority[j] = NoAuthority
      BY <2>2, <1>8 DEF Held
    <2>3. CASE j # k /\ authority[j] # NoAuthority
      <3>1. authority[j].position \in PositionKeys /\ authority[j].position # n
        BY <2>3, <1>1, <1>2 DEF AuthorityHasPosition, TypeOK, Authorities
      <3>2. position'[authority[j].position] = position[authority[j].position]
        BY <3>1, <1>1, <1>2 DEF TypeOK
      <3>3. QED
        BY <2>3, <3>2, <1>8 DEF Held, ValueOf
    <2>4. QED
      BY <2>2, <2>3
  <1>11. Held' = [Held EXCEPT ![k] = 0]
    BY <1>10 DEF Held
  <1>12. QED
    BY <1>1, <1>3, <1>7, <1>9, <1>11 DEF Custody!Close, Recipient, Held, Purses

LEMMA SwapStep ==
    ASSUME IInv, NEW signer \in Stealths, NEW user \in Wallets,
           NEW payer \in Wallets, NEW payee \in Wallets, NEW sellSol \in BOOLEAN,
           NEW amount \in Nat, NEW least \in Nat,
           DlmmSwap(signer, user, payer, payee, sellSol, amount, least)
    PROVE  Custody!Exchange(signer)
  <1>1. /\ Running /\ Running' = Running /\ payer = signer /\ payee = signer
        /\ UNCHANGED <<authority, position>>
    BY DEF DlmmSwap, SwapAccounts, Running, dlmm
  <1>2. TypeOK /\ TypeOK'
    BY SwapTypeOK DEF IInv
  <1>3. signer \in Wallets
    BY DEF Wallets
  <1>4. Purses'[signer] >= 0
    <2>1. sol'[signer] \in Nat /\ tok'[signer] \in Nat
      BY <1>2, <1>3 DEF TypeOK
    <2>2. Purses'[signer] = sol'[signer] + tok'[signer]
      BY <1>3 DEF Purses
    <2>3. QED
      BY <2>1, <2>2
  <1>5. \A w \in Wallets : w # signer => sol'[w] = sol[w] /\ tok'[w] = tok[w]
    BY <1>1, <1>2 DEF DlmmSwap, TypeOK
  <1>6. \A w \in Wallets : Purses'[w] = IF w = signer THEN Purses'[signer] ELSE Purses[w]
    BY <1>5 DEF Purses
  <1>7. Purses' = [Purses EXCEPT ![signer] = Purses'[signer]]
    BY <1>6 DEF Purses
  <1>8. Recipient' = Recipient /\ Held' = Held
    BY <1>1 DEF Recipient, Held, ValueOf
  <1>9. QED
    BY <1>1, <1>4, <1>7, <1>8 DEF Custody!Exchange, Recipient, Held, Purses

LEMMA TradeStep ==
    ASSUME IInv, NEW n \in PositionKeys, Trade(n)
    PROVE  \E k \in Keys : Custody!Earn(k)
  <1>0. PICK k : k = position[n].owner
    OBVIOUS
  <1>1. TypeOK /\ AuthorityHasPosition
    BY DEF IInv
  <1>2. /\ position[n] # NoPosition /\ authority' = authority
        /\ Running' = Running /\ UNCHANGED <<sol, tok>>
    BY DEF Trade, Running, purses
  <1>3. PICK p \in Positions :
            /\ position' = [position EXCEPT ![n] = p]
            /\ p.sol + p.tok + p.fees
                  = position[n].sol + position[n].tok + position[n].fees + 1
    BY <1>1, TradeEffect
  <1>4. /\ k \in Keys /\ Held' = [Held EXCEPT ![k] = p.sol + p.tok + p.fees]
        /\ Held[k] = ValueOf(n) /\ Recipient' = Recipient /\ Recipient[k] # Nobody
    BY <1>0, <1>1, <1>2, <1>3, HeldElsewhere
  <1>5. p.sol + p.tok + p.fees = Held[k] + 1 /\ Held[k] \in Nat
    BY <1>1, <1>2, <1>3, <1>4, ValueType DEF ValueOf
  <1>6. Held'[k] = Held[k] + 1
    BY <1>4, <1>5 DEF Held
  <1>7. Held'[k] >= Held[k] /\ Held' = [Held EXCEPT ![k] = Held'[k]]
    <2>1. Held[k] + 1 >= Held[k]
      BY <1>5
    <2>2. QED
      BY <1>4, <1>5, <1>6, <2>1
  <1>8. Purses' = Purses
    BY <1>2 DEF Purses
  <1>9. Custody!Earn(k)
    BY <1>2, <1>4, <1>7, <1>8 DEF Custody!Earn, Recipient, Held, Purses
  <1>10. QED
    BY <1>4, <1>9

LEMMA CustodyStep == IInv /\ [Next]_vars => [Custody!Next]_(Custody!vars)
  <1> SUFFICES ASSUME IInv, [Next]_vars PROVE [Custody!Next]_(Custody!vars)
    OBVIOUS
  <1>1. ASSUME UNCHANGED <<authority, position, sol, tok>>
        PROVE  Recipient' = Recipient /\ Held' = Held /\ Purses' = Purses
    BY <1>1 DEF Recipient, Held, Purses, ValueOf
  <1>2. ASSUME Recipient' = Recipient, Held' = Held, Purses' = Purses, Running' = Running
        PROVE  UNCHANGED Custody!vars
    BY <1>2 DEF Custody!vars, Recipient, Held, Purses
  <1>3. CASE Admins
    <2>1. UNCHANGED <<authority, position, sol, tok>>
      BY <1>3 DEF Admins, InitConfig, SetPaused, dlmm, purses
    <2>2. (~Running)' \in BOOLEAN
      <3>1. TypeOK'
        BY NextTypeOK DEF IInv
      <3>2. QED
        BY <3>1 DEF TypeOK, Running
    <2>3. Custody!Freeze
      BY <1>1, <2>1, <2>2 DEF Custody!Freeze, Recipient, Held, Purses
    <2>4. QED
      BY <2>3 DEF Custody!Next
  <1>4. CASE Opens
    <2>1. PICK k \in Keys, n \in PositionKeys, pool \in Pools, exit \in Wallets,
               range \in Ranges, asked \in Ranges :
              DlmmInitPosition(k, n, pool, range, asked, exit)
      BY <1>4, OfferedRanges, UsePoolType, ExecutorAssumption DEF Opens
    <2>2. Custody!Open(k, exit)
      BY <2>1, OpenStep
    <2>3. QED
      BY <2>2 DEF Custody!Next
  <1>5. CASE Fills
    <2>1. PICK k \in Keys, n \in PositionKeys, pool \in Pools, r \in Offered,
               given \in ActiveBins, amount \in Amounts :
              DlmmAddLiquidity(k, n, pool, r, given, amount)
      BY <1>5 DEF Fills
    <2>2. r \in Ranges /\ given \in Int /\ amount \in Nat
      BY OfferedRanges, ExecutorAssumption
    <2>3. Custody!Add(k, amount) /\ amount \in 0 .. Purses[k[1]]
      BY <2>1, <2>2, FillStep
    <2>4. [j \in Keys |-> j[1]][k] = k[1]
      OBVIOUS
    <2>5. QED
      BY <2>3, <2>4 DEF Custody!Next, Purses
  <1>6. CASE Claims
    <2>1. PICK k \in Keys, n \in PositionKeys, pool \in Pools,
               toX \in Wallets, toY \in Wallets : DlmmClaimFees(k, n, pool, toX, toY)
      BY <1>6 DEF Claims
    <2>2. PICK paid \in 0 .. Held[k] : Custody!Pay(k, paid)
      BY <2>1, ClaimStep
    <2>3. QED
      BY <2>2 DEF Custody!Next, Held
  <1>7. CASE Closes
    <2>1. PICK k \in Keys, n \in PositionKeys, pool \in Pools, toX \in Wallets,
               toY \in Wallets, rent \in Wallets, r \in Offered, bps \in {0, 5000, 10000} :
              DlmmWithdrawClose(k, n, pool, toX, toY, rent, r.lower, r.upper, bps)
      BY <1>7 DEF Closes
    <2>2. Custody!Close(k)
      BY <2>1, CloseStep
    <2>3. QED
      BY <2>2 DEF Custody!Next
  <1>8. CASE Swaps
    <2>1. PICK signer \in Stealths, user \in Wallets, payer \in Wallets,
               payee \in Wallets, sellSol \in BOOLEAN,
               amount \in Amounts, least \in {0} \cup Amounts :
              DlmmSwap(signer, user, payer, payee, sellSol, amount, least)
      BY <1>8 DEF Swaps
    <2>2. amount \in Nat /\ least \in Nat /\ signer \in Wallets
      BY ExecutorAssumption DEF Wallets
    <2>3. Custody!Exchange(signer)
      BY <2>1, <2>2, SwapStep
    <2>4. QED
      BY <2>2, <2>3 DEF Custody!Next
  <1>9. CASE Trades
    <2>1. PICK n \in PositionKeys : Trade(n)
      BY <1>9 DEF Trades
    <2>2. PICK k \in Keys : Custody!Earn(k)
      BY <2>1, TradeStep
    <2>3. QED
      BY <2>2 DEF Custody!Next
  <1>10. CASE Moves
    BY <1>1, <1>2, <1>10 DEF Moves, Move, purses, Running
  <1>11. CASE UNCHANGED vars
    BY <1>1, <1>2, <1>11 DEF vars, dlmm, purses, Running
  <1>12. QED
    BY <1>3, <1>4, <1>5, <1>6, <1>7, <1>8, <1>9, <1>10, <1>11 DEF Next

\* Whatever accounts a caller names, the program gives a position's value to
\* nobody but the recipient recorded when it was opened.
THEOREM Refinement == Spec => ImplementsCustody
  BY AlwaysIInv, CustodyInit, CustodyStep, PTL DEF Spec, ImplementsCustody, Custody!Spec
=============================================================================
