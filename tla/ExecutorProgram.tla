--------------------------- MODULE ExecutorProgram ---------------------------
(***************************************************************************)
(* The executor program (src/programs/octora-executor): one action per     *)
(* instruction, for any accounts that a caller may name, with the guards   *)
(* of its handler in place of the accounts that cannot be otherwise (the   *)
(* token, system and DLMM programs, the sysvars).  A transaction that is   *)
(* refused changes nothing and is no step.                                 *)
(*                                                                         *)
(* The DLMM program is external: its operators are what the handlers and   *)
(* executor.service.ts rely on.  Ranges are those of PoolRange, as the     *)
(* API builds them, or a user's own.  Value is counted in lamports: the    *)
(* token of a pool trades at one.                                          *)
(***************************************************************************)
EXTENDS PoolRange, FiniteSets

CONSTANTS
    Stealths, Others,   \* wallets, and other keys that token accounts may belong to
    Pools, SolIsTokenX, \* lb_pairs; for each, which side SOL is on
    PositionKeys,       \* keypairs of position accounts
    Admin,              \* EXECUTOR_ADMIN_AUTHORITY
    Asked,              \* ranges that users choose
    ActiveBins,         \* bins that may be the active one of a pool
    Amounts,            \* lamports of a deposit or a swap
    Purse,              \* lamports of each stealth wallet at the start
    NoAuthority, NoPosition, Nobody,
    MaxTrades           \* bound

Wallets == Stealths \cup Others
Keys == Stealths \X Pools       \* the seeds of a PoolAuthority
Authorities == [exit : Wallets, pool : Pools, position : PositionKeys]
Positions == [owner : Keys, pool : Pools, range : Ranges, asked : Ranges,
              filled : Ranges, sol : Nat, tok : Nat, fees : Nat]

ASSUME ExecutorAssumption ==
    /\ Nobody \notin Wallets
    /\ NoAuthority \notin Authorities /\ NoPosition \notin Positions
    /\ SolIsTokenX \in [Pools -> BOOLEAN]
    /\ Asked \subseteq Ranges
    /\ ActiveBins \subseteq Int
    /\ Amounts \subseteq Nat \ {0}
    /\ Purse \in Nat /\ MaxTrades \in Nat

VARIABLES
    config,     \* Config: whether it is there, its authority, paused
    authority,  \* PoolAuthority of each key
    position,   \* DLMM: the position account at each address
    active,     \* DLMM: the active bin of each pool
    sol, tok,   \* what each wallet's token accounts hold
    trades

dlmm == <<position, active>>
purses == <<sol, tok>>
vars == <<config, authority, dlmm, purses, trades>>

Init ==
    /\ config = [exists |-> FALSE, authority |-> Nobody, paused |-> FALSE]
    /\ authority = [k \in Keys |-> NoAuthority]
    /\ position = [n \in PositionKeys |-> NoPosition]
    /\ active \in [Pools -> ActiveBins]
    /\ sol = [w \in Wallets |-> IF w \in Stealths THEN Purse ELSE 0]
    /\ tok = [w \in Wallets |-> 0]
    /\ trades = 0

\* Every DLMM instruction asks for it.
Running == config.exists /\ ~config.paused

-----------------------------------------------------------------------------
(* The DLMM program, as far as the handlers rely on it.                    *)

\* The ranges that it may be given: a user's own or the API's.
Offered == Asked \cup {UsePool(a, b) : a \in Asked, b \in ActiveBins}

InitializePosition(n, k, pool, range, asked) ==
    /\ position[n] = NoPosition
    /\ Width(range) \in 1 .. MaxWidth
    /\ position' = [position EXCEPT ![n] =
           [owner |-> k, pool |-> pool, range |-> range, asked |-> asked,
            filled |-> range, sol |-> 0, tok |-> 0, fees |-> 0]]

Owns(k, n, pool) ==
    position[n] # NoPosition /\ position[n].owner = k /\ position[n].pool = pool

IsEmpty(p) == p.sol + p.tok = 0

\* add_liquidity_by_strategy, SOL alone, at most 5 bins of drift (:574).
AddLiquidityByStrategy(n, k, pool, r, given, amount) ==
    LET p == position[n]
        taken == SolSide(r, active[pool], SolIsTokenX[pool])
    IN  /\ Owns(k, n, pool)
        /\ Within(r, p.range) /\ TwoArrays(r)
        /\ active[pool] - given \in -5 .. 5
        /\ taken.lower <= taken.upper
        /\ position' = [position EXCEPT
               ![n].sol = @ + amount,
               ![n].filled = IF IsEmpty(p) THEN taken
                             ELSE [lower |-> Least(@.lower, taken.lower),
                                   upper |-> Greatest(@.upper, taken.upper)]]

\* remove_liquidity_by_range and close_position: an account that is not empty
\* cannot be closed.
Empties(p, from, upto, bps) ==
    \/ IsEmpty(p)
    \/ bps = 10000 /\ from <= p.filled.lower /\ p.filled.upper <= upto

-----------------------------------------------------------------------------
(* Admin instructions.                                                     *)

InitConfig_permissionless(signer) ==          \* mutant: the devnet feature left on
    /\ ~config.exists
    /\ config' = [exists |-> TRUE, authority |-> signer, paused |-> FALSE]
    /\ UNCHANGED <<authority, dlmm, purses, trades>>
InitConfig(signer) ==
    /\ signer = Admin
    /\ ~config.exists
    /\ config' = [exists |-> TRUE, authority |-> signer, paused |-> FALSE]
    /\ UNCHANGED <<authority, dlmm, purses, trades>>

SetPaused(signer, paused) ==
    /\ config.exists
    /\ signer = config.authority
    /\ config' = [config EXCEPT !.paused = paused]
    /\ UNCHANGED <<authority, dlmm, purses, trades>>

-----------------------------------------------------------------------------
(* DLMM instructions, signed by the stealth wallet k[1] for the lb_pair k[2]. *)

\* The caller also names the pool of the CPI (remaining[2]) and the recipient.
DlmmInitPosition(k, n, pool, range, asked, exit) ==
    /\ Running
    /\ authority[k] = NoAuthority
    /\ pool = k[2]
    /\ authority' = [authority EXCEPT ![k] = [exit |-> exit, pool |-> pool, position |-> n]]
    /\ InitializePosition(n, k, pool, range, asked)
    /\ UNCHANGED <<config, active, purses, trades>>

\* The accounts forwarded are those that the PoolAuthority names.
Bound(k, n, pool) ==
    /\ authority[k] # NoAuthority
    /\ n = authority[k].position
    /\ pool = authority[k].pool /\ pool = k[2]

\* The transaction of buildAddLiquidityTx: the stealth wallet moves the amount
\* to the PoolAuthority's account and the program adds it.
DlmmAddLiquidity(k, n, pool, r, given, amount) ==
    /\ Running
    /\ Bound(k, n, pool)
    /\ PlanAccepts(r, given, SolIsTokenX[pool])
    /\ sol[k[1]] >= amount
    /\ sol' = [sol EXCEPT ![k[1]] = @ - amount]
    /\ AddLiquidityByStrategy(n, k, pool, r, given, amount)
    /\ UNCHANGED <<config, authority, active, tok, trades>>

\* The owners of the two token accounts that the caller names as payees.
Payees_xOnly(k, toX, toY) == toX = authority[k].exit      \* mutant: toY unchecked
Payees(k, toX, toY) == toX = authority[k].exit /\ toY = authority[k].exit
SolPayee(pool, toX, toY) == IF SolIsTokenX[pool] THEN toX ELSE toY

DlmmClaimFees(k, n, pool, toX, toY) ==
    /\ Running
    /\ Bound(k, n, pool)
    /\ Payees(k, toX, toY)
    /\ Owns(k, n, pool)
    /\ sol' = [sol EXCEPT ![SolPayee(pool, toX, toY)] = @ + position[n].fees]
    /\ position' = [position EXCEPT ![n].fees = 0]
    /\ UNCHANGED <<config, authority, active, tok, trades>>

WithdrawCloseAccepts(k, n, pool, toX, toY, rent, from, upto, bps) ==
    /\ Running
    /\ from <= upto /\ bps \in 1 .. 10000
    /\ Bound(k, n, pool)
    /\ Payees(k, toX, toY)
    /\ rent = authority[k].exit /\ rent # n /\ rent # pool
    /\ Owns(k, n, pool)
    /\ Within([lower |-> from, upper |-> upto], position[n].range)
    /\ Empties(position[n], from, upto, bps)

\* Both CPIs, and close = stealth for the PoolAuthority: all of it or nothing.
DlmmWithdrawClose_keeps(k, n, pool, toX, toY, rent, from, upto, bps) ==
    /\ WithdrawCloseAccepts(k, n, pool, toX, toY, rent, from, upto, bps)
    /\ LET p == position[n]
           toTok == IF SolIsTokenX[pool] THEN toY ELSE toX
       IN  /\ sol' = [sol EXCEPT ![SolPayee(pool, toX, toY)] = @ + p.sol + p.fees]
           /\ tok' = [tok EXCEPT ![toTok] = @ + p.tok]
    /\ position' = [position EXCEPT ![n] = NoPosition]   \* mutant: no close = stealth
    /\ UNCHANGED <<config, authority, active, trades>>
DlmmWithdrawClose(k, n, pool, toX, toY, rent, from, upto, bps) ==
    /\ WithdrawCloseAccepts(k, n, pool, toX, toY, rent, from, upto, bps)
    /\ LET p == position[n]
           toTok == IF SolIsTokenX[pool] THEN toY ELSE toX
       IN  /\ sol' = [sol EXCEPT ![SolPayee(pool, toX, toY)] = @ + p.sol + p.fees]
           /\ tok' = [tok EXCEPT ![toTok] = @ + p.tok]
    /\ position' = [position EXCEPT ![n] = NoPosition]
    /\ authority' = [authority EXCEPT ![k] = NoAuthority]
    /\ UNCHANGED <<config, active, trades>>

\* The user of the CPI and the owners of its two token accounts are the signer.
SwapAccounts(signer, user, payer, payee) ==
    user = signer /\ payer = signer /\ payee = signer

\* Signed by the stealth wallet alone; SOL for the token, or back.
DlmmSwap(signer, user, payer, payee, sellSol, amount, least) ==
    /\ Running
    /\ amount > 0 /\ least > 0
    /\ SwapAccounts(signer, user, payer, payee)
    /\ \E received \in least .. amount :
          IF sellSol
             THEN /\ sol[payer] >= amount
                  /\ sol' = [sol EXCEPT ![payer] = @ - amount]
                  /\ tok' = [tok EXCEPT ![payee] = @ + received]
             ELSE /\ tok[payer] >= amount
                  /\ tok' = [tok EXCEPT ![payer] = @ - amount]
                  /\ sol' = [sol EXCEPT ![payee] = @ + received]
    /\ UNCHANGED <<config, authority, dlmm, trades>>

-----------------------------------------------------------------------------
(* Others trade: bins of a position change hands, the active bin moves.    *)

Trade(n) ==
    /\ trades < MaxTrades
    /\ position[n] # NoPosition /\ ~IsEmpty(position[n])
    /\ \/ position[n].sol > 0
          /\ position' = [position EXCEPT ![n].sol = @ - 1, ![n].tok = @ + 1, ![n].fees = @ + 1]
       \/ position[n].tok > 0
          /\ position' = [position EXCEPT ![n].tok = @ - 1, ![n].sol = @ + 1, ![n].fees = @ + 1]
    /\ trades' = trades + 1
    /\ UNCHANGED <<config, authority, active, purses>>

Move(pool, bin) ==
    /\ active' = [active EXCEPT ![pool] = bin]
    /\ UNCHANGED <<config, authority, position, purses, trades>>

-----------------------------------------------------------------------------
Admins == \E signer \in Wallets \cup {Admin} :
    InitConfig(signer) \/ \E paused \in BOOLEAN : SetPaused(signer, paused)

\* The range is what use-pool gives for some active bin, or the user's own.
Opens == \E k \in Keys, n \in PositionKeys, pool \in Pools, exit \in Wallets :
    \E asked \in Asked :
        \/ DlmmInitPosition(k, n, pool, asked, asked, exit)
        \/ \E bin \in ActiveBins :
               DlmmInitPosition(k, n, pool, UsePool(asked, bin), asked, exit)

Fills == \E k \in Keys, n \in PositionKeys, pool \in Pools :
    \E r \in Offered, given \in ActiveBins, amount \in Amounts :
        DlmmAddLiquidity(k, n, pool, r, given, amount)

Claims == \E k \in Keys, n \in PositionKeys, pool \in Pools, toX, toY \in Wallets :
    DlmmClaimFees(k, n, pool, toX, toY)

Closes == \E k \in Keys, n \in PositionKeys, pool \in Pools, toX, toY, rent \in Wallets :
    \E r \in Offered, bps \in {0, 5000, 10000} :
        DlmmWithdrawClose(k, n, pool, toX, toY, rent, r.lower, r.upper, bps)

Swaps == \E signer \in Stealths, user, payer, payee \in Wallets, sellSol \in BOOLEAN :
    \E amount \in Amounts, least \in {0} \cup Amounts :
        DlmmSwap(signer, user, payer, payee, sellSol, amount, least)

Trades == \E n \in PositionKeys : Trade(n)
Moves == \E pool \in Pools, bin \in ActiveBins : Move(pool, bin)

Next == Admins \/ Opens \/ Fills \/ Claims \/ Closes \/ Swaps \/ Trades \/ Moves

Spec == Init /\ [][Next]_vars

-----------------------------------------------------------------------------
\* Types; the authority of the config is nobody but the admin, for good
\* (admin.rs:14: "the only key that can flip paused").
TypeOK ==
    /\ config \in [exists : BOOLEAN, authority : {Nobody, Admin}, paused : BOOLEAN]
    /\ authority \in [Keys -> Authorities \cup {NoAuthority}]
    /\ position \in [PositionKeys -> Positions \cup {NoPosition}]
    /\ active \in [Pools -> Int]
    /\ sol \in [Wallets -> Nat] /\ tok \in [Wallets -> Nat]
    /\ trades \in Nat

\* A PoolAuthority names a live position on its pool that it owns, and a live
\* position is named by its owner: opening and closing make and break both, so
\* that the stale PoolAuthority which buildInitPositionTx looks for
\* (executor.service.ts:410) does not occur.
AuthorityHasPosition ==
    /\ \A k \in Keys : authority[k] # NoAuthority =>
           LET n == authority[k].position IN
           /\ position[n] # NoPosition
           /\ position[n].owner = k
           /\ position[n].pool = k[2] /\ authority[k].pool = k[2]
    /\ \A n \in PositionKeys : position[n] # NoPosition =>
           LET k == position[n].owner IN
           /\ authority[k] # NoAuthority
           /\ authority[k].position = n

\* The exit that the API builds is accepted, for every position that spans two
\* bin arrays (the API opens no other) and wherever the active bin has gone:
\* use-pool, given the range of the position, must reproduce it
\* (privateLifecycle.ts:66), or bins with liquidity stay behind and
\* close_position fails.  Whoever opened a position in favour of its own account, or
\* of the pool's, has no way out: init accepts such a recipient, close refuses it.
AlwaysClosable ==
    \A k \in Keys : Running /\ authority[k] # NoAuthority =>
        LET n == authority[k].position
            exit == authority[k].exit
        IN  TwoArrays(position[n].range) /\ exit \notin {n, k[2]} =>
                \A bin \in ActiveBins :
                    LET r == UsePool(position[n].range, bin) IN
                    WithdrawCloseAccepts(k, n, k[2], exit, exit, exit,
                                         r.lower, r.upper, 10000)

ValueOf(n) == position[n].sol + position[n].tok + position[n].fees
Custody == INSTANCE PositionCustody WITH
    OwnerOf <- [k \in Keys |-> k[1]],
    recipient <- [k \in Keys |->
        IF authority[k] = NoAuthority THEN Nobody ELSE authority[k].exit],
    held <- [k \in Keys |->
        IF authority[k] = NoAuthority THEN 0 ELSE ValueOf(authority[k].position)],
    purse <- [w \in Wallets |-> sol[w] + tok[w]],
    frozen <- ~Running

\* The program implements the custody that it promises: value leaves a position
\* only to the exit recipient recorded when it was opened, a close pays all of
\* it, a swap touches no wallet but the signer's, and a pause stops everything.
ImplementsCustody == Custody!Spec

\* "this widens *capacity* without changing the liquidity footprint"
\* (executor.service.ts:267): SOL goes only where the user asked for it.
DepositAsAsked ==
    \A n \in PositionKeys : position[n] # NoPosition /\ ~IsEmpty(position[n]) =>
        Within(position[n].filled, position[n].asked)
=============================================================================
