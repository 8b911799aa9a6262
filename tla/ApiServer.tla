------------------------------ MODULE ApiServer ------------------------------
(***************************************************************************)
(* The API process around the position routes: nonces and wallet           *)
(* signatures (common/auth.ts), the beta list, the beta caps and the       *)
(* creation of an intent (positions/position.service.ts), and the writes   *)
(* of a row's state afterwards, with crashes and restarts of the process.  *)
(*                                                                         *)
(* Each await is the end of an action.  Nonces, the list and positions are *)
(* in the database and survive a crash; a request does not.  When a route  *)
(* or the worker writes the state of a position is PositionLifecycle's:    *)
(* here any state may be written at any moment.  A nonce and a position    *)
(* are named by the order of their creation (the code draws random names). *)
(***************************************************************************)
EXTENDS Integers, Sequences, FiniteSets

CONSTANTS
    Wallets, Approved,    \* Approved: those in the BetaAccess table
    Requests,             \* POST /positions/intents that the process may be serving
    Amounts,              \* SOL, in the body of a request
    MaxPositionSol, MaxPositionsPerWallet, MaxGlobalTvl, \* the beta caps
    NonceTtl,             \* NONCE_TTL_MS
    MaxNonces, MaxPositions, MaxTime, MaxCrashes \* bounds

ASSUME ApiAssumption ==
    /\ Approved \subseteq Wallets
    /\ Amounts \subseteq Nat \ {0}
    /\ MaxPositionSol \in Nat /\ MaxPositionsPerWallet \in Nat /\ MaxGlobalTvl \in Nat
    /\ NonceTtl \in Nat \ {0}
    /\ IsFiniteSet(Requests) /\ Requests # {}
    /\ MaxPositions \in Nat /\ MaxTime \in Nat

VARIABLES
    now,        \* the clock
    nonces,     \* the AuthNonce table
    positions,  \* the Position table
    req,        \* requests being served
    crashes

tables == <<nonces, positions>>
vars == <<now, tables, req, crashes>>

Idle == [pc |-> "idle", wallet |-> "none", signer |-> "none", nonce |-> 0,
         amount |-> 0, count |-> -1, total |-> -1]

Init ==
    /\ now = 0
    /\ nonces = <<>> /\ positions = <<>>
    /\ req = [r \in Requests |-> Idle]
    /\ crashes = 0

-----------------------------------------------------------------------------
(* Authentication.                                                         *)

\* issueAuthNonce: a fresh row.  (Its removal of rows long expired removes none
\* that a request could still claim.)
IssueAuthNonce(w) ==
    /\ Len(nonces) < MaxNonces
    /\ nonces' = Append(nonces, [wallet |-> w, expires |-> now + NonceTtl, used |-> FALSE])
    /\ UNCHANGED <<now, positions, req, crashes>>

Claimable_reusable(n, w) ==                         \* mutant: used is not asked for
    nonces[n].wallet = w /\ nonces[n].expires > now
Claimable(n, w) ==
    nonces[n].wallet = w /\ ~nonces[n].used /\ nonces[n].expires > now

\* requireWalletSignature: the update claims the nonce, then the signature over
\* it is verified; requireBetaAccess; and assertBetaCaps up to its queries.  A
\* request that fails one of them is answered and gone, and its nonce with it.
Admitted(w, signer, amount) ==
    signer = w /\ w \in Approved /\ amount <= MaxPositionSol

Admit(r, w, n, signer, amount) ==
    /\ req[r] = Idle
    /\ Claimable(n, w)
    /\ nonces' = [nonces EXCEPT ![n].used = TRUE]
    /\ req' = IF Admitted(w, signer, amount)
              THEN [req EXCEPT ![r] = [Idle EXCEPT !.pc = "caps", !.wallet = w,
                                       !.signer = signer, !.nonce = n, !.amount = amount]]
              ELSE req
    /\ UNCHANGED <<now, positions, crashes>>

-----------------------------------------------------------------------------
(* Intents.                                                                *)

Terminal == {"completed", "failed"}
Active == {i \in DOMAIN positions : positions[i].state \notin Terminal}
ActiveOf(w) == {i \in Active : positions[i].wallet = w}

\* The sum of their amounts: so many units of SOL are in them.
UnitsOf(amount, ids) == {u \in ids \X (1 .. MaxPositionSol) : u[2] <= amount[u[1]]}
AmountOf == [i \in DOMAIN positions |-> positions[i].amount]
SumOf(ids) == Cardinality(UnitsOf(AmountOf, ids))

\* The two queries of assertBetaCaps, in either order.
CountActiveByWallet(r) ==
    /\ req[r].pc = "caps" /\ req[r].count = -1
    /\ req' = [req EXCEPT ![r].count = Cardinality(ActiveOf(req[r].wallet))]
    /\ UNCHANGED <<now, tables, crashes>>

SumActiveAmountSol(r) ==
    /\ req[r].pc = "caps" /\ req[r].total = -1
    /\ req' = [req EXCEPT ![r].total = SumOf(Active)]
    /\ UNCHANGED <<now, tables, crashes>>

WithinCaps_alone(q) ==                \* mutant: the new amount by itself
    q.count < MaxPositionsPerWallet /\ q.amount <= MaxGlobalTvl
WithinCaps(q) ==
    q.count < MaxPositionsPerWallet /\ q.total + q.amount <= MaxGlobalTvl

\* The rest of createDraftPositionIntent: refused, or a row in the table.
CreatePosition(r) ==
    LET q == req[r] IN
    /\ q.pc = "caps" /\ q.count >= 0 /\ q.total >= 0
    /\ req' = [req EXCEPT ![r] = Idle]
    /\ IF WithinCaps(q)
          THEN /\ Len(positions) < MaxPositions
               /\ positions' = Append(positions,
                      [wallet |-> q.wallet, signer |-> q.signer, nonce |-> q.nonce,
                       amount |-> q.amount, state |-> "open"])
          ELSE UNCHANGED positions
    /\ UNCHANGED <<now, nonces, crashes>>

\* What the routes and the worker write of a row from then on.  The write asks
\* for no former state: a row that has ended may be written open again, by an
\* execute beside the one that failed it or by the worker.  Such a row is told
\* apart here as revived; the code has no name for it.
UpdatePositionState(i, s) ==
    /\ positions' = [positions EXCEPT ![i].state =
                         IF s = "open" /\ @ # "open" THEN "revived" ELSE s]
    /\ UNCHANGED <<now, nonces, req, crashes>>

-----------------------------------------------------------------------------
Crash ==
    /\ crashes < MaxCrashes
    /\ crashes' = crashes + 1
    /\ req' = [r \in Requests |-> Idle]
    /\ UNCHANGED <<now, tables>>

Clock ==
    /\ now < MaxTime
    /\ now' = now + 1
    /\ UNCHANGED <<tables, req, crashes>>

Next ==
    \/ \E w \in Wallets : IssueAuthNonce(w)
    \/ \E r \in Requests, w \in Wallets, n \in DOMAIN nonces,
          signer \in Wallets, amount \in Amounts :
           Admit(r, w, n, signer, amount)
    \/ \E r \in Requests :
           CountActiveByWallet(r) \/ SumActiveAmountSol(r) \/ CreatePosition(r)
    \/ \E i \in DOMAIN positions, s \in {"open", "completed", "failed"} :
           UpdatePositionState(i, s)
    \/ Crash \/ Clock

Spec == Init /\ [][Next]_vars

-----------------------------------------------------------------------------
\* Types; a request that counts its caps has passed the signature check.
TypeOK ==
    /\ now \in 0 .. MaxTime
    /\ \A n \in DOMAIN nonces :
           nonces[n] \in [wallet : Wallets, expires : Nat, used : BOOLEAN]
    /\ \A i \in DOMAIN positions :
           positions[i] \in [wallet : Wallets, signer : Wallets, nonce : DOMAIN nonces,
                             amount : 1 .. MaxPositionSol,
                             state : {"open", "revived", "completed", "failed"}]
    /\ \A r \in Requests :
           \/ req[r] = Idle
           \/ req[r] \in [pc : {"caps"}, wallet : Wallets, signer : Wallets,
                          nonce : DOMAIN nonces, amount : Amounts,
                          count : -1 .. MaxPositions, total : Int]

\* "A one-shot nonce moves the replay window to the lifetime of one in-flight
\* request" (auth.ts:26): however often and however concurrently a client sends
\* a signed request, at most one position comes of it, and of a request whose
\* wallet did not sign none.
OnePositionPerSignature ==
    /\ \A i, j \in DOMAIN positions : i # j => positions[i].nonce # positions[j].nonce
    /\ \A i \in DOMAIN positions :
           LET p == positions[i] IN
           p.signer = p.wallet /\ nonces[p.nonce].wallet = p.wallet /\ nonces[p.nonce].used

\* The caps are read before the row is written: requests in flight together may
\* pass them by as many rows as there are requests beside one, and by no more.
\* A row that had ended and is written open again was in no count in between, and
\* comes on top.
Revived == {i \in Active : positions[i].state = "revived"}

OvershootBounded ==
    LET others == Cardinality(Requests) - 1 IN
    /\ \A w \in Wallets :
           Cardinality(ActiveOf(w) \ Revived) <= MaxPositionsPerWallet + others
    /\ SumOf(Active \ Revived) <= MaxGlobalTvl + others * MaxPositionSol

\* The caps themselves.  They do not hold: a row revived after its place was taken
\* is one too many, with no two intents in flight together.
WithinBetaCaps ==
    /\ \A w \in Wallets : Cardinality(ActiveOf(w)) <= MaxPositionsPerWallet
    /\ SumOf(Active) <= MaxGlobalTvl
=============================================================================
