---------------------------- MODULE RelayerProofs ----------------------------
(***************************************************************************)
(* Theorems about the relayer, for any number of requests, notes, roots and *)
(* attempts, any delay and lag, restarts at any time, rival withdrawals and *)
(* transactions that land late or never.                                   *)
(*                                                                         *)
(* The request that works under a spelled nullifier is the one that the      *)
(* in-flight map names (Owned): exclusion and the fate of joined ones follow *)
(* from it.  Beside it: what is remembered, what was answered, and how the   *)
(* three clocks of the privacy delay relate (Timely).                        *)
(***************************************************************************)
EXTENDS Relayer, FiniteSetTheorems, TLAPS

ReqType == [pc: PCs, ask: Asks \cup {NoAsk}, slot: 0 .. MaxSlot,
            attempt: 0 .. MaxAttempts, reply: {"none", "failed", "success"},
            recipient: Recipients \cup {Nobody}]
Owners == Requests \cup {Nobody}
PaidType == [owner: Owners, attempt: 0 .. MaxAttempts, recipient: Recipients \cup {Nobody}]
TxType == [owner: Owners, attempt: 0 .. MaxAttempts, nullifier: Nullifiers,
           root: Roots, recipient: Recipients]

\* Types, without the counter of pending submissions.
Shape ==
    /\ req \in [Requests -> ReqType]
    /\ inFlight \in [Hashes -> Owners]
    /\ cache \subseteq Hashes /\ known \subseteq Hashes
    /\ firstSeen \in [Roots -> -1 .. MaxSlot]
    /\ armedAt \in [Roots -> -1 .. MaxSlot]
    /\ txs \subseteq TxType
    /\ paid \in [Nullifiers -> PaidType]
    /\ leaves \in Nat /\ slot \in 0 .. MaxSlot

\* Whoever is served, waits or succeeded has asked.
AskKnown == \A r \in Requests :
    req[r].pc # "idle" \/ req[r].reply = "success" => req[r].ask \in Asks

\* A request past admission is the one in flight under its string.
Owned == \A r \in Requests : req[r].pc \in Working => inFlight[Hash(r)] = r

\* The pending submissions are counted.
Submitting == {r \in Requests : req[r].pc \in {"send", "confirm"}}
Counted == pending = Cardinality(Submitting)

\* A root is in the table only after the relayer met it, at a slot that trails
\* that moment by the lag at most; so does the slot that a request has read.
Timely ==
    /\ \A x \in Roots :
           /\ armedAt[x] <= slot
           /\ firstSeen[x] # -1 => armedAt[x] # -1 /\ firstSeen[x] >= armedAt[x] - Lag
    /\ \A r \in Requests : At(r, "observe") =>
           LET x == req[r].ask.root IN
           /\ armedAt[x] # -1
           /\ req[r].slot <= slot /\ req[r].slot >= armedAt[x] - Lag
    /\ \A r \in Requests : req[r].pc \in {"send", "confirm"} => armedAt[req[r].ask.root] # -1

\* What is under way for a request is so while the request submits.
SentBySubmitting == \A t \in txs : t.owner # Nobody =>
    t.owner \in Requests /\ req[t.owner].pc \in {"send", "confirm"}

(* The inductive invariant. *)
RelayerInv ==
    /\ Shape /\ AskKnown /\ Owned /\ JoinersHaveOwner /\ Counted /\ SentBySubmitting
    /\ SpentMemoryTrue /\ PaidAsAnswered /\ Timely /\ DelayHeld

-----------------------------------------------------------------------------
(* What a step does to the requests and to the in-flight map.              *)

\* r goes on to its next await, still for the same ask and unanswered.
Advances(r) ==
    /\ inFlight' = inFlight
    /\ \E e \in ReqType :
           /\ e.ask = req[r].ask /\ e.reply = req[r].reply /\ e.recipient = req[r].recipient
           /\ e.pc \in Working
           /\ req' = [req EXCEPT ![r] = e]

\* A step of a handler advances its request, or answers it and who joined it; it
\* succeeds only when its own transaction was paid.
LEMMA ServeMoves ==
    ASSUME Shape, NEW r \in Requests, Serve(r)
    PROVE  /\ req[r].pc \in Working
           /\ \/ Advances(r)
              \/ Settle(r, "failed")
              \/ Settle(r, "success") /\ Landed(r)
  <1> USE RelayerAssumption
  <1>0. req[r] \in ReqType
    BY DEF Shape
  <1>a. ASSUME NEW p \in Working, At(r, p) PROVE req[r].pc \in Working
    BY <1>a DEF At
  <1>b. ASSUME NEW p \in Working, Goto(r, p), inFlight' = inFlight PROVE Advances(r)
    <2> DEFINE e == [req[r] EXCEPT !.pc = p]
    <2>1. e \in ReqType /\ e.ask = req[r].ask /\ e.reply = req[r].reply
          /\ e.recipient = req[r].recipient /\ e.pc \in Working
      BY <1>0, <1>b DEF ReqType, Working
    <2>2. req' = [req EXCEPT ![r] = e]
      BY <1>b DEF Goto
    <2> QED
      BY <2>1, <2>2, <1>b DEF Advances
  <1>1. CASE IsSpent(r)
    BY <1>1, <1>a, <1>b DEF IsSpent, Working, PCs
  <1>2. CASE GetSlot(r)
    <2>1. PICK s \in slot - Lag .. slot :
              s >= 0 /\ req' = [req EXCEPT ![r].pc = "observe", ![r].slot = s]
      BY <1>2 DEF GetSlot
    <2> DEFINE e == [req[r] EXCEPT !.pc = "observe", !.slot = s]
    <2>2. s \in 0 .. MaxSlot
      BY <2>1 DEF Shape
    <2>3. e \in ReqType /\ e.ask = req[r].ask /\ e.reply = req[r].reply
          /\ e.recipient = req[r].recipient /\ e.pc \in Working
      BY <1>0, <2>2 DEF ReqType, Working, PCs
    <2>4. req' = [req EXCEPT ![r] = e]
      BY <2>1
    <2> QED
      BY <1>2, <2>3, <2>4, <1>a DEF Advances, GetSlot, Working, PCs
  <1>3. CASE Observe(r)
    <2>1. req[r].pc \in Working
      BY <1>3, <1>a DEF Observe, Working, PCs
    <2>2. CASE DelayMet(r)
      <3> DEFINE e == [req[r] EXCEPT !.pc = "send", !.attempt = 1]
      <3>0. 1 \in 0 .. MaxAttempts
        OBVIOUS
      <3>1. e \in ReqType /\ e.ask = req[r].ask /\ e.reply = req[r].reply
            /\ e.recipient = req[r].recipient /\ e.pc \in Working
        BY <1>0, <3>0 DEF ReqType, Working, PCs
      <3>2. req' = [req EXCEPT ![r] = e] /\ inFlight' = inFlight
        BY <1>3, <2>2 DEF Observe
      <3> QED
        BY <2>1, <3>1, <3>2 DEF Advances
    <2>3. CASE ~DelayMet(r)
      BY <1>3, <2>1, <2>3 DEF Observe
    <2> QED
      BY <2>2, <2>3
  <1>4. CASE Throws(r)
    BY <1>4 DEF Throws, Working, PCs
  <1>c. ASSUME NEW sent, Retry(r, sent), req[r].pc \in Working
        PROVE  Advances(r) \/ Settle(r, "failed")
    <2>1. CASE req[r].attempt < MaxAttempts
      <3> DEFINE e == [req[r] EXCEPT !.pc = "send", !.attempt = req[r].attempt + 1]
      <3>0. req[r].attempt + 1 \in 0 .. MaxAttempts
        BY <1>0, <2>1 DEF ReqType
      <3>1. e \in ReqType /\ e.ask = req[r].ask /\ e.reply = req[r].reply
            /\ e.recipient = req[r].recipient /\ e.pc \in Working
        BY <1>0, <3>0 DEF ReqType, Working, PCs
      <3>2. req' = [req EXCEPT ![r] = e] /\ inFlight' = inFlight
        BY <1>c, <2>1 DEF Retry
      <3> QED
        BY <3>1, <3>2 DEF Advances
    <2>2. CASE ~(req[r].attempt < MaxAttempts)
      BY <1>c, <2>2 DEF Retry, GiveUp
    <2> QED
      BY <2>1, <2>2
  <1>5. CASE Send(r)
    <2>1. req[r].pc \in Working
      BY <1>5, <1>a DEF Send, Working, PCs
    <2>2. CASE Goto(r, "confirm") /\ inFlight' = inFlight
      BY <2>1, <2>2, <1>b DEF Working, PCs
    <2>3. CASE GiveUp(r, txs)
      BY <2>1, <2>3 DEF GiveUp
    <2>4. CASE \E sent \in {txs, txs \cup {Tx(r)}} : Retry(r, sent)
      BY <2>1, <2>4, <1>c
    <2> QED
      BY <1>5, <2>2, <2>3, <2>4 DEF Send
  <1>6. CASE Confirm(r)
    <2>1. req[r].pc \in Working
      BY <1>6, <1>a DEF Confirm, Working, PCs
    <2>2. CASE Succeed(r)
      BY <2>1, <2>2 DEF Succeed, Confirmed
    <2>3. CASE GiveUp(r, txs)
      BY <2>1, <2>3 DEF GiveUp
    <2>4. CASE Retry(r, txs)
      BY <2>1, <2>4, <1>c
    <2> QED
      BY <1>6, <2>2, <2>3, <2>4 DEF Confirm
  <1> QED
    BY <1>1, <1>2, <1>3, <1>4, <1>5, <1>6 DEF Serve

\* The three outcomes of Arrive, named.
Enters(r, ask, entry) ==
    /\ req[r].pc = "idle" /\ ask \in Asks
    /\ req' = [req EXCEPT ![r] = entry]
Joins(r, ask) ==
    /\ Enters(r, ask, [Idle EXCEPT !.pc = "joined", !.ask = ask])
    /\ inFlight[ask.nullifierHash] # Nobody /\ inFlight' = inFlight
Refused(r, ask) ==
    /\ Enters(r, ask, [Idle EXCEPT !.ask = ask, !.reply = "failed",
                                   !.recipient = ask.recipient])
    /\ inFlight' = inFlight
Admitted(r, ask) ==
    /\ Enters(r, ask, [Idle EXCEPT !.pc = "isSpent", !.ask = ask])
    /\ inFlight[ask.nullifierHash] = Nobody
    /\ inFlight' = [inFlight EXCEPT ![ask.nullifierHash] = r]

Restarted ==
    /\ req' = [r \in Requests |-> Idle]
    /\ inFlight' = [h \in Hashes |-> Nobody]

\* Every step is one of these to the requests and the in-flight map.
RequestsMove ==
    \/ \E r \in Requests :
          /\ req[r].pc \in Working
          /\ \/ Advances(r)
             \/ Settle(r, "failed")
             \/ Settle(r, "success") /\ Landed(r)
    \/ \E r \in Requests, ask \in Asks : Joins(r, ask) \/ Refused(r, ask) \/ Admitted(r, ask)
    \/ Restarted
    \/ UNCHANGED <<req, inFlight>>

LEMMA StepMoves ==
    ASSUME Shape, [Next]_vars
    PROVE  RequestsMove
  <1>1. ASSUME NEW r \in Requests, Serve(r) PROVE RequestsMove
    BY <1>1, ServeMoves DEF RequestsMove
  <1>2. ASSUME NEW r \in Requests, NEW ask \in Asks, Arrive(r, ask) PROVE RequestsMove
    <2>1. Joins(r, ask) \/ Refused(r, ask) \/ Admitted(r, ask)
      BY <1>2 DEF Arrive, Joins, Refused, Admitted, Enters, At, Free
    <2> QED
      BY <2>1 DEF RequestsMove
  <1>3. CASE Crash
    BY <1>3 DEF Crash, RequestsMove, Restarted
  <1>4. CASE \E t \in txs : Execute(t) \/ Drop(t)
    BY <1>4 DEF Execute, Drop, local, RequestsMove
  <1>5. CASE (\E ask \in Asks : SelfWithdraw(ask)) \/ Deposit \/ Tick
    BY <1>5 DEF SelfWithdraw, Deposit, Tick, local, RequestsMove
  <1>6. CASE UNCHANGED vars
    BY <1>6 DEF vars, local, RequestsMove
  <1> QED
    BY <1>1, <1>2, <1>3, <1>4, <1>5, <1>6 DEF Next

-----------------------------------------------------------------------------
(* Exclusion.                                                              *)

RequestShape == req \in [Requests -> ReqType] /\ inFlight \in [Hashes -> Owners]
RequestInv == RequestShape /\ AskKnown /\ Owned /\ JoinersHaveOwner

LEMMA AskTypes ==
    ASSUME NEW ask \in Asks
    PROVE  /\ ask.nullifierHash \in Hashes /\ BigInt[ask.nullifierHash] \in Nullifiers
           /\ ask.root \in Roots /\ ask.recipient \in Recipients
  BY RelayerAssumption

LEMMA IdleType == Idle \in ReqType
  <1>1. 0 \in 0 .. MaxSlot /\ 0 \in 0 .. MaxAttempts
    BY RelayerAssumption
  <1> QED
    BY <1>1 DEF Idle, ReqType, PCs, NoAsk

\* What an answer leaves of each request.
Released(q, r, reply) ==
    [req[q] EXCEPT !.pc = "idle", !.reply = reply, !.slot = 0, !.attempt = 0,
                   !.recipient = req[r].ask.recipient]

LEMMA SettleEffect ==
    ASSUME RequestInv, NEW r \in Requests, req[r].pc \in Working,
           NEW reply \in {"failed", "success"}, Settle(r, reply)
    PROVE  /\ Hash(r) \in Hashes /\ inFlight[Hash(r)] = r
           /\ RequestShape'
           /\ inFlight' = [inFlight EXCEPT ![Hash(r)] = Nobody]
           /\ \A q \in Requests :
                 /\ q \in Waiters(r) =>
                       /\ req'[q].pc = "idle" /\ req'[q].reply = reply
                       /\ req'[q].recipient = req[r].ask.recipient
                       /\ req'[q].ask = req[q].ask /\ req[q].ask \in Asks
                       /\ Hash(q) = Hash(r)
                 /\ q \notin Waiters(r) => req'[q] = req[q]
  <1> USE RelayerAssumption
  <1>1. req[r].ask \in Asks /\ Hash(r) \in Hashes /\ inFlight[Hash(r)] = r
    BY AskTypes DEF RequestInv, AskKnown, Owned, Hash, Working
  <1>2. inFlight' = [inFlight EXCEPT ![Hash(r)] = Nobody]
    BY DEF Settle
  <1>3. ASSUME NEW q \in Waiters(r)
        PROVE  q \in Requests /\ req[q].ask \in Asks /\ Hash(q) = Hash(r)
    BY <1>1, <1>3 DEF Waiters, At, RequestInv, AskKnown
  <1>4. ASSUME NEW q \in Requests
        PROVE  req'[q] = IF q \in Waiters(r) THEN Released(q, r, reply) ELSE req[q]
    BY <1>4 DEF Settle, Released
  <1>5. ASSUME NEW q \in Requests
        PROVE  /\ Released(q, r, reply) \in ReqType
               /\ Released(q, r, reply).pc = "idle"
               /\ Released(q, r, reply).reply = reply
               /\ Released(q, r, reply).recipient = req[r].ask.recipient
               /\ Released(q, r, reply).ask = req[q].ask
    <2>1. req[q] \in ReqType /\ req[r].ask.recipient \in Recipients
      BY <1>1, AskTypes DEF RequestInv, RequestShape
    <2>2. 0 \in 0 .. MaxSlot /\ 0 \in 0 .. MaxAttempts
      OBVIOUS
    <2> QED
      BY <2>1, <2>2 DEF Released, ReqType, PCs
  <1>6. req' \in [Requests -> ReqType]
    <2>1. req' = [q \in Requests |-> IF q \in Waiters(r) THEN Released(q, r, reply) ELSE req[q]]
      BY DEF Settle, Released
    <2>2. \A q \in Requests : req[q] \in ReqType
      BY DEF RequestInv, RequestShape
    <2> QED
      BY <2>1, <2>2, <1>5
  <1>7. inFlight' \in [Hashes -> Owners]
    BY <1>2 DEF RequestInv, RequestShape, Owners
  <1> QED
    BY <1>1, <1>2, <1>3, <1>4, <1>5, <1>6, <1>7 DEF RequestShape

LEMMA RequestStep ==
    ASSUME RequestInv, RequestsMove
    PROVE  RequestInv'
  <1> USE RelayerAssumption DEF RequestInv
  <1>1. ASSUME NEW r \in Requests, req[r].pc \in Working, Advances(r) PROVE RequestInv'
    <2>1. PICK e \in ReqType :
              /\ e.ask = req[r].ask /\ e.reply = req[r].reply /\ e.pc \in Working
              /\ req' = [req EXCEPT ![r] = e]
      BY <1>1 DEF Advances
    <2>2. inFlight' = inFlight
      BY <1>1 DEF Advances
    <2>3. req' \in [Requests -> ReqType] /\ req'[r] = e
          /\ \A q \in Requests : q # r => req'[q] = req[q]
      BY <2>1 DEF RequestShape
    <2>4. "joined" \notin Working /\ "idle" \notin Working
      BY DEF Working
    <2>5. RequestShape' /\ AskKnown'
      BY <1>1, <2>1, <2>2, <2>3, <2>4 DEF RequestShape, AskKnown
    <2>6. Owned'
      BY <1>1, <2>1, <2>2, <2>3 DEF Owned, Hash
    <2>7. JoinersHaveOwner'
      BY <1>1, <2>1, <2>2, <2>3, <2>4 DEF JoinersHaveOwner, Hash, At, RequestShape, Owners
    <2> QED
      BY <2>5, <2>6, <2>7
  <1>2. ASSUME NEW r \in Requests, req[r].pc \in Working,
               NEW reply \in {"failed", "success"}, Settle(r, reply)
        PROVE  RequestInv'
    <2>1. /\ Hash(r) \in Hashes /\ inFlight[Hash(r)] = r
          /\ RequestShape'
          /\ inFlight' = [inFlight EXCEPT ![Hash(r)] = Nobody]
          /\ \A q \in Requests :
                /\ q \in Waiters(r) => /\ req'[q].pc = "idle" /\ req'[q].ask = req[q].ask
                                       /\ req[q].ask \in Asks
                /\ q \notin Waiters(r) => req'[q] = req[q]
      BY <1>2, SettleEffect
    <2>2. AskKnown'
      BY <2>1 DEF AskKnown
    <2>3. ASSUME NEW q \in Requests, req'[q].pc \in Working \cup {"joined"}
          PROVE  /\ q \notin Waiters(r) /\ req'[q] = req[q]
                 /\ Hash(q) # Hash(r) /\ Hash(q) \in Hashes
      <3>1. q \notin Waiters(r) /\ req'[q] = req[q]
        BY <2>1, <2>3 DEF Working
      <3>2. q # r /\ req[q].ask \in Asks
        BY <3>1, <2>3 DEF Waiters, Working, AskKnown
      <3>3. ~(At(q, "joined") /\ Hash(q) = Hash(r))
        BY <3>1 DEF Waiters
      <3>4. req[q].pc \in Working => Hash(q) # Hash(r)
        BY <3>2, <2>1 DEF Owned
      <3> QED
        BY <3>1, <3>2, <3>3, <3>4, <2>3, AskTypes DEF At, Hash
    <2>4. Owned'
      BY <2>1, <2>3 DEF Owned, Hash, RequestShape
    <2>5. \A q \in Requests : At(q, "joined")' => inFlight'[Hash(q)'] # Nobody
      BY <2>1, <2>3 DEF JoinersHaveOwner, At, Hash, RequestShape
    <2>6. ASSUME NEW n \in Hashes, inFlight'[n] # Nobody
          PROVE  req'[inFlight'[n]].pc \in Working /\ Hash(inFlight[n])' = n /\ inFlight'[n] = inFlight[n]
      <3>1. n # Hash(r) /\ inFlight'[n] = inFlight[n] /\ inFlight[n] \in Requests
        BY <2>1, <2>6 DEF RequestShape, Owners
      <3>2. req[inFlight[n]].pc \in Working /\ Hash(inFlight[n]) = n
        BY <3>1, <2>6 DEF JoinersHaveOwner
      <3>3. inFlight[n] \notin Waiters(r)
        BY <3>1, <3>2 DEF Waiters, At, Working
      <3> QED
        BY <3>1, <3>2, <3>3, <2>1 DEF Hash
    <2> QED
      BY <2>1, <2>2, <2>4, <2>5, <2>6 DEF JoinersHaveOwner, Hash
  <1>3. ASSUME NEW r \in Requests, NEW ask \in Asks,
               Joins(r, ask) \/ Refused(r, ask) \/ Admitted(r, ask)
        PROVE  RequestInv'
    <2> DEFINE joined == [Idle EXCEPT !.pc = "joined", !.ask = ask]
               failed == [Idle EXCEPT !.ask = ask, !.reply = "failed", !.recipient = ask.recipient]
               taken == [Idle EXCEPT !.pc = "isSpent", !.ask = ask]
    <2>1. /\ joined \in ReqType /\ joined.pc = "joined" /\ joined.ask = ask
          /\ failed \in ReqType /\ failed.pc = "idle" /\ failed.ask = ask
          /\ taken \in ReqType /\ taken.pc = "isSpent" /\ taken.ask = ask
      BY IdleType, AskTypes DEF ReqType, PCs, Idle
    <2>2. /\ ask.nullifierHash \in Hashes /\ req[r].pc = "idle"
          /\ \A n \in Hashes : inFlight[n] # r
      BY <1>3, AskTypes DEF Joins, Refused, Admitted, Enters, JoinersHaveOwner, Working
    <2>3. CASE Joins(r, ask)
      <3>1. req' = [req EXCEPT ![r] = joined] /\ inFlight' = inFlight
            /\ inFlight[ask.nullifierHash] # Nobody
        BY <2>3 DEF Joins, Enters
      <3> HIDE DEF joined
      <3>2. RequestShape' /\ AskKnown' /\ Owned'
        BY <2>1, <3>1 DEF RequestShape, AskKnown, Owned, Hash, Working
      <3>3. JoinersHaveOwner'
        BY <2>1, <2>2, <3>1 DEF RequestShape, JoinersHaveOwner, Hash, At, Working, Owners
      <3> QED
        BY <3>2, <3>3
    <2>4. CASE Refused(r, ask)
      <3>1. req' = [req EXCEPT ![r] = failed] /\ inFlight' = inFlight
        BY <2>4 DEF Refused, Enters
      <3> HIDE DEF failed
      <3>2. RequestShape' /\ AskKnown' /\ Owned'
        BY <2>1, <3>1 DEF RequestShape, AskKnown, Owned, Hash, Working
      <3>3. JoinersHaveOwner'
        BY <2>1, <2>2, <3>1 DEF RequestShape, JoinersHaveOwner, Hash, At, Working, Owners
      <3> QED
        BY <3>2, <3>3
    <2>5. CASE Admitted(r, ask)
      <3>1. req' = [req EXCEPT ![r] = taken] /\ inFlight[ask.nullifierHash] = Nobody
            /\ inFlight' = [inFlight EXCEPT ![ask.nullifierHash] = r]
        BY <2>5 DEF Admitted, Enters
      <3> HIDE DEF taken
      <3>2. RequestShape' /\ AskKnown'
        BY <2>1, <3>1 DEF RequestShape, AskKnown, Owners
      <3>3. Owned'
        BY <2>1, <2>2, <3>1 DEF RequestShape, Owned, Hash, Working, Owners
      <3>4. JoinersHaveOwner'
        BY <2>1, <2>2, <3>1 DEF RequestShape, JoinersHaveOwner, Hash, At, Working, PCs, Owners
      <3> QED
        BY <3>2, <3>3, <3>4
    <2> QED
      BY <1>3, <2>3, <2>4, <2>5
  <1>4. CASE Restarted
    <2>1. \A r \in Requests : req'[r] = Idle
      BY <1>4 DEF Restarted
    <2>2. Idle.pc = "idle" /\ Idle.reply = "none"
      BY DEF Idle
    <2>3. RequestShape'
      BY <1>4, IdleType DEF Restarted, RequestShape, Owners
    <2>4. AskKnown' /\ Owned' /\ JoinersHaveOwner'
      BY <1>4, <2>1, <2>2 DEF Restarted, AskKnown, Owned, JoinersHaveOwner, At, Working
    <2> QED
      BY <2>3, <2>4
  <1>5. CASE UNCHANGED <<req, inFlight>>
    BY <1>5 DEF RequestShape, AskKnown, Owned, JoinersHaveOwner, At, Hash
  <1> QED
    BY <1>1, <1>2, <1>3, <1>4, <1>5 DEF RequestsMove

-----------------------------------------------------------------------------
(* What is remembered and what was answered.                               *)

\* Paid accounts stay as they are.
PaidStays == \A n \in Nullifiers : paid[n] # Unpaid => paid'[n] = paid[n]

LEMMA PaidStep ==
    ASSUME Shape, [Next]_vars
    PROVE  /\ paid' \in [Nullifiers -> PaidType]
           /\ PaidStays
           /\ Spent \subseteq Spent'
  <1> USE RelayerAssumption
  <1>1. ASSUME NEW t \in txs, Execute(t)
        PROVE  paid' \in [Nullifiers -> PaidType] /\ PaidStays
    <2>1. t \in TxType
      BY DEF Shape
    <2>2. [owner |-> t.owner, attempt |-> t.attempt, recipient |-> t.recipient] \in PaidType
      BY <2>1 DEF TxType, PaidType
    <2> QED
      BY <1>1, <2>1, <2>2 DEF Execute, Shape, PaidStays
  <1>2. ASSUME NEW ask \in Asks, SelfWithdraw(ask)
        PROVE  paid' \in [Nullifiers -> PaidType] /\ PaidStays
    <2>1. [owner |-> Nobody, attempt |-> 0, recipient |-> ask.recipient] \in PaidType
      BY AskTypes DEF PaidType, Owners
    <2> QED
      BY <1>2, <2>1 DEF SelfWithdraw, Shape, PaidStays, Spent
  <1>3. CASE UNCHANGED paid
    BY <1>3 DEF Shape, PaidStays, Spent
  <1>4. paid' \in [Nullifiers -> PaidType] /\ PaidStays
    BY <1>1, <1>2, <1>3 DEF Next, Serve, IsSpent, GetSlot, Observe, Throws, Send, Confirm,
       Arrive, Drop, Deposit, Tick, Crash, chain, vars
  <1> QED
    BY <1>4 DEF PaidStays, Spent

\* A transaction of the relayer's own has paid.
LEMMA LandedPaid ==
    ASSUME Shape, AskKnown, NEW r \in Requests, req[r].pc \in Working, Landed(r)
    PROVE  /\ Hash(r) \in Hashes /\ Nul(r) \in Nullifiers /\ Nul(r) \in Spent
           /\ paid[Nul(r)].recipient = req[r].ask.recipient
  <1>1. Hash(r) \in Hashes /\ Nul(r) \in Nullifiers
    BY AskTypes DEF AskKnown, Nul, Hash, Working
  <1>2. paid[Nul(r)].owner = r /\ paid[Nul(r)].recipient = req[r].ask.recipient
    BY DEF Landed
  <1>3. paid[Nul(r)] # Unpaid
    BY <1>2, RelayerAssumption DEF Unpaid
  <1> QED
    BY <1>1, <1>2, <1>3 DEF Spent

LEMMA MemoryStep ==
    ASSUME Shape, AskKnown, SpentMemoryTrue, [Next]_vars
    PROVE  SpentMemoryTrue' /\ cache' \subseteq Hashes /\ known' \subseteq Hashes
  <1> USE RelayerAssumption
  <1> DEFINE True == {h \in Hashes : BigInt[h] \in Spent}
  <1>1. Spent \subseteq Spent' /\ Spent \subseteq Nullifiers
    BY PaidStep DEF Spent
  <1>0. cache \cup known \subseteq True
    BY DEF SpentMemoryTrue, Shape
  <1>2. ASSUME NEW r \in Requests, Serve(r) PROVE cache' \cup known' \subseteq True
    <2>1. CASE IsSpent(r)
      <3>1. Hash(r) \in Hashes /\ Nul(r) = BigInt[Hash(r)]
        BY <2>1, AskTypes DEF IsSpent, At, AskKnown, Hash, Nul
      <3> QED
        BY <2>1, <3>1, <1>0 DEF IsSpent
    <2>2. CASE Confirm(r)
      <3>1. CASE Succeed(r)
        <4>1. Nul(r) \in Spent /\ Hash(r) \in Hashes
          BY <2>2, <3>1, LandedPaid DEF Confirm, Succeed, Confirmed, At, Working, PCs
        <4> QED
          BY <3>1, <4>1, <1>0 DEF Succeed, Nul
      <3>2. CASE UNCHANGED <<cache, known>>
        BY <3>2, <1>0
      <3> QED
        BY <2>2, <3>1, <3>2 DEF Confirm
    <2>3. CASE GetSlot(r) \/ Observe(r) \/ Throws(r) \/ Send(r)
      BY <2>3, <1>0 DEF GetSlot, Observe, Throws, Send
    <2> QED
      BY <1>2, <2>1, <2>2, <2>3 DEF Serve
  <1>3. cache' \cup known' \subseteq True
    <2>1. CASE Crash
      <3>1. PICK found \in SUBSET Spent : known' = {Decimal[n] : n \in found}
        BY <2>1 DEF Crash
      <3>2. \A n \in found : Decimal[n] \in True
        BY <3>1, <1>1
      <3> QED
        BY <2>1, <3>1, <3>2 DEF Crash
    <2>2. CASE \E r \in Requests : Serve(r)
      BY <1>2, <2>2
    <2>3. CASE UNCHANGED <<cache, known>>
      BY <2>3, <1>0
    <2> QED
      BY <2>1, <2>2, <2>3 DEF Next, Arrive, Execute, Drop, SelfWithdraw, Deposit, Tick, local, vars
  <1> QED
    BY <1>1, <1>3 DEF SpentMemoryTrue

LEMMA AnswerStep ==
    ASSUME Shape, RequestInv, PaidAsAnswered, [Next]_vars
    PROVE  PaidAsAnswered'
  <1>1. ASSUME NEW q \in Requests, req'[q].reply = "success", req'[q] = req[q]
        PROVE  paid'[Nul(q)'] # Unpaid /\ paid'[Nul(q)'].recipient = req'[q].recipient
    <2>1. Nul(q) \in Nullifiers /\ Nul(q)' = Nul(q)
      BY <1>1, AskTypes DEF RequestInv, AskKnown, Nul, Hash
    <2>2. paid[Nul(q)] # Unpaid /\ paid[Nul(q)].recipient = req[q].recipient
      BY <1>1 DEF PaidAsAnswered
    <2> QED
      BY <1>1, <2>1, <2>2, PaidStep DEF PaidStays
  <1>2. ASSUME NEW r \in Requests, req[r].pc \in Working, Advances(r) PROVE PaidAsAnswered'
    <2>1. PICK e \in ReqType :
              /\ e.ask = req[r].ask /\ e.reply = req[r].reply /\ e.recipient = req[r].recipient
              /\ req' = [req EXCEPT ![r] = e]
      BY <1>2 DEF Advances
    <2>2. ASSUME NEW q \in Requests, req'[q].reply = "success"
          PROVE  paid'[Nul(q)'] # Unpaid /\ paid'[Nul(q)'].recipient = req'[q].recipient
      <3>1. req'[q].ask = req[q].ask /\ req'[q].reply = req[q].reply
            /\ req'[q].recipient = req[q].recipient
        BY <2>1 DEF Shape
      <3>2. Nul(q) \in Nullifiers /\ Nul(q)' = Nul(q)
        BY <2>2, <3>1, AskTypes DEF RequestInv, AskKnown, Nul, Hash
      <3>3. paid[Nul(q)] # Unpaid /\ paid[Nul(q)].recipient = req[q].recipient
        BY <2>2, <3>1 DEF PaidAsAnswered
      <3> QED
        BY <3>1, <3>2, <3>3, PaidStep DEF PaidStays
    <2> QED
      BY <2>2 DEF PaidAsAnswered
  <1>3. ASSUME NEW r \in Requests, req[r].pc \in Working,
               NEW reply \in {"failed", "success"}, Settle(r, reply),
               reply = "success" => Landed(r)
        PROVE  PaidAsAnswered'
    <2>1. ASSUME NEW q \in Requests, req'[q].reply = "success", q \in Waiters(r)
          PROVE  paid'[Nul(q)'] # Unpaid /\ paid'[Nul(q)'].recipient = req'[q].recipient
      <3>1. /\ req'[q].reply = reply /\ req'[q].recipient = req[r].ask.recipient
            /\ Nul(q)' = Nul(q) /\ Nul(q) = Nul(r)
        BY <1>3, <2>1, SettleEffect DEF Nul, Hash
      <3>2. /\ Nul(r) \in Nullifiers /\ paid[Nul(r)] # Unpaid
            /\ paid[Nul(r)].recipient = req[r].ask.recipient
        BY <1>3, <2>1, <3>1, LandedPaid DEF RequestInv, Spent
      <3> QED
        BY <3>1, <3>2, PaidStep DEF PaidStays
    <2>2. ASSUME NEW q \in Requests, q \notin Waiters(r) PROVE req'[q] = req[q]
      BY <1>3, <2>2, SettleEffect
    <2> QED
      BY <2>1, <2>2, <1>1 DEF PaidAsAnswered
  <1>4. ASSUME NEW r \in Requests, NEW ask \in Asks,
               Joins(r, ask) \/ Refused(r, ask) \/ Admitted(r, ask)
        PROVE  PaidAsAnswered'
    <2>1. /\ \A q \in Requests : q # r => req'[q] = req[q]
          /\ req'[r].reply # "success"
      BY <1>4 DEF Joins, Refused, Admitted, Enters, Idle, Shape
    <2>2. ASSUME NEW q \in Requests, req'[q].reply = "success" PROVE req'[q] = req[q]
      BY <2>1, <2>2
    <2> QED
      BY <2>2, <1>1 DEF PaidAsAnswered
  <1>5. CASE Restarted
    BY <1>5 DEF Restarted, Idle, PaidAsAnswered
  <1>6. CASE UNCHANGED <<req, inFlight>>
    BY <1>6, <1>1 DEF PaidAsAnswered
  <1> QED
    BY <1>2, <1>3, <1>4, <1>5, <1>6, StepMoves DEF RequestsMove

-----------------------------------------------------------------------------
(* The privacy delay.                                                      *)

LEMMA ClockStep ==
    ASSUME Shape, [Next]_vars
    PROVE  slot' \in 0 .. MaxSlot /\ slot <= slot' /\ leaves' \in Nat
  <1>1. CASE Tick
    BY <1>1, RelayerAssumption DEF Tick, Shape
  <1>2. CASE Deposit
    BY <1>2 DEF Deposit, Shape
  <1>3. CASE UNCHANGED <<slot, leaves>>
    BY <1>3 DEF Shape
  <1> QED
    BY <1>1, <1>2, <1>3 DEF Next, Serve, IsSpent, GetSlot, Observe, Throws, Send, Confirm,
       Arrive, Execute, Drop, SelfWithdraw, Crash, chain, vars

\* What is sent is one's own, at the await of the submission, or was there before.
LEMMA TxStep ==
    ASSUME Shape, AskKnown, [Next]_vars
    PROVE  /\ txs' \subseteq TxType
           /\ \A t \in txs' :
                 \/ \E u \in txs : u.root = t.root
                 \/ \E r \in Requests : At(r, "send") /\ t.root = req[r].ask.root
  <1> USE RelayerAssumption
  <1> DEFINE Fresh(t) == \E r \in Requests : At(r, "send") /\ t.root = req[r].ask.root
             Known(t) == \E u \in txs : u.root = t.root
  <1>1. ASSUME NEW set \in SUBSET TxType, NEW owners
        PROVE  /\ Disown(set, owners) \subseteq TxType
               /\ \A t \in Disown(set, owners) : \E u \in set : u.root = t.root
    <2>1. ASSUME NEW u \in set
          PROVE  Orphan(u) \in TxType /\ Orphan(u).root = u.root
      <3>1. 0 \in 0 .. MaxAttempts
        OBVIOUS
      <3> QED
        BY <3>1 DEF Orphan, TxType, Owners
    <2> QED
      BY <2>1 DEF Disown
  <1>2. ASSUME NEW r \in Requests, req[r].ask \in Asks
        PROVE  Tx(r) \in TxType /\ Tx(r).root = req[r].ask.root
    <2>1. req[r].attempt \in 0 .. MaxAttempts
      BY DEF Shape, ReqType
    <2> QED
      BY <1>2, <2>1, AskTypes DEF Tx, TxType, Owners, Nul, Hash
  <1>3. txs \subseteq TxType /\ \A t \in txs : Known(t)
    BY DEF Shape
  <1>4. ASSUME NEW r \in Requests, NEW sent \in SUBSET TxType,
               \A t \in sent : Known(t) \/ Fresh(t),
               txs' = sent \/ txs' = Disown(sent, {r})
        PROVE  txs' \subseteq TxType /\ \A t \in txs' : Known(t) \/ Fresh(t)
    <2>1. CASE txs' = sent
      BY <1>4, <2>1
    <2>2. CASE txs' = Disown(sent, {r})
      <3>1. /\ txs' \subseteq TxType
            /\ \A t \in txs' : \E u \in sent : u.root = t.root
        BY <1>1, <2>2
      <3> QED
        BY <1>4, <3>1
    <2> QED
      BY <1>4, <2>1, <2>2
  <1>5. ASSUME NEW r \in Requests, Send(r)
        PROVE  txs' \subseteq TxType /\ \A t \in txs' : Known(t) \/ Fresh(t)
    <2>1. At(r, "send") /\ req[r].ask \in Asks
      BY <1>5 DEF Send, At, AskKnown
    <2>2. /\ txs \cup {Tx(r)} \subseteq TxType
          /\ \A t \in txs \cup {Tx(r)} : Known(t) \/ Fresh(t)
      BY <2>1, <1>2, <1>3
    <2>3. \E sent \in {txs, txs \cup {Tx(r)}} : txs' = sent \/ txs' = Disown(sent, {r})
      BY <1>5 DEF Send, GiveUp, Retry
    <2> QED
      BY <2>2, <2>3, <1>3, <1>4
  <1>6. ASSUME NEW r \in Requests, Confirm(r)
        PROVE  txs' \subseteq TxType /\ \A t \in txs' : Known(t) \/ Fresh(t)
    <2>1. txs' = txs \/ txs' = Disown(txs, {r})
      BY <1>6 DEF Confirm, Succeed, GiveUp, Retry
    <2> QED
      BY <2>1, <1>3, <1>4
  <1>7. CASE Crash
    <2>1. txs' = Disown(txs, Requests)
      BY <1>7 DEF Crash
    <2> QED
      BY <2>1, <1>1, <1>3
  <1>8. CASE \E t \in txs : Execute(t) \/ Drop(t)
    BY <1>8, <1>3 DEF Execute, Drop
  <1>9. CASE UNCHANGED txs
    BY <1>9, <1>3
  <1> QED
    BY <1>5, <1>6, <1>7, <1>8, <1>9 DEF Next, Serve, IsSpent, GetSlot, Observe, Throws,
       Arrive, SelfWithdraw, Deposit, Tick, vars

\* The first-seen table and the meeting of a root change once and for all.
LEMMA SeenStep ==
    ASSUME Shape, AskKnown, Timely, [Next]_vars
    PROVE  /\ firstSeen' \in [Roots -> -1 .. MaxSlot] /\ armedAt' \in [Roots -> -1 .. MaxSlot]
           /\ \A x \in Roots :
                 /\ armedAt[x] # -1 => armedAt'[x] = armedAt[x]
                 /\ armedAt'[x] <= slot'
                 /\ firstSeen'[x] # -1 => /\ armedAt'[x] # -1
                                          /\ firstSeen'[x] >= armedAt'[x] - Lag
  <1> USE RelayerAssumption
  <1>1. ASSUME NEW r \in Requests, GetSlot(r) PROVE
           /\ firstSeen' \in [Roots -> -1 .. MaxSlot] /\ armedAt' \in [Roots -> -1 .. MaxSlot]
           /\ \A x \in Roots :
                 /\ armedAt[x] # -1 => armedAt'[x] = armedAt[x]
                 /\ armedAt'[x] <= slot'
                 /\ firstSeen'[x] # -1 => /\ armedAt'[x] # -1
                                          /\ firstSeen'[x] >= armedAt'[x] - Lag
    <2> DEFINE x == req[r].ask.root
    <2>1. x \in Roots /\ firstSeen' = firstSeen /\ slot' = slot
          /\ armedAt' = [armedAt EXCEPT ![x] = IF @ = -1 THEN slot ELSE @]
      BY <1>1, AskTypes DEF GetSlot, AskKnown, At, chain
    <2> HIDE DEF x
    <2> QED
      BY <2>1 DEF Shape, Timely
  <1>2. ASSUME NEW r \in Requests, Observe(r) PROVE
           /\ firstSeen' \in [Roots -> -1 .. MaxSlot] /\ armedAt' \in [Roots -> -1 .. MaxSlot]
           /\ \A x \in Roots :
                 /\ armedAt[x] # -1 => armedAt'[x] = armedAt[x]
                 /\ armedAt'[x] <= slot'
                 /\ firstSeen'[x] # -1 => /\ armedAt'[x] # -1
                                          /\ firstSeen'[x] >= armedAt'[x] - Lag
    <2> DEFINE x == req[r].ask.root
               s == req[r].slot
    <2>1. /\ x \in Roots /\ armedAt' = armedAt /\ slot' = slot
          /\ firstSeen' = [firstSeen EXCEPT ![x] = IF @ = -1 THEN s ELSE @]
      BY <1>2, AskTypes DEF Observe, AskKnown, At, chain, FirstSeen, Shape
    <2>2. s \in 0 .. MaxSlot /\ armedAt[x] # -1 /\ s >= armedAt[x] - Lag
      BY <1>2 DEF Observe, Timely, Shape, ReqType
    <2> HIDE DEF x, s
    <2> QED
      BY <2>1, <2>2 DEF Shape, Timely
  <1>3. CASE UNCHANGED <<firstSeen, armedAt>>
    BY <1>3, ClockStep DEF Shape, Timely
  <1> QED
    BY <1>1, <1>2, <1>3 DEF Next, Serve, IsSpent, Throws, Send, Confirm,
       Arrive, Execute, Drop, SelfWithdraw, Deposit, Tick, Crash, vars

\* How a request comes to the awaits that the delay is about.
ReachesObserve(q) ==
    req'[q].pc = "observe" => req'[q] = req[q] \/ GetSlot(q)
ReachesSubmission(q) ==
    req'[q].pc \in {"send", "confirm"} =>
        /\ req'[q].ask = req[q].ask
        /\ req[q].pc \in {"send", "confirm"} \/ (Observe(q) /\ DelayMet(q))

LEMMA ReachesStep ==
    ASSUME RequestInv, Shape, [Next]_vars, NEW q \in Requests
    PROVE  ReachesObserve(q) /\ ReachesSubmission(q)
  <1>1. ASSUME NEW r \in Requests, req[r].pc \in Working,
               NEW reply \in {"failed", "success"}, Settle(r, reply)
        PROVE  ReachesObserve(q) /\ ReachesSubmission(q)
    <2>1. req'[q].pc = "idle" \/ req'[q] = req[q]
      BY <1>1, SettleEffect
    <2> QED
      BY <2>1 DEF ReachesObserve, ReachesSubmission
  <1>2. CASE req'[q] = req[q]
    BY <1>2 DEF ReachesObserve, ReachesSubmission
  <1>3. ASSUME NEW r \in Requests, GetSlot(r)
        PROVE  ReachesObserve(q) /\ ReachesSubmission(q)
    <2>1. q = r \/ req'[q] = req[q]
      BY <1>3 DEF GetSlot, Shape
    <2>2. req'[r].pc = "observe"
      BY <1>3 DEF GetSlot, Shape
    <2> QED
      BY <2>1, <2>2, <1>2, <1>3 DEF ReachesObserve, ReachesSubmission
  <1>4. ASSUME NEW r \in Requests, Observe(r)
        PROVE  ReachesObserve(q) /\ ReachesSubmission(q)
    <2>1. CASE DelayMet(r)
      <3>1. q = r \/ req'[q] = req[q]
        BY <1>4, <2>1 DEF Observe, Shape
      <3>2. req'[r].pc = "send" /\ req'[r].ask = req[r].ask
        BY <1>4, <2>1 DEF Observe, Shape, ReqType
      <3> QED
        BY <3>1, <3>2, <1>2, <1>4, <2>1 DEF ReachesObserve, ReachesSubmission
    <2>2. CASE ~DelayMet(r)
      BY <1>1, <1>4, <2>2 DEF Observe, At, Working, PCs
    <2> QED
      BY <2>1, <2>2
  <1>5. ASSUME NEW r \in Requests, NEW sent, Retry(r, sent), req[r].pc \in {"send", "confirm"}
        PROVE  ReachesObserve(q) /\ ReachesSubmission(q)
    <2>1. CASE req[r].attempt < MaxAttempts
      <3>1. q = r \/ req'[q] = req[q]
        BY <1>5, <2>1 DEF Retry, Shape
      <3>2. req'[r].pc = "send" /\ req'[r].ask = req[r].ask
        BY <1>5, <2>1 DEF Retry, Shape, ReqType
      <3> QED
        BY <3>1, <3>2, <1>2, <1>5 DEF ReachesObserve, ReachesSubmission
    <2>2. CASE ~(req[r].attempt < MaxAttempts)
      BY <1>1, <1>5, <2>2 DEF Retry, GiveUp, Working, PCs
    <2> QED
      BY <2>1, <2>2
  <1>6. ASSUME NEW r \in Requests, Send(r)
        PROVE  ReachesObserve(q) /\ ReachesSubmission(q)
    <2>1. CASE Goto(r, "confirm")
      <3>1. q = r \/ req'[q] = req[q]
        BY <2>1 DEF Goto, Shape
      <3>2. req'[r].pc = "confirm" /\ req'[r].ask = req[r].ask /\ req[r].pc = "send"
        BY <1>6, <2>1 DEF Goto, Send, At, Shape, ReqType
      <3> QED
        BY <3>1, <3>2, <1>2 DEF ReachesObserve, ReachesSubmission
    <2>2. CASE GiveUp(r, txs)
      BY <1>1, <1>6, <2>2 DEF GiveUp, Send, At, Working, PCs
    <2>3. CASE \E sent \in {txs, txs \cup {Tx(r)}} : Retry(r, sent)
      BY <1>5, <1>6, <2>3 DEF Send, At
    <2> QED
      BY <1>6, <2>1, <2>2, <2>3 DEF Send
  <1>7. ASSUME NEW r \in Requests, Confirm(r)
        PROVE  ReachesObserve(q) /\ ReachesSubmission(q)
    <2>1. req[r].pc \in Working /\ req[r].pc \in {"send", "confirm"}
      BY <1>7 DEF Confirm, At, Working, PCs
    <2> QED
      BY <1>1, <1>5, <1>7, <2>1 DEF Confirm, Succeed, GiveUp
  <1>8. ASSUME NEW r \in Requests, IsSpent(r) \/ Throws(r)
        PROVE  ReachesObserve(q) /\ ReachesSubmission(q)
    <2>1. CASE Goto(r, "getSlot")
      <3>1. req'[q].pc = "getSlot" \/ req'[q] = req[q]
        BY <2>1 DEF Goto, Shape
      <3> QED
        BY <3>1, <1>2 DEF ReachesObserve, ReachesSubmission
    <2>2. CASE Settle(r, "failed")
      BY <1>1, <1>8, <2>2 DEF IsSpent, Throws, At, Working, PCs
    <2> QED
      BY <1>8, <2>1, <2>2 DEF IsSpent, Throws
  <1>9. ASSUME NEW r \in Requests, NEW ask \in Asks, Arrive(r, ask)
        PROVE  ReachesObserve(q) /\ ReachesSubmission(q)
    <2>1. Joins(r, ask) \/ Refused(r, ask) \/ Admitted(r, ask)
      BY <1>9 DEF Arrive, Joins, Refused, Admitted, Enters, At, Free
    <2>2. req'[q].pc \in {"idle", "joined", "isSpent"} \/ req'[q] = req[q]
      BY <2>1 DEF Joins, Refused, Admitted, Enters, Idle, Shape
    <2> QED
      BY <2>2, <1>2 DEF ReachesObserve, ReachesSubmission
  <1>10. CASE Crash
    BY <1>10 DEF Crash, Idle, ReachesObserve, ReachesSubmission
  <1> QED
    BY <1>2, <1>3, <1>4, <1>6, <1>7, <1>8, <1>9, <1>10
       DEF Next, Serve, Execute, Drop, SelfWithdraw, Deposit, Tick, local, vars

LEMMA TimelyStep ==
    ASSUME Shape, RequestInv, Timely, [Next]_vars
    PROVE  Timely'
  <1> USE RelayerAssumption
  <1>1. AskKnown /\ \A r \in Requests : req[r].pc # "idle" => req[r].ask.root \in Roots
    BY AskTypes DEF RequestInv, AskKnown
  <1>2. ASSUME NEW q \in Requests, req'[q].pc = "observe"
        PROVE  LET x == req'[q].ask.root IN
               /\ armedAt'[x] # -1
               /\ req'[q].slot <= slot' /\ req'[q].slot >= armedAt'[x] - Lag
    <2>1. CASE req'[q] = req[q]
      <3> DEFINE x == req[q].ask.root
      <3>1. /\ x \in Roots /\ armedAt[x] # -1
            /\ req[q].slot <= slot /\ req[q].slot >= armedAt[x] - Lag
            /\ req[q].slot \in Int
        BY <1>1, <1>2, <2>1 DEF Timely, At, Shape, ReqType
      <3>2. armedAt'[x] = armedAt[x] /\ slot <= slot' /\ slot \in Int /\ slot' \in Int
        BY <3>1, <1>1, SeenStep, ClockStep DEF Shape
      <3> QED
        BY <2>1, <3>1, <3>2
    <2>2. CASE GetSlot(q)
      <3> DEFINE x == req[q].ask.root
      <3>1. PICK s \in slot - Lag .. slot :
                s >= 0 /\ req' = [req EXCEPT ![q].pc = "observe", ![q].slot = s]
        BY <2>2 DEF GetSlot
      <3>2. req'[q].slot = s /\ req'[q].ask.root = x /\ slot' = slot
        BY <2>2, <3>1 DEF GetSlot, Shape, ReqType, chain
      <3>3. x \in Roots /\ armedAt' = [armedAt EXCEPT ![x] = IF @ = -1 THEN slot ELSE @]
        BY <2>2, <1>1 DEF GetSlot, At
      <3> HIDE DEF x
      <3>4. armedAt'[x] # -1 /\ armedAt'[x] <= slot /\ armedAt'[x] \in Int /\ slot \in Nat
        BY <3>3 DEF Shape, Timely
      <3> QED
        BY <3>2, <3>4
    <2> QED
      BY <1>2, <2>1, <2>2, ReachesStep DEF ReachesObserve
  <1>3. ASSUME NEW q \in Requests, req'[q].pc \in {"send", "confirm"}
        PROVE  armedAt'[req'[q].ask.root] # -1
    <2>1. /\ req'[q].ask = req[q].ask
          /\ req[q].pc \in {"observe", "send", "confirm"}
      BY <1>3, ReachesStep DEF ReachesSubmission, Observe, At
    <2>2. armedAt[req[q].ask.root] # -1 /\ req[q].ask.root \in Roots
      BY <1>1, <2>1 DEF Timely, At
    <2> QED
      BY <1>1, <2>1, <2>2, SeenStep
  <1> QED
    BY <1>1, <1>2, <1>3, SeenStep DEF Timely, At

LEMMA DelayStep ==
    ASSUME Shape, RequestInv, Timely, DelayHeld, [Next]_vars
    PROVE  DelayHeld'
  <1> USE RelayerAssumption
  <1>1. AskKnown /\ \A r \in Requests : req[r].pc # "idle" => req[r].ask.root \in Roots
    BY AskTypes DEF RequestInv, AskKnown
  <1>2. ASSUME NEW x \in Roots, armedAt[x] # -1, slot - armedAt[x] >= Delay - Lag
        PROVE  armedAt'[x] # -1 /\ slot' - armedAt'[x] >= Delay - Lag
    <2>1. armedAt'[x] = armedAt[x] /\ slot' >= slot
      BY <1>1, <1>2, SeenStep, ClockStep DEF Shape
    <2>2. armedAt[x] \in Int /\ slot \in Int /\ slot' \in Int
      BY ClockStep DEF Shape
    <2> QED
      BY <1>2, <2>1, <2>2
  <1>3. ASSUME NEW r \in Requests, req[r].pc \in {"send", "confirm"}
        PROVE  LET x == req[r].ask.root IN
               x \in Roots /\ armedAt[x] # -1 /\ slot - armedAt[x] >= Delay - Lag
    BY <1>1, <1>3 DEF Timely, DelayHeld
  <1>4. ASSUME NEW r \in Requests, Observe(r), DelayMet(r)
        PROVE  LET x == req[r].ask.root IN
               x \in Roots /\ armedAt[x] # -1 /\ slot - armedAt[x] >= Delay - Lag
    <2> DEFINE x == req[r].ask.root
    <2>1. /\ x \in Roots /\ armedAt[x] # -1 /\ req[r].slot <= slot
          /\ req[r].slot >= armedAt[x] - Lag
      BY <1>1, <1>4 DEF Observe, At, Timely
    <2>2. req[r].slot \in Int /\ slot \in Int /\ armedAt[x] \in Int /\ firstSeen[x] \in Int
      BY <2>1 DEF Shape, ReqType
    <2>3. req[r].slot - (IF firstSeen[x] = -1 THEN req[r].slot ELSE firstSeen[x]) >= Delay
      BY <1>4 DEF DelayMet, FirstSeen
    <2>4. firstSeen[x] # -1 => firstSeen[x] >= armedAt[x] - Lag
      BY <2>1 DEF Timely
    <2> HIDE DEF x
    <2>5. slot - armedAt[x] >= Delay - Lag
      BY <2>1, <2>2, <2>3, <2>4
    <2> QED
      BY <2>1, <2>5 DEF x
  <1>5. ASSUME NEW t \in txs'
        PROVE  armedAt'[t.root] # -1 /\ slot' - armedAt'[t.root] >= Delay - Lag
    <2>1. CASE \E u \in txs : u.root = t.root
      BY <2>1, <1>2 DEF DelayHeld, Shape, TxType
    <2>2. CASE \E r \in Requests : At(r, "send") /\ t.root = req[r].ask.root
      BY <2>2, <1>2, <1>3 DEF At
    <2> QED
      BY <1>1, <2>1, <2>2, TxStep
  <1>6. ASSUME NEW q \in Requests, req'[q].pc \in {"send", "confirm"}
        PROVE  slot' - armedAt'[req'[q].ask.root] >= Delay - Lag
    <2>1. /\ req'[q].ask = req[q].ask
          /\ req[q].pc \in {"send", "confirm"} \/ (Observe(q) /\ DelayMet(q))
      BY <1>6, ReachesStep DEF ReachesSubmission
    <2> QED
      BY <2>1, <1>2, <1>3, <1>4
  <1> QED
    BY <1>5, <1>6 DEF DelayHeld

-----------------------------------------------------------------------------
(* The counter of pending submissions.                                     *)

\* r leaves the submission, or comes to it: one element of a finite set.
LEMMA SubmittingFinite ==
    /\ IsFiniteSet(Submitting) /\ Cardinality(Submitting) \in 0 .. Cardinality(Requests)
    /\ \A r \in Submitting : Cardinality(Submitting) \in Nat \ {0}
  <1>1. Submitting \in SUBSET Requests /\ IsFiniteSet(Requests)
    BY RelayerAssumption DEF Submitting
  <1>2. IsFiniteSet(Submitting) /\ Cardinality(Submitting) <= Cardinality(Requests)
    BY <1>1, FS_Subset
  <1>3. Cardinality(Submitting) \in Nat /\ Cardinality(Requests) \in Nat
    BY <1>1, <1>2, FS_CardinalityType
  <1>4. Cardinality(Submitting) = 0 <=> Submitting = {}
    BY <1>2, FS_EmptySet
  <1> QED
    BY <1>2, <1>3, <1>4

LEMMA CountedStep ==
    ASSUME Shape, RequestInv, Counted, [Next]_vars
    PROVE  Counted'
  <1> USE RelayerAssumption
  <1> DEFINE Sub(e) == e.pc \in {"send", "confirm"}
  <1>a. ASSUME pending' = pending, \A q \in Requests : Sub(req'[q]) <=> Sub(req[q])
        PROVE  Counted'
    <2>1. Submitting' = Submitting
      BY <1>a DEF Submitting
    <2> QED
      BY <1>a, <2>1 DEF Counted
  <1>b. ASSUME NEW r \in Requests, pending' = pending + 1, ~Sub(req[r]), Sub(req'[r]),
               \A q \in Requests : q # r => req'[q] = req[q]
        PROVE  Counted'
    <2>1. Submitting' = Submitting \cup {r} /\ r \notin Submitting
      BY <1>b DEF Submitting
    <2>2. Cardinality(Submitting') = Cardinality(Submitting) + 1
      BY <2>1, FS_AddElement, SubmittingFinite
    <2> QED
      BY <1>b, <2>2 DEF Counted
  <1>c. ASSUME NEW r \in Requests, req[r].pc \in Working,
               NEW reply \in {"failed", "success"}, Settle(r, reply),
               pending' = IF Sub(req[r]) THEN pending - 1 ELSE pending
        PROVE  Counted'
    <2>1. \A q \in Requests :
             /\ q \in Waiters(r) => req'[q].pc = "idle" /\ (q = r \/ req[q].pc = "joined")
             /\ q \notin Waiters(r) => req'[q] = req[q]
      BY <1>c, SettleEffect DEF Waiters, At
    <2>2. r \in Waiters(r)
      BY DEF Waiters
    <2>3. Submitting' = Submitting \ {r}
      BY <2>1, <2>2 DEF Submitting
    <2>4. Cardinality(Submitting') = IF Sub(req[r]) THEN Cardinality(Submitting) - 1
                                     ELSE Cardinality(Submitting)
      <3>1. r \in Submitting <=> Sub(req[r])
        BY DEF Submitting
      <3> HIDE DEF Sub
      <3> QED
        BY <2>3, <3>1, FS_RemoveElement, SubmittingFinite
    <2> QED
      BY <1>c, <2>4 DEF Counted
  <1>1. ASSUME NEW r \in Requests, IsSpent(r) \/ Throws(r) PROVE Counted'
    <2>1. req[r].pc \in Working /\ ~Sub(req[r]) /\ pending' = pending
      BY <1>1 DEF IsSpent, Throws, At, Working, PCs
    <2>2. CASE Settle(r, "failed")
      BY <1>c, <2>1, <2>2
    <2>3. CASE Goto(r, "getSlot")
      BY <1>a, <2>1, <2>3 DEF Goto, Shape, ReqType
    <2> QED
      BY <1>1, <2>2, <2>3 DEF IsSpent, Throws
  <1>2. ASSUME NEW r \in Requests, GetSlot(r) PROVE Counted'
    <2>1. pending' = pending /\ ~Sub(req[r]) /\ ~Sub(req'[r])
          /\ \A q \in Requests : q # r => req'[q] = req[q]
      BY <1>2 DEF GetSlot, At, Shape, ReqType
    <2> QED
      BY <2>1, <1>a
  <1>3. ASSUME NEW r \in Requests, Observe(r) PROVE Counted'
    <2>1. CASE DelayMet(r)
      <3>1. pending' = pending + 1 /\ ~Sub(req[r]) /\ Sub(req'[r])
            /\ \A q \in Requests : q # r => req'[q] = req[q]
        BY <1>3, <2>1 DEF Observe, At, Shape, ReqType
      <3> QED
        BY <3>1, <1>b
    <2>2. CASE ~DelayMet(r)
      <3>1. pending' = pending /\ ~Sub(req[r]) /\ req[r].pc \in Working /\ Settle(r, "failed")
        BY <1>3, <2>2 DEF Observe, At, Working, PCs
      <3> QED
        BY <3>1, <1>c
    <2> QED
      BY <2>1, <2>2
  <1>4. ASSUME NEW r \in Requests, Sub(req[r]), NEW set, GiveUp(r, set) PROVE Counted'
    BY <1>4, <1>c DEF GiveUp, Working, PCs
  <1>5. ASSUME NEW r \in Requests, Sub(req[r]), NEW sent, Retry(r, sent) PROVE Counted'
    <2>1. CASE req[r].attempt < MaxAttempts
      <3>1. pending' = pending /\ Sub(req'[r])
            /\ \A q \in Requests : q # r => req'[q] = req[q]
        BY <1>5, <2>1 DEF Retry, Shape, ReqType
      <3> QED
        BY <3>1, <1>a, <1>5
    <2>2. CASE ~(req[r].attempt < MaxAttempts)
      BY <1>4, <1>5, <2>2 DEF Retry
    <2> QED
      BY <2>1, <2>2
  <1>6. ASSUME NEW r \in Requests, Send(r) PROVE Counted'
    <2>1. Sub(req[r])
      BY <1>6 DEF Send, At
    <2>2. CASE Goto(r, "confirm") /\ pending' = pending
      <3>1. Sub(req'[r]) /\ \A q \in Requests : q # r => req'[q] = req[q]
        BY <2>2 DEF Goto, Shape, ReqType
      <3> QED
        BY <3>1, <2>1, <2>2, <1>a
    <2>3. CASE GiveUp(r, txs)
      BY <2>1, <2>3, <1>4
    <2>4. CASE \E sent \in {txs, txs \cup {Tx(r)}} : Retry(r, sent)
      BY <2>1, <2>4, <1>5
    <2> QED
      BY <1>6, <2>2, <2>3, <2>4 DEF Send
  <1>7. ASSUME NEW r \in Requests, Confirm(r) PROVE Counted'
    <2>1. Sub(req[r]) /\ req[r].pc \in Working
      BY <1>7 DEF Confirm, At, Working, PCs
    <2>2. CASE Succeed(r)
      BY <2>1, <2>2, <1>c DEF Succeed
    <2> QED
      BY <1>7, <2>1, <2>2, <1>4, <1>5 DEF Confirm
  <1>8. ASSUME NEW r \in Requests, NEW ask \in Asks, Arrive(r, ask) PROVE Counted'
    <2>1. pending' = pending /\ (Joins(r, ask) \/ Refused(r, ask) \/ Admitted(r, ask))
      BY <1>8 DEF Arrive, Joins, Refused, Admitted, Enters, At, Free
    <2>2. /\ req[r].pc = "idle" /\ req'[r].pc \in {"idle", "joined", "isSpent"}
          /\ \A q \in Requests : q # r => req'[q] = req[q]
      <3>1. CASE Joins(r, ask)
        BY <3>1 DEF Joins, Enters, Idle, Shape
      <3>2. CASE Refused(r, ask)
        BY <3>2 DEF Refused, Enters, Idle, Shape
      <3>3. CASE Admitted(r, ask)
        BY <3>3 DEF Admitted, Enters, Idle, Shape
      <3> QED
        BY <2>1, <3>1, <3>2, <3>3
    <2> QED
      BY <2>1, <2>2, <1>a
  <1>9. CASE Crash
    <2>1. pending' = 0 /\ Submitting' = {}
      BY <1>9 DEF Crash, Idle, Submitting
    <2>2. Cardinality(Submitting') = 0
      BY <2>1, FS_EmptySet
    <2> QED
      BY <2>1, <2>2 DEF Counted
  <1>10. CASE UNCHANGED <<req, pending>>
    BY <1>10, <1>a
  <1> QED
    BY <1>1, <1>2, <1>3, <1>6, <1>7, <1>8, <1>9, <1>10
       DEF Next, Serve, Execute, Drop, SelfWithdraw, Deposit, Tick, local, vars

-----------------------------------------------------------------------------
(* What is under way in the network.                                       *)

LEMMA SentStep ==
    ASSUME Shape, RequestInv, SentBySubmitting, [Next]_vars
    PROVE  SentBySubmitting'
  <1> USE RelayerAssumption
  <1> DEFINE Sub(e) == e.pc \in {"send", "confirm"}
             Mine(t) == t.owner # Nobody => t.owner \in Requests /\ Sub(req[t.owner])
  <1>0. \A t \in txs : Mine(t) /\ Orphan(t).owner = Nobody
    BY DEF SentBySubmitting, Shape, TxType, Orphan
  <1>a. ASSUME NEW sent, \A t \in sent : Mine(t), txs' \subseteq sent,
               \A q \in Requests : Sub(req[q]) => Sub(req'[q])
        PROVE  SentBySubmitting'
    BY <1>a DEF SentBySubmitting
  <1>b. ASSUME NEW r \in Requests, Sub(req[r]), NEW sent,
               \A t \in sent : Mine(t) /\ Orphan(t).owner = Nobody,
               Settle(r, "failed") \/ Settle(r, "success"), txs' = Disown(sent, {r})
        PROVE  SentBySubmitting'
    <2>1. \A q \in Requests : q # r /\ Sub(req[q]) => req'[q] = req[q]
      BY <1>b, SettleEffect DEF Waiters, At, Working, PCs
    <2>2. ASSUME NEW t \in txs', t.owner # Nobody
          PROVE  t.owner \in Requests /\ Sub(req'[t.owner])
      <3>1. PICK u \in sent : t = IF u.owner \in {r} THEN Orphan(u) ELSE u
        BY <1>b DEF Disown
      <3>2. u.owner # r /\ t = u
        BY <1>b, <2>2, <3>1
      <3> QED
        BY <1>b, <2>1, <2>2, <3>1, <3>2
    <2> QED
      BY <2>2 DEF SentBySubmitting
  <1>c. ASSUME NEW r \in Requests
        PROVE  \A t \in txs \cup {Tx(r)} : (t = Tx(r) => t.owner = r) /\ Orphan(t).owner = Nobody
    BY <1>0 DEF Tx, Orphan
  <1>d. ASSUME NEW r \in Requests, Sub(req[r]), NEW sent \in {txs, txs \cup {Tx(r)}}
        PROVE  \A t \in sent : Mine(t) /\ Orphan(t).owner = Nobody
    BY <1>0, <1>c, <1>d
  <1>e. ASSUME NEW r \in Requests, Sub(req[r]), NEW sent \in {txs, txs \cup {Tx(r)}},
               Retry(r, sent)
        PROVE  SentBySubmitting'
    <2>1. CASE req[r].attempt < MaxAttempts
      <3>1. /\ txs' = sent /\ Sub(req'[r])
            /\ \A q \in Requests : q # r => req'[q] = req[q]
        BY <1>e, <2>1 DEF Retry, Shape, ReqType
      <3> QED
        BY <3>1, <1>e, <1>d, <1>a
    <2>2. CASE ~(req[r].attempt < MaxAttempts)
      <3>1. Settle(r, "failed") /\ txs' = Disown(sent, {r})
        BY <1>e, <2>2 DEF Retry, GiveUp
      <3> QED
        BY <3>1, <1>e, <1>d, <1>b
    <2> QED
      BY <2>1, <2>2
  <1>1. ASSUME NEW r \in Requests, Send(r) PROVE SentBySubmitting'
    <2>1. Sub(req[r])
      BY <1>1 DEF Send, At
    <2>2. CASE Goto(r, "confirm") /\ txs' = txs \cup {Tx(r)}
      <3>1. Sub(req'[r]) /\ \A q \in Requests : q # r => req'[q] = req[q]
        BY <2>2 DEF Goto, Shape, ReqType
      <3> QED
        BY <2>1, <2>2, <3>1, <1>d, <1>a
    <2>3. CASE GiveUp(r, txs)
      BY <2>1, <2>3, <1>d, <1>b DEF GiveUp
    <2> QED
      BY <1>1, <2>1, <2>2, <2>3, <1>e DEF Send
  <1>2. ASSUME NEW r \in Requests, Confirm(r) PROVE SentBySubmitting'
    <2>1. Sub(req[r])
      BY <1>2 DEF Confirm, At
    <2>2. CASE Succeed(r) \/ GiveUp(r, txs)
      BY <2>1, <2>2, <1>d, <1>b DEF Succeed, GiveUp
    <2> QED
      BY <1>2, <2>1, <2>2, <1>e DEF Confirm
  <1>3. ASSUME NEW r \in Requests, IsSpent(r) \/ GetSlot(r) \/ Observe(r) \/ Throws(r)
        PROVE  SentBySubmitting'
    <2>1. txs' = txs /\ ~Sub(req[r]) /\ req[r].pc \in Working
      BY <1>3 DEF IsSpent, GetSlot, Observe, Throws, At, Working, PCs
    <2>2. \A q \in Requests : Sub(req[q]) => req'[q] = req[q]
      <3>1. CASE Settle(r, "failed")
        BY <2>1, <3>1, SettleEffect DEF Waiters, At
      <3>2. CASE \A q \in Requests : q # r => req'[q] = req[q]
        BY <2>1, <3>2
      <3> QED
        BY <1>3, <3>1, <3>2 DEF IsSpent, GetSlot, Observe, Throws, Goto, Shape
    <2> QED
      BY <2>1, <2>2, <1>0, <1>a
  <1>4. ASSUME NEW r \in Requests, NEW ask \in Asks, Arrive(r, ask) PROVE SentBySubmitting'
    <2>1. txs' = txs /\ req[r].pc = "idle" /\ \A q \in Requests : q # r => req'[q] = req[q]
      BY <1>4 DEF Arrive, At, Shape
    <2> QED
      BY <2>1, <1>0, <1>a
  <1>5. CASE Crash
    <2>1. \A t \in txs : t.owner \notin Requests => t.owner = Nobody
      BY <1>0
    <2>2. \A t \in txs' : t.owner = Nobody
      BY <1>5, <2>1, <1>0 DEF Crash, Disown
    <2> QED
      BY <2>2 DEF SentBySubmitting
  <1>6. CASE txs' \subseteq txs /\ req' = req
    BY <1>6, <1>0, <1>a
  <1> QED
    BY <1>1, <1>2, <1>3, <1>4, <1>5, <1>6
       DEF Next, Serve, Execute, Drop, SelfWithdraw, Deposit, Tick, local, vars

-----------------------------------------------------------------------------
(* The theorems.                                                           *)

LEMMA InitInv == Init => RelayerInv
  <1> SUFFICES ASSUME Init PROVE RelayerInv
    OBVIOUS
  <1> USE RelayerAssumption
  <1>1. /\ \A r \in Requests : req[r] = Idle
        /\ Idle.pc = "idle" /\ Idle.reply = "none"
    BY DEF Init, Idle
  <1>2. Shape
    <2>1. Unpaid \in PaidType
      BY DEF Unpaid, PaidType, Owners
    <2> QED
      BY <2>1, IdleType DEF Init, Shape, Owners
  <1>3. AskKnown /\ Owned /\ JoinersHaveOwner
    BY <1>1 DEF AskKnown, Owned, JoinersHaveOwner, Init, At, Working
  <1>7. SentBySubmitting
    BY DEF SentBySubmitting, Init
  <1>4. Counted
    <2>1. Submitting = {} /\ pending = 0
      BY <1>1 DEF Submitting, Init
    <2> QED
      BY <2>1, FS_EmptySet DEF Counted
  <1>5. SpentMemoryTrue /\ PaidAsAnswered
    BY <1>1 DEF SpentMemoryTrue, PaidAsAnswered, Init
  <1>6. Timely /\ DelayHeld
    BY <1>1 DEF Timely, DelayHeld, Init, At
  <1> QED
    BY <1>2, <1>3, <1>4, <1>5, <1>6, <1>7 DEF RelayerInv

LEMMA StepInv ==
    ASSUME RelayerInv, [Next]_vars
    PROVE  RelayerInv'
  <1> USE DEF RelayerInv
  <1>1. RequestInv
    BY DEF RequestInv, RequestShape, Shape
  <1>2. RequestInv'
    BY <1>1, StepMoves, RequestStep
  <1>3. Shape'
    BY <1>2, PaidStep, MemoryStep, ClockStep, TxStep, SeenStep
       DEF RequestInv, RequestShape, Shape
  <1>4. Counted' /\ SentBySubmitting' /\ SpentMemoryTrue' /\ PaidAsAnswered' /\ Timely' /\ DelayHeld'
    BY <1>1, CountedStep, SentStep, MemoryStep, AnswerStep, TimelyStep, DelayStep
  <1> QED
    BY <1>2, <1>3, <1>4 DEF RequestInv

\* What the relayer keeps true of its maps, tables and counters at every await of
\* every handler, however requests, rivals, crashes and late transactions interleave.
THEOREM RelayerInvariant == Spec => []RelayerInv
  BY InitInv, StepInv, PTL DEF Spec

\* The shapes of RelayerService's and OnChainNullifierRegistry's fields; the count of
\* pending withdrawals is never negative and never more than the requests.
THEOREM RelayerTypes == Spec => []TypeOK
  <1>1. RelayerInv => TypeOK
    <2> SUFFICES ASSUME RelayerInv PROVE TypeOK
      OBVIOUS
    <2>1. pending \in 0 .. Cardinality(Requests)
      BY SubmittingFinite DEF RelayerInv, Counted
    <2>2. \A t \in txs : t.nullifier \in Nullifiers /\ t.root \in Roots
                         /\ t.owner \in Requests \cup {Nobody}
      BY DEF RelayerInv, Shape, TxType, Owners
    <2> QED
      BY <2>1, <2>2 DEF RelayerInv, Shape, TypeOK, ReqType, Owners
  <1> QED
    BY <1>1, RelayerInvariant, PTL

\* processWithdrawal coalesces by the string it is sent: never two past admission under
\* one, and what two of them have under way is for two strings.  Two spellings of one
\* nullifier are two strings.
THEOREM Exclusion == Spec => []OneServed
  <1>1. RelayerInv => OneServed
    <2> SUFFICES ASSUME RelayerInv PROVE OneServed
      OBVIOUS
    <2>1. \A q, r \in Requests :
             q # r /\ req[q].pc \in Working /\ req[r].pc \in Working => Hash(q) # Hash(r)
      BY DEF RelayerInv, Owned
    <2>2. \A t \in txs : t.owner # Nobody =>
             t.owner \in Requests /\ req[t.owner].pc \in Working
      BY DEF RelayerInv, SentBySubmitting, Working, PCs
    <2> QED
      BY <2>1, <2>2 DEF OneServed
  <1> QED
    BY <1>1, RelayerInvariant, PTL

\* Whoever joined waits for a request that is being served.
THEOREM NobodyWaitsForNobody == Spec => []JoinersHaveOwner
  BY RelayerInvariant, PTL DEF RelayerInv

\* The cache of spent nullifiers and the tracker of the anonymity set never hold a
\* nullifier that the program has not paid.
THEOREM MemoryIsTrue == Spec => []SpentMemoryTrue
  BY RelayerInvariant, PTL DEF RelayerInv

\* A reply of success names the recipient that was paid, to joined callers too.
THEOREM AnswersAreTrue == Spec => []PaidAsAnswered
  BY RelayerInvariant, PTL DEF RelayerInv

\* checkPrivacyDelay holds for what is sent, across restarts, up to the lag.
THEOREM DelayIsHeld == Spec => []DelayHeld
  BY RelayerInvariant, PTL DEF RelayerInv

=============================================================================
