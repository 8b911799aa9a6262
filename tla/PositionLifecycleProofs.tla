----------------------- MODULE PositionLifecycleProofs -----------------------
(***************************************************************************)
(* Proofs about PositionLifecycle, for any number of concurrent requests   *)
(* and restarts, with or without the worker, whatever the order in which   *)
(* the unawaited saves land: what survives the races of the handlers.      *)
(***************************************************************************)
EXTENDS PositionLifecycle, SequenceTheorems, FiniteSetTheorems, TLAPS

Venue == [funded: Nat, added: Nat, claimed: Nat, closed: Nat]
Row == States \cup {NoState}
Save == {"null", "signed"}

\* Places in a handler that are only reached after liquidity was added, and
\* those that are only reached after the venue claimed or closed.
AfterAdd == PCs \ {"idle", "create.session", "funding", "prepareFunding",
                   "executing", "addLiquidity", "failed.position",
                   "failed.session", "get.session"}
AfterExit == {"closing.position", "closing.session", "indexing.position",
              "indexing.session", "completed.position", "completed.session"}

\* Places where the request is known to be a claim or a close.
Exiting == {"exit.readSession", "exit.position", "exit.session", "prepareExit",
            "exit"}
Request ==
    {q \in [pc: PCs, op: Exits \cup {NoOp}, stage: Stages \cup {NoStage},
            wasActive: BOOLEAN] : q.pc \in Exiting => q.op \in Exits}

\* What a row, or a place in a handler, says about the venue v.
RowTrue(state, v) ==
    /\ state \in Landed => v.added > 0
    /\ state = "completed" => v.claimed + v.closed > 0
PcTrue(pc, v) ==
    /\ pc \in AfterAdd => v.added > 0
    /\ pc \in AfterExit => v.claimed + v.closed > 0
MayStand(q, pc, v) ==
    /\ pc \in PCs
    /\ PcTrue(pc, v)
    /\ pc \in Exiting => q.op \in Exits
WorkerTrue(pc, v) == pc # "idle" => v.added > 0
Grows(v, w) ==
    /\ v \in Venue /\ w \in Venue
    /\ w.added >= v.added
    /\ w.claimed + w.closed >= v.claimed + v.closed

(* The inductive invariant. *)
IndInv ==
    /\ TypeOK
    /\ req \in [Requests -> Request]
    /\ NoExecutingRow
    /\ SignatureOfRealAdd
    /\ RowTrue(position, venue) /\ RowTrue(session.state, venue)
    /\ \A r \in Requests : PcTrue(req[r].pc, venue)
    /\ WorkerTrue(worker, venue)

\* The venue never takes anything back, so what was true of it stays true.
LEMMA StaysTrue ==
    ASSUME NEW v, NEW w, Grows(v, w)
    PROVE  /\ \A s : RowTrue(s, v) => RowTrue(s, w)
           /\ \A pc : PcTrue(pc, v) => PcTrue(pc, w)
           /\ \A pc : WorkerTrue(pc, v) => WorkerTrue(pc, w)
  BY DEF Grows, Venue, RowTrue, PcTrue, WorkerTrue

\* A venue that does not change grows, and so does one that counts a call.
LEMMA Growth ==
    ASSUME NEW v \in Venue, NEW w,
           \/ w = v
           \/ \E e \in {"funded", "added", "claimed", "closed"} :
                  w = [v EXCEPT ![e] = @ + 1]
    PROVE  Grows(v, w)
  BY SMT DEF Grows, Venue

\* A handler that moves on keeps the requests typed, and true if the place it
\* moves to is.
LEMMA Moves ==
    ASSUME req \in [Requests -> Request],
           NEW v, \A q \in Requests : PcTrue(req[q].pc, v),
           NEW r \in Requests, NEW pc, Goto(r, pc), MayStand(req[r], pc, v)
    PROVE  /\ req' \in [Requests -> Request]
           /\ \A q \in Requests : PcTrue(req'[q].pc, v)
<1>1. Idle \in Request /\ Idle.pc = "idle"
  BY DEF Idle, Request, PCs, Exits, NoOp, NoStage, Exiting
<1>2. /\ [req[r] EXCEPT !.pc = pc] \in Request
      /\ [req[r] EXCEPT !.pc = pc].pc = pc
  BY DEF Request, MayStand
<1>3. PICK next \in Request : next.pc = pc /\ req' = [req EXCEPT ![r] = next]
  <2>1. CASE pc = "idle"
    BY <1>1, <2>1 DEF Goto
  <2>2. CASE pc # "idle"
    BY <1>2, <2>2 DEF Goto
  <2>3. QED
    BY <2>1, <2>2
<1>4. \A q \in Requests : req'[q] = IF q = r THEN next ELSE req[q]
  BY <1>3
<1>5. req' \in [Requests -> Request]
  BY <1>3
<1>6. QED
  BY <1>3, <1>4, <1>5 DEF MayStand

\* The facts about the requests that every handler's step starts from.
LEMMA Start ==
    ASSUME IndInv
    PROVE  /\ venue \in Venue
           /\ req \in [Requests -> Request]
           /\ \A q \in Requests : PcTrue(req[q].pc, venue)
           /\ position \in Row /\ session \in [state: Row, stage: Stages \cup {NoStage}]
           /\ snapshot \in {"absent"} \cup Save /\ saves \in Seq(Save)
  BY DEF IndInv, TypeOK, Venue, Request, Row, Save

\* A step that leaves the store and the worker alone keeps the invariant if
\* the rows and the requests it leaves behind are true of the venue.
LEMMA RowsSuffice ==
    ASSUME IndInv, Grows(venue, venue'), UNCHANGED <<snapshot, saves, worker, crashes>>,
           position' \in Row, RowTrue(position', venue'),
           position' \notin {"awaiting_signature", "funding_in_progress",
                             "executing_on_meteora"},
           session' \in [state: Row, stage: Stages \cup {NoStage}],
           RowTrue(session'.state, venue'),
           req' \in [Requests -> Request],
           \A q \in Requests : PcTrue(req'[q].pc, venue')
    PROVE  IndInv'
<1>1. TypeOK'
  BY DEF IndInv, TypeOK, Grows, Venue, Request, Row, Save
<1>2. SignatureOfRealAdd'
  BY DEF IndInv, SignatureOfRealAdd, Grows, Venue
<1>3. WorkerTrue(worker', venue')
  BY StaysTrue DEF IndInv
<1>4. QED
  BY <1>1, <1>2, <1>3 DEF IndInv, NoExecutingRow

\* Moving on without a write.
LEMMA GotoInv ==
    ASSUME IndInv, NEW r \in Requests, NEW next, Goto(r, next),
           MayStand(req[r], next, venue),
           UNCHANGED <<rows, snapshot, saves, venue, worker, crashes>>
    PROVE  IndInv'
<1>1. /\ req' \in [Requests -> Request]
      /\ \A q \in Requests : PcTrue(req'[q].pc, venue)
  BY Start, Moves
<1>2. Grows(venue, venue')
  BY Start, Growth
<1>3. QED
  BY <1>1, <1>2, Start, RowsSuffice DEF IndInv, NoExecutingRow, rows

\* A request that starts or moves on, with a new record.
LEMMA ArriveInv ==
    ASSUME IndInv, NEW r \in Requests, NEW next \in Request,
           req' = [req EXCEPT ![r] = next], PcTrue(next.pc, venue),
           UNCHANGED <<rows, snapshot, saves, venue, worker, crashes>>
    PROVE  IndInv'
<1>1. /\ req' \in [Requests -> Request]
      /\ \A q \in Requests : PcTrue(req'[q].pc, venue)
  BY Start
<1>2. Grows(venue, venue')
  BY Start, Growth
<1>3. QED
  BY <1>1, <1>2, Start, RowsSuffice DEF IndInv, NoExecutingRow, rows

\* A write of the position row.
LEMMA PositionStepInv ==
    ASSUME IndInv, NEW r \in Requests, NEW at, NEW state \in Row, NEW next,
           PositionStep(r, at, state, next),
           RowTrue(state, venue), MayStand(req[r], next, venue),
           state \notin {"awaiting_signature", "funding_in_progress",
                         "executing_on_meteora"}
    PROVE  IndInv'
<1>1. /\ req' \in [Requests -> Request]
      /\ \A q \in Requests : PcTrue(req'[q].pc, venue)
  BY Start, Moves DEF PositionStep
<1>2. Grows(venue, venue')
  BY Start, Growth DEF PositionStep
<1>3. position' = state /\ UNCHANGED <<session, snapshot, saves, venue, worker, crashes>>
  BY DEF PositionStep, UpdatePositionState
<1>4. QED
  BY <1>1, <1>2, <1>3, Start, RowsSuffice DEF IndInv

\* A write of the session row, with the stage of a failure or without.
LEMMA SessionWriteInv ==
    ASSUME IndInv, NEW r \in Requests, NEW state \in Row,
           NEW stage \in Stages \cup {NoStage}, NEW next,
           UpdateExecutionSession(state, stage), Goto(r, next),
           RowTrue(state, venue), MayStand(req[r], next, venue),
           UNCHANGED <<position, snapshot, saves, venue, worker, crashes>>
    PROVE  IndInv'
<1>1. /\ req' \in [Requests -> Request]
      /\ \A q \in Requests : PcTrue(req'[q].pc, venue)
  BY Start, Moves
<1>2. Grows(venue, venue')
  BY Start, Growth
<1>3. /\ session' \in [state: Row, stage: Stages \cup {NoStage}]
      /\ session'.state = state
  BY DEF UpdateExecutionSession
<1>4. QED
  BY <1>1, <1>2, <1>3, Start, RowsSuffice DEF IndInv, NoExecutingRow

LEMMA SessionStepInv ==
    ASSUME IndInv, NEW r \in Requests, NEW at, NEW state \in Row, NEW next,
           SessionStep(r, at, state, next), RowTrue(state, venue),
           MayStand(req[r], next, venue)
    PROVE  IndInv'
  BY SessionWriteInv DEF SessionStep

\* A rejected call leads to recordFailure, whatever it did at the venue.
LEMMA RejectedInv ==
    ASSUME IndInv, NEW r \in Requests, NEW at,
           NEW effects \in SUBSET {"funded", "added", "claimed", "closed"},
           NEW stage \in Stages, Rejected(r, at, effects, stage)
    PROVE  IndInv'
<1>1. Grows(venue, venue')
  BY Start, Growth DEF Rejected
<1>2. UNCHANGED <<rows, snapshot, saves, worker, crashes>>
  BY DEF Rejected
<1>3. PICK next \in Request :
          next.pc = "failed.position" /\ req' = [req EXCEPT ![r] = next]
  <2>1. [req[r] EXCEPT !.pc = "failed.position", !.stage = stage] \in Request
    <3>1. req[r] \in Request
      BY Start
    <3>2. "failed.position" \in PCs \ Exiting /\ stage \in Stages \cup {NoStage}
      BY DEF PCs, Exiting
    <3> QED
      BY ONLY <3>1, <3>2 DEF Request
  <2>2. [req[r] EXCEPT !.pc = "failed.position", !.stage = stage].pc = "failed.position"
    BY Start DEF Request
  <2>3. req' = [req EXCEPT ![r] =
                   [req[r] EXCEPT !.pc = "failed.position", !.stage = stage]]
    BY Start DEF Rejected
  <2>4. QED
    BY <2>1, <2>2, <2>3
<1>4. \A q \in Requests : PcTrue(req[q].pc, venue')
  BY <1>1, Start, StaysTrue
<1>5. PcTrue("failed.position", venue')
  BY DEF PcTrue, AfterAdd, AfterExit
<1>6. /\ req' \in [Requests -> Request]
      /\ \A q \in Requests : PcTrue(req'[q].pc, venue')
  BY <1>3, <1>4, <1>5, Start
<1>7. RowTrue(position, venue') /\ RowTrue(session.state, venue')
  BY <1>1, StaysTrue DEF IndInv
<1>8. QED
  BY <1>1, <1>2, <1>6, <1>7, Start, RowsSuffice DEF IndInv, NoExecutingRow, rows

\* A receipt leads on, if the place it leads to is true of the venue then.
LEMMA AcceptedInv ==
    ASSUME IndInv, NEW r \in Requests, NEW at, NEW next,
           NEW effect \in {"funded", "added", "claimed", "closed"},
           Accepted(r, at, effect, next), UNCHANGED saves,
           MayStand(req[r], next, venue')
    PROVE  IndInv'
<1>1. Grows(venue, venue')
  BY Start, Growth DEF Accepted
<1>2. \A q \in Requests : PcTrue(req[q].pc, venue')
  BY <1>1, Start, StaysTrue
<1>3. /\ req' \in [Requests -> Request]
      /\ \A q \in Requests : PcTrue(req'[q].pc, venue')
  BY <1>2, Start, Moves DEF Accepted
<1>4. UNCHANGED <<position, session, snapshot, saves, worker, crashes>>
  BY DEF Accepted, rows
<1>5. RowTrue(position, venue') /\ RowTrue(session.state, venue')
  BY <1>1, StaysTrue DEF IndInv
<1>6. QED
  BY <1>1, <1>3, <1>4, <1>5, Start, RowsSuffice DEF IndInv, NoExecutingRow

\* Where a handler stands tells what the venue has done.
LEMMA Here ==
    ASSUME IndInv, NEW r \in Requests, NEW pc, At(r, pc)
    PROVE  PcTrue(pc, venue)
  BY Start DEF At

LEMMA CreateInv ==
    ASSUME IndInv, NEW r \in Requests, CreatePosition(r) \/ CreateSession(r)
    PROVE  IndInv'
<1>1. CASE CreatePosition(r)
  <2>1. /\ MayStand(req[r], "create.session", venue)
        /\ "draft" \in Row /\ RowTrue("draft", venue)
    BY DEF MayStand, Exiting, PCs, PcTrue, AfterAdd, AfterExit, Row, States, Machine!States,
           RowTrue, Landed
  <2>2. PositionStep(r, "idle", "draft", "create.session")
    BY <1>1 DEF CreatePosition, PositionStep
  <2>3. QED
    BY <2>1, <2>2, PositionStepInv
<1>2. CASE CreateSession(r)
  <2>1. /\ MayStand(req[r], "idle", venue)
        /\ "awaiting_signature" \in Row /\ RowTrue("awaiting_signature", venue)
    BY DEF MayStand, Exiting, PCs, PcTrue, AfterAdd, AfterExit, Row, States, Machine!States,
           RowTrue, Landed
  <2>2. SessionStep(r, "create.session", "awaiting_signature", "idle")
    BY <1>2 DEF CreateSession, SessionStep, Return
  <2>3. QED
    BY <2>1, <2>2, SessionStepInv
<1>3. QED
  BY <1>1, <1>2

\* executeSignedIntent: the venue's receipt comes before every row that
\* says the position has landed.
LEMMA AddLiquidityInv ==
    ASSUME IndInv, NEW r \in Requests, AddLiquidity(r)
    PROVE  IndInv'
<1>1. CASE /\ Accepted(r, "addLiquidity", "added", "x.indexing.position")
           /\ saves' = Append(saves, "null")
  <2>1. Grows(venue, venue') /\ venue'.added > 0
    <3>1. venue' = [venue EXCEPT !["added"] = @ + 1]
      BY <1>1 DEF Accepted
    <3>2. venue \in Venue
      BY Start
    <3>3. Grows(venue, venue')
      BY <3>1, <3>2, Growth
    <3>4. venue'.added = venue.added + 1 /\ venue.added \in Nat
      BY <3>1, <3>2 DEF Venue
    <3>5. QED
      BY <3>3, <3>4
  <2>2. PcTrue("x.indexing.position", venue')
    BY <2>1 DEF PcTrue, AfterExit
  <2>3. \A q \in Requests : PcTrue(req[q].pc, venue')
    BY <2>1, Start, StaysTrue
  <2>4. /\ req' \in [Requests -> Request]
        /\ \A q \in Requests : PcTrue(req'[q].pc, venue')
    <3>1. "x.indexing.position" \in PCs /\ Goto(r, "x.indexing.position")
      BY <1>1 DEF Accepted, PCs
    <3>2. MayStand(req[r], "x.indexing.position", venue')
      BY <2>2, <3>1 DEF MayStand, Exiting
    <3>3. QED
      BY <2>3, <3>1, <3>2, Start, Moves
  <2>5. UNCHANGED <<position, session, snapshot, worker, crashes>>
    BY <1>1 DEF Accepted, rows
  <2>6. saves' \in Seq(Save)
    BY <1>1, Start DEF Save
  <2>7. TypeOK'
    BY <2>1, <2>4, <2>5, <2>6 DEF IndInv, TypeOK, Grows, Venue, Request, Save
  <2>8. SignatureOfRealAdd' /\ NoExecutingRow'
    BY <2>1, <2>5 DEF IndInv, SignatureOfRealAdd, NoExecutingRow
  <2>9. /\ RowTrue(position', venue') /\ RowTrue(session'.state, venue')
        /\ WorkerTrue(worker', venue')
    BY <2>1, <2>5, StaysTrue DEF IndInv
  <2>10. QED
    BY <2>4, <2>7, <2>8, <2>9 DEF IndInv
<1>2. CASE Rejected(r, "addLiquidity", {"added"}, "funding-partial")
  BY <1>2, RejectedInv DEF Stages
<1>3. QED
  BY <1>1, <1>2 DEF AddLiquidity

\* registerSnapshot is only called by a handler that has added liquidity.
LEMMA RegisterSnapshotInv ==
    ASSUME IndInv, NEW r \in Requests, RegisterSnapshot(r)
    PROVE  IndInv'
<1>1. venue.added > 0
  BY Here DEF RegisterSnapshot, PcTrue, AfterAdd, PCs
<1>2. /\ req' \in [Requests -> Request]
      /\ \A q \in Requests : PcTrue(req'[q].pc, venue)
  <2>1. MayStand(req[r], "idle", venue) /\ Goto(r, "idle")
    BY DEF MayStand, Exiting, PCs, PcTrue, AfterAdd, AfterExit, RegisterSnapshot, Return
  <2>2. QED
    BY <2>1, Start, Moves
<1>3. UNCHANGED <<position, session, snapshot, venue, worker, crashes>>
  BY DEF RegisterSnapshot, rows
<1>4. saves' \in Seq(Save)
  BY Start DEF RegisterSnapshot, Save
<1>5. TypeOK'
  BY <1>2, <1>3, <1>4 DEF IndInv, TypeOK, Request, Save
<1>6. QED
  BY <1>1, <1>2, <1>3, <1>5 DEF IndInv, SignatureOfRealAdd, NoExecutingRow

\* executeSignedIntent keeps the invariant.
LEMMA ExecuteInv ==
    ASSUME IndInv, NEW r \in Requests, Execute(r)
    PROVE  IndInv'
<1>1. CASE ReadSession(r)
  <2>1. MayStand(req[r], "funding", venue)
    BY DEF MayStand, Exiting, PCs, PcTrue, AfterAdd, AfterExit
  <2>2. QED
    BY <1>1, <2>1, GotoInv DEF ReadSession
<1>2. CASE WriteFunding(r)
  <2>1. /\ MayStand(req[r], "prepareFunding", venue)
        /\ "funding_in_progress" \in Row /\ RowTrue("funding_in_progress", venue)
    BY DEF MayStand, Exiting, PCs, PcTrue, AfterAdd, AfterExit, Row, States, Machine!States,
           RowTrue, Landed
  <2>2. QED
    BY <1>2, <2>1, SessionStepInv DEF WriteFunding
<1>3. CASE PrepareFunding(r)
  <2>1. CASE Accepted(r, "prepareFunding", "funded", "executing") /\ UNCHANGED saves
    <3>1. MayStand(req[r], "executing", venue')
      BY DEF MayStand, Exiting, PCs, PcTrue, AfterAdd, AfterExit
    <3>2. QED
      BY <2>1, <3>1, AcceptedInv
  <2>2. CASE Rejected(r, "prepareFunding", {}, "pre-funding")
    BY <2>2, RejectedInv DEF Stages
  <2>3. QED
    BY <1>3, <2>1, <2>2 DEF PrepareFunding
<1>4. CASE WriteExecuting(r)
  <2>1. /\ MayStand(req[r], "addLiquidity", venue)
        /\ "executing_on_meteora" \in Row /\ RowTrue("executing_on_meteora", venue)
    BY DEF MayStand, Exiting, PCs, PcTrue, AfterAdd, AfterExit, Row, States, Machine!States,
           RowTrue, Landed
  <2>2. QED
    BY <1>4, <2>1, SessionStepInv DEF WriteExecuting
<1>5. CASE AddLiquidity(r)
  BY <1>5, AddLiquidityInv
<1>6. CASE PositionStep(r, "x.indexing.position", "indexing", "x.indexing.session")
  <2>1. venue.added > 0
    BY <1>6, Here DEF PositionStep, PcTrue, AfterAdd, PCs
  <2>2. /\ MayStand(req[r], "x.indexing.session", venue)
        /\ "indexing" \in Row /\ RowTrue("indexing", venue)
    BY <2>1 DEF MayStand, Exiting, PCs, PcTrue, AfterExit, Row, States, Machine!States, RowTrue
  <2>3. QED
    BY <1>6, <2>2, PositionStepInv
<1>7. CASE SessionStep(r, "x.indexing.session", "indexing", "registerSnapshot")
  <2>1. venue.added > 0
    BY <1>7, Here DEF SessionStep, PcTrue, AfterAdd, PCs
  <2>2. /\ MayStand(req[r], "registerSnapshot", venue)
        /\ "indexing" \in Row /\ RowTrue("indexing", venue)
    BY <2>1 DEF MayStand, Exiting, PCs, PcTrue, AfterExit, Row, States, Machine!States, RowTrue
  <2>3. QED
    BY <1>7, <2>2, SessionStepInv
<1>8. CASE RegisterSnapshot(r)
  BY <1>8, RegisterSnapshotInv
<1>9. QED
  BY <1>1, <1>2, <1>3, <1>4, <1>5, <1>6, <1>7, <1>8 DEF Execute

\* The venue's answer to a claim or a close: only a receipt, never a
\* rejection, leads on towards completed.
LEMMA VenueExitInv ==
    ASSUME IndInv, NEW r \in Requests, VenueExit(r)
    PROVE  IndInv'
<1> DEFINE effect == ExitEffect[req[r].op]
           next   == IF req[r].op = "claim" THEN "indexing.position"
                                            ELSE "closing.position"
<1>1. req[r].pc = "exit" /\ req[r].op \in Exits
  BY Start DEF VenueExit, Accepted, Rejected, At, Request, Exiting
<1>2. effect \in {"claimed", "closed"}
  BY <1>1 DEF ExitEffect, Exits
<1> HIDE DEF effect
<1>3. CASE Accepted(r, "exit", effect, next) /\ UNCHANGED saves
  <2>1. venue.added > 0
    BY <1>3, Here DEF Accepted, PcTrue, AfterAdd, PCs
  <2>2. venue' = [venue EXCEPT ![effect] = @ + 1] /\ venue \in Venue
    BY <1>3, Start DEF Accepted
  <2>3. venue'.added > 0 /\ venue'.claimed + venue'.closed > 0
    <3>1. CASE effect = "claimed"
      BY <2>1, <2>2, <3>1 DEF Venue
    <3>2. CASE effect = "closed"
      BY <2>1, <2>2, <3>2 DEF Venue
    <3>3. QED
      BY <1>2, <3>1, <3>2
  <2>4. MayStand(req[r], next, venue')
    BY <2>3 DEF MayStand, PCs, PcTrue, Exiting
  <2>5. QED
    BY <1>2, <1>3, <2>4, AcceptedInv
<1>4. CASE Rejected(r, "exit", {effect}, "venue-confirmation")
  <2>1. {effect} \in SUBSET {"funded", "added", "claimed", "closed"}
    BY <1>2
  <2>2. QED
    BY <1>4, <2>1, RejectedInv DEF Stages
<1>5. QED
  BY <1>3, <1>4 DEF VenueExit, effect

\* claimPosition and withdrawClosePosition keep the invariant.
LEMMA ExitInv ==
    ASSUME IndInv, NEW r \in Requests, Exit(r)
    PROVE  IndInv'
<1>1. CASE GetActivePosition(r)
  <2>1. PICK op \in Exits :
            req' = [req EXCEPT ![r].pc = "exit.readSession", ![r].op = op]
    BY <1>1 DEF GetActivePosition
  <2>2. venue.added > 0
    BY <1>1 DEF GetActivePosition, IndInv, RowTrue, Landed
  <2>3. /\ [req[r] EXCEPT !.pc = "exit.readSession", !.op = op] \in Request
        /\ [req[r] EXCEPT !.pc = "exit.readSession", !.op = op].pc = "exit.readSession"
    BY Start DEF Request, PCs
  <2>4. req' = [req EXCEPT ![r] =
                   [req[r] EXCEPT !.pc = "exit.readSession", !.op = op]]
    BY <2>1, Start
  <2>5. PcTrue("exit.readSession", venue)
    BY <2>2 DEF PcTrue, AfterExit
  <2>6. PICK next \in Request : /\ req' = [req EXCEPT ![r] = next]
                                /\ PcTrue(next.pc, venue)
    BY <2>3, <2>4, <2>5
  <2>7. UNCHANGED <<rows, snapshot, saves, venue, worker, crashes>>
    BY <1>1 DEF GetActivePosition
  <2>8. QED
    BY <2>6, <2>7, ArriveInv
<1>2. CASE GetLatestActiveSession(r)
  <2>1. req[r].pc = "exit.readSession" /\ req[r].op \in Exits /\ venue.added > 0
    BY <1>2, Start, Here
    DEF GetLatestActiveSession, At, Request, Exiting, PcTrue, AfterAdd, PCs
  <2>2. MayStand(req[r], "exit.position", venue) /\ MayStand(req[r], "idle", venue)
    BY <2>1 DEF MayStand, PCs, PcTrue, AfterAdd, AfterExit
  <2>3. Goto(r, "exit.position") \/ Goto(r, "idle")
    BY <1>2 DEF GetLatestActiveSession, Return
  <2>4. QED
    BY <1>2, <2>2, <2>3, GotoInv DEF GetLatestActiveSession
<1>3. CASE PositionStep(r, "exit.position", ExitState[req[r].op], "exit.session")
  <2>1. req[r].pc = "exit.position" /\ req[r].op \in Exits /\ venue.added > 0
    BY <1>3, Start, Here
    DEF PositionStep, At, Request, Exiting, PcTrue, AfterAdd, PCs
  <2>2. ExitState[req[r].op] \in {"claiming", "withdrawing"}
    BY <2>1 DEF ExitState, Exits
  <2>3. /\ ExitState[req[r].op] \in Row /\ RowTrue(ExitState[req[r].op], venue)
        /\ ExitState[req[r].op] \notin {"awaiting_signature",
               "funding_in_progress", "executing_on_meteora"}
    BY <2>1, <2>2 DEF Row, States, Machine!States, RowTrue
  <2>4. MayStand(req[r], "exit.session", venue)
    BY <2>1 DEF MayStand, PCs, PcTrue, AfterExit
  <2>5. QED
    BY <1>3, <2>3, <2>4, PositionStepInv
<1>4. CASE SessionStep(r, "exit.session", ExitState[req[r].op], "prepareExit")
  <2>1. req[r].pc = "exit.session" /\ req[r].op \in Exits /\ venue.added > 0
    BY <1>4, Start, Here
    DEF SessionStep, At, Request, Exiting, PcTrue, AfterAdd, PCs
  <2>2. ExitState[req[r].op] \in {"claiming", "withdrawing"}
    BY <2>1 DEF ExitState, Exits
  <2>3. ExitState[req[r].op] \in Row /\ RowTrue(ExitState[req[r].op], venue)
    BY <2>1, <2>2 DEF Row, States, Machine!States, RowTrue
  <2>4. MayStand(req[r], "prepareExit", venue)
    BY <2>1 DEF MayStand, PCs, PcTrue, AfterExit
  <2>5. QED
    BY <1>4, <2>3, <2>4, SessionStepInv
<1>5. CASE PrepareExit(r)
  <2>1. CASE Rejected(r, "prepareExit", {}, "venue-submission")
    BY <2>1, RejectedInv DEF Stages
  <2>2. CASE /\ At(r, "prepareExit") /\ Goto(r, "exit")
             /\ UNCHANGED <<rows, snapshot, saves, venue, worker, crashes>>
    <3>1. req[r].op \in Exits /\ venue.added > 0
      BY <2>2, Start, Here DEF At, Request, Exiting, PcTrue, AfterAdd, PCs
    <3>2. MayStand(req[r], "exit", venue)
      BY <3>1 DEF MayStand, PCs, PcTrue, AfterExit
    <3>3. QED
      BY <2>2, <3>2, GotoInv
  <2>3. QED
    BY <1>5, <2>1, <2>2 DEF PrepareExit
<1>6. CASE VenueExit(r)
  BY <1>6, VenueExitInv
<1>7. ASSUME NEW at \in AfterExit, At(r, at)
      PROVE  /\ \A pc \in AfterExit \cup {"idle"} : MayStand(req[r], pc, venue)
             /\ \A s \in {"closing", "indexing", "completed"} :
                    s \in Row /\ RowTrue(s, venue)
  <2>1. PcTrue(at, venue)
    BY <1>7, Here
  <2>2. venue.added > 0 /\ venue.claimed + venue.closed > 0
    BY <1>7, <2>1 DEF PcTrue, AfterAdd, AfterExit, PCs
  <2>3. QED
    BY <2>2 DEF MayStand, PcTrue, AfterAdd, AfterExit, PCs, Exiting, Row, States,
                Machine!States, RowTrue
<1>8. CASE PositionStep(r, "closing.position", "closing", "closing.session")
  BY <1>7, <1>8, PositionStepInv DEF PositionStep, AfterExit
<1>9. CASE SessionStep(r, "closing.session", "closing", "indexing.position")
  BY <1>7, <1>9, SessionStepInv DEF SessionStep, AfterExit
<1>10. CASE PositionStep(r, "indexing.position", "indexing", "indexing.session")
  BY <1>7, <1>10, PositionStepInv DEF PositionStep, AfterExit
<1>11. CASE SessionStep(r, "indexing.session", "indexing", "completed.position")
  BY <1>7, <1>11, SessionStepInv DEF SessionStep, AfterExit
<1>12. CASE PositionStep(r, "completed.position", "completed", "completed.session")
  BY <1>7, <1>12, PositionStepInv DEF PositionStep, AfterExit
<1>13. CASE SessionStep(r, "completed.session", "completed", "idle")
  BY <1>7, <1>13, SessionStepInv DEF SessionStep, AfterExit
<1>14. QED
  BY <1>1, <1>2, <1>3, <1>4, <1>5, <1>6, <1>8, <1>9, <1>10, <1>11, <1>12, <1>13
  DEF Exit

\* recordFailure keeps the invariant: failed says nothing of the venue.
LEMMA RecordFailureInv ==
    ASSUME IndInv, NEW r \in Requests, RecordFailure(r)
    PROVE  IndInv'
<1>1. /\ MayStand(req[r], "failed.session", venue) /\ MayStand(req[r], "idle", venue)
      /\ "failed" \in Row /\ RowTrue("failed", venue)
  BY DEF MayStand, Exiting, PCs, PcTrue, AfterAdd, AfterExit, Row, States,
         Machine!States, RowTrue, Landed
<1>2. CASE PositionStep(r, "failed.position", "failed", "failed.session")
  BY <1>1, <1>2, PositionStepInv
<1>3. CASE FailSession(r)
  <2>1. req[r].stage \in Stages \cup {NoStage}
    BY Start DEF Request
  <2>2. QED
    BY <1>1, <1>3, <2>1, SessionWriteInv DEF FailSession
<1>4. QED
  BY <1>2, <1>3 DEF RecordFailure

\* getPosition keeps the invariant: it activates what it saw indexing.
LEMMA GetInv ==
    ASSUME IndInv, NEW r \in Requests, Get(r)
    PROVE  IndInv'
<1>1. MayStand(req[r], "idle", venue)
  BY DEF MayStand, Exiting, PCs, PcTrue, AfterAdd, AfterExit
<1>2. ASSUME venue.added > 0
      PROVE  /\ \A pc \in {"get.load", "get.clear", "get.position",
                           "get.activeSession"} : MayStand(req[r], pc, venue)
             /\ "active" \in Row /\ RowTrue("active", venue)
  BY <1>2 DEF MayStand, Exiting, PCs, PcTrue, AfterExit, Row, States,
              Machine!States, RowTrue
<1>3. ASSUME NEW at \in {"get.load", "get.clear", "get.position",
                         "get.activeSession"}, At(r, at)
      PROVE  venue.added > 0
  BY <1>3, Here DEF PcTrue, AfterAdd, PCs
<1>4. CASE GetRead(r)
  <2> DEFINE seen == position = "active"
             next == [req[r] EXCEPT !.pc = "get.session", !.wasActive = seen]
  <2>1. seen \in BOOLEAN
    OBVIOUS
  <2>2. req' = [req EXCEPT ![r] = next]
    BY <1>4, Start DEF GetRead
  <2> HIDE DEF seen
  <2>3. next \in Request /\ next.pc = "get.session"
    BY <2>1, Start DEF Request, PCs, Exiting
  <2>4. PcTrue(next.pc, venue)
    BY <2>3 DEF PcTrue, AfterAdd, AfterExit
  <2>5. UNCHANGED <<rows, snapshot, saves, venue, worker, crashes>>
    BY <1>4 DEF GetRead
  <2> HIDE DEF next
  <2>6. QED
    BY <2>2, <2>3, <2>4, <2>5, ArriveInv
<1>5. CASE GetSession(r)
  <2>1. CASE session.state = "indexing"
    <3>1. venue.added > 0
      BY <2>1 DEF IndInv, RowTrue, Landed
    <3>2. Goto(r, "get.load")
      BY <1>5, <2>1 DEF GetSession
    <3>3. QED
      BY <1>2, <1>5, <3>1, <3>2, GotoInv DEF GetSession
  <2>2. CASE session.state # "indexing"
    BY <1>1, <1>5, <2>2, GotoInv DEF GetSession, Return
  <2>3. QED
    BY <2>1, <2>2
<1>6. CASE GetLoad(r)
  <2>1. venue.added > 0
    BY <1>3, <1>6 DEF GetLoad
  <2>2. Goto(r, "get.clear") \/ Goto(r, "idle")
    BY <1>6 DEF GetLoad, Return
  <2>3. QED
    BY <1>1, <1>2, <1>6, <2>1, <2>2, GotoInv DEF GetLoad
<1>7. CASE GetClear(r)
  <2>1. venue.added > 0
    BY <1>3, <1>7 DEF GetClear
  <2>2. Goto(r, "get.position") \/ Goto(r, "idle")
    BY <1>7 DEF GetClear, Return
  <2>3. /\ req' \in [Requests -> Request]
        /\ \A q \in Requests : PcTrue(req'[q].pc, venue)
    BY <1>1, <1>2, <2>1, <2>2, Start, Moves
  <2>4. /\ UNCHANGED <<position, session, saves, venue, worker, crashes>>
        /\ snapshot' = "absent"
    BY <1>7 DEF GetClear, rows
  <2>5. TypeOK'
    BY <2>3, <2>4 DEF IndInv, TypeOK, Request
  <2>6. QED
    BY <2>3, <2>4, <2>5 DEF IndInv, SignatureOfRealAdd, NoExecutingRow
<1>8. CASE PositionStep(r, "get.position", "active", "get.activeSession")
  <2>1. venue.added > 0
    BY <1>3, <1>8 DEF PositionStep
  <2>2. QED
    BY <1>2, <1>8, <2>1, PositionStepInv
<1>9. CASE SessionStep(r, "get.activeSession", "active", "idle")
  <2>1. venue.added > 0
    BY <1>3, <1>9 DEF SessionStep
  <2>2. QED
    BY <1>1, <1>2, <1>9, <2>1, SessionStepInv
<1>10. QED
  BY <1>4, <1>5, <1>6, <1>7, <1>8, <1>9 DEF Get

\* A tick keeps the invariant: it starts from a row that is indexing.
LEMMA WorkerInv ==
    ASSUME IndInv, Worker
    PROVE  IndInv'
<1>1. venue.added > 0
  BY DEF Worker, WorkerScan, WorkerLoad, WorkerClear, WorkerPosition,
         WorkerSession, WorkerThrows, IndInv, WorkerTrue, RowTrue, Landed
<1>2. UNCHANGED <<saves, venue, req, crashes>>
  BY DEF Worker, WorkerScan, WorkerLoad, WorkerClear, WorkerPosition,
         WorkerSession, WorkerThrows
<1>3. worker' \in {"idle", "load", "clear", "position", "session"}
  BY DEF Worker, WorkerScan, WorkerLoad, WorkerClear, WorkerPosition,
         WorkerSession, WorkerThrows, WorkerGoto
<1>4. snapshot' = snapshot \/ snapshot' = "absent"
  BY DEF Worker, WorkerScan, WorkerLoad, WorkerClear, WorkerPosition,
         WorkerSession, WorkerThrows
<1>5. position' = position \/ position' = "active"
  BY DEF Worker, WorkerScan, WorkerLoad, WorkerClear, WorkerPosition,
         WorkerSession, WorkerThrows, UpdatePositionState, rows
<1>6. session' = session \/ session' = [state |-> "active", stage |-> NoStage]
  BY DEF Worker, WorkerScan, WorkerLoad, WorkerClear, WorkerPosition,
         WorkerSession, WorkerThrows, UpdateExecutionSession, rows
<1>7. "active" \in States
  BY DEF States, Machine!States
<1>8. TypeOK'
  BY <1>2, <1>3, <1>4, <1>5, <1>6, <1>7 DEF IndInv, TypeOK
<1>9. RowTrue(position', venue') /\ RowTrue(session'.state, venue')
  BY <1>1, <1>2, <1>5, <1>6 DEF IndInv, RowTrue
<1>10. NoExecutingRow' /\ SignatureOfRealAdd' /\ WorkerTrue(worker', venue')
  BY <1>1, <1>2, <1>4, <1>5 DEF IndInv, NoExecutingRow, SignatureOfRealAdd, WorkerTrue
<1>11. QED
  BY <1>2, <1>8, <1>9, <1>10 DEF IndInv

\* Which save comes where when one of them has landed.
LEMMA RemovedAt ==
    ASSUME NEW S, NEW s \in Seq(S), NEW i \in DOMAIN s
    PROVE  /\ RemoveAt(s, i) \in Seq(S)
           /\ DOMAIN RemoveAt(s, i) = 1 .. Len(s) - 1
           /\ \A j \in 1 .. Len(s) - 1 :
                  RemoveAt(s, i)[j] = s[IF j < i THEN j ELSE j + 1]
<1> DEFINE front == SubSeq(s, 1, i - 1)
           back  == SubSeq(s, i + 1, Len(s))
           n == Len(s)
<1>1. n \in Nat /\ i \in 1 .. n /\ \A k \in 1 .. n : s[k] \in S
  OBVIOUS
<1>2. /\ front \in Seq(S) /\ Len(front) = i - 1
      /\ \A j \in 1 .. i - 1 : front[j] = s[j]
  BY <1>1
<1>3. /\ back \in Seq(S) /\ Len(back) = n - i
      /\ \A j \in 1 .. n - i : back[j] = s[i + j]
  BY <1>1
<1>4. /\ RemoveAt(s, i) = front \o back
      /\ front \o back \in Seq(S)
      /\ Len(front \o back) = Len(front) + Len(back)
      /\ \A j \in 1 .. Len(front) + Len(back) :
             (front \o back)[j] = IF j <= Len(front) THEN front[j] ELSE back[j - Len(front)]
  BY ONLY <1>2, <1>3, ConcatProperties, Zenon DEF RemoveAt, front, back
<1> DEFINE both == front \o back
<1> HIDE DEF both, front, back
<1>5. /\ both \in Seq(S) /\ Len(both) = n - 1
      /\ \A j \in 1 .. n - 1 : both[j] = IF j <= i - 1 THEN front[j] ELSE back[j - (i - 1)]
  <2>1. Len(front) + Len(back) = n - 1
    BY <1>1, <1>2, <1>3
  <2>2. QED
    BY ONLY <1>2, <1>4, <2>1 DEF both
<1> HIDE DEF n
<1>6. ASSUME NEW j \in 1 .. n - 1
      PROVE  both[j] = s[IF j < i THEN j ELSE j + 1]
  <2>1. CASE j < i
    <3>1. j <= i - 1 /\ j \in 1 .. i - 1
      BY <1>1, <2>1
    <3>2. QED
      BY <1>2, <1>5, <2>1, <3>1
  <2>2. CASE ~(j < i)
    <3>1. ~(j <= i - 1) /\ j - (i - 1) \in 1 .. n - i /\ i + (j - (i - 1)) = j + 1
      BY <1>1, <2>2
    <3>2. both[j] = back[j - (i - 1)]
      BY <1>5, <3>1
    <3>3. QED
      BY <1>3, <2>2, <3>1, <3>2
  <2>3. QED
    BY <2>1, <2>2
<1>7. DOMAIN both = 1 .. n - 1
  BY <1>1, <1>5
<1>8. QED
  BY <1>4, <1>6, <1>7 DEF both, n

\* A save that lands keeps the invariant: signed was true when it was issued.
LEMMA SaveLandsInv ==
    ASSUME IndInv, SaveLands
    PROVE  IndInv'
<1>1. PICK i \in DOMAIN saves : snapshot' = saves[i] /\ saves' = RemoveAt(saves, i)
  BY DEF SaveLands
<1>2. UNCHANGED <<position, session, venue, req, worker, crashes>>
  BY DEF SaveLands, rows
<1>3. /\ saves' \in Seq(Save)
      /\ \A j \in DOMAIN saves' : \E k \in DOMAIN saves : saves'[j] = saves[k]
  <2>1. saves \in Seq(Save) /\ DOMAIN saves = 1 .. Len(saves) /\ Len(saves) \in Nat
    BY Start
  <2>2. /\ saves' \in Seq(Save) /\ DOMAIN saves' = 1 .. Len(saves) - 1
        /\ \A j \in 1 .. Len(saves) - 1 : saves'[j] = saves[IF j < i THEN j ELSE j + 1]
    BY <1>1, <2>1, RemovedAt
  <2>3. \A j \in 1 .. Len(saves) - 1 : (IF j < i THEN j ELSE j + 1) \in 1 .. Len(saves)
    BY <2>1
  <2>4. QED
    BY <2>1, <2>2, <2>3
<1>4. snapshot' \in Save
  BY <1>1, Start
<1>5. TypeOK'
  BY <1>2, <1>3, <1>4 DEF IndInv, TypeOK, Save
<1>6. SignatureOfRealAdd'
  BY <1>1, <1>2, <1>3 DEF IndInv, SignatureOfRealAdd
<1>7. QED
  BY <1>2, <1>5, <1>6 DEF IndInv, NoExecutingRow

\* An error or a restart keeps the invariant: what it forgets proves nothing.
LEMMA FailuresInv ==
    ASSUME IndInv, (\E r \in Requests : Throws(r)) \/ Crash
    PROVE  IndInv'
<1>1. ASSUME NEW r \in Requests, Throws(r) PROVE IndInv'
  <2>1. MayStand(req[r], "idle", venue)
    BY DEF MayStand, Exiting, PCs, PcTrue, AfterAdd, AfterExit
  <2>2. QED
    BY <1>1, <2>1, GotoInv DEF Throws, Return
<1>2. CASE Crash
  <2>1. /\ Idle \in Request /\ PcTrue(Idle.pc, venue)
    BY DEF Idle, Request, PCs, Exits, NoOp, NoStage, Exiting, PcTrue, AfterAdd,
           AfterExit
  <2>2. req' = [r \in Requests |-> Idle]
    BY <1>2 DEF Crash
  <2>3. /\ req' \in [Requests -> Request]
        /\ \A q \in Requests : PcTrue(req'[q].pc, venue)
    BY <2>1, <2>2
  <2>4. UNCHANGED <<position, session, snapshot, venue>>
    BY <1>2 DEF Crash, rows
  <2>5. saves' = <<>> /\ worker' = "idle" /\ crashes' \in 0 .. MaxCrashes
    BY <1>2, ConfigAssumption DEF Crash, IndInv, TypeOK
  <2>6. TypeOK'
    BY <2>3, <2>4, <2>5 DEF IndInv, TypeOK, Request
  <2>7. SignatureOfRealAdd' /\ NoExecutingRow' /\ WorkerTrue(worker', venue')
    BY <2>4, <2>5 DEF IndInv, SignatureOfRealAdd, NoExecutingRow, WorkerTrue
  <2>8. QED
    BY <2>3, <2>4, <2>6, <2>7 DEF IndInv
<1>3. QED
  BY <1>1, <1>2

\* The invariant holds before the position exists.
LEMMA InitInv == Init => IndInv
<1> SUFFICES ASSUME Init PROVE IndInv
  OBVIOUS
<1>1. Idle \in Request /\ PcTrue(Idle.pc, venue)
  BY DEF Idle, Request, PCs, Exits, NoOp, NoStage, Exiting, PcTrue, AfterAdd,
         AfterExit
<1>2. req \in [Requests -> Request] /\ \A q \in Requests : PcTrue(req[q].pc, venue)
  BY <1>1 DEF Init
<1>3. TypeOK
  BY <1>2, ConfigAssumption DEF Init, TypeOK, Request
<1>4. RowTrue(NoState, venue)
  BY DEF RowTrue, Landed, NoState, Machine!NoState
<1>5. QED
  BY <1>2, <1>3, <1>4 DEF Init, IndInv, NoExecutingRow, SignatureOfRealAdd,
                          WorkerTrue, NoState, Machine!NoState

\* Every step keeps the invariant.
LEMMA StepInv == IndInv /\ [Next]_vars => IndInv'
<1> SUFFICES ASSUME IndInv, [Next]_vars PROVE IndInv'
  OBVIOUS
<1>1. ASSUME NEW r \in Requests, Handler(r) PROVE IndInv'
  BY <1>1, CreateInv, ExecuteInv, ExitInv, RecordFailureInv, GetInv DEF Handler
<1>2. ASSUME NEW r \in Requests, Throws(r) PROVE IndInv'
  BY <1>2, FailuresInv
<1>3. CASE Worker
  BY <1>3, WorkerInv
<1>4. CASE SaveLands
  BY <1>4, SaveLandsInv
<1>5. CASE Crash
  BY <1>5, FailuresInv
<1>6. CASE UNCHANGED vars
  BY <1>6 DEF vars, rows, IndInv, TypeOK, NoExecutingRow, SignatureOfRealAdd
<1>7. QED
  BY <1>1, <1>2, <1>3, <1>4, <1>5, <1>6 DEF Next

\* The inductive invariant holds of every reachable state.
THEOREM Invariant == Spec => []IndInv
  BY InitInv, StepInv, PTL DEF Spec

\* Rows, requests, store and worker keep their shapes through every race.
THEOREM TypeCorrect == Spec => []TypeOK
<1>1. IndInv => TypeOK
  BY DEF IndInv
<1>2. QED
  BY Invariant, <1>1, PTL

\* Neither row says that the position is on the venue before the venue took
\* the liquidity (executeSignedIntent writes indexing after the receipt).
THEOREM NotLandedEarly == Spec => []LandedOnlyIfAdded
<1>1. IndInv => LandedOnlyIfAdded
  BY DEF IndInv, RowTrue, LandedOnlyIfAdded
<1>2. QED
  BY Invariant, <1>1, PTL

\* Neither row says completed unless the venue claimed or closed.
THEOREM NotCompletedEarly == Spec => []CompletedOnlyIfExited
<1>1. IndInv => CompletedOnlyIfExited
  BY DEF IndInv, RowTrue, CompletedOnlyIfExited
<1>2. QED
  BY Invariant, <1>1, PTL

\* The worker's scan for executing_on_meteora rows never finds one.
THEOREM ExecutingNeverScanned == Spec => []NoExecutingRow
<1>1. IndInv => NoExecutingRow
  BY DEF IndInv
<1>2. QED
  BY Invariant, <1>1, PTL

\* A signature that reconciliation trusts is of liquidity that landed.
THEOREM SignaturesReal == Spec => []SignatureOfRealAdd
<1>1. IndInv => SignatureOfRealAdd
  BY DEF IndInv
<1>2. QED
  BY Invariant, <1>1, PTL

(***************************************************************************)
(* One client at a time and no worker.  Then where the one request stands, *)
(* or stood when it was broken off, fixes both rows, and the rows bound    *)
(* what the venue has done.                                                *)
(***************************************************************************)
OneClient == WorkerEnabled = FALSE /\ \A q, r \in Requests : q = r

Exited(v) == v.claimed + v.closed

\* The states of the two rows that occur together, in or between requests.
RowsTogether(p, s) ==
    /\ s # "draft"
    /\ s = NoState => p \in {NoState, "draft"}
    /\ s = "awaiting_signature" => p = "draft"
    /\ s = "funding_in_progress" => p \in {"draft", "failed"}
    /\ s = "executing_on_meteora" => p \in {"draft", "indexing", "failed"}
    /\ s = "indexing" => p \in {"indexing", "active", "completed"}
    /\ s = "active" => p \in {"active", "claiming", "withdrawing"}
    /\ s = "claiming" => p \in {"claiming", "indexing", "failed"}
    /\ s = "withdrawing" => p \in {"withdrawing", "closing", "failed"}
    /\ s = "closing" => p \in {"closing", "indexing"}
    /\ s = "completed" => p = "completed"
    /\ s = "failed" => p = "failed"

\* What the venue v has not done yet, by the state of the session.
NotYet(s, v) ==
    /\ v.funded <= 1 /\ v.added <= 1 /\ Exited(v) <= 1
    /\ s \in {NoState, "awaiting_signature"} => v.funded = 0
    /\ s \in {NoState, "awaiting_signature", "funding_in_progress"} => v.added = 0
    /\ s \in {NoState, "awaiting_signature", "funding_in_progress",
              "executing_on_meteora", "active"} => Exited(v) = 0

StageTrue(stage, v) ==
    /\ stage = "pre-funding" => v.funded = 0 /\ v.added = 0
    /\ stage = "venue-submission" => Exited(v) = 0

\* What a place in a handler knows of the rows and the venue.
Submitting == {"funding_in_progress", "executing_on_meteora", "claiming", "withdrawing"}
HandlerKnows(pc, op, p, s, v) ==
    /\ pc = "create.session" => p = "draft" /\ s = NoState
    /\ pc = "funding" => p = "draft" /\ s = "awaiting_signature"
    /\ pc = "prepareFunding" => p = "draft" /\ s = "funding_in_progress" /\ v.funded = 0
    /\ pc = "executing" => p = "draft" /\ s = "funding_in_progress"
    /\ pc = "addLiquidity" => p = "draft" /\ s = "executing_on_meteora" /\ v.added = 0
    /\ pc = "x.indexing.position" => p = "draft" /\ s = "executing_on_meteora"
    /\ pc = "x.indexing.session" => p = "indexing" /\ s = "executing_on_meteora"
    /\ pc = "registerSnapshot" => p = "indexing" /\ s = "indexing" /\ Exited(v) = 0
    /\ pc = "exit.readSession" => p = "active"
    /\ pc = "exit.position" => p = "active" /\ s = "active"
    /\ pc = "exit.session" => p = ExitState[op] /\ s = "active"
    /\ pc \in {"prepareExit", "exit"} =>
           p = ExitState[op] /\ s = ExitState[op] /\ Exited(v) = 0
    /\ pc = "closing.position" => p = "withdrawing" /\ s = "withdrawing"
    /\ pc = "closing.session" => p = "closing" /\ s = "withdrawing"
    /\ pc = "indexing.position" => p = s /\ s \in {"claiming", "closing"}
    /\ pc = "indexing.session" => p = "indexing" /\ s \in {"claiming", "closing"}
    /\ pc = "completed.position" => p = "indexing" /\ s = "indexing"
    /\ pc = "completed.session" => p = "completed" /\ s = "indexing"
    /\ pc = "failed.position" => p \in {"draft", "claiming", "withdrawing"} /\ s \in Submitting
    /\ pc = "failed.session" => p = "failed" /\ s \in Submitting
    /\ pc = "get.load" => s = "indexing"
    /\ pc \in {"get.clear", "get.position"} =>
           p = "indexing" /\ s = "indexing" /\ Exited(v) = 0
    /\ pc = "get.activeSession" => p = "active" /\ s = "indexing" /\ Exited(v) = 0

\* There is one signature, in the store or on its way there, and it is of the
\* liquidity that has not been exited.
SavedSigned == {i \in DOMAIN saves : saves[i] = "signed"}
OneSignature ==
    /\ \A i, j \in SavedSigned : i = j
    /\ SavedSigned # {} => snapshot # "signed"
    /\ snapshot = "signed" \/ SavedSigned # {} =>
           /\ position = "indexing" /\ session.state = "indexing" /\ Exited(venue) = 0
           /\ \A r \in Requests : req[r].pc \in {"idle", "get.session", "get.load", "get.clear"}
    /\ \A r \in Requests : At(r, "get.clear") => SavedSigned = {}

RowsAlone ==
    /\ RowsTogether(position, session.state)
    /\ NotYet(session.state, venue)
    /\ session.state = "failed" => StageTrue(session.stage, venue)
RequestAlone(r) ==
    /\ HandlerKnows(req[r].pc, req[r].op, position, session.state, venue)
    /\ req[r].pc \in {"failed.position", "failed.session"} => StageTrue(req[r].stage, venue)

(* The inductive invariant for one client, on top of IndInv. *)
Alone ==
    /\ worker = "idle"
    /\ RowsAlone
    /\ \A r \in Requests : RequestAlone(r)
    /\ OneSignature

Searching == {"idle", "get.session", "get.load", "get.clear"}


\* What a request that moves on looks like.
LEMMA Moved ==
    ASSUME IndInv, NEW r \in Requests, NEW pc, Goto(r, pc)
    PROVE  /\ req'[r].pc = pc
           /\ pc # "idle" => req'[r].op = req[r].op /\ req'[r].stage = req[r].stage
<1>1. req \in [Requests -> Request]
  BY Start
<1>2. CASE pc = "idle"
  BY <1>1, <1>2 DEF Goto, Idle
<1>3. CASE pc # "idle"
  <2>1. req' = [req EXCEPT ![r] = [req[r] EXCEPT !.pc = pc]]
    BY <1>1, <1>3 DEF Goto
  <2>2. req[r] \in Request
    BY <1>1
  <2>3. req'[r] = [req[r] EXCEPT !.pc = pc]
    BY <1>1, <2>1
  <2>4. QED
    BY <2>2, <2>3 DEF Request
<1>4. QED
  BY <1>2, <1>3

\* While a request is neither idle nor reading, no signature is left.
LEMMA NoSignature ==
    ASSUME Alone, NEW r \in Requests, req[r].pc \notin Searching
    PROVE  snapshot # "signed" /\ SavedSigned = {}
  BY DEF Alone, OneSignature, Searching

LEMMA SignatureKept ==
    ASSUME Alone, OneClient, NEW r \in Requests, UNCHANGED <<snapshot, saves>>,
           req'[r].pc # "get.clear",
           \/ req[r].pc \notin Searching
           \/ req'[r].pc \in Searching /\ UNCHANGED <<rows, venue>>
    PROVE  OneSignature'
<1>1. \A q \in Requests : q = r
  BY DEF OneClient
<1>2. SavedSigned' = SavedSigned
  BY DEF SavedSigned
<1>3. CASE req[r].pc \notin Searching
  BY <1>1, <1>2, <1>3, NoSignature DEF OneSignature, At
<1>4. CASE req'[r].pc \in Searching /\ UNCHANGED <<rows, venue>>
  BY <1>1, <1>2, <1>4 DEF Alone, OneSignature, Searching, rows, At
<1>5. QED
  BY <1>3, <1>4

\* A step is shown to keep Alone by what it leaves for the one request.
LEMMA AloneSuffices ==
    ASSUME OneClient, NEW r \in Requests, worker' = "idle", RowsAlone', OneSignature',
           HandlerKnows(req'[r].pc, req'[r].op, position', session'.state, venue'),
           req'[r].pc \in {"failed.position", "failed.session"} => StageTrue(req'[r].stage, venue')
    PROVE  Alone'
<1>1. \A q \in Requests : q = r
  BY DEF OneClient
<1>2. \A q \in Requests : RequestAlone(q)'
  BY <1>1 DEF RequestAlone
<1>3. QED
  BY <1>2 DEF Alone

\* A request between two places knows the rows, nothing more.
LEMMA IdleKnows ==
    ASSUME NEW op, NEW p, NEW s, NEW v
    PROVE  HandlerKnows("idle", op, p, s, v) /\ HandlerKnows("get.session", op, p, s, v)
  BY DEF HandlerKnows

\* A write of the position row.
LEMMA PositionStepAlone ==
    ASSUME IndInv, OneClient, Alone, NEW r \in Requests, NEW at, NEW state, NEW next,
           PositionStep(r, at, state, next), at \notin Searching,
           next # "get.clear", next # "idle",
           RowsTogether(state, session.state),
           HandlerKnows(next, req[r].op, state, session.state, venue),
           next = "failed.session" => StageTrue(req[r].stage, venue),
           next # "failed.position"
    PROVE  Alone'
<1>1. /\ At(r, at) /\ Goto(r, next) /\ position' = state
      /\ UNCHANGED <<session, snapshot, saves, venue, worker, crashes>>
  BY DEF PositionStep, UpdatePositionState
<1>2. req'[r].pc = next /\ req'[r].op = req[r].op /\ req'[r].stage = req[r].stage
  BY <1>1, Moved
<1>3. OneSignature'
  BY <1>1, <1>2, SignatureKept DEF At
<1>4. RowsAlone'
  BY <1>1 DEF Alone, RowsAlone
<1>5. QED
  BY <1>1, <1>2, <1>3, <1>4, AloneSuffices DEF Alone

\* A write of the session row.
LEMMA SessionWriteAlone ==
    ASSUME IndInv, OneClient, Alone, NEW r \in Requests, NEW at, NEW state, NEW stage, NEW next,
           At(r, at), UpdateExecutionSession(state, stage), Goto(r, next),
           UNCHANGED <<position, snapshot, saves, venue, worker, crashes>>,
           at \notin Searching,
           next \notin {"get.clear", "failed.position", "failed.session"},
           RowsTogether(position, state), NotYet(state, venue),
           state = "failed" => StageTrue(stage, venue),
           HandlerKnows(next, req[r].op, position, state, venue)
    PROVE  Alone'
<1>1. session'.state = state /\ session'.stage = stage
  BY DEF UpdateExecutionSession
<1>2. req'[r].pc = next /\ (next # "idle" => req'[r].op = req[r].op)
  BY Moved
<1>3. OneSignature'
  BY <1>2, SignatureKept DEF At
<1>4. RowsAlone'
  BY <1>1 DEF Alone, RowsAlone
<1>5. HandlerKnows(req'[r].pc, req'[r].op, position', session'.state, venue')
  BY <1>1, <1>2, IdleKnows
<1>6. QED
  BY <1>2, <1>3, <1>4, <1>5, AloneSuffices DEF Alone

LEMMA SessionStepAlone ==
    ASSUME IndInv, OneClient, Alone, NEW r \in Requests, NEW at, NEW state, NEW next,
           SessionStep(r, at, state, next), at \notin Searching, state # "failed",
           next \notin {"get.clear", "failed.position", "failed.session"},
           RowsTogether(position, state), NotYet(state, venue),
           HandlerKnows(next, req[r].op, position, state, venue)
    PROVE  Alone'
  BY SessionWriteAlone DEF SessionStep

\* Moving on without a write.
LEMMA GotoAlone ==
    ASSUME IndInv, OneClient, Alone, NEW r \in Requests, NEW next, Goto(r, next),
           UNCHANGED <<rows, snapshot, saves, venue, worker, crashes>>,
           next \notin {"get.clear", "failed.position", "failed.session"},
           req[r].pc \notin Searching \/ next \in Searching,
           HandlerKnows(next, req[r].op, position, session.state, venue)
    PROVE  Alone'
<1>1. req'[r].pc = next /\ (next # "idle" => req'[r].op = req[r].op)
  BY Moved
<1>2. OneSignature'
  BY <1>1, SignatureKept
<1>3. RowsAlone'
  BY DEF Alone, RowsAlone, rows
<1>4. HandlerKnows(req'[r].pc, req'[r].op, position', session'.state, venue')
  BY <1>1, IdleKnows DEF rows
<1>5. QED
  BY <1>1, <1>2, <1>3, <1>4, AloneSuffices DEF Alone

\* What Alone says of the request, by where it stands.
LEMMA Knows ==
    ASSUME IndInv, Alone, NEW r \in Requests, NEW pc, At(r, pc)
    PROVE  /\ HandlerKnows(pc, req[r].op, position, session.state, venue)
           /\ pc \in {"failed.position", "failed.session"} => StageTrue(req[r].stage, venue)
           /\ RowsTogether(position, session.state) /\ NotYet(session.state, venue)
           /\ session.state = "failed" => StageTrue(session.stage, venue)
           /\ venue \in Venue
  BY Start DEF Alone, RowsAlone, RequestAlone, At

\* A receipt: the venue counts it, and the request moves on.
LEMMA AcceptedAlone ==
    ASSUME IndInv, OneClient, Alone, NEW r \in Requests, NEW at, NEW effect, NEW next,
           Accepted(r, at, effect, next),
           SavedSigned' = SavedSigned,
           at \notin Searching, next \notin Searching,
           next \notin {"failed.position", "failed.session"},
           NotYet(session.state, venue'), session.state # "failed",
           HandlerKnows(next, req[r].op, position, session.state, venue')
    PROVE  Alone'
<1>1. /\ At(r, at) /\ Goto(r, next)
      /\ UNCHANGED <<position, session, snapshot, worker, crashes>>
  BY DEF Accepted, rows
<1>2. req'[r].pc = next /\ req'[r].op = req[r].op
  BY <1>1, Moved DEF Searching
<1>3. OneSignature'
  <2>1. snapshot # "signed" /\ SavedSigned = {}
    BY <1>1, NoSignature DEF At
  <2>2. QED
    BY <1>1, <2>1 DEF OneSignature
<1>4. RowsAlone'
  BY <1>1 DEF Alone, RowsAlone
<1>5. QED
  BY <1>1, <1>2, <1>3, <1>4, AloneSuffices DEF Alone

\* A rejection, after which the stage says how far the money has come.
LEMMA RejectedAlone ==
    ASSUME IndInv, OneClient, Alone, NEW r \in Requests, NEW at, NEW effects, NEW stage,
           Rejected(r, at, effects, stage), at \notin Searching,
           NotYet(session.state, venue'),
           StageTrue(stage, venue'),
           position \in {"draft", "claiming", "withdrawing"}, session.state \in Submitting
    PROVE  Alone'
<1>1. /\ At(r, at) /\ UNCHANGED <<position, session, snapshot, saves, worker, crashes>>
      /\ req' = [req EXCEPT ![r].pc = "failed.position", ![r].stage = stage]
  BY DEF Rejected, rows
<1>2. req'[r].pc = "failed.position" /\ req'[r].stage = stage
  <2>1. req' = [req EXCEPT ![r] = [req[r] EXCEPT !.pc = "failed.position", !.stage = stage]]
    BY <1>1, Start
  <2>2. req[r] \in Request /\ req \in [Requests -> Request]
    BY Start
  <2>3. req'[r] = [req[r] EXCEPT !.pc = "failed.position", !.stage = stage]
    BY <2>1, <2>2
  <2>4. QED
    BY <2>2, <2>3 DEF Request
<1>3. OneSignature'
  BY <1>1, <1>2, SignatureKept DEF At
<1>4. RowsAlone'
  BY <1>1 DEF Alone, RowsAlone, Submitting
<1>5. HandlerKnows("failed.position", req'[r].op, position, session.state, venue')
  BY DEF HandlerKnows
<1>6. QED
  BY <1>1, <1>2, <1>3, <1>4, <1>5, AloneSuffices DEF Alone

LEMMA CreateAlone ==
    ASSUME IndInv, OneClient, Alone, NEW r \in Requests, CreatePosition(r) \/ CreateSession(r)
    PROVE  Alone'
<1>1. CASE CreatePosition(r)
  <2>1. /\ At(r, "idle") /\ position = NoState /\ position' = "draft"
        /\ Goto(r, "create.session")
        /\ UNCHANGED <<session, snapshot, saves, venue, worker, crashes>>
    BY <1>1 DEF CreatePosition, UpdatePositionState
  <2>2. session.state = NoState
    BY <2>1, Knows, Start DEF RowsTogether, NoState, Machine!NoState, Row, States, Machine!States
  <2>3. req'[r].pc = "create.session" /\ snapshot # "signed" /\ SavedSigned = {}
    BY <2>1, Moved DEF Alone, OneSignature, NoState, Machine!NoState
  <2>4. SavedSigned' = SavedSigned
    BY <2>1 DEF SavedSigned
  <2>5. OneSignature'
    BY <2>1, <2>3, <2>4, OneClient DEF OneSignature, OneClient, At
  <2>6. RowsAlone'
    BY <2>1, <2>2 DEF Alone, RowsAlone, RowsTogether, NoState, Machine!NoState
  <2>7. HandlerKnows("create.session", req'[r].op, position', session'.state, venue')
    BY <2>1, <2>2 DEF HandlerKnows
  <2>8. QED
    BY <2>1, <2>3, <2>5, <2>6, <2>7, AloneSuffices DEF Alone
<1>2. CASE CreateSession(r)
  <2>1. At(r, "create.session") /\ SessionStep(r, "create.session", "awaiting_signature", "idle")
    BY <1>2 DEF CreateSession, SessionStep, Return
  <2>2. position = "draft" /\ session.state = NoState /\ NotYet(session.state, venue)
    BY <2>1, Knows DEF HandlerKnows
  <2>3. /\ RowsTogether(position, "awaiting_signature") /\ NotYet("awaiting_signature", venue)
    BY <2>2 DEF RowsTogether, NotYet, NoState, Machine!NoState
  <2>4. QED
    BY <2>1, <2>3, IdleKnows, SessionStepAlone DEF Searching
<1>3. QED
  BY <1>1, <1>2

\* executeSignedIntent by one client: each write follows the one before it.
LEMMA PrepareFundingAlone ==
    ASSUME IndInv, OneClient, Alone, NEW r \in Requests, PrepareFunding(r)
    PROVE  Alone'
<1>1. /\ At(r, "prepareFunding")
  BY DEF PrepareFunding, Accepted, Rejected
<1>2. /\ position = "draft" /\ session.state = "funding_in_progress" /\ venue.funded = 0
      /\ NotYet(session.state, venue) /\ venue \in Venue
  BY <1>1, Knows DEF HandlerKnows
<1>3. CASE Accepted(r, "prepareFunding", "funded", "executing") /\ UNCHANGED saves
  <2>1. venue' = [venue EXCEPT !.funded = @ + 1] /\ SavedSigned' = SavedSigned
    BY <1>3 DEF Accepted, SavedSigned
  <2>2. NotYet(session.state, venue')
    BY <1>2, <2>1 DEF NotYet, Exited, Venue, NoState, Machine!NoState
  <2>3. HandlerKnows("executing", req[r].op, position, session.state, venue')
    BY <1>2 DEF HandlerKnows
  <2>4. QED
    BY <1>2, <1>3, <2>1, <2>2, <2>3, AcceptedAlone DEF Searching
<1>4. CASE Rejected(r, "prepareFunding", {}, "pre-funding")
  <2>1. venue' = venue
    BY <1>4 DEF Rejected
  <2>2. StageTrue("pre-funding", venue')
    BY <1>2, <2>1 DEF StageTrue, NotYet
  <2>3. QED
    BY <1>2, <1>4, <2>1, <2>2, RejectedAlone DEF Searching, Submitting
<1>5. QED
  BY <1>3, <1>4 DEF PrepareFunding

LEMMA AddLiquidityAlone ==
    ASSUME IndInv, OneClient, Alone, NEW r \in Requests, AddLiquidity(r)
    PROVE  Alone'
<1>1. /\ At(r, "addLiquidity")
  BY DEF AddLiquidity, Accepted, Rejected
<1>2. /\ position = "draft" /\ session.state = "executing_on_meteora" /\ venue.added = 0
      /\ NotYet(session.state, venue) /\ venue \in Venue
  BY <1>1, Knows DEF HandlerKnows
<1>3. ASSUME venue' = venue \/ venue' = [venue EXCEPT !["added"] = @ + 1]
      PROVE  NotYet(session.state, venue')
  BY <1>2, <1>3 DEF NotYet, Exited, Venue, NoState, Machine!NoState
<1>4. CASE /\ Accepted(r, "addLiquidity", "added", "x.indexing.position")
           /\ saves' = Append(saves, "null")
  <2>1. venue' = [venue EXCEPT !["added"] = @ + 1]
    BY <1>4 DEF Accepted
  <2>2. SavedSigned' = SavedSigned
    <3>1. saves \in Seq(Save)
      BY Start
    <3>2. /\ DOMAIN saves' = 1 .. Len(saves) + 1 /\ DOMAIN saves = 1 .. Len(saves)
          /\ Len(saves) \in Nat /\ saves'[Len(saves) + 1] = "null"
          /\ \A i \in 1 .. Len(saves) : saves'[i] = saves[i]
      BY <1>4, <3>1
    <3>3. QED
      BY <3>2 DEF SavedSigned
  <2>3. HandlerKnows("x.indexing.position", req[r].op, position, session.state, venue')
    BY <1>2 DEF HandlerKnows
  <2>4. NotYet(session.state, venue')
    BY <1>3, <2>1
  <2>5. Accepted(r, "addLiquidity", "added", "x.indexing.position")
    BY <1>4
  <2>6. QED
    BY <1>2, <2>2, <2>3, <2>4, <2>5, AcceptedAlone DEF Searching
<1>5. CASE Rejected(r, "addLiquidity", {"added"}, "funding-partial")
  <2>1. venue' = venue \/ venue' = [venue EXCEPT !["added"] = @ + 1]
    BY <1>5 DEF Rejected
  <2>2. StageTrue("funding-partial", venue')
    BY DEF StageTrue
  <2>3. QED
    BY <1>2, <1>3, <1>5, <2>1, <2>2, RejectedAlone DEF Searching, Submitting
<1>6. QED
  BY <1>4, <1>5 DEF AddLiquidity

\* registerSnapshot issues the one signature there is.
LEMMA RegisterSnapshotAlone ==
    ASSUME IndInv, OneClient, Alone, NEW r \in Requests, RegisterSnapshot(r)
    PROVE  Alone'
<1>1. /\ At(r, "registerSnapshot") /\ Goto(r, "idle") /\ saves' = Append(saves, "signed")
      /\ UNCHANGED <<position, session, snapshot, venue, worker, crashes>>
  BY DEF RegisterSnapshot, Return, rows
<1>2. position = "indexing" /\ session.state = "indexing" /\ Exited(venue) = 0
  BY <1>1, Knows DEF HandlerKnows
<1>3. req'[r].pc = "idle" /\ snapshot # "signed" /\ SavedSigned = {}
  BY <1>1, Moved, NoSignature DEF At, Searching
<1>4. SavedSigned' = {Len(saves) + 1}
  <2>1. saves \in Seq(Save)
    BY Start
  <2>2. /\ DOMAIN saves' = 1 .. Len(saves) + 1 /\ DOMAIN saves = 1 .. Len(saves)
        /\ Len(saves) \in Nat /\ saves'[Len(saves) + 1] = "signed"
        /\ \A i \in 1 .. Len(saves) : saves'[i] = saves[i]
    BY <1>1, <2>1
  <2>3. QED
    BY <1>3, <2>2 DEF SavedSigned
<1>5. OneSignature'
  BY <1>1, <1>2, <1>3, <1>4 DEF OneSignature, OneClient, At
<1>6. RowsAlone'
  BY <1>1 DEF Alone, RowsAlone
<1>7. QED
  BY <1>1, <1>3, <1>5, <1>6, IdleKnows, AloneSuffices DEF Alone

LEMMA ExecuteAlone ==
    ASSUME IndInv, OneClient, Alone, NEW r \in Requests, Execute(r)
    PROVE  Alone'
<1>1. CASE ReadSession(r)
  <2>1. /\ At(r, "idle") /\ Goto(r, "funding")
        /\ UNCHANGED <<position, session, snapshot, saves, venue, worker, crashes>>
    BY <1>1 DEF ReadSession, rows
  <2>2. session.state = "awaiting_signature"
    BY <1>1, Start DEF ReadSession, MayExecute, Machine!CanTransition, Machine!Transitions,
                       Machine!States
  <2>3. position = "draft"
    BY <2>1, <2>2, Knows DEF RowsTogether
  <2>4. req'[r].pc = "funding" /\ snapshot # "signed" /\ SavedSigned = {}
    BY <2>1, <2>3, Moved DEF Alone, OneSignature
  <2>5. SavedSigned' = SavedSigned
    BY <2>1 DEF SavedSigned
  <2>6. OneSignature'
    BY <2>1, <2>4, <2>5 DEF OneSignature, OneClient, At
  <2>7. RowsAlone'
    BY <2>1 DEF Alone, RowsAlone
  <2>8. HandlerKnows("funding", req'[r].op, position', session'.state, venue')
    BY <2>1, <2>2, <2>3 DEF HandlerKnows
  <2>9. QED
    BY <2>1, <2>4, <2>6, <2>7, <2>8, AloneSuffices DEF Alone
<1>2. CASE WriteFunding(r)
  <2>1. SessionStep(r, "funding", "funding_in_progress", "prepareFunding") /\ At(r, "funding")
    BY <1>2 DEF WriteFunding, SessionStep
  <2>2. position = "draft" /\ session.state = "awaiting_signature" /\ NotYet(session.state, venue)
    BY <2>1, Knows DEF HandlerKnows
  <2>3. /\ RowsTogether(position, "funding_in_progress") /\ NotYet("funding_in_progress", venue)
        /\ HandlerKnows("prepareFunding", req[r].op, position, "funding_in_progress", venue)
    BY <2>2 DEF RowsTogether, NotYet, HandlerKnows, NoState, Machine!NoState
  <2>4. QED
    BY <2>1, <2>3, SessionStepAlone DEF Searching
<1>3. CASE PrepareFunding(r)
  BY <1>3, PrepareFundingAlone
<1>4. CASE WriteExecuting(r)
  <2>1. SessionStep(r, "executing", "executing_on_meteora", "addLiquidity") /\ At(r, "executing")
    BY <1>4 DEF WriteExecuting, SessionStep
  <2>2. position = "draft" /\ session.state = "funding_in_progress" /\ NotYet(session.state, venue)
    BY <2>1, Knows DEF HandlerKnows
  <2>3. /\ RowsTogether(position, "executing_on_meteora") /\ NotYet("executing_on_meteora", venue)
        /\ HandlerKnows("addLiquidity", req[r].op, position, "executing_on_meteora", venue)
    BY <2>2 DEF RowsTogether, NotYet, HandlerKnows, NoState, Machine!NoState
  <2>4. QED
    BY <2>1, <2>3, SessionStepAlone DEF Searching
<1>5. CASE AddLiquidity(r)
  BY <1>5, AddLiquidityAlone
<1>6. CASE PositionStep(r, "x.indexing.position", "indexing", "x.indexing.session")
  <2>1. session.state = "executing_on_meteora"
    BY <1>6, Knows DEF HandlerKnows, PositionStep
  <2>2. /\ RowsTogether("indexing", session.state)
        /\ HandlerKnows("x.indexing.session", req[r].op, "indexing", session.state, venue)
    BY <2>1 DEF RowsTogether, HandlerKnows, NoState, Machine!NoState
  <2>3. QED
    BY <1>6, <2>2, PositionStepAlone DEF Searching
<1>7. CASE SessionStep(r, "x.indexing.session", "indexing", "registerSnapshot")
  <2>1. /\ position = "indexing" /\ session.state = "executing_on_meteora"
        /\ NotYet(session.state, venue)
    BY <1>7, Knows DEF HandlerKnows, SessionStep
  <2>2. /\ RowsTogether(position, "indexing") /\ NotYet("indexing", venue)
        /\ HandlerKnows("registerSnapshot", req[r].op, position, "indexing", venue)
    BY <2>1 DEF RowsTogether, NotYet, HandlerKnows, NoState, Machine!NoState
  <2>3. QED
    BY <1>7, <2>2, SessionStepAlone DEF Searching
<1>8. CASE RegisterSnapshot(r)
  BY <1>8, RegisterSnapshotAlone
<1>9. QED
  BY <1>1, <1>2, <1>3, <1>4, <1>5, <1>6, <1>7, <1>8 DEF Execute

\* A claim or a close starts when both rows are active, so nothing has been
\* exited; it is over when the venue has answered.
LEMMA StartExitAlone ==
    ASSUME IndInv, OneClient, Alone, NEW r \in Requests,
           GetActivePosition(r) \/ GetLatestActiveSession(r)
    PROVE  Alone'
<1>1. CASE GetActivePosition(r)
  <2>1. PICK op \in Exits : req' = [req EXCEPT ![r].pc = "exit.readSession", ![r].op = op]
    BY <1>1 DEF GetActivePosition
  <2>2. /\ At(r, "idle") /\ position = "active"
        /\ UNCHANGED <<position, session, snapshot, saves, venue, worker, crashes>>
    BY <1>1 DEF GetActivePosition, rows
  <2>3. req'[r].pc = "exit.readSession"
    <3>1. req' = [req EXCEPT ![r] = [req[r] EXCEPT !.pc = "exit.readSession", !.op = op]]
      BY <2>1, Start
    <3>2. req[r] \in Request /\ req \in [Requests -> Request]
      BY Start
    <3>3. req'[r] = [req[r] EXCEPT !.pc = "exit.readSession", !.op = op]
      BY <3>1, <3>2
    <3>4. QED
      BY <3>2, <3>3 DEF Request
  <2>4. snapshot # "signed" /\ SavedSigned = {} /\ SavedSigned' = SavedSigned
    BY <2>2 DEF Alone, OneSignature, SavedSigned
  <2>5. OneSignature'
    BY <2>2, <2>3, <2>4 DEF OneSignature, OneClient, At
  <2>6. RowsAlone'
    BY <2>2 DEF Alone, RowsAlone
  <2>7. HandlerKnows("exit.readSession", req'[r].op, position', session'.state, venue')
    BY <2>2 DEF HandlerKnows
  <2>8. QED
    BY <2>2, <2>3, <2>5, <2>6, <2>7, AloneSuffices DEF Alone
<1>2. CASE GetLatestActiveSession(r)
  <2>1. /\ At(r, "exit.readSession")
        /\ UNCHANGED <<rows, snapshot, saves, venue, worker, crashes>>
    BY <1>2 DEF GetLatestActiveSession
  <2>2. position = "active"
    BY <2>1, Knows DEF HandlerKnows
  <2>3. CASE session.state = "active"
    <3>1. Goto(r, "exit.position")
      BY <1>2, <2>3 DEF GetLatestActiveSession, SessionActive
    <3>2. HandlerKnows("exit.position", req[r].op, position, session.state, venue)
      BY <2>2, <2>3 DEF HandlerKnows
    <3>3. QED
      BY <2>1, <3>1, <3>2, GotoAlone DEF Searching, At
  <2>4. CASE session.state # "active"
    <3>1. Goto(r, "idle")
      BY <1>2, <2>4 DEF GetLatestActiveSession, SessionActive, Return
    <3>2. QED
      BY <2>1, <3>1, IdleKnows, GotoAlone DEF Searching
  <2>5. QED
    BY <2>3, <2>4
<1>3. QED
  BY <1>1, <1>2

\* The adapter calls of a claim or a close.
LEMMA CallExitAlone ==
    ASSUME IndInv, OneClient, Alone, NEW r \in Requests, PrepareExit(r) \/ VenueExit(r)
    PROVE  Alone'
<1>1. At(r, "prepareExit") \/ At(r, "exit")
  BY DEF PrepareExit, VenueExit, Accepted, Rejected
<1>2. req[r].op \in Exits
  BY <1>1, Start DEF Request, Exiting, At
<1>3. /\ position = ExitState[req[r].op] /\ session.state = ExitState[req[r].op]
      /\ Exited(venue) = 0 /\ NotYet(session.state, venue) /\ venue \in Venue
  BY <1>1, Knows DEF HandlerKnows
<1>4. \/ req[r].op = "claim" /\ position = "claiming" /\ session.state = "claiming"
      \/ req[r].op = "close" /\ position = "withdrawing" /\ session.state = "withdrawing"
  BY <1>2, <1>3 DEF Exits, ExitState
<1>5. session.state \in Submitting /\ position \in {"draft", "claiming", "withdrawing"}
  BY <1>4 DEF Submitting
<1>6. ASSUME venue' = [venue EXCEPT !["claimed"] = @ + 1]
             \/ venue' = [venue EXCEPT !["closed"] = @ + 1] \/ venue' = venue
      PROVE  NotYet(session.state, venue')
  BY <1>3, <1>4, <1>6 DEF NotYet, Exited, Venue, NoState, Machine!NoState
<1>7. CASE PrepareExit(r)
  <2>1. CASE Rejected(r, "prepareExit", {}, "venue-submission")
    <3>1. venue' = venue
      BY <2>1 DEF Rejected
    <3>2. StageTrue("venue-submission", venue')
      BY <1>3, <3>1 DEF StageTrue
    <3>3. QED
      BY <1>5, <1>6, <2>1, <3>1, <3>2, RejectedAlone DEF Searching
  <2>2. CASE /\ At(r, "prepareExit") /\ Goto(r, "exit")
             /\ UNCHANGED <<rows, snapshot, saves, venue, worker, crashes>>
    <3>1. HandlerKnows("exit", req[r].op, position, session.state, venue)
      BY <1>3 DEF HandlerKnows
    <3>2. QED
      BY <2>2, <3>1, GotoAlone DEF Searching, At
  <2>3. QED
    BY <1>7, <2>1, <2>2 DEF PrepareExit
<1>8. CASE VenueExit(r)
  <2> DEFINE effect == ExitEffect[req[r].op]
             next == IF req[r].op = "claim" THEN "indexing.position" ELSE "closing.position"
  <2>1. effect \in {"claimed", "closed"}
    BY <1>2 DEF ExitEffect, Exits
  <2>2. CASE Accepted(r, "exit", effect, next) /\ UNCHANGED saves
    <3>1. venue' = [venue EXCEPT ![effect] = @ + 1] /\ SavedSigned' = SavedSigned
      BY <2>2 DEF Accepted, SavedSigned
    <3>2. NotYet(session.state, venue')
      BY <1>6, <2>1, <3>1
    <3>3. HandlerKnows(next, req[r].op, position, session.state, venue')
      BY <1>4 DEF HandlerKnows
    <3>4. next \notin Searching /\ next \notin {"failed.position", "failed.session"}
      BY DEF Searching
    <3>5. session.state # "failed" /\ "exit" \notin Searching
      BY <1>4 DEF Searching
    <3> HIDE DEF next, effect
    <3>6. QED
      BY <2>2, <3>1, <3>2, <3>3, <3>4, <3>5, AcceptedAlone
  <2>3. CASE Rejected(r, "exit", {effect}, "venue-confirmation")
    <3>1. venue' = venue \/ venue' = [venue EXCEPT ![effect] = @ + 1]
      BY <2>3 DEF Rejected
    <3>2. NotYet(session.state, venue')
      BY <1>6, <2>1, <3>1
    <3>3. StageTrue("venue-confirmation", venue') /\ "exit" \notin Searching
      BY DEF StageTrue, Searching
    <3> HIDE DEF effect
    <3>4. QED
      BY <1>5, <2>3, <3>2, <3>3, RejectedAlone
  <2>4. QED
    BY <1>8, <2>2, <2>3 DEF VenueExit
<1>9. QED
  BY <1>7, <1>8

\* The eight writes of a claim or a close.
LEMMA ExitPositionAlone ==
    ASSUME IndInv, OneClient, Alone, NEW r \in Requests,
           \/ PositionStep(r, "exit.position", ExitState[req[r].op], "exit.session")
           \/ PositionStep(r, "closing.position", "closing", "closing.session")
           \/ PositionStep(r, "indexing.position", "indexing", "indexing.session")
           \/ PositionStep(r, "completed.position", "completed", "completed.session")
    PROVE  Alone'
<1>1. CASE PositionStep(r, "exit.position", ExitState[req[r].op], "exit.session")
  <2>1. session.state = "active" /\ req[r].op \in Exits
    BY <1>1, Knows, Start DEF HandlerKnows, PositionStep, Request, Exiting, At
  <2>2. ExitState[req[r].op] \in {"claiming", "withdrawing"}
    BY <2>1 DEF Exits, ExitState
  <2>3. /\ RowsTogether(ExitState[req[r].op], session.state)
        /\ HandlerKnows("exit.session", req[r].op, ExitState[req[r].op], session.state, venue)
    BY <2>1, <2>2 DEF RowsTogether, HandlerKnows, NoState, Machine!NoState
  <2>4. QED
    BY <1>1, <2>3, PositionStepAlone DEF Searching
<1>2. CASE PositionStep(r, "closing.position", "closing", "closing.session")
  <2>1. session.state = "withdrawing"
    BY <1>2, Knows DEF HandlerKnows, PositionStep
  <2>2. /\ RowsTogether("closing", session.state)
        /\ HandlerKnows("closing.session", req[r].op, "closing", session.state, venue)
    BY <2>1 DEF RowsTogether, HandlerKnows, NoState, Machine!NoState
  <2>3. QED
    BY <1>2, <2>2, PositionStepAlone DEF Searching
<1>3. CASE PositionStep(r, "indexing.position", "indexing", "indexing.session")
  <2>1. session.state \in {"claiming", "closing"}
    BY <1>3, Knows DEF HandlerKnows, PositionStep
  <2>2. /\ RowsTogether("indexing", session.state)
        /\ HandlerKnows("indexing.session", req[r].op, "indexing", session.state, venue)
    BY <2>1 DEF RowsTogether, HandlerKnows, NoState, Machine!NoState
  <2>3. QED
    BY <1>3, <2>2, PositionStepAlone DEF Searching
<1>4. CASE PositionStep(r, "completed.position", "completed", "completed.session")
  <2>1. session.state = "indexing"
    BY <1>4, Knows DEF HandlerKnows, PositionStep
  <2>2. /\ RowsTogether("completed", session.state)
        /\ HandlerKnows("completed.session", req[r].op, "completed", session.state, venue)
    BY <2>1 DEF RowsTogether, HandlerKnows, NoState, Machine!NoState
  <2>3. QED
    BY <1>4, <2>2, PositionStepAlone DEF Searching
<1>5. QED
  BY <1>1, <1>2, <1>3, <1>4

LEMMA ExitSessionAlone ==
    ASSUME IndInv, OneClient, Alone, NEW r \in Requests,
           \/ SessionStep(r, "exit.session", ExitState[req[r].op], "prepareExit")
           \/ SessionStep(r, "closing.session", "closing", "indexing.position")
           \/ SessionStep(r, "indexing.session", "indexing", "completed.position")
           \/ SessionStep(r, "completed.session", "completed", "idle")
    PROVE  Alone'
<1>1. CASE SessionStep(r, "exit.session", ExitState[req[r].op], "prepareExit")
  <2> DEFINE state == ExitState[req[r].op]
  <2>1. /\ position = state /\ session.state = "active" /\ req[r].op \in Exits
        /\ NotYet(session.state, venue)
    BY <1>1, Knows, Start DEF HandlerKnows, SessionStep, Request, Exiting, At
  <2>2. state \in {"claiming", "withdrawing"}
    BY <2>1 DEF Exits, ExitState
  <2>3. HandlerKnows("prepareExit", req[r].op, position, state, venue)
    BY <2>1 DEF HandlerKnows, NotYet
  <2> HIDE DEF state
  <2>4. RowsTogether(position, state) /\ NotYet(state, venue) /\ state # "failed"
    BY <2>1, <2>2 DEF RowsTogether, NotYet, NoState, Machine!NoState
  <2>5. SessionStep(r, "exit.session", state, "prepareExit")
    BY <1>1 DEF state
  <2>6. QED
    BY <2>3, <2>4, <2>5, SessionStepAlone DEF Searching
<1>2. CASE SessionStep(r, "closing.session", "closing", "indexing.position")
  <2>1. position = "closing" /\ NotYet(session.state, venue)
    BY <1>2, Knows DEF HandlerKnows, SessionStep
  <2>2. /\ RowsTogether(position, "closing") /\ NotYet("closing", venue)
        /\ HandlerKnows("indexing.position", req[r].op, position, "closing", venue)
    BY <2>1 DEF RowsTogether, NotYet, HandlerKnows, NoState, Machine!NoState
  <2>3. QED
    BY <1>2, <2>2, SessionStepAlone DEF Searching
<1>3. CASE SessionStep(r, "indexing.session", "indexing", "completed.position")
  <2>1. position = "indexing" /\ NotYet(session.state, venue)
    BY <1>3, Knows DEF HandlerKnows, SessionStep
  <2>2. /\ RowsTogether(position, "indexing") /\ NotYet("indexing", venue)
        /\ HandlerKnows("completed.position", req[r].op, position, "indexing", venue)
    BY <2>1 DEF RowsTogether, NotYet, HandlerKnows, NoState, Machine!NoState
  <2>3. QED
    BY <1>3, <2>2, SessionStepAlone DEF Searching
<1>4. CASE SessionStep(r, "completed.session", "completed", "idle")
  <2>1. position = "completed" /\ NotYet(session.state, venue)
    BY <1>4, Knows DEF HandlerKnows, SessionStep
  <2>2. RowsTogether(position, "completed") /\ NotYet("completed", venue)
    BY <2>1 DEF RowsTogether, NotYet, NoState, Machine!NoState
  <2>3. QED
    BY <1>4, <2>2, IdleKnows, SessionStepAlone DEF Searching
<1>5. QED
  BY <1>1, <1>2, <1>3, <1>4

\* recordFailure: the stage was chosen where the call was rejected, and the
\* venue has not moved since.
LEMMA RecordFailureAlone ==
    ASSUME IndInv, OneClient, Alone, NEW r \in Requests, RecordFailure(r)
    PROVE  Alone'
<1>1. CASE PositionStep(r, "failed.position", "failed", "failed.session")
  <2>1. session.state \in Submitting /\ StageTrue(req[r].stage, venue)
        /\ RowsTogether(position, session.state)
        /\ position \in {"draft", "claiming", "withdrawing"}
    BY <1>1, Knows DEF HandlerKnows, PositionStep
  <2>2. RowsTogether("failed", session.state)
    BY <2>1 DEF RowsTogether, Submitting, NoState, Machine!NoState
  <2>3. HandlerKnows("failed.session", req[r].op, "failed", session.state, venue)
    BY <2>1 DEF HandlerKnows
  <2>4. QED
    BY <1>1, <2>1, <2>2, <2>3, PositionStepAlone DEF Searching
<1>2. CASE FailSession(r)
  <2>1. /\ At(r, "failed.session") /\ UpdateExecutionSession("failed", req[r].stage)
        /\ Goto(r, "idle") /\ UNCHANGED <<position, snapshot, saves, venue, worker, crashes>>
    BY <1>2 DEF FailSession
  <2>2. position = "failed" /\ StageTrue(req[r].stage, venue) /\ NotYet(session.state, venue)
    BY <2>1, Knows DEF HandlerKnows
  <2>3. RowsTogether(position, "failed") /\ NotYet("failed", venue)
    BY <2>2 DEF RowsTogether, NotYet, NoState, Machine!NoState
  <2>4. QED
    BY <2>1, <2>2, <2>3, IdleKnows, SessionWriteAlone DEF Searching
<1>3. QED
  BY <1>1, <1>2 DEF RecordFailure

\* getPosition: the entry that it clears is the only signature there is, so
\* the position that it activates has not been exited.
LEMMA GetAlone ==
    ASSUME IndInv, OneClient, Alone, NEW r \in Requests, Get(r)
    PROVE  Alone'
<1>1. CASE GetRead(r)
  <2>1. /\ At(r, "idle")
        /\ UNCHANGED <<position, session, snapshot, saves, venue, worker, crashes>>
    BY <1>1 DEF GetRead, rows
  <2>2. req'[r].pc = "get.session"
    <3> DEFINE seen == position = "active"
    <3>1. req' = [req EXCEPT ![r] = [req[r] EXCEPT !.pc = "get.session", !.wasActive = seen]]
      BY <1>1, Start DEF GetRead
    <3> HIDE DEF seen
    <3>2. req[r] \in Request /\ req \in [Requests -> Request]
      BY Start
    <3>3. req'[r] = [req[r] EXCEPT !.pc = "get.session", !.wasActive = seen]
      BY <3>1, <3>2
    <3>4. QED
      BY <3>2, <3>3 DEF Request
  <2>3. OneSignature'
    BY <2>1, <2>2, SignatureKept DEF rows, Searching
  <2>4. RowsAlone'
    BY <2>1 DEF Alone, RowsAlone
  <2>5. QED
    BY <2>1, <2>2, <2>3, <2>4, IdleKnows, AloneSuffices DEF Alone
<1>2. CASE GetSession(r)
  <2>1. UNCHANGED <<rows, snapshot, saves, venue, worker, crashes>>
    BY <1>2 DEF GetSession
  <2>2. CASE session.state = "indexing"
    <3>1. Goto(r, "get.load")
      BY <1>2, <2>2 DEF GetSession
    <3>2. HandlerKnows("get.load", req[r].op, position, session.state, venue)
      BY <2>2 DEF HandlerKnows
    <3>3. QED
      BY <2>1, <3>1, <3>2, GotoAlone DEF Searching
  <2>3. CASE session.state # "indexing"
    <3>1. Goto(r, "idle")
      BY <1>2, <2>3 DEF GetSession, Return
    <3>2. QED
      BY <2>1, <3>1, IdleKnows, GotoAlone DEF Searching
  <2>4. QED
    BY <2>2, <2>3
<1>3. CASE GetLoad(r)
  <2>1. UNCHANGED <<position, session, snapshot, saves, venue, worker, crashes>>
    BY <1>3 DEF GetLoad, rows
  <2>2. CASE HasSignature
    <3>1. Goto(r, "get.clear") /\ snapshot = "signed"
      BY <1>3, <2>2 DEF GetLoad, HasSignature
    <3>2. /\ SavedSigned = {} /\ position = "indexing" /\ session.state = "indexing"
          /\ Exited(venue) = 0
      BY <3>1 DEF Alone, OneSignature
    <3>3. req'[r].pc = "get.clear" /\ SavedSigned' = SavedSigned
      BY <2>1, <3>1, Moved DEF SavedSigned
    <3>4. OneSignature'
      BY <2>1, <3>2, <3>3 DEF OneSignature, OneClient
    <3>5. RowsAlone'
      BY <2>1 DEF Alone, RowsAlone
    <3>6. HandlerKnows("get.clear", req'[r].op, position', session'.state, venue')
      BY <2>1, <3>2 DEF HandlerKnows
    <3>7. QED
      BY <2>1, <3>3, <3>4, <3>5, <3>6, AloneSuffices DEF Alone
  <2>3. CASE ~HasSignature
    <3>1. Goto(r, "idle")
      BY <1>3, <2>3 DEF GetLoad, Return
    <3>2. UNCHANGED <<rows, snapshot, saves, venue, worker, crashes>>
      BY <1>3 DEF GetLoad
    <3>3. QED
      BY <3>1, <3>2, IdleKnows, GotoAlone DEF Searching
  <2>4. QED
    BY <2>2, <2>3
<1>4. CASE GetClear(r)
  <2>1. /\ At(r, "get.clear") /\ snapshot' = "absent"
        /\ UNCHANGED <<position, session, saves, venue, worker, crashes>>
    BY <1>4 DEF GetClear, rows
  <2>2. PICK next \in {"idle", "get.position"} : Goto(r, next)
    BY <1>4 DEF GetClear, Return
  <2>3. position = "indexing" /\ session.state = "indexing" /\ Exited(venue) = 0
    BY <2>1, Knows DEF HandlerKnows
  <2>4. req'[r].pc = next /\ SavedSigned = {} /\ SavedSigned' = SavedSigned
    BY <2>1, <2>2, Moved DEF Alone, OneSignature, SavedSigned
  <2>5. OneSignature'
    BY <2>1, <2>4 DEF OneSignature, OneClient, At
  <2>6. RowsAlone'
    BY <2>1 DEF Alone, RowsAlone
  <2>7. HandlerKnows(next, req'[r].op, position', session'.state, venue')
    BY <2>1, <2>3 DEF HandlerKnows
  <2>8. QED
    BY <2>1, <2>4, <2>5, <2>6, <2>7, AloneSuffices DEF Alone
<1>5. CASE PositionStep(r, "get.position", "active", "get.activeSession")
  <2>1. session.state = "indexing" /\ Exited(venue) = 0
    BY <1>5, Knows DEF HandlerKnows, PositionStep
  <2>2. /\ RowsTogether("active", session.state)
        /\ HandlerKnows("get.activeSession", req[r].op, "active", session.state, venue)
    BY <2>1 DEF RowsTogether, HandlerKnows, NoState, Machine!NoState
  <2>3. QED
    BY <1>5, <2>2, PositionStepAlone DEF Searching
<1>6. CASE SessionStep(r, "get.activeSession", "active", "idle")
  <2>1. position = "active" /\ Exited(venue) = 0 /\ NotYet(session.state, venue)
    BY <1>6, Knows DEF HandlerKnows, SessionStep
  <2>2. RowsTogether(position, "active") /\ NotYet("active", venue)
    BY <2>1 DEF RowsTogether, NotYet, NoState, Machine!NoState
  <2>3. QED
    BY <1>6, <2>2, IdleKnows, SessionStepAlone DEF Searching
<1>7. QED
  BY <1>1, <1>2, <1>3, <1>4, <1>5, <1>6 DEF Get

\* A save that lands brings the signature or drops it: it makes no second one.
LEMMA SaveLandsAlone ==
    ASSUME IndInv, OneClient, Alone, SaveLands
    PROVE  Alone'
<1>1. PICK i \in DOMAIN saves : snapshot' = saves[i] /\ saves' = RemoveAt(saves, i)
  BY DEF SaveLands
<1>2. UNCHANGED <<position, session, venue, req, worker, crashes>>
  BY DEF SaveLands, rows
<1>3. saves \in Seq(Save) /\ DOMAIN saves = 1 .. Len(saves) /\ Len(saves) \in Nat
  BY Start
<1>4. /\ DOMAIN saves' = 1 .. Len(saves) - 1
      /\ \A j \in 1 .. Len(saves) - 1 : saves'[j] = saves[IF j < i THEN j ELSE j + 1]
  BY <1>1, <1>3, RemovedAt
<1>5. ASSUME NEW j \in SavedSigned'
      PROVE  /\ j \in 1 .. Len(saves) - 1
             /\ (IF j < i THEN j ELSE j + 1) \in SavedSigned \ {i}
  <2>1. j \in 1 .. Len(saves) - 1 /\ saves'[j] = "signed"
    BY <1>4 DEF SavedSigned
  <2>2. (IF j < i THEN j ELSE j + 1) \in 1 .. Len(saves) \ {i}
    BY <1>3, <2>1
  <2>3. QED
    BY <1>3, <1>4, <2>1, <2>2 DEF SavedSigned
<1>6. snapshot' = "signed" => i \in SavedSigned
  BY <1>1 DEF SavedSigned
<1>7. OneSignature
  BY DEF Alone
<1>8. \A j, k \in SavedSigned' : j = k
  <2> SUFFICES ASSUME NEW j \in SavedSigned', NEW k \in SavedSigned' PROVE j = k
    OBVIOUS
  <2>1. (IF j < i THEN j ELSE j + 1) = (IF k < i THEN k ELSE k + 1)
    BY <1>5, <1>7 DEF OneSignature
  <2>2. j \in Int /\ k \in Int /\ i \in Int
    BY <1>3, <1>5
  <2>3. QED
    BY <2>1, <2>2
<1>9. SavedSigned' # {} => SavedSigned # {} /\ snapshot' # "signed"
  BY <1>5, <1>6, <1>7 DEF OneSignature
<1>10. snapshot' = "signed" => SavedSigned # {}
  BY <1>6
<1>11. OneSignature'
  BY <1>2, <1>7, <1>8, <1>9, <1>10 DEF OneSignature, At
<1>12. QED
  BY <1>2, <1>11 DEF Alone, RowsAlone, RequestAlone

\* An error or a restart leaves the rows as they are.
LEMMA FailuresAlone ==
    ASSUME IndInv, OneClient, Alone, (\E r \in Requests : Throws(r)) \/ Crash
    PROVE  Alone'
<1>1. ASSUME NEW r \in Requests, Throws(r) PROVE Alone'
  BY <1>1, GotoAlone, IdleKnows DEF Throws, Return, Searching
<1>2. CASE Crash
  <2>1. /\ req' = [r \in Requests |-> Idle] /\ saves' = <<>> /\ worker' = "idle"
        /\ UNCHANGED <<position, session, snapshot, venue>>
    BY <1>2 DEF Crash, rows
  <2>2. SavedSigned' = {}
    BY <2>1 DEF SavedSigned
  <2>3. \A r \in Requests : req'[r].pc = "idle"
    BY <2>1 DEF Idle
  <2>4. OneSignature'
    BY <2>1, <2>2, <2>3 DEF Alone, OneSignature, At
  <2>5. \A r \in Requests : RequestAlone(r)'
    BY <2>3, IdleKnows DEF RequestAlone
  <2>6. QED
    BY <2>1, <2>4, <2>5 DEF Alone, RowsAlone
<1>3. QED
  BY <1>1, <1>2

\* The worker is off, so it never starts.
LEMMA WorkerOff ==
    ASSUME OneClient, Alone, Worker
    PROVE  FALSE
  BY DEF Worker, WorkerScan, WorkerLoad, WorkerClear, WorkerPosition, WorkerSession,
         WorkerThrows, OneClient, Alone

LEMMA ExitAlone ==
    ASSUME IndInv, OneClient, Alone, NEW r \in Requests, Exit(r)
    PROVE  Alone'
  BY StartExitAlone, CallExitAlone, ExitPositionAlone, ExitSessionAlone DEF Exit

LEMMA InitAlone == Init => Alone
<1> SUFFICES ASSUME Init PROVE Alone
  OBVIOUS
<1>1. /\ position = NoState /\ session.state = NoState /\ worker = "idle"
      /\ venue.funded = 0 /\ venue.added = 0 /\ Exited(venue) = 0
      /\ saves = <<>> /\ snapshot = "absent"
      /\ \A r \in Requests : req[r].pc = "idle"
  BY DEF Init, Idle, Exited
<1>2. SavedSigned = {}
  BY <1>1 DEF SavedSigned
<1>3. OneSignature
  BY <1>1, <1>2 DEF OneSignature, At
<1>4. RowsAlone
  BY <1>1 DEF RowsAlone, RowsTogether, NotYet, NoState, Machine!NoState
<1>5. \A r \in Requests : RequestAlone(r)
  BY <1>1, IdleKnows DEF RequestAlone
<1>6. QED
  BY <1>1, <1>3, <1>4, <1>5 DEF Alone

LEMMA StepAlone ==
    ASSUME OneClient
    PROVE  IndInv /\ Alone /\ [Next]_vars => Alone'
<1> SUFFICES ASSUME IndInv, Alone, [Next]_vars PROVE Alone'
  OBVIOUS
<1>1. ASSUME NEW r \in Requests, Handler(r) PROVE Alone'
  BY <1>1, CreateAlone, ExecuteAlone, ExitAlone, RecordFailureAlone, GetAlone DEF Handler
<1>2. ASSUME NEW r \in Requests, Throws(r) PROVE Alone'
  BY <1>2, FailuresAlone
<1>3. CASE Worker
  BY <1>3, WorkerOff
<1>4. CASE SaveLands
  BY <1>4, SaveLandsAlone
<1>5. CASE Crash
  BY <1>5, FailuresAlone
<1>6. CASE UNCHANGED vars
  BY <1>6 DEF vars, rows, Alone, RowsAlone, RequestAlone, OneSignature, SavedSigned, At
<1>7. QED
  BY <1>1, <1>2, <1>3, <1>4, <1>5, <1>6 DEF Next

\* Every write of the session by one client is a move of the table.
LEMMA SessionMoves ==
    ASSUME IndInv, OneClient, Alone, [Next]_vars
    PROVE  [Machine!Next]_(session.state)
<1>1. ASSUME NEW r \in Requests, NEW at, NEW state, NEW next,
             SessionStep(r, at, state, next)
      PROVE  /\ session'.state = state
             /\ HandlerKnows(at, req[r].op, position, session.state, venue)
             /\ req[r].pc \in Exiting => req[r].op \in Exits
             /\ At(r, at)
  BY <1>1, Knows, Start DEF SessionStep, UpdateExecutionSession, Request
<1>2. ASSUME NEW s \in States, Machine!CanTransition(session.state, s), session'.state = s
      PROVE  Machine!Next
  BY <1>2 DEF Machine!Next, Machine!Advance, States
<1>3. ASSUME NEW r \in Requests, CreatePosition(r) \/ CreateSession(r)
      PROVE  [Machine!Next]_(session.state)
  <2>1. CASE CreatePosition(r)
    BY <2>1 DEF CreatePosition
  <2>2. CASE CreateSession(r)
    <3>1. session.state = NoState /\ session'.state = "awaiting_signature"
      BY <2>2, Knows DEF CreateSession, UpdateExecutionSession, HandlerKnows
    <3>2. QED
      BY <3>1 DEF Machine!Next, Machine!Create, NoState
  <2>3. QED
    BY <1>3, <2>1, <2>2
<1>4. ASSUME NEW r \in Requests, Execute(r)
      PROVE  [Machine!Next]_(session.state)
  <2>1. CASE WriteFunding(r)
    <3>1. session.state = "awaiting_signature" /\ session'.state = "funding_in_progress"
      BY <1>1, <2>1 DEF WriteFunding, HandlerKnows
    <3>2. QED
      BY <1>2, <3>1 DEF Machine!CanTransition, Machine!Transitions, Machine!States, States
  <2>2. CASE WriteExecuting(r)
    <3>1. session.state = "funding_in_progress" /\ session'.state = "executing_on_meteora"
      BY <1>1, <2>2 DEF WriteExecuting, HandlerKnows
    <3>2. QED
      BY <1>2, <3>1 DEF Machine!CanTransition, Machine!Transitions, Machine!States, States
  <2>3. CASE SessionStep(r, "x.indexing.session", "indexing", "registerSnapshot")
    <3>1. session.state = "executing_on_meteora" /\ session'.state = "indexing"
      BY <1>1, <2>3 DEF HandlerKnows
    <3>2. QED
      BY <1>2, <3>1 DEF Machine!CanTransition, Machine!Transitions, Machine!States, States
  <2>4. CASE ReadSession(r) \/ RegisterSnapshot(r)
    BY <2>4 DEF ReadSession, RegisterSnapshot, rows
  <2>5. CASE PrepareFunding(r) \/ AddLiquidity(r)
    BY <2>5 DEF PrepareFunding, AddLiquidity, Accepted, Rejected, rows
  <2>6. CASE PositionStep(r, "x.indexing.position", "indexing", "x.indexing.session")
    BY <2>6 DEF PositionStep
  <2>7. QED
    BY <1>4, <2>1, <2>2, <2>3, <2>4, <2>5, <2>6 DEF Execute
<1>5. ASSUME NEW r \in Requests, Exit(r)
      PROVE  [Machine!Next]_(session.state)
  <2>1. CASE SessionStep(r, "exit.session", ExitState[req[r].op], "prepareExit")
    <3>1. /\ session.state = "active" /\ session'.state = ExitState[req[r].op]
          /\ req[r].op \in Exits
      BY <1>1, <2>1 DEF HandlerKnows, Exiting, At
    <3>2. session'.state \in {"claiming", "withdrawing"}
      BY <3>1 DEF ExitState, Exits
    <3>3. QED
      BY <1>2, <3>1, <3>2 DEF Machine!CanTransition, Machine!Transitions, Machine!States, States
  <2>2. CASE SessionStep(r, "closing.session", "closing", "indexing.position")
    <3>1. session.state = "withdrawing" /\ session'.state = "closing"
      BY <1>1, <2>2 DEF HandlerKnows
    <3>2. QED
      BY <1>2, <3>1 DEF Machine!CanTransition, Machine!Transitions, Machine!States, States
  <2>3. CASE SessionStep(r, "indexing.session", "indexing", "completed.position")
    <3>1. session.state \in {"claiming", "closing"} /\ session'.state = "indexing"
      BY <1>1, <2>3 DEF HandlerKnows
    <3>2. QED
      BY <1>2, <3>1 DEF Machine!CanTransition, Machine!Transitions, Machine!States, States
  <2>4. CASE SessionStep(r, "completed.session", "completed", "idle")
    <3>1. session.state = "indexing" /\ session'.state = "completed"
      BY <1>1, <2>4 DEF HandlerKnows
    <3>2. QED
      BY <1>2, <3>1 DEF Machine!CanTransition, Machine!Transitions, Machine!States, States
  <2>5. CASE GetActivePosition(r) \/ GetLatestActiveSession(r)
    BY <2>5 DEF GetActivePosition, GetLatestActiveSession, rows
  <2>6. CASE PrepareExit(r) \/ VenueExit(r)
    BY <2>6 DEF PrepareExit, VenueExit, Accepted, Rejected, rows
  <2>7. QED
    BY <1>5, <2>1, <2>2, <2>3, <2>4, <2>5, <2>6 DEF Exit, PositionStep
<1>6. ASSUME NEW r \in Requests, RecordFailure(r)
      PROVE  [Machine!Next]_(session.state)
  <2>1. CASE PositionStep(r, "failed.position", "failed", "failed.session")
    BY <2>1 DEF PositionStep
  <2>2. CASE FailSession(r)
    <3>1. session.state \in Submitting /\ session'.state = "failed"
      BY <2>2, Knows DEF FailSession, UpdateExecutionSession, HandlerKnows
    <3>2. QED
      BY <1>2, <3>1 DEF Submitting, Machine!CanTransition, Machine!Transitions,
                        Machine!States, States
  <2>3. QED
    BY <1>6, <2>1, <2>2 DEF RecordFailure
<1>7. ASSUME NEW r \in Requests, Get(r)
      PROVE  [Machine!Next]_(session.state)
  <2>1. CASE SessionStep(r, "get.activeSession", "active", "idle")
    <3>1. session.state = "indexing" /\ session'.state = "active"
      BY <1>1, <2>1 DEF HandlerKnows
    <3>2. QED
      BY <1>2, <3>1 DEF Machine!CanTransition, Machine!Transitions, Machine!States, States
  <2>2. CASE GetRead(r) \/ GetSession(r) \/ GetLoad(r) \/ GetClear(r)
    BY <2>2 DEF GetRead, GetSession, GetLoad, GetClear, rows
  <2>3. CASE PositionStep(r, "get.position", "active", "get.activeSession")
    BY <2>3 DEF PositionStep
  <2>4. QED
    BY <1>7, <2>1, <2>2, <2>3 DEF Get
<1>8. CASE (\E r \in Requests : Throws(r)) \/ SaveLands \/ Crash \/ UNCHANGED vars
  BY <1>8 DEF Throws, SaveLands, Crash, vars, rows
<1>9. QED
  BY <1>3, <1>4, <1>5, <1>6, <1>7, <1>8, WorkerOff DEF Next, Handler

\* No write of the position row by one client replaces a terminal state.
LEMMA TerminalStays ==
    ASSUME IndInv, OneClient, Alone, [Next]_vars, Settled
    PROVE  UNCHANGED position
<1>1. ASSUME NEW r \in Requests, NEW at, NEW state, NEW next,
             PositionStep(r, at, state, next)
      PROVE  HandlerKnows(at, req[r].op, position, session.state, venue)
  BY <1>1, Knows DEF PositionStep
<1>2. ASSUME NEW r \in Requests, CreatePosition(r) \/ CreateSession(r)
      PROVE  UNCHANGED position
  BY <1>2 DEF CreatePosition, CreateSession, Settled, NoState, Machine!NoState
<1>3. ASSUME NEW r \in Requests, Execute(r)
      PROVE  UNCHANGED position
  <2>1. ~PositionStep(r, "x.indexing.position", "indexing", "x.indexing.session")
    BY <1>1 DEF HandlerKnows, Settled
  <2>2. QED
    BY <1>3, <2>1 DEF Execute, ReadSession, WriteFunding, PrepareFunding, WriteExecuting,
                      AddLiquidity, RegisterSnapshot, SessionStep, Accepted, Rejected, rows
<1>4. ASSUME NEW r \in Requests, Exit(r)
      PROVE  UNCHANGED position
  <2>1. /\ ~PositionStep(r, "exit.position", ExitState[req[r].op], "exit.session")
        /\ ~PositionStep(r, "closing.position", "closing", "closing.session")
        /\ ~PositionStep(r, "completed.position", "completed", "completed.session")
    BY <1>1 DEF HandlerKnows, Settled
  <2>2. ~PositionStep(r, "indexing.position", "indexing", "indexing.session")
    BY <1>1 DEF HandlerKnows, Settled
  <2>3. QED
    BY <1>4, <2>1, <2>2 DEF Exit, GetActivePosition, GetLatestActiveSession, PrepareExit,
                      VenueExit, SessionStep, Accepted, Rejected, rows
<1>5. ASSUME NEW r \in Requests, RecordFailure(r)
      PROVE  UNCHANGED position
  <2>1. ~PositionStep(r, "failed.position", "failed", "failed.session")
    BY <1>1 DEF HandlerKnows, Settled
  <2>2. QED
    BY <1>5, <2>1 DEF RecordFailure, FailSession
<1>6. ASSUME NEW r \in Requests, Get(r)
      PROVE  UNCHANGED position
  <2>1. ~PositionStep(r, "get.position", "active", "get.activeSession")
    BY <1>1 DEF HandlerKnows, Settled
  <2>2. QED
    BY <1>6, <2>1 DEF Get, GetRead, GetSession, GetLoad, GetClear, SessionStep, rows
<1>7. CASE (\E r \in Requests : Throws(r)) \/ SaveLands \/ Crash \/ UNCHANGED vars
  BY <1>7 DEF Throws, SaveLands, Crash, vars, rows
<1>8. QED
  BY <1>2, <1>3, <1>4, <1>5, <1>6, <1>7, WorkerOff DEF Next, Handler

\* The inductive invariant for one client holds of every reachable state.
THEOREM AloneInvariant ==
    ASSUME OneClient
    PROVE  Spec => [](IndInv /\ Alone)
<1>1. Init => IndInv /\ Alone
  BY InitInv, InitAlone
<1>2. IndInv /\ Alone /\ [Next]_vars => (IndInv /\ Alone)'
  BY StepInv, StepAlone
<1>3. QED
  BY <1>1, <1>2, PTL DEF Spec

\* One client cannot fund, add or exit twice, however often it retries after
\* errors and restarts (each guard reads a row that the step before it wrote).
THEOREM MovesOnce ==
    ASSUME OneClient
    PROVE  Spec => []AtMostOnce
<1>1. Alone => AtMostOnce
  BY DEF Alone, RowsAlone, NotYet, Exited, AtMostOnce
<1>2. QED
  BY AloneInvariant, <1>1, PTL

\* The failure stage that recordFailure stores for one client is true.
THEOREM StagesAreTrue ==
    ASSUME OneClient
    PROVE  Spec => []StageIsTrue
<1>1. IndInv /\ Alone => StageIsTrue
  <2> SUFFICES ASSUME IndInv, Alone, session.state = "failed" PROVE StageIsTrue
    BY DEF StageIsTrue
  <2>1. StageTrue(session.stage, venue) /\ venue \in Venue
    BY Start DEF Alone, RowsAlone
  <2>2. Exited(venue) = 0 => venue.claimed = 0 /\ venue.closed = 0
    BY <2>1 DEF Exited, Venue
  <2>3. QED
    BY <2>1, <2>2 DEF StageTrue, StageIsTrue
<1>2. QED
  BY AloneInvariant, <1>1, PTL

\* The session row of one client implements the table of
\* execution-state-machine.ts: assertTransition's promise.
THEOREM MachineIsFollowed ==
    ASSUME OneClient
    PROVE  Spec => FollowsMachine
<1>1. Init => Machine!Init
  BY DEF Init, Machine!Init, NoState
<1>2. IndInv /\ Alone /\ [Next]_vars => [Machine!Next]_(session.state)
  BY SessionMoves
<1>3. QED
  BY AloneInvariant, <1>1, <1>2, PTL DEF Spec, FollowsMachine, Machine!Spec

\* A position of one client that is completed or failed stays so.
THEOREM FinalIsFinal ==
    ASSUME OneClient
    PROVE  Spec => TerminalIsFinal
<1>1. IndInv /\ Alone /\ [Next]_vars => [Settled => UNCHANGED position]_position
  BY TerminalStays
<1>2. QED
  BY AloneInvariant, <1>1, PTL DEF Spec, TerminalIsFinal

(***************************************************************************)
(* What the races leave of the order of funding and liquidity.             *)
(***************************************************************************)

\* Between the receipt of the privacy deposit and the answer of the venue.
Adding == {"executing", "addLiquidity"}
AtAdding(q) == {r \in Requests : q[r].pc \in Adding}

\* Every addition, and every request about to add, has a deposit of its own.
Covered(q, v) == v.added + Cardinality(AtAdding(q)) <= v.funded

\* No exit before an addition, also of a request on its way to the venue.
ExitsCovered(v) == v.claimed + v.closed > 0 => v.added > 0

\* A request that goes somewhere else.
Away(r) == \E next : next.pc \notin Adding /\ req' = [req EXCEPT ![r] = next]

LEMMA GotoAway ==
    ASSUME req \in [Requests -> Request], NEW r \in Requests,
           NEW pc, pc \notin Adding, Goto(r, pc)
    PROVE  Away(r)
<1>1. Idle.pc = "idle" /\ [req[r] EXCEPT !.pc = pc].pc = pc
  BY DEF Idle, Request
<1>2. CASE pc = "idle"
  BY <1>1, <1>2 DEF Goto, Away, Adding
<1>3. CASE pc # "idle"
  BY <1>1, <1>3 DEF Goto, Away
<1> QED
  BY <1>2, <1>3

LEMMA AwayShrinks ==
    ASSUME req \in [Requests -> Request], NEW r \in Requests, Away(r)
    PROVE  AtAdding(req') = AtAdding(req) \ {r}
<1>1. PICK next : next.pc \notin Adding /\ req' = [req EXCEPT ![r] = next]
  BY DEF Away
<1>2. \A q \in Requests : req'[q] = IF q = r THEN next ELSE req[q]
  BY <1>1
<1> QED
  BY <1>1, <1>2 DEF AtAdding

LEMMA GotoAdding ==
    ASSUME req \in [Requests -> Request], NEW r \in Requests,
           NEW pc \in Adding, Goto(r, pc)
    PROVE  AtAdding(req') = AtAdding(req) \cup {r}
<1>1. pc # "idle" /\ [req[r] EXCEPT !.pc = pc].pc = pc
  BY DEF Adding, Request
<1>2. \A q \in Requests : req'[q] = IF q = r THEN [req[r] EXCEPT !.pc = pc] ELSE req[q]
  BY <1>1 DEF Goto
<1> QED
  BY <1>1, <1>2 DEF AtAdding

\* The three ways in which a step can move the count.
LEMMA CountKept ==
    ASSUME IsFiniteSet(Requests), NEW q, NEW p, NEW v \in Venue, NEW w \in Venue,
           Covered(q, v), AtAdding(p) \subseteq AtAdding(q),
           w.added = v.added, w.funded = v.funded
    PROVE  Covered(p, w)
<1>1. IsFiniteSet(AtAdding(q))
  BY FS_Subset DEF AtAdding
<1>2. /\ Cardinality(AtAdding(p)) <= Cardinality(AtAdding(q))
      /\ Cardinality(AtAdding(p)) \in Nat /\ Cardinality(AtAdding(q)) \in Nat
  BY <1>1, FS_Subset, FS_CardinalityType
<1> QED
  BY <1>2 DEF Covered, Venue

LEMMA CountEnters ==
    ASSUME IsFiniteSet(Requests), NEW q, NEW p, NEW v \in Venue, NEW w \in Venue, NEW r,
           Covered(q, v), AtAdding(p) = AtAdding(q) \cup {r},
           w.added = v.added, w.funded = v.funded + 1
    PROVE  Covered(p, w)
<1>1. IsFiniteSet(AtAdding(q))
  BY FS_Subset DEF AtAdding
<1>2. /\ Cardinality(AtAdding(p)) <= Cardinality(AtAdding(q)) + 1
      /\ Cardinality(AtAdding(p)) \in Nat /\ Cardinality(AtAdding(q)) \in Nat
  <2>1. /\ IsFiniteSet(AtAdding(q) \cup {r})
        /\ Cardinality(AtAdding(q) \cup {r})
              = IF r \in AtAdding(q) THEN Cardinality(AtAdding(q))
                                     ELSE Cardinality(AtAdding(q)) + 1
    BY <1>1, FS_AddElement
  <2>2. Cardinality(AtAdding(p)) \in Nat /\ Cardinality(AtAdding(q)) \in Nat
    BY <1>1, <2>1, FS_CardinalityType
  <2>3. Cardinality(AtAdding(p)) = Cardinality(AtAdding(q) \cup {r})
    OBVIOUS
  <2> QED
    BY <2>1, <2>2, <2>3
<1> QED
  BY <1>2 DEF Covered, Venue

LEMMA CountLeaves ==
    ASSUME IsFiniteSet(Requests), NEW q, NEW p, NEW v \in Venue, NEW w \in Venue,
           NEW r \in AtAdding(q),
           Covered(q, v), AtAdding(p) = AtAdding(q) \ {r},
           w.added <= v.added + 1, w.funded = v.funded
    PROVE  Covered(p, w)
<1>1. IsFiniteSet(AtAdding(q))
  BY FS_Subset DEF AtAdding
<1>2. /\ Cardinality(AtAdding(p)) = Cardinality(AtAdding(q)) - 1
      /\ Cardinality(AtAdding(p)) \in Nat /\ Cardinality(AtAdding(q)) \in Nat
  BY <1>1, FS_RemoveElement, FS_CardinalityType
<1> QED
  BY <1>2 DEF Covered, Venue

\* A handler that neither funds nor adds, and exits only what was added.
Apart(r) ==
    /\ Away(r)
    /\ venue'.added = venue.added /\ venue'.funded = venue.funded
    /\ \/ venue.added > 0
       \/ venue'.claimed = venue.claimed /\ venue'.closed = venue.closed

LEMMA RejectedAway ==
    ASSUME IndInv, NEW r \in Requests, NEW at, NEW effects, NEW stage,
           Rejected(r, at, effects, stage)
    PROVE  Away(r)
<1>1. req[r] \in Request
  BY Start
<1>2. [req[r] EXCEPT !.pc = "failed.position", !.stage = stage].pc = "failed.position"
  BY <1>1 DEF Request
<1>3. req' = [req EXCEPT ![r] =
                 [req[r] EXCEPT !.pc = "failed.position", !.stage = stage]]
  BY Start DEF Rejected
<1> QED
  BY <1>2, <1>3 DEF Away, Adding

LEMMA PositionStepApart ==
    ASSUME IndInv, NEW r \in Requests, NEW at, NEW state, NEW next,
           next \notin Adding, PositionStep(r, at, state, next)
    PROVE  Apart(r)
  BY Start, GotoAway DEF PositionStep, Apart

LEMMA SessionStepApart ==
    ASSUME IndInv, NEW r \in Requests, NEW at, NEW state, NEW next,
           next \notin Adding, SessionStep(r, at, state, next)
    PROVE  Apart(r)
  BY Start, GotoAway DEF SessionStep, Apart

LEMMA ReturnApart ==
    ASSUME IndInv, NEW r \in Requests, NEW next, next \notin Adding,
           Goto(r, next), UNCHANGED venue
    PROVE  Apart(r)
  BY Start, GotoAway DEF Apart

LEMMA ExitApart ==
    ASSUME IndInv, NEW r \in Requests, Exit(r)
    PROVE  Apart(r)
<1> USE DEF Adding
<1>1. CASE GetActivePosition(r)
  <2>1. PICK op \in Exits :
            req' = [req EXCEPT ![r].pc = "exit.readSession", ![r].op = op]
    BY <1>1 DEF GetActivePosition
  <2>2. [req[r] EXCEPT !.pc = "exit.readSession", !.op = op].pc = "exit.readSession"
    BY Start DEF Request
  <2>3. req' = [req EXCEPT ![r] =
                   [req[r] EXCEPT !.pc = "exit.readSession", !.op = op]]
    BY <2>1, Start
  <2> QED
    BY <1>1, <2>2, <2>3 DEF GetActivePosition, Apart, Away
<1>2. CASE GetLatestActiveSession(r)
  BY <1>2, ReturnApart DEF GetLatestActiveSession, Return
<1>3. CASE PrepareExit(r)
  <2>1. CASE Goto(r, "exit") /\ UNCHANGED venue
    BY <2>1, ReturnApart
  <2>2. CASE Rejected(r, "prepareExit", {}, "venue-submission")
    BY <2>2, RejectedAway DEF Rejected, Apart
  <2> QED
    BY <1>3, <2>1, <2>2 DEF PrepareExit
<1>4. CASE VenueExit(r)
  <2> DEFINE op == req[r].op
             effect == ExitEffect[op]
             next == IF op = "claim" THEN "indexing.position" ELSE "closing.position"
  <2>1. At(r, "exit")
    BY <1>4 DEF VenueExit, Accepted, Rejected
  <2>2. effect \in {"claimed", "closed"} /\ venue \in Venue
    BY <2>1, Start DEF At, Request, Exiting, Exits, ExitEffect
  <2>5. venue.added > 0
    BY <2>1, Here DEF PcTrue, AfterAdd, PCs
  <2>3. CASE Accepted(r, "exit", effect, next)
    <3>1. Away(r)
      BY <2>3, Start, GotoAway DEF Accepted
    <3>2. venue' = [venue EXCEPT ![effect] = @ + 1]
      BY <2>3 DEF Accepted
    <3> QED
      BY <2>2, <2>5, <3>1, <3>2 DEF Apart, Venue
  <2>4. CASE Rejected(r, "exit", {effect}, "venue-confirmation")
    <3>1. Away(r)
      BY <2>4, RejectedAway
    <3>2. venue' = venue \/ venue' = [venue EXCEPT ![effect] = @ + 1]
      BY <2>4 DEF Rejected
    <3> QED
      BY <2>2, <2>5, <3>1, <3>2 DEF Apart, Venue
  <2> QED
    BY <1>4, <2>3, <2>4 DEF VenueExit
<1> QED
  BY <1>1, <1>2, <1>3, <1>4, PositionStepApart, SessionStepApart DEF Exit

LEMMA OthersApart ==
    ASSUME IndInv, NEW r \in Requests,
           \/ CreatePosition(r) \/ CreateSession(r) \/ RecordFailure(r)
           \/ Get(r) \/ Throws(r)
    PROVE  Apart(r)
<1> USE DEF Adding
<1>1. CASE CreatePosition(r) \/ CreateSession(r)
  BY <1>1, ReturnApart DEF CreatePosition, CreateSession, Return
<1>2. CASE RecordFailure(r)
  BY <1>2, PositionStepApart, ReturnApart DEF RecordFailure, FailSession
<1>3. CASE GetRead(r)
  <2> DEFINE seen == position = "active"
  <2>1. req' = [req EXCEPT ![r].pc = "get.session", ![r].wasActive = seen]
    BY <1>3 DEF GetRead
  <2> HIDE DEF seen
  <2>2. [req[r] EXCEPT !.pc = "get.session", !.wasActive = seen].pc = "get.session"
    BY Start DEF Request
  <2>3. req' = [req EXCEPT ![r] =
                   [req[r] EXCEPT !.pc = "get.session", !.wasActive = seen]]
    BY <2>1, Start
  <2> QED
    BY <1>3, <2>2, <2>3 DEF GetRead, Apart, Away
<1>4. CASE GetSession(r) \/ GetLoad(r) \/ GetClear(r)
  BY <1>4, ReturnApart DEF GetSession, GetLoad, GetClear, Return
<1>5. CASE Throws(r)
  BY <1>5, ReturnApart DEF Throws, Return
<1> QED
  BY <1>1, <1>2, <1>3, <1>4, <1>5, PositionStepApart, SessionStepApart DEF Get

FundedInv == IndInv /\ Covered(req, venue) /\ ExitsCovered(venue)

LEMMA ApartKeeps ==
    ASSUME IsFiniteSet(Requests), FundedInv, NEW r \in Requests, Apart(r),
           venue' \in Venue
    PROVE  Covered(req', venue') /\ ExitsCovered(venue')
<1>1. venue \in Venue /\ req \in [Requests -> Request]
  BY Start DEF FundedInv
<1>2. AtAdding(req') \subseteq AtAdding(req)
  BY <1>1, AwayShrinks DEF Apart
<1>3. Covered(req', venue')
  BY <1>1, <1>2, CountKept DEF FundedInv, Apart
<1>4. ExitsCovered(venue')
  BY <1>1 DEF FundedInv, Apart, ExitsCovered, Venue
<1> QED
  BY <1>3, <1>4

LEMMA ExecuteKeeps ==
    ASSUME IsFiniteSet(Requests), FundedInv, NEW r \in Requests, Execute(r),
           venue' \in Venue
    PROVE  Covered(req', venue') /\ ExitsCovered(venue')
<1>1. venue \in Venue /\ req \in [Requests -> Request] /\ IndInv
  BY Start DEF FundedInv
<1>2. CASE Apart(r)
  BY <1>2, ApartKeeps
<1>3. CASE Accepted(r, "prepareFunding", "funded", "executing")
  <2>1. venue' = [venue EXCEPT !["funded"] = @ + 1] /\ Goto(r, "executing")
    BY <1>3 DEF Accepted
  <2>2. /\ venue'.funded = venue.funded + 1 /\ venue'.added = venue.added
        /\ venue'.claimed = venue.claimed /\ venue'.closed = venue.closed
    BY <1>1, <2>1 DEF Venue
  <2>3. AtAdding(req') = AtAdding(req) \cup {r}
    BY <1>1, <2>1, GotoAdding DEF Adding
  <2>4. Covered(req', venue')
    BY <1>1, <2>2, <2>3, CountEnters DEF FundedInv
  <2> QED
    BY <2>2, <2>4 DEF FundedInv, ExitsCovered
<1>4. CASE WriteExecuting(r)
  <2>1. At(r, "executing") /\ Goto(r, "addLiquidity") /\ venue' = venue
    BY <1>4 DEF WriteExecuting, SessionStep
  <2>2. r \in AtAdding(req) /\ AtAdding(req') = AtAdding(req) \cup {r}
    BY <1>1, <2>1, GotoAdding DEF Adding, AtAdding, At
  <2>3. Covered(req', venue')
    BY <1>1, <2>1, <2>2, CountKept DEF FundedInv
  <2> QED
    BY <2>1, <2>3 DEF FundedInv
<1>5. CASE AddLiquidity(r)
  <2>1. At(r, "addLiquidity") /\ Away(r)
    <3>1. CASE Accepted(r, "addLiquidity", "added", "x.indexing.position")
      BY <1>1, <3>1, GotoAway DEF Accepted, Adding
    <3>2. CASE Rejected(r, "addLiquidity", {"added"}, "funding-partial")
      BY <1>1, <3>2, RejectedAway DEF Rejected
    <3> QED
      BY <1>5, <3>1, <3>2 DEF AddLiquidity
  <2>2. venue' = venue \/ venue' = [venue EXCEPT !["added"] = @ + 1]
    BY <1>5 DEF AddLiquidity, Accepted, Rejected
  <2>3. /\ venue'.funded = venue.funded
        /\ venue'.added <= venue.added + 1 /\ venue'.added >= venue.added
        /\ venue'.claimed = venue.claimed /\ venue'.closed = venue.closed
    BY <1>1, <2>2 DEF Venue
  <2>4. r \in AtAdding(req) /\ AtAdding(req') = AtAdding(req) \ {r}
    BY <1>1, <2>1, AwayShrinks DEF Adding, AtAdding, At
  <2>5. Covered(req', venue')
    BY <1>1, <2>3, <2>4, CountLeaves DEF FundedInv
  <2>6. ExitsCovered(venue')
    BY <1>1, <2>3 DEF FundedInv, ExitsCovered, Venue
  <2> QED
    BY <2>5, <2>6
<1>6. CASE Rejected(r, "prepareFunding", {}, "pre-funding")
  <2>1. Away(r) /\ venue' = venue
    BY <1>1, <1>6, RejectedAway DEF Rejected
  <2> QED
    BY <1>2, <2>1 DEF Apart
<1>7. CASE ReadSession(r) \/ RegisterSnapshot(r)
  <2>1. Apart(r)
    BY <1>1, <1>7, ReturnApart DEF ReadSession, RegisterSnapshot, Return, Adding
  <2> QED
    BY <1>2, <2>1
<1>8. CASE \/ WriteFunding(r)
           \/ PositionStep(r, "x.indexing.position", "indexing", "x.indexing.session")
           \/ SessionStep(r, "x.indexing.session", "indexing", "registerSnapshot")
  <2>1. Apart(r)
    BY <1>1, <1>8, PositionStepApart, SessionStepApart DEF WriteFunding, Adding
  <2> QED
    BY <1>2, <2>1
<1> QED
  BY <1>3, <1>4, <1>5, <1>6, <1>7, <1>8 DEF Execute, PrepareFunding

(* MoneyInOrder, for any finite number of requests at once, with or        *)
(* without the worker: what the races and retries of executeSignedIntent,  *)
(* claim and close cannot break.                                           *)
THEOREM MoneyStaysInOrder ==
    ASSUME IsFiniteSet(Requests)
    PROVE  Spec => []MoneyInOrder
<1>1. Init => FundedInv
  <2> SUFFICES ASSUME Init
               PROVE  FundedInv
    OBVIOUS
  <2>1. IndInv
    BY InitInv
  <2>2. AtAdding(req) = {} /\ venue.added = 0 /\ venue.funded = 0
        /\ venue.claimed = 0 /\ venue.closed = 0
    BY DEF Init, AtAdding, Adding, Idle
  <2> QED
    BY <2>1, <2>2, FS_EmptySet DEF FundedInv, Covered, ExitsCovered
<1>2. ASSUME FundedInv, IndInv', [Next]_vars
      PROVE  FundedInv'
  <2>1. venue \in Venue /\ venue' \in Venue
    BY <1>2 DEF FundedInv, IndInv, TypeOK, Venue
  <2>2. ASSUME NEW r \in Requests, Handler(r) \/ Throws(r)
        PROVE  Covered(req', venue') /\ ExitsCovered(venue')
    <3>1. CASE Execute(r)
      BY <1>2, <2>1, <3>1, ExecuteKeeps
    <3>2. CASE ~Execute(r)
      <4>1. Apart(r)
        BY <1>2, <2>2, <3>2, ExitApart, OthersApart DEF FundedInv, Handler
      <4> QED
        BY <1>2, <2>1, <4>1, ApartKeeps
    <3> QED
      BY <3>1, <3>2
  <2>3. CASE Crash
    <3>1. AtAdding(req') = {} /\ venue' = venue
      BY <2>3 DEF Crash, AtAdding, Adding, Idle
    <3>2. AtAdding(req') \subseteq AtAdding(req)
      BY <3>1
    <3>3. Covered(req', venue')
      BY <1>2, <2>1, <3>1, <3>2, CountKept DEF FundedInv
    <3> QED
      BY <1>2, <3>1, <3>3 DEF FundedInv
  <2>4. CASE Worker \/ SaveLands \/ UNCHANGED vars
    <3>1. req' = req /\ venue' = venue
      BY <2>4 DEF Worker, WorkerScan, WorkerLoad, WorkerClear, WorkerPosition,
                  WorkerSession, WorkerThrows, SaveLands, vars
    <3> QED
      BY <1>2, <3>1 DEF FundedInv
  <2>5. CASE \E r \in Requests : Handler(r) \/ Throws(r)
    BY <1>2, <2>2, <2>5 DEF FundedInv
  <2> QED
    BY <1>2, <2>3, <2>4, <2>5 DEF Next
<1>3. FundedInv => MoneyInOrder
  <2> SUFFICES ASSUME FundedInv
               PROVE  MoneyInOrder
    OBVIOUS
  <2>1. venue \in Venue /\ Cardinality(AtAdding(req)) \in Nat
    <3>1. IsFiniteSet(AtAdding(req))
      BY FS_Subset DEF AtAdding
    <3> QED
      BY <3>1, Start, FS_CardinalityType DEF FundedInv
  <2> QED
    BY <2>1 DEF FundedInv, Covered, ExitsCovered, MoneyInOrder, Venue
<1> QED
  BY <1>1, <1>2, <1>3, Invariant, PTL DEF Spec

(***************************************************************************)
(* Abandoned executions.  While the position row is a draft, no handler is *)
(* past the venue's answer, no tick holds the position, and the session is *)
(* at most executing; the session is created by one request, and whoever   *)
(* executes has read it.                                                   *)
(***************************************************************************)
Before == {"idle", "create.session", "funding", "prepareFunding", "executing",
           "addLiquidity", "x.indexing.position", "failed.position", "get.session"}
Early == {NoState, "awaiting_signature", "funding_in_progress", "executing_on_meteora"}
Bystander == {"idle", "create.session", "get.session"}

DraftTrue(p, s, w, q) ==
    /\ p = NoState => s = NoState /\ \A r \in Requests : q[r].pc = "idle"
    /\ s = NoState => /\ p \in {NoState, "draft"} /\ w = "idle"
                      /\ \A r \in Requests : q[r].pc \in Bystander
    /\ \A r, t \in Requests : q[r].pc = "create.session" /\ q[t].pc = "create.session" =>
           s = NoState /\ r = t
    /\ p = "draft" => s \in Early /\ w = "idle" /\ \A r \in Requests : q[r].pc \in Before

DraftInv == DraftTrue(position, session.state, worker, req)

\* r goes to the await pc.
Goes(r, pc) == \E e : e.pc = pc /\ req' = [req EXCEPT ![r] = e]

LEMMA GotoGoes ==
    ASSUME IndInv, NEW r \in Requests, NEW pc, Goto(r, pc)
    PROVE  Goes(r, pc)
<1>1. Idle.pc = "idle" /\ [req[r] EXCEPT !.pc = pc].pc = pc
  BY Start DEF Idle, Request
<1> QED
  BY <1>1 DEF Goto, Goes

\* A move without a write.
LEMMA MoveDraft ==
    ASSUME IndInv, DraftInv, NEW r \in Requests, NEW pc, Goes(r, pc), UNCHANGED <<rows, worker>>,
           pc # "create.session",
           position = NoState => pc = "idle",
           session.state = NoState => pc \in Bystander,
           position = "draft" => pc \in Before
    PROVE  DraftInv'
<1>1. PICK e : e.pc = pc /\ req' = [req EXCEPT ![r] = e]
  BY DEF Goes
<1>2. \A q \in Requests : req'[q].pc = IF q = r THEN pc ELSE req[q].pc
  BY <1>1, Start
<1>3. position' = position /\ session'.state = session.state /\ worker' = worker
  BY DEF rows
<1> QED
  BY <1>2, <1>3 DEF DraftInv, DraftTrue

\* A request at an await that nobody reaches without a session.
LEMMA Wrote ==
    ASSUME DraftInv, NEW r \in Requests, req[r].pc \notin Bystander
    PROVE  /\ session.state # NoState /\ position # NoState
           /\ position = "draft" => req[r].pc \in Before
  BY DEF DraftInv, DraftTrue, Bystander

LEMMA PositionStepDraft ==
    ASSUME IndInv, DraftInv, NEW r \in Requests, NEW at, NEW state, NEW next,
           at \notin Bystander, state \notin {NoState, "draft"}, next # "create.session",
           PositionStep(r, at, state, next)
    PROVE  DraftInv'
<1>1. /\ position' = state /\ session'.state = session.state /\ worker' = worker
      /\ session.state # NoState
  BY Wrote DEF PositionStep, UpdatePositionState, At
<1>2. PICK e : e.pc = next /\ req' = [req EXCEPT ![r] = e]
  BY GotoGoes DEF PositionStep, Goes
<1>3. \A q \in Requests : req'[q].pc = IF q = r THEN next ELSE req[q].pc
  BY <1>2, Start
<1> QED
  BY <1>1, <1>3 DEF DraftInv, DraftTrue

LEMMA SessionWriteDraft ==
    ASSUME IndInv, DraftInv, NEW r \in Requests, NEW state, NEW stage, NEW next,
           req[r].pc \notin Bystander, state # NoState, next # "create.session",
           req[r].pc \in Before => state \in Early /\ next \in Before,
           UpdateExecutionSession(state, stage), Goto(r, next), UNCHANGED <<position, worker>>
    PROVE  DraftInv'
<1>1. /\ position' = position /\ session'.state = state /\ worker' = worker
      /\ session.state # NoState /\ position # NoState
      /\ position = "draft" => req[r].pc \in Before
  BY Wrote DEF UpdateExecutionSession
<1>2. PICK e : e.pc = next /\ req' = [req EXCEPT ![r] = e]
  BY GotoGoes DEF Goes
<1>3. \A q \in Requests : req'[q].pc = IF q = r THEN next ELSE req[q].pc
  BY <1>2, Start
<1> QED
  BY <1>1, <1>3 DEF DraftInv, DraftTrue

LEMMA SessionStepDraft ==
    ASSUME IndInv, DraftInv, NEW r \in Requests, NEW at, NEW state, NEW next,
           at \notin Bystander, state # NoState, next # "create.session",
           at \in Before => state \in Early /\ next \in Before,
           SessionStep(r, at, state, next)
    PROVE  DraftInv'
  BY SessionWriteDraft DEF SessionStep, At

LEMMA AcceptedDraft ==
    ASSUME IndInv, DraftInv, NEW r \in Requests, NEW at, NEW effect, NEW next,
           at \notin Bystander, next # "create.session",
           at \in Before => next \in Before,
           Accepted(r, at, effect, next)
    PROVE  DraftInv'
<1>1. req[r].pc = at /\ Goes(r, next) /\ UNCHANGED <<rows, worker>>
  BY GotoGoes DEF Accepted, At
<1> QED
  BY <1>1, Wrote, MoveDraft

LEMMA RejectedDraft ==
    ASSUME IndInv, DraftInv, NEW r \in Requests, NEW at, NEW effects, NEW stage,
           at \notin Bystander, Rejected(r, at, effects, stage)
    PROVE  DraftInv'
<1>1. [req[r] EXCEPT !.pc = "failed.position", !.stage = stage].pc = "failed.position"
  BY Start DEF Request
<1>2. req' = [req EXCEPT ![r] = [req[r] EXCEPT !.pc = "failed.position", !.stage = stage]]
  BY Start DEF Rejected
<1>3. req[r].pc = at /\ Goes(r, "failed.position") /\ UNCHANGED <<rows, worker>>
  BY <1>1, <1>2 DEF Rejected, At, Goes
<1> QED
  BY <1>3, Wrote, MoveDraft DEF Before

\* Going on to `next` from an await that needs a session.
LEMMA OnDraft ==
    ASSUME IndInv, DraftInv, NEW r \in Requests, NEW at, NEW next, At(r, at),
           at \notin Bystander, next # "create.session",
           at \in Before => next \in Before,
           Goto(r, next), UNCHANGED <<rows, worker>>
    PROVE  DraftInv'
<1>1. req[r].pc = at /\ Goes(r, next)
  BY GotoGoes DEF At
<1> QED
  BY <1>1, Wrote, MoveDraft

LEMMA CreateDraft ==
    ASSUME IndInv, DraftInv, NEW r \in Requests, CreatePosition(r) \/ CreateSession(r)
    PROVE  DraftInv'
<1>1. CASE CreatePosition(r)
  <2>1. Goes(r, "create.session")
    BY <1>1, GotoGoes DEF CreatePosition
  <2>2. PICK e : e.pc = "create.session" /\ req' = [req EXCEPT ![r] = e]
    BY <2>1 DEF Goes
  <2>3. \A q \in Requests : req'[q].pc = IF q = r THEN "create.session" ELSE req[q].pc
    BY <2>2, Start
  <2>4. /\ position = NoState /\ position' = "draft" /\ session'.state = session.state
        /\ worker' = worker
    BY <1>1 DEF CreatePosition, UpdatePositionState
  <2>5. NoState # "draft"
    BY DEF NoState, Machine!NoState
  <2> QED
    BY <2>3, <2>4, <2>5 DEF DraftInv, DraftTrue, Before, Bystander, Early
<1>2. CASE CreateSession(r)
  <2>1. Goes(r, "idle")
    BY <1>2, GotoGoes DEF CreateSession, Return
  <2>2. PICK e : e.pc = "idle" /\ req' = [req EXCEPT ![r] = e]
    BY <2>1 DEF Goes
  <2>3. \A q \in Requests : req'[q].pc = IF q = r THEN "idle" ELSE req[q].pc
    BY <2>2, Start
  <2>4. /\ req[r].pc = "create.session" /\ position' = position
        /\ session'.state = "awaiting_signature" /\ worker' = worker
    BY <1>2 DEF CreateSession, UpdateExecutionSession, At
  <2>5. session.state = NoState /\ position = "draft"
        /\ \A q \in Requests : q # r => req[q].pc # "create.session"
    BY <2>4 DEF DraftInv, DraftTrue
  <2>6. NoState # "draft" /\ NoState # "awaiting_signature"
    BY DEF NoState, Machine!NoState
  <2> QED
    BY <2>3, <2>4, <2>5, <2>6 DEF DraftInv, DraftTrue, Before, Bystander, Early
<1> QED
  BY <1>1, <1>2

\* What MayExecute lets through.
LEMMA MayExecuteState ==
    ASSUME MayExecute
    PROVE  session.state = "awaiting_signature"
<1>1. /\ session.state \in Machine!States
      /\ "funding_in_progress" \in Machine!Transitions[session.state]
  BY DEF MayExecute, Machine!CanTransition
<1> QED
  BY <1>1, SMTT(30) DEF Machine!Transitions, Machine!States

LEMMA ExecuteDraft ==
    ASSUME IndInv, DraftInv, NEW r \in Requests, Execute(r)
    PROVE  DraftInv'
<1> USE DEF Bystander, Before, Early
<1>0. NoState = "none"
  BY DEF NoState, Machine!NoState
<1>1. CASE ReadSession(r)
  <2>1. session.state # NoState /\ Goes(r, "funding") /\ UNCHANGED <<rows, worker>>
    BY <1>0, <1>1, MayExecuteState, GotoGoes DEF ReadSession
  <2>2. position # NoState
    BY <2>1 DEF DraftInv, DraftTrue
  <2> QED
    BY <2>1, <2>2, MoveDraft
<1>2. CASE WriteFunding(r) \/ WriteExecuting(r)
  BY <1>0, <1>2, SessionStepDraft DEF WriteFunding, WriteExecuting
<1>3. CASE PrepareFunding(r)
  BY <1>3, AcceptedDraft, RejectedDraft DEF PrepareFunding
<1>4. CASE AddLiquidity(r)
  BY <1>4, AcceptedDraft, RejectedDraft DEF AddLiquidity
<1>5. CASE PositionStep(r, "x.indexing.position", "indexing", "x.indexing.session")
  BY <1>0, <1>5, PositionStepDraft
<1>6. CASE SessionStep(r, "x.indexing.session", "indexing", "registerSnapshot")
  BY <1>0, <1>6, SessionStepDraft
<1>7. CASE RegisterSnapshot(r)
  BY <1>7, OnDraft DEF RegisterSnapshot, Return
<1> QED
  BY <1>1, <1>2, <1>3, <1>4, <1>5, <1>6, <1>7 DEF Execute

LEMMA ExitDraft ==
    ASSUME IndInv, DraftInv, NEW r \in Requests, Exit(r)
    PROVE  DraftInv'
<1> USE DEF Bystander, Before, Early
<1>0. NoState = "none"
  BY DEF NoState, Machine!NoState
<1>1. CASE GetActivePosition(r)
  <2>1. PICK op \in Exits :
            req' = [req EXCEPT ![r].pc = "exit.readSession", ![r].op = op]
    BY <1>1 DEF GetActivePosition
  <2>2. [req[r] EXCEPT !.pc = "exit.readSession", !.op = op].pc = "exit.readSession"
    BY Start DEF Request
  <2>3. Goes(r, "exit.readSession")
    <3>1. req' = [req EXCEPT ![r] =
                     [req[r] EXCEPT !.pc = "exit.readSession", !.op = op]]
      BY <2>1, Start
    <3> QED
      BY <2>2, <3>1 DEF Goes
  <2>4. position = "active" /\ UNCHANGED <<rows, worker>>
    BY <1>1 DEF GetActivePosition
  <2>5. session.state # NoState
    BY <2>4, <1>0 DEF DraftInv, DraftTrue
  <2> QED
    BY <1>0, <2>3, <2>4, <2>5, MoveDraft
<1>2. CASE GetLatestActiveSession(r)
  BY <1>2, OnDraft DEF GetLatestActiveSession, Return
<1>3. CASE PrepareExit(r)
  BY <1>3, OnDraft, RejectedDraft DEF PrepareExit
<1>4. CASE VenueExit(r)
  BY <1>4, AcceptedDraft, RejectedDraft DEF VenueExit
<1>5. CASE \/ PositionStep(r, "exit.position", ExitState[req[r].op], "exit.session")
           \/ SessionStep(r, "exit.session", ExitState[req[r].op], "prepareExit")
  <2>1. ExitState[req[r].op] \in {"claiming", "withdrawing"}
    <3>1. CASE At(r, "exit.position")
      BY <3>1, Start DEF At, Request, Exiting, Exits, ExitState
    <3>2. CASE At(r, "exit.session")
      BY <3>2, Start DEF At, Request, Exiting, Exits, ExitState
    <3> QED
      BY <1>5, <3>1, <3>2 DEF PositionStep, SessionStep
  <2>2. CASE PositionStep(r, "exit.position", ExitState[req[r].op], "exit.session")
    BY <1>0, <2>1, <2>2, PositionStepDraft
  <2>3. CASE SessionStep(r, "exit.session", ExitState[req[r].op], "prepareExit")
    BY <1>0, <2>1, <2>3, SessionStepDraft
  <2> QED
    BY <1>5, <2>2, <2>3
<1>6. CASE \/ PositionStep(r, "closing.position", "closing", "closing.session")
           \/ PositionStep(r, "indexing.position", "indexing", "indexing.session")
           \/ PositionStep(r, "completed.position", "completed", "completed.session")
  BY <1>0, <1>6, PositionStepDraft
<1>7. CASE \/ SessionStep(r, "closing.session", "closing", "indexing.position")
           \/ SessionStep(r, "indexing.session", "indexing", "completed.position")
           \/ SessionStep(r, "completed.session", "completed", "idle")
  BY <1>0, <1>7, SessionStepDraft
<1> QED
  BY <1>1, <1>2, <1>3, <1>4, <1>5, <1>6, <1>7 DEF Exit

LEMMA OthersDraft ==
    ASSUME IndInv, DraftInv, NEW r \in Requests, RecordFailure(r) \/ Get(r) \/ Throws(r)
    PROVE  DraftInv'
<1> USE DEF Bystander, Before, Early
<1>0. NoState = "none"
  BY DEF NoState, Machine!NoState
<1>1. CASE PositionStep(r, "failed.position", "failed", "failed.session")
  BY <1>0, <1>1, PositionStepDraft
<1>2. CASE FailSession(r)
  BY <1>0, <1>2, SessionWriteDraft DEF FailSession, At
<1>3. CASE GetRead(r)
  <2> DEFINE seen == position = "active"
  <2>1. req' = [req EXCEPT ![r].pc = "get.session", ![r].wasActive = seen]
    BY <1>3 DEF GetRead
  <2> HIDE DEF seen
  <2>2. [req[r] EXCEPT !.pc = "get.session", !.wasActive = seen].pc = "get.session"
    BY Start DEF Request
  <2>3. Goes(r, "get.session")
    <3>1. req' = [req EXCEPT ![r] =
                     [req[r] EXCEPT !.pc = "get.session", !.wasActive = seen]]
      BY <2>1, Start
    <3> QED
      BY <2>2, <3>1 DEF Goes
  <2>4. position # NoState /\ UNCHANGED <<rows, worker>>
    BY <1>3 DEF GetRead
  <2> QED
    BY <2>3, <2>4, MoveDraft
<1>4. CASE GetSession(r)
  <2>1. At(r, "get.session") /\ UNCHANGED <<rows, worker>>
    BY <1>4 DEF GetSession
  <2>2. CASE session.state = "indexing"
    <3>1. Goes(r, "get.load")
      BY <1>4, <2>2, GotoGoes DEF GetSession
    <3>2. position # NoState /\ position # "draft" /\ session.state # NoState
      BY <1>0, <2>2 DEF DraftInv, DraftTrue
    <3> QED
      BY <2>1, <3>1, <3>2, MoveDraft
  <2>3. CASE session.state # "indexing"
    <3>1. Goes(r, "idle")
      BY <1>4, <2>3, GotoGoes DEF GetSession, Return
    <3> QED
      BY <2>1, <3>1, MoveDraft
  <2> QED
    BY <2>2, <2>3
<1>5. CASE GetLoad(r)
  BY <1>5, OnDraft DEF GetLoad, Return
<1>6. CASE GetClear(r)
  <2>1. At(r, "get.clear") /\ UNCHANGED <<rows, worker>>
        /\ (Goto(r, "idle") \/ Goto(r, "get.position"))
    BY <1>6 DEF GetClear, Return
  <2> QED
    BY <2>1, OnDraft
<1>7. CASE PositionStep(r, "get.position", "active", "get.activeSession")
  BY <1>0, <1>7, PositionStepDraft
<1>8. CASE SessionStep(r, "get.activeSession", "active", "idle")
  BY <1>0, <1>8, SessionStepDraft
<1>9. CASE Throws(r)
  <2>1. Goes(r, "idle") /\ UNCHANGED <<rows, worker>>
    BY <1>9, GotoGoes DEF Throws, Return
  <2> QED
    BY <2>1, MoveDraft
<1> QED
  BY <1>1, <1>2, <1>3, <1>4, <1>5, <1>6, <1>7, <1>8, <1>9 DEF RecordFailure, Get

LEMMA ProcessDraft ==
    ASSUME IndInv, DraftInv, Worker \/ SaveLands \/ Crash \/ UNCHANGED vars
    PROVE  DraftInv'
<1>0. NoState = "none"
  BY DEF NoState, Machine!NoState
<1>1. CASE WorkerScan
  <2>1. position = "indexing" /\ UNCHANGED <<rows, req>>
    BY <1>1 DEF WorkerScan
  <2> QED
    BY <1>0, <2>1 DEF DraftInv, DraftTrue, rows
<1>2. CASE WorkerLoad \/ WorkerClear \/ WorkerThrows
  <2>1. worker # "idle" /\ UNCHANGED <<rows, req>>
    BY <1>2 DEF WorkerLoad, WorkerClear, WorkerThrows
  <2>2. position \notin {NoState, "draft"} /\ session.state # NoState
    BY <2>1 DEF DraftInv, DraftTrue
  <2> QED
    BY <2>1, <2>2 DEF DraftInv, DraftTrue, rows
<1>3. CASE WorkerPosition \/ WorkerSession
  <2>1. worker # "idle" /\ req' = req
    BY <1>3 DEF WorkerPosition, WorkerSession
  <2>2. position \notin {NoState, "draft"} /\ session.state # NoState
    BY <2>1 DEF DraftInv, DraftTrue
  <2>3. position' \notin {NoState, "draft"} /\ session'.state # NoState
    BY <1>0, <1>3, <2>2 DEF WorkerPosition, WorkerSession, UpdatePositionState,
                            UpdateExecutionSession
  <2> QED
    BY <2>1, <2>2, <2>3 DEF DraftInv, DraftTrue
<1>4. CASE SaveLands \/ UNCHANGED vars
  BY <1>4 DEF DraftInv, DraftTrue, SaveLands, vars, rows
<1>5. CASE Crash
  <2>1. /\ \A r \in Requests : req'[r].pc = "idle"
        /\ worker' = "idle" /\ UNCHANGED rows
    BY <1>5 DEF Crash, Idle
  <2> QED
    BY <2>1 DEF DraftInv, DraftTrue, Before, Bystander, rows
<1> QED
  BY <1>1, <1>2, <1>3, <1>4, <1>5 DEF Worker

\* On an abandoned execution only polls are in progress, and they end with a read.
LEMMA AbandonedStep ==
    ASSUME IndInv, DraftInv, Abandoned, [Next]_vars
    PROVE  Abandoned' /\ UNCHANGED <<rows, venue>>
<1>0. NoState = "none"
  BY DEF NoState, Machine!NoState
<1>1. /\ position = "draft" /\ session.state = "executing_on_meteora" /\ worker = "idle"
      /\ \A r \in Requests : req[r].pc \in {"idle", "get.session"}
  BY <1>0 DEF Abandoned, DraftInv, DraftTrue, Before, Executing
<1>2. ASSUME UNCHANGED <<rows, venue>>,
             \A r \in Requests : req'[r].pc \in {"idle", "get.session"}
      PROVE  Abandoned' /\ UNCHANGED <<rows, venue>>
  BY <1>1, <1>2 DEF Abandoned, rows, Executing
<1>3. ASSUME NEW r \in Requests, NEW pc \in {"idle", "get.session"}, Goes(r, pc),
             UNCHANGED <<rows, venue>>
      PROVE  Abandoned' /\ UNCHANGED <<rows, venue>>
  <2>1. PICK e : e.pc = pc /\ req' = [req EXCEPT ![r] = e]
    BY <1>3 DEF Goes
  <2>2. \A q \in Requests : req'[q].pc = IF q = r THEN pc ELSE req[q].pc
    BY <2>1, Start
  <2> QED
    BY <1>1, <1>2, <1>3, <2>2
<1>4. ASSUME NEW r \in Requests, Handler(r) \/ Throws(r)
      PROVE  GetRead(r) \/ GetSession(r) \/ Throws(r)
  <2>1. At(r, "idle") \/ At(r, "get.session")
    BY <1>1 DEF At
  <2>2. ~CreatePosition(r) /\ ~CreateSession(r) /\ ~GetActivePosition(r)
    BY <1>0, <1>1, <2>1 DEF CreatePosition, CreateSession, GetActivePosition, At
  <2>3. ~Execute(r)
    <3>1. ~ReadSession(r)
      BY <1>1, MayExecuteState DEF ReadSession
    <3> QED
      BY <2>1, <3>1 DEF Execute, WriteFunding, PrepareFunding, WriteExecuting, AddLiquidity,
         RegisterSnapshot, PositionStep, SessionStep, Accepted, Rejected, At
  <2>4. ~Exit(r)
    BY <2>1, <2>2 DEF Exit, GetLatestActiveSession, PrepareExit, VenueExit, PositionStep,
       SessionStep, Accepted, Rejected, At
  <2>5. ~RecordFailure(r)
    BY <2>1 DEF RecordFailure, FailSession, PositionStep, At
  <2>6. Get(r) => GetRead(r) \/ GetSession(r)
    BY <2>1 DEF Get, GetLoad, GetClear, PositionStep, SessionStep, At
  <2> QED
    BY <1>4, <2>2, <2>3, <2>4, <2>5, <2>6 DEF Handler
<1>5. ASSUME NEW r \in Requests, GetSession(r) \/ Throws(r)
      PROVE  Abandoned' /\ UNCHANGED <<rows, venue>>
  <2>1. Goes(r, "idle") /\ UNCHANGED <<rows, venue>>
    BY <1>1, <1>5, GotoGoes DEF GetSession, Throws, Return
  <2> QED
    BY <2>1, <1>3
<1>6. ASSUME NEW r \in Requests, GetRead(r)
      PROVE  Abandoned' /\ UNCHANGED <<rows, venue>>
  <2> DEFINE seen == position = "active"
  <2>1. req' = [req EXCEPT ![r].pc = "get.session", ![r].wasActive = seen]
    BY <1>6 DEF GetRead
  <2> HIDE DEF seen
  <2>2. [req[r] EXCEPT !.pc = "get.session", !.wasActive = seen].pc = "get.session"
    BY Start DEF Request
  <2>3. Goes(r, "get.session")
    <3>1. req' = [req EXCEPT ![r] =
                     [req[r] EXCEPT !.pc = "get.session", !.wasActive = seen]]
      BY <2>1, Start
    <3> QED
      BY <2>2, <3>1 DEF Goes
  <2> QED
    BY <1>6, <2>3, <1>3 DEF GetRead
<1>7. CASE Worker
  BY <1>1, <1>7 DEF Worker, WorkerScan, WorkerLoad, WorkerClear, WorkerPosition,
     WorkerSession, WorkerThrows
<1>8. CASE SaveLands \/ UNCHANGED vars
  <2>1. UNCHANGED <<rows, venue, req>>
    BY <1>8 DEF SaveLands, vars
  <2> QED
    BY <2>1, <1>1, <1>2
<1>9. CASE Crash
  <2>1. UNCHANGED <<rows, venue>> /\ \A r \in Requests : req'[r].pc = "idle"
    BY <1>9 DEF Crash, Idle
  <2> QED
    BY <2>1, <1>2
<1> QED
  BY <1>4, <1>5, <1>6, <1>7, <1>8, <1>9 DEF Next

(* A session that a restart or a throw left executing is never executed,   *)
(* exited or advanced again, by any number of clients, polls, ticks, late  *)
(* saves and further restarts: its outcome is not known, and stays so.     *)
THEOREM AbandonedStaysInert == Spec => AbandonedIsInert
<1>1. Init => DraftInv
  BY DEF Init, DraftInv, DraftTrue, Idle, Bystander, NoState, Machine!NoState
<1>2. IndInv /\ DraftInv /\ [Next]_vars => DraftInv'
  BY CreateDraft, ExecuteDraft, ExitDraft, OthersDraft, ProcessDraft DEF Next, Handler
<1>3. IndInv /\ DraftInv /\ [Next]_vars
      => [Abandoned => Abandoned' /\ UNCHANGED <<rows, venue>>]_vars
  BY AbandonedStep
<1> QED
  BY <1>1, <1>2, <1>3, Invariant, PTL DEF Spec, AbandonedIsInert
===============================================================================
