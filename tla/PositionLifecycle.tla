--------------------------- MODULE PositionLifecycle ---------------------------
(***************************************************************************)
(* The managed life of one position in octora-api: the handlers of         *)
(* position.service.ts, the reconciliation store behind                    *)
(* indexer.service.ts and the recovery worker, over the Position,          *)
(* ExecutionSession and PositionReconciliation rows of Postgres.           *)
(*                                                                         *)
(* Every `await` is a point where other requests, the worker, and the      *)
(* writes nobody awaits may run, so every awaited call is an action.  What *)
(* follows a call up to the next await belongs to the same action.  A      *)
(* handler that throws before its first write is one that is not enabled.  *)
(* Rows of different positions do not interact here (the caps at creation  *)
(* are the exception, and are not modelled in this module).                *)
(***************************************************************************)
EXTENDS Naturals, Sequences, FiniteSets

CONSTANTS
    Requests,       \* HTTP requests the process can be serving at once
    WorkerEnabled,  \* OCTORA_RECOVERY_WORKER_ENABLED
    SavesInOrder,   \* the store answers unawaited saves in the order issued
    MaxCrashes,     \* bound: restarts of the process
    AwaitsMayThrow  \* a repository call may reject

ASSUME ConfigAssumption ==
    /\ WorkerEnabled \in BOOLEAN
    /\ SavesInOrder \in BOOLEAN
    /\ AwaitsMayThrow \in BOOLEAN
    /\ MaxCrashes \in Nat

VARIABLES
    position,   \* Position.state
    session,    \* ExecutionSession: state and failureStage
    snapshot,   \* PositionReconciliation: absent, or signature null or set
    saves,      \* saves issued without await, not yet applied
    venue,      \* calls that took effect outside: funding, add, claim, close
    req,        \* the requests in progress
    worker,     \* where the worker is in its tick
    crashes

Machine == INSTANCE ExecutionStateMachine WITH state <- session.state
States  == Machine!States
NoState == Machine!NoState

rows == <<position, session>>
vars == <<rows, snapshot, saves, venue, req, worker, crashes>>

Stages  == {"pre-funding", "funding-partial", "venue-submission",
            "venue-confirmation"}
NoStage == "null"
NoOp    == "none"
Exits   == {"claim", "close"}

Idle == [pc |-> "idle", op |-> NoOp, stage |-> NoStage, wasActive |-> FALSE]

Init ==
    /\ position = NoState
    /\ session = [state |-> NoState, stage |-> NoStage]
    /\ snapshot = "absent"
    /\ saves = <<>>
    /\ venue = [funded |-> 0, added |-> 0, claimed |-> 0, closed |-> 0]
    /\ req = [r \in Requests |-> Idle]
    /\ worker = "idle"
    /\ crashes = 0

(***************************************************************************)
(* Repository calls.  updateExecutionSession clears failureStage unless it *)
(* is given one.  Neither looks at the state it replaces.                  *)
(***************************************************************************)
UpdatePositionState(state) == position' = state

UpdateExecutionSession(state, stage) ==
    session' = [state |-> state, stage |-> stage]

At(r, pc) == req[r].pc = pc
Goto(r, pc) ==
    req' = [req EXCEPT ![r] = IF pc = "idle" THEN Idle ELSE [@ EXCEPT !.pc = pc]]
Return(r) == Goto(r, "idle")

\* One awaited write of the position or session row, then on to `next`.
PositionStep(r, at, state, next) ==
    /\ At(r, at)
    /\ UpdatePositionState(state)
    /\ Goto(r, next)
    /\ UNCHANGED <<session, snapshot, saves, venue, worker, crashes>>

SessionStep(r, at, state, next) ==
    /\ At(r, at)
    /\ UpdateExecutionSession(state, NoStage)
    /\ Goto(r, next)
    /\ UNCHANGED <<position, snapshot, saves, venue, worker, crashes>>

\* A call of the privacy adapter or of the venue that returns a receipt.
Accepted(r, at, effect, next) ==
    /\ At(r, at)
    /\ venue' = [venue EXCEPT ![effect] = @ + 1]
    /\ Goto(r, next)
    /\ UNCHANGED <<rows, snapshot, worker, crashes>>

\* The same call rejecting, possibly after it took effect: on to recordFailure.
Rejected(r, at, effects, stage) ==
    /\ At(r, at)
    /\ \E e \in effects \cup {"nothing"} :
           venue' = IF e = "nothing" THEN venue ELSE [venue EXCEPT ![e] = @ + 1]
    /\ req' = [req EXCEPT ![r].pc = "failed.position", ![r].stage = stage]
    /\ UNCHANGED <<rows, snapshot, saves, worker, crashes>>

(***************************************************************************)
(* createDraftPositionIntent: the position row, then its session.          *)
(***************************************************************************)
CreatePosition(r) ==
    /\ At(r, "idle")
    /\ position = NoState
    /\ UpdatePositionState("draft")
    /\ Goto(r, "create.session")
    /\ UNCHANGED <<session, snapshot, saves, venue, worker, crashes>>

CreateSession(r) ==
    /\ At(r, "create.session")
    /\ UpdateExecutionSession("awaiting_signature", NoStage)
    /\ Return(r)
    /\ UNCHANGED <<position, snapshot, saves, venue, worker, crashes>>

(***************************************************************************)
(* executeSignedIntent.  The session's state is checked once, when it is   *)
(* read; each later assertTransition looks at the row this request wrote.  *)
(* The position row is not touched before the venue has answered.          *)
(***************************************************************************)
MayExecute_skipped == session.state # NoState        \* mutant: no assertTransition
MayExecute == Machine!CanTransition(session.state, "funding_in_progress")

ReadSession(r) ==
    /\ At(r, "idle")
    /\ MayExecute
    /\ Goto(r, "funding")
    /\ UNCHANGED <<rows, snapshot, saves, venue, worker, crashes>>

WriteFunding(r) == SessionStep(r, "funding", "funding_in_progress", "prepareFunding")

PrepareFunding_ignored(r) ==                         \* mutant: rejection ignored
    \/ Accepted(r, "prepareFunding", "funded", "executing") /\ UNCHANGED saves
    \/ /\ At(r, "prepareFunding")
       /\ Goto(r, "executing")
       /\ UNCHANGED <<rows, snapshot, saves, venue, worker, crashes>>
PrepareFunding(r) ==
    \/ Accepted(r, "prepareFunding", "funded", "executing") /\ UNCHANGED saves
    \/ Rejected(r, "prepareFunding", {}, "pre-funding")

WriteExecuting_both(r) ==                            \* mutant: both rows
    /\ At(r, "executing")
    /\ UpdatePositionState("executing_on_meteora")
    /\ UpdateExecutionSession("executing_on_meteora", NoStage)
    /\ Goto(r, "addLiquidity")
    /\ UNCHANGED <<snapshot, saves, venue, worker, crashes>>
WriteExecuting(r) ==
    SessionStep(r, "executing", "executing_on_meteora", "addLiquidity")

\* beginReconciliation is called, not awaited, before the rows move on.
AddLiquidity_stage(r) ==                             \* mutant: wrong stage
    \/ /\ Accepted(r, "addLiquidity", "added", "x.indexing.position")
       /\ saves' = Append(saves, "null")
    \/ Rejected(r, "addLiquidity", {"added"}, "pre-funding")
AddLiquidity_early(r) ==                             \* mutant: rows before the venue
    /\ At(r, "addLiquidity")
    /\ saves' = Append(saves, "null")
    /\ Goto(r, "x.indexing.position")
    /\ UNCHANGED <<rows, snapshot, venue, worker, crashes>>
AddLiquidity_unrecorded(r) ==                        \* mutant: failure not recorded
    \/ /\ Accepted(r, "addLiquidity", "added", "x.indexing.position")
       /\ saves' = Append(saves, "null")
    \/ /\ At(r, "addLiquidity")
       /\ Return(r)
       /\ UNCHANGED <<rows, snapshot, saves, venue, worker, crashes>>
AddLiquidity(r) ==
    \/ /\ Accepted(r, "addLiquidity", "added", "x.indexing.position")
       /\ saves' = Append(saves, "null")
    \/ Rejected(r, "addLiquidity", {"added"}, "funding-partial")

\* registerSnapshot, after the activity is recorded: not awaited either.
RegisterSnapshot_dropped(r) ==                       \* mutant: no save
    /\ At(r, "registerSnapshot")
    /\ Return(r)
    /\ UNCHANGED <<rows, snapshot, saves, venue, worker, crashes>>
RegisterSnapshot(r) ==
    /\ At(r, "registerSnapshot")
    /\ saves' = Append(saves, "signed")
    /\ Return(r)
    /\ UNCHANGED <<rows, snapshot, venue, worker, crashes>>

Execute(r) ==
    \/ ReadSession(r)
    \/ WriteFunding(r)
    \/ PrepareFunding(r)
    \/ WriteExecuting(r)
    \/ AddLiquidity(r)
    \/ PositionStep(r, "x.indexing.position", "indexing", "x.indexing.session")
    \/ SessionStep(r, "x.indexing.session", "indexing", "registerSnapshot")
    \/ RegisterSnapshot(r)

(***************************************************************************)
(* claimPosition and withdrawClosePosition: both rows must be active, one  *)
(* read after the other; then the same steps, a close with one stop more.  *)
(***************************************************************************)
ExitState == [claim |-> "claiming", close |-> "withdrawing"]
ExitEffect == [claim |-> "claimed", close |-> "closed"]

GetActivePosition(r) ==
    /\ At(r, "idle")
    /\ position = "active"
    /\ \E op \in Exits :
           req' = [req EXCEPT ![r].pc = "exit.readSession", ![r].op = op]
    /\ UNCHANGED <<rows, snapshot, saves, venue, worker, crashes>>

SessionActive_skipped == TRUE                        \* mutant: position only
SessionActive == session.state = "active"

GetLatestActiveSession(r) ==
    /\ At(r, "exit.readSession")
    /\ IF SessionActive THEN Goto(r, "exit.position") ELSE Return(r)
    /\ UNCHANGED <<rows, snapshot, saves, venue, worker, crashes>>

PrepareExit(r) ==
    \/ /\ At(r, "prepareExit")
       /\ Goto(r, "exit")
       /\ UNCHANGED <<rows, snapshot, saves, venue, worker, crashes>>
    \/ Rejected(r, "prepareExit", {}, "venue-submission")

VenueExit_unchecked(r) ==                            \* mutant: rejection ignored
    LET op   == req[r].op
        next == IF op = "claim" THEN "indexing.position" ELSE "closing.position"
    IN  \/ Accepted(r, "exit", ExitEffect[op], next) /\ UNCHANGED saves
        \/ /\ At(r, "exit")
           /\ Goto(r, next)
           /\ UNCHANGED <<rows, snapshot, saves, venue, worker, crashes>>
VenueExit(r) ==
    LET op   == req[r].op
        next == IF op = "claim" THEN "indexing.position" ELSE "closing.position"
    IN  \/ Accepted(r, "exit", ExitEffect[op], next) /\ UNCHANGED saves
        \/ Rejected(r, "exit", {ExitEffect[op]}, "venue-confirmation")

Exit(r) ==
    \/ GetActivePosition(r)
    \/ GetLatestActiveSession(r)
    \/ PositionStep(r, "exit.position", ExitState[req[r].op], "exit.session")
    \/ SessionStep(r, "exit.session", ExitState[req[r].op], "prepareExit")
    \/ PrepareExit(r)
    \/ VenueExit(r)
    \/ PositionStep(r, "closing.position", "closing", "closing.session")
    \/ SessionStep(r, "closing.session", "closing", "indexing.position")
    \/ PositionStep(r, "indexing.position", "indexing", "indexing.session")
    \/ SessionStep(r, "indexing.session", "indexing", "completed.position")
    \/ PositionStep(r, "completed.position", "completed", "completed.session")
    \/ SessionStep(r, "completed.session", "completed", "idle")

(***************************************************************************)
(* recordFailure: both rows, whatever they say by now.                     *)
(***************************************************************************)
FailSession(r) ==
    /\ At(r, "failed.session")
    /\ UpdateExecutionSession("failed", req[r].stage)
    /\ Goto(r, "idle")
    /\ UNCHANGED <<position, snapshot, saves, venue, worker, crashes>>

RecordFailure(r) ==
    \/ PositionStep(r, "failed.position", "failed", "failed.session")
    \/ FailSession(r)

(***************************************************************************)
(* getPosition: reads both rows and, if the session is indexing, runs the  *)
(* reconciler and activates the position that it saw inactive.             *)
(***************************************************************************)
GetRead(r) ==
    /\ At(r, "idle")
    /\ position # NoState
    /\ req' = [req EXCEPT ![r].pc = "get.session",
                          ![r].wasActive = (position = "active")]
    /\ UNCHANGED <<rows, snapshot, saves, venue, worker, crashes>>

GetSession(r) ==
    /\ At(r, "get.session")
    /\ IF session.state = "indexing" THEN Goto(r, "get.load") ELSE Return(r)
    /\ UNCHANGED <<rows, snapshot, saves, venue, worker, crashes>>

\* reconcile: the load; without a signature the position is reported delayed.
HasSignature == snapshot = "signed"

GetLoad(r) ==
    /\ At(r, "get.load")
    /\ IF HasSignature THEN Goto(r, "get.clear") ELSE Return(r)
    /\ UNCHANGED <<rows, snapshot, saves, venue, worker, crashes>>

GetClear_kept(r) ==                                  \* mutant: entry not cleared
    /\ At(r, "get.clear")
    /\ IF req[r].wasActive THEN Return(r) ELSE Goto(r, "get.position")
    /\ UNCHANGED <<rows, snapshot, saves, venue, worker, crashes>>
GetClear(r) ==
    /\ At(r, "get.clear")
    /\ snapshot' = "absent"
    /\ IF req[r].wasActive THEN Return(r) ELSE Goto(r, "get.position")
    /\ UNCHANGED <<rows, saves, venue, worker, crashes>>

Get(r) ==
    \/ GetRead(r)
    \/ GetSession(r)
    \/ GetLoad(r)
    \/ GetClear(r)
    \/ PositionStep(r, "get.position", "active", "get.activeSession")
    \/ SessionStep(r, "get.activeSession", "active", "idle")

(***************************************************************************)
(* The recovery worker.  A tick first looks for rows whose Position.state  *)
(* is executing_on_meteora: NoExecutingRow says that there are none, so    *)
(* only the scan for old indexing rows is an action.  How old a row is, is *)
(* left out: any time may pass between two steps.  Paging on new failures  *)
(* reads the position row and changes nothing modelled here.               *)
(***************************************************************************)
WorkerGoto(pc) == worker' = pc

WorkerScan ==
    /\ WorkerEnabled
    /\ worker = "idle"
    /\ position = "indexing"
    /\ WorkerGoto("load")
    /\ UNCHANGED <<rows, snapshot, saves, venue, req, crashes>>

WorkerLoad ==
    /\ worker = "load"
    /\ WorkerGoto(IF HasSignature THEN "clear" ELSE "idle")
    /\ UNCHANGED <<rows, snapshot, saves, venue, req, crashes>>

WorkerClear ==
    /\ worker = "clear"
    /\ snapshot' = "absent"
    /\ WorkerGoto("position")
    /\ UNCHANGED <<rows, saves, venue, req, crashes>>

\* advanceTo(position, "active")
WorkerPosition ==
    /\ worker = "position"
    /\ UpdatePositionState("active")
    /\ WorkerGoto("session")
    /\ UNCHANGED <<session, snapshot, saves, venue, req, crashes>>

WorkerSession ==
    /\ worker = "session"
    /\ UpdateExecutionSession("active", NoStage)
    /\ WorkerGoto("idle")
    /\ UNCHANGED <<position, snapshot, saves, venue, req, crashes>>

\* A call of a tick rejects: the error is caught per position.
WorkerThrows ==
    /\ AwaitsMayThrow
    /\ worker # "idle"
    /\ WorkerGoto("idle")
    /\ UNCHANGED <<rows, snapshot, saves, venue, req, crashes>>

Worker == WorkerScan \/ WorkerLoad \/ WorkerClear \/ WorkerPosition
          \/ WorkerSession \/ WorkerThrows

(***************************************************************************)
(* The environment: saves that land, errors, restarts.               *)
(***************************************************************************)
RemoveAt(s, i) == SubSeq(s, 1, i - 1) \o SubSeq(s, i + 1, Len(s))

SaveLands ==
    \E i \in DOMAIN saves :
        /\ SavesInOrder => i = 1
        /\ snapshot' = saves[i]
        /\ saves' = RemoveAt(saves, i)
        /\ UNCHANGED <<rows, venue, req, worker, crashes>>

\* A repository call or an activity record rejects, its write applied or not:
\* the request ends with a 500.  Only the venue's exit directly follows another
\* call that is inside a try block: see Rejected.
Throws(r) ==
    /\ AwaitsMayThrow
    /\ req[r].pc \notin {"idle", "exit"}
    /\ Return(r)
    /\ UNCHANGED <<rows, snapshot, saves, venue, worker, crashes>>

\* The process dies and comes back with nothing but the database.
Crash ==
    /\ crashes < MaxCrashes
    /\ crashes' = crashes + 1
    /\ req' = [r \in Requests |-> Idle]
    /\ saves' = <<>>
    /\ worker' = "idle"
    /\ UNCHANGED <<rows, snapshot, venue>>

Handler(r) == CreatePosition(r) \/ CreateSession(r) \/ Execute(r) \/ Exit(r)
              \/ RecordFailure(r) \/ Get(r)

Next ==
    \/ \E r \in Requests : Handler(r) \/ Throws(r)
    \/ Worker
    \/ SaveLands
    \/ Crash

Spec == Init /\ [][Next]_vars

\* Node runs every callback that is ready, Postgres and the venue answer, the
\* timer of the worker fires: a request in progress, a tick and a save go on.
\* Nobody has to send a request, and nothing has to crash or throw.
InProgress(r) == ~At(r, "idle") /\ Handler(r)
WorkerStep == WorkerScan \/ WorkerLoad \/ WorkerClear \/ WorkerPosition
              \/ WorkerSession
Fairness ==
    /\ \A r \in Requests : WF_vars(InProgress(r))
    /\ WF_vars(WorkerStep)
    /\ WF_vars(SaveLands)
FairSpec == Spec /\ Fairness

(***************************************************************************)
(* Properties.                                                             *)
(***************************************************************************)
PCs == {"idle", "create.session", "funding", "prepareFunding", "executing",
        "addLiquidity", "x.indexing.position", "x.indexing.session",
        "registerSnapshot", "exit.readSession", "exit.position",
        "exit.session", "prepareExit", "exit", "closing.position",
        "closing.session", "indexing.position", "indexing.session",
        "completed.position", "completed.session", "failed.position",
        "failed.session", "get.session", "get.load", "get.clear",
        "get.position", "get.activeSession"}

\* Rows, requests and the worker have the shape the handlers give them.
TypeOK ==
    /\ position \in States \cup {NoState}
    /\ session \in [state: States \cup {NoState}, stage: Stages \cup {NoStage}]
    /\ snapshot \in {"absent", "null", "signed"}
    /\ saves \in Seq({"null", "signed"})
    /\ venue \in [funded: Nat, added: Nat, claimed: Nat, closed: Nat]
    /\ req \in [Requests -> [pc: PCs, op: Exits \cup {NoOp}, stage: Stages \cup {NoStage},
                             wasActive: BOOLEAN]]
    /\ worker \in {"idle", "load", "clear", "position", "session"}
    /\ crashes \in 0 .. MaxCrashes

Landed == {"indexing", "active", "claiming", "withdrawing", "closing", "completed"}

\* No row says that a position is on the venue before liquidity was added
\* there, through any race of handlers, worker, errors and restarts.
LandedOnlyIfAdded ==
    position \in Landed \/ session.state \in Landed => venue.added > 0

\* No row says completed unless the venue has claimed or closed.
CompletedOnlyIfExited ==
    "completed" \in {position, session.state} => venue.claimed + venue.closed > 0

\* The position row is never executing_on_meteora (nor awaiting, nor funding):
\* executeSignedIntent moves the session only.  So the worker's first scan,
\* which selects positions by that state, never finds one.
NoExecutingRow ==
    position \notin {"awaiting_signature", "funding_in_progress",
                     "executing_on_meteora"}

\* A signature in the store, or on its way there, is of liquidity that landed.
SignatureOfRealAdd ==
    (snapshot = "signed" \/ \E i \in DOMAIN saves : saves[i] = "signed")
        => venue.added > 0

\* However many clients execute at once, and whatever is retried after errors
\* and restarts: addLiquidity of executeSignedIntent has taken effect at most
\* as often as prepareFunding, and nothing was claimed or closed before it.
MoneyInOrder ==
    /\ venue.added <= venue.funded
    /\ venue.claimed + venue.closed > 0 => venue.added > 0

\* One client at a time and no worker: funds move at most once each way, even
\* when the client retries after errors and restarts.
AtMostOnce ==
    /\ venue.funded <= 1
    /\ venue.added <= 1
    /\ venue.claimed + venue.closed <= 1

\* The stage shown to the user tells what happened: "before any funds moved"
\* (recovery.ts:23) or "rejected the submission" (recovery.ts:39).
StageIsTrue ==
    session.state = "failed" =>
        /\ session.stage = "pre-funding" => venue.funded = 0 /\ venue.added = 0
        /\ session.stage = "venue-submission" =>
               venue.claimed = 0 /\ venue.closed = 0

\* The session row goes through the table of execution-state-machine.ts.
FollowsMachine == Machine!Spec

Settled == position \in {"completed", "failed"}

\* A position that is completed or failed stays so.
TerminalIsFinal ==
    [][Settled => UNCHANGED position]_position

\* A position in indexing is resolved.
IndexingResolves == position = "indexing" ~> position # "indexing"

\* A restart, or a throw of an await, between WriteExecuting and the rows of the venue's
\* answer: the session says executing, the position draft, and no request carries on.
Executing == {"funding", "prepareFunding", "executing", "addLiquidity",
              "x.indexing.position", "x.indexing.session"}
Abandoned ==
    /\ position = "draft" /\ session.state = "executing_on_meteora"
    /\ \A r \in Requests :
           req[r].pc \notin Executing \cup {"failed.position", "failed.session"}

\* Nobody knows whether liquidity was added, so nothing may act on such a position
\* again: no execute, exit, poll, late save or tick, after any further restarts,
\* touches its rows or the venue.  The price is that nothing ever resolves it.
AbandonedIsInert ==
    [][Abandoned => Abandoned' /\ UNCHANGED <<rows, venue>>]_vars

\* "Advance stuck executing_on_meteora positions" (app.ts:224): a session
\* executing on Meteora is advanced or failed.  Not so after one restart.
ExecutingResolves ==
    session.state = "executing_on_meteora" ~>
        session.state # "executing_on_meteora"
=============================================================================
