---------------------------- MODULE ActivityApi ----------------------------
(***************************************************************************)
(* frontend/pages/api/activity.ts, the POST handler that writes what users *)
(* did to PostgreSQL, with its clients in services/database.ts.  Requests  *)
(* run concurrently; each await is a step.  The statements of a            *)
(* prisma.$transaction become visible together when it commits (read       *)
(* committed); a statement on a row that another open transaction has      *)
(* written waits for that transaction.  Timeouts, RPC and database errors  *)
(* roll a transaction back; the server may be killed at any moment.        *)
(***************************************************************************)
EXTENDS Naturals, FiniteSets

CONSTANTS
  Requests,    (* identities of HTTP requests                              *)
  Users,
  Txs,         (* transaction hashes                                       *)
  Pools        (* pool ids of MARKET_DATA                                  *)

ASSUME ApiConstants ==
  /\ Requests \cap Txs = {}
  /\ "none" \notin Requests \cup Txs
  /\ "default" \notin Pools

VARIABLES
  request,     (* the body of every request                                *)
  stage,       (* how far the handler is with it                           *)
  answer,      (* what the client was told, "lost" when it never will be   *)
  unpriced,    (* the requests whose transaction went on without its price *)
  db           (* the committed tables                                     *)

vars == <<request, stage, answer, unpriced, db>>

-----------------------------------------------------------------------------
Unsent == [type |-> "UNSENT"]

Request ==
  [type : {"USER_ACTIVITY"}, user : Users, tx : Txs]
    \cup [type : {"FAILED_TRANSACTION"}, user : Users]
    \cup [type : {"MARKET_DATA"}, pool : Pools]

(* Every row of these tables gets a uuid: it is named by its request.      *)
Inserted == {"priceData", "protocolStats", "userActivity", "marketActivity"}

(* The stages of the handler, in the order of its awaits.                  *)
InTransaction ==
  {"checking", "upserting", "reading", "writing", "recording",
   "committing"}
Stages == {"idle", "received", "answering", "answered"} \cup InTransaction

TypeOK ==
  /\ request \in [Requests -> Request \cup {Unsent}]
  /\ stage \in [Requests -> Stages]
  /\ answer \in [Requests -> {"none", "ok", "already", "error", "lost"}]
  /\ unpriced \in SUBSET Requests
  /\ db \in [user : SUBSET Users,
             market : SUBSET (Pools \cup {"default"}),
             event : SUBSET [id : Txs \cup Requests, by : Requests],
             rows : [Inserted -> SUBSET Requests],
             position : SUBSET Users]

Init ==
  /\ request = [r \in Requests |-> Unsent]
  /\ stage = [r \in Requests |-> "idle"]
  /\ answer = [r \in Requests |-> "none"]
  /\ unpriced = {}
  /\ db = [user |-> {}, market |-> {}, event |-> {},
           rows |-> [t \in Inserted |-> {}],
           position |-> {}]

-----------------------------------------------------------------------------
(* Mutant of EventId: a fresh id for every request.                        *)
EventIdFresh(r) == r

(* Mutant of EventId: the key is the user.                                 *)
EventIdOfUser(r) == request[r].user

(* The primary key of the event row: the transaction hash, or a random id  *)
(* for a failed transaction.                                               *)
EventId(r) ==
  IF request[r].type = "USER_ACTIVITY" THEN request[r].tx ELSE r

IsProcessed(r) == \E e \in db.event : e.id = EventId(r)
HasEvent(r)    == \E e \in db.event : e.by = r

Others(r, stages) == {s \in Requests \ {r} : stage[s] \in stages}

(* Another open transaction has inserted, and not committed, a row that r  *)
(* would insert.                                                           *)
UpsertBlocked(r) ==
  \E s \in Others(r, {"reading", "writing", "recording", "committing"}) :
    \/ request[s].user = request[r].user /\ request[r].user \notin db.user
    \/ /\ request[s].type = "USER_ACTIVITY"
       /\ request[r].type = "USER_ACTIVITY"
       /\ "default" \notin db.market

MoveTo(r, s) == stage' = [stage EXCEPT ![r] = s]

Respond(r, word) ==
  /\ MoveTo(r, "answered")
  /\ answer' = [answer EXCEPT ![r] = word]

(* Mutant of Refuse: the outer catch block answers like the others.        *)
RefuseSilently(r) == Respond(r, "ok")

(* The catch block around the handler: status 500.                         *)
Refuse(r) == Respond(r, "error")

Send(r) ==
  /\ stage[r] = "idle"
  /\ \E b \in Request : request' = [request EXCEPT ![r] = b]
  /\ MoveTo(r, "received")
  /\ UNCHANGED <<answer, unpriced, db>>

(* The duplicate check before the transaction; a failed transaction gets   *)
(* an id of its own instead and needs none.                                *)
PreCheck(r) ==
  /\ stage[r] = "received"
  /\ \/ /\ request[r].type = "USER_ACTIVITY"
        /\ IF IsProcessed(r) THEN Respond(r, "already")
           ELSE MoveTo(r, "checking") /\ UNCHANGED answer
     \/ /\ request[r].type = "FAILED_TRANSACTION"
        /\ MoveTo(r, "upserting")
        /\ UNCHANGED answer
  /\ UNCHANGED <<request, unpriced, db>>

(* The second check, inside the transaction, which then returns early.     *)
Recheck(r) ==
  /\ stage[r] = "checking"
  /\ MoveTo(r, IF IsProcessed(r) THEN "answering" ELSE "upserting")
  /\ UNCHANGED <<request, answer, unpriced, db>>

(* The user row and, for an activity, the market row "default".            *)
UpsertParents(r) ==
  /\ stage[r] = "upserting"
  /\ ~UpsertBlocked(r)
  /\ MoveTo(r, IF request[r].type = "USER_ACTIVITY" THEN "reading"
               ELSE "recording")
  /\ UNCHANGED <<request, answer, unpriced, db>>

(* The reads of the chain and the rows written from them.  The position    *)
(* and the price have defaults when the node does not answer.  An insert   *)
(* of the price that fails before it reaches the database, as for a body   *)
(* that names no token, is only reported: the transaction goes on without  *)
(* the row.  Without the protocol statistics the request fails: see Abort. *)
ReadChain(r) ==
  /\ stage[r] = "reading"
  /\ unpriced' \in {unpriced, unpriced \cup {r}}
  /\ MoveTo(r, "writing")
  /\ UNCHANGED <<request, answer, db>>

(* userActivity and marketActivity, then the position, whose row is locked *)
(* until the transaction ends.                                             *)
WriteRows(r) ==
  /\ stage[r] = "writing"
  /\ \A s \in Others(r, {"recording", "committing"}) :
       request[s].type = "USER_ACTIVITY" => request[s].user # request[r].user
  /\ MoveTo(r, "recording")
  /\ UNCHANGED <<request, answer, unpriced, db>>

(* The event row last.  Another open insert of the same key is waited for, *)
(* a committed one is a unique violation, and a missing market row breaks  *)
(* the foreign key.                                                        *)
RecordEvent(r) ==
  /\ stage[r] = "recording"
  /\ \A s \in Others(r, {"committing"}) : EventId(s) # EventId(r)
  /\ IF IsProcessed(r) \/ (/\ request[r].type = "FAILED_TRANSACTION"
                           /\ "default" \notin db.market)
     THEN Refuse(r)
     ELSE MoveTo(r, "committing") /\ UNCHANGED answer
  /\ UNCHANGED <<request, unpriced, db>>

(* The tables with a row of their own for the request.                     *)
RowsOf(r) ==
  IF request[r].type # "USER_ACTIVITY" THEN {"userActivity"}
  ELSE IF r \in unpriced THEN Inserted \ {"priceData"} ELSE Inserted

(* The tables after the transaction of r.                                  *)
Committed(r) ==
  [db EXCEPT
    !.user = @ \cup {request[r].user},
    !.market = IF request[r].type = "USER_ACTIVITY" THEN @ \cup {"default"}
               ELSE @,
    !.event = @ \cup {[id |-> EventId(r), by |-> r]},
    !.rows = [t \in Inserted |->
                IF t \in RowsOf(r) THEN @[t] \cup {r} ELSE @[t]],
    !.position = IF request[r].type = "USER_ACTIVITY"
                 THEN @ \cup {request[r].user} ELSE @]

Commit(r) ==
  /\ stage[r] = "committing"
  /\ db' = Committed(r)
  /\ MoveTo(r, "answering")
  /\ UNCHANGED <<request, answer, unpriced>>

(* Mutant of Answer: the early return of Recheck sends no response.        *)
AnswerRecorded(r) ==
  /\ stage[r] = "answering"
  /\ request[r].type = "MARKET_DATA" \/ HasEvent(r)
  /\ Respond(r, "ok")
  /\ UNCHANGED <<request, unpriced, db>>

(* Status 200 with what the transaction returned.                          *)
Answer(r) ==
  /\ stage[r] = "answering"
  /\ Respond(r, IF request[r].type = "MARKET_DATA" \/ HasEvent(r) THEN "ok"
                ELSE "already")
  /\ UNCHANGED <<request, unpriced, db>>

(* Rolled back: the 10 s timeout of the transaction, a statement or a call *)
(* to the node that fails; also the check before the transaction may fail. *)
Abort(r) ==
  /\ stage[r] \in InTransaction \cup {"received"}
  /\ Refuse(r)
  /\ UNCHANGED <<request, unpriced, db>>

(* MARKET_DATA is one upsert of the pool's market row.                     *)
UpdateMarket(r) ==
  /\ stage[r] = "received"
  /\ request[r].type = "MARKET_DATA"
  /\ db' = [db EXCEPT !.market = @ \cup {request[r].pool}]
  /\ MoveTo(r, "answering")
  /\ UNCHANGED <<request, answer, unpriced>>

Handle(r) ==
  \/ PreCheck(r) \/ Recheck(r) \/ UpsertParents(r) \/ ReadChain(r)
  \/ WriteRows(r) \/ RecordEvent(r) \/ Commit(r)
  \/ Answer(r) \/ Abort(r) \/ UpdateMarket(r)

(* The server process dies: PostgreSQL rolls open transactions back, the   *)
(* clients of all requests in progress get no answer.                      *)
InProgress == {r \in Requests : stage[r] \notin {"idle", "answered"}}

Crash ==
  /\ InProgress # {}
  /\ stage' = [r \in Requests |-> IF r \in InProgress THEN "answered" ELSE stage[r]]
  /\ answer' = [r \in Requests |-> IF r \in InProgress THEN "lost" ELSE answer[r]]
  /\ UNCHANGED <<request, unpriced, db>>

(* services/IntegrationService.ts: a deployment script creates or updates  *)
(* the market row "default".                                               *)
SyncDatabase ==
  /\ "default" \notin db.market
  /\ db' = [db EXCEPT !.market = @ \cup {"default"}]
  /\ UNCHANGED <<request, stage, answer, unpriced>>

Next ==
  \/ \E r \in Requests : Send(r) \/ Handle(r)
  \/ Crash
  \/ SyncDatabase

(* The event loop of Node runs every ready continuation, and every await   *)
(* ends: the database waits at most 10 s, a call to the node times out.    *)
Spec == Init /\ [][Next]_vars /\ \A r \in Requests : WF_vars(Handle(r))

-----------------------------------------------------------------------------
Requesting(t) ==
  {r \in Requests : request[r].type = "USER_ACTIVITY" /\ request[r].tx = t}

(* A transaction hash is recorded by at most one of the requests that log  *)
(* it, with its event, its statistics and both activity rows together or   *)
(* with none of them: whatever requests for the same hash do at the same   *)
(* time and whatever fails half way.  Only the price row may be missing,   *)
(* where updatePriceData let the transaction continue, and no price row is *)
(* left of a request that recorded nothing.                                *)
RecordedWhole ==
  \A t \in Txs :
    LET by == {e.by : e \in db.event} \cap Requesting(t) IN
    /\ Cardinality(by) <= 1
    /\ \A table \in Inserted \ {"priceData"} :
         db.rows[table] \cap Requesting(t) = by
    /\ db.rows["priceData"] \cap Requesting(t) = by \ unpriced

(* Every request that reaches the server is answered, or its answer is     *)
(* lost in a crash; none hangs behind another one.                         *)
EveryRequestAnswered ==
  \A r \in Requests : (stage[r] = "received") ~> (stage[r] = "answered")

(* The log this handler implements; market data is not part of it.         *)
IsLogged(r) == request[r].type \in {"USER_ACTIVITY", "FAILED_TRANSACTION"}

Log == INSTANCE ActivityLog WITH
  Keys     <- Txs \cup Requests,
  NoKey    <- "none",
  key      <- [r \in Requests |-> IF IsLogged(r) THEN EventId(r) ELSE "none"],
  recorded <- {e.by : e \in db.event},
  reply    <- [r \in Requests |-> IF IsLogged(r) THEN answer[r] ELSE "none"]

(* Activities are recorded once, in one step, and no client is told so     *)
(* that cannot rely on it: the handler implements ActivityLog.             *)
ImplementsLog == Log!Spec

(* pages/index.tsx:410: a liquidation is logged "for borrower (the one     *)
(* being liquidated)" and for the liquidator; whoever is told that an      *)
(* activity is recorded finds it among its own activities.                 *)
EveryParticipantRecorded ==
  \A r \in Requests :
    /\ request[r].type = "USER_ACTIVITY"
    /\ answer[r] \in {"ok", "already"}
    => \E s \in db.rows["userActivity"] :
         /\ request[s].type = "USER_ACTIVITY"
         /\ request[s].user = request[r].user
         /\ request[s].tx = request[r].tx
=============================================================================
