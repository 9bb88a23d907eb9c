------------------------- MODULE ActivityApi_proofs -------------------------
(***************************************************************************)
(* Theorems about ActivityApi for any requests, users and transactions:    *)
(* whatever requests run at the same time and wherever the server dies,    *)
(* an activity is recorded once and whole, up to a price that the handler  *)
(* gave up, and the handler implements ActivityLog.                        *)
(***************************************************************************)
EXTENDS ActivityApi, FiniteSetTheorems, TLAPS

(* How the stage of a request, its kind and its answer belong together.    *)
Phases ==
  \A r \in Requests :
    /\ request[r] = Unsent <=> stage[r] = "idle"
    /\ answer[r] = "none" <=> stage[r] # "answered"
    /\ stage[r] \in {"checking", "reading", "writing"} =>
         request[r].type = "USER_ACTIVITY"
    /\ stage[r] \in {"upserting", "recording", "committing"} => IsLogged(r)

(* The committed event rows: one for a key, of requests that are past      *)
(* their transaction.                                                      *)
Events ==
  /\ \A e \in db.event :
       /\ e.id = EventId(e.by)
       /\ IsLogged(e.by)
       /\ stage[e.by] \in {"answering", "answered"}
  /\ \A e, f \in db.event : e.id = f.id => e.by = f.by

(* A request about to commit holds its key alone.                          *)
Holds ==
  /\ \A r \in Requests : stage[r] = "committing" => ~IsProcessed(r)
  /\ \A r, s \in Requests :
       /\ stage[r] = "committing" /\ stage[s] = "committing"
       /\ EventId(r) = EventId(s)
       => r = s

(* What a client is, or is about to be, told.                              *)
Answers ==
  \A r \in Requests : IsLogged(r) =>
    /\ stage[r] = "answering" => IsProcessed(r)
    /\ answer[r] = "ok" => HasEvent(r)
    /\ answer[r] = "already" => IsProcessed(r) /\ ~HasEvent(r)
    /\ answer[r] = "error" => ~HasEvent(r)

(* The other tables follow the event table.                                *)
Rows ==
  \A t \in Inserted, r \in Requests :
    r \in db.rows[t] <=> HasEvent(r) /\ t \in RowsOf(r)

IInv == TypeOK /\ Phases /\ Events /\ Holds /\ Answers /\ Rows

-----------------------------------------------------------------------------
(***************************************************************************)
(* What the operators make of a step.                                      *)
(***************************************************************************)
LEMMA Fields ==
  ASSUME TypeOK, NEW r \in Requests
  PROVE  /\ request[r].type \in {"USER_ACTIVITY", "FAILED_TRANSACTION",
                                 "MARKET_DATA", "UNSENT"}
         /\ request[r].type = "UNSENT" <=> request[r] = Unsent
         /\ request[r].type = "USER_ACTIVITY" =>
              request[r].user \in Users /\ request[r].tx \in Txs
         /\ request[r].type = "FAILED_TRANSACTION" => request[r].user \in Users
         /\ request[r].type = "MARKET_DATA" => request[r].pool \in Pools
<1>1. request[r] \in Request \cup {Unsent}
  BY DEF TypeOK
<1>2. CASE request[r] = Unsent
  BY <1>2 DEF Unsent
<1>3. CASE request[r] \in [type : {"USER_ACTIVITY"}, user : Users, tx : Txs]
  BY <1>3 DEF Unsent
<1>4. CASE request[r] \in [type : {"FAILED_TRANSACTION"}, user : Users]
  BY <1>4 DEF Unsent
<1>5. CASE request[r] \in [type : {"MARKET_DATA"}, pool : Pools]
  BY <1>5 DEF Unsent
<1> QED BY <1>1, <1>2, <1>3, <1>4, <1>5 DEF Request

LEMMA KeyType ==
  ASSUME TypeOK, NEW r \in Requests, IsLogged(r)
  PROVE  EventId(r) \in Txs \cup Requests
BY Fields DEF EventId, IsLogged

(* As long as no event is inserted, keys and events stay what they are.    *)
SameKeys ==
  \A r :
    /\ EventId(r)' = EventId(r)
    /\ IsLogged(r)' = IsLogged(r)

SameEvents ==
  \A r :
    /\ IsProcessed(r)' = IsProcessed(r)
    /\ HasEvent(r)' = HasEvent(r)

LEMMA Steady ==
  ASSUME UNCHANGED request, UNCHANGED db.event
  PROVE  SameKeys /\ SameEvents
BY DEF SameKeys, SameEvents, EventId, IsLogged, IsProcessed, HasEvent

(* A request that is recorded has, or has not, its price for good.         *)
PricesKept ==
  /\ unpriced' \in SUBSET Requests
  /\ \A r \in Requests : HasEvent(r) => (r \in unpriced' <=> r \in unpriced)

LEMMA SteadyRows ==
  ASSUME Rows, UNCHANGED request, UNCHANGED db.event, UNCHANGED db.rows,
         PricesKept
  PROVE  Rows'
<1>1. SameEvents
  BY Steady
<1>2. ASSUME NEW t \in Inserted, NEW r \in Requests, HasEvent(r)
      PROVE  t \in RowsOf(r)' <=> t \in RowsOf(r)
  BY <1>2 DEF RowsOf, PricesKept
<1> QED BY <1>1, <1>2 DEF Rows, SameEvents

(* A request without an event of its own that is not past its transaction. *)
LEMMA NoEventYet ==
  ASSUME Events, NEW r \in Requests, stage[r] \notin {"answering", "answered"}
  PROVE  ~HasEvent(r)
BY DEF Events, HasEvent

LEMMA EventIsProcessed ==
  ASSUME Events, NEW r \in Requests, HasEvent(r)
  PROVE  IsProcessed(r)
BY DEF Events, HasEvent, IsProcessed

-----------------------------------------------------------------------------
(***************************************************************************)
(* A step of one request that leaves the tables alone.                     *)
(***************************************************************************)

(* The stages a request may go to, and with which answer.                  *)
Move(r, s, word) ==
  /\ stage' = [stage EXCEPT ![r] = s]
  /\ answer' = [answer EXCEPT ![r] = word]
  /\ stage[r] \notin {"idle", "answered"}
  /\ s # "idle"
  /\ s = "answered" <=> word # "none"
  /\ s \in {"checking", "reading", "writing"} =>
       request[r].type = "USER_ACTIVITY"
  /\ s \in {"received", "upserting", "recording", "committing"} => IsLogged(r)
  /\ s = "committing" =>
       /\ ~IsProcessed(r)
       /\ \A q \in Others(r, {"committing"}) : EventId(q) # EventId(r)
  /\ HasEvent(r) => s \in {"answering", "answered"}
  /\ IsLogged(r) =>
       /\ s = "answering" => IsProcessed(r)
       /\ word = "ok" => HasEvent(r)
       /\ word = "already" => IsProcessed(r) /\ ~HasEvent(r)
       /\ word = "error" => ~HasEvent(r)

LEMMA MoveKeepsInvariant ==
  ASSUME IInv, NEW r \in Requests, NEW s \in Stages,
         NEW word \in {"none", "ok", "already", "error", "lost"},
         Move(r, s, word), UNCHANGED request, UNCHANGED db, PricesKept
  PROVE  IInv'
<1> USE DEF IInv
<1>1. SameKeys /\ SameEvents
  BY Steady
<1>2. /\ stage \in [Requests -> Stages]
      /\ answer \in [Requests -> {"none", "ok", "already", "error", "lost"}]
  BY DEF TypeOK
<1>3. TypeOK'
  BY <1>2 DEF TypeOK, Move, PricesKept
<1>4. Phases'
  BY <1>1, <1>2 DEF Phases, Move, SameKeys
<1>5. Events'
  BY <1>1, <1>2 DEF Events, HasEvent, Move, SameKeys, TypeOK
<1>6. Holds'
  BY <1>1, <1>2 DEF Holds, Others, Move, SameKeys, SameEvents
<1>7. Answers'
  BY <1>1, <1>2 DEF Answers, Move, SameKeys, SameEvents
<1>8. Rows'
  BY SteadyRows
<1> QED BY <1>3, <1>4, <1>5, <1>6, <1>7, <1>8

(* Each of these steps is a move, from the guards of the action.           *)
LEMMA HandlersMove ==
  ASSUME IInv, NEW r \in Requests,
         \/ PreCheck(r) \/ Recheck(r) \/ UpsertParents(r) \/ ReadChain(r)
         \/ WriteRows(r) \/ RecordEvent(r) \/ Answer(r) \/ Abort(r)
  PROVE  /\ UNCHANGED request /\ UNCHANGED db /\ PricesKept
         /\ \E s \in Stages,
               word \in {"none", "ok", "already", "error", "lost"} :
              Move(r, s, word)
<1> USE DEF IInv
<1> DEFINE Goal ==
      \E s \in Stages, word \in {"none", "ok", "already", "error", "lost"} :
        Move(r, s, word)
<1>0. /\ stage[r] \in Stages
      /\ answer \in [Requests -> {"none", "ok", "already", "error", "lost"}]
  BY DEF TypeOK
<1>1. ASSUME stage[r] \notin {"idle", "answered"}
      PROVE  /\ answer = [answer EXCEPT ![r] = "none"]
             /\ request[r].type \in
                  {"USER_ACTIVITY", "FAILED_TRANSACTION", "MARKET_DATA"}
  BY <1>0, <1>1, Fields DEF Phases
<1>2. HasEvent(r) => stage[r] \in {"answering", "answered"}
  BY NoEventYet
<1>3. HasEvent(r) => IsProcessed(r)
  BY EventIsProcessed
<1>3a. PricesKept
  <2>1. CASE ReadChain(r)
    BY <1>2, <2>1 DEF ReadChain, PricesKept, TypeOK
  <2>2. CASE UNCHANGED unpriced
    BY <2>2 DEF PricesKept, TypeOK
  <2> QED BY <2>1, <2>2 DEF PreCheck, Recheck, UpsertParents, WriteRows,
      RecordEvent, Answer, Abort
<1>3b. UNCHANGED request /\ UNCHANGED db
  BY DEF PreCheck, Recheck, UpsertParents, ReadChain, WriteRows, RecordEvent,
     Answer, Abort
<1> SUFFICES Goal
  BY <1>3a, <1>3b
<1>4. CASE PreCheck(r)
  <2>1. CASE request[r].type = "USER_ACTIVITY" /\ IsProcessed(r)
    <3>1. Move(r, "answered", "already")
      BY <1>2, <1>4, <2>1 DEF PreCheck, Move, MoveTo, Respond, IsLogged
    <3> QED BY <1>4, <3>1 DEF PreCheck, Stages
  <2>2. CASE request[r].type = "USER_ACTIVITY" /\ ~IsProcessed(r)
    <3>1. Move(r, "checking", "none")
      BY <1>1, <1>2, <1>4, <2>2 DEF PreCheck, Move, MoveTo, IsLogged
    <3> QED BY <1>4, <3>1 DEF PreCheck, Stages, InTransaction
  <2>3. CASE request[r].type = "FAILED_TRANSACTION"
    <3>1. Move(r, "upserting", "none")
      BY <1>1, <1>2, <1>4, <2>3 DEF PreCheck, Move, MoveTo, IsLogged
    <3> QED BY <1>4, <3>1 DEF PreCheck, Stages, InTransaction
  <2> QED BY <1>4, <2>1, <2>2, <2>3 DEF PreCheck
<1>5. CASE Recheck(r)
  <2>1. request[r].type = "USER_ACTIVITY"
    BY <1>5 DEF Recheck, Phases
  <2>2. CASE IsProcessed(r)
    <3>1. Move(r, "answering", "none")
      BY <1>1, <1>5, <2>1, <2>2 DEF Recheck, Move, MoveTo, IsLogged
    <3> QED BY <1>5, <3>1 DEF Recheck, Stages
  <2>3. CASE ~IsProcessed(r)
    <3>1. Move(r, "upserting", "none")
      BY <1>1, <1>2, <1>5, <2>1, <2>3 DEF Recheck, Move, MoveTo, IsLogged
    <3> QED BY <1>5, <3>1 DEF Recheck, Stages, InTransaction
  <2> QED BY <2>2, <2>3
<1>6. CASE UpsertParents(r)
  <2>1. IsLogged(r)
    BY <1>6 DEF UpsertParents, Phases
  <2>2. CASE request[r].type = "USER_ACTIVITY"
    <3>1. Move(r, "reading", "none")
      BY <1>1, <1>2, <1>6, <2>1, <2>2 DEF UpsertParents, Move, MoveTo
    <3> QED BY <1>6, <3>1 DEF UpsertParents, Stages, InTransaction
  <2>3. CASE request[r].type # "USER_ACTIVITY"
    <3>1. Move(r, "recording", "none")
      BY <1>1, <1>2, <1>6, <2>1, <2>3 DEF UpsertParents, Move, MoveTo
    <3> QED BY <1>6, <3>1 DEF UpsertParents, Stages, InTransaction
  <2> QED BY <2>2, <2>3
<1>7. CASE ReadChain(r)
  <2>1. Move(r, "writing", "none")
    BY <1>1, <1>2, <1>7 DEF ReadChain, Move, MoveTo, Phases
  <2> QED BY <1>7, <2>1 DEF ReadChain, Stages, InTransaction
<1>8. CASE WriteRows(r)
  <2>1. Move(r, "recording", "none")
    BY <1>1, <1>2, <1>8 DEF WriteRows, Move, MoveTo, Phases, IsLogged
  <2> QED BY <1>8, <2>1 DEF WriteRows, Stages, InTransaction
<1>9. CASE RecordEvent(r)
  <2>1. IsLogged(r) /\ ~HasEvent(r)
    BY <1>2, <1>9 DEF RecordEvent, Phases
  <2>2. CASE stage'[r] = "answered"
    <3>1. Move(r, "answered", "error")
      BY <1>0, <1>9, <2>1, <2>2 DEF RecordEvent, Move, MoveTo, Refuse, Respond,
         TypeOK
    <3> QED BY <1>9, <3>1 DEF RecordEvent, Stages
  <2>3. CASE stage'[r] # "answered"
    <3>1. Move(r, "committing", "none")
      BY <1>1, <1>9, <2>1, <2>3 DEF RecordEvent, Move, MoveTo, Refuse, Respond,
         TypeOK
    <3> QED BY <1>9, <3>1 DEF RecordEvent, Stages, InTransaction
  <2> QED BY <2>2, <2>3
<1>10. CASE Answer(r)
  <2>1. CASE request[r].type = "MARKET_DATA" \/ HasEvent(r)
    <3>1. Move(r, "answered", "ok")
      BY <1>10, <2>1 DEF Answer, Move, MoveTo, Respond, IsLogged
    <3> QED BY <1>10, <3>1 DEF Answer, Stages
  <2>2. CASE ~(request[r].type = "MARKET_DATA" \/ HasEvent(r))
    <3>1. Move(r, "answered", "already")
      BY <1>10, <2>2 DEF Answer, Move, MoveTo, Respond, Answers
    <3> QED BY <1>10, <3>1 DEF Answer, Stages
  <2> QED BY <2>1, <2>2
<1>11. CASE Abort(r)
  <2>1. Move(r, "answered", "error")
    BY <1>2, <1>11 DEF Abort, Move, MoveTo, Refuse, Respond, InTransaction
  <2> QED BY <1>11, <2>1 DEF Abort, Stages
<1> QED
  BY <1>4, <1>5, <1>6, <1>7, <1>8, <1>9, <1>10, <1>11

-----------------------------------------------------------------------------
(***************************************************************************)
(* The other steps.                                                        *)
(***************************************************************************)
LEMMA InitInvariant == Init => IInv
<1> SUFFICES ASSUME Init PROVE IInv
  OBVIOUS
<1> USE DEF Init
<1>1. \A r \in Requests : ~IsLogged(r)
  BY DEF IsLogged, Unsent
<1>2. \A r : ~HasEvent(r)
  BY DEF HasEvent
<1>3. TypeOK
  BY DEF TypeOK, Stages, Unsent
<1>4. Phases
  BY DEF Phases
<1>5. Events /\ Holds /\ Answers
  BY <1>1 DEF Events, Holds, Answers
<1>6. Rows
  BY <1>2 DEF Rows
<1> QED BY <1>3, <1>4, <1>5, <1>6 DEF IInv

LEMMA SendKeepsInvariant ==
  ASSUME IInv, NEW r \in Requests, Send(r)
  PROVE  IInv'
<1> USE DEF IInv
<1>1. PICK b \in Request : request' = [request EXCEPT ![r] = b]
  BY DEF Send
<1>2. /\ stage[r] = "idle"
      /\ stage' = [stage EXCEPT ![r] = "received"]
      /\ UNCHANGED <<answer, unpriced, db>>
  BY DEF Send, MoveTo
<1>3. /\ request \in [Requests -> Request \cup {Unsent}]
      /\ stage \in [Requests -> Stages]
      /\ request[r] = Unsent
      /\ b # Unsent
  BY <1>2 DEF TypeOK, Phases, Request, Unsent
<1>4. /\ \A q \in Requests \ {r} : /\ EventId(q)' = EventId(q)
                                   /\ IsLogged(q)' = IsLogged(q)
                                   /\ RowsOf(q)' = RowsOf(q)
                                   /\ IsProcessed(q)' = IsProcessed(q)
      /\ \A q : HasEvent(q)' = HasEvent(q)
  BY <1>1, <1>2, <1>3
     DEF EventId, IsLogged, RowsOf, HasEvent, IsProcessed, TypeOK
<1>5. ~HasEvent(r)
  BY <1>2, NoEventYet
<1>6. TypeOK'
  BY <1>1, <1>2, <1>3 DEF TypeOK, Stages
<1>7. Phases'
  BY <1>1, <1>2, <1>3, <1>4 DEF Phases
<1>8. Events'
  BY <1>2, <1>3, <1>4, <1>5 DEF Events, HasEvent, TypeOK
<1>9. Holds'
  BY <1>2, <1>3, <1>4 DEF Holds
<1>10. Answers'
  BY <1>2, <1>3, <1>4, <1>5 DEF Answers, Phases
<1>11. Rows'
  BY <1>2, <1>4, <1>5 DEF Rows
<1> QED BY <1>6, <1>7, <1>8, <1>9, <1>10, <1>11

(* The event is inserted: the key was free, and nobody else holds it.      *)
LEMMA CommitKeepsInvariant ==
  ASSUME IInv, NEW r \in Requests, Commit(r)
  PROVE  IInv'
<1> USE DEF IInv
<1> DEFINE event == [id |-> EventId(r), by |-> r]
<1>1. /\ stage[r] = "committing"
      /\ stage' = [stage EXCEPT ![r] = "answering"]
      /\ UNCHANGED <<request, answer, unpriced>>
      /\ db' = Committed(r)
  BY DEF Commit, MoveTo
<1>2. IsLogged(r) /\ ~IsProcessed(r) /\ ~HasEvent(r)
  BY <1>1, NoEventYet DEF Phases, Holds
<1>3. /\ stage \in [Requests -> Stages]
      /\ db.rows \in [Inserted -> SUBSET Requests]
  BY DEF TypeOK
<1>4. /\ db'.event = db.event \cup {event}
      /\ db'.rows = [t \in Inserted |-> IF t \in RowsOf(r)
                                        THEN db.rows[t] \cup {r}
                                        ELSE db.rows[t]]
  BY <1>1 DEF Committed, TypeOK
<1>5. SameKeys /\ \A q : RowsOf(q)' = RowsOf(q)
  BY <1>1 DEF SameKeys, EventId, IsLogged, RowsOf
<1>6. /\ \A q : IsProcessed(q)' <=> IsProcessed(q) \/ EventId(q) = EventId(r)
      /\ \A q : HasEvent(q)' <=> HasEvent(q) \/ q = r
  <2>1. event.id = EventId(r) /\ event.by = r
    OBVIOUS
  <2> HIDE DEF event
  <2>2. ASSUME NEW q
        PROVE  IsProcessed(q)' <=> IsProcessed(q) \/ EventId(q) = EventId(r)
    <3>1. IsProcessed(q)' <=> \E e \in db'.event : e.id = EventId(q)
      BY <1>5 DEF IsProcessed, SameKeys
    <3> QED BY <1>4, <2>1, <3>1 DEF IsProcessed
  <2>3. ASSUME NEW q PROVE HasEvent(q)' <=> HasEvent(q) \/ q = r
    BY <1>4, <2>1 DEF HasEvent
  <2> QED BY <2>2, <2>3
<1>7. TypeOK'
  <2>1. EventId(r) \in Txs \cup Requests
    BY <1>2, KeyType
  <2>2. request[r].user \in Users
    BY <1>2, Fields DEF IsLogged
  <2>3. Committed(r) \in [user : SUBSET Users,
                          market : SUBSET (Pools \cup {"default"}),
                          event : SUBSET [id : Txs \cup Requests, by : Requests],
                          rows : [Inserted -> SUBSET Requests],
                          position : SUBSET Users]
    <3>1. db \in [user : SUBSET Users,
                  market : SUBSET (Pools \cup {"default"}),
                  event : SUBSET [id : Txs \cup Requests, by : Requests],
                  rows : [Inserted -> SUBSET Requests],
                  position : SUBSET Users]
      BY DEF TypeOK
    <3>2. event \in [id : Txs \cup Requests, by : Requests]
      BY <2>1
    <3>3. [t \in Inserted |-> IF t \in RowsOf(r) THEN db.rows[t] \cup {r}
                             ELSE db.rows[t]] \in [Inserted -> SUBSET Requests]
      BY <1>3
    <3> QED BY <2>2, <3>1, <3>2, <3>3 DEF Committed
  <2> QED BY <1>1, <1>3, <2>3 DEF TypeOK, Stages
<1>8. Phases'
  BY <1>1, <1>3, <1>5 DEF Phases, SameKeys
<1>9. Events'
  <2>1. \A e \in db.event : e.id # EventId(r)
    BY <1>2 DEF IsProcessed
  <2> QED BY <1>1, <1>2, <1>3, <1>4, <1>5, <2>1 DEF Events, SameKeys, TypeOK
<1>10. Holds'
  BY <1>1, <1>3, <1>5, <1>6 DEF Holds, SameKeys
<1>11. Answers'
  BY <1>1, <1>3, <1>5, <1>6 DEF Answers, Phases, SameKeys
<1>12. Rows'
  BY <1>2, <1>3, <1>4, <1>5, <1>6 DEF Rows, SameKeys
<1> QED BY <1>7, <1>8, <1>9, <1>10, <1>11, <1>12

(* The market table alone changes, here or through the other writer.       *)
LEMMA MarketKeepsInvariant ==
  ASSUME IInv, NEW pools \in SUBSET (Pools \cup {"default"}),
         db' = [db EXCEPT !.market = @ \cup pools],
         UNCHANGED <<request, answer, unpriced>>,
         \/ UNCHANGED stage
         \/ \E r \in Requests : /\ request[r].type = "MARKET_DATA"
                                /\ stage[r] = "received"
                                /\ stage' = [stage EXCEPT ![r] = "answering"]
  PROVE  IInv'
<1> USE DEF IInv
<1>1. /\ stage \in [Requests -> Stages]
      /\ db'.event = db.event /\ db'.rows = db.rows
  BY DEF TypeOK
<1>2. SameKeys /\ SameEvents
  BY <1>1, Steady
<1>3. TypeOK'
  BY <1>1 DEF TypeOK, Stages
<1>4. Phases'
  BY <1>1, <1>2 DEF Phases, SameKeys
<1>5. Events'
  BY <1>1, <1>2 DEF Events, SameKeys, TypeOK
<1>6. Holds'
  BY <1>1, <1>2 DEF Holds, SameKeys, SameEvents
<1>7. Answers'
  BY <1>1, <1>2 DEF Answers, IsLogged, SameKeys, SameEvents
<1>8. Rows'
  BY <1>1, SteadyRows DEF PricesKept, TypeOK
<1> QED BY <1>3, <1>4, <1>5, <1>6, <1>7, <1>8

(* The requests in progress are forgotten, what is committed stays.        *)
LEMMA CrashKeepsInvariant ==
  ASSUME IInv, Crash
  PROVE  IInv'
<1> USE DEF IInv
<1>1. SameKeys /\ SameEvents
  BY Steady DEF Crash
<1>2. /\ stage \in [Requests -> Stages]
      /\ answer \in [Requests -> {"none", "ok", "already", "error", "lost"}]
  BY DEF TypeOK
<1>3. \A r \in Requests :
        \/ stage[r] = "idle" /\ stage'[r] = "idle" /\ answer'[r] = answer[r]
        \/ /\ stage[r] = "answered" /\ stage'[r] = "answered"
           /\ answer'[r] = answer[r]
        \/ /\ stage[r] # "idle"
           /\ stage'[r] = "answered" /\ answer'[r] = "lost"
  BY <1>2 DEF Crash, InProgress
<1>4. TypeOK'
  BY <1>2 DEF TypeOK, Crash, Stages
<1>5. Phases'
  BY <1>1, <1>3 DEF Phases, Crash, SameKeys
<1>6. Events'
  BY <1>1, <1>3 DEF Events, Crash, SameKeys, TypeOK
<1>7. Holds'
  BY <1>3 DEF Holds
<1>8. Answers'
  BY <1>1, <1>3 DEF Answers, SameKeys, SameEvents
<1>9. Rows'
  BY SteadyRows DEF Crash, PricesKept, TypeOK
<1> QED BY <1>4, <1>5, <1>6, <1>7, <1>8, <1>9

LEMMA InvariantStep == IInv /\ [Next]_vars => IInv'
<1> SUFFICES ASSUME IInv, [Next]_vars PROVE IInv'
  OBVIOUS
<1>1. ASSUME NEW r \in Requests, Send(r) PROVE IInv'
  BY <1>1, SendKeepsInvariant
<1>2. ASSUME NEW r \in Requests, Handle(r) PROVE IInv'
  <2>1. CASE \/ PreCheck(r) \/ Recheck(r) \/ UpsertParents(r) \/ ReadChain(r)
             \/ WriteRows(r) \/ RecordEvent(r) \/ Answer(r) \/ Abort(r)
    BY <2>1, HandlersMove, MoveKeepsInvariant
  <2>2. CASE Commit(r)
    BY <2>2, CommitKeepsInvariant
  <2>3. CASE UpdateMarket(r)
    <3>1. request[r].pool \in Pools
      BY <2>3, Fields DEF UpdateMarket, IInv
    <3>2. {request[r].pool} \in SUBSET (Pools \cup {"default"})
      BY <3>1
    <3>3. /\ db' = [db EXCEPT !.market = @ \cup {request[r].pool}]
          /\ UNCHANGED <<request, answer, unpriced>>
          /\ request[r].type = "MARKET_DATA"
          /\ stage[r] = "received"
          /\ stage' = [stage EXCEPT ![r] = "answering"]
      BY <2>3 DEF UpdateMarket, MoveTo
    <3> QED BY <3>2, <3>3, MarketKeepsInvariant
  <2> QED BY <1>2, <2>1, <2>2, <2>3 DEF Handle
<1>3. CASE Crash
  BY <1>3, CrashKeepsInvariant
<1>4. CASE SyncDatabase
  BY <1>4, MarketKeepsInvariant DEF SyncDatabase
<1>5. CASE UNCHANGED vars
  BY <1>5 DEF IInv, TypeOK, Phases, Events, Holds, Answers, Rows, EventId,
     IsLogged, IsProcessed, HasEvent, RowsOf, vars
<1> QED BY <1>1, <1>2, <1>3, <1>4, <1>5 DEF Next

-----------------------------------------------------------------------------
(***************************************************************************)
(* The abstract log: what each request asks for, what is recorded and what *)
(* the clients were told.                                                  *)
(***************************************************************************)
key == [r \in Requests |-> IF IsLogged(r) THEN EventId(r) ELSE "none"]
recorded == {e.by : e \in db.event}
reply == [r \in Requests |-> IF IsLogged(r) THEN answer[r] ELSE "none"]

LEMMA RecordedHaveEvents == \A r : r \in recorded <=> HasEvent(r)
BY DEF recorded, HasEvent

LEMMA InitRefines == Init => Log!Init
<1> SUFFICES ASSUME Init PROVE Log!Init
  OBVIOUS
<1>1. \A r \in Requests : ~IsLogged(r)
  BY DEF Init, IsLogged, Unsent
<1> QED BY <1>1 DEF Init, Log!Init

(* A step that changes neither keys nor events, and answers only requests  *)
(* that had no answer, with the truth: a Reply of the log, or a stutter.   *)
LEMMA ReplyRefines ==
  ASSUME IInv, IInv', UNCHANGED request, UNCHANGED db.event,
         \A r \in Requests : answer'[r] # answer[r] => answer[r] = "none"
  PROVE  [Log!Next]_(Log!vars)
<1>1. SameKeys /\ SameEvents
  BY Steady
<1>2. key' = key /\ recorded' = recorded
  BY <1>1 DEF key, recorded, SameKeys
<1>3. /\ answer \in [Requests -> {"none", "ok", "already", "error", "lost"}]
      /\ answer' \in [Requests -> {"none", "ok", "already", "error", "lost"}]
  BY DEF IInv, TypeOK
<1>4. reply' \in [Requests -> {"none", "ok", "already", "error", "lost"}]
  BY <1>3 DEF reply
<1>5. ASSUME NEW r \in Requests, reply'[r] # reply[r]
      PROVE  /\ reply[r] = "none" /\ key[r] # "none"
             /\ Log!Confirms(r, reply'[r])
  <2>1. /\ IsLogged(r)
        /\ reply[r] = answer[r] /\ reply'[r] = answer'[r]
        /\ key[r] = EventId(r)
    BY <1>1, <1>5 DEF reply, key, SameKeys
  <2>2. answer[r] = "none" /\ EventId(r) \in Txs \cup Requests
    BY <1>5, <2>1, KeyType DEF IInv
  <2>3. EventId(r) # "none"
    BY <2>2, ApiConstants
  <2>4. CASE answer'[r] = "ok"
    <3>1. r \in recorded
      BY <1>1, <2>1, <2>4, RecordedHaveEvents
         DEF IInv, Answers, SameKeys, SameEvents
    <3> QED BY <2>1, <2>2, <2>3, <2>4, <3>1 DEF Log!Confirms, recorded
  <2>5. CASE answer'[r] = "error"
    <3>1. r \notin recorded
      BY <1>1, <2>1, <2>5, RecordedHaveEvents
         DEF IInv, Answers, SameKeys, SameEvents
    <3> QED BY <2>1, <2>2, <2>3, <2>5, <3>1 DEF Log!Confirms, recorded
  <2>6. CASE answer'[r] = "already"
    <3>1. IsProcessed(r) /\ ~HasEvent(r)
      BY <1>1, <2>1, <2>6 DEF IInv, Answers, SameKeys, SameEvents
    <3>2. PICK e \in db.event : e.id = EventId(r)
      BY <3>1 DEF IsProcessed
    <3>3. /\ e.by \in Requests /\ IsLogged(e.by) /\ EventId(e.by) = EventId(r)
      BY <3>2 DEF IInv, TypeOK, Events
    <3>4. e.by \in recorded /\ r \notin recorded
      BY <3>1, <3>2, RecordedHaveEvents DEF recorded
    <3>5. key[e.by] = key[r]
      BY <2>1, <3>3 DEF key
    <3> QED BY <2>1, <2>2, <2>3, <2>6, <3>3, <3>4, <3>5
            DEF Log!Confirms, recorded, key
  <2>7. CASE answer'[r] = "lost"
    BY <2>1, <2>2, <2>3, <2>7 DEF Log!Confirms
  <2> QED BY <1>3, <1>5, <2>1, <2>2, <2>4, <2>5, <2>6, <2>7
<1>6. Log!Reply
  BY <1>2, <1>4, <1>5 DEF Log!Reply, key, recorded, reply
<1> QED BY <1>6 DEF Log!Next

LEMMA SendRefines ==
  ASSUME IInv, NEW r \in Requests, Send(r)
  PROVE  [Log!Next]_(Log!vars)
<1>1. PICK b \in Request : request' = [request EXCEPT ![r] = b]
  BY DEF Send
<1>2. /\ request \in [Requests -> Request \cup {Unsent}]
      /\ request[r] = Unsent /\ answer[r] = "none" /\ ~IsLogged(r)
      /\ UNCHANGED <<answer, db>>
  BY DEF Send, IInv, TypeOK, Phases, IsLogged, Unsent
<1>3. \A q \in Requests \ {r} : /\ EventId(q)' = EventId(q)
                                /\ IsLogged(q)' = IsLogged(q)
  BY <1>1, <1>2 DEF EventId, IsLogged
<1>4. recorded' = recorded
  BY <1>2 DEF recorded
<1>5. reply' = reply
  BY <1>2, <1>3 DEF reply
<1>6. CASE ~IsLogged(r)'
  <2>1. key' = key
    BY <1>2, <1>3, <1>6 DEF key
  <2> QED BY <1>4, <1>5, <2>1 DEF Log!vars, key, recorded, reply
<1>7. CASE IsLogged(r)'
  <2>1. TypeOK'
    BY SendKeepsInvariant DEF IInv
  <2>2. EventId(r)' \in Txs \cup Requests
    BY <1>1, <1>2, <1>7, <2>1
       DEF EventId, IsLogged, TypeOK, Request, Unsent
  <2>3. key[r] = "none" /\ key' = [key EXCEPT ![r] = EventId(r)']
    BY <1>2, <1>3, <1>7 DEF key
  <2>4. Log!Submit(r)
    BY <1>4, <1>5, <2>2, <2>3 DEF Log!Submit, key, recorded, reply
  <2> QED BY <2>4 DEF Log!Next
<1> QED BY <1>6, <1>7

LEMMA CommitRefines ==
  ASSUME IInv, NEW r \in Requests, Commit(r)
  PROVE  [Log!Next]_(Log!vars)
<1>1. /\ stage[r] = "committing"
      /\ UNCHANGED <<request, answer>>
      /\ db' = Committed(r)
  BY DEF Commit
<1>2. IsLogged(r) /\ ~IsProcessed(r) /\ answer[r] = "none"
  BY <1>1 DEF IInv, Phases, Holds
<1>3. db'.event = db.event \cup {[id |-> EventId(r), by |-> r]}
  BY <1>1 DEF Committed, IInv, TypeOK
<1>4. recorded' = recorded \cup {r}
  <2> DEFINE event == [id |-> EventId(r), by |-> r]
  <2>1. event.by = r /\ db'.event = db.event \cup {event}
    BY <1>3
  <2> HIDE DEF event
  <2>2. recorded' = {e.by : e \in db'.event}
    BY DEF recorded
  <2> QED BY <2>1, <2>2 DEF recorded
<1>5. key' = key /\ reply' = reply
  BY <1>1 DEF key, reply, EventId, IsLogged
<1>6. key[r] = EventId(r) /\ key[r] # "none" /\ reply[r] = "none"
  BY <1>2, KeyType, ApiConstants DEF IInv, key, reply
<1>7. ASSUME NEW q \in recorded PROVE key[q] # key[r]
  <2>1. PICK e \in db.event : e.by = q
    BY DEF recorded
  <2>2. q \in Requests /\ key[q] = e.id
    BY <2>1 DEF IInv, TypeOK, Events, key
  <2> QED BY <1>2, <1>6, <2>1, <2>2 DEF IsProcessed
<1>8. Log!Record(r)
  BY <1>4, <1>5, <1>6, <1>7 DEF Log!Record, key, recorded, reply
<1> QED BY <1>8 DEF Log!Next

LEMMA StepRefines == IInv /\ [Next]_vars => [Log!Next]_(Log!vars)
<1> SUFFICES ASSUME IInv, [Next]_vars PROVE [Log!Next]_(Log!vars)
  OBVIOUS
<1>0. IInv'
  BY InvariantStep
<1>1. /\ answer \in [Requests -> {"none", "ok", "already", "error", "lost"}]
  BY DEF IInv, TypeOK
<1>2. ASSUME NEW r \in Requests, Send(r) PROVE [Log!Next]_(Log!vars)
  BY <1>2, SendRefines
<1>3. ASSUME NEW r \in Requests, Handle(r) PROVE [Log!Next]_(Log!vars)
  <2>1. CASE \/ PreCheck(r) \/ Recheck(r) \/ UpsertParents(r) \/ ReadChain(r)
             \/ WriteRows(r) \/ RecordEvent(r) \/ Answer(r) \/ Abort(r)
    <3>1. PICK s \in Stages, word \in {"none", "ok", "already", "error", "lost"} :
            Move(r, s, word)
      BY <2>1, HandlersMove
    <3>2. UNCHANGED request /\ UNCHANGED db
      BY <2>1, HandlersMove
    <3>3. \A q \in Requests : answer'[q] # answer[q] => answer[q] = "none"
      BY <1>1, <3>1 DEF Move, IInv, Phases
    <3> QED BY <1>0, <3>2, <3>3, ReplyRefines
  <2>2. CASE Commit(r)
    BY <2>2, CommitRefines
  <2>3. CASE UpdateMarket(r)
    <3>1. UNCHANGED request /\ UNCHANGED answer /\ UNCHANGED db.event
      BY <2>3 DEF UpdateMarket, IInv, TypeOK
    <3> QED BY <1>0, <3>1, ReplyRefines
  <2> QED BY <1>3, <2>1, <2>2, <2>3 DEF Handle
<1>4. CASE Crash
  <2>1. \A r \in Requests : answer'[r] # answer[r] => answer[r] = "none"
    BY <1>4 DEF Crash, InProgress, IInv, Phases
  <2> QED BY <1>0, <1>4, <2>1, ReplyRefines DEF Crash
<1>5. CASE SyncDatabase
  <2>1. UNCHANGED request /\ UNCHANGED answer /\ UNCHANGED db.event
    BY <1>5 DEF SyncDatabase, IInv, TypeOK
  <2> QED BY <1>0, <2>1, ReplyRefines
<1>6. CASE UNCHANGED vars
  BY <1>0, <1>6, ReplyRefines DEF vars
<1> QED BY <1>2, <1>3, <1>4, <1>5, <1>6 DEF Next

-----------------------------------------------------------------------------
(***************************************************************************)
(* Theorems.                                                               *)
(***************************************************************************)
(* The inductive invariant holds throughout.                               *)
THEOREM Invariance == Spec => []IInv
<1>1. Init => IInv
  BY InitInvariant
<1>2. IInv /\ [Next]_vars => IInv'
  BY InvariantStep
<1> QED BY <1>1, <1>2, PTL DEF Spec

(* The tables, the stages and the answers stay what the schema and the     *)
(* handler allow, whatever happens between two awaits.                     *)
THEOREM TypeCorrect == Spec => []TypeOK
<1>1. IInv => TypeOK
  BY DEF IInv
<1> QED BY <1>1, Invariance, PTL

LEMMA WholeRecords == IInv => RecordedWhole
<1> SUFFICES ASSUME IInv, NEW t \in Txs
             PROVE  LET by == recorded \cap Requesting(t) IN
                    /\ Cardinality(by) <= 1
                    /\ \A table \in Inserted \ {"priceData"} :
                         db.rows[table] \cap Requesting(t) = by
                    /\ db.rows["priceData"] \cap Requesting(t) = by \ unpriced
  BY DEF RecordedWhole, recorded
<1> DEFINE by == recorded \cap Requesting(t)
<1>1. ASSUME NEW r \in Requesting(t)
      PROVE  /\ r \in Requests /\ IsLogged(r) /\ EventId(r) = t
             /\ \A table \in Inserted \ {"priceData"} : table \in RowsOf(r)
             /\ "priceData" \in RowsOf(r) <=> r \notin unpriced
  BY <1>1 DEF Requesting, IsLogged, RowsOf, EventId, Inserted
<1>2. ASSUME NEW table \in Inserted \ {"priceData"}
      PROVE  db.rows[table] \cap Requesting(t) = by
  BY <1>1, RecordedHaveEvents DEF IInv, Rows
<1>3. db.rows["priceData"] \cap Requesting(t) = by \ unpriced
  BY <1>1, RecordedHaveEvents DEF IInv, Rows, Inserted
<1>4. ASSUME NEW r \in by, NEW s \in by
      PROVE  r = s
  <2>1. PICK e \in db.event : e.by = r
    BY DEF recorded
  <2>2. PICK f \in db.event : f.by = s
    BY DEF recorded
  <2>3. e.id = t /\ f.id = t
    BY <1>1, <2>1, <2>2 DEF IInv, Events
  <2> QED BY <2>1, <2>2, <2>3 DEF IInv, Events
<1>5. Cardinality(by) <= 1
  <2>1. CASE by = {}
    BY <2>1, FS_EmptySet
  <2>2. CASE by # {}
    <3>1. PICK r : by = {r}
      BY <1>4, <2>2
    <3> QED BY <3>1, FS_Singleton
  <2> QED BY <2>1, <2>2
<1> QED BY <1>2, <1>3, <1>5

(* A transaction hash is recorded once, its event, statistics and activity *)
(* rows together, or not at all, for any requests that log it at once and  *)
(* any failures half way; only a price that updatePriceData gave up is     *)
(* missing, and no price outlives a request that recorded nothing.         *)
THEOREM RecordsAreWhole == Spec => []RecordedWhole
<1> QED BY WholeRecords, Invariance, PTL

(* The handler implements ActivityLog: what clients see is a log to which  *)
(* activities are added in one step each.                                  *)
THEOREM HandlerImplementsLog == Spec => ImplementsLog
<1>1. Init => Log!Init
  BY InitRefines
<1>2. IInv /\ [Next]_vars => [Log!Next]_(Log!vars)
  BY StepRefines
<1> QED BY <1>1, <1>2, Invariance, PTL DEF Spec, ImplementsLog, Log!Spec
=============================================================================
