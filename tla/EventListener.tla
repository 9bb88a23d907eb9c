--------------------------- MODULE EventListener ---------------------------
(***************************************************************************)
(* The contract listeners of frontend/pages/index.tsx within one load of   *)
(* the page.  A React effect registers them on fresh contract objects, so  *)
(* the removeAllListeners of a later run cannot reach those of an earlier  *)
(* one: an effect keeps receiving events after its cleanup.  The number of *)
(* the last processed block lives outside the component and is shared by   *)
(* all runs of the effect.  A transaction emits one event, so the maps     *)
(* keyed by its hash never meet the same hash twice within a run.          *)
(*                                                                         *)
(* No event need ever be delivered: the node may fail, and the cleanup can *)
(* remove MarketDataUpdated listeners, also those of a later run with the  *)
(* same apiManager.                                                        *)
(***************************************************************************)
EXTENDS Naturals, FiniteSets

CONSTANTS
  Kinds,        (* the kinds of contract events that are listened to       *)
  MaxBlock,     (* bound: the chain stops at this block                    *)
  MaxEvents,    (* bound: a block has so many events                       *)
  MaxEffects    (* bound: the effect runs so often                         *)

ASSUME ListenerConstants ==
  /\ MaxBlock \in Nat
  /\ MaxEvents \in Nat
  /\ MaxEffects \in Nat

VARIABLES
  head,                (* the latest block                                 *)
  mined,               (* the events in the blocks                         *)
  lastProcessedBlock,  (* the watermark                                    *)
  effects,             (* how many times the effect has run                *)
  live,                (* the run without isCleanedUp, 0 for none          *)
  from,                (* the block from which a run's listeners get events*)
  seen,                (* the events delivered to each run                 *)
  timers,              (* the debounce timers of each run                  *)
  posted,              (* the requests to the activity API, never removed  *)
  connecting,          (* the number the connection handler has read       *)
  lowered              (* history variable: an assignment lowered the      *)
                       (* watermark                                        *)

chain   == <<head, mined>>
runs    == <<effects, live, from>>
logging == <<seen, timers, posted>>
vars == <<chain, lastProcessedBlock, runs, logging, connecting, lowered>>

Effects == 1..MaxEffects
Event   == [block : 1..MaxBlock, kind : Kinds]

(* Who an event is logged for.                                             *)
Parts(kind) ==
  IF kind = "Liquidate" THEN {"liquidator", "borrower"} ELSE {"user"}

Post(e, ev, part) == [by |-> e, event |-> ev, part |-> part]

NotListening  == MaxBlock + 1
NotConnecting == MaxBlock + 1
AboutToRead   == MaxBlock + 2

TypeOK ==
  /\ head \in 0..MaxBlock
  /\ mined \subseteq Event
  /\ lastProcessedBlock \in 0..head
  /\ effects \in 0..MaxEffects
  /\ live \in {0, effects}
  /\ from \in [Effects -> 0..NotListening]
  /\ seen \in [Effects -> SUBSET mined]
  /\ \A e \in Effects : timers[e] \subseteq seen[e]
  /\ \A p \in posted : p.event \in seen[p.by] /\ p.part \in Parts(p.event.kind)
  /\ connecting \in 0..AboutToRead
  /\ lowered \in BOOLEAN

Init ==
  /\ head = 0
  /\ mined = {}
  /\ lastProcessedBlock = 0
  /\ effects = 0
  /\ live = 0
  /\ from = [e \in Effects |-> NotListening]
  /\ seen = [e \in Effects |-> {}]
  /\ timers = [e \in Effects |-> {}]
  /\ posted = {}
  /\ connecting = NotConnecting
  /\ lowered = FALSE

-----------------------------------------------------------------------------
(* A block with at most one event of each kind.                            *)
Mine ==
  /\ head < MaxBlock
  /\ head' = head + 1
  /\ \E kinds \in {K \in SUBSET Kinds : Cardinality(K) <= MaxEvents} :
       mined' = mined \cup {[block |-> head + 1, kind |-> k] : k \in kinds}
  /\ UNCHANGED <<lastProcessedBlock, runs, logging, connecting, lowered>>

(* The cleanup of the live run clears its timers.                          *)
CleanUp == timers' = [e \in Effects |-> IF e = live THEN {} ELSE timers[e]]

(* The effect runs again because provider or apiManager changed.           *)
RunEffect ==
  /\ effects < MaxEffects
  /\ CleanUp
  /\ effects' = effects + 1
  /\ live' = effects + 1
  /\ UNCHANGED <<chain, lastProcessedBlock, from, seen, posted, lowered>>

(* handleNetworkChange and handleChainChanged set another provider.        *)
ChangeProvider == live # 0 /\ RunEffect /\ UNCHANGED connecting

(* handleWalletConnection and handleAccountsChanged: provider and          *)
(* apiManager are set, then the block number is asked for.                 *)
Connect ==
  /\ connecting = NotConnecting
  /\ RunEffect
  /\ connecting' = AboutToRead

(* handleAccountsChanged without accounts.                                 *)
Disconnect ==
  /\ live # 0
  /\ CleanUp
  /\ live' = 0
  /\ UNCHANGED <<chain, lastProcessedBlock, effects, from, seen, posted,
                 connecting, lowered>>

(* The node answers getBlockNumber, or fails.                              *)
ReadBlockNumber ==
  /\ connecting = AboutToRead
  /\ connecting' \in {head, NotConnecting}
  /\ UNCHANGED <<chain, lastProcessedBlock, runs, logging, lowered>>

(* The answer reaches the page: the watermark is assigned, not raised.     *)
AssignWatermark ==
  /\ connecting <= MaxBlock
  /\ lastProcessedBlock' = connecting
  /\ lowered' = (lowered \/ connecting < lastProcessedBlock)
  /\ connecting' = NotConnecting
  /\ UNCHANGED <<chain, runs, logging>>

(* setupContractListeners after its await: isCleanedUp is not looked at    *)
(* again.  The first poll of a provider includes the current block.  When  *)
(* getContracts throws, the run stays without listeners.                   *)
SetUp(e) ==
  /\ e <= effects
  /\ from[e] = NotListening
  /\ from' = [from EXCEPT ![e] = head]
  /\ UNCHANGED <<chain, lastProcessedBlock, effects, live, logging, connecting,
                 lowered>>

-----------------------------------------------------------------------------
Awaited(e) == {ev \in mined \ seen[e] : ev.block >= from[e]}

(* The logs of each kind are polled for separately and come in the order   *)
(* of the blocks.                                                          *)
IsNext(e, ev) ==
  /\ ev \in Awaited(e)
  /\ \A other \in Awaited(e) : other.kind = ev.kind => ev.block <= other.block

(* Mutant of IsOld: no watermark.                                          *)
IsOldNever(ev) == FALSE

IsOld(ev) == ev.block <= lastProcessedBlock

(* The listener returns early.                                             *)
Skips(e, ev) == IsOld(ev) \/ (ev.kind = "MarketDataUpdated" /\ e # live)

Skip(e, ev) ==
  /\ IsNext(e, ev)
  /\ Skips(e, ev)
  /\ seen' = [seen EXCEPT ![e] = @ \cup {ev}]
  /\ UNCHANGED <<chain, lastProcessedBlock, runs, timers, posted, connecting,
                 lowered>>

(* Mutant of Raised: the watermark is taken for the next block to process. *)
RaisedAhead(ev) == ev.block + 1

Raised(ev) == ev.block

(* processEvent and processLiquidateEvent arm a timer, without a look at   *)
(* isCleanedUp; the market listener posts at once.                         *)
Accept(e, ev) ==
  /\ IsNext(e, ev)
  /\ ~Skips(e, ev)
  /\ seen' = [seen EXCEPT ![e] = @ \cup {ev}]
  /\ lastProcessedBlock' = Raised(ev)
  /\ IF ev.kind = "MarketDataUpdated"
     THEN posted' = posted \cup {Post(e, ev, "user")} /\ UNCHANGED timers
     ELSE timers' = [timers EXCEPT ![e] = @ \cup {ev}] /\ UNCHANGED posted
  /\ UNCHANGED <<chain, runs, connecting, lowered>>

(* Mutant of MayPost: isCleanedUp is not looked at.                        *)
MayPostAlways(e) == TRUE

MayPost(e) == e = live

FirstPart(kind) == IF kind = "Liquidate" THEN "liquidator" ELSE "user"

(* 500 ms later.                                                           *)
FireTimer(e, ev) ==
  /\ ev \in timers[e]
  /\ timers' = [timers EXCEPT ![e] = @ \ {ev}]
  /\ posted' = IF MayPost(e) THEN posted \cup {Post(e, ev, FirstPart(ev.kind))}
               ELSE posted
  /\ UNCHANGED <<chain, lastProcessedBlock, runs, seen, connecting, lowered>>

(* Mutant of PostForBorrower: only the live run goes on.                   *)
PostForBorrowerNever(e, ev) == FALSE /\ UNCHANGED vars

(* The request for the liquidator ended, well or not: the borrower's.      *)
PostForBorrower(e, ev) ==
  /\ Post(e, ev, "liquidator") \in posted
  /\ Post(e, ev, "borrower") \notin posted
  /\ posted' = posted \cup {Post(e, ev, "borrower")}
  /\ UNCHANGED <<chain, lastProcessedBlock, runs, seen, timers, connecting,
                 lowered>>

Log(e) ==
  \E ev \in seen[e] : FireTimer(e, ev) \/ PostForBorrower(e, ev)

Next ==
  \/ Mine \/ ChangeProvider \/ Connect \/ Disconnect
  \/ ReadBlockNumber \/ AssignWatermark
  \/ \E e \in Effects :
       SetUp(e) \/ Log(e) \/ \E ev \in mined : Skip(e, ev) \/ Accept(e, ev)

(* The browser fires every timer, and every fetch ends.                    *)
Spec == Init /\ [][Next]_vars /\ \A e \in Effects : WF_vars(Log(e))

-----------------------------------------------------------------------------
(* However often the effect is run again, and although an earlier run      *)
(* still gets all events, no two runs post the same event, unless a slow   *)
(* connection handler set the watermark back.                              *)
PostedOnce ==
  ~lowered => \A p, q \in posted : p.event = q.event => p.by = q.by

(* Only the live run begins to log an event; what an earlier run has begun *)
(* it finishes (the borrower of a liquidation).                            *)
OnlyLiveRunLogs ==
  [][\A p \in posted' \ posted : p.part # "borrower" => p.by = live]_vars

CaughtUp ==
  \A e \in Effects :
    /\ timers[e] = {}
    /\ \A ev \in Event :
         Post(e, ev, "liquidator") \in posted => Post(e, ev, "borrower") \in posted

(* Every armed timer fires or is cleared, and a liquidation that is logged *)
(* for its liquidator is logged for its borrower too, though the run be    *)
(* cleaned up in between.                                                  *)
LoggingCatchesUp == ~CaughtUp ~> CaughtUp
=============================================================================
