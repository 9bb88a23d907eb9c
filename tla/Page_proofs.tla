----------------------------- MODULE Page_proofs -----------------------------
(***************************************************************************)
(* Theorems about the two halves of frontend/pages/index.tsx, for all      *)
(* values of the constants.  EventListener: the shared watermark keeps two *)
(* runs of the effect from logging the same event, and only the live run   *)
(* starts to log.  NetworkSession: whatever locks the page during a switch *)
(* of the network comes with something that unlocks it.                    *)
(***************************************************************************)
EXTENDS EventListener, NetworkSession, TLAPS

(* The variables that hold functions and sets of requests do so.           *)
Shape ==
  /\ timers \in [Effects -> SUBSET Event]
  /\ \A p \in posted : /\ p.by \in Effects /\ p.event \in Event
                       /\ p = Post(p.by, p.event, p.part)

(* No block number that was read, and no event, is beyond the chain.       *)
Past ==
  /\ connecting \in 0..head \cup {NotConnecting, AboutToRead}
  /\ \A ev \in mined : ev.block <= head

(* Run e has taken event ev up for logging.                                *)
Took(e, ev) ==
  ev \in timers[e] \/ \E p \in posted : p.by = e /\ p.event = ev

(* What was taken up is not above the watermark,                           *)
BelowWatermark ==
  ~lowered => \A e \in Effects, ev \in Event :
                Took(e, ev) => ev.block <= lastProcessedBlock

(* and was taken up by one run.                                            *)
TakenOnce ==
  ~lowered => \A e, f \in Effects, ev \in Event :
                Took(e, ev) /\ Took(f, ev) => e = f

IInv == TypeOK /\ Shape /\ Past /\ BelowWatermark /\ TakenOnce
-----------------------------------------------------------------------------
(***************************************************************************)
(* The invariant, action by action.                                        *)
(***************************************************************************)
LEMMA Numbers ==
  ASSUME TypeOK
  PROVE  /\ head \in Nat /\ head <= MaxBlock /\ MaxBlock \in Nat
         /\ lastProcessedBlock \in Nat /\ lastProcessedBlock <= head
         /\ effects \in Nat /\ effects <= MaxEffects /\ MaxEffects \in Nat
         /\ \A ev \in Event : ev.block \in 1..MaxBlock
         /\ \A ev \in mined : ev \in Event
BY ListenerConstants DEF TypeOK, Event

LEMMA InitInvariant == Init => IInv
<1> SUFFICES ASSUME Init PROVE IInv
  OBVIOUS
<1> USE DEF Init
<1>1. TypeOK
  <2>1. /\ NotListening \in 0..NotListening
        /\ NotConnecting \in 0..AboutToRead
        /\ MaxBlock \in Nat /\ MaxEffects \in Nat
    BY ListenerConstants DEF NotListening, NotConnecting, AboutToRead
  <2>2. /\ from \in [Effects -> 0..NotListening]
        /\ seen \in [Effects -> SUBSET mined]
        /\ \A e \in Effects : timers[e] \subseteq seen[e]
    BY <2>1
  <2>3. /\ head \in 0..MaxBlock /\ lastProcessedBlock \in 0..head
        /\ effects \in 0..MaxEffects /\ live \in {0, effects}
        /\ connecting \in 0..AboutToRead
    BY <2>1
  <2>4. /\ mined \subseteq Event
        /\ \A p \in posted : /\ p.event \in seen[p.by]
                             /\ p.part \in Parts(p.event.kind)
    OBVIOUS
  <2>5. lowered \in BOOLEAN
    OBVIOUS
  <2> QED BY <2>2, <2>3, <2>4, <2>5 DEF TypeOK
<1>2. Shape /\ Past
  BY DEF Shape, Past
<1>3. BelowWatermark /\ TakenOnce
  BY DEF BelowWatermark, TakenOnce, Took
<1> QED BY <1>1, <1>2, <1>3 DEF IInv

(* Nothing is taken up and the watermark stays.                            *)
LEMMA NothingTaken ==
  ASSUME IInv, UNCHANGED <<lastProcessedBlock, lowered>>,
         \A e \in Effects, ev \in Event : Took(e, ev)' => Took(e, ev)
  PROVE  BelowWatermark' /\ TakenOnce'
BY DEF IInv, BelowWatermark, TakenOnce

(* The variables of the log stay.                                          *)
LEMMA LogStays ==
  ASSUME IInv, UNCHANGED <<lastProcessedBlock, lowered, timers, posted>>
  PROVE  Shape' /\ BelowWatermark' /\ TakenOnce'
<1>1. \A e \in Effects, ev \in Event : Took(e, ev)' => Took(e, ev)
  BY DEF Took
<1> QED BY <1>1, NothingTaken DEF IInv, Shape

LEMMA MineKeeps ==
  ASSUME IInv, Mine
  PROVE  IInv'
<1> USE DEF IInv
<1>1. /\ head < MaxBlock /\ head' = head + 1
      /\ UNCHANGED <<lastProcessedBlock, runs, logging, connecting, lowered>>
  BY DEF Mine
<1>2. head' \in 0..MaxBlock /\ lastProcessedBlock \in 0..head'
      /\ 0..head \subseteq 0..head'
  BY <1>1, Numbers
<1>3. mined \subseteq mined' /\ mined' \subseteq Event
  <2>1. PICK K \in SUBSET Kinds :
          mined' = mined \cup {[block |-> head + 1, kind |-> k] : k \in K}
    BY DEF Mine
  <2>2. \A k \in K : [block |-> head + 1, kind |-> k] \in Event
    BY <1>1, Numbers DEF Event
  <2>3. mined \subseteq Event
    BY DEF TypeOK
  <2> QED BY <2>1, <2>2, <2>3
<1>4. TypeOK'
  BY <1>1, <1>2, <1>3 DEF TypeOK, runs, logging
<1>5. Past'
  <2>1. \A ev \in mined' : ev.block <= head'
    <3>1. \A ev \in mined : ev.block \in Nat /\ ev.block <= head
      BY Numbers DEF Past
    <3>2. \A ev \in mined' : ev \in mined \/ ev.block = head + 1
      BY DEF Mine
    <3> QED BY <1>1, <3>1, <3>2, Numbers
  <2> QED BY <1>1, <1>2, <2>1 DEF Past
<1> QED BY <1>1, <1>4, <1>5, LogStays DEF logging

(* A run that is cleaned up loses its timers.                              *)
LEMMA CleanUpKeeps ==
  ASSUME IInv, CleanUp, UNCHANGED <<lastProcessedBlock, posted, lowered>>
  PROVE  /\ Shape' /\ BelowWatermark' /\ TakenOnce'
         /\ \A e \in Effects : timers'[e] \subseteq timers[e]
<1> USE DEF IInv
<1>1. \A e \in Effects : timers'[e] \subseteq timers[e]
  BY DEF CleanUp
<1>2. timers' \in [Effects -> SUBSET Event]
  <2>1. \A e \in Effects :
          (IF e = live THEN {} ELSE timers[e]) \in SUBSET Event
    BY DEF Shape
  <2> QED BY <2>1 DEF CleanUp
<1>3. Shape'
  BY <1>2 DEF Shape
<1>4. \A e \in Effects, ev \in Event : Took(e, ev)' => Took(e, ev)
  BY <1>1 DEF Took
<1> QED BY <1>1, <1>3, <1>4, NothingTaken

LEMMA RunEffectKeeps ==
  ASSUME IInv, RunEffect, connecting' \in {connecting, AboutToRead}
  PROVE  IInv'
<1> USE DEF IInv
<1>1. /\ effects < MaxEffects /\ effects' = effects + 1
      /\ live' = effects' /\ CleanUp
      /\ UNCHANGED <<head, mined, lastProcessedBlock, from, seen, posted,
                     lowered>>
  BY DEF RunEffect, chain
<1>2. /\ Shape' /\ BelowWatermark' /\ TakenOnce'
      /\ \A e \in Effects : timers'[e] \subseteq timers[e]
  BY <1>1, CleanUpKeeps
<1>3. effects' \in 0..MaxEffects /\ AboutToRead \in 0..AboutToRead
  BY <1>1, Numbers DEF AboutToRead
<1>4. TypeOK'
  BY <1>1, <1>2, <1>3 DEF TypeOK
<1>5. Past'
  BY <1>1 DEF Past
<1> QED BY <1>2, <1>4, <1>5

LEMMA DisconnectKeeps ==
  ASSUME IInv, Disconnect
  PROVE  IInv'
<1> USE DEF IInv
<1>1. /\ live' = 0 /\ CleanUp
      /\ UNCHANGED <<head, mined, lastProcessedBlock, effects, from, seen,
                     posted, connecting, lowered>>
  BY DEF Disconnect, chain
<1>2. /\ Shape' /\ BelowWatermark' /\ TakenOnce'
      /\ \A e \in Effects : timers'[e] \subseteq timers[e]
  BY <1>1, CleanUpKeeps
<1>3. TypeOK'
  BY <1>1, <1>2 DEF TypeOK
<1>4. Past'
  BY <1>1 DEF Past
<1> QED BY <1>2, <1>3, <1>4

LEMMA ReadBlockNumberKeeps ==
  ASSUME IInv, ReadBlockNumber
  PROVE  IInv'
<1> USE DEF IInv
<1>1. /\ connecting' \in {head, NotConnecting}
      /\ UNCHANGED <<head, mined, lastProcessedBlock, effects, live, from,
                     seen, timers, posted, lowered>>
  BY DEF ReadBlockNumber, chain, runs, logging
<1>2. head \in 0..head /\ {head, NotConnecting} \subseteq 0..AboutToRead
  BY Numbers DEF NotConnecting, AboutToRead
<1>3. TypeOK'
  BY <1>1, <1>2 DEF TypeOK
<1>4. Past'
  BY <1>1, <1>2 DEF Past
<1> QED BY <1>1, <1>3, <1>4, LogStays

(* A watermark that is set back is noted; one that is raised is harmless.  *)
LEMMA AssignWatermarkKeeps ==
  ASSUME IInv, AssignWatermark
  PROVE  IInv'
<1> USE DEF IInv
<1>1. /\ connecting <= MaxBlock /\ lastProcessedBlock' = connecting
      /\ lowered' = (lowered \/ connecting < lastProcessedBlock)
      /\ connecting' = NotConnecting
      /\ UNCHANGED <<head, mined, effects, live, from, seen, timers, posted>>
  BY DEF AssignWatermark, chain, runs, logging
<1>2. connecting \in 0..head
  BY <1>1, Numbers DEF Past, NotConnecting, AboutToRead
<1>3. NotConnecting \in 0..AboutToRead /\ lowered' \in BOOLEAN
  BY <1>1, Numbers DEF NotConnecting, AboutToRead
<1>4. TypeOK'
  BY <1>1, <1>2, <1>3 DEF TypeOK
<1>5. Shape' /\ Past'
  BY <1>1 DEF Shape, Past
<1>6. \A e \in Effects, ev \in Event : Took(e, ev)' => Took(e, ev)
  BY <1>1 DEF Took
<1>7. ASSUME ~lowered'
      PROVE  /\ ~lowered
             /\ \A ev \in Event : ev.block <= lastProcessedBlock =>
                                  ev.block <= lastProcessedBlock'
  <2>1. ~lowered /\ ~(connecting < lastProcessedBlock)
    BY <1>1, <1>7
  <2>2. \A ev \in Event : ev.block <= lastProcessedBlock =>
                          ev.block <= connecting
    BY <1>2, <2>1, Numbers
  <2> QED BY <1>1, <2>1, <2>2
<1>8. BelowWatermark' /\ TakenOnce'
  BY <1>6, <1>7 DEF BelowWatermark, TakenOnce
<1> QED BY <1>4, <1>5, <1>8

LEMMA SetUpKeeps ==
  ASSUME IInv, NEW e \in Effects, SetUp(e)
  PROVE  IInv'
<1> USE DEF IInv
<1>1. /\ from' = [from EXCEPT ![e] = head]
      /\ UNCHANGED <<head, mined, lastProcessedBlock, effects, live, seen,
                     timers, posted, connecting, lowered>>
  BY DEF SetUp, chain, logging
<1>2. head \in 0..NotListening
  BY Numbers DEF NotListening
<1>3. TypeOK'
  BY <1>1, <1>2 DEF TypeOK
<1>4. Past'
  BY <1>1 DEF Past
<1> QED BY <1>1, <1>3, <1>4, LogStays

(* A listener has looked at an event.                                      *)
LEMMA SeenGrows ==
  ASSUME TypeOK, NEW e \in Effects, NEW ev \in mined,
         seen' = [seen EXCEPT ![e] = @ \cup {ev}]
  PROVE  /\ seen' \in [Effects -> SUBSET mined]
         /\ \A f \in Effects : seen[f] \subseteq seen'[f]
         /\ ev \in seen'[e]
BY DEF TypeOK

LEMMA SkipKeeps ==
  ASSUME IInv, NEW e \in Effects, NEW ev \in mined, Skip(e, ev)
  PROVE  IInv'
<1> USE DEF IInv
<1>1. /\ seen' = [seen EXCEPT ![e] = @ \cup {ev}]
      /\ UNCHANGED <<head, mined, lastProcessedBlock, effects, live, from,
                     timers, posted, connecting, lowered>>
  BY DEF Skip, chain, runs
<1>2. /\ seen' \in [Effects -> SUBSET mined]
      /\ \A f \in Effects : seen[f] \subseteq seen'[f]
  BY <1>1, SeenGrows
<1>3. TypeOK'
  BY <1>1, <1>2 DEF TypeOK, Shape
<1>4. Past'
  BY <1>1 DEF Past
<1> QED BY <1>1, <1>3, <1>4, LogStays

(* An event that is taken up is above the watermark, so nobody has taken   *)
(* it up before.                                                           *)
LEMMA AcceptKeeps ==
  ASSUME IInv, NEW e \in Effects, NEW ev \in mined, Accept(e, ev)
  PROVE  IInv'
<1> USE DEF IInv
<1>1. /\ seen' = [seen EXCEPT ![e] = @ \cup {ev}]
      /\ lastProcessedBlock' = ev.block
      /\ ~(ev.block <= lastProcessedBlock)
      /\ UNCHANGED <<head, mined, effects, live, from, connecting, lowered>>
  BY DEF Accept, Raised, Skips, IsOld, chain, runs
<1>2. /\ seen' \in [Effects -> SUBSET mined]
      /\ \A f \in Effects : seen[f] \subseteq seen'[f]
      /\ ev \in seen'[e]
  BY <1>1, SeenGrows
<1>3. \/ /\ timers' = [timers EXCEPT ![e] = @ \cup {ev}]
         /\ UNCHANGED posted
      \/ /\ posted' = posted \cup {Post(e, ev, "user")}
         /\ ev.kind = "MarketDataUpdated"
         /\ UNCHANGED timers
  BY DEF Accept
<1>4. ev \in Event /\ ev.block \in Nat /\ ev.block <= MaxBlock
  BY Numbers
<1>5. /\ timers' \in [Effects -> SUBSET Event]
      /\ \A f \in Effects : timers'[f] \subseteq seen'[f]
  BY <1>2, <1>3, <1>4 DEF TypeOK, Shape
<1>6. Shape'
  BY <1>3, <1>4, <1>5 DEF Shape, Post
<1>7. \A p \in posted' : /\ p.event \in seen'[p.by]
                         /\ p.part \in Parts(p.event.kind)
  BY <1>2, <1>3, <1>6 DEF TypeOK, Shape, Post, Parts
<1>8. TypeOK'
  <2>1. lastProcessedBlock' \in 0..head
    BY <1>1, <1>4, Numbers DEF Past
  <2> QED BY <1>1, <1>2, <1>5, <1>7, <2>1 DEF TypeOK
<1>9. Past'
  BY <1>1 DEF Past
<1>10. \A f \in Effects, other \in Event :
         Took(f, other)' => Took(f, other) \/ (f = e /\ other = ev)
  BY <1>3 DEF Took, Post, Shape
<1>11. ASSUME ~lowered'
       PROVE  /\ ~lowered
              /\ \A f \in Effects : ~Took(f, ev)
              /\ \A other \in Event : other.block <= lastProcessedBlock =>
                                      other.block <= lastProcessedBlock'
  <2>1. ~lowered
    BY <1>1, <1>11
  <2>2. \A f \in Effects : ~Took(f, ev)
    BY <1>1, <1>4, <2>1 DEF BelowWatermark
  <2>3. \A other \in Event : other.block <= lastProcessedBlock =>
                             other.block <= lastProcessedBlock'
    BY <1>1, <1>4, Numbers
  <2> QED BY <2>1, <2>2, <2>3
<1>12. BelowWatermark'
  BY <1>1, <1>4, <1>10, <1>11 DEF BelowWatermark
<1>13. TakenOnce'
  BY <1>10, <1>11 DEF TakenOnce
<1> QED BY <1>6, <1>8, <1>9, <1>12, <1>13
(* A timer has fired: an event that was taken up is posted by its run.     *)
LEMMA FireTimerKeeps ==
  ASSUME IInv, NEW e \in Effects, NEW ev \in seen[e], FireTimer(e, ev)
  PROVE  IInv'
<1> USE DEF IInv
<1> DEFINE part == FirstPart(ev.kind)
<1>1. /\ ev \in timers[e]
      /\ timers' = [timers EXCEPT ![e] = @ \ {ev}]
      /\ posted' \in {posted, posted \cup {Post(e, ev, part)}}
      /\ UNCHANGED <<head, mined, lastProcessedBlock, effects, live, from,
                     seen, connecting, lowered>>
  BY DEF FireTimer, chain, runs
<1>2. ev \in Event /\ part \in Parts(ev.kind)
  BY <1>1 DEF Shape, FirstPart, Parts
<1>3. /\ timers' \in [Effects -> SUBSET Event]
      /\ \A f \in Effects : timers'[f] \subseteq timers[f]
  BY <1>1 DEF Shape
<1> HIDE DEF part
<1>4. Shape'
  BY <1>1, <1>2, <1>3 DEF Shape, Post
<1>5. \A p \in posted' : /\ p.event \in seen[p.by]
                         /\ p.part \in Parts(p.event.kind)
  BY <1>1, <1>2 DEF TypeOK, Post
<1>6. TypeOK'
  BY <1>1, <1>3, <1>5 DEF TypeOK
<1>7. Past'
  BY <1>1 DEF Past
<1>8. \A f \in Effects, other \in Event : Took(f, other)' => Took(f, other)
  BY <1>1, <1>3 DEF Took, Post
<1> QED BY <1>1, <1>4, <1>6, <1>7, <1>8, NothingTaken

LEMMA PostForBorrowerKeeps ==
  ASSUME IInv, NEW e \in Effects, NEW ev \in seen[e], PostForBorrower(e, ev)
  PROVE  IInv'
<1> USE DEF IInv
<1>1. /\ Post(e, ev, "liquidator") \in posted
      /\ posted' = posted \cup {Post(e, ev, "borrower")}
      /\ UNCHANGED <<head, mined, lastProcessedBlock, effects, live, from,
                     seen, timers, connecting, lowered>>
  BY DEF PostForBorrower, chain, runs
<1>2. /\ ev \in Event /\ "borrower" \in Parts(ev.kind)
  <2>1. /\ Post(e, ev, "liquidator").event = ev
        /\ Post(e, ev, "liquidator").part = "liquidator"
    BY DEF Post
  <2>2. "liquidator" \in Parts(ev.kind)
    BY <1>1, <2>1 DEF TypeOK
  <2> QED BY <1>1, <2>1, <2>2 DEF Shape, Parts
<1>3. Shape'
  BY <1>1, <1>2 DEF Shape, Post
<1>4. \A p \in posted' : /\ p.event \in seen[p.by]
                         /\ p.part \in Parts(p.event.kind)
  BY <1>1, <1>2 DEF TypeOK, Post
<1>5. TypeOK'
  BY <1>1, <1>4 DEF TypeOK
<1>6. Past'
  BY <1>1 DEF Past
<1>7. \A f \in Effects, other \in Event : Took(f, other)' => Took(f, other)
  BY <1>1 DEF Took, Post
<1> QED BY <1>1, <1>3, <1>5, <1>6, <1>7, NothingTaken

LEMMA InvariantStep == IInv /\ [Next]_vars => IInv'
<1> SUFFICES ASSUME IInv, [Next]_vars PROVE IInv'
  OBVIOUS
<1>1. CASE UNCHANGED vars
  <2>1. UNCHANGED <<head, mined, lastProcessedBlock, effects, live, from, seen,
                    timers, posted, connecting, lowered>>
    BY <1>1 DEF vars, chain, runs, logging
  <2>2. TypeOK' /\ Past'
    BY <2>1 DEF IInv, TypeOK, Past
  <2> QED BY <2>1, <2>2, LogStays DEF IInv
<1>2. ASSUME NEW e \in Effects, Log(e) PROVE IInv'
  BY <1>2, FireTimerKeeps, PostForBorrowerKeeps DEF Log
<1>3. CASE ChangeProvider
  BY <1>3, RunEffectKeeps DEF ChangeProvider
<1>4. CASE Connect
  BY <1>4, RunEffectKeeps DEF Connect
<1> QED
  BY <1>1, <1>2, <1>3, <1>4, MineKeeps, DisconnectKeeps, ReadBlockNumberKeeps,
     AssignWatermarkKeeps, SetUpKeeps, SkipKeeps, AcceptKeeps
     DEF Next

-----------------------------------------------------------------------------
(***************************************************************************)
(* Theorems.                                                               *)
(***************************************************************************)
(* The inductive invariant holds throughout.                               *)
THEOREM Invariance == Spec => []IInv
<1> QED BY InitInvariant, InvariantStep, PTL DEF Spec

(* Runs, timers and requests keep their form: only what a run has seen is  *)
(* waiting for a timer or posted by it, for a participant of that event.   *)
THEOREM TypeCorrect == Spec => []TypeOK
<1>1. IInv => TypeOK
  BY DEF IInv
<1> QED BY <1>1, Invariance, PTL

(* No two runs of the effect post the same event unless the watermark was  *)
(* set back.                                                               *)
THEOREM EventsArePostedOnce == Spec => []PostedOnce
<1>1. IInv => PostedOnce
  <2> SUFFICES ASSUME IInv, ~lowered, NEW p \in posted, NEW q \in posted,
                      p.event = q.event
               PROVE  p.by = q.by
    BY DEF PostedOnce
  <2>1. /\ p.by \in Effects /\ q.by \in Effects /\ p.event \in Event
    BY DEF IInv, Shape
  <2>2. Took(p.by, p.event) /\ Took(q.by, p.event)
    BY DEF Took
  <2> QED BY <2>1, <2>2 DEF IInv, TakenOnce
<1> QED BY <1>1, Invariance, PTL

(* A run that was cleaned up starts to log nothing: the timers look at     *)
(* isCleanedUp when they fire, and the market listener when it is called.  *)
THEOREM DeadRunsDoNotLog == Spec => OnlyLiveRunLogs
<1> DEFINE Quiet ==
      \A p \in posted' \ posted : p.part # "borrower" => p.by = live
<1>1. ASSUME [Next]_vars PROVE [Quiet]_vars
  <2>1. CASE posted' = posted
    BY <2>1
  <2>2. ASSUME NEW e \in Effects, NEW ev, FireTimer(e, ev) PROVE Quiet
    BY <2>2 DEF FireTimer, MayPost, Post
  <2>3. ASSUME NEW e \in Effects, NEW ev, PostForBorrower(e, ev) PROVE Quiet
    BY <2>3 DEF PostForBorrower, Post
  <2>4. ASSUME NEW e \in Effects, NEW ev \in mined, Accept(e, ev) PROVE Quiet
    BY <2>4 DEF Accept, Skips, Post
  <2> QED
    BY <1>1, <2>1, <2>2, <2>3, <2>4
       DEF Next, vars, chain, runs, logging, Mine, ChangeProvider, Connect,
       RunEffect, Disconnect, ReadBlockNumber, AssignWatermark, SetUp, Log,
       Skip
<1> QED BY <1>1, PTL DEF Spec, OnlyLiveRunLogs

-----------------------------------------------------------------------------
(***************************************************************************)
(* How the page follows the network of the wallet.                         *)
(***************************************************************************)
(* A switch that waits for the wallet knows where it goes.                 *)
Targeted == \A s \in switches : s.stage = "prompt" => s.target # "none"

(* The safety timeout runs from the render that began a switch.            *)
Timed == app.networkSwitching /\ rendered.switching => safety

(* What releases the other two locks is on its way.                        *)
Released ==
  /\ app.loading => inits \cap Callers # {} \/ refreshes # {} \/ tabs > 0
  /\ app.uiLoading => switches # {}

SessionInv == SessionTypeOK /\ Targeted /\ Timed /\ Released

LEMMA DepsType ==
  ASSUME provider \in {"none", "set"}, connected \in BOOLEAN,
         app \in AppStates
  PROVE  /\ Deps \in Renders
         /\ Deps.switching = app.networkSwitching
  BY DEF Deps, Renders, AppStates

LEMMA FreshAppType ==
  /\ FreshApp \in AppStates
  /\ ~FreshApp.networkSwitching /\ ~FreshApp.loading
  /\ ~FreshApp.uiLoading
  BY DEF FreshApp, AppStates, ChainIds,
     Deployments

LEMMA AddressesType ==
  ASSUME NEW c, NEW named \in BOOLEAN
  PROVE  AddressesFor(c, named) \in Deployments
  BY DEF AddressesFor, Deployments, Known

LEMMA SessionInitInvariant ==
  ASSUME SessionInit
  PROVE  SessionInv
<1>1. /\ app \in AppStates
      /\ ~app.networkSwitching /\ ~app.loading /\ ~app.uiLoading
  <2>1. wallet \in ChainIds
    BY SessionConstants DEF SessionInit, ChainIds
  <2>2. CASE app = FreshApp
    BY <2>2, FreshAppType
  <2>3. CASE app = [FreshApp EXCEPT
                      !.chainId = wallet, !.isContractsInitialized = TRUE,
                      !.lendingProtocol = AddressesFor(wallet, TRUE),
                      !.tokens = AddressesFor(wallet, FALSE)]
    BY <2>1, <2>3, FreshAppType, AddressesType DEF AppStates
  <2> QED BY <2>2, <2>3 DEF SessionInit
<1>2. /\ wallet \in Chains /\ announced \in BOOLEAN /\ actions = 0
      /\ provider \in {"none", "set"} /\ connected \in BOOLEAN
      /\ handlers = {} /\ rendered = Deps
      /\ read = FALSE /\ loops = {} /\ inits = {} /\ switches = {}
      /\ refreshes = {} /\ tabs = 0 /\ isSwitching = FALSE /\ safety = FALSE
  BY SessionConstants DEF SessionInit
<1>3. actions \in 0..MaxActions
  BY <1>2, SessionConstants
<1> QED BY <1>1, <1>2, <1>3, DepsType
    DEF SessionInv, SessionTypeOK, Targeted, Timed, Released

(* The counter of what the user does stays within its bound.               *)
LEMMA ActionsCounted ==
  ASSUME SessionTypeOK, Acts
  PROVE  actions' \in 0..MaxActions
  BY SessionConstants DEF SessionTypeOK, Acts

(* Another provider makes the effects due and tells nothing of a switch.   *)
LEMMA Provided ==
  ASSUME SessionTypeOK, NEW p \in {"none", "set"}, Provide(p)
  PROVE  /\ provider' \in {"none", "set"}
         /\ rendered' \in Renders
         /\ rendered'.switching = rendered.switching
  BY DEF SessionTypeOK, Provide, Renders

(* The message of a failed initialisation is no lock.                      *)
SameLocks ==
  /\ app'.networkSwitching = app.networkSwitching
  /\ app'.loading = app.loading
  /\ app'.uiLoading = app.uiLoading

LEMMA MessageOnly ==
  ASSUME app \in AppStates, app' = [app EXCEPT !.failed = FALSE]
  PROVE  app' \in AppStates /\ SameLocks
  BY DEF AppStates, SameLocks

(* A switch that goes on is no longer at the prompt.                       *)
LEMMA SwitchMoved ==
  ASSUME SessionInv, NEW s \in switches, NEW next \in Switches,
         next.stage # "prompt", Proceed(s, next)
  PROVE  switches' \subseteq Switches /\ Targeted' /\ switches' # {}
  BY DEF SessionInv, SessionTypeOK, Proceed, Targeted

-----------------------------------------------------------------------------
LEMMA ChangeWalletStep ==
  ASSUME SessionInv, ChangeWallet
  PROVE  SessionInv'
<1>1. actions' \in 0..MaxActions
  BY ActionsCounted DEF SessionInv, ChangeWallet
<1>2. /\ wallet' \in Chains /\ announced' = FALSE
      /\ UNCHANGED <<provider, connected, handlers, app, rendered, read, loops,
                     inits, switches, refreshes, tabs, isSwitching, safety>>
  BY DEF ChangeWallet, page, tasks
<1> QED BY <1>1, <1>2 DEF SessionInv, SessionTypeOK, Targeted, Timed, Released

LEMMA AnswerPromptStep ==
  ASSUME SessionInv, NEW s \in switches, AnswerPrompt(s)
  PROVE  SessionInv'
<1>1. s \in Switches /\ s.target \in Chains
  BY DEF SessionInv, SessionTypeOK, Targeted, AnswerPrompt,
     Switches, ChainIds
<1>2. PICK stage \in {"switched", "timer"} :
        Proceed(s, [s EXCEPT !.stage = stage, !.target = "none"])
  BY DEF AnswerPrompt
<1>3. [s EXCEPT !.stage = stage, !.target = "none"] \in Switches
      /\ [s EXCEPT !.stage = stage, !.target = "none"].stage = stage
  BY <1>1 DEF Switches, Stages, ChainIds
<1>4. switches' \subseteq Switches /\ Targeted' /\ switches' # {}
  BY <1>2, <1>3, SwitchMoved
<1>5. /\ wallet' \in Chains /\ announced' \in BOOLEAN
      /\ UNCHANGED <<actions, provider, connected, handlers, app, rendered,
                     read, loops, inits, refreshes, tabs, isSwitching, safety>>
  BY <1>1 DEF SessionInv, SessionTypeOK, AnswerPrompt
<1> QED BY <1>4, <1>5 DEF SessionInv, SessionTypeOK, Timed, Released

-----------------------------------------------------------------------------
LEMMA ConnectionSteps ==
  ASSUME SessionInv,
         \/ HandleConnect \/ ChangeAccount \/ ReadContracts
         \/ \E who \in handlers : FinishConnect(who)
  PROVE  SessionInv'
<1>1. UNCHANGED <<wallet, announced, read, loops, inits, switches, refreshes,
                  tabs, isSwitching, safety>>
  BY DEF HandleConnect, ChangeAccount, ReadContracts,
     FinishConnect, tasks
<1>1a. app' = app \/ app' = [app EXCEPT !.failed = FALSE]
  BY DEF HandleConnect, ChangeAccount, ReadContracts, FinishConnect
<1>1b. app' \in AppStates /\ SameLocks
  BY <1>1a, MessageOnly DEF SessionInv, SessionTypeOK, SameLocks
<1>2. actions' \in 0..MaxActions
  BY ActionsCounted DEF SessionInv, SessionTypeOK, HandleConnect,
     ChangeAccount, ReadContracts, FinishConnect
<1>3. connected' \in BOOLEAN
  BY DEF SessionInv, SessionTypeOK, HandleConnect, ChangeAccount,
     ReadContracts, FinishConnect, DropConnection
<1>4. handlers' \subseteq {"user", "chainChanged", "contracts"}
  BY DEF SessionInv, SessionTypeOK, HandleConnect, ChangeAccount,
     ReadContracts, FinishConnect
<1>5. \/ UNCHANGED <<provider, rendered>>
      \/ \E p \in {"none", "set"} : Provide(p)
  BY DEF HandleConnect, ChangeAccount, ReadContracts,
     FinishConnect, DropConnection
<1>6. /\ provider' \in {"none", "set"} /\ rendered' \in Renders
      /\ rendered'.switching = rendered.switching
  BY <1>5, Provided DEF SessionInv, SessionTypeOK
<1> QED BY <1>1, <1>1b, <1>2, <1>3, <1>4, <1>6
    DEF SessionInv, SessionTypeOK, Targeted, Timed, Released, SameLocks

LEMMA ChainChangedStep ==
  ASSUME SessionInv, ChainChanged
  PROVE  SessionInv'
<1>1. CASE wallet \in Known
  <2>1. /\ UNCHANGED <<wallet, actions, connected, app, read, loops, inits,
                       switches, refreshes, tabs, isSwitching, safety>>
        /\ announced' = TRUE
        /\ handlers' = handlers \cup {"chainChanged"}
        /\ Provide("set")
    BY <1>1 DEF ChainChanged, tasks
  <2>2. /\ provider' \in {"none", "set"} /\ rendered' \in Renders
        /\ rendered'.switching = rendered.switching
    BY <2>1, Provided DEF SessionInv
  <2> QED BY <2>1, <2>2
      DEF SessionInv, SessionTypeOK, Targeted, Timed, Released
<1>2. CASE wallet \notin Known
  <2>1. /\ provider' = "none" /\ connected' = FALSE /\ handlers' = {}
        /\ app' = FreshApp /\ rendered' = Deps'
        /\ read' = FALSE /\ loops' = {} /\ inits' = {} /\ switches' = {}
        /\ refreshes' = {} /\ tabs' = 0 /\ isSwitching' = FALSE
        /\ safety' = FALSE /\ announced' = TRUE /\ UNCHANGED <<wallet, actions>>
    BY <1>2 DEF ChainChanged, Reload
  <2>2. Deps' \in Renders
    BY <2>1, FreshAppType DEF Deps, Renders, AppStates
  <2> QED BY <2>1, <2>2, FreshAppType
      DEF SessionInv, SessionTypeOK, Targeted, Timed, Released
<1> QED BY <1>1, <1>2

LEMMA SetProviderStep ==
  ASSUME SessionInv, NEW s \in switches, SetProvider(s)
  PROVE  SessionInv'
<1> DEFINE next == [s EXCEPT !.stage = "timer"]
<1>1. next \in Switches /\ next.stage = "timer"
  BY DEF SessionInv, SessionTypeOK, Switches, Stages
<1>2. /\ Proceed(s, next) /\ Provide("set")
      /\ UNCHANGED <<wallet, announced, actions, connected, handlers, app, read,
                     loops, inits, refreshes, tabs, isSwitching, safety>>
  BY DEF SetProvider
<1> HIDE DEF next
<1>3. switches' \subseteq Switches /\ Targeted' /\ switches' # {}
  BY <1>1, <1>2, SwitchMoved
<1>4. /\ provider' \in {"none", "set"} /\ rendered' \in Renders
      /\ rendered'.switching = rendered.switching
  BY <1>2, Provided DEF SessionInv
<1> QED BY <1>2, <1>3, <1>4 DEF SessionInv, SessionTypeOK, Timed, Released

-----------------------------------------------------------------------------
LEMMA SelectNetworkStep ==
  ASSUME SessionInv, NEW c \in Known,
         Idle, SelectNetwork(c)
  PROVE  SessionInv'
<1> DEFINE new == [stage  |-> IF provider = "none" THEN "timer" ELSE "prompt",
                   target |-> IF provider = "none" THEN "none" ELSE c,
                   chainId |-> app.chainId,
                   usable |-> provider = "set" /\ connected,
                   initialized |-> app.isContractsInitialized]
<1>1. app \in AppStates /\ app.chainId \in ChainIds
      /\ app.isContractsInitialized \in BOOLEAN
  BY DEF SessionInv, SessionTypeOK, AppStates
<1>2. c \in Chains /\ c # "none"
  BY SessionConstants DEF Known
<1>3. (provider = "set" /\ connected) \in BOOLEAN
  OBVIOUS
<1>4. new \in Switches
  BY <1>1, <1>2, <1>3 DEF Switches, Stages, ChainIds
<1>5. new.stage = "prompt" => new.target # "none"
  BY <1>2
<1>6. /\ switches' = switches \cup {new}
      /\ app' = [app EXCEPT !.networkSwitching = TRUE, !.uiLoading = TRUE,
                            !.isContractsInitialized = FALSE,
                            !.failed = FALSE]
      /\ isSwitching' = TRUE
      /\ UNCHANGED <<wallet, announced, provider, connected, handlers, rendered,
                     read, loops, inits, refreshes, tabs, safety>>
  BY DEF SelectNetwork
<1>7. actions' \in 0..MaxActions
  BY ActionsCounted DEF SessionInv, SelectNetwork
<1>8. ~rendered'.switching
  BY <1>6 DEF SelectNetwork, Locked, Idle, Deps
<1> HIDE DEF new
<1>9. switches' \subseteq Switches /\ Targeted' /\ switches' # {}
  BY <1>4, <1>5, <1>6 DEF SessionInv, SessionTypeOK, Targeted
<1>10. app' \in AppStates /\ app'.loading = app.loading
  BY <1>1, <1>6 DEF AppStates
<1> QED BY <1>6, <1>7, <1>8, <1>9, <1>10
    DEF SessionInv, SessionTypeOK, Timed, Released

LEMMA FinishSwitchStep ==
  ASSUME SessionInv, NEW s \in switches,
         FinishSwitch(s)
  PROVE  SessionInv'
<1>1. /\ app \in AppStates /\ s \in Switches
      /\ s.initialized \in BOOLEAN /\ wallet \in ChainIds
  BY DEF SessionInv, SessionTypeOK, Switches, ChainIds
<1>2. UNCHANGED <<wallet, announced, actions, provider, connected, handlers,
                  rendered, read, loops, refreshes, tabs, isSwitching, safety>>
  BY DEF FinishSwitch
<1>3. CASE /\ app' = [app EXCEPT
                        !.chainId = IF wallet = s.chainId THEN @ ELSE wallet,
                        !.networkSwitching = ~s.initialized /\ @,
                        !.loading = ~s.initialized \/ @]
           /\ inits' = IF s.initialized THEN inits ELSE inits \cup {"switch"}
           /\ Proceed(s, Unlocking)
  <2>1. Unlocking \in Switches
        /\ Unlocking.stage = "unlock"
    BY DEF Unlocking, Switches, Stages,
       ChainIds
  <2>2. switches' \subseteq Switches /\ Targeted' /\ switches' # {}
    BY <1>3, <2>1, SwitchMoved
  <2>3. app' \in AppStates
        /\ (app'.networkSwitching => app.networkSwitching)
        /\ (app'.loading => app.loading \/ ~s.initialized)
    BY <1>1, <1>3 DEF AppStates
  <2>4. /\ inits' \subseteq Callers \cup {"delayed"}
        /\ app'.loading =>
             inits' \cap Callers # {} \/ refreshes # {} \/ tabs > 0
    BY <1>3, <2>3 DEF SessionInv, SessionTypeOK, Callers, Released
  <2> QED BY <1>2, <2>2, <2>3, <2>4
      DEF SessionInv, SessionTypeOK, Timed, Released
<1>4. CASE /\ app' = Unlocked(app)
           /\ switches' = switches \ {s} /\ UNCHANGED inits
  <2>1. /\ app' \in AppStates /\ ~app'.networkSwitching
        /\ ~app'.uiLoading /\ app'.loading = app.loading
    BY <1>1, <1>4 DEF AppStates, Unlocked
  <2> QED BY <1>2, <1>4, <2>1
      DEF SessionInv, SessionTypeOK, Targeted, Timed, Released
<1> QED BY <1>3, <1>4 DEF FinishSwitch

LEMMA UnlockStep ==
  ASSUME SessionInv, NEW s \in switches, Unlock(s)
  PROVE  SessionInv'
<1>1. /\ app' \in AppStates /\ ~app'.uiLoading
      /\ app'.loading = app.loading
      /\ app'.networkSwitching = app.networkSwitching
  BY DEF SessionInv, SessionTypeOK, AppStates, Unlock
<1>2. /\ switches' = switches \ {s}
      /\ UNCHANGED <<wallet, announced, actions, provider, connected, handlers,
                     rendered, read, loops, inits, refreshes, tabs, isSwitching,
                     safety>>
  BY DEF Unlock
<1> QED BY <1>1, <1>2
    DEF SessionInv, SessionTypeOK, Targeted, Timed, Released

-----------------------------------------------------------------------------
(* A render that begins a switch sets the timeout; as long as the switch   *)
(* lasts, every later one keeps it or sets it anew.                        *)
LEMMA RunEffectsStep ==
  ASSUME SessionInv, RunEffects
  PROVE  SessionInv'
<1> DEFINE usable   == provider = "set" /\ connected
           checks   == app.networkSwitching \/ app.chainId = "none"
           rechecks == [rendered EXCEPT !.initialized
                          = Deps.initialized] # Deps
           starts   == /\ usable /\ app.chainId # "none"
                       /\ ~app.isContractsInitialized /\ ~app.networkSwitching
           poll     == [chainId |-> app.chainId,
                        switching |-> app.networkSwitching,
                        initialized |-> app.isContractsInitialized]
<1>1. /\ rendered' = Deps
      /\ read' = (read \/ (provider = "set" /\ rendered.provider # "set"))
      /\ safety' = SafetyAfter(rechecks)
      /\ loops' = IF rechecks /\ usable /\ checks THEN loops \cup {poll}
                  ELSE loops
      /\ inits' = IF starts THEN inits \cup {"effect"} ELSE inits
      /\ app' = [app EXCEPT !.loading = starts \/ @,
                            !.failed = @ /\ rendered.connected = connected]
      /\ UNCHANGED <<wallet, announced, actions, provider, connected, handlers,
                     switches, refreshes, tabs, isSwitching>>
  BY DEF RunEffects
<1>2. /\ app \in AppStates /\ app.networkSwitching \in BOOLEAN
      /\ app.chainId \in ChainIds
      /\ app.isContractsInitialized \in BOOLEAN /\ rendered \in Renders
      /\ safety \in BOOLEAN
  BY DEF SessionInv, SessionTypeOK, AppStates
<1>3. rendered' \in Renders
      /\ rendered'.switching = app.networkSwitching
  BY <1>1, DepsType DEF SessionInv, SessionTypeOK
<1>4. rendered.switching # app.networkSwitching => rechecks
  BY <1>2 DEF Deps, Renders
<1>5. /\ safety' \in BOOLEAN
      /\ rechecks => safety' = app.networkSwitching
      /\ ~rechecks => safety' = safety
  BY <1>1, <1>2 DEF SafetyAfter
<1>6. loops' \subseteq [chainId : ChainIds, switching : BOOLEAN,
                        initialized : BOOLEAN]
  BY <1>1, <1>2 DEF SessionInv, SessionTypeOK
<1>7. read' \in BOOLEAN
  BY <1>1
<1> HIDE DEF rechecks, checks, poll
<1>8. /\ inits' \subseteq Callers \cup {"delayed"}
      /\ starts \/ inits \cap Callers # {} => inits' \cap Callers # {}
  BY <1>1 DEF SessionInv, SessionTypeOK, Callers
<1>9. starts \in BOOLEAN
  BY DEF starts
<1> HIDE DEF starts
<1>10. /\ app' \in AppStates
       /\ app'.networkSwitching = app.networkSwitching
       /\ app'.uiLoading = app.uiLoading
       /\ app'.loading => starts \/ app.loading
  BY <1>1, <1>2, <1>9 DEF AppStates
<1>11. ASSUME app'.networkSwitching PROVE safety'
  <2>1. app.networkSwitching
    BY <1>10, <1>11
  <2>2. CASE rechecks
    BY <1>5, <2>1, <2>2
  <2>3. CASE ~rechecks
    <3>1. rendered.switching = app.networkSwitching
      BY <1>4, <2>3
    <3>2. rendered.switching
      BY <2>1, <3>1
    <3>3. safety
      BY <2>1, <3>2 DEF SessionInv, Timed
    <3> QED BY <1>5, <2>3, <3>3
  <2> QED BY <2>2, <2>3
<1>12. Released' /\ Targeted'
  BY <1>1, <1>8, <1>10 DEF SessionInv, Released, Targeted
<1> QED BY <1>1, <1>3, <1>5, <1>6, <1>7, <1>8, <1>10, <1>11, <1>12
    DEF SessionInv, SessionTypeOK, Timed

LEMMA SafetyTimeoutStep ==
  ASSUME SessionInv, SafetyTimeout
  PROVE  SessionInv'
<1>1. /\ app' \in AppStates /\ ~app'.networkSwitching
      /\ app'.loading = app.loading /\ app'.uiLoading = app.uiLoading
  BY DEF SessionInv, SessionTypeOK, AppStates, SafetyTimeout
<1>2. /\ safety' = FALSE
      /\ UNCHANGED <<wallet, announced, actions, provider, connected, handlers,
                     rendered, read, loops, inits, switches, refreshes, tabs,
                     isSwitching>>
  BY DEF SafetyTimeout, tasks
<1> QED BY <1>1, <1>2
    DEF SessionInv, SessionTypeOK, Targeted, Timed, Released

-----------------------------------------------------------------------------
LEMMA ReadChainIdStep ==
  ASSUME SessionInv, ReadChainId
  PROVE  SessionInv'
<1>1. wallet \in ChainIds
  BY DEF SessionInv, SessionTypeOK, ChainIds
<1>2. /\ app' \in AppStates
      /\ app'.networkSwitching = app.networkSwitching
      /\ app'.loading = app.loading /\ app'.uiLoading = app.uiLoading
  BY <1>1 DEF SessionInv, SessionTypeOK, AppStates, ReadChainId
<1>3. /\ read' = FALSE
      /\ UNCHANGED <<wallet, announced, actions, provider, connected, handlers,
                     rendered, loops, inits, switches, refreshes, tabs,
                     isSwitching, safety>>
  BY DEF ReadChainId
<1> QED BY <1>2, <1>3
    DEF SessionInv, SessionTypeOK, Targeted, Timed, Released

LEMMA CheckChainIdStep ==
  ASSUME SessionInv, CheckChainId
  PROVE  SessionInv'
<1>1. wallet \in ChainIds /\ "none" \in Deployments
  BY DEF SessionInv, SessionTypeOK, ChainIds, Deployments
<1>2. /\ app' \in AppStates
      /\ app'.networkSwitching = app.networkSwitching
      /\ app'.loading = app.loading /\ app'.uiLoading = app.uiLoading
  BY <1>1 DEF SessionInv, SessionTypeOK, AppStates,
     CheckChainId
<1>3. /\ loops' \subseteq loops
      /\ inits \subseteq inits' /\ inits' \subseteq Callers \cup {"delayed"}
      /\ UNCHANGED <<wallet, announced, actions, provider, connected, handlers,
                     rendered, read, switches, refreshes, tabs, isSwitching,
                     safety>>
  BY DEF SessionInv, SessionTypeOK, Callers, CheckChainId
<1> QED BY <1>2, <1>3
    DEF SessionInv, SessionTypeOK, Targeted, Timed, Released

(* Every initialisation enables the buttons as it ends, so it does not     *)
(* matter which one is left.                                               *)
LEMMA InitializeContractStep ==
  ASSUME SessionInv, NEW caller \in inits, InitializeContract(caller)
  PROVE  SessionInv'
<1>1. app \in AppStates
  BY DEF SessionInv, SessionTypeOK
<1>2. PICK a \in AppStates : app' = Initialized(a)
                                     /\ a.uiLoading = app.uiLoading
  <2>1. CASE app' = Initialized([app EXCEPT !.failed = TRUE])
    <3> DEFINE b == [app EXCEPT !.failed = TRUE]
    <3>1. b \in AppStates /\ b.uiLoading = app.uiLoading
      BY <1>1 DEF AppStates
    <3> HIDE DEF b
    <3>2. app' = Initialized(b)
      BY <2>1 DEF b
    <3> QED BY <3>1, <3>2
  <2>2. ASSUME NEW lending \in {app.lendingProtocol,
                                AddressesFor(wallet, TRUE)},
               app' = Initialized(
                 [app EXCEPT !.lendingProtocol = lending,
                             !.tokens = AddressesFor(wallet, FALSE),
                             !.failed = FALSE])
        PROVE  \E a \in AppStates : app' = Initialized(a)
                                            /\ a.uiLoading = app.uiLoading
    <3> DEFINE b == [app EXCEPT !.lendingProtocol = lending,
                                !.tokens = AddressesFor(wallet, FALSE),
                                !.failed = FALSE]
    <3>1. lending \in Deployments
          /\ AddressesFor(wallet, FALSE) \in Deployments
      BY <1>1, <2>2, AddressesType DEF AppStates
    <3>2. b \in AppStates /\ b.uiLoading = app.uiLoading
      BY <1>1, <3>1 DEF AppStates
    <3> HIDE DEF b
    <3>3. app' = Initialized(b)
      BY <2>2 DEF b
    <3> QED BY <3>2, <3>3
  <2> QED BY <2>1, <2>2 DEF InitializeContract
<1>3. /\ app' \in AppStates /\ ~app'.networkSwitching /\ ~app'.loading
      /\ app'.uiLoading = app.uiLoading
  BY <1>2 DEF Initialized, AppStates
<1>4. /\ inits' = inits \ {caller}
      /\ UNCHANGED <<wallet, announced, actions, provider, connected, handlers,
                     rendered, read, loops, switches, refreshes, tabs,
                     isSwitching, safety>>
  BY DEF InitializeContract
<1> QED BY <1>3, <1>4
    DEF SessionInv, SessionTypeOK, Targeted, Timed, Released

-----------------------------------------------------------------------------
(* Refresh Data: whatever its closure held, it ends with loading cleared,  *)
(* or with an initialisation that will clear it.                           *)
LEMMA RefreshDataStep ==
  ASSUME SessionInv, RefreshData
  PROVE  SessionInv'
<1> DEFINE new == [chainId     |-> app.chainId,
                   initialized |-> app.isContractsInitialized,
                   loaded      |-> app.lendingProtocol # "none"]
<1>1. app \in AppStates
  BY DEF SessionInv, SessionTypeOK
<1>2. new \in Refreshes
  BY <1>1 DEF Refreshes, AppStates
<1>3. /\ refreshes' = refreshes \cup {new}
      /\ app' = [app EXCEPT !.failed = FALSE, !.loading = TRUE]
      /\ UNCHANGED <<wallet, announced, provider, connected, handlers, rendered,
                     read, loops, inits, switches, tabs, isSwitching, safety>>
  BY DEF RefreshData
<1>4. actions' \in 0..MaxActions
  BY ActionsCounted DEF SessionInv, RefreshData
<1> HIDE DEF new
<1>5. refreshes' \subseteq Refreshes /\ refreshes' # {}
  BY <1>2, <1>3 DEF SessionInv, SessionTypeOK
<1>6. /\ app' \in AppStates
      /\ app'.networkSwitching = app.networkSwitching
      /\ app'.uiLoading = app.uiLoading
  BY <1>1, <1>3 DEF AppStates
<1> QED BY <1>3, <1>4, <1>5, <1>6
    DEF SessionInv, SessionTypeOK, Targeted, Timed, Released

LEMMA RefreshStep ==
  ASSUME SessionInv, NEW f \in refreshes, Refresh(f)
  PROVE  SessionInv'
<1>1. /\ app \in AppStates /\ wallet \in ChainIds
      /\ f.initialized \in BOOLEAN /\ f.loaded \in BOOLEAN
  BY DEF SessionInv, SessionTypeOK, Refreshes, ChainIds
<1>2. PICK c \in {app.chainId, wallet} :
        app' = [app EXCEPT
                  !.chainId = c,
                  !.isContractsInitialized = @ /\ f.initialized /\ f.loaded,
                  !.loading = ~f.initialized]
  BY DEF Refresh
<1>3. /\ app' \in AppStates
      /\ app'.networkSwitching = app.networkSwitching
      /\ app'.uiLoading = app.uiLoading
      /\ app'.loading => ~f.initialized
  BY <1>1, <1>2 DEF AppStates
<1>4. /\ inits' = IF f.initialized THEN inits ELSE inits \cup {"refresh"}
      /\ refreshes' = refreshes \ {f}
      /\ UNCHANGED <<wallet, announced, actions, provider, connected, handlers,
                     rendered, read, loops, switches, tabs, isSwitching, safety>>
  BY DEF Refresh
<1>5. /\ inits' \subseteq Callers \cup {"delayed"}
      /\ app'.loading => inits' \cap Callers # {}
  BY <1>3, <1>4 DEF SessionInv, SessionTypeOK, Callers
<1> QED BY <1>3, <1>4, <1>5
    DEF SessionInv, SessionTypeOK, Targeted, Timed, Released

LEMMA StartDelayedStep ==
  ASSUME SessionInv, StartDelayed
  PROVE  SessionInv'
<1>1. /\ inits' = (inits \ {"delayed"}) \cup {"poll"}
      /\ app' = [app EXCEPT !.loading = TRUE]
      /\ UNCHANGED <<wallet, announced, actions, provider, connected, handlers,
                     rendered, read, loops, switches, refreshes, tabs,
                     isSwitching, safety>>
  BY DEF StartDelayed
<1>2. /\ app' \in AppStates
      /\ app'.networkSwitching = app.networkSwitching
      /\ app'.uiLoading = app.uiLoading
  BY <1>1 DEF SessionInv, SessionTypeOK, AppStates
<1>3. inits' \subseteq Callers \cup {"delayed"} /\ inits' \cap Callers # {}
  BY <1>1 DEF SessionInv, SessionTypeOK, Callers
<1> QED BY <1>1, <1>2, <1>3
    DEF SessionInv, SessionTypeOK, Targeted, Timed, Released

LEMMA TabSteps ==
  ASSUME SessionInv, StartTab \/ EndTab
  PROVE  SessionInv'
<1>1. /\ app \in AppStates /\ tabs \in Nat
      /\ actions \in 0..MaxActions
  BY DEF SessionInv, SessionTypeOK
<1>2. UNCHANGED <<wallet, announced, provider, connected, handlers, rendered,
                  read, loops, inits, switches, refreshes, isSwitching, safety>>
  BY DEF StartTab, EndTab
<1>3. actions' \in 0..MaxActions
  BY <1>1, ActionsCounted DEF SessionInv, StartTab, EndTab
<1>4. /\ app' \in AppStates
      /\ app'.networkSwitching = app.networkSwitching
      /\ app'.uiLoading = app.uiLoading
      /\ tabs' \in Nat
      /\ app'.loading => tabs' > 0
  <2>1. CASE StartTab
    <3>1. /\ tabs' = tabs + 1
          /\ app' = [app EXCEPT !.loading = TRUE, !.failed = FALSE]
      BY <2>1 DEF StartTab
    <3>2. /\ app' \in AppStates
          /\ app'.networkSwitching = app.networkSwitching
          /\ app'.uiLoading = app.uiLoading
      BY <1>1, <3>1 DEF AppStates
    <3>3. tabs' \in Nat /\ tabs' > 0
      BY <1>1, <3>1
    <3> QED BY <3>2, <3>3
  <2>2. CASE EndTab
    <3>1. /\ tabs > 0 /\ tabs' = tabs - 1
          /\ app' \in {[app EXCEPT !.loading = FALSE],
                       [app EXCEPT !.loading = FALSE, !.failed = FALSE]}
      BY <2>2 DEF EndTab
    <3>2. /\ app' \in AppStates /\ ~app'.loading
          /\ app'.networkSwitching = app.networkSwitching
          /\ app'.uiLoading = app.uiLoading
      BY <1>1, <3>1 DEF AppStates
    <3>3. tabs' \in Nat
      BY <1>1, <3>1
    <3> QED BY <3>2, <3>3
  <2> QED BY <2>1, <2>2
<1> QED BY <1>2, <1>3, <1>4
    DEF SessionInv, SessionTypeOK, Targeted, Timed, Released

(* The selector's own lock and the message lock nothing else.              *)
LEMMA SelectorAndMessageSteps ==
  ASSUME SessionInv, ReleaseSelector \/ ClearError
  PROVE  SessionInv'
<1>1. /\ UNCHANGED <<wallet, announced, actions, provider, connected, handlers,
                     rendered, read, loops, inits, switches, refreshes, tabs,
                     safety>>
      /\ app' = app \/ app' = [app EXCEPT !.failed = FALSE]
  BY DEF ReleaseSelector, ClearError, tasks
<1>2. isSwitching' \in BOOLEAN
  BY DEF SessionInv, SessionTypeOK, ReleaseSelector, ClearError, tasks
<1>3. app' \in AppStates /\ SameLocks
  BY <1>1, MessageOnly DEF SessionInv, SessionTypeOK, SameLocks
<1> QED BY <1>1, <1>2, <1>3
    DEF SessionInv, SessionTypeOK, Targeted, Timed, Released, SameLocks

LEMMA SessionStep ==
  ASSUME SessionInv, [SessionNext]_sessionVars
  PROVE  SessionInv'
<1>1. CASE UNCHANGED sessionVars
  BY <1>1 DEF sessionVars, page, tasks, SessionInv,
     SessionTypeOK, Targeted, Timed, Released
<1>2. CASE RunEffects
  BY <1>2, RunEffectsStep
<1>3. CASE Idle /\ UserStep
  BY <1>3, ConnectionSteps, SelectNetworkStep, RefreshDataStep, TabSteps
     DEF UserStep
<1>4. CASE Continue
  BY <1>4, ConnectionSteps, ChainChangedStep, SafetyTimeoutStep,
     SetProviderStep, FinishSwitchStep, UnlockStep, ReadChainIdStep,
     CheckChainIdStep, StartDelayedStep, RefreshStep, SelectorAndMessageSteps,
     InitializeContractStep DEF Continue
<1>5. CASE \/ ChangeWallet \/ EndTab \/ ClearError
           \/ \E s \in switches : AnswerPrompt(s)
  BY <1>5, ChangeWalletStep, TabSteps, SelectorAndMessageSteps, AnswerPromptStep
<1> QED BY <1>1, <1>2, <1>3, <1>4, <1>5 DEF SessionNext

THEOREM SessionInvariance == SessionSpec => []SessionInv
<1>1. SessionInit => SessionInv
  BY SessionInitInvariant
<1>2. SessionInv /\ [SessionNext]_sessionVars => SessionInv'
  BY SessionStep
<1> QED BY <1>1, <1>2, PTL DEF SessionSpec

(* The state of the page keeps its form: whatever wallet, user, timers and *)
(* effects do, a closure names a network, and a prompt a known target.     *)
THEOREM SessionTypeCorrect == SessionSpec => []SessionTypeOK
<1>1. SessionInv => SessionTypeOK
  BY DEF SessionInv
<1> QED BY <1>1, SessionInvariance, PTL

(* Nothing locks the page without a timeout, an effect, an initialisation, *)
(* a refresh, the handler of a tab or a switch on its way that unlocks it. *)
THEOREM EveryLockIsServed == SessionSpec => []LocksAreServed
<1>1. SessionInv => LocksAreServed
  BY DEF SessionInv, Timed, Released, LocksAreServed, Idle, Deps
<1> QED BY <1>1, SessionInvariance, PTL
=============================================================================
