---------------------------- MODULE ActivityLog ----------------------------
(***************************************************************************)
(* What the activity API promises to the clients that log through it:     *)
(* an activity is recorded in one indivisible step, a key (a transaction   *)
(* hash) at most once, and a client that is told its activity is recorded  *)
(* can rely on it.  An answer may get lost, a recorded activity may not.   *)
(***************************************************************************)
CONSTANTS Requests, Keys, NoKey

VARIABLES key,       (* what each request asks to record                   *)
          recorded,  (* the requests whose activity is recorded            *)
          reply      (* the answer of each request, "none" before it       *)

vars == <<key, recorded, reply>>

Init ==
  /\ key = [r \in Requests |-> NoKey]
  /\ recorded = {}
  /\ reply = [r \in Requests |-> "none"]

Submit(r) ==
  /\ key[r] = NoKey
  /\ \E k \in Keys : key' = [key EXCEPT ![r] = k]
  /\ UNCHANGED <<recorded, reply>>

Record(r) ==
  /\ key[r] # NoKey
  /\ reply[r] = "none"
  /\ \A s \in recorded : key[s] # key[r]
  /\ recorded' = recorded \cup {r}
  /\ UNCHANGED <<key, reply>>

(* "ok" and "already" vouch for the record, "error" denies it.             *)
Confirms(r, word) ==
  \/ word = "ok" /\ r \in recorded
  \/ word = "already" /\ r \notin recorded /\ \E s \in recorded : key[s] = key[r]
  \/ word = "error" /\ r \notin recorded
  \/ word = "lost"

(* A crash takes the answers of all requests in progress at once.          *)
Reply ==
  /\ reply' \in [Requests -> {"none", "ok", "already", "error", "lost"}]
  /\ \A r \in Requests : reply'[r] # reply[r] =>
       reply[r] = "none" /\ key[r] # NoKey /\ Confirms(r, reply'[r])
  /\ UNCHANGED <<key, recorded>>

Next == Reply \/ \E r \in Requests : Submit(r) \/ Record(r)

Spec == Init /\ [][Next]_vars
=============================================================================
