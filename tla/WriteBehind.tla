---------------------------- MODULE WriteBehind ----------------------------
(***************************************************************************)
(* What the write queue promises, without its threads, locks, event and    *)
(* counters: requests are accepted into one order; they are carried out on *)
(* the disk one at a time in that order; an early request may be answered  *)
(* with success as soon as it is accepted, every other one only with its   *)
(* own outcome, and only when it is the oldest.                            *)
(***************************************************************************)
EXTENDS Naturals, Sequences

CONSTANTS Reqs, Ranges, Sectors, Errors, None

VARIABLES
  range,    \* the sectors that each request writes
  early,    \* the requests that may be answered before they are carried out
  accepted, \* the requests that got a place in the order
  pending,  \* those of them that are not yet retired, oldest first
  outcome,  \* of the oldest: "none" until carried out, then "ok" or "failed"
  disk,     \* the request that each sector holds
  answer    \* what the sender of each request was told

vars == <<range, early, accepted, pending, outcome, disk, answer>>

Init ==
  /\ range = [r \in Reqs |-> {}]
  /\ early = {} /\ accepted = {}
  /\ pending = <<>> /\ outcome = "none"
  /\ disk = [s \in Sectors |-> None]
  /\ answer = [r \in Reqs |-> "none"]

Fresh(r) == answer[r] = "none" /\ r \notin early \cup accepted

\* A request is submitted; it may be answered at once, but a write of anything
\* not with success.
Submit(r, g) ==
  /\ Fresh(r)
  /\ range' = [range EXCEPT ![r] = g]
  /\ \/ UNCHANGED answer
     \/ g = {} /\ answer' = [answer EXCEPT ![r] = "SUCCESS"]
     \/ \E a \in Errors : answer' = [answer EXCEPT ![r] = a]
  /\ UNCHANGED <<early, accepted, pending, outcome, disk>>

\* A request that was not accepted is answered with an error.
Refuse(r) ==
  /\ Fresh(r)
  /\ \E a \in Errors : answer' = [answer EXCEPT ![r] = a]
  /\ UNCHANGED <<range, early, accepted, pending, outcome, disk>>

\* It is decided that a request will be answered early.
Promise(r) ==
  /\ Fresh(r)
  /\ early' = early \cup {r}
  /\ UNCHANGED <<range, accepted, pending, outcome, disk, answer>>

Accept(r) ==
  /\ answer[r] = "none" /\ r \notin accepted
  /\ accepted' = accepted \cup {r}
  /\ pending' = Append(pending, r)
  /\ UNCHANGED <<range, early, outcome, disk, answer>>

Acknowledge(r) ==
  /\ r \in early \cap accepted /\ answer[r] = "none"
  /\ answer' = [answer EXCEPT ![r] = "SUCCESS"]
  /\ UNCHANGED <<range, early, accepted, pending, outcome, disk>>

\* The oldest request is carried out, or fails after any part of it.
CarryOut ==
  /\ pending # <<>> /\ outcome = "none"
  /\ \E part \in SUBSET range[Head(pending)] :
       /\ disk' = [s \in Sectors |-> IF s \in part THEN Head(pending) ELSE disk[s]]
       /\ \/ outcome' = "failed"
          \/ outcome' = "ok" /\ part = range[Head(pending)]
  /\ UNCHANGED <<range, early, accepted, pending, answer>>

Report ==
  /\ outcome # "none" /\ Head(pending) \notin early
  /\ answer[Head(pending)] = "none"
  /\ \E a \in IF outcome = "ok" THEN {"SUCCESS"} ELSE Errors :
       answer' = [answer EXCEPT ![Head(pending)] = a]
  /\ UNCHANGED <<range, early, accepted, pending, outcome, disk>>

\* The oldest request leaves; by then it is answered, or will be early.
Retire ==
  /\ outcome # "none"
  /\ Head(pending) \in early \/ answer[Head(pending)] # "none"
  /\ pending' = Tail(pending)
  /\ outcome' = "none"
  /\ UNCHANGED <<range, early, accepted, disk, answer>>

Next ==
  \/ \E r \in Reqs : \/ \E g \in Ranges : Submit(r, g)
                     \/ Refuse(r) \/ Promise(r) \/ Accept(r) \/ Acknowledge(r)
  \/ CarryOut \/ Report \/ Retire

Spec == Init /\ [][Next]_vars
=============================================================================
