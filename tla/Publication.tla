----------------------------- MODULE Publication -----------------------------
(***************************************************************************)
(* What publishing promises: the life of a request to publish a chart.     *)
(* A chart is absent, private, pending or public; a request is asked for     *)
(* once and decided at most once, in one step, while the chart is pending  *)
(* on that very request.                                                   *)
(***************************************************************************)
CONSTANTS Charts, Requests, None

VARIABLES
  status,   \* status[c]
  request,  \* request[c]: the request the chart is pending on, or None
  outcome   \* outcome[s]: what became of a request

vars == <<status, request, outcome>>

Init ==
  /\ status = [c \in Charts |-> "private"]
  /\ request = [c \in Charts |-> None]
  /\ outcome = [s \in Requests |-> "unused"]

Ask(c, s) ==
  /\ status[c] = "private" /\ outcome[s] = "unused"
  /\ status' = [status EXCEPT ![c] = "pending"]
  /\ request' = [request EXCEPT ![c] = s]
  /\ outcome' = [outcome EXCEPT ![s] = "open"]

\* What a decision makes of the chart.
Becomes(decision) ==
  CASE decision \in {"approved", "overtaken"} -> "public"
    [] decision \in {"rejected", "withdrawn"} -> "private"

Decide(c, s, decision) ==
  /\ status[c] = "pending" /\ request[c] = s /\ outcome[s] = "open"
  /\ status' = [status EXCEPT ![c] = Becomes(decision)]
  /\ request' = [request EXCEPT ![c] = None]
  /\ outcome' = [outcome EXCEPT ![s] = decision]

PublishAtOnce(c) ==
  /\ status[c] = "private"
  /\ status' = [status EXCEPT ![c] = "public"]
  /\ UNCHANGED <<request, outcome>>

Retract(c) ==
  /\ status[c] = "public"
  /\ status' = [status EXCEPT ![c] = "private"]
  /\ UNCHANGED <<request, outcome>>

\* The query gets another set of charts: what is removed takes its request
\* along, what is new is private, and what stays is as it was.
Replace(given) ==
  /\ status' = [c \in Charts |->
       CASE c \notin given -> "absent"
         [] c \in given /\ status[c] = "absent" -> "private"
         [] OTHER -> status[c]]
  /\ request' = [c \in Charts |-> IF c \in given THEN request[c] ELSE None]
  /\ outcome' = [s \in Requests |->
       IF \E c \in Charts \ given : request[c] = s THEN "dropped" ELSE outcome[s]]

Next ==
  \/ \E c \in Charts :
       \/ PublishAtOnce(c) \/ Retract(c)
       \/ \E s \in Requests :
            \/ Ask(c, s)
            \/ \E decision \in {"approved", "overtaken", "rejected", "withdrawn"} :
                 Decide(c, s, decision)
  \/ \E given \in SUBSET Charts : Replace(given)

Spec == Init /\ [][Next]_vars
=============================================================================
