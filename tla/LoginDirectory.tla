--------------------------- MODULE LoginDirectory ---------------------------
(***************************************************************************)
(* What the login server promises, whatever its threads, queues and the    *)
(* account service do: every login request is pending, then online under   *)
(* one platform id or refused; a platform id has one holder at most; and   *)
(* who logs in under it ends the holder's stay in the same step.  Nothing  *)
(* else ends it but a logoff for that platform id.                         *)
(***************************************************************************)
EXTENDS Naturals

CONSTANTS
  Requests,   \* the numbers of the login requests, in the order they are taken
  PTIDs       \* platform ids

VARIABLES
  status,     \* request -> "none", "pending", "online" or "ended"
  holder      \* platform id -> the request that is online under it, or 0

vars == <<status, holder>>

Init ==
  /\ status = [i \in Requests |-> "none"]
  /\ holder = [p \in PTIDs |-> 0]

\* The request is there: the next one to be taken, or one that waits.
Open(i) ==
  \/ status[i] = "pending"
  \/ status[i] = "none" /\ \A j \in Requests : j < i => status[j] # "none"

\* A request is taken and waits for the account check.
Ask(i) ==
  /\ Open(i)
  /\ status' = [status EXCEPT ![i] = "pending"]
  /\ UNCHANGED holder

\* The request goes online; whoever held the platform id does no more.
LogIn(i, p) ==
  /\ Open(i)
  /\ status' = [j \in Requests |->
                  IF j = i THEN "online"
                  ELSE IF j = holder[p] THEN "ended" ELSE status[j]]
  /\ holder' = [holder EXCEPT ![p] = i]

\* The request is turned down.
Refuse(i) ==
  /\ Open(i)
  /\ status' = [status EXCEPT ![i] = "ended"]
  /\ UNCHANGED holder

\* The holder of a platform id leaves.
Logoff(p) ==
  /\ holder[p] # 0
  /\ status' = [status EXCEPT ![holder[p]] = "ended"]
  /\ holder' = [holder EXCEPT ![p] = 0]

Next ==
  \/ \E i \in Requests : Ask(i) \/ Refuse(i) \/ \E p \in PTIDs : LogIn(i, p)
  \/ \E p \in PTIDs : Logoff(p)

Spec == Init /\ [][Next]_vars
=============================================================================
