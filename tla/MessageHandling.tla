--------------------------- MODULE MessageHandling ---------------------------
(***************************************************************************)
(* What the message pipeline promises for each message of a store: it is   *)
(* claimed at most once, given to the agent at most once after that, and   *)
(* once its handling has ended nothing happens to it any more, whatever    *)
(* subscriptions redeliver and however often the server restarts.          *)
(***************************************************************************)
CONSTANT Messages

VARIABLE status   \* of each message

Status == {"unclaimed", "pending", "running", "ended"}

TypeOK == status \in [Messages -> Status]

Init == status = [m \in Messages |-> "unclaimed"]

Move(m, from, to) ==
  /\ status[m] \in from
  /\ status' = [status EXCEPT ![m] = to]

\* A message before the cutoff ends as it is claimed.
Claim(m) == Move(m, {"unclaimed"}, "pending") \/ Move(m, {"unclaimed"}, "ended")

Begin(m) == Move(m, {"pending"}, "running")

\* Handling ends for some messages at once: a run ends, messages are refused,
\* queued ones expire, a queue is destroyed, the process crashes.
End(S) ==
  /\ S # {}
  /\ \A m \in S : status[m] \in {"pending", "running"}
  /\ status' = [m \in Messages |-> IF m \in S THEN "ended" ELSE status[m]]

Next ==
  \/ \E m \in Messages : Claim(m) \/ Begin(m)
  \/ \E S \in SUBSET Messages : End(S)

Spec == Init /\ [][Next]_status
==============================================================================
