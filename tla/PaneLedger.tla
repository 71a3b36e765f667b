----------------------------- MODULE PaneLedger -----------------------------
(***************************************************************************)
(* What the debugger broker promises about panes and answers, without      *)
(* goroutines, sockets or a request table: a pane is acquired once and     *)
(* released once, in a way that is then final; a request is answered at    *)
(* most once; and once the broker is shut it answers for no pane, and      *)
(* nothing changes any more.  Broker implements this specification.        *)
(***************************************************************************)
CONSTANT Requests

VARIABLES
  ledger,     \* who answers for the pane of each request
  answered,   \* requests that have been given their verdict
  shut        \* Close has returned

vars == <<ledger, answered, shut>>

Released == {"closed", "kept", "aborted", "stray", "suppressed"}

Init ==
  /\ ledger = [r \in Requests |-> "none"]
  /\ answered = {}
  /\ shut = FALSE

Acquire(r) ==
  /\ ~shut /\ ledger[r] = "none"
  /\ ledger' = [ledger EXCEPT ![r] = "held"]
  /\ UNCHANGED <<answered, shut>>

Release(r) ==
  /\ ~shut /\ ledger[r] = "held"
  /\ \E how \in Released : ledger' = [ledger EXCEPT ![r] = how]
  /\ UNCHANGED <<answered, shut>>

Answer(r) ==
  /\ ~shut /\ r \notin answered
  /\ answered' = answered \cup {r}
  /\ UNCHANGED <<ledger, shut>>

\* The answer may come together with the decision to leave the pane to its user.
AnswerAndKeep(r) ==
  /\ ~shut /\ r \notin answered /\ ledger[r] = "held"
  /\ answered' = answered \cup {r}
  /\ ledger' = [ledger EXCEPT ![r] = "kept"]
  /\ UNCHANGED shut

Shut ==
  /\ ~shut /\ \A r \in Requests : ledger[r] # "held"
  /\ shut' = TRUE
  /\ UNCHANGED <<ledger, answered>>

Next ==
  \/ \E r \in Requests : Acquire(r) \/ Release(r) \/ Answer(r) \/ AnswerAndKeep(r)
  \/ Shut

Spec == Init /\ [][Next]_vars

=============================================================================
