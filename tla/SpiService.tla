----------------------------- MODULE SpiService -----------------------------
(***************************************************************************)
(* What an SPI master promises its clients: an accepted message is         *)
(* completed exactly once, with a status, in the order of acceptance.      *)
(***************************************************************************)
EXTENDS Naturals, Sequences

CONSTANTS Messages, Results

VARIABLES pending,  \* the accepted messages that are not completed
          result    \* the status of each message; "none" before its completion

vars == <<pending, result>>

Init == pending = <<>> /\ result = [m \in Messages |-> "none"]

Accept(m) ==
  /\ result[m] = "none" /\ \A i \in 1..Len(pending) : pending[i] # m
  /\ pending' = Append(pending, m)
  /\ UNCHANGED result

Complete(r) ==
  /\ pending # <<>>
  /\ result' = [result EXCEPT ![Head(pending)] = r]
  /\ pending' = Tail(pending)

Next == (\E m \in Messages : Accept(m)) \/ (\E r \in Results : Complete(r))

Spec == Init /\ [][Next]_vars

=============================================================================
