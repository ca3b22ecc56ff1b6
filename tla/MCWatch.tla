------------------------------- MODULE MCWatch -------------------------------
(* Instances of Watch for TLC: a sender x, a receiver r, and a thread y     *)
(* that sends or receives.                                                  *)
EXTENDS Watch

CONSTANTS x, y, r

MCThreads == {x, y, r}
MCRounds  == 1 .. 6

(* x and its clone y send; r waits.                                         *)
TwoSenders == [
  uses      |-> [t \in MCThreads |-> CASE t = x -> {"send", "mark_changed", "drop"}
                                       [] t = y -> {"send", "drop"}
                                       [] t = r -> {"changed", "drop"}],
  handles   |-> [t \in MCThreads |-> CASE t = x -> {"send"}
                                       [] t = y -> {}
                                       [] t = r -> {"recv"}],
  offspring |-> [t \in MCThreads |-> IF t = y THEN "send" ELSE NoHandle],
  items     |-> 2,
  spurious  |-> 1]

(* y waits on a clone of r's receiver.                                      *)
TwoReceivers == [TwoSenders EXCEPT
  !.uses[x] = {"send", "drop"}, !.uses[y] = {"changed", "drop"}, !.offspring[y] = "recv",
  !.items = 1]

(* r both selects, with a deadline or without, and waits.                   *)
Selecting == [TwoSenders EXCEPT
  !.uses[x] = {"send", "drop"}, !.uses[y] = {}, !.offspring[y] = NoHandle,
  !.uses[r] = {"select_recv", "changed"}, !.spurious = 0]

(* Both sides select.                                                       *)
SelectingBoth == [Selecting EXCEPT
  !.uses[x] = {"select_send", "drop"}, !.uses[r] = {"select_recv"}, !.items = 1]

MCPrograms == {TwoSenders, TwoReceivers, Selecting, SelectingBoth}
=============================================================================
