----------------------------- MODULE MCBroadcast -----------------------------
(* Instances of Broadcast for TLC, with a sender x, a receiver r, and a     *)
(* thread y that sends or receives.                                        *)
EXTENDS Broadcast

CONSTANTS x, y, r

MCThreads == {x, y, r}
MCRounds  == 1 .. 6

(* x laps r, which blocks, and y, which subscribes late and polls.          *)
Lapping == [
  uses      |-> [t \in MCThreads |-> CASE t = x -> {"send", "drop"}
                                       [] t = y -> {"try_recv"}
                                       [] t = r -> {"recv"}],
  handles   |-> [t \in MCThreads |-> CASE t = x -> {"send"}
                                       [] t = y -> {}
                                       [] t = r -> {"recv"}],
  offspring |-> [t \in MCThreads |-> IF t = y THEN "recv" ELSE NoHandle],
  items     |-> 4,
  spurious  |-> 0]

(* x and its clone y publish three messages, in any order: one of them may  *)
(* be overtaken by a whole lap.                                             *)
TwoSenders == [Lapping EXCEPT
  !.uses[y] = {"send", "drop"}, !.offspring[y] = "send", !.uses[r] = {"recv", "drop"},
  !.items = 3]

(* r selects, with a deadline or without, and receives.                     *)
Selecting == [Lapping EXCEPT
  !.uses[y] = {}, !.uses[r] = {"select_recv", "recv"}, !.offspring[y] = NoHandle,
  !.items = 1, !.spurious = 1]

MCPrograms == {Lapping, TwoSenders, Selecting}
=============================================================================
