------------------------------ MODULE MCOneshot ------------------------------
(* An instance of Oneshot for TLC: a sender x, a blocking receiver r, and a *)
(* thread s whose receiver is a clone that polls, or selects with a         *)
(* deadline or without.                                                     *)
EXTENDS Oneshot

CONSTANTS x, r, s

MCThreads == {x, r, s}
MCRounds  == 1 .. 4

Polling == [
  uses      |-> [t \in MCThreads |-> CASE t = x -> {"send", "drop"}
                                       [] t = r -> {"recv", "drop"}
                                       [] t = s -> {"try_recv", "drop"}],
  handles   |-> [t \in MCThreads |-> CASE t = x -> {"send"}
                                       [] t = r -> {"recv"}
                                       [] t = s -> {}],
  offspring |-> [t \in MCThreads |-> IF t = s THEN "recv" ELSE NoHandle],
  items     |-> 1,
  spurious  |-> 1]

Selecting == [Polling EXCEPT
  !.uses[s] = {"select_recv", "drop"}, !.handles[s] = {"recv"}, !.offspring[s] = NoHandle]

MCPrograms == {Polling, Selecting}

(* What the theorem on lost wake-ups asks of the programs.                  *)
ASSUME ListensAlone == OneWaiter
=============================================================================
