---------------------------- MODULE MCRendezvous ----------------------------
(* Instances of Rendezvous for TLC: a sender x, a receiver r, and a thread  *)
(* y on either side.                                                        *)
EXTENDS Rendezvous

CONSTANTS x, y, r

MCThreads == {x, y, r}
MCRounds  == 1 .. 6

(* Two receivers, one of which polls, compete for the two sends of x.       *)
Competing == [
  uses      |-> [t \in MCThreads |-> CASE t = x -> {"send", "drop"}
                                       [] t = y -> {"recv", "drop"}
                                       [] t = r -> {"try_recv"}],
  handles   |-> [t \in MCThreads |-> CASE t = x -> {"send"}
                                       [] t = y -> {}
                                       [] t = r -> {"recv"}],
  offspring |-> [t \in MCThreads |-> IF t = y THEN "recv" ELSE NoHandle],
  items     |-> 2,
  spurious  |-> 0]

(* Two receivers block for one send.                                        *)
Blocking == [Competing EXCEPT !.uses[r] = {"recv"}, !.items = 1]

(* x and its clone y send; the receiver may go away before it has received. *)
Departing == [Competing EXCEPT
  !.uses[y] = {"send", "drop"}, !.offspring[y] = "send", !.uses[r] = {"recv", "drop"},
  !.spurious = 1]

(* r selects, with a deadline or without; so does x.                        *)
SelectingRecv == [Competing EXCEPT
  !.uses[y] = {}, !.offspring[y] = NoHandle, !.uses[r] = {"select_recv"}]
SelectingSend == [SelectingRecv EXCEPT
  !.uses[x] = {"select_send", "drop"}, !.uses[r] = {"recv", "drop"}]

MCPrograms == {Competing, Blocking, Departing, SelectingRecv, SelectingSend}

(* What the theorem on lost wake-ups asks of the programs.                  *)
ASSUME SelectsAlone == OneSelects
=============================================================================
