-------------------------------- MODULE Feed --------------------------------
(***************************************************************************)
(* What a broadcast channel promises: an endless log of messages with a    *)
(* window over its end.  Every reader goes through the log from where it   *)
(* joined, message by message, and leaves out only what has fallen out of  *)
(* the window; it never goes back, and never past what is published.       *)
(***************************************************************************)
EXTENDS Integers

CONSTANTS Readers, Window
VARIABLES
  sent,       \* the messages 0 .. sent - 1 have been claimed by senders
  pending,    \* those of them that are not published yet
  cursor      \* per reader: the message it takes next, or Away

Away == -1

Init == sent = 0 /\ pending = {} /\ cursor \in [Readers -> {0, Away}]

Claim == sent' = sent + 1 /\ pending' = pending \cup {sent} /\ UNCHANGED cursor
Publish(i) == i \in pending /\ pending' = pending \ {i} /\ UNCHANGED <<sent, cursor>>

Move(r, to) == cursor' = [cursor EXCEPT ![r] = to] /\ UNCHANGED <<sent, pending>>

Join(r) == cursor[r] = Away /\ Move(r, sent)
Read(r) == cursor[r] \in (0 .. sent - 1) \ pending /\ Move(r, cursor[r] + 1)
Skip(r) ==
  /\ cursor[r] # Away
  /\ \E oldest \in cursor[r] + 1 .. sent - Window : Move(r, oldest)

Next == \/ Claim \/ \E i \in pending : Publish(i)
        \/ \E r \in Readers : Join(r) \/ Read(r) \/ Skip(r)
Spec == Init /\ [][Next]_<<sent, pending, cursor>>
=============================================================================
