------------------------------ MODULE MCSelect ------------------------------
(* An instance of Select for TLC: thread s selects between sending on a,   *)
(* which starts full, and receiving on b; thread p is at the other end of  *)
(* both channels.                                                          *)
EXTENDS Select

CONSTANTS a, b, s, p

MCThreads == {s, p}
MCChans   == {a, b}
MCStacks  == MCChans \X {"recv", "send"}
MCHandles == [t \in MCThreads |-> CASE t = s -> {<<a, "send">>, <<b, "recv">>}
                                    [] t = p -> {<<a, "recv">>, <<b, "send">>}]
MCOffspring == [t \in MCThreads |-> NoHandle]
MCUses == [t \in MCThreads |-> CASE t = s -> {}
                                 [] t = p -> {"send", "try_recv"}]
MCArms == [t \in MCThreads |-> CASE t = s -> <<<<a, "send">>, <<b, "recv">>>>
                                 [] t = p -> <<>>]

\* s has one item to send on a and p one to send on b.
MCStock    == [c \in MCChans |-> CASE c = a -> 2 [] c = b -> 0]
MCMaxItems == [c \in MCChans |-> CASE c = a -> 3 [] c = b -> 1]
MCMaxTaken == [c \in MCChans |-> CASE c = a -> 1 [] c = b -> 0]
MCRounds   == 1 .. 6

\* Two bounded channels, or two unbounded ones, where the send arm is ready.
MCFlavours == {[c \in MCChans |-> BoundedMpsc],
               [c \in MCChans |-> IF c = a THEN UnboundedMpsc ELSE UnboundedMpmc]}

\* What the theorem about NotStranded assumes is true of this program.
ASSUME SelectsAlone == Alone
=============================================================================
