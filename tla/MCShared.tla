------------------------------ MODULE MCShared ------------------------------
(* An instance of Select for TLC: two threads select on clones of the      *)
(* receiver of one channel, a third one sends to it.                       *)
EXTENDS Select

CONSTANTS a, s1, s2, p

MCThreads == {s1, s2, p}
MCChans   == {a}
MCStacks  == MCChans \X {"recv", "send"}
MCHandles == [t \in MCThreads |-> IF t = p THEN {<<a, "send">>} ELSE {<<a, "recv">>}]
MCOffspring == [t \in MCThreads |-> NoHandle]
MCUses    == [t \in MCThreads |-> IF t = p THEN {"send"} ELSE {}]
MCArms    == [t \in MCThreads |-> IF t = p THEN <<>> ELSE <<<<a, "recv">>>>]
MCStock    == [c \in MCChans |-> 0]
MCMaxItems == [c \in MCChans |-> 2]
MCRounds   == 1 .. 5
MCFlavours == {[c \in MCChans |-> f] : f \in {BoundedMpmc, UnboundedMpmc}}
=============================================================================
