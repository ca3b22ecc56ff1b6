----------------------------- MODULE MCChannel -----------------------------
(* Instances of QueueChannel for TLC: one channel with two receivers, a    *)
(* sender and a clone of it that may outlive it but does not send.         *)
EXTENDS QueueChannel

CONSTANTS ch, s1, s2, r1, r2

MCThreads == {s1, s2, r1, r2}
MCUses == [t \in MCThreads |-> CASE t = s1 -> {"send"}
                                 [] t = s2 -> {}
                                 [] t = r1 -> {"recv"}
                                 [] t = r2 -> {"recv", "try_recv"}]
MCChans == {ch}
MCStacks == {ch} \X {"recv", "send"}
MCHandles == [t \in MCThreads |-> CASE t = s1 -> {<<ch, "send">>}
                                    [] t \in {r1, r2} -> {<<ch, "recv">>}
                                    [] t = s2 -> {}]
MCOffspring == [t \in MCThreads |-> IF t = s2 THEN <<ch, "send">> ELSE NoHandle]
MCStock    == [c \in MCChans |-> 0]
MCMaxItems == [c \in MCChans |-> 2]
MCMaxTaken == [c \in MCChans |-> 1]
MCRounds == {}

MpscFlavours == {[c \in MCChans |-> f] : f \in {BoundedMpsc, UnboundedMpsc}}
MpmcFlavours == {[c \in MCChans |-> f] : f \in {BoundedMpmc, UnboundedMpmc}}
=============================================================================
