------------------------------- MODULE Select -------------------------------
(***************************************************************************)
(* select.rs: Select::select_impl over the queue channels, and the         *)
(* completion of the winning arm by the select! macro.  A thread with arms *)
(* sweeps over them, registers a node on every arm's stack, sweeps again,  *)
(* parks, marks its nodes aborted and looks at who won.  Everything the    *)
(* plain threads of QueueChannel do goes on meanwhile.                     *)
(*                                                                         *)
(* The clones the macro makes for its arms are not counted in held: the    *)
(* thread owns the original of each for as long as the clone lives, so     *)
(* neither counter reaches zero any earlier or later for them.             *)
(***************************************************************************)
EXTENDS QueueChannel

CONSTANTS
  Arms,      \* per thread: the arms <<c, "recv">> or <<c, "send">> of its select!
  MaxTimed   \* bound: how many select calls with a deadline there are

ASSUME SelectAssumption ==
  /\ MaxTimed \in Nat
  /\ Rounds \subseteq Nat \ {0}
  /\ Arms \in [Threads -> Seq(Chans \X {"recv", "send"})]

VARIABLES
  sel,       \* per thread: the local variables of select_impl
  timed      \* how many calls with a deadline there have been

selVars == <<sel, timed>>

(*   phase     the sweep it is in: "try", or "recheck" after registration    *)
(*   arm       the arm it is at                                             *)
(*   left      how many arms the loop it is in has still to do              *)
(*   seen      what is_empty or is_full loaded first                        *)
(*   round     the turn of the outer loop, which has its own "selected"     *)
(*   node      where its walk over a stack is                               *)
(*   deadline  "none", "ahead" or "passed"                                  *)
NoSelect == [phase |-> "try", arm |-> 1, left |-> 0, seen |-> 0, round |-> 0,
             node |-> NoNode, deadline |-> "none"]

Selectors == {t \in Threads : Arms[t] # <<>>}

SelectInit == sel = [t \in Threads |-> NoSelect] /\ timed = 0

(* The arm t is at, its channel and its direction.                          *)
ArmOf(t) == Arms[t][sel[t].arm]
Chan(t)  == ArmOf(t)[1]
Side(t)  == ArmOf(t)[2]

(* An unbounded sender's is_ready is true, its register_select and          *)
(* abort_select do nothing.                                                 *)
AlwaysReady(t) == Side(t) = "send" /\ ~flavour[Chan(t)].bounded

Won(t) == selected[t][sel[t].round]

(* Loops over the arms: from arm i, one arm further, and the end of it.      *)
From(s, t, i) == [s EXCEPT !.arm = i, !.left = Len(Arms[t]), !.seen = 0]
Further(s, t) == [s EXCEPT !.arm = 1 + (@ % Len(Arms[t])), !.left = @ - 1]
LastArm(t) == sel[t].left = 1

Local(t, s) == sel' = [sel EXCEPT ![t] = s]

(* A turn's "selected" is an atomic of its own, which lives on in the nodes *)
(* of the turn that have not been freed and which matters as long as one of *)
(* them may yet be elected.  The names of turns are used again.             *)
Chained(t, r) == {n \in UNION {ToSet(ch) : ch \in Chains} : Thread(n) = t /\ Round(n) = r}

Retire(t) ==
  selected' = IF sel[t].round = 0 \/ ~(Chained(t, sel[t].round) \subseteq aborted \ Elected)
              THEN selected
              ELSE [selected EXCEPT ![t][sel[t].round] = Unselected]

FreshRound(t) == CHOOSE r \in Rounds : Chained(t, r) = {}

-----------------------------------------------------------------------------
(* select_impl returns arm i, and the macro completes it with recv or send.  *)
CompleteArm(t, i) ==
  /\ pc' = [pc EXCEPT ![t] = IF Arms[t][i][2] = "recv" THEN "pop" ELSE "check"]
  /\ on' = [on EXCEPT ![t] = Arms[t][i][1]]
  /\ Local(t, NoSelect)
  /\ Retire(t)

(* select_impl returns None, and the default arm runs.                      *)
TakeDefault(t) ==
  /\ Finish(t)
  /\ Local(t, NoSelect)
  /\ Retire(t)

(* select_impl goes on at step with the local variables s.                  *)
Proceed(t, step, s) == Goto(t, step) /\ Local(t, s)

(* A sweep starts at an arm the global fairness counter gives.              *)
Sweep(t) == \E i \in DOMAIN Arms[t] : Proceed(t, "probe", From([sel[t] EXCEPT !.phase = "try"], t, i))

ArmReady(t) ==
  \/ sel[t].phase = "try" /\ CompleteArm(t, sel[t].arm)
  \/ /\ sel[t].phase = "recheck"
     /\ selected' = [selected EXCEPT ![t][sel[t].round] = IF @ = Unselected THEN sel[t].arm ELSE @]
     /\ Proceed(t, "decide", From(sel[t], t, 1))

ArmNotReady(t) ==
  \/ /\ ~LastArm(t)
     /\ Proceed(t, "probe", Further(sel[t], t))
     /\ UNCHANGED selected
  \/ /\ LastArm(t) /\ sel[t].phase = "recheck"
     /\ Proceed(t, "decide", From(sel[t], t, 1))
     /\ UNCHANGED selected
  \/ /\ LastArm(t) /\ sel[t].phase = "try" /\ sel[t].deadline = "passed"
     /\ TakeDefault(t)
  \/ /\ LastArm(t) /\ sel[t].phase = "try" /\ sel[t].deadline # "passed"
     /\ \E r \in Rounds : Chained(t, r) = {}
     /\ LET r == FreshRound(t) IN
        /\ selected' = [selected EXCEPT ![t][r] = Unselected]
        /\ Proceed(t, "enrol", From([sel[t] EXCEPT !.round = r], t, 1))

-----------------------------------------------------------------------------
(* is_ready of the arm t is at.  On a bounded channel it loads two counters, *)
(* or a counter and a slot, before it looks at the count of the other side; *)
(* on an unbounded one the queue itself.                                    *)
ProbeRing(t) ==
  /\ flavour[Chan(t)].bounded
  /\ LET ring == q[Chan(t)] IN
     Proceed(t, "probe_second",
             [sel[t] EXCEPT !.seen = IF Side(t) = "send" THEN ring.tail ELSE ring.head])
  /\ UNCHANGED selected

ProbeQueue(t) ==
  /\ Side(t) = "recv" /\ ~flavour[Chan(t)].bounded
  /\ \/ CanTake(q[Chan(t)]) /\ ArmReady(t)
     \/ ~CanTake(q[Chan(t)]) /\ Proceed(t, "probe_count", sel[t]) /\ UNCHANGED selected

ProbeFirst(t) ==
  /\ At(t, "probe")
  /\ (AlwaysReady(t) /\ ArmReady(t)) \/ ProbeRing(t) \/ ProbeQueue(t)

ProbeSecond(t) ==
  /\ At(t, "probe_second")
  /\ LET c == Chan(t)
         loaded == sel[t].seen
         ready == IF Side(t) = "send" THEN ~IsFull(q[c], Cap, loaded) ELSE ~IsEmpty(q[c], loaded)
     IN \/ ready /\ ArmReady(t)
        \/ /\ ~ready
           /\ Proceed(t, "probe_count", [sel[t] EXCEPT !.seen = 0])
           /\ UNCHANGED selected

ProbeCount(t) ==
  /\ At(t, "probe_count")
  /\ LET others == IF Side(t) = "send" THEN Receivers(Chan(t)) ELSE Senders(Chan(t)) IN
     \/ others = {} /\ ArmReady(t)
     \/ others # {} /\ ArmNotReady(t)

\* Faulty: no second sweep after the registration.
RegisterAndDecide(t) ==
  /\ At(t, "enrol")
  /\ IF AlwaysReady(t) THEN UNCHANGED stack
     ELSE PushNode(<<t, sel[t].round, sel[t].arm>>, ArmOf(t))
  /\ IF LastArm(t) THEN Proceed(t, "decide", From(sel[t], t, 1))
     ELSE Proceed(t, "enrol", Further(sel[t], t))
  /\ UNCHANGED selected

(* register_select, arm after arm.                                          *)
RegisterArm(t) ==
  /\ At(t, "enrol")
  /\ IF AlwaysReady(t) THEN UNCHANGED stack
     ELSE PushNode(<<t, sel[t].round, sel[t].arm>>, ArmOf(t))
  /\ IF LastArm(t) THEN Proceed(t, "probe", From([sel[t] EXCEPT !.phase = "recheck"], t, 1))
     ELSE Proceed(t, "enrol", Further(sel[t], t))
  /\ UNCHANGED selected

Decide(t) ==
  /\ At(t, "decide")
  /\ IF Won(t) = Unselected THEN Proceed(t, "sleep", sel[t])
     ELSE Proceed(t, "abort", sel[t])
  /\ UNCHANGED selected

\* Faulty: park where park_timeout is needed.
WakeUpByPermitOnly(t) ==
  /\ At(t, "sleep")
  /\ permit[t]
  /\ permit' = [permit EXCEPT ![t] = FALSE]
  /\ Proceed(t, "abort", sel[t])
  /\ UNCHANGED selected

(* thread::park or park_timeout returns.                                    *)
WakeUp(t) ==
  /\ At(t, "sleep")
  /\ permit[t] \/ sel[t].deadline = "passed"
  /\ permit' = [permit EXCEPT ![t] = FALSE]
  /\ Proceed(t, "abort", sel[t])
  /\ UNCHANGED selected

(* abort_select_waiters on every arm's stack: load the top, then walk down. *)
\* Faulty: only the first arm is cleaned up.
AbortFirstArm(t) == Proceed(t, "judge", [sel[t] EXCEPT !.node = NoNode])

NextAbort(t) == IF LastArm(t) THEN Proceed(t, "judge", [sel[t] EXCEPT !.node = NoNode])
                ELSE Proceed(t, "abort", [Further(sel[t], t) EXCEPT !.node = NoNode])

AbortLoad(t) ==
  /\ At(t, "abort")
  /\ IF AlwaysReady(t) \/ Top(ArmOf(t)) = NoNode THEN NextAbort(t)
     ELSE Proceed(t, "walk", [sel[t] EXCEPT !.node = Top(ArmOf(t))])
  /\ UNCHANGED <<selected, aborted>>

Walk(t) ==
  /\ At(t, "walk")
  /\ LET n == sel[t].node IN
     /\ IF Allocated(n) THEN Mark(n, t, sel[t].round) ELSE UNCHANGED aborted
     /\ \E m \in Beyond(n) : IF m = NoNode THEN NextAbort(t)
                             ELSE Proceed(t, "walk", [sel[t] EXCEPT !.node = m])
  /\ UNCHANGED selected

Judge(t) ==
  /\ At(t, "judge")
  /\ \/ Won(t) # Unselected /\ CompleteArm(t, Won(t))
     \/ Won(t) = Unselected /\ sel[t].deadline = "passed" /\ TakeDefault(t)
     \/ Won(t) = Unselected /\ sel[t].deadline # "passed" /\ Sweep(t) /\ Retire(t)

-----------------------------------------------------------------------------
(* Bound: a thread selects only while its sends would stay within MaxItems. *)
Promised(c) == SendsUnderWay(c) \cup
               {u \in Selectors : pc[u] \in {"probe", "probe_second", "probe_count", "enrol",
                  "decide", "sleep", "abort", "walk", "judge"} /\ <<c, "send">> \in ToSet(Arms[u])}
RoomFor(c) == q[c].tail + Cardinality(Promised(c)) < MaxItems[c]

(* select, or with a deadline: try_select, select_timeout, select_deadline. *)
SelectCall(t) ==
  /\ t \in Selectors
  /\ At(t, "idle")
  /\ ToSet(Arms[t]) \subseteq held[t]
  /\ \A c \in Chans : <<c, "send">> \in ToSet(Arms[t]) => RoomFor(c)
  /\ pc' = [pc EXCEPT ![t] = "probe"]
  /\ \E i \in DOMAIN Arms[t], d \in {"none", "ahead"} :
       /\ Local(t, From([NoSelect EXCEPT !.deadline = d], t, i))
       /\ timed' = timed + (IF d = "ahead" THEN 1 ELSE 0)
       /\ timed' <= MaxTimed
  /\ UNCHANGED <<flavour, q, held, on, pos, spurious>>
  /\ UNCHANGED waiterVars

DeadlinePasses(t) ==
  /\ sel[t].deadline = "ahead"
  /\ Local(t, [sel[t] EXCEPT !.deadline = "passed"])
  /\ UNCHANGED <<timed, waiterVars, chanVars>>

(* What each step of select_impl leaves alone.                              *)
SelectStep(t) ==
  /\ \/ /\ ProbeFirst(t) \/ ProbeSecond(t) \/ ProbeCount(t) \/ Decide(t) \/ Judge(t)
        /\ UNCHANGED <<permit, stack, aborted>>
     \/ RegisterArm(t) /\ UNCHANGED <<permit, aborted>>
     \/ WakeUp(t) /\ UNCHANGED <<stack, aborted>>
     \/ AbortLoad(t) /\ UNCHANGED <<permit, stack>>
     \/ Walk(t) /\ UNCHANGED <<permit, stack>>
  /\ UNCHANGED <<flavour, q, held, pos, spurious, waiting, calls, timed>>

Step(t) == SelectStep(t) \/ (ChannelStep(t) /\ UNCHANGED selVars)

Chance(t) ==
  \/ SelectCall(t)
  \/ DeadlinePasses(t)
  \/ /\ Voluntary(t) \/ \E c \in Chans : RoomFor(c) /\ SendCall(t, c)
     /\ UNCHANGED selVars

selectVars == <<waiterVars, chanVars, selVars>>

SelectingInit == Init /\ SelectInit
SelectingNext == (\E t \in Threads : Step(t) \/ Chance(t)) \/ (Over /\ UNCHANGED selVars)
SelectingSpec == SelectingInit /\ [][SelectingNext]_selectVars
SelectingFairSpec == SelectingSpec /\ \A t \in Threads : WF_selectVars(Step(t))

-----------------------------------------------------------------------------
SelectSteps == {"probe", "probe_second", "probe_count", "enrol", "decide", "sleep", "abort",
                "walk", "judge"}
Nodes == {<<t, r, i>> : t \in Selectors, r \in Rounds, i \in UNION {DOMAIN Arms[u] : u \in Selectors}}

SelectingTypeOK ==
  /\ ChannelTypeOK
  /\ pc \in [Threads -> {"unborn", "idle"} \cup RecvSteps \cup SendSteps \cup SelectSteps]
  /\ aborted \subseteq Nodes
  /\ \A s \in Stacks : ToSet(stack[s]) \subseteq Nodes
  /\ \A t \in Threads :
       /\ sel[t].phase \in {"try", "recheck"}
       /\ sel[t].deadline \in {"none", "ahead", "passed"}
       /\ sel[t].node \in Nodes \cup {NoNode}
       /\ pc[t] \in {"decide", "sleep", "abort", "walk", "judge"} => sel[t].round \in Rounds
  /\ timed \in 0 .. MaxTimed

(* What a select call on these arms is waiting for.                         *)
ArmDue(c, side) ==
  IF side = "recv" THEN Due(c)
  ELSE ~flavour[c].bounded \/ SlotFree(q[c], Cap) \/ Receivers(c) = {}
SomeArmDue(t) == \E i \in DOMAIN Arms[t] : ArmDue(Arms[t][i][1], Arms[t][i][2])

(* n is a node by which thread t, in its present turn, can be woken.        *)
Current(n, t) == Thread(n) = t /\ Round(n) = sel[t].round /\ n \notin aborted

(* Thread u is in a wake call that has a node of t before it.               *)
WillSelect(u, t) ==
  \E i \in DOMAIN calls[u] :
    LET call == calls[u][i] IN
    \/ /\ call.op \in {"select_one", "select_all"}
       /\ \E n \in ToSet(stack[call.on]) : Current(n, t)
    \/ /\ call.op \in {"visit", "elect"} /\ call.mode \in {"select_one", "select_all"}
       /\ \E n \in ToSet(call.todo) : Current(n, t)

(* The programs for which the next property is stated: no two select calls  *)
(* have an arm in common, and nobody else uses the side of a bounded        *)
(* channel that a select call has an arm on.  With more, a waker frees the  *)
(* nodes of those it does not choose, and is_full and is_empty may take a   *)
(* cursor that another thread has moved on for a full or an empty ring.     *)
Alone ==
  \A t \in Selectors : \A u \in Threads \ {t} : \A arm \in ToSet(Arms[t]) :
    /\ arm \notin ToSet(Arms[u])
    /\ (\E f \in Flavourings : f[arm[1]].bounded) => arm \notin Handles[u] /\ arm # Offspring[u]

(* "Block until one arm is ready": a select call does not sleep while an    *)
(* arm of it can be completed, unless somebody is on the way to wake it.    *)
NotStranded ==
  \A t \in Selectors :
    pc[t] = "sleep" /\ SomeArmDue(t) => permit[t] \/ \E u \in Threads : WillSelect(u, t)

(* The same for the one event nobody can take away again: when the other     *)
(* side of an arm is gone, the call does not sleep on, however many calls    *)
(* wait on that arm's channel.                                              *)
PeersGone(c, side) == IF side = "recv" THEN Senders(c) = {} ELSE Receivers(c) = {}

DisconnectWakes ==
  \A t \in Selectors :
    pc[t] = "sleep" /\ (\E i \in DOMAIN Arms[t] : PeersGone(Arms[t][i][1], Arms[t][i][2]))
      => permit[t] \/ \E u \in Threads : WillSelect(u, t)

(* The nodes still on a channel's stack belong to select calls that are     *)
(* under way or have been marked aborted: a finished call is not mistaken   *)
(* for one that waits, so no wake-up is spent on it.                        *)
FinishedCallsAborted ==
  \A s \in Stacks : \A n \in ToSet(stack[s]) :
    \/ n \in aborted
    \/ pc[Thread(n)] \in SelectSteps /\ sel[Thread(n)].round = Round(n)

(* The same as a promise about the future: a select call whose arm stays    *)
(* ready comes back from its sleep.                                         *)
SelectWakes ==
  \A t \in Selectors : pc[t] = "sleep" /\ SomeArmDue(t) ~> pc[t] # "sleep" \/ ~SomeArmDue(t)

(* A call with a deadline ends after the deadline, with an arm or without.  *)
DeadlineEndsSelect ==
  \A t \in Selectors : sel[t].deadline = "passed" ~> pc[t] \notin SelectSteps

(* "Phase 4 (complete): Re-check and execute the winning channel's           *)
(* completion handler": a thread that is the only receiver of a channel     *)
(* is not sent to receive from it, and left blocked there, without an item. *)
SoleReceiverCompletes ==
  \A t \in Selectors : pc[t] = "park" => Receivers(on[t]) # {t}
=============================================================================
