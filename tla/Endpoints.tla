------------------------------ MODULE Endpoints ------------------------------
(***************************************************************************)
(* What oneshot.rs, bounded_broadcast.rs, watch.rs and rendezvous.rs have  *)
(* in common: the handles of one channel, the operation each thread is in, *)
(* the registration and the park of a blocking receive, and a select! with *)
(* one arm on the channel (select.rs over the hooks of that channel).      *)
(*                                                                         *)
(* A module of one of these channels EXTENDS this one, adds the state of   *)
(* the channel and the steps that read and write it, and puts all of them  *)
(* together.  A receive that has its answer goes to "return", where its    *)
(* guard is dropped.                                                       *)
(***************************************************************************)
EXTENDS Waiter, FiniteSets

CONSTANTS
  Programs,    \* what the threads may do: one is chosen at the start
  MaxTimed     \* bound, per thread: how many select calls with a deadline it makes

(* A program is a record of functions on Threads:                           *)
(*   uses       the operations the thread calls                             *)
(*   handles    the handles ("send", "recv") it starts with                 *)
(*   offspring  the handle it is given by a clone, or NoHandle              *)
(* and of two bounds: items, the number of items that are sent in all, and  *)
(* spurious, the number of spurious returns of thread::park.                *)
NoHandle == "none"

ASSUME EndpointAssumption ==
  /\ IsFiniteSet(Threads)
  /\ MaxTimed \in Nat
  /\ Rounds \subseteq Nat \ {0}
  /\ Lists = {"recv"} /\ Stacks = {"recv", "send"}

ASSUME ProgramAssumption ==
  \A p \in Programs : /\ p.handles \in [Threads -> SUBSET {"send", "recv"}]
                      /\ p.offspring \in [Threads -> {"send", "recv", NoHandle}]
                      /\ \A t \in Threads : p.offspring[t] # NoHandle => p.handles[t] = {}
                      /\ p.items \in Nat /\ p.spurious \in Nat

VARIABLES
  program,    \* the program; never changes
  held,       \* per thread: the handles it owns
  pc,         \* per thread: the next step of its operation, or "idle"
  op,         \* per thread: the operation it is in, or "none"
  answer,     \* per thread: what the receive it is in is about to return
  arm,        \* per thread: the local variables of select_impl
  spurious    \* how often park has returned without a permit

endVars == <<program, held, pc, op, answer, arm, spurious>>

(* turn: the turn of the loop, 0 before its registration; node: where its   *)
(* walk is; limit: "none", or whether the deadline is "ahead" or "passed";  *)
(* timed: how many of the thread's calls have had one.                      *)
NoArm == [turn |-> 0, node |-> NoNode, limit |-> "none", timed |-> 0]

EndpointInit ==
  /\ program \in Programs
  /\ held = program.handles
  /\ pc = [t \in Threads |-> IF program.offspring[t] = NoHandle THEN "idle" ELSE "unborn"]
  /\ op = [t \in Threads |-> "none"]
  /\ answer = [t \in Threads |-> "none"]
  /\ arm = [t \in Threads |-> NoArm]
  /\ spurious = 0

Senders   == {t \in Threads : "send" \in held[t]}
Receivers == {t \in Threads : "recv" \in held[t]}

-----------------------------------------------------------------------------
(* Steps: t takes the one named at, when it is not inside a wake call.      *)
At(t, at) == pc[t] = at /\ Free(t)

Step(t, to) == pc' = [pc EXCEPT ![t] = to] /\ UNCHANGED <<op, answer>>
Answer(t, a) ==
  /\ pc' = [pc EXCEPT ![t] = "return"]
  /\ answer' = [answer EXCEPT ![t] = a]
  /\ UNCHANGED op
Finish(t) ==
  /\ pc' = [pc EXCEPT ![t] = "idle"]
  /\ op' = [op EXCEPT ![t] = "none"]
  /\ answer' = [answer EXCEPT ![t] = "none"]

(* What a step leaves alone that changes nothing of what is declared here   *)
(* and in Waiter but the control state, or that and the wake calls.         *)
quietVars == <<program, held, arm, spurious, permit, waiting, stack, aborted, selected>>
localVars == <<quietVars, calls>>

Then(t, wakes) == calls' = [calls EXCEPT ![t] = wakes]

(* t calls an operation for which it needs a handle of a side.              *)
Call(t, operation, side, step) ==
  /\ operation \in program.uses[t]
  /\ At(t, "idle")
  /\ side \in held[t]
  /\ pc' = [pc EXCEPT ![t] = step]
  /\ op' = [op EXCEPT ![t] = operation]
  /\ UNCHANGED <<answer, localVars>>

(* The first thing a send does.                                             *)
CheckReceivers(t, next) ==
  /\ At(t, "check")
  /\ IF Receivers = {} THEN Finish(t) ELSE Step(t, next)
  /\ UNCHANGED localVars

-----------------------------------------------------------------------------
(* A blocking receive looks once, registers, looks again, parks.            *)
Registered(t) == t \in ToSet(waiting["recv"])

(* There was nothing: try_recv says so, recv goes on.                       *)
Nothing(t, unregistered, registered) ==
  IF op[t] = "try_recv" THEN Answer(t, "empty")
  ELSE Step(t, IF Registered(t) THEN registered ELSE unregistered)

\* Faulty: no second look between registering and parking.
EnlistAndPark(t, next) ==
  /\ At(t, "enlist")
  /\ Register(t, "recv")
  /\ Step(t, "park")
  /\ UNCHANGED <<program, held, arm, spurious, permit, stack, aborted, selected, calls>>

Enlist(t, next) ==
  /\ At(t, "enlist")
  /\ Register(t, "recv")
  /\ Step(t, next)
  /\ UNCHANGED <<program, held, arm, spurious, permit, stack, aborted, selected, calls>>

ParkReturns(t, at, next) ==
  /\ At(t, at)
  /\ permit[t]
  /\ permit' = [permit EXCEPT ![t] = FALSE]
  /\ Step(t, next)
  /\ UNCHANGED <<program, held, arm, spurious, waiting, stack, aborted, selected, calls>>

(* thread::park may also return for no reason.                              *)
Spurious(t) ==
  /\ pc[t] \in {"park", "sleep", "blocked"}
  /\ ~permit[t]
  /\ spurious < program.spurious
  /\ spurious' = spurious + 1
  /\ permit' = [permit EXCEPT ![t] = TRUE]
  /\ UNCHANGED <<program, held, pc, op, answer, arm, waiting, stack, aborted, selected, calls>>

(* The guard goes out of scope, before the next turn or on the way out.     *)
Again(t, next) ==
  /\ At(t, "again")
  /\ Unregister(t, "recv")
  /\ Step(t, next)
  /\ UNCHANGED <<program, held, arm, spurious, permit, stack, aborted, selected, calls>>

Return(t) ==
  /\ At(t, "return")
  /\ Unregister(t, "recv")
  /\ Finish(t)
  /\ UNCHANGED <<program, held, arm, spurious, permit, stack, aborted, selected, calls>>

-----------------------------------------------------------------------------
(* select! with one arm, whose node <<t, turn, 1>> goes on the stack of its *)
(* side.                                                                    *)
ArmSide(t) == IF op[t] = "select_send" THEN "send" ELSE "recv"
ArmNode(t) == <<t, arm[t].turn, 1>>
Won(t) == selected[t][arm[t].turn]

Chained(t, r) == {n \in UNION {ToSet(ch) : ch \in Chains} : Thread(n) = t /\ Round(n) = r}
FreshTurn(t) == CHOOSE r \in Rounds : Chained(t, r) = {}

(* A turn's "selected" is an atomic of its own, which matters as long as    *)
(* one of its nodes may yet be elected; the names of turns are used again.  *)
Retire(t) ==
  selected' = IF arm[t].turn = 0 \/ ~(Chained(t, arm[t].turn) \subseteq aborted \ Elected)
              THEN selected
              ELSE [selected EXCEPT ![t][arm[t].turn] = Unselected]

Proceed(t, to, a) == Step(t, to) /\ arm' = [arm EXCEPT ![t] = a]

(* select_impl returns the arm, or None.                                    *)
Leaving(t) == [arm[t] EXCEPT !.turn = 0, !.node = NoNode, !.limit = "none"]
CompleteArm(t) == Proceed(t, "complete", Leaving(t)) /\ Retire(t)
TakeDefault(t) == Finish(t) /\ arm' = [arm EXCEPT ![t] = Leaving(t)] /\ Retire(t)

(* is_ready has answered, in the sweep before or after the registration.    *)
ArmReady(t) ==
  \/ arm[t].turn = 0 /\ CompleteArm(t)
  \/ /\ arm[t].turn # 0
     /\ selected' = [selected EXCEPT ![t][arm[t].turn] = 1]
     /\ Proceed(t, "decide", arm[t])

ArmNotReady(t) ==
  \/ arm[t].turn # 0 /\ Proceed(t, "decide", arm[t]) /\ UNCHANGED selected
  \/ arm[t].turn = 0 /\ arm[t].limit = "passed" /\ TakeDefault(t)
  \/ /\ arm[t].turn = 0 /\ arm[t].limit # "passed"
     /\ \E r \in Rounds : Chained(t, r) = {}
     /\ selected' = [selected EXCEPT ![t][FreshTurn(t)] = Unselected]
     /\ Proceed(t, "enrol", [arm[t] EXCEPT !.turn = FreshTurn(t)])

(* What a step of is_ready leaves alone.                                    *)
probeVars == <<program, held, spurious, permit, waiting, stack, aborted, calls>>

(* push_select_waiter at the end of register_select.                        *)
PushArm(t, at) ==
  /\ At(t, at)
  /\ PushNode(ArmNode(t), ArmSide(t))
  /\ Step(t, "probe")
  /\ UNCHANGED <<program, held, arm, spurious, permit, waiting, aborted, selected, calls>>

Decide(t) ==
  /\ At(t, "decide")
  /\ Step(t, IF Won(t) = Unselected THEN "sleep" ELSE "abort")
  /\ UNCHANGED localVars

\* Faulty: park where park_timeout is needed.
WakeUpByPermitOnly(t) ==
  /\ At(t, "sleep")
  /\ permit[t]
  /\ permit' = [permit EXCEPT ![t] = FALSE]
  /\ Step(t, "abort")
  /\ UNCHANGED <<program, held, arm, spurious, waiting, stack, aborted, selected, calls>>

WakeUp(t) ==
  /\ At(t, "sleep")
  /\ permit[t] \/ arm[t].limit = "passed"
  /\ permit' = [permit EXCEPT ![t] = FALSE]
  /\ Step(t, "abort")
  /\ UNCHANGED <<program, held, arm, spurious, waiting, stack, aborted, selected, calls>>

(* abort_select: load the top of the stack, then walk down.                 *)
AbortLoad(t) ==
  /\ At(t, "abort")
  /\ IF Top(ArmSide(t)) = NoNode THEN Proceed(t, "judge", arm[t])
     ELSE Proceed(t, "walk", [arm[t] EXCEPT !.node = Top(ArmSide(t))])
  /\ UNCHANGED <<program, held, spurious, waiterVars>>

Walk(t) ==
  /\ At(t, "walk")
  /\ LET n == arm[t].node IN
     /\ IF Allocated(n) THEN Mark(n, t, arm[t].turn) ELSE UNCHANGED aborted
     /\ \E m \in Beyond(n) :
          Proceed(t, IF m = NoNode THEN "judge" ELSE "walk", [arm[t] EXCEPT !.node = m])
  /\ UNCHANGED <<program, held, spurious, permit, waiting, stack, selected, calls>>

Judge(t) ==
  /\ At(t, "judge")
  /\ \/ Won(t) # Unselected /\ CompleteArm(t)
     \/ Won(t) = Unselected /\ arm[t].limit = "passed" /\ TakeDefault(t)
     \/ /\ Won(t) = Unselected /\ arm[t].limit # "passed"
        /\ Proceed(t, "probe", [arm[t] EXCEPT !.turn = 0])
        /\ Retire(t)
  /\ UNCHANGED probeVars

(* The steps of select_impl that are the same for every channel.            *)
SelectStep(t) == Decide(t) \/ WakeUp(t) \/ AbortLoad(t) \/ Walk(t) \/ Judge(t)

(* The macro, with a default arm or without.                                *)
SelectCall(t, operation, side) ==
  /\ operation \in program.uses[t]
  /\ At(t, "idle")
  /\ side \in held[t]
  /\ pc' = [pc EXCEPT ![t] = "probe"]
  /\ op' = [op EXCEPT ![t] = operation]
  /\ \/ UNCHANGED arm
     \/ /\ arm[t].timed < MaxTimed
        /\ arm' = [arm EXCEPT ![t].limit = "ahead", ![t].timed = @ + 1]
  /\ UNCHANGED <<answer, probeVars, selected>>

DeadlinePasses(t) ==
  /\ arm[t].limit = "ahead"
  /\ arm' = [arm EXCEPT ![t].limit = "passed"]
  /\ UNCHANGED <<program, held, pc, op, answer, spurious, waiterVars>>

(* The macro completes the arm by the operation it stands for.              *)
CompleteBy(t, operation, step) ==
  /\ At(t, "complete")
  /\ pc' = [pc EXCEPT ![t] = step]
  /\ op' = [op EXCEPT ![t] = operation]
  /\ UNCHANGED <<answer, localVars>>

-----------------------------------------------------------------------------
(* Clone and Drop.                                                          *)
CloneHandle(t, u) ==
  /\ At(t, "idle")
  /\ pc[u] = "unborn"
  /\ program.offspring[u] \in held[t]
  /\ held' = [held EXCEPT ![u] = {program.offspring[u]}]
  /\ Step(u, "idle")
  /\ UNCHANGED <<program, arm, spurious, waiterVars>>

MayDrop(t, side) ==
  /\ "drop" \in program.uses[t]
  /\ At(t, "idle")
  /\ side \in held[t]

DropHandle(t, side, wakes) ==
  /\ MayDrop(t, side)
  /\ held' = [held EXCEPT ![t] = @ \ {side}]
  /\ Then(t, wakes)
  /\ UNCHANGED <<program, pc, op, answer, arm, spurious>>
  /\ UNCHANGED <<permit, waiting, stack, aborted, selected>>

WakeEverybody == <<WakeAll("recv"), SelectAll("recv")>>

DropSender(t) ==
  DropHandle(t, "send", IF Senders = {t} THEN WakeEverybody ELSE <<>>)

DropReceiver(t) ==
  DropHandle(t, "recv", IF Receivers = {t} THEN <<Drain("recv")>> ELSE <<>>)

Idle(t) == pc[t] = "unborn" \/ At(t, "idle")

-----------------------------------------------------------------------------
SelectSteps == {"probe", "probe_more", "enrol", "enrol_more", "push", "decide", "sleep",
                "abort", "walk", "judge"}

EndpointTypeOK ==
  /\ program \in Programs
  /\ held \in [Threads -> SUBSET {"send", "recv"}]
  /\ answer \in [Threads -> {"none", "ok", "empty", "lagged", "disconnected"}]
  /\ spurious \in 0 .. program.spurious
  /\ permit \in [Threads -> BOOLEAN]
  /\ ToSet(waiting["recv"]) \subseteq Threads
  /\ \A t \in Threads : /\ arm[t].turn \in Rounds \cup {0}
                        /\ arm[t].limit \in {"none", "ahead", "passed"}
                        /\ arm[t].timed \in 0 .. MaxTimed
                        /\ pc[t] = "idle" => op[t] = "none" /\ answer[t] = "none"

(* Thread u is about to unpark thread t, a registered receiver, or has a    *)
(* node of t's present turn before it.                                      *)
WillUnpark(u, t) ==
  \E i \in DOMAIN calls[u] :
    LET call == calls[u][i] IN
    \/ call.op = "unpark" /\ t \in ToSet(call.todo)
    \/ call.op \in {"wake_all", "wake_all_unselected"}
    \/ call.op = "wake_one" /\ OneOf(waiting["recv"]) = <<t>>

Current(n, t) == Thread(n) = t /\ Round(n) = arm[t].turn /\ n \notin aborted

WillSelect(u, t) ==
  \E i \in DOMAIN calls[u] :
    LET call == calls[u][i] IN
    \/ /\ call.op \in {"select_one", "select_all"}
       /\ \E n \in ToSet(stack[call.on]) : Current(n, t)
    \/ /\ call.op \in {"visit", "elect"} /\ call.mode \in {"select_one", "select_all"}
       /\ \E n \in ToSet(call.todo) : Current(n, t)
=============================================================================
