------------------------------- MODULE Waiter -------------------------------
(***************************************************************************)
(* waiter.rs: how threads wait and are woken.  Every channel keeps a list  *)
(* of plain blocked receivers (a Vec behind a mutex) and a lock-free stack *)
(* of the nodes of blocked select calls; this module holds them, the park  *)
(* permits of the threads and the wake calls under way.                    *)
(*                                                                         *)
(* A wake call is a sequence of steps: the list is copied under its lock   *)
(* and the copy is walked outside it; the stack is taken with one swap and *)
(* its nodes are visited and freed one by one.  calls[t] holds what thread *)
(* t still has to do of the wake calls its operation makes, in order; the  *)
(* operation goes on (or returns) once it is empty.                        *)
(*                                                                         *)
(* The list operations are atomic (the mutex); so is the push of a node    *)
(* (a compare_exchange loop that publishes nothing until it succeeds).     *)
(* A visit is two: the load of "aborted", and the compare_exchange on      *)
(* "selected" with the unpark after it (a later unpark could only make a   *)
(* thread that has already been selected look once more).                  *)
(***************************************************************************)
EXTENDS Integers, Sequences, SequencesExt

CONSTANTS
  Threads,    \* the threads of the program
  Lists,      \* recv-waiter lists, one per channel
  Stacks,     \* select-waiter stacks, one or two per channel
  Rounds      \* bound: the turns of select_impl's loop a thread may take

VARIABLES
  permit,     \* per thread: the token thread::park consumes
  waiting,    \* per list: the registered plain receivers, oldest first
  stack,      \* per stack: its nodes, top first
  aborted,    \* the nodes marked aborted
  selected,   \* per thread and round: the arm that won, or Unselected
  calls       \* per thread: the wake calls it still has to carry out

waiterVars == <<permit, waiting, stack, aborted, selected, calls>>

Unselected == 0

(* Node <<t, r, a>> was pushed by thread t in round r for its arm a.        *)
Thread(n) == n[1]
Round(n)  == n[2]
Arm(n)    == n[3]

WaiterInit ==
  /\ permit = [t \in Threads |-> FALSE]
  /\ waiting = [l \in Lists |-> <<>>]
  /\ stack = [s \in Stacks |-> <<>>]
  /\ aborted = {}
  /\ selected = [t \in Threads |-> [r \in Rounds |-> Unselected]]
  /\ calls = [t \in Threads |-> <<>>]

-----------------------------------------------------------------------------
(* The wake calls as values.                                                *)
WakeOne(l)    == [op |-> "wake_one", on |-> l]
WakeAll(l)    == [op |-> "wake_all", on |-> l]
WakeAllUnselected(l) == [op |-> "wake_all_unselected", on |-> l]
SelectOne(s)  == [op |-> "select_one", on |-> s]
SelectAll(s)  == [op |-> "select_all", on |-> s]
Drain(s)      == [op |-> "drain", on |-> s]
Unpark(ts)    == [op |-> "unpark", todo |-> ts]
Visit(mode, ns) == [op |-> "visit", mode |-> mode, todo |-> ns]

(* Thread t is not inside a wake call.                                      *)
Free(t) == calls[t] = <<>>

Calling(t, ops) == calls[t] # <<>> /\ Head(calls[t]).op \in ops

(* t's current call goes on as call; it returns when nothing is left to do. *)
GoOn(t, call) ==
  calls' = [calls EXCEPT ![t] = (IF call.todo = <<>> THEN <<>> ELSE <<call>>) \o Tail(@)]

-----------------------------------------------------------------------------
(* RecvWaiterGuard::register and its Drop, which retains all waiters but    *)
(* its own.                                                                 *)
Without(list, t) ==
  IF t \in ToSet(list) THEN RemoveAt(list, CHOOSE i \in DOMAIN list : list[i] = t) ELSE list

Register(t, l)   == waiting' = [waiting EXCEPT ![l] = Append(@, t)]
Unregister(t, l) == waiting' = [waiting EXCEPT ![l] = Without(@, t)]

(* wake_one_recv_waiter copies the list and takes the first waiter whose    *)
(* compare_exchange succeeds.  A plain waiter's case_id is UNSELECTED, so   *)
(* it exchanges UNSELECTED for itself: it succeeds every time, and the      *)
(* first waiter is the one, however often it has been chosen before.        *)
OneOf(list) == IF list = <<>> THEN <<>> ELSE <<Head(list)>>

SnapshotOne(t) ==
  /\ Calling(t, {"wake_one"})
  /\ GoOn(t, Unpark(OneOf(waiting[Head(calls[t]).on])))
  /\ UNCHANGED <<permit, waiting, stack, aborted, selected>>

(* The other two wake every waiter in the copy: its marker never leaves     *)
(* UNSELECTED, so the one that skips selected waiters skips none.           *)
SnapshotAll(t) ==
  /\ Calling(t, {"wake_all", "wake_all_unselected"})
  /\ GoOn(t, Unpark(waiting[Head(calls[t]).on]))
  /\ UNCHANGED <<permit, waiting, stack, aborted, selected>>

UnparkNext(t) ==
  /\ Calling(t, {"unpark"})
  /\ LET whom == Head(calls[t]).todo IN
     /\ permit' = [permit EXCEPT ![Head(whom)] = TRUE]
     /\ GoOn(t, Unpark(Tail(whom)))
  /\ UNCHANGED <<waiting, stack, aborted, selected>>

-----------------------------------------------------------------------------
(* push_select_waiter.                                                      *)
PushNode(n, s) == stack' = [stack EXCEPT ![s] = <<n>> \o @]

(* wake_select_one, wake_select_all and drain_select_waiters take the whole *)
(* stack first.                                                             *)
SwapStack(t) ==
  /\ Calling(t, {"select_one", "select_all", "drain"})
  /\ LET call == Head(calls[t]) IN
     /\ GoOn(t, Visit(call.op, stack[call.on]))
     /\ stack' = [stack EXCEPT ![call.on] = <<>>]
  /\ UNCHANGED <<permit, waiting, aborted, selected>>

(* They then free one node after the other.  An aborted one is skipped, as  *)
(* are those that drain_select_waiters frees and those that come after the  *)
(* winner of wake_select_one.                                               *)
VisitNode(t) ==
  /\ Calling(t, {"visit"})
  /\ LET call == Head(calls[t])
         n == Head(call.todo)
     IN IF n \notin aborted /\ call.mode \in {"select_one", "select_all"}
        THEN calls' = [calls EXCEPT ![t][1].op = "elect"] /\ UNCHANGED aborted
        ELSE aborted' = aborted \ {n} /\ GoOn(t, Visit(call.mode, Tail(call.todo)))
  /\ UNCHANGED <<permit, waiting, stack, selected>>

(* The node was not aborted when it was looked at.  wake_select_one wakes   *)
(* the first node whose compare_exchange succeeds and none after it;        *)
(* wake_select_all tries them all and unparks in any case.                  *)
ElectNode(t) ==
  /\ Calling(t, {"elect"})
  /\ LET call == Head(calls[t])
         n == Head(call.todo)
         wins == selected[Thread(n)][Round(n)] = Unselected
         wakes == wins \/ call.mode = "select_all"
         mode == IF wins /\ call.mode = "select_one" THEN "rest" ELSE call.mode
     IN /\ selected' = IF wins THEN [selected EXCEPT ![Thread(n)][Round(n)] = Arm(n)]
                       ELSE selected
        /\ permit' = IF wakes THEN [permit EXCEPT ![Thread(n)] = TRUE] ELSE permit
        /\ aborted' = aborted \ {n}
        /\ GoOn(t, Visit(mode, Tail(call.todo)))
  /\ UNCHANGED <<waiting, stack>>

WakeStep(t) == \/ SnapshotOne(t) \/ SnapshotAll(t) \/ UnparkNext(t)
               \/ SwapStack(t) \/ VisitNode(t) \/ ElectNode(t)

-----------------------------------------------------------------------------
(* The nodes that have not been freed are on a stack or in the hands of the *)
(* thread that took them from it, in the order of their next pointers.      *)
Drainers == {u \in Threads : Calling(u, {"visit", "elect"})}
Chains == {stack[s] : s \in Stacks} \cup {Head(calls[u]).todo : u \in Drainers}

(* The nodes whose compare_exchange is the next step of some wake call.     *)
Elected == {Head(Head(calls[u]).todo) : u \in {v \in Threads : Calling(v, {"elect"})}}

Allocated(n) == \E chain \in Chains : n \in ToSet(chain)

NoNode == <<>>
Top(s) == IF stack[s] = <<>> THEN NoNode ELSE Head(stack[s])
NextOf(n) ==
  LET chain == CHOOSE ch \in Chains : n \in ToSet(ch)
      i == CHOOSE j \in 1 .. Len(chain) : chain[j] = n
  IN IF i = Len(chain) THEN NoNode ELSE chain[i + 1]

(* A node on the way may have been taken and freed by a waker since.  What  *)
(* is read from it then is undefined; it may still be its pointer to the    *)
(* next node, the one its waker has come to, or there may be nothing more.  *)
Beyond(n) ==
  IF Allocated(n) THEN {NextOf(n)}
  ELSE {NoNode} \cup {Head(Head(calls[u]).todo) : u \in Drainers}

(* One turn of abort_select_waiters' walk at node n, for thread t's round r:  *)
(* mark it if it is one of t's.                                             *)
Mark(n, t, r) ==
  aborted' = IF Thread(n) = t /\ Round(n) = r THEN aborted \cup {n} ELSE aborted
=============================================================================
