-------------------------- MODULE ClusterTransitions --------------------------
(***************************************************************************)
(* Cluster (include/volt/structures/cluster.h): the transitions of one     *)
(* cluster are a linked list through ClusterTransition::next, and several  *)
(* threads insert, remove and look up under the cluster's spin mutex.      *)
(* Every read and write of a pointer is one step.                          *)
(*                                                                         *)
(* A caller inserts a transition that is out of the list and removes one   *)
(* that is in it, each after the call before has returned.                 *)
(***************************************************************************)
EXTENDS Integers, FiniteSets, SequencesExt

CONSTANTS Threads, Transitions, Clusters,
          Distance,   \* ClusterTransition::distance
          Target,     \* ClusterTransition::cluster2
          Nobody,     \* nullptr, and the holder of a free mutex
          MaxCalls    \* bound: calls of all threads

ASSUME DistanceAssumption == Distance \in [Transitions -> Nat]
ASSUME TargetAssumption   == Target \in [Transitions -> Clusters]
ASSUME NobodyAssumption   == Nobody \notin Threads \cup Transitions \cup Clusters
ASSUME FiniteAssumption   == IsFiniteSet(Transitions)
ASSUME PendingAssumption  == "pending" \notin Transitions \cup {Nobody}

VARIABLES transitions,   \* the head of the list
          next,          \* the next field of each transition
          holder,        \* who holds the mutex
          pc, call, prev, iter,   \* each thread's place, call and locals
          answer,
          fate,          \* of each transition: out, inserting, in, removing
          calls          \* calls so far

memory == <<transitions, next>>
locals == <<call, prev, iter, answer>>
vars == <<memory, holder, pc, locals, fate, calls>>

NoCall == [op |-> "none", arg |-> Nobody]

PossibleCalls ==
  [op : {"insert", "remove", "has"}, arg : Transitions] \cup [op : {"find"}, arg : Clusters]

Init ==
  /\ transitions = Nobody
  /\ next = [x \in Transitions |-> Nobody]
  /\ holder = Nobody
  /\ pc = [t \in Threads |-> "idle"]
  /\ call = [t \in Threads |-> NoCall]
  /\ prev = [t \in Threads |-> Nobody]
  /\ iter = [t \in Threads |-> Nobody]
  /\ answer = [t \in Threads |-> "pending"]
  /\ fate = [x \in Transitions |-> "out"]
  /\ calls = 0

Goto(t, from, to) == pc[t] = from /\ pc' = [pc EXCEPT ![t] = to]
Is(t, op) == call[t].op = op
Arg(t) == call[t].arg

-----------------------------------------------------------------------------

(* What a caller must see to before the call *)
MayCall(c) ==
  /\ c.op = "insert" => fate[c.arg] = "out"
  /\ c.op = "remove" => fate[c.arg] = "in"

Claimed(c) ==
  CASE c.op = "insert" -> [fate EXCEPT ![c.arg] = "inserting"]
    [] c.op = "remove" -> [fate EXCEPT ![c.arg] = "removing"]
    [] OTHER -> fate

Start(t) ==
  /\ Goto(t, "idle", "lock")
  /\ calls < MaxCalls /\ calls' = calls + 1
  /\ \E c \in PossibleCalls :
       /\ MayCall(c)
       /\ call' = [call EXCEPT ![t] = c]
       /\ fate' = Claimed(c)
  /\ UNCHANGED <<memory, holder, prev, iter, answer>>

\* mutant: removeTransition() does not lock
LockNotRemove(t) ==
  /\ Goto(t, "lock", IF Is(t, "remove") THEN "head" ELSE "walk")
  /\ Is(t, "remove") \/ holder = Nobody
  /\ holder' = IF Is(t, "remove") THEN holder ELSE t
  /\ prev' = [prev EXCEPT ![t] = Nobody]
  /\ iter' = [iter EXCEPT ![t] = transitions]
  /\ UNCHANGED <<memory, call, answer, fate, calls>>

(* scoped_lock, and the loop's first read of the head *)
Lock(t) ==
  /\ Goto(t, "lock", IF Is(t, "remove") THEN "head" ELSE "walk")
  /\ holder = Nobody /\ holder' = t
  /\ prev' = [prev EXCEPT ![t] = Nobody]
  /\ iter' = [iter EXCEPT ![t] = transitions]
  /\ UNCHANGED <<memory, call, answer, fate, calls>>

\* mutant: an insertion goes on past elements as far away
StopsPastEquals(t) ==
  iter[t] # Nobody =>
    CASE Is(t, "insert") -> Distance[iter[t]] > Distance[Arg(t)]
      [] Is(t, "remove") -> next[iter[t]] = Arg(t)
      [] Is(t, "find")   -> Target[iter[t]] = Arg(t)
      [] Is(t, "has")    -> iter[t] = Arg(t)

(* The condition on which each operation's loop stops *)
Stops(t) ==
  iter[t] # Nobody =>
    CASE Is(t, "insert") -> Distance[iter[t]] >= Distance[Arg(t)]
      [] Is(t, "remove") -> next[iter[t]] = Arg(t)
      [] Is(t, "find")   -> Target[iter[t]] = Arg(t)
      [] Is(t, "has")    -> iter[t] = Arg(t)

Step(t) ==
  /\ pc[t] = "walk" /\ ~Stops(t)
  /\ prev' = [prev EXCEPT ![t] = iter[t]]
  /\ iter' = [iter EXCEPT ![t] = next[iter[t]]]
  /\ UNCHANGED <<memory, holder, pc, call, answer, fate, calls>>

Answer(t, value) == answer' = [answer EXCEPT ![t] = value]

\* mutant: the head is set before the new element's next is
LinkNewLate(t) ==
  /\ Goto(t, "walk", "publish") /\ Is(t, "insert") /\ Stops(t)
  /\ next' = [next EXCEPT ![Arg(t)] = IF prev[t] # Nobody THEN next[prev[t]] ELSE Arg(t)]
  /\ UNCHANGED <<transitions, holder, locals, fate, calls>>

(* insertTransition(): the new element's next, then the one pointer that publishes it *)
LinkNew(t) ==
  /\ Goto(t, "walk", "publish") /\ Is(t, "insert") /\ Stops(t)
  /\ next' = [next EXCEPT ![Arg(t)] = IF prev[t] # Nobody THEN next[prev[t]] ELSE transitions]
  /\ UNCHANGED <<transitions, holder, locals, fate, calls>>

Publish(t) ==
  /\ Goto(t, "publish", "unlock")
  /\ IF prev[t] # Nobody
     THEN next' = [next EXCEPT ![prev[t]] = Arg(t)] /\ UNCHANGED transitions
     ELSE transitions' = Arg(t) /\ UNCHANGED next
  /\ Answer(t, "done")
  /\ UNCHANGED <<holder, call, prev, iter, fate, calls>>

(* removeTransition(): the head is looked at first. A walk that reaches the end asserts  *)
(* false and goes no further.                                                            *)
RemoveHead(t) ==
  /\ \/ /\ transitions = Arg(t) /\ Goto(t, "head", "detach")
        /\ transitions' = next[Arg(t)]
        /\ Answer(t, "done")
     \/ /\ transitions # Arg(t) /\ Goto(t, "head", "walk")
        /\ UNCHANGED <<transitions, answer>>
  /\ UNCHANGED <<next, holder, call, prev, iter, fate, calls>>

Unlink(t) ==
  /\ Goto(t, "walk", "detach") /\ Is(t, "remove") /\ iter[t] # Nobody /\ Stops(t)
  /\ next' = [next EXCEPT ![iter[t]] = next[Arg(t)]]
  /\ Answer(t, "done")
  /\ UNCHANGED <<transitions, holder, call, prev, iter, fate, calls>>

Detach(t) ==
  /\ Goto(t, "detach", "unlock")
  /\ next' = [next EXCEPT ![Arg(t)] = Nobody]
  /\ UNCHANGED <<transitions, holder, locals, fate, calls>>

(* findTransition(), hasTransition() *)
Found(t) ==
  /\ Goto(t, "walk", "unlock")
  /\ Is(t, "find") \/ Is(t, "has")
  /\ Stops(t)
  /\ Answer(t, IF Is(t, "find") THEN iter[t] ELSE IF iter[t] = Nobody THEN "no" ELSE "yes")
  /\ UNCHANGED <<memory, holder, call, prev, iter, fate, calls>>

Unlock(t) ==
  /\ Goto(t, "unlock", "idle")
  /\ holder' = Nobody
  /\ fate' = CASE Is(t, "insert") -> [fate EXCEPT ![Arg(t)] = "in"]
               [] Is(t, "remove") -> [fate EXCEPT ![Arg(t)] = "out"]
               [] OTHER -> fate
  /\ call' = [call EXCEPT ![t] = NoCall]
  /\ Answer(t, "pending")
  /\ UNCHANGED <<memory, prev, iter, calls>>

Inside(t) ==
  \/ Step(t) \/ LinkNew(t) \/ Publish(t) \/ RemoveHead(t) \/ Unlink(t)
  \/ Detach(t) \/ Found(t) \/ Unlock(t)

Next == \E t \in Threads : Start(t) \/ Lock(t) \/ Inside(t)

Spec == Init /\ [][Next]_vars

(* A thread that holds the mutex keeps running; which waiting thread gets it is open. *)
FairSpec == Spec /\ \A t \in Threads : WF_vars(Inside(t))

-----------------------------------------------------------------------------
(* Properties *)

(* Types, and that every step between lock and unlock is taken by the holder. *)
TypeOK ==
  /\ transitions \in Transitions \cup {Nobody}
  /\ next \in [Transitions -> Transitions \cup {Nobody}]
  /\ iter \in [Threads -> Transitions \cup {Nobody}]
  /\ fate \in [Transitions -> {"out", "inserting", "in", "removing"}]
  /\ \A t \in Threads : pc[t] \notin {"idle", "lock"} => holder = t

(* The list as one reads it from the head: its elements follow each other through next,  *)
(* and the last one's next is null. One that never ends is no list.                       *)
At(s, i) == IF i \in DOMAIN s THEN s[i] ELSE Nobody

Reads(s, head, links) ==
  /\ head = At(s, 1)
  /\ \A i \in DOMAIN s : links[s[i]] = At(s, i + 1)

Lists == {s \in BoundedSeq(Transitions, Cardinality(Transitions)) : IsInjective(s)}

ListFrom(head, links) ==
  IF \E s \in Lists : Reads(s, head, links)
  THEN CHOOSE s \in Lists : Reads(s, head, links)
  ELSE <<Nobody>>

List == ListFrom(transitions, next)

L == INSTANCE TransitionList WITH Calls <- PossibleCalls, list <- List

(* Every insertion, removal and lookup takes effect at one moment between its start and  *)
(* its return, on a list sorted by distance: a lookup finds the nearest transition to    *)
(* the cluster it asks for, and sees whatever returned before it began.                  *)
ImplementsTransitionList == L!Spec

(* The assertions of insertTransition() and removeTransition() hold while callers insert *)
(* only what is out of the list and remove only what is in it.                           *)
AssertionsHold ==
  \A t \in Threads :
    /\ pc[t] = "walk" /\ Is(t, "remove") => iter[t] # Nobody
    /\ Is(t, "insert") /\ pc[t] \in {"publish", "unlock"} /\ prev[t] # Nobody =>
         Distance[prev[t]] < Distance[Arg(t)]

(* Nobody keeps the mutex for good: no walk of the list runs in a cycle. *)
MutexIsReleased == \A t \in Threads : holder = t ~> holder # t
===============================================================================
