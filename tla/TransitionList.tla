---------------------------- MODULE TransitionList ----------------------------
(***************************************************************************)
(* What the transitions of a cluster promise to threads that call at the   *)
(* same time: every call takes effect at one moment between its start and  *)
(* its return, on a list that is sorted by distance, newest first among    *)
(* equals.                                                                 *)
(***************************************************************************)
EXTENDS SequencesExt, Integers

CONSTANTS Threads, Calls,
          Distance,   \* of each transition
          Target,     \* cluster2 of each transition
          Nobody      \* nullptr

VARIABLES list,
          call,       \* of each thread, or NoCall
          answer      \* to that call, or "pending"

NoCall == [op |-> "none", arg |-> Nobody]

Init ==
  /\ list = <<>>
  /\ call = [t \in Threads |-> NoCall]
  /\ answer = [t \in Threads |-> "pending"]

(* The places in the list of the transitions to a cluster *)
Hits(cluster) == {i \in DOMAIN list : Target[list[i]] = cluster}

First(cluster) ==
  IF Hits(cluster) = {} THEN Nobody
  ELSE list[CHOOSE i \in Hits(cluster) : \A j \in Hits(cluster) : i <= j]

Insert(new) ==
  \E i \in 1..Len(list) + 1 :
    /\ \A j \in DOMAIN list : j < i <=> Distance[list[j]] < Distance[new]
    /\ list' = InsertAt(list, i, new)

Withdraw(old) ==
  \E i \in DOMAIN list : list[i] = old /\ list' = RemoveAt(list, i)

Start(t) ==
  /\ call[t] = NoCall
  /\ \E c \in Calls : call' = [call EXCEPT ![t] = c]
  /\ UNCHANGED <<list, answer>>

Effect(t) ==
  LET op == call[t].op
      arg == call[t].arg
  IN /\ op # "none" /\ answer[t] = "pending"
     /\ CASE op = "insert" -> Insert(arg)
          [] op = "remove" -> Withdraw(arg)
          [] OTHER -> UNCHANGED list
     /\ answer' = [answer EXCEPT ![t] =
                     CASE op = "find" -> First(arg)
                       [] op = "has"  -> IF \E i \in DOMAIN list : list[i] = arg THEN "yes" ELSE "no"
                       [] OTHER -> "done"]
     /\ UNCHANGED call

Return(t) ==
  /\ answer[t] # "pending"
  /\ call' = [call EXCEPT ![t] = NoCall]
  /\ answer' = [answer EXCEPT ![t] = "pending"]
  /\ UNCHANGED list

Spec == Init /\ [][\E t \in Threads : Start(t) \/ Effect(t) \/ Return(t)]_<<list, call, answer>>
===============================================================================
