----------------------------- MODULE GoalQueue -----------------------------
(***************************************************************************)
(* What SimpleActionServer promises the clients of its action: goals are   *)
(* accepted or rejected, an accepted goal ends only by a transition that   *)
(* the ROS 2 goal state machine allows, no accepted goal is forgotten, and *)
(* the goal being served is always the oldest one that has not ended.      *)
(* Threads, slots and flags are the business of the implementation.        *)
(***************************************************************************)
CONSTANTS Goal,      \* identifiers a client can use for a goal
          NoGoal     \* the value of "no goal"

VARIABLES goal,      \* state of each goal, as the client sees it
          order,     \* <<g, h>> \in order: g was accepted before h, neither has ended
          serving    \* the goal the user's callback works on, or NoGoal

vars == <<goal, order, serving>>

Active    == {"executing", "canceling"}
Terminal  == {"succeeded", "aborted", "canceled"}
GoalState == Active \cup Terminal \cup {"unknown", "rejected"}

Open == {g \in Goal : goal[g] \in Active}

Init ==
  /\ goal = [g \in Goal |-> "unknown"]
  /\ order = {}
  /\ serving = NoGoal

(* An identifier is used again only after its goal has ended. *)
Accept(g) ==
  /\ g \notin Open
  /\ goal' = [goal EXCEPT ![g] = "executing"]
  /\ order' = order \cup (Open \X {g})
  /\ UNCHANGED serving

Reject(g) ==
  /\ g \notin Open
  /\ goal' = [goal EXCEPT ![g] = "rejected"]
  /\ UNCHANGED <<order, serving>>

Cancel(g) ==
  /\ goal[g] = "executing"
  /\ goal' = [goal EXCEPT ![g] = "canceling"]
  /\ UNCHANGED <<order, serving>>

(* rcl goal state machine: CANCELED is reachable from CANCELING only. *)
Ends(g) ==
  \/ goal[g] = "executing" /\ goal'[g] \in {"succeeded", "aborted"}
  \/ goal[g] = "canceling" /\ goal'[g] \in Terminal

(* Some goals end (possibly none) and the server turns to the oldest goal  *)
(* that is left, or to none.                                               *)
Progress ==
  /\ goal' \in [Goal -> GoalState]
  /\ \A g \in Goal : goal'[g] = goal[g] \/ Ends(g)
  /\ order' = {p \in order : goal'[p[1]] \in Active /\ goal'[p[2]] \in Active}
  /\ \/ serving' = NoGoal
     \/ /\ serving' \in Open'
        /\ \A h \in Goal : <<h, serving'>> \notin order'

Next ==
  \/ \E g \in Goal : Accept(g) \/ Reject(g) \/ Cancel(g)
  \/ Progress

Spec == Init /\ [][Next]_vars
=============================================================================
