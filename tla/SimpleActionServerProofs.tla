---------------------- MODULE SimpleActionServerProofs ----------------------
(***************************************************************************)
(* SimpleActionServer proved for every set of goals: its type invariant,   *)
(* the safety invariants, and that it implements GoalQueue.                *)
(***************************************************************************)
EXTENDS SimpleActionServer, TLAPS

LEMMA InitIInv == Init => IInv
  BY GoalAssumption DEF Init, IInv, TypeOK, OpenGoalsHeldOnce, PreemptIffPending,
     QuietAfterDeactivate, FeedbackHandleValid, FlagsFollowOwner, is_active, Held,
     Active, GoalState, WorkerPC, OwnerPC

(* terminate() ends exactly the handles it is given. *)
LEMMA TerminatedEnds ==
  ASSUME TypeOK, NEW handles
  PROVE  /\ Terminated(handles) \in [Goal -> GoalState]
         /\ \A g \in Goal : Terminated(handles)[g] \in Active
                            <=> goal[g] \in Active /\ g \notin handles
  BY DEF Terminated, FinalState, TypeOK, Active, GoalState

(* Every step preserves the invariant: one case per action. *)
LEMMA StepIInv == IInv /\ [Next]_vars => IInv'
<1> SUFFICES ASSUME IInv, [Next]_vars PROVE IInv'
  OBVIOUS
<1> USE GoalAssumption DEF IInv, TypeOK, OpenGoalsHeldOnce, PreemptIffPending,
     QuietAfterDeactivate, FeedbackHandleValid, FlagsFollowOwner, is_active, Held,
     Active, GoalState, WorkerPC, OwnerPC, is_running, Terminated, Reset, FinalState
<1>1. ASSUME NEW g \in Goal, handle_goal(g) PROVE IInv'
  BY <1>1 DEF handle_goal, ExecutorIdle, slots, flags
<1>2. ASSUME NEW g \in Goal, handle_cancel(g) PROVE IInv'
  BY <1>2 DEF handle_cancel, ExecutorIdle, slots, flags
<1>3. CASE handle_accepted
  <2>1. goal[arriving] \in Active /\ arriving \in Goal
    BY <1>3 DEF handle_accepted, Replaced
  <2>2. CASE is_active(current_handle) \/ is_running
    <3>1. \A g \in Goal : goal'[g] \in Active <=> goal[g] \in Active /\ g # pending_handle
      BY <1>3, <2>2, TerminatedEnds DEF handle_accepted, Replaced
    <3>2. TypeOK'
      <4>1. goal' \in [Goal -> GoalState]
        BY <1>3, <2>2, TerminatedEnds DEF handle_accepted, Replaced
      <4> QED
        BY <1>3, <2>1, <2>2, <4>1 DEF handle_accepted, Replaced, flags
    <3>3. pending_handle' = arriving /\ arriving' = NoGoal /\ current_handle' = current_handle
      BY <1>3, <2>2 DEF handle_accepted, Replaced
    <3>4. OpenGoalsHeldOnce'
      <4>1. goal'[arriving] \in Active
        BY <2>1, <3>1
      <4> QED
        BY <2>1, <3>1, <3>3, <4>1
    <3>5. PreemptIffPending' /\ QuietAfterDeactivate' /\ FeedbackHandleValid' /\ FlagsFollowOwner'
      BY <1>3, <2>1, <2>2, <3>1, <3>3 DEF handle_accepted, Replaced, flags
    <3> QED
      BY <3>2, <3>4, <3>5
  <2>3. CASE ~(is_active(current_handle) \/ is_running)
    <3>1. \A g \in Goal : goal'[g] \in Active <=> goal[g] \in Active /\ g # pending_handle
      BY <1>3, <2>3, TerminatedEnds DEF handle_accepted, Replaced
    <3>2. current_handle = NoGoal /\ pending_handle' = NoGoal
      BY <1>3, <2>3 DEF handle_accepted, Replaced
    <3> QED
      BY <1>3, <2>1, <2>3, <3>1, <3>2 DEF handle_accepted, Replaced, flags
  <2> QED
    BY <2>2, <2>3
<1>4. CASE cancel_goal
  BY <1>4 DEF cancel_goal, slots, flags
<1>5. CASE accept_pending_goal
  BY <1>5 DEF accept_pending_goal, flags, handler
<1>6. CASE terminate_pending_goal
  BY <1>6 DEF terminate_pending_goal, flags, handler
<1>7. CASE user_terminate_all
  BY <1>7 DEF user_terminate_all, terminate_all, flags, handler
<1>8. CASE terminate_current
  BY <1>8 DEF terminate_current, flags, handler
<1>9. CASE succeeded_current
  BY <1>9 DEF succeeded_current, flags, handler
<1>10. CASE publish_feedback_check
  BY <1>10 DEF publish_feedback_check, slots, flags, handler
<1>11. CASE publish_feedback_use
  BY <1>11 DEF publish_feedback_use, slots, flags, handler
<1>12. CASE work_loop
  BY <1>12 DEF work_loop, KeepsWorking, slots, flags, handler
<1>13. CASE work_exception
  BY <1>13 DEF work_exception, terminate_all, flags, handler
<1>14. CASE work_locked
  BY <1>14 DEF work_locked, Unfinished, TakesPending, terminate_all, slots, flags, handler
<1>15. CASE work_done
  BY <1>15 DEF work_done, slots, flags, handler
<1>16. CASE activate
  BY <1>16 DEF activate, slots, handler
<1>17. CASE deactivate
  BY <1>17 DEF deactivate, RequestStop, slots, handler
<1>18. CASE deactivate_check
  BY <1>18 DEF deactivate_check, slots, flags, handler
<1>19. CASE deactivate_overdue
  BY <1>19 DEF deactivate_overdue, terminate_all, flags, handler
<1>20. CASE deactivate_return
  BY <1>20 DEF deactivate_return, slots, flags, handler
<1>21. CASE UNCHANGED vars
  BY <1>21 DEF vars, slots, flags, handler
<1> QED
  BY <1>1, <1>2, <1>3, <1>4, <1>5, <1>6, <1>7, <1>8, <1>9, <1>10, <1>11, <1>12,
     <1>13, <1>14, <1>15, <1>16, <1>17, <1>18, <1>19, <1>20, <1>21
  DEF Next, Executor, UserCallback, Worker, Owner

(* The inductive invariant holds in every reachable state. *)
THEOREM Inductive == Spec => []IInv
  BY InitIInv, StepIInv, PTL DEF Spec

(* Every variable keeps its type; in particular a goal never gets a state  *)
(* that the goal state machine of rcl does not have.                       *)
THEOREM TypeCorrect == Spec => []TypeOK
<1>1. IInv => TypeOK
  BY DEF IInv
<1> QED
  BY <1>1, Inductive, PTL

(* No accepted goal is lost or held twice. *)
THEOREM GoalsHeldOnce == Spec => []OpenGoalsHeldOnce
<1>1. IInv => OpenGoalsHeldOnce
  BY DEF IInv
<1> QED
  BY <1>1, Inductive, PTL

(* preempt_requested_ tells the truth about the pending slot. *)
THEOREM PreemptFlagCorrect == Spec => []PreemptIffPending
<1>1. IInv => PreemptIffPending
  BY DEF IInv
<1> QED
  BY <1>1, Inductive, PTL

(* No callback runs once deactivate() has returned. *)
THEOREM DeactivateIsQuiet == Spec => []QuietAfterDeactivate
<1>1. IInv => QuietAfterDeactivate
  BY DEF IInv
<1> QED
  BY <1>1, Inductive, PTL

(* publish_feedback() loses its handle to an overdue deactivate() only. *)
THEOREM FeedbackHandle == Spec => []FeedbackHandleValid
<1>1. IInv => FeedbackHandleValid
  BY DEF IInv
<1> QED
  BY <1>1, Inductive, PTL

-----------------------------------------------------------------------------
(* The refinement.  A step that accepts, rejects or cancels a goal is that *)
(* step of GoalQueue; every other one is a Progress step or a stutter.     *)

LEMMA InitQueue == Init => Queue!Init
  BY GoalAssumption DEF Init, Queue!Init, GoalOrder, Queued, Serving

LEMMA StepQueue == IInv /\ IInv' /\ [Next]_vars => [Queue!Next]_Queue!vars
<1> SUFFICES ASSUME IInv, IInv', [Next]_vars PROVE [Queue!Next]_Queue!vars
  OBVIOUS
<1> USE GoalAssumption DEF IInv, TypeOK, OpenGoalsHeldOnce, is_active, Held,
     Active, GoalState, Queue!Active, Queue!Terminal, Queue!GoalState, Queue!Open
<1>1. ASSUME NEW g \in Goal, handle_goal(g) PROVE Queue!Accept(g) \/ Queue!Reject(g)
  <2>1. UNCHANGED Serving
    BY <1>1 DEF handle_goal, slots, Serving
  <2>2. CASE server_active
    <3>1. GoalOrder' = GoalOrder \cup (Queue!Open \X {g})
      BY <1>1, <2>2 DEF handle_goal, ExecutorIdle, slots, GoalOrder, Queued
    <3> QED
      BY <1>1, <2>1, <2>2, <3>1 DEF handle_goal, Queue!Accept
  <2>3. CASE ~server_active
    <3>1. UNCHANGED GoalOrder
      BY <1>1, <2>3 DEF handle_goal, slots, GoalOrder, Queued
    <3> QED
      BY <1>1, <2>1, <2>3, <3>1 DEF handle_goal, Queue!Reject
  <2> QED
    BY <2>2, <2>3
<1>2. ASSUME NEW g \in Goal, handle_cancel(g) PROVE UNCHANGED Queue!vars
  BY <1>2 DEF handle_cancel, slots, Queue!vars, GoalOrder, Queued, Serving
<1>3. CASE cancel_goal
  <2>1. UNCHANGED <<GoalOrder, Serving>>
    BY <1>3 DEF cancel_goal, slots, GoalOrder, Queued, Serving
  <2> QED
    BY <1>3, <2>1 DEF cancel_goal, Queue!Cancel, Queue!Next, Queue!vars
<1> DEFINE Kept == {p \in GoalOrder : goal'[p[1]] \in Active /\ goal'[p[2]] \in Active}
<1>4. ASSUME \A g \in Goal : goal'[g] = goal[g] \/ Queue!Ends(g),
             GoalOrder' = Kept
      PROVE  Queue!Next
  <2>1. CASE Serving' = NoGoal
    BY <1>4, <2>1 DEF Queue!Progress, Queue!Next
  <2>2. CASE Serving' # NoGoal /\ Serving' = current_handle'
    <3>1. \A h \in Goal : <<h, Serving'>> \notin GoalOrder'
      BY <2>2 DEF GoalOrder, Queued
    <3> QED
      BY <1>4, <2>2, <3>1 DEF Queue!Progress, Queue!Next
  <2> QED
    BY <2>1, <2>2 DEF Serving
<1>5. CASE handle_accepted
  <2>1. \A g \in Goal : goal'[g] = goal[g] \/ Queue!Ends(g)
    BY <1>5 DEF handle_accepted, Replaced, Terminated, FinalState, Reset, is_running, flags, Queue!Ends
  <2>2. GoalOrder' = Kept
    BY <1>5 DEF handle_accepted, Replaced, Terminated, FinalState, Reset, is_running, flags, GoalOrder, Queued
  <2> QED
    BY <1>4, <2>1, <2>2
<1>6. CASE accept_pending_goal
  <2>1. \A g \in Goal : goal'[g] = goal[g] \/ Queue!Ends(g)
    BY <1>6 DEF accept_pending_goal, handler, Queue!Ends
  <2>2. GoalOrder' = Kept
    BY <1>6 DEF accept_pending_goal, handler, GoalOrder, Queued
  <2> QED
    BY <1>4, <2>1, <2>2
<1>7. CASE terminate_pending_goal
  <2>1. \A g \in Goal : goal'[g] = goal[g] \/ Queue!Ends(g)
    BY <1>7 DEF terminate_pending_goal, Terminated, FinalState, handler, Queue!Ends
  <2>2. GoalOrder' = Kept
    BY <1>7 DEF terminate_pending_goal, Terminated, FinalState, handler, GoalOrder, Queued
  <2> QED
    BY <1>4, <2>1, <2>2
<1>8. CASE user_terminate_all
  <2>1. \A g \in Goal : goal'[g] = goal[g] \/ Queue!Ends(g)
    BY <1>8 DEF user_terminate_all, terminate_all, Terminated, FinalState, Reset, handler, Queue!Ends
  <2>2. GoalOrder' = Kept
    BY <1>8 DEF user_terminate_all, terminate_all, Terminated, FinalState, Reset, handler, GoalOrder, Queued
  <2> QED
    BY <1>4, <2>1, <2>2
<1>9. CASE terminate_current
  <2>1. \A g \in Goal : goal'[g] = goal[g] \/ Queue!Ends(g)
    BY <1>9 DEF terminate_current, Terminated, FinalState, Reset, handler, Queue!Ends
  <2>2. GoalOrder' = Kept
    BY <1>9 DEF terminate_current, Terminated, FinalState, Reset, handler, GoalOrder, Queued
  <2> QED
    BY <1>4, <2>1, <2>2
<1>10. CASE succeeded_current
  <2>1. \A g \in Goal : goal'[g] = goal[g] \/ Queue!Ends(g)
    BY <1>10 DEF succeeded_current, handler, Queue!Ends
  <2>2. GoalOrder' = Kept
    BY <1>10 DEF succeeded_current, handler, GoalOrder, Queued
  <2> QED
    BY <1>4, <2>1, <2>2
<1>11. CASE work_exception
  <2>1. \A g \in Goal : goal'[g] = goal[g] \/ Queue!Ends(g)
    BY <1>11 DEF work_exception, terminate_all, Terminated, FinalState, Reset, handler, Queue!Ends
  <2>2. GoalOrder' = Kept
    BY <1>11 DEF work_exception, terminate_all, Terminated, FinalState, Reset, handler, GoalOrder, Queued
  <2> QED
    BY <1>4, <2>1, <2>2
<1>12. CASE work_locked
  <2>1. \A g \in Goal : goal'[g] = goal[g] \/ Queue!Ends(g)
    BY <1>12 DEF work_locked, Unfinished, TakesPending, terminate_all, Terminated, FinalState, Reset, slots, handler, Queue!Ends
  <2>2. GoalOrder' = Kept
    BY <1>12 DEF work_locked, Unfinished, TakesPending, terminate_all, Terminated, FinalState, Reset, slots, handler, GoalOrder, Queued
  <2> QED
    BY <1>4, <2>1, <2>2
<1>13. CASE deactivate_overdue
  <2>1. \A g \in Goal : goal'[g] = goal[g] \/ Queue!Ends(g)
    BY <1>13 DEF deactivate_overdue, terminate_all, Terminated, FinalState, Reset, handler, Queue!Ends
  <2>2. GoalOrder' = Kept
    BY <1>13 DEF deactivate_overdue, terminate_all, Terminated, FinalState, Reset, handler, GoalOrder, Queued
  <2> QED
    BY <1>4, <2>1, <2>2
<1>14. CASE work_loop
  <2>1. \A g \in Goal : goal'[g] = goal[g] \/ Queue!Ends(g)
    BY <1>14 DEF work_loop, KeepsWorking, slots, handler, Queue!Ends
  <2>2. GoalOrder' = Kept
    BY <1>14 DEF work_loop, KeepsWorking, slots, handler, GoalOrder, Queued
  <2> QED
    BY <1>4, <2>1, <2>2
<1>15. CASE publish_feedback_check \/ publish_feedback_use \/ work_done
           \/ activate \/ deactivate \/ deactivate_check \/ deactivate_return
           \/ UNCHANGED vars
  <2>1. goal' = goal /\ UNCHANGED <<slots, arriving>>
    BY <1>15 DEF publish_feedback_check, publish_feedback_use, work_done, activate,
       deactivate, deactivate_check, deactivate_return, vars, handler
  <2>2. UNCHANGED Serving
    BY <1>15, <2>1 DEF publish_feedback_check, publish_feedback_use, work_done, activate,
       deactivate, deactivate_check, deactivate_return, vars, slots, Serving
  <2> QED
    BY <2>1, <2>2 DEF Queue!vars, GoalOrder, Queued, slots
<1> QED
  BY <1>1, <1>2, <1>3, <1>5, <1>6, <1>7, <1>8, <1>9, <1>10, <1>11, <1>12, <1>13, <1>14,
     <1>15
  DEF Next, Executor, UserCallback, Worker, Owner, Queue!Next

(* For every set of goals: the clients of the server see a GoalQueue. *)
THEOREM Refinement == Spec => ImplementsGoalQueue
<1>1. Spec => Queue!Init
  BY InitQueue DEF Spec
<1>2. IInv /\ IInv' /\ [Next]_vars => [Queue!Next]_Queue!vars
  BY StepQueue
<1> QED
  BY <1>1, <1>2, Inductive, PTL DEF Spec, ImplementsGoalQueue, Queue!Spec
=============================================================================
