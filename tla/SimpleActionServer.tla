------------------------- MODULE SimpleActionServer -------------------------
(***************************************************************************)
(* my_nav2::util::SimpleActionServer<ActionT>: an action server that works *)
(* on one goal at a time on a std::async thread and keeps one more goal,   *)
(* the newest, in a pending slot.                                          *)
(*                                                                         *)
(* Four threads meet in it.  The executor calls handle_goal,               *)
(* handle_accepted and handle_cancel, one at a time.  The worker runs      *)
(* work().  The owner of the server calls activate and deactivate.  The    *)
(* user's execute callback runs on the worker and calls the public API.    *)
(* What a thread does while it holds update_mutex_ is one step; every      *)
(* place where it lets go of the mutex separates two steps.                *)
(*                                                                         *)
(* rclcpp::ok() is TRUE throughout: the context outlives the server.       *)
(***************************************************************************)
CONSTANTS Goal,    \* goal identifiers; one is used again after its goal ended
          NoGoal   \* a null goal handle

ASSUME GoalAssumption == NoGoal \notin Goal

VARIABLES
  goal,               \* rcl state of each goal
  server_active,      \* server_active_
  stop_execution,     \* stop_execution_
  preempt_requested,  \* preempt_requested_
  current_handle,     \* current_handle_
  pending_handle,     \* pending_handle_
  worker,             \* where work() is; "none": execution_future_ not valid,
                      \* "ready": the future is ready
  arriving,           \* goal between handle_goal and handle_accepted
  cancelling,         \* goal between handle_cancel and its rcl transition
  owner               \* where deactivate() is; "idle" when not in it

slots   == <<current_handle, pending_handle, preempt_requested>>
flags   == <<server_active, stop_execution>>
handler == <<arriving, cancelling>>
vars    == <<goal, slots, flags, worker, handler, owner>>

Active    == {"executing", "canceling"}
GoalState == Active \cup {"succeeded", "aborted", "canceled", "unknown", "rejected"}

WorkerPC == {"none", "test", "callback", "feedback", "leaving", "ready"}
OwnerPC  == {"idle", "stopping", "waiting", "overdue"}

TypeOK ==
  /\ goal \in [Goal -> GoalState]
  /\ server_active \in BOOLEAN
  /\ stop_execution \in BOOLEAN
  /\ preempt_requested \in BOOLEAN
  /\ current_handle \in Goal \cup {NoGoal}
  /\ pending_handle \in Goal \cup {NoGoal}
  /\ arriving \in Goal \cup {NoGoal}
  /\ cancelling \in Goal \cup {NoGoal}
  /\ worker \in WorkerPC
  /\ owner \in OwnerPC

Init ==
  /\ goal = [g \in Goal |-> "unknown"]
  /\ server_active = FALSE
  /\ stop_execution = FALSE
  /\ preempt_requested = FALSE
  /\ current_handle = NoGoal
  /\ pending_handle = NoGoal
  /\ worker = "none"
  /\ arriving = NoGoal
  /\ cancelling = NoGoal
  /\ owner = "idle"

-----------------------------------------------------------------------------
(* Helpers *)

is_active(h) == h # NoGoal /\ goal[h] \in Active

is_running == worker \notin {"none", "ready"}

(* terminate(handle): the goal is canceled if its client asked for that,   *)
(* otherwise aborted, and the handle is reset.                             *)
\* Broken variant: the status ROS 1 had for a replaced goal.
FinalState_Preempted(s) == IF s = "canceling" THEN "canceled" ELSE "preempted"

\* Broken variant: canceled() without asking is_canceling().
FinalState_AlwaysCanceled(s) == "canceled"

FinalState(s) == IF s = "canceling" THEN "canceled" ELSE "aborted"

Terminated(handles) ==
  [g \in Goal |-> IF g \in handles /\ goal[g] \in Active
                  THEN FinalState(goal[g]) ELSE goal[g]]

Reset(h) == IF is_active(h) THEN NoGoal ELSE h

\* Broken variant: the preemption flag survives.
terminate_all_KeepsPreempt ==
  /\ goal' = Terminated({current_handle, pending_handle})
  /\ current_handle' = Reset(current_handle)
  /\ pending_handle' = Reset(pending_handle)
  /\ UNCHANGED preempt_requested

(* terminate_all() *)
terminate_all ==
  /\ goal' = Terminated({current_handle, pending_handle})
  /\ current_handle' = Reset(current_handle)
  /\ pending_handle' = Reset(pending_handle)
  /\ preempt_requested' = FALSE

-----------------------------------------------------------------------------
(* The executor thread: one action-server callback at a time *)

ExecutorIdle == arriving = NoGoal /\ cancelling = NoGoal

(* rclcpp_action moves an accepted goal to EXECUTING before handle_accepted. *)
handle_goal(g) ==
  /\ ExecutorIdle
  /\ goal[g] \notin Active
  /\ IF server_active
     THEN goal' = [goal EXCEPT ![g] = "executing"] /\ arriving' = g
     ELSE goal' = [goal EXCEPT ![g] = "rejected"] /\ UNCHANGED arriving
  /\ UNCHANGED <<slots, flags, worker, cancelling, owner>>

\* Broken variant: the pending slot is overwritten, its goal not terminated.
Replaced_Dropped == {}

(* The handle that a newer goal pushes out of the pending slot. *)
Replaced == {pending_handle}

handle_accepted ==
  /\ arriving # NoGoal
  /\ IF is_active(current_handle) \/ is_running
     THEN /\ goal' = Terminated(Replaced)
          /\ pending_handle' = arriving
          /\ preempt_requested' = TRUE
          /\ UNCHANGED <<current_handle, worker>>
     ELSE /\ goal' = Terminated({pending_handle})
          /\ pending_handle' = Reset(pending_handle)
          /\ preempt_requested' = (preempt_requested /\ ~is_active(pending_handle))
          /\ current_handle' = arriving
          /\ worker' = "test"
  /\ arriving' = NoGoal
  /\ UNCHANGED <<flags, cancelling, owner>>

handle_cancel(g) ==
  /\ ExecutorIdle
  /\ is_active(g)
  /\ cancelling' = g
  /\ UNCHANGED <<goal, slots, flags, worker, arriving, owner>>

(* rclcpp_action's transition after handle_cancel answered ACCEPT.  The    *)
(* mutex is free by now, so the goal may have ended: the transition then   *)
(* throws and the client is told REJECT.                                   *)
cancel_goal ==
  /\ cancelling # NoGoal
  /\ goal' = IF goal[cancelling] = "executing"
             THEN [goal EXCEPT ![cancelling] = "canceling"] ELSE goal
  /\ cancelling' = NoGoal
  /\ UNCHANGED <<slots, flags, worker, arriving, owner>>

-----------------------------------------------------------------------------
(* The worker thread: work() *)

\* Broken variant: the loop does not look at stop_execution_.
KeepsWorking_IgnoresStop == is_active(current_handle)

KeepsWorking == ~stop_execution /\ is_active(current_handle)

(* The loop condition, read without update_mutex_. *)
work_loop ==
  /\ worker = "test"
  /\ worker' = IF KeepsWorking THEN "callback" ELSE "leaving"
  /\ UNCHANGED <<goal, slots, flags, handler, owner>>

(* execute_callback_ threw. *)
work_exception ==
  /\ worker = "callback"
  /\ terminate_all
  /\ worker' = "leaving"
  /\ UNCHANGED <<flags, handler, owner>>

\* Broken variant: a goal the callback left active is not terminated.
Unfinished_Ignored == {}

(* "Current goal was not completed successfully." *)
Unfinished == {current_handle}

\* Broken variant: work() ends without a look at the pending slot.
TakesPending_Never == FALSE

TakesPending == is_active(pending_handle)

(* execute_callback_ returned; the rest of the loop body holds the mutex. *)
work_locked ==
  /\ worker = "callback"
  /\ \/ /\ stop_execution
        /\ terminate_all
        /\ worker' = "leaving"
     \/ /\ ~stop_execution
        /\ goal' = Terminated(Unfinished)
        /\ IF TakesPending
           THEN /\ current_handle' = pending_handle
                /\ pending_handle' = NoGoal
                /\ preempt_requested' = FALSE
                /\ worker' = "test"
           ELSE /\ current_handle' = Reset(current_handle)
                /\ worker' = "leaving"
                /\ UNCHANGED <<pending_handle, preempt_requested>>
  /\ UNCHANGED <<flags, handler, owner>>

(* work() is over and its mutex released, but the future becomes ready     *)
(* only when the thread function has returned.                             *)
work_done ==
  /\ worker = "leaving"
  /\ worker' = "ready"
  /\ UNCHANGED <<goal, slots, flags, handler, owner>>

-----------------------------------------------------------------------------
(* The public API, called by the execute callback on the worker thread *)

accept_pending_goal ==
  /\ worker = "callback"
  /\ is_active(pending_handle)
  /\ goal' = IF is_active(current_handle) /\ current_handle # pending_handle
             THEN [goal EXCEPT ![current_handle] = "aborted"] ELSE goal
  /\ current_handle' = pending_handle
  /\ pending_handle' = NoGoal
  /\ preempt_requested' = FALSE
  /\ UNCHANGED <<flags, worker, handler, owner>>

terminate_pending_goal ==
  /\ worker = "callback"
  /\ is_active(pending_handle)
  /\ goal' = Terminated({pending_handle})
  /\ pending_handle' = NoGoal
  /\ preempt_requested' = FALSE
  /\ UNCHANGED <<current_handle, flags, worker, handler, owner>>

user_terminate_all ==
  /\ worker = "callback"
  /\ terminate_all
  /\ UNCHANGED <<flags, worker, handler, owner>>

terminate_current ==
  /\ worker = "callback"
  /\ goal' = Terminated({current_handle})
  /\ current_handle' = Reset(current_handle)
  /\ UNCHANGED <<pending_handle, preempt_requested, flags, worker, handler, owner>>

succeeded_current ==
  /\ worker = "callback"
  /\ is_active(current_handle)
  /\ goal' = [goal EXCEPT ![current_handle] = "succeeded"]
  /\ current_handle' = NoGoal
  /\ UNCHANGED <<pending_handle, preempt_requested, flags, worker, handler, owner>>

(* publish_feedback takes no mutex: it looks at current_handle_ once to    *)
(* check it and once more to use it.                                       *)
\* Broken variant: no check that there is an active goal.
publish_feedback_check_None ==
  /\ worker = "callback"
  /\ worker' = "feedback"
  /\ UNCHANGED <<goal, slots, flags, handler, owner>>

publish_feedback_check ==
  /\ worker = "callback"
  /\ is_active(current_handle)
  /\ worker' = "feedback"
  /\ UNCHANGED <<goal, slots, flags, handler, owner>>

publish_feedback_use ==
  /\ worker = "feedback"
  /\ worker' = "callback"
  /\ UNCHANGED <<goal, slots, flags, handler, owner>>

(* What a callback is told when it asks. *)
is_cancel_requested ==
  /\ current_handle # NoGoal
  /\ IF pending_handle # NoGoal THEN goal[pending_handle] = "canceling"
                                ELSE goal[current_handle] = "canceling"

-----------------------------------------------------------------------------
(* The owner of the server: activate() and deactivate() *)

activate ==
  /\ owner = "idle"
  /\ server_active' = TRUE
  /\ stop_execution' = FALSE
  /\ UNCHANGED <<goal, slots, worker, handler, owner>>

\* Broken variant: deactivate() waits without having told anybody to stop.
RequestStop_Silent == UNCHANGED flags

RequestStop == server_active' = FALSE /\ stop_execution' = TRUE

deactivate ==
  /\ owner = "idle"
  /\ RequestStop
  /\ owner' = "stopping"
  /\ UNCHANGED <<goal, slots, worker, handler>>

(* if (!execution_future_.valid()) return; *)
deactivate_check ==
  /\ owner = "stopping"
  /\ owner' = IF worker = "none" THEN "idle" ELSE "waiting"
  /\ UNCHANGED <<goal, slots, flags, worker, handler>>

(* A wait_for(100ms) that ends without the future, server_timeout_ or more *)
(* after the start.  The time elapsed only grows: once overdue, for good.  *)
deactivate_overdue ==
  /\ owner \in {"waiting", "overdue"}
  /\ is_running
  /\ terminate_all
  /\ owner' = "overdue"
  /\ UNCHANGED <<flags, worker, handler>>

deactivate_return ==
  /\ owner \in {"waiting", "overdue"}
  /\ ~is_running
  /\ owner' = "idle"
  /\ UNCHANGED <<goal, slots, flags, worker, handler>>

-----------------------------------------------------------------------------
Executor ==
  \/ \E g \in Goal : handle_goal(g) \/ handle_cancel(g)
  \/ handle_accepted
  \/ cancel_goal

UserCallback ==
  \/ accept_pending_goal
  \/ terminate_pending_goal
  \/ user_terminate_all
  \/ terminate_current
  \/ succeeded_current
  \/ publish_feedback_check
  \/ publish_feedback_use

Worker == work_loop \/ work_exception \/ work_locked \/ work_done

Owner ==
  \/ activate
  \/ deactivate
  \/ deactivate_check
  \/ deactivate_overdue
  \/ deactivate_return

Next == Executor \/ UserCallback \/ Worker \/ Owner

Spec == Init /\ [][Next]_vars

(* A callback that polls the server returns some time after it is told     *)
(* that the server is inactive, that its goal is to be cancelled or that   *)
(* another goal is waiting, however much feedback it publishes meanwhile.  *)
(* Nothing else makes a callback return.                                   *)
callback_heeds ==
  /\ ~server_active \/ preempt_requested \/ is_cancel_requested
  /\ work_locked

(* The operating system schedules every thread, and the executor finishes  *)
(* what it has begun.  No client has to send or cancel a goal.             *)
Fairness ==
  /\ WF_vars(handle_accepted)
  /\ WF_vars(cancel_goal)
  /\ WF_vars(work_loop)
  /\ WF_vars(work_done)
  /\ WF_vars(publish_feedback_use)
  /\ SF_vars(callback_heeds)
  /\ WF_vars(deactivate_check)
  /\ WF_vars(deactivate_return)

FairSpec == Spec /\ Fairness

-----------------------------------------------------------------------------
(* Safety *)

Held == {arriving, current_handle, pending_handle} \ {NoGoal}

(* A goal that has been accepted and has not ended is held by exactly one  *)
(* of the executor (on its way to handle_accepted), current_handle_ and    *)
(* pending_handle_, and the slots hold nothing else.  A goal that no slot  *)
(* holds would be cancelled behind the server's back by the destructor of  *)
(* its handle; one in both slots would be served and terminated twice.     *)
OpenGoalsHeldOnce ==
  /\ \A g \in Goal : goal[g] \in Active <=> g \in Held
  /\ arriving # NoGoal => arriving \notin {current_handle, pending_handle}
  /\ current_handle # NoGoal => current_handle # pending_handle

(* preempt_requested_ is the callback's only sign of a waiting goal: it is *)
(* set exactly while pending_handle_ holds an active goal, over every way  *)
(* a pending goal comes, is taken up or is terminated.                     *)
PreemptIffPending == preempt_requested <=> is_active(pending_handle)

(* Once deactivate() has returned, and until the next activate(), the      *)
(* user's callback is not running and does not start, whatever goal was    *)
(* on its way when the server was deactivated.                             *)
QuietAfterDeactivate ==
  owner = "idle" /\ ~server_active => worker \notin {"callback", "feedback"}

(* Between its check and its use of current_handle_ publish_feedback()     *)
(* holds no mutex.  The handle can vanish there only when deactivate() has *)
(* given up waiting for the callback.                                      *)
FeedbackHandleValid ==
  worker = "feedback" /\ current_handle = NoGoal => owner = "overdue"

(* How deactivate() and the two flags go together: what makes              *)
(* QuietAfterDeactivate inductive.                                         *)
FlagsFollowOwner ==
  /\ owner # "idle" => ~server_active
  /\ server_active => ~stop_execution
  /\ ~server_active => stop_execution \/ (worker = "none" /\ arriving = NoGoal)
  /\ owner \in {"waiting", "overdue"} => worker # "none"

IInv ==
  /\ TypeOK
  /\ OpenGoalsHeldOnce
  /\ PreemptIffPending
  /\ QuietAfterDeactivate
  /\ FeedbackHandleValid
  /\ FlagsFollowOwner

-----------------------------------------------------------------------------
(* Refinement: the goals, in the order the slots give them, are the queue  *)
(* that GoalQueue promises.                                                *)

Queued(a, b) ==
  \/ a = current_handle /\ b \in {pending_handle, arriving}
  \/ a = pending_handle /\ b = arriving

GoalOrder == {p \in Goal \X Goal : Queued(p[1], p[2])}

Serving == IF worker \in {"callback", "feedback"} THEN current_handle ELSE NoGoal

Queue == INSTANCE GoalQueue WITH order <- GoalOrder, serving <- Serving

(* The action clients see goals that end legally, none forgotten, and the  *)
(* callback always works on the oldest goal that has not ended.            *)
ImplementsGoalQueue == Queue!Spec

-----------------------------------------------------------------------------
(* Liveness *)

(* deactivate() returns: whatever the executor still brings in, the worker *)
(* comes to an end once the callback heeds that the server is inactive.    *)
DeactivateReturns == owner # "idle" ~> owner = "idle"

(* A goal whose cancellation was accepted while the callback works on it   *)
(* ends, also when a pending goal hides the cancellation from              *)
(* is_cancel_requested().                                                  *)
CancelledGoalEnds ==
  \A g \in Goal :
    (worker = "callback" /\ current_handle = g /\ goal[g] = "canceling")
      ~> goal[g] # "canceling"

(* A goal that becomes pending while the callback runs does not wait for   *)
(* ever: it becomes current or ends.                                       *)
PendingGoalLeavesSlot ==
  \A g \in Goal :
    (worker = "callback" /\ pending_handle = g) ~> pending_handle # g

-----------------------------------------------------------------------------
(* Claims of the source that its code does not keep *)

(* "Shouldn't reach a state with a pending goal but no current one"        *)
(* (handle_accepted): when no thread is there to pick a goal up, there is  *)
(* no pending goal without a current one.                                  *)
PendingHasCurrent ==
  is_active(pending_handle) /\ ~is_running => is_active(current_handle)
=============================================================================
