----------------------------- MODULE ManagedNode -----------------------------
(***************************************************************************)
(* my_nav2::util::LifecycleNode and NodeThread: a managed node from its    *)
(* construction to its destruction, as costmap_2d_node runs a              *)
(* Costmap2DROS.                                                           *)
(*                                                                         *)
(* Three threads.  main() spins the node, whose services and autostart     *)
(* timer trigger lifecycle transitions, and destroys it.  The thread that  *)
(* rclcpp starts for signals runs the pre-shutdown callback, which         *)
(* triggers transitions of its own, and then shuts the context down.  A    *)
(* NodeThread spins a second executor from on_configure() to               *)
(* on_cleanup().                                                           *)
(*                                                                         *)
(* A transition belongs to the thread that triggered it: in its callback   *)
(* the node is in a transition state, and no other can be triggered.  What *)
(* the callbacks do to the map update thread is in Costmap2DROS; here they *)
(* end.  createBond() has no caller, so there is no bond to destroy.       *)
(***************************************************************************)
EXTENDS Naturals

VARIABLES
  state,      \* of the lifecycle state machine
  doing,      \* the callback each thread is in, or "none"
  context,    \* "up", "stopping" in its pre-shutdown callbacks, "down"
  main,       \* where main() is
  handler,    \* where the pre-shutdown callback is
  autostart,  \* the autostart timer: "off", "due", or after "configure"
  spinner,    \* the thread of the NodeThread
  updater,    \* map_update_thread_ is joinable
  disturbed,  \* history: a transition that the pre-shutdown callback could
              \* not know of
  lost        \* history: an executor was cancelled before it spun

Threads     == {"main", "signal"}
Transitions == {"configure", "activate", "deactivate", "cleanup", "shutdown"}
Primary     == {"unconfigured", "inactive", "active", "finalized"}

history == <<disturbed, lost>>
node    == <<state, doing>>
others  == <<spinner, updater>>
vars    == <<node, context, main, handler, autostart, others, history>>

\* The primary states in which a transition can be triggered.
From(t) == CASE t = "configure"  -> {"unconfigured"}
             [] t = "activate"   -> {"inactive"}
             [] t = "deactivate" -> {"active"}
             [] t = "cleanup"    -> {"inactive"}
             [] t = "shutdown"   -> Primary \ {"finalized"}

Idle(thread) == doing[thread] = "none"

\* Broken variant: the current state is not looked at.
Begin_Unchecked(thread, t) ==
  /\ state' = t
  /\ doing' = [doing EXCEPT ![thread] = t]

\* The transition state has the name of the transition.
Begin(thread, t) ==
  /\ state \in From(t)
  /\ state' = t
  /\ doing' = [doing EXCEPT ![thread] = t]

(* A transition that cannot be triggered is refused and changes nothing.   *)
Trigger(thread, t) ==
  \/ Begin(thread, t)
  \/ state \notin From(t) /\ UNCHANGED node

End(thread, goal) ==
  /\ state' = goal
  /\ doing' = [doing EXCEPT ![thread] = "none"]

-----------------------------------------------------------------------------
Init ==
  /\ state = "unconfigured"
  /\ doing = [t \in Threads |-> "none"]
  /\ context = "up"
  /\ main = "spin"
  /\ handler = "none"
  /\ autostart \in {"off", "due"}
  /\ spinner = "none"
  /\ updater = FALSE
  /\ disturbed = FALSE
  /\ lost = FALSE

-----------------------------------------------------------------------------
(* Transitions triggered by main() *)

Spinning == main = "spin" /\ Idle("main")

\* After the signal, or leaving an update thread behind.
Disturbs(t) == context # "up" \/ (t = "shutdown" /\ updater)

change_state(t) ==
  /\ Spinning
  /\ context # "down"
  /\ autostart # "configure"
  /\ Begin("main", t)
  /\ disturbed' = (disturbed \/ Disturbs(t))
  /\ UNCHANGED <<context, main, handler, autostart, others, lost>>

autostart_configure ==
  /\ Spinning
  /\ context # "down"
  /\ autostart = "due"
  /\ autostart' = "configure"
  /\ Trigger("main", "configure")
  /\ disturbed' = (disturbed \/ context # "up")
  /\ UNCHANGED <<context, main, handler, others, lost>>

autostart_activate ==
  /\ Spinning
  /\ autostart = "configure"
  /\ autostart' = "off"
  /\ Trigger("main", "activate")
  /\ disturbed' = (disturbed \/ context # "up")
  /\ UNCHANGED <<context, main, handler, others, lost>>

-----------------------------------------------------------------------------
(* The callbacks of Costmap2DROS *)

\* The NodeThread is the last thing that is created.
on_configure(thread) ==
  /\ doing[thread] = "configure"
  /\ \/ End(thread, "inactive") /\ spinner' = "starting"
     \/ End(thread, "unconfigured") /\ UNCHANGED spinner
  /\ UNCHANGED <<context, main, handler, autostart, updater, history>>

on_activate(thread) ==
  /\ doing[thread] = "activate"
  /\ \/ End(thread, "active") /\ updater' = TRUE
     \/ End(thread, "inactive") /\ UNCHANGED updater
  /\ UNCHANGED <<context, main, handler, autostart, spinner, history>>

on_deactivate(thread) ==
  /\ doing[thread] = "deactivate"
  /\ End(thread, "inactive")
  /\ updater' = FALSE
  /\ UNCHANGED <<context, main, handler, autostart, spinner, history>>

on_shutdown(thread) ==
  /\ doing[thread] = "shutdown"
  /\ End(thread, "finalized")
  /\ UNCHANGED <<context, main, handler, autostart, others, history>>

\* Broken variant: the executor is not cancelled.
Cancelled_Not(s) == s

(* Executor::cancel() clears a flag that spin() sets when it begins.       *)
Cancelled(s) == IF s = "spinning" THEN "cancelled" ELSE s

\* executor_thread_.reset(), up to the join
on_cleanup(thread) ==
  /\ doing[thread] = "cleanup"
  /\ doing' = [doing EXCEPT ![thread] = "join"]
  /\ spinner' = Cancelled(spinner)
  /\ lost' = (lost \/ spinner = "starting")
  /\ UNCHANGED <<state, context, main, handler, autostart, updater, disturbed>>

on_cleanup_joined(thread) ==
  /\ doing[thread] = "join"
  /\ spinner = "ended"
  /\ spinner' = "none"
  /\ End(thread, "unconfigured")
  /\ UNCHANGED <<context, main, handler, autostart, updater, history>>

-----------------------------------------------------------------------------
(* The thread of the NodeThread *)

spin ==
  /\ spinner = "starting"
  /\ spinner' = "spinning"
  /\ UNCHANGED <<node, context, main, handler, autostart, updater, history>>

spin_returns ==
  /\ \/ spinner = "cancelled"
     \/ spinner = "spinning" /\ context = "down"
  /\ spinner' = "ended"
  /\ UNCHANGED <<node, context, main, handler, autostart, updater, history>>

-----------------------------------------------------------------------------
(* The signal *)

signal ==
  /\ context = "up"
  /\ context' = "stopping"
  /\ handler' = "deactivate"
  /\ disturbed' = (disturbed \/ state \notin Primary)
  /\ UNCHANGED <<node, main, autostart, others, lost>>

\* Broken variant: the first check is left out.
CleansUp_Inactive(step) == step = "cleanup" /\ state = "inactive"

\* The two checks of runCleanups(): an active node, an inactive node.
CleansUp(step) == state \in From(step)

runCleanups(step, next) ==
  /\ handler = step
  /\ Idle("signal")
  /\ handler' = next
  /\ IF CleansUp(step) THEN Begin("signal", step) ELSE UNCHANGED node
  /\ UNCHANGED <<context, main, autostart, others, history>>

shutdown ==
  /\ handler = "shutdown"
  /\ Idle("signal")
  /\ handler' = "done"
  /\ context' = "down"
  /\ UNCHANGED <<node, main, autostart, others, history>>

-----------------------------------------------------------------------------
(* main() after spin() *)

main_spin_returns ==
  /\ Spinning
  /\ context = "down"
  /\ autostart # "configure"
  /\ main' = "destroy"
  /\ UNCHANGED <<node, context, handler, autostart, others, history>>

(* The members of Costmap2DROS go first: a thread that can still be joined *)
(* ends the process, and the NodeThread is joined.                         *)
destroy_members ==
  /\ main = "destroy"
  /\ \/ updater /\ main' = "terminated" /\ UNCHANGED spinner
     \/ /\ ~updater
        /\ spinner \in {"none", "ended"}
        /\ spinner' = "none"
        /\ main' = "destroy_base"
  /\ UNCHANGED <<node, context, handler, autostart, updater, history>>

(* runCleanups() calls the callbacks of the base class, which do nothing.  *)
destroy_base ==
  /\ main = "destroy_base"
  /\ main' = "gone"
  /\ state' = IF state \in {"active", "inactive"} THEN "unconfigured" ELSE state
  /\ UNCHANGED <<doing, context, handler, autostart, others, history>>

-----------------------------------------------------------------------------
Callback(thread) ==
  \/ on_configure(thread) \/ on_activate(thread) \/ on_deactivate(thread)
  \/ on_shutdown(thread) \/ on_cleanup(thread) \/ on_cleanup_joined(thread)

Main ==
  \/ autostart_configure \/ autostart_activate \/ Callback("main")
  \/ main_spin_returns \/ destroy_members \/ destroy_base

Signal ==
  \/ runCleanups("deactivate", "cleanup")
  \/ runCleanups("cleanup", "shutdown")
  \/ shutdown
  \/ Callback("signal")

NodeThread == spin \/ spin_returns

Next ==
  \/ \E t \in Transitions : change_state(t)
  \/ Main \/ signal \/ Signal \/ NodeThread

(* The threads run; nobody has to request a transition or send a signal.   *)
Spec == Init /\ [][Next]_vars /\ WF_vars(Main) /\ WF_vars(Signal) /\ WF_vars(NodeThread)

-----------------------------------------------------------------------------
Busy == \E thread \in Threads : ~Idle(thread)

(* The two threads are never in callbacks at the same time, wherever       *)
(* signal and transitions cross: the state says which callback runs.       *)
TypeOK ==
  /\ state \in Primary \union Transitions
  /\ doing \in [Threads -> Transitions \union {"none", "join"}]
  /\ \E thread \in Threads : Idle(thread)
  /\ \A thread \in Threads :
       ~Idle(thread) => state = IF doing[thread] = "join" THEN "cleanup" ELSE doing[thread]
  /\ state \in Transitions => Busy
  /\ context \in {"up", "stopping", "down"}
  /\ main \in {"spin", "destroy", "destroy_base", "gone", "terminated"}
  /\ handler \in {"none", "deactivate", "cleanup", "shutdown", "done"}
  /\ autostart \in {"off", "due", "configure"}
  /\ spinner \in {"none", "starting", "spinning", "cancelled", "ended"}
  /\ updater \in BOOLEAN /\ disturbed \in BOOLEAN /\ lost \in BOOLEAN

(* The process ends in std::terminate() only after a transition that the   *)
(* pre-shutdown callback could not know of: one in flight at the signal,   *)
(* one requested after it, or the shutdown of an active node.              *)
TerminatesOnlyDisturbed == main = "terminated" => disturbed

(* After a signal the process ends, wherever the signal fell, unless the   *)
(* executor of a NodeThread was cancelled before it spun: then the thread  *)
(* of the signal may wait for an executor that only stops when that very   *)
(* thread shuts the context down.                                          *)
ShutdownEnds == context = "stopping" ~> (main \in {"gone", "terminated"} \/ lost)

-----------------------------------------------------------------------------
(* What makes TerminatesOnlyDisturbed inductive: which states have an      *)
(* update thread, and how far the pre-shutdown callback has come with that *)
(* of an undisturbed node.                                                 *)
HandlerJoins ==
  /\ main = "spin" \/ context = "down"
  /\ main # "spin" => Idle("main")
  /\ context = "up" <=> handler = "none"
  /\ context = "down" <=> handler = "done"
  /\ doing["signal"] \in {"none", "deactivate", "cleanup", "join"}
  /\ doing["signal"] # "none" => handler \in {"cleanup", "shutdown"}
  /\ updater => state \in {"active", "deactivate"} \/ disturbed
  /\ handler \in {"cleanup", "shutdown", "done"} /\ ~disturbed =>
       ~updater \/ (handler = "cleanup" /\ doing["signal"] = "deactivate")
  /\ context # "up" /\ ~disturbed => Idle("main")

IInv == TypeOK /\ TerminatesOnlyDisturbed /\ HandlerJoins

=============================================================================
