---------------------------- MODULE Costmap2DROS ----------------------------
(***************************************************************************)
(* my_nav2::costmap_2d::Costmap2DROS: the lifecycle of a costmap node and  *)
(* its map update thread.                                                  *)
(*                                                                         *)
(* Two threads.  The node's executor thread (the caller) runs the          *)
(* lifecycle transitions, the parameter callback and, for a node that owns *)
(* the costmap, start(), stop(), pause() and resume(); these services      *)
(* share a callback group, so one call is over before the next begins.     *)
(* The update thread runs mapUpdateLoop().  They share four flags and the  *)
(* mutex _dynamic_parameter_mutex.  Every access to a flag that the other  *)
(* thread can see is a step of its own.                                    *)
(*                                                                         *)
(* What an update computes is the business of LayeredCostmap and the       *)
(* layers.  rclcpp::ok() is TRUE throughout.                               *)
(***************************************************************************)
EXTENDS Naturals

CONSTANT Frequencies   \* values of the parameter update_frequency

ASSUME FrequenciesAssumption == Frequencies # {} /\ Frequencies \subseteq Nat

VARIABLES
  lifecycle,         \* primary state of the lifecycle node
  call,              \* the call the executor thread is in, or "none"
  at,                \* where it is in that call
  frequency,         \* map_update_frequency_, read by on_configure
  has_costmap,       \* layered_costmap_ is not null
  plugins_active,    \* the layers are activated
  dyn_params,        \* dyn_params_handler is registered
  stop_updates,      \* stop_updates_
  stopped,           \* stopped_
  initialized,       \* initialized_
  shutdown,          \* map_update_thread_shutdown_
  updater,           \* where mapUpdateLoop() is; "none": no thread,
                     \* "ended": returned and not yet joined
  cycle              \* history: of the first update since initialized_ was
                     \* last cleared

node    == <<lifecycle, frequency, has_costmap, dyn_params>>
flags   == <<stop_updates, stopped, initialized, shutdown>>
vars    == <<node, call, at, plugins_active, flags, updater, cycle>>

Lifecycle == {"unconfigured", "inactive", "active", "finalized"}
Call      == {"none", "on_activate", "on_deactivate", "start", "stop", "resume"}
At        == {"idle", "plugins", "stopped", "updates", "wait",
              "unplug", "reinit", "stopping", "join"}
UpdaterPC == {"none", "top", "locked", "updating", "ended"}

\* The executor thread is in no call.
Idle == call = "none"

(* A node that is configured at most has nothing active: no plugin, no     *)
(* parameter callback, and an update loop, if there were one, would do     *)
(* nothing.                                                                *)
AtRest ==
  lifecycle \in {"unconfigured", "inactive"} /\ call # "on_activate" =>
    stopped /\ ~plugins_active /\ ~dyn_params

(* The variables have their types, and what the calls set and clear one by *)
(* one agrees with the state of the node between them.                     *)
TypeOK ==
  /\ AtRest
  /\ lifecycle \in Lifecycle
  /\ call \in Call
  /\ at \in At
  /\ frequency \in Nat
  /\ updater \in UpdaterPC
  /\ cycle \in {"none", "begun", "ended"}
  /\ has_costmap \in BOOLEAN /\ plugins_active \in BOOLEAN /\ dyn_params \in BOOLEAN
  /\ stop_updates \in BOOLEAN /\ stopped \in BOOLEAN
  /\ initialized \in BOOLEAN /\ shutdown \in BOOLEAN

Init ==
  /\ lifecycle = "unconfigured"
  /\ call = "none" /\ at = "idle"
  /\ frequency = 0
  /\ has_costmap = FALSE
  /\ plugins_active = FALSE
  /\ dyn_params = FALSE
  /\ stop_updates = FALSE
  /\ stopped = TRUE
  /\ initialized = FALSE
  /\ shutdown = FALSE
  /\ updater = "none"
  /\ cycle = "none"

-----------------------------------------------------------------------------
(* Lifecycle transitions that are over in one step *)

Enter(c, place) == call' = c /\ at' = place

Return == call' = "none" /\ at' = "idle"

(* A plugin that fails to initialize leaves the new LayeredCostmap behind  *)
(* in a node that stays unconfigured; a bad parameter leaves nothing.      *)
on_configure ==
  /\ Idle
  /\ lifecycle = "unconfigured"
  /\ \/ UNCHANGED <<lifecycle, has_costmap>>
     \/ has_costmap' = TRUE /\ lifecycle' \in {"unconfigured", "inactive"}
  /\ frequency' \in Frequencies
  /\ UNCHANGED <<call, at, dyn_params, plugins_active, flags, updater, cycle>>

on_cleanup ==
  /\ Idle
  /\ lifecycle = "inactive"
  /\ lifecycle' = "unconfigured"
  /\ has_costmap' = FALSE
  /\ UNCHANGED <<call, at, frequency, dyn_params, plugins_active, flags, updater, cycle>>

\* Broken variant: on_shutdown() cleans up, the update thread still running.
CostmapAfterShutdown_Reset == FALSE

CostmapAfterShutdown == has_costmap

(* The shutdown transition is possible in every state and does nothing,    *)
(* not even in an active node.                                             *)
on_shutdown ==
  /\ Idle
  /\ lifecycle # "finalized"
  /\ lifecycle' = "finalized"
  /\ has_costmap' = CostmapAfterShutdown
  /\ UNCHANGED <<call, at, frequency, dyn_params, plugins_active, flags, updater, cycle>>

-----------------------------------------------------------------------------
(* start(), also at the end of on_activate() *)

(* When the transform does not become available before the timeout,        *)
(* on_activate fails without having done anything.                         *)
on_activate ==
  /\ Idle
  /\ lifecycle = "inactive"
  /\ Enter("on_activate", "plugins")
  /\ stopped' = TRUE   \* to activate the plugins in start()
  /\ stop_updates' = FALSE
  /\ shutdown' = FALSE
  /\ updater' = "top"
  /\ UNCHANGED <<node, plugins_active, initialized, cycle>>

start ==
  /\ Idle
  /\ lifecycle = "active"
  /\ Enter("start", "plugins")
  /\ UNCHANGED <<node, plugins_active, flags, updater, cycle>>

start_plugins ==
  /\ at = "plugins"
  /\ IF stopped THEN at' = "stopped" /\ plugins_active' = TRUE
                ELSE at' = "updates" /\ UNCHANGED plugins_active
  /\ UNCHANGED <<node, call, flags, updater, cycle>>

start_stopped ==
  /\ at = "stopped"
  /\ at' = "updates"
  /\ stopped' = FALSE
  /\ UNCHANGED <<node, call, plugins_active, stop_updates, initialized, shutdown,
                 updater, cycle>>

\* Broken variant: start() forgets that pause() and stop() have set the flag.
StopUpdatesAfterStart_Kept == stop_updates

StopUpdatesAfterStart == FALSE

start_updates ==
  /\ at = "updates"
  /\ at' = "wait"
  /\ stop_updates' = StopUpdatesAfterStart
  /\ UNCHANGED <<node, call, plugins_active, stopped, initialized, shutdown,
                 updater, cycle>>

(* The end of start() and resume(); on_activate() then registers the       *)
(* parameter callback and the node is active.                              *)
wait_initialized ==
  /\ at = "wait"
  /\ initialized
  /\ Return
  /\ IF call = "on_activate"
     THEN lifecycle' = "active" /\ dyn_params' = TRUE
     ELSE UNCHANGED <<lifecycle, dyn_params>>
  /\ UNCHANGED <<frequency, has_costmap, plugins_active, flags, updater, cycle>>

-----------------------------------------------------------------------------
(* stop(), also in on_deactivate(); pause(); resume() *)

stop ==
  /\ Idle
  /\ Enter("stop", "unplug")
  /\ stop_updates' = TRUE
  /\ UNCHANGED <<node, plugins_active, stopped, initialized, shutdown, updater, cycle>>

\* Broken variant: the parameter callback stays registered.
HandlerAfterDeactivate_Kept == dyn_params

HandlerAfterDeactivate == FALSE

on_deactivate ==
  /\ Idle
  /\ lifecycle = "active"
  /\ Enter("on_deactivate", "unplug")
  /\ dyn_params' = HandlerAfterDeactivate
  /\ stop_updates' = TRUE
  /\ UNCHANGED <<lifecycle, frequency, has_costmap, plugins_active, stopped,
                 initialized, shutdown, updater, cycle>>

stop_unplug ==
  /\ at = "unplug"
  /\ at' = "reinit"
  /\ plugins_active' = (plugins_active /\ ~has_costmap)
  /\ UNCHANGED <<node, call, flags, updater, cycle>>

stop_reinit ==
  /\ at = "reinit"
  /\ at' = "stopping"
  /\ initialized' = FALSE
  /\ cycle' = "none"
  /\ UNCHANGED <<node, call, plugins_active, stop_updates, stopped, shutdown, updater>>

\* Broken variant: the thread is not told to end before it is joined.
ShutdownOnDeactivate_Not == FALSE

ShutdownOnDeactivate == TRUE

stop_stopped ==
  /\ at = "stopping"
  /\ stopped' = TRUE
  /\ IF call = "on_deactivate"
     THEN shutdown' = ShutdownOnDeactivate /\ at' = "join" /\ UNCHANGED call
     ELSE Return /\ UNCHANGED shutdown
  /\ UNCHANGED <<node, plugins_active, stop_updates, initialized, updater, cycle>>

\* Broken variant: the thread is forgotten, not joined.
AfterJoin_Detached == updater

AfterJoin == "none"

join ==
  /\ at = "join"
  /\ updater = "ended"
  /\ updater' = AfterJoin
  /\ lifecycle' = "inactive"
  /\ Return
  /\ UNCHANGED <<frequency, has_costmap, dyn_params, plugins_active, flags, cycle>>

(* Two writes: a step of the update thread between them reads or writes    *)
(* one of the two flags, and might as well come before or after both.      *)
pause ==
  /\ Idle
  /\ stop_updates' = TRUE
  /\ initialized' = FALSE
  /\ cycle' = "none"
  /\ UNCHANGED <<node, call, at, plugins_active, stopped, shutdown, updater>>

(* resume() goes with pause().  After stop() it would wait for ever: the   *)
(* update thread does nothing before start() has cleared stopped_.         *)
resume ==
  /\ Idle
  /\ lifecycle = "active"
  /\ ~stopped
  /\ Enter("resume", "wait")
  /\ stop_updates' = FALSE
  /\ UNCHANGED <<node, plugins_active, stopped, initialized, shutdown, updater, cycle>>

-----------------------------------------------------------------------------
(* The update thread *)

\* _dynamic_parameter_mutex is held by mapUpdateLoop().
MutexHeld == updater \in {"locked", "updating"}

(* A change of the size parameters resizes the map and updates it at once, *)
(* under the mutex and on the executor thread.  Other changes, rejected    *)
(* ones and an update without a pose leave nothing that is modelled here.  *)
dynamicParametersCallback ==
  /\ Idle
  /\ dyn_params
  /\ ~MutexHeld
  /\ ~stop_updates
  /\ initialized' = TRUE
  /\ cycle' = "ended"
  /\ UNCHANGED <<node, call, at, plugins_active, stop_updates, stopped, shutdown, updater>>

\* Broken variant: an update may begin on a costmap that is stopped.
MayUpdate_Stopped == TRUE

\* "Execute after start() will complete plugins activation"
MayUpdate == ~stopped

mapUpdateLoop ==
  /\ updater = "top"
  /\ \/ (frequency = 0 \/ shutdown) /\ updater' = "ended"
     \/ frequency # 0 /\ ~shutdown /\ MayUpdate /\ updater' = "locked"
  /\ UNCHANGED <<node, call, at, plugins_active, flags, cycle>>

(* updateMap() when it has nothing to do or the robot's pose is not known  *)
updateMap_skip ==
  /\ updater = "locked"
  /\ updater' = "top"
  /\ UNCHANGED <<node, call, at, plugins_active, flags, cycle>>

updateMap_begin ==
  /\ updater = "locked"
  /\ ~stop_updates
  /\ updater' = "updating"
  /\ cycle' = IF cycle = "none" THEN "begun" ELSE cycle
  /\ UNCHANGED <<node, call, at, plugins_active, flags>>

updateMap_end ==
  /\ updater = "updating"
  /\ updater' = "top"
  /\ initialized' = TRUE
  /\ cycle' = IF cycle = "begun" THEN "ended" ELSE cycle
  /\ UNCHANGED <<node, call, at, plugins_active, stop_updates, stopped, shutdown>>

-----------------------------------------------------------------------------
Begin ==
  \/ on_configure \/ on_cleanup \/ on_shutdown
  \/ on_activate \/ on_deactivate
  \/ start \/ stop \/ pause \/ resume
  \/ dynamicParametersCallback

Continue ==
  \/ start_plugins \/ start_stopped \/ start_updates \/ wait_initialized
  \/ stop_unplug \/ stop_reinit \/ stop_stopped \/ join

Updater == mapUpdateLoop \/ updateMap_skip \/ updateMap_begin \/ updateMap_end

Next == Begin \/ Continue \/ Updater

Spec == Init /\ [][Next]_vars

(* Both threads are scheduled; nobody has to call anything.  Transforms    *)
(* keep arriving, so an update is not kept from beginning for ever for     *)
(* want of a pose.                                                         *)
Fairness ==
  /\ WF_vars(Continue)
  /\ WF_vars(Updater)
  /\ SF_vars(updateMap_begin)

FairSpec == Spec /\ Fairness

-----------------------------------------------------------------------------
(* Safety *)

(* on_deactivate() has joined the update thread when it returns: the next  *)
(* on_activate() assigns map_update_thread_ and must not destroy a         *)
(* std::thread that is still joinable.                                     *)
ThreadJoined ==
  Idle /\ lifecycle \in {"unconfigured", "inactive"} => updater = "none"

(* The update thread never runs without a costmap, in whatever order the   *)
(* node is cleaned up, reconfigured or shut down.                          *)
UpdateOnConfiguredCostmap == updater # "none" => has_costmap

(* Where mapUpdateLoop() may still begin an update, the plugins are        *)
(* active: it reads stopped_ and, later, stop_updates_, and start() and    *)
(* stop() may run in between.                                              *)
PluginsActiveWhenUpdateBegins ==
  updater = "locked" /\ ~stop_updates => plugins_active

(* What goes together on the executor thread: what makes the three         *)
(* invariants above inductive.                                             *)
CallsFollowLifecycle ==
  /\ call = "none" <=> at = "idle"
  /\ at \in {"plugins", "stopped", "updates"} => call \in {"start", "on_activate"}
  /\ at = "wait" => call \in {"start", "on_activate", "resume"}
  /\ at \in {"unplug", "reinit", "stopping"} => call \in {"stop", "on_deactivate"} /\ stop_updates
  /\ at = "join" => call = "on_deactivate" /\ stop_updates /\ stopped
  /\ call = "on_activate" => lifecycle = "inactive"
  /\ call \in {"start", "resume", "on_deactivate"} => lifecycle = "active"
  /\ lifecycle \in {"inactive", "active"} => has_costmap
  /\ lifecycle = "unconfigured" => updater = "none"
  /\ lifecycle = "inactive" /\ call # "on_activate" => updater = "none"
  /\ ~stopped => plugins_active \/ at \in {"reinit", "stopping"}
  /\ at \in {"stopped", "updates"} => plugins_active
  /\ call \in {"on_activate", "on_deactivate"} => ~dyn_params
  /\ call = "on_deactivate" /\ at # "unplug" => ~plugins_active

IInv ==
  /\ TypeOK
  /\ ThreadJoined
  /\ UpdateOnConfiguredCostmap
  /\ PluginsActiveWhenUpdateBegins
  /\ CallsFollowLifecycle

-----------------------------------------------------------------------------
(* Liveness *)

(* start() and resume(), and with them the activation of the node, return  *)
(* when the costmap is updated at all.                                     *)
StartReturns == at = "wait" /\ frequency # 0 ~> at = "idle"

(* on_deactivate() returns, wherever it finds the update thread.           *)
DeactivateReturns == call = "on_deactivate" ~> at = "idle"

-----------------------------------------------------------------------------
(* Claims of the source that its code does not keep *)

(* start() and resume() "block until the costmap is re-initialized..       *)
(* meaning one update cycle has run": when they return, an update has      *)
(* begun and ended since stop() or pause() cleared initialized_.           *)
ReadyMeansFresh == [][at = "wait" /\ at' = "idle" => cycle = "ended"]_vars
=============================================================================
