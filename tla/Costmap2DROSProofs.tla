------------------------- MODULE Costmap2DROSProofs -------------------------
(***************************************************************************)
(* Costmap2DROS proved for every set of update frequencies: the update     *)
(* thread only runs on a configured costmap, only begins updates with      *)
(* active plugins, and is joined when the node is deactivated.             *)
(***************************************************************************)
EXTENDS Costmap2DROS, TLAPS

LEMMA InitIInv == Init => IInv
<1> SUFFICES ASSUME Init PROVE IInv
  OBVIOUS
<1>1. TypeOK
  BY DEF Init, TypeOK, AtRest, Lifecycle, Call, At, UpdaterPC
<1>2. ThreadJoined /\ UpdateOnConfiguredCostmap /\ PluginsActiveWhenUpdateBegins
  BY DEF Init, ThreadJoined, UpdateOnConfiguredCostmap, PluginsActiveWhenUpdateBegins
<1>3. CallsFollowLifecycle
  BY DEF Init, CallsFollowLifecycle
<1> QED
  BY <1>1, <1>2, <1>3 DEF IInv

(* Every step preserves the invariant: one case per action. *)
LEMMA StepIInv == IInv /\ [Next]_vars => IInv'
<1> SUFFICES ASSUME IInv, [Next]_vars PROVE IInv'
  OBVIOUS
<1> USE FrequenciesAssumption
    DEF IInv, TypeOK, AtRest, ThreadJoined, UpdateOnConfiguredCostmap,
        PluginsActiveWhenUpdateBegins, CallsFollowLifecycle,
        Idle, Lifecycle, Call, At, UpdaterPC, flags
<1>1. CASE on_configure
  BY <1>1, ZenonT(60) DEF on_configure
<1>2. CASE on_cleanup
  BY <1>2 DEF on_cleanup
<1>3. CASE on_shutdown
  BY <1>3 DEF on_shutdown, CostmapAfterShutdown
<1>4. CASE on_activate
  BY <1>4 DEF on_activate, Enter, node
<1>5. CASE on_deactivate
  BY <1>5 DEF on_deactivate, HandlerAfterDeactivate, Enter
<1>6. CASE start
  BY <1>6 DEF start, Enter, node
<1>7. CASE stop
  BY <1>7 DEF stop, Enter, node
<1>8. CASE pause
  BY <1>8 DEF pause, node
<1>9. CASE resume
  BY <1>9 DEF resume, Enter, node
<1>10. CASE dynamicParametersCallback
  BY <1>10 DEF dynamicParametersCallback, node
<1>11. CASE start_plugins
  <2>1. CASE stopped
    BY <1>11, <2>1 DEF start_plugins, node
  <2>2. CASE ~stopped
    BY <1>11, <2>2 DEF start_plugins, node
  <2> QED
    BY <2>1, <2>2
<1>12. CASE start_stopped
  BY <1>12, ZenonT(60) DEF start_stopped, node
<1>13. CASE start_updates
  BY <1>13, ZenonT(60) DEF start_updates, StopUpdatesAfterStart, node
<1>14. CASE wait_initialized
  BY <1>14, ZenonT(60) DEF wait_initialized, Return
<1>15. CASE stop_unplug
  BY <1>15 DEF stop_unplug, node
<1>16. CASE stop_reinit
  BY <1>16, ZenonT(60) DEF stop_reinit, node
<1>17. CASE stop_stopped
  <2>1. CASE call = "on_deactivate"
    BY <1>17, <2>1 DEF stop_stopped, ShutdownOnDeactivate, Return, node
  <2>2. CASE call = "stop"
    BY <1>17, <2>2 DEF stop_stopped, ShutdownOnDeactivate, Return, node
  <2> QED
    BY <1>17, <2>1, <2>2 DEF stop_stopped
<1>18. CASE join
  BY <1>18 DEF join, AfterJoin, Return
<1>19. CASE mapUpdateLoop
  BY <1>19 DEF mapUpdateLoop, MayUpdate, node
<1>20. CASE updateMap_skip
  BY <1>20 DEF updateMap_skip, node
<1>21. CASE updateMap_begin
  BY <1>21 DEF updateMap_begin, node
<1>22. CASE updateMap_end
  BY <1>22 DEF updateMap_end, node
<1>23. CASE UNCHANGED vars
  BY <1>23 DEF vars, node
<1> QED
  BY <1>1, <1>2, <1>3, <1>4, <1>5, <1>6, <1>7, <1>8, <1>9, <1>10, <1>11, <1>12,
     <1>13, <1>14, <1>15, <1>16, <1>17, <1>18, <1>19, <1>20, <1>21, <1>22, <1>23
     DEF Next, Begin, Continue, Updater

(* The executor thread and the update thread keep IInv for ever. *)
THEOREM Inductive == Spec => []IInv
  BY InitIInv, StepIInv, PTL DEF Spec

(* Every variable keeps its type, and whenever the node is not active no   *)
(* plugin and no parameter callback is.                                    *)
THEOREM TypeCorrect == Spec => []TypeOK
<1>1. IInv => TypeOK
  BY DEF IInv
<1> QED
  BY <1>1, Inductive, PTL

(* on_deactivate() leaves no joinable thread behind for on_activate() to   *)
(* overwrite.                                                              *)
THEOREM DeactivationJoins == Spec => []ThreadJoined
<1>1. IInv => ThreadJoined
  BY DEF IInv
<1> QED
  BY <1>1, Inductive, PTL

(* mapUpdateLoop() never runs without layered_costmap_. *)
THEOREM CostmapOutlivesThread == Spec => []UpdateOnConfiguredCostmap
<1>1. IInv => UpdateOnConfiguredCostmap
  BY DEF IInv
<1> QED
  BY <1>1, Inductive, PTL

(* No update begins while the plugins are inactive. *)
THEOREM PluginsFirst == Spec => []PluginsActiveWhenUpdateBegins
<1>1. IInv => PluginsActiveWhenUpdateBegins
  BY DEF IInv
<1> QED
  BY <1>1, Inductive, PTL
=============================================================================
