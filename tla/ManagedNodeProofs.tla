-------------------------- MODULE ManagedNodeProofs --------------------------
(***************************************************************************)
(* Proofs about ManagedNode.  HandlerJoins follows the update thread from  *)
(* the signal through the pre-shutdown callback to the destructor.         *)
(***************************************************************************)
EXTENDS ManagedNode, TLAPS

USE DEF Threads, Transitions, Primary, Idle, From

LEMMA InitIInv ==
  Init => IInv
BY DEF Init, IInv, TypeOK, TerminatesOnlyDisturbed, HandlerJoins, Busy

LEMMA CallbackKeepsIInv ==
  ASSUME IInv, NEW thread \in Threads, Callback(thread)
  PROVE  IInv'
<1> USE DEF IInv, TypeOK, TerminatesOnlyDisturbed, HandlerJoins, Busy, history
<1>1. CASE on_configure(thread)
  BY <1>1 DEF on_configure, End
<1>2. CASE on_activate(thread)
  <2>1. thread = "main"
    BY <1>2 DEF on_activate
  <2>2. context # "up" => disturbed
    BY <1>2, <2>1 DEF on_activate
  <2>3. /\ doing["main"] = "activate" /\ doing' = [doing EXCEPT !["main"] = "none"]
        /\ state' \in {"active", "inactive"}
        /\ (updater' = TRUE /\ state' = "active") \/ updater' = updater
        /\ UNCHANGED <<context, main, handler, autostart, spinner, disturbed, lost>>
    BY <1>2, <2>1 DEF on_activate, End
  <2>4. doing'["main"] = "none" /\ doing'["signal"] = "none" /\ doing["signal"] = "none"
    BY <2>3
  <2>5. TypeOK'
    BY <2>3, <2>4, ZenonT(60)
  <2> QED BY <2>2, <2>3, <2>4, <2>5
<1>3. CASE on_deactivate(thread)
  BY <1>3, ZenonT(60) DEF on_deactivate, End
<1>4. CASE on_shutdown(thread)
  BY <1>4 DEF on_shutdown, End, others
<1>5. CASE on_cleanup(thread)
  BY <1>5 DEF on_cleanup, Cancelled
<1>6. CASE on_cleanup_joined(thread)
  BY <1>6 DEF on_cleanup_joined, End
<1> QED BY <1>1, <1>2, <1>3, <1>4, <1>5, <1>6 DEF Callback

(* A transition that the main thread begins.                               *)
LEMMA MainBeginsIInv ==
  ASSUME IInv, NEW t \in Transitions, Spinning, Begin("main", t),
         disturbed' = (disturbed \/ Disturbs(t)), autostart' \in {"off", "configure", autostart},
         UNCHANGED <<context, main, handler, spinner, updater, lost>>
  PROVE  IInv'
<1> USE DEF IInv, TypeOK, TerminatesOnlyDisturbed, HandlerJoins, Busy
<1>1. /\ main = "spin" /\ doing["main"] = "none"
      /\ state \in From(t) /\ state' = t /\ doing' = [doing EXCEPT !["main"] = t]
      /\ disturbed' = (disturbed \/ context # "up" \/ (t = "shutdown" /\ updater))
  BY DEF Spinning, Begin, Disturbs
<1>2. doing["signal"] = "none" /\ doing'["signal"] = "none" /\ doing'["main"] = t
  BY <1>1
<1>3. TypeOK'
  BY <1>1, <1>2
<1>4. updater /\ ~disturbed' => t = "deactivate"
  BY <1>1
<1>5. HandlerJoins'
  BY <1>1, <1>2, <1>4
<1> QED BY <1>1, <1>3, <1>5

(* A transition that is refused leaves all but the autostart alone.        *)
LEMMA RefusedIInv ==
  ASSUME IInv, UNCHANGED node, disturbed' \in {disturbed, TRUE},
         autostart' \in {"off", "configure", autostart},
         UNCHANGED <<context, main, handler, spinner, updater, lost>>
  PROVE  IInv'
<1>1. UNCHANGED <<state, doing, context, main, handler, spinner, updater, lost>>
  BY DEF node
<1>2. disturbed => disturbed'
  OBVIOUS
<1>3. disturbed' \in BOOLEAN /\ autostart' \in {"off", "due", "configure"}
  BY DEF IInv, TypeOK
<1>4. TypeOK'
  BY <1>1, <1>3 DEF IInv, TypeOK, Busy
<1>5. TerminatesOnlyDisturbed'
  BY <1>1, <1>2 DEF IInv, TerminatesOnlyDisturbed
<1>6. HandlerJoins'
  BY <1>1, <1>2 DEF IInv, HandlerJoins
<1> QED BY <1>4, <1>5, <1>6 DEF IInv

LEMMA AutostartIInv ==
  ASSUME IInv, autostart_configure \/ autostart_activate
  PROVE  IInv'
<1>1. PICK t \in {"configure", "activate"} :
        /\ Spinning /\ Trigger("main", t)
        /\ disturbed' = (disturbed \/ context # "up")
        /\ autostart' \in {"off", "configure", autostart}
        /\ UNCHANGED <<context, main, handler, spinner, updater, lost>>
  BY DEF autostart_configure, autostart_activate, others
<1>2. disturbed' = (disturbed \/ Disturbs(t)) /\ disturbed' \in {disturbed, TRUE}
  BY <1>1 DEF Disturbs, IInv, TypeOK
<1>3. CASE Begin("main", t)
  BY <1>1, <1>2, <1>3, MainBeginsIInv
<1>4. CASE UNCHANGED node
  BY <1>1, <1>2, <1>4, RefusedIInv
<1> QED BY <1>1, <1>3, <1>4 DEF Trigger

LEMMA NextIInv ==
  ASSUME IInv, [Next]_vars
  PROVE  IInv'
<1> USE DEF IInv, TypeOK, TerminatesOnlyDisturbed, HandlerJoins, Busy
<1>1. CASE \E t \in Transitions : change_state(t)
  <2>1. PICK t \in Transitions : change_state(t)
    BY <1>1
  <2>2. /\ Spinning /\ Begin("main", t) /\ disturbed' = (disturbed \/ Disturbs(t))
        /\ UNCHANGED <<context, main, handler, autostart, spinner, updater, lost>>
    BY <2>1 DEF change_state, others
  <2>3. autostart' \in {"off", "configure", autostart}
    BY <2>2
  <2> HIDE DEF IInv
  <2> QED BY <2>2, <2>3, MainBeginsIInv
<1>2. CASE autostart_configure
  BY <1>2, AutostartIInv
<1>3. CASE autostart_activate
  BY <1>3, AutostartIInv
<1>4. CASE \E thread \in Threads : Callback(thread)
  BY <1>4, CallbackKeepsIInv
<1>5. CASE main_spin_returns
  BY <1>5 DEF main_spin_returns, Spinning, others, node, history
<1>6. CASE destroy_members
  BY <1>6 DEF destroy_members, node, history
<1>7. CASE destroy_base
  BY <1>7 DEF destroy_base, others, history
<1>8. CASE signal
  BY <1>8, ZenonT(60) DEF signal, node, others
<1>9. CASE runCleanups("deactivate", "cleanup")
  BY <1>9 DEF runCleanups, CleansUp, Begin, node, others, history
<1>10. CASE runCleanups("cleanup", "shutdown")
  BY <1>10 DEF runCleanups, CleansUp, Begin, node, others, history
<1>11. CASE shutdown
  BY <1>11 DEF shutdown, node, others, history
<1>12. CASE NodeThread
  BY <1>12 DEF NodeThread, spin, spin_returns, node, history
<1>13. CASE UNCHANGED vars
  BY <1>13 DEF vars, node, others, history
<1> QED BY <1>1, <1>2, <1>3, <1>4, <1>5, <1>6, <1>7, <1>8, <1>9, <1>10, <1>11, <1>12, <1>13
       DEF Next, Main, Signal

LEMMA Inductive ==
  Spec => []IInv
BY InitIInv, NextIInv, PTL DEF Spec

(* The state machine lets one thread into a callback at a time, wherever   *)
(* the signal and the requested transitions cross.                         *)
THEOREM TypeCorrect ==
  Spec => []TypeOK
BY Inductive, PTL DEF IInv

(* An update thread that can still be joined is destroyed only after a     *)
(* transition that the pre-shutdown callback could not know of.            *)
THEOREM TerminationIsDisturbed ==
  Spec => []TerminatesOnlyDisturbed
BY Inductive, PTL DEF IInv

=============================================================================
