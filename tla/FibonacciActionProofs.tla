----------------------- MODULE FibonacciActionProofs -----------------------
(***************************************************************************)
(* Proofs about FibonacciAction, for any goals, orders and pool of         *)
(* threads, and for any mixture of servers and clients.                    *)
(*                                                                         *)
(* OutcomeIsRight speaks of goals that are over.  ProgressIsRight follows  *)
(* a goal on the way there: how many terms it has at each place of the     *)
(* loop, and how many it will have when it next looks for a cancel.        *)
(***************************************************************************)
EXTENDS FibonacciAction, TLAPS

USE DEF Executing, Terminal

(* What a goal asks for, and that an order is a number. *)
LEMMA WantedIsTwoOrMore ==
  ASSUME order \in [Goals -> Orders], NEW g \in Goals
  PROVE  order[g] \in Int /\ Wanted(order[g]) \in Nat /\ Wanted(order[g]) >= 2
<1>1. order[g] \in Int
  BY OrdersAssumption
<1> QED BY <1>1 DEF Wanted

LEMMA InitIInv ==
  Init => IInv
<1> SUFFICES ASSUME Init PROVE IInv
  OBVIOUS
<1> USE DEF Init
<1>1. TypeOK
  BY DEF TypeOK
<1>2. \A g \in Goals : Wanted(order[g]) \in Nat /\ Wanted(order[g]) >= 2
  BY WantedIsTwoOrMore
<1>3. MaxTerms \in Nat /\ MaxTerms >= 2
  BY BoundsAssumption
<1>4. OutcomeIsRight
  BY <1>2, <1>3 DEF OutcomeIsRight
<1>5. ProgressIsRight
  BY <1>2 DEF ProgressIsRight
<1> QED BY <1>1, <1>4, <1>5 DEF IInv

(* A step of the server. *)
LEMMA ServeIInv ==
  ASSUME IInv, NEW g \in Goals, Serve(g)
  PROVE  IInv'
<1> USE OrdersAssumption, BoundsAssumption
        DEF IInv, TypeOK, OutcomeIsRight, ProgressIsRight, Goto,
            config, serving, asking, messages
<1>1. CASE handle_goal(g)
  BY <1>1 DEF handle_goal
<1>2. CASE execute(g)
  BY <1>2 DEF execute
<1>3. CASE execute_check(g)
  <2> USE <1>3 DEF execute_check
  <2>1. phase[g] = "top" /\ terms[g] \in Nat /\ asked[g] \in Nat /\ canceling[g] \in BOOLEAN
    OBVIOUS
  <2>2. order[g] \in Int /\ terms[g] >= 2 /\ terms[g] <= Wanted(order[g])
    BY WantedIsTwoOrMore
  <2>3. CASE ~LoopsOn(g)
    <3>1. phase' = [phase EXCEPT ![g] = "succeeded"]
      BY <2>3
    <3>2. terms[g] = Wanted(order[g])
      BY <2>1, <2>2, <2>3 DEF LoopsOn, Wanted
    <3> QED BY <3>1, <3>2
  <2>4. CASE LoopsOn(g)
    <3>1. terms[g] < Wanted(order[g])
      BY <2>1, <2>2, <2>4 DEF LoopsOn, Wanted
    <3>2. CASE canceling[g]
      <4>1. phase' = [phase EXCEPT ![g] = "canceled"]
        BY <2>4, <3>2
      <4> QED BY <3>1, <3>2, <4>1
    <3>3. CASE ~canceling[g]
      <4>1. phase' = [phase EXCEPT ![g] = "checked"]
        BY <2>4, <3>3
      <4> QED BY <3>1, <3>3, <4>1
    <3> QED BY <3>2, <3>3
  <2> QED BY <2>3, <2>4
<1>4. CASE execute_append(g)
  <2> USE <1>4 DEF execute_append
  <2>1. phase[g] = "checked" /\ terms[g] \in Nat /\ asked[g] \in Nat
    OBVIOUS
  <2>2. Wanted(order[g]) \in Nat /\ terms[g] < Wanted(order[g]) /\ MaxTerms \in Nat
    BY WantedIsTwoOrMore
  <2>3. CASE server = "py" /\ terms[g] = MaxTerms
    <3>1. phase' = [phase EXCEPT ![g] = "aborted"] /\ UNCHANGED <<terms, feedbacks>>
      BY <2>3
    <3> QED BY <2>2, <2>3, <3>1
  <2>4. CASE ~(server = "py" /\ terms[g] = MaxTerms)
    <3>1. /\ phase' = [phase EXCEPT ![g] = "sleeping"]
          /\ terms' = [terms EXCEPT ![g] = @ + 1]
          /\ feedbacks' = [feedbacks EXCEPT ![g] = @ + 1]
      BY <2>4
    <3>2. TypeOK'
      BY <3>1
    <3>3. \A h \in Goals :
            /\ terms'[h] = IF h = g THEN terms[h] + 1 ELSE terms[h]
            /\ feedbacks'[h] = IF h = g THEN feedbacks[h] + 1 ELSE feedbacks[h]
            /\ phase'[h] = IF h = g THEN "sleeping" ELSE phase[h]
      <4>1. /\ terms \in [Goals -> Nat] /\ feedbacks \in [Goals -> Nat]
            /\ DOMAIN phase = Goals
        OBVIOUS
      <4> HIDE DEF IInv, TypeOK, OutcomeIsRight, ProgressIsRight, execute_append
      <4> QED BY <3>1, <4>1
    <3>4. /\ feedback_count' = feedback_count /\ asked' = asked
          /\ order' = order /\ server' = server
      OBVIOUS
    <3>5. /\ \A h \in Goals :
               terms[h] \in Nat /\ feedbacks[h] \in Nat /\ feedback_count[h] \in Nat
          /\ server = "py" => terms[g] < MaxTerms
      BY <2>1, <2>2, <2>4
    <3>6. OutcomeIsRight
      OBVIOUS
    <3>7. OutcomeIsRight'
      <4> HIDE DEF IInv, TypeOK, ProgressIsRight, execute_append
      <4> SUFFICES ASSUME NEW h \in Goals PROVE OutcomeIsRight!(h)'
        BY DEF OutcomeIsRight
      <4>1. CASE h = g
        BY <2>2, <3>3, <3>4, <3>5, <3>6, <4>1
      <4>2. CASE h # g
        BY <3>3, <3>4, <3>6, <4>2
      <4> QED BY <4>1, <4>2
    <3>8. ProgressIsRight'
      BY <2>1, <2>2, <3>1
    <3> QED BY <3>2, <3>7, <3>8
  <2> QED BY <2>3, <2>4
<1>5. CASE rate_sleep(g)
  BY <1>5 DEF rate_sleep
<1>6. CASE handle_cancel(g)
  <2> USE <1>6 DEF handle_cancel
  <2>1. CASE phase[g] \in Executing \union {"accepted"} /\ ~canceling[g]
    <3> DEFINE Next_check == IF phase[g] = "checked" THEN terms[g] + 1 ELSE terms[g]
    <3>1. /\ canceling' = [canceling EXCEPT ![g] = TRUE]
          /\ asked' = [asked EXCEPT ![g] = Next_check]
      BY <2>1
    <3>2. Next_check \in Nat /\ Next_check # 0
      OBVIOUS
    <3>3. TypeOK'
      BY <3>1, <3>2
    <3>4. OutcomeIsRight'
      BY <2>1, <3>1
    <3>5. ProgressIsRight'
      BY <2>1, <3>1, <3>2
    <3> QED BY <3>3, <3>4, <3>5
  <2>2. CASE ~(phase[g] \in Executing \union {"accepted"} /\ ~canceling[g])
    BY <2>2
  <2> QED BY <2>1, <2>2
<1> QED BY <1>1, <1>2, <1>3, <1>4, <1>5, <1>6 DEF Serve

LEMMA AskIInv ==
  ASSUME IInv, NEW g \in Goals, send_goal(g) \/ Ask(g)
  PROVE  IInv'
<1> USE DEF IInv, TypeOK, OutcomeIsRight, ProgressIsRight, config, serving, asking, messages
<1>1. CASE send_goal(g)
  BY <1>1 DEF send_goal
<1>2. CASE goal_response_callback(g)
  BY <1>2 DEF goal_response_callback, Kept
<1>3. CASE feedback_callback(g)
  BY <1>3 DEF feedback_callback, Delivered, WantsCancel
<1>4. CASE result_callback(g)
  BY <1>4 DEF result_callback
<1> QED BY <1>1, <1>2, <1>3, <1>4 DEF Ask

LEMMA NextIInv ==
  ASSUME IInv, [Next]_vars
  PROVE  IInv'
<1>1. CASE \E g \in Goals : send_goal(g) \/ Serve(g) \/ Ask(g)
  BY <1>1, ServeIInv, AskIInv
<1>2. CASE rate_timer
  BY <1>2 DEF rate_timer, IInv, TypeOK, OutcomeIsRight, ProgressIsRight,
              config, serving, asking, messages
<1>3. CASE UNCHANGED vars
  BY <1>3 DEF vars, IInv, TypeOK, OutcomeIsRight, ProgressIsRight,
              config, serving, asking, messages
<1> QED BY <1>1, <1>2, <1>3 DEF Next

(* Types, and that a message is only on its way where it belongs: no       *)
(* cancel without a goal handle, no response without an accepted goal.     *)
THEOREM TypeCorrect == Spec => []TypeOK
<1>1. IInv => TypeOK
  BY DEF IInv
<1> QED BY InitIInv, NextIInv, <1>1, PTL DEF Spec

(* A goal ends as its order and the moment of its cancel say, with the     *)
(* terms that it should have, whatever the clients do meanwhile.           *)
THEOREM OutcomeIsAlwaysRight == Spec => []OutcomeIsRight
<1>1. IInv => OutcomeIsRight
  BY DEF IInv
<1> QED BY InitIInv, NextIInv, <1>1, PTL DEF Spec

=============================================================================
