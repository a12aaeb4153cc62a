---------------------------- MODULE OdomSmoother ----------------------------
(***************************************************************************)
(* The smoother of odometry: the messages of the last Window ticks, and    *)
(* the sum of their velocities, kept along with them.  A velocity has one  *)
(* linear and one angular component here, of three each.  The smoothed     *)
(* velocity is the sum and the number to divide it by.                     *)
(***************************************************************************)
EXTENDS Integers, Sequences, SequencesExt

CONSTANT Window   \* odom_history_duration_, in ticks

ASSUME WindowAssumption == Window \in Nat

VARIABLES
  odom_history,    \* messages [linear, angular, stamp]
  odom_cumulate,   \* [linear, angular]
  vel_smooth,      \* [linear, angular, size, stamp]
  dropped          \* history: the stamps of the messages dropped

smoothing == <<odom_history, odom_cumulate, vel_smooth, dropped>>

NoOdometry == [linear |-> 0, angular |-> 0, size |-> 1, stamp |-> 0]

InitSmoother ==
  /\ odom_history = <<>>
  /\ odom_cumulate = [linear |-> 0, angular |-> 0]
  /\ vel_smooth = NoOdometry
  /\ dropped = {}

Plus(a, b)  == [linear |-> a.linear + b.linear, angular |-> a.angular + b.angular]
Minus(a, b) == [linear |-> a.linear - b.linear, angular |-> a.angular - b.angular]

Total(msgs) ==
  LET first[i \in 0 .. Len(msgs)] ==   \* of the first i messages
        IF i = 0 THEN [linear |-> 0, angular |-> 0] ELSE Plus(first[i - 1], msgs[i])
  IN  first[Len(msgs)]

\* Broken variant: a message of exactly the duration goes too.
TooOld_Inclusive(m, stamp) == stamp - m.stamp >= Window

TooOld(m, stamp) == stamp - m.stamp > Window

\* The loop pops while the front is too old: it looks at no other message.
Pops(k, stamp) ==
  /\ \A i \in 1 .. k : TooOld(odom_history[i], stamp)
  /\ k < Len(odom_history) => ~TooOld(odom_history[k + 1], stamp)

odomCallback(msg) ==
  \E k \in 0 .. Len(odom_history) :
    LET gone  == SubSeq(odom_history, 1, k)
        kept  == Append(SubSeq(odom_history, k + 1, Len(odom_history)), msg)
        total == Plus(Minus(odom_cumulate, Total(gone)), msg)
    IN  /\ Pops(k, msg.stamp)
        /\ odom_history' = kept
        /\ odom_cumulate' = total
        /\ vel_smooth' = [linear |-> total.linear, angular |-> total.angular,
                          size |-> Len(kept), stamp |-> msg.stamp]
        /\ dropped' = dropped \cup {m.stamp : m \in Range(gone)}
=============================================================================
