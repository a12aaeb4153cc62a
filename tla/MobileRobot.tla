----------------------------- MODULE MobileRobot -----------------------------
(***************************************************************************)
(* A mobile robot: a node that commands it, the square walker or the       *)
(* obstacle avoidance, the differential drive controller, and a smoother   *)
(* of its odometry.  They are processes that talk over the topics cmd_vel  *)
(* and odom, each with callbacks on one thread.                            *)
(*                                                                         *)
(* The C++ and the Python controller are the same program.  Headings are   *)
(* whole numbers, in a unit of angle so small that the wheels turn by      *)
(* whole numbers; the position, which no other part reads, is left out.    *)
(* The timers of a node fire in any order and at any time: only the clock  *)
(* the controller reads is modelled, and that may be set back.             *)
(***************************************************************************)
EXTENDS OdomSmoother

CONSTANTS
  Teams,         \* the nodes launched: [commander, smoother]
  Scans,         \* laser scans [ranges, angle_increment]
  NoScan,        \* None
  Invalid,       \* a range that is inf or nan
  forward_angle, safe_distance, stop_distance,   \* of the obstacle avoidance
  forward_speed, slow_speed, turn_speed,
  linear_speed, angular_speed,                   \* of the square walker
  wheel_separation_real, wheel_separation_est,
  Depth,         \* of the queue of a subscription: 10
  MaxStep,       \* bound on step
  MaxTime,       \* bound on the clock
  MaxSetBacks    \* bound on the times the clock is set back

ASSUME TeamsAssumption ==
  Teams \subseteq [commander : {"square_walker", "obstacle_avoidance"}, smoother : BOOLEAN]
ASSUME ScansAssumption ==
  /\ NoScan \notin Scans
  /\ \A s \in Scans : /\ s.angle_increment \in Nat \ {0}
                      /\ s.ranges \in Seq(Nat \union {Invalid})
ASSUME SpeedsAssumption ==
  /\ {forward_angle, safe_distance, stop_distance} \subseteq Nat
  /\ {forward_speed, slow_speed, turn_speed, linear_speed, angular_speed} \subseteq Nat
  /\ slow_speed < forward_speed /\ stop_distance <= safe_distance
ASSUME WheelsAssumption ==
  {wheel_separation_real, wheel_separation_est} \subseteq Nat \ {0}

\* Turns in the unit of angle.
Turns == {t \in Int : t % (2 * wheel_separation_real) = 0}

ASSUME AnglesAssumption == {turn_speed, angular_speed} \subseteq Turns
ASSUME BoundsAssumption ==
  Depth \in Nat \ {0} /\ MaxStep \in Nat /\ MaxTime \in Nat /\ MaxSetBacks \in Nat

VARIABLES
  team,
  step, phase, cmd_timer,      \* the square walker
  latest_scan,                 \* the obstacle avoidance
  cmd_vel,                     \* queue of the topic
  v, omega, last_time,         \* the controller
  theta_real, theta_est, left_wheel, right_wheel,
  heeded,                      \* history: scan behind the command obeyed
  odom,                        \* queue of the topic
  clock, set_backs

walking    == <<step, phase, cmd_timer>>
driving    == <<v, omega, last_time, theta_real, theta_est, left_wheel, right_wheel, heeded>>
time       == <<clock, set_backs>>
vars       == <<team, walking, latest_scan, cmd_vel, driving, odom, time, smoothing>>

InitWalker     == step = 0 /\ phase = "straight" /\ cmd_timer = TRUE
InitAvoidance  == latest_scan = NoScan
InitController ==
  /\ v = 0 /\ omega = 0 /\ last_time = 0
  /\ theta_real = 0 /\ theta_est = 0 /\ left_wheel = 0 /\ right_wheel = 0
  /\ heeded = NoScan

Init ==
  /\ team \in Teams
  /\ InitWalker /\ InitAvoidance /\ InitController /\ InitSmoother
  /\ cmd_vel = <<>> /\ odom = <<>>
  /\ clock = 0 /\ set_backs = 0

(* A full queue loses its oldest message.                                  *)
Queued(queue, msg) ==
  Append(IF Len(queue) < Depth THEN queue ELSE Tail(queue), msg)

Twist(linear, angular, scan) == [linear |-> linear, angular |-> angular, scan |-> scan]

-----------------------------------------------------------------------------
(* The square walker *)

Walks == team.commander = "square_walker"

\* Broken variant: the timer that sends commands goes on.
StopsSending_Not == cmd_timer

StopsSending == FALSE

(* The timer of the step goes on after the square, and stops again.        *)
step_callback ==
  /\ Walks
  /\ step < MaxStep
  /\ IF phase = "straight"
     THEN phase' = "turn" /\ UNCHANGED <<step, cmd_timer, cmd_vel>>
     ELSE /\ step' = step + 1
          /\ IF step + 1 >= 4
             THEN /\ cmd_timer' = StopsSending
                  /\ cmd_vel' = Queued(cmd_vel, Twist(0, 0, NoScan))
                  /\ UNCHANGED phase
             ELSE phase' = "straight" /\ UNCHANGED <<cmd_timer, cmd_vel>>
  /\ UNCHANGED <<team, latest_scan, driving, odom, time, smoothing>>

publish_cmd ==
  /\ Walks
  /\ cmd_timer
  /\ cmd_vel' = Queued(cmd_vel, IF phase = "straight" THEN Twist(linear_speed, 0, NoScan)
                                ELSE Twist(0, angular_speed, NoScan))
  /\ UNCHANGED <<team, walking, latest_scan, driving, odom, time, smoothing>>

-----------------------------------------------------------------------------
(* The obstacle avoidance *)

Avoids == team.commander = "obstacle_avoidance"

scan_callback ==
  /\ Avoids
  /\ latest_scan' \in Scans
  /\ UNCHANGED <<team, walking, cmd_vel, driving, odom, time, smoothing>>

AtMost(a, b)  == IF a < b THEN a ELSE b
AtLeast(a, b) == IF a > b THEN a ELSE b

half_samples(scan) == forward_angle \div scan.angle_increment
center(scan)       == Len(scan.ranges) \div 2

\* Slices of the ranges, numbered from 0.
Slice(first, end) == first .. end - 1

\* Broken variant: the front is divided in halves once more.
FrontSector_Half(scan) ==
  LET c == center(scan)  h == half_samples(scan) \div 2
  IN  Slice(AtLeast(0, c - h), AtMost(Len(scan.ranges), c + h))

FrontSector(scan) ==
  LET c == center(scan)  h == half_samples(scan)
  IN  Slice(AtLeast(0, c - h), AtMost(Len(scan.ranges), c + h))

LeftSector(scan) ==
  LET n == Len(scan.ranges)  c == center(scan)  h == half_samples(scan)
  IN  Slice(AtMost(n, c + h), AtMost(n, c + 3 * h))

RightSector(scan) ==
  LET c == center(scan)  h == half_samples(scan)
  IN  Slice(AtLeast(0, c - 3 * h), AtLeast(0, c - h))

Valid(scan, sector) == {i \in sector : scan.ranges[i + 1] # Invalid}

\* min_valid_range() of the sector is less than the distance.
Nearer(scan, sector, distance) ==
  \E i \in Valid(scan, sector) : scan.ranges[i + 1] < distance

\* left_min > right_min
MoreRoomLeft(scan) ==
  \E r \in Valid(scan, RightSector(scan)) : \A l \in Valid(scan, LeftSector(scan)) :
    scan.ranges[l + 1] > scan.ranges[r + 1]

Command(scan) ==
  IF Nearer(scan, FrontSector(scan), stop_distance)
  THEN Twist(0, IF MoreRoomLeft(scan) THEN turn_speed ELSE -turn_speed, scan)
  ELSE IF Nearer(scan, FrontSector(scan), safe_distance)
  THEN Twist(slow_speed, 0, scan)
  ELSE Twist(forward_speed, 0, scan)

control_loop ==
  /\ Avoids
  /\ latest_scan # NoScan
  /\ cmd_vel' = Queued(cmd_vel, Command(latest_scan))
  /\ UNCHANGED <<team, walking, latest_scan, driving, odom, time, smoothing>>

-----------------------------------------------------------------------------
(* The controller *)

cmd_vel_callback ==
  /\ cmd_vel # <<>>
  /\ LET msg == Head(cmd_vel)
     IN  v' = msg.linear /\ omega' = msg.angular /\ heeded' = msg.scan
  /\ cmd_vel' = Tail(cmd_vel)
  /\ UNCHANGED <<team, walking, latest_scan, last_time, theta_real, theta_est,
                 left_wheel, right_wheel, odom, time, smoothing>>

v_left == v - (omega * wheel_separation_est) \div 2

v_right == v + (omega * wheel_separation_est) \div 2

\* Broken variant: the turn that was commanded, not the one of the wheels.
TurnRate_Commanded(separation) == omega

\* omega_real and omega_est
TurnRate(separation) == (v_right - v_left) \div separation

\* The velocities commanded, whatever the wheels make of them.
publish_odom ==
  odom' = IF team.smoother
          THEN Queued(odom, [linear |-> v, angular |-> omega, stamp |-> clock])
          ELSE odom

(* The angles of the wheels are in units of the radius.  The time of the   *)
(* last call is kept even if the clock shows no progress.                  *)
update_callback ==
  LET dt == clock - last_time
  IN  /\ last_time' = clock
      /\ IF dt <= 0
         THEN UNCHANGED <<theta_real, theta_est, left_wheel, right_wheel, odom>>
         ELSE /\ theta_real' = theta_real + TurnRate(wheel_separation_real) * dt
              /\ theta_est' = theta_est + TurnRate(wheel_separation_est) * dt
              /\ left_wheel' = left_wheel + v_left * dt
              /\ right_wheel' = right_wheel + v_right * dt
              /\ publish_odom
      /\ UNCHANGED <<team, walking, latest_scan, cmd_vel, v, omega, heeded, time, smoothing>>

-----------------------------------------------------------------------------
(* The smoother, and the clock of the system *)

odom_callback ==
  /\ odom # <<>>
  /\ odomCallback(Head(odom))
  /\ odom' = Tail(odom)
  /\ UNCHANGED <<team, walking, latest_scan, cmd_vel, driving, time>>

tick ==
  /\ clock < MaxTime
  /\ clock' = clock + 1
  /\ UNCHANGED <<team, walking, latest_scan, cmd_vel, driving, odom, set_backs, smoothing>>

\* By more than a tick in as many steps.
set_back ==
  /\ set_backs < MaxSetBacks /\ clock > 0
  /\ clock' = clock - 1
  /\ set_backs' = set_backs + 1
  /\ UNCHANGED <<team, walking, latest_scan, cmd_vel, driving, odom, smoothing>>

-----------------------------------------------------------------------------
Next ==
  \/ step_callback \/ publish_cmd
  \/ scan_callback \/ control_loop
  \/ cmd_vel_callback \/ update_callback
  \/ odom_callback
  \/ tick \/ set_back

(* The timers fire and the nodes spin; nobody has to set the clock or to   *)
(* scan.                                                                   *)
Fairness ==
  /\ WF_vars(step_callback) /\ WF_vars(publish_cmd) /\ WF_vars(control_loop)
  /\ WF_vars(cmd_vel_callback) /\ WF_vars(update_callback) /\ WF_vars(odom_callback)

Spec == Init /\ [][Next]_vars /\ Fairness

-----------------------------------------------------------------------------
Velocity(scans) == [linear : Int, angular : Turns, scan : scans]
Odometry        == [linear : Int, angular : Int, stamp : Nat]

(* The headings, which are added up separately, are those of the wheels.   *)
HeadingFollowsWheels ==
  /\ right_wheel - left_wheel = wheel_separation_est * theta_est
  /\ right_wheel - left_wheel = wheel_separation_real * theta_real

TypeOK ==
  /\ team \in Teams
  /\ step \in 0 .. MaxStep /\ phase \in {"straight", "turn"} /\ cmd_timer \in BOOLEAN
  /\ latest_scan \in Scans \union {NoScan} /\ heeded \in Scans \union {NoScan}
  /\ cmd_vel \in Seq(Velocity(Scans \union {NoScan})) /\ Len(cmd_vel) <= Depth
  /\ odom \in Seq(Odometry) /\ Len(odom) <= Depth
  /\ omega \in Turns
  /\ {v, theta_real, theta_est, left_wheel, right_wheel} \subseteq Int
  /\ clock \in 0 .. MaxTime /\ last_time \in 0 .. MaxTime /\ set_backs \in 0 .. MaxSetBacks
  /\ odom_history \in Seq(Odometry)
  /\ HeadingFollowsWheels

(* A sample straight ahead, up to the forward angle less the step of one   *)
(* sample, that the division rounds away.                                  *)
Ahead(scan, i) ==
  LET off == AtLeast(i - center(scan), center(scan) - i)
  IN  (off + 1) * scan.angle_increment <= forward_angle

\* A velocity that the scan allows, if there is one.
Allowed(scan, linear) ==
  scan # NoScan =>
    \A i \in 0 .. Len(scan.ranges) - 1 :
      Ahead(scan, i) /\ scan.ranges[i + 1] # Invalid =>
        /\ scan.ranges[i + 1] < stop_distance => linear = 0
        /\ scan.ranges[i + 1] < safe_distance => linear <= slow_speed

(* The robot goes ahead only as fast as the scan behind the command it     *)
(* obeys allows: not at all with an obstacle ahead nearer than the stop    *)
(* distance, slowly with one nearer than the safe distance, whatever the   *)
(* number of samples and their spacing, and however commands were queued   *)
(* and lost meanwhile.                                                     *)
DrivesAsSeen == Allowed(heeded, v)

(* The smoothed velocity is that of the messages kept, whose sum is kept   *)
(* along with them, and while the clock has not been set back these are    *)
(* the messages of the last Window ticks, no more and no less.             *)
SmoothsTheWindow ==
  odom_history # <<>> =>
    LET newest == odom_history[Len(odom_history)]
        total  == Total(odom_history)
    IN  /\ odom_cumulate = total
        /\ vel_smooth = [linear |-> total.linear, angular |-> total.angular,
                         size |-> Len(odom_history), stamp |-> newest.stamp]
        /\ set_backs = 0 =>
             /\ \A i \in 1 .. Len(odom_history) :
                  newest.stamp - odom_history[i].stamp <= Window
             /\ \A stamp \in dropped : newest.stamp - stamp > Window

(* After the square the robot comes to rest and stays there, though the    *)
(* timer of the step goes on.                                              *)
ComesToRest == Walks => <>[](v = 0 /\ omega = 0)

-----------------------------------------------------------------------------
(* What makes DrivesAsSeen inductive *)
AllowedVelocity == {m \in Velocity(Scans \union {NoScan}) : Allowed(m.scan, m.linear)}

CommandsAreAllowed == cmd_vel \in Seq(AllowedVelocity)

IInv == TypeOK /\ DrivesAsSeen /\ CommandsAreAllowed

(* What makes SmoothsTheWindow inductive: odometry is stamped and smoothed *)
(* in order, though a full queue loses some.                               *)
StampsInOrder ==
  set_backs = 0 =>
    /\ \A i, j \in 1 .. Len(odom_history) :
         i <= j => odom_history[i].stamp <= odom_history[j].stamp
    /\ \A i, j \in 1 .. Len(odom) : i <= j => odom[i].stamp <= odom[j].stamp
    /\ \A i \in 1 .. Len(odom_history) :
         /\ \A j \in 1 .. Len(odom) : odom_history[i].stamp <= odom[j].stamp
         /\ odom_history[i].stamp <= last_time
    /\ \A j \in 1 .. Len(odom) : odom[j].stamp <= last_time
    /\ last_time <= clock

SmootherInv ==
  /\ StampsInOrder
  /\ SmoothsTheWindow
  /\ odom_cumulate = Total(odom_history)
  /\ dropped \subseteq Nat
  /\ odom_history = <<>> => dropped = {}
=============================================================================
