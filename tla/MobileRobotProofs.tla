-------------------------- MODULE MobileRobotProofs --------------------------
(***************************************************************************)
(* Proofs about MobileRobot, for any scans, parameters and wheels.         *)
(* CommandsAreAllowed carries what a scan allows through the queue of      *)
(* commands, SmootherInv the order of the stamps through that of odometry. *)
(***************************************************************************)
EXTENDS MobileRobot, WellFoundedInduction, TLAPS

-----------------------------------------------------------------------------
(* Induction over the natural numbers, with sets for predicates.           *)

(* A set of natural numbers that is not empty has a least member.          *)
LEMMA LeastMember ==
  ASSUME NEW T \in SUBSET Nat, T # {}
  PROVE  \E m \in T : \A n \in T : m <= n
<1> DEFINE R == {ss \in Nat \X Nat : ss[1] < ss[2]}
<1>1. IsWellFoundedOn(R, Nat)
  BY NatLessThanWellFounded DEF OpToRel
<1>2. PICK m \in T : \A n \in T : <<n, m>> \notin R
  BY <1>1, WFMin
<1>3. ASSUME NEW n \in T PROVE m <= n
  <2>1. ~ (n < m)
    BY <1>2
  <2> QED BY <2>1
<1> QED BY <1>3

(* A set of natural numbers that has 0 and the successor of every member   *)
(* has them all.                                                           *)
LEMMA Induction ==
  ASSUME NEW S \in SUBSET Nat, 0 \in S, \A n \in S : n + 1 \in S
  PROVE  S = Nat
<1> SUFFICES ASSUME Nat \ S # {} PROVE FALSE
  OBVIOUS
<1>1. PICK m \in Nat \ S : \A n \in Nat \ S : m <= n
  <2> DEFINE T == Nat \ S
  <2> T \in SUBSET Nat /\ T # {}
    OBVIOUS
  <2> HIDE DEF T
  <2>1. \E m \in T : \A n \in T : m <= n
    BY LeastMember
  <2> QED BY <2>1 DEF T
<1>2. m # 0 /\ m - 1 \in Nat
  BY <1>1
<1>3. m - 1 \in S
  BY <1>1, <1>2
<1> QED BY <1>1, <1>3

(* A recursion over the numbers up to n has a solution.                    *)
Solves(f, n, a, next) == f[0] = a /\ \A i \in 1 .. n : f[i] = next[<<i, f[i - 1]>>]

LEMMA Recursion ==
  ASSUME NEW n \in Nat, NEW V, NEW a \in V, NEW next \in [(1 .. n) \X V -> V]
  PROVE  \E f \in [0 .. n -> V] : Solves(f, n, a, next)
<1> DEFINE S == {k \in Nat : k <= n => \E f \in [0 .. k -> V] : Solves(f, k, a, next)}
<1>1. 0 \in S
  <2> DEFINE f == [i \in 0 .. 0 |-> a]
  <2>1. f \in [0 .. 0 -> V] /\ Solves(f, 0, a, next)
    BY DEF Solves
  <2> QED BY <2>1
<1>2. ASSUME NEW k \in S PROVE k + 1 \in S
  <2> SUFFICES ASSUME k + 1 <= n PROVE \E f \in [0 .. k + 1 -> V] : Solves(f, k + 1, a, next)
    OBVIOUS
  <2>1. k \in Nat /\ k <= n /\ k + 1 \in 1 .. n
    OBVIOUS
  <2>2. PICK f \in [0 .. k -> V] : Solves(f, k, a, next)
    BY <2>1
  <2> DEFINE g == [i \in 0 .. k + 1 |-> IF i <= k THEN f[i] ELSE next[<<k + 1, f[k]>>]]
  <2>3. f[k] \in V /\ next[<<k + 1, f[k]>>] \in V
    BY <2>1
  <2>4. g \in [0 .. k + 1 -> V]
    BY <2>1, <2>3
  <2>5. g[0] = f[0] /\ g[k + 1] = next[<<k + 1, f[k]>>] /\ \A i \in 0 .. k : g[i] = f[i]
    BY <2>1
  <2> HIDE DEF g
  <2>6. ASSUME NEW i \in 1 .. k + 1 PROVE g[i] = next[<<i, g[i - 1]>>]
    <3>1. i - 1 \in 0 .. k /\ g[i - 1] = f[i - 1]
      BY <2>1, <2>5
    <3>2. CASE i = k + 1
      BY <2>1, <2>5, <3>1, <3>2
    <3>3. CASE i # k + 1
      <4>1. i \in 1 .. k /\ i \in 0 .. k
        BY <2>1, <3>3
      <4> QED BY <2>2, <2>5, <3>1, <4>1 DEF Solves
    <3> QED BY <3>2, <3>3
  <2>7. Solves(g, k + 1, a, next)
    BY <2>2, <2>5, <2>6 DEF Solves
  <2> QED BY <2>4, <2>7
<1>3. S = Nat
  <2> HIDE DEF S
  <2>1. S \in SUBSET Nat
    BY DEF S
  <2> QED BY <1>1, <1>2, <2>1, Induction
<1>4. n \in S /\ n <= n
  BY <1>3
<1> QED BY <1>4

-----------------------------------------------------------------------------
(* Arithmetic *)

LEMMA ProductDivided ==
  ASSUME NEW m \in Int, NEW d \in Nat \ {0}
  PROVE  (m * d) \div d = m
OBVIOUS

LEMMA ProductModulo ==
  ASSUME NEW m \in Int, NEW d \in Nat \ {0}
  PROVE  (m * d) % d = 0
OBVIOUS

(* A product that fits is no greater than the quotient. *)
LEMMA QuotientBounds ==
  ASSUME NEW k \in Nat, NEW d \in Nat \ {0}, NEW n \in Nat, k * d <= n
  PROVE  k <= n \div d
OBVIOUS

\* Turns are whole numbers, and those commanded are turns.
LEMMA TurnsAreInt ==
  /\ Turns \subseteq Int /\ 0 \in Turns
  /\ {turn_speed, -turn_speed, angular_speed} \subseteq Turns
<1>1. ASSUME NEW t \in Int, NEW d \in Nat \ {0}, t % d = 0 PROVE (-t) % d = 0
  <2> DEFINE m == t \div d
  <2>1. m \in Int /\ t = d * m
    BY <1>1
  <2> HIDE DEF m
  <2>2. -t = (-m) * d /\ -m \in Int
    BY <2>1
  <2> QED BY <2>2, ProductModulo
<1>2. 2 * wheel_separation_real \in Nat \ {0} /\ 0 % (2 * wheel_separation_real) = 0
  BY WheelsAssumption
<1> QED BY <1>1, <1>2, AnglesAssumption DEF Turns

-----------------------------------------------------------------------------
(* The obstacle avoidance *)

LEMMA AheadIsInFront ==
  ASSUME NEW scan \in Scans, NEW i \in 0 .. Len(scan.ranges) - 1, Ahead(scan, i)
  PROVE  i \in FrontSector(scan)
<1> DEFINE n   == Len(scan.ranges)
           c   == center(scan)
           h   == half_samples(scan)
           off == AtLeast(i - c, c - i)
<1>1. n \in Nat /\ scan.angle_increment \in Nat \ {0} /\ forward_angle \in Nat
  BY ScansAssumption, SpeedsAssumption
<1>2. c \in Nat
  <2>1. \A a \in Nat : a \div 2 \in Nat
    OBVIOUS
  <2>2. c = n \div 2
    BY DEF center
  <2> HIDE DEF c, n
  <2> QED BY <1>1, <2>1, <2>2
<1>3. off \in Nat /\ i - c <= off /\ c - i <= off
  BY <1>1, <1>2 DEF AtLeast
<1>4. (off + 1) * scan.angle_increment <= forward_angle
  BY DEF Ahead, off, c
<1>5. off + 1 <= h /\ h \in Int
  <2>1. h = forward_angle \div scan.angle_increment
    BY DEF half_samples
  <2>2. off + 1 \in Nat
    BY <1>3
  <2> HIDE DEF off, h
  <2>3. off + 1 <= forward_angle \div scan.angle_increment
    BY <1>1, <1>4, <2>2, QuotientBounds
  <2> QED BY <1>1, <2>1, <2>3
<1> HIDE DEF n, c, h, off
<1>6. AtLeast(0, c - h) <= i /\ i <= AtMost(n, c + h) - 1
  BY <1>1, <1>2, <1>3, <1>5 DEF AtLeast, AtMost, n
<1>7. FrontSector(scan) = AtLeast(0, c - h) .. (AtMost(n, c + h) - 1)
  BY DEF FrontSector, Slice, n, c, h
<1>8. AtLeast(0, c - h) \in Int /\ AtMost(n, c + h) - 1 \in Int /\ i \in Int
  BY <1>1, <1>2, <1>5 DEF AtLeast, AtMost, n
<1> QED
  BY <1>6, <1>7, <1>8

LEMMA CommandIsAllowed ==
  ASSUME NEW scan \in Scans
  PROVE  /\ Command(scan) \in Velocity(Scans)
         /\ Command(scan).scan = scan
         /\ Allowed(scan, Command(scan).linear)
<1>1. Command(scan) \in Velocity(Scans) /\ Command(scan).scan = scan
  BY SpeedsAssumption, TurnsAreInt DEF Command, Twist, Velocity
<1>2. ASSUME NEW i \in 0 .. Len(scan.ranges) - 1, Ahead(scan, i), scan.ranges[i + 1] # Invalid,
             NEW d, scan.ranges[i + 1] < d
      PROVE  Nearer(scan, FrontSector(scan), d)
  BY <1>2, AheadIsInFront DEF Nearer, Valid
<1>3. Command(scan).linear = IF Nearer(scan, FrontSector(scan), stop_distance) THEN 0
                             ELSE IF Nearer(scan, FrontSector(scan), safe_distance)
                             THEN slow_speed ELSE forward_speed
  BY DEF Command, Twist
<1>4. slow_speed \in Nat
  BY SpeedsAssumption
<1>5. Allowed(scan, Command(scan).linear)
  BY <1>2, <1>3, <1>4 DEF Allowed
<1> QED BY <1>1, <1>5

-----------------------------------------------------------------------------
(* The controller *)

LEMMA TurnsAgree ==
  ASSUME v \in Int, omega \in Turns, NEW dt \in Int
  PROVE  /\ v_left \in Int /\ v_right \in Int
         /\ TurnRate(wheel_separation_real) \in Int /\ TurnRate(wheel_separation_est) \in Int
         /\ (v_right - v_left) * dt = wheel_separation_est * (TurnRate(wheel_separation_est) * dt)
         /\ (v_right - v_left) * dt = wheel_separation_real * (TurnRate(wheel_separation_real) * dt)
<1> DEFINE e == wheel_separation_est
           r == wheel_separation_real
           p == omega * e
           k == omega \div (2 * r)
           q == 2 * (k * e)
<1>1. e \in Nat \ {0} /\ r \in Nat \ {0} /\ omega \in Int /\ omega % (2 * r) = 0
  BY WheelsAssumption DEF Turns
<1>2. k \in Int /\ omega = 2 * (r * k)
  <2> HIDE DEF r
  <2>1. 2 * r \in Nat \ {0}
    BY <1>1
  <2> DEFINE d == 2 * r
  <2>2. d \in Nat \ {0} /\ omega % d = 0
    BY <1>1, <2>1
  <2> HIDE DEF d
  <2>3. omega \div d \in Int /\ omega = d * (omega \div d)
    BY <1>1, <2>2
  <2>4. k \in Int /\ omega = (2 * r) * k
    BY <2>3 DEF d
  <2> HIDE DEF k
  <2> QED BY <1>1, <2>4
<1> HIDE DEF e, r, k
<1>3. p \in Int /\ q \in Int /\ p = r * q /\ p = 2 * ((r * k) * e)
  BY <1>1, <1>2
<1>4. v_left \in Int /\ v_right \in Int /\ v_right - v_left = p
  <2>1. v_left = v - p \div 2 /\ v_right = v + p \div 2
    BY DEF v_left, v_right, e
  <2> DEFINE h == (r * k) * e
  <2>2. h \in Int /\ p = h * 2
    BY <1>1, <1>2, <1>3
  <2> HIDE DEF p, q, h
  <2>3. p \div 2 = h
    BY <2>2, ProductDivided
  <2> QED BY <1>3, <2>1, <2>2, <2>3
<1>5. TurnRate(e) = omega
  BY <1>1, <1>4, ProductDivided DEF TurnRate
<1>6. TurnRate(r) = q
  <2>1. p = q * r
    BY <1>1, <1>3
  <2> HIDE DEF p, q
  <2> QED BY <1>1, <1>3, <1>4, <2>1, ProductDivided DEF TurnRate
<1>7. p * dt = e * (omega * dt)
  BY <1>1
<1>8. p * dt = r * (q * dt)
  <2> HIDE DEF p, q
  <2> QED BY <1>1, <1>3
<1> HIDE DEF p, q
<1> QED BY <1>1, <1>3, <1>4, <1>5, <1>6, <1>7, <1>8 DEF e, r

-----------------------------------------------------------------------------
LEMMA QueuedIsQueue ==
  ASSUME NEW M, NEW queue \in Seq(M), Len(queue) <= Depth, NEW msg \in M
  PROVE  Queued(queue, msg) \in Seq(M) /\ Len(Queued(queue, msg)) <= Depth
<1> USE BoundsAssumption
<1>1. CASE Len(queue) < Depth
  BY <1>1 DEF Queued
<1>2. CASE ~(Len(queue) < Depth)
  <2>1. queue # <<>> /\ Len(queue) = Depth
    BY <1>2
  <2>2. Tail(queue) \in Seq(M) /\ Len(Tail(queue)) = Depth - 1
    BY <2>1
  <2>3. Queued(queue, msg) = Append(Tail(queue), msg)
    BY <1>2 DEF Queued
  <2> QED BY <2>1, <2>2, <2>3
<1> QED BY <1>1, <1>2

LEMMA InitIInv ==
  Init => IInv
<1> SUFFICES ASSUME Init PROVE IInv
  OBVIOUS
<1> USE BoundsAssumption DEF Init, InitWalker, InitAvoidance, InitController, InitSmoother
<1>1. HeadingFollowsWheels
  BY WheelsAssumption DEF HeadingFollowsWheels
<1>2. cmd_vel = <<>> /\ odom = <<>> /\ odom_history = <<>> /\ Len(<<>>) = 0
  OBVIOUS
<1>3. \A M : <<>> \in Seq(M)
  OBVIOUS
<1>4. TypeOK
  BY <1>1, <1>2, <1>3, TurnsAreInt DEF TypeOK
<1>5. DrivesAsSeen /\ CommandsAreAllowed
  BY <1>2, <1>3 DEF DrivesAsSeen, CommandsAreAllowed, Allowed
<1> QED BY <1>4, <1>5 DEF IInv

-----------------------------------------------------------------------------
(* What a step of a commanding node may do: it sends a command that the    *)
(* scan allows, or none, and leaves the robot alone.                       *)
LEMMA CommandsKeepIInv ==
  ASSUME IInv,
         UNCHANGED <<team, driving, odom, time, smoothing>>,
         step' \in 0 .. MaxStep, phase' \in {"straight", "turn"}, cmd_timer' \in BOOLEAN,
         latest_scan' \in Scans \union {NoScan},
         cmd_vel' = cmd_vel \/ \E msg \in AllowedVelocity : cmd_vel' = Queued(cmd_vel, msg)
  PROVE  IInv'
<1> DEFINE M == Velocity(Scans \union {NoScan})
<1>1. cmd_vel \in Seq(AllowedVelocity) /\ cmd_vel \in Seq(M) /\ Len(cmd_vel) <= Depth
  BY DEF IInv, TypeOK, CommandsAreAllowed
<1>2. cmd_vel' \in Seq(AllowedVelocity) /\ cmd_vel' \in Seq(M) /\ Len(cmd_vel') <= Depth
  <2>1. CASE cmd_vel' = cmd_vel
    BY <1>1, <2>1
  <2>2. CASE \E msg \in AllowedVelocity : cmd_vel' = Queued(cmd_vel, msg)
    <3>1. PICK msg \in AllowedVelocity : cmd_vel' = Queued(cmd_vel, msg)
      BY <2>2
    <3>2. msg \in M
      BY DEF AllowedVelocity
    <3> HIDE DEF M
    <3>3. Queued(cmd_vel, msg) \in Seq(AllowedVelocity) /\ Len(Queued(cmd_vel, msg)) <= Depth
      BY <1>1, QueuedIsQueue
    <3>4. Queued(cmd_vel, msg) \in Seq(M)
      BY <1>1, <3>2, QueuedIsQueue
    <3> QED BY <3>1, <3>3, <3>4
  <2> QED BY <2>1, <2>2
<1>3. TypeOK'
  BY <1>2 DEF IInv, TypeOK, HeadingFollowsWheels, driving, time, smoothing
<1>4. DrivesAsSeen' /\ CommandsAreAllowed'
  BY <1>2 DEF IInv, DrivesAsSeen, CommandsAreAllowed, driving
<1> QED BY <1>3, <1>4 DEF IInv

LEMMA CommanderIInv ==
  ASSUME IInv, step_callback \/ publish_cmd \/ scan_callback \/ control_loop
  PROVE  IInv'
<1> USE DEF walking
<1>1. \A a \in Int, b \in Turns : Twist(a, b, NoScan) \in AllowedVelocity
  BY DEF Twist, Velocity, Allowed, AllowedVelocity
<1>2. /\ step \in 0 .. MaxStep /\ phase \in {"straight", "turn"} /\ cmd_timer \in BOOLEAN
      /\ latest_scan \in Scans \union {NoScan}
  BY DEF IInv, TypeOK
<1>3. CASE step_callback
  <2>1. UNCHANGED <<team, driving, odom, time, smoothing, latest_scan>>
    BY <1>3 DEF step_callback
  <2>2. step' \in 0 .. MaxStep /\ phase' \in {"straight", "turn"} /\ cmd_timer' \in BOOLEAN
    <3>1. step < MaxStep /\ MaxStep \in Nat
      BY <1>3, BoundsAssumption DEF step_callback
    <3>2. CASE phase = "straight"
      BY <1>2, <1>3, <3>2 DEF step_callback
    <3>3. CASE phase # "straight"
      <4>1. step' = step + 1 /\ cmd_timer' \in {cmd_timer, FALSE} /\ phase' \in {phase, "straight"}
        BY <1>3, <3>3 DEF step_callback, StopsSending
      <4>2. step' \in 0 .. MaxStep
        BY <1>2, <3>1, <4>1
      <4>3. phase' \in {"straight", "turn"} /\ cmd_timer' \in BOOLEAN
        BY <1>2, <4>1, Zenon
      <4> QED BY <4>2, <4>3
    <3> QED BY <3>2, <3>3
  <2>3. cmd_vel' = cmd_vel \/ cmd_vel' = Queued(cmd_vel, Twist(0, 0, NoScan))
    BY <1>3 DEF step_callback
  <2>4. Twist(0, 0, NoScan) \in AllowedVelocity
    BY <1>1, TurnsAreInt
  <2> QED BY <1>2, <2>1, <2>2, <2>3, <2>4, CommandsKeepIInv
<1>4. CASE publish_cmd
  <2>1. UNCHANGED <<team, walking, latest_scan, driving, odom, time, smoothing>>
    BY <1>4 DEF publish_cmd
  <2>2. \E msg \in AllowedVelocity : cmd_vel' = Queued(cmd_vel, msg)
    BY <1>1, <1>4, SpeedsAssumption, TurnsAreInt DEF publish_cmd
  <2> QED BY <1>2, <2>1, <2>2, CommandsKeepIInv
<1>5. CASE scan_callback
  BY <1>2, <1>5, CommandsKeepIInv DEF scan_callback
<1>6. CASE control_loop
  <2>1. /\ UNCHANGED <<team, walking, latest_scan, driving, odom, time, smoothing>>
        /\ latest_scan \in Scans /\ cmd_vel' = Queued(cmd_vel, Command(latest_scan))
    BY <1>2, <1>6 DEF control_loop
  <2>2. Command(latest_scan) \in AllowedVelocity
    BY <2>1, CommandIsAllowed DEF AllowedVelocity, Velocity
  <2> QED BY <1>2, <2>1, <2>2, CommandsKeepIInv
<1> QED BY <1>3, <1>4, <1>5, <1>6

-----------------------------------------------------------------------------
LEMMA NextIInv ==
  ASSUME IInv, [Next]_vars
  PROVE  IInv'
<1> USE DEF walking, time
<1>1. CASE step_callback \/ publish_cmd \/ scan_callback \/ control_loop
  BY <1>1, CommanderIInv
<1>2. CASE cmd_vel_callback
  <2>1. /\ cmd_vel # <<>> /\ cmd_vel \in Seq(AllowedVelocity) /\ Len(cmd_vel) <= Depth
        /\ cmd_vel \in Seq(Velocity(Scans \union {NoScan}))
    BY <1>2 DEF cmd_vel_callback, IInv, TypeOK, CommandsAreAllowed
  <2>2. /\ Head(cmd_vel) \in AllowedVelocity
        /\ Tail(cmd_vel) \in Seq(AllowedVelocity) /\ Len(Tail(cmd_vel)) <= Depth
        /\ Tail(cmd_vel) \in Seq(Velocity(Scans \union {NoScan}))
    BY <2>1, BoundsAssumption
  <2>3. /\ v' = Head(cmd_vel).linear /\ omega' = Head(cmd_vel).angular
        /\ heeded' = Head(cmd_vel).scan /\ cmd_vel' = Tail(cmd_vel)
        /\ UNCHANGED <<team, walking, latest_scan, last_time, theta_real, theta_est,
                       left_wheel, right_wheel, odom, time, smoothing>>
    BY <1>2 DEF cmd_vel_callback
  <2>4. v' \in Int /\ omega' \in Turns /\ heeded' \in Scans \union {NoScan} /\ Allowed(heeded', v')
    BY <2>2, <2>3 DEF AllowedVelocity, Velocity
  <2>5. TypeOK'
    BY <2>2, <2>3, <2>4 DEF IInv, TypeOK, HeadingFollowsWheels, smoothing
  <2> QED BY <2>2, <2>3, <2>4, <2>5 DEF IInv, DrivesAsSeen, CommandsAreAllowed
<1>3. CASE update_callback
  <2> DEFINE dt == clock - last_time
             now == [linear |-> v, angular |-> omega, stamp |-> clock]
  <2>1. /\ UNCHANGED <<team, walking, latest_scan, cmd_vel, v, omega, heeded, time, smoothing>>
        /\ last_time' = clock
    BY <1>3 DEF update_callback
  <2>2. v \in Int /\ omega \in Turns /\ dt \in Int /\ now \in Odometry /\ clock \in 0 .. MaxTime
    BY BoundsAssumption, TurnsAreInt DEF IInv, TypeOK, Odometry
  <2>3. odom' \in Seq(Odometry) /\ Len(odom') <= Depth
    <3>1. odom \in Seq(Odometry) /\ Len(odom) <= Depth
      BY DEF IInv, TypeOK
    <3>2. Queued(odom, now) \in Seq(Odometry) /\ Len(Queued(odom, now)) <= Depth
      BY <2>2, <3>1, QueuedIsQueue
    <3>3. odom' = odom \/ odom' = Queued(odom, now)
      BY <1>3 DEF update_callback, publish_odom
    <3> QED BY <3>1, <3>2, <3>3
  <2>4. /\ HeadingFollowsWheels'
        /\ {theta_real', theta_est', left_wheel', right_wheel'} \subseteq Int
    <3>1. HeadingFollowsWheels /\ {theta_real, theta_est, left_wheel, right_wheel} \subseteq Int
      BY DEF IInv, TypeOK
    <3>2. CASE dt <= 0
      <4>1. UNCHANGED <<theta_real, theta_est, left_wheel, right_wheel>>
        BY <1>3, <3>2 DEF update_callback
      <4> QED BY <3>1, <4>1 DEF HeadingFollowsWheels
    <3>3. CASE ~(dt <= 0)
      <4>1. /\ theta_real' = theta_real + TurnRate(wheel_separation_real) * dt
            /\ theta_est' = theta_est + TurnRate(wheel_separation_est) * dt
            /\ left_wheel' = left_wheel + v_left * dt
            /\ right_wheel' = right_wheel + v_right * dt
        BY <1>3, <3>3 DEF update_callback
      <4> DEFINE real == TurnRate(wheel_separation_real) * dt
                 est  == TurnRate(wheel_separation_est) * dt
                 l    == v_left * dt
                 r    == v_right * dt
      <4> HIDE DEF dt
      <4>2. real \in Int /\ est \in Int /\ l \in Int /\ r \in Int
        BY <2>2, TurnsAgree
      <4>3. r - l = wheel_separation_est * est /\ r - l = wheel_separation_real * real
        <5>1. (v_right - v_left) * dt = r - l
          BY <2>2, TurnsAgree
        <5> QED BY <2>2, <5>1, TurnsAgree
      <4> HIDE DEF real, est, l, r
      <4>4. wheel_separation_est \in Nat /\ wheel_separation_real \in Nat
        BY WheelsAssumption
      <4>5. /\ theta_real' = theta_real + real /\ theta_est' = theta_est + est
            /\ left_wheel' = left_wheel + l /\ right_wheel' = right_wheel + r
        BY <4>1 DEF real, est, l, r
      <4>6. /\ wheel_separation_est * (theta_est + est)
                 = wheel_separation_est * theta_est + wheel_separation_est * est
            /\ wheel_separation_real * (theta_real + real)
                 = wheel_separation_real * theta_real + wheel_separation_real * real
        BY <3>1, <4>2, <4>4
      <4> QED BY <3>1, <4>2, <4>3, <4>4, <4>5, <4>6 DEF HeadingFollowsWheels
    <3> QED BY <3>2, <3>3
  <2>5. TypeOK'
    BY <2>1, <2>2, <2>3, <2>4 DEF IInv, TypeOK, smoothing
  <2> QED BY <2>1, <2>5 DEF IInv, DrivesAsSeen, CommandsAreAllowed
<1>4. CASE odom_callback
  <2>1. /\ odom \in Seq(Odometry) /\ odom # <<>> /\ odom' = Tail(odom)
        /\ odomCallback(Head(odom)) /\ odom_history \in Seq(Odometry) /\ Len(odom) <= Depth
        /\ UNCHANGED <<team, walking, latest_scan, cmd_vel, driving, time>>
    BY <1>4 DEF odom_callback, IInv, TypeOK
  <2>2. Head(odom) \in Odometry /\ Tail(odom) \in Seq(Odometry) /\ Len(Tail(odom)) <= Depth
    BY <2>1, BoundsAssumption
  <2>3. PICK k \in 0 .. Len(odom_history) :
          odom_history' = Append(SubSeq(odom_history, k + 1, Len(odom_history)), Head(odom))
    BY <2>1 DEF odomCallback
  <2>4. odom_history' \in Seq(Odometry)
    BY <2>1, <2>2, <2>3
  <2>5. TypeOK'
    BY <2>1, <2>2, <2>4 DEF IInv, TypeOK, HeadingFollowsWheels, driving
  <2> QED BY <2>1, <2>5 DEF IInv, DrivesAsSeen, CommandsAreAllowed, driving
<1>5. CASE tick \/ set_back
  <2>1. /\ clock' \in 0 .. MaxTime /\ set_backs' \in 0 .. MaxSetBacks
        /\ UNCHANGED <<team, walking, latest_scan, cmd_vel, driving, odom, smoothing>>
    <3>1. clock \in 0 .. MaxTime /\ set_backs \in 0 .. MaxSetBacks /\ MaxTime \in Nat /\ MaxSetBacks \in Nat
      BY BoundsAssumption DEF IInv, TypeOK
    <3>2. CASE tick
      BY <3>1, <3>2 DEF tick
    <3>3. CASE set_back
      BY <3>1, <3>3 DEF set_back
    <3> QED BY <1>5, <3>2, <3>3
  <2> QED BY <2>1 DEF IInv, TypeOK, HeadingFollowsWheels, DrivesAsSeen, CommandsAreAllowed,
                      driving, smoothing
<1>6. CASE UNCHANGED vars
  BY <1>6 DEF vars, IInv, TypeOK, HeadingFollowsWheels, DrivesAsSeen, CommandsAreAllowed,
              driving, smoothing
<1> QED BY <1>1, <1>2, <1>3, <1>4, <1>5, <1>6 DEF Next

-----------------------------------------------------------------------------
(* The sum of velocities *)

Velocities == [linear : Int, angular : Int]

Zero == [linear |-> 0, angular |-> 0]

(* f has the sums of the first messages.                                   *)
Sums(f, msgs) == f[0] = Zero /\ \A i \in 1 .. Len(msgs) : f[i] = Plus(f[i - 1], msgs[i])

LEMMA PlusIs ==
  ASSUME NEW a \in Velocities, NEW b \in Velocities \cup Odometry
  PROVE  /\ Plus(a, b) \in Velocities
         /\ Plus(a, b).linear = a.linear + b.linear
         /\ Plus(a, b).angular = a.angular + b.angular
<1>1. a.linear \in Int /\ a.angular \in Int /\ b.linear \in Int /\ b.angular \in Int
  BY DEF Velocities, Odometry
<1> QED BY <1>1 DEF Plus, Velocities

LEMMA SameSum ==
  ASSUME NEW a \in Velocities, NEW b \in Velocities, a.linear = b.linear, a.angular = b.angular
  PROVE  a = b
BY DEF Velocities

LEMMA TotalIs ==
  ASSUME NEW msgs \in Seq(Odometry)
  PROVE  \E f \in [0 .. Len(msgs) -> Velocities] : Sums(f, msgs) /\ Total(msgs) = f[Len(msgs)]
<1> DEFINE n == Len(msgs)
           Step(f) == [i \in 0 .. n |-> IF i = 0 THEN Zero ELSE Plus(f[i - 1], msgs[i])]
           first == CHOOSE f : f = Step(f)
           next == [e \in (1 .. n) \X Velocities |-> Plus(e[2], msgs[e[1]])]
<1>1. n \in Nat /\ Zero \in Velocities /\ \A i \in 1 .. n : msgs[i] \in Odometry
  BY DEF Zero, Velocities
<1>2. Total(msgs) = first[n]
  BY DEF Total, Zero
<1>3. next \in [(1 .. n) \X Velocities -> Velocities]
  <2>1. \A e \in (1 .. n) \X Velocities : Plus(e[2], msgs[e[1]]) \in Velocities
    BY <1>1, PlusIs
  <2> QED BY <2>1
<1>4. PICK f \in [0 .. n -> Velocities] : Solves(f, n, Zero, next)
  <2> HIDE DEF next, n
  <2> QED BY <1>1, <1>3, Recursion
<1>5. Sums(f, msgs)
  <2>1. ASSUME NEW i \in 1 .. n PROVE f[i] = Plus(f[i - 1], msgs[i])
    <3>1. i - 1 \in 0 .. n
      BY <1>1
    <3>2. f[i - 1] \in Velocities
      BY <3>1
    <3>3. next[<<i, f[i - 1]>>] = Plus(f[i - 1], msgs[i])
      BY <3>2
    <3> HIDE DEF next
    <3> QED BY <1>4, <3>3 DEF Solves
  <2> QED BY <1>4, <2>1 DEF Sums, Solves
<1>6. f = Step(f)
  <2>1. ASSUME NEW i \in 0 .. n PROVE f[i] = Step(f)[i]
    <3>1. i # 0 => i \in 1 .. n
      BY <1>1
    <3> QED BY <1>5, <3>1 DEF Sums
  <2>2. f = [i \in 0 .. n |-> f[i]]
    OBVIOUS
  <2>3. Step(f) = [i \in 0 .. n |-> Step(f)[i]]
    OBVIOUS
  <2> HIDE DEF Step
  <2> QED BY <2>1, <2>2, <2>3
<1>7. first = Step(first)
  <2> HIDE DEF Step
  <2> QED BY <1>6
<1> HIDE DEF first
<1> DEFINE Good == {i \in Nat : i <= n => first[i] = f[i]}
<1>8. 0 \in Good
  <2>1. first[0] = Step(first)[0]
    BY <1>7
  <2>2. Step(first)[0] = Zero
    BY <1>1
  <2> QED BY <1>5, <2>1, <2>2 DEF Sums
<1>9. ASSUME NEW k \in Good PROVE k + 1 \in Good
  <2> SUFFICES ASSUME k + 1 <= n PROVE first[k + 1] = f[k + 1]
    OBVIOUS
  <2>1. k \in Nat /\ k <= n /\ k + 1 \in 1 .. n /\ k + 1 \in 0 .. n /\ (k + 1) - 1 = k /\ k + 1 # 0
    BY <1>1
  <2>2. first[k] = f[k]
    BY <2>1
  <2>3. first[k + 1] = Step(first)[k + 1]
    BY <1>7
  <2>4. Step(first)[k + 1] = Plus(first[k], msgs[k + 1])
    BY <2>1
  <2>5. f[k + 1] = Plus(f[k], msgs[k + 1])
    BY <1>5, <2>1 DEF Sums
  <2> QED BY <2>2, <2>3, <2>4, <2>5
<1>10. Good = Nat
  <2> HIDE DEF Good
  <2>1. Good \in SUBSET Nat
    BY DEF Good
  <2> QED BY <1>8, <1>9, <2>1, Induction
<1>11. first[n] = f[n]
  BY <1>1, <1>10
<1> QED BY <1>2, <1>5, <1>11

(* The sum of a sequence continues with that of what follows.              *)
Associate(x, y, z) == (x + y) + z = x + (y + z)

LEMMA Associates ==
  ASSUME NEW x \in Int, NEW y \in Int, NEW z \in Int
  PROVE  Associate(x, y, z)
BY DEF Associate

Continues(f, g, k, m) == f[k + m] = Plus(f[k], g[m])

LEMMA SumsContinue ==
  ASSUME NEW s \in Seq(Odometry), NEW t \in Seq(Odometry), NEW k \in Nat, NEW m \in Nat,
         m <= Len(t), k + m <= Len(s), \A i \in 1 .. m : t[i] = s[k + i],
         NEW f \in [0 .. Len(s) -> Velocities], Sums(f, s),
         NEW g \in [0 .. Len(t) -> Velocities], Sums(g, t)
  PROVE  Continues(f, g, k, m)
<1> DEFINE Good == {i \in Nat : i <= m => f[k + i] = Plus(f[k], g[i])}
<1>1. Len(s) \in Nat /\ Len(t) \in Nat /\ f[k] \in Velocities /\ \A i \in 1 .. Len(t) : t[i] \in Odometry
  OBVIOUS
<1>2. 0 \in Good
  <2>1. g[0] = Zero /\ Zero \in Velocities /\ Zero.linear = 0 /\ Zero.angular = 0
    BY DEF Sums, Zero, Velocities
  <2>2. /\ Plus(f[k], Zero) \in Velocities
        /\ Plus(f[k], Zero).linear = f[k].linear + 0
        /\ Plus(f[k], Zero).angular = f[k].angular + 0
    BY <1>1, <2>1, PlusIs
  <2>3. f[k].linear \in Int /\ f[k].angular \in Int
    BY <1>1 DEF Velocities
  <2>4. f[k] = Plus(f[k], Zero)
    BY <1>1, <2>2, <2>3, SameSum
  <2>5. k + 0 = k
    OBVIOUS
  <2> QED BY <2>1, <2>4, <2>5
<1>3. ASSUME NEW i \in Good PROVE i + 1 \in Good
  <2> SUFFICES ASSUME i + 1 <= m PROVE f[k + (i + 1)] = Plus(f[k], g[i + 1])
    OBVIOUS
  <2>1. /\ i \in Nat /\ i <= m /\ i + 1 \in 1 .. m /\ i + 1 \in 1 .. Len(t) /\ (i + 1) - 1 = i
        /\ k + (i + 1) \in 1 .. Len(s) /\ (k + (i + 1)) - 1 = k + i /\ i \in 0 .. Len(t)
    BY <1>1
  <2>2. f[k + i] = Plus(f[k], g[i])
    BY <2>1
  <2>3. g[i + 1] = Plus(g[i], t[i + 1])
    BY <2>1 DEF Sums
  <2>4. f[k + (i + 1)] = Plus(f[k + i], t[i + 1])
    BY <2>1 DEF Sums
  <2> DEFINE a == f[k]  b == g[i]  c == t[i + 1]
  <2>5. a \in Velocities /\ b \in Velocities /\ c \in Odometry
    BY <1>1, <2>1
  <2> HIDE DEF a, b, c
  <2>6. Plus(Plus(a, b), c) = Plus(a, Plus(b, c))
    <3>1. Plus(a, b) \in Velocities /\ Plus(b, c) \in Velocities
      BY <2>5, PlusIs
    <3>2. Plus(Plus(a, b), c) \in Velocities /\ Plus(a, Plus(b, c)) \in Velocities
      BY <2>5, <3>1, PlusIs
    <3>3. /\ a.linear \in Int /\ a.angular \in Int /\ b.linear \in Int /\ b.angular \in Int
          /\ c.linear \in Int /\ c.angular \in Int
      BY <2>5 DEF Velocities, Odometry
    <3>4. /\ Plus(a, b).linear = a.linear + b.linear /\ Plus(a, b).angular = a.angular + b.angular
          /\ Plus(b, c).linear = b.linear + c.linear /\ Plus(b, c).angular = b.angular + c.angular
      BY <2>5, PlusIs
    <3>5. /\ Plus(Plus(a, b), c).linear = Plus(a, b).linear + c.linear
          /\ Plus(Plus(a, b), c).angular = Plus(a, b).angular + c.angular
          /\ Plus(a, Plus(b, c)).linear = a.linear + Plus(b, c).linear
          /\ Plus(a, Plus(b, c)).angular = a.angular + Plus(b, c).angular
      BY <2>5, <3>1, PlusIs
    <3>6. /\ Plus(Plus(a, b), c).linear = (a.linear + b.linear) + c.linear
          /\ Plus(Plus(a, b), c).angular = (a.angular + b.angular) + c.angular
          /\ Plus(a, Plus(b, c)).linear = a.linear + (b.linear + c.linear)
          /\ Plus(a, Plus(b, c)).angular = a.angular + (b.angular + c.angular)
      BY <3>4, <3>5, Zenon
    <3>7. /\ (a.linear + b.linear) + c.linear = a.linear + (b.linear + c.linear)
          /\ (a.angular + b.angular) + c.angular = a.angular + (b.angular + c.angular)
      <4>1. Associate(a.linear, b.linear, c.linear) /\ Associate(a.angular, b.angular, c.angular)
        BY <3>3, Associates
      <4> QED BY <4>1, Zenon DEF Associate
    <3>8. /\ Plus(Plus(a, b), c).linear = Plus(a, Plus(b, c)).linear
          /\ Plus(Plus(a, b), c).angular = Plus(a, Plus(b, c)).angular
      BY <3>6, <3>7, Zenon
    <3> QED BY <3>2, <3>8, SameSum
  <2> QED BY <2>2, <2>3, <2>4, <2>6 DEF a, b, c
<1>4. Good = Nat
  <2> HIDE DEF Good
  <2>1. Good \in SUBSET Nat
    BY DEF Good
  <2> QED BY <1>2, <1>3, <2>1, Induction
<1>5. m \in Good /\ m <= m
  BY <1>4
<1> QED BY <1>5 DEF Continues

(* The messages kept, and the new one after them.                          *)
LEMMA KeptIs ==
  ASSUME NEW msgs \in Seq(Odometry), NEW k \in 0 .. Len(msgs), NEW msg \in Odometry
  PROVE  LET kept == Append(SubSeq(msgs, k + 1, Len(msgs)), msg)
         IN  /\ kept \in Seq(Odometry) /\ Len(kept) = (Len(msgs) - k) + 1
             /\ \A i \in 1 .. Len(msgs) - k : kept[i] = msgs[k + i]
             /\ kept[(Len(msgs) - k) + 1] = msg
<1> DEFINE rest == SubSeq(msgs, k + 1, Len(msgs))
<1>1. /\ rest \in Seq(Odometry) /\ Len(rest) = Len(msgs) - k /\ Len(rest) \in Nat
      /\ \A i \in 1 .. Len(msgs) - k : rest[i] = msgs[k + i]
  OBVIOUS
<1> HIDE DEF rest
<1>2. /\ Append(rest, msg) \in Seq(Odometry) /\ Len(Append(rest, msg)) = Len(rest) + 1
      /\ \A i \in 1 .. Len(rest) : Append(rest, msg)[i] = rest[i]
      /\ Append(rest, msg)[Len(rest) + 1] = msg
  BY <1>1
<1>3. /\ Append(rest, msg) \in Seq(Odometry) /\ Len(Append(rest, msg)) = (Len(msgs) - k) + 1
      /\ \A i \in 1 .. Len(msgs) - k : Append(rest, msg)[i] = msgs[k + i]
      /\ Append(rest, msg)[(Len(msgs) - k) + 1] = msg
  BY <1>1, <1>2
<1> QED BY <1>3 DEF rest

(* Subtracting what was dropped leaves the sum of what is kept.            *)
LEMMA TotalOfKept ==
  ASSUME NEW msgs \in Seq(Odometry), NEW k \in 0 .. Len(msgs), NEW msg \in Odometry
  PROVE  /\ Total(Append(SubSeq(msgs, k + 1, Len(msgs)), msg))
              = Plus(Minus(Total(msgs), Total(SubSeq(msgs, 1, k))), msg)
         /\ Total(msgs) \in Velocities
<1> DEFINE n == Len(msgs)
           gone == SubSeq(msgs, 1, k)
           rest == SubSeq(msgs, k + 1, n)
           kept == Append(rest, msg)
<1>1. /\ n \in Nat /\ k \in Nat /\ n - k \in Nat
      /\ gone \in Seq(Odometry) /\ Len(gone) = k
      /\ rest \in Seq(Odometry) /\ Len(rest) = n - k
      /\ kept \in Seq(Odometry) /\ Len(kept) = (n - k) + 1
      /\ \A i \in 1 .. k : gone[i] = msgs[0 + i]
      /\ \A i \in 1 .. n - k : rest[i] = msgs[k + i]
      /\ \A i \in 1 .. n - k : rest[i] = kept[0 + i]
      /\ kept[(n - k) + 1] = msg
  <2>1. /\ n \in Nat /\ k \in Nat /\ n - k \in Nat
        /\ gone \in Seq(Odometry) /\ Len(gone) = k /\ \A i \in 1 .. k : gone[i] = msgs[0 + i]
    OBVIOUS
  <2>2. /\ rest \in Seq(Odometry) /\ Len(rest) = n - k
        /\ \A i \in 1 .. n - k : rest[i] = msgs[k + i]
    OBVIOUS
  <2>3. /\ kept \in Seq(Odometry) /\ Len(kept) = (n - k) + 1
        /\ \A i \in 1 .. n - k : kept[i] = msgs[k + i]
        /\ kept[(n - k) + 1] = msg
    BY KeptIs
  <2> HIDE DEF n, gone, rest, kept
  <2>4. ASSUME NEW i \in 1 .. n - k PROVE rest[i] = kept[0 + i]
    <3>1. rest[i] = msgs[k + i] /\ kept[i] = msgs[k + i]
      BY <2>2, <2>3
    <3>2. i \in Int /\ 0 + i = i
      BY <2>1
    <3> QED BY <3>1, <3>2
  <2> QED BY <2>1, <2>2, <2>3, <2>4
<1> HIDE DEF n, gone, rest, kept
<1>2. PICK f \in [0 .. Len(msgs) -> Velocities] : Sums(f, msgs) /\ Total(msgs) = f[Len(msgs)]
  BY TotalIs
<1>3. PICK g \in [0 .. Len(gone) -> Velocities] : Sums(g, gone) /\ Total(gone) = g[Len(gone)]
  BY <1>1, TotalIs
<1>4. PICK h \in [0 .. Len(rest) -> Velocities] : Sums(h, rest) /\ Total(rest) = h[Len(rest)]
  BY <1>1, TotalIs
<1>5. PICK j \in [0 .. Len(kept) -> Velocities] : Sums(j, kept) /\ Total(kept) = j[Len(kept)]
  BY <1>1, TotalIs
<1> DEFINE r == n - k
<1>6. /\ r \in Nat /\ k + r = n /\ 0 + k = k /\ 0 + r = r /\ k <= n
      /\ r = Len(rest) /\ r + 1 = Len(kept)
      /\ \A i \in 1 .. r : rest[i] = msgs[k + i]
      /\ \A i \in 1 .. r : rest[i] = kept[0 + i]
      /\ r <= Len(rest) /\ k + r <= Len(msgs) /\ 0 + r <= Len(kept)
      /\ k <= Len(gone) /\ 0 + k <= Len(msgs) /\ 0 \in Nat
      /\ kept[r + 1] = msg /\ n = Len(msgs)
  BY <1>1 DEF n
<1> HIDE DEF r
<1>7. f[0 + k] = Plus(f[0], g[k])
  <2>1. /\ msgs \in Seq(Odometry) /\ gone \in Seq(Odometry) /\ k \in Nat /\ 0 \in Nat
        /\ k <= Len(gone) /\ 0 + k <= Len(msgs) /\ \A i \in 1 .. k : gone[i] = msgs[0 + i]
    BY <1>1, <1>6
  <2>2. Continues(f, g, 0, k)
    BY <2>1, <1>2, <1>3, SumsContinue
  <2> QED BY <2>2 DEF Continues
<1>8. f[k + r] = Plus(f[k], h[r])
  <2>1. /\ msgs \in Seq(Odometry) /\ rest \in Seq(Odometry) /\ k \in Nat /\ r \in Nat
        /\ r <= Len(rest) /\ k + r <= Len(msgs) /\ \A i \in 1 .. r : rest[i] = msgs[k + i]
    BY <1>1, <1>6
  <2>2. Continues(f, h, k, r)
    BY <2>1, <1>2, <1>4, SumsContinue
  <2> QED BY <2>2 DEF Continues
<1>9. j[0 + r] = Plus(j[0], h[r])
  <2>1. /\ kept \in Seq(Odometry) /\ rest \in Seq(Odometry) /\ 0 \in Nat /\ r \in Nat
        /\ r <= Len(rest) /\ 0 + r <= Len(kept) /\ \A i \in 1 .. r : rest[i] = kept[0 + i]
    BY <1>1, <1>6
  <2>2. Continues(j, h, 0, r)
    BY <2>1, <1>4, <1>5, SumsContinue
  <2> QED BY <2>2 DEF Continues
<1>10. j[r + 1] = Plus(j[r], msg)
  <2>1. r + 1 \in 1 .. Len(kept) /\ (r + 1) - 1 = r
    BY <1>1, <1>6
  <2> QED BY <1>5, <1>6, <2>1 DEF Sums
<1>11. f[0] = Zero /\ j[0] = Zero
  BY <1>2, <1>5 DEF Sums
<1> DEFINE a == f[k]  b == g[k]  c == h[r]  d == j[r]  t == f[n]
<1>12. a \in Velocities /\ b \in Velocities /\ c \in Velocities /\ d \in Velocities /\ t \in Velocities
  <2>1. /\ k \in 0 .. Len(msgs) /\ n \in 0 .. Len(msgs) /\ k \in 0 .. Len(gone)
        /\ r \in 0 .. Len(rest) /\ r \in 0 .. Len(kept)
    BY <1>1, <1>6
  <2> QED BY <2>1
<1>13. a = Plus(Zero, b) /\ t = Plus(a, c) /\ d = Plus(Zero, c)
  BY <1>6, <1>7, <1>8, <1>9, <1>11
<1>14. Total(msgs) = t /\ Total(gone) = b /\ Total(kept) = Plus(d, msg)
  BY <1>1, <1>2, <1>3, <1>5, <1>6, <1>10
<1> HIDE DEF a, b, c, d, t
<1>15. Zero \in Velocities /\ Zero.linear = 0 /\ Zero.angular = 0
  BY DEF Zero, Velocities
<1>16. d = Minus(t, b)
  <2>1. /\ a.linear \in Int /\ a.angular \in Int /\ b.linear \in Int /\ b.angular \in Int
        /\ c.linear \in Int /\ c.angular \in Int
    BY <1>12 DEF Velocities
  <2>2. /\ a.linear = 0 + b.linear /\ a.angular = 0 + b.angular
        /\ t.linear = a.linear + c.linear /\ t.angular = a.angular + c.angular
        /\ d.linear = 0 + c.linear /\ d.angular = 0 + c.angular
    BY <1>12, <1>13, <1>15, PlusIs
  <2>3. /\ Minus(t, b) \in Velocities
        /\ Minus(t, b).linear = t.linear - b.linear /\ Minus(t, b).angular = t.angular - b.angular
    BY <2>1, <2>2 DEF Minus, Velocities
  <2>4. d.linear = Minus(t, b).linear /\ d.angular = Minus(t, b).angular
    BY <2>1, <2>2, <2>3
  <2> QED BY <1>12, <2>3, <2>4, SameSum
<1> QED BY <1>12, <1>14, <1>16 DEF n, gone, rest, kept

-----------------------------------------------------------------------------
(* The smoother.  Orderly is what StampsInOrder says of a history and a    *)
(* queue whose messages are no younger than last.                          *)
Orderly(hist, queue, last) ==
  /\ \A i, j \in 1 .. Len(hist) : i <= j => hist[i].stamp <= hist[j].stamp
  /\ \A i, j \in 1 .. Len(queue) : i <= j => queue[i].stamp <= queue[j].stamp
  /\ \A i \in 1 .. Len(hist) :
       /\ \A j \in 1 .. Len(queue) : hist[i].stamp <= queue[j].stamp
       /\ hist[i].stamp <= last
  /\ \A j \in 1 .. Len(queue) : queue[j].stamp <= last

LEMMA StampsAre ==
  ASSUME NEW msgs \in Seq(Odometry)
  PROVE  Len(msgs) \in Nat /\ \A i \in 1 .. Len(msgs) : msgs[i] \in Odometry /\ msgs[i].stamp \in Nat
<1>1. Len(msgs) \in Nat /\ \A i \in 1 .. Len(msgs) : msgs[i] \in Odometry
  OBVIOUS
<1> QED BY <1>1 DEF Odometry

LEMMA OrderlyLater ==
  ASSUME NEW hist \in Seq(Odometry), NEW queue \in Seq(Odometry), NEW last \in Int,
         NEW later \in Int, last <= later, Orderly(hist, queue, last)
  PROVE  Orderly(hist, queue, later)
<1>1. ASSUME NEW i \in 1 .. Len(hist) PROVE hist[i].stamp <= later
  BY StampsAre DEF Orderly
<1>2. ASSUME NEW j \in 1 .. Len(queue) PROVE queue[j].stamp <= later
  BY StampsAre DEF Orderly
<1> QED BY <1>1, <1>2 DEF Orderly

(* The messages that a queue holds after a new one.                        *)
LEMMA QueuedIs ==
  ASSUME NEW queue \in Seq(Odometry), Len(queue) <= Depth, NEW now \in Odometry
  PROVE  \E d \in {0, 1} :
           LET longer == Queued(queue, now)
           IN  /\ longer \in Seq(Odometry) /\ d <= Len(queue)
               /\ Len(longer) = (Len(queue) - d) + 1
               /\ \A i \in 1 .. Len(queue) - d : longer[i] = queue[i + d]
               /\ longer[(Len(queue) - d) + 1] = now
<1> USE BoundsAssumption
<1>1. CASE Len(queue) < Depth
  <2>1. Queued(queue, now) = Append(queue, now)
    BY <1>1 DEF Queued
  <2>2. /\ Append(queue, now) \in Seq(Odometry) /\ Len(Append(queue, now)) = (Len(queue) - 0) + 1
        /\ \A i \in 1 .. Len(queue) - 0 : Append(queue, now)[i] = queue[i + 0]
        /\ Append(queue, now)[(Len(queue) - 0) + 1] = now
        /\ 0 <= Len(queue)
    OBVIOUS
  <2> QED BY <2>1, <2>2
<1>2. CASE ~(Len(queue) < Depth)
  <2>1. Queued(queue, now) = Append(Tail(queue), now)
    BY <1>2 DEF Queued
  <2>2. queue # <<>> /\ Len(queue) >= 1
    BY <1>2
  <2> DEFINE rest == Tail(queue)
  <2>3. /\ rest \in Seq(Odometry) /\ Len(rest) = Len(queue) - 1 /\ Len(rest) \in Nat
        /\ \A i \in 1 .. Len(queue) - 1 : rest[i] = queue[i + 1]
    BY <2>2
  <2> HIDE DEF rest
  <2>4. /\ Append(rest, now) \in Seq(Odometry) /\ Len(Append(rest, now)) = Len(rest) + 1
        /\ \A i \in 1 .. Len(rest) : Append(rest, now)[i] = rest[i]
        /\ Append(rest, now)[Len(rest) + 1] = now
    BY <2>3
  <2>5. Queued(queue, now) = Append(rest, now)
    BY <2>1 DEF rest
  <2> QED BY <2>2, <2>3, <2>4, <2>5
<1> QED BY <1>1, <1>2

LEMMA OrderlyQueued ==
  ASSUME NEW hist \in Seq(Odometry), NEW queue \in Seq(Odometry), NEW last \in Int,
         NEW now \in Odometry, last <= now.stamp, Len(queue) <= Depth, Orderly(hist, queue, last)
  PROVE  Orderly(hist, Queued(queue, now), now.stamp)
<1> DEFINE longer == Queued(queue, now)
           s == now.stamp
<1>1. PICK d \in {0, 1} :
        /\ longer \in Seq(Odometry) /\ d <= Len(queue)
        /\ Len(longer) = (Len(queue) - d) + 1
        /\ \A i \in 1 .. Len(queue) - d : longer[i] = queue[i + d]
        /\ longer[(Len(queue) - d) + 1] = now
  BY QueuedIs
<1>2. s \in Nat /\ last <= s
  BY DEF Odometry
<1>3. longer[Len(longer)].stamp = s
  BY <1>1
<1> HIDE DEF longer, s
<1>4. Orderly(hist, queue, s)
  BY <1>2, OrderlyLater
<1>5. Len(longer) \in Nat /\ Len(queue) \in Nat /\ d \in Int
  BY <1>1
<1>6. ASSUME NEW i \in 1 .. Len(longer)
      PROVE  \/ i = Len(longer)
             \/ i + d \in 1 .. Len(queue) /\ longer[i] = queue[i + d]
  BY <1>1, <1>5
<1>7. ASSUME NEW i \in 1 .. Len(longer) PROVE longer[i].stamp <= s
  BY <1>2, <1>3, <1>4, <1>6 DEF Orderly
<1>8. ASSUME NEW i \in 1 .. Len(hist), NEW j \in 1 .. Len(longer)
      PROVE  hist[i].stamp <= longer[j].stamp
  BY <1>3, <1>4, <1>6 DEF Orderly
<1>9. ASSUME NEW i \in 1 .. Len(longer), NEW j \in 1 .. Len(longer), i <= j
      PROVE  longer[i].stamp <= longer[j].stamp
  <2>1. CASE j = Len(longer)
    BY <1>3, <1>7, <2>1
  <2>2. CASE j # Len(longer)
    <3>1. i # Len(longer)
      BY <1>5, <1>9, <2>2
    <3>2. /\ i + d \in 1 .. Len(queue) /\ longer[i] = queue[i + d]
          /\ j + d \in 1 .. Len(queue) /\ longer[j] = queue[j + d]
      BY <1>6, <2>2, <3>1
    <3>3. i + d <= j + d
      BY <1>5, <1>9
    <3> QED BY <1>4, <3>2, <3>3 DEF Orderly
  <2> QED BY <2>1, <2>2
<1>10. Orderly(hist, longer, s)
  BY <1>4, <1>7, <1>8, <1>9 DEF Orderly
<1> QED BY <1>10 DEF longer, s

LEMMA OrderlyKept ==
  ASSUME NEW hist \in Seq(Odometry), NEW queue \in Seq(Odometry), queue # <<>>,
         NEW last \in Int, Orderly(hist, queue, last), NEW k \in 0 .. Len(hist)
  PROVE  Orderly(Append(SubSeq(hist, k + 1, Len(hist)), Head(queue)), Tail(queue), last)
<1> DEFINE kept == Append(SubSeq(hist, k + 1, Len(hist)), Head(queue))
           rest == Tail(queue)
           s    == queue[1].stamp
<1>1. /\ Len(queue) \in Nat /\ Len(queue) >= 1 /\ Head(queue) = queue[1]
      /\ queue[1] \in Odometry /\ 1 \in 1 .. Len(queue)
      /\ rest \in Seq(Odometry) /\ Len(rest) = Len(queue) - 1
      /\ \A j \in 1 .. Len(rest) : rest[j] = queue[j + 1] /\ j + 1 \in 1 .. Len(queue)
  OBVIOUS
<1>2. /\ kept \in Seq(Odometry) /\ Len(kept) = (Len(hist) - k) + 1
      /\ \A i \in 1 .. Len(hist) - k : kept[i] = hist[k + i]
      /\ kept[(Len(hist) - k) + 1] = queue[1]
  BY <1>1, KeptIs
<1> HIDE DEF kept, rest
<1>3. s \in Nat /\ s <= last /\ kept[Len(kept)].stamp = s
  BY <1>1, <1>2 DEF Odometry, Orderly
<1> HIDE DEF s
<1>4. Len(hist) \in Nat /\ Len(kept) \in Nat /\ k \in Nat /\ k <= Len(hist)
  BY <1>2
<1>5. ASSUME NEW i \in 1 .. Len(kept)
      PROVE  \/ i = Len(kept)
             \/ k + i \in 1 .. Len(hist) /\ kept[i] = hist[k + i]
  <2>1. \/ i = Len(kept)
        \/ i \in 1 .. Len(hist) - k /\ k + i \in 1 .. Len(hist)
    BY <1>2, <1>4
  <2>2. i \in 1 .. Len(hist) - k => kept[i] = hist[k + i]
    BY <1>2
  <2> QED BY <2>1, <2>2
<1>6. ASSUME NEW i \in 1 .. Len(kept) PROVE kept[i].stamp <= last
  BY <1>3, <1>5 DEF Orderly
<1>7. ASSUME NEW j \in 1 .. Len(rest) PROVE rest[j].stamp <= last /\ s <= rest[j].stamp
  <2>1. rest[j] = queue[j + 1] /\ j + 1 \in 1 .. Len(queue) /\ 1 <= j + 1
    BY <1>1
  <2> QED BY <1>1, <2>1 DEF Orderly, s
<1>8. ASSUME NEW i \in 1 .. Len(kept), NEW j \in 1 .. Len(rest)
      PROVE  kept[i].stamp <= rest[j].stamp
  <2>1. CASE i = Len(kept)
    BY <1>3, <1>7, <2>1
  <2>2. CASE k + i \in 1 .. Len(hist) /\ kept[i] = hist[k + i]
    BY <1>1, <2>2 DEF Orderly
  <2> QED BY <1>5, <2>1, <2>2
<1>9. ASSUME NEW i \in 1 .. Len(kept), NEW j \in 1 .. Len(kept), i <= j
      PROVE  kept[i].stamp <= kept[j].stamp
  <2>1. CASE i = Len(kept)
    <3>1. i = j
      BY <1>4, <1>9, <2>1
    <3> QED BY <1>3, <2>1, <3>1
  <2>2. CASE i # Len(kept) /\ j = Len(kept)
    <3>1. k + i \in 1 .. Len(hist) /\ kept[i] = hist[k + i]
      BY <1>5, <2>2
    <3>2. hist[k + i].stamp <= queue[1].stamp
      BY <1>1, <3>1 DEF Orderly
    <3> QED BY <1>3, <2>2, <3>1, <3>2 DEF s
  <2>3. CASE i # Len(kept) /\ j # Len(kept)
    <3>1. /\ k + i \in 1 .. Len(hist) /\ kept[i] = hist[k + i]
          /\ k + j \in 1 .. Len(hist) /\ kept[j] = hist[k + j]
      BY <1>5, <2>3
    <3>2. k + i <= k + j
      BY <1>4, <1>9
    <3> QED BY <3>1, <3>2 DEF Orderly
  <2> QED BY <2>1, <2>2, <2>3
<1>10. ASSUME NEW i \in 1 .. Len(rest), NEW j \in 1 .. Len(rest), i <= j
       PROVE  rest[i].stamp <= rest[j].stamp
  <2>1. i + 1 <= j + 1
    BY <1>1, <1>10
  <2> QED BY <1>1, <2>1 DEF Orderly
<1>11. Orderly(kept, rest, last)
  BY <1>6, <1>7, <1>8, <1>9, <1>10 DEF Orderly
<1> QED BY <1>11 DEF kept, rest

(* What is popped is out of the window, and what is not is in it, because  *)
(* the history is in order: the loop need not look beyond the front.       *)
LEMMA WindowKept ==
  ASSUME NEW hist \in Seq(Odometry), NEW queue \in Seq(Odometry), queue # <<>>,
         NEW last \in Int, Orderly(hist, queue, last), NEW k \in 0 .. Len(hist),
         \A i \in 1 .. k : TooOld(hist[i], Head(queue).stamp),
         k < Len(hist) => ~TooOld(hist[k + 1], Head(queue).stamp),
         NEW old \in SUBSET Nat, hist = <<>> => old = {},
         hist # <<>> => \A stamp \in old : hist[Len(hist)].stamp - stamp > Window
  PROVE  LET kept == Append(SubSeq(hist, k + 1, Len(hist)), Head(queue))
             gone == {m.stamp : m \in Range(SubSeq(hist, 1, k))}
         IN  /\ \A i \in 1 .. Len(kept) : Head(queue).stamp - kept[i].stamp <= Window
             /\ \A stamp \in old \union gone : Head(queue).stamp - stamp > Window
             /\ old \union gone \subseteq Nat
<1> DEFINE kept  == Append(SubSeq(hist, k + 1, Len(hist)), Head(queue))
           first == SubSeq(hist, 1, k)
           gone  == {m.stamp : m \in Range(first)}
           s     == Head(queue).stamp
<1>1. Head(queue) \in Odometry /\ Head(queue) = queue[1] /\ 1 \in 1 .. Len(queue) /\ Len(hist) \in Nat
  OBVIOUS
<1>2. /\ kept \in Seq(Odometry) /\ Len(kept) = (Len(hist) - k) + 1
      /\ \A i \in 1 .. Len(hist) - k : kept[i] = hist[k + i]
      /\ kept[(Len(hist) - k) + 1] = Head(queue)
  BY <1>1, KeptIs
<1>3. /\ first \in Seq(Odometry) /\ Len(first) = k /\ \A i \in 1 .. k : first[i] = hist[i]
  OBVIOUS
<1>4. s \in Nat /\ s = queue[1].stamp /\ Window \in Nat
  BY <1>1, WindowAssumption DEF Odometry
<1>5. \A i \in 1 .. k : s - hist[i].stamp > Window
  BY DEF TooOld
<1>6. k < Len(hist) => ~(s - hist[k + 1].stamp > Window)
  BY DEF TooOld
<1>7. kept[(Len(hist) - k) + 1].stamp = s
  BY <1>2
<1> HIDE DEF kept, first, s
<1>8. ASSUME NEW i \in 1 .. Len(kept) PROVE s - kept[i].stamp <= Window
  <2>1. CASE i = (Len(hist) - k) + 1
    BY <1>4, <1>7, <2>1
  <2>2. CASE i # (Len(hist) - k) + 1
    <3>1. /\ i \in 1 .. Len(hist) - k /\ k < Len(hist) /\ k + i \in 1 .. Len(hist)
          /\ k + 1 \in 1 .. Len(hist) /\ k + 1 <= k + i
      <4> DEFINE n == Len(hist)
      <4>1. n \in Nat /\ k \in Nat /\ k <= n /\ i \in 1 .. (n - k) + 1 /\ i # (n - k) + 1
        BY <1>1, <1>2, <2>2
      <4> HIDE DEF n
      <4>2. i \in Nat /\ 1 <= i /\ i <= n - k
        BY <4>1
      <4>3. k < n /\ k + i \in 1 .. n /\ k + 1 \in 1 .. n /\ k + 1 <= k + i /\ i \in 1 .. n - k
        BY <4>1, <4>2
      <4> QED BY <4>3 DEF n
    <3>2. hist[k + 1].stamp <= hist[k + i].stamp
      BY <3>1 DEF Orderly
    <3>3. hist[k + 1].stamp \in Nat /\ hist[k + i].stamp \in Nat
      BY <3>1, StampsAre
    <3>4. kept[i] = hist[k + i]
      BY <1>2, <3>1
    <3> DEFINE p == hist[k + 1].stamp
               q == hist[k + i].stamp
    <3>5. p \in Nat /\ q \in Nat /\ p <= q /\ ~(s - p > Window) /\ kept[i].stamp = q
      BY <1>6, <3>1, <3>2, <3>3, <3>4
    <3> HIDE DEF p, q
    <3>6. s - q <= Window
      BY <1>4, <3>5
    <3> QED BY <3>5, <3>6
  <2> QED BY <2>1, <2>2
<1>9. ASSUME NEW stamp \in gone PROVE stamp \in Nat /\ s - stamp > Window
  <2>1. PICK m \in Range(first) : stamp = m.stamp
    OBVIOUS
  <2>2. PICK i \in 1 .. k : m = first[i]
    BY <1>3 DEF Range
  <2>3. m = hist[i] /\ i \in 1 .. Len(hist)
    BY <1>1, <1>3, <2>2
  <2> QED BY <1>5, <2>1, <2>3, StampsAre
<1>10. ASSUME NEW stamp \in old PROVE stamp \in Nat /\ s - stamp > Window
  <2>1. hist # <<>> /\ stamp \in Nat
    OBVIOUS
  <2>2. Len(hist) \in 1 .. Len(hist)
    BY <1>1, <2>1
  <2>3. hist[Len(hist)].stamp - stamp > Window
    BY <2>1
  <2>4. hist[Len(hist)].stamp <= s /\ hist[Len(hist)].stamp \in Nat
    BY <1>1, <1>4, <2>2, StampsAre DEF Orderly
  <2> QED BY <1>4, <2>1, <2>3, <2>4
<1> HIDE DEF gone
<1>11. /\ \A i \in 1 .. Len(kept) : s - kept[i].stamp <= Window
       /\ \A stamp \in old \union gone : s - stamp > Window
       /\ old \union gone \subseteq Nat
  BY <1>8, <1>9, <1>10
<1> QED BY <1>11 DEF kept, gone, first, s

LEMMA InitSmootherInv ==
  Init => SmootherInv
<1> SUFFICES ASSUME Init PROVE SmootherInv
  OBVIOUS
<1>1. /\ odom_history = <<>> /\ odom = <<>> /\ dropped = {} /\ set_backs = 0 /\ clock = 0
      /\ last_time = 0 /\ odom_cumulate = [linear |-> 0, angular |-> 0]
  BY DEF Init, InitSmoother, InitController
<1>2. <<>> \in Seq(Odometry) /\ Len(<<>>) = 0 /\ 1 .. 0 = {}
  OBVIOUS
<1>3. Total(<<>>) = [linear |-> 0, angular |-> 0]
  <2>1. PICK f \in [0 .. Len(<<>>) -> Velocities] : Sums(f, <<>>) /\ Total(<<>>) = f[Len(<<>>)]
    BY <1>2, TotalIs
  <2>2. Total(<<>>) = f[0]
    BY <1>2, <2>1
  <2>3. f[0] = Zero
    BY <2>1 DEF Sums
  <2> QED BY <2>2, <2>3 DEF Zero
<1>4. StampsInOrder
  BY <1>1, <1>2 DEF StampsInOrder
<1>5. SmoothsTheWindow
  BY <1>1 DEF SmoothsTheWindow
<1>6. odom_cumulate = Total(odom_history) /\ dropped \subseteq Nat /\ (odom_history = <<>> => dropped = {})
  BY <1>1, <1>3
<1> QED BY <1>4, <1>5, <1>6 DEF SmootherInv

LEMMA OrderIs ==
  StampsInOrder <=>
    (set_backs = 0 => Orderly(odom_history, odom, last_time) /\ last_time <= clock)
BY DEF StampsInOrder, Orderly

(* A step that leaves the smoother alone: the clock goes on, or is set     *)
(* back, or odometry is queued.                                            *)
LEMMA SmoothingUnchanged ==
  ASSUME SmootherInv, UNCHANGED smoothing, set_backs' = 0 => set_backs = 0, StampsInOrder'
  PROVE  SmootherInv'
<1>1. UNCHANGED <<odom_history, odom_cumulate, vel_smooth, dropped>>
  BY DEF smoothing
<1>2. SmoothsTheWindow'
  BY <1>1 DEF SmootherInv, SmoothsTheWindow
<1> QED BY <1>1, <1>2 DEF SmootherInv

LEMMA OdometrySmoothed ==
  ASSUME IInv, SmootherInv, odom_callback
  PROVE  SmootherInv'
<1>1. /\ odom \in Seq(Odometry) /\ odom # <<>> /\ odom' = Tail(odom)
      /\ odomCallback(Head(odom)) /\ odom_history \in Seq(Odometry)
      /\ last_time' = last_time /\ clock' = clock /\ set_backs' = set_backs /\ last_time \in Int
      /\ Head(odom) \in Odometry
  BY DEF odom_callback, driving, time, IInv, TypeOK
<1> DEFINE msg     == Head(odom)
           gone(k) == SubSeq(odom_history, 1, k)
           kept(k) == Append(SubSeq(odom_history, k + 1, Len(odom_history)), msg)
           total(k) == Plus(Minus(odom_cumulate, Total(gone(k))), msg)
<1>2. PICK k \in 0 .. Len(odom_history) :
        /\ Pops(k, msg.stamp)
        /\ odom_history' = kept(k)
        /\ odom_cumulate' = total(k)
        /\ vel_smooth' = [linear |-> total(k).linear, angular |-> total(k).angular,
                          size |-> Len(kept(k)), stamp |-> msg.stamp]
        /\ dropped' = dropped \union {m.stamp : m \in Range(gone(k))}
  BY <1>1 DEF odomCallback
<1>3. Len(odom_history) \in Nat /\ k \in Nat
  BY <1>1
<1>4. total(k) = Total(kept(k))
  BY <1>1, TotalOfKept DEF SmootherInv
<1>5. /\ Len(kept(k)) \in Nat /\ Len(kept(k)) >= 1 /\ kept(k)[Len(kept(k))] = msg /\ kept(k) # <<>>
  <2>1. /\ kept(k) \in Seq(Odometry) /\ Len(kept(k)) = (Len(odom_history) - k) + 1
        /\ kept(k)[(Len(odom_history) - k) + 1] = msg
    BY <1>1, KeptIs
  <2> HIDE DEF kept
  <2> QED BY <1>3, <2>1
<1>6. ASSUME set_backs' = 0
      PROVE  /\ \A i \in 1 .. Len(kept(k)) : msg.stamp - kept(k)[i].stamp <= Window
             /\ \A stamp \in dropped' : msg.stamp - stamp > Window
             /\ Orderly(kept(k), odom', last_time') /\ last_time' <= clock'
  <2>1. Orderly(odom_history, odom, last_time) /\ last_time <= clock /\ set_backs = 0
    BY <1>1, <1>6, OrderIs DEF SmootherInv
  <2>2. /\ \A i \in 1 .. k : TooOld(odom_history[i], msg.stamp)
        /\ k < Len(odom_history) => ~TooOld(odom_history[k + 1], msg.stamp)
    BY <1>2 DEF Pops
  <2>3. /\ dropped \in SUBSET Nat /\ (odom_history = <<>> => dropped = {})
        /\ odom_history # <<>> =>
             \A stamp \in dropped : odom_history[Len(odom_history)].stamp - stamp > Window
    BY <2>1 DEF SmootherInv, SmoothsTheWindow
  <2>4. Orderly(kept(k), odom', last_time')
    BY <1>1, <2>1, OrderlyKept
  <2>5. /\ \A i \in 1 .. Len(kept(k)) : msg.stamp - kept(k)[i].stamp <= Window
        /\ \A stamp \in dropped \union {m.stamp : m \in Range(gone(k))} : msg.stamp - stamp > Window
    BY <1>1, <2>1, <2>2, <2>3, WindowKept
  <2> QED BY <1>1, <1>2, <2>1, <2>4, <2>5
<1>7. dropped' \subseteq Nat
  <2>1. \A i \in 1 .. Len(gone(k)) : gone(k)[i].stamp \in Nat
    <3>1. gone(k) \in Seq(Odometry)
      BY <1>1, <1>3
    <3> HIDE DEF gone
    <3> QED BY <3>1, StampsAre
  <2>2. gone(k) \in Seq(Odometry) /\ DOMAIN gone(k) = 1 .. Len(gone(k))
    BY <1>1, <1>3
  <2> HIDE DEF gone
  <2>3. \A m \in Range(gone(k)) : m.stamp \in Nat
    BY <2>1, <2>2 DEF Range
  <2> QED BY <1>2, <2>3 DEF SmootherInv
<1> HIDE DEF kept, gone, total, msg
<1>8. SmoothsTheWindow'
  <2>1. /\ odom_history'[Len(odom_history')] = msg
        /\ odom_cumulate' = Total(odom_history')
        /\ vel_smooth' = [linear |-> Total(odom_history').linear,
                          angular |-> Total(odom_history').angular,
                          size |-> Len(odom_history'), stamp |-> msg.stamp]
    BY <1>2, <1>4, <1>5
  <2>2. set_backs' = 0 =>
          /\ \A i \in 1 .. Len(odom_history') : msg.stamp - odom_history'[i].stamp <= Window
          /\ \A stamp \in dropped' : msg.stamp - stamp > Window
    BY <1>2, <1>6
  <2> QED BY <2>1, <2>2 DEF SmoothsTheWindow
<1>9. StampsInOrder'
  <2>1. set_backs' = 0 => Orderly(odom_history', odom', last_time') /\ last_time' <= clock'
    BY <1>2, <1>6
  <2> QED BY <2>1 DEF StampsInOrder, Orderly
<1>10. odom_cumulate' = Total(odom_history') /\ odom_history' # <<>>
  BY <1>2, <1>4, <1>5
<1> QED BY <1>7, <1>8, <1>9, <1>10 DEF SmootherInv

LEMMA NextSmootherInv ==
  ASSUME IInv, SmootherInv, [Next]_vars
  PROVE  SmootherInv'
<1> USE DEF driving, time
<1>1. CASE odom_callback
  BY <1>1, OdometrySmoothed
<1>2. CASE \/ step_callback \/ publish_cmd \/ scan_callback \/ control_loop
           \/ cmd_vel_callback \/ UNCHANGED vars
  <2>1. UNCHANGED <<odom, odom_history, last_time, set_backs, clock, smoothing>>
    BY <1>2 DEF step_callback, publish_cmd, scan_callback, control_loop, cmd_vel_callback,
                vars, smoothing
  <2>2. StampsInOrder'
    BY <2>1 DEF SmootherInv, StampsInOrder
  <2> QED BY <2>1, <2>2, SmoothingUnchanged
<1>3. CASE update_callback
  <2> DEFINE now == [linear |-> v, angular |-> omega, stamp |-> clock]
  <2>1. /\ UNCHANGED <<set_backs, clock, smoothing>> /\ odom_history' = odom_history
        /\ last_time' = clock
        /\ odom' = odom \/ odom' = Queued(odom, now)
    BY <1>3 DEF update_callback, publish_odom, smoothing
  <2>2. /\ odom \in Seq(Odometry) /\ odom_history \in Seq(Odometry) /\ last_time \in Int
        /\ clock \in Nat /\ clock \in Int /\ now \in Odometry /\ now.stamp = clock /\ Len(odom) <= Depth
    BY BoundsAssumption, TurnsAreInt DEF IInv, TypeOK, Odometry
  <2> HIDE DEF now
  <2>3. ASSUME set_backs' = 0 PROVE Orderly(odom_history, odom', clock)
    <3>1. Orderly(odom_history, odom, last_time) /\ last_time <= clock
      BY <2>1, <2>3, OrderIs DEF SmootherInv
    <3>2. Orderly(odom_history, odom, clock)
      BY <2>2, <3>1, OrderlyLater
    <3>3. Orderly(odom_history, Queued(odom, now), clock)
      BY <2>2, <3>1, OrderlyQueued
    <3> QED BY <2>1, <3>2, <3>3
  <2>4. StampsInOrder'
    <3>1. set_backs' = 0 => Orderly(odom_history', odom', last_time') /\ last_time' <= clock'
      BY <2>1, <2>2, <2>3
    <3> QED BY <3>1 DEF StampsInOrder, Orderly
  <2> QED BY <2>1, <2>4, SmoothingUnchanged
<1>4. CASE tick
  <2>1. UNCHANGED <<odom, odom_history, last_time, set_backs, smoothing>> /\ clock' = clock + 1
    BY <1>4 DEF tick, smoothing
  <2>2. last_time \in Int /\ clock \in Int
    BY BoundsAssumption DEF IInv, TypeOK
  <2>3. last_time <= clock => last_time' <= clock'
    BY <2>1, <2>2
  <2>4. StampsInOrder'
    BY <2>1, <2>3 DEF SmootherInv, StampsInOrder
  <2> QED BY <2>1, <2>4, SmoothingUnchanged
<1>5. CASE set_back
  <2>1. UNCHANGED smoothing /\ set_backs' = set_backs + 1 /\ set_backs \in Nat
    BY <1>5, BoundsAssumption DEF set_back, IInv, TypeOK
  <2>2. set_backs' # 0
    BY <2>1
  <2>3. StampsInOrder'
    BY <2>2 DEF StampsInOrder
  <2> QED BY <2>1, <2>2, <2>3, SmoothingUnchanged
<1> QED BY <1>1, <1>2, <1>3, <1>4, <1>5 DEF Next

-----------------------------------------------------------------------------
(* The types, that no queue outgrows its depth, and that both headings are *)
(* those of the wheels, for any separations and however the clock is set.  *)
THEOREM TypeCorrect == Spec => []TypeOK
<1>1. IInv => TypeOK
  BY DEF IInv
<1> QED BY InitIInv, NextIInv, <1>1, PTL DEF Spec

(* Whatever the scans, the sectors and the distances, the robot drives     *)
(* ahead no faster than the scan behind its command allows.                *)
THEOREM DrivesAlwaysAsSeen == Spec => []DrivesAsSeen
<1>1. IInv => DrivesAsSeen
  BY DEF IInv
<1> QED BY InitIInv, NextIInv, <1>1, PTL DEF Spec

(* The smoothed velocity is the mean of the messages of the last Window    *)
(* ticks, all of them and no other, however odometry is delayed and lost;  *)
(* after the clock was set back it is still the mean of those kept.        *)
THEOREM SmoothsAlways == Spec => []SmoothsTheWindow
<1>1. SmootherInv => SmoothsTheWindow
  BY DEF SmootherInv
<1>2. Init => IInv /\ SmootherInv
  BY InitIInv, InitSmootherInv
<1>3. IInv /\ SmootherInv /\ [Next]_vars => IInv' /\ SmootherInv'
  BY NextIInv, NextSmootherInv
<1> QED BY <1>1, <1>2, <1>3, PTL DEF Spec

=============================================================================
