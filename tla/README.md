# A verification project for ros2-docker-learning

The repository is a ROS 2 (Jazzy) workspace in a container.  The largest part
with logic of its own is `my_nav2`, a rework of the lower layers of Nav2: an
action server that works on one goal at a time and the base of managed nodes
(`my_nav2_util`), and a costmap with its layers, its update thread, its publisher
and its services (`my_nav2_costmap_2d`).  Beside it are example packages; the
specifications also model those in which several processes interact, the
Fibonacci action servers and clients and the nodes of the mobile robot.

Paths below are relative to `ros2_ws/src/`; `util` stands for
`my_nav2/my_nav2_util` and `costmap` for `my_nav2/my_nav2_costmap_2d`.

## 1. The system

### Parts that are modelled

**SimpleActionServer** (`util/include/my_nav2_util/simple_action_server.hpp`).
State: the handles `current_handle_` and `pending_handle_`, the flags
`server_active_`, `stop_execution_` and `preempt_requested_`, and the future of
the thread that runs `work()`.  Operations: the three callbacks that
`rclcpp_action` makes (`handle_goal`, `handle_accepted`, `handle_cancel`),
`activate()`, `deactivate()`, and what the user's execute callback may call.
Four parties meet: the executor thread, the worker thread, the owner of the
server, and the user's callback on the worker thread.  *Hard:* nearly all state
is guarded by `update_mutex_`, but the loop condition of `work()`,
`publish_feedback()` and `is_running()` are not under it; a goal is on its way
between `handle_goal` and `handle_accepted` with nothing held; `deactivate()`
waits and, when the callback is late, terminates goals from outside.
*Correct means:* no accepted goal is forgotten or held twice, goals end only by
legal transitions, the oldest goal is the one served, a deactivated server is
quiet, and deactivation, cancellation and preemption come to an end.

**Costmap2DROS** (`costmap/src/costmap_2d_ros.cpp`).  A lifecycle node with a
thread that updates the costmap periodically.  State: the lifecycle state, the
flags `stop_updates_`, `stopped_`, `initialized_`, `map_update_thread_shutdown_`,
the thread, and whether layers exist and are active.  Operations: the lifecycle
callbacks, `start`, `stop`, `pause`, `resume`, the parameter callback, and
`mapUpdateLoop`/`updateMap` on the other thread.  *Hard:* `start()` waits for a
flag that only the other thread sets, `on_deactivate()` joins that thread, and
updates already in flight go on after `stop()`.  *Correct means:* the thread is
joined before it is replaced, never runs without a costmap, begins no update
while the plugins are inactive, and neither start nor deactivation hangs.

**LayeredCostmap, StaticLayer, InflationLayer** (`costmap/src/layered_costmap.cpp`,
`costmap/plugins/static_layer.cpp`, `costmap/plugins/inflation_layer.cpp`).
State: the master grid; in every layer its own grid, `enabled_`, `current_` and
flags that ask for more to be done (`has_updated_data_`, `need_reinflation_`),
a buffered map, and the bounds of the update before.  An update asks every layer
for bounds and then lets every layer write into that window.  Maps, updates of
maps, parameters and footprints arrive on the executor thread between any two of
these calls.  *Hard:* only the window is recomputed, so everything that may
change a cost has to be in it, including what an earlier update inflated there.
*Correct means:* once no flag asks for more, the master grid is what a full
computation would give, and the costmap is called current exactly then.

**Costmap2D, CostmapLayer, ClearCostmapService, FootprintCollisionChecker,
LineIterator** (`costmap/src/costmap_2d.cpp`, `costmap_layer.cpp`,
`clear_costmap_service.cpp`, `footprint_collision_checker.cpp`,
`util/.../line_iterator.hpp`).  A grid in an array, moved with the robot by
`updateOrigin()`; filling of polygons; clearing of regions, which a layer
remembers as extra bounds; the cost of a footprint.  *Hard:* index arithmetic at
the edges, in mixed directions, and over sequences of calls.  *Correct means:*
what is done to the array is what the call means in the world.

**The wave of the inflation** (`inflation_layer.cpp`, `updateCosts()`): bins of
cells by distance, through which obstacles spread.  *Correct means:* the
cells within the radius are reached and no others, none is left over for the next
update.

**Costmap2DPublisher** (`costmap/src/costmap_2d_publisher.cpp`).  Publishes full
grids when the costmap changed its size or origin and updates of the changed
rectangle otherwise.  State: the rectangle, the size and origin it published last,
and whether it published at all.  *Hard:* sizes are compared and stored without the
costmap's mutex, which is locked anew for every message, while the executor thread
may resize the costmap, and the frequency of publishing changes at run time.
*Correct means:* what a subscriber puts together from a
grid and the updates after it is the costmap.

**LifecycleNode, NodeThread, costmap_2d_node** (`util/src/lifecycle_node.cpp`,
`util/src/node_thread.cpp`, `costmap/src/costmap_2d_node.cpp`).  A managed node with
an autostart timer, cleanup in a pre-shutdown callback and in the destructor, and a
thread with an executor of its own.  *Hard:* the pre-shutdown callback runs on the
thread of the signal, while the executor thread may be in a transition; a thread
that nobody joined ends the process.  *Correct means:* a signal at any moment ends
the process, and orderly.

**Fibonacci action servers and clients** (`cpp_action`, `py_action`).  The C++
server starts a detached thread for every goal, the Python server occupies the
threads of its executor's pool.  *Hard:* the goal response, feedback, cancellation
and result travel separately and overtake one another.  *Correct means:* what a
goal ends with follows from its order and from when its cancellation was accepted,
and every client gets an answer.

**The mobile robot** (`py_mobile_robot`, `cpp_mobile_robot`,
`py_obstacle_avoidance`, `util/.../odometry_utils.hpp`).  A square walker or an
obstacle avoidance sends velocities, a differential drive controller obeys them and
publishes odometry, an `OdomSmoother` averages it.  *Hard:* queues that lose their
oldest message, commands that stay in force, a clock that may be set back, integer
division of angles into samples, sums kept along with a moving window.  *Correct
means:* the robot is never faster than the scan behind its command allows, rests
after its square, and the smoothed velocity is the mean of the window.

### How they interact

`Costmap2DROS` owns a `LayeredCostmap` and calls `updateMap()` on its thread.
`LayeredCostmap` owns the master `Costmap2D` and calls the layers, each of which
has a mutex of its own; `updateMap()` holds the mutex of the master throughout.
`StaticLayer` may resize everything, from its map callback or in the middle of an
update.  `ClearCostmapService` calls `resetLayers()` or clears layers directly.
`Costmap2DPublisher` reads the master after every update.  Footprint changes go
from `Costmap2DROS` through `LayeredCostmap` to every layer.  `Costmap2DROS` is a
`LifecycleNode` and owns a `NodeThread`, which it creates in `on_configure()` and
destroys in `on_cleanup()`.  The robot's nodes share nothing but the topics
`cmd_vel`, `odom` and `scan`, the Fibonacci programs nothing but the action.

### Parts that are not modelled, and why

`PROJECT.json` lists every component with its reason.  In short:

- geometry in floating point without state: footprint, robot and geometry
  utilities;
- parsing and formatting: `array_parser`, `string_utils`, `node_utils`, the launch
  helpers;
- declarations: generated messages, exceptions that nothing here throws;
- examples of a single callback (`*_pubsub`, `*_srvcli`, `*_msg`) and of tf2, whose
  state is in the library;
- robot descriptions, launch files and the container;
- of the robot: positions, which need trigonometry and which no node reads, and the
  relay and the clock publisher, which only forward.

No server or planner that uses `SimpleActionServer` is in the repository, and no
layer that marks obstacles or can be cleared.  Where the code provides for one,
the model has a layer of another package, marked as external.

## 2. The modules

| module | what it is |
|---|---|
| `GoalQueue` | abstract: what clients are promised about their goals |
| `SimpleActionServer` | threads, slots and flags; implements `GoalQueue` |
| `SimpleActionServerProofs` | proofs for every set of goals |
| `Costmap2DROS` | lifecycle and update thread |
| `Costmap2DROSProofs` | proofs for every set of frequencies |
| `CostValues` | the costs that have a name |
| `MasterGrid` | the master grid, bounds and windows that layers share |
| `StaticLayer`, `InflationLayer` | one layer each |
| `LayeredCostmap` | composes both with `updateMap()` and the executor thread |
| `InflationWave` | the wave of `InflationLayer::updateCosts()`, in two dimensions |
| `Raster` | lines, outlines and fills on cells |
| `WorldGrid` | abstract: a window on the world whose costs stay where they are |
| `Costmap2D` | the array, with footprint costs; implements `WorldGrid` |
| `CostmapLayer` | a `Costmap2D` with clearing and extra bounds |
| `CostmapLayerProofs` | proofs for grids of every size and resolution, with those of `Costmap2D` and `Raster` |
| `LayeredCostmapProofs` | proofs for maps of every size and every radius, with those of `InflationWave` |
| `CostmapPublisher` | the publisher against resizing, and the copies of subscribers |
| `CostmapPublisherProofs` | proofs for costmaps of every size and origin |
| `ManagedNode` | `LifecycleNode`, `NodeThread` and `main()` of `costmap_2d_node` |
| `ManagedNodeProofs` | proofs |
| `FibonacciAction` | either server with any mixture of clients |
| `FibonacciActionProofs` | proofs for any goals, orders and pool of threads |
| `OdomSmoother` | the window of odometry and the sum kept along with it |
| `MobileRobot` | composes commander, controller and smoother over their topics |
| `MobileRobotProofs` | proofs for any scans, parameters and wheels |
| `MC...` | values of the constants for TLC |

### How state and actions correspond to the code

*Names.*  A variable has the name of the member without its underscore, with the
name of the layer before it where two layers have the same member.  An action has
the name of the function; `f_x` is the part `x` of `f` when `f` is more than one
step.  An operator `..._Word` headed "Broken variant" is not part of the
specification: it is the definition after it with a bug that could plausibly be
made, and it is known that the properties notice.

*Steps.*  What a thread does while it holds the mutex that guards it is one step.
Every place where it lets go, or touches shared state without the mutex, begins
another.

*SimpleActionServer.*  `goal` is the state that rcl keeps of a goal.  `arriving`
and `cancelling` hold the goal for which `rclcpp_action` has called one callback
and not yet done what follows.  `worker` is the position in `work()`: `leaving`
is after its last look at anything and before its future is ready.  The execute
callback is any sequence of the calls that a callback may make.  Identifiers are
used again when a goal has ended, so there is no bound on the number of goals.

*Costmap2DROS.*  `at` is the position of the executor thread inside `start()` or
`stop()`, each of whose writes to a flag is a step.  `pause()` writes two flags
in one step, which commutes with every step of the update thread.  The mutex
`_dynamic_parameter_mutex` is held when `updater` is `locked` or `updating`.
The plain `bool`s that the threads share are read as if they were atomic.  A
transform that times out in `on_activate` changes nothing and is no step.
`resume()` is the counterpart of `pause()`; after `stop()` it would wait for ever
(a hazard, listed).  The thread that was joined leaves its object behind in
`map_update_thread_`, as in the code.

*LayeredCostmap and its layers* are over one row of cells, since the code treats
`y` as it does `x`.  The cost of a cell there comes from its nearest obstacle;
in one row this is what the wave computes.  Bounds and radii are in a unit of which
`Resolution` make a cell, so that a radius need not be a whole number of cells: the
window grows by the radius, the costs spread over the radius rounded up.  The frame
of the map is the global frame and the costmap does not roll.  `cleared` is history:
how far the update that follows `clear_entirely` has come.

*InflationWave* has the same `updateCosts()` in two dimensions, cell by cell.  A
distance is kept squared: levels, cached distances and cached costs are functions
of it.  `reached` is where a cell of the window got its cost from.  `seen` is `seen_`
with, as history, the obstacle that each cell was taken for.

*Costmap2D and CostmapLayer.*  The world is measured in a unit of which
`resolution` make a cell, so that positions between the corners of cells exist.
The array is a function from indices: a write outside of it extends the function
and fails the type invariant.  `call` is a history variable with the last call
and its result.  `pending` is one with the cells cleared since the layer's last
update.

*CostmapPublisher.*  `pc` is the position of the update thread in
`publishCostmap()`: a step for every stretch between two locks of the mutex.  The
costmap is a record with origin and cells, in one row.  `mirror` is not code of
the repository: it is what a subscriber that applies every message in order has.
A message can be made for a size that the costmap no longer has; what is read past
the end of the array is any cost.  `publishing` is `publish_cycle_ > 0`: without it an
update of the costmap does not reach the publisher, and neither does the one after
the parameters of size and resolution changed the costmap.  `moved`, `skipped` and
`torn` are history and say which of the cases of section 4 has occurred since the last
full grid.

*ManagedNode.*  `doing` is the lifecycle callback that a thread is in.  The state
machine belongs to rclcpp_lifecycle, which refuses a transition from any other
state; while a callback runs the state is the transition's.  `on_cleanup()` is two
steps, since the destructor of the `NodeThread` cancels and then joins.

*FibonacciAction.*  `phase` is the position in `execute()`.  A sequence is its
number of terms.  The sets `request`, `response`, `cancel` and the number
`feedbacks` are what is on its way, in no order among them.

*MobileRobot.*  `cmd_vel` and `odom` are queues of a subscription that lose the
oldest message.  Every message carries the scan behind it as history, `heeded` is
that of the command in force.  Angles are in a unit small enough that every turn is a
multiple of twice the real separation of the wheels (`Turns`), so that the products and
quotients of the controller are whole numbers for any two separations; timers fire at
any time.

## 3. What the runs check

Each run is exhaustive for its instance.

| run | question | instance |
|---|---|---|
| `sas` | all of `SimpleActionServer` | three goals |
| `costmap_ros` | all of `Costmap2DROS` | frequencies 0 and 5 |
| `layered` | `LayeredCostmap` with its layers | maps of two and three cells, radii of none, half a cell and one |
| `inflation_wave` | the wave | 4 x 4 cells, radius 3, up to three obstacles |
| `costmap_layer` | the grid, clearing, footprints | 5 x 4 and 3 x 5 cells, three calls |
| `costmap_publisher` | the publisher and its subscribers | two sizes, two origins, two costs |
| `managed_node` | all of `ManagedNode` | no constants |
| `fibonacci_action` | servers and clients | two goals, a pool of two threads |
| `mobile_robot` | the robot's nodes | see below |

### `sas`

- `OpenGoalsHeldOnce`, `PreemptIffPending`: the slots and the flag, which is
  updated in six places, agree with the states of the goals.
- `QuietAfterDeactivate`: no callback runs once `deactivate()` has returned,
  though a goal may have been on its way into the server.
- `FeedbackHandleValid`: the handle that `publish_feedback()` uses without the
  mutex can vanish only while `deactivate()` is overdue.
- `ImplementsGoalQueue`: the server refines `GoalQueue`, with the slots read as
  a queue.
- `DeactivateReturns`, `CancelledGoalEnds`, `PendingGoalLeavesSlot`: liveness.

*Bound.*  A slot for the current goal, one for the pending goal, and one goal on
its way in: three goals contest every slot, and a fourth could only wait.

*Fairness.*  Weak fairness of the threads' own steps: the operating system
schedules them.  Strong fairness of a callback that returns when it is told to
stop (inactive server, cancellation or preemption); that is the contract of a
callback in `simple_action_server.hpp`, and it is strong because a callback may
be between check and use of a handle whenever one looks.  No client has to do
anything, and no callback has to return otherwise.

### `costmap_ros`

- `TypeOK` contains `AtRest`: in an inactive node the plugins, the update loop and
  the parameter callback are all switched off, though a transition does so one by one.
- `ThreadJoined`: assigning `map_update_thread_` never destroys a joinable thread.
- `UpdateOnConfiguredCostmap`: the thread has a costmap, in any order of
  transitions, including the shutdown of an active node.
- `PluginsActiveWhenUpdateBegins`: `stopped_` and `stop_updates_` are read at
  different moments and still keep updates away from inactive plugins.
- `StartReturns`, `DeactivateReturns`: liveness; the first only when there is an
  update loop.

*Bound.*  None but the two frequencies, of which only being 0 matters.
Deadlock is not checked, since `start()` really waits for ever at frequency 0.

*Fairness.*  Weak fairness of both threads; strong fairness of the beginning of an
update, since transforms keep arriving and an update without a pose is tried
again in the next cycle.

### `layered`

- `NothingLost`: when no flag asks for more, the windows updated one by one have
  left in the master grid what one computation of the whole map gives.  Of a radius
  that is no whole number of cells, the cells as far from every obstacle as the radius
  rounded up are excepted (section 4): they have the cost of that computation with or
  without an obstacle at that distance.
- `ClearedNotCurrent`: after `clear_entirely`, `isCurrent()` is false at every moment
  until an update has ended, while inflation is enabled.  It takes no lock, and without
  inflation it may be true in the middle of that update: once the static layer has
  written its costs, or has loaded a buffered map, or when it is disabled as well.
- `SettledIsCurrent`: it does become current, whatever order resets, changes and
  updates take.  A radius of 0 is excluded (see section 6).

*Bound.*  Two sizes, so that a map resizes the costmap both ways; obstacles at an
edge; cells of two units, and radii of one unit and two, so that a window grown by the
radius does and does not reach the cells to be inflated, and does and does not reach
the whole row; one marked cell at a time.  `StartSize` is that of the smaller map.

### `inflation_wave`

- `WaveTypeOK` contains `ListEmptied`: nothing is ever put into a bin that has been
  passed, so the list is empty when the next update begins, which the code asserts.
- `CoversRadius`: a cell of the window that is inflated has an obstacle within the
  radius, in the window or beyond, and one that has an obstacle within the radius is
  inflated; of a radius of 5 or more, one that has it within the radius less one
  cell.  Up to a squared distance of 7 the cost is that of the nearest obstacle.  For
  both exceptions see section 4.

*Bound.*  Three obstacles are the fewest that can cut a wave off from both sides;
radius 3 and 4 x 4 cells are the smallest where this shows.  The window is the
whole grid or a corner.  The inductive invariant of the proofs, `WaveIInv`, was also
explored here and, with a dozen arrangements of obstacles and that of section 4, on a
grid of 12 x 10 cells with radius 5.

### `costmap_layer`

- `ImplementsWorldGrid`: through indices, widths, overlaps and offsets, every
  write changes the cells it is for, and a move of the origin leaves every cost
  where it is in the world.
- `PolygonFilled`: filling sets every cell that the outline passes both above and
  below in its column (`Enclosed`), which is every cell in the polygon, convex or not.
  When the cells of its corners are convex, none further than half a cell from it is
  set.  Of a shape that is not convex more is set than lies in it: the fill closes the
  gap between two parts of a column, and the property asks for that.
- `FootprintCostIsWorst`: the cost of a footprint is that of a cell on its outline or
  half a cell from it, and no known cost there is higher.  Unknown (255) counts as the
  highest and may so hide a lethal cell (254, section 4).  The line iterator of
  the footprint and the ray tracer of the grid are different code that rounds
  differently by direction; the property is stated by geometry, not by either.
- `ClearedRegion`: clearing a region and clearing all but a region are exact
  complements and stay within the square asked for.  Cells on the edge of the
  map are never inside, which the property allows.
- `ClearedWillBeUpdated`: what was cleared is within the extra bounds at the
  layer's next update, however the window moved meanwhile.

*Bound.*  Three calls: one to write, one to move or clear, one to look.  Moves go
in mixed directions, by fractions of a cell, and beyond the map.  Polygons have
edges of many slopes, both orientations, corners outside, and degenerate shapes; one
is an arrow, which is not convex.
Deadlock is not checked, since the number of calls is bounded.

### `costmap_publisher`

- `CopiesAddUp`: whenever nothing is left to publish, every copy has the shape and
  the cells of the costmap, wherever a resize by the first map fell between the steps
  of `publishCostmap()`.  The cases it does not notice are excluded by the history
  variables `moved`, `skipped` and `torn` (section 4) until the next full grid, which
  ends them; each of the three exceptions is needed.
- `ViewKeepsOrder`: the values of an occupancy grid are in the order of the costs,
  and only the special costs have the special values.

*Bound.*  Two sizes and two origins let a map differ in one or the other or both;
two costs tell a cell that was sent from one that was not, and one is the greatest
regular cost, where the scale ends.  Nothing else is bounded.

### `managed_node`

- `TypeOK` says that the two threads are never in callbacks at once.
- `TerminatesOnlyDisturbed`: the process ends in `std::terminate()` only after a
  transition that the pre-shutdown callback could not know of: one in flight at the
  signal, one requested after it, or the shutdown of an active node.
- `ShutdownEnds`: after a signal the process ends, unless the executor of a
  `NodeThread` was cancelled before it began to spin (section 4).

*Bound.*  None.  *Fairness.*  Weak fairness of each of the three threads; nobody has
to request a transition or send the signal.  Deadlock is not checked: the process
ends.

### `fibonacci_action`

- `OutcomeIsRight`: a goal is cancelled at the first check after the cancellation
  was accepted, and succeeds with every term when no check was left; only Python
  aborts, at what does not fit into its array.
- `ClientEnds`: a client that sent a goal ends, with the result or with an
  exception, unless every thread of the Python pool sleeps in a goal at once.

*Bound.*  Two goals are enough to occupy a pool of two threads; orders below and
above what fits (`MaxTerms` is 4 here, 47 in the code); `cancel_after` below zero
and one.  *Fairness.*  Weak fairness of every step of servers and clients.  Deadlock
is not checked: when all clients have ended nothing is left to do.

### `mobile_robot`

- `TypeOK` contains `HeadingFollowsWheels`: the headings, added up separately, are
  those of the wheels.
- `DrivesAsSeen`: the speed in force is what the scan behind it allows, for any
  number of samples and spacing.  The outermost sample, which the division of the
  angle rounds away, is excluded.
- `SmoothsTheWindow`: the running sum and the smoothed velocity are those of the
  messages kept, and while the clock was not set back these are exactly those of the
  window: none of them is too old, and every one dropped was (`dropped` is the history
  of their stamps).
- `ComesToRest`: after the square the robot rests and stays at rest, though the
  timer of the step goes on.

*Bound.*  Separations of 17 and 10, the 0.34 of the robot and the 0.20 that the launch
file suggests to try (`mobile_robot.launch.py:29`).  A clock of three ticks, set back once, queues of two messages, and a
window of one tick: enough for a message to leave the window, a queue to overflow,
and time to go back inside a window.  The walker is composed with the smoother,
the avoidance runs without it.  The step counter stops at 5, one past the end of
the square.  *Fairness.*  Weak fairness of timers and callbacks; not of the clock.

## 4. Where the code and its comments disagree

Three of these have a run that ends in the counterexample.

- `sas_orphan_pending`: a goal accepted after `work()` has decided that nothing is
  pending, and before its future is ready, is parked in the pending slot with no
  thread to run it.  A comment calls the state unreachable.
- `costmap_ros_stale_ready`: an update in flight sets `initialized_` after `stop()`
  or `pause()` cleared it, so that the next start or resume returns before any
  update has run.
- `layered_update_lost`: an update that follows a buffered map is written into the
  old map, and lost when the buffered map replaces it.

Met while modelling, and without a run of their own:

- With a pending goal, `is_cancel_requested()` does not see the cancellation of the
  current one, though its comment says "either handle".
- A stop that `work()` sees in its loop condition ends the thread without
  terminating the current goal; after the next activation new goals queue behind it.
- At `update_frequency` 0, which a comment offers to users, activation never
  returns; `StartReturns` makes the exception.
- A cell can get the cost of an obstacle that is not its nearest, because waves of
  nearer obstacles cut one another off.  A search over grids of up to 6 x 5 cells
  found it only at squared distances of 8 and more, and never off by more than 0.17
  cells; `CoversRadius` makes the exception.
- For the same reason a cell that is only just within the radius of an obstacle may
  not be inflated at all.  With a radius of 5, and obstacles at (9, 6), (5, 7) and
  (11, 4) on a grid of 12 x 10, the cell (6, 2) is 5 cells from the first and further
  from the others, and all its neighbours get their cost from the others: nothing puts
  it on the list.  An instance of `InflationWave` with these numbers shows it; the run is
  of radius 3, where it does not happen.  A simulation of the loop on random grids with
  radii up to 12 found none below a radius of 5, and at greater ones only cells within
  0.2 of a cell of the radius: `SureRadius` makes the exception.
- `InflationLayer::updateBounds()` grows the window by the radius in metres
  (`inflation_layer.cpp:113-116`), and the inflation spreads over the radius rounded up
  to cells (`costmap_2d.cpp:467`).  With 0.55 m and cells of 0.1 m a cell six cells from
  an obstacle that comes or goes is within the inflation and may be outside the window,
  and keeps the cost it had.  So it may be of a radius that is a whole number of cells
  only in decimals: the division is in `double`, and what it makes greater is rounded up.
  `NothingLost` makes the exception (`Outermost`).
- `isCurrent()` takes no lock.  With inflation disabled, a map that was buffered sets
  `current_` of the static layer in the bounds of an update (`static_layer.cpp:328`),
  while the master grid of a costmap just cleared is still empty.  `ClearedNotCurrent`
  says when.
- The cost of a footprint compares costs as numbers, line by line: of two lines that
  touch an unknown and a lethal cell, one or the other comes out, by their order
  (`footprint_collision_checker.cpp:44-58`).
- When the first map falls between the two messages of a full grid, and a buffered
  map of the stored shape follows, the copy of one kind keeps a wrong shape or
  origin for good (`torn`).  A rolling costmap that has moved away and back between
  two publications leaves stale cells in the copies (`moved`).  At a publish frequency
  of 0 updates do not reach `updateBounds()` of the publisher
  (`costmap_2d_ros.cpp:560`), and neither does the first one after a change of size by
  parameter: when the frequency is set back, or the shape was the same, what they
  changed is never published (`skipped`).  A full grid mends all of these.
- An executor that is cancelled before it has begun to spin forgets the
  cancellation.  When that happens in the pre-shutdown callback, the thread of the
  signal joins a thread that only ends when the context is shut down, which it was
  to do itself (`lost`).
- The destructor of `LifecycleNode` calls the callbacks of the base class, not the
  user's, though `lifecycle_node.cpp:124-126` offers "some ability to clean up":
  an update thread that is still joinable then ends the process.
- `send_goal()` with `cancel_after` of -1 never cancels in C++, and cancels at the
  first feedback in Python.
- A sample at the very edge of the forward angle may be divided out of the front
  sector of the obstacle avoidance; `Ahead` makes the exception.

## 5. What is proved

By TLAPS, for every value of the constants, from the assumptions named in the
modules.  Each says what the code relies on: the null handle is no goal, frequencies
and radii are natural numbers, a map has at least one cell and at most `MaxCells` (1000
in `MasterGrid`), beyond which lies what stands for the greatest double, a cell has an
extent and the polygons and footprints have corners, costs are bytes, a scan has a
positive increment, and angles are in a unit that divides the turns (`AnglesAssumption`,
which a finer unit meets).  The form is the same throughout: an inductive invariant, `IInv` unless said otherwise, that
holds initially, is kept by every step, and implies the property.

**SimpleActionServer.**  `TypeCorrect`, `GoalsHeldOnce`, `PreemptFlagCorrect`,
`DeactivateIsQuiet`, `FeedbackHandle` and `Refinement`.  The inductive invariant
`IInv` is the conjunction of the five invariants of the run and
`FlagsFollowOwner`.  The latter is needed because "quiet" depends on how a
goal still arriving meets `stop_execution_`: a thread started too late must find
the flag set, so that it leaves its loop at once.  `Refinement` shows that the
initial state maps to an initial state of `GoalQueue` and every step to one of its
steps or a stutter; it uses `IInv` to know that the slots hold the open goals
exactly, so that the order of the slots is the order of the queue.

**Costmap2DROS.**  `TypeCorrect`, `DeactivationJoins`, `CostmapOutlivesThread` and
`PluginsFirst`.  The inductive invariant adds `CallsFollowLifecycle`, which ties
the position of the executor thread to the lifecycle state: none of the three
properties is inductive alone, since each depends on which calls can be under way.

**LayeredCostmap.**  `TypeCorrect`, `NothingIsLost`, `ClearedStaysNotCurrent` and
`SettledBecomesCurrent`, for maps of any size, cells of any extent and any radii.
`NothingIsLost` is exact for a radius of whole cells and excepts the outermost ring of
any other, as the property does.  The invariants speak
of a costmap at rest, so `IInv` adds what an update has done and has still to do.
`MasterFollows` is the heart: unless something more is asked for, the cells outside
the window of the update are those of a full computation, and those inside are at
every step what that step had to write.  Four facts carry it.  The cost of a cell
depends on the lethal cells within the radius only (`InflationIsLocal`).  The
inflation neither adds nor removes lethal cells (`LethalStays`), so a window may be
inflated from a master that is inflated elsewhere.  The window reaches the radius
further than every mark that changed (`ReachIs`, `MarksReach`), which is every cell
whose cost a mark can change but those at the radius rounded up.  And every message
or parameter that changes what the map should be leaves a flag that asks
(`LoadingFollows`, `StaticAsks`, `InflationAsks`, `ClearedAsks`).

**InflationWave.**  In `LayeredCostmapProofs`, for every grid, radius, window and all
sets of obstacles.  `WaveTypeCorrect`: what `updateCosts()` asserts, that the list is
empty when an update begins.  `WaveInflatesWithinRadius`: only cells of the window are
changed, and only for an obstacle within the radius, at its distance.
`WaveObstaclesInflated`: every obstacle of the window, and every cell of it beside one,
is inflated as that.  `WaveNeighboursAgree`: in the end no cell is further from its
obstacle than from that of a neighbour, as far as the radius goes.

`ListEmptied` is not inductive: that a cell never adds a neighbour to a bin already
left needs every neighbour nearer to the same obstacle to have been taken before, and
other waves may have been in the way.  `WaveIInv` therefore follows how cells were
reached.  A cell taken has a neighbour nearer to its obstacle that was taken for the
same one (`ComesNearer`), hence a trail back to it; and what a cell taken could give to
a neighbour, the neighbour has, at least as near, or is on the list for
(`NeighboursReached`).  From these follows `NearerTaken` by geometry.

- The trails from two obstacles, one above and to the left of the other, do not cross
  (`TrailsDoNotCross`): a crossing would have a smaller one a step back, and the sum of
  squared distances cannot fall for ever.
- Let c be taken through p, for the obstacle s, and n be the other neighbour of c that
  is nearer to s.  The cell u beside both p and n is nearer still, so it was reached from
  some t at least as near.  Either t is as near to n as well, and its wave went on to n;
  or its trail to u crosses that of s to p (`CornerReached`).
- The same seen from every other side is the same, mirrored, flipped and with the
  coordinates swapped (`Turn`, `NearerReached`).

A neighbour is never at the same distance, since a step changes the squared distance by
an odd number; so what is added goes to later bins.

**Costmap2D and CostmapLayer.**  Six theorems, one for each property of the run
`costmap_layer`, in `CostmapLayerProofs`.  Two need an invariant of more than one
state; the others are about what one call does, from any state.

- `LayerTypeCorrect`, `ClearedIsUpdated`: `LayerInv` adds to the types that the extra
  bounds cover the cells cleared since the last update, wherever the window has gone
  since (`PendingCovered`).
- `LayerImplementsWorldGrid`: a cell of the window and its index determine one another
  (division with remainder by the width), the rows that a copy moves are those of the
  overlap, and moves compose.  Every step maps to one of `WorldGrid` or to a stutter.
- `ClearsTheSquare`: clearing stays in the square asked for and reaches what is a cell
  inside of it, from the rounding of positions to cells, near the edges too.
- `FootprintCostsTheWorst`: the iterator of lines visits, in every column or row,
  the cell nearest to the line; the error it keeps is that of the line it has walked
  exactly.  The cost is the greatest over the lines as a number, but for unknown cells.
- `PolygonsAreFilled`: the ray tracer puts a cell within half a cell of every edge in
  each column the edge crosses, so never on the other side of a cell that the edge
  passes.  A cell with an edge above and one below it in its column therefore lies
  between two drawn cells, and the fill of the column reaches it.  A convex polygon has all of its outline within half a cell of the right side of
  each edge, and so also every cell between two of that outline (`FillNear`).

**CostmapPublisher.**  `TypeCorrect`, `CopiesAlwaysAddUp`, `ViewIsFaithful`.
`CopiesAddUp` says nothing between publications, and nothing once one of the three
cases of section 4 has occurred, until a full grid; `ShapeIsSeen` and `CopiesAreShaped`
follow the stored shape, and `RightOutsideRectangle` says that a copy is right
wherever the changed rectangle does not reach.

**ManagedNode.**  `TypeCorrect`, `TerminationIsDisturbed`.  `HandlerJoins` follows
the update thread from the signal through the pre-shutdown callback to the
destructor.

**FibonacciAction.**  `TypeCorrect`, `OutcomeIsAlwaysRight`.  `ProgressIsRight` says
how many terms a goal has at each place of the loop, and how many it will have when
it next looks for a cancellation.

**MobileRobot.**  `TypeCorrect`, `DrivesAlwaysAsSeen`, `SmoothsAlways`.  The headings
follow the wheels for any two separations: a turn passes through the wheels as a product
and a quotient that cancel out (`TurnsAgree`).
`CommandsAreAllowed` carries what a scan allows through the queue; the rest is that a
sample nearer the centre than the forward angle is in the front sector for any
increment.  `SmootherInv` says that odometry is stamped, queued and smoothed in order
unless the clock was set back (`StampsInOrder`), though a full queue loses some: so
the first message that is not too old has none behind it that is, and the loop need
not look further.  That the sum follows is a lemma on `Total`, which is a recursive
function (`TotalOfKept`): what was dropped and what is kept add up to the whole.

*Induction.*  The proofs about lines, sums, moves and waves need induction over natural
numbers.  They use it as a fact about sets: a set of numbers that has 0, and the
successor of each of its members, is all of them (`Induction`, from the least-element
theorem of the library), and a recursive function is the one that solves its equation
(`Recursion`).  Neither takes an operator as a parameter.

*Only model-checked:* liveness under fairness, which is out of the prover's reach, and
`CoversRadius` as a whole.  Of its three parts the first is
`WaveInflatesWithinRadius`, and of the others `WaveObstaclesInflated` and
`WaveNeighboursAgree` are what holds of every grid.  The rest, that waves do not cut off
a cell within the radius (or a little less) and that the nearest obstacle is found up to
a squared distance of 7, depends on the order in which the cells of one bin are taken,
row by row in the first and first come first served in the others, and where it ends is
known from the run and the simulation of section 4 only.

## 6. What is left out, and what that means

- `rclcpp::ok()` is true throughout; a context that is shut down is not modelled.
- With an inflation radius of 0 `InflationLayer::updateCosts()` returns before it
  sets `current_`, so that a costmap that was cleared never becomes current again.
  `SettledIsCurrent` excludes this.
- `StaticLayer::deactivate()` drops the parameter callback, which no activation
  restores.  The model lets parameters change at any time.
- Costmap filters, rolling windows in `LayeredCostmap`, clearing of the footprint in
  `StaticLayer`, transforms between frames and the scaling of map values.
- The mutex order of `StaticLayer` against `LayeredCostmap` is part of the guards
  (`updater = "idle"`), not a lock of its own.
- `copyWindow`, `copyCostmapWindow`, `saveMap` and the import of an occupancy grid.
- Footprints of fewer than two points, on which `footprintCost()` reads variables
  that are not set.
- A point exactly on the far edge of the map, for which
  `worldToMapEnforceBounds()` returns one cell past the last.  `Costmap2D` models
  it; `updateMap()` clamps it, and no property depends on it.
- *Action server:* the completion callback may be called more than once for a goal
  that is overdue at deactivation, and again by the worker.
- *Costmap2DROS:* a list of parameters rejected at its second member has applied the
  first; `setRobotFootprintPolygon()` writes the padded footprint without the mutex
  the update thread reads it under; `stop()` deactivates plugins while an update may
  be in flight in them; the `get_cost` service outlives `on_cleanup()`.
- *Publisher:* what the middleware keeps for late subscribers (the latched grid, but
  only the last update), and the `get_costmap` service, which reads without the
  mutex.
- *Managed node:* exceptions in `on_activate`, and the bond, which nothing creates.
- *Fibonacci:* a goal that is rejected, which no server here does; the `rate_` that
  the C++ threads share without a mutex; several requests to cancel one goal on
  their way at once count as one.
- *Robot:* a scan stays in force however old it is; an increment of 0 or less, or
  greater than the forward angle, empties the front sector, and an empty front means
  full speed; `getTwist()` of the smoother reads without its mutex
  (`odometry_utils.hpp:52`), and nothing in the repository calls it.

## 7. Plan

Done, in this order: the action server with its abstract specification and proofs;
the node and its thread with proofs; the layers; the wave; the grid; the publisher,
managed nodes, the Fibonacci programs and the robot, each with proofs; then the
proofs of the layers, of the grid, of the smoother and of the wave.  The most important
behaviour came first: what the threads of the concurrent components do to one another.

Worth doing next:

1. A rolling window in `LayeredCostmap`, with `Costmap2D` as its grid.
2. The parameter callbacks of `Costmap2DROS` in full: which change is applied when a
   later one of the same list is rejected.
3. In `InflationWave`, the order within a bin, and from it which cells waves can cut
   off for a given radius.
