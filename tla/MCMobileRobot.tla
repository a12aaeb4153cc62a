--------------------------- MODULE MCMobileRobot ---------------------------
EXTENDS MobileRobot

MCTeams == {[commander |-> "square_walker", smoother |-> TRUE],
            [commander |-> "obstacle_avoidance", smoother |-> FALSE]}

Scan(ranges, increment) == [ranges |-> ranges, angle_increment |-> increment]

\* Stop and turn either way, stop for the outermost sample ahead, go slowly,
\* and nothing valid.
MCScans == {
  Scan(<<9, 9, 1, 9, 1>>, 5), Scan(<<1, 9, 1, 9, 9>>, 5),
  Scan(<<9, 3, 9, 1, 9>>, 3), Scan(<<9, 3, 9, 9, 9>>, 3), Scan(<<9, Invalid>>, 3)}
=============================================================================
