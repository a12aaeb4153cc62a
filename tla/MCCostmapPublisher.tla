------------------------- MODULE MCCostmapPublisher -------------------------
EXTENDS CostmapPublisher
MCSizes   == {2, 3}
MCOrigins == {0, 1}
MCCosts   == {0, 252}
=============================================================================
