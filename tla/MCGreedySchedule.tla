-------------------------- MODULE MCGreedySchedule --------------------------
EXTENDS GreedySchedule, MCSchedules
=============================================================================
