------------------------------ MODULE MCReplay ------------------------------
EXTENDS MCLeagueTx, Replay
=============================================================================
