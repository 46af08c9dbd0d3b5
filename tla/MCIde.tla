-------------------------------- MODULE MCIde --------------------------------
(* Both servers of init/init.c on the one device, each with its own disk.    *)
(* MCFileSys follows them only while their turns do not overlap.             *)
EXTENDS Ide

MCData == {0, 1}
TwoServers == {0, 1}
OwnDisk == [s \in Server |-> s]
==============================================================================
