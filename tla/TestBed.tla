-------------------------------- MODULE TestBed --------------------------------
(***************************************************************************)
(* The programs of a test bed.  LocalClient stands for the one whose server *)
(* is observed and for its own client thread; the others run elsewhere and  *)
(* know the server's address.                                              *)
(***************************************************************************)

CONSTANTS Clients,       \* the programs
          LocalClient    \* the one that runs the server

ASSUME TestBedAssumption == LocalClient \in Clients
===============================================================================
