----------------------------- MODULE ProgramConfig -----------------------------
(***************************************************************************)
(* The echo demos exist several times: as the classes of the C++ program,  *)
(* as its procedural mode 0, as the C program and as scripts.  They speak  *)
(* the same protocol on the same port, so a test bed may mix them.         *)
(* Every remote program is started elsewhere as CLIENT_ONLY.               *)
(***************************************************************************)
EXTENDS Naturals, TestBed

CONSTANTS ProgramsUsed,  \* what the programs may be
          TypesUsed,     \* the demo types of the local one
          BuildsUsed     \* the platforms they may be built for

Programs == {"classes", "procedural", "c", "python", "java"}
DemoTypes == {"CLIENT_AND_SERVER", "SERVER_ONLY", "CLIENT_ONLY"}
Builds == {"unix", "windows"}

ASSUME ConfigAssumption == /\ ProgramsUsed \subseteq Programs
                           /\ TypesUsed \subseteq DemoTypes
                           /\ BuildsUsed \subseteq Builds

VARIABLE cfg    \* program, type and build of everybody

ConfigTypeOK == cfg \in [Clients -> [program : Programs, type : DemoTypes, build : Builds]]

\* The Python program is not built and asks for the platform nowhere.
StartupCode ==
  \E p \in [Clients -> ProgramsUsed], b \in [Clients -> BuildsUsed], t \in TypesUsed :
     cfg = [c \in Clients |->
              [program |-> p[c],
               type |-> IF c = LocalClient THEN t ELSE "CLIENT_ONLY",
               build |-> IF p[c] = "python" THEN "unix" ELSE b[c]]]

Program(c) == cfg[c].program
Type(c) == cfg[c].type

\* "server_socket < 0" is never true of the unsigned SOCKET of Windows.
SocketErrorSeen(c) == cfg[c].build = "unix"

\* Which programs run a server: the C++ one leaves out SERVER_ONLY, its class
\* CLIENT_ONLY as well; the others do what the type says.
RunsServer(c) ==
  CASE Program(c) = "classes" -> Type(c) = "CLIENT_AND_SERVER"
    [] Program(c) = "procedural" -> Type(c) # "SERVER_ONLY"
    [] Program(c) \in {"c", "python", "java"} -> Type(c) # "CLIENT_ONLY"

RunsClient(c) == Type(c) # "SERVER_ONLY"

\* Where a side goes on its way out: the class has a destructor, the C
\* functions clean up, the procedural ones leave the socket as it is.
Leaving(c) == IF Program(c) = "procedural" THEN "done" ELSE "close"
===============================================================================
