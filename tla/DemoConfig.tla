------------------------------ MODULE DemoConfig ------------------------------
(***************************************************************************)
(* The configuration of the C++ demo (definitions.h, demoConfig.h) in      *)
(* every program of a test bed: every remote client is the same program    *)
(* started elsewhere as CLIENT_ONLY, in a mode of its own choice.          *)
(* startupCode fixes the configuration before any thread exists and every  *)
(* object keeps a copy of it.                                              *)
(***************************************************************************)
EXTENDS Naturals, TestBed

CONSTANTS TypesUsed,     \* the demo types it may be configured for
          ModesUsed,     \* the demo modes it may be configured for
          RemoteModes,   \* the modes of the other programs
          BuildsUsed     \* the platforms all of them may be built for

\* enum DemoTypes
DemoTypes == {"CLIENT_AND_SERVER", "SERVER_ONLY", "CLIENT_ONLY"}

\* The modes that the classes TcpServerClass and TcpClientClass implement;
\* mode 0, the procedural demo, is dispatched elsewhere.
OopModes == 1..5

Builds == {"unix", "windows"}

ASSUME ConfigAssumption == /\ TypesUsed \subseteq DemoTypes
                           /\ ModesUsed \subseteq OopModes
                           /\ RemoteModes \subseteq OopModes
                           /\ BuildsUsed \subseteq Builds

VARIABLE cfg    \* DemoConfig cfg of every program

ConfigTypeOK == cfg \in [Clients -> [type : DemoTypes, mode : OopModes, build : Builds]]

\* startupCode
StartupCode ==
  cfg \in {f \in [Clients -> [type : TypesUsed \cup {"CLIENT_ONLY"},
                              mode : ModesUsed \cup RemoteModes,
                              build : BuildsUsed]] :
             /\ f[LocalClient].type \in TypesUsed
             /\ f[LocalClient].mode \in ModesUsed
             /\ \A c \in Clients \ {LocalClient} :
                   /\ f[c].type = "CLIENT_ONLY"
                   /\ f[c].mode \in RemoteModes
                   /\ f[c].build = f[LocalClient].build}

Mode(c) == cfg[c].mode
ServerMode == Mode(LocalClient)

\* __unix__: writing to a broken connection raises a signal.
SigPipe == cfg[LocalClient].build = "unix"

\* socket_t is int on a Unix and the unsigned SOCKET on Windows, where the
\* test "socket < 0" is never true.
SocketErrorSeen == cfg[LocalClient].build = "unix"
===============================================================================
