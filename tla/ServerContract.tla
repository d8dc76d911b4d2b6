----------------------------- MODULE ServerContract -----------------------------
(***************************************************************************)
(* What a server of the TCP demo promises to the programs around it, free  *)
(* of sockets, buffers, threads and resets.  It opens at most once, serves *)
(* at most one client, takes that client's bytes in order and replies as   *)
(* the mode says: mode 1 gives back what it took, mode 2 gives one canned  *)
(* reply after the client has ended, the others give nothing.  It either   *)
(* finishes in order or fails; in modes 1, 2 and 5 it does not finish      *)
(* before it has taken everything up to the client's end.                  *)
(***************************************************************************)
EXTENDS Naturals, Sequences

CONSTANTS Clients, NoClient, Unrequested

VARIABLES mode,      \* the mode of the demo
          phase,     \* "closed", "open", "serving" or "over"
          partner,   \* the client served
          request,   \* what each client has sent
          ended,     \* has a client ended its request?
          taken,     \* bytes taken from the partner
          reply,     \* bytes given to the partner
          failed     \* has the server given up?

contractVars == <<mode, phase, partner, request, ended, taken, reply, failed>>
clientSide == <<request, ended>>
exchange == <<taken, reply>>

Init == /\ mode \in 1..5
        /\ phase = "closed"
        /\ partner = NoClient
        /\ request = [c \in Clients |-> <<>>]
        /\ ended = [c \in Clients |-> FALSE]
        /\ taken = 0
        /\ reply = <<>>
        /\ failed = FALSE

\* A client adds to its request or ends it; neither is ever taken back.
ClientActs ==
  /\ \A c \in Clients :
        /\ Len(request[c]) <= Len(request'[c])
        /\ SubSeq(request'[c], 1, Len(request[c])) = request[c]
        /\ ended[c] => ended'[c]
  /\ UNCHANGED <<mode, phase, partner, exchange, failed>>

Open == /\ phase = "closed"
        /\ phase' = "open"
        /\ UNCHANGED <<mode, partner, clientSide, exchange, failed>>

Accept == /\ phase = "open"
          /\ phase' = "serving"
          /\ partner' \in Clients
          /\ UNCHANGED <<mode, clientSide, exchange, failed>>

Take == /\ phase = "serving"
        /\ mode # 4
        /\ taken' \in taken + 1..Len(request[partner])
        /\ mode = 1 => Len(reply) = taken
        /\ UNCHANGED <<mode, phase, partner, clientSide, reply, failed>>

Complete == taken = Len(request[partner]) /\ ended[partner]

Reply == /\ phase = "serving"
         /\ \/ mode = 1 /\ reply' = SubSeq(request[partner], 1, taken)
            \/ mode = 2 /\ Complete /\ reply = <<>> /\ reply' = Unrequested
         /\ UNCHANGED <<mode, phase, partner, clientSide, taken, failed>>

Finish == /\ phase = "serving"
          /\ mode \in {1, 2, 5} => Complete
          /\ mode = 1 => Len(reply) = taken
          /\ mode = 2 => reply = Unrequested
          /\ phase' = "over"
          /\ UNCHANGED <<mode, partner, clientSide, exchange, failed>>

\* Nothing to serve in this configuration.
Skip == /\ phase = "closed"
        /\ phase' = "over"
        /\ UNCHANGED <<mode, partner, clientSide, exchange, failed>>

\* A call failed, or the process died; perhaps when all else was done.
Fail == /\ phase' = "over"
        /\ failed' = TRUE
        /\ UNCHANGED <<mode, partner, clientSide, exchange>>

Next == ClientActs \/ Open \/ Accept \/ Take \/ Reply \/ Finish \/ Skip \/ Fail

SafeSpec == Init /\ [][Next]_contractVars

\* A server that has a client gets done with it.
Spec == SafeSpec /\ WF_contractVars(Finish \/ (phase = "serving" /\ Fail))
===============================================================================
