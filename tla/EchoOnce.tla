------------------------------- MODULE EchoOnce --------------------------------
(***************************************************************************)
(* What the UDP demo promises however datagrams are lost, doubled or late: *)
(* at most one of those who asked is answered, at most once, and what it   *)
(* then hears is the text.                                                 *)
(***************************************************************************)
EXTENDS Naturals, Sequences

CONSTANTS Clients, NoClient, Text

VARIABLES asked,     \* who has sent a request
          partner,   \* whose request has been taken
          answered,  \* has it been answered?
          heard      \* what each client was told

echoVars == <<asked, partner, answered, heard>>

Init == /\ asked = {}
        /\ partner = NoClient
        /\ answered = FALSE
        /\ heard = [c \in Clients |-> <<>>]

Ask(c) == asked' = asked \cup {c} /\ UNCHANGED <<partner, answered, heard>>

Take(c) == /\ partner = NoClient /\ c \in asked
           /\ partner' = c
           /\ UNCHANGED <<asked, answered, heard>>

Answer == /\ partner # NoClient /\ ~answered
          /\ answered' = TRUE
          /\ UNCHANGED <<asked, partner, heard>>

Hear == /\ answered /\ heard[partner] = <<>>
        /\ heard' = [heard EXCEPT ![partner] = Text]
        /\ UNCHANGED <<asked, partner, answered>>

Next == (\E c \in Clients : Ask(c) \/ Take(c)) \/ Answer \/ Hear

Spec == Init /\ [][Next]_echoVars
===============================================================================
