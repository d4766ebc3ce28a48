---------------------------- MODULE MCGatewayTurn ----------------------------
(* Messages without a memory, with one of every kind, and with two.        *)
EXTENDS GatewayTurn

MCExtractions ==
  {<<>>, <<"fact", "fact">>, <<"password", "thanks">>, <<"diagnosis">>}

\* Bound: three requests, of which two turns, or two of the owner; the fourth is over, a
\* turn without memory or a list.
MCInit ==
  /\ InitRows
  /\ \/ /\ \E c \in Turns : turn = [[d \in Turns |-> NoTurn] EXCEPT ![c].pc = "bypassed"]
        /\ gov = [g \in Owners |-> NoRequest]
     \/ /\ turn = [c \in Turns |-> NoTurn]
        /\ \E g \in Owners :
             gov = [[o \in Owners |-> NoRequest] EXCEPT ![g].pc = "done", ![g].op = "view",
                      ![g].loop = [state |-> "completed", status |-> "completed"]]

MCSpec == MCInit /\ [][Next]_vars

MCSymmetry == Permutations(Turns) \cup Permutations(Owners)
=============================================================================
