---------------------------- MODULE AdmissionCap ----------------------------
(***************************************************************************)
(* What the connection server promises (http/server.rs): at most MaxConn   *)
(* connections are in service, one is turned away only when the server is  *)
(* full, and a slot that is given up serves another connection, except for *)
(* the slots that are lost.                                                *)
(***************************************************************************)
EXTENDS Naturals, FiniteSets

CONSTANTS Conn, MaxConn

VARIABLES
    open,   \* connections in service
    turned, \* connections that were turned away and are still connected
    lost    \* slots that no connection holds and none can have

vars == <<open, turned, lost>>

Free == Cardinality(open) + lost < MaxConn

Init == open = {} /\ turned = {} /\ lost = 0

Admit(c) ==
    /\ Free
    /\ c \notin open \cup turned
    /\ open' = open \cup {c}
    /\ UNCHANGED <<turned, lost>>

TurnAway(c) ==
    /\ ~Free
    /\ c \notin open \cup turned
    /\ turned' = turned \cup {c}
    /\ UNCHANGED <<open, lost>>

Close(c) ==
    /\ c \in open \cup turned
    /\ open' = open \ {c}
    /\ turned' = turned \ {c}
    /\ UNCHANGED lost

Lose(c) ==
    /\ c \in open
    /\ open' = open \ {c}
    /\ lost' = lost + 1
    /\ UNCHANGED turned

(* A new process starts with every slot. *)
Reset == open' = {} /\ turned' = {} /\ lost' = 0

Next == Reset \/ \E c \in Conn : Admit(c) \/ TurnAway(c) \/ Close(c) \/ Lose(c)

Spec == Init /\ [][Next]_vars
=============================================================================
