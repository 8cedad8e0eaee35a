------------------------------- MODULE PilafRpc -------------------------------
(***************************************************************************)
(* What the SEND and RECV path of Pilaf/main.c promises: a PUT is a call   *)
(* that its client waits for. A client has at most one call outstanding,   *)
(* the server serves it at most once, and it returns only after it was     *)
(* served. A call may never return (a message was lost), and is then never *)
(* repeated.                                                               *)
(***************************************************************************)
EXTENDS Naturals

CONSTANT Clients

VARIABLES
    called,     \* called[c]: number of calls of client c
    served,     \* served[c]: number of calls of c that the server has served
    returned    \* returned[c]: number of calls of c that have returned

rpcVars == <<called, served, returned>>

RpcInit ==
    /\ called = [c \in Clients |-> 0]
    /\ served = [c \in Clients |-> 0]
    /\ returned = [c \in Clients |-> 0]

Call(c) ==
    /\ returned[c] = called[c]
    /\ called' = [called EXCEPT ![c] = @ + 1]
    /\ UNCHANGED <<served, returned>>

Serve(c) ==
    /\ served[c] < called[c]
    /\ served' = [served EXCEPT ![c] = @ + 1]
    /\ UNCHANGED <<called, returned>>

Return(c) ==
    /\ returned[c] < served[c]
    /\ returned' = [returned EXCEPT ![c] = @ + 1]
    /\ UNCHANGED <<called, served>>

RpcNext == \E c \in Clients : Call(c) \/ Serve(c) \/ Return(c)

RpcSpec == RpcInit /\ [][RpcNext]_rpcVars
=============================================================================
