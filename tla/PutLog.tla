------------------------------- MODULE PutLog -------------------------------
(***************************************************************************)
(* What the PUT path of the FaRM store promises its clients, whatever the  *)
(* transport and the server do with the request slots: every client has a  *)
(* numbered list of the PUTs it has issued, and the server applies some of *)
(* them, each at most once, in the order they were issued, and with the    *)
(* key they were issued with. A PUT may be skipped for ever (the slots are *)
(* overwritten), but never invented, repeated or reordered.                *)
(***************************************************************************)
EXTENDS Integers, Sequences

CONSTANTS
    Clients,    \* the client processes
    Keys        \* the keys a PUT may carry

VARIABLES
    asked,      \* asked[c]: the keys of client c's PUTs, in program order
    applied     \* applied[c]: the requests of c the server applied, in order

logVars == <<asked, applied>>

\* A PUT request: its key, and its number among the PUTs of its client.
Request == [key : Keys, seq : Nat \ {0}]

\* The number of the last PUT of c that was applied.
LastApplied(c) == IF applied[c] = <<>> THEN 0 ELSE applied[c][Len(applied[c])].seq

LogInit ==
    /\ asked = [c \in Clients |-> <<>>]
    /\ applied = [c \in Clients |-> <<>>]

Ask(c, k) ==
    /\ asked' = [asked EXCEPT ![c] = Append(@, k)]
    /\ UNCHANGED applied

Apply(c, n) ==
    /\ n \in LastApplied(c) + 1 .. Len(asked[c])
    /\ applied' = [applied EXCEPT ![c] = Append(@, [key |-> asked[c][n], seq |-> n])]
    /\ UNCHANGED asked

LogNext ==
    \E c \in Clients :
        \/ \E k \in Keys : Ask(c, k)
        \/ \E n \in 1 .. Len(asked[c]) : Apply(c, n)

LogSpec == LogInit /\ [][LogNext]_logVars
=============================================================================
