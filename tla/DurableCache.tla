----------------------------- MODULE DurableCache -----------------------------
(***************************************************************************)
(* What the message data path promises of its files: an acknowledged       *)
(* message stays on disk, in the copy that was acknowledged or a better    *)
(* one, until something that may discard it has.  There is no crash here:  *)
(* to the files a crash is a step that changes nothing.                    *)
(***************************************************************************)
EXTENDS Naturals

VARIABLES
    durable,    \* the copies of messages the files hold
    released    \* the copies a purge, a block or retention has discarded

cacheVars == <<durable, released>>

\* q is a copy of the same event as r from a source as good.
AsGood(q, r) == q.key = r.key /\ q.fid >= r.fid

Init == durable = {} /\ released = {}

\* Messages are acknowledged or filled in.
Accept ==
    /\ durable \subseteq durable'
    /\ UNCHANGED released

\* Copies go, each of them because one as good is there.
Replace ==
    /\ \A r \in durable : \E q \in durable' \cup released : AsGood(q, r)
    /\ UNCHANGED released

\* Copies are discarded; only they, and what they had replaced, may go.
Discard ==
    /\ released \subseteq released'
    /\ \A r \in durable : \E q \in durable' \cup released' : AsGood(q, r)

Next == Accept \/ Replace \/ Discard

Spec == Init /\ [][Next]_cacheVars
=============================================================================
