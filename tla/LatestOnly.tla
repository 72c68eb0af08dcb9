----------------------------- MODULE LatestOnly -----------------------------
(***************************************************************************)
(* What the correction slots promise the outbound casters: messages are    *)
(* published in numbered versions, and a caster that takes a message takes *)
(* its newest version, never an older one and never the same one twice.    *)
(* It may miss versions.                                                   *)
(***************************************************************************)
EXTENDS Naturals

CONSTANTS Messages, Dests

VARIABLES
    newest,  \* the newest version of each message, 0 before the first
    took     \* the version of each message each caster took last

LatestInit ==
    /\ newest = [m \in Messages |-> 0]
    /\ took = [d \in Dests |-> [m \in Messages |-> 0]]

Publish(m) ==
    /\ newest' = [newest EXCEPT ![m] = @ + 1]
    /\ UNCHANGED took

\* A caster takes the newest versions of some messages it does not have.
Take(d, S) ==
    /\ \A m \in S : took[d][m] < newest[m]
    /\ took' = [took EXCEPT ![d] = [m \in Messages |-> IF m \in S THEN newest[m] ELSE @[m]]]
    /\ UNCHANGED newest

LatestNext ==
    \/ \E m \in Messages : Publish(m)
    \/ \E d \in Dests, S \in SUBSET Messages : Take(d, S)

LatestSpec == LatestInit /\ [][LatestNext]_<<newest, took>>
=============================================================================
