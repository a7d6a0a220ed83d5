-------------------------- MODULE MCFullGroupReply --------------------------
(* Instances of FullGroupReply for TLC. *)
EXTENDS FullGroupReply

CONSTANTS g1, g2

MCGroups == {g1, g2}

\* Every mode with and without order; the bound and the cooldown off once.
MCSettings ==
    [mode : Modes, ordered : BOOLEAN, maxPending : {2}, cooldown : {2}]
        \cup {[mode |-> "smart_reply", ordered |-> TRUE, maxPending |-> 0, cooldown |-> 0]}

\* The configuration of the documentation's cooldown claim.
UnorderedSmartRandom ==
    {[mode |-> "smart_random", ordered |-> FALSE, maxPending |-> 2, cooldown |-> 2]}

=============================================================================
