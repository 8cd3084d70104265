---------------------------- MODULE MC_Delivery ----------------------------
(* Small instances of Delivery.                                            *)
EXTENDS Delivery, TLC

CONSTANTS u1, u2, s1, s2

\* One user, on one session, writes to another, who may have several.
PairInit ==
    /\ DeliveryInit
    /\ user[s1] = u1 /\ \A s \in Sessions \ {s1} : user[s] = u2
    /\ \A m \in Msgs : src[m] = s1 /\ dst[m] = u2

PairSpec == PairInit /\ [][DeliveryNext]_allVars
PairFairSpec == PairSpec /\ Fairness

\* Action constraints.  Nobody writes to the sender: his presence key is left out.
SenderUnseen == presence'[u1] = NoGateway /\ beat'[s1] # "setting"

\* Redis answers the receiver's registrations and heartbeats.
RedisAnswers == \A s \in Sessions \ {s1} : beat'[s] # "failing"

\* The sender's session lasts, unless a panic ends it.
SenderStays == pc'[s1] # "dead" /\ (s1 \in cut' => pc'[s1] \in Stopped)

Symmetry == Permutations(Gateways) \cup Permutations(Msgs) \cup Permutations(Sessions \ {s1})
=============================================================================
