------------------------- MODULE MC_MessageService -------------------------
(* Small instances of MessageService.                                      *)
EXTENDS MessageService_inv, TLC

Symmetry == Permutations(Users) \cup Permutations(Calls) \cup Permutations(Conns)

\* Nobody writes to himself (the web client allows it, few people do it).
NoSelf == \A h \in Calls : from[h] # to[h]
NoSelfInit == Init /\ NoSelf
NoSelfSpec == NoSelfInit /\ [][Next]_vars
=============================================================================
