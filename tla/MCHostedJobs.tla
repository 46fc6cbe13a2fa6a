---------------------------- MODULE MCHostedJobs ----------------------------
(* Instances of HostedJobs for TLC: one owner, or a second one who makes one
   of the interactive calls. *)
EXTENDS HostedJobs, TLC

OneOwner == [x \in Jobs \cup Asks |-> CHOOSE o \in Owners : TRUE]

TwoOwners ==
    LET first  == CHOOSE o \in Owners : TRUE
        second == CHOOSE o \in Owners \ {first} : TRUE
        other  == CHOOSE k \in Asks : TRUE
    IN [x \in Jobs \cup Asks |-> IF x = other THEN second ELSE first]

QueueSymmetry == Permutations(Workers) \cup Permutations(Jobs)
SpendSymmetry == Permutations(Workers) \cup Permutations(Chapters)

=============================================================================
