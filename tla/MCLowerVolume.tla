--------------------------- MODULE MCLowerVolume ---------------------------
(* Small instances of LowerVolume for TLC. *)
EXTENDS LowerVolume, TLC

OneVolume == {<<"pvc">>}
TwoVolumes == {<<"pvc">>, <<"data">>}

None == {}
DataOnly == {<<"data">>}

spec4 == [ns |-> "union", class |-> "nil", size |-> 4, modes |-> {"RWO"}]
spec3 == [ns |-> "union", class |-> "nil", size |-> 3, modes |-> {"RWO"}]
spec8 == [ns |-> "union", class |-> "nil", size |-> 8, modes |-> {"RWO"}]
specOther == [ns |-> "apps", class |-> "lvm", size |-> 4, modes |-> {"RWO"}]

OneSpec == {spec4}
LargeAndSmall == {spec4, spec8}
TwoNamespaces == {spec3, specOther}

CallSymmetry == Permutations(Calls)
=============================================================================
