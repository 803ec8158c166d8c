------------------------- MODULE MCEscrowGovernance -------------------------
(***************************************************************************)
(* EscrowGovernance on small instances: the account names of the           *)
(* configurations and the symmetry between accounts that start in the same *)
(* role.                                                                   *)
(***************************************************************************)
EXTENDS EscrowGovernance, TLC

CONSTANTS a1, a2, a3, a4, oracle, treasury, relayer, x, y

ThreeAdmins == {a1, a2, a3}
FourAdmins == {a1, a2, a3, a4}
ThreeAdminAccounts == ThreeAdmins \cup {oracle, treasury, relayer, x, y}
FourAdminAccounts == FourAdmins \cup {oracle, treasury, relayer, x}

ThreeAdminSymmetry == Permutations(ThreeAdmins) \cup Permutations({x, y})
FourAdminSymmetry == Permutations(FourAdmins)

=============================================================================
