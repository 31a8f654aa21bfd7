---------------------------- MODULE MCAuthService ----------------------------
(* Small instances of AuthService for TLC.                                 *)
EXTENDS AuthService, TLC

(* Every replica runs with the same SESSION_MAX_AGE_DAYS.                  *)
UniformAge == [c \in Call |-> MinAge]

(* Calls, users and session ids are interchangeable under UniformAge.      *)
Symmetry == Permutations(Call) \cup Permutations(User) \cup Permutations(SessionId)
=============================================================================
