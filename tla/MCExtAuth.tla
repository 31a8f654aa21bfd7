------------------------------ MODULE MCExtAuth ------------------------------
(* Small instances of ExtAuth for TLC.                                     *)
EXTENDS ExtAuth, TLC

(* Every replica runs with the same SESSION_MAX_AGE_DAYS.                  *)
UniformAge == [c \in Call |-> MinAge]

(* One replica was restarted with a longer SESSION_MAX_AGE_DAYS.           *)
MixedAge == [c \in Call |-> IF c = CHOOSE d \in Call : TRUE THEN 3 * MinAge ELSE MinAge]

(* Browsers, calls, users and ids are interchangeable under UniformAge.    *)
Symmetry ==
    Permutations(Call) \cup Permutations(User) \cup Permutations(SessionId)
      \cup Permutations(Browser)
=============================================================================
