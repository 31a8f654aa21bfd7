------------------------------ MODULE MCReplica ------------------------------
(* A small instance of Replica for TLC: 6-bit integers, two seconds to the *)
(* day, four nanoseconds and two milliseconds to the second, so that from  *)
(* the fourth day on a Duration overflows, and the seconds do not yet.     *)
EXTENDS Replica

SomeDays == {-1, 0, 3, 4}
=============================================================================
