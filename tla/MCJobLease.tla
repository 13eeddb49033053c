----------------------------- MODULE MCJobLease -----------------------------
(* Instances of JobLease for TLC: model values for the ids, and the        *)
(* constants that are not plain sets of ids.                               *)
EXTENDS JobLease, TLC

(* Every worker has the capability, class and placement of every job.      *)
AllEligible == Workers \X Jobs

(* One sandbox owns every job.                                             *)
OneScope == {Jobs}

(* Lease, request, operation and shutdown ids are interchangeable: no      *)
(* action and no property orders or names them.                            *)
IdSymmetry == Permutations(Leases) \cup Permutations(Requests)
              \cup Permutations(Operations) \cup Permutations(Shutdowns)

(* Where no constant tells the jobs apart, they are interchangeable too.   *)
JobSymmetry == IdSymmetry \cup Permutations(Jobs)

=============================================================================
