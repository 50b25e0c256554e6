-------------------------------- MODULE MCJobs --------------------------------
(* Instances of the job table: two slots and three leaders, so that a slot  *)
(* is used again and the table can overflow.                               *)
EXTENDS Jobs

=============================================================================
