----------------------------- MODULE MCSnowflake -----------------------------
(***************************************************************************)
(* Instances of Snowflake for TLC.                                         *)
(***************************************************************************)
EXTENDS Snowflake

OneWorker == {[workerId |-> 1, dataCenterId |-> 0]}

TwoWorkers == {[workerId |-> 1, dataCenterId |-> 0],
               [workerId |-> 0, dataCenterId |-> 1]}
=============================================================================
