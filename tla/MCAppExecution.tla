---------------------------- MODULE MCAppExecution ----------------------------
(* One View on one result of one registration: a request that calls a tool or *)
(* reads, and a delivery, beside a closer of any kind and the maintenance.    *)
EXTENDS AppExecution
===============================================================================
