------------------------------ MODULE MCShmemIPC ------------------------------
(* Instances of ShmemIPC for TLC: the two commands and one plain message   *)
(* of the array `message` in IPC_shmem_p1.c.                               *)
EXTENDS ShmemIPC

MCRequests == {Text(1, <<"LED ON">>), Text(1, <<"LED OFF">>), Text(0, <<"Hello">>)}
MCTwoRequests == {Text(1, <<"LED ON">>), Text(0, <<"Hello">>)}
=============================================================================
