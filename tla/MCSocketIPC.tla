----------------------------- MODULE MCSocketIPC -----------------------------
(* Instances of SocketIPC for TLC: the two commands and one plain message   *)
(* of the array `message` in IPC_sockets_client.c.                          *)
EXTENDS SocketIPC

MCRequests == {Text(1, <<"LED ON">>), Text(1, <<"LED OFF">>), Text(0, <<"Hello">>)}
MCTwoRequests == {Text(1, <<"LED ON">>), Text(0, <<"Hello">>)}
=============================================================================
