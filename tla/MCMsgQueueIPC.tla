---------------------------- MODULE MCMsgQueueIPC ----------------------------
(* Instances of MsgQueueIPC for TLC: the two commands and one plain message *)
(* of the array `message` in IPC_msg_p1.c.                                  *)
EXTENDS MsgQueueIPC

MCRequests == {Text(1, <<"LED ON">>), Text(1, <<"LED OFF">>), Text(0, <<"Hello">>)}
=============================================================================
