------------------------------ MODULE MCPipeIPC ------------------------------
(* Instances of PipeIPC for TLC: the two commands and one plain message of  *)
(* the array `message` in IPC_pipes.c.                                      *)
EXTENDS PipeIPC

MCRequests == {Text(1, "LED ON"), Text(1, "LED OFF"), Text(0, "Good morning")}
=============================================================================
