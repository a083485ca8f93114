----------------------------- MODULE MCUartStdio -----------------------------
(* UartStdio with a text of three characters on the line.  With the        *)
(* buffers three short inputs race with the calls; without them every input  *)
(* of four keys is edited.                                                 *)
EXTENDS UartStdio

MCTexts == {<<"LF", "b">>}

MCInputs(buf) ==
  IF buf THEN {<<"CR", "BS">>, <<"CR", "LF">>, <<"LF">>}
  ELSE [1..4 -> {"x", "CR", "LF", "BS"}]
=============================================================================
