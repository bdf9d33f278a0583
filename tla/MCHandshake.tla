---------------------------- MODULE MCHandshake ----------------------------
(* A byte with 3 values: a name of 3 or more letters does not fit its       *)
(* length byte.  The frame cap of 27 cells lets a request with one or two   *)
(* cells of data pass and one with 18 not.                                  *)
EXTENDS Handshake

a == <<1>>
b == <<2>>
MCService == <<a>>
MCAsked == { <<a>>, <<b>>, <<a, a, a, a>>, <<a, b, b>> }
MCExposed == [n \in {<<a>>, <<b, a>>, << >>} |-> IF n = <<b, a>> THEN "StreamReceive" ELSE "Receive"]
MCNames == { << >>, <<a>>, <<b>>, <<b, a>>, <<a, a, a>>, <<a, b, a, b>>, <<b, a, a, b, a>>, <<a, a, b, a, a, b>> }
MCDatas == { << >>, <<b>>, [i \in 1 .. 18 |-> a] }
=============================================================================
