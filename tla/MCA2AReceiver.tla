----------------------------- MODULE MCA2AReceiver -----------------------------
(***************************************************************************)
(* Small instances of A2AReceiver: messages under one key, spread over two  *)
(* processes.                                                               *)
(***************************************************************************)
EXTENDS A2AReceiver, TLC

CONSTANTS m1, m2, m3, m4, key, p1, p2

MCKeyOf == [c \in Calls |-> key]
MCProcOf == [c \in Calls |-> IF c = m2 THEN p2 ELSE p1]
================================================================================
