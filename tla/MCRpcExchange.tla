----------------------------- MODULE MCRpcExchange -----------------------------
(* Two clients: the control one, used by synchronous callers of any module, *)
(* and the execution one, polled by the worker.                             *)
EXTENDS RpcExchange

MCControl == [t \in Threads |-> {"call", "durable"}]
MCExecution == [t \in Threads |-> IF t = "worker" THEN {"polled"} ELSE {"call"}]
=============================================================================
