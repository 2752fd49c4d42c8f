----------------------------- MODULE MCBreaker -----------------------------
(* Instances of ProviderBreaker for TLC.                                   *)
EXTENDS ProviderBreaker, TLC

CONSTANT remote

(* Bound: where invocations have overlapped or been killed while they      *)
(* wrote, the remote backend has not failed.                               *)
RemoteWorks == clean \/ failed[remote] = 0
=============================================================================
