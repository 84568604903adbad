---------------------------- MODULE MCBackendProxy ----------------------------
(* A governed apply and a direct call, builds of the backend that disagree *)
(* on what is read-only.                                                   *)
EXTENDS BackendProxy, TLC

CONSTANTS c1, c2

AllOrNothing == {{}, {c1, c2}}
===============================================================================
