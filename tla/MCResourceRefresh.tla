-------------------------- MODULE MCResourceRefresh --------------------------
(* Model values for ResourceRefresh.  The callers are interchangeable.     *)
EXTENDS ResourceRefresh, TLC

CONSTANTS batch, admission

MCCallers == {batch, admission}
=============================================================================
