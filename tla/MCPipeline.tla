----------------------------- MODULE MCPipeline -----------------------------
(* Instances of Pipeline: a person runs a project with both gates manual, or  *)
(* run_until_done.sh runs one with the gates of config.py's defaults.         *)
EXTENDS Pipeline

Attended   == [manual |-> {MODEL, TICKETIZE}, script |-> FALSE]
Unattended == [manual |-> {MODEL}, script |-> TRUE]

BothWays     == {Attended, Unattended}
AttendedOnly == {Attended}
=============================================================================
