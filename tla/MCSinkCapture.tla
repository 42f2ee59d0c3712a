---------------------------- MODULE MCSinkCapture ----------------------------
(* SinkCapture for TLC.                                                     *)
EXTENDS SinkCapture

PreviewOrBoth == {{"preview"}, {"preview", "photo"}}
Both == {{"preview", "photo"}}

AllFaults == {"pipeline", "prepare", "commit", "shot", "denied", "timeout", "crossing",
              "streams"}
\* Everything, everything but a commit that fails half-way, nothing.
Mishaps == {AllFaults, AllFaults \ {"commit"}, {}}
CommitFails == {{"commit"}}
=============================================================================
