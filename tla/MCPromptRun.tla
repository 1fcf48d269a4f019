----------------------------- MODULE MCPromptRun -----------------------------
(* A session with a transcript, an event before its turn and three in it.  *)
EXTENDS PromptRun

CONSTANT e1

OneSession == {e1}
EventsOfEach == [s \in Sessions |-> 4]

=============================================================================
