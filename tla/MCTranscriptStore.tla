------------------------- MODULE MCTranscriptStore -------------------------
(* A session with a process that replays it, in pages or at once. *)
EXTENDS TranscriptStore

CONSTANT r1

OneReader == {r1}

=============================================================================
