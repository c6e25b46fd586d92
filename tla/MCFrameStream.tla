--------------------------- MODULE MCFrameStream ---------------------------
(* A program thread and the heart-beat thread on one socket, with a small    *)
(* TCP buffer so that writes block in every place.                          *)
EXTENDS FrameStream

mcWriters == {"program", "heart_beat"}
=============================================================================
