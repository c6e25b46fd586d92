---------------------------- MODULE MCHTTPServer ----------------------------
(* Two connections with two requests each.                                  *)
EXTENDS HTTPServer

CONSTANTS x, y

mcConnections == {x, y}

\* Nothing; two fields of which the first comes in two pieces, with a NUL in
\* the second piece.
mcBodies == {<< >>, <<<<1, 2>>, <<3, 0, 4>>, <<5>>>>}
=============================================================================
