--------------------------- MODULE MCPageRequest ---------------------------
(* Two threads share the downloader and ask for two addresses.              *)
EXTENDS PageRequest, SavedPages, TLC

CONSTANTS t1, t2, u1, u2

mcThreads == {t1, t2}
mcUrls    == {u1, u2}

mcSymmetry == Permutations(mcThreads) \cup Permutations(mcUrls)

-----------------------------------------------------------------------------
(* In other behaviours pages come over HTTP, are saved, and are handed out. *)

VARIABLE part  \* what is checked

\* A directory of the root has the name of the subdomain, and pages are saved
\* in it.
mcSubdomain == <<"/", "files">>
mcRoot      == <<"root">>
mcDir       == mcRoot \o mcSubdomain
mcPage      == mcDir \o <<"/", "page">>

\* The directory in the root, and the file, also with a slash at its end.
mcFileUrls == {mcSubdomain \o mcSubdomain \o <<"/">>,
               mcSubdomain \o mcSubdomain \o <<"/", "page">>,
               mcSubdomain \o mcSubdomain \o <<"/", "page", "/">>}

mcPaths   == {mcRoot, mcDir, mcPage}
mcSavedAs == {mcPage}
mcBodies  == {<<"a1", "a2">>, <<"b">>}

PartInit == /\ part \in {"python", "http"}
            /\ Init /\ PagesInit

PartNext == /\ UNCHANGED part
            /\ \/ part = "python" /\ Next /\ UNCHANGED pagesVars
               \/ part = "http" /\ PagesNext /\ UNCHANGED vars

PartSpec == PartInit /\ [][PartNext]_<<vars, pagesVars, part>>
=============================================================================
