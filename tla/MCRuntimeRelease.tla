-------------------------- MODULE MCRuntimeRelease --------------------------
(* The two runtimes that a package leaves out, agy and claude, which has two *)
(* parts; and kimi, whose vendored tree carries hooks of its own.            *)
EXTENDS RuntimeRelease
=============================================================================
