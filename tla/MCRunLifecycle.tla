--------------------------- MODULE MCRunLifecycle ---------------------------
(* A run and another one, whose registration prunes the files of the first *)
(* and which is over when its devices stay busy.                           *)
EXTENDS RunLifecycle

CONSTANTS h1, h2, r1

\* A start command watches the first, or a reader asks about it; it may be killed.
MCStart == {[detached |-> {h1}, asked |-> {}, mortal |-> {h1}, busy |-> {h2}]}
MCAsk == {[detached |-> {}, asked |-> {h1}, mortal |-> {h1}, busy |-> {h2}]}
MCStartOrAsk == MCStart \cup MCAsk
=============================================================================
