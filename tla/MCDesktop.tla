----------------------------- MODULE MCDesktop -----------------------------
EXTENDS Desktop

MCPoints == {Launcher, 0, 1, 2, 3, 4, Icon(0)}
MCRequests == {[x |-> 0, w |-> 2], [x |-> 4, w |-> 3]}
=============================================================================
