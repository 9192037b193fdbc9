---------------------------- MODULE MCThreadPool ----------------------------
\* ThreadPool for TLC: the sizes a pool is made with, -1 for the default.
EXTENDS ThreadPool

MCSizes == {-1, 0, 2}

=============================================================================
