-------------------------- MODULE MCCurlDataSource --------------------------
\* A small file, read through a ring buffer that holds less than it.
EXTENDS CurlDataSource

CONSTANTS c1, c2

TwoConnections == {c1, c2}
=============================================================================
