---------------------------- MODULE MCBleAssembly ----------------------------
\* TLC instance of BleAssembly: frame lengths at the edges of one, two and three
\* chunks, and every first sequence number.
EXTENDS BleAssembly

EdgeLengths == {1, 18, 19, 36, 49}
=============================================================================
