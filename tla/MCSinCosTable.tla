---------------------------- MODULE MCSinCosTable ----------------------------
EXTENDS SinCosTable

MCPrecisions == {-1, 0, 1}
MCAngles == {-17, -1, 15, 17}
=============================================================================
