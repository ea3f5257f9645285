--------------------------- MODULE MC_IPv6Tunnel ---------------------------
(* Small instances of IPv6Tunnel.tla for TLC.                              *)
EXTENDS IPv6Tunnel

\* Each argument set has one value below, one at and one above each bound
\* the code tests.
MCMTUs       == {1279, 1280, 65535, 65536}
MCPrefixLens == {-1, 64, 129}
MCSendLens   == {65535, 65536}
\* The Linux tun driver always prepends its 4-byte header to a frame.
MCReadLens   == {4, 1284}
\* The frame lengths spec.md 4.1 asks ReceivePacket to cope with.
MCShortReadLens == {2, 4}
=============================================================================
