---------------------------- MODULE MCVpnService ----------------------------
\* Small instances of VpnService.
EXTENDS VpnService

MCNoFailure == {}
MCAllFail   == AllFailures

=============================================================================
