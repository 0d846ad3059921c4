---------------------------- MODULE MCMigration ----------------------------
EXTENDS Migration

CONSTANTS a1, a2, NoAddrValue
MCAddrs == {a1, a2}
=============================================================================
