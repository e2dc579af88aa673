---------------------------- MODULE MCMigrations ----------------------------
EXTENDS Migrations, TLC

CONSTANTS m1, d1
=============================================================================
