---------------------------- MODULE MCFragments ----------------------------
EXTENDS Fragments
=============================================================================
