-------------------------- MODULE MCSimpleAllocator --------------------------
EXTENDS SimpleAllocator
=============================================================================
