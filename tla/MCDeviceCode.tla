---------------------------- MODULE MCDeviceCode ----------------------------
EXTENDS DeviceCode, TLC

Interchangeable == Permutations(People) \cup Permutations(Browsers) \cup Permutations(Machines)
=============================================================================
