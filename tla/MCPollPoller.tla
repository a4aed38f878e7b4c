---------------------------- MODULE MCPollPoller ----------------------------
(* PollPoller for TLC: the constants get their values in the cfg files.    *)
EXTENDS PollPoller, TLC

\* The descriptors are interchangeable.
Symmetry == Permutations(Channels)

=============================================================================
