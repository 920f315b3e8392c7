---------------------------- MODULE MCTcpServer ----------------------------
EXTENDS TcpServer, TLC

CONSTANTS c1, c2, c3

TwoConns == {c1, c2}
ThreeConns == {c1, c2, c3}

Symmetry == Permutations(Conns)

\* The reports handleEventIfAny closes on, and those Linux makes for a TCP
\* connection that was reset (with and without a pending error).
SingleFlags == {{POLLHUP}, {POLLERR}}
LinuxReset == {{POLLIN, POLLHUP, POLLERR}, {POLLIN, POLLHUP}}
AllHangups == SingleFlags \cup LinuxReset

=============================================================================
