---------------------------- MODULE MCFcsService ----------------------------
EXTENDS FcsService

CONSTANTS c1, c2

given(argc, port, level) == [argc |-> argc, port |-> port, level |-> level]

\* The unit's own command line.
AsInstalled == {given(3, 50001, "Info")}

\* One for every branch of main, and ports around sixteen bits.
AllCommandLines ==
  AsInstalled \cup
    { given(1, NotANumber, ""), given(2, NotANumber, ""), given(2, 0, ""),
      given(3, NotANumber, "Fatal"), given(3, 50001, "Fatal"), given(3, 50001, "Error"),
      given(3, 50001, "Loud"), given(4, 50001, "Debug"), given(2, 115537, ""), given(2, -1, "") }

=============================================================================
