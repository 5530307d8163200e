------------------------------ MODULE MCTerminalUi ------------------------------
EXTENDS TerminalUi

\* Two providers, and a query that leaves nothing of one of them.
MCUiModels ==
  << <<[name |-> "m1", fits |-> 0], [name |-> "m2", fits |-> 1]>>, <<[name |-> "m3", fits |-> 1]>> >>
MCUiPalette ==
  <<[name |-> "picker", fits |-> 1], [name |-> "search", fits |-> 0],
    [name |-> "new", fits |-> 2], [name |-> "decline", fits |-> 0]>>
=============================================================================
