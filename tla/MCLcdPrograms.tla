--------------------------- MODULE MCLcdPrograms -----------------------------
(***************************************************************************)
(* Texts for TLC: the first one or two characters of the real ones.        *)
(***************************************************************************)
EXTENDS LcdPrograms

MCPort    == <<80, 79>>    \* "PORT: 8000"
MCAddress == <<49>>        \* the address
MCConnect == <<67>>        \* "Connectivity"
MCWorking == <<80>>        \* "Program working"
MCRestart == <<82>>        \* "Restart..."
MCWelcome == <<87>>        \* "Welcom!"
MCChunk   == <<72, 51>>    \* what the client sends
MCTitle   == <<66, 38>>    \* "B&G Char LCD"
MCBy      == <<45, 45>>    \* "--by FriendlyARM"
MCTexts   == {MCPort, MCAddress, MCConnect, MCWorking, MCRestart, MCWelcome,
              MCChunk, MCTitle, MCBy}
=============================================================================
