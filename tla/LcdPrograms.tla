---------------------------- MODULE LcdPrograms ------------------------------
(***************************************************************************)
(* The programs that drive an LCD1602 board: the nanopi server on the      *)
(* mcp23017 board, or the one-shot demo/matrix-i2c_lcd1602 on the pcf8574  *)
(* board.  Each may be ended anywhere and be started again on a board that *)
(* kept its power.                                                         *)
(***************************************************************************)
EXTENDS NanopiServer

CONSTANTS Title, By, MaxStarts

Main == "main"

ASSUME MainAssumption == Main \in Threads /\ {Title, By} \subseteq Texts
ASSUME StartsAssumption == MaxStarts \in Nat

VARIABLES dpc, starts

vars == <<lcdVars, nanoVars, dpc, starts>>

Init == LcdInit /\ NanoInit /\ dpc = "off" /\ starts = 0

DAt(l)   == dpc = l /\ Idle(Main)
Starts   == starts < MaxStarts /\ starts' = starts + 1

(* LCD1602Init, LCD1602Clear, LCD1602DispLines; an error ends the program. *)
DemoInit ==
  /\ DAt("off") /\ Starts
  /\ Boot(Main) /\ dpc' = "booted"

DemoClear ==
  /\ DAt("booted")
  /\ IF ret[Main] = -1 THEN dpc' = "off" /\ UNCHANGED lcdVars
                       ELSE dpc' = "cleared" /\ Call(Main, LCD1602Clear)
  /\ UNCHANGED starts

DemoLines ==
  /\ DAt("cleared")
  /\ IF ret[Main] = -1 THEN dpc' = "off" /\ UNCHANGED lcdVars
                       ELSE dpc' = "lines" /\ Call(Main, LCD1602DispLines(Title, By))
  /\ UNCHANGED starts

DemoEnd == DAt("lines") /\ dpc' = "off" /\ UNCHANGED <<lcdVars, starts>>

DemoKilled == dpc # "off" /\ Halt /\ dpc' = "off" /\ UNCHANGED starts

Demo ==
  \/ DemoInit \/ DemoClear \/ DemoLines \/ DemoEnd \/ DemoKilled
  \/ Transfer(Main) /\ UNCHANGED <<dpc, starts>>

Nanopi ==
  /\ NanoNext
  /\ IF kpc = "off" /\ kpc' # "off" THEN Starts ELSE UNCHANGED starts

Next ==
  \/ board = "mcp" /\ Nanopi /\ UNCHANGED dpc
  \/ board = "pcf" /\ Demo /\ UNCHANGED nanoVars

Spec == Init /\ [][Next]_vars
-----------------------------------------------------------------------------
(* Every variable keeps its type.                                          *)
TypeOK ==
  /\ LcdTypeOK /\ NanoTypeOK
  /\ dpc \in {"off", "booted", "cleared", "lines"} /\ starts \in 0 .. MaxStarts
=============================================================================
