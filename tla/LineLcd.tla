------------------------------- MODULE LineLcd -------------------------------
(***************************************************************************)
(* What lib/libfahw-mcp23017.h and libfahw-pcf8574.h promise their callers:*)
(* a display of two lines with one cursor.  A call clears it, or moves the *)
(* cursor and puts text there; calls of several threads mix by operations. *)
(* The display keeps the promise only while it is trusted: from an         *)
(* initialisation on until it is disturbed.                                *)
(***************************************************************************)
EXTENDS Integers, Sequences

CONSTANTS Threads, Columns, Texts

VARIABLES
  trusted,   \* the display does what it is told
  shown,     \* the character in each place, Unknown while not trusted
  cursor,    \* <<column, line>>
  todo       \* what is left of each thread's call

vars == <<trusted, shown, cursor, todo>>

(* The cursor goes on from the end of a line of forty, of which sixteen    *)
(* are seen, to the other line.                                            *)
After(p) == IF p[1] = 39 THEN <<0, 1 - p[2]>> ELSE <<p[1] + 1, p[2]>>

Places  == Columns \X {0, 1}
Blank   == 32
Unknown == 0
Home    == <<0, 0>>
NoWhere == <<-1, 0>>
AllOf(c) == [p \in Places |-> c]

Clear    == [op |-> "clear"]
Move(p)  == [op |-> "move", to |-> p]
Put(c)   == [op |-> "put", char |-> c]
Setup    == [op |-> "setup"]       \* part of an initialisation

Ops == {Clear, Setup} \cup [op : {"move"}, to : Places] \cup [op : {"put"}, char : 0 .. 255]

Text(p, s) == <<Move(p)>> \o [i \in 1 .. Len(s) |-> Put(s[i])]
Lines(s)   == Text(<<0, 0>>, s[1]) \o Text(<<0, 1>>, s[2])
Calls ==
  {<<Clear>>} \cup {Text(p, s) : p \in Places, s \in Texts}
              \cup {Lines(s) : s \in Texts \X Texts}
-----------------------------------------------------------------------------
Init ==
  /\ trusted = FALSE
  /\ shown = AllOf(Unknown) /\ cursor = NoWhere
  /\ todo = [t \in Threads |-> <<>>]

Call(t) ==
  /\ todo[t] = <<>> /\ todo'[t] # <<>>
  /\ UNCHANGED <<trusted, shown, cursor>>
  /\ \E c \in Calls : todo' = [todo EXCEPT ![t] = c]

Serve(t) ==
  /\ trusted /\ todo[t] # <<>>
  /\ LET o == Head(todo[t]) IN
       CASE o.op = "clear" -> shown' = AllOf(Blank) /\ cursor' = Home
         [] o.op = "move"  -> cursor' = o.to /\ UNCHANGED shown
         [] o.op = "put"   ->
              /\ shown' = [p \in Places |-> IF p = cursor THEN o.char ELSE shown[p]]
              /\ cursor' = After(cursor)
  /\ todo' = [todo EXCEPT ![t] = Tail(@)]
  /\ UNCHANGED trusted

(* A call that reports an error leaves the rest of its work undone.        *)
GiveUp(t) ==
  /\ todo' = [todo EXCEPT ![t] = <<>>]
  /\ UNCHANGED <<trusted, shown, cursor>>

AllGiveUp ==
  /\ todo' = [t \in Threads |-> <<>>]
  /\ UNCHANGED <<trusted, shown, cursor>>

(* Trust is lost; nothing is promised then but that setting up ends it.    *)
Forfeit ==
  /\ trusted' = FALSE
  /\ shown' = AllOf(Unknown) /\ cursor' = NoWhere
  /\ todo' \in [Threads -> Seq(Ops)]

Ready ==
  /\ ~trusted /\ trusted'
  /\ shown' = AllOf(Unknown) /\ cursor' = Home
  /\ todo' = [t \in Threads |-> <<>>]

Next ==
  \/ \E t \in Threads : Call(t) \/ Serve(t) \/ GiveUp(t)
  \/ AllGiveUp \/ Forfeit \/ Ready

Spec == Init /\ [][Next]_vars
=============================================================================
