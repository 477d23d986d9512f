----------------------------- MODULE ConfigFile ------------------------------
(***************************************************************************)
(* lib/config.c: getconfigstr looks for one key of one section in a file   *)
(* of lines, one line at a time.  A line is a sequence of characters; the  *)
(* tests of a line are those of the code, said over the whole line.        *)
(***************************************************************************)
EXTENDS Integers, Sequences, FiniteSets

CONSTANTS
  Entries,     \* what the lines of a file may say: see Rendered
  MaxLines,    \* bound on the lines of a file
  Section, KeyName,    \* what is looked for
  Letters,     \* the letters and digits
  LineLen,     \* LINE_LEN: the size of kev
  BufLen       \* len: the size of the caller's buffer

(* The characters of a line that the code tells apart.                     *)
Blank == " "
Opening == "["
Closing == "]"
Equals == "="
Hash == "#"
Backslash == "\\"
Marks == {Blank, Opening, Closing, Equals, Hash, Backslash}
Chars == Letters \cup Marks

ASSUME EntriesAssumption ==
  \A e \in Entries : /\ e.kind \in {"section", "key", "part", "remark"}
                     /\ e.name \in Seq(Chars) /\ e.value \in Seq(Chars)
                     /\ e.joint \in BOOLEAN /\ e.wide \in BOOLEAN
ASSUME LettersAssumption == Letters \cap Marks = {}
ASSUME WordsAssumption ==    \* names and values are words; what is joined is not empty
  \A e \in Entries : e.kind # "remark" =>
    /\ e.name \in Seq(Letters) /\ e.value \in Seq(Letters)
    /\ e.joint \/ e.kind = "part" => e.value # <<>>
ASSUME KeyAssumption   == KeyName # <<>> /\ Section # <<>>
ASSUME SizesAssumption == LineLen \in Nat \ {0} /\ BufLen \in Nat

VARIABLES
  entries,     \* history: what the file's lines say
  newline,     \* the last line ends with a newline
  pos,         \* lines read
  found,       \* step: 0, in search of the section, 1, of the key, 2, of the rest
  kev,         \* the value so far
  result       \* [code, value, ended]: what getconfigstr returns, and stores

vars == <<entries, newline, pos, found, kev, result>>

Running == [code |-> -1, value |-> <<>>, ended |-> TRUE]

Blanks == {Blank}
Graph(s)   == {i \in 1 .. Len(s) : s[i] \notin Blanks}
Least(S)   == CHOOSE i \in S : \A j \in S : i <= j
Most(S)    == CHOOSE i \in S : \A j \in S : i >= j
Where(s, c) == {i \in 1 .. Len(s) : s[i] = c}
From(s, i) == SubSeq(s, i, Len(s))
-----------------------------------------------------------------------------
(* isjoint: blanks and one backslash, a blank first.                       *)
isjoint(s) ==
  /\ s # <<>> /\ s[1] \in Blanks
  /\ \A i \in 1 .. Len(s) : s[i] \in Blanks \cup {Backslash}
  /\ Cardinality(Where(s, Backslash)) = 1

(* Mutant: the mark of a remark must stand in the first column. *)
isremarkFirst(s) == Graph(s) = {} \/ s[1] = Hash

isremark(s) == Graph(s) = {} \/ s[Least(Graph(s))] = Hash

(* getsection and getkeyname: the name, or <<>> if the line has none.      *)
getsection(s) ==
  IF Graph(s) = {} THEN <<>>
  ELSE LET i == Least(Graph(s))
           j == Most(Graph(s))
           n == SubSeq(s, i + 1, j - 1)
       IN IF s[i] = Opening /\ s[j] = Closing /\ \A k \in 1 .. Len(n) : n[k] \in Letters
            THEN n ELSE <<>>

getkeyname(s) ==
  IF Graph(s) = {} \/ Where(s, Equals) = {} THEN <<>>
  ELSE LET before == SubSeq(s, 1, Least(Where(s, Equals)) - 1)
           g      == Graph(before)
       IN IF g = {} \/ (\E i \in g : before[i] \notin Letters) THEN <<>>
          ELSE IF \E i \in Least(g) .. Most(g) : before[i] \in Blanks THEN <<>>
          ELSE SubSeq(before, Least(g), Most(g))

(* The first word of a text, and whether a backslash joins the next line.  *)
Word(s) ==
  LET i    == Least(Graph(s))
      stop == {j \in i .. Len(s) : s[j] \in Blanks}
      j    == IF stop = {} THEN Len(s) + 1 ELSE Least(stop)
  IN [text |-> SubSeq(s, i, j - 1), joint |-> isjoint(From(s, j))]

(* getkeyvalue and getkeyadd: the word cut to the room in kev; no word, or *)
(* no room, is an empty one.                                               *)
Cut(s, room) ==
  IF Graph(s) = {} THEN [text |-> <<>>, joint |-> FALSE]
  ELSE LET w == Word(s)
       IN IF room > Len(w.text) THEN w ELSE [w EXCEPT !.text = SubSeq(@, 1, room - 1)]

getkeyvalue(s) == Cut(From(s, Least(Where(s, Equals)) + 1), LineLen)

(* Mutant: kev + rs is given the whole room. *)
getkeyaddWhole(s) == Cut(s, LineLen)

getkeyadd(s) == Cut(s, LineLen - Len(kev))

(* readline: the last character goes, newline or not.                      *)
readline(s, whole) == IF whole THEN s ELSE SubSeq(s, 1, Len(s) - 1)
-----------------------------------------------------------------------------
(* What an entry looks like in the file.                                   *)
Rendered(e) ==
  LET pad  == IF e.wide THEN <<Blank>> ELSE <<>>
      tail == IF e.joint THEN <<Blank, Backslash>> ELSE pad
  IN CASE e.kind = "section" -> pad \o <<Opening>> \o e.name \o <<Closing>> \o pad
       [] e.kind = "key"     -> (pad \o e.name \o pad) \o <<Equals>> \o (pad \o e.value \o tail)
       [] e.kind = "part"    -> pad \o e.value \o tail
       [] e.kind = "remark"  -> pad \o <<Hash>> \o e.value

Init ==
  /\ entries \in UNION {[1 .. n -> Entries] : n \in 1 .. MaxLines}
  /\ newline \in BOOLEAN
  /\ pos = 0 /\ found = 0 /\ kev = <<>> /\ result = Running

Return(code) ==
  result' = [code |-> code,
             value |-> IF code = 0 THEN SubSeq(kev', 1, IF Len(kev') > BufLen THEN BufLen ELSE Len(kev'))
                       ELSE <<>>,
             ended |-> code # 0 \/ Len(kev') < BufLen]

(* A part of the value: the last one, one that the next line continues, or *)
(* none where there must be one.                                           *)
Collect(w) ==
  /\ kev' = kev \o w.text
  /\ IF w.text = <<>> THEN Return(4) /\ UNCHANGED found
     ELSE IF w.joint  THEN found' = 2 /\ UNCHANGED result
     ELSE Return(0) /\ UNCHANGED found

Line(i) == readline(Rendered(entries[i]), i < Len(entries) \/ newline)

Skip == UNCHANGED <<found, kev, result>>

Read ==
  /\ result = Running /\ pos < Len(entries)
  /\ pos' = pos + 1
  /\ LET s == Line(pos') IN
       IF isremark(s) THEN Skip
       ELSE \/ /\ found = 0
               /\ found' = IF getsection(s) = Section THEN 1 ELSE 0
               /\ UNCHANGED <<kev, result>>
            \/ /\ found = 1
               /\ IF getkeyname(s) = KeyName THEN Collect(getkeyvalue(s)) ELSE Skip
            \/ found = 2 /\ Collect(getkeyadd(s))
  /\ UNCHANGED <<entries, newline>>

(* After a last newline feof does not hold yet, and the next read fails.   *)
EndOfFile ==
  /\ result = Running /\ pos = Len(entries)
  /\ kev' = kev /\ Return(IF newline THEN 3 ELSE 5)
  /\ UNCHANGED <<entries, newline, pos, found>>

Next == Read \/ EndOfFile

Spec == Init /\ [][Next]_vars
-----------------------------------------------------------------------------
(* Every variable keeps its type: kev has room for its terminator, however *)
(* many lines are joined.                                                  *)
TypeOK ==
  /\ pos \in 0 .. Len(entries) /\ found \in 0 .. 2
  /\ Len(kev) < LineLen
  /\ result.code \in {-1, 0, 3, 4, 5} /\ Len(result.value) <= BufLen
  /\ result.ended \in BOOLEAN

Is(i, kind, name) == entries[i].kind = kind /\ entries[i].name = name
Lines(a, b, kind, name) == {i \in a .. b : Is(i, kind, name)}

(* The lines a key's value stands in: its own and, while they are joined,  *)
(* the ones after it that are no remarks.                                  *)
Parts(k) ==
  LET after == {k} \cup {j \in k + 1 .. Len(entries) : entries[j].kind # "remark"}
      plain == {j \in after : ~entries[j].joint}
  IN [lines |-> IF plain = {} THEN after ELSE {j \in after : j <= Least(plain)}, whole |-> plain # {}]

Joined(es, S) ==
  LET upTo[i \in 0 .. Len(es)] ==
        IF i = 0 THEN <<>> ELSE upTo[i - 1] \o (IF i \in S THEN es[i].value ELSE <<>>)
  IN upTo
Text(S) == Joined(entries, S)[Len(entries)]

(* What reading key line k must return: the parts of its value in order,   *)
(* cut to the caller's buffer, which then has no terminator.               *)
Meant(k) ==
  LET p == Parts(k)
      v == Text(p.lines)
  IN IF entries[k].value = <<>> THEN result.code = 4
     ELSE IF Len(v) >= LineLen THEN result.code \in {0, 3, 4}
     ELSE IF ~p.whole THEN result.code = 3
     ELSE /\ result.code = 0 /\ result.ended = (Len(v) < BufLen)
          /\ result.value = IF result.ended THEN v ELSE SubSeq(v, 1, BufLen)

(* Reading a file gives what the file says, for every mixture of remarks,  *)
(* sections, keys, joined lines and blanks, if its last line has a newline *)
(* and joined lines are followed by parts of a value only.                 *)
ReadsIni ==
  result # Running /\ newline =>
    LET heads == Lines(1, Len(entries), "section", Section)
        keys  == IF heads = {} THEN {} ELSE Lines(Least(heads) + 1, Len(entries), "key", KeyName)
    IN IF keys = {} THEN result.code = 3
       ELSE LET k == Least(keys)
            IN (\A i \in Parts(k).lines \ {k} : entries[i].kind = "part") => Meant(k)
=============================================================================
